----------------------------- MODULE MqttSource -----------------------------
(***************************************************************************)
(* A subscriber (adsb-pulsar-client source/mqtt_source.rs): one connection *)
(* for the live SBS feed and, beside it, auxiliary topics whose latest     *)
(* payload is kept in a watch channel each.                                *)
(*                                                                         *)
(* The broker is outside: the composing module says what it hands over     *)
(* (Subscribed, Forward).  SBS payloads leave through the broadcast        *)
(* channel, which Ingest models; here they are received and gone.          *)
(***************************************************************************)
EXTENDS Listing, SequencesExt

CONSTANTS SbsTopic, \* mqtt_topic
          NoMessage \* the initial value of a watch channel

VARIABLES
  aux,        \* the auxiliary topics, in the order of with_aux_topic
  mode,       \* where run() is
  link,       \* the connection, as the client sees it
  asked,      \* subscriptions on their way to the broker
  subscribed, \* what the broker has of them
  inbox,      \* publishes on their way to this client
  latest,     \* the watch channels of the auxiliary topics
  unseen,     \* those with a value no relay has taken yet
  transport   \* the status channel

connection == <<link, asked, subscribed, inbox>>
channels == <<latest, unseen>>
vars == <<aux, mode, connection, channels, transport>>

Aux == Range(aux)
AllTopics == Aux \cup {SbsTopic}

\* topics(): SBS first, an auxiliary topic equal to it not twice.
TopicList == <<SbsTopic>> \o Among(aux, Aux \ {SbsTopic})

\* route_publish: the SBS topic is looked at first.
Route(topic) ==
  CASE topic = SbsTopic -> "sbs"
    [] topic # SbsTopic /\ topic \in Aux -> "aux"
    [] OTHER -> "ignore"

Closed == link' = "down" /\ asked' = <<>> /\ subscribed' = {} /\ inbox' = <<>>

\* new() and with_aux_topic: channels are empty and run() is still to come.
Fresh(topics) ==
  /\ aux = topics
  /\ mode = "off" /\ link = "down" /\ asked = <<>> /\ subscribed = {} /\ inbox = <<>>
  /\ latest = [t \in Range(topics) |-> NoMessage] /\ unseen = {}
  /\ transport = "Disconnected"

Renewed ==
  /\ mode' = "off" /\ Closed
  /\ latest' = [t \in Aux |-> NoMessage] /\ unseen' = {}
  /\ transport' = "Disconnected"
  /\ UNCHANGED aux

-----------------------------------------------------------------------------

Run ==
  /\ mode = "off" /\ mode' = "select" /\ transport' = "Connecting"
  /\ UNCHANGED <<aux, connection, channels>>

\* Subscribes on every ConnAck. Connected means that the request is queued.
ConnAck ==
  /\ mode = "select" /\ link = "down"
  /\ link' = "up" /\ asked' = TopicList /\ transport' = "Connected"
  /\ UNCHANGED <<aux, mode, subscribed, inbox, channels>>

\* The broker takes the subscriptions and sends what it retains for each.
Subscribed(retained) ==
  /\ link = "up" /\ asked # <<>>
  /\ asked' = <<>> /\ subscribed' = Range(asked)
  /\ LET held == Among(asked, {t \in Range(asked) : retained[t] # NoMessage})
     IN  inbox' = inbox \o [i \in DOMAIN held |-> <<held[i], retained[held[i]]>>]
  /\ UNCHANGED <<aux, mode, link, channels, transport>>

\* The broker passes on what is published while this client is subscribed.
Forward(messages) ==
  /\ inbox' = inbox \o Among(messages, {m \in Range(messages) : m[1] \in subscribed})
  /\ UNCHANGED <<aux, mode, link, asked, subscribed, channels, transport>>

Receive ==
  /\ mode = "select" /\ inbox # <<>>
  /\ inbox' = Tail(inbox)
  /\ LET m == Head(inbox)
     IN  IF Route(m[1]) = "aux"
         THEN latest' = [latest EXCEPT ![m[1]] = m[2]]
              /\ unseen' = unseen \cup {m[1]}
         ELSE UNCHANGED channels
  /\ UNCHANGED <<aux, mode, link, asked, subscribed, transport>>

\* The error ends the connection and what was under way on it; the sleep that
\* paces the retry is inside the branch.
PollError ==
  /\ mode = "select"
  /\ Closed /\ mode' = "sleep" /\ transport' = "Connecting"
  /\ UNCHANGED <<aux, channels>>

Wake ==
  /\ mode = "sleep" /\ mode' = "select"
  /\ UNCHANGED <<aux, connection, channels, transport>>

\* shutdown() was called; noticed in the select only.
Shutdown ==
  /\ mode = "select" /\ mode' = "done" /\ Closed /\ transport' = "Disconnected"
  /\ UNCHANGED <<aux, channels>>

\* The task is aborted with everything it holds.
Abort ==
  /\ mode # "done" /\ mode' = "done" /\ Closed
  /\ UNCHANGED <<aux, channels, transport>>

\* payloads.changed() and borrow_and_update() in a relay.
Take(topic) ==
  /\ topic \in unseen /\ unseen' = unseen \ {topic}
  /\ UNCHANGED <<aux, mode, connection, latest, transport>>

-----------------------------------------------------------------------------

TypeOK ==
  /\ mode \in {"off", "select", "sleep", "done"}
  /\ link \in {"down", "up"}
  /\ asked \in Seq(AllTopics) /\ subscribed \subseteq AllTopics
  /\ \A i \in DOMAIN inbox : inbox[i][1] \in AllTopics
  /\ unseen \subseteq Aux
  /\ transport \in {"Disconnected", "Connecting", "Connected"}
=============================================================================
