----------------------- MODULE WeatherDeliveryProofs -----------------------
(***************************************************************************)
(* For any number of faults, changes and snapshots and any model hours:    *)
(* the broker never announces a service online that has gone, a model hour *)
(* is recorded once, and everything in between has its type.               *)
(*                                                                         *)
(* AvailabilityHonest is not inductive by itself: a service that leaves in *)
(* order gives up its session, and with it the last will, so what it has   *)
(* queued before must end with "offline" (Leaving).  RecordedOnce needs    *)
(* that the table only grows (HoursInv) and, for what the relays show and  *)
(* store, that a payload keeps to its topic all the way: in the queue of   *)
(* the publisher, in what the broker retains, in what it forwards and in   *)
(* the channels of the consumer (Types, PublisherTyped, FeedTyped).        *)
(***************************************************************************)
EXTENDS WeatherDelivery, SequenceTheorems, Counting

(***************************************************************************)
(* The invariant of the publisher and the broker.                          *)
(***************************************************************************)
Payloads == (1 .. MaxSnapshots) \cup Service!Status \cup Service!Availability
Message == {m \in Topics \X Payloads : m[2] \in Service!Payload(m[1])}
Offline == <<"availability", "offline">>

Types ==
  /\ desired \in BOOLEAN /\ reported \in Reports /\ snapshot \in 0 .. MaxSnapshots
  /\ status \in Service!Status
  /\ queue \in Seq(Message)
  /\ DOMAIN retained = Topics /\ retained = [t \in Topics |-> retained[t]]
  /\ session \in BOOLEAN

\* While the service leaves in order, the last thing it says is "offline".
Leaving ==
  phase = "leaving" /\ session =>
    /\ queue = <<>> => retained["availability"] # "online"
    /\ queue # <<>> => queue[Len(queue)] = Offline

Inv == Types /\ Leaving /\ AvailabilityHonest

\* What stands for no payload is none of the availability topic's.
LEMMA NoneIsNoPayload == None # "online"
BY PayloadAssumption DEF Topics, Service!Topics, Service!Payload, Service!Availability

\* The three topics of the service.
LEMMA TopicsAre == Topics = {"grid", "status", "availability"}
BY DEF Topics, Service!Topics

\* What the topics carry.
LEMMA PayloadsAre ==
  /\ Service!Payload("grid") = 1 .. MaxSnapshots
  /\ Service!Payload("status") = Service!Status
  /\ Service!Payload("availability") = Service!Availability
BY DEF Service!Payload

(***************************************************************************)
(* The messages the publisher queues.                                      *)
(***************************************************************************)
LEMMA MessagesQueued ==
  ASSUME Types
  PROVE  /\ Service!Grid("NewSnapshot") \in Seq(Message)
         /\ Service!StatusNow("NewStatus") \in Seq(Message)
         /\ Service!Announcement \in Seq(Message)
         /\ Offline \in Message
<1> USE DeliveryAssumption
<1>1. snapshot # 0 => <<"grid", snapshot>> \in Message
  BY TopicsAre, PayloadsAre DEF Types, Message, Payloads
<1>2. <<"status", status>> \in Message
  BY TopicsAre, PayloadsAre DEF Types, Message, Payloads
<1>3. <<"availability", "online">> \in Message /\ Offline \in Message
  BY TopicsAre, PayloadsAre DEF Message, Payloads, Offline, Service!Availability
<1>s. <<>> \in Seq(Message) /\ \A m \in Message : <<m>> \in Seq(Message)
  OBVIOUS
<1>4. \A trigger : Service!Grid(trigger) \in Seq(Message)
  <2>1. \A trigger : Service!Grid(trigger) = <<>> \/ (snapshot # 0 /\ Service!Grid(trigger) = << <<"grid", snapshot>> >>)
    BY DEF Service!Grid, Service!PublishesGrid, Service!Publish
  <2> QED BY <2>1, <1>1, <1>s
<1>5. \A trigger : Service!StatusNow(trigger) \in Seq(Message)
  <2>1. \A trigger : Service!StatusNow(trigger) = <<>> \/ Service!StatusNow(trigger) = << <<"status", status>> >>
    BY DEF Service!StatusNow, Service!Publish
  <2> QED BY <2>1, <1>2, <1>s
<1>6. Service!Announcement \in Seq(Message)
  BY <1>3, <1>4, <1>5 DEF Service!Announcement, Service!Publish
<1> QED BY <1>3, <1>4, <1>5, <1>6

\* projection::project makes a status of a setting and a report.
LEMMA ProjectType ==
  ASSUME NEW e \in BOOLEAN, NEW r \in Reports PROVE Service!Project(e, r) \in Service!Status
BY DEF Service!Project, Service!Status

(***************************************************************************)
(* What a step may do to the publisher's side.  Every action of Next is    *)
(* one of these: the steps of the consumer leave it alone.                 *)
(***************************************************************************)
ServiceStep ==
  \/ Service!SetDesired \/ Service!ReportState \/ Service!NewSnapshot \/ Service!UpdateStatus
  \/ Service!OnSnapshot \/ Service!OnStatus \/ Service!ConnAck \/ Service!Send
  \/ \E n \in DOMAIN queue : Service!SendUnacknowledged(n)
  \/ Service!PollError \/ Service!Wake \/ Service!GoOffline \/ Service!Disconnected
  \/ Service!GiveUp \/ Service!Crash \/ Service!Restart
  \/ Service!SessionLost \/ Service!BrokerRestart
  \/ UNCHANGED service

\* Whatever happens, the service and the broker take one of these steps.
LEMMA StepIsServiceStep == [Next]_vars => ServiceStep
<1> SUFFICES ASSUME [Next]_vars PROVE ServiceStep OBVIOUS
<1>1. CASE ServiceChanges BY <1>1 DEF ServiceChanges, ServiceStep
<1>2. CASE ServiceWorks BY <1>2 DEF ServiceWorks, ServiceStep
<1>3. CASE ServiceConnects BY <1>3 DEF ServiceConnects, ServiceStep
<1>4. CASE ServiceSends BY <1>4 DEF ServiceSends, ServiceStep
<1>5. CASE ServiceNotices BY <1>5 DEF ServiceNotices, ServiceStep
<1>6. CASE ServiceFails BY <1>6 DEF ServiceFails, ServiceStep
<1>7. CASE ServiceFailsSending BY <1>7 DEF ServiceFailsSending, ServiceStep
<1>8. CASE ServiceRestarts BY <1>8 DEF ServiceRestarts, ServiceStep
<1>9. CASE SessionExpires BY <1>9 DEF SessionExpires, ServiceStep
<1>10. CASE SessionBreaks BY <1>10 DEF SessionBreaks, ServiceStep
<1>11. CASE BrokerRestarts BY <1>11 DEF BrokerRestarts, ServiceStep
<1>12. CASE FeedWorks BY <1>12 DEF FeedWorks, ServiceStep
<1>13. CASE ForeignPayload BY <1>13 DEF ForeignPayload, ServiceStep
<1>14. CASE FeedFails BY <1>14 DEF FeedFails, ServiceStep
<1>15. CASE FeedStartsAgain BY <1>15 DEF FeedStartsAgain, ServiceStep
<1>16. CASE RelayGrid BY <1>16 DEF RelayGrid, ServiceStep
<1>17. CASE Persist BY <1>17 DEF Persist, ServiceStep
<1>18. CASE RelayService("status") \/ RelayService("availability")
  BY <1>18 DEF RelayService, ServiceStep
<1>19. CASE Quiet \/ UNCHANGED vars BY <1>19 DEF Quiet, vars, service, ServiceStep
<1> QED BY <1>1, <1>2, <1>3, <1>4, <1>5, <1>6, <1>7, <1>8, <1>9, <1>10, <1>11, <1>12, <1>13, <1>14,
           <1>15, <1>16, <1>17, <1>18, <1>19 DEF Next

\* A service that has not connected yet has announced nothing.
LEMMA InitInv == Init => Inv
<1> SUFFICES ASSUME Init PROVE Inv OBVIOUS
<1>1. /\ desired \in BOOLEAN /\ reported = FirstReport /\ snapshot \in {0, 1}
      /\ status = Service!Project(desired, reported) /\ queue = <<>> /\ session = FALSE
      /\ phase = "select" /\ retained = [t \in Topics |-> None]
  BY DEF Init, Service!Init, Topics
<1>2. Types
  <2>1. reported \in Reports /\ snapshot \in 0 .. MaxSnapshots
    BY <1>1, DeliveryAssumption
  <2>2. status \in Service!Status
    BY <1>1, <2>1, ProjectType
  <2>3. queue \in Seq(Message)
    BY <1>1, EmptySeq
  <2>5. session \in BOOLEAN
    BY <1>1
  <2>4. DOMAIN retained = Topics /\ retained = [t \in Topics |-> retained[t]]
    BY <1>1
  <2> QED BY <1>1, <2>1, <2>2, <2>3, <2>4, <2>5 DEF Types
<1>3. retained["availability"] = None
  BY <1>1, TopicsAre
<1> QED BY <1>1, <1>2, <1>3, NoneIsNoPayload DEF Inv, Leaving, AvailabilityHonest

(***************************************************************************)
(* Every step of the service and of the broker keeps the invariant.        *)
(***************************************************************************)
LEMMA StepInv == Inv /\ [Next]_vars => Inv'
<1> SUFFICES ASSUME Inv, ServiceStep PROVE Inv'
  BY StepIsServiceStep
<1> USE DeliveryAssumption
<1>t. Types /\ Leaving /\ AvailabilityHonest
  BY DEF Inv
<1>1. CASE Service!SetDesired \/ Service!ReportState \/ Service!NewSnapshot \/ Service!UpdateStatus
  <2>1. UNCHANGED <<phase, queue, session, retained>>
    BY <1>1 DEF Service!SetDesired, Service!ReportState, Service!NewSnapshot, Service!UpdateStatus,
       Service!task, Service!broker
  <2>2. desired' \in BOOLEAN /\ reported' \in Reports /\ snapshot' \in 0 .. MaxSnapshots
    <3>1. CASE Service!SetDesired
      BY <3>1, <1>t DEF Types, Service!SetDesired
    <3>2. CASE Service!ReportState
      BY <3>2, <1>t DEF Types, Service!ReportState
    <3>3. CASE Service!NewSnapshot
      BY <3>3, <1>t DEF Types, Service!NewSnapshot
    <3>4. CASE Service!UpdateStatus
      BY <3>4, <1>t DEF Types, Service!UpdateStatus, Service!inputs
    <3> QED BY <1>1, <3>1, <3>2, <3>3, <3>4
  <2>3. status' \in Service!Status
    BY <1>1, <1>t, ProjectType DEF Types, Service!SetDesired, Service!ReportState, Service!NewSnapshot,
       Service!UpdateStatus
  <2> QED BY <2>1, <2>2, <2>3, <1>t DEF Inv, Types, Leaving, AvailabilityHonest
<1>2. CASE Service!OnSnapshot \/ Service!OnStatus \/ Service!ConnAck
  <2>1. UNCHANGED <<desired, reported, snapshot, status, phase>> /\ phase = "select"
    BY <1>2 DEF Service!OnSnapshot, Service!OnStatus, Service!ConnAck, Service!inputs
  <2>2. queue' \in Seq(Message)
    <3>1. queue' \in {queue \o Service!Grid("NewSnapshot"), queue \o Service!StatusNow("NewStatus"),
                     queue \o Service!Announcement}
      BY <1>2 DEF Service!OnSnapshot, Service!OnStatus, Service!ConnAck
    <3>2. queue \in Seq(Message)
      BY <1>t DEF Types
    <3>3. \A s \in Seq(Message) : queue \o s \in Seq(Message)
      BY <3>2, ConcatProperties
    <3> QED BY <3>1, <3>3, <1>t, MessagesQueued
  <2>3. \/ UNCHANGED <<session, retained>>
        \/ session' = TRUE /\ retained' \in {retained, Service!WillFired}
    BY <1>2 DEF Service!OnSnapshot, Service!OnStatus, Service!ConnAck, Service!broker
  <2>4. Types'
    BY <2>1, <2>2, <2>3, <1>t DEF Types, Service!WillFired
  <2> QED BY <2>1, <2>3, <2>4, <1>t DEF Inv, Leaving, AvailabilityHonest
<1>3. CASE Service!Send
  <2>1. /\ session /\ session' = session /\ queue # <<>> /\ queue' = Tail(queue)
        /\ UNCHANGED <<desired, reported, snapshot, status, phase>>
        /\ retained' = [retained EXCEPT ![Head(queue)[1]] = Head(queue)[2]]
    BY <1>3 DEF Service!Send, Service!Stored, Service!inputs
  <2>2. /\ Head(queue) \in Message /\ Head(queue) = queue[1] /\ queue' \in Seq(Message)
        /\ Len(queue) \in Nat \ {0} /\ Len(queue') = Len(queue) - 1
        /\ \A i \in 1 .. Len(queue') : queue'[i] = queue[i + 1]
    BY <2>1, <1>t, HeadTailProperties DEF Types
  <2>3. Types'
    BY <2>1, <2>2, <1>t DEF Types
  <2>4. ASSUME phase' = "leaving" PROVE Leaving'
    <3>1. queue[Len(queue)] = Offline
      BY <2>1, <2>4, <1>t DEF Leaving
    <3>2. CASE queue' = <<>>
      <4>1. Len(queue) = 1
        BY <2>2, <3>2
      <4>2. retained' = [retained EXCEPT !["availability"] = "offline"]
        <5>1. Head(queue) = <<"availability", "offline">>
          BY <2>2, <3>1, <4>1 DEF Offline
        <5>2. Head(queue)[1] = "availability" /\ Head(queue)[2] = "offline"
          BY <5>1
        <5> QED BY <2>1, <5>2
      <4> QED BY <3>2, <4>2, <1>t, TopicsAre DEF Leaving, Types
    <3>3. CASE queue' # <<>>
      <4>1. Len(queue') \in Nat \ {0}
        BY <2>2, <3>3
      <4> QED BY <2>2, <3>1, <3>3, <4>1 DEF Leaving
    <3> QED BY <3>2, <3>3
  <2> QED BY <2>1, <2>3, <2>4 DEF Inv, Leaving, AvailabilityHonest
<1>4. CASE \E n \in DOMAIN queue : Service!SendUnacknowledged(n)
  <2>1. /\ session /\ UNCHANGED <<desired, reported, snapshot, status, queue, session>> /\ phase' = "sleep"
    BY <1>4 DEF Service!SendUnacknowledged, Service!inputs
  <2>2. DOMAIN retained' = Topics /\ retained' = [t \in Topics |-> retained'[t]]
    BY <1>4 DEF Service!SendUnacknowledged, Topics
  <2> QED BY <2>1, <2>2, <1>t DEF Inv, Types, Leaving, AvailabilityHonest
<1>5. CASE Service!PollError \/ Service!Wake \/ Service!GiveUp \/ Service!Crash
  <2>1. UNCHANGED <<desired, reported, snapshot, status, queue, session, retained>> /\ phase' # "leaving"
    BY <1>5 DEF Service!PollError, Service!Wake, Service!GiveUp, Service!Crash, Service!Vanish,
       Service!inputs, Service!broker
  <2> QED BY <2>1, <1>t DEF Inv, Types, Leaving, AvailabilityHonest
<1>6. CASE Service!GoOffline
  <2>1. /\ UNCHANGED <<desired, reported, snapshot, status, session, retained>>
        /\ \/ phase' = "leaving" /\ queue' = Append(queue, Offline)
           \/ phase' = "done" /\ queue' = queue
    BY <1>6 DEF Service!GoOffline, Service!inputs, Service!broker, Service!Publish, Offline
  <2>2. CASE phase' = "done" /\ queue' = queue
    BY <2>1, <2>2, <1>t DEF Inv, Types, Leaving, AvailabilityHonest
  <2>3. CASE phase' = "leaving" /\ queue' = Append(queue, Offline)
    <3>1. queue' \in Seq(Message) /\ queue' # <<>> /\ queue'[Len(queue')] = Offline
      BY <2>3, <1>t, MessagesQueued, AppendProperties DEF Types
    <3> QED BY <2>1, <3>1, <1>t DEF Inv, Types, Leaving, AvailabilityHonest
  <2> QED BY <2>1, <2>2, <2>3
<1>7. CASE Service!Disconnected
  <2>1. /\ phase = "leaving" /\ session /\ queue = <<>> /\ phase' = "done" /\ session' = FALSE
        /\ UNCHANGED <<desired, reported, snapshot, status, queue, retained>>
    BY <1>7 DEF Service!Disconnected, Service!inputs
  <2> QED BY <2>1, <1>t DEF Inv, Types, Leaving, AvailabilityHonest
<1>8. CASE Service!Restart
  <2>1. /\ phase' = "select" /\ queue' = <<>> /\ UNCHANGED <<desired, snapshot, session, retained>>
        /\ reported' = FirstReport /\ status' = Service!Project(desired, FirstReport)
    BY <1>8 DEF Service!Restart, Service!broker
  <2>2. status' \in Service!Status
    BY <2>1, <1>t, ProjectType DEF Types
  <2> QED BY <2>1, <2>2, <1>t DEF Inv, Types, Leaving, AvailabilityHonest
<1>9. CASE Service!SessionLost
  <2>1. /\ session' = FALSE /\ retained' = [retained EXCEPT !["availability"] = "offline"]
        /\ UNCHANGED <<desired, reported, snapshot, status, phase, queue>>
    BY <1>9 DEF Service!SessionLost, Service!WillFired, Service!inputs, Service!task
  <2>2. retained'["availability"] = "offline"
    BY <2>1, <1>t, TopicsAre DEF Types
  <2> QED BY <2>1, <2>2, <1>t DEF Inv, Types, Leaving, AvailabilityHonest
<1>10. CASE Service!BrokerRestart
  <2>1. /\ session' = FALSE /\ retained' = [t \in Topics |-> None]
        /\ UNCHANGED <<desired, reported, snapshot, status, phase, queue>>
    BY <1>10 DEF Service!BrokerRestart, Service!inputs, Service!task, Topics
  <2>2. retained'["availability"] # "online"
    BY <2>1, TopicsAre, NoneIsNoPayload
  <2> QED BY <2>1, <2>2, <1>t DEF Inv, Types, Leaving, AvailabilityHonest
<1>11. CASE UNCHANGED service
  BY <1>11, <1>t DEF service, Inv, Types, Leaving, AvailabilityHonest
<1> QED BY <1>1, <1>2, <1>3, <1>4, <1>5, <1>6, <1>7, <1>8, <1>9, <1>10, <1>11 DEF ServiceStep

(***************************************************************************)
(* "online" is in the broker only while a session stands behind it         *)
(* (publisher.rs go_offline, mqtt_options' last will): whether the service *)
(* leaves in order, crashes or is cut off, and whenever the broker ends.   *)
(***************************************************************************)
THEOREM NeverOnlineWhenGone == Spec => []AvailabilityHonest
<1>1. Inv => AvailabilityHonest
  BY DEF Inv
<1> QED BY <1>1, InitInv, StepInv, PTL DEF Spec
-----------------------------------------------------------------------------
(***************************************************************************)
(* The table of snapshots.                                                 *)
(***************************************************************************)
HoursInv ==
  /\ \E S : rows \in Seq(S)
  /\ HoursDistinct
  /\ last_hour # 0 => Stored(last_hour)

(***************************************************************************)
(* The anti-join keeps the hours apart and forgets none.                   *)
(***************************************************************************)
LEMMA InsertKeeps ==
  ASSUME NEW n, Insert(n), HoursInv
  PROVE  /\ \E S : rows' \in Seq(S)
         /\ HoursDistinct'
         /\ \A h : Stored(h) => Stored(h)'
         /\ Stored(Hours[n])'
<1>1. CASE Stored(Hours[n])
  <2>1. rows' = rows
    BY <1>1 DEF Insert
  <2> QED BY <1>1, <2>1 DEF HoursInv, HoursDistinct, Stored
<1>2. CASE ~Stored(Hours[n])
  <2>1. rows' = Append(rows, n)
    BY <1>2 DEF Insert
  <2>2. PICK S : rows \in Seq(S)
    BY DEF HoursInv
  <2> DEFINE T == S \cup {n}
  <2>3. rows \in Seq(T) /\ n \in T
    BY <2>2, SeqMonotonic
  <2> HIDE DEF T
  <2>4. /\ rows' \in Seq(T) /\ DOMAIN rows = 1 .. Len(rows) /\ DOMAIN rows' = 1 .. Len(rows) + 1
        /\ Len(rows) \in Nat
        /\ \A i \in 1 .. Len(rows) : rows'[i] = rows[i]
        /\ rows'[Len(rows) + 1] = n
    BY <2>1, <2>3, AppendProperties, LenProperties
  <2>5. \A i \in DOMAIN rows : i \in DOMAIN rows' /\ Hours[rows'[i]] = Hours[rows[i]] /\ Hours[rows[i]] # Hours[n]
    BY <2>4, <1>2 DEF Stored
  <2>6. HoursDistinct'
    <3> SUFFICES ASSUME NEW i \in DOMAIN rows', NEW j \in DOMAIN rows', Hours[rows'[i]] = Hours[rows'[j]]
                 PROVE  i = j
      BY DEF HoursDistinct
    <3>1. CASE i \in DOMAIN rows /\ j \in DOMAIN rows
      BY <3>1, <2>5 DEF HoursInv, HoursDistinct
    <3>2. CASE i \in DOMAIN rows /\ j = Len(rows) + 1
      BY <3>2, <2>4, <2>5
    <3>3. CASE j \in DOMAIN rows /\ i = Len(rows) + 1
      BY <3>3, <2>4, <2>5
    <3>4. \A k \in DOMAIN rows' : k \in DOMAIN rows \/ k = Len(rows) + 1
      BY <2>4
    <3> QED BY <3>1, <3>2, <3>3, <3>4
  <2>7. ASSUME NEW h, Stored(h) PROVE Stored(h)'
    BY <2>5, <2>7 DEF Stored
  <2>8. Stored(Hours[n])'
    BY <2>4 DEF Stored
  <2> QED BY <2>4, <2>6, <2>7, <2>8
<1> QED BY <1>1, <1>2

\* An empty table, and no hour remembered.
LEMMA HoursInit == Init => HoursInv
<1> SUFFICES ASSUME Init PROVE HoursInv OBVIOUS
<1>1. rows = <<>> /\ last_hour = 0
  BY DEF Init
<1>2. rows \in Seq({}) /\ DOMAIN rows = {}
  BY <1>1, EmptySeq
<1> QED BY <1>1, <1>2 DEF HoursInv, HoursDistinct

(***************************************************************************)
(* Only the relays write: the desktop's and the recorder's, which also     *)
(* remembers the hour; a process that starts again remembers none.         *)
(***************************************************************************)
LEMMA HoursStep == HoursInv /\ [Next]_vars => HoursInv'
<1> SUFFICES ASSUME HoursInv, [Next]_vars PROVE HoursInv' OBVIOUS
<1>1. CASE RelayGrid
  <2>1. last_hour' = last_hour /\ (Insert(latest["grid"]) \/ rows' = rows)
    BY <1>1 DEF RelayGrid, NotStored
  <2>2. CASE rows' = rows
    BY <2>1, <2>2 DEF HoursInv, HoursDistinct, Stored
  <2>3. CASE Insert(latest["grid"])
    BY <2>1, <2>3, InsertKeeps DEF HoursInv
  <2> QED BY <2>1, <2>2, <2>3
<1>2. CASE Persist
  <2>1. \/ rows' = rows /\ last_hour' = last_hour
        \/ Insert(latest["grid"]) /\ last_hour' = Hours[latest["grid"]]
    BY <1>2 DEF Persist, NotStored
  <2>2. CASE rows' = rows /\ last_hour' = last_hour
    BY <2>2 DEF HoursInv, HoursDistinct, Stored
  <2>3. CASE Insert(latest["grid"]) /\ last_hour' = Hours[latest["grid"]]
    <3>1. Stored(Hours[latest["grid"]])'
          <=> \E i \in DOMAIN rows' : Hours[rows'[i]] = Hours[latest["grid"]]'
      BY DEF Stored
    <3>2. latest' = latest
      BY <1>2 DEF Persist, Feed!Take
    <3>3. /\ \E S : rows' \in Seq(S)
          /\ HoursDistinct'
          /\ Stored(Hours[latest["grid"]])'
      BY <2>3, <3>2, InsertKeeps
    <3> QED BY <2>3, <3>1, <3>2, <3>3 DEF HoursInv, Stored
  <2> QED BY <2>1, <2>2, <2>3
<1>3. CASE FeedStartsAgain
  BY <1>3 DEF FeedStartsAgain, HoursInv, HoursDistinct, Stored
<1>4. CASE rows' = rows /\ last_hour' = last_hour
  BY <1>4 DEF HoursInv, HoursDistinct, Stored
<1>5. [Next]_vars => RelayGrid \/ Persist \/ FeedStartsAgain \/ (rows' = rows /\ last_hour' = last_hour)
  BY DEF Next, vars, relays, ServiceChanges, ServiceWorks, ServiceConnects, ServiceSends, ServiceNotices,
     ServiceFails, ServiceFailsSending, ServiceRestarts, SessionExpires, SessionBreaks, BrokerRestarts,
     FeedWorks, ForeignPayload, FeedFails, RelayService, Quiet
<1> QED BY <1>1, <1>2, <1>3, <1>4, <1>5

(***************************************************************************)
(* What is on its way, and the types of everything else.                   *)
(***************************************************************************)

\* What may come in on a topic: what the service publishes, nothing, or what somebody
\* else wrote.
Carried(t) == {None, Foreign} \cup Service!Payload(t)
Contents == Payloads \cup {None, Foreign}
Letters == {m \in Topics \X Contents : m[2] \in Carried(m[1])}

Asks(consumer) == Range(Wanted(consumer))
Listens(consumer) == Asks(consumer) \cup {SbsTopic}
Mail(consumer) == {m \in Letters : m[1] \in Listens(consumer)}

\* The connection of the consumer, and what has come in.
FeedTyped ==
  /\ kind \in Kinds /\ aux = Wanted(kind)
  /\ mode \in {"off", "select", "sleep", "done"} /\ link \in {"down", "up"}
  /\ asked \in Seq(Listens(kind)) /\ subscribed \subseteq Listens(kind)
  /\ inbox \in Seq(Mail(kind))
  /\ latest = [t \in Asks(kind) |-> latest[t]] /\ \A t \in Asks(kind) : latest[t] \in Carried(t)
  /\ unseen \subseteq Asks(kind)
  /\ transport \in {"Disconnected", "Connecting", "Connected"}

\* The publisher and the broker, in what Types leaves open.
PublisherTyped ==
  /\ changed \subseteq {"snapshot", "status"} /\ phase \in Service!Phases
  /\ connected \in BOOLEAN /\ net \in {"down", "up"}
  /\ \A t \in Topics : retained[t] \in {None} \cup Service!Payload(t)

Views == [status : {None} \cup Service!Status, availability : {None} \cup Service!Availability]
RelaysTyped ==
  /\ shown \in 0 .. MaxSnapshots /\ view \in Views
  /\ last_hour \in {0} \cup Range(Hours)
  /\ rows \in Seq(1 .. MaxSnapshots)
  /\ changes \in 0 .. MaxChanges /\ faults \in 0 .. MaxFaults

-----------------------------------------------------------------------------

\* Among keeps what is in the set.
LEMMA AmongInSet ==
  ASSUME NEW T, NEW s \in Seq(T), NEW S
  PROVE  Feed!Among(s, S) \in Seq(T \cap S)
<1> DEFINE I == {i \in DOMAIN s : s[i] \in S}
           C == Cardinality(I)
<1>1. I \in SUBSET Nat /\ IsFiniteSet(I) /\ C \in Nat
  <2>1. I \subseteq 1 .. Len(s) /\ Len(s) \in Nat
    OBVIOUS
  <2>2. IsFiniteSet(1 .. Len(s)) /\ 1 .. Len(s) \subseteq Nat
    BY <2>1, FS_Interval
  <2> HIDE DEF I
  <2> QED
    BY <2>1, <2>2, FS_Subset, FS_CardinalityType
<1>2. \A n \in 0 .. (C - 1) : \E i \in I : Rank(I, i) = n
  <2> HIDE DEF I
  <2> QED
    BY <1>1, Ranks
<1>3. \A A : Feed!Cardinality(A) = Cardinality(A)
  BY DEF Feed!Cardinality, Cardinality
<1> DEFINE place(k) == CHOOSE i \in I : Feed!Cardinality({j \in I : j < i}) = k - 1
<1>4. Feed!Among(s, S) = [k \in 1 .. C |-> s[place(k)]]
  <2>1. Feed!Among(s, S) = [k \in 1 .. Feed!Cardinality(I) |-> s[place(k)]]
    BY DEF Feed!Among
  <2>2. Feed!Cardinality(I) = C
    BY <1>3
  <2> QED
    BY <2>1, <2>2
<1>5. ASSUME NEW k \in 1 .. C PROVE place(k) \in I
  <2>1. k - 1 \in 0 .. (C - 1)
    BY <1>1
  <2>2. PICK i \in I : Rank(I, i) = k - 1
    BY <1>2, <2>1
  <2>3. Feed!Cardinality({j \in I : j < i}) = k - 1
    BY <1>3, <2>2 DEF Rank, Lesser
  <2> HIDE DEF I
  <2> QED
    BY <2>3
<1>6. \A i \in I : s[i] \in T \cap S
  OBVIOUS
<1>7. [k \in 1 .. C |-> s[place(k)]] \in [1 .. C -> T \cap S]
  <2> HIDE DEF I, place, C
  <2> QED
    BY <1>5, <1>6
<1> HIDE DEF I, place, C
<1> QED
  BY <1>1, <1>4, <1>7

\* What the publisher sends, the broker retains or somebody else writes is a letter.
LEMMA LettersAre ==
  /\ Message \subseteq Letters
  /\ \A t \in Topics : <<t, None>> \in Letters /\ <<t, Foreign>> \in Letters
  /\ \A t \in Topics : \A p \in {None} \cup Service!Payload(t) : <<t, p>> \in Letters
  /\ Offline \in Letters
<1>1. \A t \in Topics : Service!Payload(t) \subseteq Payloads
  BY TopicsAre, PayloadsAre DEF Payloads
<1>2. Message \subseteq Letters
  BY DEF Message, Letters, Carried, Contents
<1>3. \A t \in Topics : <<t, None>> \in Letters /\ <<t, Foreign>> \in Letters
  BY DEF Letters, Carried, Contents
<1>4. \A t \in Topics : \A p \in {None} \cup Service!Payload(t) : <<t, p>> \in Letters
  BY <1>1 DEF Letters, Carried, Contents
<1>5. Offline \in Letters
  BY <1>2, TopicsAre, PayloadsAre DEF Message, Payloads, Offline, Service!Availability
<1> QED
  BY <1>2, <1>3, <1>4, <1>5

\* with_aux_topic is given topics of the service, the grid among them.
LEMMA WantedAre ==
  ASSUME NEW c \in Kinds
  PROVE  /\ Wanted(c) \in Seq(Asks(c)) /\ Asks(c) \subseteq Topics /\ "grid" \in Asks(c)
         /\ Wanted(c) \in Seq(Topics)
         /\ c = "desktop" => Asks(c) = Topics
<1>1. CASE c = "desktop"
  <2>1. Wanted(c) = <<"grid", "status", "availability">>
    BY <1>1 DEF Wanted
  <2>2. Asks(c) = {"grid", "status", "availability"}
    BY <2>1 DEF Asks, Range
  <2> QED
    BY <2>1, <2>2, TopicsAre
<1>2. CASE c = "recorder"
  <2>1. Wanted(c) = <<"grid">>
    BY <1>2 DEF Wanted
  <2>2. Asks(c) = {"grid"}
    BY <2>1 DEF Asks, Range
  <2>3. Wanted(c) \in Seq({"grid"}) /\ {"grid"} \subseteq Topics
    BY <2>1, TopicsAre
  <2>4. Wanted(c) \in Seq(Topics)
    BY <2>1, TopicsAre
  <2>5. c # "desktop"
    BY <1>2
  <2> QED
    BY <2>2, <2>3, <2>4, <2>5
<1> QED
  BY <1>1, <1>2 DEF Kinds

-----------------------------------------------------------------------------

\* What a step may do to the consumer's connection: its own steps, and what is forwarded
\* to it.
FeedStep ==
  \/ Feed!Run \/ Feed!ConnAck \/ Feed!Subscribed(Retained) \/ Feed!Receive \/ Feed!Wake
  \/ Feed!PollError \/ Feed!Shutdown \/ Feed!Abort \/ Feed!Renewed
  \/ \E t \in Topics : Feed!Take(t)
  \/ \E letters \in Seq(Letters) : Feed!Forward(letters)
  \/ UNCHANGED feed

\* One letter, forwarded.
LEMMA OneLetter ==
  ASSUME NEW m \in Letters, Feed!Forward(<<m>>)
  PROVE  FeedStep
<1>1. <<m>> \in Seq(Letters)
  OBVIOUS
<1> QED
  BY <1>1 DEF FeedStep

\* Whatever happens, the connection takes one of these steps.
LEMMA StepIsFeedStep ==
  ASSUME Types, [Next]_vars
  PROVE  FeedStep /\ kind' = kind
<1>l. Letters # {} /\ Offline \in Letters /\ Message \subseteq Letters
  BY LettersAre
<1>w. WillForwarded => FeedStep
  <2>1. WillForwarded => Feed!Forward(<<Offline>>) \/ UNCHANGED feed
    BY DEF WillForwarded, Service!Publish, Offline
  <2> QED
    BY <1>l, <2>1, OneLetter DEF FeedStep
<1>1. CASE ServiceChanges \/ ServiceWorks \/ ServiceNotices \/ ServiceFails \/ ServiceRestarts
  BY <1>1 DEF ServiceChanges, ServiceWorks, ServiceNotices, ServiceFails, ServiceRestarts, FeedStep
<1>2. CASE ServiceConnects \/ SessionExpires \/ SessionBreaks
  <2>1. WillForwarded /\ kind' = kind
    BY <1>2 DEF ServiceConnects, SessionExpires, SessionBreaks
  <2> QED
    BY <1>w, <2>1
<1>3. CASE ServiceSends
  <2>1. queue # <<>> /\ Feed!Forward(<<Head(queue)>>) /\ kind' = kind
    BY <1>3 DEF ServiceSends, Service!Send
  <2>2. Head(queue) \in Message
    <3>1. PICK q \in Seq(Message) : q = queue
      BY DEF Types
    <3>2. Head(q) \in Message
      BY <2>1, <3>1
    <3> QED
      BY <3>1, <3>2
  <2>3. Head(queue) \in Letters
    BY <1>l, <2>2
  <2> QED
    BY <2>1, <2>3, OneLetter
<1>4. CASE ServiceFailsSending
  <2>1. PICK n \in DOMAIN queue : Feed!Forward(SubSeq(queue, 1, n))
    BY <1>4 DEF ServiceFailsSending
  <2>2. SubSeq(queue, 1, n) \in Seq(Letters)
    <3>1. queue \in Seq(Message)
      BY DEF Types
    <3>2. n \in 1 .. Len(queue) /\ Len(queue) \in Nat /\ \A i \in 1 .. Len(queue) : queue[i] \in Message
      BY <3>1
    <3>3. \A i \in 1 .. n : i \in 1 .. Len(queue)
      BY <3>2
    <3>4. \A i \in 1 .. n : queue[i] \in Letters
      BY <1>l, <3>2, <3>3
    <3>5. SubSeq(queue, 1, n) = [i \in 1 .. n |-> queue[i]]
      BY <3>1, <3>2
    <3>6. n \in Nat
      BY <3>2
    <3> QED
      BY <3>4, <3>5, <3>6
  <2>3. kind' = kind
    BY <1>4 DEF ServiceFailsSending
  <2> QED
    BY <2>1, <2>2, <2>3 DEF FeedStep
<1>5. CASE BrokerRestarts
  BY <1>5 DEF BrokerRestarts, FeedStep
<1>6. CASE FeedWorks
  BY <1>6 DEF FeedWorks, FeedStep
<1>7. CASE ForeignPayload
  <2>1. kind' = kind
    BY <1>7 DEF ForeignPayload
  <2>2. PICK t \in subscribed \cap Topics, payload \in {Foreign, None} : Feed!Forward(<< <<t, payload>> >>)
    BY <1>7 DEF ForeignPayload, Service!Publish
  <2>3. <<t, payload>> \in Letters
    BY <2>2, LettersAre
  <2> QED
    BY <2>1, <2>2, <2>3, OneLetter
<1>8. CASE FeedFails
  BY <1>8 DEF FeedFails, FeedStep
<1>9. CASE FeedStartsAgain
  BY <1>9 DEF FeedStartsAgain, FeedStep
<1>10. CASE RelayGrid \/ Persist
  BY <1>10, TopicsAre DEF RelayGrid, Persist, FeedStep
<1>11. CASE RelayService("status") \/ RelayService("availability")
  BY <1>11, TopicsAre DEF RelayService, FeedStep
<1>12. CASE Quiet \/ UNCHANGED vars
  BY <1>12 DEF Quiet, vars, FeedStep
<1> QED
  BY <1>1, <1>2, <1>3, <1>4, <1>5, <1>6, <1>7, <1>8, <1>9, <1>10, <1>11, <1>12 DEF Next

-----------------------------------------------------------------------------

\* The connection keeps its types.
LEMMA FeedTypedInit == Init => FeedTyped
<1> SUFFICES ASSUME Init PROVE FeedTyped
  OBVIOUS
<1>1. /\ kind \in Kinds /\ aux = Wanted(kind)
      /\ mode = "off" /\ link = "down" /\ asked = <<>> /\ subscribed = {} /\ inbox = <<>>
      /\ latest = [t \in Asks(kind) |-> None] /\ unseen = {}
      /\ transport = "Disconnected"
  BY DEF Init, Feed!Fresh, Feed!Range, Asks, Range
<1>2. asked \in Seq(Listens(kind)) /\ inbox \in Seq(Mail(kind))
  BY <1>1, EmptySeq
<1>3. latest = [t \in Asks(kind) |-> latest[t]] /\ \A t \in Asks(kind) : latest[t] \in Carried(t)
  BY <1>1 DEF Carried
<1> QED
  BY <1>1, <1>2, <1>3 DEF FeedTyped

\* Retained messages, forwarded ones and those received keep to their topics.
LEMMA FeedTypedStep ==
  ASSUME Types, FeedTyped, PublisherTyped, [Next]_vars
  PROVE  FeedTyped'
<1>k. /\ FeedStep /\ kind' = kind /\ kind \in Kinds
  BY StepIsFeedStep DEF FeedTyped
<1>a. /\ Feed!Aux = Asks(kind) /\ Feed!AllTopics = Listens(kind)
  BY DEF Feed!Aux, Feed!AllTopics, Feed!Range, Asks, Range, Listens, FeedTyped
<1>b. aux \in Seq(Asks(kind)) /\ aux = Wanted(kind)
  BY <1>k, WantedAre DEF FeedTyped
<1>1. CASE Feed!Run \/ Feed!Wake
  <2>1. /\ aux' = aux /\ link' = link /\ asked' = asked /\ subscribed' = subscribed /\ inbox' = inbox
        /\ latest' = latest /\ unseen' = unseen /\ mode' = "select"
        /\ transport' \in {"Connecting", transport}
    BY <1>1 DEF Feed!Run, Feed!Wake, Feed!connection, Feed!channels
  <2> QED
    BY <1>k, <2>1 DEF FeedTyped
<1>2. CASE Feed!ConnAck
  <2>1. /\ aux' = aux /\ subscribed' = subscribed /\ inbox' = inbox /\ mode' = mode
        /\ latest' = latest /\ unseen' = unseen /\ link' = "up" /\ transport' = "Connected"
        /\ asked' = Feed!TopicList
    BY <1>2 DEF Feed!ConnAck, Feed!channels
  <2>2. Feed!TopicList \in Seq(Listens(kind))
    <3>1. PICK s \in Seq(Asks(kind) \cap (Feed!Aux \ {SbsTopic})) : s = Feed!Among(aux, Feed!Aux \ {SbsTopic})
      BY <1>b, AmongInSet
    <3>2. <<SbsTopic>> \in Seq(Listens(kind)) /\ s \in Seq(Listens(kind))
      BY SeqMonotonic DEF Listens
    <3>3. <<SbsTopic>> \o s \in Seq(Listens(kind))
      BY <3>2
    <3> QED
      BY <3>1, <3>3 DEF Feed!TopicList
  <2> QED
    BY <1>k, <2>1, <2>2 DEF FeedTyped
<1>3. CASE Feed!PollError \/ Feed!Shutdown \/ Feed!Abort
  <2>1. /\ aux' = aux /\ latest' = latest /\ unseen' = unseen
        /\ link' = "down" /\ asked' = <<>> /\ subscribed' = {} /\ inbox' = <<>>
        /\ mode' \in {"sleep", "done"} /\ transport' \in {"Connecting", "Disconnected", transport}
    BY <1>3 DEF Feed!PollError, Feed!Shutdown, Feed!Abort, Feed!Closed, Feed!channels
  <2>2. <<>> \in Seq(Listens(kind)) /\ <<>> \in Seq(Mail(kind))
    BY EmptySeq
  <2> QED
    BY <1>k, <2>1, <2>2 DEF FeedTyped
<1>4. CASE Feed!Renewed
  <2>1. /\ aux' = aux /\ latest' = [t \in Asks(kind) |-> None] /\ unseen' = {}
        /\ link' = "down" /\ asked' = <<>> /\ subscribed' = {} /\ inbox' = <<>>
        /\ mode' = "off" /\ transport' = "Disconnected"
    BY <1>4, <1>a DEF Feed!Renewed, Feed!Closed
  <2>2. <<>> \in Seq(Listens(kind)) /\ <<>> \in Seq(Mail(kind))
    BY EmptySeq
  <2>3. latest' = [t \in Asks(kind) |-> latest'[t]] /\ \A t \in Asks(kind) : latest'[t] \in Carried(t)
    BY <2>1 DEF Carried
  <2> QED
    BY <1>k, <2>1, <2>2, <2>3 DEF FeedTyped
<1>5. CASE Feed!Subscribed(Retained)
  <2>1. PICK held : held = Feed!Among(asked, {t \in Feed!Range(asked) : Retained[t] # None})
    OBVIOUS
  <2>2. /\ aux' = aux /\ mode' = mode /\ link' = link /\ latest' = latest /\ unseen' = unseen
        /\ transport' = transport
        /\ asked' = <<>> /\ subscribed' = Feed!Range(asked)
        /\ inbox' = inbox \o [i \in DOMAIN held |-> <<held[i], Retained[held[i]]>>]
    BY <1>5, <2>1 DEF Feed!Subscribed, Feed!channels
  <2>3. asked \in Seq(Listens(kind))
    BY DEF FeedTyped
  <2>4. subscribed' \subseteq Listens(kind)
    BY <2>2, <2>3 DEF Feed!Range
  <2>5. held \in Seq({t \in Listens(kind) : Retained[t] # None})
    <3>1. held \in Seq(Listens(kind) \cap {t \in Feed!Range(asked) : Retained[t] # None})
      BY <2>1, <2>3, AmongInSet
    <3> QED
      BY <3>1, SeqMonotonic
  <2>6. \A t \in Listens(kind) : Retained[t] # None => <<t, Retained[t]>> \in Mail(kind)
    <3> SUFFICES ASSUME NEW t \in Listens(kind), Retained[t] # None PROVE <<t, Retained[t]>> \in Mail(kind)
      OBVIOUS
    <3>1. t \in Topics \cup {SbsTopic}
      BY <1>k, WantedAre DEF Listens
    <3>2. t \in Topics /\ Retained[t] = retained[t]
      BY <3>1 DEF Retained
    <3>3. <<t, retained[t]>> \in Letters
      BY <3>2, LettersAre DEF PublisherTyped
    <3> QED
      BY <3>2, <3>3 DEF Mail
  <2>7. inbox' \in Seq(Mail(kind))
    <3>1. PICK D : D = {t \in Listens(kind) : Retained[t] # None}
      OBVIOUS
    <3>2. PICK arrived : arrived = [i \in DOMAIN held |-> <<held[i], Retained[held[i]]>>]
      OBVIOUS
    <3>3. held \in Seq(D)
      BY <2>5, <3>1
    <3>4. DOMAIN held = 1 .. Len(held) /\ Len(held) \in Nat /\ \A i \in 1 .. Len(held) : held[i] \in D
      BY <3>3
    <3>5. \A i \in 1 .. Len(held) : <<held[i], Retained[held[i]]>> \in Mail(kind)
      BY <2>6, <3>1, <3>4
    <3>6. arrived \in Seq(Mail(kind))
      BY <3>2, <3>4, <3>5
    <3>7. inbox \in Seq(Mail(kind))
      BY DEF FeedTyped
    <3> QED
      BY <2>2, <3>2, <3>6, <3>7
  <2>8. <<>> \in Seq(Listens(kind))
    BY EmptySeq
  <2> QED
    BY <1>k, <2>2, <2>4, <2>7, <2>8 DEF FeedTyped
<1>6. CASE Feed!Receive
  <2>1. inbox \in Seq(Mail(kind)) /\ inbox # <<>> /\ inbox' = Tail(inbox)
    BY <1>6 DEF Feed!Receive, FeedTyped
  <2>2. PICK m : m = Head(inbox)
    OBVIOUS
  <2>3. m \in Mail(kind) /\ inbox' \in Seq(Mail(kind))
    BY <2>1, <2>2
  <2>4. /\ aux' = aux /\ mode' = mode /\ link' = link /\ asked' = asked /\ subscribed' = subscribed
        /\ transport' = transport
        /\ \/ latest' = latest /\ unseen' = unseen
           \/ /\ Feed!Route(m[1]) = "aux"
              /\ latest' = [latest EXCEPT ![m[1]] = m[2]] /\ unseen' = unseen \cup {m[1]}
    BY <1>6, <2>2 DEF Feed!Receive, Feed!channels
  <2>5. CASE latest' = latest /\ unseen' = unseen
    BY <1>k, <2>3, <2>4, <2>5 DEF FeedTyped
  <2>6. CASE /\ Feed!Route(m[1]) = "aux"
             /\ latest' = [latest EXCEPT ![m[1]] = m[2]] /\ unseen' = unseen \cup {m[1]}
    <3>1. m[1] \in Asks(kind)
      BY <1>a, <2>6 DEF Feed!Route
    <3>2. m[2] \in Carried(m[1])
      BY <2>3 DEF Mail, Letters
    <3>3. latest = [t \in Asks(kind) |-> latest[t]] /\ \A t \in Asks(kind) : latest[t] \in Carried(t)
      BY DEF FeedTyped
    <3>4. PICK l : l = latest
      OBVIOUS
    <3>5. latest' = [t \in Asks(kind) |-> IF t = m[1] THEN m[2] ELSE l[t]]
      BY <2>6, <3>1, <3>3, <3>4
    <3>6. latest' = [t \in Asks(kind) |-> latest'[t]] /\ \A t \in Asks(kind) : latest'[t] \in Carried(t)
      BY <3>2, <3>3, <3>4, <3>5
    <3>7. unseen' \subseteq Asks(kind)
      BY <2>6, <3>1 DEF FeedTyped
    <3> QED
      BY <1>k, <2>3, <2>4, <3>6, <3>7 DEF FeedTyped
  <2> QED
    BY <2>4, <2>5, <2>6
<1>7. CASE \E t \in Topics : Feed!Take(t)
  <2>1. /\ unseen' \subseteq unseen /\ latest' = latest
        /\ aux' = aux /\ mode' = mode /\ link' = link /\ asked' = asked /\ subscribed' = subscribed
        /\ inbox' = inbox /\ transport' = transport
    BY <1>7 DEF Feed!Take, Feed!connection
  <2> QED
    BY <1>k, <2>1 DEF FeedTyped
<1>8. CASE \E letters \in Seq(Letters) : Feed!Forward(letters)
  <2>1. PICK letters \in Seq(Letters) : Feed!Forward(letters)
    BY <1>8
  <2>2. PICK arrived : arrived = Feed!Among(letters, {m \in Feed!Range(letters) : m[1] \in subscribed})
    OBVIOUS
  <2>3. /\ inbox' = inbox \o arrived /\ unseen' = unseen /\ latest' = latest
        /\ aux' = aux /\ mode' = mode /\ link' = link /\ asked' = asked /\ subscribed' = subscribed
        /\ transport' = transport
    BY <2>1, <2>2 DEF Feed!Forward, Feed!channels
  <2>4. arrived \in Seq(Mail(kind))
    <3>1. arrived \in Seq(Letters \cap {m \in Feed!Range(letters) : m[1] \in subscribed})
      BY <2>2, AmongInSet
    <3>2. Letters \cap {m \in Feed!Range(letters) : m[1] \in subscribed} \subseteq Mail(kind)
      BY DEF Mail, FeedTyped
    <3> QED
      BY <3>1, <3>2, SeqMonotonic
  <2>5. inbox' \in Seq(Mail(kind))
    <3>1. PICK s \in Seq(Mail(kind)) : s = inbox
      BY DEF FeedTyped
    <3>2. s \o arrived \in Seq(Mail(kind))
      BY <2>4, <3>1
    <3> QED
      BY <2>3, <3>1, <3>2
  <2> QED
    BY <1>k, <2>3, <2>5 DEF FeedTyped
<1>9. CASE UNCHANGED feed
  BY <1>k, <1>9 DEF feed, FeedTyped
<1> QED
  BY <1>k, <1>1, <1>2, <1>3, <1>4, <1>5, <1>6, <1>7, <1>8, <1>9 DEF FeedStep

\* The publisher's task, its channels and the broker start with their types.
LEMMA PublisherTypedInit == Init => PublisherTyped
<1> SUFFICES ASSUME Init PROVE PublisherTyped
  OBVIOUS
<1>1. /\ changed = (IF snapshot = 0 THEN {} ELSE {"snapshot"})
      /\ phase = "select" /\ connected = FALSE /\ net = "down"
      /\ retained = [t \in Topics |-> None]
  BY DEF Init, Service!Init, Topics
<1>2. changed \subseteq {"snapshot", "status"}
  BY <1>1
<1> QED
  BY <1>1, <1>2 DEF PublisherTyped, Service!Phases

\* What a topic retains stays something it carries.
LEMMA RetainedStep ==
  ASSUME Types, PublisherTyped, ServiceStep, NEW t \in Topics
  PROVE  retained'[t] \in {None} \cup Service!Payload(t)
<1>0. retained[t] \in {None} \cup Service!Payload(t)
  BY DEF PublisherTyped
<1>1. CASE retained' = retained
  BY <1>0, <1>1
<1>2. CASE retained' = Service!WillFired
  <2>1. retained'[t] = IF t = "availability" THEN "offline" ELSE retained[t]
    BY <1>2 DEF Service!WillFired, Types
  <2> QED
    BY <1>0, <2>1, PayloadsAre DEF Service!Availability
<1>3. CASE Service!Send
  <2>1. queue # <<>> /\ retained' = [retained EXCEPT ![Head(queue)[1]] = Head(queue)[2]]
    BY <1>3 DEF Service!Send, Service!Stored
  <2>2. PICK m : m = Head(queue)
    OBVIOUS
  <2>3. m \in Message
    <3>1. PICK q \in Seq(Message) : q = queue
      BY DEF Types
    <3>2. Head(q) \in Message
      BY <2>1, <3>1
    <3> QED
      BY <2>2, <3>1, <3>2
  <2>4. m[1] \in Topics /\ m[2] \in Service!Payload(m[1])
    BY <2>3 DEF Message
  <2>5. retained'[t] = IF t = m[1] THEN m[2] ELSE retained[t]
    BY <2>1, <2>2 DEF Types
  <2> QED
    BY <1>0, <2>4, <2>5
<1>4. CASE \E n \in DOMAIN queue : Service!SendUnacknowledged(n)
  <2>1. PICK n \in DOMAIN queue : Service!SendUnacknowledged(n)
    BY <1>4
  <2>2. PICK last : last = {i \in 1 .. n : queue[i][1] = t}
    OBVIOUS
  <2> DEFINE newest == CHOOSE i \in last : \A j \in last : j <= i
  <2>3. retained'[t] = IF last = {} THEN retained[t] ELSE queue[newest][2]
    <3>1. retained' = [u \in Topics |->
             LET later == {i \in 1 .. n : queue[i][1] = u}
             IN  IF later = {} THEN retained[u]
                 ELSE queue[CHOOSE i \in later : \A j \in later : j <= i][2]]
      BY <2>1 DEF Service!SendUnacknowledged, Topics
    <3> QED
      BY <2>2, <3>1
  <2>4. queue \in Seq(Message) /\ n \in 1 .. Len(queue) /\ Len(queue) \in Nat
    BY DEF Types
  <2>5. ASSUME last # {} PROVE newest \in last
    <3>1. last \in SUBSET Nat /\ IsFiniteSet(last)
      <4>1. last \subseteq 1 .. n /\ n \in Nat
        BY <2>2, <2>4
      <4>2. IsFiniteSet(1 .. n) /\ 1 .. n \subseteq Nat
        BY <4>1, FS_Interval
      <4> QED
        BY <4>1, <4>2, FS_Subset
    <3>2. \E i \in last : \A j \in last : j <= i
      BY <2>5, <3>1, FiniteHasGreatest
    <3> QED
      BY <3>2
  <2>6. \A i \in last : queue[i] \in Message /\ queue[i][1] = t
    BY <2>2, <2>4
  <2>7. \A i \in last : queue[i][2] \in Service!Payload(t)
    BY <2>6 DEF Message
  <2> HIDE DEF newest
  <2> QED
    BY <1>0, <2>3, <2>5, <2>7
<1>5. CASE Service!BrokerRestart
  <2>1. retained' = [u \in Topics |-> None]
    BY <1>5 DEF Service!BrokerRestart, Topics
  <2> QED
    BY <2>1
<1>6. CASE Service!ConnAck \/ Service!SessionLost
  <2>1. retained' = Service!WillFired \/ retained' = retained
    BY <1>6 DEF Service!ConnAck, Service!SessionLost
  <2> QED
    BY <1>1, <1>2, <2>1
<1>7. ServiceStep => \/ retained' = retained \/ Service!Send \/ Service!BrokerRestart
                     \/ Service!ConnAck \/ Service!SessionLost
                     \/ \E n \in DOMAIN queue : Service!SendUnacknowledged(n)
  BY DEF ServiceStep, Service!SetDesired, Service!ReportState, Service!NewSnapshot,
     Service!UpdateStatus, Service!OnSnapshot, Service!OnStatus, Service!PollError,
     Service!Wake, Service!GoOffline, Service!Disconnected, Service!GiveUp, Service!Crash,
     Service!Vanish, Service!Restart, Service!broker, service
<1> QED
  BY <1>1, <1>3, <1>4, <1>5, <1>6, <1>7

\* The same for the publisher's task and its channels.
LEMMA PublisherTypedStep ==
  ASSUME Types, PublisherTyped, ServiceStep
  PROVE  PublisherTyped'
<1>1. \A t \in Topics : retained'[t] \in {None} \cup Service!Payload(t)
  BY RetainedStep
<1>2. /\ changed' \subseteq changed \cup {"snapshot", "status"}
      /\ phase' \in {phase, "select", "sleep", "leaving", "done"}
      /\ connected' \in {connected, TRUE, FALSE} /\ net' \in {net, "up", "down"}
  <2>1. CASE Service!SetDesired \/ Service!ReportState \/ Service!NewSnapshot \/ Service!UpdateStatus
    BY <2>1 DEF Service!SetDesired, Service!ReportState, Service!NewSnapshot, Service!UpdateStatus,
       Service!task
  <2>2. CASE Service!OnSnapshot \/ Service!OnStatus \/ Service!ConnAck
    BY <2>2 DEF Service!OnSnapshot, Service!OnStatus, Service!ConnAck
  <2>3. CASE Service!Send \/ \E n \in DOMAIN queue : Service!SendUnacknowledged(n)
    BY <2>3 DEF Service!Send, Service!SendUnacknowledged
  <2>4. CASE Service!PollError \/ Service!Wake \/ Service!GoOffline \/ Service!Disconnected
    BY <2>4 DEF Service!PollError, Service!Wake, Service!GoOffline, Service!Disconnected
  <2>5. CASE Service!GiveUp \/ Service!Crash
    BY <2>5 DEF Service!GiveUp, Service!Crash, Service!Vanish
  <2>6. CASE Service!Restart
    BY <2>6 DEF Service!Restart
  <2>7. CASE Service!SessionLost \/ Service!BrokerRestart
    BY <2>7 DEF Service!SessionLost, Service!BrokerRestart, Service!task
  <2>8. CASE UNCHANGED service
    BY <2>8 DEF service
  <2> QED
    BY <2>1, <2>2, <2>3, <2>4, <2>5, <2>6, <2>7, <2>8 DEF ServiceStep
<1>3. /\ changed \subseteq {"snapshot", "status"} /\ phase \in Service!Phases
      /\ connected \in BOOLEAN /\ net \in {"down", "up"}
  BY DEF PublisherTyped
<1>4. changed' \subseteq {"snapshot", "status"}
  BY <1>2, <1>3
<1>5. phase' \in Service!Phases
  BY <1>2, <1>3 DEF Service!Phases
<1>6. connected' \in BOOLEAN /\ net' \in {"down", "up"}
  BY <1>2, <1>3
<1> QED
  BY <1>1, <1>4, <1>5, <1>6 DEF PublisherTyped

-----------------------------------------------------------------------------

\* Nothing is shown, heard or stored at first.
LEMMA RelaysTypedInit == Init => RelaysTyped
<1> SUFFICES ASSUME Init PROVE RelaysTyped
  OBVIOUS
<1> USE DeliveryAssumption
<1>1. shown = 0 /\ view = NothingHeard /\ last_hour = 0 /\ rows = <<>> /\ changes = 0 /\ faults = 0
  BY DEF Init
<1>2. view \in Views
  BY <1>1 DEF NothingHeard, Views
<1>3. rows \in Seq(1 .. MaxSnapshots)
  BY <1>1, EmptySeq
<1> QED
  BY <1>1, <1>2, <1>3 DEF RelaysTyped

\* What a relay reads of a grid topic it can use is a snapshot with an hour.
LEMMA GridIsSnapshot ==
  ASSUME FeedTyped, "grid" \in unseen, latest["grid"] \notin {Foreign, None}
  PROVE  latest["grid"] \in 1 .. MaxSnapshots /\ Hours[latest["grid"]] \in Range(Hours)
<1>1. "grid" \in Asks(kind) /\ latest["grid"] \in Carried("grid")
  BY DEF FeedTyped
<1>2. latest["grid"] \in 1 .. MaxSnapshots
  BY <1>1, PayloadsAre DEF Carried
<1> QED
  BY <1>2, DeliveryAssumption DEF Range

\* The anti-join adds nothing but the snapshot.
LEMMA InsertTyped ==
  ASSUME rows \in Seq(1 .. MaxSnapshots), NEW n \in 1 .. MaxSnapshots, Insert(n)
  PROVE  rows' \in Seq(1 .. MaxSnapshots)
<1>1. rows' = rows \/ rows' = Append(rows, n)
  BY DEF Insert
<1>2. PICK S : S = 1 .. MaxSnapshots
  OBVIOUS
<1>3. rows \in Seq(S) /\ n \in S
  BY <1>2
<1>4. rows' \in Seq(S)
  BY <1>1, <1>3
<1> QED
  BY <1>2, <1>4

\* The relays show and store snapshots only, and view what the topics carry.
LEMMA RelaysTypedStep ==
  ASSUME FeedTyped, RelaysTyped, [Next]_vars
  PROVE  RelaysTyped'
<1> USE DeliveryAssumption
<1>t. /\ shown \in 0 .. MaxSnapshots /\ view \in Views
      /\ last_hour \in {0} \cup Range(Hours)
      /\ rows \in Seq(1 .. MaxSnapshots)
      /\ changes \in 0 .. MaxChanges /\ faults \in 0 .. MaxFaults
  BY DEF RelaysTyped
<1>1. CASE RelayGrid
  <2>1. /\ "grid" \in unseen /\ UNCHANGED <<view, last_hour, changes>>
        /\ \/ UNCHANGED <<shown, rows, faults>>
           \/ /\ latest["grid"] \notin {Foreign, None} /\ shown' = latest["grid"]
              /\ \/ Insert(latest["grid"]) /\ faults' = faults
                 \/ NotStored
    BY <1>1 DEF RelayGrid, Feed!Take, News
  <2>2. CASE UNCHANGED <<shown, rows, faults>>
    BY <1>t, <2>1, <2>2 DEF RelaysTyped
  <2>3. CASE /\ latest["grid"] \notin {Foreign, None} /\ shown' = latest["grid"]
             /\ \/ Insert(latest["grid"]) /\ faults' = faults
                \/ NotStored
    <3>1. PICK n : n = latest["grid"]
      OBVIOUS
    <3>2. n \in 1 .. MaxSnapshots /\ shown' = n
      BY <2>1, <2>3, <3>1, GridIsSnapshot
    <3>3. CASE Insert(n) /\ faults' = faults
      BY <1>t, <2>1, <3>2, <3>3, InsertTyped DEF RelaysTyped
    <3>4. CASE NotStored
      BY <1>t, <2>1, <3>2, <3>4 DEF RelaysTyped, NotStored
    <3> QED
      BY <2>3, <3>1, <3>3, <3>4
  <2> QED
    BY <2>1, <2>2, <2>3
<1>2. CASE Persist
  <2>1. /\ "grid" \in unseen /\ UNCHANGED <<shown, view, changes>>
        /\ \/ UNCHANGED <<last_hour, rows, faults>>
           \/ /\ latest["grid"] \notin {Foreign, None}
              /\ Insert(latest["grid"]) /\ last_hour' = Hours[latest["grid"]] /\ faults' = faults
           \/ NotStored /\ last_hour' = last_hour
    BY <1>2 DEF Persist, Feed!Take
  <2>2. CASE UNCHANGED <<last_hour, rows, faults>>
    BY <1>t, <2>1, <2>2 DEF RelaysTyped
  <2>3. CASE /\ latest["grid"] \notin {Foreign, None}
             /\ Insert(latest["grid"]) /\ last_hour' = Hours[latest["grid"]] /\ faults' = faults
    <3>1. PICK n : n = latest["grid"]
      OBVIOUS
    <3>2. n \in 1 .. MaxSnapshots /\ Hours[n] \in Range(Hours)
      BY <2>1, <2>3, <3>1, GridIsSnapshot
    <3>3. Insert(n) /\ last_hour' = Hours[n]
      BY <2>3, <3>1
    <3>4. rows' \in Seq(1 .. MaxSnapshots)
      BY <1>t, <3>2, <3>3, InsertTyped
    <3> QED
      BY <1>t, <2>1, <2>3, <3>2, <3>3, <3>4 DEF RelaysTyped
  <2>4. CASE NotStored /\ last_hour' = last_hour
    BY <1>t, <2>1, <2>4 DEF RelaysTyped, NotStored
  <2> QED
    BY <2>1, <2>2, <2>3, <2>4
<1>3. CASE RelayService("status") \/ RelayService("availability")
  <2>1. PICK topic \in {"status", "availability"} : RelayService(topic)
    BY <1>3
  <2>2. /\ topic \in unseen /\ view' = Heard(topic)
        /\ UNCHANGED <<shown, last_hour, rows, changes, faults>>
    BY <2>1 DEF RelayService, Feed!Take, counters
  <2>3. latest[topic] \in {None, Foreign} \cup Service!Payload(topic)
    BY <2>2 DEF FeedTyped, Carried
  <2>4. view' \in Views
    <3>1. CASE latest[topic] = Foreign
      BY <1>t, <2>2, <3>1 DEF Heard
    <3>2. CASE latest[topic] # Foreign
      <4>1. PICK p : p = latest[topic]
        OBVIOUS
      <4>2. view' = [view EXCEPT ![topic] = p] /\ p \in {None} \cup Service!Payload(topic)
        BY <2>2, <2>3, <3>2, <4>1 DEF Heard
      <4>3. CASE topic = "status"
        <5>1. view' = [view EXCEPT !.status = p] /\ p \in {None} \cup Service!Status
          BY <4>2, <4>3, PayloadsAre
        <5> QED
          BY <1>t, <5>1 DEF Views
      <4>4. CASE topic = "availability"
        <5>1. view' = [view EXCEPT !.availability = p] /\ p \in {None} \cup Service!Availability
          BY <4>2, <4>4, PayloadsAre
        <5> QED
          BY <1>t, <5>1 DEF Views
      <4> QED
        BY <4>3, <4>4
    <3> QED
      BY <3>1, <3>2
  <2> QED
    BY <1>t, <2>2, <2>4 DEF RelaysTyped
<1>4. CASE FeedStartsAgain
  <2>1. last_hour' = 0 /\ UNCHANGED <<shown, view, rows, changes, faults>>
    BY <1>4 DEF FeedStartsAgain, counters
  <2> QED
    BY <1>t, <2>1 DEF RelaysTyped
<1>5. CASE UNCHANGED relays
  <2>1. /\ changes' = changes \/ (changes < MaxChanges /\ changes' = changes + 1)
        /\ faults' = faults \/ (faults < MaxFaults /\ faults' = faults + 1)
    BY DEF Next, vars, counters, relays, Change, Fault, ServiceChanges, ServiceWorks, ServiceConnects,
       ServiceSends, ServiceNotices, ServiceFails, ServiceFailsSending, ServiceRestarts,
       SessionExpires, SessionBreaks, BrokerRestarts, FeedWorks, ForeignPayload, FeedFails,
       RelayGrid, Persist, NotStored, RelayService, FeedStartsAgain, Quiet
  <2>2. changes' \in 0 .. MaxChanges /\ faults' \in 0 .. MaxFaults
    BY <1>t, <2>1
  <2>3. UNCHANGED <<shown, view, last_hour, rows>>
    BY <1>5 DEF relays
  <2> QED
    BY <1>t, <2>2, <2>3 DEF RelaysTyped
<1>6. [Next]_vars => \/ UNCHANGED relays \/ RelayGrid \/ Persist \/ FeedStartsAgain
                     \/ RelayService("status") \/ RelayService("availability")
  BY DEF Next, vars, relays, ServiceChanges, ServiceWorks, ServiceConnects, ServiceSends,
     ServiceNotices, ServiceFails, ServiceFailsSending, ServiceRestarts, SessionExpires,
     SessionBreaks, BrokerRestarts, FeedWorks, ForeignPayload, FeedFails, Quiet
<1> QED
  BY <1>1, <1>2, <1>3, <1>4, <1>5, <1>6

-----------------------------------------------------------------------------

\* The inductive invariant behind RecordedOnce.
TypedInv == Inv /\ FeedTyped /\ PublisherTyped /\ RelaysTyped /\ HoursInv

\* It implies the types the modules state.
LEMMA TypedInvIsTypeOK == TypedInv => TypeOK
<1> SUFFICES ASSUME TypedInv PROVE TypeOK
  OBVIOUS
<1>t. Types /\ FeedTyped /\ PublisherTyped /\ RelaysTyped
  BY DEF TypedInv, Inv
<1>1. Service!TypeOK
  <2>1. queue \in Seq(Message)
    BY <1>t DEF Types
  <2>2. \A i \in DOMAIN queue : queue[i] \in Message
    BY <2>1
  <2>3. \A i \in DOMAIN queue : queue[i][2] \in Service!Payload(queue[i][1])
    BY <2>2 DEF Message
  <2>4. \A t \in Topics : retained[t] = None \/ retained[t] \in Service!Payload(t)
    BY <1>t DEF PublisherTyped
  <2> QED
    BY <1>t, <2>3, <2>4 DEF Types, PublisherTyped, Service!TypeOK, Topics
<1>2. Feed!TypeOK
  <2>1. Feed!Aux = Asks(kind) /\ Feed!AllTopics = Listens(kind)
    BY <1>t DEF Feed!Aux, Feed!AllTopics, Feed!Range, Asks, Range, Listens, FeedTyped
  <2>2. inbox \in Seq(Mail(kind))
    BY <1>t DEF FeedTyped
  <2>3. \A i \in DOMAIN inbox : inbox[i] \in Mail(kind)
    BY <2>2
  <2>4. \A i \in DOMAIN inbox : inbox[i][1] \in Listens(kind)
    BY <2>3 DEF Mail
  <2> QED
    BY <1>t, <2>1, <2>4 DEF FeedTyped, Feed!TypeOK
<1>3. \A i \in DOMAIN rows : rows[i] \in 1 .. MaxSnapshots
  <2>1. PICK S : S = 1 .. MaxSnapshots
    OBVIOUS
  <2>2. rows \in Seq(S)
    BY <1>t, <2>1 DEF RelaysTyped
  <2>3. \A i \in DOMAIN rows : rows[i] \in S
    BY <2>2
  <2> QED
    BY <2>1, <2>3
<1>4. /\ view.status = None \/ view.status \in Service!Status
      /\ view.availability = None \/ view.availability \in Service!Availability
  BY <1>t DEF RelaysTyped, Views
<1> QED
  BY <1>t, <1>1, <1>2, <1>3, <1>4 DEF FeedTyped, RelaysTyped, TypeOK

\* It holds at first,
LEMMA TypedInvInit == Init => TypedInv
BY InitInv, FeedTypedInit, PublisherTypedInit, RelaysTypedInit, HoursInit DEF TypedInv

\* and every step keeps it.
LEMMA TypedInvStep == TypedInv /\ [Next]_vars => TypedInv'
<1> SUFFICES ASSUME TypedInv, [Next]_vars PROVE TypedInv'
  OBVIOUS
<1>t. Inv /\ Types /\ FeedTyped /\ PublisherTyped /\ RelaysTyped /\ HoursInv
  BY DEF TypedInv, Inv
<1>1. Inv'
  BY <1>t, StepInv
<1>2. FeedTyped'
  BY <1>t, FeedTypedStep
<1>3. PublisherTyped'
  BY <1>t, StepIsServiceStep, PublisherTypedStep
<1>4. RelaysTyped'
  BY <1>t, RelaysTypedStep
<1>5. HoursInv'
  BY <1>t, HoursStep
<1> QED
  BY <1>1, <1>2, <1>3, <1>4, <1>5 DEF TypedInv

(***************************************************************************)
(* Two rows of weather_snapshots never have one model hour, and the hour   *)
(* the recorder takes for stored is stored (insert_weather_snapshot_sync,  *)
(* persist_weather): however often the retained message comes back, in     *)
(* whichever process, whichever INSERT fails and whatever somebody else    *)
(* publishes on the topics.                                                *)
(***************************************************************************)
THEOREM OneRowPerHour == Spec => []RecordedOnce
<1>1. TypedInv => RecordedOnce
  BY TypedInvIsTypeOK DEF TypedInv, HoursInv, RecordedOnce
<1> QED
  BY <1>1, TypedInvInit, TypedInvStep, PTL DEF Spec
=============================================================================
