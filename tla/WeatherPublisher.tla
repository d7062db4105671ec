-------------------------- MODULE WeatherPublisher --------------------------
(***************************************************************************)
(* The weather service's MQTT side (adsb-weather-server): the projection   *)
(* of the operator's setting and the refresh loop's report into one status *)
(* (projection.rs), the publisher that keeps three retained topics current *)
(* (publisher.rs), and the broker as the publisher sees it.                *)
(*                                                                         *)
(* The refresh loop and the API are the environment here: they change the  *)
(* setting, the report and the snapshot through watch channels, which keep *)
(* the latest value only.  The MQTT library is external: it sends queued   *)
(* requests in order, and sends those again on the next connection that    *)
(* the broker has not acknowledged.                                        *)
(***************************************************************************)
EXTENDS Naturals, Sequences

CONSTANTS Reports,      \* what the refresh loop may report
          FirstReport,  \* ReportedState::default()
          MaxSnapshots, \* snapshots are numbered in the order of their fetch
          NoPayload     \* what a topic without a retained message holds

VARIABLES
  desired,   \* the operator's setting, as Control announces it
  reported,  \* the refresh loop's last report
  snapshot,  \* the snapshot channel: 0 is None
  status,    \* the status channel
  changed,   \* channels whose changed() the publisher has not yet seen
  phase,     \* where the publisher's task is
  connected, \* the publisher's flag
  queue,     \* requests not yet acknowledged, oldest first
  net,       \* the client's connection
  session,   \* the broker has a session with the will armed
  retained   \* the broker's retained messages

inputs == <<desired, reported, snapshot>>
task == <<phase, connected, queue, net>>
broker == <<session, retained>>
vars == <<inputs, status, changed, task, broker>>

-----------------------------------------------------------------------------
(* Data.                                                                   *)

Topics == {"grid", "status", "availability"}
Availability == {"online", "offline"}
Phases == {"select", "sleep", "leaving", "done"}

Status == [enabled : BOOLEAN, state : Reports]

\* projection::project, without its time stamp: same_content ignores it.
Project(enabled, report) == [enabled |-> enabled, state |-> report]

\* A message: its topic and its payload.
Publish(topic, payload) == <<topic, payload>>

\* What each topic carries.
Payload(topic) ==
  CASE topic = "grid" -> 1 .. MaxSnapshots
    [] topic = "status" -> Status
    [] topic = "availability" -> Availability

\* should_publish(trigger, ...): a ConnAck or, while connected, a new snapshot.
PublishesGrid(trigger) ==
  snapshot # 0 /\ (trigger = "ConnAck" \/ (trigger = "NewSnapshot" /\ connected))

\* should_publish_status(trigger, ...)
PublishesStatus(trigger) ==
  trigger = "ConnAck" \/ (trigger = "NewStatus" /\ connected)

Grid(trigger) == IF PublishesGrid(trigger) THEN <<Publish("grid", snapshot)>> ELSE <<>>
StatusNow(trigger) ==
  IF PublishesStatus(trigger) THEN <<Publish("status", status)>> ELSE <<>>

\* Mutant of Announcement: only changes are published again.
AnnouncementBirthOnly == <<Publish("availability", "online")>>

\* Birth first, then the status, then the grid.
Announcement ==
  <<Publish("availability", "online")>> \o StatusNow("ConnAck") \o Grid("ConnAck")

\* With a cache the first snapshot is there from the start.
Init ==
  /\ desired \in BOOLEAN
  /\ reported = FirstReport /\ snapshot \in {0, 1}
  /\ status = Project(desired, reported)
  /\ changed = IF snapshot = 0 THEN {} ELSE {"snapshot"}
  /\ phase = "select" /\ connected = FALSE /\ queue = <<>> /\ net = "down"
  /\ session = FALSE /\ retained = [t \in Topics |-> NoPayload]

-----------------------------------------------------------------------------
(* The environment: Control::set_enabled, the refresh loop.                *)

SetDesired ==
  /\ phase # "done" /\ desired' = ~desired
  /\ UNCHANGED <<reported, snapshot, status, changed, task, broker>>

ReportState ==
  /\ phase # "done" /\ reported' \in Reports \ {reported}
  /\ UNCHANGED <<desired, snapshot, status, changed, task, broker>>

NewSnapshot ==
  /\ phase # "done" /\ snapshot < MaxSnapshots
  /\ snapshot' = snapshot + 1 /\ changed' = changed \cup {"snapshot"}
  /\ UNCHANGED <<desired, reported, status, task, broker>>

-----------------------------------------------------------------------------
(* The projection task.                                                    *)

\* send_if_modified: an identical projection wakes nobody.
UpdateStatus ==
  /\ phase # "done" /\ status # Project(desired, reported)
  /\ status' = Project(desired, reported) /\ changed' = changed \cup {"status"}
  /\ UNCHANGED <<inputs, task, broker>>

-----------------------------------------------------------------------------
(* The publisher's select.                                                 *)

OnSnapshot ==
  /\ phase = "select" /\ "snapshot" \in changed
  /\ changed' = changed \ {"snapshot"} /\ queue' = queue \o Grid("NewSnapshot")
  /\ UNCHANGED <<inputs, status, phase, connected, net, broker>>

OnStatus ==
  /\ phase = "select" /\ "status" \in changed
  /\ changed' = changed \ {"status"} /\ queue' = queue \o StatusNow("NewStatus")
  /\ UNCHANGED <<inputs, status, phase, connected, net, broker>>

\* Mutant of WillFired: the last will is not set.
NoWill == retained

\* The broker takes over a session of this client id that it still has, whose
\* will it then publishes; the publisher announces itself.
WillFired == [retained EXCEPT !["availability"] = "offline"]

ConnAck ==
  /\ phase = "select" /\ net = "down"
  /\ net' = "up" /\ connected' = TRUE
  /\ queue' = queue \o Announcement
  /\ session' = TRUE
  /\ retained' = IF session THEN WillFired ELSE retained
  /\ UNCHANGED <<inputs, status, changed, phase>>

\* EventLoop::poll sends the next request; the broker stores what is retained
\* and acknowledges it.
Stored(request) == [retained EXCEPT ![request[1]] = request[2]]

Send ==
  /\ phase \in {"select", "leaving"} /\ net = "up" /\ session /\ queue # <<>>
  /\ retained' = Stored(Head(queue)) /\ queue' = Tail(queue)
  /\ UNCHANGED <<inputs, status, changed, phase, connected, net, session>>

\* The connection breaks after the broker took n requests and before it could
\* acknowledge them: they stay in the queue and are sent once more.
SendUnacknowledged(n) ==
  /\ phase = "select" /\ net = "up" /\ session /\ n \in DOMAIN queue
  /\ retained' = [t \in Topics |->
       LET last == {i \in 1 .. n : queue[i][1] = t}
       IN  IF last = {} THEN retained[t]
           ELSE queue[CHOOSE i \in last : \A j \in last : j <= i][2]]
  /\ net' = "down" /\ connected' = FALSE /\ phase' = "sleep"
  /\ UNCHANGED <<inputs, status, changed, queue, session>>

\* poll returns an error: a connection lost or an attempt that failed.
PollError ==
  /\ phase = "select"
  /\ net' = "down" /\ connected' = FALSE /\ phase' = "sleep"
  /\ UNCHANGED <<inputs, status, changed, queue, broker>>

\* sleep(backoff.delay(attempt)) inside the branch: nothing else is looked at.
Wake ==
  /\ phase = "sleep" /\ phase' = "select"
  /\ UNCHANGED <<inputs, status, changed, connected, queue, net, broker>>

-----------------------------------------------------------------------------
(* Going offline.                                                          *)

\* shutdown.changed(), or the snapshot channel closed with the refresh loop.
GoOffline ==
  /\ phase = "select"
  /\ IF connected
       THEN phase' = "leaving" /\ queue' = Append(queue, Publish("availability", "offline"))
       ELSE phase' = "done" /\ UNCHANGED queue
  /\ UNCHANGED <<inputs, status, changed, connected, net, broker>>

\* Everything queued has left, then the DISCONNECT: the will is discarded.
Disconnected ==
  /\ phase = "leaving" /\ net = "up" /\ session /\ queue = <<>>
  /\ phase' = "done" /\ net' = "down" /\ session' = FALSE
  /\ UNCHANGED <<inputs, status, changed, connected, queue, retained>>

\* OFFLINE_FLUSH passes, or the poll fails: the process ends without a
\* DISCONNECT. A crash ends it anywhere.
Vanish ==
  /\ phase' = "done" /\ net' = "down"
  /\ UNCHANGED <<inputs, status, changed, connected, queue, broker>>

GiveUp == phase = "leaving" /\ Vanish
Crash == phase # "done" /\ Vanish

\* main: a new process has the persisted setting and, with a cache, the
\* snapshot; everything else starts over.
Restart ==
  /\ phase = "done" /\ phase' = "select"
  /\ reported' = FirstReport /\ status' = Project(desired, FirstReport)
  /\ changed' = (IF snapshot # 0 THEN {"snapshot"} ELSE {})
  /\ connected' = FALSE /\ queue' = <<>> /\ net' = "down"
  /\ UNCHANGED <<desired, snapshot, broker>>

-----------------------------------------------------------------------------
(* The broker.                                                             *)

\* Keep-alive ran out, or the socket broke: the will is published.
SessionLost ==
  /\ session /\ session' = FALSE /\ retained' = WillFired
  /\ UNCHANGED <<inputs, status, changed, task>>

\* The broker runs without persistence: a restart forgets every message.
BrokerRestart ==
  /\ session' = FALSE /\ retained' = [t \in Topics |-> NoPayload]
  /\ UNCHANGED <<inputs, status, changed, task>>

-----------------------------------------------------------------------------

TypeOK ==
  /\ desired \in BOOLEAN /\ reported \in Reports /\ snapshot \in 0 .. MaxSnapshots
  /\ status \in Status /\ changed \subseteq {"snapshot", "status"}
  /\ phase \in Phases /\ connected \in BOOLEAN /\ net \in {"down", "up"}
  /\ \A i \in DOMAIN queue : queue[i][2] \in Payload(queue[i][1])
  /\ session \in BOOLEAN
  /\ \A t \in Topics : retained[t] = NoPayload \/ retained[t] \in Payload(t)

\* What the service would publish now.
Current == [t \in Topics |->
  CASE t = "grid" -> IF snapshot = 0 THEN NoPayload ELSE snapshot
    [] t = "status" -> Project(desired, reported)
    [] t = "availability" -> "online"]
=============================================================================
