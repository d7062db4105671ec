-------------------------- MODULE WeatherDelivery ---------------------------
(***************************************************************************)
(* The way of the weather from the service to those who show and record    *)
(* it: WeatherPublisher, the broker's retained topics, one MqttSource, and *)
(* the relays behind it.  The consumer is either the desktop app in        *)
(* embedded mode (src-tauri weather.rs: the grid it shows and records, and *)
(* its view of the service) or the recorder (adsb-data-server weather.rs). *)
(* The two do not meet, so one of them at a time is enough.                *)
(*                                                                         *)
(* MaxChanges bounds what the service has to say, MaxFaults what goes      *)
(* wrong: lost connections, failed attempts, broker restarts, ended        *)
(* processes, failed INSERTs and foreign payloads.                         *)
(***************************************************************************)
EXTENDS Naturals, Sequences, SequencesExt

CONSTANTS Reports, FirstReport, MaxSnapshots, SbsTopic,
          None,       \* no payload
          Foreign,    \* a payload that cannot be read
          Hours,      \* Hours[n]: valid_time_ms of snapshot n
          MaxChanges, MaxFaults

ASSUME DeliveryAssumption ==
  /\ FirstReport \in Reports /\ MaxSnapshots \in Nat \ {0}
  /\ Hours \in [1 .. MaxSnapshots -> Nat \ {0}]
  /\ MaxChanges \in Nat /\ MaxFaults \in Nat

VARIABLES
  desired, reported, snapshot, status, changed, phase, connected, queue, net,
  session, retained,                                           \* WeatherPublisher
  aux, mode, link, asked, subscribed, inbox, latest, unseen, transport, \* MqttSource
  kind,      \* which consumer this is
  shown,     \* the desktop's SharedWeather: a snapshot, or 0
  view,      \* the desktop's WeatherServiceView
  last_hour, \* the recorder's last_valid_time_ms, or 0
  rows,      \* weather_snapshots: the snapshots stored, in order
  changes, faults

Service == INSTANCE WeatherPublisher WITH NoPayload <- None

\* with_aux_topic: the desktop asks for all three topics, the recorder for one.
Topics == Service!Topics
Feed == INSTANCE MqttSource WITH NoMessage <- None

Wanted(consumer) ==
  IF consumer = "desktop" THEN <<"grid", "status", "availability">> ELSE <<"grid">>

service == <<desired, reported, snapshot, status, changed, phase, connected, queue,
             net, session, retained>>
feed == <<aux, mode, link, asked, subscribed, inbox, latest, unseen, transport>>
relays == <<shown, view, last_hour, rows>>
counters == <<changes, faults>>
vars == <<service, feed, kind, relays, counters>>

\* What is no payload of the service's.
ASSUME PayloadAssumption ==
  None # Foreign /\ \A t \in Topics : {None, Foreign} \cap Service!Payload(t) = {}

Kinds == {"desktop", "recorder"}
NothingHeard == [status |-> None, availability |-> None]

Init ==
  /\ kind \in Kinds
  /\ Service!Init /\ desired \* its two values are symmetric
  /\ Feed!Fresh(Wanted(kind))
  /\ shown = 0 /\ view = NothingHeard /\ last_hour = 0 /\ rows = <<>>
  /\ changes = 0 /\ faults = 0

-----------------------------------------------------------------------------
(* The relays.                                                             *)

Stored(hour) == \E i \in DOMAIN rows : Hours[rows[i]] = hour

\* Mutant of Insert: no anti-join.
InsertAlways(n) == rows' = Append(rows, n)

\* insert_weather_snapshot_sync: an anti-join on the model hour.
Insert(n) == rows' = IF Stored(Hours[n]) THEN rows ELSE Append(rows, n)

\* The slot is empty, the INSERT fails, or the task is aborted before it.
NotStored == faults < MaxFaults /\ faults' = faults + 1 /\ UNCHANGED rows

\* next_update: malformed payloads are rejected and identical ones ignored.
News(payload) == payload \notin {Foreign, None, shown}

\* relay_weather in embedded mode: hold and emit, then record.
RelayGrid ==
  /\ kind = "desktop" /\ mode # "done" /\ Feed!Take("grid")
  /\ IF News(latest["grid"])
     THEN /\ shown' = latest["grid"]
          /\ \/ Insert(latest["grid"]) /\ UNCHANGED faults
             \/ NotStored
     ELSE UNCHANGED <<shown, rows, faults>>
  /\ UNCHANGED <<service, kind, view, last_hour, changes>>

\* apply_service_payload: what cannot be read keeps the view as it is, and an
\* empty payload clears its half.
Heard(topic) ==
  IF latest[topic] = Foreign THEN view ELSE [view EXCEPT ![topic] = latest[topic]]

RelayService(topic) ==
  /\ kind = "desktop" /\ mode # "done" /\ Feed!Take(topic)
  /\ view' = Heard(topic)
  /\ UNCHANGED <<service, kind, shown, last_hour, rows, counters>>

\* next_weather: the hour stored last is a duplicate.
Duplicate(payload) == Hours[payload] = last_hour

\* persist_weather: the hour is remembered once the database has it.
Persist ==
  /\ kind = "recorder" /\ mode # "done" /\ Feed!Take("grid")
  /\ IF latest["grid"] \in {Foreign, None} \/ Duplicate(latest["grid"])
     THEN UNCHANGED <<last_hour, rows, faults>>
     ELSE \/ Insert(latest["grid"]) /\ last_hour' = Hours[latest["grid"]]
             /\ UNCHANGED faults
          \/ NotStored /\ UNCHANGED last_hour
  /\ UNCHANGED <<service, kind, shown, view, changes>>

-----------------------------------------------------------------------------
(* Steps of the service, with the broker's part in them.                   *)

Fault == faults < MaxFaults /\ faults' = faults + 1 /\ UNCHANGED changes
Change == changes < MaxChanges /\ changes' = changes + 1 /\ UNCHANGED faults

\* A topic the broker stores is passed on to the subscriber.
WillForwarded ==
  IF session THEN Feed!Forward(<<Service!Publish("availability", "offline")>>)
             ELSE UNCHANGED feed

ServiceChanges ==
  /\ Service!SetDesired \/ Service!ReportState \/ Service!NewSnapshot
  /\ Change /\ UNCHANGED <<feed, kind, relays>>

ServiceWorks ==
  /\ \/ Service!UpdateStatus \/ Service!OnSnapshot \/ Service!OnStatus
     \/ Service!Wake \/ Service!Disconnected
  /\ UNCHANGED <<feed, kind, relays, counters>>

ServiceConnects ==
  /\ Service!ConnAck /\ WillForwarded /\ UNCHANGED <<kind, relays, counters>>

ServiceSends ==
  /\ Service!Send /\ Feed!Forward(<<Head(queue)>>)
  /\ UNCHANGED <<kind, relays, counters>>

\* Without a session behind the connection the error is only a matter of time.
ServiceNotices ==
  /\ net = "up" /\ ~session /\ (Service!PollError \/ Service!GiveUp)
  /\ UNCHANGED <<feed, kind, relays, counters>>

ServiceFails ==
  /\ Service!PollError \/ Service!GoOffline \/ Service!GiveUp \/ Service!Crash
  /\ Fault /\ UNCHANGED <<feed, kind, relays>>

ServiceFailsSending ==
  /\ \E n \in DOMAIN queue :
       Service!SendUnacknowledged(n) /\ Feed!Forward(SubSeq(queue, 1, n))
  /\ Fault /\ UNCHANGED <<kind, relays>>

ServiceRestarts ==
  /\ Service!Restart /\ UNCHANGED <<feed, kind, relays, counters>>

\* Keep-alive ends a session without a connection behind it.
SessionExpires ==
  /\ net = "down" /\ Service!SessionLost /\ WillForwarded
  /\ UNCHANGED <<kind, relays, counters>>

SessionBreaks ==
  /\ net = "up" /\ Service!SessionLost /\ WillForwarded
  /\ Fault /\ UNCHANGED <<kind, relays>>

\* Every client loses its connection with the broker.
BrokerRestarts ==
  /\ Service!BrokerRestart /\ Fault
  /\ IF mode = "select" /\ link = "up" THEN Feed!PollError ELSE UNCHANGED feed
  /\ UNCHANGED <<kind, relays>>

-----------------------------------------------------------------------------
(* Steps of the consumer.                                                  *)

\* No feed client retains what it publishes on the SBS topic.
Retained == [t \in Topics \cup {SbsTopic} |-> IF t \in Topics THEN retained[t] ELSE None]

FeedWorks ==
  /\ Feed!Run \/ Feed!ConnAck \/ Feed!Subscribed(Retained)
     \/ Feed!Receive \/ Feed!Wake
  /\ UNCHANGED <<service, kind, relays, counters>>

\* Somebody else publishes on a topic: something else, or nothing.
ForeignPayload ==
  /\ \E t \in subscribed \cap Topics, payload \in {Foreign, None} :
       Feed!Forward(<<Service!Publish(t, payload)>>)
  /\ Fault /\ UNCHANGED <<service, kind, relays>>

FeedFails ==
  /\ Feed!PollError \/ Feed!Shutdown \/ Feed!Abort
  /\ Fault /\ UNCHANGED <<service, kind, relays>>

\* start_feed again, or the recorder's next process: the app keeps what it
\* showed, the recorder only what is in its database.
FeedStartsAgain ==
  /\ mode = "done" /\ Feed!Renewed
  /\ last_hour' = 0
  /\ UNCHANGED <<service, kind, shown, view, rows, counters>>

Quiet == changes = MaxChanges /\ faults = MaxFaults /\ UNCHANGED vars

Next ==
  \/ ServiceChanges \/ ServiceWorks \/ ServiceConnects \/ ServiceSends
  \/ ServiceNotices \/ ServiceFails \/ ServiceFailsSending \/ ServiceRestarts
  \/ SessionExpires \/ SessionBreaks \/ BrokerRestarts
  \/ FeedWorks \/ ForeignPayload \/ FeedFails \/ FeedStartsAgain
  \/ RelayGrid \/ Persist
  \/ RelayService("status") \/ RelayService("availability")
  \/ Quiet

Spec == Init /\ [][Next]_vars

-----------------------------------------------------------------------------
(* Properties.                                                             *)

TypeOK ==
  /\ Service!TypeOK /\ Feed!TypeOK
  /\ kind \in Kinds /\ shown \in 0 .. MaxSnapshots
  /\ view.status = None \/ view.status \in Service!Status
  /\ view.availability = None \/ view.availability \in Service!Availability
  /\ last_hour \in {0} \cup Range(Hours)
  /\ \A i \in DOMAIN rows : rows[i] \in 1 .. MaxSnapshots
  /\ changes \in 0 .. MaxChanges /\ faults \in 0 .. MaxFaults

\* The broker says "online" only while it has a session of the service whose
\* last will is still to come (publisher.rs): whoever reads the topic after the
\* service is gone reads "offline" or nothing.
AvailabilityHonest == retained["availability"] = "online" => session

HoursDistinct == \A i, j \in DOMAIN rows : Hours[rows[i]] = Hours[rows[j]] => i = j

\* One row per model hour, however often the retained message comes back and
\* whichever process stores it; and what the recorder takes for stored is.
RecordedOnce ==
  /\ TypeOK
  /\ HoursDistinct
  /\ last_hour # 0 => Stored(last_hour)

Fairness ==
  /\ WF_vars(ServiceWorks) /\ WF_vars(ServiceConnects) /\ WF_vars(ServiceSends)
  /\ WF_vars(ServiceNotices) /\ WF_vars(SessionExpires)
  /\ WF_vars(FeedWorks) /\ WF_vars(RelayGrid) /\ WF_vars(Persist)
  /\ WF_vars(RelayService("status")) /\ WF_vars(RelayService("availability"))

LiveSpec == Spec /\ Fairness

\* When nothing fails any more, the broker holds what the service would say
\* now, or does not call a service that is gone online; and the desktop shows
\* what the broker holds, unless somebody else's payload was the last it
\* received.
BrokerCurrent ==
  IF phase = "done" THEN retained["availability"] # "online"
  ELSE \A t \in Topics : retained[t] = Service!Current[t]

DesktopCurrent ==
  kind = "desktop" /\ mode \in {"select", "sleep"} =>
    \A t \in Topics : retained[t] # None /\ latest[t] \notin {Foreign, None} =>
      retained[t] = IF t = "grid" THEN shown ELSE view[t]

Converges == <>[](BrokerCurrent /\ DesktopCurrent)
=============================================================================
