---------------------------- MODULE DesktopFeed -----------------------------
(***************************************************************************)
(* The desktop app's feed: the commands start_feed, stop_feed and          *)
(* save_config (src-tauri commands.rs), the tasks a started feed consists  *)
(* of (bridge.rs), and the connection status they all write.               *)
(*                                                                         *)
(* Every await is the boundary of a step.  An abort takes a task where it  *)
(* awaits; a task in the middle of a poll on another thread first finishes *)
(* the poll.  Status events are written to the database at the awaits and  *)
(* are not kept here.                                                      *)
(***************************************************************************)
EXTENDS Naturals, FiniteSets

CONSTANTS
  MaxFeeds,         \* feeds started in a behaviour (bound)
  Calls,            \* commands under way at the same time
  Overlap,          \* TRUE iff start_feed and stop_feed calls may overlap
  ReadTimeout,      \* socket_read_timeout_secs, in units of 10 s
  HeartbeatTimeout, \* heartbeat_timeout_secs, in the same units
  MaxQuiet          \* bound of the quiet time

ASSUME FeedAssumption ==
  /\ MaxFeeds \in Nat \ {0} /\ Overlap \in BOOLEAN
  /\ ReadTimeout \in Nat /\ HeartbeatTimeout \in Nat /\ MaxQuiet \in Nat

VARIABLES
  source_kind, \* of the saved configuration
  handle,      \* feed_handle: a feed, or 0
  call,        \* the commands under way
  shown,       \* connection_status
  kind,        \* the source kind a feed was started with
  client,      \* where a feed's client task is
  others,      \* its background tasks that still run
  killed,      \* the feed's tasks were aborted
  watchdog,    \* where its watchdog is
  light,       \* the watchdog's current_status
  transport,   \* SourceStatus of its source
  quiet        \* time since its last message

commands == <<source_kind, handle, call>>
tasks == <<kind, client, others, killed>>
dog == <<watchdog, light>>
source == <<transport, quiet>>
feedVars == <<commands, shown, tasks, dog, source>>

Feed == 1 .. MaxFeeds
Kinds == {"socket", "mqtt"}
Transport == {"Disconnected", "Connecting", "Connected"}
Light == {"Disconnected", "Connecting", "Connected", "Degraded", "ConnectionLost"}

Tasks == {"relay", "metrics", "watchdog", "weather", "service"}

\* Only an MQTT source carries the weather.
Background(k) == IF k = "mqtt" THEN Tasks ELSE Tasks \ {"weather", "service"}

Ended == {"done", "aborted"}
ClientStages == {"off", "spawned", "recording", "running", "ended", "closing"} \cup Ended
WatchdogStages == {"off", "select", "record", "write"}

Showing(running, l) == [running |-> running, light |-> l]
Stopped == Showing(FALSE, "Disconnected")

FeedInit ==
  /\ source_kind \in Kinds /\ handle = 0
  /\ call = [c \in Calls |-> [at |-> "none", feed |-> 0]]
  /\ shown = Stopped
  /\ kind = [f \in Feed |-> "socket"] /\ client = [f \in Feed |-> "off"]
  /\ others = [f \in Feed |-> {}] /\ killed = [f \in Feed |-> FALSE]
  /\ watchdog = [f \in Feed |-> "off"] /\ light = [f \in Feed |-> "Connecting"]
  /\ transport = [f \in Feed |-> "Disconnected"] /\ quiet = [f \in Feed |-> 0]

-----------------------------------------------------------------------------
(* LivenessPolicy.                                                         *)

Policy(k) ==
  IF k = "socket" THEN [degraded |-> ReadTimeout + 1, lost |-> ReadTimeout + 3]
  ELSE [degraded |-> HeartbeatTimeout + HeartbeatTimeout \div 2,
        lost |-> HeartbeatTimeout * 3]

\* The transport comes first; silence is only judged on a connection.
Resolve(k, status, silence) ==
  CASE status = "Disconnected" -> "ConnectionLost"
    [] status = "Connecting" -> "Connecting"
    [] status = "Connected" /\ silence >= Policy(k).lost -> "ConnectionLost"
    [] status = "Connected" /\ silence \in Policy(k).degraded .. Policy(k).lost - 1 -> "Degraded"
    [] OTHER -> "Connected"

Verdict(f) == Resolve(kind[f], transport[f], quiet[f])

-----------------------------------------------------------------------------
(* Commands.                                                               *)

Finished(f) == client[f] \in Ended /\ others[f] = {}

\* Mutant of Stale: only the client task is asked.
StaleClientOnly(f) == f # 0 => client[f] \in Ended

\* A handle all of whose tasks have finished does not count.
Stale(f) == f # 0 => Finished(f)

Free(c) == call[c].at = "none" /\ (Overlap \/ \A d \in Calls : call[d].at = "none")
At(c, at, f) == call' = [call EXCEPT ![c] = [at |-> at, feed |-> f]]
Return(c) == At(c, "none", 0)

\* save_config: what runs keeps the configuration it was started with.
SaveConfig ==
  /\ \E k \in Kinds \ {source_kind} : source_kind' = k
  /\ UNCHANGED <<handle, call, shown, tasks, dog, source>>

StartChecks(c) ==
  /\ Free(c) /\ Stale(handle)
  /\ \E f \in Feed : client[f] = "off"
  /\ At(c, "checked", 0)
  /\ UNCHANGED <<source_kind, handle, shown, tasks, dog, source>>

\* Feeds are numbered as they are started.
NextFeed(f) == client[f] = "off" /\ \A g \in Feed : g < f => client[g] # "off"

\* The stale handle is taken and bridge::start_feed spawns the tasks.
StartSpawns(c) ==
  /\ call[c].at = "checked"
  /\ \E f \in Feed :
       /\ NextFeed(f) /\ At(c, "spawned", f)
       /\ kind' = [kind EXCEPT ![f] = source_kind]
       /\ client' = [client EXCEPT ![f] = "spawned"]
       /\ others' = [others EXCEPT ![f] = Background(source_kind)]
       /\ watchdog' = [watchdog EXCEPT ![f] = "select"]
  /\ handle' = 0
  /\ UNCHANGED <<source_kind, shown, killed, light, source>>

\* The Started event has been written; only now the handle is stored.
StartStores(c) ==
  /\ call[c].at = "spawned"
  /\ handle' = call[c].feed /\ Return(c)
  /\ UNCHANGED <<source_kind, shown, tasks, dog, source>>

\* A watchdog that ends takes its locals with it.
WatchdogLeaves(f) ==
  /\ watchdog' = [watchdog EXCEPT ![f] = "off"]
  /\ light' = [light EXCEPT ![f] = "Connecting"] /\ quiet' = [quiet EXCEPT ![f] = 0]

\* A task that awaits is dropped at once; a write under way, a heartbeat's too,
\* still happens.
Polling(f) == watchdog[f] = "write"

Abort(f) ==
  /\ killed' = [killed EXCEPT ![f] = TRUE]
  /\ client' = [client EXCEPT ![f] = IF @ = "done" THEN @ ELSE "aborted"]
  /\ others' = [others EXCEPT ![f] = {}]
  /\ \/ ~Polling(f) /\ WatchdogLeaves(f)
     \/ /\ watchdog[f] \in {"select", "write"}
        /\ watchdog' = [watchdog EXCEPT ![f] = "write"] /\ UNCHANGED <<light, quiet>>
  /\ transport' = [transport EXCEPT ![f] = "Disconnected"]

StopAborts(c) ==
  /\ Free(c) /\ At(c, "stopping", 0) /\ handle' = 0
  /\ IF handle = 0 THEN UNCHANGED <<client, others, killed, dog, source>>
                   ELSE Abort(handle)
  /\ UNCHANGED <<source_kind, shown, kind>>

StopWrites(c) ==
  /\ call[c].at = "stopping" /\ shown' = Stopped /\ Return(c)
  /\ UNCHANGED <<source_kind, handle, tasks, dog, source>>

-----------------------------------------------------------------------------
(* The client task.                                                        *)

ClientStep(f, from, to) ==
  /\ client[f] = from /\ client' = [client EXCEPT ![f] = to]
  /\ UNCHANGED <<commands, kind, others, killed, dog>>

ClientStarts(f) ==
  /\ ClientStep(f, "spawned", "recording")
  /\ shown' = Showing(TRUE, "Connecting") /\ UNCHANGED source

\* source.run() announces the attempt.
ClientRuns(f) ==
  /\ ClientStep(f, "recording", "running")
  /\ transport' = [transport EXCEPT ![f] = "Connecting"] /\ UNCHANGED <<shown, quiet>>

\* Only the socket client gives up by itself.
SourceEnds(f) ==
  /\ kind[f] = "socket" /\ ClientStep(f, "running", "ended")
  /\ transport' = [transport EXCEPT ![f] = "Disconnected"] /\ UNCHANGED <<shown, quiet>>

ClientReports(f) ==
  /\ ClientStep(f, "ended", "closing") /\ shown' = Stopped /\ UNCHANGED source

\* The alive signal is dropped with the task.
ClientEnds(f) == ClientStep(f, "closing", "done") /\ UNCHANGED <<shown, source>>

-----------------------------------------------------------------------------
(* The source.                                                             *)

\* MqttSource tells Connected and, after an error, Connecting.  SocketSource
\* tells Connecting when it starts and Disconnected when it ends.
Reconnects(f) ==
  /\ client[f] = "running" /\ kind[f] = "mqtt"
  /\ transport' = [transport EXCEPT ![f] =
       IF @ = "Connected" THEN "Connecting" ELSE "Connected"]
  /\ UNCHANGED <<commands, shown, tasks, dog, quiet>>

Message(f) ==
  /\ client[f] = "running" /\ (kind[f] = "mqtt" => transport[f] = "Connected")
  /\ quiet' = [quiet EXCEPT ![f] = 0]
  /\ UNCHANGED <<commands, shown, tasks, dog, transport>>

Silence(f) ==
  /\ client[f] = "running" /\ quiet[f] < MaxQuiet
  /\ quiet' = [quiet EXCEPT ![f] = @ + 1]
  /\ UNCHANGED <<commands, shown, tasks, dog, transport>>

-----------------------------------------------------------------------------
(* The other tasks.                                                        *)

Watches(f) == "watchdog" \in others[f]

\* A verdict that differs is recorded, written and emitted.
WatchdogChecks(f) ==
  /\ Watches(f) /\ watchdog[f] = "select" /\ Verdict(f) # light[f]
  /\ watchdog' = [watchdog EXCEPT ![f] = "record"]
  /\ light' = [light EXCEPT ![f] = Verdict(f)]
  /\ UNCHANGED <<commands, shown, tasks, source>>

WatchdogRecorded(f) ==
  /\ watchdog[f] = "record" /\ watchdog' = [watchdog EXCEPT ![f] = "write"]
  /\ UNCHANGED <<commands, shown, tasks, light, source>>

WatchdogWrites(f) ==
  /\ Polling(f)
  /\ shown' = Showing(TRUE, light[f])
  /\ IF killed[f] THEN WatchdogLeaves(f)
     ELSE watchdog' = [watchdog EXCEPT ![f] = "select"] /\ UNCHANGED <<light, quiet>>
  /\ UNCHANGED <<commands, tasks, transport>>

\* Mutant of Heartbeat: it only writes to the log.
HeartbeatLogs(f) == Watches(f) /\ UNCHANGED feedVars

\* Every minute, whatever the verdict.
Heartbeat(f) ==
  /\ Watches(f) /\ watchdog[f] = "select"
  /\ shown' = Showing(TRUE, light[f])
  /\ UNCHANGED <<commands, tasks, dog, source>>

\* Mutant of Gone: a background task keeps a sender of the alive channel.
GoneNever(f) == FALSE

\* The alive signal is gone with the client task, and so is the source with
\* its broadcast channel.
Gone(f) == client[f] \in Ended

TaskEnds(f, t) ==
  /\ t \in others[f] /\ Gone(f) /\ (t = "watchdog" => watchdog[f] = "select")
  /\ others' = [others EXCEPT ![f] = @ \ {t}]
  /\ IF t = "watchdog" THEN WatchdogLeaves(f) ELSE UNCHANGED <<watchdog, light, quiet>>
  /\ UNCHANGED <<commands, shown, kind, client, killed, transport>>

-----------------------------------------------------------------------------

Command(c) ==
  StartChecks(c) \/ StartSpawns(c) \/ StartStores(c) \/ StopAborts(c) \/ StopWrites(c)
Client(f) == ClientStarts(f) \/ ClientRuns(f) \/ ClientReports(f) \/ ClientEnds(f)
Watchdog(f) == WatchdogChecks(f) \/ WatchdogRecorded(f) \/ WatchdogWrites(f)
Environment(f) == SourceEnds(f) \/ Reconnects(f) \/ Message(f) \/ Silence(f)

FeedNext ==
  \/ SaveConfig
  \/ \E c \in Calls : Command(c)
  \/ \E f \in Feed :
       \/ Client(f) \/ Watchdog(f) \/ Heartbeat(f) \/ Environment(f)
       \/ \E t \in Tasks : TaskEnds(f, t)

FeedSpec == FeedInit /\ [][FeedNext]_feedVars

\* A command that was called returns, tasks are scheduled, both timers tick.
Fairness ==
  /\ \A c \in Calls : WF_feedVars(StartSpawns(c) \/ StartStores(c) \/ StopWrites(c))
  /\ \A f \in Feed :
       /\ WF_feedVars(Client(f)) /\ WF_feedVars(Watchdog(f)) /\ WF_feedVars(Heartbeat(f))
       /\ WF_feedVars(\E t \in Tasks : TaskEnds(f, t))

FairSpec == FeedSpec /\ Fairness

-----------------------------------------------------------------------------
(* Properties.                                                             *)

FeedTypeOK ==
  /\ source_kind \in Kinds /\ handle \in Feed \cup {0}
  /\ call \in [Calls -> [at : {"none", "checked", "spawned", "stopping"}, feed : Feed \cup {0}]]
  /\ shown \in [running : BOOLEAN, light : Light]
  /\ kind \in [Feed -> Kinds] /\ client \in [Feed -> ClientStages]
  /\ others \in [Feed -> SUBSET Tasks]
  /\ \A f \in Feed : kind[f] = "socket" => others[f] \cap {"weather", "service"} = {}
  /\ killed \in [Feed -> BOOLEAN]
  /\ watchdog \in [Feed -> WatchdogStages] /\ light \in [Feed -> Light]
  /\ transport \in [Feed -> Transport] /\ quiet \in [Feed -> 0 .. MaxQuiet]

Alive(f) == client[f] # "off" /\ ~Finished(f)
Starting(f) == \E c \in Calls : call[c].feed = f

\* While start_feed and stop_feed calls do not overlap, whatever runs belongs to
\* the feed the app can stop, or to the one it is starting: no two feeds record
\* at once, and none is left that only the end of the app would stop.
OneFeed ==
  /\ FeedTypeOK
  /\ \A f \in Feed : Alive(f) => (f = handle /\ ~Starting(f)) \/ (handle = 0 /\ Starting(f))

\* When a client task has ended, however it ended, every task of its feed ends,
\* so that start_feed finds the handle stale.
TasksEnd == \A f \in Feed : client[f] \in Ended ~> others[f] = {}

\* The status shown settles on the verdict on a running feed once that stops
\* changing, whoever wrote it in between.
LightFollows ==
  \A f \in Feed : \A v \in Light :
    <>[](client[f] = "running" /\ Verdict(f) = v) => <>[](shown = Showing(TRUE, v))
=============================================================================
