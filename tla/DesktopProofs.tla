--------------------------- MODULE DesktopProofs ----------------------------
(***************************************************************************)
(* The feed and the storage of the desktop app.                            *)
(*                                                                         *)
(* For any number of feeds, any thresholds and any set of callers that     *)
(* take turns: whatever runs belongs to the feed the app can stop.  OneFeed*)
(* says where a running feed is known, but not what a command that is      *)
(* halfway may rely on: that the handle it found finished is still         *)
(* finished when the new feed is spawned, and that no handle is stored     *)
(* while one is being started or stopped (Halfway).                        *)
(*                                                                         *)
(* One window of the unnamed stack, any number of databases and batches,   *)
(* failures and ends of the app anywhere: no file that has rows loses its  *)
(* name, a swap starts fresh, the app reopens what it had, and a database  *)
(* has one handle, but for the swap after one that failed.  The properties *)
(* say what holds at rest; the invariant says under which name each        *)
(* database is at every step of every command (Stepwise), and what a       *)
(* command may count on if none was cut off before (Orderly).  With several*)
(* windows it does not hold: see the README.                               *)
(***************************************************************************)
EXTENDS DesktopFeed, DesktopStorage, TLAPS

-----------------------------------------------------------------------------
(* The feed.                                                               *)

\* Calls take turns, and what is true of the handle while one is under way.
Turns == \A c, d \in Calls : call[c].at # "none" /\ call[d].at # "none" => c = d

Halfway ==
  \A c \in Calls :
    /\ call[c].feed # 0 <=> call[c].at = "spawned"
    /\ call[c].at = "checked" => Stale(handle)
    /\ call[c].at \in {"spawned", "stopping"} => handle = 0

Known ==
  \A f \in Feed : Alive(f) => (f = handle /\ ~Starting(f)) \/ (handle = 0 /\ Starting(f))

FeedInv == FeedTypeOK /\ Turns /\ Halfway /\ Known

\* An action of the feeds' tasks and sources.
FeedStep ==
  \E f \in Feed :
    \/ Client(f) \/ Watchdog(f) \/ Heartbeat(f) \/ Environment(f)
    \/ \E t \in Tasks : TaskEnds(f, t)

LEMMA FeedsAreNumbers == Feed \subseteq Nat \ {0}
BY FeedAssumption DEF Feed

(***************************************************************************)
(* Types.                                                                  *)
(***************************************************************************)
LEMMA VerdictType == ASSUME NEW f \in Feed PROVE Verdict(f) \in Light
BY DEF Verdict, Resolve, Light

LEMMA FeedInitInv == FeedInit => FeedInv
<1> SUFFICES ASSUME FeedInit PROVE FeedInv OBVIOUS
<1>1. FeedTypeOK
  BY FeedAssumption DEF FeedInit, FeedTypeOK, Stopped, Showing, Light, Kinds, ClientStages, WatchdogStages, Transport
<1>2. Turns /\ Halfway
  BY DEF FeedInit, Turns, Halfway
<1>3. Known
  BY DEF FeedInit, Known, Alive
<1> QED BY <1>1, <1>2, <1>3 DEF FeedInv

LEMMA CommandTypes ==
  ASSUME FeedTypeOK, NEW c \in Calls, Command(c)
  PROVE  FeedTypeOK'
<1> USE FeedAssumption
<1>1. CASE StartChecks(c)
  BY <1>1 DEF StartChecks, At, FeedTypeOK, tasks, dog, source
<1>2. CASE StartSpawns(c)
  <2>1. PICK f \in Feed :
          /\ NextFeed(f) /\ At(c, "spawned", f)
          /\ kind' = [kind EXCEPT ![f] = source_kind]
          /\ client' = [client EXCEPT ![f] = "spawned"]
          /\ others' = [others EXCEPT ![f] = Background(source_kind)]
          /\ watchdog' = [watchdog EXCEPT ![f] = "select"]
    BY <1>2 DEF StartSpawns
  <2>2. /\ handle' = 0
        /\ UNCHANGED <<source_kind, shown, killed, light, transport, quiet>>
    BY <1>2 DEF StartSpawns, source
  <2>3. others' \in [Feed -> SUBSET Tasks]
    BY <2>1 DEF FeedTypeOK, Background
  <2>6. \A g \in Feed : kind'[g] = "socket" => others'[g] \cap {"weather", "service"} = {}
    <3> TAKE g \in Feed
    <3>0. others'[g] = IF g = f THEN Background(source_kind) ELSE others[g]
      BY <2>1 DEF FeedTypeOK
    <3>1. CASE g = f BY <2>1, <3>0, <3>1 DEF FeedTypeOK, Background, Tasks, Kinds
    <3>2. CASE g # f BY <2>1, <3>0, <3>2 DEF FeedTypeOK
    <3> QED BY <3>1, <3>2
  <2>4. kind' \in [Feed -> Kinds] /\ client' \in [Feed -> ClientStages]
        /\ watchdog' \in [Feed -> WatchdogStages]
    BY <2>1 DEF FeedTypeOK, ClientStages, WatchdogStages
  <2>5. call' \in [Calls -> [at : {"none", "checked", "spawned", "stopping"}, feed : Feed \cup {0}]]
    BY <2>1 DEF FeedTypeOK, At
  <2> QED BY <2>2, <2>3, <2>4, <2>5, <2>6 DEF FeedTypeOK
<1>3. CASE StartStores(c)
  BY <1>3 DEF StartStores, Return, At, FeedTypeOK, tasks, dog, source
<1>4. CASE StopAborts(c)
  <2>1. /\ call' \in [Calls -> [at : {"none", "checked", "spawned", "stopping"}, feed : Feed \cup {0}]]
        /\ handle' = 0 /\ UNCHANGED <<source_kind, shown, kind>>
    BY <1>4 DEF StopAborts, At, FeedTypeOK
  <2>2. CASE handle = 0
    BY <1>4, <2>1, <2>2 DEF StopAborts, FeedTypeOK, dog, source
  <2>3. CASE handle # 0
    <3>1. handle \in Feed /\ Abort(handle)
      BY <1>4, <2>3 DEF StopAborts, FeedTypeOK
    <3>2. /\ killed' \in [Feed -> BOOLEAN] /\ client' \in [Feed -> ClientStages]
          /\ transport' \in [Feed -> Transport]
      BY <3>1 DEF Abort, FeedTypeOK, ClientStages, Ended, Transport
    <3>3. /\ others' \in [Feed -> SUBSET Tasks]
          /\ \A g \in Feed : others'[g] \subseteq others[g]
      BY <3>1 DEF Abort, FeedTypeOK
    <3>4. /\ watchdog' \in [Feed -> WatchdogStages] /\ light' \in [Feed -> Light]
          /\ quiet' \in [Feed -> 0 .. MaxQuiet]
      BY <3>1 DEF Abort, WatchdogLeaves, FeedTypeOK, WatchdogStages, Light
    <3> QED BY <2>1, <3>2, <3>3, <3>4 DEF FeedTypeOK
  <2> QED BY <2>2, <2>3
<1>5. CASE StopWrites(c)
  BY <1>5 DEF StopWrites, Return, At, FeedTypeOK, tasks, dog, source, Stopped, Showing, Light
<1> QED BY <1>1, <1>2, <1>3, <1>4, <1>5 DEF Command

LEMMA FeedTypes ==
  ASSUME FeedTypeOK, FeedStep
  PROVE  FeedTypeOK'
<1> USE FeedAssumption
<1>1. PICK f \in Feed :
        \/ Client(f) \/ Watchdog(f) \/ Heartbeat(f) \/ Environment(f)
        \/ \E t \in Tasks : TaskEnds(f, t)
  BY DEF FeedStep
<1>2. CASE Client(f)
  <2>1. /\ client' \in [Feed -> ClientStages]
        /\ UNCHANGED <<source_kind, handle, call, kind, others, killed, watchdog, light>>
    BY <1>2 DEF Client, ClientStarts, ClientRuns, ClientReports, ClientEnds, ClientStep, FeedTypeOK,
                commands, dog, ClientStages, Ended
  <2>2. shown' \in [running : BOOLEAN, light : Light]
    <3>1. shown' = shown \/ shown' = Showing(TRUE, "Connecting") \/ shown' = Showing(FALSE, "Disconnected")
      BY <1>2 DEF Client, ClientStarts, ClientRuns, ClientReports, ClientEnds, Stopped
    <3>2. \A b \in BOOLEAN, l \in Light : Showing(b, l) \in [running : BOOLEAN, light : Light]
      BY DEF Showing
    <3>3. /\ Showing(TRUE, "Connecting") \in [running : BOOLEAN, light : Light]
          /\ Showing(FALSE, "Disconnected") \in [running : BOOLEAN, light : Light]
      BY <3>2 DEF Light
    <3>4. shown \in [running : BOOLEAN, light : Light]
      BY DEF FeedTypeOK
    <3> QED BY <3>1, <3>3, <3>4
  <2>3. quiet' = quiet
    BY <1>2 DEF Client, ClientStarts, ClientRuns, ClientReports, ClientEnds, source
  <2>4. transport' \in [Feed -> Transport]
    BY <1>2 DEF Client, ClientStarts, ClientRuns, ClientReports, ClientEnds, FeedTypeOK,
                source, Transport
  <2> QED BY <2>1, <2>2, <2>3, <2>4 DEF FeedTypeOK
<1>3. CASE Watchdog(f)
  <2>1. Verdict(f) \in Light
    BY VerdictType
  <2>2. CASE WatchdogChecks(f)
    BY <2>1, <2>2 DEF WatchdogChecks, FeedTypeOK, commands, tasks, source, WatchdogStages
  <2>3. CASE WatchdogRecorded(f)
    BY <2>3 DEF WatchdogRecorded, FeedTypeOK, commands, tasks, source, WatchdogStages
  <2>4. CASE WatchdogWrites(f)
    BY <2>4 DEF WatchdogWrites, WatchdogLeaves, FeedTypeOK, commands, tasks, WatchdogStages, Showing, Light
  <2> QED BY <1>3, <2>2, <2>3, <2>4 DEF Watchdog
<1>4. CASE Heartbeat(f)
  BY <1>4 DEF Heartbeat, FeedTypeOK, commands, tasks, dog, source, Showing
<1>5. CASE Environment(f)
  BY <1>5 DEF Environment, SourceEnds, Reconnects, Message, Silence, ClientStep, FeedTypeOK,
              commands, tasks, dog, ClientStages, Transport
<1>6. CASE \E t \in Tasks : TaskEnds(f, t)
  <2>1. PICK t \in Tasks : TaskEnds(f, t)
    BY <1>6
  <2>2. /\ others' \in [Feed -> SUBSET Tasks]
        /\ \A g \in Feed : others'[g] \subseteq others[g]
    BY <2>1 DEF TaskEnds, FeedTypeOK
  <2>3. /\ watchdog' \in [Feed -> WatchdogStages] /\ light' \in [Feed -> Light]
        /\ quiet' \in [Feed -> 0 .. MaxQuiet]
    BY <2>1 DEF TaskEnds, WatchdogLeaves, FeedTypeOK, WatchdogStages, Light
  <2> QED BY <2>1, <2>2, <2>3 DEF TaskEnds, FeedTypeOK, commands
<1> QED BY <1>1, <1>2, <1>3, <1>4, <1>5, <1>6

(***************************************************************************)
(* The tasks of a feed: what has ended stays ended, what was never started *)
(* is not started, and no command moves.                                   *)
(***************************************************************************)
LEMMA FeedsOnlyEnd ==
  ASSUME FeedTypeOK, FeedStep
  PROVE  /\ UNCHANGED commands
         /\ \A g \in Feed : /\ Finished(g) => Finished(g)'
                            /\ Alive(g)' => Alive(g)
<1>1. PICK f \in Feed :
        \/ Client(f) \/ Watchdog(f) \/ Heartbeat(f) \/ Environment(f)
        \/ \E t \in Tasks : TaskEnds(f, t)
  BY DEF FeedStep
<1>2. CASE Client(f) \/ SourceEnds(f)
  BY <1>2 DEF Client, ClientStarts, ClientRuns, ClientReports, ClientEnds, SourceEnds, ClientStep,
              FeedTypeOK, Finished, Alive, Ended
<1>3. CASE Watchdog(f) \/ Heartbeat(f) \/ Reconnects(f) \/ Message(f) \/ Silence(f)
  BY <1>3 DEF Watchdog, WatchdogChecks, WatchdogRecorded, WatchdogWrites, Heartbeat, Reconnects,
              Message, Silence, tasks, Finished, Alive
<1>4. CASE \E t \in Tasks : TaskEnds(f, t)
  BY <1>4 DEF TaskEnds, FeedTypeOK, Finished, Alive
<1> QED BY <1>1, <1>2, <1>3, <1>4 DEF Environment

LEMMA FeedStepKnown ==
  ASSUME FeedInv, FeedStep
  PROVE  FeedInv'
<1>1. FeedTypeOK' /\ UNCHANGED <<source_kind, handle, call>>
  BY FeedTypes, FeedsOnlyEnd DEF FeedInv, commands
<1>2. Turns'
  BY <1>1 DEF FeedInv, Turns
<1>3. Halfway'
  <2>1. Stale(handle) => Stale(handle)'
    BY <1>1, FeedsOnlyEnd DEF Stale, FeedInv, FeedTypeOK
  <2> QED BY <1>1, <2>1 DEF FeedInv, Halfway
<1>4. Known'
  BY <1>1, FeedsOnlyEnd DEF FeedInv, Known, Starting
<1> QED BY <1>1, <1>2, <1>3, <1>4 DEF FeedInv

(***************************************************************************)
(* The commands.                                                           *)
(***************************************************************************)
LEMMA CommandKnown ==
  ASSUME Overlap = FALSE, FeedInv, NEW c \in Calls, Command(c)
  PROVE  FeedInv'
<1> USE FeedsAreNumbers DEF FeedInv
<1>0. FeedTypeOK'
  BY CommandTypes
<1>1. CASE StartChecks(c)
  <2>1. /\ \A d \in Calls : call[d].at = "none"
        /\ call' = [call EXCEPT ![c] = [at |-> "checked", feed |-> 0]]
        /\ Stale(handle) /\ UNCHANGED <<handle, client, others>>
    BY <1>1 DEF StartChecks, Free, At, tasks
  <2>2. \A d \in Calls : call'[d].at # "none" => d = c
    BY <2>1 DEF FeedTypeOK
  <2>3. \A d \in Calls : call'[d].feed = 0
    BY <2>1 DEF FeedTypeOK, Halfway
  <2>4. Turns' BY <2>2 DEF Turns
  <2>5. Halfway'
    BY <2>1, <2>2, <2>3 DEF Halfway, Stale, Finished, FeedTypeOK
  <2>6. Known'
    BY <2>1, <2>3 DEF Known, Alive, Finished, Starting, Halfway
  <2> QED BY <1>0, <2>4, <2>5, <2>6
<1>2. CASE StartSpawns(c)
  <2>1. PICK f \in Feed :
          /\ NextFeed(f) /\ At(c, "spawned", f)
          /\ client' = [client EXCEPT ![f] = "spawned"]
          /\ others' = [others EXCEPT ![f] = Background(source_kind)]
    BY <1>2 DEF StartSpawns
  <2>2. call[c].at = "checked" /\ handle' = 0 /\ call' = [call EXCEPT ![c] = [at |-> "spawned", feed |-> f]]
    BY <1>2, <2>1 DEF StartSpawns, At
  <2>3. \A d \in Calls : d # c => call'[d] = call[d] /\ call[d].at = "none" /\ call[d].feed = 0
    BY <2>2 DEF Turns, Halfway, FeedTypeOK
  <2>4. call'[c].at = "spawned" /\ call'[c].feed = f /\ call[c].feed = 0
    BY <2>2 DEF FeedTypeOK, Halfway
  <2>5. Turns' BY <2>3 DEF Turns
  <2>6. Halfway' BY <2>2, <2>3, <2>4 DEF Halfway
  <2>7. \A g \in Feed : g # f => ~Alive(g)
    <3> SUFFICES ASSUME NEW g \in Feed, g # f, Alive(g) PROVE FALSE OBVIOUS
    <3>1. ~Starting(g) BY <2>3, <2>4 DEF Starting
    <3>2. g = handle BY <3>1 DEF Known
    <3>3. Finished(g) BY <2>2, <3>2 DEF Halfway, Stale
    <3> QED BY <3>3 DEF Alive
  <2>8. \A g \in Feed : g # f => client'[g] = client[g] /\ others'[g] = others[g]
    BY <2>1 DEF FeedTypeOK
  <2>9. Known'
    BY <2>2, <2>4, <2>7, <2>8 DEF Known, Alive, Finished, Starting
  <2> QED BY <1>0, <2>5, <2>6, <2>9
<1>3. CASE StartStores(c)
  <2>1. /\ call[c].at = "spawned" /\ handle' = call[c].feed
        /\ call' = [call EXCEPT ![c] = [at |-> "none", feed |-> 0]]
        /\ UNCHANGED <<client, others>>
    BY <1>3 DEF StartStores, Return, At, tasks
  <2>2. \A d \in Calls : call'[d].at = "none" /\ call'[d].feed = 0
    BY <2>1 DEF Turns, Halfway, FeedTypeOK
  <2>3. \A d \in Calls : d # c => call[d].feed = 0
    BY <2>1 DEF Turns, Halfway
  <2>4. Turns' /\ Halfway' BY <2>2 DEF Turns, Halfway
  <2>5. \A g \in Feed : Alive(g) => g = call[c].feed
    BY <2>1, <2>3 DEF Known, Starting, Halfway
  <2>6. Known'
    BY <2>1, <2>2, <2>5 DEF Known, Alive, Finished, Starting
  <2> QED BY <1>0, <2>4, <2>6
<1>4. CASE StopAborts(c)
  <2>1. /\ \A d \in Calls : call[d].at = "none"
        /\ call' = [call EXCEPT ![c] = [at |-> "stopping", feed |-> 0]]
        /\ handle' = 0
    BY <1>4 DEF StopAborts, Free, At
  <2>2. \A d \in Calls : call'[d].feed = 0 /\ (call'[d].at # "none" => d = c /\ call'[d].at = "stopping")
    BY <2>1 DEF FeedTypeOK, Halfway
  <2>3. Turns' /\ Halfway' BY <2>1, <2>2 DEF Turns, Halfway
  <2>4. \A g \in Feed : Alive(g) => g = handle
    BY <2>1 DEF Known, Starting, Halfway
  <2>5. handle = 0 => Known'
    <3> SUFFICES ASSUME handle = 0 PROVE Known' OBVIOUS
    <3>1. UNCHANGED <<client, others>> BY <1>4 DEF StopAborts
    <3>2. \A g \in Feed : ~Alive(g) BY <2>4, FeedsAreNumbers
    <3> QED BY <3>1, <3>2 DEF Known, Alive, Finished
  <2>6. handle # 0 => Known'
    <3> SUFFICES ASSUME handle # 0 PROVE Known' OBVIOUS
    <3>1. handle \in Feed /\ Abort(handle) BY <1>4 DEF StopAborts, FeedTypeOK
    <3>2. \A g \in Feed : g # handle => client'[g] = client[g] /\ others'[g] = others[g]
      BY <3>1 DEF Abort, FeedTypeOK
    <3>3. client'[handle] \in Ended /\ others'[handle] = {}
      BY <3>1 DEF Abort, FeedTypeOK, Ended
    <3>4. \A g \in Feed : ~Alive(g)'
      BY <2>4, <3>2, <3>3 DEF Alive, Finished
    <3> QED BY <3>4 DEF Known
  <2> QED BY <1>0, <2>3, <2>5, <2>6
<1>5. CASE StopWrites(c)
  <2>1. /\ call[c].at = "stopping" /\ handle = 0
        /\ call' = [call EXCEPT ![c] = [at |-> "none", feed |-> 0]]
        /\ UNCHANGED <<handle, client, others>>
    BY <1>5 DEF StopWrites, Return, At, tasks, Halfway
  <2>2. \A d \in Calls : call'[d].at = "none" /\ call'[d].feed = 0 /\ call[d].feed = 0
    BY <2>1 DEF Turns, Halfway, FeedTypeOK
  <2>3. Turns' /\ Halfway' BY <2>2 DEF Turns, Halfway
  <2>4. Known'
    BY <2>1, <2>2 DEF Known, Alive, Finished, Starting
  <2> QED BY <1>0, <2>3, <2>4
<1> QED BY <1>1, <1>2, <1>3, <1>4, <1>5 DEF Command

LEMMA FeedStepInv == ASSUME Overlap = FALSE PROVE FeedInv /\ [FeedNext]_feedVars => FeedInv'
<1> SUFFICES ASSUME FeedInv, [FeedNext]_feedVars PROVE FeedInv' OBVIOUS
<1>1. CASE SaveConfig
  BY <1>1 DEF SaveConfig, FeedInv, FeedTypeOK, Turns, Halfway, Known, Alive, Finished, Starting, Stale, tasks, dog, source
<1>2. CASE \E c \in Calls : Command(c)
  BY <1>2, CommandKnown
<1>3. CASE FeedStep
  BY <1>3, FeedStepKnown
<1>4. CASE UNCHANGED feedVars
  BY <1>4 DEF feedVars, commands, tasks, dog, source, FeedInv, FeedTypeOK, Turns, Halfway, Known, Alive, Finished, Starting, Stale
<1> QED BY <1>1, <1>2, <1>3, <1>4 DEF FeedNext, FeedStep

(***************************************************************************)
(* While calls of start_feed and stop_feed take turns (commands.rs), no    *)
(* two feeds run, and the one that does is the one the app can stop: for   *)
(* any interleaving of the feeds' own tasks, their ends and their aborts.  *)
(***************************************************************************)
THEOREM OneFeedRuns == ASSUME Overlap = FALSE PROVE FeedSpec => []OneFeed
<1>1. FeedInv => OneFeed
  BY DEF FeedInv, OneFeed, Known
<1>2. FeedInv /\ [FeedNext]_feedVars => FeedInv'
  BY FeedStepInv
<1> QED BY <1>1, <1>2, FeedInitInv, PTL DEF FeedSpec

-----------------------------------------------------------------------------
(* The storage.                                                            *)

NextName == Named(Root, "next")
Content(d) == main[d] \cup log[d]
OnDisk(d) == \E p \in Path : disk[p] = d

Types ==
  /\ disk \in [Path -> Db] /\ archived \subseteq Db \ {None}
  /\ main \in [Db -> SUBSET (1..MaxBatches)] /\ log \in [Db -> SUBSET (1..MaxBatches)]
  /\ made \in 0..MaxFiles /\ batches \in 0..MaxBatches /\ mishap \in BOOLEAN
  /\ up \in [Stack -> BOOLEAN] /\ slot \in [Stack -> Handles]
  /\ config \in [Stack -> Configs] /\ stored \in [Stack -> Mode]
  /\ job \in [Stack -> [step : Steps, new : Handles, old : Handles, config : Configs]]

\* A name is of one database, a snapshot has no other name, what has rows has a name.
Files ==
  /\ \A p, q \in Path : disk[p] = disk[q] /\ disk[p] # None => p = q
  /\ \A p \in Path : disk[p] \in 0..made /\ disk[p] \notin archived
  /\ archived \subseteq 1..made
  /\ \A d \in Db : Content(d) # {} => d \in 1..made /\ HasName(d)

Sound(h) == h = NoHandle \/ (h.db \in 1..made /\ OnDisk(h.db))
HandlesSound == Sound(slot[Root]) /\ Sound(job[Root].new) /\ Sound(job[Root].old)

\* What each step of a command knows of the slot and of the names.
Swapped == {"replaced", "retired", "moved"}
Emptied == {"reopened", "taken", "opened"}

Stepwise ==
  LET j == job[Root] IN
  /\ j.step = "idle" => j = NoJob
  /\ ~up[Root] => j.step = "idle" /\ slot[Root] = NoHandle
  /\ config[Root].dir = Root /\ j.config.dir = Root
  /\ j.step # "replaced" => j.old = NoHandle
  /\ j.step \notin {"staged", "reopened", "opened"} => j.new = NoHandle
  /\ j.step \in Emptied => slot[Root] = NoHandle
  /\ j.step \in {"reopened", "staged"} \cup Swapped => j.config = config[Root]
  /\ j.step \in {"reopened", "opened"} => j.new # NoHandle /\ j.new.db = disk[DbPath(j.config)]
  /\ j.step = "staged" => j.new # NoHandle /\ j.new.db = disk[NextName]
  /\ j.step \in Swapped => slot[Root] # NoHandle /\ slot[Root].db = disk[NextName]
  /\ j.step = "moved" => disk[DbPath(j.config)] = None

Orderly ==
  LET j == job[Root] IN
  ~mishap =>
    /\ config[Root] = Config(Root, stored[Root])
    /\ j.step \in {"idle", "staged"} /\ slot[Root] # NoHandle =>
         slot[Root].db = disk[DbPath(config[Root])]
    /\ j.step \in {"idle"} \cup Emptied => disk[NextName] = None
    /\ j.step = "staged" => Content(j.new.db) = {}
    /\ j.step = "replaced" /\ j.old # NoHandle => j.old.db = disk[DbPath(j.config)]

Inv == Types /\ Files /\ HandlesSound /\ Stepwise /\ Orderly

(***************************************************************************)
(* Names and handles.                                                      *)
(***************************************************************************)
LEMMA Paths ==
  /\ NextName \in Path
  /\ \A c \in Configs : c.dir = Root =>
       DbPath(c) \in Path /\ Staging(c) = NextName /\ DbPath(c) # NextName
<1>1. NextName \in Path
  BY DEF NextName, Named, Path
<1>2. ASSUME NEW c \in Configs, c.dir = Root
      PROVE  DbPath(c) \in Path /\ Staging(c) = NextName /\ DbPath(c) # NextName
  <2>1. Staging(c) = NextName BY <1>2 DEF Staging, NextName
  <2>2. DbPath(c) = Named(Root, "history") \/ DbPath(c) = Named(Root, "local")
    BY <1>2 DEF DbPath
  <2>3. Named(Root, "history") \in Path /\ Named(Root, "local") \in Path
    BY DEF Named, Path
  <2>4. Named(Root, "history") # NextName /\ Named(Root, "local") # NextName
    <3>1. \A n : Named(Root, n).name = n BY DEF Named
    <3> QED BY <3>1 DEF NextName
  <2> QED BY <2>1, <2>2, <2>3, <2>4
<1> QED BY <1>1, <1>2

LEMMA ConfigTypes ==
  \A m \in Mode : Config(Root, m) \in Configs /\ Config(Root, m).dir = Root
                  /\ Config(Root, m).mode = m
BY DEF Config, Configs

LEMMA HandleTypes ==
  /\ NoHandle \in Handles /\ NoHandle.db = None
  /\ \A d \in Db, p \in Path, r \in BOOLEAN : Handle(d, p, r) \in Handles /\ Handle(d, p, r).db = d
<1>1. Named(Root, "history") \in Path BY DEF Named, Path
<1>2. None \in Db BY BoundAssumption DEF Db, None
<1>3. \A d \in Db, p \in Path, r \in BOOLEAN : Handle(d, p, r) \in Handles /\ Handle(d, p, r).db = d
  BY DEF Handle, Handles
<1> QED BY <1>1, <1>2, <1>3 DEF NoHandle

LEMMA JobTypes ==
  /\ \A step \in Steps, new \in Handles, old \in Handles, c \in Configs :
       /\ Job(step, new, old, c) \in [step : Steps, new : Handles, old : Handles, config : Configs]
       /\ Job(step, new, old, c).step = step /\ Job(step, new, old, c).new = new
       /\ Job(step, new, old, c).old = old /\ Job(step, new, old, c).config = c
  /\ NoJob \in [step : Steps, new : Handles, old : Handles, config : Configs]
  /\ NoJob.step = "idle" /\ NoJob.new = NoHandle /\ NoJob.old = NoHandle /\ NoJob.config.dir = Root
<1>1. \A step \in Steps, new \in Handles, old \in Handles, c \in Configs :
       /\ Job(step, new, old, c) \in [step : Steps, new : Handles, old : Handles, config : Configs]
       /\ Job(step, new, old, c).step = step /\ Job(step, new, old, c).new = new
       /\ Job(step, new, old, c).old = old /\ Job(step, new, old, c).config = c
  BY DEF Job
<1>2. "idle" \in Steps /\ "embedded" \in Mode BY DEF Steps, Mode
<1> QED BY <1>1, <1>2, HandleTypes, ConfigTypes DEF NoJob

LEMMA SoundNotNone ==
  ASSUME NEW h, Sound(h), h # NoHandle
  PROVE  h.db \in 1..made /\ h.db # None /\ OnDisk(h.db)
BY DEF Sound, None

(***************************************************************************)
(* Opening a name: the database under it, or a new one.                    *)
(***************************************************************************)
LEMMA Opened ==
  ASSUME Types, Files, NEW p \in Path, Open(p), DbAt(p) <= MaxFiles, UNCHANGED <<main, log>>
  PROVE  /\ disk' \in [Path -> Db] /\ made' \in 0..MaxFiles /\ archived' = archived
         /\ Files'
         /\ disk'[p] = DbAt(p) /\ DbAt(p) \in 1..made' /\ DbAt(p) \in Db
         /\ \A q \in Path : q # p => disk'[q] = disk[q]
         /\ disk[p] # None => disk'[p] = disk[p]
         /\ disk[p] = None => Content(DbAt(p)) = {}
         /\ \A h : Sound(h) => Sound(h)'
<1> USE BoundAssumption
<1>1. /\ disk' = [disk EXCEPT ![p] = DbAt(p)] /\ archived' = archived
      /\ disk \in [Path -> Db] /\ made \in Nat /\ made <= MaxFiles
      /\ \A q \in Path : disk[q] \in 0..made /\ disk[q] \in Nat
  BY DEF Open, Types, Files
<1>2. \/ disk[p] # None /\ DbAt(p) = disk[p] /\ made' = made /\ DbAt(p) \in 1..made
      \/ disk[p] = None /\ DbAt(p) = made + 1 /\ made' = made + 1 /\ made + 1 <= MaxFiles
  BY <1>1 DEF Open, DbAt, None
<1>3. DbAt(p) \in 1..made' /\ made' \in 0..MaxFiles /\ made <= made' /\ DbAt(p) \in Db
  BY <1>1, <1>2 DEF Db, None
<1>4. disk' \in [Path -> Db] /\ disk'[p] = DbAt(p) /\ \A q \in Path : q # p => disk'[q] = disk[q]
  BY <1>1, <1>3
<1>5. \A q \in Path : disk[q] # None => disk'[q] = disk[q]
  BY <1>2, <1>4
<1>6. \A d : OnDisk(d) /\ d # None => OnDisk(d)'
  BY <1>5 DEF OnDisk
<1>7. \A d \in Db : d \in 1..made /\ HasName(d) => HasName(d)'
  BY <1>1, <1>5 DEF HasName, None
<1>8. Files'
  <2>1. \A q, r \in Path : disk'[q] = disk'[r] /\ disk'[q] # None => q = r
    <3> SUFFICES ASSUME NEW q \in Path, NEW r \in Path, disk'[q] = disk'[r], disk'[q] # None
                 PROVE  q = r
      OBVIOUS
    <3>1. CASE disk[p] # None
      <4>1. \A x \in Path : disk'[x] = disk[x] BY <1>2, <1>4, <3>1
      <4> QED BY <4>1 DEF Files
    <3>2. CASE disk[p] = None
      <4>1. \A x \in Path : x # p => disk'[x] # disk'[p]
        BY <1>1, <1>2, <1>4, <3>2
      <4>2. q # p /\ r # p => disk[q] = disk[r] /\ disk[q] # None BY <1>4
      <4> QED BY <4>1, <4>2 DEF Files
    <3> QED BY <3>1, <3>2
  <2>2. \A q \in Path : disk'[q] \in 0..made' /\ disk'[q] \notin archived
    <3> TAKE q \in Path
    <3>1. disk[q] \in 0..made /\ disk[q] \notin archived /\ archived \subseteq 1..made BY DEF Files
    <3>2. CASE disk'[q] = disk[q] BY <1>1, <1>3, <3>1, <3>2
    <3>3. CASE disk'[q] = made + 1 /\ made' = made + 1 BY <1>1, <3>1, <3>3
    <3> QED BY <1>2, <1>4, <3>2, <3>3
  <2>3. archived \subseteq 1..made'
    <3>1. archived \subseteq 1..made BY DEF Files
    <3> QED BY <1>1, <1>3, <3>1
  <2>4. \A d \in Db : Content(d)' # {} => d \in 1..made' /\ HasName(d)'
    <3> TAKE d \in Db
    <3>1. Content(d)' = Content(d) BY DEF Content
    <3>2. Content(d) # {} => d \in 1..made /\ HasName(d) BY DEF Files
    <3>3. d \in 1..made => d \in 1..made' BY <1>1, <1>3
    <3> QED BY <1>7, <3>1, <3>2, <3>3
  <2> QED BY <1>1, <2>1, <2>2, <2>3, <2>4 DEF Files
<1>9. ASSUME NEW h, Sound(h) PROVE Sound(h)'
  <2>1. h = NoHandle \/ (h.db \in 1..made /\ OnDisk(h.db)) BY <1>9 DEF Sound
  <2>2. h.db \in 1..made => h.db \in 1..made' /\ h.db # None BY <1>1, <1>3 DEF None
  <2> QED BY <1>6, <2>1, <2>2 DEF Sound
<1>10. disk[p] = None => Content(DbAt(p)) = {}
  <2> SUFFICES ASSUME disk[p] = None PROVE Content(made + 1) = {} BY <1>2
  <2>1. made + 1 \in Db /\ made + 1 \notin 1..made BY <1>1, <1>2, <1>3
  <2> QED BY <2>1 DEF Files
<1>11. disk[p] # None => disk'[p] = disk[p]
  BY <1>2, <1>4
<1> QED BY <1>1, <1>3, <1>4, <1>8, <1>9, <1>10, <1>11

(***************************************************************************)
(* A log goes into its file: no rows come or go.                           *)
(***************************************************************************)
LEMMA ClosedKeeps ==
  ASSUME Types, Files, NEW h \in Handles, Closed(h), UNCHANGED <<disk, archived, made>>
  PROVE  /\ main' \in [Db -> SUBSET (1..MaxBatches)] /\ log' \in [Db -> SUBSET (1..MaxBatches)]
         /\ \A d \in Db : Content(d)' = Content(d)
         /\ Files'
<1>1. h.db \in Db BY DEF Handles
<1>2. /\ main' \in [Db -> SUBSET (1..MaxBatches)] /\ log' \in [Db -> SUBSET (1..MaxBatches)]
      /\ \A d \in Db : d # h.db => main'[d] = main[d] /\ log'[d] = log[d]
      /\ main'[h.db] = main[h.db] \cup log[h.db] /\ log'[h.db] = {}
  BY <1>1 DEF Closed, Types
<1>3. \A d \in Db : Content(d)' = Content(d)
  BY <1>2 DEF Content
<1>4. Files'
  <2>1. \A d \in Db : HasName(d)' <=> HasName(d) BY DEF HasName
  <2> QED BY <1>3, <2>1 DEF Files
<1> QED BY <1>2, <1>3, <1>4

LEMMA SoundStays ==
  ASSUME UNCHANGED <<disk, made>> PROVE \A h : Sound(h) => Sound(h)'
BY DEF Sound, OnDisk

LEMMA FilesStay ==
  ASSUME Files, UNCHANGED <<disk, archived, made, main, log>> PROVE Files'
BY DEF Files, Content, HasName

(***************************************************************************)
(* The initial state.                                                      *)
(***************************************************************************)
LEMMA InitInv == Stack = {Root} /\ Init => Inv
<1> SUFFICES ASSUME Stack = {Root}, Init PROVE Inv OBVIOUS
<1> USE BoundAssumption
<1>1. /\ disk = [p \in Path |-> None] /\ archived = {}
      /\ main = [d \in Db |-> {}] /\ log = [d \in Db |-> {}]
      /\ made = 0 /\ batches = 0 /\ mishap = FALSE
      /\ up = [s \in Stack |-> FALSE] /\ slot = [s \in Stack |-> NoHandle]
      /\ config = [s \in Stack |-> Config(s, "embedded")]
      /\ stored = [s \in Stack |-> "embedded"]
      /\ job = [s \in Stack |-> NoJob]
  BY DEF Init
<1>2. up[Root] = FALSE /\ slot[Root] = NoHandle /\ job[Root] = NoJob /\ stored[Root] = "embedded"
      /\ config[Root] = Config(Root, "embedded")
  BY <1>1
<1>3. Types
  <2>1. None \in Db /\ "embedded" \in Mode BY DEF None, Db, Mode
  <2>2. disk \in [Path -> Db] /\ archived \subseteq Db \ {None}
    BY <1>1, <2>1
  <2>7. made \in 0..MaxFiles /\ batches \in 0..MaxBatches
    BY <1>1
  <2>8. mishap \in BOOLEAN
    BY <1>1
  <2>3. main \in [Db -> SUBSET (1..MaxBatches)] /\ log \in [Db -> SUBSET (1..MaxBatches)]
    BY <1>1
  <2>4. up \in [Stack -> BOOLEAN] /\ slot \in [Stack -> Handles] /\ stored \in [Stack -> Mode]
    BY <1>1, <2>1, HandleTypes
  <2>5. config \in [Stack -> Configs]
    <3>1. \A s \in Stack : Config(s, "embedded") \in Configs BY <2>1, ConfigTypes
    <3> QED BY <1>1, <3>1
  <2>6. job \in [Stack -> [step : Steps, new : Handles, old : Handles, config : Configs]]
    BY <1>1, JobTypes
  <2> QED BY <2>2, <2>3, <2>4, <2>5, <2>6, <2>7, <2>8 DEF Types
<1>4. Files
  BY <1>1 DEF Files, Content, None
<1>5. HandlesSound
  BY <1>2, JobTypes DEF HandlesSound, Sound
<1>6. Stepwise
  BY <1>2, JobTypes, ConfigTypes DEF Stepwise, Emptied, Swapped, Mode
<1>7. Orderly
  <2>1. disk[NextName] = None BY <1>1, Paths
  <2> QED BY <1>2, <2>1, JobTypes DEF Orderly, Emptied
<1> QED BY <1>3, <1>4, <1>5, <1>6, <1>7 DEF Inv

(***************************************************************************)
(* The app starts.                                                         *)
(***************************************************************************)
LEMMA StartKeeps ==
  ASSUME Stack = {Root}, Inv, Start(Root)
  PROVE  Inv'
<1> USE DEF Inv
<1> DEFINE c == Config(Root, stored[Root])
           h == Handle(DbAt(DbPath(c)), DbPath(c), c.mode = "remote")
<1>1. /\ ~up[Root] /\ up' = [up EXCEPT ![Root] = TRUE] /\ config' = [config EXCEPT ![Root] = c]
      /\ UNCHANGED <<main, log, stored, job, batches, mishap>>
  BY DEF Start
<1>2. \/ /\ CanOpen(Root, DbPath(c)) /\ Open(DbPath(c)) /\ slot' = [slot EXCEPT ![Root] = h]
      \/ UNCHANGED <<disk, made, archived, slot>>
  BY DEF Start
<1>3. /\ job[Root] = NoJob /\ slot[Root] = NoHandle /\ stored[Root] \in Mode
      /\ c \in Configs /\ c.dir = Root /\ DbPath(c) \in Path /\ DbPath(c) # NextName /\ NextName \in Path
  BY <1>1, ConfigTypes, Paths DEF Stepwise, Types
<1>4. up'[Root] = TRUE /\ config'[Root] = c /\ job'[Root] = NoJob /\ stored'[Root] = stored[Root]
  BY <1>1, <1>3 DEF Types
<1>5. up' \in [Stack -> BOOLEAN] /\ config' \in [Stack -> Configs]
  BY <1>1, <1>3 DEF Types
<1> HIDE DEF c
<1>6. CASE UNCHANGED <<disk, made, archived, slot>>
  <2>1. Types' BY <1>1, <1>5, <1>6 DEF Types
  <2>2. Files' BY <1>1, <1>6, FilesStay
  <2>3. HandlesSound' BY <1>1, <1>6, SoundStays DEF HandlesSound
  <2>4. Stepwise' BY <1>3, <1>4, <1>6, JobTypes DEF Stepwise, Emptied, Swapped
  <2>5. Orderly'
    <3>1. ~mishap => disk[NextName] = None BY <1>3, JobTypes DEF Orderly
    <3> QED BY <1>1, <1>3, <1>4, <1>6, <3>1, JobTypes DEF Orderly, Emptied, c
  <2> QED BY <2>1, <2>2, <2>3, <2>4, <2>5
<1>7. CASE CanOpen(Root, DbPath(c)) /\ Open(DbPath(c)) /\ slot' = [slot EXCEPT ![Root] = h]
  <2>1. /\ disk' \in [Path -> Db] /\ made' \in 0..MaxFiles /\ archived' = archived /\ Files'
        /\ disk'[DbPath(c)] = DbAt(DbPath(c)) /\ DbAt(DbPath(c)) \in 1..made' /\ DbAt(DbPath(c)) \in Db
        /\ disk'[NextName] = disk[NextName]
        /\ \A g : Sound(g) => Sound(g)'
    BY <1>1, <1>3, <1>7, Opened DEF CanOpen
  <2>0. PICK g : g = h OBVIOUS
  <2>2. g \in Handles /\ g.db = DbAt(DbPath(c))
    BY <1>3, <2>0, <2>1, HandleTypes
  <2>3. slot'[Root] = g /\ slot' \in [Stack -> Handles]
    BY <1>7, <2>0, <2>2 DEF Types
  <2> HIDE DEF h
  <2>4. Types' BY <1>1, <1>5, <2>1, <2>3 DEF Types
  <2>5. HandlesSound'
    <3>1. Sound(g)' BY <1>3, <2>1, <2>2 DEF Sound, OnDisk
    <3> QED BY <1>1, <2>1, <2>3, <3>1 DEF HandlesSound
  <2>6. Stepwise' BY <1>3, <1>4, JobTypes DEF Stepwise, Emptied, Swapped
  <2>7. Orderly'
    <3>1. ~mishap => disk'[NextName] = None BY <1>3, <2>1, JobTypes DEF Orderly
    <3> QED BY <1>1, <1>4, <2>1, <2>2, <2>3, <3>1, JobTypes DEF Orderly, Emptied, c
  <2> QED BY <2>1, <2>4, <2>5, <2>6, <2>7
<1> QED BY <1>2, <1>6, <1>7

(***************************************************************************)
(* The app ends, in the middle of a command or not.                        *)
(***************************************************************************)
LEMMA EndKeeps ==
  ASSUME Stack = {Root}, Inv, End(Root)
  PROVE  Inv'
<1> USE DEF Inv
<1> DEFINE found == {h.db : h \in {h \in Held(Root) : LogFound(h)}}
           held == {h.db : h \in Held(Root)}
<1>1. /\ up' = [up EXCEPT ![Root] = FALSE] /\ slot' = [slot EXCEPT ![Root] = NoHandle]
      /\ job' = [job EXCEPT ![Root] = NoJob] /\ mishap' = (mishap \/ job[Root] # NoJob)
      /\ main' = [d \in Db |-> IF d \in found THEN main[d] \cup log[d] ELSE main[d]]
      /\ log' = [d \in Db |-> IF d \in held THEN {} ELSE log[d]]
      /\ UNCHANGED <<disk, archived, made, config, stored, batches>>
  BY DEF End
<1> HIDE DEF found, held
<1>2. up'[Root] = FALSE /\ slot'[Root] = NoHandle /\ job'[Root] = NoJob
  BY <1>1 DEF Types
<1>3. /\ main' \in [Db -> SUBSET (1..MaxBatches)] /\ log' \in [Db -> SUBSET (1..MaxBatches)]
      /\ \A d \in Db : Content(d)' \subseteq Content(d)
  BY <1>1 DEF Types, Content
<1>4. Types'
  <2>1. mishap' \in BOOLEAN BY <1>1 DEF Types
  <2>2. up' \in [Stack -> BOOLEAN] /\ slot' \in [Stack -> Handles]
        /\ job' \in [Stack -> [step : Steps, new : Handles, old : Handles, config : Configs]]
    BY <1>1, HandleTypes, JobTypes DEF Types
  <2> QED BY <1>1, <1>3, <2>1, <2>2 DEF Types
<1>5. Files'
  <2>1. \A d \in Db : HasName(d)' <=> HasName(d) BY <1>1 DEF HasName
  <2> QED BY <1>1, <1>3, <2>1 DEF Files
<1>6. HandlesSound' BY <1>2, JobTypes DEF HandlesSound, Sound
<1>7. Stepwise' BY <1>1, <1>2, JobTypes DEF Stepwise, Emptied, Swapped
<1>8. Orderly'
  <2> SUFFICES ASSUME ~mishap' PROVE Orderly' BY DEF Orderly
  <2>1. ~mishap /\ job[Root] = NoJob BY <1>1
  <2>2. disk[NextName] = None BY <2>1, JobTypes DEF Orderly
  <2> QED BY <1>1, <1>2, <2>1, <2>2, JobTypes DEF Orderly, Emptied
<1> QED BY <1>4, <1>5, <1>6, <1>7, <1>8

(***************************************************************************)
(* Rows are recorded; storage is released.                                 *)
(***************************************************************************)
LEMMA RecordKeeps ==
  ASSUME Stack = {Root}, Inv, Record(Root)
  PROVE  Inv'
<1> USE DEF Inv
<1> DEFINE d == slot[Root].db
           b == batches + 1
<1>1. /\ slot[Root] # NoHandle /\ batches < MaxBatches /\ batches' = b
      /\ \/ log' = [log EXCEPT ![d] = @ \cup {b}] /\ main' = main
         \/ main' = [main EXCEPT ![d] = @ \cup log[d] \cup {b}] /\ log' = [log EXCEPT ![d] = {}]
      /\ UNCHANGED <<disk, archived, made, up, slot, config, stored, job, mishap>>
  BY DEF Record, app
<1>2. d \in 1..made /\ OnDisk(d) /\ d \in Db
  <2>1. Sound(slot[Root]) /\ slot[Root] \in Handles BY DEF HandlesSound, Types
  <2> QED BY <1>1, <2>1, SoundNotNone DEF Handles
<1>3. batches' \in 0..MaxBatches /\ b \in 1..MaxBatches
  BY <1>1, BoundAssumption DEF Types
<1> HIDE DEF b, d
<1>4. /\ main' \in [Db -> SUBSET (1..MaxBatches)] /\ log' \in [Db -> SUBSET (1..MaxBatches)]
      /\ \A e \in Db : e # d => Content(e)' = Content(e)
  BY <1>1, <1>2, <1>3 DEF Types, Content
<1>5. Types' BY <1>1, <1>3, <1>4 DEF Types
<1>6. Files'
  <2>1. \A e \in Db : HasName(e)' <=> HasName(e) BY <1>1 DEF HasName
  <2>2. HasName(d) BY <1>2 DEF HasName, OnDisk
  <2> QED BY <1>1, <1>2, <1>4, <2>1, <2>2 DEF Files
<1>7. HandlesSound' BY <1>1, SoundStays DEF HandlesSound
<1>8. Stepwise' BY <1>1 DEF Stepwise
<1>9. Orderly'
  <2>1. ~mishap /\ job[Root].step = "staged" => Content(job[Root].new.db)' = {}
    <3> SUFFICES ASSUME ~mishap, job[Root].step = "staged" PROVE Content(job[Root].new.db)' = {} OBVIOUS
    <3>1. /\ d = disk[DbPath(config[Root])] /\ job[Root].new.db = disk[NextName]
          /\ Content(job[Root].new.db) = {}
      BY <1>1 DEF Orderly, Stepwise, d
    <3>2. DbPath(config[Root]) \in Path /\ NextName \in Path /\ DbPath(config[Root]) # NextName
      <4>1. config[Root] \in Configs /\ config[Root].dir = Root BY DEF Types, Stepwise
      <4> QED BY <4>1, Paths
    <3>3. d # job[Root].new.db BY <1>2, <3>1, <3>2 DEF Files, None
    <3>4. job[Root].new.db \in Db BY DEF Types, Handles
    <3> QED BY <1>1, <1>4, <3>1, <3>3, <3>4
  <2> QED BY <1>1, <2>1 DEF Orderly, Content
<1> QED BY <1>5, <1>6, <1>7, <1>8, <1>9

LEMMA ReleaseKeeps ==
  ASSUME Stack = {Root}, Inv, Release(Root)
  PROVE  Inv'
<1> USE DEF Inv
<1>1. /\ job[Root] = NoJob /\ slot' = [slot EXCEPT ![Root] = NoHandle] /\ Closed(slot[Root])
      /\ UNCHANGED <<disk, archived, made, up, config, stored, job, batches, mishap>>
  BY DEF Release, Idle
<1>2. slot[Root] \in Handles /\ slot' \in [Stack -> Handles] /\ slot'[Root] = NoHandle
  BY <1>1, HandleTypes DEF Types
<1>3. /\ main' \in [Db -> SUBSET (1..MaxBatches)] /\ log' \in [Db -> SUBSET (1..MaxBatches)] /\ Files'
  BY <1>1, <1>2, ClosedKeeps
<1>4. Types' BY <1>1, <1>2, <1>3 DEF Types
<1>5. HandlesSound' BY <1>1, <1>2, SoundStays DEF HandlesSound, Sound
<1>6. Stepwise' BY <1>1, <1>2, JobTypes DEF Stepwise, Emptied, Swapped
<1>7. Orderly' BY <1>1, <1>2, JobTypes DEF Orderly, Emptied
<1> QED BY <1>3, <1>4, <1>5, <1>6, <1>7

(***************************************************************************)
(* A command that opens the database the config names: reclaim_storage,    *)
(* and set_storage_mode.                                                   *)
(***************************************************************************)
LEMMA OpensConfig ==
  ASSUME Stack = {Root}, Inv, up[Root],
         NEW c \in Configs, c.dir = Root, NEW step \in {"reopened", "opened"},
         step = "reopened" => c = config[Root],
         job[Root].step \in {"idle", "taken"}, slot[Root] = NoHandle,
         CanOpen(Root, DbPath(c)), Open(DbPath(c)),
         job' = [job EXCEPT ![Root] =
           Job(step, Handle(DbAt(DbPath(c)), DbPath(c), c.mode = "remote"), NoHandle, c)],
         UNCHANGED <<main, log, up, slot, config, stored, batches, mishap>>
  PROVE  Inv'
<1> USE DEF Inv
<1>0. PICK g : g = Handle(DbAt(DbPath(c)), DbPath(c), c.mode = "remote") OBVIOUS
<1>1. DbPath(c) \in Path /\ DbPath(c) # NextName /\ NextName \in Path
  BY Paths
<1>2. /\ disk' \in [Path -> Db] /\ made' \in 0..MaxFiles /\ archived' = archived /\ Files'
      /\ disk'[DbPath(c)] = DbAt(DbPath(c)) /\ DbAt(DbPath(c)) \in 1..made' /\ DbAt(DbPath(c)) \in Db
      /\ disk'[NextName] = disk[NextName]
      /\ \A h : Sound(h) => Sound(h)'
  BY <1>1, Opened DEF CanOpen
<1>3. g \in Handles /\ g.db = DbAt(DbPath(c))
  BY <1>0, <1>1, <1>2, HandleTypes
<1>4. g # NoHandle
  BY <1>2, <1>3, HandleTypes DEF None
<1>5. /\ job' = [job EXCEPT ![Root] = Job(step, g, NoHandle, c)]
      /\ Job(step, g, NoHandle, c) \in [step : Steps, new : Handles, old : Handles, config : Configs]
      /\ job'[Root] = Job(step, g, NoHandle, c)
      /\ job'[Root].step = step /\ job'[Root].new = g /\ job'[Root].old = NoHandle /\ job'[Root].config = c
  BY <1>0, <1>3, JobTypes, HandleTypes DEF Types, Steps
<1>6. Types' BY <1>2, <1>5 DEF Types
<1>7. HandlesSound'
  <2>1. Sound(g)' BY <1>1, <1>2, <1>3 DEF Sound, OnDisk
  <2> QED BY <1>2, <1>5, <2>1 DEF HandlesSound, Sound
<1>8. Stepwise'
  BY <1>2, <1>3, <1>4, <1>5 DEF Stepwise, Emptied, Swapped
<1>9. Orderly'
  <2>1. ~mishap => disk[NextName] = None BY DEF Orderly, Emptied
  <2> QED BY <1>2, <1>5, <2>1 DEF Orderly, Emptied
<1> QED BY <1>2, <1>6, <1>7, <1>8, <1>9

LEMMA ReclaimKeeps ==
  ASSUME Stack = {Root}, Inv, Reclaim(Root) \/ Reclaimed(Root)
  PROVE  Inv'
<1> USE DEF Inv
<1>1. CASE Reclaim(Root)
  <2>1. config[Root] \in Configs /\ config[Root].dir = Root /\ job[Root].step = "idle" /\ up[Root]
        /\ slot[Root] = NoHandle
    BY <1>1, JobTypes DEF Types, Stepwise, Reclaim, Idle
  <2> QED BY <1>1, <2>1, OpensConfig DEF Reclaim
<1>2. CASE Reclaimed(Root)
  <2>1. /\ job[Root].step = "reopened" /\ slot' = [slot EXCEPT ![Root] = job[Root].new]
        /\ job' = [job EXCEPT ![Root] = NoJob]
        /\ UNCHANGED <<disk, archived, main, log, made, up, config, stored, batches, mishap>>
    BY <1>2 DEF Reclaimed, files
  <2>2. /\ slot' \in [Stack -> Handles] /\ slot'[Root] = job[Root].new /\ job'[Root] = NoJob
        /\ job' \in [Stack -> [step : Steps, new : Handles, old : Handles, config : Configs]]
    BY <2>1, JobTypes DEF Types
  <2>3. Types' BY <2>1, <2>2 DEF Types
  <2>4. Files' BY <2>1, FilesStay
  <2>5. HandlesSound'
    BY <2>1, <2>2, SoundStays, JobTypes DEF HandlesSound, Sound
  <2>6. Stepwise' BY <2>1, <2>2, JobTypes DEF Stepwise, Emptied, Swapped
  <2>7. Orderly'
    <3>1. job[Root].new.db = disk[DbPath(config[Root])] BY <2>1 DEF Stepwise
    <3>2. ~mishap => disk[NextName] = None BY <2>1 DEF Orderly, Emptied
    <3> QED BY <2>1, <2>2, <3>1, <3>2, JobTypes DEF Orderly, Emptied
  <2> QED BY <2>3, <2>4, <2>5, <2>6, <2>7
<1> QED BY <1>1, <1>2

(***************************************************************************)
(* swap_database, step by step.                                            *)
(***************************************************************************)
LEMMA StageKeeps ==
  ASSUME Stack = {Root}, Inv, Stage(Root)
  PROVE  Inv'
<1> USE DEF Inv
<1> DEFINE c == config[Root]
<1>0. c \in Configs /\ c.dir = Root /\ job[Root] = NoJob /\ up[Root] /\ Staging(c) = NextName
      /\ DbPath(c) \in Path /\ DbPath(c) # NextName /\ NextName \in Path
  <2>1. c \in Configs /\ c.dir = Root BY DEF Types, Stepwise
  <2> QED BY <2>1, Paths DEF Stage, Idle
<1>1. PICK g : g = Handle(DbAt(NextName), NextName, FALSE) OBVIOUS
<1>2. /\ CanOpen(Root, NextName) /\ Open(NextName)
      /\ job' = [job EXCEPT ![Root] = Job("staged", g, NoHandle, c)]
      /\ UNCHANGED <<main, log, up, slot, config, stored, batches, mishap>>
  BY <1>0, <1>1 DEF Stage
<1>3. /\ disk' \in [Path -> Db] /\ made' \in 0..MaxFiles /\ archived' = archived /\ Files'
      /\ disk'[NextName] = DbAt(NextName) /\ DbAt(NextName) \in 1..made' /\ DbAt(NextName) \in Db
      /\ disk'[DbPath(c)] = disk[DbPath(c)]
      /\ disk[NextName] = None => Content(DbAt(NextName)) = {}
      /\ \A h : Sound(h) => Sound(h)'
  BY <1>0, <1>2, Opened DEF CanOpen
<1>4. g \in Handles /\ g.db = DbAt(NextName) /\ g # NoHandle
  <2>1. g \in Handles /\ g.db = DbAt(NextName)
    BY <1>0, <1>1, <1>3, HandleTypes
  <2> QED BY <1>3, <2>1, HandleTypes DEF None
<1>5. /\ Job("staged", g, NoHandle, c) \in [step : Steps, new : Handles, old : Handles, config : Configs]
      /\ job'[Root].step = "staged" /\ job'[Root].new = g /\ job'[Root].old = NoHandle
      /\ job'[Root].config = c
  BY <1>0, <1>2, <1>4, JobTypes, HandleTypes DEF Types, Steps
<1> HIDE DEF c
<1>6. Types' BY <1>2, <1>3, <1>5 DEF Types
<1>7. HandlesSound'
  <2>1. Sound(g)' BY <1>0, <1>3, <1>4 DEF Sound, OnDisk
  <2> QED BY <1>2, <1>3, <1>5, <2>1 DEF HandlesSound, Sound
<1>8. Stepwise'
  <2>1. c = config[Root] BY DEF c
  <2> QED BY <1>0, <1>2, <1>3, <1>4, <1>5, <2>1 DEF Stepwise, Emptied, Swapped
<1>9. Orderly'
  <2>1. c = config[Root] BY DEF c
  <2>2. ~mishap => disk[NextName] = None BY <1>0, JobTypes DEF Orderly
  <2>3. Content(g.db)' = Content(g.db) BY <1>2 DEF Content
  <2>4. ~mishap /\ slot[Root] # NoHandle => slot[Root].db = disk[DbPath(c)]
    BY <1>0, <2>1, JobTypes DEF Orderly
  <2> QED BY <1>2, <1>3, <1>4, <1>5, <2>1, <2>2, <2>3, <2>4 DEF Orderly, Emptied
<1> QED BY <1>3, <1>6, <1>7, <1>8, <1>9

LEMMA ReplaceKeeps ==
  ASSUME Stack = {Root}, Inv, Replace(Root)
  PROVE  Inv'
<1> USE DEF Inv
<1>1. PICK j : j = job[Root] OBVIOUS
<1>2. PICK o : o = slot[Root] OBVIOUS
<1>3. /\ j.step = "staged" /\ slot' = [slot EXCEPT ![Root] = j.new]
      /\ job' = [job EXCEPT ![Root] = Job("replaced", NoHandle, o, j.config)]
      /\ UNCHANGED <<disk, archived, main, log, made, up, config, stored, batches, mishap>>
  BY <1>1, <1>2 DEF Replace, Replacement, files
<1>4. o \in Handles /\ j.new \in Handles /\ j.config \in Configs
  BY <1>1, <1>2 DEF Types
<1>5. /\ Job("replaced", NoHandle, o, j.config) \in [step : Steps, new : Handles, old : Handles, config : Configs]
      /\ job'[Root].step = "replaced" /\ job'[Root].new = NoHandle /\ job'[Root].old = o
      /\ job'[Root].config = j.config /\ slot'[Root] = j.new
  BY <1>3, <1>4, JobTypes, HandleTypes DEF Types, Steps
<1>6. Types' BY <1>3, <1>4, <1>5 DEF Types
<1>7. Files' BY <1>3, FilesStay
<1>8. HandlesSound'
  BY <1>1, <1>2, <1>3, <1>5, SoundStays DEF HandlesSound, Sound
<1>9. Stepwise'
  BY <1>1, <1>3, <1>5 DEF Stepwise, Emptied, Swapped
<1>10. Orderly'
  BY <1>1, <1>2, <1>3, <1>5 DEF Orderly, Stepwise, Emptied
<1> QED BY <1>6, <1>7, <1>8, <1>9, <1>10

LEMMA RetireKeeps ==
  ASSUME Stack = {Root}, Inv, Retire(Root)
  PROVE  Inv'
<1> USE DEF Inv
<1>1. PICK j : j = job[Root] OBVIOUS
<1>2. /\ j.step = "replaced" /\ Closed(j.old)
      /\ job' = [job EXCEPT ![Root] = Job("retired", NoHandle, NoHandle, j.config)]
      /\ UNCHANGED <<disk, archived, made, up, slot, config, stored, batches, mishap>>
  BY <1>1 DEF Retire
<1>3. j.old \in Handles /\ j.config \in Configs
  BY <1>1 DEF Types
<1>4. /\ Job("retired", NoHandle, NoHandle, j.config) \in [step : Steps, new : Handles, old : Handles, config : Configs]
      /\ job'[Root].step = "retired" /\ job'[Root].new = NoHandle /\ job'[Root].old = NoHandle
      /\ job'[Root].config = j.config
  BY <1>2, <1>3, JobTypes, HandleTypes DEF Types, Steps
<1>5. /\ main' \in [Db -> SUBSET (1..MaxBatches)] /\ log' \in [Db -> SUBSET (1..MaxBatches)] /\ Files'
  BY <1>2, <1>3, ClosedKeeps
<1>6. Types' BY <1>2, <1>4, <1>5 DEF Types
<1>7. HandlesSound'
  BY <1>2, <1>4, SoundStays DEF HandlesSound, Sound
<1>8. Stepwise'
  BY <1>1, <1>2, <1>4 DEF Stepwise, Emptied, Swapped
<1>9. Orderly'
  BY <1>1, <1>2, <1>4 DEF Orderly, Emptied
<1> QED BY <1>5, <1>6, <1>7, <1>8, <1>9

\* A rename that failed ends the command; the slot keeps the staged database.
LEMMA GivesUp ==
  ASSUME Stack = {Root}, Inv, job[Root].step \in {"retired", "moved"}, GiveUp(Root),
         UNCHANGED <<main, log, made, up, slot, config, stored, batches>>
  PROVE  Inv'
<1> USE DEF Inv
<1>1. /\ job' = [job EXCEPT ![Root] = NoJob] /\ mishap' = TRUE /\ UNCHANGED <<disk, archived>>
  BY DEF GiveUp
<1>2. job'[Root] = NoJob
      /\ job' \in [Stack -> [step : Steps, new : Handles, old : Handles, config : Configs]]
  BY <1>1, JobTypes DEF Types
<1>3. Types' BY <1>1, <1>2 DEF Types
<1>4. Files' BY <1>1, FilesStay
<1>5. HandlesSound' BY <1>1, <1>2, SoundStays, JobTypes DEF HandlesSound, Sound
<1>6. Stepwise' BY <1>1, <1>2, JobTypes DEF Stepwise, Emptied, Swapped
<1>7. Orderly' BY <1>1 DEF Orderly
<1> QED BY <1>3, <1>4, <1>5, <1>6, <1>7

LEMMA MoveKeeps ==
  ASSUME Stack = {Root}, Inv, Move(Root)
  PROVE  Inv'
<1> USE DEF Inv
<1>1. PICK j : j = job[Root] OBVIOUS
<1>2. PICK p : p = DbPath(j.config) OBVIOUS
<1>3. /\ j.step = "retired" /\ UNCHANGED <<main, log, made, up, slot, config, stored, batches>>
      /\ \/ /\ disk[p] # None
            /\ archived' = archived \cup {disk[p]} /\ disk' = [disk EXCEPT ![p] = None]
            /\ job' = [job EXCEPT ![Root].step = "moved"] /\ mishap' = mishap
         \/ GiveUp(Root)
  BY <1>1, <1>2 DEF Move, Archived
<1>4. CASE GiveUp(Root) BY <1>1, <1>3, <1>4, GivesUp
<1>5. CASE /\ disk[p] # None
           /\ archived' = archived \cup {disk[p]} /\ disk' = [disk EXCEPT ![p] = None]
           /\ job' = [job EXCEPT ![Root].step = "moved"] /\ mishap' = mishap
  <2>1. p \in Path /\ p # NextName /\ NextName \in Path
    <3>1. j.config \in Configs /\ j.config.dir = Root BY <1>1 DEF Types, Stepwise
    <3> QED BY <1>2, <3>1, Paths
  <2>2. /\ j \in [step : Steps, new : Handles, old : Handles, config : Configs]
        /\ job'[Root] = [j EXCEPT !.step = "moved"]
    BY <1>1, <1>5 DEF Types
  <2>3. /\ job'[Root] \in [step : Steps, new : Handles, old : Handles, config : Configs]
        /\ job'[Root].step = "moved" /\ job'[Root].new = j.new /\ job'[Root].old = j.old
        /\ job'[Root].config = j.config
    BY <2>2 DEF Steps
  <2>4. job' \in [Stack -> [step : Steps, new : Handles, old : Handles, config : Configs]]
    <3>1. job' = [job EXCEPT ![Root] = job'[Root]] BY <1>5, <2>2 DEF Types
    <3> QED BY <2>3, <3>1 DEF Types
  <2>5. disk' \in [Path -> Db] /\ disk'[p] = None /\ \A q \in Path : q # p => disk'[q] = disk[q]
    <3>1. None \in Db BY HandleTypes DEF Handles
    <3> QED BY <1>5, <2>1, <3>1 DEF Types
  <2>6. disk[p] \in 1..made /\ disk[p] \in Db /\ made \in Nat
    BY <1>5, <2>1 DEF Files, Types, None
  <2>7. Types'
    <3>1. archived' \subseteq Db \ {None} BY <1>5, <2>6 DEF Types
    <3> QED BY <1>3, <1>5, <2>4, <2>5, <3>1 DEF Types
  <2>8. Files'
    <3>1. \A q, r \in Path : disk'[q] = disk'[r] /\ disk'[q] # None => q = r
      BY <2>5 DEF Files
    <3>2. \A q \in Path : disk'[q] \in 0..made' /\ disk'[q] \notin archived'
      <4> TAKE q \in Path
      <4>1. disk[q] \in 0..made /\ disk[q] \notin archived /\ archived \subseteq 1..made BY DEF Files
      <4>2. CASE q = p
        <5>1. disk'[q] = 0 BY <2>5, <4>2 DEF None
        <5> QED BY <1>3, <1>5, <2>6, <4>1, <5>1
      <4>3. CASE q # p
        <5>1. disk'[q] = disk[q] BY <2>5, <4>3
        <5>2. disk[q] # disk[p] BY <1>5, <2>1, <4>3 DEF Files
        <5> QED BY <1>3, <1>5, <4>1, <5>1, <5>2
      <4> QED BY <4>2, <4>3
    <3>3. archived' \subseteq 1..made' BY <1>3, <1>5, <2>6 DEF Files
    <3>4. \A d \in Db : d # None /\ HasName(d) => HasName(d)'
      BY <1>5, <2>1, <2>5 DEF HasName
    <3>5. \A d \in Db : Content(d)' = Content(d) BY <1>3 DEF Content
    <3>6. \A d \in Db : d \in 1..made => d # None BY DEF None
    <3> QED BY <1>3, <3>1, <3>2, <3>3, <3>4, <3>5, <3>6 DEF Files
  <2>9. HandlesSound'
    <3>1. j.new = NoHandle /\ j.old = NoHandle BY <1>1, <1>3 DEF Stepwise
    <3>2. slot[Root].db = disk[NextName] BY <1>1, <1>3 DEF Stepwise, Swapped
    <3>3. Sound(slot[Root]) BY DEF HandlesSound
    <3>4. slot[Root].db = disk'[NextName] BY <2>1, <2>5, <3>2
    <3>5. Sound(slot[Root])' BY <1>3, <2>1, <3>3, <3>4 DEF Sound, OnDisk
    <3> QED BY <2>3, <3>1, <3>5 DEF HandlesSound, Sound
  <2>10. Stepwise'
    BY <1>1, <1>2, <1>3, <2>1, <2>3, <2>5 DEF Stepwise, Emptied, Swapped
  <2>11. Orderly'
    BY <1>1, <1>3, <1>5, <2>3 DEF Orderly, Emptied
  <2> QED BY <2>7, <2>8, <2>9, <2>10, <2>11
<1> QED BY <1>3, <1>4, <1>5

LEMMA RenameKeeps ==
  ASSUME Stack = {Root}, Inv, Rename(Root)
  PROVE  Inv'
<1> USE DEF Inv
<1>1. PICK c : c = job[Root].config OBVIOUS
<1>2. PICK p : p = DbPath(c) OBVIOUS
<1>3. /\ c \in Configs /\ c.dir = Root /\ Staging(c) = NextName /\ p \in Path /\ p # NextName
      /\ NextName \in Path
  <2>1. c \in Configs /\ c.dir = Root BY <1>1 DEF Types, Stepwise
  <2> QED BY <1>2, <2>1, Paths
<1>4. /\ job[Root].step = "moved" /\ UNCHANGED <<main, log, made, up, slot, config, stored, batches>>
      /\ \/ /\ disk[NextName] # None
            /\ disk' = [disk EXCEPT ![p] = disk[NextName], ![NextName] = None]
            /\ UNCHANGED <<archived, mishap>> /\ job' = [job EXCEPT ![Root] = NoJob]
         \/ GiveUp(Root)
  BY <1>1, <1>2, <1>3 DEF Rename, Renamed
<1>5. CASE GiveUp(Root) BY <1>4, <1>5, GivesUp
<1>6. CASE /\ disk[NextName] # None
           /\ disk' = [disk EXCEPT ![p] = disk[NextName], ![NextName] = None]
           /\ UNCHANGED <<archived, mishap>> /\ job' = [job EXCEPT ![Root] = NoJob]
  <2>1. job'[Root] = NoJob
        /\ job' \in [Stack -> [step : Steps, new : Handles, old : Handles, config : Configs]]
    BY <1>6, JobTypes DEF Types
  <2>2. /\ disk' \in [Path -> Db] /\ disk'[p] = disk[NextName] /\ disk'[NextName] = None
        /\ \A q \in Path : q # p /\ q # NextName => disk'[q] = disk[q]
    <3>1. None \in Db BY HandleTypes DEF Handles
    <3> QED BY <1>3, <1>6, <3>1 DEF Types
  <2>3. disk[p] = None BY <1>1, <1>2, <1>4 DEF Stepwise
  <2>4. Types' BY <1>4, <1>6, <2>1, <2>2 DEF Types
  <2>5. Files'
    <3>1. \A q, r \in Path : disk'[q] = disk'[r] /\ disk'[q] # None => q = r
      BY <1>3, <2>2 DEF Files
    <3>2. \A q \in Path : disk'[q] \in 0..made /\ disk'[q] \notin archived
      BY <1>3, <2>2, <2>3 DEF Files
    <3>3. \A d \in Db : d # None /\ HasName(d) => HasName(d)'
      <4> SUFFICES ASSUME NEW d \in Db, d # None, HasName(d) PROVE HasName(d)' OBVIOUS
      <4>1. CASE d \in archived BY <1>6, <4>1 DEF HasName
      <4>2. CASE \E q \in Path : disk[q] = d
        <5>1. PICK q \in Path : disk[q] = d BY <4>2
        <5>2. q = NextName => disk'[p] = d BY <2>2, <5>1
        <5>3. q # NextName => disk'[q] = d BY <2>2, <2>3, <5>1
        <5> QED BY <1>3, <5>2, <5>3 DEF HasName
      <4> QED BY <4>1, <4>2 DEF HasName
    <3>4. \A d \in Db : Content(d)' = Content(d) BY <1>4 DEF Content
    <3>5. \A d \in Db : d \in 1..made => d # None BY DEF None
    <3> QED BY <1>4, <1>6, <3>1, <3>2, <3>3, <3>4, <3>5 DEF Files
  <2>6. slot[Root] # NoHandle /\ slot[Root].db = disk'[p]
    BY <1>4, <2>2 DEF Stepwise, Swapped
  <2>7. HandlesSound'
    <3>1. Sound(slot[Root]) BY DEF HandlesSound
    <3>2. Sound(slot[Root])' BY <1>3, <1>4, <2>6, <3>1 DEF Sound, OnDisk
    <3> QED BY <2>1, <3>2, JobTypes DEF HandlesSound, Sound
  <2>8. Stepwise' BY <1>4, <2>1, JobTypes DEF Stepwise, Emptied, Swapped
  <2>9. Orderly'
    <3>1. p = DbPath(config[Root]) BY <1>1, <1>2, <1>4 DEF Stepwise, Swapped
    <3> QED BY <1>4, <1>6, <2>1, <2>2, <2>6, <3>1, JobTypes DEF Orderly, Emptied
  <2> QED BY <2>4, <2>5, <2>7, <2>8, <2>9
<1> QED BY <1>4, <1>5, <1>6

(***************************************************************************)
(* set_storage_mode, step by step.                                         *)
(***************************************************************************)
LEMMA TakeKeeps ==
  ASSUME Stack = {Root}, Inv, NEW mode \in Mode, Take(Root, mode)
  PROVE  Inv'
<1> USE DEF Inv
<1> DEFINE c == Config(Root, mode)
<1>1. /\ up[Root] /\ job[Root] = NoJob /\ slot' = [slot EXCEPT ![Root] = NoHandle] /\ Closed(slot[Root])
      /\ job' = [job EXCEPT ![Root] = Job("taken", NoHandle, NoHandle, c)]
      /\ UNCHANGED <<disk, archived, made, up, config, stored, batches, mishap>>
  BY DEF Take, Taken, Idle
<1>2. c \in Configs /\ c.dir = Root BY ConfigTypes
<1> HIDE DEF c
<1>3. /\ Job("taken", NoHandle, NoHandle, c) \in [step : Steps, new : Handles, old : Handles, config : Configs]
      /\ job'[Root].step = "taken" /\ job'[Root].new = NoHandle /\ job'[Root].old = NoHandle
      /\ job'[Root].config = c
  BY <1>1, <1>2, JobTypes, HandleTypes DEF Types, Steps
<1>4. slot[Root] \in Handles /\ slot' \in [Stack -> Handles] /\ slot'[Root] = NoHandle
  BY <1>1, HandleTypes DEF Types
<1>5. /\ main' \in [Db -> SUBSET (1..MaxBatches)] /\ log' \in [Db -> SUBSET (1..MaxBatches)] /\ Files'
  BY <1>1, <1>4, ClosedKeeps
<1>6. Types' BY <1>1, <1>3, <1>4, <1>5 DEF Types
<1>7. HandlesSound' BY <1>3, <1>4 DEF HandlesSound, Sound
<1>8. Stepwise' BY <1>1, <1>2, <1>3, <1>4 DEF Stepwise, Emptied, Swapped
<1>9. Orderly'
  <2>1. ~mishap => disk[NextName] = None BY <1>1, JobTypes DEF Orderly
  <2> QED BY <1>1, <1>3, <1>4, <2>1 DEF Orderly, Emptied
<1> QED BY <1>5, <1>6, <1>7, <1>8, <1>9

LEMMA ReopenKeeps ==
  ASSUME Stack = {Root}, Inv, Reopen(Root)
  PROVE  Inv'
<1> USE DEF Inv
<1>1. PICK c : c = job[Root].config OBVIOUS
<1>2. /\ job[Root].step = "taken" /\ UNCHANGED <<main, log, up, slot, config, stored, batches, mishap>>
      /\ \/ /\ CanOpen(Root, DbPath(c)) /\ Open(DbPath(c))
            /\ job' = [job EXCEPT ![Root] =
                 Job("opened", Handle(DbAt(DbPath(c)), DbPath(c), c.mode = "remote"), NoHandle, c)]
         \/ job' = [job EXCEPT ![Root] = NoJob] /\ UNCHANGED <<disk, made, archived>>
  BY <1>1 DEF Reopen
<1>3. c \in Configs /\ c.dir = Root /\ slot[Root] = NoHandle /\ up[Root]
  BY <1>1, <1>2 DEF Types, Stepwise, Emptied
<1>4. CASE job' = [job EXCEPT ![Root] = NoJob] /\ UNCHANGED <<disk, made, archived>>
  <2>1. job'[Root] = NoJob
        /\ job' \in [Stack -> [step : Steps, new : Handles, old : Handles, config : Configs]]
    BY <1>4, JobTypes DEF Types
  <2>2. Types' BY <1>2, <1>4, <2>1 DEF Types
  <2>3. Files' BY <1>2, <1>4, FilesStay
  <2>4. HandlesSound' BY <1>2, <1>3, <2>1, JobTypes DEF HandlesSound, Sound
  <2>5. Stepwise' BY <1>2, <1>3, <2>1, JobTypes DEF Stepwise, Emptied, Swapped
  <2>6. Orderly'
    <3>1. ~mishap => disk[NextName] = None BY <1>2 DEF Orderly, Emptied
    <3> QED BY <1>2, <1>3, <1>4, <2>1, <3>1, JobTypes DEF Orderly, Emptied
  <2> QED BY <2>2, <2>3, <2>4, <2>5, <2>6
<1> QED BY <1>2, <1>3, <1>4, OpensConfig

LEMMA InstallKeeps ==
  ASSUME Stack = {Root}, Inv, Install(Root)
  PROVE  Inv'
<1> USE DEF Inv
<1>1. PICK j : j = job[Root] OBVIOUS
<1>2. /\ j.step = "opened" /\ slot' = [slot EXCEPT ![Root] = j.new]
      /\ config' = [config EXCEPT ![Root] = j.config]
      /\ \/ stored' = [stored EXCEPT ![Root] = j.config.mode] /\ mishap' = mishap
         \/ mishap' = TRUE /\ stored' = stored
      /\ job' = [job EXCEPT ![Root] = NoJob]
      /\ UNCHANGED <<disk, archived, main, log, made, up, batches>>
  BY <1>1 DEF Install, ConfigAfter, files
<1>3. /\ j.new \in Handles /\ j.config \in Configs /\ j.config.mode \in Mode /\ j.config.dir = Root
      /\ j.config = Config(Root, j.config.mode)
  <2>1. j.new \in Handles /\ j.config \in Configs /\ j.config.dir = Root
    BY <1>1 DEF Types, Stepwise
  <2> QED BY <2>1 DEF Configs, Config
<1>4. /\ slot'[Root] = j.new /\ config'[Root] = j.config /\ job'[Root] = NoJob
      /\ slot' \in [Stack -> Handles] /\ config' \in [Stack -> Configs] /\ stored' \in [Stack -> Mode]
      /\ job' \in [Stack -> [step : Steps, new : Handles, old : Handles, config : Configs]]
      /\ ~mishap' => ~mishap /\ stored'[Root] = j.config.mode
  BY <1>2, <1>3, JobTypes DEF Types
<1>5. Types'
  <2>1. mishap' \in BOOLEAN BY <1>2 DEF Types
  <2> QED BY <1>2, <1>4, <2>1 DEF Types
<1>6. Files' BY <1>2, FilesStay
<1>7. HandlesSound' BY <1>1, <1>2, <1>4, SoundStays, JobTypes DEF HandlesSound, Sound
<1>8. Stepwise'
  <2>1. up[Root] BY <1>1, <1>2 DEF Stepwise
  <2> QED BY <1>2, <1>3, <1>4, <2>1, JobTypes DEF Stepwise, Emptied, Swapped
<1>9. Orderly'
  <2> SUFFICES ASSUME ~mishap' PROVE Orderly' BY DEF Orderly
  <2>1. disk[NextName] = None BY <1>1, <1>2, <1>4 DEF Orderly, Emptied
  <2>2. j.new.db = disk[DbPath(j.config)] BY <1>1, <1>2 DEF Stepwise
  <2> QED BY <1>2, <1>3, <1>4, <2>1, <2>2, JobTypes DEF Orderly, Emptied
<1> QED BY <1>5, <1>6, <1>7, <1>8, <1>9

LEMMA StepInv == ASSUME Stack = {Root} PROVE Inv /\ [Next]_vars => Inv'
<1> SUFFICES ASSUME Inv, [Next]_vars PROVE Inv' OBVIOUS
<1>1. CASE UNCHANGED vars
  <2>1. UNCHANGED <<disk, archived, main, log, made, up, slot, config, stored, job, batches, mishap>>
    BY <1>1 DEF vars, files, app
  <2> QED BY <2>1 DEF Inv, Types, Files, HandlesSound, Sound, OnDisk, Stepwise, Orderly, Content, HasName
<1>2. CASE Next
  <2>1. \/ Start(Root) \/ End(Root) \/ Record(Root) \/ Release(Root)
        \/ Reclaim(Root) \/ Reclaimed(Root)
        \/ Stage(Root) \/ Replace(Root) \/ Retire(Root) \/ Move(Root) \/ Rename(Root)
        \/ (\E mode \in Mode : Take(Root, mode)) \/ Reopen(Root) \/ Install(Root)
    BY <1>2 DEF Next
  <2> QED BY <2>1, StartKeeps, EndKeeps, RecordKeeps, ReleaseKeeps, ReclaimKeeps, StageKeeps,
             ReplaceKeeps, RetireKeeps, MoveKeeps, RenameKeeps, TakeKeeps, ReopenKeeps, InstallKeeps
<1> QED BY <1>1, <1>2

LEMMA Invariant == ASSUME Stack = {Root} PROVE Spec => []Inv
<1>1. Inv /\ [Next]_vars => Inv' BY StepInv
<1>2. Init => Inv BY InitInv
<1> QED BY <1>1, <1>2, PTL DEF Spec

(***************************************************************************)
(* Whatever command fails or is cut off (swap_database, set_storage_mode,  *)
(* release and reclaim), and whenever the app ends: no rename removes the  *)
(* last name of a file that has rows.                                      *)
(***************************************************************************)
THEOREM FilesKeepNames == ASSUME Stack = {Root} PROVE Spec => []FiledRowsKept
<1>1. Inv => FiledRowsKept
  BY DEF Inv, Files, FiledRowsKept, Content
<1> QED BY <1>1, Invariant, PTL

(***************************************************************************)
(* The window has one handle on a database, and none on a snapshot         *)
(* (set_storage_mode takes the old one first, move_database_to_snapshot is *)
(* called when it is closed), but where a swap failed before its last      *)
(* rename and another one begins: it opens what the first left in the slot *)
(* (commands.rs:690-710).                                                  *)
(***************************************************************************)
THEOREM HandlesApart == ASSUME Stack = {Root} PROVE Spec => []OneOwner
<1>1. Inv => OneOwner
  <2> SUFFICES ASSUME Inv PROVE OneOwner OBVIOUS
  <2>1. \A s \in Stack : \A h \in Held(s) : h.db \in (1..made) \ archived
    <3> SUFFICES ASSUME NEW h \in Held(Root) PROVE h.db \in (1..made) \ archived OBVIOUS
    <3>1. Sound(h) /\ h # NoHandle BY DEF Held, Inv, HandlesSound
    <3>2. h.db \in 1..made /\ OnDisk(h.db) BY <3>1 DEF Sound
    <3> QED BY <3>2 DEF OnDisk, Inv, Files
  <2>2. TypeOK BY <2>1 DEF TypeOK, Inv, Types
  <2>3. ASSUME Twice(Root) PROVE job[Root].step \in {"staged", "replaced"} /\ LeftStaged(Root)
    <3>1. slot[Root] # NoHandle /\ NoHandle.db = None /\ slot[Root].db # None
      BY <2>3, HandleTypes DEF Twice
    <3>2. /\ config[Root] \in Configs /\ config[Root].dir = Root /\ Staging(config[Root]) = NextName
          /\ DbPath(config[Root]) \in Path /\ DbPath(config[Root]) # NextName /\ NextName \in Path
      <4>1. config[Root] \in Configs /\ config[Root].dir = Root BY DEF Inv, Types, Stepwise
      <4> QED BY <4>1, Paths
    <3>3. job[Root].step \notin Emptied BY <3>1 DEF Inv, Stepwise
    <3>4. CASE job[Root].step = "staged"
      <4>1. /\ job[Root].old = NoHandle /\ job[Root].new.db = disk[NextName]
            /\ ~mishap => slot[Root].db = disk[DbPath(config[Root])]
        BY <3>1, <3>4 DEF Inv, Stepwise, Orderly
      <4>2. slot[Root].db = disk[NextName] BY <2>3, <3>1, <4>1 DEF Twice
      <4>3. mishap BY <3>1, <3>2, <4>1, <4>2 DEF Inv, Files
      <4> QED BY <3>2, <3>4, <4>2, <4>3 DEF LeftStaged
    <3>5. CASE job[Root].step = "replaced"
      <4>1. /\ job[Root].new = NoHandle /\ slot[Root].db = disk[NextName]
            /\ ~mishap => job[Root].old = NoHandle \/ job[Root].old.db = disk[DbPath(config[Root])]
        BY <3>5 DEF Inv, Stepwise, Orderly, Swapped
      <4>2. slot[Root].db = job[Root].old.db BY <2>3, <3>1, <4>1 DEF Twice
      <4>3. mishap BY <3>1, <3>2, <4>1, <4>2 DEF Inv, Files
      <4> QED BY <3>2, <3>5, <4>1, <4>3 DEF LeftStaged
    <3>6. CASE job[Root].step \notin {"staged", "replaced"} \cup Emptied
      <4>1. job[Root].new = NoHandle /\ job[Root].old = NoHandle
        BY <3>6 DEF Inv, Stepwise, Emptied
      <4> QED BY <2>3, <3>1, <4>1 DEF Twice
    <3> QED BY <3>3, <3>4, <3>5, <3>6
  <2> QED BY <2>2, <2>3 DEF OneOwner
<1> QED BY <1>1, Invariant, PTL

(***************************************************************************)
(* Between commands a reclaim, or the next start, opens the database that  *)
(* is in the slot, unless a command was cut off before (DbPath of the      *)
(* config and of the stored mode, after any swaps and changes of mode).    *)
(***************************************************************************)
THEOREM OpensWhatItHad == ASSUME Stack = {Root} PROVE Spec => []ReopensTheSame
<1>1. Inv => ReopensTheSame
  BY JobTypes DEF Inv, Orderly, ReopensTheSame, Idle
<1> QED BY <1>1, Invariant, PTL

(***************************************************************************)
(* "Start fresh": the database swap_database installs has no rows, unless  *)
(* an earlier command was cut off and left one under the staging name.     *)
(***************************************************************************)
THEOREM SwapsToEmpty == ASSUME Stack = {Root} PROVE Spec => StartsFresh
<1> DEFINE Fresh == \A s \in Stack :
             job[s].step = "staged" /\ job'[s].step = "replaced" /\ ~mishap =>
               main[slot'[s].db] = {} /\ log[slot'[s].db] = {}
<1>1. Inv /\ [Next]_vars => [Fresh]_vars
  <2> SUFFICES ASSUME Inv, Next, job[Root].step = "staged", job'[Root].step = "replaced", ~mishap
               PROVE  main[slot'[Root].db] = {} /\ log[slot'[Root].db] = {}
    OBVIOUS
  <2>1. Replace(Root)
    <3>1. job[Root] # NoJob BY JobTypes
    <3>2. ~Idle(Root) /\ up[Root] BY <3>1 DEF Idle, Inv, Stepwise
    <3>3. job' # job BY DEF Inv
    <3>4. ~End(Root)
      <4>1. End(Root) => job'[Root] = NoJob BY DEF End, Inv, Types
      <4> QED BY <4>1, JobTypes
    <3>5. ~Record(Root) BY <3>3 DEF Record, app
    <3> QED BY <3>2, <3>4, <3>5 DEF Next, Start, Release, Reclaim, Reclaimed, Stage, Retire, Move,
               Rename, Take, Reopen, Install
  <2>2. slot'[Root] = job[Root].new BY <2>1 DEF Replace, Replacement, Inv, Types
  <2>3. Content(job[Root].new.db) = {} BY DEF Inv, Orderly
  <2> QED BY <2>2, <2>3 DEF Content
<1>2. StartsFresh <=> [][Fresh]_vars BY DEF StartsFresh
<1>3. Spec => []Inv BY Invariant
<1>4. Spec => [][Next]_vars BY DEF Spec
<1> HIDE DEF Fresh
<1> QED BY <1>1, <1>2, <1>3, <1>4, PTL
=============================================================================
