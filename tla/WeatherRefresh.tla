--------------------------- MODULE WeatherRefresh ---------------------------
(***************************************************************************)
(* adsb-weather-server: the refresh loop (Refresher::run), the enabled     *)
(* setting (Control), the state file both of them write (StateStore), the  *)
(* snapshot cache, and restarts.                                           *)
(*                                                                         *)
(* Times to come (Pending, not_before_ms, next_fetch_ms) are kept as the   *)
(* time left until them, so that time needs no bound.                      *)
(***************************************************************************)
EXTENDS Integers, FiniteSets

CONSTANTS
  Refresh,                 (* refresh_minutes                              *)
  RetryBase, RetryMax,     (* default_retry()                              *)
  MinuteWindow, Hour, Day, DailyRecheck,
  RetryAfters,             (* Retry-After of a refusal; 0 stands for none  *)
  Persistent,              (* state_path is set                            *)
  Fallible,                (* a file may be unreadable or unwritable       *)
  MaxFailures              (* stands for u32::MAX (bound)                  *)

ASSUME DelayAssumption ==
  /\ Refresh \in Nat \ {0} /\ RetryBase \in Nat \ {0} /\ RetryMax \in Nat \ {0}
  /\ MinuteWindow \in Nat \ {0} /\ Hour \in Nat \ {0} /\ Day \in Nat \ {0}
  /\ DailyRecheck \in Nat \ {0}
ASSUME RetryAftersAssumption == RetryAfters \subseteq Nat
ASSUME FlagAssumption == Persistent \in BOOLEAN /\ Fallible \in BOOLEAN
ASSUME FailuresAssumption == MaxFailures \in Nat \ {0}

None == -1

VARIABLES
  clock,       (* wall clock, within a day                                 *)
  file,        (* the state file                                           *)
  store,       (* StateStore::state, its copy in memory                    *)
  cache,       (* is the cached snapshot the newest one fetched?           *)
  phase,       (* where Refresher::run is                                  *)
  stopping,    (* shutdown was requested                                   *)
  command,     (* the setting a command has persisted and not yet announced *)
  desired,     (* Control::desired                                         *)
  unseen,      (* the loop has not seen the last change of desired         *)
  pending,     (* time until the scheduled fetch                           *)
  failures, last_outcome,
  outcome,     (* of the fetch just answered                               *)
  report,      (* ReportedState                                            *)
  reported,    (* the last report sent to the watch channel                *)
  snapshots,   (* is the snapshot in the watch channel the newest fetched? *)
  pace,        (* history: time left of the delay this process chose       *)
  limit,       (* history: time left of the last rate limit, until the
                  process ends without having recorded it                  *)
  kept,        (* history: the state file was written after the last fetch *)
  acked,       (* history: the setting the operator was told is in force   *)
  unread       (* history: the last process could not read the file and has
                  not written it since                                     *)

stored == <<file, store, unread>>
control == <<command, desired, unseen, acked>>
history == <<pace, limit, kept>>
loop == <<failures, last_outcome, outcome, report, reported>>
vars == <<clock, stored, cache, phase, stopping, control, pending, loop, snapshots, history>>

\* PersistedState; left is the time until not_before_ms.
State(enabled, left) == [enabled |-> enabled, left |-> left]
Default == State("on", None)

Setting == {"on", "off"}

Kinds == {"fetched", "transient", "rejected", "limited"}
Scopes == {"minutely", "hourly", "daily", "unknown"}
Outcome(kind, scope, after) == [kind |-> kind, scope |-> scope, after |-> after]
NoOutcome == Outcome("none", "none", 0)

Report(state, fails, limited, next, snapshot) ==
  [state |-> state, failures |-> fails, limited |-> limited, next |-> next, snapshot |-> snapshot]
NoReport == Report("idle", 0, FALSE, FALSE, FALSE)

Init ==
  /\ clock = 0 /\ file = Default /\ store = Default /\ unread = FALSE /\ cache = "none"
  /\ phase = "down" /\ stopping = FALSE
  /\ command = "none" /\ desired = "on" /\ unseen = FALSE /\ acked = "on"
  /\ pending = None
  /\ failures = 0 /\ last_outcome = "none" /\ outcome = NoOutcome
  /\ report = NoReport /\ reported = NoReport /\ snapshots = "none"
  /\ pace = 0 /\ limit = 0 /\ kept = TRUE

-----------------------------------------------------------------------------
(* next_delay.                                                             *)

Least(a, b) == IF a < b THEN a ELSE b
Most(a, b) == IF a < b THEN b ELSE a

\* Backoff::delay
Delay(attempt) == Least(RetryBase * 2^attempt, RetryMax)

UntilNext(period) == period - (clock % period)

\* Mutant of Window: an hourly limit that ends soon is not stretched.
WindowExact(scope) ==
  CASE scope = "minutely" -> MinuteWindow
    [] scope = "hourly"   -> UntilNext(Hour) - 1
    [] scope = "daily"    -> Least(UntilNext(Day), DailyRecheck)
    [] OTHER              -> Refresh

\* How long a rate limit of this scope lasts.
Window(scope) ==
  CASE scope = "minutely" -> MinuteWindow
    [] scope = "hourly"   -> Most(UntilNext(Hour), Refresh)
    [] scope = "daily"    -> Most(Least(UntilNext(Day), DailyRecheck), Refresh)
    [] OTHER              -> Most(Refresh, RetryMax)

\* Jitter shortens a retry by up to half and lengthens a limit by up to a tenth.
NextDelays(o, fails) ==
  CASE o.kind = "transient" ->
         LET nominal == Least(Delay(fails - 1), Refresh)
         IN {d \in 0..Refresh : d <= nominal /\ 2 * d >= nominal}
    [] o.kind = "limited" ->
         LET nominal == Most(Window(o.scope), o.after)
         IN {d \in nominal..2 * nominal : 10 * d <= 11 * nominal}
    [] OTHER -> {Refresh}

\* waiting_state
WaitingState(kind) ==
  CASE kind = "fetched"   -> "idle"
    [] kind = "transient" -> "retrying"
    [] kind = "limited"   -> "rate_limited"
    [] OTHER              -> "rejected"

-----------------------------------------------------------------------------
(* Start and end of the process.                                           *)

\* The cached snapshot is put into the channel.
Replayed(c) == c

\* Mutant of Honoured: the persisted time is ignored.
HonouredNever(left) == None

\* Pending::at_epoch_ms of the persisted time.
Honoured(left) == left

\* StateStore::open: a file that cannot be read stays as it is, and the store
\* starts from the default.  The operator is told the setting the store has.
Open ==
  \/ /\ store' = file /\ unread' = FALSE
     /\ acked' = IF unread THEN file.enabled ELSE acked
     /\ UNCHANGED <<file, limit, kept>>
  \/ /\ Persistent /\ Fallible
     /\ store' = Default /\ unread' = TRUE /\ acked' = Default.enabled
     /\ limit' = 0 /\ kept' = FALSE /\ UNCHANGED file

\* Control::new and Refresher::run up to its loop.  A cache that cannot be read,
\* or is for another grid, counts as missing.
Start ==
  /\ phase = "down" /\ phase' = "top" /\ stopping' = FALSE
  /\ Open
  /\ \E c \in {cache, "none"} :
       /\ cache' = c /\ snapshots' = Replayed(c)
       /\ report' = Report(IF store'.left > 0 THEN "rate_limited" ELSE "idle",
                           0, FALSE, FALSE, c # "none")
  /\ desired' = store'.enabled /\ unseen' = FALSE
  /\ pending' = Honoured(store'.left)
  /\ reported' = NoReport
  /\ UNCHANGED <<clock, command, failures, last_outcome, outcome, pace>>

\* What is left when the process has ended.  Who was not answered is told nothing.
Down ==
  /\ phase' = "down" /\ stopping' = FALSE
  /\ store' = Default
  /\ command' = "none" /\ desired' = "on" /\ unseen' = FALSE
  /\ acked' = IF Persistent /\ command = "none" THEN acked ELSE file.enabled
  /\ pending' = None /\ failures' = 0 /\ last_outcome' = "none" /\ outcome' = NoOutcome
  /\ report' = NoReport /\ reported' = NoReport /\ snapshots' = "none"
  /\ kept' = (Persistent /\ kept)
  /\ pace' = 0 /\ limit' = IF kept' THEN limit ELSE 0
  /\ UNCHANGED <<clock, file, unread, cache>>

Crash == phase # "down" /\ Down

Shutdown ==
  /\ phase # "down" /\ stopping' = TRUE
  /\ UNCHANGED <<clock, stored, cache, phase, control, pending, loop, snapshots, history>>

\* Mutant of Stop: the disabled loop waits for a command only.
StopEnabled ==
  /\ stopping /\ phase \in {"top", "wait", "fetch"}
  /\ Down

\* The loop looks at shutdown at its top and wherever it waits.
Stop ==
  /\ stopping /\ phase \in {"top", "disabled", "wait", "fetch"}
  /\ Down

-----------------------------------------------------------------------------
(* Control::set_enabled, on the threads of the API; commands are serialised. *)

\* StateStore::update, when no write fails: an update that changes nothing in memory
\* does not touch the disk.
Update(next) ==
  \/ next = store /\ UNCHANGED stored
  \/ /\ next # store /\ store' = next /\ unread' = FALSE
     /\ file' = IF Persistent THEN next ELSE file

\* What another writer stored stays.
StoredSetting(e) == [store EXCEPT !.enabled = e]

\* Mutant of StoredLeft: the loop writes back the setting it follows.
StoredLeftAll(left) == State(desired, left)

StoredLeft(left) == [store EXCEPT !.left = left]

\* A write that fails changes nothing and the command returns the error.
Persist(e) ==
  /\ phase # "down" /\ command = "none"
  /\ Update(StoredSetting(e)) /\ command' = e
  /\ UNCHANGED <<clock, cache, phase, stopping, desired, unseen, acked, pending, loop,
                 snapshots, history>>

\* Mutant of Wakes: compared after the assignment, nothing ever changes.
WakesNever == FALSE

\* send_if_modified: only a real change wakes the loop.
Wakes == desired # command

Announce ==
  /\ command # "none"
  /\ desired' = command /\ acked' = command /\ unseen' = (unseen \/ Wakes)
  /\ command' = "none"
  /\ UNCHANGED <<clock, stored, cache, phase, stopping, pending, loop, snapshots, history>>

-----------------------------------------------------------------------------
(* Refresher::run.                                                         *)

\* The local report, and the channel, become r.
Publish(r) == report' = r /\ reported' = r

\* pending survives being disabled.
Survives == pending

EnterDisabled ==
  /\ phase = "top" /\ ~stopping /\ desired = "off"
  /\ phase' = "disabled" /\ pending' = Survives
  /\ Publish([report EXCEPT !.state = "disabled", !.next = FALSE])
  /\ UNCHANGED <<clock, stored, cache, stopping, control, failures, last_outcome, outcome,
                 snapshots, history>>

\* Mutant of StateWhileWaiting: the state of a disabled loop is left as it was.
StateWhileWaitingKept ==
  IF last_outcome # "none" THEN WaitingState(last_outcome) ELSE report.state

\* Before the first outcome, waiting is for the rate limit of an earlier run.
StateWhileWaiting ==
  IF last_outcome # "none" THEN WaitingState(last_outcome)
  ELSE IF report.state = "disabled" THEN "rate_limited" ELSE report.state

EnterWait ==
  /\ phase = "top" /\ ~stopping /\ desired = "on" /\ pending # None
  /\ phase' = "wait"
  /\ Publish([report EXCEPT !.state = StateWhileWaiting, !.next = TRUE])
  /\ UNCHANGED <<clock, stored, cache, stopping, control, pending, failures, last_outcome,
                 outcome, snapshots, history>>

\* desired.changed(): what matters is the value now, not the change.
Observe ==
  /\ phase \in {"disabled", "wait", "fetch"} /\ unseen
  /\ unseen' = FALSE
  /\ phase' = IF (desired = "on") = (phase = "disabled") THEN "top" ELSE phase
  /\ UNCHANGED <<clock, stored, cache, stopping, command, desired, acked, pending, loop,
                 snapshots, history>>

\* Nothing is scheduled, or the deadline of the sleep has come.
BeginFetch ==
  /\ \/ phase = "top" /\ ~stopping /\ desired = "on" /\ pending = None
     \/ phase = "wait" /\ pending = 0
  /\ phase' = "fetch" /\ pending' = None
  /\ Publish([report EXCEPT !.state = "fetching", !.next = FALSE])
  /\ UNCHANGED <<clock, stored, cache, stopping, control, failures, last_outcome, outcome,
                 snapshots, history>>

\* A snapshot, once a newer one was fetched.
Older(s) == IF s = "none" THEN "none" ELSE "older"

\* The provider answers with a snapshot; saving it to the cache may fail.
Fetched ==
  /\ phase = "fetch" /\ phase' = "send"
  /\ failures' = 0 /\ outcome' = Outcome("fetched", "none", 0)
  /\ report' = [report EXCEPT !.failures = 0, !.limited = FALSE, !.snapshot = TRUE]
  /\ \/ cache' = "newest"
     \/ Fallible /\ cache' = Older(cache)
  /\ snapshots' = Older(snapshots)
  /\ UNCHANGED <<clock, stored, stopping, control, pending, last_outcome, reported, history>>

\* snapshots.send_replace
SendSnapshot ==
  /\ phase = "send" /\ phase' = "schedule"
  /\ snapshots' = "newest"
  /\ UNCHANGED <<clock, stored, cache, stopping, control, pending, loop, history>>

\* The provider answers with an error, or not at all.  "A failed fetch never
\* clears the channel."
Failed(o) ==
  /\ phase = "fetch" /\ phase' = "schedule"
  /\ failures' = Least(failures + 1, MaxFailures) /\ outcome' = o
  /\ report' = [report EXCEPT !.failures = failures', !.limited = (o.kind = "limited")]
  /\ UNCHANGED <<clock, stored, cache, stopping, control, pending, last_outcome, reported,
                 snapshots, history>>

\* Choose the next delay and persist it if it is a rate limit's.
Schedule(delay) ==
  /\ phase = "schedule" /\ phase' = "top"
  /\ \/ Update(StoredLeft(IF outcome.kind = "limited" THEN delay ELSE None)) /\ kept' = TRUE
     \/ Persistent /\ Fallible /\ UNCHANGED stored /\ kept' = FALSE
  /\ pending' = delay /\ last_outcome' = outcome.kind /\ outcome' = NoOutcome
  /\ pace' = delay /\ limit' = IF outcome.kind = "limited" THEN delay ELSE 0
  /\ UNCHANGED <<clock, cache, stopping, control, failures, report, reported, snapshots>>

-----------------------------------------------------------------------------

Passed(left) == IF left > 0 THEN left - 1 ELSE left

Tick ==
  /\ clock' = (clock + 1) % Day
  /\ file' = [file EXCEPT !.left = Passed(@)] /\ store' = [store EXCEPT !.left = Passed(@)]
  /\ pending' = Passed(pending) /\ pace' = Passed(pace) /\ limit' = Passed(limit)
  /\ UNCHANGED <<unread, cache, phase, stopping, control, loop, snapshots, kept>>

Errors ==
  {Outcome("transient", "none", 0), Outcome("rejected", "none", 0)}
    \cup {Outcome("limited", s, r) : s \in Scopes, r \in RetryAfters}

Next ==
  \/ Start \/ Crash \/ Shutdown \/ Stop
  \/ \E e \in Setting : Persist(e)
  \/ Announce
  \/ EnterDisabled \/ EnterWait \/ Observe \/ BeginFetch
  \/ Fetched \/ SendSnapshot
  \/ \E o \in Errors : Failed(o)
  \/ \E delay \in NextDelays(outcome, failures) : Schedule(delay)
  \/ Tick

Spec == Init /\ [][Next]_vars

\* The task runs, requests time out (REQUEST_TIMEOUT), a command that was
\* persisted is announced, and time passes.
LiveSpec ==
  /\ Spec
  /\ WF_vars(EnterDisabled \/ EnterWait \/ Observe \/ BeginFetch \/ Fetched
             \/ (\E o \in Errors : Failed(o)) \/ SendSnapshot
             \/ (\E delay \in NextDelays(outcome, failures) : Schedule(delay)))
  /\ WF_vars(Stop) /\ WF_vars(Announce) /\ WF_vars(Tick)

-----------------------------------------------------------------------------
(* Properties.                                                             *)

Age == {"none", "older", "newest"}
Left == Nat \cup {None}
States == {"idle", "fetching", "retrying", "rate_limited", "rejected", "disabled"}
Reports == [state : States, failures : 0..MaxFailures, limited : BOOLEAN,
            next : BOOLEAN, snapshot : BOOLEAN]

Up == phase # "down"

\* The types of the variables; a fetch to come exists unless one is running.
TypeOK ==
  /\ clock \in 0..(Day - 1)
  /\ file \in [enabled : Setting, left : Left] /\ store \in [enabled : Setting, left : Left]
  /\ unread \in BOOLEAN
  /\ cache \in Age /\ snapshots \in Age
  /\ phase \in {"down", "top", "disabled", "wait", "fetch", "send", "schedule"}
  /\ stopping \in BOOLEAN /\ unseen \in BOOLEAN
  /\ command \in Setting \cup {"none"} /\ desired \in Setting /\ acked \in Setting
  /\ pending \in Left /\ pace \in Nat /\ limit \in Nat /\ kept \in BOOLEAN
  /\ failures \in 0..MaxFailures /\ last_outcome \in Kinds \cup {"none"}
  /\ outcome \in [kind : Kinds \cup {"none"}, scope : Scopes \cup {"none"}, after : RetryAfters \cup {0}]
  /\ (outcome.kind # "none" <=> phase \in {"send", "schedule"})
  /\ (outcome.kind \in Kinds \ {"fetched"} => failures > 0)
  /\ report \in Reports /\ reported \in Reports
  /\ (phase = "wait" => pending # None) /\ (phase \in {"fetch", "send", "schedule"} => pending = None)

\* The provider is never asked before the delay chosen after the last attempt has
\* passed, whatever commands came in between ("re-enabling never fetches earlier
\* than already scheduled"), nor, over crashes and restarts, before the window of
\* a rate limit has ("the provider's window did not reset because this process did").
NeverEarly ==
  [][phase # "fetch" /\ phase' = "fetch" => pace = 0 /\ limit = 0]_vars

\* The waits that next_delay documents, in terms of the time the wait ends: a
\* limit's window has rolled over, Retry-After has passed, and a transient
\* failure delays nothing past its normal schedule.
LimitsWaitedOut ==
  [][phase = "schedule" /\ phase' = "top" =>
       /\ outcome.kind = "transient" => pending' <= Refresh
       /\ outcome.kind = "limited" =>
            /\ pending' >= outcome.after
            /\ outcome.scope = "hourly" => (clock + pending') \div Hour # clock \div Hour
            /\ outcome.scope # "minutely" => pending' >= Refresh]_vars

\* "The service never acts on a setting a restart would lose": but for a command
\* under way, the loop, the memory and the operator agree on the setting while the
\* process runs, and the file agrees with them, crashes and the loop's own writes to
\* the same file included.  The code keeps this with one exception: a process that
\* could not read the file is enabled, takes "enable" for no change and answers it
\* without a write, and what stays in the file may be "off".
SettingDurable ==
  command = "none" =>
    /\ Up => desired = acked /\ store.enabled = acked
    /\ Persistent => file.enabled = acked \/ (unread /\ acked = "on")

\* Wherever the loop rests, the last report says so.
ReportHonest ==
  /\ phase = "disabled" => reported.state = "disabled" /\ ~reported.next
  /\ phase = "fetch" => reported.state = "fetching" /\ ~reported.next
  /\ phase = "wait" =>
       /\ reported.next /\ reported.failures = failures
       /\ reported.state = IF last_outcome # "none" THEN WaitingState(last_outcome)
                           ELSE IF pending > 0 THEN "rate_limited" ELSE reported.state
       /\ reported.state \notin {"fetching", "disabled"}
  /\ phase \in {"disabled", "wait", "fetch"} => (reported.snapshot <=> snapshots # "none")

\* A snapshot that reached the cache is the one that is published, also after a
\* restart.
LatestPublished ==
  phase \notin {"down", "send"} /\ cache = "newest" => snapshots = "newest"

\* What the operator and the relays see is current: the report describes where the
\* loop rests, and the snapshot published is the one in the cache.
ChannelsCurrent == ReportHonest /\ LatestPublished

\* No wait is cut short and none is chosen too short.
WaitsKept == NeverEarly /\ LimitsWaitedOut

Provider == INSTANCE Quota WITH
  asking <- (phase = "fetch"), wait <- limit, recorded <- kept

\* The loop keeps the promise of Quota over crashes, restarts and commands.
QuotaPromise == Provider!Spec

\* While the service is enabled it goes on fetching.
FetchesAgain == <>[](Up /\ desired = "on" /\ ~stopping) => []<>(phase = "fetch")

\* A shutdown ends the loop, whatever it waits for.
StopHonoured == stopping ~> phase = "down"
=============================================================================
