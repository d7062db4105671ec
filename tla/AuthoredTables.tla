--------------------------- MODULE AuthoredTables ---------------------------
(***************************************************************************)
(* The tables the user authors (adsb-data-engine/src/storage.rs): events   *)
(* of interest, scenarios and the tracks of scenarios.                     *)
(*                                                                         *)
(* Every call is a blocking task of its own; the handle's mutex orders     *)
(* them, but several calls take it twice (to read the row back, to touch   *)
(* the scenario), and the calls on tracks read the clock before they take  *)
(* it.  A step is what a call does under the mutex.  The ids (uuids) are   *)
(* the numbers 1, 2, ... in the order they are drawn.                      *)
(***************************************************************************)
EXTENDS Integers, Sequences, FiniteSets, Functions, SequencesExt

CONSTANTS
  Texts,      (* what a title, a name or a description can be              *)
  Keep,       (* an argument left out (None)                               *)
  Fallible,   (* TRUE iff a statement may fail                             *)
  MaxCalls,   (* calls made in a behaviour (bound)                         *)
  MaxTasks,   (* calls under way at a time (bound)                         *)
  MaxClock    (* ticks of the clock (bound)                                *)

ASSUME AuthoredAssumption ==
  /\ Keep \notin Texts /\ Texts # {}
  /\ Fallible \in BOOLEAN /\ MaxCalls \in Nat /\ MaxTasks \in Nat /\ MaxClock \in Nat

VARIABLES
  events,     (* events_of_interest: id -> row                             *)
  scenarios,  (* scenarios: id -> row                                      *)
  tracks,     (* scenario_tracks: id -> row                                *)
  ids,        (* the ids drawn so far                                      *)
  clock,
  calls,      (* calls made so far                                         *)
  tasks,      (* the blocking tasks that have not ended                    *)
  removed,    (* history: the ids whose deletion was committed             *)
  orphans,    (* history: the tracks added to a scenario already deleted   *)
  renumbered  (* history: the scenarios whose tracks were not always
                 renumbered as a whole                                     *)

rows == <<events, scenarios, tracks, ids>>
history == <<removed, orphans, renumbered>>
authoredVars == <<rows, clock, calls, tasks, history>>

Ids == 1..ids
Without(f, S) == Restrict(f, DOMAIN f \ S)
With(f, i, r) == [j \in DOMAIN f \cup {i} |-> IF j = i THEN r ELSE f[j]]
Given(new, old) == IF new = Keep THEN old ELSE new
TracksOf(s) == {t \in DOMAIN tracks : tracks[t].scenario = s}

\* A database as it is opened: a scenario from an earlier run may be in it.
AuthoredInit ==
  /\ events = <<>> /\ tracks = <<>>
  /\ scenarios \in {<<>>} \cup
       {[i \in {1} |-> [name |-> n, detail |-> d, created |-> 0, updated |-> 0]] : n, d \in Texts}
  /\ ids = Cardinality(DOMAIN scenarios)
  /\ clock = 0 /\ calls = 0 /\ tasks = {}
  /\ removed = {} /\ orphans = {} /\ renumbered = {}

Tick == clock < MaxClock /\ clock' = clock + 1 /\ UNCHANGED <<rows, calls, tasks, history>>

-----------------------------------------------------------------------------
(* The calls.                                                              *)

(***************************************************************************)
(* insert, update and delete of the three tables, reorder_scenario_tracks. *)
(* An id named in a call has been drawn before, whatever became of its row *)
(* since; the lists of reorder come from a client that may have an old one *)
(* (no repetitions, possibly ids that are gone or of another scenario).    *)
(***************************************************************************)
EventIds == DOMAIN events \cup removed
ScenarioIds == DOMAIN scenarios \cup removed
TrackIds == DOMAIN tracks \cup removed
EventCalls == {<<"add_event", x>> : x \in Texts}
              \cup {<<"change_event", i, x>> : i \in EventIds, x \in Texts}
              \cup {<<"remove_event", i>> : i \in EventIds}
ScenarioCalls ==
  {<<"add_scenario", x>> : x \in Texts}
  \cup {<<"change_scenario", i, x, d>> : i \in ScenarioIds, x \in Texts, d \in Texts \cup {Keep}}
  \cup {<<"remove_scenario", i>> : i \in ScenarioIds}
Lists == {<<>>} \cup {<<i>> : i \in TrackIds} \cup {<<i, j>> : i, j \in TrackIds}
TrackCalls == {<<"add_track", s>> : s \in ScenarioIds}
              \cup {<<"change_track", i, o>> : i \in TrackIds, o \in {Keep, 0}}
              \cup {<<"remove_track", i>> : i \in TrackIds}
              \cup {<<"reorder", s, l>> : s \in ScenarioIds, l \in {k \in Lists : IsInjective(k)}}

\* The async wrappers clone the handle and spawn a blocking task; dropping the
\* caller does not stop it.  `at` is the clock as the call on a track reads it.
Call ==
  /\ calls < MaxCalls /\ Cardinality(tasks) < MaxTasks
  /\ \E c \in EventCalls \cup ScenarioCalls \cup TrackCalls :
       tasks' = tasks \cup {[call |-> c, n |-> calls, at |-> clock, on |-> 0]}
  /\ calls' = calls + 1
  /\ UNCHANGED <<rows, clock, history>>

Is(t, name) == t.on = 0 /\ t.call[1] = name
Ends(t) == tasks' = tasks \ {t}
\* The mutex is released and taken again, for the row or the scenario `on`.
Second(t, on) == tasks' = (tasks \ {t}) \cup {[t EXCEPT !.on = on]}

\* A statement fails: the call answers an error and what it did before stays.
Fails(t) == Fallible /\ Ends(t) /\ UNCHANGED <<rows, clock, calls, history>>

\* No row has the id: the call answers an error.
NotFound(t, table) ==
  t.call[2] \notin DOMAIN table /\ Ends(t) /\ UNCHANGED <<rows, clock, calls, history>>

-----------------------------------------------------------------------------
(* Events of interest.                                                     *)

AddEvent(t) ==
  /\ Is(t, "add_event")
  /\ ids' = ids + 1
  /\ events' = With(events, ids', [text |-> t.call[2], created |-> clock, updated |-> clock])
  /\ Ends(t)
  /\ UNCHANGED <<scenarios, tracks, clock, calls, history>>

\* All fields are replaced; the row is read back under the mutex, taken anew.
ChangeEvent(t) ==
  /\ Is(t, "change_event")
  /\ \/ NotFound(t, events)
     \/ LET i == t.call[2] IN
        /\ i \in DOMAIN events
        /\ events' = [events EXCEPT ![i].text = t.call[3], ![i].updated = clock]
        /\ Second(t, i)
        /\ UNCHANGED <<scenarios, tracks, ids, clock, calls, history>>

RemoveEvent(t) ==
  /\ Is(t, "remove_event")
  /\ \/ NotFound(t, events)
     \/ LET i == t.call[2] IN
        /\ i \in DOMAIN events
        /\ events' = Without(events, {i}) /\ removed' = removed \cup {i}
        /\ Ends(t)
        /\ UNCHANGED <<scenarios, tracks, ids, clock, calls, orphans, renumbered>>

-----------------------------------------------------------------------------
(* Scenarios.                                                              *)

AddScenario(t) ==
  /\ Is(t, "add_scenario")
  /\ ids' = ids + 1
  /\ \E d \in Texts : scenarios' =
       With(scenarios, ids', [name |-> t.call[2], detail |-> d, created |-> clock, updated |-> clock])
  /\ Ends(t)
  /\ UNCHANGED <<events, tracks, clock, calls, history>>

\* COALESCE keeps what the call leaves out.
Changed(r, t) == [r EXCEPT !.name = t.call[3], !.detail = Given(t.call[4], @), !.updated = clock]

ChangeScenario(t) ==
  /\ Is(t, "change_scenario")
  /\ \/ NotFound(t, scenarios)
     \/ LET i == t.call[2] IN
        /\ i \in DOMAIN scenarios
        /\ scenarios' = [scenarios EXCEPT ![i] = Changed(@, t)]
        /\ Second(t, i)
        /\ UNCHANGED <<events, tracks, ids, clock, calls, history>>

\* What an error in the second DELETE leaves: the transaction is rolled back.
\* Mutant of Halfway: there is no transaction.
HalfwayKept(s) == Without(tracks, TracksOf(s))
Halfway(s) == tracks

RemoveScenario(t) ==
  /\ Is(t, "remove_scenario")
  /\ Ends(t)
  /\ LET s == t.call[2] IN
     \/ /\ s \notin DOMAIN scenarios    \* 0 rows: ROLLBACK, the tracks included
        /\ UNCHANGED <<scenarios, tracks, removed>>
     \/ /\ s \in DOMAIN scenarios
        /\ tracks' = Without(tracks, TracksOf(s))
        /\ scenarios' = Without(scenarios, {s})
        /\ removed' = removed \cup TracksOf(s) \cup {s}
     \/ Fallible /\ tracks' = Halfway(s) /\ UNCHANGED <<scenarios, removed>>
  /\ UNCHANGED <<events, ids, clock, calls, orphans, renumbered>>

-----------------------------------------------------------------------------
(* The tracks of a scenario.                                               *)

\* Mutant of NextOrdinal: the number of tracks.
NextOrdinalCount(s) == Cardinality(TracksOf(s))
NextOrdinal(s) ==
  CHOOSE n \in 0..(ids + MaxCalls) :
    /\ \A t \in TracksOf(s) : tracks[t].ordinal < n
    /\ n = 0 \/ \E t \in TracksOf(s) : tracks[t].ordinal = n - 1

\* Nobody looks whether the scenario is still there.
AddTrack(t) ==
  /\ Is(t, "add_track")
  /\ LET s == t.call[2] IN
     /\ ids' = ids + 1
     /\ tracks' = With(tracks, ids', [scenario |-> s, ordinal |-> NextOrdinal(s),
                                      created |-> t.at, updated |-> t.at])
     /\ orphans' = IF s \in DOMAIN scenarios THEN orphans ELSE orphans \cup {ids'}
     /\ Second(t, s)
  /\ UNCHANGED <<events, scenarios, clock, calls, removed, renumbered>>

ChangeTrack(t) ==
  /\ Is(t, "change_track")
  /\ \/ NotFound(t, tracks)
     \/ LET i == t.call[2] IN
        /\ i \in DOMAIN tracks
        /\ tracks' = [tracks EXCEPT ![i].ordinal = Given(t.call[3], @), ![i].updated = t.at]
        /\ renumbered' = IF t.call[3] = Keep THEN renumbered ELSE renumbered \cup {tracks[i].scenario}
        /\ Second(t, tracks[i].scenario)
        /\ UNCHANGED <<events, scenarios, ids, clock, calls, removed, orphans>>

RemoveTrack(t) ==
  /\ Is(t, "remove_track")
  /\ \/ NotFound(t, tracks)
     \/ LET i == t.call[2] IN
        /\ i \in DOMAIN tracks
        /\ tracks' = Without(tracks, {i}) /\ removed' = removed \cup {i}
        /\ Second(t, tracks[i].scenario)
        /\ UNCHANGED <<events, scenarios, ids, clock, calls, orphans, renumbered>>

\* One UPDATE for each id of the list, in order; an error leaves the first ones.
Reordered(s, l, at) ==
  [i \in DOMAIN tracks |->
     IF tracks[i].scenario = s /\ \E k \in DOMAIN l : l[k] = i
     THEN [tracks[i] EXCEPT !.ordinal = (CHOOSE k \in DOMAIN l : l[k] = i) - 1, !.updated = at]
     ELSE tracks[i]]

Reorder(t) ==
  /\ Is(t, "reorder")
  /\ LET s == t.call[2]
         l == t.call[3]
     IN \E done \in (IF Fallible THEN 0..Len(l) ELSE {Len(l)}) :
          /\ tracks' = Reordered(s, SubSeq(l, 1, done), t.at)
          /\ renumbered' = IF TracksOf(s) \subseteq {l[k] : k \in 1..done}
                           THEN renumbered ELSE renumbered \cup {s}
          /\ IF done = Len(l) THEN Second(t, s) ELSE Ends(t)
  /\ UNCHANGED <<events, scenarios, ids, clock, calls, removed, orphans>>

\* get_scenario: the tracks a scenario is opened with, ORDER BY ordinal.
Opened(s) ==
  CHOOSE l \in [1..Cardinality(TracksOf(s)) -> TracksOf(s)] :
    /\ IsInjective(l)
    /\ \A j, k \in DOMAIN l : j < k => tracks[l[j]].ordinal <= tracks[l[k]].ordinal

-----------------------------------------------------------------------------
(* The second turn under the mutex.                                        *)

\* get_event_of_interest, get_scenario: an error if the row has gone meanwhile.
ReadBack(t) ==
  /\ t.on # 0 /\ t.call[1] \in {"change_event", "change_scenario"}
  /\ Ends(t)
  /\ UNCHANGED <<rows, clock, calls, history>>

\* touch_scenario, with the time the call began at.
Touch(t) ==
  /\ t.on # 0 /\ t.call[1] \notin {"change_event", "change_scenario"}
  /\ scenarios' = IF t.on \in DOMAIN scenarios
                  THEN [scenarios EXCEPT ![t.on].updated = t.at] ELSE scenarios
  /\ Ends(t)
  /\ UNCHANGED <<events, tracks, ids, clock, calls, history>>

AuthoredNext ==
  \/ Tick \/ Call
  \/ \E t \in tasks :
       \/ AddEvent(t) \/ ChangeEvent(t) \/ RemoveEvent(t)
       \/ AddScenario(t) \/ ChangeScenario(t) \/ RemoveScenario(t)
       \/ AddTrack(t) \/ ChangeTrack(t) \/ RemoveTrack(t) \/ Reorder(t)
       \/ ReadBack(t) \/ Touch(t) \/ Fails(t)

AuthoredSpec == AuthoredInit /\ [][AuthoredNext]_authoredVars

-----------------------------------------------------------------------------
(* Properties.                                                             *)

AuthoredTypeOK ==
  /\ ids \in Nat /\ clock \in 0..MaxClock /\ calls \in 0..MaxCalls
  /\ \A e \in DOMAIN events : events[e].text \in Texts
  /\ \A s \in DOMAIN scenarios : scenarios[s].name \in Texts /\ scenarios[s].detail \in Texts
  /\ \A t \in DOMAIN tracks : tracks[t].scenario \in Ids /\ tracks[t].ordinal \in 0..(ids + MaxCalls)

(***************************************************************************)
(* Every row that was ever added is in its table until a deletion that was *)
(* committed, whichever statement fails and whichever calls overlap; a     *)
(* track is without its scenario only when it was added after the scenario *)
(* had gone; and no row was updated before it was created, though the      *)
(* calls on tracks carry a time that is old when they get the mutex.       *)
(***************************************************************************)
Dated(r) == r.created <= r.updated
RowsAccounted ==
  /\ AuthoredTypeOK
  /\ Ids = removed \cup DOMAIN events \cup DOMAIN scenarios \cup DOMAIN tracks
  /\ \A t \in DOMAIN tracks : tracks[t].scenario \in DOMAIN scenarios \/ t \in orphans
  /\ \A e \in DOMAIN events : Dated(events[e])
  /\ \A s \in DOMAIN scenarios : Dated(scenarios[s])
  /\ \A t \in DOMAIN tracks : Dated(tracks[t])

(***************************************************************************)
(* A scenario is opened with its tracks in one order, whoever opens it: no *)
(* two have the same ordinal, unless one was renumbered alone, a list was  *)
(* out of date, or the renumbering failed halfway.                         *)
(***************************************************************************)
OrdinalsDistinct ==
  \A s \in {tracks[t].scenario : t \in DOMAIN tracks} \ renumbered :
    \A k \in 2..Len(Opened(s)) : tracks[Opened(s)[k - 1]].ordinal < tracks[Opened(s)[k]].ordinal
=============================================================================
