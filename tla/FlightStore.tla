---------------------------- MODULE FlightStore ----------------------------
(***************************************************************************)
(* adsb-data-engine, storage.rs: positions, the flights derived from them, *)
(* and the in-memory flight_tracker that decides whether a position        *)
(* extends the latest flight of its aircraft or begins a new one.          *)
(*                                                                         *)
(* Every call holds the mutex of the handle, but DuckDB commits each       *)
(* statement on its own and insert_batch opens no transaction: the process *)
(* can end, and a statement can fail, between any two statements.  The     *)
(* next open rebuilds the tracker from the flights table.                  *)
(*                                                                         *)
(* Flights are keyed "{hex_ident}_{flight_num}"; here <<aircraft, num>>.   *)
(***************************************************************************)
EXTENDS Integers, FiniteSets, Functions

CONSTANTS
  Aircraft,     (* hex_idents                                              *)
  Gap,          (* gap_threshold_ms                                        *)
  Ordered,      (* TRUE iff the timestamps of an aircraft never step back  *)
  Fallible,     (* TRUE iff a statement may fail in a process that goes on *)
  MaxTime,      (* latest timestamp (bound)                                *)
  MaxBatches,   (* batches inserted in a behaviour (bound)                 *)
  MaxImports    (* databases imported in a behaviour (bound)               *)

ASSUME GapAssumption == Gap \in Nat /\ Ordered \in BOOLEAN /\ Fallible \in BOOLEAN
ASSUME BoundAssumption == MaxTime \in Nat /\ MaxBatches \in Nat /\ MaxImports \in Nat

Time == 0..MaxTime

VARIABLES
  open,         (* a StorageHandle is open                                 *)
  positions,    (* rows of the positions table, per aircraft and time      *)
  flights,      (* rows of the flights table                               *)
  tracker,      (* Storage::flight_tracker                                 *)
  plan,         (* the statement insert_batch has yet to execute for each
                   aircraft of its batch                                   *)
  newest,       (* history: newest timestamp stored for each aircraft      *)
  counted,      (* history: positions that were counted in a flight        *)
  batches, imports  (* history: for the bounds                             *)

bounds == <<batches, imports>>
vars == <<open, positions, flights, tracker, plan, newest, counted, bounds>>

(* One row of the flights table. *)
Row(a, n, f, l, c) == [aircraft |-> a, num |-> n, first |-> f, last |-> l, count |-> c]

RowsOf(a, rows) == {r \in rows : r.aircraft = a}

(* A tracker entry; NoFlight is an aircraft without one. *)
Active(n, l) == [num |-> n, last |-> l]
NoFlight == Active(-1, 0)

Statement(op, n, t) == [op |-> op, num |-> n, at |-> t]
NoStatement == Statement("none", 0, 0)

NoPlan == [a \in Aircraft |-> NoStatement]
Idle == plan = NoPlan

Init ==
  /\ open = FALSE
  /\ positions = [a \in Aircraft |-> [t \in Time |-> 0]]
  /\ flights = {}
  /\ tracker = [a \in Aircraft |-> NoFlight]
  /\ plan = NoPlan
  /\ newest = [a \in Aircraft |-> 0]
  /\ counted = [a \in Aircraft |-> [t \in Time |-> 0]]
  /\ batches = 0 /\ imports = 0

-----------------------------------------------------------------------------
(* open: bootstrap_flights and rebuild_flight_tracker.                     *)

\* The times at which a table of positions has a row for aircraft a.
TimesOf(a, table) == {t \in Time : table[a][t] > 0}

\* LAG(timestamp_ms) is null or more than Gap ago; the same looking forward.
Starts(T) == {t \in T : \A u \in T : u < t => t - u > Gap}
Ends(T) == {t \in T : \A u \in T : u > t => u - t > Gap}

\* First and last time of each run of positions without a gap.
Runs(T) ==
  {p \in Starts(T) \X Ends(T) :
     /\ p[1] <= p[2]
     /\ \A s \in Starts(T) : ~(p[1] < s /\ s <= p[2])
     /\ \A e \in Ends(T) : ~(p[1] <= e /\ e < p[2])}

\* flight_num: the running sum of the gap markers, minus 1.
FlightNum(T, s) == Cardinality({u \in Starts(T) : u < s})

\* COUNT(*) of the positions of aircraft a from time f to time l.
RowCount(a, table, f, l) == SumFunction([t \in f..l |-> table[a][t]])

\* The flights a table of positions divides into (window query of bootstrap).
Segments(table) ==
  UNION {
    {Row(a, FlightNum(TimesOf(a, table), p[1]), p[1], p[2],
         RowCount(a, table, p[1], p[2])) : p \in Runs(TimesOf(a, table))}
    : a \in Aircraft}

\* Mutant of Rebuilt: the first flight instead of the latest.
RebuiltFirst(tr, rows) ==
  \A a \in Aircraft :
    IF RowsOf(a, rows) = {} THEN tr[a] = NoFlight
    ELSE \E r \in RowsOf(a, rows) :
           /\ \A s \in RowsOf(a, rows) : r.num <= s.num
           /\ tr[a] = Active(r.num, r.last)

\* The row with MAX(flight_num) of every aircraft.
Rebuilt(tr, rows) ==
  \A a \in Aircraft :
    IF RowsOf(a, rows) = {} THEN tr[a] = NoFlight
    ELSE \E r \in RowsOf(a, rows) :
           /\ \A s \in RowsOf(a, rows) : s.num <= r.num
           /\ tr[a] = Active(r.num, r.last)

\* bootstrap_flights does something only if flights is empty and positions not.
Bootstraps == flights = {} /\ \E a \in Aircraft : TimesOf(a, positions) # {}

Open ==
  /\ ~open /\ open' = TRUE
  /\ IF Bootstraps
       THEN flights' = Segments(positions) /\ counted' = positions
       ELSE UNCHANGED <<flights, counted>>
  /\ \E tr \in [Aircraft -> [num : (0..MaxBatches + MaxTime) \cup {-1}, last : Time]] :
       Rebuilt(tr, flights') /\ tracker' = tr
  /\ UNCHANGED <<positions, plan, newest, bounds>>

\* The handle is dropped, or the process ends, wherever it is.
Close ==
  /\ open /\ open' = FALSE
  /\ tracker' = [a \in Aircraft |-> NoFlight]
  /\ plan' = NoPlan
  /\ UNCHANGED <<positions, flights, newest, counted, bounds>>

-----------------------------------------------------------------------------
(* insert_batch.                                                           *)

\* Mutants of Extends: a gap of exactly Gap separates; no entry is needed.
ExtendsStrictly(a, t) == tracker[a] # NoFlight /\ t - tracker[a].last < Gap

ExtendsAlways(a, t) == t - tracker[a].last <= Gap

\* Does a position at time t extend the latest flight of its aircraft?
Extends(a, t) == tracker[a] # NoFlight /\ t - tracker[a].last <= Gap

\* Mutant of NextNum: the number of the latest flight is used again.
NextNumAgain(a) == IF tracker[a] = NoFlight THEN 0 ELSE tracker[a].num

\* The number of a new flight.
NextNum(a) == IF tracker[a] = NoFlight THEN 0 ELSE tracker[a].num + 1

\* Mutant of Track: last_seen_ms is not advanced when a flight is extended.
TrackFirst(a, t) == IF Extends(a, t) THEN tracker[a] ELSE Active(NextNum(a), t)

\* The tracker entry after a position at time t.
Track(a, t) == Active(IF Extends(a, t) THEN tracker[a].num ELSE NextNum(a), t)

PlanFor(a, t) ==
  IF Extends(a, t) THEN Statement("update", tracker[a].num, t)
  ELSE Statement("insert", NextNum(a), t)

(***************************************************************************)
(* IngestPipeline::flush hands over at most one position per aircraft.     *)
(* The appender's rows are committed, then the tracker is advanced in      *)
(* memory and the statements are worked out; an append that fails leaves   *)
(* everything as it was.                                                   *)
(***************************************************************************)
InsertBatch(batch) ==
  /\ open /\ Idle /\ batches < MaxBatches
  /\ Ordered => \A a \in DOMAIN batch : batch[a] >= newest[a]
  /\ positions' = [a \in Aircraft |->
       IF a \in DOMAIN batch THEN [positions[a] EXCEPT ![batch[a]] = @ + 1] ELSE positions[a]]
  /\ tracker' = [a \in Aircraft |->
       IF a \in DOMAIN batch THEN Track(a, batch[a]) ELSE tracker[a]]
  /\ plan' = [a \in Aircraft |->
       IF a \in DOMAIN batch THEN PlanFor(a, batch[a]) ELSE NoStatement]
  /\ newest' = [a \in Aircraft |->
       IF a \in DOMAIN batch /\ batch[a] > newest[a] THEN batch[a] ELSE newest[a]]
  /\ batches' = batches + 1
  /\ UNCHANGED <<open, flights, counted, imports>>

Count(a, t) == counted' = [counted EXCEPT ![a][t] = @ + 1]

\* INSERT INTO flights; a key that exists makes the statement fail.
InsertFlight(a) ==
  /\ plan[a].op = "insert"
  /\ IF \E r \in RowsOf(a, flights) : r.num = plan[a].num
       THEN plan' = NoPlan /\ UNCHANGED <<flights, counted>>
       ELSE /\ flights' = flights \cup {Row(a, plan[a].num, plan[a].at, plan[a].at, 1)}
            /\ Count(a, plan[a].at)
            /\ plan' = [plan EXCEPT ![a] = NoStatement]
  /\ UNCHANGED <<open, positions, tracker, newest, bounds>>

\* Mutant of Greatest: last_seen_ms = ?.
GreatestNewer(l, t) == t

\* GREATEST(last_seen_ms, ?)
Greatest(l, t) == IF l < t THEN t ELSE l

\* UPDATE flights, after all INSERTs; it may match no row.
UpdateFlight(a) ==
  /\ plan[a].op = "update" /\ \A b \in Aircraft : plan[b].op # "insert"
  /\ LET hit == {r \in RowsOf(a, flights) : r.num = plan[a].num}
     IN /\ flights' = (flights \ hit) \cup
             {Row(a, r.num, r.first, Greatest(r.last, plan[a].at), r.count + 1) : r \in hit}
        /\ IF hit = {} THEN UNCHANGED counted ELSE Count(a, plan[a].at)
  /\ plan' = [plan EXCEPT ![a] = NoStatement]
  /\ UNCHANGED <<open, positions, tracker, newest, bounds>>

\* A statement fails: insert_batch returns the error, the rest is not executed,
\* and what it did to the tracker stays.
StatementFails ==
  /\ Fallible /\ ~Idle
  /\ plan' = NoPlan
  /\ UNCHANGED <<open, positions, flights, tracker, newest, counted, bounds>>

-----------------------------------------------------------------------------
(* prune and import_database.                                              *)

Prune(cutoff) ==
  /\ open /\ Idle
  /\ positions' = [a \in Aircraft |->
       [t \in Time |-> IF t < cutoff THEN 0 ELSE positions[a][t]]]
  /\ UNCHANGED <<open, flights, tracker, plan, newest, counted, bounds>>

\* The rows of the file that positions does not have.  The flights table takes
\* no part in it.  When Ordered, what is imported precedes what is received later.
Import(file) ==
  /\ open /\ Idle /\ imports < MaxImports
  /\ positions' = [a \in Aircraft |->
       [t \in Time |-> IF <<a, t>> \in file /\ positions[a][t] = 0 THEN 1 ELSE positions[a][t]]]
  /\ \E n \in [Aircraft -> Time] :
       /\ \A a \in Aircraft :
            /\ n[a] >= newest[a] /\ (n[a] = newest[a] \/ <<a, n[a]>> \in file)
            /\ \A t \in Time : <<a, t>> \in file => t <= n[a]
       /\ newest' = n
  /\ imports' = imports + 1
  /\ UNCHANGED <<open, flights, tracker, plan, counted, batches>>

-----------------------------------------------------------------------------

Batches == UNION {[S -> Time] : S \in (SUBSET Aircraft) \ {{}}}

\* The databases imported: one or two rows (bound).
Files == {{p, q} : p, q \in Aircraft \X Time}

Next ==
  \/ Open \/ Close
  \/ \E batch \in Batches : InsertBatch(batch)
  \/ \E a \in Aircraft : InsertFlight(a)
  \/ \E a \in Aircraft : UpdateFlight(a)
  \/ StatementFails
  \/ \E cutoff \in Time : Prune(cutoff)
  \/ \E file \in Files : Import(file)

Spec == Init /\ [][Next]_vars

-----------------------------------------------------------------------------
(* Properties.                                                             *)

Entry == [num : Nat \cup {-1}, last : Time]

\* The types of the variables; FlightsAreSegments says what count is.
TypeOK ==
  /\ open \in BOOLEAN
  /\ positions \in [Aircraft -> [Time -> Nat]]
  /\ \A r \in flights :
       /\ r.aircraft \in Aircraft /\ r.num \in Nat /\ r.first \in Time /\ r.last \in Time
       /\ r = Row(r.aircraft, r.num, r.first, r.last, r.count)
  /\ tracker \in [Aircraft -> Entry]
  /\ plan \in [Aircraft -> [op : {"none", "insert", "update"}, num : Nat, at : Time]]
  /\ newest \in [Aircraft -> Time]
  /\ counted \in [Aircraft -> [Time -> Nat]]
  /\ batches \in 0..MaxBatches /\ imports \in 0..MaxImports

\* No INSERT of a new flight ever meets its own primary key, whatever crashed,
\* failed, was pruned, imported or received out of order before; so flights has
\* one row per key.
KeysNeverConflict ==
  /\ \A r, s \in flights : r.aircraft = s.aircraft /\ r.num = s.num => r = s
  /\ \A a \in Aircraft : plan[a].op = "insert" => \A r \in RowsOf(a, flights) : r.num < plan[a].num

\* "When a gap exceeds the threshold, a new flight begins" (FlightSummary): any
\* later flight of an aircraft begins more than Gap after each earlier one ended.
FlightsSeparated ==
  \A r, s \in flights : r.aircraft = s.aircraft /\ r.num < s.num => s.first - r.last > Gap

\* What insert_batch builds position by position, over restarts and crashes in
\* the middle of a batch, is what the window query of bootstrap_flights would
\* compute from the positions that were counted; and in the middle of one the
\* flights of an aircraft are still numbered 0, 1, 2, ... without a hole.
FlightsAreSegments ==
  /\ Idle => flights = Segments(counted)
  /\ \A r \in flights : \A k \in 0..(r.num - 1) : \E s \in RowsOf(r.aircraft, flights) : s.num = k

\* Between calls the tracker holds the latest flight of every aircraft ("In-memory
\* index: hex_ident -> latest flight"), so that a restart, which rebuilds it from
\* the table, numbers the next flight as the running process would have.
TrackerNamesLatest ==
  open /\ Idle => \A a \in Aircraft :
    IF RowsOf(a, flights) = {} THEN tracker[a] = NoFlight
    ELSE \E r \in RowsOf(a, flights) :
           r.num = tracker[a].num /\ \A s \in RowsOf(a, flights) : s.num <= r.num

\* A flight never disappears, shrinks or changes its beginning.
FlightsOnlyGrow ==
  [][\A r \in flights : \E s \in flights' :
       /\ s.aircraft = r.aircraft /\ s.num = r.num /\ s.first = r.first
       /\ s.last >= r.last /\ s.count >= r.count]_vars
=============================================================================
