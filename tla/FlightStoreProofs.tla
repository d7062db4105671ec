------------------------- MODULE FlightStoreProofs -------------------------
(***************************************************************************)
(* Proofs about FlightStore, for any set of aircraft, any gap, any bounds  *)
(* and any sequence of crashes, failures, prunes and imports: flights keep *)
(* unique keys and only grow; if timestamps never step back, those of an   *)
(* aircraft are separated by more than the gap; if statements do not fail, *)
(* the tracker names the latest flight; and if neither happens, the        *)
(* flights are what the window query of bootstrap_flights computes from    *)
(* the positions that were counted.                                        *)
(***************************************************************************)
EXTENDS FlightStore, Counting

-----------------------------------------------------------------------------
(* The window query of bootstrap_flights.                                  *)

\* A later flight gets a larger number.
LEMMA FlightNumIncreases ==
  ASSUME NEW T \in SUBSET Time, NEW s \in Starts(T), NEW u \in Starts(T)
  PROVE  /\ FlightNum(T, s) \in Nat
         /\ s < u => FlightNum(T, s) < FlightNum(T, u)
<1> DEFINE Before(x) == {v \in Starts(T) : v < x}
<1>1. IsFiniteSet(Time)
  BY FS_Interval, BoundAssumption DEF Time
<1>2. ASSUME NEW x PROVE IsFiniteSet(Before(x))
  <2>1. Before(x) \in SUBSET Time
    BY DEF Starts
  <2> QED
    BY <1>1, <2>1, FS_Subset
<1>3. \A x : Cardinality(Before(x)) \in Nat
  BY <1>2, FS_CardinalityType
<1>4. ASSUME s < u PROVE Cardinality(Before(s)) < Cardinality(Before(u))
  <2>1. s \in Int /\ u \in Int /\ \A v \in Starts(T) : v \in Int
    BY BoundAssumption DEF Starts, Time
  <2>2. Before(s) \in SUBSET Before(u)
    <3>1. ASSUME NEW v \in Starts(T), v < s PROVE v < u
      BY <1>4, <2>1, <3>1
    <3> QED
      BY <3>1
  <2>3. s \in Before(u) /\ s \notin Before(s)
    BY <1>4, <2>1
  <2>4. Cardinality(Before(s)) <= Cardinality(Before(u))
        /\ Cardinality(Before(s)) # Cardinality(Before(u))
    BY <1>2, <2>2, <2>3, FS_Subset
  <2> QED
    BY <1>3, <2>4
<1> QED
  BY <1>3, <1>4 DEF FlightNum

\* A run is known by its beginning, and runs do not touch.
LEMMA RunsSeparated ==
  ASSUME NEW T \in SUBSET Time, NEW p \in Runs(T), NEW q \in Runs(T)
  PROVE  /\ p[1] = q[1] => p = q
         /\ p[1] < q[1] => q[1] - p[2] > Gap
<1>1. /\ p \in Starts(T) \X Ends(T) /\ q \in Starts(T) \X Ends(T)
      /\ p[1] <= p[2] /\ q[1] <= q[2]
      /\ \A s \in Starts(T) : ~(p[1] < s /\ s <= p[2])
      /\ \A e \in Ends(T) : ~(p[1] <= e /\ e < p[2])
      /\ \A e \in Ends(T) : ~(q[1] <= e /\ e < q[2])
  BY DEF Runs
<1>2. /\ p[1] \in Starts(T) /\ q[1] \in Starts(T) /\ p[2] \in Ends(T) /\ q[2] \in Ends(T)
      /\ p[1] \in Int /\ p[2] \in Int /\ q[1] \in Int /\ q[2] \in Int
      /\ p = <<p[1], p[2]>> /\ q = <<q[1], q[2]>>
  <2>1. /\ p[1] \in Starts(T) /\ q[1] \in Starts(T) /\ p[2] \in Ends(T) /\ q[2] \in Ends(T)
        /\ p = <<p[1], p[2]>> /\ q = <<q[1], q[2]>>
    BY <1>1
  <2>2. \A t \in Time : t \in Int
    BY BoundAssumption DEF Time
  <2>3. Starts(T) \subseteq Time /\ Ends(T) \subseteq Time
    BY DEF Starts, Ends
  <2> QED
    BY <2>1, <2>2, <2>3
<1>3. p[1] = q[1] => p[2] = q[2]
  BY <1>1, <1>2
<1>4. ASSUME p[1] < q[1] PROVE q[1] - p[2] > Gap
  <2>1. p[2] < q[1]
    BY <1>1, <1>2, <1>4
  <2>2. p[2] \in T
    BY <1>2 DEF Ends
  <2> QED
    BY <1>2, <2>1, <2>2 DEF Starts
<1> QED
  BY <1>2, <1>3, <1>4

\* The rows bootstrap_flights inserts.
LEMMA SegmentRows ==
  ASSUME NEW table \in [Aircraft -> [Time -> Nat]], NEW r \in Segments(table)
  PROVE  /\ r.aircraft \in Aircraft /\ r.num \in Nat /\ r.first \in Time /\ r.last \in Time
         /\ r = Row(r.aircraft, r.num, r.first, r.last, r.count)
         /\ r.first <= r.last
         /\ table[r.aircraft][r.last] > 0
         /\ \E p \in Runs(TimesOf(r.aircraft, table)) :
              /\ r.num = FlightNum(TimesOf(r.aircraft, table), p[1])
              /\ r.first = p[1] /\ r.last = p[2]
              /\ r.count = RowCount(r.aircraft, table, p[1], p[2])
<1>0. PICK a \in Aircraft : \E p \in Runs(TimesOf(a, table)) :
        r = Row(a, FlightNum(TimesOf(a, table), p[1]), p[1], p[2],
                RowCount(a, table, p[1], p[2]))
  BY DEF Segments
<1>1. PICK p \in Runs(TimesOf(a, table)) :
        r = Row(a, FlightNum(TimesOf(a, table), p[1]), p[1], p[2],
                RowCount(a, table, p[1], p[2]))
  BY <1>0
<1>2. /\ r.aircraft = a /\ r.num = FlightNum(TimesOf(a, table), p[1])
      /\ r.first = p[1] /\ r.last = p[2]
      /\ r.count = RowCount(a, table, p[1], p[2])
  BY <1>1 DEF Row
<1>3. TimesOf(a, table) \in SUBSET Time
  BY DEF TimesOf
<1>4. p[1] \in Starts(TimesOf(a, table)) /\ p[2] \in Ends(TimesOf(a, table)) /\ p[1] <= p[2]
  BY DEF Runs
<1>5. FlightNum(TimesOf(a, table), p[1]) \in Nat
  BY <1>3, <1>4, FlightNumIncreases
<1>6. p[1] \in Time /\ p[2] \in Time /\ table[a][p[2]] > 0
  BY <1>3, <1>4 DEF Starts, Ends, TimesOf
<1> QED
  BY <1>1, <1>2, <1>4, <1>5, <1>6

\* Their keys are unique and the flights of an aircraft are separated.
LEMMA SegmentsSeparated ==
  ASSUME NEW table \in [Aircraft -> [Time -> Nat]],
         NEW r \in Segments(table), NEW s \in Segments(table), r.aircraft = s.aircraft
  PROVE  /\ r.num = s.num => r = s
         /\ r.num < s.num => s.first - r.last > Gap
<1> DEFINE a == r.aircraft
           T == TimesOf(a, table)
<1>1. T \in SUBSET Time
  BY DEF TimesOf
<1>2. PICK p \in Runs(T) :
        /\ r.num = FlightNum(T, p[1]) /\ r.first = p[1] /\ r.last = p[2]
        /\ r.count = RowCount(a, table, p[1], p[2])
  BY SegmentRows
<1>3. PICK q \in Runs(T) :
        /\ s.num = FlightNum(T, q[1]) /\ s.first = q[1] /\ s.last = q[2]
        /\ s.count = RowCount(a, table, q[1], q[2])
  BY SegmentRows
<1>4. /\ r = Row(a, r.num, r.first, r.last, r.count)
      /\ s = Row(a, s.num, s.first, s.last, s.count)
  BY SegmentRows
<1>5. p[1] \in Starts(T) /\ q[1] \in Starts(T) /\ p[1] \in Int /\ q[1] \in Int
  BY <1>1, BoundAssumption DEF Runs, Starts, Time
<1>6. /\ FlightNum(T, p[1]) \in Nat /\ FlightNum(T, q[1]) \in Nat
      /\ p[1] < q[1] => FlightNum(T, p[1]) < FlightNum(T, q[1])
      /\ q[1] < p[1] => FlightNum(T, q[1]) < FlightNum(T, p[1])
  BY <1>1, <1>5, FlightNumIncreases
<1>7. ASSUME r.num = s.num PROVE r = s
  <2>1. p[1] = q[1]
    BY <1>2, <1>3, <1>5, <1>6, <1>7
  <2>2. p = q
    BY <1>1, <2>1, RunsSeparated
  <2> QED
    BY <1>2, <1>3, <1>4, <2>2
<1>8. ASSUME r.num < s.num PROVE s.first - r.last > Gap
  <2>1. p[1] < q[1]
    BY <1>2, <1>3, <1>5, <1>6, <1>8
  <2>2. q[1] - p[2] > Gap
    BY <1>1, <2>1, RunsSeparated
  <2> QED
    BY <1>2, <1>3, <2>2
<1> QED
  BY <1>7, <1>8

-----------------------------------------------------------------------------
(* The inductive invariant.                                                *)

\* Nothing is pending without an open handle.  An open handle's tracker is never
\* behind the table, and what is pending is about the tracker's entry.
TrackerAhead ==
  /\ ~open => plan = NoPlan
  /\ \A a \in Aircraft : tracker[a].num = -1 => tracker[a] = NoFlight
  /\ open => \A r \in flights :
       tracker[r.aircraft] # NoFlight /\ r.num <= tracker[r.aircraft].num
  /\ \A a \in Aircraft : plan[a].op # "none" =>
       /\ tracker[a] # NoFlight
       /\ plan[a].num = tracker[a].num /\ plan[a].at = tracker[a].last

KeyInv == TypeOK /\ KeysNeverConflict /\ TrackerAhead

LEMMA NothingPlanned ==
  /\ NoPlan \in [Aircraft -> [op : {"none", "insert", "update"}, num : Nat, at : Time]]
  /\ \A a \in Aircraft : NoPlan[a].op = "none"
  /\ NoFlight \in Entry /\ NoFlight.num = -1
  BY BoundAssumption DEF NoPlan, NoStatement, Statement, NoFlight, Active, Entry, Time

LEMMA KeyInvInit == Init => KeyInv
<1> SUFFICES ASSUME Init PROVE KeyInv
  OBVIOUS
<1>1. TypeOK
  <2>1. 0 \in Time /\ 0 \in 0..MaxBatches /\ 0 \in 0..MaxImports
    BY BoundAssumption DEF Time
  <2>2. positions \in [Aircraft -> [Time -> Nat]] /\ counted \in [Aircraft -> [Time -> Nat]]
    BY DEF Init
  <2>3. tracker \in [Aircraft -> Entry]
    BY NothingPlanned DEF Init
  <2> QED
    BY <2>1, <2>2, <2>3, NothingPlanned DEF Init, TypeOK
<1>2. KeysNeverConflict /\ TrackerAhead
  BY NothingPlanned DEF Init, KeysNeverConflict, TrackerAhead, RowsOf
<1> QED
  BY <1>1, <1>2 DEF KeyInv

\* What insert_batch makes of the position of one aircraft.
LEMMA PlanFacts ==
  ASSUME TypeOK, TrackerAhead, NEW a \in Aircraft, NEW t \in Time
  PROVE  /\ Track(a, t) \in Entry /\ Track(a, t).num \in Nat /\ Track(a, t).last = t
         /\ PlanFor(a, t) \in [op : {"none", "insert", "update"}, num : Nat, at : Time]
         /\ PlanFor(a, t).op \in {"insert", "update"}
         /\ PlanFor(a, t).num = Track(a, t).num /\ PlanFor(a, t).at = t
         /\ tracker[a].num <= Track(a, t).num
         /\ PlanFor(a, t).op = "insert" => ~Extends(a, t) /\ tracker[a].num < PlanFor(a, t).num
         /\ Extends(a, t) => Track(a, t).num = tracker[a].num
<1>1. tracker[a] \in Entry /\ (tracker[a] # NoFlight => tracker[a].num \in Nat)
  BY DEF TypeOK, TrackerAhead, Entry
<1>2. tracker[a] = NoFlight => tracker[a].num = -1
  BY NothingPlanned
<1>3. CASE Extends(a, t)
  BY <1>1, <1>3 DEF Extends, Track, PlanFor, Statement, Active, Entry
<1>4. CASE ~Extends(a, t)
  <2>1. NextNum(a) \in Nat /\ tracker[a].num < NextNum(a)
    BY <1>1, <1>2 DEF NextNum
  <2> QED
    BY <1>1, <1>4, <2>1 DEF Track, PlanFor, Statement, Active, Entry
<1> QED
  BY <1>3, <1>4

\* A batch is a partial function to Time.
LEMMA BatchFacts ==
  ASSUME NEW batch \in Batches
  PROVE  \A a \in DOMAIN batch : a \in Aircraft /\ batch[a] \in Time
  BY DEF Batches

LEMMA OpenKeepsKeys ==
  ASSUME KeyInv, Open
  PROVE  KeyInv'
<1> USE DEF KeyInv
<1>1. flights' = flights \/ flights' = Segments(positions)
  BY DEF Open
<1>2. PICK tr \in [Aircraft -> [num : (0..MaxBatches + MaxTime) \cup {-1}, last : Time]] :
        Rebuilt(tr, flights') /\ tracker' = tr
  BY DEF Open
<1>3. \A a \in Aircraft : plan[a].op = "none"
  BY NothingPlanned DEF Open, TrackerAhead
<1>4. positions \in [Aircraft -> [Time -> Nat]]
  BY DEF TypeOK
<1>5. \A r \in flights' :
        /\ r.aircraft \in Aircraft /\ r.num \in Nat /\ r.first \in Time /\ r.last \in Time
        /\ r = Row(r.aircraft, r.num, r.first, r.last, r.count)
  <2>1. CASE flights' = flights
    BY <2>1 DEF TypeOK
  <2>2. CASE flights' = Segments(positions)
    BY <1>4, <2>2, SegmentRows
  <2> QED
    BY <1>1, <2>1, <2>2
<1>6. \A r, s \in flights' : r.aircraft = s.aircraft /\ r.num = s.num => r = s
  <2>1. CASE flights' = flights
    BY <2>1 DEF KeysNeverConflict
  <2>2. CASE flights' = Segments(positions)
    BY <1>4, <2>2, SegmentsSeparated
  <2> QED
    BY <1>1, <2>1, <2>2
<1>7. tracker' \in [Aircraft -> Entry]
  <2>1. 0..MaxBatches + MaxTime \subseteq Nat
    BY BoundAssumption
  <2> QED
    BY <1>2, <2>1 DEF Entry
<1>8. TypeOK'
  BY <1>4, <1>5, <1>7 DEF Open, TypeOK, bounds
<1>9. KeysNeverConflict'
  BY <1>3, <1>6 DEF KeysNeverConflict, Open
<1>10. ASSUME NEW a \in Aircraft
       PROVE  IF RowsOf(a, flights') = {} THEN tracker'[a] = NoFlight
              ELSE \E r \in RowsOf(a, flights') :
                     /\ \A s \in RowsOf(a, flights') : s.num <= r.num
                     /\ tracker'[a] = Active(r.num, r.last)
  BY <1>2 DEF Rebuilt
<1>11. ASSUME NEW a \in Aircraft PROVE tracker'[a].num = -1 => tracker'[a] = NoFlight
  <2>1. CASE RowsOf(a, flights') = {}
    BY <1>10, <2>1
  <2>2. CASE RowsOf(a, flights') # {}
    <3>1. PICK q \in RowsOf(a, flights') : tracker'[a] = Active(q.num, q.last)
      BY <1>10, <2>2
    <3>2. q.num \in Nat /\ tracker'[a].num = q.num
      BY <1>5, <3>1 DEF RowsOf, Active
    <3> QED
      BY <3>2
  <2> QED
    BY <2>1, <2>2
<1>12. ASSUME NEW r \in flights'
       PROVE  tracker'[r.aircraft] # NoFlight /\ r.num <= tracker'[r.aircraft].num
  <2>1. r \in RowsOf(r.aircraft, flights') /\ r.aircraft \in Aircraft
    BY <1>5 DEF RowsOf
  <2>2. PICK q \in RowsOf(r.aircraft, flights') :
          /\ \A s \in RowsOf(r.aircraft, flights') : s.num <= q.num
          /\ tracker'[r.aircraft] = Active(q.num, q.last)
    BY <1>10, <2>1
  <2>3. q.num \in Nat /\ tracker'[r.aircraft].num = q.num
    BY <1>5, <2>2 DEF RowsOf, Active
  <2> QED
    BY <2>1, <2>2, <2>3, NothingPlanned
<1>13. TrackerAhead'
  BY <1>3, <1>11, <1>12 DEF TrackerAhead, Open
<1> QED
  BY <1>8, <1>9, <1>13

LEMMA InsertBatchKeepsKeys ==
  ASSUME KeyInv, NEW batch \in Batches, InsertBatch(batch)
  PROVE  KeyInv'
<1> USE DEF KeyInv
<1>1. \A a \in DOMAIN batch : a \in Aircraft /\ batch[a] \in Time
  BY BatchFacts
<1>2. ASSUME NEW a \in Aircraft
      PROVE  IF a \in DOMAIN batch
               THEN tracker'[a] = Track(a, batch[a]) /\ plan'[a] = PlanFor(a, batch[a])
               ELSE tracker'[a] = tracker[a] /\ plan'[a] = NoStatement
  BY DEF InsertBatch
<1>3. NoStatement \in [op : {"none", "insert", "update"}, num : Nat, at : Time]
      /\ NoStatement.op = "none"
  BY BoundAssumption DEF NoStatement, Statement, Time
<1>4. tracker' \in [Aircraft -> Entry]
  BY <1>1, PlanFacts DEF InsertBatch, TypeOK
<1>5. plan' \in [Aircraft -> [op : {"none", "insert", "update"}, num : Nat, at : Time]]
  BY <1>1, <1>3, PlanFacts DEF InsertBatch
<1>6. positions' \in [Aircraft -> [Time -> Nat]]
  BY <1>1 DEF InsertBatch, TypeOK
<1>7. newest' \in [Aircraft -> Time]
  BY <1>1 DEF InsertBatch, TypeOK
<1>8. TypeOK'
  BY <1>4, <1>5, <1>6, <1>7, BoundAssumption DEF InsertBatch, TypeOK
<1>9. \A r \in flights : r.aircraft \in Aircraft /\ r.num \in Nat
                         /\ tracker[r.aircraft] # NoFlight /\ r.num <= tracker[r.aircraft].num
  BY DEF InsertBatch, TrackerAhead, TypeOK
<1>10. \A a \in Aircraft : tracker[a].num \in Int
  BY DEF TypeOK, Entry
<1>11. KeysNeverConflict'
  <2>1. ASSUME NEW a \in Aircraft, plan'[a].op = "insert", NEW r \in RowsOf(a, flights)
        PROVE  r.num < plan'[a].num
    <3>1. a \in DOMAIN batch /\ plan'[a] = PlanFor(a, batch[a])
      BY <1>2, <1>3, <2>1
    <3>2. tracker[a].num < plan'[a].num /\ plan'[a].num \in Nat
      BY <1>1, <2>1, <3>1, PlanFacts
    <3> QED
      BY <1>9, <1>10, <3>2 DEF RowsOf
  <2> QED
    BY <2>1 DEF KeysNeverConflict, InsertBatch
<1>12. ASSUME NEW a \in Aircraft
       PROVE  /\ tracker'[a].num = -1 => tracker'[a] = NoFlight
              /\ tracker[a] # NoFlight => tracker'[a] # NoFlight
              /\ tracker[a].num <= tracker'[a].num
              /\ tracker'[a].num \in Int
              /\ plan'[a].op # "none" =>
                   /\ tracker'[a] # NoFlight
                   /\ plan'[a].num = tracker'[a].num /\ plan'[a].at = tracker'[a].last
  <2>1. CASE a \in DOMAIN batch
    <3>1. tracker'[a].num \in Nat
      BY <1>1, <1>2, <2>1, PlanFacts
    <3> QED
      BY <1>1, <1>2, <2>1, <3>1, PlanFacts, NothingPlanned
  <2>2. CASE a \notin DOMAIN batch
    BY <1>2, <1>3, <1>10, <2>2 DEF TrackerAhead
  <2> QED
    BY <2>1, <2>2
<1>13. ASSUME NEW r \in flights
       PROVE  tracker'[r.aircraft] # NoFlight /\ r.num <= tracker'[r.aircraft].num
  BY <1>9, <1>10, <1>12
<1>14. TrackerAhead'
  BY <1>12, <1>13 DEF TrackerAhead, InsertBatch
<1> QED
  BY <1>8, <1>11, <1>14

LEMMA InsertFlightKeepsKeys ==
  ASSUME KeyInv, NEW a \in Aircraft, InsertFlight(a)
  PROVE  KeyInv'
<1> USE DEF KeyInv
<1>1. plan[a] \in [op : {"none", "insert", "update"}, num : Nat, at : Time] /\ plan[a].op = "insert"
  BY DEF InsertFlight, TypeOK
<1>2. /\ open
      /\ tracker[a] # NoFlight /\ plan[a].num = tracker[a].num
      /\ \A r \in RowsOf(a, flights) : r.num < plan[a].num
      /\ \A r \in RowsOf(a, flights) : r.num \in Nat
  BY <1>1, NothingPlanned DEF TypeOK, TrackerAhead, KeysNeverConflict, RowsOf
<1>3. ~ \E r \in RowsOf(a, flights) : r.num = plan[a].num
  BY <1>1, <1>2
<1> DEFINE new == Row(a, plan[a].num, plan[a].at, plan[a].at, 1)
<1>4. /\ flights' = flights \cup {new}
      /\ counted' = [counted EXCEPT ![a][plan[a].at] = @ + 1]
      /\ plan' = [plan EXCEPT ![a] = NoStatement]
      /\ UNCHANGED <<open, positions, tracker, newest, batches, imports>>
  BY <1>3 DEF InsertFlight, Count, bounds
<1>5. /\ new.aircraft = a /\ new.num = plan[a].num /\ new.first = plan[a].at
      /\ new.last = plan[a].at
      /\ new = Row(new.aircraft, new.num, new.first, new.last, new.count)
  BY DEF Row
<1>6. NoStatement \in [op : {"none", "insert", "update"}, num : Nat, at : Time]
      /\ NoStatement.op = "none"
  BY BoundAssumption DEF NoStatement, Statement, Time
<1> HIDE DEF new
<1>7. counted' \in [Aircraft -> [Time -> Nat]]
  BY <1>1, <1>4 DEF TypeOK
<1>8. \A r \in flights' :
        /\ r.aircraft \in Aircraft /\ r.num \in Nat /\ r.first \in Time /\ r.last \in Time
        /\ r = Row(r.aircraft, r.num, r.first, r.last, r.count)
  BY <1>1, <1>4, <1>5 DEF TypeOK
<1>9. plan' \in [Aircraft -> [op : {"none", "insert", "update"}, num : Nat, at : Time]]
  BY <1>4, <1>6 DEF TypeOK
<1>10. TypeOK'
  BY <1>4, <1>7, <1>8, <1>9 DEF TypeOK
<1>11. \A r, s \in flights' : r.aircraft = s.aircraft /\ r.num = s.num => r = s
  BY <1>3, <1>4, <1>5 DEF KeysNeverConflict, RowsOf
<1>12. ASSUME NEW b \in Aircraft, plan'[b].op = "insert", NEW r \in RowsOf(b, flights')
       PROVE  r.num < plan'[b].num
  <2>1. b # a /\ plan'[b] = plan[b]
    BY <1>4, <1>6, <1>12 DEF TypeOK
  <2>2. r \in RowsOf(b, flights)
    BY <1>4, <1>5, <1>12, <2>1 DEF RowsOf
  <2> QED
    BY <1>12, <2>1, <2>2 DEF KeysNeverConflict
<1>13. KeysNeverConflict'
  BY <1>11, <1>12 DEF KeysNeverConflict
<1>14. ASSUME NEW r \in flights'
       PROVE  tracker[r.aircraft] # NoFlight /\ r.num <= tracker[r.aircraft].num
  <2>1. CASE r = new
    BY <1>1, <1>2, <1>5, <2>1
  <2>2. CASE r \in flights
    BY <1>2, <2>2 DEF TrackerAhead
  <2> QED
    BY <1>4, <2>1, <2>2
<1>15. TrackerAhead'
  BY <1>2, <1>4, <1>6, <1>14 DEF TrackerAhead, TypeOK
<1> QED
  BY <1>10, <1>13, <1>15

\* What an UPDATE makes of the rows it matches.
LEMMA UpdatedRows ==
  ASSUME KeyInv, NEW a \in Aircraft, UpdateFlight(a), NEW s \in flights'
  PROVE  \E r \in flights :
           /\ s = r \/ s = Row(a, r.num, r.first, Greatest(r.last, plan[a].at), r.count + 1)
           /\ s # r => r.aircraft = a /\ r.num = plan[a].num
           /\ s.aircraft = r.aircraft /\ s.num = r.num /\ s.first = r.first
           /\ s = r \/ (s.last = Greatest(r.last, plan[a].at) /\ s.count = r.count + 1)
<1> DEFINE hit == {r \in RowsOf(a, flights) : r.num = plan[a].num}
<1>1. flights' = (flights \ hit) \cup
        {Row(a, r.num, r.first, Greatest(r.last, plan[a].at), r.count + 1) : r \in hit}
  BY DEF UpdateFlight
<1>2. CASE s \in flights \ hit
  BY <1>2
<1>3. CASE s \in {Row(a, r.num, r.first, Greatest(r.last, plan[a].at), r.count + 1) : r \in hit}
  <2>1. PICK r \in hit : s = Row(a, r.num, r.first, Greatest(r.last, plan[a].at), r.count + 1)
    BY <1>3
  <2>2. r \in flights /\ r.aircraft = a /\ r.num = plan[a].num
    BY DEF RowsOf
  <2>3. /\ s.aircraft = a /\ s.num = r.num /\ s.first = r.first
        /\ s.last = Greatest(r.last, plan[a].at) /\ s.count = r.count + 1
    BY <2>1 DEF Row
  <2> QED
    BY <2>1, <2>2, <2>3
<1> QED
  BY <1>1, <1>2, <1>3

LEMMA UpdateFlightKeepsKeys ==
  ASSUME KeyInv, NEW a \in Aircraft, UpdateFlight(a)
  PROVE  KeyInv'
<1> USE DEF KeyInv
<1>1. plan[a] \in [op : {"none", "insert", "update"}, num : Nat, at : Time] /\ plan[a].op = "update"
  BY DEF UpdateFlight, TypeOK
<1>2. /\ counted' = counted \/ counted' = [counted EXCEPT ![a][plan[a].at] = @ + 1]
      /\ plan' = [plan EXCEPT ![a] = NoStatement]
      /\ UNCHANGED <<open, positions, tracker, newest, batches, imports>>
  BY DEF UpdateFlight, Count, bounds
<1>3. NoStatement \in [op : {"none", "insert", "update"}, num : Nat, at : Time]
      /\ NoStatement.op = "none"
  BY BoundAssumption DEF NoStatement, Statement, Time
<1>4. ASSUME NEW s \in flights'
      PROVE  /\ s.aircraft \in Aircraft /\ s.num \in Nat /\ s.first \in Time /\ s.last \in Time
             /\ s = Row(s.aircraft, s.num, s.first, s.last, s.count)
  <2>1. PICK r \in flights :
           /\ s = r \/ s = Row(a, r.num, r.first, Greatest(r.last, plan[a].at), r.count + 1)
           /\ s.aircraft = r.aircraft /\ s.num = r.num /\ s.first = r.first
           /\ s = r \/ (s.last = Greatest(r.last, plan[a].at) /\ s.count = r.count + 1)
    BY UpdatedRows
  <2>2. /\ r.aircraft \in Aircraft /\ r.num \in Nat /\ r.first \in Time /\ r.last \in Time
        /\ r = Row(r.aircraft, r.num, r.first, r.last, r.count)
    BY DEF TypeOK
  <2>3. Greatest(r.last, plan[a].at) \in Time
    BY <1>1, <2>2 DEF Greatest
  <2> QED
    BY <2>1, <2>2, <2>3 DEF Row
<1>5. counted' \in [Aircraft -> [Time -> Nat]]
  <2>1. CASE counted' = counted
    BY <2>1 DEF TypeOK
  <2>2. CASE counted' = [counted EXCEPT ![a][plan[a].at] = @ + 1]
    BY <1>1, <2>2 DEF TypeOK
  <2> QED
    BY <1>2, <2>1, <2>2
<1>6. plan' \in [Aircraft -> [op : {"none", "insert", "update"}, num : Nat, at : Time]]
  BY <1>2, <1>3 DEF TypeOK
<1>7. TypeOK'
  BY <1>2, <1>4, <1>5, <1>6 DEF TypeOK
<1>8. ASSUME NEW s \in flights', NEW u \in flights', s.aircraft = u.aircraft, s.num = u.num
      PROVE  s = u
  <2> DEFINE hit == {r \in RowsOf(a, flights) : r.num = plan[a].num}
             Up(r) == Row(a, r.num, r.first, Greatest(r.last, plan[a].at), r.count + 1)
  <2>1. flights' = (flights \ hit) \cup {Up(r) : r \in hit}
    BY DEF UpdateFlight
  <2>2. \A r \in hit : Up(r).aircraft = a /\ Up(r).num = plan[a].num
    BY DEF Row
  <2>3. \A r \in flights : r \in hit <=> r.aircraft = a /\ r.num = plan[a].num
    BY DEF RowsOf
  <2>4. \A r, q \in flights : r.aircraft = q.aircraft /\ r.num = q.num => r = q
    BY DEF KeysNeverConflict
  <2>5. \A r \in hit : r \in flights
    BY DEF RowsOf
  <2> HIDE DEF hit, Up
  <2>6. CASE s \in flights \ hit /\ u \in flights \ hit
    BY <1>8, <2>4, <2>6
  <2>7. CASE s \in {Up(r) : r \in hit} /\ u \in {Up(r) : r \in hit}
    <3>1. PICK r \in hit, q \in hit : s = Up(r) /\ u = Up(q)
      BY <2>7
    <3>2. r = q
      BY <2>3, <2>4, <2>5
    <3> QED
      BY <3>1, <3>2
  <2>8. CASE s \in flights \ hit /\ u \in {Up(r) : r \in hit}
    BY <1>8, <2>2, <2>3, <2>8
  <2>9. CASE s \in {Up(r) : r \in hit} /\ u \in flights \ hit
    BY <1>8, <2>2, <2>3, <2>9
  <2> QED
    BY <2>1, <2>6, <2>7, <2>8, <2>9
<1>9. ASSUME NEW b \in Aircraft, plan'[b].op = "insert", NEW s \in RowsOf(b, flights')
      PROVE  s.num < plan'[b].num
  BY <1>2, <1>3, <1>9 DEF UpdateFlight, TypeOK
<1>10. KeysNeverConflict'
  BY <1>8, <1>9 DEF KeysNeverConflict
<1>11. ASSUME open, NEW s \in flights'
       PROVE  tracker[s.aircraft] # NoFlight /\ s.num <= tracker[s.aircraft].num
  <2>1. PICK r \in flights : s.aircraft = r.aircraft /\ s.num = r.num
    BY UpdatedRows
  <2> QED
    BY <1>11, <2>1 DEF TrackerAhead
<1>12. open
  BY <1>1, NothingPlanned DEF TrackerAhead
<1>13. TrackerAhead'
  BY <1>2, <1>3, <1>11, <1>12 DEF TrackerAhead, TypeOK
<1> QED
  BY <1>7, <1>10, <1>13

\* Every step keeps the invariant.
LEMMA KeyInvStep == KeyInv /\ [Next]_vars => KeyInv'
<1> SUFFICES ASSUME KeyInv, [Next]_vars PROVE KeyInv'
  OBVIOUS
<1>1. CASE Open
  BY <1>1, OpenKeepsKeys
<1>2. CASE Close
  <2>1. TypeOK'
    BY <1>2, NothingPlanned DEF KeyInv, Close, TypeOK, bounds
  <2>2. KeysNeverConflict' /\ TrackerAhead'
    BY <1>2, NothingPlanned DEF KeyInv, Close, KeysNeverConflict, TrackerAhead
  <2> QED
    BY <2>1, <2>2 DEF KeyInv
<1>3. CASE \E batch \in Batches : InsertBatch(batch)
  BY <1>3, InsertBatchKeepsKeys
<1>4. CASE \E a \in Aircraft : InsertFlight(a)
  BY <1>4, InsertFlightKeepsKeys
<1>5. CASE \E a \in Aircraft : UpdateFlight(a)
  BY <1>5, UpdateFlightKeepsKeys
<1>6. CASE StatementFails
  <2>1. TypeOK'
    BY <1>6, NothingPlanned DEF KeyInv, StatementFails, TypeOK, bounds
  <2>2. KeysNeverConflict' /\ TrackerAhead'
    BY <1>6, NothingPlanned DEF KeyInv, StatementFails, KeysNeverConflict, TrackerAhead
  <2> QED
    BY <2>1, <2>2 DEF KeyInv
<1>7. CASE \E cutoff \in Time : Prune(cutoff)
  <2>1. PICK cutoff \in Time : Prune(cutoff)
    BY <1>7
  <2>2. positions' \in [Aircraft -> [Time -> Nat]]
    BY <2>1 DEF Prune, KeyInv, TypeOK
  <2>3. TypeOK'
    BY <2>1, <2>2 DEF KeyInv, Prune, TypeOK, bounds
  <2>4. KeysNeverConflict' /\ TrackerAhead'
    BY <2>1 DEF KeyInv, Prune, KeysNeverConflict, TrackerAhead
  <2> QED
    BY <2>3, <2>4 DEF KeyInv
<1>8. CASE \E file \in Files : Import(file)
  <2>1. PICK file \in Files : Import(file)
    BY <1>8
  <2>2. positions' \in [Aircraft -> [Time -> Nat]]
    BY <2>1 DEF Import, KeyInv, TypeOK
  <2>3. newest' \in [Aircraft -> Time] /\ imports' \in 0..MaxImports
    BY <2>1, BoundAssumption DEF Import, KeyInv, TypeOK
  <2>4. TypeOK'
    BY <2>1, <2>2, <2>3 DEF KeyInv, Import, TypeOK
  <2>5. KeysNeverConflict' /\ TrackerAhead'
    BY <2>1 DEF KeyInv, Import, KeysNeverConflict, TrackerAhead
  <2> QED
    BY <2>4, <2>5 DEF KeyInv
<1>9. CASE UNCHANGED vars
  BY <1>9 DEF vars, bounds, KeyInv, TypeOK, KeysNeverConflict, TrackerAhead
<1> QED
  BY <1>1, <1>2, <1>3, <1>4, <1>5, <1>6, <1>7, <1>8, <1>9 DEF Next

LEMMA KeyInvKept == Spec => []KeyInv
  BY KeyInvInit, KeyInvStep, PTL DEF Spec

-----------------------------------------------------------------------------
(* Theorems.                                                               *)

\* The variables keep their types.
THEOREM FlightTypes == Spec => []TypeOK
<1>1. KeyInv => TypeOK
  BY DEF KeyInv
<1> QED
  BY <1>1, KeyInvKept, PTL

\* No INSERT INTO flights ever conflicts with its primary key.
THEOREM FlightKeys == Spec => []KeysNeverConflict
<1>1. KeyInv => KeysNeverConflict
  BY DEF KeyInv
<1> QED
  BY <1>1, KeyInvKept, PTL

-----------------------------------------------------------------------------
(* Separation: nothing stored is newer than newest, no flight is newer than *)
(* the tracker's entry, and a pending INSERT is far from all earlier rows.  *)

SeparationInv ==
  /\ \A a \in Aircraft, t \in Time : positions[a][t] > 0 => t <= newest[a]
  /\ \A r \in flights : r.first <= r.last /\ r.last <= newest[r.aircraft]
  /\ \A a \in Aircraft : tracker[a].last <= newest[a]
  /\ open => \A r \in flights : r.last <= tracker[r.aircraft].last
  /\ FlightsSeparated
  /\ \A a \in Aircraft : plan[a].op = "insert" =>
       \A r \in RowsOf(a, flights) : plan[a].at - r.last > Gap

LEMMA SeparationInit == Init => SeparationInv
<1> SUFFICES ASSUME Init PROVE SeparationInv
  OBVIOUS
<1>1. \A a \in Aircraft : tracker[a].last = 0 /\ newest[a] = 0 /\ plan[a].op = "none"
  BY NothingPlanned DEF Init, NoFlight, Active
<1>2. \A a \in Aircraft, t \in Time : positions[a][t] = 0
  BY DEF Init
<1> QED
  BY <1>1, <1>2 DEF Init, SeparationInv, FlightsSeparated, RowsOf

LEMMA OpenKeepsSeparation ==
  ASSUME KeyInv, KeyInv', SeparationInv, Open
  PROVE  SeparationInv'
<1> USE DEF KeyInv
<1>1. flights' = flights \/ flights' = Segments(positions)
  BY DEF Open
<1>2. positions \in [Aircraft -> [Time -> Nat]] /\ newest \in [Aircraft -> Time]
  BY DEF TypeOK
<1>3. \A r \in flights' : r.first <= r.last /\ r.last <= newest[r.aircraft]
  <2>1. CASE flights' = flights
    BY <2>1 DEF SeparationInv
  <2>2. CASE flights' = Segments(positions)
    BY <1>2, <2>2, SegmentRows DEF SeparationInv
  <2> QED
    BY <1>1, <2>1, <2>2
<1>4. \A r, s \in flights' : r.aircraft = s.aircraft /\ r.num < s.num => s.first - r.last > Gap
  <2>1. CASE flights' = flights
    BY <2>1 DEF SeparationInv, FlightsSeparated
  <2>2. CASE flights' = Segments(positions)
    BY <1>2, <2>2, SegmentsSeparated
  <2> QED
    BY <1>1, <2>1, <2>2
<1>5. ASSUME NEW a \in Aircraft
      PROVE  IF RowsOf(a, flights') = {} THEN tracker'[a] = NoFlight
             ELSE \E r \in RowsOf(a, flights') :
                    /\ \A s \in RowsOf(a, flights') : s.num <= r.num
                    /\ tracker'[a] = Active(r.num, r.last)
  BY DEF Open, Rebuilt
<1>6. \A t \in Time : t \in Nat
  BY BoundAssumption DEF Time
<1>7. \A r \in flights' : r.aircraft \in Aircraft /\ r.num \in Nat /\ r.first \in Nat /\ r.last \in Nat
  BY <1>6 DEF TypeOK
<1>8. ASSUME NEW a \in Aircraft PROVE tracker'[a].last <= newest[a]
  <2>1. CASE RowsOf(a, flights') = {}
    BY <1>2, <1>5, <1>6, <2>1 DEF NoFlight, Active
  <2>2. CASE RowsOf(a, flights') # {}
    <3>1. PICK q \in RowsOf(a, flights') : tracker'[a] = Active(q.num, q.last)
      BY <1>5, <2>2
    <3> QED
      BY <1>3, <3>1 DEF RowsOf, Active
  <2> QED
    BY <2>1, <2>2
<1>9. ASSUME NEW r \in flights' PROVE r.last <= tracker'[r.aircraft].last
  <2>1. r \in RowsOf(r.aircraft, flights') /\ r.aircraft \in Aircraft
    BY <1>7 DEF RowsOf
  <2>2. PICK q \in RowsOf(r.aircraft, flights') :
          /\ r.num <= q.num
          /\ tracker'[r.aircraft] = Active(q.num, q.last)
    BY <1>5, <2>1
  <2>3. q \in flights' /\ q.aircraft = r.aircraft /\ tracker'[r.aircraft].last = q.last
    BY <2>2 DEF RowsOf, Active
  <2>4. CASE r.num = q.num
    <3>1. r = q
      BY <2>3, <2>4 DEF KeysNeverConflict
    <3> QED
      BY <1>7, <2>3, <3>1
  <2>5. CASE r.num # q.num
    <3>1. q.first - r.last > Gap /\ q.first <= q.last
      BY <1>3, <1>4, <1>7, <2>2, <2>3, <2>5
    <3> QED
      BY <1>7, <2>3, <3>1, GapAssumption
  <2> QED
    BY <2>4, <2>5
<1>10. \A a \in Aircraft : plan'[a].op = "none"
  BY NothingPlanned DEF Open, TrackerAhead
<1> QED
  BY <1>3, <1>4, <1>8, <1>9, <1>10 DEF SeparationInv, FlightsSeparated, Open

LEMMA InsertBatchKeepsSeparation ==
  ASSUME Ordered, KeyInv, SeparationInv, NEW batch \in Batches, InsertBatch(batch)
  PROVE  SeparationInv'
<1> USE DEF KeyInv
<1>1. \A a \in DOMAIN batch : a \in Aircraft /\ batch[a] \in Time /\ batch[a] >= newest[a]
  BY BatchFacts DEF InsertBatch
<1>2. ASSUME NEW a \in Aircraft
      PROVE  /\ a \in DOMAIN batch =>
                  /\ tracker'[a] = Track(a, batch[a]) /\ plan'[a] = PlanFor(a, batch[a])
                  /\ positions'[a] = [positions[a] EXCEPT ![batch[a]] = @ + 1]
             /\ a \notin DOMAIN batch =>
                  /\ tracker'[a] = tracker[a] /\ plan'[a] = NoStatement
                  /\ positions'[a] = positions[a]
  BY DEF InsertBatch
<1>3. \A t \in Time : t \in Nat
  BY BoundAssumption DEF Time
<1>4. ASSUME NEW a \in Aircraft
      PROVE  /\ newest[a] \in Nat /\ newest'[a] \in Nat /\ newest[a] <= newest'[a]
             /\ a \in DOMAIN batch => newest'[a] = batch[a]
             /\ tracker[a].last \in Nat /\ tracker[a].last <= newest[a]
  <2>1. newest[a] \in Nat /\ tracker[a].last \in Nat /\ tracker[a].last <= newest[a]
    BY <1>3 DEF TypeOK, Entry, SeparationInv
  <2>2. newest'[a] = IF a \in DOMAIN batch /\ batch[a] > newest[a] THEN batch[a] ELSE newest[a]
    BY DEF InsertBatch
  <2>3. CASE a \in DOMAIN batch
    <3>1. batch[a] \in Nat /\ batch[a] >= newest[a]
      BY <1>1, <1>3, <2>3
    <3> QED
      BY <2>1, <2>2, <2>3, <3>1
  <2>4. CASE a \notin DOMAIN batch
    BY <2>1, <2>2, <2>4
  <2> QED
    BY <2>3, <2>4
<1>5. \A r \in flights :
        /\ r.aircraft \in Aircraft /\ r.last \in Nat /\ r.first <= r.last
        /\ r.last <= newest[r.aircraft] /\ r.last <= tracker[r.aircraft].last
        /\ tracker[r.aircraft] # NoFlight
  BY <1>3 DEF TypeOK, SeparationInv, InsertBatch, TrackerAhead
<1>6. ASSUME NEW a \in Aircraft, NEW t \in Time, positions'[a][t] > 0
      PROVE  t <= newest'[a]
  <2>1. CASE a \in DOMAIN batch /\ t = batch[a]
    BY <1>3, <1>4, <2>1
  <2>2. CASE ~(a \in DOMAIN batch /\ t = batch[a])
    <3>1. positions'[a][t] = positions[a][t]
      <4>1. CASE a \notin DOMAIN batch
        BY <1>2, <4>1
      <4>2. CASE a \in DOMAIN batch
        <5>1. positions'[a] = [positions[a] EXCEPT ![batch[a]] = @ + 1] /\ t # batch[a]
          BY <1>2, <2>2, <4>2
        <5>2. positions[a] \in [Time -> Nat]
          BY DEF TypeOK
        <5> QED
          BY <5>1, <5>2
      <4> QED
        BY <4>1, <4>2
    <3>2. t <= newest[a]
      BY <1>6, <3>1 DEF SeparationInv
    <3> QED
      BY <1>3, <1>4, <3>2
  <2> QED
    BY <2>1, <2>2
<1>7. ASSUME NEW a \in Aircraft
      PROVE  tracker[a].last <= tracker'[a].last /\ tracker'[a].last <= newest'[a]
             /\ tracker'[a].last \in Nat
  <2>1. CASE a \in DOMAIN batch
    <3>0. tracker'[a] = Track(a, batch[a]) /\ batch[a] \in Time /\ batch[a] >= newest[a]
      BY <1>1, <1>2, <2>1
    <3>1. tracker'[a].last = batch[a] /\ batch[a] \in Nat /\ batch[a] >= newest[a]
      BY <1>3, <3>0, PlanFacts
    <3> QED
      BY <1>4, <2>1, <3>1
  <2>2. CASE a \notin DOMAIN batch
    <3>1. tracker'[a] = tracker[a]
      BY <1>2, <2>2
    <3>2. newest[a] <= newest'[a] /\ newest[a] \in Nat /\ newest'[a] \in Nat
          /\ tracker[a].last \in Nat /\ tracker[a].last <= newest[a]
      BY <1>4
    <3> QED
      BY <3>1, <3>2
  <2> QED
    BY <2>1, <2>2
<1>8. ASSUME NEW a \in Aircraft, plan'[a].op = "insert", NEW r \in RowsOf(a, flights)
      PROVE  plan'[a].at - r.last > Gap
  <2>1. a \in DOMAIN batch
    <3>1. NoStatement.op # "insert"
      BY DEF NoStatement, Statement
    <3> QED
      BY <1>2, <1>8, <3>1
  <2>2. plan'[a].at = batch[a] /\ batch[a] \in Nat /\ ~Extends(a, batch[a])
    <3>1. plan'[a] = PlanFor(a, batch[a]) /\ batch[a] \in Time
      BY <1>1, <1>2, <2>1
    <3> QED
      BY <1>3, <1>8, <3>1, PlanFacts
  <2>3. r \in flights /\ r.aircraft = a
    BY DEF RowsOf
  <2>4. ~(batch[a] - tracker[a].last <= Gap)
    BY <1>5, <2>2, <2>3 DEF Extends
  <2> QED
    BY <1>4, <1>5, <2>2, <2>3, <2>4, GapAssumption
<1>9. ASSUME NEW r \in flights
      PROVE  r.last <= newest'[r.aircraft] /\ r.last <= tracker'[r.aircraft].last
  BY <1>4, <1>5, <1>7
<1> QED
  BY <1>5, <1>6, <1>7, <1>8, <1>9 DEF SeparationInv, FlightsSeparated, InsertBatch

LEMMA InsertFlightKeepsSeparation ==
  ASSUME KeyInv, SeparationInv, NEW a \in Aircraft, InsertFlight(a)
  PROVE  SeparationInv'
<1> USE DEF KeyInv
<1>1. plan[a] \in [op : {"none", "insert", "update"}, num : Nat, at : Time] /\ plan[a].op = "insert"
  BY DEF InsertFlight, TypeOK
<1>2. /\ open
      /\ tracker[a].num = plan[a].num /\ tracker[a].last = plan[a].at
      /\ tracker[a].last <= newest[a]
      /\ \A r \in RowsOf(a, flights) : r.num < plan[a].num /\ r.num \in Nat
      /\ \A r \in RowsOf(a, flights) : plan[a].at - r.last > Gap
  BY <1>1, NothingPlanned DEF TypeOK, TrackerAhead, KeysNeverConflict, RowsOf, SeparationInv
<1>3. ~ \E r \in RowsOf(a, flights) : r.num = plan[a].num
  BY <1>1, <1>2
<1> DEFINE new == Row(a, plan[a].num, plan[a].at, plan[a].at, 1)
<1>4. /\ flights' = flights \cup {new}
      /\ plan' = [plan EXCEPT ![a] = NoStatement]
      /\ UNCHANGED <<open, positions, tracker, newest>>
  BY <1>3 DEF InsertFlight
<1>5. new.aircraft = a /\ new.num = plan[a].num /\ new.first = plan[a].at /\ new.last = plan[a].at
  BY DEF Row
<1>6. plan[a].at \in Int /\ plan[a].num \in Int
  BY <1>1, BoundAssumption DEF Time
<1>7. NoStatement.op = "none"
  BY DEF NoStatement, Statement
<1> HIDE DEF new
<1>8. \A r \in flights' : r.first <= r.last /\ r.last <= newest[r.aircraft]
                         /\ r.last <= tracker[r.aircraft].last
  BY <1>2, <1>4, <1>5, <1>6 DEF SeparationInv
<1>9. ASSUME NEW r \in flights', NEW s \in flights', r.aircraft = s.aircraft, r.num < s.num
      PROVE  s.first - r.last > Gap
  <2>1. CASE r \in flights /\ s \in flights
    BY <1>9, <2>1 DEF SeparationInv, FlightsSeparated
  <2>2. CASE r \in flights /\ s = new
    BY <1>2, <1>5, <1>9, <2>2 DEF RowsOf
  <2>3. CASE r = new
    <3>1. CASE s = new
      BY <1>6, <1>5, <1>9, <2>3, <3>1
    <3>2. CASE s \in flights
      BY <1>2, <1>5, <1>6, <1>9, <2>3, <3>2 DEF RowsOf
    <3> QED
      BY <1>4, <3>1, <3>2
  <2> QED
    BY <1>4, <2>1, <2>2, <2>3
<1>10. ASSUME NEW b \in Aircraft, plan'[b].op = "insert", NEW r \in RowsOf(b, flights')
       PROVE  plan'[b].at - r.last > Gap
  <2>1. b # a /\ plan'[b] = plan[b]
    BY <1>4, <1>7, <1>10 DEF TypeOK
  <2>2. r \in RowsOf(b, flights)
    BY <1>4, <1>5, <1>10, <2>1 DEF RowsOf
  <2> QED
    BY <1>10, <2>1, <2>2 DEF SeparationInv
<1> QED
  BY <1>4, <1>8, <1>9, <1>10 DEF SeparationInv, FlightsSeparated

LEMMA UpdateFlightKeepsSeparation ==
  ASSUME KeyInv, SeparationInv, NEW a \in Aircraft, UpdateFlight(a)
  PROVE  SeparationInv'
<1> USE DEF KeyInv
<1>1. plan[a] \in [op : {"none", "insert", "update"}, num : Nat, at : Time] /\ plan[a].op = "update"
  BY DEF UpdateFlight, TypeOK
<1>2. /\ plan' = [plan EXCEPT ![a] = NoStatement]
      /\ UNCHANGED <<open, positions, tracker, newest>>
  BY DEF UpdateFlight
<1>3. /\ open
      /\ plan[a].num = tracker[a].num /\ plan[a].at = tracker[a].last
      /\ tracker[a].last <= newest[a]
  BY <1>1, NothingPlanned DEF TrackerAhead, SeparationInv
<1>4. \A t \in Time : t \in Int
  BY BoundAssumption DEF Time
<1>5. \A r \in flights :
        /\ r.num \in Int /\ r.first \in Int /\ r.last \in Int
        /\ r.first <= r.last /\ r.last <= newest[r.aircraft]
        /\ r.last <= tracker[r.aircraft].last /\ r.num <= tracker[r.aircraft].num
  BY <1>3, <1>4 DEF TypeOK, SeparationInv, TrackerAhead
<1>6. plan[a].at \in Int /\ plan[a].num \in Int
  BY <1>1, <1>4
<1>7. ASSUME NEW s \in flights'
      PROVE  \E r \in flights :
               /\ s.aircraft = r.aircraft /\ s.num = r.num /\ s.first = r.first
               /\ r.last <= s.last /\ s.last \in Int
               /\ s.last = r.last \/ (s.aircraft = a /\ s.num = plan[a].num)
               /\ s.last <= newest[s.aircraft] /\ s.last <= tracker[s.aircraft].last
  <2>1. PICK r \in flights :
           /\ s # r => r.aircraft = a /\ r.num = plan[a].num
           /\ s.aircraft = r.aircraft /\ s.num = r.num /\ s.first = r.first
           /\ s = r \/ (s.last = Greatest(r.last, plan[a].at) /\ s.count = r.count + 1)
    BY UpdatedRows
  <2>2. CASE s = r
    BY <1>5, <2>1, <2>2
  <2>3. CASE s # r
    <3>1. r.aircraft = a /\ r.num = plan[a].num /\ s.last = Greatest(r.last, plan[a].at)
      BY <2>1, <2>3
    <3>2. s.last = plan[a].at
      BY <1>3, <1>5, <1>6, <3>1 DEF Greatest
    <3> QED
      BY <1>3, <1>5, <1>6, <2>1, <3>1, <3>2
  <2> QED
    BY <2>2, <2>3
<1>8. ASSUME NEW r \in flights', NEW s \in flights', r.aircraft = s.aircraft, r.num < s.num
      PROVE  s.first - r.last > Gap
  <2>1. PICK q \in flights :
          /\ r.aircraft = q.aircraft /\ r.num = q.num
          /\ r.last = q.last \/ (r.aircraft = a /\ r.num = plan[a].num)
    BY <1>7
  <2>2. PICK u \in flights : s.aircraft = u.aircraft /\ s.num = u.num /\ s.first = u.first
    BY <1>7
  <2>3. u.num <= tracker[u.aircraft].num
    BY <1>5
  <2>4. r.last = q.last
    <3>1. SUFFICES ASSUME r.aircraft = a, r.num = plan[a].num PROVE FALSE
      BY <2>1
    <3>2. u.num <= plan[a].num /\ u.num = s.num
      BY <1>3, <1>8, <2>2, <2>3, <3>1
    <3>3. u.num \in Int
      BY <1>5
    <3> QED
      BY <1>6, <1>8, <3>1, <3>2, <3>3
  <2> QED
    BY <1>8, <2>1, <2>2, <2>4 DEF SeparationInv, FlightsSeparated
<1>9. \A r \in flights' : r.first <= r.last /\ r.last <= newest[r.aircraft]
                         /\ r.last <= tracker[r.aircraft].last
  BY <1>5, <1>7
<1>10. \A b \in Aircraft : plan'[b].op # "insert"
  BY <1>2 DEF UpdateFlight, TypeOK, NoStatement, Statement
<1> QED
  BY <1>2, <1>8, <1>9, <1>10 DEF SeparationInv, FlightsSeparated

LEMMA SeparationStep ==
  ASSUME Ordered
  PROVE  KeyInv /\ KeyInv' /\ SeparationInv /\ [Next]_vars => SeparationInv'
<1> SUFFICES ASSUME KeyInv, KeyInv', SeparationInv, [Next]_vars PROVE SeparationInv'
  OBVIOUS
<1>1. CASE Open
  BY <1>1, OpenKeepsSeparation
<1>2. CASE Close
  <2>1. \A a \in Aircraft : tracker'[a].last = 0 /\ newest[a] \in Nat
    BY <1>2, BoundAssumption DEF Close, NoFlight, Active, KeyInv, TypeOK, Time
  <2> QED
    BY <1>2, <2>1, NothingPlanned DEF Close, SeparationInv, FlightsSeparated
<1>3. CASE \E batch \in Batches : InsertBatch(batch)
  BY <1>3, InsertBatchKeepsSeparation
<1>4. CASE \E a \in Aircraft : InsertFlight(a)
  BY <1>4, InsertFlightKeepsSeparation
<1>5. CASE \E a \in Aircraft : UpdateFlight(a)
  BY <1>5, UpdateFlightKeepsSeparation
<1>6. CASE StatementFails
  BY <1>6, NothingPlanned DEF StatementFails, SeparationInv, FlightsSeparated
<1>7. CASE \E cutoff \in Time : Prune(cutoff)
  <2>1. PICK cutoff \in Time : Prune(cutoff)
    BY <1>7
  <2>2. \A a \in Aircraft, t \in Time : positions'[a][t] > 0 => t <= newest'[a]
    BY <2>1 DEF Prune, SeparationInv
  <2> QED
    BY <2>1, <2>2 DEF Prune, SeparationInv, FlightsSeparated
<1>8. CASE \E file \in Files : Import(file)
  <2>1. PICK file \in Files : Import(file)
    BY <1>8
  <2>2. \A a \in Aircraft :
          /\ newest[a] \in Nat /\ newest'[a] \in Nat /\ newest[a] <= newest'[a]
          /\ \A t \in Time : <<a, t>> \in file => t <= newest'[a]
    <3>1. PICK n \in [Aircraft -> Time] :
            /\ \A a \in Aircraft :
                 n[a] >= newest[a] /\ \A t \in Time : <<a, t>> \in file => t <= n[a]
            /\ newest' = n
      BY <2>1 DEF Import
    <3>2. \A t \in Time : t \in Nat
      BY BoundAssumption DEF Time
    <3>3. newest \in [Aircraft -> Time]
      BY DEF KeyInv, TypeOK
    <3>4. ASSUME NEW a \in Aircraft
          PROVE  newest[a] \in Nat /\ newest'[a] \in Nat /\ newest[a] <= newest'[a]
      BY <3>1, <3>2, <3>3
    <3> QED
      BY <3>1, <3>4
  <2>3. ASSUME NEW a \in Aircraft, NEW t \in Time, positions'[a][t] > 0
        PROVE  t <= newest'[a]
    <3>1. <<a, t>> \in file \/ positions[a][t] > 0
      BY <2>1, <2>3 DEF Import
    <3> QED
      BY <2>2, <3>1, BoundAssumption DEF SeparationInv, Time
  <2>4. \A r \in flights : r.aircraft \in Aircraft /\ r.last \in Nat
    BY BoundAssumption DEF KeyInv, TypeOK, Time
  <2>5. \A a \in Aircraft : tracker[a].last \in Nat
    BY BoundAssumption DEF KeyInv, TypeOK, Entry, Time
  <2>6. \A r \in flights : r.last <= newest'[r.aircraft]
    BY <2>2, <2>4 DEF SeparationInv
  <2>7. \A a \in Aircraft : tracker[a].last <= newest'[a]
    BY <2>2, <2>5 DEF SeparationInv
  <2> QED
    BY <2>1, <2>3, <2>6, <2>7 DEF Import, SeparationInv, FlightsSeparated
<1>9. CASE UNCHANGED vars
  BY <1>9 DEF vars, SeparationInv, FlightsSeparated
<1> QED
  BY <1>1, <1>2, <1>3, <1>4, <1>5, <1>6, <1>7, <1>8, <1>9 DEF Next

\* If the timestamps of an aircraft never step back, its flights are more than
\* Gap apart, whatever crashes, failures, prunes and imports there were.
THEOREM FlightsApart == ASSUME Ordered PROVE Spec => []FlightsSeparated
<1>1. KeyInv /\ KeyInv' /\ SeparationInv /\ [Next]_vars => SeparationInv'
  BY SeparationStep
<1>2. SeparationInv => FlightsSeparated
  BY DEF SeparationInv
<1> QED
  BY <1>1, <1>2, SeparationInit, KeyInvKept, PTL DEF Spec

-----------------------------------------------------------------------------

\* Every tracker entry has its row, in the table or about to be inserted.
TrackerBacked ==
  open => \A a \in Aircraft :
    \/ tracker[a] = NoFlight
    \/ plan[a].op = "insert"
    \/ \E r \in RowsOf(a, flights) : r.num = tracker[a].num

LEMMA TrackerBackedStep ==
  ASSUME ~Fallible
  PROVE  KeyInv /\ KeyInv' /\ TrackerBacked /\ [Next]_vars => TrackerBacked'
<1> SUFFICES ASSUME KeyInv, KeyInv', TrackerBacked, [Next]_vars, open', NEW b \in Aircraft
             PROVE  \/ tracker'[b] = NoFlight
                    \/ plan'[b].op = "insert"
                    \/ \E r \in RowsOf(b, flights') : r.num = tracker'[b].num
  BY DEF TrackerBacked
<1>1. CASE Open
  <2>1. IF RowsOf(b, flights') = {} THEN tracker'[b] = NoFlight
        ELSE \E r \in RowsOf(b, flights') :
               /\ \A s \in RowsOf(b, flights') : s.num <= r.num
               /\ tracker'[b] = Active(r.num, r.last)
    BY <1>1 DEF Open, Rebuilt
  <2>2. CASE RowsOf(b, flights') = {}
    BY <2>1, <2>2
  <2>3. CASE RowsOf(b, flights') # {}
    <3>1. PICK r \in RowsOf(b, flights') : tracker'[b] = Active(r.num, r.last)
      BY <2>1, <2>3
    <3>2. tracker'[b].num = r.num
      BY <3>1 DEF Active
    <3> QED
      BY <3>2
  <2> QED
    BY <2>2, <2>3
<1>2. CASE Close
  BY <1>2 DEF Close
<1>3. CASE \E batch \in Batches : InsertBatch(batch)
  <2>1. PICK batch \in Batches : InsertBatch(batch)
    BY <1>3
  <2>2. CASE b \in DOMAIN batch
    <3>1. batch[b] \in Time /\ tracker'[b] = Track(b, batch[b]) /\ plan'[b] = PlanFor(b, batch[b])
      BY <2>1, <2>2, BatchFacts DEF InsertBatch
    <3>2. CASE Extends(b, batch[b])
      <4>1. tracker[b] # NoFlight /\ tracker'[b].num = tracker[b].num
        BY <3>1, <3>2, PlanFacts DEF Extends, KeyInv
      <4>2. plan[b].op # "insert" /\ flights' = flights /\ open
        BY <2>1, NothingPlanned DEF InsertBatch, Idle
      <4> QED
        BY <4>1, <4>2 DEF TrackerBacked
    <3>3. CASE ~Extends(b, batch[b])
      BY <3>1, <3>3 DEF PlanFor, Statement
    <3> QED
      BY <3>2, <3>3
  <2>3. CASE b \notin DOMAIN batch
    <3>1. tracker'[b] = tracker[b] /\ plan[b].op # "insert" /\ flights' = flights /\ open
      BY <2>1, <2>3, NothingPlanned DEF InsertBatch, Idle
    <3> QED
      BY <3>1 DEF TrackerBacked
  <2> QED
    BY <2>2, <2>3
<1>4. CASE \E a \in Aircraft : InsertFlight(a)
  <2>1. PICK a \in Aircraft : InsertFlight(a)
    BY <1>4
  <2>2. plan[a].op = "insert" /\ plan[a].num \in Nat /\ open /\ plan[a].num = tracker[a].num
        /\ \A r \in RowsOf(a, flights) : r.num < plan[a].num /\ r.num \in Nat
    BY <2>1, NothingPlanned
       DEF InsertFlight, KeyInv, TypeOK, TrackerAhead, KeysNeverConflict, RowsOf
  <2>3. /\ flights' = flights \cup {Row(a, plan[a].num, plan[a].at, plan[a].at, 1)}
        /\ plan' = [plan EXCEPT ![a] = NoStatement]
        /\ tracker' = tracker
    <3>1. ~ \E r \in RowsOf(a, flights) : r.num = plan[a].num
      BY <2>2
    <3> QED
      BY <2>1, <3>1 DEF InsertFlight
  <2>4. CASE b = a
    <3> DEFINE new == Row(a, plan[a].num, plan[a].at, plan[a].at, 1)
    <3>1. new \in flights' /\ new.aircraft = a /\ new.num = plan[a].num
      BY <2>3 DEF Row
    <3> HIDE DEF new
    <3> QED
      BY <2>2, <2>3, <2>4, <3>1 DEF RowsOf
  <2>5. CASE b # a
    <3>1. plan'[b] = plan[b]
      BY <2>3, <2>5 DEF KeyInv, TypeOK
    <3> QED
      BY <2>2, <2>3, <3>1 DEF TrackerBacked, RowsOf
  <2> QED
    BY <2>4, <2>5
<1>5. CASE \E a \in Aircraft : UpdateFlight(a)
  <2>1. PICK a \in Aircraft : UpdateFlight(a)
    BY <1>5
  <2> DEFINE hit == {r \in RowsOf(a, flights) : r.num = plan[a].num}
             Up(r) == Row(a, r.num, r.first, Greatest(r.last, plan[a].at), r.count + 1)
  <2>2. flights' = (flights \ hit) \cup {Up(r) : r \in hit}
    BY <2>1 DEF UpdateFlight
  <2>3. open /\ tracker' = tracker /\ plan[b].op # "insert"
    BY <2>1 DEF UpdateFlight
  <2>4. ASSUME NEW r \in RowsOf(b, flights) PROVE \E s \in RowsOf(b, flights') : s.num = r.num
    <3>1. CASE r \in hit
      <4>1. Up(r) \in flights' /\ a = b
        BY <2>2, <3>1 DEF RowsOf
      <4>2. Up(r).aircraft = a /\ Up(r).num = r.num
        BY DEF Row
      <4> HIDE DEF Up
      <4> QED
        BY <4>1, <4>2 DEF RowsOf
    <3>2. CASE r \notin hit
      BY <2>2, <3>2 DEF RowsOf
    <3> QED
      BY <3>1, <3>2
  <2> HIDE DEF hit, Up
  <2> QED
    BY <2>3, <2>4 DEF TrackerBacked
<1>6. CASE StatementFails
  BY <1>6 DEF StatementFails
<1>7. CASE \E cutoff \in Time : Prune(cutoff)
  BY <1>7 DEF Prune, TrackerBacked
<1>8. CASE \E file \in Files : Import(file)
  BY <1>8 DEF Import, TrackerBacked
<1>9. CASE UNCHANGED vars
  BY <1>9 DEF vars, TrackerBacked
<1> QED
  BY <1>1, <1>2, <1>3, <1>4, <1>5, <1>6, <1>7, <1>8, <1>9 DEF Next

\* If no statement fails in a process that goes on, then between calls the
\* tracker names the latest flight of every aircraft.
THEOREM TrackerLatest == ASSUME ~Fallible PROVE Spec => []TrackerNamesLatest
<1>1. Init => TrackerBacked
  BY DEF Init, TrackerBacked
<1>2. KeyInv /\ KeyInv' /\ TrackerBacked /\ [Next]_vars => TrackerBacked'
  BY TrackerBackedStep
<1>3. ASSUME KeyInv, TrackerBacked PROVE TrackerNamesLatest
  <2>1. SUFFICES ASSUME open, Idle, NEW a \in Aircraft
                 PROVE  IF RowsOf(a, flights) = {} THEN tracker[a] = NoFlight
                        ELSE \E r \in RowsOf(a, flights) :
                               /\ r.num = tracker[a].num
                               /\ \A s \in RowsOf(a, flights) : s.num <= r.num
    BY DEF TrackerNamesLatest
  <2>2. plan[a].op # "insert"
    BY <2>1, NothingPlanned DEF Idle
  <2>3. \A s \in RowsOf(a, flights) : tracker[a] # NoFlight /\ s.num <= tracker[a].num
    BY <1>3, <2>1 DEF KeyInv, TrackerAhead, RowsOf
  <2>4. tracker[a] = NoFlight \/ \E r \in RowsOf(a, flights) : r.num = tracker[a].num
    BY <1>3, <2>1, <2>2 DEF TrackerBacked
  <2> QED
    BY <2>3, <2>4
<1>4. KeyInv /\ TrackerBacked => TrackerNamesLatest
  BY <1>3
<1> QED
  BY <1>1, <1>2, <1>4, KeyInvKept, PTL DEF Spec

-----------------------------------------------------------------------------
(* Counting the positions of a run.                                        *)

\* Times and intervals of times are finite sets of numbers.
LEMMA TimeIsFinite ==
  /\ IsFiniteSet(Time) /\ Time \in SUBSET Nat
  /\ \A f, l \in Time : IsFiniteSet(f..l) /\ f..l \in SUBSET Time
<1>1. IsFiniteSet(Time) /\ Time \in SUBSET Nat
  BY FS_Interval, BoundAssumption DEF Time
<1>2. \A f, l \in Time : f..l \in SUBSET Time
  BY BoundAssumption DEF Time
<1> QED
  BY <1>1, <1>2, FS_Subset

\* COUNT(*) is a number, ...
LEMMA RowCountType ==
  ASSUME NEW table \in [Aircraft -> [Time -> Nat]], NEW a \in Aircraft,
         NEW f \in Time, NEW l \in Time
  PROVE  RowCount(a, table, f, l) \in Nat
<1>1. IsFiniteSet(f..l) /\ f..l \in SUBSET Time
  BY TimeIsFinite
<1>2. [t \in f..l |-> table[a][t]] \in [f..l -> Nat]
  BY <1>1
<1> QED
  BY <1>1, <1>2, SumType DEF RowCount

\* g sums what f sums and one more, at a.
OneMore(S, R, f, g, a) ==
  /\ R \subseteq S /\ IsFiniteSet(S) /\ a \in S
  /\ f \in [R -> Nat] /\ g \in [S -> Nat]
  /\ g[a] = (IF a \in R THEN f[a] ELSE 0) + 1
  /\ \A x \in R : x # a => g[x] = f[x]
  /\ \A x \in S : x \notin R /\ x # a => g[x] = 0

LEMMA SumOneMore ==
  ASSUME NEW S, NEW R, NEW f, NEW g, NEW a, OneMore(S, R, f, g, a)
  PROVE  SumFunction(g) = SumFunction(f) + 1
BY SumExtendAtPoint DEF OneMore

\* ... one more position at time t, with none between l and t, adds one to it, ...
GrowsAt(a, table, new, l, t) ==
  /\ table[a] \in [Time -> Nat]
  /\ new[a] = [table[a] EXCEPT ![t] = @ + 1]
  /\ \A u \in Time : l < u /\ u <= t => table[a][u] = 0

LEMMA RowCountGrows ==
  ASSUME NEW table, NEW new, NEW a,
         NEW f \in Time, NEW l \in Time, NEW t \in Time, f <= l, l <= t,
         GrowsAt(a, table, new, l, t)
  PROVE  RowCount(a, new, f, t) = RowCount(a, table, f, l) + 1
<1> USE DEF GrowsAt
<1>1. /\ IsFiniteSet(f..t) /\ f..t \in SUBSET Time /\ f..l \in SUBSET Time
      /\ f \in Nat /\ l \in Nat /\ t \in Nat
  BY TimeIsFinite
<1>2. PICK T, N : T = table[a] /\ N = new[a]
  OBVIOUS
<1>3. T \in [Time -> Nat] /\ N = [T EXCEPT ![t] = @ + 1]
  BY <1>2
<1>4. \A u \in Time : l < u /\ u <= t => T[u] = 0
  BY <1>2
<1>5. PICK old, more : old = [u \in f..l |-> T[u]] /\ more = [u \in f..t |-> N[u]]
  OBVIOUS
<1>6. old \in [f..l -> Nat] /\ more \in [f..t -> Nat]
  BY <1>1, <1>3, <1>5
<1>7. f..l \subseteq f..t /\ t \in f..t
  BY <1>1
<1>8. /\ more[t] = (IF t \in f..l THEN old[t] ELSE 0) + 1
      /\ \A u \in f..l : u # t => more[u] = old[u]
      /\ \A u \in f..t : u \notin f..l /\ u # t => more[u] = 0
  <2>1. \A u \in f..t : more[u] = N[u] /\ N[u] = IF u = t THEN T[u] + 1 ELSE T[u]
    BY <1>1, <1>3, <1>5
  <2>2. \A u \in f..l : old[u] = T[u]
    BY <1>5
  <2>3. \A u \in f..t : u \notin f..l => T[u] = 0
    BY <1>1, <1>4
  <2> QED
    BY <1>7, <2>1, <2>2, <2>3
<1>9. SumFunction(more) = SumFunction(old) + 1
  <2>1. OneMore(f..t, f..l, old, more, t)
    BY <1>1, <1>6, <1>7, <1>8 DEF OneMore
  <2> QED
    BY <2>1, SumOneMore
<1>10. RowCount(a, table, f, l) = SumFunction(old) /\ RowCount(a, new, f, t) = SumFunction(more)
  BY <1>2, <1>5 DEF RowCount
<1> QED
  BY <1>9, <1>10

\* ... and it is 1 for a single position.
LEMMA RowCountOne ==
  ASSUME NEW table, NEW a, NEW t \in Time, table[a][t] = 1
  PROVE  RowCount(a, table, t, t) = 1
<1> DEFINE none == [u \in t..t |-> 0]
           one == [u \in t..t |-> table[a][u]]
<1>1. t \in Nat /\ t..t = {t} /\ IsFiniteSet({t})
  <2>1. t \in Nat
    BY TimeIsFinite
  <2>2. t..t = {t}
    BY <2>1
  <2> QED
    BY <2>1, <2>2, FS_Singleton
<1>2. none \in [{t} -> Nat] /\ one \in [{t} -> Nat] /\ one[t] = none[t] + 1
      /\ \A u \in {t} : none[u] = 0
  BY <1>1
<1> HIDE DEF none, one
<1>3. SumFunction(none) = 0
  BY <1>1, <1>2, SumZero
<1>4. SumFunction(one) = SumFunction(none) + 1
  BY <1>1, <1>2, SumAtPoint
<1> QED
  BY <1>3, <1>4 DEF RowCount, one

-----------------------------------------------------------------------------
(* Flights only grow.                                                      *)

\* Every row counts a number of positions.
CountsTyped == \A r \in flights : r.count \in Nat

\* A row an update replaced is in the table again, grown.
LEMMA UpdateGrows ==
  ASSUME KeyInv, CountsTyped, NEW a \in Aircraft, UpdateFlight(a), NEW r \in flights
  PROVE  \E s \in flights' :
           /\ s.aircraft = r.aircraft /\ s.num = r.num /\ s.first = r.first
           /\ s.last >= r.last /\ s.count >= r.count
<1> DEFINE hit == {q \in RowsOf(a, flights) : q.num = plan[a].num}
           new == Row(a, r.num, r.first, Greatest(r.last, plan[a].at), r.count + 1)
<1>1. flights' = (flights \ hit) \cup
        {Row(a, q.num, q.first, Greatest(q.last, plan[a].at), q.count + 1) : q \in hit}
  BY DEF UpdateFlight
<1>2. r.count \in Nat /\ r.last \in Nat /\ plan[a].at \in Nat
  BY BoundAssumption DEF KeyInv, TypeOK, CountsTyped, Time
<1>3. CASE r \in hit
  <2>1. new \in flights'
    BY <1>1, <1>3
  <2>2. new.aircraft = r.aircraft /\ new.num = r.num /\ new.first = r.first
        /\ new.last = Greatest(r.last, plan[a].at) /\ new.count = r.count + 1
    BY <1>3 DEF Row, RowsOf
  <2> HIDE DEF new
  <2>3. new.last >= r.last /\ new.count >= r.count
    BY <1>2, <2>2 DEF Greatest
  <2> QED
    BY <2>1, <2>2, <2>3
<1>4. CASE r \notin hit
  <2>1. r \in flights'
    BY <1>1, <1>4
  <2> QED
    BY <1>2, <2>1
<1> QED
  BY <1>3, <1>4

LEMMA RowsStay ==
  ASSUME KeyInv, CountsTyped, [Next]_vars, NEW r \in flights
  PROVE  \E s \in flights' :
           /\ s.aircraft = r.aircraft /\ s.num = r.num /\ s.first = r.first
           /\ s.last >= r.last /\ s.count >= r.count
<1>1. r.count >= r.count /\ r.last >= r.last
  BY BoundAssumption DEF KeyInv, TypeOK, CountsTyped, Time
<1>2. CASE r \in flights'
  BY <1>1, <1>2
<1>3. CASE \E a \in Aircraft : UpdateFlight(a)
  BY <1>3, UpdateGrows
<1>4. CASE Open
  <2>1. ~Bootstraps
    BY DEF Bootstraps
  <2> QED
    BY <1>2, <1>4, <2>1 DEF Open
<1>5. CASE Close
  BY <1>2, <1>5 DEF Close
<1>6. CASE \E batch \in Batches : InsertBatch(batch)
  BY <1>2, <1>6 DEF InsertBatch
<1>7. CASE \E a \in Aircraft : InsertFlight(a)
  BY <1>2, <1>7 DEF InsertFlight
<1>8. CASE StatementFails
  BY <1>2, <1>8 DEF StatementFails
<1>9. CASE \E cutoff \in Time : Prune(cutoff)
  BY <1>2, <1>9 DEF Prune
<1>10. CASE \E file \in Files : Import(file)
  BY <1>2, <1>10 DEF Import
<1>11. CASE UNCHANGED vars
  BY <1>2, <1>11 DEF vars
<1> QED
  BY <1>3, <1>4, <1>5, <1>6, <1>7, <1>8, <1>9, <1>10, <1>11 DEF Next

LEMMA CountsStep ==
  ASSUME KeyInv, CountsTyped, [Next]_vars
  PROVE  CountsTyped'
<1> SUFFICES ASSUME NEW s \in flights' PROVE s.count \in Nat
  BY DEF CountsTyped
<1>1. CASE s \in flights
  BY <1>1 DEF CountsTyped
<1>2. CASE \E a \in Aircraft : UpdateFlight(a)
  <2>1. PICK a \in Aircraft : UpdateFlight(a)
    BY <1>2
  <2>2. PICK r \in flights : s = r \/ s.count = r.count + 1
    BY <2>1, UpdatedRows
  <2> QED
    BY <2>2 DEF CountsTyped
<1>3. CASE \E a \in Aircraft : InsertFlight(a)
  <2>1. PICK a \in Aircraft : InsertFlight(a)
    BY <1>3
  <2>2. s \in flights \/ s = Row(a, plan[a].num, plan[a].at, plan[a].at, 1)
    BY <2>1 DEF InsertFlight
  <2>3. Row(a, plan[a].num, plan[a].at, plan[a].at, 1).count = 1
    BY DEF Row
  <2> QED
    BY <1>1, <2>2, <2>3
<1>4. CASE Open
  <2>1. CASE s \in Segments(positions)
    <3>1. positions \in [Aircraft -> [Time -> Nat]]
      BY DEF KeyInv, TypeOK
    <3>2. /\ s.aircraft \in Aircraft /\ s.first \in Time /\ s.last \in Time
          /\ s.count = RowCount(s.aircraft, positions, s.first, s.last)
      BY <2>1, <3>1, SegmentRows
    <3> QED
      BY <3>1, <3>2, RowCountType
  <2> QED
    BY <1>1, <1>4, <2>1 DEF Open
<1>5. CASE Close
  BY <1>1, <1>5 DEF Close
<1>6. CASE \E batch \in Batches : InsertBatch(batch)
  BY <1>1, <1>6 DEF InsertBatch
<1>7. CASE StatementFails
  BY <1>1, <1>7 DEF StatementFails
<1>8. CASE \E cutoff \in Time : Prune(cutoff)
  BY <1>1, <1>8 DEF Prune
<1>9. CASE \E file \in Files : Import(file)
  BY <1>1, <1>9 DEF Import
<1>10. CASE UNCHANGED vars
  BY <1>1, <1>10 DEF vars
<1> QED
  BY <1>2, <1>3, <1>4, <1>5, <1>6, <1>7, <1>8, <1>9, <1>10 DEF Next

\* Whatever crashed, failed or was received out of order: a flight stays in the
\* table with its number and its beginning, and its end and its count only grow.
THEOREM FlightsStay == Spec => FlightsOnlyGrow
<1> DEFINE Grow == \A r \in flights : \E s \in flights' :
              /\ s.aircraft = r.aircraft /\ s.num = r.num /\ s.first = r.first
              /\ s.last >= r.last /\ s.count >= r.count
<1>1. Init => CountsTyped
  BY DEF Init, CountsTyped
<1>2. KeyInv /\ CountsTyped /\ [Next]_vars => CountsTyped'
  BY CountsStep
<1>3. KeyInv /\ CountsTyped /\ [Next]_vars => Grow
  BY RowsStay
<1>4. Spec => [][Grow]_vars
  BY <1>1, <1>2, <1>3, KeyInvKept, PTL DEF Spec
<1> QED
  BY <1>4 DEF FlightsOnlyGrow

-----------------------------------------------------------------------------
(* Runs of positions and a position more.                                  *)

\* Before a start there is an end, and after an end there is a start.
LEMMA Neighbours ==
  ASSUME NEW T \in SUBSET Time, NEW x \in T
  PROVE  /\ \A s \in Starts(T) : x < s => \E e \in Ends(T) : x <= e /\ e < s
         /\ \A e \in Ends(T) : e < x => \E s \in Starts(T) : e < s /\ s <= x
         /\ \E s \in Starts(T) : s <= x
         /\ \E e \in Ends(T) : x <= e
<1>0. T \in SUBSET 0..MaxTime /\ T \in SUBSET Nat /\ MaxTime \in Nat /\ Gap \in Nat
  BY BoundAssumption, GapAssumption DEF Time
<1>1. ASSUME NEW s \in Starts(T), x < s PROVE \E e \in Ends(T) : x <= e /\ e < s
  <2> DEFINE B == {v \in T : v < s}
  <2>1. B \in SUBSET 0..MaxTime /\ B # {} /\ s \in T /\ s \in Nat
    BY <1>0, <1>1 DEF Starts
  <2>2. PICK e \in B : \A v \in B : v <= e
    BY <1>0, <2>1, HasGreatest
  <2>3. e \in T /\ e < s /\ x <= e /\ s - e > Gap
    BY <1>1, <2>2 DEF Starts
  <2>4. ASSUME NEW u \in T, u > e PROVE u - e > Gap
    <3>1. ~(u < s)
      BY <1>0, <2>2, <2>4
    <3> QED
      BY <1>0, <2>1, <2>3, <3>1
  <2>5. e \in Ends(T)
    BY <2>3, <2>4 DEF Ends
  <2> QED
    BY <2>3, <2>5
<1>2. ASSUME NEW e \in Ends(T), e < x PROVE \E s \in Starts(T) : e < s /\ s <= x
  <2> DEFINE B == {v \in T : v > e}
  <2>1. B \in SUBSET Nat /\ B # {} /\ e \in T /\ e \in Nat
    BY <1>0, <1>2 DEF Ends
  <2>2. PICK s \in B : \A v \in B : s <= v
    BY <2>1, HasLeast
  <2>3. s \in T /\ e < s /\ s <= x /\ s - e > Gap
    BY <1>0, <1>2, <2>2 DEF Ends
  <2>4. ASSUME NEW u \in T, u < s PROVE s - u > Gap
    <3>1. ~(u > e)
      BY <1>0, <2>2, <2>4
    <3> QED
      BY <1>0, <2>1, <2>3, <3>1
  <2>5. s \in Starts(T)
    BY <2>3, <2>4 DEF Starts
  <2> QED
    BY <2>3, <2>5
<1>3. \E s \in Starts(T) : s <= x
  <2>1. PICK s \in T : \A v \in T : s <= v
    BY <1>0, HasLeast
  <2>2. s \in Starts(T)
    BY <1>0, <2>1 DEF Starts
  <2> QED
    BY <2>1, <2>2
<1>4. \E e \in Ends(T) : x <= e
  <2>1. PICK e \in T : \A v \in T : v <= e
    BY <1>0, HasGreatest
  <2>2. e \in Ends(T)
    BY <1>0, <2>1 DEF Ends
  <2> QED
    BY <2>1, <2>2
<1> QED
  BY <1>1, <1>2, <1>3, <1>4

\* Every position is in a run.
LEMMA RunsCover ==
  ASSUME NEW T \in SUBSET Time, NEW x \in T
  PROVE  \E p \in Runs(T) : p[1] <= x /\ x <= p[2]
<1>0. /\ T \in SUBSET Nat /\ MaxTime \in Nat
      /\ Starts(T) \in SUBSET T /\ Starts(T) \in SUBSET 0..MaxTime
      /\ Ends(T) \in SUBSET T /\ Ends(T) \in SUBSET Nat
  <2>1. T \in SUBSET Nat /\ MaxTime \in Nat /\ T \in SUBSET 0..MaxTime
    BY BoundAssumption DEF Time
  <2>2. Starts(T) \in SUBSET T /\ Ends(T) \in SUBSET T
    BY DEF Starts, Ends
  <2> QED
    BY <2>1, <2>2
<1> DEFINE S == {s \in Starts(T) : s <= x}
           E == {e \in Ends(T) : x <= e}
<1>1. S # {} /\ E # {}
  BY Neighbours
<1>2. PICK s \in S : \A v \in S : v <= s
  <2>1. S \in SUBSET 0..MaxTime
    BY <1>0
  <2> HIDE DEF S
  <2> QED
    BY <1>0, <1>1, <2>1, HasGreatest
<1>3. PICK e \in E : \A v \in E : e <= v
  <2>1. E \in SUBSET Nat
    BY <1>0
  <2> HIDE DEF E
  <2> QED
    BY <1>1, <2>1, HasLeast
<1>4. s \in Starts(T) /\ s <= x /\ e \in Ends(T) /\ x <= e /\ s \in T /\ e \in T
      /\ s \in Nat /\ e \in Nat /\ x \in Nat
  BY <1>0
<1>5. ASSUME NEW v \in Starts(T), s < v, v <= e PROVE FALSE
  <2>1. v \in Nat /\ x < v
    BY <1>0, <1>2, <1>4, <1>5
  <2>2. PICK w \in Ends(T) : x <= w /\ w < v
    BY <2>1, Neighbours
  <2>3. e <= w /\ w \in Nat
    BY <1>0, <1>3, <2>2
  <2> QED
    BY <1>4, <1>5, <2>1, <2>2, <2>3
<1>6. ASSUME NEW v \in Ends(T), s <= v, v < e PROVE FALSE
  <2>1. v \in Nat /\ v < x
    BY <1>0, <1>3, <1>4, <1>6
  <2>2. PICK w \in Starts(T) : v < w /\ w <= x
    BY <2>1, Neighbours
  <2>3. w <= s /\ w \in Nat
    BY <1>0, <1>2, <2>2
  <2> QED
    BY <1>4, <1>6, <2>1, <2>2, <2>3
<1>7. <<s, e>> \in Runs(T)
  BY <1>4, <1>5, <1>6 DEF Runs
<1> QED
  BY <1>4, <1>7

\* Starts and ends are times of the table.
LEMMA TimeFacts ==
  ASSUME NEW T \in SUBSET Time
  PROVE  /\ T \in SUBSET Nat /\ Starts(T) \in SUBSET T /\ Ends(T) \in SUBSET T
         /\ Starts(T) \in SUBSET Nat /\ Ends(T) \in SUBSET Nat /\ Gap \in Nat
         /\ IsFiniteSet(T) /\ IsFiniteSet(Starts(T))
<1>1. T \in SUBSET Nat /\ IsFiniteSet(T) /\ Gap \in Nat
  BY TimeIsFinite, FS_Subset, GapAssumption
<1>2. Starts(T) \in SUBSET T /\ Ends(T) \in SUBSET T
  BY DEF Starts, Ends
<1> QED
  BY <1>1, <1>2, FS_Subset

\* Every start begins a run.
LEMMA StartsHaveRuns ==
  ASSUME NEW T \in SUBSET Time, NEW x \in Starts(T)
  PROVE  \E p \in Runs(T) : p[1] = x
<1>1. x \in T /\ x \in Nat
  BY TimeFacts
<1>2. PICK p \in Runs(T) : p[1] <= x /\ x <= p[2]
  BY <1>1, RunsCover
<1>3. ~(p[1] < x /\ x <= p[2]) /\ p[1] \in Starts(T)
  BY DEF Runs
<1>4. p[1] \in Nat
  BY <1>3, TimeFacts
<1> QED
  BY <1>1, <1>2, <1>3, <1>4

\* The flights of a table are numbered from 0 without a hole.
LEMMA NumbersDense ==
  ASSUME NEW T \in SUBSET Time
  PROVE  /\ \A p \in Runs(T) : FlightNum(T, p[1]) \in Nat
                               /\ FlightNum(T, p[1]) < Cardinality(Starts(T))
         /\ Cardinality(Starts(T)) \in Nat
         /\ \A n \in 0..(Cardinality(Starts(T)) - 1) :
              \E p \in Runs(T) : FlightNum(T, p[1]) = n
<1>1. \A x : FlightNum(T, x) = Rank(Starts(T), x)
  BY DEF FlightNum, Rank, Lesser
<1>2. \A p \in Runs(T) : p[1] \in Starts(T)
  BY DEF Runs
<1>3. Starts(T) \in SUBSET Nat /\ IsFiniteSet(Starts(T))
  BY TimeFacts
<1>4. /\ Cardinality(Starts(T)) \in Nat
      /\ \A x \in Starts(T) : Rank(Starts(T), x) \in Nat
                              /\ Rank(Starts(T), x) < Cardinality(Starts(T))
      /\ \A n \in 0..(Cardinality(Starts(T)) - 1) : \E x \in Starts(T) : Rank(Starts(T), x) = n
  BY <1>3, Ranks
<1> QED
  BY <1>1, <1>2, <1>4, StartsHaveRuns

After(T, t) == \A u \in T : t - u > Gap

\* A time more than Gap after all others is a run of its own.
LEMMA NewRun ==
  ASSUME NEW T \in SUBSET Time, NEW t \in Time, After(T, t)
  PROVE  /\ Starts(T \cup {t}) = Starts(T) \cup {t}
         /\ Runs(T \cup {t}) = Runs(T) \cup {<<t, t>>}
         /\ \A p \in Runs(T) : p[2] < t /\ FlightNum(T \cup {t}, p[1]) = FlightNum(T, p[1])
         /\ FlightNum(T \cup {t}, t) = Cardinality(Starts(T))
<1> USE DEF After
<1> DEFINE U == T \cup {t}
<1>0. /\ t \in Nat /\ T \in SUBSET Nat /\ Gap \in Nat
      /\ \A u \in T : u \in Nat /\ u < t /\ ~(t < u) /\ ~(t <= u)
      /\ Starts(T) \in SUBSET T /\ Ends(T) \in SUBSET T
  <2>1. t \in Nat
    BY TimeIsFinite
  <2>2. /\ T \in SUBSET Nat /\ Gap \in Nat
        /\ Starts(T) \in SUBSET T /\ Ends(T) \in SUBSET T
    BY TimeFacts
  <2>3. ASSUME NEW u \in T PROVE u \in Nat /\ u < t
    BY <2>1, <2>2
  <2> QED
    BY <2>1, <2>2, <2>3
<1>1. Starts(U) = Starts(T) \cup {t}
  <2>1. ASSUME NEW s \in T PROVE s \in Starts(U) <=> s \in Starts(T)
    <3>1. ~(t < s)
      BY <1>0
    <3> QED
      BY <3>1 DEF Starts
  <2>2. t \in Starts(U)
    BY <1>0 DEF Starts
  <2>3. Starts(U) \subseteq U
    BY DEF Starts
  <2> QED
    BY <1>0, <2>1, <2>2, <2>3
<1>2. Ends(U) = Ends(T) \cup {t}
  <2>1. ASSUME NEW e \in T PROVE e \in Ends(U) <=> e \in Ends(T)
    BY <1>0 DEF Ends
  <2>2. t \in Ends(U)
    <3>1. \A u \in U : ~(u > t)
      BY <1>0
    <3> QED
      BY <3>1 DEF Ends
  <2>3. Ends(U) \subseteq U
    BY DEF Ends
  <2> QED
    BY <1>0, <2>1, <2>2, <2>3
<1> HIDE DEF U
<1>3. ASSUME NEW p \in Runs(T) PROVE p \in Runs(U) /\ p[2] < t /\ p[1] < t
  <2>1. /\ p \in Starts(T) \X Ends(T) /\ p[1] <= p[2]
        /\ \A s \in Starts(T) : ~(p[1] < s /\ s <= p[2])
        /\ \A e \in Ends(T) : ~(p[1] <= e /\ e < p[2])
    BY DEF Runs
  <2>2. p[1] \in T /\ p[2] \in T /\ p[1] \in Nat /\ p[2] \in Nat /\ p[1] < t /\ p[2] < t
    BY <1>0, <2>1
  <2>3. ~(p[1] < t /\ t <= p[2]) /\ ~(p[1] <= t /\ t < p[2])
    BY <1>0, <2>2
  <2>4. p \in Starts(U) \X Ends(U)
    BY <1>1, <1>2, <2>1
  <2> QED
    BY <1>1, <1>2, <2>1, <2>2, <2>3, <2>4 DEF Runs
<1>4. <<t, t>> \in Runs(U)
  <2>1. ASSUME NEW s \in Starts(U) PROVE ~(t < s /\ s <= t)
    <3>1. s \in Nat
      BY <1>0, <1>1
    <3> QED
      BY <1>0, <3>1
  <2>2. ASSUME NEW e \in Ends(U) PROVE ~(t <= e /\ e < t)
    <3>1. e \in Nat
      BY <1>0, <1>2
    <3> QED
      BY <1>0, <3>1
  <2>3. t \in Starts(U) /\ t \in Ends(U) /\ t <= t
    BY <1>0, <1>1, <1>2
  <2> QED
    BY <2>1, <2>2, <2>3 DEF Runs
<1>5. ASSUME NEW p \in Runs(U) PROVE p \in Runs(T) \cup {<<t, t>>}
  <2>1. /\ p \in Starts(U) \X Ends(U) /\ p[1] <= p[2] /\ p = <<p[1], p[2]>>
        /\ p[1] \in Starts(U) /\ p[2] \in Ends(U)
        /\ \A s \in Starts(U) : ~(p[1] < s /\ s <= p[2])
        /\ \A e \in Ends(U) : ~(p[1] <= e /\ e < p[2])
    BY DEF Runs
  <2>2. /\ p[1] = t \/ (p[1] \in Starts(T) /\ p[1] \in T)
        /\ p[2] = t \/ (p[2] \in Ends(T) /\ p[2] \in T)
    BY <1>0, <1>1, <1>2, <2>1
  <2>3. p[1] \in Nat /\ p[2] \in Nat
    BY <1>0, <2>2
  <2>4. CASE p[2] = t
    <3>1. p[1] = t
      <4>1. \A n \in Nat : n <= n
        OBVIOUS
      <4>2. t \in Starts(U) /\ t <= p[2]
        BY <1>0, <1>1, <2>4, <4>1
      <4>3. ~(p[1] < t)
        BY <2>1, <4>2
      <4> QED
        BY <1>0, <2>2, <4>3
    <3> QED
      BY <2>1, <2>4, <3>1
  <2>5. CASE p[2] # t
    <3>1. p[1] \in Starts(T) /\ p[2] \in Ends(T)
      BY <1>0, <2>1, <2>2, <2>3, <2>5
    <3> QED
      BY <1>1, <1>2, <2>1, <3>1 DEF Runs
  <2> QED
    BY <2>4, <2>5
<1>6. Runs(U) = Runs(T) \cup {<<t, t>>}
  BY <1>3, <1>4, <1>5
<1>7. ASSUME NEW p \in Runs(T) PROVE FlightNum(U, p[1]) = FlightNum(T, p[1])
  <2>1. ~(t < p[1])
    <3>1. p[1] \in T
      BY <1>0 DEF Runs
    <3> QED
      BY <1>0, <3>1
  <2>2. {u \in Starts(U) : u < p[1]} = {u \in Starts(T) : u < p[1]}
    BY <1>1, <2>1
  <2> QED
    BY <2>2 DEF FlightNum
<1>8. FlightNum(U, t) = Cardinality(Starts(T))
  <2>1. ~(t < t) /\ \A u \in Starts(T) : u < t
    <3>1. \A u \in Starts(T) : u \in T
      BY <1>0
    <3>2. \A n \in Nat : ~(n < n)
      OBVIOUS
    <3> QED
      BY <1>0, <3>1, <3>2
  <2>2. {u \in Starts(U) : u < t} = Starts(T)
    BY <1>1, <2>1
  <2> QED
    BY <2>2 DEF FlightNum
<1> QED
  BY <1>1, <1>3, <1>6, <1>7, <1>8 DEF U

\* A time at most Gap after the end q[2] of the last run q makes that run longer.
LEMMA LongerRun ==
  ASSUME NEW T \in SUBSET Time, NEW q \in Runs(T), \A u \in T : u <= q[2],
         NEW t \in Time, q[2] <= t, t - q[2] <= Gap
  PROVE  /\ Starts(T \cup {t}) = Starts(T)
         /\ Runs(T \cup {t}) = (Runs(T) \ {q}) \cup {<<q[1], t>>}
         /\ \A p \in Runs(T) \ {q} : p[2] < q[2]
<1> DEFINE U == T \cup {t}
<1> DEFINE first == q[1]
           last == q[2]
<1>0. /\ t \in Nat /\ first \in Nat /\ last \in Nat /\ Gap \in Nat
      /\ first \in Starts(T) /\ last \in Ends(T) /\ first \in T /\ last \in T
      /\ first <= last /\ last <= t /\ first <= t
      /\ q = <<first, last>>
      /\ \A s \in Starts(T) : ~(first < s /\ s <= last)
      /\ \A e \in Ends(T) : ~(first <= e /\ e < last)
  <2>1. /\ q \in Starts(T) \X Ends(T) /\ first <= last
        /\ \A s \in Starts(T) : ~(first < s /\ s <= last)
        /\ \A e \in Ends(T) : ~(first <= e /\ e < last)
    BY DEF Runs
  <2>2. first \in Starts(T) /\ last \in Ends(T) /\ q = <<first, last>>
    BY <2>1
  <2>3. first \in T /\ last \in T /\ first \in Nat /\ last \in Nat /\ Gap \in Nat
    BY <2>2, TimeFacts
  <2>4. t \in Nat
    BY TimeIsFinite
  <2>5. first <= t
    BY <2>1, <2>3, <2>4
  <2> QED
    BY <2>1, <2>2, <2>3, <2>4, <2>5
<1>1. /\ \A u \in T : u \in Nat /\ u <= last /\ u <= t /\ ~(t < u)
      /\ \A u \in Starts(T) : u \in T
      /\ \A u \in Ends(T) : u \in T
  <2>1. \A u \in T : u \in Nat /\ u <= last
    BY TimeFacts
  <2>2. ASSUME NEW u \in T PROVE u <= t /\ ~(t < u)
    BY <1>0, <2>1
  <2>3. Starts(T) \in SUBSET T /\ Ends(T) \in SUBSET T
    BY TimeFacts
  <2> QED
    BY <2>1, <2>2, <2>3
<1>2. t - last <= Gap
  OBVIOUS
<1> HIDE DEF first, last
<1>3. Starts(U) = Starts(T)
  <2>1. ASSUME NEW s \in T PROVE s \in Starts(U) <=> s \in Starts(T)
    BY <1>1 DEF Starts
  <2>2. ASSUME t \in Starts(U) PROVE t \in Starts(T)
    <3>1. t \in T
      <4>1. ~(last < t)
        BY <1>0, <1>2, <2>2 DEF Starts
      <4>2. t = last
        BY <1>0, <4>1
      <4> QED
        BY <1>0, <4>2
    <3> QED
      BY <2>1, <2>2, <3>1
  <2>3. Starts(U) \subseteq U
    BY DEF Starts
  <2> QED
    BY <1>1, <2>1, <2>2, <2>3
<1>4. /\ t \in Ends(U)
      /\ \A e \in T : e # t => (e \in Ends(U) <=> e \in Ends(T) /\ e # last)
  <2>1. t \in Ends(U)
    <3>1. ASSUME NEW u \in U PROVE ~(u > t)
      BY <1>0, <1>1
    <3> QED
      BY <3>1 DEF Ends
  <2>2. ASSUME NEW e \in T, e # t PROVE e \in Ends(U) <=> e \in Ends(T) /\ e # last
    <3>1. e < t /\ e \in Nat
      BY <1>0, <1>1, <2>2
    <3>2. ASSUME e \in Ends(U) PROVE e \in Ends(T) /\ e # last
      <4>1. e \in Ends(T)
        BY <3>2 DEF Ends
      <4>2. t - e > Gap
        BY <1>0, <3>1, <3>2 DEF Ends
      <4>3. e # last
        BY <1>0, <1>2, <4>2
      <4> QED
        BY <4>1, <4>3
    <3>3. ASSUME e \in Ends(T), e # last PROVE e \in Ends(U)
      <4>1. e < last
        BY <1>0, <1>1, <3>1, <3>3
      <4>2. last - e > Gap
        BY <1>0, <3>1, <3>3, <4>1 DEF Ends
      <4>3. t - e > Gap
        BY <1>0, <3>1, <4>2
      <4> QED
        BY <3>3, <4>3 DEF Ends
    <3> QED
      BY <3>2, <3>3
  <2> QED
    BY <2>1, <2>2
<1> HIDE DEF U
<1>5. \A e \in Ends(U) : e = t \/ (e \in Ends(T) /\ e # last /\ e \in T)
  <2>1. Ends(U) \subseteq T \cup {t}
    BY DEF Ends, U
  <2> QED
    BY <1>4, <2>1
<1>6. ASSUME NEW p \in Runs(T), p # q
      PROVE  /\ p[2] < last
             /\ p \in Runs(U)
  <2>1. /\ p \in Starts(T) \X Ends(T) /\ p[1] <= p[2]
        /\ \A s \in Starts(T) : ~(p[1] < s /\ s <= p[2])
        /\ \A e \in Ends(T) : ~(p[1] <= e /\ e < p[2])
    BY DEF Runs
  <2>2. /\ p[1] \in Starts(T) /\ p[2] \in Ends(T)
        /\ p[1] \in T /\ p[2] \in T /\ p[1] \in Nat /\ p[2] \in Nat
        /\ p[1] <= last /\ p[2] <= last /\ p[2] <= t
    BY <1>1, <2>1
  <2>3. p[2] < last
    <3>1. p[1] # first
      BY <1>6, RunsSeparated DEF first
    <3>2. p[1] < first
      BY <1>0, <2>2, <3>1
    <3>3. first - p[2] > Gap
      BY <3>2, RunsSeparated DEF first
    <3> QED
      BY <1>0, <2>2, <3>3
  <2>4. p[2] # t /\ p[2] # last
    BY <1>0, <2>2, <2>3
  <2>5. p \in Starts(U) \X Ends(U)
    BY <1>3, <1>4, <2>1, <2>2, <2>4
  <2>6. ASSUME NEW e \in Ends(U) PROVE ~(p[1] <= e /\ e < p[2])
    <3>1. CASE e = t
      BY <1>0, <2>2, <3>1
    <3>2. CASE e # t
      BY <1>5, <2>1, <3>2
    <3> QED
      BY <3>1, <3>2
  <2>7. p \in Runs(U)
    BY <1>3, <2>1, <2>5, <2>6 DEF Runs
  <2> QED
    BY <2>3, <2>7
<1>7. <<first, t>> \in Runs(U)
  <2>1. first \in Starts(U) /\ t \in Ends(U) /\ first <= t
    BY <1>0, <1>3, <1>4
  <2>2. ASSUME NEW s \in Starts(U) PROVE ~(first < s /\ s <= t)
    <3>1. s \in Starts(T) /\ s <= last
      BY <1>1, <1>3
    <3> QED
      BY <1>0, <3>1
  <2>3. ASSUME NEW e \in Ends(U) PROVE ~(first <= e /\ e < t)
    <3>1. CASE e = t
      BY <1>0, <3>1
    <3>2. CASE e # t
      <4>1. e \in Ends(T) /\ e # last /\ e <= last /\ e \in Nat
        BY <1>1, <1>5, <3>2
      <4>2. e < last
        BY <1>0, <4>1
      <4> QED
        BY <1>0, <4>1, <4>2
    <3> QED
      BY <3>1, <3>2
  <2> QED
    BY <2>1, <2>2, <2>3 DEF Runs
<1>8. ASSUME NEW p \in Runs(U), p # <<first, t>> PROVE p \in Runs(T) \ {q}
  <2>1. /\ p \in Starts(U) \X Ends(U) /\ p[1] <= p[2]
        /\ \A s \in Starts(U) : ~(p[1] < s /\ s <= p[2])
        /\ \A e \in Ends(U) : ~(p[1] <= e /\ e < p[2])
    BY DEF Runs
  <2>2. /\ p[1] \in Starts(T) /\ p[1] \in Nat /\ p[1] <= last /\ p = <<p[1], p[2]>>
        /\ p[2] \in Ends(U)
    BY <1>1, <1>3, <2>1
  <2>3. p[2] # t
    <3>1. SUFFICES ASSUME p[2] = t PROVE FALSE
      OBVIOUS
    <3>2. p[1] # first
      BY <1>8, <2>2, <3>1
    <3>3. ~(first < p[1])
      BY <1>0, <2>2
    <3>4. p[1] < first
      BY <1>0, <2>2, <3>2, <3>3
    <3> QED
      BY <1>0, <1>3, <2>1, <3>1, <3>4
  <2>4. p[2] \in Ends(T) /\ p[2] # last /\ p[2] \in Nat /\ p[2] <= last
    BY <1>1, <1>5, <2>2, <2>3
  <2>5. ASSUME NEW e \in Ends(T) PROVE ~(p[1] <= e /\ e < p[2])
    <3>1. CASE e = last
      BY <1>0, <2>4, <3>1
    <3>2. CASE e = t
      <4>1. ~(t < p[2])
        BY <1>1, <2>4
      <4> QED
        BY <3>2, <4>1
    <3>3. CASE e # last /\ e # t
      BY <1>1, <1>4, <2>1, <3>3
    <3> QED
      BY <3>1, <3>2, <3>3
  <2>6. p \in Runs(T)
    BY <1>3, <2>1, <2>2, <2>4, <2>5 DEF Runs
  <2>7. p # q
    BY <1>0, <2>4
  <2> QED
    BY <2>6, <2>7
<1>9. Runs(U) = (Runs(T) \ {q}) \cup {<<first, t>>}
  BY <1>6, <1>7, <1>8
<1> QED
  BY <1>3, <1>6, <1>9 DEF U, first, last

-----------------------------------------------------------------------------
(* Rows and a position more.                                               *)

\* The flights of one aircraft that a table of positions divides into.
Piece(a, table, p) ==
  Row(a, FlightNum(TimesOf(a, table), p[1]), p[1], p[2], RowCount(a, table, p[1], p[2]))
Pieces(a, table) == {Piece(a, table, p) : p \in Runs(TimesOf(a, table))}

\* The window query, one aircraft at a time.
LEMMA PieceFields ==
  ASSUME NEW a, NEW table, NEW p
  PROVE  /\ Piece(a, table, p).aircraft = a
         /\ Piece(a, table, p).num = FlightNum(TimesOf(a, table), p[1])
         /\ Piece(a, table, p).first = p[1] /\ Piece(a, table, p).last = p[2]
  BY DEF Piece, Row

LEMMA SegmentsOf ==
  ASSUME NEW table
  PROVE  /\ Segments(table) = UNION {Pieces(a, table) : a \in Aircraft}
         /\ \A a \in Aircraft : RowsOf(a, Segments(table)) = Pieces(a, table)
         /\ \A r \in Segments(table) : r.aircraft \in Aircraft
<1>1. Segments(table) = UNION {Pieces(a, table) : a \in Aircraft}
  BY DEF Segments, Pieces, Piece
<1>2. \A a : \A r \in Pieces(a, table) : r.aircraft = a
  BY PieceFields DEF Pieces
<1> QED
  BY <1>1, <1>2 DEF RowsOf

\* Tables of flights are equal if they are for every aircraft.
LEMMA SameRows ==
  ASSUME NEW rows, NEW table,
         \A r \in rows : r.aircraft \in Aircraft,
         \A a \in Aircraft : RowsOf(a, rows) = Pieces(a, table)
  PROVE  rows = Segments(table)
<1>1. \A r \in rows : r \in RowsOf(r.aircraft, rows)
  BY DEF RowsOf
<1>2. \A r \in Segments(table) : r \in RowsOf(r.aircraft, Segments(table))
  BY DEF RowsOf
<1>3. \A a : RowsOf(a, rows) \subseteq rows
  BY DEF RowsOf
<1>4. \A a : RowsOf(a, Segments(table)) \subseteq Segments(table)
  BY DEF RowsOf
<1>5. /\ \A a \in Aircraft : RowsOf(a, Segments(table)) = Pieces(a, table)
      /\ \A r \in Segments(table) : r.aircraft \in Aircraft
  BY SegmentsOf
<1>6. rows \subseteq Segments(table)
  BY <1>1, <1>4, <1>5
<1>7. Segments(table) \subseteq rows
  BY <1>2, <1>3, <1>5
<1> QED
  BY <1>6, <1>7

\* The flights of an aircraft depend on its positions only.
LEMMA SamePieces ==
  ASSUME NEW a, NEW table, NEW new, new[a] = table[a]
  PROVE  Pieces(a, new) = Pieces(a, table)
<1>1. TimesOf(a, new) = TimesOf(a, table)
  BY DEF TimesOf
<1>2. \A p : RowCount(a, new, p[1], p[2]) = RowCount(a, table, p[1], p[2])
  BY DEF RowCount
<1>3. \A p : Piece(a, new, p) = Piece(a, table, p)
  BY <1>1, <1>2 DEF Piece
<1> QED
  BY <1>1, <1>3 DEF Pieces

\* One more position at time t.
LEMMA TimesGrow ==
  ASSUME NEW a \in Aircraft, NEW table \in [Aircraft -> [Time -> Nat]], NEW t \in Time,
         NEW new, new[a] = [table[a] EXCEPT ![t] = @ + 1]
  PROVE  TimesOf(a, new) = TimesOf(a, table) \cup {t} /\ TimesOf(a, table) \in SUBSET Time
<1>1. table[a] \in [Time -> Nat]
  OBVIOUS
<1>2. \A u \in Time : new[a][u] = IF u = t THEN table[a][u] + 1 ELSE table[a][u]
  BY <1>1
<1>3. \A u \in Time : u # t => (new[a][u] > 0 <=> table[a][u] > 0)
  BY <1>2
<1>4. table[a][t] \in Nat /\ new[a][t] = table[a][t] + 1
  BY <1>1, <1>2
<1>5. new[a][t] > 0
  BY <1>4
<1> QED
  BY <1>3, <1>5 DEF TimesOf

\* The window query of a run no position was added to.
LEMMA PieceStays ==
  ASSUME NEW a \in Aircraft, NEW table \in [Aircraft -> [Time -> Nat]], NEW t \in Time,
         NEW new, new[a] = [table[a] EXCEPT ![t] = @ + 1],
         NEW p \in Runs(TimesOf(a, table)), p[2] < t,
         FlightNum(TimesOf(a, new), p[1]) = FlightNum(TimesOf(a, table), p[1])
  PROVE  Piece(a, new, p) = Piece(a, table, p)
<1>1. p[1] \in Time /\ p[2] \in Time
  BY DEF Runs, Starts, Ends, TimesOf
<1>2. p[1] \in Nat /\ p[2] \in Nat /\ t \in Nat /\ p[1]..p[2] \in SUBSET Time
  BY <1>1, TimeIsFinite
<1>3. t \notin p[1]..p[2]
  BY <1>2
<1>4. table[a] \in [Time -> Nat]
  OBVIOUS
<1>5. \A u \in p[1]..p[2] : new[a][u] = table[a][u]
  BY <1>2, <1>3, <1>4
<1>6. RowCount(a, new, p[1], p[2]) = RowCount(a, table, p[1], p[2])
  <2>1. [u \in p[1]..p[2] |-> new[a][u]] = [u \in p[1]..p[2] |-> table[a][u]]
    BY <1>5
  <2> QED
    BY <2>1 DEF RowCount
<1> QED
  BY <1>6 DEF Piece

\* A position more than Gap after all others is one more row.
LEMMA PiecesInsert ==
  ASSUME NEW a \in Aircraft, NEW table \in [Aircraft -> [Time -> Nat]], NEW t \in Time,
         \A u \in TimesOf(a, table) : t - u > Gap,
         NEW new, new[a] = [table[a] EXCEPT ![t] = @ + 1]
  PROVE  Pieces(a, new) = Pieces(a, table)
           \cup {Row(a, Cardinality(Starts(TimesOf(a, table))), t, t, 1)}
<1> DEFINE T == TimesOf(a, table)
           U == TimesOf(a, new)
           last == <<t, t>>
           row == Row(a, Cardinality(Starts(T)), t, t, 1)
<1>1. U = T \cup {t} /\ T \in SUBSET Time
  BY TimesGrow
<1> HIDE DEF T, U
<1>2. \A u \in T : t - u > Gap
  BY DEF T
<1>3. /\ Runs(U) = Runs(T) \cup {last}
      /\ \A p \in Runs(T) : p[2] < t /\ FlightNum(U, p[1]) = FlightNum(T, p[1])
      /\ FlightNum(U, t) = Cardinality(Starts(T))
  <2>1. After(T, t)
    BY <1>2 DEF After
  <2>2. Runs(T \cup {t}) = Runs(T) \cup {<<t, t>>}
    BY <1>1, <2>1, NewRun
  <2>3. \A p \in Runs(T) : p[2] < t /\ FlightNum(T \cup {t}, p[1]) = FlightNum(T, p[1])
    BY <1>1, <2>1, NewRun
  <2>4. FlightNum(T \cup {t}, t) = Cardinality(Starts(T))
    BY <1>1, <2>1, NewRun
  <2> QED
    BY <1>1, <2>2, <2>3, <2>4
<1>4. ASSUME NEW p \in Runs(T) PROVE Piece(a, new, p) = Piece(a, table, p)
  <2>1. p \in Runs(TimesOf(a, table)) /\ p[2] < t
    BY <1>3 DEF T
  <2>2. FlightNum(TimesOf(a, new), p[1]) = FlightNum(TimesOf(a, table), p[1])
    BY <1>3 DEF T, U
  <2> QED
    BY <2>1, <2>2, PieceStays
<1>5. Piece(a, new, last) = row
  <2>1. t \in Nat /\ Gap \in Nat /\ table[a] \in [Time -> Nat]
    BY TimeIsFinite, GapAssumption
  <2>2. t \notin T
    BY <1>2, <2>1
  <2>3. table[a][t] = 0
    BY <2>1, <2>2 DEF T, TimesOf
  <2>4. new[a][t] = 1
    BY <2>1, <2>3
  <2>5. RowCount(a, new, t, t) = 1
    BY <2>4, RowCountOne
  <2> QED
    BY <1>3, <2>5 DEF Piece, U
<1> HIDE DEF row, last
<1>6. Pieces(a, new) = {Piece(a, new, p) : p \in Runs(T) \cup {last}}
  BY <1>3 DEF Pieces, U
<1>7. Pieces(a, table) = {Piece(a, new, p) : p \in Runs(T)}
  BY <1>4 DEF Pieces, T
<1>8. Pieces(a, new) = Pieces(a, table) \cup {row}
  BY <1>5, <1>6, <1>7
<1> QED
  BY <1>8 DEF row, T

\* A position at most Gap after the end of the last run q changes the row of q.
LEMMA PiecesUpdate ==
  ASSUME NEW a \in Aircraft, NEW table \in [Aircraft -> [Time -> Nat]], NEW t \in Time,
         NEW q \in Runs(TimesOf(a, table)), \A u \in TimesOf(a, table) : u <= q[2],
         q[2] <= t, t - q[2] <= Gap,
         NEW new, new[a] = [table[a] EXCEPT ![t] = @ + 1]
  PROVE  Pieces(a, new) = (Pieces(a, table) \ {Piece(a, table, q)})
           \cup {Row(a, FlightNum(TimesOf(a, table), q[1]), q[1], t,
                     RowCount(a, table, q[1], q[2]) + 1)}
<1> DEFINE T == TimesOf(a, table)
           U == TimesOf(a, new)
           longer == <<q[1], t>>
           row == Row(a, FlightNum(T, q[1]), q[1], t, RowCount(a, table, q[1], q[2]) + 1)
<1>1. U = T \cup {t} /\ T \in SUBSET Time
  BY TimesGrow
<1> HIDE DEF T, U
<1>2. q \in Runs(T) /\ \A u \in T : u <= q[2]
  BY DEF T
<1>3. /\ Starts(U) = Starts(T)
      /\ Runs(U) = (Runs(T) \ {q}) \cup {longer}
      /\ \A p \in Runs(T) \ {q} : p[2] < q[2]
  BY <1>1, <1>2, LongerRun
<1>4. \A x : FlightNum(U, x) = FlightNum(T, x)
  BY <1>3 DEF FlightNum
<1>5. /\ q[1] \in Time /\ q[2] \in Time /\ q[1] <= q[2]
      /\ q[1] \in Nat /\ q[2] \in Nat /\ t \in Nat
  <2>1. q[1] \in Time /\ q[2] \in Time /\ q[1] <= q[2]
    BY <1>1, <1>2 DEF Runs, Starts, Ends
  <2> QED
    BY <2>1, TimeIsFinite
<1>6. ASSUME NEW p \in Runs(T) \ {q} PROVE Piece(a, new, p) = Piece(a, table, p)
  <2>1. p[2] \in Nat
    BY <1>1, TimeIsFinite DEF Runs, Ends
  <2>2. p[2] < t
    BY <1>3, <1>5, <2>1
  <2>3. p \in Runs(TimesOf(a, table))
    BY DEF T
  <2>4. FlightNum(TimesOf(a, new), p[1]) = FlightNum(TimesOf(a, table), p[1])
    BY <1>4 DEF T, U
  <2> QED
    BY <2>2, <2>3, <2>4, PieceStays
<1>7. Piece(a, new, longer) = row
  <2>1. ASSUME NEW u \in Time, q[2] < u /\ u <= t PROVE table[a][u] = 0
    <3>1. u \notin T
      <4>1. u \in Nat /\ ~(u <= q[2])
        BY <1>5, <2>1, TimeIsFinite
      <4> QED
        BY <1>2, <4>1
    <3>2. table[a][u] \in Nat
      OBVIOUS
    <3> QED
      BY <3>1, <3>2 DEF T, TimesOf
  <2>2. RowCount(a, new, q[1], t) = RowCount(a, table, q[1], q[2]) + 1
    <3>1. GrowsAt(a, table, new, q[2], t)
      BY <2>1 DEF GrowsAt
    <3> QED
      BY <1>5, <3>1, RowCountGrows
  <2> QED
    BY <1>4, <2>2 DEF Piece, U
<1>8. ASSUME NEW p \in Runs(T) \ {q} PROVE Piece(a, table, p) # Piece(a, table, q)
  <2>1. p[2] # q[2]
    BY <1>3, <1>5
  <2> QED
    BY <2>1, PieceFields
<1> HIDE DEF row, longer
<1>9. Pieces(a, new) = {Piece(a, new, p) : p \in (Runs(T) \ {q}) \cup {longer}}
  BY <1>3 DEF Pieces, U
<1>10. Pieces(a, table) = {Piece(a, table, p) : p \in Runs(T)}
  BY DEF Pieces, T
<1>11. Pieces(a, table) \ {Piece(a, table, q)} = {Piece(a, new, p) : p \in Runs(T) \ {q}}
  BY <1>2, <1>6, <1>8, <1>10
<1>12. Pieces(a, new) = (Pieces(a, table) \ {Piece(a, table, q)}) \cup {row}
  BY <1>7, <1>9, <1>11
<1> QED
  BY <1>12 DEF row, T

-----------------------------------------------------------------------------
(* The flights are the segments of the positions that were counted.        *)

\* The row the tracker names, or a pending statement is about, is as they say.
Latest(a) ==
  /\ plan[a].op = "none" /\ tracker[a] # NoFlight =>
       \E r \in RowsOf(a, flights) : r.num = tracker[a].num /\ r.last = tracker[a].last
  /\ plan[a].op = "update" =>
       \E r \in RowsOf(a, flights) :
         r.num = plan[a].num /\ r.last <= plan[a].at /\ plan[a].at - r.last <= Gap
  /\ plan[a].op = "insert" =>
       \/ RowsOf(a, flights) = {} /\ plan[a].num = 0
       \/ \E r \in RowsOf(a, flights) : plan[a].num = r.num + 1

SegmentInv ==
  /\ flights = Segments(counted)
  /\ open => \A a \in Aircraft : Latest(a)

\* A row and the run it stands for.
LEMMA RowsAreRuns ==
  ASSUME TypeOK, flights = Segments(counted), NEW a \in Aircraft
  PROVE  /\ TimesOf(a, counted) \in SUBSET Time
         /\ RowsOf(a, flights) = Pieces(a, counted)
         /\ \A r \in RowsOf(a, flights) : \E p \in Runs(TimesOf(a, counted)) :
              /\ r = Piece(a, counted, p)
              /\ r.num = FlightNum(TimesOf(a, counted), p[1])
              /\ r.first = p[1] /\ r.last = p[2]
         /\ \A p \in Runs(TimesOf(a, counted)) : \E r \in RowsOf(a, flights) :
              /\ r = Piece(a, counted, p)
              /\ r.num = FlightNum(TimesOf(a, counted), p[1])
              /\ r.first = p[1] /\ r.last = p[2]
<1>1. RowsOf(a, flights) = Pieces(a, counted)
  BY SegmentsOf
<1>2. TimesOf(a, counted) \in SUBSET Time
  BY DEF TimesOf
<1>3. \A p \in Runs(TimesOf(a, counted)) : Piece(a, counted, p) \in Pieces(a, counted)
  BY DEF Pieces
<1>4. \A r \in Pieces(a, counted) : \E p \in Runs(TimesOf(a, counted)) : r = Piece(a, counted, p)
  BY DEF Pieces
<1> QED
  BY <1>1, <1>2, <1>3, <1>4, PieceFields

\* The number of the flight an INSERT is about is the number of flights so far.
LEMMA InsertNumber ==
  ASSUME KeyInv, SegmentInv, open, NEW a \in Aircraft, plan[a].op = "insert"
  PROVE  plan[a].num = Cardinality(Starts(TimesOf(a, counted)))
<1> DEFINE T == TimesOf(a, counted)
           n == Cardinality(Starts(T))
<1>1. /\ T \in SUBSET Time
      /\ \A r \in RowsOf(a, flights) : \E p \in Runs(T) : r.num = FlightNum(T, p[1])
      /\ \A p \in Runs(T) : \E r \in RowsOf(a, flights) : r.num = FlightNum(T, p[1])
  BY RowsAreRuns DEF KeyInv, SegmentInv
<1> HIDE DEF T
<1>2. /\ \A p \in Runs(T) : FlightNum(T, p[1]) \in Nat /\ FlightNum(T, p[1]) < n
      /\ n \in Nat
      /\ \A k \in 0..(n - 1) : \E p \in Runs(T) : FlightNum(T, p[1]) = k
  BY <1>1, NumbersDense
<1> HIDE DEF n
<1>3. /\ \A r \in RowsOf(a, flights) : r.num \in Nat /\ r.num < n /\ r.num < plan[a].num
      /\ \A k \in 0..(n - 1) : \E r \in RowsOf(a, flights) : r.num = k
      /\ plan[a].num \in Nat
  <2>1. \A r \in RowsOf(a, flights) : r.num < plan[a].num
    BY DEF KeyInv, KeysNeverConflict
  <2>2. plan[a].num \in Nat
    BY DEF KeyInv, TypeOK
  <2> QED
    BY <1>1, <1>2, <2>1, <2>2
<1>4. ~(plan[a].num < n)
  <2>1. SUFFICES ASSUME plan[a].num < n PROVE FALSE
    OBVIOUS
  <2>2. plan[a].num \in 0..(n - 1)
    BY <1>2, <1>3, <2>1
  <2>3. PICK r \in RowsOf(a, flights) : r.num = plan[a].num
    BY <1>3, <2>2
  <2> QED
    BY <1>3, <2>3
<1>5. plan[a].num <= n
  <2>1. CASE RowsOf(a, flights) = {} /\ plan[a].num = 0
    BY <1>2, <2>1
  <2>2. CASE \E r \in RowsOf(a, flights) : plan[a].num = r.num + 1
    BY <1>2, <1>3, <2>2
  <2> QED
    BY <2>1, <2>2 DEF SegmentInv, Latest
<1>6. plan[a].num = n
  BY <1>2, <1>3, <1>4, <1>5
<1> QED
  BY <1>6 DEF n, T

\* A new flight is a new segment.
LEMMA InsertFlightSegments ==
  ASSUME KeyInv, SeparationInv, SegmentInv, NEW a \in Aircraft, InsertFlight(a)
  PROVE  flights' = Segments(counted')
<1> DEFINE t == plan[a].at
           new == Row(a, plan[a].num, t, t, 1)
           T == TimesOf(a, counted)
<1>1. plan[a].op = "insert" /\ open /\ plan[a].num \in Nat /\ t \in Time
      /\ \A r \in RowsOf(a, flights) : r.num < plan[a].num /\ r.num \in Nat
  BY NothingPlanned DEF InsertFlight, KeyInv, TypeOK, TrackerAhead, KeysNeverConflict, RowsOf
<1>2. ~ \E r \in RowsOf(a, flights) : r.num = plan[a].num
  BY <1>1
<1>3. /\ flights' = flights \cup {new}
      /\ counted' = [counted EXCEPT ![a][t] = @ + 1]
  BY <1>2 DEF InsertFlight, Count
<1>4. counted \in [Aircraft -> [Time -> Nat]]
  BY DEF KeyInv, TypeOK
<1>5. \A u \in T : t - u > Gap
  <2> SUFFICES ASSUME NEW u \in T PROVE t - u > Gap
    OBVIOUS
  <2>1. /\ T \in SUBSET Time
        /\ \A p \in Runs(T) : \E r \in RowsOf(a, flights) : r.last = p[2]
    BY RowsAreRuns DEF KeyInv, SegmentInv
  <2> HIDE DEF T
  <2>2. PICK p \in Runs(T) : u <= p[2]
    BY <2>1, RunsCover
  <2>3. PICK r \in RowsOf(a, flights) : r.last = p[2]
    BY <2>1
  <2>4. t - r.last > Gap
    BY <1>1 DEF SeparationInv
  <2>5. u \in Nat /\ t \in Nat /\ p[2] \in Nat /\ Gap \in Nat
    <3>1. p[2] \in Ends(T)
      BY DEF Runs
    <3> QED
      BY <1>1, <2>1, <3>1, TimeFacts, TimeIsFinite
  <2> QED
    BY <2>2, <2>3, <2>4, <2>5
<1>6. plan[a].num = Cardinality(Starts(T))
  BY <1>1, InsertNumber
<1>7. new.aircraft = a
  BY DEF Row
<1>8. counted'[a] = [counted[a] EXCEPT ![t] = @ + 1]
      /\ \A b \in Aircraft \ {a} : counted'[b] = counted[b]
  BY <1>3, <1>4
<1> HIDE DEF t
<1>9. Pieces(a, counted') = Pieces(a, counted) \cup {Row(a, Cardinality(Starts(T)), t, t, 1)}
  BY <1>1, <1>4, <1>5, <1>8, PiecesInsert
<1>10. Pieces(a, counted') = Pieces(a, counted) \cup {new}
  BY <1>6, <1>9
<1> HIDE DEF new, T
<1>11. \A b \in Aircraft : RowsOf(b, flights) = Pieces(b, counted)
  BY RowsAreRuns DEF KeyInv, SegmentInv
<1>12. ASSUME NEW b \in Aircraft PROVE RowsOf(b, flights') = Pieces(b, counted')
  <2>1. CASE b = a
    BY <1>3, <1>7, <1>10, <1>11, <2>1 DEF RowsOf
  <2>2. CASE b # a
    <3>1. RowsOf(b, flights') = RowsOf(b, flights)
      BY <1>3, <1>7, <2>2 DEF RowsOf
    <3>2. Pieces(b, counted') = Pieces(b, counted)
      BY <1>8, <2>2, SamePieces
    <3> QED
      BY <1>11, <3>1, <3>2
  <2> QED
    BY <2>1, <2>2
<1>13. \A r \in flights' : r.aircraft \in Aircraft
  BY <1>3, <1>7 DEF KeyInv, TypeOK
<1> QED
  BY <1>12, <1>13, SameRows

\* The flight an UPDATE is about is the last segment of its aircraft.
LEMMA UpdatedIsLast ==
  ASSUME KeyInv, SegmentInv, open, NEW a \in Aircraft, plan[a].op = "update"
  PROVE  \E q \in Runs(TimesOf(a, counted)) :
           /\ Piece(a, counted, q) \in RowsOf(a, flights)
           /\ Piece(a, counted, q).num = plan[a].num
           /\ \A u \in TimesOf(a, counted) : u <= q[2]
           /\ q[2] <= plan[a].at /\ plan[a].at - q[2] <= Gap
<1> DEFINE T == TimesOf(a, counted)
<1>1. PICK r \in RowsOf(a, flights) :
        r.num = plan[a].num /\ r.last <= plan[a].at /\ plan[a].at - r.last <= Gap
  BY DEF SegmentInv, Latest
<1>2. /\ T \in SUBSET Time
      /\ \A p \in Runs(T) : \E s \in RowsOf(a, flights) : s.num = FlightNum(T, p[1])
  BY RowsAreRuns DEF KeyInv, SegmentInv
<1>3. PICK q \in Runs(T) :
        r = Piece(a, counted, q) /\ r.num = FlightNum(T, q[1]) /\ r.last = q[2]
  BY RowsAreRuns DEF KeyInv, SegmentInv
<1> HIDE DEF T
<1>4. \A s \in RowsOf(a, flights) : s.num <= plan[a].num
  BY NothingPlanned DEF KeyInv, TrackerAhead, RowsOf
<1>5. ASSUME NEW u \in T PROVE u <= q[2]
  <2>1. PICK p \in Runs(T) : u <= p[2]
    BY <1>2, RunsCover
  <2>2. p[1] \in Starts(T) /\ q[1] \in Starts(T) /\ p[2] \in Ends(T) /\ q[2] \in Ends(T)
        /\ q[1] <= q[2]
    BY DEF Runs
  <2>3. /\ u \in Nat /\ p[1] \in Nat /\ q[1] \in Nat /\ p[2] \in Nat /\ q[2] \in Nat
        /\ Gap \in Nat
    BY <1>2, <2>2, TimeFacts
  <2>4. FlightNum(T, p[1]) <= FlightNum(T, q[1])
    BY <1>1, <1>2, <1>3, <1>4
  <2>5. ~(q[1] < p[1])
    <3>1. FlightNum(T, q[1]) \in Nat /\ FlightNum(T, p[1]) \in Nat
          /\ (q[1] < p[1] => FlightNum(T, q[1]) < FlightNum(T, p[1]))
      BY <1>2, <2>2, FlightNumIncreases
    <3> QED
      BY <2>4, <3>1
  <2>6. CASE p[1] = q[1]
    <3>1. p = q
      BY <1>2, <2>6, RunsSeparated
    <3> QED
      BY <2>1, <3>1
  <2>7. CASE p[1] < q[1]
    <3>1. q[1] - p[2] > Gap
      BY <1>2, <2>7, RunsSeparated
    <3> QED
      BY <2>1, <2>2, <2>3, <3>1
  <2> QED
    BY <2>3, <2>5, <2>6, <2>7
<1> QED
  BY <1>1, <1>3, <1>5 DEF T

LEMMA UpdateFlightSegments ==
  ASSUME KeyInv, SegmentInv, NEW a \in Aircraft, UpdateFlight(a)
  PROVE  /\ flights' = Segments(counted')
         /\ \E r \in RowsOf(a, flights') : r.num = plan[a].num /\ r.last = plan[a].at
<1> DEFINE t == plan[a].at
           T == TimesOf(a, counted)
           hit == {r \in RowsOf(a, flights) : r.num = plan[a].num}
<1>1. plan[a].op = "update" /\ open /\ t \in Time
  BY NothingPlanned DEF UpdateFlight, KeyInv, TypeOK, TrackerAhead
<1>2. PICK q \in Runs(T) :
           /\ Piece(a, counted, q) \in RowsOf(a, flights)
           /\ Piece(a, counted, q).num = plan[a].num
           /\ \A u \in T : u <= q[2]
           /\ q[2] <= t /\ t - q[2] <= Gap
  BY <1>1, UpdatedIsLast
<1>3. PICK old : old = Piece(a, counted, q)
  OBVIOUS
<1>4. hit = {old}
  BY <1>2, <1>3 DEF KeyInv, KeysNeverConflict, RowsOf
<1>5. /\ old \in flights /\ old.aircraft = a /\ old.num = plan[a].num
      /\ old.num = FlightNum(T, q[1]) /\ old.first = q[1] /\ old.last = q[2]
      /\ old.count = RowCount(a, counted, q[1], q[2])
  <2>1. old.count = RowCount(a, counted, q[1], q[2])
    BY <1>3 DEF Piece, Row
  <2> QED
    BY <1>2, <1>3, <2>1, PieceFields DEF RowsOf
<1>6. PICK new : new = Row(a, old.num, old.first, Greatest(old.last, t), old.count + 1)
  OBVIOUS
<1>7. /\ flights' = (flights \ {old}) \cup {new}
      /\ counted' = [counted EXCEPT ![a][t] = @ + 1]
  <2>1. /\ flights' = (flights \ hit) \cup
             {Row(a, r.num, r.first, Greatest(r.last, t), r.count + 1) : r \in hit}
        /\ IF hit = {} THEN UNCHANGED counted ELSE Count(a, t)
    BY DEF UpdateFlight
  <2> HIDE DEF hit
  <2> QED
    BY <1>4, <1>6, <2>1 DEF Count
<1>8. counted \in [Aircraft -> [Time -> Nat]] /\ T \in SUBSET Time
  BY DEF KeyInv, TypeOK, TimesOf
<1>9. counted'[a] = [counted[a] EXCEPT ![t] = @ + 1]
      /\ \A b \in Aircraft \ {a} : counted'[b] = counted[b]
  BY <1>7, <1>8
<1>10. Greatest(old.last, t) = t
  <2>1. q[2] \in Nat /\ t \in Nat
    BY <1>1, <1>8, TimeIsFinite, TimeFacts DEF Runs
  <2> QED
    BY <1>2, <1>5, <2>1 DEF Greatest
<1> HIDE DEF t, hit
<1>11. Pieces(a, counted') = (Pieces(a, counted) \ {Piece(a, counted, q)})
         \cup {Row(a, FlightNum(T, q[1]), q[1], t, RowCount(a, counted, q[1], q[2]) + 1)}
  BY <1>1, <1>2, <1>8, <1>9, PiecesUpdate
<1>12. Pieces(a, counted') = (Pieces(a, counted) \ {old}) \cup {new}
  BY <1>3, <1>5, <1>6, <1>10, <1>11
<1> HIDE DEF T
<1>13. new.aircraft = a /\ new.num = plan[a].num /\ new.last = t
  BY <1>5, <1>6, <1>10 DEF Row
<1>14. \A b \in Aircraft : RowsOf(b, flights) = Pieces(b, counted)
  BY RowsAreRuns DEF KeyInv, SegmentInv
<1>15. ASSUME NEW b \in Aircraft PROVE RowsOf(b, flights') = Pieces(b, counted')
  <2>1. CASE b = a
    <3>1. RowsOf(a, flights') = (RowsOf(a, flights) \ {old}) \cup {new}
      BY <1>7, <1>13 DEF RowsOf
    <3> QED
      BY <1>12, <1>14, <2>1, <3>1
  <2>2. CASE b # a
    <3>1. RowsOf(b, flights') = RowsOf(b, flights)
      BY <1>5, <1>7, <1>13, <2>2 DEF RowsOf
    <3>2. Pieces(b, counted') = Pieces(b, counted)
      BY <1>9, <2>2, SamePieces
    <3> QED
      BY <1>14, <3>1, <3>2
  <2> QED
    BY <2>1, <2>2
<1>16. \A r \in flights' : r.aircraft \in Aircraft
  BY <1>7, <1>13 DEF KeyInv, TypeOK
<1>17. flights' = Segments(counted')
  BY <1>15, <1>16, SameRows
<1>18. new \in RowsOf(a, flights')
  BY <1>7, <1>13 DEF RowsOf
<1> QED
  BY <1>13, <1>17, <1>18 DEF t

LEMMA SegmentInit == Init => SegmentInv
<1> SUFFICES ASSUME Init PROVE SegmentInv
  OBVIOUS
<1>1. ~open /\ flights = {}
  BY DEF Init
<1>2. \A a \in Aircraft : TimesOf(a, counted) = {}
  BY DEF Init, TimesOf
<1>3. Runs({}) = {}
  BY DEF Runs, Starts
<1>4. \A a \in Aircraft : Pieces(a, counted) = RowsOf(a, flights)
  BY <1>1, <1>2, <1>3 DEF Pieces, RowsOf
<1>5. flights = Segments(counted)
  BY <1>1, <1>4, SameRows
<1> QED
  BY <1>1, <1>5 DEF SegmentInv

LEMMA OpenKeepsSegments ==
  ASSUME KeyInv, SegmentInv, Open
  PROVE  SegmentInv'
<1>1. flights' = Segments(counted')
  BY DEF Open, SegmentInv
<1>2. \A a \in Aircraft : plan'[a].op = "none"
  BY NothingPlanned DEF Open, KeyInv, TrackerAhead
<1>3. ASSUME NEW a \in Aircraft, tracker'[a] # NoFlight
      PROVE  \E r \in RowsOf(a, flights') : r.num = tracker'[a].num /\ r.last = tracker'[a].last
  <2>1. IF RowsOf(a, flights') = {} THEN tracker'[a] = NoFlight
        ELSE \E r \in RowsOf(a, flights') : tracker'[a] = Active(r.num, r.last)
    BY DEF Open, Rebuilt
  <2>2. PICK r \in RowsOf(a, flights') : tracker'[a] = Active(r.num, r.last)
    BY <1>3, <2>1
  <2> QED
    BY <2>2 DEF Active
<1> QED
  BY <1>1, <1>2, <1>3 DEF SegmentInv, Latest

LEMMA InsertBatchKeepsSegments ==
  ASSUME Ordered, KeyInv, SeparationInv, SegmentInv, NEW batch \in Batches, InsertBatch(batch)
  PROVE  SegmentInv'
<1>1. /\ open /\ open' = open /\ flights' = flights /\ counted' = counted
      /\ \A a \in Aircraft : plan[a].op = "none"
  BY NothingPlanned DEF InsertBatch, Idle
<1>2. ASSUME NEW a \in Aircraft PROVE Latest(a)'
  <2>1. tracker[a] # NoFlight =>
          \E r \in RowsOf(a, flights) : r.num = tracker[a].num /\ r.last = tracker[a].last
    BY <1>1 DEF SegmentInv, Latest
  <2>2. CASE a \notin DOMAIN batch
    <3>1. tracker'[a] = tracker[a] /\ plan'[a].op = "none"
      BY <2>2 DEF InsertBatch, NoStatement, Statement
    <3> QED
      BY <1>1, <2>1, <3>1 DEF Latest
  <2>3. CASE a \in DOMAIN batch
    <3> DEFINE t == batch[a]
    <3>1. /\ t \in Time /\ t >= newest[a] /\ plan'[a] = PlanFor(a, t)
      BY <2>3, BatchFacts DEF InsertBatch
    <3> HIDE DEF t
    <3>2. tracker[a] \in Entry /\ tracker[a].last \in Nat /\ newest[a] \in Nat /\ t \in Nat
          /\ tracker[a].last <= t
      <4>1. tracker[a] \in Entry /\ tracker[a].last \in Time /\ newest[a] \in Time
        BY DEF KeyInv, TypeOK, Entry
      <4>2. tracker[a].last \in Nat /\ newest[a] \in Nat /\ t \in Nat
        BY <3>1, <4>1, TimeIsFinite
      <4>3. tracker[a].last <= newest[a]
        BY DEF SeparationInv
      <4> QED
        BY <3>1, <4>1, <4>2, <4>3
    <3>3. CASE Extends(a, t)
      <4>1. plan'[a].op = "update" /\ plan'[a].num = tracker[a].num /\ plan'[a].at = t
        BY <3>1, <3>3 DEF PlanFor, Statement
      <4>2. PICK r \in RowsOf(a, flights) : r.num = tracker[a].num /\ r.last = tracker[a].last
        BY <2>1, <3>3 DEF Extends
      <4>3. r.num = plan'[a].num /\ r.last <= plan'[a].at /\ plan'[a].at - r.last <= Gap
        BY <3>2, <3>3, <4>1, <4>2 DEF Extends
      <4> QED
        BY <1>1, <4>1, <4>2, <4>3 DEF Latest
    <3>4. CASE ~Extends(a, t)
      <4>1. plan'[a].op = "insert" /\ plan'[a].num = NextNum(a)
        BY <3>1, <3>4 DEF PlanFor, Statement
      <4>2. CASE tracker[a] = NoFlight
        <5>1. RowsOf(a, flights) = {}
          BY <1>1, <4>2 DEF KeyInv, TrackerAhead, RowsOf
        <5> QED
          BY <1>1, <4>1, <4>2, <5>1 DEF Latest, NextNum
      <4>3. CASE tracker[a] # NoFlight
        BY <1>1, <2>1, <4>1, <4>3 DEF Latest, NextNum
      <4> QED
        BY <4>2, <4>3
    <3> QED
      BY <3>3, <3>4
  <2> QED
    BY <2>2, <2>3
<1> QED
  BY <1>1, <1>2 DEF SegmentInv

\* What is said of an aircraft that a statement is not about.
LEMMA OthersLatest ==
  ASSUME NEW a \in Aircraft, NEW b \in Aircraft \ {a}, Latest(b),
         TypeOK, tracker' = tracker, plan' = [plan EXCEPT ![a] = NoStatement],
         RowsOf(b, flights') = RowsOf(b, flights)
  PROVE  Latest(b)'
<1>1. plan'[b] = plan[b]
  BY DEF TypeOK
<1> QED
  BY <1>1 DEF Latest

LEMMA InsertFlightKeepsSegments ==
  ASSUME KeyInv, SeparationInv, SegmentInv, NEW a \in Aircraft, InsertFlight(a)
  PROVE  SegmentInv'
<1>1. flights' = Segments(counted')
  BY InsertFlightSegments
<1>2. plan[a].op = "insert" /\ open /\ plan[a].num = tracker[a].num /\ plan[a].at = tracker[a].last
      /\ plan[a].num \in Nat
      /\ \A r \in RowsOf(a, flights) : r.num < plan[a].num /\ r.num \in Nat
  BY NothingPlanned DEF InsertFlight, KeyInv, TypeOK, TrackerAhead, KeysNeverConflict, RowsOf
<1>3. ~ \E r \in RowsOf(a, flights) : r.num = plan[a].num
  BY <1>2
<1>4. PICK new : new = Row(a, plan[a].num, plan[a].at, plan[a].at, 1)
  OBVIOUS
<1>5. /\ flights' = flights \cup {new}
      /\ plan' = [plan EXCEPT ![a] = NoStatement]
      /\ tracker' = tracker
  BY <1>3, <1>4 DEF InsertFlight
<1>6. new.aircraft = a /\ new.num = tracker[a].num /\ new.last = tracker[a].last
  BY <1>2, <1>4 DEF Row
<1>7. new \in RowsOf(a, flights') /\ \A b \in Aircraft \ {a} : RowsOf(b, flights') = RowsOf(b, flights)
  BY <1>5, <1>6 DEF RowsOf
<1>8. plan'[a].op = "none"
  BY <1>5 DEF KeyInv, TypeOK, NoStatement, Statement
<1>9. Latest(a)'
  BY <1>5, <1>6, <1>7, <1>8 DEF Latest
<1>10. ASSUME NEW b \in Aircraft \ {a} PROVE Latest(b)'
  <2>1. Latest(b) /\ TypeOK
    BY <1>2 DEF SegmentInv, KeyInv
  <2> QED
    BY <1>5, <1>7, <2>1, OthersLatest
<1> QED
  BY <1>1, <1>9, <1>10 DEF SegmentInv

LEMMA UpdateFlightKeepsSegments ==
  ASSUME KeyInv, SegmentInv, NEW a \in Aircraft, UpdateFlight(a)
  PROVE  SegmentInv'
<1>1. flights' = Segments(counted')
      /\ \E r \in RowsOf(a, flights') : r.num = plan[a].num /\ r.last = plan[a].at
  BY UpdateFlightSegments
<1>2. /\ plan[a].op = "update" /\ open
      /\ plan[a].num = tracker[a].num /\ plan[a].at = tracker[a].last
  BY NothingPlanned DEF UpdateFlight, KeyInv, TypeOK, TrackerAhead
<1>3. plan' = [plan EXCEPT ![a] = NoStatement] /\ tracker' = tracker
  BY DEF UpdateFlight
<1>4. plan'[a].op = "none"
  BY <1>3 DEF KeyInv, TypeOK, NoStatement, Statement
<1>5. Latest(a)'
  BY <1>1, <1>2, <1>3, <1>4 DEF Latest
<1>6. ASSUME NEW b \in Aircraft \ {a} PROVE RowsOf(b, flights') = RowsOf(b, flights)
  <2> DEFINE hit == {r \in RowsOf(a, flights) : r.num = plan[a].num}
             up == {Row(a, r.num, r.first, Greatest(r.last, plan[a].at), r.count + 1) : r \in hit}
  <2>1. flights' = (flights \ hit) \cup up
    BY DEF UpdateFlight
  <2>2. \A r \in up : r.aircraft = a
    BY DEF Row
  <2>3. \A r \in hit : r.aircraft = a
    BY DEF RowsOf
  <2> HIDE DEF hit, up
  <2> QED
    BY <2>1, <2>2, <2>3 DEF RowsOf
<1>7. ASSUME NEW b \in Aircraft \ {a} PROVE Latest(b)'
  <2>1. Latest(b) /\ TypeOK
    BY <1>2 DEF SegmentInv, KeyInv
  <2> QED
    BY <1>3, <1>6, <2>1, OthersLatest
<1> QED
  BY <1>1, <1>5, <1>7 DEF SegmentInv

LEMMA SegmentStep ==
  ASSUME Ordered, ~Fallible
  PROVE  KeyInv /\ SeparationInv /\ SegmentInv /\ [Next]_vars => SegmentInv'
<1> SUFFICES ASSUME KeyInv, SeparationInv, SegmentInv, [Next]_vars PROVE SegmentInv'
  OBVIOUS
<1>1. CASE Open
  BY <1>1, OpenKeepsSegments
<1>2. CASE Close
  BY <1>2 DEF Close, SegmentInv
<1>3. CASE \E batch \in Batches : InsertBatch(batch)
  BY <1>3, InsertBatchKeepsSegments
<1>4. CASE \E a \in Aircraft : InsertFlight(a)
  BY <1>4, InsertFlightKeepsSegments
<1>5. CASE \E a \in Aircraft : UpdateFlight(a)
  BY <1>5, UpdateFlightKeepsSegments
<1>6. CASE StatementFails
  BY <1>6 DEF StatementFails
<1>7. CASE \E cutoff \in Time : Prune(cutoff)
  BY <1>7 DEF Prune, SegmentInv, Latest
<1>8. CASE \E file \in Files : Import(file)
  BY <1>8 DEF Import, SegmentInv, Latest
<1>9. CASE UNCHANGED vars
  BY <1>9 DEF vars, SegmentInv, Latest
<1> QED
  BY <1>1, <1>2, <1>3, <1>4, <1>5, <1>6, <1>7, <1>8, <1>9 DEF Next

\* The numbers of the flights of an aircraft have no hole.
LEMMA SegmentsNumbered ==
  ASSUME KeyInv, SegmentInv, NEW r \in flights, NEW k \in 0..(r.num - 1)
  PROVE  \E s \in RowsOf(r.aircraft, flights) : s.num = k
<1>1. PICK a \in Aircraft : a = r.aircraft
  BY DEF KeyInv, TypeOK
<1> DEFINE T == TimesOf(a, counted)
           n == Cardinality(Starts(T))
<1>2. r \in RowsOf(a, flights)
  BY <1>1 DEF RowsOf
<1>3. /\ T \in SUBSET Time
      /\ \A s \in RowsOf(a, flights) : \E p \in Runs(T) : s.num = FlightNum(T, p[1])
      /\ \A p \in Runs(T) : \E s \in RowsOf(a, flights) : s.num = FlightNum(T, p[1])
  BY RowsAreRuns DEF KeyInv, SegmentInv
<1> HIDE DEF T
<1>4. /\ \A p \in Runs(T) : FlightNum(T, p[1]) \in Nat /\ FlightNum(T, p[1]) < n
      /\ n \in Nat
      /\ \A m \in 0..(n - 1) : \E p \in Runs(T) : FlightNum(T, p[1]) = m
  BY <1>3, NumbersDense
<1> HIDE DEF n
<1>5. r.num \in Nat /\ r.num < n
  BY <1>2, <1>3, <1>4
<1>6. k \in 0..(n - 1)
  BY <1>4, <1>5
<1> QED
  BY <1>1, <1>3, <1>4, <1>6

\* If timestamps never step back and no statement fails in a process that goes on,
\* then, over any crashes, prunes and imports, the flights built position by
\* position are the ones the window query computes from the counted positions.
THEOREM SegmentsExact == ASSUME Ordered, ~Fallible PROVE Spec => []FlightsAreSegments
<1>1. KeyInv /\ KeyInv' /\ SeparationInv /\ [Next]_vars => SeparationInv'
  BY SeparationStep
<1>2. KeyInv /\ SeparationInv /\ SegmentInv /\ [Next]_vars => SegmentInv'
  BY SegmentStep
<1>3. KeyInv /\ SegmentInv => FlightsAreSegments
  BY SegmentsNumbered DEF FlightsAreSegments, SegmentInv
<1> QED
  BY <1>1, <1>2, <1>3, SeparationInit, SegmentInit, KeyInvKept, PTL DEF Spec
=============================================================================
