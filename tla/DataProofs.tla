------------------------------ MODULE DataProofs ------------------------------
(***************************************************************************)
(* The tables and queries of the data engine, and what is read from lines  *)
(* and settings.                                                           *)
(*                                                                         *)
(* Recorded rows: RowsBounded bounds the tables; what makes it inductive is*)
(* the same bound on the file beside the database, which an import reads   *)
(* back: either it is still the other receiver's, or an export made it     *)
(* from tables that kept the bound (FileSound).                            *)
(*                                                                         *)
(* Authored rows: a call that waits for the mutex carries ids and a date   *)
(* from before; what it may count on at its turn (CallSound) is that the   *)
(* ids it was given had been drawn and that no row of theirs is younger    *)
(* than the call.                                                          *)
(*                                                                         *)
(* The lines and the settings: what is read from a stream of bytes, what   *)
(* waits between two connections and what a service makes of its flags,    *)
(* its environment and its file are functions of what they are given, and  *)
(* are proved for every such input: by induction over the bytes, the reads *)
(* and the connections for the lines, field by field for the settings.     *)
(*                                                                         *)
(* The queries: what they answer is proved to agree for every table, from  *)
(* the order of the rows (Listing InOrder) and from how many rows or       *)
(* flights each of them counts.                                            *)
(*                                                                         *)
(* The three invariants of DataSpec then need only that every question     *)
(* that is asked is one of these inputs (AskedSound).                      *)
(***************************************************************************)
EXTENDS MCData, Counting

-----------------------------------------------------------------------------
(* The recorded tables: failing and repeated calls neither lose nor double *)
(* a row, for every set of hours, bound of the times and content of the    *)
(* other receiver's file.                                                  *)

TablesTyped ==
  /\ positions \in [Time -> Nat] /\ raw \in [Time -> Nat] /\ weather \in [Key -> Nat]
  /\ recorded \in [positions : [Time -> Nat], raw : [Time -> Nat], weather : [Key -> Nat]]
  /\ merged \in [positions : SUBSET Time, raw : SUBSET Time, weather : SUBSET Key]
  /\ attached \in BOOLEAN /\ status \in Nat /\ cut \in Nat

GivenSound == \A t \in Time : GivenAt("positions", t) \in Nat /\ GivenAt("raw", t) \in Nat

FileSound ==
  file # Absent =>
    /\ file.positions # Absent =>
         /\ file.positions \in [Time -> Nat]
         /\ \A t \in Time : file.positions[t] <= recorded.positions[t] + GivenAt("positions", t)
    /\ file.raw # Absent =>
         /\ file.raw \in [Time -> Nat]
         /\ \A t \in Time : file.raw[t] <= recorded.raw[t] + GivenAt("raw", t)
    /\ file.weather # Absent =>
         file.weather \in [Key -> Nat] /\ \A k \in Key : file.weather[k] <= 1

NoneLost ==
  /\ \A t \in Time : t >= cut => positions[t] >= recorded.positions[t] /\ raw[t] >= recorded.raw[t]
  /\ \A k \in Key : weather[k] >= recorded.weather[k]

NoneDoubled ==
  /\ \A t \in Time :
       /\ positions[t] <= recorded.positions[t] + GivenAt("positions", t)
       /\ raw[t] <= recorded.raw[t] + GivenAt("raw", t)
  /\ \A k \in Key : weather[k] <= 1

MergedKept ==
  /\ merged.positions \subseteq Keys(positions)
  /\ merged.raw \subseteq Keys(raw)
  /\ merged.weather \subseteq Keys(weather)

RecordedInv == TablesTyped /\ GivenSound /\ FileSound /\ NoneLost /\ NoneDoubled /\ MergedKept

(***************************************************************************)
(* The invariant says what RowsBounded says.                               *)
(***************************************************************************)
LEMMA RecordedInvImplies == RecordedInv => RowsBounded
BY DEF RecordedInv, TablesTyped, NoneLost, NoneDoubled, MergedKept, RowsBounded, RecordedTypeOK

(***************************************************************************)
(* What the helpers make of a table.                                       *)
(***************************************************************************)
LEMMA PlusOne ==
  ASSUME NEW K, NEW f \in [K -> Nat], NEW k \in K
  PROVE  /\ Plus(f, k) \in [K -> Nat]
         /\ \A j \in K : Plus(f, k)[j] = IF j = k THEN f[j] + 1 ELSE f[j]
BY DEF Plus

\* Pruning keeps the rows that are not older than the bound.
LEMMA PrunedTable ==
  ASSUME NEW f \in [Time -> Nat], NEW c \in Time
  PROVE  /\ Pruned(f, c) \in [Time -> Nat]
         /\ \A t \in Time : Pruned(f, c)[t] <= f[t] /\ (t >= c => Pruned(f, c)[t] = f[t])
<1> \A t \in Time : t \in Nat BY RecordedAssumption DEF Time
<1> QED BY DEF Pruned

\* An import adds the rows whose keys are not there, as often as the file has them.
LEMMA MissingTable ==
  ASSUME NEW K, NEW to \in [K -> Nat], NEW from, from # Absent => from \in [K -> Nat]
  PROVE  /\ Missing(to, from) \in [K -> Nat]
         /\ \A k \in K : /\ Missing(to, from)[k] >= to[k]
                         /\ Missing(to, from)[k] = to[k]
                              \/ (from # Absent /\ Missing(to, from)[k] = from[k])
                         /\ k \in KeysIn(from) => Missing(to, from)[k] > 0
         /\ KeysIn(from) \subseteq K
<1>1. Missing(to, from) = [k \in K |-> IF from = Absent \/ to[k] > 0 THEN to[k] ELSE from[k]]
  BY DEF Missing
<1>2. \A k \in K : to[k] \in Nat /\ (from # Absent => from[k] \in Nat)
  OBVIOUS
<1>3. KeysIn(from) \subseteq K
  BY DEF KeysIn, Keys
<1>4. \A k \in KeysIn(from) : from # Absent /\ from[k] > 0
  BY DEF KeysIn, Keys
<1> QED BY <1>1, <1>2, <1>3, <1>4

(***************************************************************************)
(* The other receiver's file, if there is one, is well formed.             *)
(***************************************************************************)
LEMMA RecordedInvInit == RecordedInit => RecordedInv
<1> SUFFICES ASSUME RecordedInit PROVE RecordedInv OBVIOUS
<1> USE RecordedAssumption
<1>1. TablesTyped
  BY DEF RecordedInit, TablesTyped, NoRows, Time, Key
<1>2. given # Absent =>
        /\ given.positions \in [Time -> Nat] /\ given.raw \in [Time -> Nat]
        /\ given.weather # Absent =>
             given.weather \in [Key -> Nat] /\ \A k \in Key : given.weather[k] <= 1
  <2> SUFFICES ASSUME given # Absent
               PROVE  /\ given.positions \in [Time -> Nat] /\ given.raw \in [Time -> Nat]
                      /\ given.weather # Absent =>
                           given.weather \in [Key -> Nat] /\ \A k \in Key : given.weather[k] <= 1
    OBVIOUS
  <2>1. given \in OtherFiles
    BY DEF RecordedInit
  <2> DEFINE W == {Absent, NoRows(Key)} \cup {Plus(NoRows(Key), <<o, h>>) : o \in {Own, Other}, h \in Hours}
             F(P, n, w) == [positions |-> [t \in Time |-> IF t \in P THEN n ELSE 0],
                            raw |-> [t \in Time |-> IF t \in P THEN 1 ELSE 0], weather |-> w]
  <2>a. OtherFiles = {F(P, n, w) : P \in SUBSET Time, n \in 1..2, w \in W}
    BY DEF OtherFiles
  <2> HIDE DEF F, W
  <2>2. PICK P \in SUBSET Time, n \in 1..2, w \in W : given = F(P, n, w)
    BY <2>1, <2>a
  <2> USE DEF F, W
  <2>3. w # Absent => w \in [Key -> Nat] /\ \A k \in Key : w[k] <= 1
    <3>1. NoRows(Key) \in [Key -> Nat] /\ \A k \in Key : NoRows(Key)[k] = 0
      BY DEF NoRows
    <3>2. CASE w = NoRows(Key)
      BY <3>1, <3>2
    <3>3. CASE \E k \in Key : w = Plus(NoRows(Key), k)
      <4>1. PICK k \in Key : w = Plus(NoRows(Key), k)
        BY <3>3
      <4>2. w \in [Key -> Nat] /\ \A j \in Key : w[j] = IF j = k THEN 0 + 1 ELSE 0
        BY <3>1, <4>1, PlusOne
      <4>3. \A j \in Key : w[j] \in {0, 1}
        BY <4>2
      <4> QED BY <4>2, <4>3
    <3>4. \A o \in {Own, Other}, h \in Hours : <<o, h>> \in Key
      BY DEF Key
    <3>5. CASE w \in {Plus(NoRows(Key), <<o, h>>) : o \in {Own, Other}, h \in Hours}
      <4>1. PICK o \in {Own, Other} : \E h \in Hours : w = Plus(NoRows(Key), <<o, h>>)
        BY <3>5
      <4>2. PICK h \in Hours : w = Plus(NoRows(Key), <<o, h>>)
        BY <4>1
      <4> QED BY <3>3, <3>4, <4>2
    <3> QED BY <3>2, <3>5
  <2>4. /\ [t \in Time |-> IF t \in P THEN n ELSE 0] \in [Time -> Nat]
        /\ [t \in Time |-> IF t \in P THEN 1 ELSE 0] \in [Time -> Nat]
    OBVIOUS
  <2> QED BY <2>2, <2>3, <2>4
<1>3. \A t \in Time :
        /\ GivenAt("positions", t) \in Nat /\ GivenAt("raw", t) \in Nat
        /\ given # Absent => /\ given.positions # Absent => GivenAt("positions", t) = given.positions[t]
                             /\ given.raw # Absent => GivenAt("raw", t) = given.raw[t]
  BY <1>2 DEF GivenAt, Rows
<1>4. file = given /\ recorded.positions = NoRows(Time) /\ recorded.raw = NoRows(Time)
      /\ recorded.weather = NoRows(Key)
  BY DEF RecordedInit
<1>5. FileSound
  BY <1>2, <1>3, <1>4 DEF FileSound, NoRows
<1>6. NoneLost /\ NoneDoubled /\ MergedKept
  BY <1>3, <1>4 DEF RecordedInit, NoneLost, NoneDoubled, MergedKept, NoRows, Keys
<1> QED BY <1>1, <1>3, <1>5, <1>6 DEF RecordedInv, GivenSound


(***************************************************************************)
(* Every call keeps the invariant: Recording touches one row and its       *)
(* history alike, Prune drops what `cut` gives up, Export copies tables    *)
(* that are sound, Import adds only rows of keys that had none.            *)
(***************************************************************************)
LEMMA RecordedInvStep == RecordedInv /\ [RecordedNext]_recordedVars => RecordedInv'
<1> SUFFICES ASSUME RecordedInv, [RecordedNext]_recordedVars PROVE RecordedInv' OBVIOUS
<1> USE RecordedAssumption
<1>t. TablesTyped /\ GivenSound /\ FileSound /\ NoneLost /\ NoneDoubled /\ MergedKept
  BY DEF RecordedInv
<1>n. \A t \in Time : /\ t \in Nat /\ positions[t] \in Nat /\ raw[t] \in Nat
                      /\ recorded.positions[t] \in Nat /\ recorded.raw[t] \in Nat
                      /\ GivenAt("positions", t) \in Nat /\ GivenAt("raw", t) \in Nat
  BY <1>t DEF TablesTyped, GivenSound, Time
<1>w. \A k \in Key : weather[k] \in Nat /\ recorded.weather[k] \in Nat
  BY <1>t DEF TablesTyped
<1>g. given' = given
  BY DEF RecordedNext, recordedVars, past, RecordPosition, RecordRaw, RecordWeather, RecordStatus,
         Prune, Export, Import, Reopen
<1>h. GivenSound' /\ \A t \in Time : /\ GivenAt("positions", t)' = GivenAt("positions", t)
                                     /\ GivenAt("raw", t)' = GivenAt("raw", t)
  BY <1>g, <1>t DEF GivenSound, GivenAt, Rows
<1>1. CASE RecordPosition
  <2>1. PICK t \in Time : /\ positions' = Plus(positions, t)
                          /\ recorded' = [recorded EXCEPT !.positions = Plus(@, t)]
    BY <1>1 DEF RecordPosition
  <2>2. /\ positions' \in [Time -> Nat]
        /\ \A u \in Time : positions'[u] = IF u = t THEN positions[u] + 1 ELSE positions[u]
    <3>1. positions \in [Time -> Nat]
      BY <1>t DEF TablesTyped
    <3> QED BY <3>1, <2>1, PlusOne
  <2>3. /\ recorded'.positions \in [Time -> Nat]
        /\ \A u \in Time : recorded'.positions[u] =
             IF u = t THEN recorded.positions[u] + 1 ELSE recorded.positions[u]
        /\ recorded'.raw = recorded.raw /\ recorded'.weather = recorded.weather
        /\ recorded' = [positions |-> recorded'.positions, raw |-> recorded.raw, weather |-> recorded.weather]
    <3>1. recorded.positions \in [Time -> Nat]
      BY <1>t DEF TablesTyped
    <3>2. /\ recorded'.positions = Plus(recorded.positions, t)
          /\ recorded'.raw = recorded.raw /\ recorded'.weather = recorded.weather
          /\ recorded' = [positions |-> recorded'.positions, raw |-> recorded.raw, weather |-> recorded.weather]
      BY <2>1, <1>t DEF TablesTyped
    <3> QED BY <3>1, <3>2, PlusOne
  <2>4. UNCHANGED <<raw, weather, status, file, attached, cut, merged>>
    BY <1>1 DEF RecordPosition
  <2>5. TablesTyped'
    BY <2>2, <2>3, <2>4, <1>t DEF TablesTyped
  <2>6. NoneLost' /\ NoneDoubled'
    BY <2>2, <2>3, <2>4, <1>t, <1>n, <1>h DEF NoneLost, NoneDoubled, TablesTyped
  <2>7. FileSound'
    <3>1. \A u \in Time : recorded'.positions[u] >= recorded.positions[u]
      BY <2>3, <1>n
    <3>2. \A u \in Time : recorded'.positions[u] \in Nat
      BY <2>3
    <3> QED BY <3>1, <3>2, <2>3, <2>4, <1>t, <1>n, <1>h DEF FileSound
  <2>8. MergedKept'
    BY <2>2, <2>4, <1>t, <1>n DEF MergedKept, Keys, TablesTyped
  <2> QED BY <2>5, <2>6, <2>7, <2>8, <1>h DEF RecordedInv
<1>2. CASE RecordRaw
  <2>1. PICK t \in Time : /\ raw' = Plus(raw, t)
                          /\ recorded' = [recorded EXCEPT !.raw = Plus(@, t)]
    BY <1>2 DEF RecordRaw
  <2>2. /\ raw' \in [Time -> Nat]
        /\ \A u \in Time : raw'[u] = IF u = t THEN raw[u] + 1 ELSE raw[u]
    BY <2>1, <1>t, PlusOne DEF TablesTyped
  <2>3. /\ recorded'.raw \in [Time -> Nat]
        /\ \A u \in Time : recorded'.raw[u] = IF u = t THEN recorded.raw[u] + 1 ELSE recorded.raw[u]
        /\ recorded'.positions = recorded.positions /\ recorded'.weather = recorded.weather
        /\ recorded' = [positions |-> recorded.positions, raw |-> recorded'.raw, weather |-> recorded.weather]
    <3>1. recorded.raw \in [Time -> Nat]
      BY <1>t DEF TablesTyped
    <3>2. /\ recorded'.raw = Plus(recorded.raw, t)
          /\ recorded'.positions = recorded.positions /\ recorded'.weather = recorded.weather
          /\ recorded' = [positions |-> recorded.positions, raw |-> recorded'.raw, weather |-> recorded.weather]
      BY <2>1, <1>t DEF TablesTyped
    <3> QED BY <3>1, <3>2, PlusOne
  <2>4. UNCHANGED <<positions, weather, status, file, attached, cut, merged>>
    BY <1>2 DEF RecordRaw
  <2>5. TablesTyped'
    BY <2>2, <2>3, <2>4, <1>t DEF TablesTyped
  <2>6. NoneLost' /\ NoneDoubled'
    BY <2>2, <2>3, <2>4, <1>t, <1>n, <1>h DEF NoneLost, NoneDoubled, TablesTyped
  <2>7. FileSound'
    <3>1. \A u \in Time : recorded'.raw[u] >= recorded.raw[u]
      BY <2>3, <1>n
    <3>2. \A u \in Time : recorded'.raw[u] \in Nat
      BY <2>3
    <3> QED BY <3>1, <3>2, <2>3, <2>4, <1>t, <1>n, <1>h DEF FileSound
  <2>8. MergedKept'
    BY <2>2, <2>4, <1>t, <1>n DEF MergedKept, Keys, TablesTyped
  <2> QED BY <2>5, <2>6, <2>7, <2>8, <1>h DEF RecordedInv
<1>3. CASE RecordWeather
  <2>1. PICK h \in Hours :
          IF weather[<<Own, h>>] > 0
          THEN UNCHANGED <<weather, recorded>>
          ELSE /\ weather' = Plus(weather, <<Own, h>>)
               /\ recorded' = [recorded EXCEPT !.weather = Plus(@, <<Own, h>>)]
    BY <1>3 DEF RecordWeather
  <2>2. UNCHANGED <<positions, raw, status, file, attached, cut, merged>>
    BY <1>3 DEF RecordWeather
  <2>3. CASE weather[<<Own, h>>] > 0
    <3>1. UNCHANGED <<weather, recorded>>
      BY <2>1, <2>3
    <3> QED BY <3>1, <2>2, <1>t, <1>h DEF RecordedInv, TablesTyped, FileSound, NoneLost, NoneDoubled, MergedKept, Keys
  <2>4. CASE ~(weather[<<Own, h>>] > 0)
    <3> DEFINE k == <<Own, h>>
    <3>k. k \in Key
      BY DEF Key
    <3>w. weather' = Plus(weather, k) /\ recorded' = [recorded EXCEPT !.weather = Plus(@, k)] /\ ~(weather[k] > 0)
      BY <2>1, <2>4
    <3> HIDE DEF k
    <3>1. /\ weather' \in [Key -> Nat]
          /\ \A j \in Key : weather'[j] = IF j = k THEN weather[j] + 1 ELSE weather[j]
      BY <3>k, <3>w, <1>t, PlusOne DEF TablesTyped
    <3>2. /\ recorded'.weather \in [Key -> Nat]
          /\ \A j \in Key : recorded'.weather[j] =
               IF j = k THEN recorded.weather[j] + 1 ELSE recorded.weather[j]
          /\ recorded'.positions = recorded.positions /\ recorded'.raw = recorded.raw
          /\ recorded' = [positions |-> recorded.positions, raw |-> recorded.raw, weather |-> recorded'.weather]
      <4>1. recorded.weather \in [Key -> Nat]
        BY <1>t DEF TablesTyped
      <4>2. /\ recorded'.weather = Plus(recorded.weather, k)
            /\ recorded'.positions = recorded.positions /\ recorded'.raw = recorded.raw
            /\ recorded' = [positions |-> recorded.positions, raw |-> recorded.raw, weather |-> recorded'.weather]
        BY <3>w, <1>t DEF TablesTyped
      <4> QED BY <3>k, <4>1, <4>2, PlusOne
    <3>3. TablesTyped'
      BY <3>1, <3>2, <2>2, <1>t DEF TablesTyped
    <3>4. \A j \in Key : weather'[j] <= 1 /\ weather'[j] >= recorded'.weather[j]
      BY <3>1, <3>2, <3>w, <1>w, <1>t DEF NoneLost, NoneDoubled
    <3>5. NoneLost' /\ NoneDoubled'
      BY <3>2, <3>4, <2>2, <1>t, <1>h DEF NoneLost, NoneDoubled
    <3>6. FileSound'
      BY <3>2, <2>2, <1>t, <1>h DEF FileSound
    <3>7. MergedKept'
      BY <3>1, <2>2, <1>t, <1>w DEF MergedKept, Keys, TablesTyped
    <3> QED BY <3>3, <3>5, <3>6, <3>7, <1>h DEF RecordedInv
  <2> QED BY <2>3, <2>4
<1>4. CASE RecordStatus
  BY <1>4, <1>t, <1>h DEF RecordStatus, tables, past, RecordedInv, TablesTyped, FileSound, NoneLost, NoneDoubled,
     MergedKept, Keys
<1>5. CASE Prune
  <2>1. PICK c \in Time : \E done \in Statements(2) :
          /\ positions' = IF done >= 1 THEN Pruned(positions, c) ELSE positions
          /\ raw' = IF done = 2 THEN Pruned(raw, c) ELSE raw
          /\ cut' = IF done >= 1 /\ c > cut THEN c ELSE cut
          /\ merged' = IF done >= 1
               THEN [merged EXCEPT !.positions = {t \in @ : t >= c}, !.raw = {t \in @ : t >= c}]
               ELSE merged
    BY <1>5 DEF Prune
  <2>2. PICK done \in Statements(2) :
          /\ positions' = IF done >= 1 THEN Pruned(positions, c) ELSE positions
          /\ raw' = IF done = 2 THEN Pruned(raw, c) ELSE raw
          /\ cut' = IF done >= 1 /\ c > cut THEN c ELSE cut
          /\ merged' = IF done >= 1
               THEN [merged EXCEPT !.positions = {t \in @ : t >= c}, !.raw = {t \in @ : t >= c}]
               ELSE merged
    BY <2>1
  <2>3. done \in Nat /\ done <= 2
    BY DEF Statements
  <2>4. UNCHANGED <<weather, status, file, attached, recorded>>
    BY <1>5 DEF Prune
  <2>5. CASE done = 0
    <3>1. UNCHANGED <<positions, raw, cut, merged>>
      BY <2>2, <2>5
    <3> QED BY <3>1, <2>4, <1>t, <1>h DEF RecordedInv, TablesTyped, FileSound, NoneLost, NoneDoubled, MergedKept, Keys
  <2>6. CASE done >= 1
    <3>1. /\ positions' = Pruned(positions, c)
          /\ raw' = Pruned(raw, c) \/ raw' = raw
          /\ cut' \in Nat /\ cut' >= c /\ cut' >= cut
          /\ merged' = [merged EXCEPT !.positions = {t \in @ : t >= c}, !.raw = {t \in @ : t >= c}]
      BY <2>2, <2>6, <1>t, <1>n DEF TablesTyped
    <3>2. /\ positions' \in [Time -> Nat] /\ raw' \in [Time -> Nat]
          /\ \A t \in Time : /\ positions'[t] <= positions[t] /\ (t >= c => positions'[t] = positions[t])
                             /\ raw'[t] <= raw[t] /\ (t >= c => raw'[t] = raw[t])
      <4>1. positions \in [Time -> Nat] /\ raw \in [Time -> Nat]
        BY <1>t DEF TablesTyped
      <4>2. \A t \in Time : positions[t] <= positions[t] /\ raw[t] <= raw[t]
        BY <1>n
      <4>3. CASE raw' = raw
        BY <3>1, <4>1, <4>2, <4>3, PrunedTable
      <4>4. CASE raw' = Pruned(raw, c)
        BY <3>1, <4>1, <4>4, PrunedTable
      <4> QED BY <3>1, <4>3, <4>4
    <3>3. /\ merged' \in [positions : SUBSET Time, raw : SUBSET Time, weather : SUBSET Key]
          /\ merged'.positions = {t \in merged.positions : t >= c}
          /\ merged'.raw = {t \in merged.raw : t >= c}
          /\ merged'.weather = merged.weather
      BY <3>1, <1>t DEF TablesTyped
    <3>4. TablesTyped'
      BY <3>1, <3>2, <3>3, <2>4, <1>t DEF TablesTyped
    <3>p. \A t \in Time : positions'[t] \in Nat /\ raw'[t] \in Nat /\ cut \in Nat
      BY <3>2, <1>t DEF TablesTyped
    <3>5. NoneLost'
      <4>1. ASSUME NEW t \in Time, t >= cut'
            PROVE positions'[t] >= recorded.positions[t] /\ raw'[t] >= recorded.raw[t]
        <5>1. t >= c /\ t >= cut
          BY <4>1, <3>1, <1>n, <3>p
        <5> QED BY <5>1, <3>2, <1>t DEF NoneLost
      <4> QED BY <4>1, <2>4, <1>t DEF NoneLost
    <3>6. NoneDoubled'
      BY <3>2, <3>p, <2>4, <1>t, <1>n, <1>h DEF NoneDoubled
    <3>7. FileSound'
      BY <2>4, <1>t, <1>h DEF FileSound
    <3>8. MergedKept'
      BY <3>2, <3>3, <2>4, <1>t DEF MergedKept, Keys, TablesTyped
    <3> QED BY <3>4, <3>5, <3>6, <3>7, <3>8, <1>h DEF RecordedInv
  <2> QED BY <2>3, <2>5, <2>6
<1>6. CASE Export
  <2>1. UNCHANGED <<positions, raw, weather, status, recorded, cut, merged>>
    BY <1>6 DEF Export, tables, past
  <2>2. attached' \in BOOLEAN
    <3>1. CASE attached
      BY <3>1, <1>6, <1>t DEF Export, TablesTyped
    <3>2. CASE ~attached
      <4>1. PICK done \in Statements(3) : attached' = (done < 3)
        BY <3>2, <1>6 DEF Export
      <4> QED BY <4>1
    <3> QED BY <3>1, <3>2
  <2>3. TablesTyped' /\ NoneLost' /\ NoneDoubled' /\ MergedKept'
    BY <2>1, <2>2, <1>t, <1>h DEF TablesTyped, NoneLost, NoneDoubled, MergedKept, Keys
  <2>4. \/ file' = Absent
        \/ /\ file'.positions \in {positions, Absent} /\ file'.raw \in {raw, Absent}
           /\ file'.weather \in {weather, Absent}
    BY <1>6 DEF Export
  <2>5. FileSound'
    BY <2>4, <2>1, <1>t, <1>h DEF FileSound, TablesTyped, NoneDoubled
  <2> QED BY <2>3, <2>5, <1>h DEF RecordedInv
<1>7. CASE Import
  <2>1. file # Absent /\ UNCHANGED <<status, file, attached, recorded, cut>>
    BY <1>7 DEF Import
  <2>2. PICK done \in Statements(3) :
          /\ positions' = IF done >= 1 THEN Missing(positions, file.positions) ELSE positions
          /\ raw' = IF done >= 2 THEN Missing(raw, file.raw) ELSE raw
          /\ weather' = IF done = 3 THEN Missing(weather, file.weather) ELSE weather
          /\ merged' = IF done = 3
               THEN [positions |-> merged.positions \cup KeysIn(file.positions),
                     raw |-> merged.raw \cup KeysIn(file.raw),
                     weather |-> merged.weather \cup KeysIn(file.weather)]
               ELSE merged
    BY <1>7 DEF Import
  <2>3. /\ positions' = positions \/ positions' = Missing(positions, file.positions)
        /\ raw' = raw \/ raw' = Missing(raw, file.raw)
        /\ weather' = weather \/ weather' = Missing(weather, file.weather)
        /\ \/ merged' = merged
           \/ /\ positions' = Missing(positions, file.positions)
              /\ raw' = Missing(raw, file.raw) /\ weather' = Missing(weather, file.weather)
              /\ merged'.positions = merged.positions \cup KeysIn(file.positions)
              /\ merged'.raw = merged.raw \cup KeysIn(file.raw)
              /\ merged'.weather = merged.weather \cup KeysIn(file.weather)
              /\ merged' = [positions |-> merged'.positions, raw |-> merged'.raw, weather |-> merged'.weather]
    <3>1. CASE done = 3
      BY <2>2, <3>1
    <3>2. CASE done # 3
      <4>1. merged' = merged /\ weather' = weather
        BY <2>2, <3>2
      <4>2. positions' = positions \/ positions' = Missing(positions, file.positions)
        BY <2>2
      <4>3. raw' = raw \/ raw' = Missing(raw, file.raw)
        BY <2>2
      <4> QED
        BY <4>1, <4>2, <4>3
    <3> QED
      BY <3>1, <3>2
  <2>4. /\ file.positions # Absent => file.positions \in [Time -> Nat]
        /\ file.raw # Absent => file.raw \in [Time -> Nat]
        /\ file.weather # Absent => file.weather \in [Key -> Nat]
    BY <2>1, <1>t DEF FileSound
  <2>5. /\ Missing(positions, file.positions) \in [Time -> Nat]
        /\ \A t \in Time :
             /\ Missing(positions, file.positions)[t] >= positions[t]
             /\ Missing(positions, file.positions)[t] <= recorded.positions[t] + GivenAt("positions", t)
             /\ t \in KeysIn(file.positions) => Missing(positions, file.positions)[t] > 0
        /\ KeysIn(file.positions) \subseteq Time
    BY <2>1, <2>4, <1>t, MissingTable DEF TablesTyped, FileSound, NoneDoubled
  <2>6. /\ Missing(raw, file.raw) \in [Time -> Nat]
        /\ \A t \in Time :
             /\ Missing(raw, file.raw)[t] >= raw[t]
             /\ Missing(raw, file.raw)[t] <= recorded.raw[t] + GivenAt("raw", t)
             /\ t \in KeysIn(file.raw) => Missing(raw, file.raw)[t] > 0
        /\ KeysIn(file.raw) \subseteq Time
    BY <2>1, <2>4, <1>t, MissingTable DEF TablesTyped, FileSound, NoneDoubled
  <2>7. /\ Missing(weather, file.weather) \in [Key -> Nat]
        /\ \A k \in Key :
             /\ Missing(weather, file.weather)[k] >= weather[k]
             /\ Missing(weather, file.weather)[k] <= 1
             /\ k \in KeysIn(file.weather) => Missing(weather, file.weather)[k] > 0
        /\ KeysIn(file.weather) \subseteq Key
    BY <2>1, <2>4, <1>t, MissingTable DEF TablesTyped, FileSound, NoneDoubled
  <2>8. /\ positions' \in [Time -> Nat] /\ raw' \in [Time -> Nat] /\ weather' \in [Key -> Nat]
        /\ \A t \in Time : /\ positions'[t] >= positions[t] /\ raw'[t] >= raw[t]
                           /\ positions'[t] <= recorded.positions[t] + GivenAt("positions", t)
                           /\ raw'[t] <= recorded.raw[t] + GivenAt("raw", t)
        /\ \A k \in Key : weather'[k] >= weather[k] /\ weather'[k] <= 1
    BY <2>3, <2>5, <2>6, <2>7, <1>t, <1>n, <1>w DEF TablesTyped, NoneDoubled
  <2>9. TablesTyped'
    BY <2>1, <2>3, <2>5, <2>6, <2>7, <2>8, <1>t DEF TablesTyped
  <2>10. \A t \in Time, k \in Key : positions'[t] \in Nat /\ raw'[t] \in Nat /\ weather'[k] \in Nat
    BY <2>8
  <2>11. NoneLost'
    <3>1. \A t \in Time : t >= cut => positions'[t] >= recorded.positions[t] /\ raw'[t] >= recorded.raw[t]
      BY <2>8, <1>t, <1>n DEF NoneLost, TablesTyped
    <3>2. \A k \in Key : weather'[k] >= recorded.weather[k]
      BY <2>8, <1>t, <1>w DEF NoneLost, TablesTyped
    <3> QED BY <3>1, <3>2, <2>1 DEF NoneLost
  <2>12. NoneDoubled'
    BY <2>1, <2>8, <1>h DEF NoneDoubled
  <2>13. FileSound'
    BY <2>1, <1>t, <1>h DEF FileSound
  <2>14. MergedKept'
    <3>1. Keys(positions) \subseteq Keys(positions') /\ Keys(raw) \subseteq Keys(raw')
          /\ Keys(weather) \subseteq Keys(weather')
      BY <2>8, <1>t, <1>n, <1>w DEF TablesTyped, Keys
    <3>2. CASE merged' = merged
      BY <3>1, <3>2, <1>t DEF MergedKept
    <3>3. CASE merged' # merged
      <4>1. /\ KeysIn(file.positions) \subseteq Keys(positions') /\ KeysIn(file.raw) \subseteq Keys(raw')
            /\ KeysIn(file.weather) \subseteq Keys(weather')
        BY <3>3, <2>3, <2>5, <2>6, <2>7 DEF Keys
      <4> QED BY <4>1, <3>1, <3>3, <2>3, <1>t DEF MergedKept
    <3> QED BY <3>2, <3>3
  <2> QED BY <2>9, <2>11, <2>12, <2>13, <2>14, <1>h DEF RecordedInv
<1>8. CASE Reopen
  BY <1>8, <1>t, <1>h DEF Reopen, tables, past, RecordedInv, TablesTyped, FileSound, NoneLost, NoneDoubled,
     MergedKept, Keys
<1>9. CASE UNCHANGED recordedVars
  BY <1>9, <1>t, <1>h DEF recordedVars, tables, past, RecordedInv, TablesTyped, FileSound, NoneLost, NoneDoubled,
     MergedKept, Keys
<1> QED BY <1>1, <1>2, <1>3, <1>4, <1>5, <1>6, <1>7, <1>8, <1>9 DEF RecordedNext

(***************************************************************************)
(* Only recording gives a key that has rows another one: an import brings  *)
(* the rows of the keys that have none.                                    *)
(***************************************************************************)
LEMMA RecordedStepGains == RecordedInv /\ RecordedNext => NoneCopied
<1> SUFFICES ASSUME RecordedInv, RecordedNext PROVE NoneCopied OBVIOUS
<1>t. /\ positions \in [Time -> Nat] /\ raw \in [Time -> Nat] /\ weather \in [Key -> Nat]
      /\ recorded.positions \in [Time -> Nat] /\ recorded.raw \in [Time -> Nat]
      /\ recorded = [positions |-> recorded.positions, raw |-> recorded.raw, weather |-> recorded.weather]
  BY DEF RecordedInv, TablesTyped
<1>0. ASSUME UNCHANGED <<positions, raw, weather>>
      PROVE  NoneCopied
  <2>1. \A t \in Time : positions[t] \in Nat /\ raw[t] \in Nat
    BY <1>t
  <2>2. \A t \in Time : ~(positions'[t] > positions[t]) /\ ~(raw'[t] > raw[t])
    BY <1>0, <2>1
  <2> QED BY <1>0, <2>2 DEF NoneCopied, GainsOne
<1>1. CASE RecordPosition
  <2>1. PICK t \in Time : positions' = Plus(positions, t) /\ recorded' = [recorded EXCEPT !.positions = Plus(@, t)]
    BY <1>1 DEF RecordPosition
  <2>2. UNCHANGED <<raw, weather>> /\ recorded'.positions = Plus(recorded.positions, t)
    BY <1>1, <1>t, <2>1 DEF RecordPosition
  <2>3. \A u \in Time : /\ positions'[u] = IF u = t THEN positions[u] + 1 ELSE positions[u]
                        /\ recorded'.positions[u] = IF u = t THEN recorded.positions[u] + 1 ELSE recorded.positions[u]
    <3>1. \A u \in Time : Plus(positions, t)[u] = IF u = t THEN positions[u] + 1 ELSE positions[u]
      BY <1>t, PlusOne, SMTT(20)
    <3>2. \A u \in Time : Plus(recorded.positions, t)[u] = IF u = t THEN recorded.positions[u] + 1 ELSE recorded.positions[u]
      BY <1>t, PlusOne, SMTT(20)
    <3> QED BY <2>1, <2>2, <3>1, <3>2
  <2>4. \A u \in Time : GainsOne(positions, recorded.positions, u)
    <3>1. \A u \in Time : positions[u] \in Nat
      BY <1>t
    <3> QED BY <2>3, <3>1 DEF GainsOne
  <2>5. \A u \in Time : GainsOne(raw, recorded.raw, u)
    <3>1. \A u \in Time : raw[u] \in Nat /\ raw'[u] = raw[u]
      BY <1>t, <2>2
    <3> QED BY <3>1 DEF GainsOne
  <2> QED BY <2>2, <2>4, <2>5 DEF NoneCopied
<1>2. CASE RecordRaw
  <2>1. PICK t \in Time : raw' = Plus(raw, t) /\ recorded' = [recorded EXCEPT !.raw = Plus(@, t)]
    BY <1>2 DEF RecordRaw
  <2>2. UNCHANGED <<positions, weather>> /\ recorded'.raw = Plus(recorded.raw, t)
    BY <1>2, <1>t, <2>1 DEF RecordRaw
  <2>3. \A u \in Time : /\ raw'[u] = IF u = t THEN raw[u] + 1 ELSE raw[u]
                        /\ recorded'.raw[u] = IF u = t THEN recorded.raw[u] + 1 ELSE recorded.raw[u]
    <3>1. \A u \in Time : Plus(raw, t)[u] = IF u = t THEN raw[u] + 1 ELSE raw[u]
      BY <1>t, PlusOne
    <3>2. \A u \in Time : Plus(recorded.raw, t)[u] = IF u = t THEN recorded.raw[u] + 1 ELSE recorded.raw[u]
      BY <1>t, PlusOne
    <3> QED BY <2>1, <2>2, <3>1, <3>2
  <2>4. \A u \in Time : GainsOne(raw, recorded.raw, u)
    <3>1. \A u \in Time : raw[u] \in Nat
      BY <1>t
    <3> QED BY <2>3, <3>1 DEF GainsOne
  <2>5. \A u \in Time : GainsOne(positions, recorded.positions, u)
    <3>1. \A u \in Time : positions[u] \in Nat /\ positions'[u] = positions[u]
      BY <1>t, <2>2
    <3> QED BY <3>1 DEF GainsOne
  <2> QED BY <2>2, <2>4, <2>5 DEF NoneCopied
<1>3. CASE RecordWeather
  <2>1. PICK h \in Hours : IF weather[<<Own, h>>] > 0 THEN weather' = weather
                                                     ELSE weather' = Plus(weather, <<Own, h>>)
    BY <1>3 DEF RecordWeather
  <2>2. UNCHANGED <<positions, raw>>
    BY <1>3 DEF RecordWeather
  <2>3. CASE weather' = weather
    BY <1>0, <2>2, <2>3
  <2>4. CASE ~(weather[<<Own, h>>] > 0) /\ weather' = Plus(weather, <<Own, h>>)
    <3>1. PICK own \in Key : own = <<Own, h>>
      BY DEF Key
    <3>2. \A k \in Key : weather'[k] = IF k = own THEN weather[k] + 1 ELSE weather[k]
      <4>1. \A k \in Key : Plus(weather, own)[k] = IF k = own THEN weather[k] + 1 ELSE weather[k]
        BY <1>t, PlusOne
      <4> QED BY <2>4, <3>1, <4>1
    <3>3. \A k \in Key : weather[k] > 0 => weather'[k] = weather[k]
      BY <2>4, <3>1, <3>2
    <3>4. \A t \in Time : positions[t] \in Nat /\ positions'[t] = positions[t] /\ raw[t] \in Nat /\ raw'[t] = raw[t]
      BY <1>t, <2>2
    <3>5. \A t \in Time : GainsOne(positions, recorded.positions, t) /\ GainsOne(raw, recorded.raw, t)
      BY <3>4 DEF GainsOne
    <3> QED BY <3>3, <3>5 DEF NoneCopied
  <2> QED BY <2>1, <2>3, <2>4
<1>4. CASE RecordStatus \/ Export \/ Reopen
  BY <1>0, <1>4 DEF RecordStatus, Export, Reopen, tables
<1>5. CASE Prune
  <2>1. PICK c \in Time : /\ positions' = Pruned(positions, c) \/ positions' = positions
                          /\ raw' = Pruned(raw, c) \/ raw' = raw
    BY <1>5 DEF Prune
  <2>2. UNCHANGED weather
    BY <1>5 DEF Prune
  <2>3. \A t \in Time : positions[t] \in Nat /\ raw[t] \in Nat
    BY <1>t
  <2>4. \A t \in Time : positions'[t] \in Nat /\ positions'[t] <= positions[t]
    <3>1. CASE positions' = positions
      BY <2>3, <3>1
    <3>2. CASE positions' = Pruned(positions, c)
      BY <1>t, <3>2, PrunedTable
    <3> QED BY <2>1, <3>1, <3>2
  <2>5. \A t \in Time : raw'[t] \in Nat /\ raw'[t] <= raw[t]
    <3>1. CASE raw' = raw
      BY <2>3, <3>1
    <3>2. CASE raw' = Pruned(raw, c)
      BY <1>t, <3>2, PrunedTable
    <3> QED BY <2>1, <3>1, <3>2
  <2>6. \A t \in Time : GainsOne(positions, recorded.positions, t) /\ GainsOne(raw, recorded.raw, t)
    BY <2>3, <2>4, <2>5 DEF GainsOne
  <2> QED BY <2>2, <2>6 DEF NoneCopied
<1>6. CASE Import
  <2>1. /\ positions' = positions \/ positions' = Missing(positions, file.positions)
        /\ raw' = raw \/ raw' = Missing(raw, file.raw)
        /\ weather' = weather \/ weather' = Missing(weather, file.weather)
    BY <1>6 DEF Import
  <2>2. ASSUME NEW K, NEW to \in [K -> Nat], NEW from, NEW k \in K, to[k] > 0
        PROVE  Missing(to, from)[k] = to[k]
    BY <2>2 DEF Missing
  <2>3. \A t \in Time : positions[t] \in Nat /\ (positions[t] > 0 => positions'[t] = positions[t])
    BY <1>t, <2>1, <2>2
  <2>4. \A t \in Time : raw[t] \in Nat /\ (raw[t] > 0 => raw'[t] = raw[t])
    BY <1>t, <2>1, <2>2
  <2>5. \A k \in Key : weather[k] > 0 => weather'[k] = weather[k]
    BY <1>t, <2>1, <2>2
  <2>6. \A t \in Time : GainsOne(positions, recorded.positions, t) /\ GainsOne(raw, recorded.raw, t)
    BY <2>3, <2>4 DEF GainsOne
  <2> QED BY <2>5, <2>6 DEF NoneCopied
<1> QED BY <1>1, <1>2, <1>3, <1>4, <1>5, <1>6 DEF RecordedNext

(***************************************************************************)
(* A row that was recorded and is not older than the last pruning is in    *)
(* its table; a key has no more rows than were recorded and given, a model *)
(* hour one; what a whole import brought stays; and only recording gives a *)
(* key that has rows another one: whichever statements of prune, export    *)
(* and import fail (storage.rs prune_sync, export_database_sync,           *)
(* import_database_sync), in whatever order calls are made again.          *)
(***************************************************************************)
THEOREM RowsOnce == RecordedSpec => EachRowOnce
<1>1. RecordedSpec => []RecordedInv
  BY RecordedInvInit, RecordedInvStep, PTL DEF RecordedSpec
<1>2. RecordedInv /\ [RecordedNext]_recordedVars => [NoneCopied]_recordedVars
  BY RecordedStepGains
<1>3. RecordedSpec => [][RecordedNext]_recordedVars
  BY PTL DEF RecordedSpec
<1>4. EachRowOnce <=> []RowsBounded /\ [][NoneCopied]_recordedVars
  BY DEF EachRowOnce
<1> QED BY <1>1, <1>2, <1>3, <1>4, RecordedInvImplies, PTL

-----------------------------------------------------------------------------
(* The authored tables.                                                    *)

InThePast(r) == r.created <= r.updated /\ r.updated <= clock

\* The rows: their ids were drawn, their dates lie in the past, and a track is not
\* older than its scenario.
EventRows == [text : Texts, created : Nat, updated : Nat]
EventsSound == \A e \in DOMAIN events : events[e] \in EventRows /\ InThePast(events[e])

ScenarioRows == [name : Texts, detail : Texts, created : Nat, updated : Nat]
ScenariosSound == \A s \in DOMAIN scenarios : scenarios[s] \in ScenarioRows /\ InThePast(scenarios[s])

TrackRows == [scenario : Ids, ordinal : 0..(ids - 1), created : Nat, updated : Nat]
TrackSound(t, r) ==
  /\ r \in TrackRows /\ InThePast(r)
  /\ r.scenario \in DOMAIN scenarios => scenarios[r.scenario].created <= r.created
  /\ r.scenario \in DOMAIN scenarios \/ t \in orphans

TracksSound == \A t \in DOMAIN tracks : TrackSound(t, tracks[t])

NumbersSound ==
  /\ ids \in Nat /\ clock \in 0..MaxClock /\ calls \in 0..MaxCalls
  /\ Ids = removed \cup DOMAIN events \cup DOMAIN scenarios \cup DOMAIN tracks

RowsSound == NumbersSound /\ EventsSound /\ ScenariosSound /\ TracksSound

\* What a call was given, and the time it carries: its ids had been drawn, and no row
\* they name is younger than the call.
Older(i, table, t) == i \in Ids /\ (i \in DOMAIN table => table[i].created <= t.at)

CallSound(t) ==
  /\ t = [call |-> t.call, n |-> t.n, at |-> t.at, on |-> t.on]
  /\ t.at \in Nat /\ t.at <= clock
  /\ t.on # 0 /\ t.call[1] \notin {"change_event", "change_scenario"} => Older(t.on, scenarios, t)
  /\ t.call[1] \in {"add_event", "add_scenario"} => t.call[2] \in Texts
  /\ t.call[1] \in {"change_event", "change_scenario"} => t.call[3] \in Texts
  /\ t.call[1] = "change_scenario" => t.call[4] \in Texts \cup {Keep}
  /\ t.call[1] = "change_track" => t.call[3] \in {Keep, 0}
  /\ t.call[1] \in {"add_track", "reorder"} => Older(t.call[2], scenarios, t)
  /\ t.call[1] \in {"change_track", "remove_track"} => Older(t.call[2], tracks, t)
  /\ t.call[1] = "reorder" =>
       /\ t.call[3] \in Seq(Ids) /\ Len(t.call[3]) <= ids
       /\ \A k \in DOMAIN t.call[3] : Older(t.call[3][k], tracks, t)

OrdinalsApart ==
  \A t, u \in DOMAIN tracks :
    t # u /\ tracks[t].scenario = tracks[u].scenario /\ tracks[t].scenario \notin renumbered
    => tracks[t].ordinal # tracks[u].ordinal

AuthoredInv == RowsSound /\ (\A t \in tasks : CallSound(t)) /\ OrdinalsApart

-----------------------------------------------------------------------------

\* Deleting keeps the other rows.
LEMMA WithoutRows ==
  ASSUME NEW f, NEW S
  PROVE  /\ DOMAIN Without(f, S) = DOMAIN f \ S
         /\ \A j \in DOMAIN f \ S : Without(f, S)[j] = f[j]
  BY DEF Without, Restrict

\* No row with an id that was drawn appears, and none changes its creation.
NoneNew(new, old) ==
  \A i \in Ids : i \in DOMAIN new => i \in DOMAIN old /\ new[i].created = old[i].created

\* Bounds for the arithmetic.
LEMMA NumbersAreNat ==
  ASSUME RowsSound
  PROVE  clock \in Nat /\ ids \in Nat
<1>1. MaxClock \in Nat
  BY AuthoredAssumption DEF AuthoredAssumption
<1>2. clock \in 0..MaxClock /\ ids \in Nat
  BY DEF RowsSound, NumbersSound
<1> QED
  BY <1>1, <1>2

\* The task of a call stays sound ...
LEMMA CallStays ==
  ASSUME RowsSound, NEW t, CallSound(t), ids' \in Nat, ids <= ids', clock' \in Nat, clock <= clock',
         NoneNew(scenarios', scenarios), NoneNew(tracks', tracks)
  PROVE  CallSound(t)'
<1>1. Ids \subseteq Ids'
  BY DEF RowsSound, NumbersSound, Ids
<1>2. \A i : Older(i, scenarios, t) => Older(i, scenarios, t)'
  BY <1>1 DEF Older, NoneNew
<1>3. \A i : Older(i, tracks, t) => Older(i, tracks, t)'
  BY <1>1 DEF Older, NoneNew
<1>4. t.at \in Nat /\ t.at <= clock'
  <2>1. clock \in Nat
    BY NumbersAreNat
  <2>2. t.at \in Nat /\ t.at <= clock
    BY DEF CallSound
  <2> QED
    BY <2>1, <2>2
<1>5. t.call[1] = "reorder" =>
       /\ t.call[3] \in Seq(Ids') /\ Len(t.call[3]) <= ids'
       /\ \A k \in DOMAIN t.call[3] : Older(t.call[3][k], tracks, t)'
  <2> SUFFICES ASSUME t.call[1] = "reorder"
               PROVE  /\ t.call[3] \in Seq(Ids') /\ Len(t.call[3]) <= ids'
                      /\ \A k \in DOMAIN t.call[3] : Older(t.call[3][k], tracks, t)'
    OBVIOUS
  <2>1. PICK l : l = t.call[3]
    OBVIOUS
  <2>2. /\ l \in Seq(Ids) /\ Len(l) <= ids
        /\ \A k \in DOMAIN l : Older(l[k], tracks, t)
    BY <2>1 DEF CallSound
  <2>3. Len(l) \in Nat /\ ids \in Nat /\ l \in Seq(Ids')
    BY <1>1, <2>2 DEF RowsSound, NumbersSound
  <2> QED
    BY <1>3, <2>1, <2>2, <2>3
<1> QED
  BY <1>2, <1>3, <1>4, <1>5 DEF CallSound

\* ... also in its second turn.
LEMMA SecondTurn ==
  ASSUME NEW t, CallSound(t), NEW on,
         t.call[1] \notin {"change_event", "change_scenario"} => Older(on, scenarios, t)
  PROVE  CallSound([t EXCEPT !.on = on])
<1>1. PICK u : u = [t EXCEPT !.on = on]
  OBVIOUS
<1>2. u.call = t.call /\ u.at = t.at /\ u.on = on /\ u.n = t.n
      /\ u = [call |-> t.call, n |-> t.n, at |-> t.at, on |-> on]
  BY <1>1 DEF CallSound
<1>3. \A i, table : Older(i, table, t) => Older(i, table, u)
  BY <1>2 DEF Older
<1>4. CallSound(u)
  BY <1>2, <1>3 DEF CallSound
<1> QED
  BY <1>1, <1>4

\* A turn under the mutex ends a call, or leaves it a second turn.
Turn(t) ==
  \/ Ends(t)
  \/ \E on : /\ Second(t, on)
             /\ t.call[1] \notin {"change_event", "change_scenario"} => Older(on, scenarios, t)

\* Neither the turn nor what it does to the rows takes that from the calls that wait.
LEMMA TasksStay ==
  ASSUME AuthoredInv, NEW t \in tasks, Turn(t), ids' \in Nat, ids <= ids', clock' = clock,
         NoneNew(scenarios', scenarios), NoneNew(tracks', tracks)
  PROVE  \A u \in tasks' : CallSound(u)'
<1>0. clock' \in Nat /\ clock <= clock'
  <2>1. clock \in Nat
    BY NumbersAreNat DEF AuthoredInv
  <2> QED
    BY <2>1
<1>1. ASSUME NEW u \in tasks PROVE CallSound(u)'
  BY <1>0, CallStays DEF AuthoredInv
<1>2. CASE Ends(t)
  BY <1>1, <1>2 DEF Ends
<1>3. ASSUME NEW on, Second(t, on),
             t.call[1] \notin {"change_event", "change_scenario"} => Older(on, scenarios, t)
      PROVE  \A u \in tasks' : CallSound(u)'
  <2>1. CallSound([t EXCEPT !.on = on])
    BY <1>3, SecondTurn DEF AuthoredInv
  <2>2. CallSound([t EXCEPT !.on = on])'
    <3>1. PICK w : w = [t EXCEPT !.on = on]
      OBVIOUS
    <3>2. CallSound(w)'
      BY <1>0, <2>1, <3>1, CallStays DEF AuthoredInv
    <3> QED
      BY <3>1, <3>2
  <2> QED
    BY <1>1, <1>3, <2>2 DEF Second
<1> QED
  BY <1>2, <1>3 DEF Turn

-----------------------------------------------------------------------------

\* The id a row is added with is new.
LEMMA NewId ==
  ASSUME RowsSound, ids' = ids + 1
  PROVE  /\ ids \in Nat /\ ids' \in Nat /\ ids <= ids' /\ ids' \notin Ids /\ Ids' = Ids \cup {ids'}
         /\ \A f, r : NoneNew(With(f, ids', r), f)
<1>1. ids \in Nat
  BY DEF RowsSound, NumbersSound
<1>2. /\ ids' \in Nat /\ ids <= ids' /\ ids' \notin Ids /\ Ids' = Ids \cup {ids'}
  BY <1>1 DEF Ids
<1>3. \A f, r : NoneNew(With(f, ids', r), f)
  <2> SUFFICES ASSUME NEW f, NEW r PROVE NoneNew(With(f, ids', r), f)
    OBVIOUS
  <2>1. PICK g : g = With(f, ids', r)
    OBVIOUS
  <2>2. DOMAIN g = DOMAIN f \cup {ids'} /\ \A j \in DOMAIN f : j # ids' => g[j] = f[j]
    BY <2>1 DEF With
  <2>3. NoneNew(g, f)
    BY <1>2, <2>2 DEF NoneNew
  <2> QED
    BY <2>1, <2>3
<1> QED
  BY <1>1, <1>2, <1>3

\* Keeping or deleting rows adds none.
LEMMA NoneNewOf ==
  /\ \A f : NoneNew(f, f)
  /\ \A f, S : NoneNew(Without(f, S), f)
<1>1. \A f : NoneNew(f, f)
  BY DEF NoneNew
<1>2. \A f, S : NoneNew(Without(f, S), f)
  <2> SUFFICES ASSUME NEW f, NEW S PROVE NoneNew(Without(f, S), f)
    OBVIOUS
  <2>1. PICK g : g = Without(f, S)
    OBVIOUS
  <2>2. DOMAIN g = DOMAIN f \ S /\ \A j \in DOMAIN f \ S : g[j] = f[j]
    BY <2>1, WithoutRows
  <2>3. NoneNew(g, f)
    BY <2>2 DEF NoneNew
  <2> QED
    BY <2>1, <2>3
<1> QED
  BY <1>1, <1>2

\* Every row has an id that was drawn.
LEMMA Drawn ==
  ASSUME RowsSound
  PROVE  DOMAIN events \subseteq Ids /\ DOMAIN scenarios \subseteq Ids /\ DOMAIN tracks \subseteq Ids
BY DEF RowsSound, NumbersSound

\* A row stays sound as long as its scenario stays.
LEMMA RowStays ==
  ASSUME RowsSound, ids' \in Nat, ids <= ids', clock' \in {clock, clock + 1}, NoneNew(scenarios', scenarios),
         orphans \subseteq orphans', NEW t, NEW r, TrackSound(t, r),
         r.scenario \in DOMAIN scenarios => r.scenario \in DOMAIN scenarios'
  PROVE  TrackSound(t, r)'
<1>1. ids \in Nat /\ clock \in Nat
  BY NumbersAreNat
<1>2. r.scenario \in Ids /\ r \in TrackRows'
  BY <1>1 DEF TrackSound, TrackRows, Ids
<1>3. InThePast(r)'
  <2>1. r.updated \in Nat /\ r.created <= r.updated /\ r.updated <= clock
    BY DEF TrackSound, TrackRows, InThePast
  <2> QED
    BY <1>1, <2>1 DEF InThePast
<1>4. r.scenario \in DOMAIN scenarios' =>
        r.scenario \in DOMAIN scenarios /\ scenarios'[r.scenario].created <= r.created
  BY <1>2 DEF NoneNew, TrackSound
<1> QED
  BY <1>2, <1>3, <1>4 DEF TrackSound

\* Tracks that do not change stay sound.
LEMMA TracksStay ==
  ASSUME RowsSound, ids' \in Nat, ids <= ids', clock' = clock, NoneNew(scenarios', scenarios),
         DOMAIN scenarios \subseteq DOMAIN scenarios', tracks' = tracks, orphans' = orphans
  PROVE  TracksSound'
<1>1. \A u \in DOMAIN tracks : TrackSound(u, tracks[u])'
  BY RowStays DEF RowsSound, TracksSound
<1> QED
  BY <1>1 DEF TracksSound

\* A turn that changes no row.
LEMMA NothingChanges ==
  ASSUME AuthoredInv, NEW t \in tasks, Turn(t), UNCHANGED <<rows, clock, calls, history>>
  PROVE  AuthoredInv'
<1>1. RowsSound /\ OrdinalsApart
  BY DEF AuthoredInv
<1>2. /\ events' = events /\ scenarios' = scenarios /\ tracks' = tracks /\ ids' = ids /\ clock' = clock
      /\ calls' = calls /\ removed' = removed /\ orphans' = orphans /\ renumbered' = renumbered
  BY DEF rows, history
<1>3. ids' \in Nat /\ ids <= ids'
  BY <1>1, <1>2 DEF RowsSound, NumbersSound
<1>4. EventsSound' /\ NumbersSound' /\ ScenariosSound'
  BY <1>1, <1>2 DEF RowsSound, EventsSound, EventRows, NumbersSound, ScenariosSound, ScenarioRows, InThePast, Ids
<1>5. NoneNew(scenarios', scenarios) /\ NoneNew(tracks', tracks)
  BY <1>2, NoneNewOf
<1>6. TracksSound'
  BY <1>1, <1>2, <1>3, <1>5, TracksStay
<1>7. OrdinalsApart'
  BY <1>1, <1>2 DEF OrdinalsApart
<1>8. \A u \in tasks' : CallSound(u)'
  BY <1>2, <1>3, <1>5, TasksStay
<1> QED
  BY <1>4, <1>6, <1>7, <1>8 DEF AuthoredInv, RowsSound

\* Adding an event: its dates are those of the turn.
LEMMA AddEventKeeps ==
  ASSUME AuthoredInv, NEW t \in tasks, AddEvent(t)
  PROVE  AuthoredInv'
<1>1. RowsSound /\ CallSound(t) /\ OrdinalsApart
  BY DEF AuthoredInv
<1>2. PICK r : r = [text |-> t.call[2], created |-> clock, updated |-> clock]
  OBVIOUS
<1>3. /\ Is(t, "add_event") /\ ids' = ids + 1 /\ events' = With(events, ids', r) /\ Ends(t)
      /\ scenarios' = scenarios /\ tracks' = tracks /\ clock' = clock /\ calls' = calls
      /\ removed' = removed /\ orphans' = orphans /\ renumbered' = renumbered
  BY <1>2 DEF AddEvent, history
<1>4. ids \in Nat /\ ids' \in Nat /\ ids <= ids' /\ Ids' = Ids \cup {ids'}
  BY <1>1, <1>3, NewId
<1>5. /\ DOMAIN events' = DOMAIN events \cup {ids'} /\ events'[ids'] = r
      /\ \A e \in DOMAIN events : e # ids' => events'[e] = events[e]
  BY <1>3 DEF With
<1>6. r \in EventRows /\ InThePast(r)
  <2>1. t.call[2] \in Texts
    BY <1>1, <1>3 DEF Is, CallSound
  <2>2. clock \in Nat
    BY <1>1, NumbersAreNat
  <2> QED
    BY <1>2, <2>1, <2>2 DEF InThePast, EventRows
<1>7. EventsSound'
  BY <1>1, <1>3, <1>5, <1>6 DEF RowsSound, EventsSound, EventRows, InThePast
<1>8. NumbersSound' /\ ScenariosSound'
  BY <1>1, <1>3, <1>4, <1>5 DEF RowsSound, NumbersSound, ScenariosSound, ScenarioRows, InThePast
<1>9. TracksSound'
  BY <1>1, <1>3, <1>4, NoneNewOf, TracksStay
<1>10. OrdinalsApart'
  BY <1>1, <1>3 DEF OrdinalsApart
<1>11. \A u \in tasks' : CallSound(u)'
  BY <1>3, <1>4, NoneNewOf, TasksStay DEF Turn
<1> QED
  BY <1>7, <1>8, <1>9, <1>10, <1>11 DEF AuthoredInv, RowsSound

\* A call on a row that is not there ends.
LEMMA NotFoundKeeps ==
  ASSUME AuthoredInv, NEW t \in tasks, NEW table, NotFound(t, table)
  PROVE  AuthoredInv'
BY NothingChanges DEF NotFound, Turn

\* Changing an event leaves its creation date.
LEMMA ChangeEventKeeps ==
  ASSUME AuthoredInv, NEW t \in tasks, ChangeEvent(t)
  PROVE  AuthoredInv'
<1>1. RowsSound /\ CallSound(t) /\ OrdinalsApart
  BY DEF AuthoredInv
<1>2. CASE NotFound(t, events)
  BY <1>2, NotFoundKeeps
<1>3. CASE ~NotFound(t, events)
  <2>1. PICK i : i = t.call[2]
    OBVIOUS
  <2>2. /\ i \in DOMAIN events
        /\ scenarios' = scenarios /\ tracks' = tracks /\ ids' = ids /\ clock' = clock /\ calls' = calls
        /\ removed' = removed /\ orphans' = orphans /\ renumbered' = renumbered
    BY <1>3, <2>1 DEF ChangeEvent, history
  <2>3. ids' \in Nat /\ ids <= ids' /\ clock \in Nat
    <3>1. clock \in Nat /\ ids \in Nat
      BY <1>1, NumbersAreNat
    <3> QED
      BY <2>2, <3>1
  <2>4. t.call[3] \in Texts /\ Turn(t)
    <3>1. t.call[1] = "change_event" /\ Second(t, i)
      BY <1>3, <2>1 DEF ChangeEvent, Is
    <3> QED
      BY <1>1, <3>1 DEF CallSound, Turn
  <2>5. /\ DOMAIN events' = DOMAIN events
        /\ events'[i] = [events[i] EXCEPT !.text = t.call[3], !.updated = clock]
        /\ \A e \in DOMAIN events : e # i => events'[e] = events[e]
    <3>1. events' = [events EXCEPT ![i].text = t.call[3], ![i].updated = clock]
      BY <1>3, <2>1 DEF ChangeEvent
    <3> QED
      BY <2>2, <3>1
  <2>6. EventsSound'
    <3>1. PICK r : r = events[i]
      OBVIOUS
    <3>2. PICK q : q = [r EXCEPT !.text = t.call[3], !.updated = clock]
      OBVIOUS
    <3>3. q \in EventRows /\ InThePast(q)'
      <4>1. r \in EventRows /\ InThePast(r)
        BY <1>1, <2>2, <3>1 DEF RowsSound, EventsSound
      <4>2. q = [text |-> t.call[3], created |-> r.created, updated |-> clock]
        BY <3>2, <4>1 DEF EventRows
      <4>3. r.created \in Nat /\ r.updated \in Nat /\ r.created <= clock
        BY <2>3, <4>1 DEF EventRows, InThePast
      <4> QED
        BY <2>2, <2>3, <2>4, <4>2, <4>3 DEF EventRows, InThePast
    <3>4. events'[i] = q
      BY <2>5, <3>1, <3>2
    <3> QED
      BY <1>1, <2>2, <2>5, <3>3, <3>4 DEF RowsSound, EventsSound, EventRows, InThePast
  <2>7. NumbersSound' /\ ScenariosSound' /\ OrdinalsApart'
    BY <1>1, <2>2, <2>5 DEF RowsSound, NumbersSound, ScenariosSound, ScenarioRows, InThePast, Ids, OrdinalsApart
  <2>8. TracksSound'
    BY <1>1, <2>2, <2>3, NoneNewOf, TracksStay
  <2>9. \A u \in tasks' : CallSound(u)'
    BY <2>2, <2>3, <2>4, NoneNewOf, TasksStay
  <2> QED
    BY <2>6, <2>7, <2>8, <2>9 DEF AuthoredInv, RowsSound
<1> QED
  BY <1>2, <1>3

\* Removing an event books its id as removed.
LEMMA RemoveEventKeeps ==
  ASSUME AuthoredInv, NEW t \in tasks, RemoveEvent(t)
  PROVE  AuthoredInv'
<1>1. RowsSound /\ CallSound(t) /\ OrdinalsApart
  BY DEF AuthoredInv
<1>2. CASE NotFound(t, events)
  BY <1>2, NotFoundKeeps
<1>3. CASE ~NotFound(t, events)
  <2>1. PICK i : i = t.call[2]
    OBVIOUS
  <2>2. /\ i \in DOMAIN events /\ events' = Without(events, {i}) /\ removed' = removed \cup {i} /\ Ends(t)
        /\ scenarios' = scenarios /\ tracks' = tracks /\ ids' = ids /\ clock' = clock /\ calls' = calls
        /\ orphans' = orphans /\ renumbered' = renumbered
    BY <1>3, <2>1 DEF RemoveEvent
  <2>3. ids' \in Nat /\ ids <= ids'
    BY <1>1, <2>2 DEF RowsSound, NumbersSound
  <2>4. DOMAIN events' = DOMAIN events \ {i} /\ \A e \in DOMAIN events \ {i} : events'[e] = events[e]
    BY <2>2, WithoutRows
  <2>5. EventsSound'
    BY <1>1, <2>2, <2>4 DEF RowsSound, EventsSound, EventRows, InThePast
  <2>6. NumbersSound'
    BY <1>1, <2>2, <2>4 DEF RowsSound, NumbersSound, Ids
  <2>7. ScenariosSound' /\ OrdinalsApart'
    BY <1>1, <2>2 DEF RowsSound, ScenariosSound, ScenarioRows, InThePast, OrdinalsApart
  <2>8. TracksSound'
    BY <1>1, <2>2, <2>3, NoneNewOf, TracksStay
  <2>9. \A u \in tasks' : CallSound(u)'
    BY <2>2, <2>3, NoneNewOf, TasksStay DEF Turn
  <2> QED
    BY <2>5, <2>6, <2>7, <2>8, <2>9 DEF AuthoredInv, RowsSound
<1> QED
  BY <1>2, <1>3

\* Adding a scenario: no track names it yet.
LEMMA AddScenarioKeeps ==
  ASSUME AuthoredInv, NEW t \in tasks, AddScenario(t)
  PROVE  AuthoredInv'
<1>1. RowsSound /\ CallSound(t) /\ OrdinalsApart
  BY DEF AuthoredInv
<1>2. PICK d \in Texts : scenarios' =
        With(scenarios, ids', [name |-> t.call[2], detail |-> d, created |-> clock, updated |-> clock])
  BY DEF AddScenario
<1>3. PICK r : r = [name |-> t.call[2], detail |-> d, created |-> clock, updated |-> clock]
  OBVIOUS
<1>4. /\ Is(t, "add_scenario") /\ ids' = ids + 1 /\ scenarios' = With(scenarios, ids', r) /\ Ends(t)
      /\ events' = events /\ tracks' = tracks /\ clock' = clock /\ calls' = calls
      /\ removed' = removed /\ orphans' = orphans /\ renumbered' = renumbered
  BY <1>2, <1>3 DEF AddScenario, history
<1>5. /\ ids \in Nat /\ ids' \in Nat /\ ids <= ids' /\ Ids' = Ids \cup {ids'}
      /\ NoneNew(scenarios', scenarios)
  BY <1>1, <1>4, NewId
<1>6. /\ DOMAIN scenarios' = DOMAIN scenarios \cup {ids'} /\ scenarios'[ids'] = r
      /\ \A e \in DOMAIN scenarios : e # ids' => scenarios'[e] = scenarios[e]
  BY <1>4 DEF With
<1>7. r \in ScenarioRows /\ InThePast(r)
  <2>1. t.call[2] \in Texts
    BY <1>1, <1>4 DEF Is, CallSound
  <2>2. clock \in Nat
    BY <1>1, NumbersAreNat
  <2> QED
    BY <1>3, <2>1, <2>2 DEF InThePast, ScenarioRows
<1>8. ScenariosSound'
  BY <1>1, <1>4, <1>6, <1>7 DEF RowsSound, ScenariosSound, ScenarioRows, InThePast
<1>9. NumbersSound' /\ EventsSound'
  BY <1>1, <1>4, <1>5, <1>6 DEF RowsSound, NumbersSound, EventsSound, EventRows, InThePast
<1>10. TracksSound'
  BY <1>1, <1>4, <1>5, <1>6, TracksStay
<1>11. OrdinalsApart'
  BY <1>1, <1>4 DEF OrdinalsApart
<1>12. \A u \in tasks' : CallSound(u)'
  BY <1>4, <1>5, NoneNewOf, TasksStay DEF Turn
<1> QED
  BY <1>8, <1>9, <1>10, <1>11, <1>12 DEF AuthoredInv, RowsSound

\* Changing a scenario leaves its creation date, and so its tracks younger.
LEMMA ChangeScenarioKeeps ==
  ASSUME AuthoredInv, NEW t \in tasks, ChangeScenario(t)
  PROVE  AuthoredInv'
<1>1. RowsSound /\ CallSound(t) /\ OrdinalsApart
  BY DEF AuthoredInv
<1>2. CASE NotFound(t, scenarios)
  BY <1>2, NotFoundKeeps
<1>3. CASE ~NotFound(t, scenarios)
  <2>1. PICK i : i = t.call[2]
    OBVIOUS
  <2>2. /\ i \in DOMAIN scenarios
        /\ events' = events /\ tracks' = tracks /\ ids' = ids /\ clock' = clock /\ calls' = calls
        /\ removed' = removed /\ orphans' = orphans /\ renumbered' = renumbered
    BY <1>3, <2>1 DEF ChangeScenario, history
  <2>3. ids' \in Nat /\ ids <= ids' /\ clock \in Nat
    <3>1. clock \in Nat /\ ids \in Nat
      BY <1>1, NumbersAreNat
    <3> QED
      BY <2>2, <3>1
  <2>4. t.call[3] \in Texts /\ t.call[4] \in Texts \cup {Keep} /\ Turn(t)
    <3>1. t.call[1] = "change_scenario" /\ Second(t, i)
      BY <1>3, <2>1 DEF ChangeScenario, Is
    <3> QED
      BY <1>1, <3>1 DEF CallSound, Turn
  <2>5. PICK r, q : r = scenarios[i] /\ q = Changed(r, t)
    OBVIOUS
  <2>6. q \in ScenarioRows /\ InThePast(q)' /\ q.created = r.created
    <3>1. r \in ScenarioRows /\ InThePast(r)
      BY <1>1, <2>2, <2>5 DEF RowsSound, ScenariosSound
    <3>2. PICK d : d = Given(t.call[4], r.detail)
      OBVIOUS
    <3>3. q = [name |-> t.call[3], detail |-> d, created |-> r.created, updated |-> clock]
      BY <2>5, <3>1, <3>2 DEF ScenarioRows, Changed
    <3>4. d \in Texts
      BY <2>4, <3>1, <3>2 DEF ScenarioRows, Given
    <3>5. r.created \in Nat /\ r.updated \in Nat /\ r.created <= clock
      BY <2>3, <3>1 DEF ScenarioRows, InThePast
    <3> QED
      BY <2>2, <2>3, <2>4, <3>3, <3>4, <3>5 DEF ScenarioRows, InThePast
  <2>7. /\ DOMAIN scenarios' = DOMAIN scenarios /\ scenarios'[i] = q
        /\ \A e \in DOMAIN scenarios : e # i => scenarios'[e] = scenarios[e]
    <3>1. scenarios' = [scenarios EXCEPT ![i] = Changed(@, t)]
      BY <1>3, <2>1 DEF ChangeScenario
    <3> QED
      BY <2>2, <2>5, <3>1
  <2>8. ScenariosSound'
    BY <1>1, <2>2, <2>6, <2>7 DEF RowsSound, ScenariosSound, ScenarioRows, InThePast
  <2>9. NumbersSound' /\ EventsSound' /\ OrdinalsApart'
    BY <1>1, <2>2, <2>7 DEF RowsSound, NumbersSound, EventsSound, EventRows, InThePast, Ids, OrdinalsApart
  <2>10. NoneNew(scenarios', scenarios)
    BY <2>5, <2>6, <2>7 DEF NoneNew
  <2>11. TracksSound'
    BY <1>1, <2>2, <2>3, <2>7, <2>10, TracksStay
  <2>12. \A u \in tasks' : CallSound(u)'
    BY <2>2, <2>3, <2>4, <2>10, NoneNewOf, TasksStay
  <2> QED
    BY <2>8, <2>9, <2>11, <2>12 DEF AuthoredInv, RowsSound
<1> QED
  BY <1>2, <1>3

\* Removing a scenario takes its tracks along; the halfway point keeps both.
LEMMA RemoveScenarioKeeps ==
  ASSUME AuthoredInv, NEW t \in tasks, RemoveScenario(t)
  PROVE  AuthoredInv'
<1>1. RowsSound /\ CallSound(t) /\ OrdinalsApart
  BY DEF AuthoredInv
<1>2. PICK s : s = t.call[2]
  OBVIOUS
<1>3. /\ events' = events /\ ids' = ids /\ clock' = clock /\ calls' = calls
      /\ orphans' = orphans /\ renumbered' = renumbered
  BY DEF RemoveScenario
<1>4. Turn(t)
  BY DEF RemoveScenario, Turn
<1>5. ids' \in Nat /\ ids <= ids'
  <2>1. ids \in Nat
    BY <1>1, NumbersAreNat
  <2> QED
    BY <1>3, <2>1
<1>6. CASE UNCHANGED <<scenarios, tracks, removed>>
  BY <1>3, <1>4, <1>6, NothingChanges DEF rows, history
<1>7. CASE /\ s \in DOMAIN scenarios /\ tracks' = Without(tracks, TracksOf(s))
           /\ scenarios' = Without(scenarios, {s}) /\ removed' = removed \cup TracksOf(s) \cup {s}
  <2>1. /\ DOMAIN scenarios' = DOMAIN scenarios \ {s}
        /\ \A i \in DOMAIN scenarios \ {s} : scenarios'[i] = scenarios[i]
    BY <1>7, WithoutRows
  <2>2. /\ DOMAIN tracks' = DOMAIN tracks \ TracksOf(s)
        /\ \A i \in DOMAIN tracks \ TracksOf(s) : tracks'[i] = tracks[i]
    BY <1>7, WithoutRows
  <2>3. EventsSound' /\ ScenariosSound'
    BY <1>1, <1>3, <2>1 DEF RowsSound, EventsSound, EventRows, ScenariosSound, ScenarioRows, InThePast
  <2>4. NumbersSound'
    <3>1. TracksOf(s) \subseteq DOMAIN tracks /\ s \in DOMAIN scenarios /\ removed' = removed \cup TracksOf(s) \cup {s}
      BY <1>7 DEF TracksOf
    <3> QED
      BY <1>1, <1>3, <2>1, <2>2, <3>1 DEF RowsSound, NumbersSound, Ids
  <2>5. NoneNew(scenarios', scenarios) /\ NoneNew(tracks', tracks)
    BY <2>1, <2>2 DEF NoneNew
  <2>6. TracksSound'
    <3>1. ASSUME NEW u \in DOMAIN tracks', NEW r, r = tracks[u] PROVE TrackSound(u, r)'
      <4>1. u \in DOMAIN tracks /\ u \notin TracksOf(s) /\ TrackSound(u, r)
        BY <1>1, <2>2, <3>1 DEF RowsSound, TracksSound
      <4>2. r.scenario \in DOMAIN scenarios => r.scenario \in DOMAIN scenarios'
        BY <2>1, <3>1, <4>1 DEF TracksOf
      <4> QED
        BY <1>1, <1>3, <1>5, <2>5, <4>1, <4>2, RowStays
    <3>2. ASSUME NEW u \in DOMAIN tracks' PROVE TrackSound(u, tracks[u])'
      <4>1. PICK r : r = tracks[u] /\ r = tracks'[u]
        BY <2>2
      <4>2. TrackSound(u, r)'
        BY <3>1, <4>1
      <4> QED
        BY <4>1, <4>2
    <3> QED
      BY <3>2 DEF TracksSound
  <2>7. OrdinalsApart'
    BY <1>1, <1>3, <2>2 DEF OrdinalsApart
  <2>8. \A u \in tasks' : CallSound(u)'
    BY <1>3, <1>4, <1>5, <2>5, TasksStay
  <2> QED
    BY <2>3, <2>4, <2>6, <2>7, <2>8 DEF AuthoredInv, RowsSound
<1> QED
  BY <1>2, <1>6, <1>7 DEF RemoveScenario, Halfway

\* The next ordinal is above all of the scenario, and still below the ids drawn.
LEMMA NextOrdinalIs ==
  ASSUME RowsSound, NEW s
  PROVE  /\ NextOrdinal(s) \in 0..ids
         /\ \A u \in TracksOf(s) : tracks[u].ordinal < NextOrdinal(s)
<1> DEFINE Over(n) == /\ \A u \in TracksOf(s) : tracks[u].ordinal < n
                      /\ n = 0 \/ \E u \in TracksOf(s) : tracks[u].ordinal = n - 1
           Ordinals == {tracks[u].ordinal : u \in TracksOf(s)}
<1>1. ids \in Nat /\ MaxCalls \in Nat
  BY NumbersAreNat, AuthoredAssumption DEF AuthoredAssumption
<1>2. \A u \in TracksOf(s) : tracks[u].ordinal \in 0..(ids - 1)
  BY DEF RowsSound, TracksSound, TrackSound, TrackRows, TracksOf
<1>3. \E n \in 0..(ids + MaxCalls) : Over(n)
  <2>1. CASE TracksOf(s) = {}
    <3>1. Over(0)
      BY <2>1
    <3>2. 0 \in 0..(ids + MaxCalls)
      BY <1>1
    <3> QED
      BY <3>1, <3>2
  <2>2. CASE TracksOf(s) # {}
    <3>1. Ordinals \in SUBSET 0..ids /\ Ordinals # {}
      <4>1. \A u \in TracksOf(s) : tracks[u].ordinal \in 0..ids
        BY <1>1, <1>2
      <4> QED
        BY <2>2, <4>1
    <3>2. PICK m \in Ordinals : \A x \in Ordinals : x <= m
      BY <1>1, <3>1, HasGreatest
    <3>3. PICK u \in TracksOf(s) : tracks[u].ordinal = m
      BY <3>2
    <3>4. m \in 0..(ids - 1)
      BY <1>2, <3>3
    <3>5. \A v \in TracksOf(s) : tracks[v].ordinal <= m
      BY <3>2
    <3>6. Over(m + 1)
      BY <1>1, <1>2, <3>3, <3>4, <3>5
    <3>7. m + 1 \in 0..(ids + MaxCalls)
      BY <1>1, <3>4
    <3> QED
      BY <3>6, <3>7
  <2> QED
    BY <2>1, <2>2
<1>4. PICK n : n = NextOrdinal(s)
  OBVIOUS
<1>5. NextOrdinal(s) = CHOOSE k \in 0..(ids + MaxCalls) : Over(k)
  BY DEF NextOrdinal
<1>6. n \in 0..(ids + MaxCalls) /\ Over(n)
  <2> HIDE DEF Over
  <2> QED
    BY <1>3, <1>4, <1>5
<1>7. n \in 0..ids
  BY <1>1, <1>2, <1>6
<1> QED
  BY <1>4, <1>6, <1>7

\* Adding a track at the end of the order of a scenario that may be gone.
LEMMA AddTrackKeeps ==
  ASSUME AuthoredInv, NEW t \in tasks, AddTrack(t)
  PROVE  AuthoredInv'
<1>1. RowsSound /\ CallSound(t) /\ OrdinalsApart
  BY DEF AuthoredInv
<1>2. PICK s, n : s = t.call[2] /\ n = NextOrdinal(s)
  OBVIOUS
<1>3. PICK r : r = [scenario |-> s, ordinal |-> n, created |-> t.at, updated |-> t.at]
  OBVIOUS
<1>4. /\ ids' = ids + 1 /\ tracks' = With(tracks, ids', r)
      /\ orphans' = IF s \in DOMAIN scenarios THEN orphans ELSE orphans \cup {ids'}
      /\ events' = events /\ scenarios' = scenarios /\ clock' = clock /\ calls' = calls
      /\ removed' = removed /\ renumbered' = renumbered
  BY <1>2, <1>3 DEF AddTrack
<1>5. Older(s, scenarios, t) /\ Turn(t)
  <2>1. t.call[1] = "add_track" /\ Second(t, s)
    BY <1>2 DEF AddTrack, Is
  <2>2. Older(s, scenarios, t)
    BY <1>1, <1>2, <2>1 DEF CallSound
  <2> QED
    BY <2>1, <2>2 DEF Turn
<1>6. /\ ids \in Nat /\ ids' \in Nat /\ ids <= ids' /\ ids' \notin Ids /\ Ids' = Ids \cup {ids'}
      /\ NoneNew(tracks', tracks)
  BY <1>1, <1>4, NewId
<1>7. /\ DOMAIN tracks' = DOMAIN tracks \cup {ids'} /\ tracks'[ids'] = r
      /\ \A u \in DOMAIN tracks : u # ids' => tracks'[u] = tracks[u]
  BY <1>4 DEF With
<1>8. ids' \notin DOMAIN tracks
  BY <1>1, <1>6, Drawn
<1>9. n \in 0..ids /\ \A u \in TracksOf(s) : tracks[u].ordinal < n
  BY <1>1, <1>2, NextOrdinalIs
<1>10. NumbersSound' /\ EventsSound' /\ ScenariosSound'
  <2>1. NumbersSound'
    BY <1>1, <1>4, <1>6, <1>7 DEF RowsSound, NumbersSound
  <2> QED
    BY <1>1, <1>4, <2>1 DEF RowsSound, EventsSound, EventRows, ScenariosSound, ScenarioRows, InThePast
<1>11. TracksSound'
  <2>0. PICK i : i = ids'
    OBVIOUS
  <2>1. TrackSound(i, r)'
    <3>1. r \in TrackRows'
      <4>1. s \in Ids' /\ n \in 0..(ids' - 1)
        BY <1>4, <1>5, <1>6, <1>9 DEF Older
      <4>2. t.at \in Nat
        BY <1>1 DEF CallSound
      <4> QED
        BY <1>3, <4>1, <4>2 DEF TrackRows
    <3>2. InThePast(r)'
      <4>1. t.at \in Nat /\ t.at <= clock
        BY <1>1 DEF CallSound
      <4> QED
        BY <1>3, <1>4, <4>1 DEF InThePast
    <3>3. s \in DOMAIN scenarios' => scenarios'[s].created <= t.at
      BY <1>4, <1>5 DEF Older
    <3>4. s \in DOMAIN scenarios' \/ i \in orphans'
      BY <1>4, <2>0
    <3> QED
      BY <1>3, <3>1, <3>2, <3>3, <3>4 DEF TrackSound
  <2>2. \A u \in DOMAIN tracks : TrackSound(u, tracks[u])
    BY <1>1 DEF RowsSound, TracksSound
  <2>3. ASSUME NEW u \in DOMAIN tracks, NEW q, q = tracks[u] PROVE TrackSound(u, q)'
    BY <1>1, <1>4, <1>6, <2>2, <2>3, NoneNewOf, RowStays
  <2>4. ASSUME NEW u \in DOMAIN tracks' PROVE TrackSound(u, tracks[u])'
    <3>1. CASE u = i
      BY <1>7, <2>0, <2>1, <3>1
    <3>2. CASE u # i
      BY <1>7, <2>0, <2>3, <3>2
    <3> QED
      BY <3>1, <3>2
  <2> QED
    BY <2>4 DEF TracksSound
<1>12. OrdinalsApart'
  <2>1. r.scenario = s /\ r.ordinal = n
    BY <1>3
  <2>2. \A u \in DOMAIN tracks : tracks[u].scenario = s => tracks[u].ordinal # n
    <3>1. \A u \in TracksOf(s) : tracks[u].ordinal \in Nat
      BY <1>1, <1>6 DEF RowsSound, TracksSound, TrackSound, TrackRows, TracksOf
    <3> QED
      BY <1>9, <3>1 DEF TracksOf
  <2>3. \A u, v \in DOMAIN tracks' :
          u # v /\ tracks'[u].scenario = tracks'[v].scenario /\ tracks'[u].scenario \notin renumbered
          => tracks'[u].ordinal # tracks'[v].ordinal
    BY <1>1, <1>7, <1>8, <2>1, <2>2 DEF OrdinalsApart
  <2> QED
    BY <1>4, <2>3 DEF OrdinalsApart
<1>13. \A u \in tasks' : CallSound(u)'
  BY <1>4, <1>5, <1>6, NoneNewOf, TasksStay
<1> QED
  BY <1>10, <1>11, <1>12, <1>13 DEF AuthoredInv, RowsSound

\* Changing a track: its ordinal may be given anew, and then books the scenario.
LEMMA ChangeTrackKeeps ==
  ASSUME AuthoredInv, NEW t \in tasks, ChangeTrack(t)
  PROVE  AuthoredInv'
<1>1. RowsSound /\ CallSound(t) /\ OrdinalsApart
  BY DEF AuthoredInv
<1>2. CASE NotFound(t, tracks)
  BY <1>2, NotFoundKeeps
<1>3. CASE ~NotFound(t, tracks)
  <2>1. PICK i : i = t.call[2]
    OBVIOUS
  <2>2. /\ i \in DOMAIN tracks
        /\ events' = events /\ scenarios' = scenarios /\ ids' = ids /\ clock' = clock /\ calls' = calls
        /\ removed' = removed /\ orphans' = orphans
        /\ renumbered' = IF t.call[3] = Keep THEN renumbered ELSE renumbered \cup {tracks[i].scenario}
    BY <1>3, <2>1 DEF ChangeTrack
  <2>3. PICK r, n : r = tracks[i] /\ n = Given(t.call[3], r.ordinal)
    OBVIOUS
  <2>4. PICK q : q = [r EXCEPT !.ordinal = n, !.updated = t.at]
    OBVIOUS
  <2>5. /\ DOMAIN tracks' = DOMAIN tracks /\ tracks'[i] = q
        /\ \A u \in DOMAIN tracks : u # i => tracks'[u] = tracks[u]
    <3>1. tracks' = [tracks EXCEPT ![i].ordinal = Given(t.call[3], @), ![i].updated = t.at]
      BY <1>3, <2>1 DEF ChangeTrack
    <3> QED
      BY <2>2, <2>3, <2>4, <3>1
  <2>6. ids' \in Nat /\ ids <= ids' /\ ids \in Nat
    <3>1. ids \in Nat
      BY <1>1, NumbersAreNat
    <3> QED
      BY <2>2, <3>1
  <2>7. TrackSound(i, r)
    BY <1>1, <2>2, <2>3 DEF RowsSound, TracksSound
  <2>8. t.call[1] = "change_track" /\ Second(t, r.scenario)
    BY <1>3, <2>1, <2>3 DEF ChangeTrack, Is
  <2>9. t.call[3] \in {Keep, 0} /\ t.at \in Nat /\ t.at <= clock /\ r.created <= t.at
    <3>1. t.call[3] \in {Keep, 0} /\ t.at \in Nat /\ t.at <= clock /\ Older(i, tracks, t)
      BY <1>1, <2>1, <2>8 DEF CallSound
    <3> QED
      BY <2>2, <2>3, <3>1 DEF Older
  <2>10. Turn(t)
    <3>1. Older(r.scenario, scenarios, t)
      <4>1. r.scenario \in Ids /\ r.created \in Nat
        BY <2>7 DEF TrackSound, TrackRows
      <4>2. r.scenario \in DOMAIN scenarios =>
              scenarios[r.scenario].created \in Nat /\ scenarios[r.scenario].created <= r.created
        BY <1>1, <2>7 DEF TrackSound, RowsSound, ScenariosSound, ScenarioRows
      <4> QED
        BY <2>9, <4>1, <4>2 DEF Older
    <3> QED
      BY <2>8, <3>1 DEF Turn
  <2>11. q.created = r.created /\ q.scenario = r.scenario /\ TrackSound(i, q)'
         /\ (q.ordinal = r.ordinal \/ r.scenario \in renumbered')
    <3>1. r \in TrackRows
      BY <2>7 DEF TrackSound
    <3>2. q = [scenario |-> r.scenario, ordinal |-> n, created |-> r.created, updated |-> t.at]
      BY <2>4, <3>1 DEF TrackRows
    <3>3. r.scenario \in Ids /\ r.created \in Nat /\ r.ordinal \in 0..(ids - 1)
      BY <3>1 DEF TrackRows
    <3>4. n \in 0..(ids - 1) /\ (n = r.ordinal \/ r.scenario \in renumbered')
      <4>1. 0 \in 0..(ids - 1)
        BY <2>6, <3>3
      <4> QED
        BY <2>2, <2>3, <2>9, <3>3, <4>1 DEF Given
    <3>5. q \in TrackRows'
      BY <2>2, <2>9, <3>2, <3>3, <3>4 DEF TrackRows, Ids
    <3>6. InThePast(q)'
      BY <2>2, <2>9, <3>2 DEF InThePast
    <3> QED
      BY <2>2, <2>7, <3>2, <3>4, <3>5, <3>6 DEF TrackSound
  <2>12. NumbersSound' /\ EventsSound' /\ ScenariosSound'
    <3>1. NumbersSound'
      BY <1>1, <2>2, <2>5 DEF RowsSound, NumbersSound, Ids
    <3> QED
      BY <1>1, <2>2, <3>1 DEF RowsSound, EventsSound, EventRows, ScenariosSound, ScenarioRows, InThePast
  <2>13. TracksSound'
    <3>1. ASSUME NEW u \in DOMAIN tracks, NEW p, p = tracks[u], TrackSound(u, p) PROVE TrackSound(u, p)'
      BY <1>1, <2>2, <2>6, <3>1, NoneNewOf, RowStays
    <3>2. ASSUME NEW u \in DOMAIN tracks' PROVE TrackSound(u, tracks[u])'
      <4>1. CASE u = i
        BY <2>5, <2>11, <4>1
      <4>2. CASE u # i
        BY <1>1, <2>5, <3>1, <4>2 DEF RowsSound, TracksSound
      <4> QED
        BY <4>1, <4>2
    <3> QED
      BY <3>2 DEF TracksSound
  <2>14. OrdinalsApart'
    <3>1. renumbered \subseteq renumbered'
      BY <2>2
    <3> QED
      BY <1>1, <2>2, <2>3, <2>5, <2>11, <3>1 DEF OrdinalsApart
  <2>15. NoneNew(tracks', tracks)
    BY <2>3, <2>5, <2>11 DEF NoneNew
  <2>16. \A u \in tasks' : CallSound(u)'
    BY <2>2, <2>6, <2>10, <2>15, NoneNewOf, TasksStay
  <2> QED
    BY <2>12, <2>13, <2>14, <2>16 DEF AuthoredInv, RowsSound
<1> QED
  BY <1>2, <1>3

\* Removing a track leaves the ordinals of the others apart.
LEMMA RemoveTrackKeeps ==
  ASSUME AuthoredInv, NEW t \in tasks, RemoveTrack(t)
  PROVE  AuthoredInv'
<1>1. RowsSound /\ CallSound(t) /\ OrdinalsApart
  BY DEF AuthoredInv
<1>2. CASE NotFound(t, tracks)
  BY <1>2, NotFoundKeeps
<1>3. CASE ~NotFound(t, tracks)
  <2>1. PICK i, r : i = t.call[2] /\ r = tracks[i]
    OBVIOUS
  <2>2. /\ i \in DOMAIN tracks /\ tracks' = Without(tracks, {i}) /\ removed' = removed \cup {i}
        /\ events' = events /\ scenarios' = scenarios /\ ids' = ids /\ clock' = clock /\ calls' = calls
        /\ orphans' = orphans /\ renumbered' = renumbered
    BY <1>3, <2>1 DEF RemoveTrack
  <2>3. DOMAIN tracks' = DOMAIN tracks \ {i} /\ \A u \in DOMAIN tracks \ {i} : tracks'[u] = tracks[u]
    BY <2>2, WithoutRows
  <2>4. ids' \in Nat /\ ids <= ids'
    <3>1. ids \in Nat
      BY <1>1, NumbersAreNat
    <3> QED
      BY <2>2, <3>1
  <2>5. Turn(t)
    <3>1. t.call[1] = "remove_track" /\ Second(t, r.scenario)
      BY <1>3, <2>1 DEF RemoveTrack, Is
    <3>2. TrackSound(i, r)
      BY <1>1, <2>1, <2>2 DEF RowsSound, TracksSound
    <3>3. t.at \in Nat /\ r.created <= t.at
      <4>1. t.at \in Nat /\ Older(i, tracks, t)
        BY <1>1, <2>1, <3>1 DEF CallSound
      <4> QED
        BY <2>1, <2>2, <4>1 DEF Older
    <3>4. Older(r.scenario, scenarios, t)
      <4>1. r.scenario \in Ids /\ r.created \in Nat
        BY <3>2 DEF TrackSound, TrackRows
      <4>2. r.scenario \in DOMAIN scenarios =>
              scenarios[r.scenario].created \in Nat /\ scenarios[r.scenario].created <= r.created
        BY <1>1, <3>2 DEF TrackSound, RowsSound, ScenariosSound, ScenarioRows
      <4> QED
        BY <3>3, <4>1, <4>2 DEF Older
    <3> QED
      BY <3>1, <3>4 DEF Turn
  <2>6. NumbersSound' /\ EventsSound' /\ ScenariosSound'
    <3>1. NumbersSound'
      BY <1>1, <2>2, <2>3 DEF RowsSound, NumbersSound, Ids
    <3> QED
      BY <1>1, <2>2, <3>1 DEF RowsSound, EventsSound, EventRows, ScenariosSound, ScenarioRows, InThePast
  <2>7. TracksSound'
    <3>1. ASSUME NEW u \in DOMAIN tracks, NEW p, p = tracks[u], TrackSound(u, p) PROVE TrackSound(u, p)'
      BY <1>1, <2>2, <2>4, <3>1, NoneNewOf, RowStays
    <3>2. ASSUME NEW u \in DOMAIN tracks' PROVE TrackSound(u, tracks[u])'
      BY <1>1, <2>3, <3>1 DEF RowsSound, TracksSound
    <3> QED
      BY <3>2 DEF TracksSound
  <2>8. OrdinalsApart'
    BY <1>1, <2>2, <2>3 DEF OrdinalsApart
  <2>9. NoneNew(tracks', tracks)
    BY <2>3 DEF NoneNew
  <2>10. \A u \in tasks' : CallSound(u)'
    BY <2>2, <2>4, <2>5, <2>9, NoneNewOf, TasksStay
  <2> QED
    BY <2>6, <2>7, <2>8, <2>10 DEF AuthoredInv, RowsSound
<1> QED
  BY <1>2, <1>3

\* What the renumbering leaves of a row: it is as it was, or it has its place in the list.
Placed(p, r, s, l, done, u, at) ==
  /\ r.scenario = s
  /\ \E k \in 1..done : /\ l[k] = u
                        /\ p = [scenario |-> s, ordinal |-> k - 1, created |-> r.created, updated |-> at]

\* A renumbered row is as it was, or has its place in the list.
LEMMA ReorderedRow ==
  ASSUME RowsSound, NEW s, NEW l \in Seq(Ids), NEW done \in 0..Len(l), NEW at,
         NEW u \in DOMAIN tracks, NEW p, p = Reordered(s, SubSeq(l, 1, done), at)[u],
         NEW r, r = tracks[u]
  PROVE  \/ Placed(p, r, s, l, done, u, at)
         \/ p = r /\ (r.scenario # s \/ \A k \in 1..done : l[k] # u)
<1>1. PICK m : m = SubSeq(l, 1, done)
  OBVIOUS
<1>2. DOMAIN m = 1..done /\ \A k \in 1..done : m[k] = l[k]
  <2>1. done \in Nat /\ done <= Len(l)
    OBVIOUS
  <2> QED
    BY <1>1, <2>1
<1>3. p = IF r.scenario = s /\ \E k \in DOMAIN m : m[k] = u
          THEN [r EXCEPT !.ordinal = (CHOOSE k \in DOMAIN m : m[k] = u) - 1, !.updated = at]
          ELSE r
  BY <1>1 DEF Reordered
<1>4. CASE r.scenario = s /\ \E k \in DOMAIN m : m[k] = u
  <2>1. PICK k : k = CHOOSE j \in DOMAIN m : m[j] = u
    OBVIOUS
  <2>2. k \in DOMAIN m /\ m[k] = u
    BY <1>4, <2>1
  <2>3. r \in TrackRows
    BY DEF RowsSound, TracksSound, TrackSound
  <2>4. p = [r EXCEPT !.ordinal = k - 1, !.updated = at]
    BY <1>3, <1>4, <2>1
  <2>5. p = [scenario |-> s, ordinal |-> k - 1, created |-> r.created, updated |-> at]
    BY <1>4, <2>3, <2>4 DEF TrackRows
  <2> QED
    BY <1>2, <1>4, <2>2, <2>5 DEF Placed
<1>5. CASE ~(r.scenario = s /\ \E k \in DOMAIN m : m[k] = u)
  BY <1>2, <1>3, <1>5
<1> QED
  BY <1>4, <1>5

\* A reordering, complete or cut short, books the scenario as renumbered.
LEMMA ReorderKeeps ==
  ASSUME AuthoredInv, NEW t \in tasks, Reorder(t)
  PROVE  AuthoredInv'
<1>1. RowsSound /\ CallSound(t) /\ OrdinalsApart
  BY DEF AuthoredInv
<1>2. PICK s, l : s = t.call[2] /\ l = t.call[3]
  OBVIOUS
<1>3. t.call[1] = "reorder"
  BY DEF Reorder, Is
<1>4. /\ l \in Seq(Ids) /\ Len(l) <= ids /\ Older(s, scenarios, t)
      /\ \A k \in DOMAIN l : Older(l[k], tracks, t)
  BY <1>1, <1>2, <1>3 DEF CallSound
<1>5. PICK done \in 0..Len(l) :
        /\ tracks' = Reordered(s, SubSeq(l, 1, done), t.at)
        /\ renumbered' = IF TracksOf(s) \subseteq {l[k] : k \in 1..done}
                         THEN renumbered ELSE renumbered \cup {s}
        /\ IF done = Len(l) THEN Second(t, s) ELSE Ends(t)
  <2>1. Len(l) \in 0..Len(l)
    BY <1>4
  <2> QED
    BY <1>2, <2>1 DEF Reorder
<1>6. /\ events' = events /\ scenarios' = scenarios /\ ids' = ids /\ clock' = clock /\ calls' = calls
      /\ removed' = removed /\ orphans' = orphans
  BY DEF Reorder
<1>7. ids' \in Nat /\ ids <= ids' /\ ids \in Nat
  <2>1. ids \in Nat
    BY <1>1, NumbersAreNat
  <2> QED
    BY <1>6, <2>1
<1>8. t.at \in Nat /\ t.at <= clock
  BY <1>1 DEF CallSound
<1>9. Turn(t)
  BY <1>4, <1>5 DEF Turn
<1>10. DOMAIN tracks' = DOMAIN tracks
  BY <1>5 DEF Reordered
<1> DEFINE Moved(u) == Placed(tracks'[u], tracks[u], s, l, done, u, t.at)
<1>11. \A u \in DOMAIN tracks :
         \/ Moved(u)
         \/ tracks'[u] = tracks[u] /\ (tracks[u].scenario # s \/ \A k \in 1..done : l[k] # u)
  BY <1>1, <1>4, <1>5, ReorderedRow
<1>12. \A u \in DOMAIN tracks : Moved(u) => TrackSound(u, tracks[u])'
  <2> SUFFICES ASSUME NEW u \in DOMAIN tracks, Moved(u) PROVE TrackSound(u, tracks[u])'
    OBVIOUS
  <2>1. PICK r, p : r = tracks[u] /\ p = tracks'[u]
    OBVIOUS
  <2>2. PICK k \in 1..done : /\ r.scenario = s /\ l[k] = u
                            /\ p = [scenario |-> s, ordinal |-> k - 1, created |-> r.created, updated |-> t.at]
    BY <2>1 DEF Placed
  <2>3. TrackSound(u, r)
    BY <1>1, <2>1 DEF RowsSound, TracksSound
  <2>4. r.scenario \in Ids /\ r.created \in Nat
    BY <2>3 DEF TrackSound, TrackRows
  <2>5. k \in DOMAIN l /\ k - 1 \in 0..(ids - 1)
    BY <1>4, <1>7
  <2>6. r.created <= t.at
    BY <1>4, <2>1, <2>2, <2>5 DEF Older
  <2>7. p \in TrackRows'
    BY <1>6, <1>8, <2>2, <2>4, <2>5 DEF TrackRows, Ids
  <2>8. InThePast(p)'
    BY <1>6, <1>8, <2>2, <2>6 DEF InThePast
  <2>9. p.scenario = r.scenario /\ p.created = r.created
    BY <2>2
  <2>10. TrackSound(u, p)'
    BY <1>6, <2>3, <2>7, <2>8, <2>9 DEF TrackSound
  <2> QED
    BY <2>1, <2>10
<1>13. TracksSound'
  <2>1. ASSUME NEW u \in DOMAIN tracks, NEW p, p = tracks[u], TrackSound(u, p) PROVE TrackSound(u, p)'
    BY <1>1, <1>6, <1>7, <2>1, NoneNewOf, RowStays
  <2>2. ASSUME NEW u \in DOMAIN tracks' PROVE TrackSound(u, tracks[u])'
    <3>1. CASE Moved(u)
      BY <1>10, <1>12, <3>1
    <3>2. CASE tracks'[u] = tracks[u]
      BY <1>1, <1>10, <2>1, <3>2 DEF RowsSound, TracksSound
    <3> QED
      BY <1>10, <1>11, <3>1, <3>2
  <2> QED
    BY <2>2 DEF TracksSound
<1>14. \A u \in DOMAIN tracks :
         tracks'[u].scenario = tracks[u].scenario /\ tracks'[u].created = tracks[u].created
  <2> SUFFICES ASSUME NEW u \in DOMAIN tracks
               PROVE  tracks'[u].scenario = tracks[u].scenario /\ tracks'[u].created = tracks[u].created
    OBVIOUS
  <2>1. CASE tracks'[u] = tracks[u]
    BY <2>1
  <2>2. CASE Moved(u)
    BY <2>2 DEF Placed
  <2> QED
    BY <1>11, <2>1, <2>2
<1>15. OrdinalsApart'
  <2> SUFFICES ASSUME NEW u \in DOMAIN tracks, NEW v \in DOMAIN tracks, u # v,
                      tracks[u].scenario = tracks[v].scenario, tracks[u].scenario \notin renumbered'
               PROVE  tracks'[u].ordinal # tracks'[v].ordinal
    BY <1>10, <1>14 DEF OrdinalsApart
  <2>1. tracks[u].scenario \notin renumbered
    BY <1>5
  <2>2. CASE tracks[u].scenario # s
    <3>1. tracks'[u] = tracks[u] /\ tracks'[v] = tracks[v]
      BY <1>11, <2>2 DEF Placed
    <3> QED
      BY <1>1, <2>1, <3>1 DEF OrdinalsApart
  <2>3. CASE tracks[u].scenario = s
    <3>1. TracksOf(s) \subseteq {l[k] : k \in 1..done}
      BY <1>5, <2>3
    <3>2. u \in TracksOf(s) /\ v \in TracksOf(s)
      BY <2>3 DEF TracksOf
    <3>3. Moved(u) /\ Moved(v)
      BY <1>11, <2>3, <3>1, <3>2
    <3>4. PICK j \in 1..done : l[j] = u /\ tracks'[u].ordinal = j - 1
      BY <3>3 DEF Placed
    <3>5. PICK k \in 1..done : l[k] = v /\ tracks'[v].ordinal = k - 1
      BY <3>3 DEF Placed
    <3> QED
      BY <3>4, <3>5
  <2> QED
    BY <2>2, <2>3
<1>16. NumbersSound' /\ EventsSound' /\ ScenariosSound'
  <2>1. NumbersSound'
    BY <1>1, <1>6, <1>10 DEF RowsSound, NumbersSound, Ids
  <2> QED
    BY <1>1, <1>6, <2>1 DEF RowsSound, EventsSound, EventRows, ScenariosSound, ScenarioRows, InThePast
<1>17. NoneNew(tracks', tracks)
  BY <1>10, <1>14 DEF NoneNew
<1>18. \A u \in tasks' : CallSound(u)'
  BY <1>6, <1>7, <1>9, <1>17, NoneNewOf, TasksStay
<1> QED
  BY <1>13, <1>15, <1>16, <1>18 DEF AuthoredInv, RowsSound

\* The date of the scenario of a changed track.
LEMMA TouchKeeps ==
  ASSUME AuthoredInv, NEW t \in tasks, Touch(t)
  PROVE  AuthoredInv'
<1>1. RowsSound /\ CallSound(t) /\ OrdinalsApart
  BY DEF AuthoredInv
<1>2. PICK i : i = t.on
  OBVIOUS
<1>3. /\ events' = events /\ tracks' = tracks /\ ids' = ids /\ clock' = clock /\ calls' = calls
      /\ removed' = removed /\ orphans' = orphans /\ renumbered' = renumbered
  BY DEF Touch, history
<1>4. Turn(t)
  BY DEF Touch, Turn
<1>5. CASE i \notin DOMAIN scenarios
  <2>1. scenarios' = scenarios
    BY <1>2, <1>5 DEF Touch
  <2> QED
    BY <1>3, <1>4, <2>1, NothingChanges DEF rows, history
<1>6. CASE i \in DOMAIN scenarios
  <2>1. PICK r, q : r = scenarios[i] /\ q = [r EXCEPT !.updated = t.at]
    OBVIOUS
  <2>2. /\ DOMAIN scenarios' = DOMAIN scenarios /\ scenarios'[i] = q
        /\ \A e \in DOMAIN scenarios : e # i => scenarios'[e] = scenarios[e]
    <3>1. scenarios' = [scenarios EXCEPT ![i].updated = t.at]
      BY <1>2, <1>6 DEF Touch
    <3> QED
      BY <1>6, <2>1, <3>1
  <2>3. q \in ScenarioRows /\ InThePast(q)' /\ q.created = r.created
    <3>1. r \in ScenarioRows
      BY <1>1, <1>6, <2>1 DEF RowsSound, ScenariosSound
    <3>2. q = [name |-> r.name, detail |-> r.detail, created |-> r.created, updated |-> t.at]
      BY <2>1, <3>1 DEF ScenarioRows
    <3>3. t.at \in Nat /\ t.at <= clock /\ r.created <= t.at
      <4>1. t.on # 0 /\ t.call[1] \notin {"change_event", "change_scenario"}
        BY DEF Touch
      <4>2. t.at \in Nat /\ t.at <= clock /\ Older(i, scenarios, t)
        BY <1>1, <1>2, <4>1 DEF CallSound
      <4> QED
        BY <1>6, <2>1, <4>2 DEF Older
    <3> QED
      BY <1>3, <3>1, <3>2, <3>3 DEF ScenarioRows, InThePast
  <2>4. ids' \in Nat /\ ids <= ids'
    <3>1. ids \in Nat
      BY <1>1, NumbersAreNat
    <3> QED
      BY <1>3, <3>1
  <2>5. ScenariosSound'
    BY <1>1, <1>3, <2>2, <2>3 DEF RowsSound, ScenariosSound, ScenarioRows, InThePast
  <2>6. NumbersSound' /\ EventsSound' /\ OrdinalsApart'
    BY <1>1, <1>3, <2>2 DEF RowsSound, NumbersSound, EventsSound, EventRows, InThePast, Ids, OrdinalsApart
  <2>7. NoneNew(scenarios', scenarios)
    BY <2>1, <2>2, <2>3 DEF NoneNew
  <2>8. TracksSound'
    BY <1>1, <1>3, <2>2, <2>4, <2>7, TracksStay
  <2>9. \A u \in tasks' : CallSound(u)'
    BY <1>3, <1>4, <2>4, <2>7, NoneNewOf, TasksStay
  <2> QED
    BY <2>5, <2>6, <2>8, <2>9 DEF AuthoredInv, RowsSound
<1> QED
  BY <1>5, <1>6

\* Time makes nothing younger.
LEMMA TickKeeps ==
  ASSUME AuthoredInv, Tick
  PROVE  AuthoredInv'
<1>1. RowsSound /\ OrdinalsApart
  BY DEF AuthoredInv
<1>2. /\ clock < MaxClock /\ clock' = clock + 1 /\ tasks' = tasks
      /\ events' = events /\ scenarios' = scenarios /\ tracks' = tracks /\ ids' = ids /\ calls' = calls
      /\ removed' = removed /\ orphans' = orphans /\ renumbered' = renumbered
  BY DEF Tick, rows, history
<1>3. clock \in Nat /\ ids \in Nat /\ MaxClock \in Nat
  BY <1>1, NumbersAreNat, AuthoredAssumption DEF AuthoredAssumption
<1>4. clock' \in Nat /\ clock <= clock' /\ clock' \in 0..MaxClock /\ ids' \in Nat /\ ids <= ids'
  BY <1>2, <1>3
<1>5. NumbersSound'
  BY <1>1, <1>2, <1>4 DEF RowsSound, NumbersSound, Ids
<1>6. \A r : r.updated \in Nat /\ InThePast(r) => InThePast(r)'
  BY <1>3, <1>4 DEF InThePast
<1>7. EventsSound' /\ ScenariosSound'
  <2>1. ASSUME NEW e \in DOMAIN events, NEW r, r = events[e] PROVE InThePast(r)'
    BY <1>1, <1>6, <2>1 DEF RowsSound, EventsSound, EventRows
  <2>2. ASSUME NEW s \in DOMAIN scenarios, NEW r, r = scenarios[s] PROVE InThePast(r)'
    BY <1>1, <1>6, <2>2 DEF RowsSound, ScenariosSound, ScenarioRows
  <2>3. \A e \in DOMAIN events : InThePast(events[e])'
    BY <1>2, <2>1
  <2>4. \A s \in DOMAIN scenarios : InThePast(scenarios[s])'
    BY <1>2, <2>2
  <2>5. EventsSound'
    BY <1>1, <1>2, <2>3 DEF RowsSound, EventsSound, EventRows
  <2>6. ScenariosSound'
    BY <1>1, <1>2, <2>4 DEF RowsSound, ScenariosSound, ScenarioRows
  <2> QED
    BY <2>5, <2>6
<1>8. NoneNew(scenarios', scenarios) /\ NoneNew(tracks', tracks)
  BY <1>2, NoneNewOf
<1>9. TracksSound'
  <2>1. ASSUME NEW u \in DOMAIN tracks, NEW p, p = tracks[u], TrackSound(u, p) PROVE TrackSound(u, p)'
    BY <1>1, <1>2, <1>4, <1>8, <2>1, RowStays
  <2>2. ASSUME NEW u \in DOMAIN tracks' PROVE TrackSound(u, tracks[u])'
    BY <1>1, <1>2, <2>1 DEF RowsSound, TracksSound
  <2> QED
    BY <2>2 DEF TracksSound
<1>10. OrdinalsApart'
  BY <1>1, <1>2 DEF OrdinalsApart
<1>11. \A u \in tasks' : CallSound(u)'
  BY <1>1, <1>2, <1>4, <1>8, CallStays DEF AuthoredInv
<1> QED
  BY <1>5, <1>7, <1>9, <1>10, <1>11 DEF AuthoredInv, RowsSound

\* What a call names was drawn before the call.
LEMMA CallIsSound ==
  ASSUME RowsSound, NEW c \in EventCalls \cup ScenarioCalls \cup TrackCalls, NEW t,
         t = [call |-> c, n |-> calls, at |-> clock, on |-> 0]
  PROVE  CallSound(t)
<1>1. clock \in Nat /\ ids \in Nat
  BY NumbersAreNat
<1>2. t.call = c /\ t.at = clock /\ t.on = 0 /\ t = [call |-> t.call, n |-> t.n, at |-> t.at, on |-> t.on]
  OBVIOUS
<1>3. ScenarioIds \subseteq Ids /\ TrackIds \subseteq Ids
  BY Drawn DEF RowsSound, NumbersSound, ScenarioIds, TrackIds
<1>4. \A i \in Ids : Older(i, scenarios, t)
  <2>1. \A s \in DOMAIN scenarios : scenarios[s].created <= clock
    BY <1>1 DEF RowsSound, ScenariosSound, ScenarioRows, InThePast
  <2> QED
    BY <1>2, <2>1 DEF Older
<1>5. \A i \in Ids : Older(i, tracks, t)
  <2>1. \A u \in DOMAIN tracks : tracks[u].created <= clock
    BY <1>1 DEF RowsSound, TracksSound, TrackSound, TrackRows, InThePast
  <2> QED
    BY <1>2, <2>1 DEF Older
<1>6. t.at \in Nat /\ t.at <= clock
  BY <1>1, <1>2
<1>7. CASE c \in EventCalls
  <2> DEFINE Kind1 == {<<"add_event", x>> : x \in Texts}
             Kind2 == {<<"change_event", i, x>> : i \in EventIds, x \in Texts}
             Kind3 == {<<"remove_event", i>> : i \in EventIds}
  <2>1. CASE c \in Kind1
    <3>0. PICK x \in Texts : c = <<"add_event", x>>
      BY <2>1
    <3>1. c[1] = "add_event" /\ c[2] \in Texts
      BY <3>0
    <3> QED
      BY <1>2, <1>6, <3>1 DEF CallSound
  <2>2. CASE c \in Kind2
    <3>0. PICK i \in EventIds, x \in Texts : c = <<"change_event", i, x>>
      BY <2>2, Z3
    <3>1. c[1] = "change_event" /\ c[3] \in Texts
      BY <3>0
    <3> QED
      BY <1>2, <1>6, <3>1 DEF CallSound
  <2>3. CASE c \in Kind3
    <3>0. PICK i \in EventIds : c = <<"remove_event", i>>
      BY <2>3
    <3>1. c[1] = "remove_event"
      BY <3>0
    <3> QED
      BY <1>2, <1>6, <3>1 DEF CallSound
  <2>5. EventCalls = Kind1 \cup Kind2 \cup Kind3
    BY DEF EventCalls
  <2> HIDE DEF Kind1, Kind2, Kind3
  <2> QED
    BY <1>7, <2>1, <2>2, <2>3, <2>5
<1>8. CASE c \in ScenarioCalls
  <2> DEFINE Kind1 == {<<"add_scenario", x>> : x \in Texts}
             Kind2 == {<<"change_scenario", i, x, d>> : i \in ScenarioIds, x \in Texts, d \in Texts \cup {Keep}}
             Kind3 == {<<"remove_scenario", i>> : i \in ScenarioIds}
  <2>1. CASE c \in Kind1
    <3>0. PICK x \in Texts : c = <<"add_scenario", x>>
      BY <2>1
    <3>1. c[1] = "add_scenario" /\ c[2] \in Texts
      BY <3>0
    <3> QED
      BY <1>2, <1>6, <3>1 DEF CallSound
  <2>2. CASE c \in Kind2
    <3>0. PICK i \in ScenarioIds, x \in Texts, d \in Texts \cup {Keep} : c = <<"change_scenario", i, x, d>>
      BY <2>2, Z3
    <3>1. c[1] = "change_scenario" /\ c[3] \in Texts /\ c[4] \in Texts \cup {Keep}
      BY <3>0
    <3> QED
      BY <1>2, <1>6, <3>1 DEF CallSound
  <2>3. CASE c \in Kind3
    <3>0. PICK i \in ScenarioIds : c = <<"remove_scenario", i>>
      BY <2>3
    <3>1. c[1] = "remove_scenario"
      BY <3>0
    <3> QED
      BY <1>2, <1>6, <3>1 DEF CallSound
  <2>5. ScenarioCalls = Kind1 \cup Kind2 \cup Kind3
    BY DEF ScenarioCalls
  <2> HIDE DEF Kind1, Kind2, Kind3
  <2> QED
    BY <1>8, <2>1, <2>2, <2>3, <2>5
<1>9. CASE c \in TrackCalls
  <2> DEFINE Kind1 == {<<"add_track", s>> : s \in ScenarioIds}
             Kind2 == {<<"change_track", i, o>> : i \in TrackIds, o \in {Keep, 0}}
             Kind3 == {<<"remove_track", i>> : i \in TrackIds}
             Kind4 == {<<"reorder", s, l>> : s \in ScenarioIds, l \in {k \in Lists : IsInjective(k)}}
  <2>1. CASE c \in Kind1
    <3>0. PICK s \in ScenarioIds : c = <<"add_track", s>>
      BY <2>1
    <3>1. c[1] = "add_track" /\ c[2] \in Ids
      BY <1>3, <3>0
    <3> QED
      BY <1>2, <1>4, <1>6, <3>1 DEF CallSound
  <2>2. CASE c \in Kind2
    <3>0. PICK i \in TrackIds, o \in {Keep, 0} : c = <<"change_track", i, o>>
      BY <2>2, Z3
    <3>1. c[1] = "change_track" /\ c[2] \in Ids /\ c[3] \in {Keep, 0}
      BY <1>3, <3>0
    <3> QED
      BY <1>2, <1>5, <1>6, <3>1 DEF CallSound
  <2>3. CASE c \in Kind3
    <3>0. PICK i \in TrackIds : c = <<"remove_track", i>>
      BY <2>3
    <3>1. c[1] = "remove_track" /\ c[2] \in Ids
      BY <1>3, <3>0
    <3> QED
      BY <1>2, <1>5, <1>6, <3>1 DEF CallSound
  <2>4. CASE c \in Kind4
    <3>1. PICK s \in ScenarioIds, l \in Lists : c = <<"reorder", s, l>> /\ IsInjective(l)
      BY <2>4
    <3>2. l \in Seq(Ids) /\ Len(l) <= ids /\ \A k \in DOMAIN l : l[k] \in Ids
      <4>1. CASE l = <<>>
        BY <1>1, <4>1
      <4>2. CASE l \in {<<i>> : i \in TrackIds}
        <5>1. PICK i \in TrackIds : l = <<i>>
          BY <4>2
        <5>2. i \in Ids /\ 1 <= ids
          BY <1>1, <1>3 DEF Ids
        <5> QED
          BY <1>1, <5>1, <5>2
      <4>3. CASE l \in {<<i, j>> : i, j \in TrackIds}
        <5>1. PICK i \in TrackIds, j \in TrackIds : l = <<i, j>>
          BY <4>3
        <5>2. i # j
          BY <3>1, <5>1 DEF IsInjective
        <5>3. i \in Ids /\ j \in Ids /\ 2 <= ids
          BY <1>1, <1>3, <5>2 DEF Ids
        <5> QED
          BY <1>1, <5>1, <5>3
      <4> QED
        BY <4>1, <4>2, <4>3 DEF Lists
    <3>3. c[1] = "reorder" /\ c[2] \in Ids /\ c[3] = l
      BY <1>3, <3>1
    <3> QED
      BY <1>2, <1>4, <1>5, <1>6, <3>2, <3>3 DEF CallSound
  <2>5. TrackCalls = Kind1 \cup Kind2 \cup Kind3 \cup Kind4
    BY DEF TrackCalls
  <2> HIDE DEF Kind1, Kind2, Kind3, Kind4
  <2> QED
    BY <1>9, <2>1, <2>2, <2>3, <2>4, <2>5
<1> QED
  BY <1>7, <1>8, <1>9

\* A new call waits for its turn with the date it was made at.
LEMMA CallKeeps ==
  ASSUME AuthoredInv, Call
  PROVE  AuthoredInv'
<1>1. RowsSound /\ OrdinalsApart
  BY DEF AuthoredInv
<1>2. PICK c \in EventCalls \cup ScenarioCalls \cup TrackCalls :
        tasks' = tasks \cup {[call |-> c, n |-> calls, at |-> clock, on |-> 0]}
  BY DEF Call
<1>3. PICK t : t = [call |-> c, n |-> calls, at |-> clock, on |-> 0]
  OBVIOUS
<1>4. /\ calls < MaxCalls /\ calls' = calls + 1 /\ clock' = clock
      /\ events' = events /\ scenarios' = scenarios /\ tracks' = tracks /\ ids' = ids
      /\ removed' = removed /\ orphans' = orphans /\ renumbered' = renumbered
  BY DEF Call, rows, history
<1>5. clock \in Nat /\ ids \in Nat /\ MaxCalls \in Nat
  BY <1>1, NumbersAreNat, AuthoredAssumption DEF AuthoredAssumption
<1>6. clock' \in Nat /\ clock <= clock' /\ ids' \in Nat /\ ids <= ids'
  BY <1>4, <1>5
<1>7. calls' \in 0..MaxCalls
  <2>1. calls \in 0..MaxCalls
    BY <1>1 DEF RowsSound, NumbersSound
  <2> QED
    BY <1>4, <1>5, <2>1
<1>8. NumbersSound' /\ EventsSound' /\ ScenariosSound'
  <2>1. NumbersSound'
    BY <1>1, <1>4, <1>7 DEF RowsSound, NumbersSound, Ids
  <2> QED
    BY <1>1, <1>4, <2>1 DEF RowsSound, EventsSound, EventRows, ScenariosSound, ScenarioRows, InThePast
<1>9. NoneNew(scenarios', scenarios) /\ NoneNew(tracks', tracks)
  BY <1>4, NoneNewOf
<1>10. TracksSound'
  BY <1>1, <1>4, <1>6, <1>9, TracksStay
<1>11. OrdinalsApart'
  BY <1>1, <1>4 DEF OrdinalsApart
<1>12. \A u \in tasks' : CallSound(u)'
  <2>1. \A u \in tasks \cup {t} : CallSound(u)
    BY <1>1, <1>3, CallIsSound DEF AuthoredInv
  <2>2. ASSUME NEW u \in tasks \cup {t} PROVE CallSound(u)'
    BY <1>1, <1>6, <1>9, <2>1, CallStays
  <2> QED
    BY <1>2, <1>3, <2>2
<1> QED
  BY <1>8, <1>10, <1>11, <1>12 DEF AuthoredInv, RowsSound

\* An empty database, or one with a scenario.
LEMMA AuthoredInvInit == AuthoredInit => AuthoredInv
<1> SUFFICES ASSUME AuthoredInit PROVE AuthoredInv
  OBVIOUS
<1>1. /\ DOMAIN events = {} /\ DOMAIN tracks = {} /\ ids = Cardinality(DOMAIN scenarios)
      /\ clock = 0 /\ calls = 0 /\ tasks = {} /\ removed = {} /\ orphans = {}
  BY DEF AuthoredInit
<1>2. MaxClock \in Nat /\ MaxCalls \in Nat
  BY AuthoredAssumption DEF AuthoredAssumption
<1>3. ids \in Nat /\ DOMAIN scenarios = Ids /\ ScenariosSound
  <2>1. CASE scenarios = <<>>
    <3>1. DOMAIN scenarios = {}
      BY <2>1
    <3>2. ids = 0
      BY <1>1, <3>1, FS_EmptySet
    <3> QED
      BY <3>1, <3>2 DEF Ids, ScenariosSound
  <2>2. ASSUME NEW m \in Texts, NEW d \in Texts,
               scenarios = [i \in {1} |-> [name |-> m, detail |-> d, created |-> 0, updated |-> 0]]
        PROVE  ids \in Nat /\ DOMAIN scenarios = Ids /\ ScenariosSound
    <3>1. DOMAIN scenarios = {1} /\ scenarios[1] = [name |-> m, detail |-> d, created |-> 0, updated |-> 0]
      BY <2>2
    <3>2. ids = 1
      BY <1>1, <3>1, FS_Singleton
    <3>3. Ids = {1}
      BY <3>2 DEF Ids
    <3>4. ScenariosSound
      BY <1>1, <3>1 DEF ScenariosSound, ScenarioRows, InThePast
    <3> QED
      BY <3>1, <3>2, <3>3, <3>4
  <2> QED
    BY <2>1, <2>2 DEF AuthoredInit
<1>4. NumbersSound
  BY <1>1, <1>2, <1>3 DEF NumbersSound
<1>5. EventsSound /\ TracksSound /\ OrdinalsApart
  BY <1>1 DEF EventsSound, TracksSound, OrdinalsApart
<1> QED
  BY <1>1, <1>3, <1>4, <1>5 DEF AuthoredInv, RowsSound

\* One lemma for each operation.
LEMMA AuthoredInvStep == AuthoredInv /\ [AuthoredNext]_authoredVars => AuthoredInv'
<1> SUFFICES ASSUME AuthoredInv, [AuthoredNext]_authoredVars PROVE AuthoredInv'
  OBVIOUS
<1>1. CASE Tick
  BY <1>1, TickKeeps
<1>2. CASE Call
  BY <1>2, CallKeeps
<1>3. ASSUME NEW t \in tasks, AddEvent(t) \/ ChangeEvent(t) \/ RemoveEvent(t) PROVE AuthoredInv'
  BY <1>3, AddEventKeeps, ChangeEventKeeps, RemoveEventKeeps
<1>4. ASSUME NEW t \in tasks, AddScenario(t) \/ ChangeScenario(t) \/ RemoveScenario(t) PROVE AuthoredInv'
  BY <1>4, AddScenarioKeeps, ChangeScenarioKeeps, RemoveScenarioKeeps
<1>5. ASSUME NEW t \in tasks, AddTrack(t) \/ ChangeTrack(t) \/ RemoveTrack(t) \/ Reorder(t) PROVE AuthoredInv'
  BY <1>5, AddTrackKeeps, ChangeTrackKeeps, RemoveTrackKeeps, ReorderKeeps
<1>6. ASSUME NEW t \in tasks, Touch(t) PROVE AuthoredInv'
  BY <1>6, TouchKeeps
<1>7. ASSUME NEW t \in tasks, ReadBack(t) \/ Fails(t) PROVE AuthoredInv'
  <2>1. Turn(t) /\ UNCHANGED <<rows, clock, calls, history>>
    BY <1>7 DEF ReadBack, Fails, Turn
  <2> QED
    BY <2>1, NothingChanges
<1>8. CASE UNCHANGED authoredVars
  <2>1. /\ events' = events /\ scenarios' = scenarios /\ tracks' = tracks /\ ids' = ids /\ clock' = clock
        /\ calls' = calls /\ tasks' = tasks
        /\ removed' = removed /\ orphans' = orphans /\ renumbered' = renumbered
    BY <1>8 DEF authoredVars, rows, history
  <2>2. RowsSound /\ OrdinalsApart /\ \A t \in tasks : CallSound(t)
    BY DEF AuthoredInv
  <2>3. RowsSound'
    BY <2>1, <2>2 DEF RowsSound, NumbersSound, EventsSound, EventRows, ScenariosSound, ScenarioRows,
       TracksSound, TrackSound, TrackRows, InThePast, Ids
  <2>4. OrdinalsApart'
    BY <2>1, <2>2 DEF OrdinalsApart
  <2>5. \A t \in tasks : CallSound(t)'
    <3> SUFFICES ASSUME NEW t \in tasks PROVE CallSound(t)'
      OBVIOUS
    <3>1. CallSound(t)
      BY <2>2
    <3> QED
      BY <2>1, <3>1 DEF CallSound, Older, Ids
  <2> QED
    BY <2>1, <2>3, <2>4, <2>5 DEF AuthoredInv
<1> QED
  BY <1>1, <1>2, <1>3, <1>4, <1>5, <1>6, <1>7, <1>8 DEF AuthoredNext

-----------------------------------------------------------------------------

\* The invariant holds throughout.
LEMMA AuthoredInvAlways == AuthoredSpec => []AuthoredInv
<1>1. AuthoredInit => AuthoredInv
  BY AuthoredInvInit
<1>2. AuthoredInv /\ [AuthoredNext]_authoredVars => AuthoredInv'
  BY AuthoredInvStep
<1> QED
  BY <1>1, <1>2, PTL DEF AuthoredSpec

(***************************************************************************)
(* Every id that was drawn belongs to a row that is there or was removed   *)
(* on demand, no row was updated before it was created, and a track is     *)
(* without its scenario only if it was added when that had gone            *)
(* (storage.rs: events of interest, scenarios, their tracks): whichever    *)
(* calls overlap and whichever fail, for any number of calls and rows.     *)
(***************************************************************************)
THEOREM RowsKept == AuthoredSpec => []RowsAccounted
<1>1. AuthoredInv => RowsAccounted
  <2> SUFFICES ASSUME AuthoredInv PROVE RowsAccounted
    OBVIOUS
  <2>1. RowsSound
    BY DEF AuthoredInv
  <2>2. ids \in Nat /\ MaxCalls \in Nat
    BY <2>1, NumbersAreNat, AuthoredAssumption DEF AuthoredAssumption
  <2>3. \A i \in 0..(ids - 1) : i \in 0..(ids + MaxCalls)
    BY <2>2
  <2>4. AuthoredTypeOK
    BY <2>1, <2>3 DEF RowsSound, NumbersSound, EventsSound, EventRows, ScenariosSound, ScenarioRows,
       TracksSound, TrackSound, TrackRows, AuthoredTypeOK
  <2> QED
    BY <2>1, <2>4 DEF RowsSound, NumbersSound, EventsSound, ScenariosSound, TracksSound, TrackSound,
       InThePast, Dated, RowsAccounted
<1> QED
  BY <1>1, AuthoredInvAlways, PTL

\* The tracks of a scenario with ordinals that are apart can be put in their order.
LEMMA Sortable ==
  ASSUME AuthoredInv, NEW s, s \notin renumbered
  PROVE  \E l \in [1..Cardinality(TracksOf(s)) -> TracksOf(s)] :
           /\ IsInjective(l)
           /\ \A j, k \in DOMAIN l : j < k => tracks[l[j]].ordinal <= tracks[l[k]].ordinal
<1> DEFINE T == TracksOf(s)
           Ordinal == [u \in T |-> tracks[u].ordinal]
           Ordinals == {Ordinal[u] : u \in T}
<1>1. ids \in Nat /\ IsFiniteSet(T) /\ Cardinality(T) \in Nat
  <2>1. RowsSound
    BY DEF AuthoredInv
  <2>2. ids \in Nat /\ T \subseteq 1..ids
    BY <2>1, NumbersAreNat, Drawn DEF TracksOf, Ids
  <2>3. IsFiniteSet(1..ids)
    BY <2>2, FS_Interval
  <2> QED
    BY <2>2, <2>3, FS_Subset, FS_CardinalityType
<1>2. \A u \in T : Ordinal[u] \in Nat
  <2>1. \A u \in T : tracks[u].ordinal \in 0..(ids - 1)
    BY DEF AuthoredInv, RowsSound, TracksSound, TrackSound, TrackRows, TracksOf
  <2> QED
    BY <1>1, <2>1
<1>3. \A u, v \in T : u # v => Ordinal[u] # Ordinal[v]
  BY DEF AuthoredInv, OrdinalsApart, TracksOf
<1>4. Ordinals \in SUBSET Nat /\ IsFiniteSet(Ordinals) /\ Cardinality(Ordinals) = Cardinality(T)
  <2>1. Ordinal \in Bijection(T, Ordinals)
    BY <1>3 DEF Bijection, Injection, Surjection, IsInjective
  <2>2. ExistsBijection(T, Ordinals)
    BY <2>1 DEF ExistsBijection
  <2>3. Ordinals \in SUBSET Nat
    BY <1>2
  <2> HIDE DEF T, Ordinals
  <2> QED
    BY <1>1, <2>2, <2>3, FS_Bijection
<1> DEFINE C == Cardinality(T)
           Place(u) == Rank(Ordinals, Ordinal[u])
           l == [k \in 1..C |-> CHOOSE u \in T : Place(u) = k - 1]
<1>5. /\ \A x, y \in Ordinals : x < y => Rank(Ordinals, x) < Rank(Ordinals, y)
      /\ \A x \in Ordinals : Rank(Ordinals, x) \in Nat
      /\ \A n \in 0..(C - 1) : \E x \in Ordinals : Rank(Ordinals, x) = n
  <2> HIDE DEF Ordinals
  <2> QED
    BY <1>4, Ranks
<1>6. \A k \in 1..C : \E u \in T : Place(u) = k - 1
  <2> SUFFICES ASSUME NEW k \in 1..C PROVE \E u \in T : Place(u) = k - 1
    OBVIOUS
  <2>1. k - 1 \in 0..(C - 1)
    BY <1>1
  <2>2. PICK x \in Ordinals : Rank(Ordinals, x) = k - 1
    BY <1>5, <2>1
  <2>3. PICK u \in T : x = Ordinal[u]
    OBVIOUS
  <2> QED
    BY <2>2, <2>3
<1>7. \A k \in 1..C : l[k] \in T /\ Place(l[k]) = k - 1
  <2> HIDE DEF Place, T
  <2> QED
    BY <1>6
<1>8. l \in [1..C -> T] /\ DOMAIN l = 1..C
  <2> HIDE DEF Place, T
  <2> QED
    BY <1>6
<1> HIDE DEF l
<1>9. IsInjective(l)
  <2> SUFFICES ASSUME NEW j \in 1..C, NEW k \in 1..C, l[j] = l[k] PROVE j = k
    BY <1>8 DEF IsInjective
  <2>1. j - 1 = k - 1
    BY <1>7
  <2> QED
    BY <1>1, <2>1
<1>10. ASSUME NEW j \in 1..C, NEW k \in 1..C, j < k
       PROVE  tracks[l[j]].ordinal <= tracks[l[k]].ordinal
  <2>1. PICK x, y : x = Ordinal[l[j]] /\ y = Ordinal[l[k]]
    OBVIOUS
  <2>2. x \in Ordinals /\ y \in Ordinals /\ x \in Nat /\ y \in Nat
    BY <1>2, <1>7, <2>1
  <2>3. Rank(Ordinals, x) = j - 1 /\ Rank(Ordinals, y) = k - 1
    BY <1>7, <2>1
  <2>4. ~(y < x)
    <3> HIDE DEF Ordinals
    <3>1. y < x => k - 1 < j - 1
      BY <1>5, <2>2, <2>3
    <3> QED
      BY <1>1, <1>10, <3>1
  <2>5. x <= y
    BY <2>2, <2>4
  <2> QED
    BY <1>7, <2>1, <2>5
<1> QED
  BY <1>8, <1>9, <1>10

(***************************************************************************)
(* The tracks of a scenario open in one order: their ordinals, which       *)
(* next_ordinal takes one above the greatest, are different, whatever      *)
(* tracks were removed in between, as long as nobody renumbered them       *)
(* (storage.rs add_scenario_track_sync, get_scenario_tracks_sync).         *)
(***************************************************************************)
THEOREM OneOrder == AuthoredSpec => []OrdinalsDistinct
<1>1. AuthoredInv => OrdinalsDistinct
  <2> SUFFICES ASSUME AuthoredInv, NEW s, s \notin renumbered, NEW k \in 2..Len(Opened(s))
               PROVE  tracks[Opened(s)[k - 1]].ordinal < tracks[Opened(s)[k]].ordinal
    BY DEF OrdinalsDistinct
  <2>1. PICK l : l = Opened(s)
    OBVIOUS
  <2>2. PICK C : C = Cardinality(TracksOf(s))
    OBVIOUS
  <2>3. /\ l \in [1..C -> TracksOf(s)] /\ IsInjective(l)
        /\ \A i, j \in DOMAIN l : i < j => tracks[l[i]].ordinal <= tracks[l[j]].ordinal
    BY <2>1, <2>2, Sortable DEF Opened
  <2>4. C \in Nat
    <3>1. RowsSound
      BY DEF AuthoredInv
    <3>2. ids \in Nat /\ TracksOf(s) \subseteq 1..ids
      BY <3>1, NumbersAreNat, Drawn DEF TracksOf, Ids
    <3>3. IsFiniteSet(1..ids)
      BY <3>2, FS_Interval
    <3> QED
      BY <2>2, <3>2, <3>3, FS_Subset, FS_CardinalityType
  <2>5. k \in 2..C
    BY <2>1, <2>3, <2>4
  <2>6. k \in 1..C /\ k - 1 \in 1..C /\ k - 1 < k /\ k - 1 # k
    BY <2>4, <2>5
  <2>7. PICK u, v : u = l[k - 1] /\ v = l[k]
    OBVIOUS
  <2>8. u \in TracksOf(s) /\ v \in TracksOf(s) /\ u # v /\ tracks[u].ordinal <= tracks[v].ordinal
    BY <2>3, <2>6, <2>7 DEF IsInjective
  <2>9. tracks[u].ordinal # tracks[v].ordinal
    BY <2>8 DEF AuthoredInv, OrdinalsApart, TracksOf
  <2>10. \A w \in TracksOf(s) : tracks[w].ordinal \in 0..(ids - 1)
    BY DEF AuthoredInv, RowsSound, TracksSound, TrackSound, TrackRows, TracksOf
  <2>11. tracks[u].ordinal < tracks[v].ordinal
    BY <2>8, <2>9, <2>10
  <2> QED
    BY <2>1, <2>7, <2>11
<1> QED
  BY <1>1, AuthoredInvAlways, PTL

-----------------------------------------------------------------------------
(* Pieces.                                                                 *)

\* The step of the recursion as a function.
Cuts(B, s) == [n \in 1..Len(s) |-> [p \in Seq(Seq(B)) \ {<<>>} |-> Cut(p, s[n])]]

\* Front and last element of a list that is not empty.
LEMMA FrontLast ==
  ASSUME NEW S, NEW p \in Seq(S), p # <<>>
  PROVE  Front(p) \in Seq(S) /\ Last(p) \in S /\ p = Append(Front(p), Last(p)) /\ Len(Front(p)) = Len(p) - 1
<1>1. PICK t \in Seq(S), e \in S : p = Append(t, e)
  BY SequenceEmptyOrAppend
<1>2. Len(p) = Len(t) + 1 /\ p[Len(p)] = e /\ Len(t) \in Nat
  BY <1>1
<1>3. SubSeq(p, 1, Len(p) - 1) = t
  BY <1>1, <1>2
<1> QED BY <1>1, <1>2, <1>3 DEF Front, Last

LEMMA FrontLastOfAppend ==
  ASSUME NEW S, NEW p \in Seq(S), NEW e \in S
  PROVE  Front(Append(p, e)) = p /\ Last(Append(p, e)) = e /\ Append(p, e) \in Seq(S) \ {<<>>}
<1>1. Len(Append(p, e)) = Len(p) + 1 /\ Append(p, e)[Len(p) + 1] = e /\ Append(p, e) \in Seq(S) /\ Append(p, e) # <<>>
  BY AppendProperties
<1>2. SubSeq(Append(p, e), 1, Len(p)) = p
  OBVIOUS
<1> QED BY <1>1, <1>2 DEF Front, Last

LEMMA CutType ==
  ASSUME NEW B, NEW p \in Seq(Seq(B)) \ {<<>>}, NEW b \in B
  PROVE  Cut(p, b) \in Seq(Seq(B)) \ {<<>>}
<1>1. Front(p) \in Seq(Seq(B)) /\ Last(p) \in Seq(B)
  BY FrontLast
<1>2. <<>> \in Seq(B) /\ Append(Last(p), b) \in Seq(B)
  BY <1>1
<1>3. Append(p, <<>>) \in Seq(Seq(B)) \ {<<>>}
  <2>1. PICK L : L = Seq(B)
    OBVIOUS
  <2>2. PICK e \in L : e = <<>>
    BY <1>2, <2>1
  <2>3. p \in Seq(L)
    BY <2>1
  <2>4. Append(p, e) \in Seq(L) /\ Append(p, e) # <<>>
    BY <2>3, AppendProperties
  <2> QED BY <2>1, <2>2, <2>4
<1>4. Append(Front(p), Append(Last(p), b)) \in Seq(Seq(B)) \ {<<>>}
  <2>1. PICK front \in Seq(Seq(B)), last \in Seq(B) : front = Front(p) /\ last = Append(Last(p), b)
    BY <1>1, <1>2
  <2>2. Append(front, last) \in Seq(Seq(B)) /\ Append(front, last) # <<>>
    BY AppendProperties
  <2> QED BY <2>1, <2>2
<1> QED BY <1>3, <1>4 DEF Cut

LEMMA CutsType ==
  ASSUME NEW B, NEW s \in Seq(B)
  PROVE  Cuts(B, s) \in [1..Len(s) -> [Seq(Seq(B)) \ {<<>>} -> Seq(Seq(B)) \ {<<>>}]]
<1>1. \A n \in 1..Len(s) : s[n] \in B
  OBVIOUS
<1> QED BY <1>1, CutType DEF Cuts

\* Pieces(s) is where the cuts lead from the one empty piece.
LEMMA PiecesFollow ==
  ASSUME NEW B, NEW s \in Seq(B)
  PROVE  \E f \in [0..Len(s) -> Seq(Seq(B)) \ {<<>>}] :
           Follows(f, Len(s), << <<>> >>, Cuts(B, s)) /\ Pieces(s) = f[Len(s)]
<1> DEFINE State == Seq(Seq(B)) \ {<<>>}
           N == Len(s)
           Eq(g) == g = [n \in 0..N |-> IF n = 0 THEN << <<>> >> ELSE Cut(g[n - 1], s[n])]
           f == CHOOSE g : Eq(g)
<1>1. Pieces(s) = f[N]
  BY DEF Pieces
<1>2. N \in Nat /\ << <<>> >> \in State
  <2>1. <<>> \in Seq(B)
    OBVIOUS
  <2>2. \A e : <<e>> # <<>>
    OBVIOUS
  <2>3. \A e \in Seq(B) : <<e>> \in Seq(Seq(B))
    OBVIOUS
  <2> QED BY <2>1, <2>2, <2>3
<1>3. \A n \in 1..N : \A p \in State : Cuts(B, s)[n][p] = Cut(p, s[n])
  BY DEF Cuts
<1> HIDE DEF State
<1>4. PICK h \in [0..N -> State] : Follows(h, N, << <<>> >>, Cuts(B, s))
  BY <1>2, CutsType, Recursion DEF State
<1>5. Eq(h)
  <2>1. \A n \in 0..N : h[n] = IF n = 0 THEN << <<>> >> ELSE Cut(h[n - 1], s[n])
    <3>1. ASSUME NEW n \in 1..N PROVE h[n] = Cut(h[n - 1], s[n])
      <4>1. h[n - 1] \in State /\ h[n] = Cuts(B, s)[n][h[n - 1]]
        BY <1>4 DEF Follows
      <4> QED BY <1>3, <4>1
    <3>2. \A n \in 0..N : n = 0 \/ n \in 1..N
      OBVIOUS
    <3> QED BY <1>4, <3>1, <3>2 DEF Follows
  <2> QED BY <2>1
<1>6. Eq(f)
  <2> HIDE DEF Eq
  <2> QED BY <1>5
<1>7. \A n \in 0..N : f[n] = IF n = 0 THEN << <<>> >> ELSE Cut(f[n - 1], s[n])
  <2> HIDE DEF f
  <2> QED BY <1>6, Zenon
<1> HIDE DEF f, Eq
<1>8. f[0] = << <<>> >> /\ \A n \in 1..N : f[n] = Cut(f[n - 1], s[n])
  <2>1. 0 \in 0..N /\ \A n \in 1..N : n \in 0..N /\ n # 0
    BY <1>2
  <2> QED BY <1>7, <2>1
<1>9. Follows(f, N, << <<>> >>, Cuts(B, s)) /\ \A n \in 0..N : f[n] \in State
  <2>1. Tries(f, N, << <<>> >>, Cuts(B, s), State)
    BY <1>3, <1>8 DEF Tries
  <2>2. Cuts(B, s) \in [1..N -> [State -> State]]
    BY CutsType DEF State
  <2> QED BY <1>2, <2>1, <2>2, RecursionStays
<1>10. \A n \in 0..N : f[n] = h[n]
  <2>1. SameSteps(N, Cuts(B, s), Cuts(B, s))
    BY DEF SameSteps
  <2>2. SameValues(N, f, h)
    BY <1>2, <1>4, <1>9, <2>1, SameRecursion
  <2> QED BY <2>2 DEF SameValues
<1>11. Pieces(s) = h[N]
  BY <1>1, <1>2, <1>10
<1> QED BY <1>4, <1>11 DEF State

LEMMA PiecesType ==
  ASSUME NEW B, NEW s \in Seq(B)
  PROVE  Pieces(s) \in Seq(Seq(B)) /\ Pieces(s) # <<>>
<1>1. PICK f \in [0..Len(s) -> Seq(Seq(B)) \ {<<>>}] : Pieces(s) = f[Len(s)]
  BY PiecesFollow
<1> QED BY <1>1

LEMMA PiecesOfNothing == Pieces(<<>>) = << <<>> >>
<1>1. <<>> \in Seq({}) /\ Len(<<>>) = 0
  OBVIOUS
<1>2. PICK f : Follows(f, Len(<<>>), << <<>> >>, Cuts({}, <<>>)) /\ Pieces(<<>>) = f[Len(<<>>)]
  BY <1>1, PiecesFollow
<1> QED BY <1>1, <1>2 DEF Follows

LEMMA PiecesOfAppend ==
  ASSUME NEW B, NEW s \in Seq(B), NEW b \in B
  PROVE  Pieces(Append(s, b)) = Cut(Pieces(s), b)
<1> DEFINE State == Seq(Seq(B)) \ {<<>>}
<1>1. PICK t \in Seq(B), N \in Nat : t = Append(s, b) /\ N = Len(s)
  BY AppendProperties, LenProperties
<1>2. Len(t) = N + 1 /\ t[N + 1] = b /\ \A n \in 1..N : t[n] = s[n]
  BY <1>1, AppendProperties
<1>3. PICK f \in [0..N -> State] : Follows(f, N, << <<>> >>, Cuts(B, s)) /\ Pieces(s) = f[N]
  BY <1>1, PiecesFollow
<1>4. PICK g \in [0..Len(t) -> State] : Follows(g, Len(t), << <<>> >>, Cuts(B, t)) /\ Pieces(t) = g[Len(t)]
  BY PiecesFollow
<1>5. \A n \in 1..N : Cuts(B, s)[n] = Cuts(B, t)[n]
  <2>1. \A n \in 1..N : n \in 1..Len(t) /\ n \in 1..Len(s)
    BY <1>1, <1>2
  <2> QED BY <1>2, <2>1 DEF Cuts
<1>6. Follows(g, N, << <<>> >>, Cuts(B, t))
  <2>1. \A n \in 1..N : n \in 1..Len(t)
    BY <1>2
  <2> QED BY <1>4, <2>1 DEF Follows
<1>7. f[N] = g[N]
  <2>1. SameSteps(N, Cuts(B, s), Cuts(B, t))
    BY <1>5 DEF SameSteps
  <2>2. SameValues(N, f, g)
    BY <1>3, <1>6, <2>1, SameRecursion
  <2> QED BY <2>2 DEF SameValues
<1>8. g[N + 1] = Cuts(B, t)[N + 1][g[N]] /\ g[N] \in State
  <2>1. N + 1 \in 1..Len(t) /\ (N + 1) - 1 = N /\ N \in 0..Len(t)
    BY <1>2
  <2> QED BY <1>4, <2>1 DEF Follows
<1>9. Cuts(B, t)[N + 1][g[N]] = Cut(g[N], t[N + 1])
  <2>1. N + 1 \in 1..Len(t)
    BY <1>2
  <2> QED BY <1>8, <2>1 DEF Cuts
<1> QED BY <1>1, <1>2, <1>3, <1>4, <1>7, <1>8, <1>9

\* The pieces but the last, and the last.
Whole(s) == Front(Pieces(s))
Partial(s) == Last(Pieces(s))

LEMMA WholeAndPartial ==
  ASSUME NEW B, NEW s \in Seq(B)
  PROVE  Whole(s) \in Seq(Seq(B)) /\ Partial(s) \in Seq(B) /\ Pieces(s) = Append(Whole(s), Partial(s))
BY PiecesType, FrontLast DEF Whole, Partial

LEMMA PartialOfNothing == Whole(<<>>) = <<>> /\ Partial(<<>>) = <<>>
<1>1. Len(<< <<>> >>) = 1 /\ << <<>> >>[1] = <<>> /\ SubSeq(<< <<>> >>, 1, 0) = <<>>
  OBVIOUS
<1> QED BY <1>1, PiecesOfNothing DEF Whole, Partial, Front, Last

\* One byte more ends the partial piece or makes it longer.
LEMMA OneByteMore ==
  ASSUME NEW B, NEW s \in Seq(B), NEW b \in B
  PROVE  IF b = "nl" THEN Whole(Append(s, b)) = Pieces(s) /\ Partial(Append(s, b)) = <<>>
         ELSE Whole(Append(s, b)) = Whole(s) /\ Partial(Append(s, b)) = Append(Partial(s), b)
<1>1. Pieces(Append(s, b)) = Cut(Pieces(s), b)
  BY PiecesOfAppend
<1>2. Pieces(s) \in Seq(Seq(B)) /\ Whole(s) \in Seq(Seq(B)) /\ Partial(s) \in Seq(B) /\ <<>> \in Seq(B)
  BY PiecesType, WholeAndPartial
<1>3. CASE b = "nl"
  <2>1. Front(Append(Pieces(s), <<>>)) = Pieces(s) /\ Last(Append(Pieces(s), <<>>)) = <<>>
    BY <1>2, FrontLastOfAppend
  <2> QED BY <1>1, <1>3, <2>1 DEF Whole, Partial, Cut
<1>4. CASE b # "nl"
  <2>0. PICK l \in Seq(B) : l = Partial(s)
    BY <1>2
  <2>1. PICK longer \in Seq(B) : longer = Append(l, b)
    BY AppendProperties
  <2>2. Front(Append(Whole(s), longer)) = Whole(s) /\ Last(Append(Whole(s), longer)) = longer
    BY <1>2, FrontLastOfAppend
  <2> QED BY <1>1, <1>4, <2>0, <2>1, <2>2 DEF Whole, Partial, Cut
<1> QED BY <1>3, <1>4

\* No piece is longer than the stream, and what the partial piece leaves is complete.
LEMMA PartialLength ==
  ASSUME NEW B
  PROVE  \A s \in Seq(B) : Len(Partial(s)) <= Len(s)
                           /\ \A i \in DOMAIN Pieces(s) : Len(Pieces(s)[i]) <= Len(s)
<1> DEFINE G == {s \in Seq(B) : Len(Partial(s)) <= Len(s)
                                /\ \A i \in DOMAIN Pieces(s) : Len(Pieces(s)[i]) <= Len(s)}
<1>1. <<>> \in G
  <2>1. Len(<<>>) = 0 /\ DOMAIN << <<>> >> = {1} /\ << <<>> >>[1] = <<>>
    OBVIOUS
  <2> QED BY <2>1, PartialOfNothing, PiecesOfNothing
<1>2. ASSUME NEW s \in Seq(B), NEW b \in B, s \in G PROVE Append(s, b) \in G
  <2>1. PICK t \in Seq(B) : t = Append(s, b) /\ Len(t) = Len(s) + 1 /\ Len(s) \in Nat
    BY AppendProperties, LenProperties
  <2>2. PICK p \in Seq(Seq(B)), l \in Seq(B), w \in Seq(Seq(B)) : p = Pieces(s) /\ l = Partial(s) /\ w = Whole(s)
    BY PiecesType, WholeAndPartial
  <2>3. p = Append(w, l) /\ Pieces(t) = Append(Whole(t), Partial(t)) /\ Whole(t) \in Seq(Seq(B)) /\ Partial(t) \in Seq(B)
    BY <2>2, WholeAndPartial
  <2>4. Len(l) <= Len(s) /\ \A i \in DOMAIN p : Len(p[i]) <= Len(s)
    BY <1>2, <2>2
  <2>5. \A i \in DOMAIN w : Len(w[i]) <= Len(s)
    <3>1. \A i \in DOMAIN w : i \in DOMAIN p /\ w[i] = p[i]
      BY <2>3
    <3> QED BY <2>4, <3>1
  <2>6. Len(Partial(t)) <= Len(t) /\ Partial(t) \in Seq(B) /\ \A i \in DOMAIN Whole(t) : Len(Whole(t)[i]) <= Len(s)
    <3>1. CASE b = "nl"
      <4>1. Whole(t) = p /\ Partial(t) = <<>>
        BY <2>1, <2>2, <3>1, OneByteMore
      <4> QED BY <2>1, <2>4, <4>1
    <3>2. CASE b # "nl"
      <4>1. Whole(t) = w /\ Partial(t) = Append(l, b) /\ Len(Append(l, b)) = Len(l) + 1 /\ Len(l) \in Nat
        BY <2>1, <2>2, <3>2, OneByteMore
      <4> QED BY <2>1, <2>3, <2>4, <2>5, <4>1
    <3> QED BY <3>1, <3>2
  <2>7. ASSUME NEW i \in DOMAIN Pieces(t) PROVE Len(Pieces(t)[i]) <= Len(t)
    <3>1. PICK wt \in Seq(Seq(B)), lt \in Seq(B) : wt = Whole(t) /\ lt = Partial(t) /\ Pieces(t) = Append(wt, lt)
      BY <2>3
    <3>2. i \in 1..(Len(wt) + 1)
      BY <3>1
    <3>3. CASE i = Len(wt) + 1
      <4>1. Pieces(t)[i] = lt
        BY <3>1, <3>3
      <4> QED BY <2>6, <3>1, <4>1
    <3>4. CASE i # Len(wt) + 1
      <4>1. i \in DOMAIN wt /\ Pieces(t)[i] = wt[i] /\ wt[i] \in Seq(B)
        BY <3>1, <3>2, <3>4
      <4>2. Len(wt[i]) <= Len(s) /\ Len(wt[i]) \in Nat
        BY <2>6, <3>1, <4>1
      <4> QED BY <2>1, <4>1, <4>2
    <3> QED BY <3>3, <3>4
  <2> QED BY <2>1, <2>6, <2>7
<1>3. Seq(B) \subseteq G
  <2> HIDE DEF G
  <2> QED BY <1>1, <1>2, ListInduction
<1> QED BY <1>3

\* Cutting the partial piece changes nothing; nor does cutting on after it.
LEMMA PartialOfPartial ==
  ASSUME NEW B
  PROVE  \A s \in Seq(B) : Whole(Partial(s)) = <<>> /\ Partial(Partial(s)) = Partial(s)
<1> DEFINE G == {s \in Seq(B) : Whole(Partial(s)) = <<>> /\ Partial(Partial(s)) = Partial(s)}
<1>1. <<>> \in G
  BY PartialOfNothing
<1>2. ASSUME NEW s \in Seq(B), NEW b \in B, s \in G PROVE Append(s, b) \in G
  <2>0. Append(s, b) \in Seq(B)
    BY AppendProperties
  <2>1. CASE b = "nl"
    <3>1. Partial(Append(s, b)) = <<>>
      BY <2>1, OneByteMore
    <3> QED BY <2>0, <3>1, PartialOfNothing
  <2>2. CASE b # "nl"
    <3>1. PICK l \in Seq(B) : l = Partial(s)
      BY WholeAndPartial
    <3>2. Partial(Append(s, b)) = Append(l, b)
      BY <2>2, <3>1, OneByteMore
    <3>3. Whole(l) = <<>> /\ Partial(l) = l
      BY <1>2, <3>1
    <3>4. Whole(Append(l, b)) = Whole(l) /\ Partial(Append(l, b)) = Append(Partial(l), b)
      BY <2>2, OneByteMore
    <3> QED BY <2>0, <3>2, <3>3, <3>4
  <2> QED BY <2>1, <2>2
<1>3. Seq(B) \subseteq G
  <2> HIDE DEF G
  <2> QED BY <1>1, <1>2, ListInduction
<1> QED BY <1>3

LEMMA AppendToConcat ==
  ASSUME NEW S, NEW s \in Seq(S), NEW t \in Seq(S), NEW e \in S
  PROVE  s \o Append(t, e) = Append(s \o t, e)
OBVIOUS

LEMMA PiecesOfConcat ==
  ASSUME NEW B, NEW s \in Seq(B)
  PROVE  \A t \in Seq(B) : /\ Whole(s \o t) = Whole(s) \o Whole(Partial(s) \o t)
                           /\ Partial(s \o t) = Partial(Partial(s) \o t)
<1> DEFINE G == {t \in Seq(B) : /\ Whole(s \o t) = Whole(s) \o Whole(Partial(s) \o t)
                                /\ Partial(s \o t) = Partial(Partial(s) \o t)}
<1>a. \A p \in Seq(Seq(B)), q \in Seq(Seq(B)) : \A e \in Seq(B) : p \o Append(q, e) = Append(p \o q, e)
  BY AppendToConcat
<1>0. PICK w \in Seq(Seq(B)), l \in Seq(B) : w = Whole(s) /\ l = Partial(s)
  BY WholeAndPartial
<1>1. <<>> \in G
  <2>1. s \o <<>> = s /\ l \o <<>> = l /\ w \o <<>> = w /\ <<>> \in Seq(B)
    BY ConcatEmptySeq, EmptySeq
  <2>2. Whole(l) = <<>> /\ Partial(l) = l
    BY <1>0, PartialOfPartial
  <2> QED BY <1>0, <2>1, <2>2
<1>2. ASSUME NEW t \in Seq(B), NEW b \in B, t \in G PROVE Append(t, b) \in G
  <2>1. PICK u \in Seq(B), v \in Seq(B) : u = s \o t /\ v = l \o t
    BY ConcatProperties
  <2>2. s \o Append(t, b) = Append(u, b) /\ l \o Append(t, b) = Append(v, b) /\ Append(t, b) \in Seq(B)
    <3>1. s \o Append(t, b) = Append(s \o t, b)
      BY AppendToConcat
    <3>2. l \o Append(t, b) = Append(l \o t, b)
      BY AppendToConcat
    <3>3. Append(t, b) \in Seq(B)
      OBVIOUS
    <3> QED BY <2>1, <3>1, <3>2, <3>3
  <2>3. PICK x \in Seq(Seq(B)), y \in Seq(B) : x = Whole(v) /\ y = Partial(v)
    BY WholeAndPartial
  <2>4. Whole(u) = w \o x /\ Partial(u) = y
    BY <1>0, <1>2, <2>1, <2>3
  <2>5. Pieces(u) = Append(w \o x, y) /\ Pieces(v) = Append(x, y)
    BY <2>3, <2>4, WholeAndPartial
  <2>6. Append(w \o x, y) = w \o Append(x, y)
    BY <1>a, Zenon
  <2>7. Whole(Append(u, b)) = w \o Whole(Append(v, b)) /\ Partial(Append(u, b)) = Partial(Append(v, b))
    <3>1. CASE b = "nl"
      <4>1. Whole(Append(u, b)) = Pieces(u) /\ Partial(Append(u, b)) = <<>>
        BY <3>1, OneByteMore
      <4>2. Whole(Append(v, b)) = Pieces(v) /\ Partial(Append(v, b)) = <<>>
        BY <3>1, OneByteMore
      <4> QED BY <2>5, <2>6, <4>1, <4>2
    <3>2. CASE b # "nl"
      <4>1. Whole(Append(u, b)) = Whole(u) /\ Partial(Append(u, b)) = Append(Partial(u), b)
        BY <3>2, OneByteMore
      <4>2. Whole(Append(v, b)) = Whole(v) /\ Partial(Append(v, b)) = Append(Partial(v), b)
        BY <3>2, OneByteMore
      <4> QED BY <2>3, <2>4, <4>1, <4>2
    <3> QED BY <3>1, <3>2
  <2> QED BY <1>0, <2>2, <2>7
<1>3. Seq(B) \subseteq G
  <2> HIDE DEF G
  <2> QED BY <1>1, <1>2, ListInduction
<1> QED BY <1>3

\* A piece does not get shorter when the stream goes on.
LEMMA PiecesGrow ==
  ASSUME NEW B, NEW s \in Seq(B), NEW b \in B, NEW i \in DOMAIN Pieces(s)
  PROVE  i \in DOMAIN Pieces(Append(s, b)) /\ Len(Pieces(Append(s, b))[i]) >= Len(Pieces(s)[i])
<1>1. PICK p \in Seq(Seq(B)), w \in Seq(Seq(B)), l \in Seq(B) : p = Pieces(s) /\ w = Whole(s) /\ l = Partial(s)
  BY PiecesType, WholeAndPartial
<1>2. p = Append(w, l) /\ i \in 1..Len(p) /\ Len(p) = Len(w) + 1 /\ p[i] \in Seq(B) /\ Len(p[i]) \in Nat
  BY <1>1, WholeAndPartial
<1>3. PICK t \in Seq(B) : t = Append(s, b)
  BY AppendProperties
<1>4. Pieces(t) = Append(Whole(t), Partial(t)) /\ Whole(t) \in Seq(Seq(B)) /\ Partial(t) \in Seq(B)
  BY WholeAndPartial
<1>5. CASE b = "nl"
  <2>1. Pieces(t) = Append(p, <<>>) /\ <<>> \in Seq(B)
    BY <1>1, <1>3, <1>4, <1>5, OneByteMore
  <2>2. i \in DOMAIN Pieces(t) /\ Pieces(t)[i] = p[i]
    BY <1>2, <2>1
  <2> QED BY <1>1, <1>2, <1>3, <2>2
<1>6. CASE b # "nl"
  <2>1. PICK m \in Seq(B) : m = Append(l, b) /\ Len(m) = Len(l) + 1 /\ Len(l) \in Nat
    BY AppendProperties, LenProperties
  <2>2. Pieces(t) = Append(w, m)
    BY <1>1, <1>3, <1>4, <1>6, <2>1, OneByteMore
  <2>3. i \in DOMAIN Pieces(t)
    BY <1>2, <2>2
  <2>4. CASE i = Len(w) + 1
    <3>1. Pieces(t)[i] = m /\ p[i] = l
      BY <1>2, <2>2, <2>4
    <3> QED BY <1>1, <1>3, <2>1, <2>3, <3>1
  <2>5. CASE i # Len(w) + 1
    <3>1. Pieces(t)[i] = p[i]
      BY <1>2, <2>2, <2>5
    <3> QED BY <1>1, <1>2, <1>3, <2>3, <3>1
  <2> QED BY <2>4, <2>5
<1> QED BY <1>5, <1>6

LEMMA PiecesGrowOn ==
  ASSUME NEW B, NEW s \in Seq(B), NEW i \in DOMAIN Pieces(s)
  PROVE  \A t \in Seq(B) : i \in DOMAIN Pieces(s \o t) /\ Len(Pieces(s \o t)[i]) >= Len(Pieces(s)[i])
<1> DEFINE G == {t \in Seq(B) : i \in DOMAIN Pieces(s \o t) /\ Len(Pieces(s \o t)[i]) >= Len(Pieces(s)[i])}
<1>0. PICK z \in Nat : z = Len(Pieces(s)[i])
  <2>1. Pieces(s)[i] \in Seq(B)
    BY PiecesType
  <2> QED BY <2>1, LenProperties
<1>1. <<>> \in G
  <2>1. s \o <<>> = s /\ <<>> \in Seq(B)
    BY ConcatEmptySeq
  <2> QED BY <1>0, <2>1
<1>2. ASSUME NEW t \in Seq(B), NEW b \in B, t \in G PROVE Append(t, b) \in G
  <2>1. PICK u \in Seq(B) : u = s \o t
    BY ConcatProperties
  <2>2. s \o Append(t, b) = Append(u, b) /\ Append(t, b) \in Seq(B)
    BY <2>1
  <2>3. i \in DOMAIN Pieces(u) /\ Len(Pieces(u)[i]) >= z
    BY <1>0, <1>2, <2>1
  <2>4. i \in DOMAIN Pieces(Append(u, b)) /\ Len(Pieces(Append(u, b))[i]) >= Len(Pieces(u)[i])
    BY <2>3, PiecesGrow
  <2>5. Pieces(u) \in Seq(Seq(B)) /\ Pieces(Append(u, b)) \in Seq(Seq(B))
    BY AppendProperties, PiecesType
  <2>6. Pieces(u)[i] \in Seq(B) /\ Pieces(Append(u, b))[i] \in Seq(B)
    BY <2>3, <2>4, <2>5
  <2>7. PICK x \in Nat, y \in Nat : x = Len(Pieces(u)[i]) /\ y = Len(Pieces(Append(u, b))[i])
    BY <2>6, LenProperties
  <2>8. y >= z
    BY <2>3, <2>4, <2>7
  <2> QED BY <1>0, <2>2, <2>4, <2>7, <2>8
<1>3. Seq(B) \subseteq G
  <2> HIDE DEF G
  <2> QED BY <1>1, <1>2, ListInduction
<1> QED BY <1>3

\* Up to its last newline a stream has the same whole pieces, and no partial one.
Complete(s) == SubSeq(s, 1, Len(s) - Len(Partial(s)))
LEMMA PiecesOfComplete ==
  ASSUME NEW B
  PROVE  \A s \in Seq(B) : Complete(s) \in Seq(B) /\ Pieces(Complete(s)) = Append(Whole(s), <<>>)
<1> DEFINE G == {s \in Seq(B) : Complete(s) \in Seq(B) /\ Pieces(Complete(s)) = Append(Whole(s), <<>>)}
<1>1. <<>> \in G
  <2>1. SubSeq(<<>>, 1, 0) = <<>> /\ Len(<<>>) = 0 /\ <<>> \in Seq(B) /\ << <<>> >> = Append(<<>>, <<>>)
    OBVIOUS
  <2>2. Complete(<<>>) = <<>>
    BY <2>1, PartialOfNothing DEF Complete
  <2> QED BY <2>1, <2>2, PiecesOfNothing, PartialOfNothing
<1>2. ASSUME NEW s \in Seq(B), NEW b \in B, s \in G PROVE Append(s, b) \in G
  <2>1. PICK t \in Seq(B) : t = Append(s, b) /\ Len(t) = Len(s) + 1 /\ Len(s) \in Nat
    BY AppendProperties, LenProperties
  <2>2. PICK w \in Seq(Seq(B)), l \in Seq(B) : w = Whole(s) /\ l = Partial(s)
    BY WholeAndPartial
  <2>3. CASE b = "nl"
    <3>1. Whole(t) = Pieces(s) /\ Partial(t) = <<>>
      BY <2>1, <2>3, OneByteMore
    <3>2. Complete(t) = t
      <4>1. Len(<<>>) = 0 /\ SubSeq(t, 1, Len(t)) = t
        OBVIOUS
      <4> QED BY <2>1, <3>1, <4>1 DEF Complete
    <3>3. Pieces(t) = Append(Whole(t), <<>>)
      BY <3>1, WholeAndPartial
    <3> QED BY <2>1, <3>2, <3>3
  <2>4. CASE b # "nl"
    <3>1. Whole(t) = Whole(s) /\ Partial(t) = Append(l, b)
      BY <2>1, <2>2, <2>4, OneByteMore
    <3>2. Len(Append(l, b)) = Len(l) + 1 /\ Len(l) \in Nat /\ Len(l) <= Len(s)
      <4>1. Len(l) <= Len(s)
        BY <2>2, PartialLength
      <4> QED BY <4>1, AppendProperties, LenProperties
    <3>3. SubSeq(t, 1, Len(s) - Len(l)) = SubSeq(s, 1, Len(s) - Len(l))
      <4>1. PICK n \in 0..Len(s) : n = Len(s) - Len(l)
        <5>1. Len(s) - Len(l) \in 0..Len(s)
          BY <2>1, <3>2
        <5> QED BY <5>1
      <4>2. \A i \in 1..n : t[i] = s[i]
        BY <2>1, <4>1
      <4>3. SubSeq(t, 1, n) = SubSeq(s, 1, n)
        BY <2>1, <4>2
      <4> QED BY <4>1, <4>3
    <3>4. Complete(t) = Complete(s)
      <4>1. Len(t) - Len(Partial(t)) = Len(s) - Len(l)
        BY <2>1, <3>1, <3>2
      <4> QED BY <2>2, <3>3, <4>1 DEF Complete
    <3> QED BY <1>2, <2>1, <3>1, <3>4
  <2> QED BY <2>3, <2>4
<1>3. Seq(B) \subseteq G
  <2> HIDE DEF G
  <2> QED BY <1>1, <1>2, ListInduction
<1> QED BY <1>3

-----------------------------------------------------------------------------
(* Reads.                                                                  *)

\* The lines of NotBlank and NotEmpty, taken by a set that does not depend on the list.
Visible(B) == {l \in Seq(B) : ~IsBlank(l)}

LEMMA NotBlankIs ==
  ASSUME NEW B, NEW lines \in Seq(Seq(B))
  PROVE  NotBlank(lines) = Among(lines, Visible(B)) /\ NotBlank(lines) \in Seq(Seq(B))
<1>1. PICK L : L = Seq(B)
  OBVIOUS
<1>2. \A i \in DOMAIN lines : lines[i] \in L /\ lines[i] \in ToSet(lines)
  BY <1>1 DEF ToSet
<1>3. PICK S : S = {l \in ToSet(lines) : ~IsBlank(l)}
  OBVIOUS
<1>4. \A i \in DOMAIN lines : lines[i] \in S <=> lines[i] \in Visible(B)
  BY <1>1, <1>2, <1>3 DEF Visible
<1>5. Among(lines, S) = Among(lines, Visible(B))
  BY <1>4, AmongSame
<1>6. lines \in Seq(L)
  BY <1>1
<1>7. Among(lines, S) \in Seq(L)
  BY ONLY <1>6, AmongType
<1> QED BY <1>1, <1>3, <1>5, <1>7 DEF NotBlank

LEMMA NotEmptyIs ==
  ASSUME NEW B, NEW lines \in Seq(Seq(B))
  PROVE  NotEmpty(lines) = Among(lines, Seq(B) \ {<<>>}) /\ NotEmpty(lines) \in Seq(Seq(B))
<1>1. PICK L : L = Seq(B)
  OBVIOUS
<1>2. \A i \in DOMAIN lines : lines[i] \in L /\ lines[i] \in ToSet(lines)
  BY <1>1 DEF ToSet
<1>3. PICK S : S = ToSet(lines) \ {<<>>}
  OBVIOUS
<1>4. \A i \in DOMAIN lines : lines[i] \in S <=> lines[i] \in L \ {<<>>}
  BY <1>2, <1>3
<1>5. Among(lines, S) = Among(lines, L \ {<<>>})
  BY <1>4, AmongSame
<1>6. lines \in Seq(L)
  BY <1>1
<1>7. Among(lines, S) \in Seq(L)
  BY ONLY <1>6, AmongType
<1> QED BY <1>1, <1>3, <1>5, <1>7 DEF NotEmpty

\* What one read makes of the state of the loop.
ReadState(B) == [overflow : BOOLEAN, rest : Seq(B), messages : Seq(Seq(B))]

LEMMA OneReadIs ==
  ASSUME NEW B, NEW r \in ReadState(B), NEW data \in Seq(B)
  PROVE  /\ OneRead(r, data) \in ReadState(B)
         /\ r.overflow => OneRead(r, data) = r
         /\ ~r.overflow => (OneRead(r, data).overflow <=> Len(r.rest) + Len(data) > MaxBuffer)
         /\ ~r.overflow /\ ~OneRead(r, data).overflow =>
              /\ OneRead(r, data).rest = Partial(r.rest \o data)
              /\ OneRead(r, data).messages = r.messages \o Among(Whole(r.rest \o data), Visible(B))
<1>1. r.overflow \in BOOLEAN /\ r.rest \in Seq(B) /\ r.messages \in Seq(Seq(B))
  BY DEF ReadState
<1>2. PICK all \in Seq(B) : all = r.rest \o data /\ Len(all) = Len(r.rest) + Len(data) /\ Len(all) \in Nat
  BY <1>1, ConcatProperties, LenProperties
<1>3. Whole(all) \in Seq(Seq(B)) /\ Partial(all) \in Seq(B)
  BY WholeAndPartial
<1>4. PICK lines \in Seq(Seq(B)) : lines = NotBlank(Whole(all)) /\ lines = Among(Whole(all), Visible(B))
  BY <1>3, NotBlankIs
<1>5. CASE r.overflow
  BY <1>5 DEF OneRead
<1>6. CASE ~r.overflow /\ Len(all) > MaxBuffer
  <2>1. PICK none \in Seq(Seq(B)) : none = r.messages \o <<>>
    <3>1. PICK L : L = Seq(B)
      OBVIOUS
    <3>2. r.messages \in Seq(L)
      BY <1>1, <3>1
    <3>3. r.messages \o <<>> = r.messages
      BY ONLY <3>2, ConcatEmptySeq
    <3> QED BY <1>1, <3>3
  <2>2. ProcessBuffer(r.rest, data) = [overflow |-> TRUE, rest |-> <<>>, messages |-> <<>>]
    BY <1>2, <1>6 DEF ProcessBuffer
  <2>3. OneRead(r, data) = [overflow |-> TRUE, rest |-> <<>>, messages |-> none]
    <3>1. PICK p : p = ProcessBuffer(r.rest, data)
      OBVIOUS
    <3>2. OneRead(r, data) = [p EXCEPT !.messages = r.messages \o p.messages]
      BY <1>6, <3>1 DEF OneRead
    <3>3. p = [overflow |-> TRUE, rest |-> <<>>, messages |-> <<>>]
      BY <2>2, <3>1
    <3> QED BY <2>1, <3>2, <3>3
  <2>4. OneRead(r, data) \in ReadState(B)
    BY <2>3 DEF ReadState
  <2>5. OneRead(r, data).overflow = TRUE
    BY <2>3
  <2> QED BY <1>2, <1>6, <2>4, <2>5
<1>7. CASE ~r.overflow /\ ~(Len(all) > MaxBuffer)
  <2>1. PICK more \in Seq(Seq(B)) : more = r.messages \o lines
    <3>1. PICK L : L = Seq(B)
      OBVIOUS
    <3>2. r.messages \in Seq(L) /\ lines \in Seq(L)
      BY <1>1, <3>1
    <3>3. r.messages \o lines \in Seq(L)
      BY ONLY <3>2, ConcatProperties
    <3> QED BY <3>1, <3>3
  <2>2. ProcessBuffer(r.rest, data) = [overflow |-> FALSE, rest |-> Partial(all), messages |-> lines]
    BY <1>2, <1>4, <1>7 DEF ProcessBuffer, Whole, Partial
  <2>3. OneRead(r, data) = [overflow |-> FALSE, rest |-> Partial(all), messages |-> more]
    <3>1. PICK p : p = ProcessBuffer(r.rest, data)
      OBVIOUS
    <3>2. OneRead(r, data) = [p EXCEPT !.messages = r.messages \o p.messages]
      BY <1>7, <3>1 DEF OneRead
    <3>3. p = [overflow |-> FALSE, rest |-> Partial(all), messages |-> lines]
      BY <2>2, <3>1
    <3> QED BY <2>1, <3>2, <3>3
  <2>4. OneRead(r, data) \in ReadState(B)
    BY <1>3, <2>3 DEF ReadState
  <2>5. OneRead(r, data).overflow = FALSE /\ OneRead(r, data).rest = Partial(all) /\ OneRead(r, data).messages = more
    BY <2>3
  <2>6. more = r.messages \o Among(Whole(all), Visible(B))
    BY <1>4, <2>1
  <2>7. PICK o : o = OneRead(r, data)
    OBVIOUS
  <2>8. o.overflow <=> Len(r.rest) + Len(data) > MaxBuffer
    BY <1>2, <1>7, <2>5, <2>7
  <2>9. o.rest = Partial(r.rest \o data) /\ o.messages = r.messages \o Among(Whole(r.rest \o data), Visible(B))
    BY <1>2, <2>5, <2>6, <2>7
  <2> QED BY <1>7, <2>4, <2>7, <2>8, <2>9, Zenon
<1> QED BY <1>5, <1>6, <1>7

Reading(B, reads) == [n \in 1..Len(reads) |-> [r \in ReadState(B) |-> OneRead(r, reads[n])]]
NothingRead == [overflow |-> FALSE, rest |-> <<>>, messages |-> <<>>]

LEMMA ReadingType ==
  ASSUME NEW B, NEW reads \in Seq(Seq(B))
  PROVE  Reading(B, reads) \in [1..Len(reads) -> [ReadState(B) -> ReadState(B)]]
<1>1. \A n \in 1..Len(reads) : reads[n] \in Seq(B)
  OBVIOUS
<1> QED BY <1>1, OneReadIs DEF Reading

\* ReadAll is where the reads lead.
LEMMA ReadAllFollows ==
  ASSUME NEW B, NEW reads \in Seq(Seq(B))
  PROVE  \E f \in [0..Len(reads) -> ReadState(B)] :
           Follows(f, Len(reads), NothingRead, Reading(B, reads)) /\ ReadAll(reads) = f[Len(reads)]
<1> DEFINE State == ReadState(B)
           N == Len(reads)
           Eq(g) == g = [n \in 0..N |-> IF n = 0 THEN NothingRead ELSE OneRead(g[n - 1], reads[n])]
           f == CHOOSE g : Eq(g)
<1>1. ReadAll(reads) = f[N]
  BY DEF ReadAll, NothingRead
<1>2. N \in Nat /\ NothingRead \in State
  <2>1. <<>> \in Seq(B) /\ <<>> \in Seq(Seq(B))
    OBVIOUS
  <2> QED BY <2>1 DEF NothingRead, ReadState
<1>3. \A n \in 1..N : \A p \in State : Reading(B, reads)[n][p] = OneRead(p, reads[n])
  BY DEF Reading
<1>4. Reading(B, reads) \in [1..N -> [State -> State]]
  BY ReadingType
<1> HIDE DEF State
<1>5. PICK h \in [0..N -> State] : Follows(h, N, NothingRead, Reading(B, reads))
  BY <1>2, <1>4, Recursion
<1>6. Eq(h)
  <2>1. ASSUME NEW n \in 1..N PROVE h[n] = OneRead(h[n - 1], reads[n])
    <3>1. h[n - 1] \in State /\ h[n] = Reading(B, reads)[n][h[n - 1]]
      BY <1>5 DEF Follows
    <3> QED BY <1>3, <3>1
  <2>2. \A n \in 0..N : n = 0 \/ n \in 1..N
    OBVIOUS
  <2>3. \A n \in 0..N : h[n] = IF n = 0 THEN NothingRead ELSE OneRead(h[n - 1], reads[n])
    BY <1>5, <2>1, <2>2 DEF Follows
  <2> QED BY <2>3
<1>7. Eq(f)
  <2> HIDE DEF Eq
  <2> QED BY <1>6
<1>8. \A n \in 0..N : f[n] = IF n = 0 THEN NothingRead ELSE OneRead(f[n - 1], reads[n])
  <2> HIDE DEF f
  <2> QED BY <1>7, Zenon
<1> HIDE DEF f, Eq
<1>9. f[0] = NothingRead /\ \A n \in 1..N : f[n] = OneRead(f[n - 1], reads[n])
  <2>1. 0 \in 0..N /\ \A n \in 1..N : n \in 0..N /\ n # 0
    BY <1>2
  <2> QED BY <1>8, <2>1
<1>10. Tries(f, N, NothingRead, Reading(B, reads), State)
  BY <1>3, <1>9 DEF Tries
<1>11. Follows(f, N, NothingRead, Reading(B, reads)) /\ \A n \in 0..N : f[n] \in State
  BY <1>2, <1>4, <1>10, RecursionStays
<1>12. SameValues(N, f, h)
  <2>1. SameSteps(N, Reading(B, reads), Reading(B, reads))
    BY DEF SameSteps
  <2> QED BY <1>2, <1>5, <1>11, <2>1, SameRecursion
<1>13. ReadAll(reads) = h[N]
  BY <1>1, <1>2, <1>12 DEF SameValues
<1> QED BY <1>5, <1>13 DEF State

\* The stream is what the reads add up to.
Joining(B, reads) == [n \in 1..Len(reads) |-> [s \in Seq(B) |-> s \o reads[n]]]

LEMMA StreamFollows ==
  ASSUME NEW B, NEW reads \in Seq(Seq(B))
  PROVE  \E g \in [0..Len(reads) -> Seq(B)] :
           /\ g[0] = <<>> /\ \A n \in 1..Len(reads) : g[n] = g[n - 1] \o reads[n]
           /\ FlattenSeq(reads) = g[Len(reads)]
<1> DEFINE N == Len(reads)
           Eq(h) == h = [i \in 1..N |-> IF i = 1 THEN reads[i] ELSE h[i - 1] \o reads[i]]
           f == CHOOSE h : Eq(h)
<1>1. N \in Nat /\ <<>> \in Seq(B) /\ \A n \in 1..N : reads[n] \in Seq(B)
  OBVIOUS
<1>2. Joining(B, reads) \in [1..N -> [Seq(B) -> Seq(B)]]
  BY <1>1 DEF Joining
<1>3. PICK g \in [0..N -> Seq(B)] : Follows(g, N, <<>>, Joining(B, reads))
  BY <1>1, <1>2, Recursion
<1>4. g[0] = <<>> /\ \A n \in 1..N : g[n] = g[n - 1] \o reads[n]
  <2>1. ASSUME NEW n \in 1..N PROVE g[n] = g[n - 1] \o reads[n]
    <3>1. n - 1 \in 0..N
      OBVIOUS
    <3>2. PICK s \in Seq(B) : s = g[n - 1]
      BY <1>3, <3>1
    <3>3. g[n] = Joining(B, reads)[n][s]
      BY <1>3, <3>2 DEF Follows
    <3> QED BY <3>2, <3>3 DEF Joining
  <2> QED BY <1>3, <2>1 DEF Follows
<1>5. CASE N = 0
  <2>1. reads = <<>>
    BY <1>5
  <2> QED BY <1>4, <1>5, <2>1 DEF FlattenSeq
<1>6. CASE N # 0
  <2>1. FlattenSeq(reads) = f[N]
    BY <1>6 DEF FlattenSeq
  <2>2. PICK h : h = [i \in 1..N |-> g[i]]
    OBVIOUS
  <2>3. Eq(h)
    <3>1. ASSUME NEW i \in 1..N PROVE h[i] = IF i = 1 THEN reads[i] ELSE h[i - 1] \o reads[i]
      <4>1. h[i] = g[i - 1] \o reads[i]
        BY <1>4, <2>2
      <4>2. CASE i = 1
        <5>1. g[i - 1] = <<>> /\ reads[i] \in Seq(B)
          BY <1>1, <1>4, <4>2
        <5>2. <<>> \o reads[i] = reads[i]
          BY <5>1, ConcatEmptySeq
        <5> QED BY <4>1, <4>2, <5>1, <5>2
      <4>3. CASE i # 1
        <5>1. i - 1 \in 1..N
          BY <4>3
        <5> QED BY <2>2, <4>1, <4>3, <5>1
      <4> QED BY <4>2, <4>3
    <3>2. h = [i \in 1..N |-> h[i]]
      BY <2>2
    <3> QED BY <3>1, <3>2
  <2>4. Eq(f)
    <3> HIDE DEF Eq
    <3> QED BY <2>3
  <2>5. \A i \in 1..N : f[i] = IF i = 1 THEN reads[i] ELSE f[i - 1] \o reads[i]
    <3> HIDE DEF f
    <3> QED BY <2>4, Zenon
  <2> HIDE DEF f, Eq
  <2> DEFINE G == {n \in Nat : 1 <= n /\ n <= N => f[n] = g[n]}
  <2>6. 0 \in G
    OBVIOUS
  <2>7. ASSUME NEW n \in Nat, n \in G PROVE n + 1 \in G
    <3> SUFFICES ASSUME n + 1 <= N PROVE f[n + 1] = g[n + 1]
      OBVIOUS
    <3>1. n + 1 \in 1..N /\ (n + 1) - 1 = n
      OBVIOUS
    <3>2. g[n + 1] = g[n] \o reads[n + 1]
      BY <1>4, <3>1
    <3>3. CASE n = 0
      <4>1. reads[n + 1] \in Seq(B) /\ g[n] = <<>>
        BY <1>1, <1>4, <3>1, <3>3
      <4>2. <<>> \o reads[n + 1] = reads[n + 1]
        BY <4>1, ConcatEmptySeq
      <4>3. f[n + 1] = reads[n + 1]
        BY <2>5, <3>1, <3>3
      <4> QED BY <3>2, <4>1, <4>2, <4>3
    <3>4. CASE n # 0
      <4>1. f[n] = g[n] /\ n + 1 # 1
        BY <2>7, <3>4
      <4>2. f[n + 1] = f[n] \o reads[n + 1]
        BY <2>5, <3>1, <4>1
      <4> QED BY <3>2, <4>1, <4>2
    <3> QED BY <3>3, <3>4
  <2>8. Nat \subseteq G
    <3> HIDE DEF G
    <3> QED BY <2>6, <2>7, Induction
  <2>9. f[N] = g[N]
    <3>1. \A n \in G : n \in 1..N => f[n] = g[n]
      OBVIOUS
    <3>2. N \in G /\ N \in 1..N
      BY <1>1, <1>6, <2>8
    <3> QED BY <3>1, <3>2, Zenon
  <2> QED BY <1>4, <2>1, <2>9
<1> QED BY <1>5, <1>6

\* What is longer than the buffer.
TooLong(stream, reads) ==
  \E i \in DOMAIN Pieces(stream), m \in DOMAIN reads : Len(Pieces(stream)[i]) + Len(reads[m]) > MaxBuffer

\* The lines of the reads are the whole pieces of the stream that are not blank.
LEMMA ReadAllIs ==
  ASSUME NEW B, NEW reads \in Seq(Seq(B))
  PROVE  /\ ReadAll(reads) \in ReadState(B) /\ FlattenSeq(reads) \in Seq(B)
         /\ ~ReadAll(reads).overflow =>
              /\ ReadAll(reads).rest = Partial(FlattenSeq(reads))
              /\ ReadAll(reads).messages = Among(Whole(FlattenSeq(reads)), Visible(B))
         /\ ReadAll(reads).overflow => TooLong(FlattenSeq(reads), reads)
         /\ \A m \in DOMAIN reads : Len(reads[m]) <= Len(FlattenSeq(reads))
<1> DEFINE N == Len(reads)
<1>1. N \in Nat /\ DOMAIN reads = 1..N /\ \A n \in 1..N : reads[n] \in Seq(B) /\ Len(reads[n]) \in Nat
  OBVIOUS
<1>2. PICK f \in [0..N -> ReadState(B)] : Follows(f, N, NothingRead, Reading(B, reads)) /\ ReadAll(reads) = f[N]
  BY ReadAllFollows
<1>3. PICK g \in [0..N -> Seq(B)] :
        g[0] = <<>> /\ (\A n \in 1..N : g[n] = g[n - 1] \o reads[n]) /\ FlattenSeq(reads) = g[N]
  BY StreamFollows
<1> DEFINE Lined(n) == /\ f[n].rest = Partial(g[n])
                       /\ f[n].messages = Among(Whole(g[n]), Visible(B))
           G == {n \in Nat : n <= N => /\ ~f[n].overflow => Lined(n)
                                       /\ f[n].overflow => TooLong(g[n], reads)
                                       /\ \A m \in 1..n : Len(reads[m]) <= Len(g[n])}
<1>4. 0 \in G
  <2>1. f[0] = NothingRead /\ g[0] = <<>>
    BY <1>2, <1>3 DEF Follows
  <2>2. Lined(0) /\ ~f[0].overflow
    BY <2>1, PartialOfNothing, AmongEmpty DEF NothingRead
  <2> QED BY <2>2
<1>5. ASSUME NEW n \in Nat, n \in G PROVE n + 1 \in G
  <2> SUFFICES ASSUME n + 1 <= N
               PROVE  /\ ~f[n + 1].overflow => Lined(n + 1)
                      /\ f[n + 1].overflow => TooLong(g[n + 1], reads)
                      /\ \A m \in 1..(n + 1) : Len(reads[m]) <= Len(g[n + 1])
    OBVIOUS
  <2>1. n + 1 \in 1..N /\ (n + 1) - 1 = n /\ n \in 0..N
    BY <1>1
  <2>2. PICK r \in ReadState(B), s \in Seq(B), data \in Seq(B) : r = f[n] /\ s = g[n] /\ data = reads[n + 1]
    BY <1>1, <1>2, <1>3, <2>1
  <2>3. f[n + 1] = OneRead(r, data)
    <3>1. f[n + 1] = Reading(B, reads)[n + 1][r]
      BY <1>2, <2>1, <2>2 DEF Follows
    <3> QED BY <2>1, <2>2, <3>1 DEF Reading
  <2>4. PICK t \in Seq(B) : t = s \o data /\ t = g[n + 1] /\ Len(t) = Len(s) + Len(data)
    <3>1. g[n + 1] = s \o data
      BY <1>3, <2>1, <2>2
    <3> QED BY <3>1, ConcatProperties
  <2>5. PICK p \in Seq(Seq(B)), w \in Seq(Seq(B)), l \in Seq(B) :
          p = Pieces(s) /\ w = Whole(s) /\ l = Partial(s) /\ p = Append(w, l)
    BY PiecesType, WholeAndPartial
  <2>6. ~r.overflow => r.rest = l /\ r.messages = Among(w, Visible(B))
    BY <1>5, <2>1, <2>2, <2>5
  <2>7. PICK x \in Nat, y \in Nat : x = Len(s) /\ y = Len(data)
    BY LenProperties
  <2>8. ASSUME NEW m \in 1..(n + 1) PROVE Len(reads[m]) <= Len(g[n + 1])
    <3>1. CASE m = n + 1
      <4>1. Len(reads[m]) = y /\ Len(g[n + 1]) = x + y
        BY <2>2, <2>4, <2>7, <3>1
      <4> QED BY <4>1
    <3>2. CASE m # n + 1
      <4>1. m \in 1..n /\ m \in 1..N
        BY <2>1, <3>2
      <4>2. Len(reads[m]) <= x /\ Len(reads[m]) \in Nat
        BY <1>1, <1>5, <2>1, <2>2, <2>7, <4>1
      <4> QED BY <2>4, <2>7, <4>2
    <3> QED BY <3>1, <3>2
  <2>9. ASSUME TooLong(s, reads) PROVE TooLong(t, reads)
    <3>1. PICK i \in DOMAIN Pieces(s), m \in DOMAIN reads : Len(Pieces(s)[i]) + Len(reads[m]) > MaxBuffer
      BY <2>9 DEF TooLong
    <3>2. i \in DOMAIN Pieces(t) /\ Len(Pieces(t)[i]) >= Len(Pieces(s)[i])
      BY <2>4, PiecesGrowOn
    <3>3. Pieces(s)[i] \in Seq(B) /\ Pieces(t)[i] \in Seq(B)
      BY <3>2, PiecesType, SMTT(20)
    <3>4. PICK a \in Nat, b \in Nat, c \in Nat : a = Len(Pieces(s)[i]) /\ b = Len(Pieces(t)[i]) /\ c = Len(reads[m])
      BY <1>1, <3>3, LenProperties
    <3>5. b + c > MaxBuffer
      BY <3>1, <3>2, <3>4, LinkAssumption
    <3> QED BY <3>2, <3>4, <3>5 DEF TooLong
  <2>o. /\ r.overflow => f[n + 1] = r
        /\ ~r.overflow => (f[n + 1].overflow <=> Len(r.rest) + Len(data) > MaxBuffer)
        /\ ~r.overflow /\ ~f[n + 1].overflow =>
              /\ f[n + 1].rest = Partial(r.rest \o data)
              /\ f[n + 1].messages = r.messages \o Among(Whole(r.rest \o data), Visible(B))
    <3>1. /\ r.overflow => OneRead(r, data) = r
          /\ ~r.overflow => (OneRead(r, data).overflow <=> Len(r.rest) + Len(data) > MaxBuffer)
          /\ ~r.overflow /\ ~OneRead(r, data).overflow =>
               /\ OneRead(r, data).rest = Partial(r.rest \o data)
               /\ OneRead(r, data).messages = r.messages \o Among(Whole(r.rest \o data), Visible(B))
      BY OneReadIs, Zenon
    <3> QED BY <2>3, <3>1, Zenon
  <2>10. CASE r.overflow
    <3>1. f[n + 1] = r
      BY <2>o, <2>10
    <3>2. TooLong(s, reads)
      BY <1>5, <2>1, <2>2, <2>10
    <3> QED BY <2>4, <2>8, <2>9, <2>10, <3>1, <3>2
  <2>11. CASE ~r.overflow /\ f[n + 1].overflow
    <3>1. Len(l) + Len(data) > MaxBuffer
      BY <2>o, <2>6, <2>11
    <3>2. Len(w) + 1 \in DOMAIN Pieces(s) /\ Pieces(s)[Len(w) + 1] = l
      BY <2>5
    <3>3. TooLong(s, reads)
      BY <1>1, <2>1, <2>2, <3>1, <3>2 DEF TooLong
    <3> QED BY <2>4, <2>8, <2>9, <2>11, <3>3
  <2>12. CASE ~r.overflow /\ ~f[n + 1].overflow
    <3>1. /\ f[n + 1].rest = Partial(l \o data)
          /\ f[n + 1].messages = Among(w, Visible(B)) \o Among(Whole(l \o data), Visible(B))
      BY <2>o, <2>6, <2>12
    <3>2. PICK v \in Seq(Seq(B)) : v = Whole(l \o data)
      BY ConcatProperties, WholeAndPartial
    <3>3. Whole(t) = w \o v /\ Partial(t) = Partial(l \o data)
      BY <2>4, <2>5, <3>2, PiecesOfConcat, ZenonT(40)
    <3>4. Among(w \o v, Visible(B)) = Among(w, Visible(B)) \o Among(v, Visible(B))
      <4>1. \A a \in Seq(Seq(B)), c \in Seq(Seq(B)) :
              Among(a \o c, Visible(B)) = Among(a, Visible(B)) \o Among(c, Visible(B))
        BY AmongOfConcat
      <4> QED BY <4>1, Zenon
    <3>5. Lined(n + 1)
      BY <2>4, <3>1, <3>2, <3>3, <3>4
    <3> HIDE DEF Lined
    <3> QED BY <2>8, <2>12, <3>5
  <2> QED BY <2>10, <2>11, <2>12
<1>6. Nat \subseteq G
  <2> HIDE DEF G
  <2> QED BY <1>4, <1>5, Induction
<1>7. N \in G
  BY <1>1, <1>6
<1>8. ReadAll(reads) \in ReadState(B) /\ FlattenSeq(reads) \in Seq(B)
  BY <1>1, <1>2, <1>3
<1> QED BY <1>1, <1>2, <1>3, <1>7, <1>8

-----------------------------------------------------------------------------
(* Lines as they are compared: without the CR at the end, and without      *)
(* those that are of blanks.                                               *)

LEMMA BlankOfAppend ==
  ASSUME NEW B, NEW l \in Seq(B), NEW b \in B
  PROVE  IsBlank(Append(l, b)) <=> IsBlank(l) /\ b \in {"sp", "cr"}
<1>1. PICK m \in Seq(B) : m = Append(l, b)
  BY AppendProperties
<1>2. DOMAIN m = 1..(Len(l) + 1) /\ DOMAIN l = 1..Len(l) /\ m[Len(l) + 1] = b /\ Len(l) \in Nat
      /\ \A i \in 1..Len(l) : m[i] = l[i]
  BY <1>1, AppendProperties, LenProperties
<1>3. \A i \in 1..(Len(l) + 1) : i = Len(l) + 1 \/ i \in 1..Len(l)
  BY <1>2
<1>4. Len(l) + 1 \in 1..(Len(l) + 1) /\ \A i \in 1..Len(l) : i \in 1..(Len(l) + 1)
  BY <1>2
<1> QED BY <1>1, <1>2, <1>3, <1>4 DEF IsBlank

LEMMA StripIs ==
  ASSUME NEW B, NEW l \in Seq(B)
  PROVE  Strip(l) \in Seq(B) /\ (IsBlank(Strip(l)) <=> IsBlank(l))
<1>1. CASE l # <<>> /\ Last(l) = "cr"
  <2>1. PICK k \in Seq(B) : k = Front(l) /\ l = Append(k, "cr") /\ "cr" \in B
    BY <1>1, FrontLast
  <2>2. IsBlank(Append(k, "cr")) <=> IsBlank(k)
    BY <2>1, BlankOfAppend
  <2> QED BY <1>1, <2>1, <2>2 DEF Strip
<1>2. CASE ~(l # <<>> /\ Last(l) = "cr")
  BY <1>2 DEF Strip
<1> QED BY <1>1, <1>2

\* A list through a function, and with one element more.
Mapped(s, F) == [i \in DOMAIN s |-> F[s[i]]]
LEMMA MappedType ==
  ASSUME NEW L, NEW F \in [L -> L], NEW s \in Seq(L)
  PROVE  Mapped(s, F) \in Seq(L)
<1>1. \A i \in 1..Len(s) : F[s[i]] \in L
  OBVIOUS
<1> QED BY <1>1 DEF Mapped

LEMMA MappedOfAppend ==
  ASSUME NEW L, NEW F \in [L -> L], NEW s \in Seq(L), NEW e \in L
  PROVE  Mapped(Append(s, e), F) = Append(Mapped(s, F), F[e])
<1>1. PICK n \in Nat : n = Len(s)
  BY LenProperties
<1>2. PICK t \in Seq(L) : t = Append(s, e) /\ Len(t) = n + 1 /\ t[n + 1] = e /\ \A i \in 1..n : t[i] = s[i]
  <2>1. Append(s, e) \in Seq(L)
    BY AppendProperties
  <2>2. PICK t \in Seq(L) : t = Append(s, e)
    BY <2>1
  <2>3. Len(t) = n + 1 /\ t[n + 1] = e /\ \A i \in 1..n : t[i] = s[i]
    BY <1>1, <2>2
  <2> QED BY <2>2, <2>3
<1>3. PICK m \in Seq(L) : m = Mapped(s, F) /\ Len(m) = n /\ \A i \in 1..n : m[i] = F[s[i]]
  <2>1. PICK m \in Seq(L) : m = Mapped(s, F)
    BY MappedType
  <2>2. m = [i \in 1..n |-> F[s[i]]]
    BY <1>1, <2>1 DEF Mapped
  <2>3. Len(m) = n /\ \A i \in 1..n : m[i] = F[s[i]]
    BY <2>2
  <2> QED BY <2>1, <2>3
<1>4. PICK x \in L : x = F[e]
  OBVIOUS
<1>5. PICK u \in Seq(L) : u = Append(m, x) /\ Len(u) = n + 1 /\ u[n + 1] = x /\ \A i \in 1..n : u[i] = m[i]
  <2>1. Append(m, x) \in Seq(L)
    BY AppendProperties
  <2>2. PICK u \in Seq(L) : u = Append(m, x)
    BY <2>1
  <2>3. Len(u) = n + 1 /\ u[n + 1] = x /\ \A i \in 1..n : u[i] = m[i]
    BY <1>3, <2>2
  <2> QED BY <2>2, <2>3
<1>6. PICK v \in Seq(L) : v = Mapped(t, F) /\ Len(v) = n + 1 /\ \A i \in 1..(n + 1) : v[i] = F[t[i]]
  <2>1. PICK v \in Seq(L) : v = Mapped(t, F)
    BY MappedType
  <2>2. v = [i \in 1..(n + 1) |-> F[t[i]]]
    BY <1>2, <2>1 DEF Mapped
  <2>3. Len(v) = n + 1 /\ \A i \in 1..(n + 1) : v[i] = F[t[i]]
    BY <2>2
  <2> QED BY <2>1, <2>3
<1>7. \A i \in 1..(n + 1) : v[i] = u[i]
  <2>1. \A i \in 1..(n + 1) : i = n + 1 \/ i \in 1..n
    BY <1>1
  <2> QED BY <1>2, <1>3, <1>4, <1>5, <1>6, <2>1
<1>8. v = u
  BY <1>1, <1>5, <1>6, <1>7, SeqEqual
<1> QED BY <1>2, <1>3, <1>4, <1>5, <1>6, <1>8

LEMMA MappedOfNothing ==
  ASSUME NEW F
  PROVE  Mapped(<<>>, F) = <<>>
BY DEF Mapped

Stripping(B) == [l \in Seq(B) |-> Strip(l)]
Filled(B) == Seq(B) \ {<<>>}

LEMMA StrippingType ==
  ASSUME NEW B
  PROVE  Stripping(B) \in [Seq(B) -> Seq(B)] /\ \A l \in Seq(B) : Stripping(B)[l] = Strip(l)
<1>1. \A l \in Seq(B) : Strip(l) \in Seq(B)
  BY StripIs
<1> QED BY <1>1 DEF Stripping

LEMMA StrippedIs ==
  ASSUME NEW B, NEW lines \in Seq(Seq(B))
  PROVE  Stripped(lines) = Mapped(lines, Stripping(B)) /\ Stripped(lines) \in Seq(Seq(B))
<1>1. \A i \in DOMAIN lines : lines[i] \in Seq(B)
  OBVIOUS
<1>2. Stripped(lines) = Mapped(lines, Stripping(B))
  BY <1>1, StrippingType DEF Mapped, Stripped
<1>3. PICK L : L = Seq(B)
  OBVIOUS
<1>4. Stripping(B) \in [L -> L] /\ lines \in Seq(L)
  BY <1>3, StrippingType
<1>5. Mapped(lines, Stripping(B)) \in Seq(L)
  BY <1>4, MappedType
<1> QED BY <1>2, <1>3, <1>5

\* Of the lines that are stripped and not empty, those that are not blank are
\* the lines that were not blank, stripped.
LEMMA StripThenSift ==
  ASSUME NEW B
  PROVE  \A lines \in Seq(Seq(B)) :
           Among(Among(Mapped(lines, Stripping(B)), Filled(B)), Visible(B))
             = Mapped(Among(lines, Visible(B)), Stripping(B))
<1> DEFINE Held(lines) == Among(Among(Mapped(lines, Stripping(B)), Filled(B)), Visible(B))
           Bare(lines) == Mapped(Among(lines, Visible(B)), Stripping(B))
           G == {lines \in Seq(Seq(B)) : Held(lines) = Bare(lines)}
<1>1. <<>> \in G
  <2>1. Held(<<>>) = <<>> /\ Bare(<<>>) = <<>> /\ <<>> \in Seq(Seq(B))
    BY AmongEmpty, EmptySeq, MappedOfNothing
  <2> QED BY <2>1
<1>2. ASSUME NEW lines \in Seq(Seq(B)), NEW l \in Seq(B), lines \in G PROVE Append(lines, l) \in G
  <2>1. PICK longer \in Seq(Seq(B)) : longer = Append(lines, l)
    BY AppendProperties
  <2>2. PICK m \in Seq(Seq(B)), k \in Seq(B) : m = Mapped(lines, Stripping(B)) /\ k = Strip(l)
    BY StrippingType, MappedType, StripIs
  <2>3. Stripping(B) \in [Seq(B) -> Seq(B)] /\ Stripping(B)[l] = k
    BY <2>2, StrippingType
  <2>4. Mapped(longer, Stripping(B)) = Append(m, k)
    <3>1. Mapped(Append(lines, l), Stripping(B)) = Append(Mapped(lines, Stripping(B)), Stripping(B)[l])
      BY <2>3, MappedOfAppend
    <3> QED BY <2>1, <2>2, <2>3, <3>1
  <2>5. PICK full \in Seq(Seq(B)) : full = Among(m, Filled(B))
    BY AmongType
  <2>6. Among(Append(m, k), Filled(B)) = IF k \in Filled(B) THEN Append(full, k) ELSE full
    BY <2>5, AmongAppend, ZenonT(40)
  <2>7. PICK seen \in Seq(Seq(B)), held \in Seq(Seq(B)) :
          seen = Among(lines, Visible(B)) /\ held = Among(full, Visible(B))
    BY AmongType
  <2>8. Among(Append(full, k), Visible(B)) = IF k \in Visible(B) THEN Append(held, k) ELSE held
    BY <2>7, AmongAppend, ZenonT(40)
  <2>9. (k \in Visible(B) <=> l \in Visible(B)) /\ (k \in Visible(B) => k \in Filled(B))
    <3>1. IsBlank(<<>>)
      BY DEF IsBlank
    <3>2. IsBlank(k) <=> IsBlank(l)
      BY <2>2, StripIs
    <3> QED BY <3>1, <3>2 DEF Visible, Filled
  <2>10. Held(longer) = IF l \in Visible(B) THEN Append(held, k) ELSE held
    BY <2>4, <2>5, <2>6, <2>7, <2>8, <2>9
  <2>11. Among(longer, Visible(B)) = IF l \in Visible(B) THEN Append(seen, l) ELSE seen
    <3>1. Among(Append(lines, l), Visible(B)) =
            IF l \in Visible(B) THEN Append(Among(lines, Visible(B)), l) ELSE Among(lines, Visible(B))
      BY AmongAppend
    <3> QED BY <2>1, <2>7, <3>1
  <2>12. Mapped(Append(seen, l), Stripping(B)) = Append(Mapped(seen, Stripping(B)), k)
    BY <2>3, MappedOfAppend
  <2>13. Bare(longer) = IF l \in Visible(B) THEN Append(Mapped(seen, Stripping(B)), k) ELSE Mapped(seen, Stripping(B))
    BY <2>11, <2>12
  <2>14. held = Mapped(seen, Stripping(B))
    BY <1>2, <2>2, <2>5, <2>7
  <2> HIDE DEF Held, Bare
  <2> QED BY <2>1, <2>10, <2>13, <2>14
<1>3. Seq(Seq(B)) \subseteq G
  <2> HIDE DEF G
  <2> QED BY <1>1, <1>2, ListInduction
<1> QED BY <1>3

\* What the split of the complete part gives is what the whole pieces give.
LEMMA SplitOfComplete ==
  ASSUME NEW B, NEW s \in Seq(B)
  PROVE  NotBlank(SplitLines(Complete(s))) = Mapped(Among(Whole(s), Visible(B)), Stripping(B))
<1>1. PICK w \in Seq(Seq(B)) : w = Whole(s)
  BY WholeAndPartial
<1>2. PICK p \in Seq(Seq(B)) : p = Append(w, <<>>) /\ p = Pieces(Complete(s))
  <2>1. PICK L, none : L = Seq(B) /\ none = <<>>
    OBVIOUS
  <2>2. w \in Seq(L) /\ none \in L
    BY <2>1
  <2>3. Append(w, none) \in Seq(L)
    BY ONLY <2>2, AppendProperties
  <2> QED BY <1>1, <2>1, <2>3, PiecesOfComplete
<1>3. PICK m \in Seq(Seq(B)) : m = Mapped(p, Stripping(B)) /\ m = Stripped(p)
  BY StrippedIs
<1>4. PICK full \in Seq(Seq(B)) : full = Among(m, Filled(B)) /\ full = SplitLines(Complete(s))
  <2>1. NotEmpty(m) = Among(m, Filled(B)) /\ NotEmpty(m) \in Seq(Seq(B))
    BY NotEmptyIs DEF Filled
  <2> QED BY <1>2, <1>3, <2>1 DEF SplitLines
<1>5. NotBlank(full) = Among(full, Visible(B))
  BY NotBlankIs
<1>6. Among(full, Visible(B)) = Mapped(Among(p, Visible(B)), Stripping(B))
  BY <1>3, <1>4, StripThenSift
<1>7. Among(p, Visible(B)) = Among(w, Visible(B))
  <2>1. PICK none \in Seq(B) : none = <<>>
    BY EmptySeq
  <2>2. none \notin Visible(B)
    BY <2>1 DEF Visible, IsBlank
  <2>3. Among(Append(w, none), Visible(B)) = Among(w, Visible(B))
    BY <2>2, AmongAppend
  <2> QED BY <1>2, <2>1, <2>3
<1> QED BY <1>1, <1>4, <1>5, <1>6, <1>7

LEMMA LongestIs ==
  ASSUME NEW B, NEW seqs \in Seq(Seq(B)), NEW most \in Nat, \A i \in DOMAIN seqs : Len(seqs[i]) <= most
  PROVE  Longest(seqs, most) \in 0..most /\ \A i \in DOMAIN seqs : Len(seqs[i]) <= Longest(seqs, most)
<1> DEFINE Eq(n) == /\ \A i \in DOMAIN seqs : Len(seqs[i]) <= n
                    /\ n = 0 \/ \E i \in DOMAIN seqs : Len(seqs[i]) = n
<1>1. \A i \in DOMAIN seqs : Len(seqs[i]) \in 0..most
  <2>1. \A i \in DOMAIN seqs : seqs[i] \in Seq(B)
    OBVIOUS
  <2> QED BY <2>1, LenProperties
<1>2. PICK S \in SUBSET (0..most) : S = {Len(seqs[i]) : i \in DOMAIN seqs}
  BY <1>1
<1>3. \E n \in 0..most : Eq(n)
  <2>1. CASE S = {}
    <3>1. Eq(0)
      BY <1>2, <2>1
    <3> HIDE DEF Eq
    <3> QED BY <3>1
  <2>2. CASE S # {}
    <3>1. PICK n \in S : \A x \in S : x <= n
      BY <2>2, HasGreatest
    <3>2. Eq(n) /\ n \in 0..most
      BY <1>2, <3>1
    <3> HIDE DEF Eq
    <3> QED BY <3>2
  <2> QED BY <2>1, <2>2
<1>4. Longest(seqs, most) = CHOOSE n \in 0..most : Eq(n)
  BY DEF Longest
<1> HIDE DEF Eq
<1>5. Longest(seqs, most) \in 0..most /\ Eq(Longest(seqs, most))
  BY <1>3, <1>4
<1> QED BY <1>5 DEF Eq

\* The monitor.
Seen(messages, pattern) ==
  [n \in 1..Len(messages) |-> [m \in [heartbeat : Nat, data : Nat] |-> Classify(m, messages[n], n, pattern)]]

LEMMA SeenType ==
  ASSUME NEW L, NEW messages \in Seq(L), NEW pattern
  PROVE  Seen(messages, pattern) \in
           [1..Len(messages) -> [[heartbeat : Nat, data : Nat] -> [heartbeat : Nat, data : Nat]]]
<1>1. ASSUME NEW n \in 1..Len(messages), NEW m \in [heartbeat : Nat, data : Nat]
      PROVE  Classify(m, messages[n], n, pattern) \in [heartbeat : Nat, data : Nat]
  BY DEF Classify
<1> QED BY <1>1 DEF Seen

\* Watched is where the messages lead.
LEMMA WatchedFollows ==
  ASSUME NEW L, NEW messages \in Seq(L), NEW pattern
  PROVE  \E f \in [0..Len(messages) -> [heartbeat : Nat, data : Nat]] :
           Follows(f, Len(messages), NewMonitor(0), Seen(messages, pattern)) /\ Watched(messages, pattern) = f[Len(messages)]
<1> DEFINE State == [heartbeat : Nat, data : Nat]
           N == Len(messages)
           Eq(g) == g = [n \in 0..N |-> IF n = 0 THEN NewMonitor(0) ELSE Classify(g[n - 1], messages[n], n, pattern)]
           f == CHOOSE g : Eq(g)
<1>1. Watched(messages, pattern) = f[N]
  BY DEF Watched
<1>2. N \in Nat /\ NewMonitor(0) \in State
  BY LenProperties DEF NewMonitor
<1>3. \A n \in 1..N : \A p \in State : Seen(messages, pattern)[n][p] = Classify(p, messages[n], n, pattern)
  BY DEF Seen
<1>4. Seen(messages, pattern) \in [1..N -> [State -> State]]
  BY SeenType
<1> HIDE DEF State
<1>5. PICK h \in [0..N -> State] : Follows(h, N, NewMonitor(0), Seen(messages, pattern))
  BY <1>2, <1>4, Recursion
<1>6. Eq(h)
  <2>1. ASSUME NEW n \in 1..N PROVE h[n] = Classify(h[n - 1], messages[n], n, pattern)
    <3>1. h[n - 1] \in State /\ h[n] = Seen(messages, pattern)[n][h[n - 1]]
      BY <1>5 DEF Follows
    <3> QED BY <1>3, <3>1
  <2>2. \A n \in 0..N : n = 0 \/ n \in 1..N
    OBVIOUS
  <2>3. \A n \in 0..N : h[n] = IF n = 0 THEN NewMonitor(0) ELSE Classify(h[n - 1], messages[n], n, pattern)
    BY <1>5, <2>1, <2>2 DEF Follows
  <2> QED BY <2>3
<1>7. Eq(f)
  <2> HIDE DEF Eq
  <2> QED BY <1>6
<1>8. \A n \in 0..N : f[n] = IF n = 0 THEN NewMonitor(0) ELSE Classify(f[n - 1], messages[n], n, pattern)
  <2> HIDE DEF f
  <2> QED BY <1>7, Zenon
<1> HIDE DEF f, Eq
<1>9. f[0] = NewMonitor(0) /\ \A n \in 1..N : f[n] = Classify(f[n - 1], messages[n], n, pattern)
  <2>1. 0 \in 0..N /\ \A n \in 1..N : n \in 0..N /\ n # 0
    BY <1>2
  <2> QED BY <1>8, <2>1
<1>10. Tries(f, N, NewMonitor(0), Seen(messages, pattern), State)
  BY <1>3, <1>9 DEF Tries
<1>11. Follows(f, N, NewMonitor(0), Seen(messages, pattern)) /\ \A n \in 0..N : f[n] \in State
  BY <1>2, <1>4, <1>10, RecursionStays
<1>12. SameValues(N, f, h)
  <2>1. SameSteps(N, Seen(messages, pattern), Seen(messages, pattern))
    BY DEF SameSteps
  <2> QED BY <1>2, <1>5, <1>11, <2>1, SameRecursion
<1>13. Watched(messages, pattern) = h[N]
  BY <1>1, <1>2, <1>12 DEF SameValues
<1> QED BY <1>5, <1>13 DEF State

\* The later of the two clocks shows the last message.
LEMMA WatchedIs ==
  ASSUME NEW L, NEW messages \in Seq(L), NEW pattern
  PROVE  LET m == Watched(messages, pattern) IN
         /\ m.heartbeat \in 0..Len(messages) /\ m.data \in 0..Len(messages)
         /\ m.heartbeat = Len(messages) \/ m.data = Len(messages)
<1> DEFINE State == [heartbeat : Nat, data : Nat]
<1>1. PICK N \in Nat : N = Len(messages)
  BY LenProperties
<1>2. PICK f \in [0..N -> State] :
        Follows(f, N, NewMonitor(0), Seen(messages, pattern)) /\ Watched(messages, pattern) = f[N]
  BY <1>1, WatchedFollows
<1> DEFINE Late(m, n) == /\ m.heartbeat \in 0..n /\ m.data \in 0..n
                         /\ m.heartbeat = n \/ m.data = n
           G == {n \in Nat : n <= N => Late(f[n], n)}
<1>3. 0 \in G
  <2>1. f[0] = [heartbeat |-> 0, data |-> 0]
    BY <1>2 DEF Follows, NewMonitor
  <2> QED BY <2>1
<1>4. ASSUME NEW n \in Nat, n \in G PROVE n + 1 \in G
  <2> SUFFICES ASSUME n + 1 <= N PROVE Late(f[n + 1], n + 1)
    OBVIOUS
  <2>1. n + 1 \in 1..N /\ (n + 1) - 1 = n /\ n \in 0..N
    BY <1>1
  <2>2. PICK m \in State : m = f[n] /\ Late(m, n)
    BY <1>2, <1>4, <2>1
  <2>3. f[n + 1] = Classify(m, messages[n + 1], n + 1, pattern)
    <3>1. f[n + 1] = Seen(messages, pattern)[n + 1][m]
      BY <1>2, <2>1, <2>2 DEF Follows
    <3> QED BY <1>1, <2>1, <2>2, <3>1 DEF Seen
  <2>4. Classify(m, messages[n + 1], n + 1, pattern) \in {[heartbeat |-> n + 1, data |-> m.data], [heartbeat |-> m.heartbeat, data |-> n + 1]}
    BY DEF Classify
  <2>5. Late([heartbeat |-> n + 1, data |-> m.data], n + 1) /\ Late([heartbeat |-> m.heartbeat, data |-> n + 1], n + 1)
    BY <2>2
  <2> HIDE DEF Late
  <2> QED BY <2>3, <2>4, <2>5
<1>5. Nat \subseteq G
  <2> HIDE DEF G
  <2> QED BY <1>3, <1>4, Induction
<1>6. Late(f[N], N)
  BY <1>5
<1> QED BY <1>1, <1>2, <1>6

(***************************************************************************)
(* Whatever the bytes, their cut into reads and the timeout: the client's  *)
(* lines without the CR are the payload's lines that are not of blanks, an *)
(* overflow has its reason, and the link is stale exactly when no line     *)
(* came for the timeout (client.rs process_buffer, source/mod.rs           *)
(* split_lines, is_stale).                                                 *)
(***************************************************************************)
THEOREM LinesAreSame ==
  ASSUME NEW B, NEW reads \in Seq(Seq(B)), NEW timeout \in Int
  PROVE  LinesSame(reads, timeout)
<1>1. PICK stream \in Seq(B), read \in ReadState(B) : stream = FlattenSeq(reads) /\ read = ReadAll(reads)
  BY ReadAllIs
<1>2. PICK rest \in Seq(B), w \in Seq(Seq(B)) : rest = Last(Pieces(stream)) /\ rest = Partial(stream) /\ w = Whole(stream)
  BY WholeAndPartial DEF Partial
<1>3. PICK messages \in Seq(Seq(B)) : messages = read.messages
  BY DEF ReadState
<1>4. ASSUME ~read.overflow
      PROVE  Stripped(read.messages) = NotBlank(SplitLines(SubSeq(stream, 1, Len(stream) - Len(rest)))) /\ read.rest = rest
  <2>1. read.rest = rest /\ messages = Among(w, Visible(B))
    BY <1>1, <1>2, <1>3, <1>4, ReadAllIs
  <2>2. Stripped(messages) = Mapped(messages, Stripping(B))
    BY StrippedIs
  <2>3. NotBlank(SplitLines(Complete(stream))) = Mapped(Among(w, Visible(B)), Stripping(B))
    BY <1>2, SplitOfComplete
  <2> QED BY <1>2, <1>3, <2>1, <2>2, <2>3 DEF Complete
<1>5. ASSUME read.overflow
      PROVE  Longest(Pieces(stream), Len(stream)) + Longest(reads, Len(stream)) > MaxBuffer
  <2>1. PICK i \in DOMAIN Pieces(stream), m \in DOMAIN reads : Len(Pieces(stream)[i]) + Len(reads[m]) > MaxBuffer
    BY <1>1, <1>5, ReadAllIs DEF TooLong
  <2>2. PICK N \in Nat : N = Len(stream)
    BY LenProperties
  <2>3. PICK p \in Seq(Seq(B)) : p = Pieces(stream)
    BY PiecesType
  <2>4. (\A k \in DOMAIN p : Len(p[k]) <= N) /\ (\A k \in DOMAIN reads : Len(reads[k]) <= N)
    BY <1>1, <2>2, <2>3, PartialLength, ReadAllIs
  <2>5. PICK x \in 0..N, y \in 0..N : /\ x = Longest(p, N) /\ \A k \in DOMAIN p : Len(p[k]) <= x
                                      /\ y = Longest(reads, N) /\ \A k \in DOMAIN reads : Len(reads[k]) <= y
    BY <2>4, LongestIs
  <2>6. PICK a \in Nat, b \in Nat : a = Len(p[i]) /\ b = Len(reads[m])
    <3>1. p[i] \in Seq(B) /\ reads[m] \in Seq(B)
      BY <2>1, <2>3
    <3> QED BY <3>1, LenProperties
  <2>7. a <= x /\ b <= y /\ a + b > MaxBuffer
    BY <2>1, <2>3, <2>5, <2>6
  <2>8. x + y > MaxBuffer
    BY <2>7, LinkAssumption
  <2> QED BY <2>2, <2>3, <2>5, <2>8
<1>6. ASSUME NEW pattern \in BOOLEAN, NEW t \in Len(messages)..(Len(messages) + 3)
      PROVE  IsStale(Watched(messages, pattern), t, timeout) <=> timeout # 0 /\ t - Len(messages) >= timeout
  <2>1. PICK N \in Nat : N = Len(messages)
    BY LenProperties
  <2>2. PICK m : m = Watched(messages, pattern)
    OBVIOUS
  <2>3. PICK x \in 0..N, y \in 0..N : x = m.heartbeat /\ y = m.data /\ (x = N \/ y = N)
    BY <2>1, <2>2, WatchedIs
  <2>4. t - N >= timeout <=> t - x >= timeout /\ t - y >= timeout
    <3>1. PICK c \in Nat : c = t
      BY <2>1
    <3>2. x <= N /\ y <= N /\ x \in Nat /\ y \in Nat
      BY <2>1
    <3>3. x = N \/ y = N
      BY <2>3
    <3>4. c - N <= c - x /\ c - N <= c - y /\ (c - N = c - x \/ c - N = c - y)
      BY <3>2, <3>3
    <3> QED BY <3>1, <3>2, <3>4
  <2> QED BY <2>1, <2>2, <2>3, <2>4 DEF IsStale
<1> QED BY <1>1, <1>2, <1>3, <1>4, <1>5, <1>6 DEF LinesSame

-----------------------------------------------------------------------------
(* The waits before a reconnect, and the readings of one line.             *)

\* The waits: each is twice the one before, up to the ceiling.
Doubling == [n \in 1..32 |-> [p \in 1..MaxDelay |-> IF 2 * p > MaxDelay THEN MaxDelay ELSE 2 * p]]

LEMMA DoublingType == Doubling \in [1..32 -> [1..MaxDelay -> 1..MaxDelay]]
BY DEF Doubling, MaxDelay

\* Doubled follows them.
LEMMA DoubledFollows == Follows(Doubled, 32, 1, Doubling) /\ \A n \in 0..32 : Doubled[n] \in 1..MaxDelay
<1> DEFINE State == 1..MaxDelay
           N == 32
           Eq(g) == g = [n \in 0..N |-> IF n = 0 THEN 1 ELSE (IF 2 * g[n - 1] > MaxDelay THEN MaxDelay ELSE 2 * g[n - 1])]
           f == CHOOSE g : Eq(g)
<1>1. Doubled = f
  BY DEF Doubled
<1>2. N \in Nat /\ 1 \in State
  BY DEF MaxDelay
<1>3. \A n \in 1..N : \A p \in State : Doubling[n][p] = (IF 2 * p > MaxDelay THEN MaxDelay ELSE 2 * p)
  BY DEF Doubling
<1>4. Doubling \in [1..N -> [State -> State]]
  BY DoublingType
<1> HIDE DEF State
<1>5. PICK h \in [0..N -> State] : Follows(h, N, 1, Doubling)
  BY <1>2, <1>4, Recursion
<1>6. Eq(h)
  <2>1. ASSUME NEW n \in 1..N PROVE h[n] = (IF 2 * h[n - 1] > MaxDelay THEN MaxDelay ELSE 2 * h[n - 1])
    <3>1. h[n - 1] \in State /\ h[n] = Doubling[n][h[n - 1]]
      BY <1>5 DEF Follows
    <3> QED BY <1>3, <3>1
  <2>2. \A n \in 0..N : n = 0 \/ n \in 1..N
    OBVIOUS
  <2>3. \A n \in 0..N : h[n] = IF n = 0 THEN 1 ELSE (IF 2 * h[n - 1] > MaxDelay THEN MaxDelay ELSE 2 * h[n - 1])
    BY <1>5, <2>1, <2>2 DEF Follows
  <2> QED BY <2>3
<1>7. Eq(f)
  <2> HIDE DEF Eq
  <2> QED BY <1>6
<1>8. \A n \in 0..N : f[n] = IF n = 0 THEN 1 ELSE (IF 2 * f[n - 1] > MaxDelay THEN MaxDelay ELSE 2 * f[n - 1])
  <2> HIDE DEF f
  <2> QED BY <1>7, Zenon
<1> HIDE DEF f, Eq
<1>9. f[0] = 1 /\ \A n \in 1..N : f[n] = (IF 2 * f[n - 1] > MaxDelay THEN MaxDelay ELSE 2 * f[n - 1])
  <2>1. 0 \in 0..N /\ \A n \in 1..N : n \in 0..N /\ n # 0
    BY <1>2
  <2> QED BY <1>8, <2>1
<1>10. Tries(f, N, 1, Doubling, State)
  BY <1>3, <1>9 DEF Tries
<1>11. Follows(f, N, 1, Doubling) /\ \A n \in 0..N : f[n] \in State
  BY <1>2, <1>4, <1>10, RecursionStays
<1> QED BY <1>1, <1>11 DEF State

\* A wait is at least one tick, at most the ceiling, and no shorter than with an attempt
\* less; from the tenth on it is the ceiling.
LEMMA DelayIs ==
  ASSUME NEW n \in Nat
  PROVE  /\ Delay(n) \in 1..MaxDelay
         /\ n # 0 => Delay(n) >= Delay(n - 1)
         /\ n >= 9 => Delay(n) = MaxDelay
<1> DEFINE Next(p) == IF 2 * p > MaxDelay THEN MaxDelay ELSE 2 * p
<1>1. \A k \in 0..32 : Doubled[k] \in 1..300
  BY DoubledFollows DEF MaxDelay
<1>2. ASSUME NEW k \in 1..32 PROVE Doubled[k] = Next(Doubled[k - 1])
  <2>1. PICK p \in 1..MaxDelay : p = Doubled[k - 1]
    BY DoubledFollows
  <2>2. Doubled[k] = Doubling[k][p]
    BY <2>1, DoubledFollows DEF Follows
  <2> QED BY <2>1, <2>2 DEF Doubling
<1>3. \A k \in 1..32 : Doubled[k] >= Doubled[k - 1]
  <2>1. ASSUME NEW k \in 1..32 PROVE Doubled[k] >= Doubled[k - 1]
    <3>1. PICK p \in 1..300 : p = Doubled[k - 1]
      BY <1>1
    <3> QED BY <1>2, <3>1 DEF MaxDelay
  <2> QED BY <2>1
<1>4. \A k \in 9..32 : Doubled[k] = 300
  <2>1. Doubled[0] = 1
    BY DoubledFollows DEF Follows
  <2>2. Doubled[1] = 2 /\ Doubled[2] = 4 /\ Doubled[3] = 8 /\ Doubled[4] = 16
    <3>1. Doubled[1] = 2 BY <1>2, <2>1 DEF MaxDelay
    <3>2. Doubled[2] = 4 BY <1>2, <3>1 DEF MaxDelay
    <3>3. Doubled[3] = 8 BY <1>2, <3>2 DEF MaxDelay
    <3> QED BY <1>2, <3>1, <3>2, <3>3 DEF MaxDelay
  <2>3. Doubled[9] = 300
    <3>1. Doubled[5] = 32 BY <1>2, <2>2 DEF MaxDelay
    <3>2. Doubled[6] = 64 BY <1>2, <3>1 DEF MaxDelay
    <3>3. Doubled[7] = 128 BY <1>2, <3>2 DEF MaxDelay
    <3>4. Doubled[8] = 256 BY <1>2, <3>3 DEF MaxDelay
    <3> QED BY <1>2, <3>4 DEF MaxDelay
  <2> DEFINE G == {k \in Nat : 9 + k <= 32 => Doubled[9 + k] = 300}
  <2>4. 0 \in G
    BY <2>3
  <2>5. ASSUME NEW k \in Nat, k \in G PROVE k + 1 \in G
    <3> SUFFICES ASSUME 9 + (k + 1) <= 32 PROVE Doubled[9 + (k + 1)] = 300
      OBVIOUS
    <3>1. 9 + (k + 1) \in 1..32 /\ (9 + (k + 1)) - 1 = 9 + k /\ Doubled[9 + k] = 300
      BY <2>5
    <3> QED BY <1>2, <3>1 DEF MaxDelay
  <2>6. Nat \subseteq G
    <3> HIDE DEF G
    <3> QED BY <2>4, <2>5, Induction
  <2>7. ASSUME NEW k \in 9..32 PROVE Doubled[k] = 300
    <3>1. k - 9 \in Nat /\ 9 + (k - 9) = k
      OBVIOUS
    <3> QED BY <2>6, <3>1
  <2> QED BY <2>7
<1>5. CASE n < 32
  <2>1. n \in 0..32 /\ Delay(n) = Doubled[n]
    BY <1>5 DEF Delay
  <2>2. ASSUME n # 0 PROVE n \in 1..32 /\ Delay(n - 1) = Doubled[n - 1]
    BY <1>5, <2>2 DEF Delay
  <2> QED BY <1>1, <1>3, <1>4, <1>5, <2>1, <2>2 DEF MaxDelay
<1>6. CASE n >= 32
  <2>1. Delay(n) = 300
    BY <1>4, <1>6 DEF Delay
  <2>2. Delay(n - 1) \in 1..300
    BY <1>1, <1>6 DEF Delay
  <2> QED BY <2>1, <2>2 DEF MaxDelay
<1> QED BY <1>5, <1>6

\* What is known of the reconnects.
RetryState == [attempt : Nat, short : Nat, slept : Seq(1..MaxDelay), logged : BOOLEAN, collision : BOOLEAN]
NotTried == [attempt |-> 0, short |-> 0, slept |-> <<>>, logged |-> FALSE, collision |-> FALSE]
Dropping(earlier) == [n \in 1..Len(earlier) |-> [r \in RetryState |-> Dropped(r, earlier[n])]]

LEMMA DroppingType ==
  ASSUME NEW earlier \in Seq(Int \cup {Missed})
  PROVE  Dropping(earlier) \in [1..Len(earlier) -> [RetryState -> RetryState]]
<1>1. ASSUME NEW n \in 1..Len(earlier), NEW r \in RetryState
      PROVE  Dropped(r, earlier[n]) \in RetryState
  <2> DEFINE attempt == IF ShouldReset(earlier[n]) THEN 0 ELSE r.attempt
             short == IF ShouldReset(earlier[n]) THEN 0
                      ELSE IF ShortLived(earlier[n]) THEN r.short + 1 ELSE r.short
  <2>1. attempt \in Nat /\ short \in Nat /\ r.slept \in Seq(1..MaxDelay)
    BY DEF RetryState
  <2>2. Append(r.slept, Delay(attempt)) \in Seq(1..MaxDelay)
    BY <2>1, DelayIs, AppendProperties
  <2>3. (attempt < 3 \/ attempt % 10 = 0) \in BOOLEAN /\ (short >= 3) \in BOOLEAN /\ attempt + 1 \in Nat
    BY <2>1
  <2>4. Dropped(r, earlier[n]) = [attempt |-> attempt + 1, short |-> short, slept |-> Append(r.slept, Delay(attempt)),
                                  logged |-> attempt < 3 \/ attempt % 10 = 0, collision |-> short >= 3]
    BY DEF Dropped
  <2> HIDE DEF attempt, short
  <2> QED BY <2>1, <2>2, <2>3, <2>4 DEF RetryState
<1> QED BY <1>1 DEF Dropping

\* Retries is where the history leads.
LEMMA RetriesFollow ==
  ASSUME NEW earlier \in Seq(Int \cup {Missed})
  PROVE  \E f \in [0..Len(earlier) -> RetryState] :
           Follows(f, Len(earlier), NotTried, Dropping(earlier)) /\ Retries(earlier) = f[Len(earlier)]
<1> DEFINE State == RetryState
           N == Len(earlier)
           Eq(g) == g = [n \in 0..N |-> IF n = 0 THEN NotTried ELSE Dropped(g[n - 1], earlier[n])]
           f == CHOOSE g : Eq(g)
<1>1. Retries(earlier) = f[N]
  BY DEF Retries, NotTried
<1>2. N \in Nat /\ NotTried \in State
  BY LenProperties, EmptySeq DEF NotTried, RetryState
<1>3. \A n \in 1..N : \A p \in State : Dropping(earlier)[n][p] = Dropped(p, earlier[n])
  BY DEF Dropping
<1>4. Dropping(earlier) \in [1..N -> [State -> State]]
  BY DroppingType
<1> HIDE DEF State
<1>5. PICK h \in [0..N -> State] : Follows(h, N, NotTried, Dropping(earlier))
  BY <1>2, <1>4, Recursion
<1>6. Eq(h)
  <2>1. ASSUME NEW n \in 1..N PROVE h[n] = Dropped(h[n - 1], earlier[n])
    <3>1. h[n - 1] \in State /\ h[n] = Dropping(earlier)[n][h[n - 1]]
      BY <1>5 DEF Follows
    <3> QED BY <1>3, <3>1
  <2>2. \A n \in 0..N : n = 0 \/ n \in 1..N
    OBVIOUS
  <2>3. \A n \in 0..N : h[n] = IF n = 0 THEN NotTried ELSE Dropped(h[n - 1], earlier[n])
    BY <1>5, <2>1, <2>2 DEF Follows
  <2> QED BY <2>3
<1>7. Eq(f)
  <2> HIDE DEF Eq
  <2> QED BY <1>6
<1>8. \A n \in 0..N : f[n] = IF n = 0 THEN NotTried ELSE Dropped(f[n - 1], earlier[n])
  <2> HIDE DEF f
  <2> QED BY <1>7, Zenon
<1> HIDE DEF f, Eq
<1>9. f[0] = NotTried /\ \A n \in 1..N : f[n] = Dropped(f[n - 1], earlier[n])
  <2>1. 0 \in 0..N /\ \A n \in 1..N : n \in 0..N /\ n # 0
    BY <1>2
  <2> QED BY <1>8, <2>1
<1>10. Tries(f, N, NotTried, Dropping(earlier), State)
  BY <1>3, <1>9 DEF Tries
<1>11. Follows(f, N, NotTried, Dropping(earlier)) /\ \A n \in 0..N : f[n] \in State
  BY <1>2, <1>4, <1>10, RecursionStays
<1>12. SameValues(N, f, h)
  <2>1. SameSteps(N, Dropping(earlier), Dropping(earlier))
    BY DEF SameSteps
  <2> QED BY <1>2, <1>5, <1>11, <2>1, SameRecursion
<1>13. Retries(earlier) = h[N]
  BY <1>1, <1>2, <1>12 DEF SameValues
<1> QED BY <1>5, <1>13 DEF State

\* After the first n of a history: one wait for each, none shorter than the one before
\* unless the connection held; and what is counted.
PacedUpTo(earlier, n, r) ==
  /\ Len(r.slept) = n
  /\ \A i \in 2..n : ~ShouldReset(earlier[i]) => r.slept[i] >= r.slept[i - 1]
  /\ n > 0 => r.attempt > 0 /\ r.slept[n] = Delay(r.attempt - 1)
  /\ (\A i \in 1..n : ~ShouldReset(earlier[i])) => r.attempt = n
  /\ r.short <= Cardinality({i \in 1..n : ShortLived(earlier[i])})
  /\ r.collision => r.short >= 3

\* What was short-lived among the first n and one more.
LEMMA ShortLivedSoFar ==
  ASSUME NEW earlier, NEW n \in Nat
  PROVE  LET T(k) == {i \in 1..k : ShortLived(earlier[i])} IN
         /\ Cardinality(T(n)) \in Nat
         /\ Cardinality(T(n + 1)) = Cardinality(T(n)) + (IF ShortLived(earlier[n + 1]) THEN 1 ELSE 0)
<1> DEFINE T(k) == {i \in 1..k : ShortLived(earlier[i])}
<1>1. IsFiniteSet(1..n)
  BY FS_Interval
<1>2. IsFiniteSet(T(n)) /\ Cardinality(T(n)) \in Nat
  BY <1>1, FS_Subset, FS_CardinalityType
<1>3. CASE ShortLived(earlier[n + 1])
  <2>1. T(n + 1) = T(n) \cup {n + 1} /\ n + 1 \notin T(n)
    BY <1>3
  <2> HIDE DEF T
  <2>2. Cardinality(T(n + 1)) = Cardinality(T(n)) + 1
    BY <1>2, <2>1, FS_AddElement
  <2> QED BY <1>2, <1>3, <2>2 DEF T
<1>4. CASE ~ShortLived(earlier[n + 1])
  <2>1. T(n + 1) = T(n)
    BY <1>4
  <2> HIDE DEF T
  <2> QED BY <1>2, <1>4, <2>1 DEF T
<1> QED BY <1>3, <1>4

LEMMA OneMoreDrop ==
  ASSUME NEW earlier \in Seq(Int \cup {Missed}), NEW n \in Nat, n + 1 <= Len(earlier), NEW r \in RetryState,
         PacedUpTo(earlier, n, r)
  PROVE  PacedUpTo(earlier, n + 1, Dropped(r, earlier[n + 1]))
<1> DEFINE lasted == earlier[n + 1]
<1>1. PICK attempt \in Nat : attempt = IF ShouldReset(lasted) THEN 0 ELSE r.attempt
  BY DEF RetryState
<1>2. PICK short \in Nat : short = IF ShouldReset(lasted) THEN 0 ELSE IF ShortLived(lasted) THEN r.short + 1 ELSE r.short
  BY DEF RetryState
<1>3. PICK slept \in Seq(1..MaxDelay) : slept = r.slept
  BY DEF RetryState
<1>4. PICK wait \in 1..MaxDelay : wait = Delay(attempt)
  BY DelayIs
<1>5. PICK longer \in Seq(1..MaxDelay) : longer = Append(slept, wait)
  BY AppendProperties
<1>6. Len(slept) = n /\ Len(longer) = n + 1 /\ longer[n + 1] = wait /\ \A i \in 1..n : longer[i] = slept[i]
  <2>1. Len(slept) = n
    BY <1>3 DEF PacedUpTo
  <2> QED BY ONLY <2>1, <1>5, n \in Nat, AppendProperties
<1>7. PICK d : d = Dropped(r, lasted)
  OBVIOUS
<1>8. d.attempt = attempt + 1 /\ d.short = short /\ d.slept = longer /\ (d.collision <=> short >= 3)
  BY <1>1, <1>2, <1>3, <1>4, <1>5, <1>7 DEF Dropped
<1>9. PICK a \in Nat, b \in Nat : a = r.attempt /\ b = r.short
  BY DEF RetryState
<1>10. ASSUME NEW i \in 2..(n + 1), ~ShouldReset(earlier[i]) PROVE longer[i] >= longer[i - 1]
  <2>1. CASE i \in 2..n
    <3>1. i - 1 \in 1..n /\ i \in 1..n /\ slept[i] >= slept[i - 1]
      BY <1>3, <1>10, <2>1 DEF PacedUpTo
    <3> QED BY <1>6, <3>1
  <2>2. CASE i = n + 1
    <3>1. n > 0 /\ n \in 1..n /\ i - 1 = n /\ attempt = a
      BY <1>1, <1>9, <1>10, <2>2
    <3>2. a > 0 /\ slept[n] = Delay(a - 1)
      BY <1>3, <1>9, <3>1 DEF PacedUpTo
    <3>3. Delay(a) >= Delay(a - 1)
      BY <3>2, DelayIs
    <3> QED BY <1>4, <1>6, <2>2, <3>1, <3>2, <3>3
  <2> QED BY <2>1, <2>2
<1>11. d.slept[n + 1] = Delay(d.attempt - 1) /\ d.attempt > 0
  <2>1. (attempt + 1) - 1 = attempt /\ attempt + 1 > 0
    OBVIOUS
  <2> QED BY <1>4, <1>6, <1>8, <2>1
<1>12. ASSUME \A i \in 1..(n + 1) : ~ShouldReset(earlier[i]) PROVE d.attempt = n + 1
  <2>1. r.attempt = n
    BY <1>12 DEF PacedUpTo
  <2>2. ~ShouldReset(lasted)
    BY <1>12
  <2> QED BY <1>1, <1>8, <2>1, <2>2
<1>13. short <= Cardinality({i \in 1..(n + 1) : ShortLived(earlier[i])})
  <2>1. PICK c \in Nat : c = Cardinality({i \in 1..n : ShortLived(earlier[i])})
    BY ShortLivedSoFar
  <2>2. b <= c
    BY <1>9, <2>1 DEF PacedUpTo
  <2>3. Cardinality({i \in 1..(n + 1) : ShortLived(earlier[i])}) = c + (IF ShortLived(lasted) THEN 1 ELSE 0)
    BY <2>1, ShortLivedSoFar
  <2>4. short <= c + (IF ShortLived(lasted) THEN 1 ELSE 0)
    BY <1>2, <1>9, <2>2
  <2> QED BY <2>3, <2>4
<1>14. PacedUpTo(earlier, n + 1, d)
  BY <1>6, <1>8, <1>10, <1>11, <1>12, <1>13 DEF PacedUpTo
<1> QED BY <1>7, <1>14

(***************************************************************************)
(* Whatever the connections did, reconnects are paced (backoff.rs and the  *)
(* loops of the MQTT source and forwarder).                                *)
(***************************************************************************)
THEOREM ReconnectsPaced ==
  ASSUME NEW earlier \in Seq(Int \cup {Missed})
  PROVE  Paced(earlier)
<1>1. PICK N \in Nat : N = Len(earlier)
  BY LenProperties
<1>2. PICK f \in [0..N -> RetryState] : Follows(f, N, NotTried, Dropping(earlier)) /\ Retries(earlier) = f[N]
  BY <1>1, RetriesFollow
<1> DEFINE G == {n \in Nat : n <= N => PacedUpTo(earlier, n, f[n])}
<1>3. 0 \in G
  <2>1. f[0] = NotTried
    BY <1>2 DEF Follows
  <2>2. {i \in 1..0 : ShortLived(earlier[i])} = {}
    OBVIOUS
  <2>3. Cardinality({i \in 1..0 : ShortLived(earlier[i])}) = 0
    BY <2>2, FS_EmptySet
  <2>4. NotTried.slept = <<>> /\ NotTried.attempt = 0 /\ NotTried.short = 0 /\ NotTried.collision = FALSE
    BY DEF NotTried
  <2>5. PacedUpTo(earlier, 0, NotTried)
    BY <2>3, <2>4, EmptySeq DEF PacedUpTo
  <2> QED BY <2>1, <2>5
<1>4. ASSUME NEW n \in Nat, n \in G PROVE n + 1 \in G
  <2> SUFFICES ASSUME n + 1 <= N PROVE PacedUpTo(earlier, n + 1, f[n + 1])
    OBVIOUS
  <2>1. n + 1 \in 1..N /\ (n + 1) - 1 = n /\ n \in 0..N
    OBVIOUS
  <2>2. PICK r \in RetryState : r = f[n] /\ PacedUpTo(earlier, n, r)
    BY <1>2, <1>4, <2>1
  <2>3. f[n + 1] = Dropping(earlier)[n + 1][r]
    BY <1>2, <2>1, <2>2 DEF Follows
  <2>4. f[n + 1] = Dropped(r, earlier[n + 1])
    BY <1>1, <2>1, <2>3 DEF Dropping
  <2> QED BY <1>1, <2>2, <2>4, OneMoreDrop
<1>5. Nat \subseteq G
  <2> HIDE DEF G
  <2> QED BY <1>3, <1>4, Induction
<1>6. PICK r \in RetryState : r = Retries(earlier) /\ PacedUpTo(earlier, N, r)
  BY <1>2, <1>5
<1>7. PICK slept \in Seq(1..MaxDelay) : slept = r.slept /\ Len(slept) = N
  BY <1>6 DEF RetryState, PacedUpTo
<1>8. \A i \in DOMAIN earlier : r.slept[i] <= MaxDelay
  <2>1. PICK waits \in [1..N -> 1..MaxDelay] : waits = r.slept
    BY <1>7, LenProperties
  <2>2. ASSUME NEW i \in 1..N PROVE waits[i] <= MaxDelay
    <3>1. \A wait \in 1..MaxDelay : wait <= MaxDelay
      BY DEF MaxDelay
    <3>2. waits[i] \in 1..MaxDelay
      OBVIOUS
    <3> QED BY ONLY <3>1, <3>2, Zenon
  <2>3. DOMAIN earlier = 1..N
    BY <1>1, LenProperties
  <2> QED BY ONLY <2>1, <2>2, <2>3
<1>9. \A i \in 2..Len(earlier) : ~ShouldReset(earlier[i]) => r.slept[i] >= r.slept[i - 1]
  BY <1>1, <1>6 DEF PacedUpTo
<1>10. ASSUME \A i \in DOMAIN earlier : ~ShouldReset(earlier[i]), Len(earlier) > 9
       PROVE  Last(r.slept) = MaxDelay
  <2>1. \A i \in 1..N : ~ShouldReset(earlier[i])
    BY <1>1, <1>10, LenProperties
  <2>2. N > 0 /\ N - 1 \in Nat /\ N - 1 >= 9
    BY <1>1, <1>10
  <2>3. r.slept[N] = Delay(N - 1)
    BY <1>6, <2>1, <2>2 DEF PacedUpTo
  <2>4. Delay(N - 1) = MaxDelay
    BY <2>2, DelayIs
  <2>5. Last(slept) = slept[N]
    BY <1>7 DEF Last
  <2> QED BY <1>7, <2>3, <2>4, <2>5
<1>11. ASSUME r.collision PROVE Cardinality({i \in DOMAIN earlier : ShortLived(earlier[i])}) >= 3
  <2>1. DOMAIN earlier = 1..N
    BY <1>1, LenProperties
  <2>2. PICK c \in Nat : c = Cardinality({i \in 1..N : ShortLived(earlier[i])})
    BY ShortLivedSoFar
  <2>3. PICK b \in Nat : b = r.short /\ b >= 3 /\ b <= c
    BY <1>6, <1>11, <2>2 DEF PacedUpTo, RetryState
  <2> QED BY <2>1, <2>2, <2>3
<1> QED BY <1>6, <1>8, <1>9, <1>10, <1>11 DEF Paced

(***************************************************************************)
(* Whatever a line says and whenever it is read: it is the same aircraft   *)
(* and the same time wherever it is stored (sbs_parser.rs,                 *)
(* parse_timestamp_to_ms).                                                 *)
(***************************************************************************)
THEOREM LinesReadTheSame ==
  ASSUME NEW l, l.fields \in Nat, NEW tz, NEW zones, NEW present
  PROVE  ReadingsSame(l, tz, zones, present)
<1> DEFINE stamp == <<l.date, l.time>>
           row == [hex |-> l.hex, timestamp |-> stamp]
<1>1. CASE ~Accepted(l)
  <2>1. PositionOf(l) = <<>> /\ RawOf(l) = <<>>
    BY <1>1 DEF PositionOf, RawOf
  <2> QED BY <2>1, Zenon DEF ReadingsSame
<1>2. CASE Accepted(l)
  <2>1. PositionOf(l) = <<row>> /\ RawOf(l) = <<[hex |-> l.hex, transmission |-> l.transmission]>>
    BY <1>2 DEF PositionOf, RawOf
  <2>2. l.hex # "000000" /\ ~(l.fields < 8)
    <3>1. l.fields >= 22 /\ l.hex # "000000"
      BY <1>2 DEF Accepted
    <3>2. PICK k \in Nat : k = l.fields
      OBVIOUS
    <3> QED BY <3>1, <3>2
  <2>3. /\ <<row>> # <<>> /\ <<row>>[1].hex = l.hex /\ <<row>>[1].timestamp = stamp /\ stamp[2] = l.time
        /\ <<[hex |-> l.hex, transmission |-> l.transmission]>>[1].hex = l.hex
        /\ <<stamp>> # <<>> /\ <<stamp>>[1] = stamp
    OBVIOUS
  <2> HIDE DEF row, stamp
  <2>4. CASE l.date = Missed /\ l.time = Missed
    <3>1. TimestampOf(l) = <<>>
      BY <2>4 DEF TimestampOf
    <3>2. TimeOf(stamp, tz, zones, present) = present
      BY <2>3, <2>4, Zenon DEF TimeOf
    <3> QED BY <2>1, <2>2, <2>3, <3>1, <3>2, Zenon DEF ReadingsSame
  <2>5. CASE ~(l.date = Missed /\ l.time = Missed)
    <3>1. TimestampOf(l) = <<stamp>>
      BY <2>2, <2>5, Zenon DEF TimestampOf, stamp
    <3> QED BY <2>1, <2>2, <2>3, <3>1, Zenon DEF ReadingsSame
  <2> QED BY <2>4, <2>5
<1> QED BY <1>1, <1>2

(***************************************************************************)
(* Whenever a zone changes its offset, and by how much: a wall clock is    *)
(* read as the instant it shows, but for what it shows twice               *)
(* (parse_timestamp_to_ms).                                                *)
(***************************************************************************)
THEOREM ClocksHonest ==
  ASSUME NEW zone \in [change : Int, before : Int, after : Int]
  PROVE  ClockHonest(zone)
<1>1. PICK change \in Int, before \in Int, after \in Int :
        change = zone.change /\ before = zone.before /\ after = zone.after
  OBVIOUS
<1>2. SUFFICES ASSUME NEW t \in (change - 6)..(change + 6)
               PROVE  LET shown == t + Offset(zone, t) IN
                      IF Cardinality(Instants(zone, shown)) = 2
                      THEN FromWall(zone, shown) = shown /\ after < before
                      ELSE FromWall(zone, shown) = t
  BY <1>1 DEF ClockHonest
<1>3. \A u \in Int : Offset(zone, u) = IF u < change THEN before ELSE after
  BY <1>1 DEF Offset
<1>4. PICK shown \in Int : shown = t + Offset(zone, t)
  BY <1>3
<1>5. PICK p \in Int, q \in Int : p = shown - before /\ q = shown - after
  OBVIOUS
<1>6. PICK I : I = Instants(zone, shown)
  OBVIOUS
<1>7. \A u : u \in I <=> u \in {p, q} /\ u + Offset(zone, u) = shown
  BY <1>1, <1>5, <1>6 DEF Instants
<1>8. t \in I
  <2>1. t = p \/ t = q
    BY <1>3, <1>4, <1>5
  <2> QED BY <1>4, <1>7, <2>1
<1>9. CASE I = {t}
  <2>1. Cardinality(I) = 1
    BY <1>9, FS_Singleton
  <2>2. FromWall(zone, shown) = t
    BY <1>6, <1>9, <2>1 DEF FromWall
  <2> QED BY <1>4, <1>6, <2>1, <2>2
<1>10. CASE I # {t}
  <2>1. p \in I /\ q \in I /\ p # q /\ I = {p, q}
    BY <1>7, <1>8, <1>10
  <2>2. Cardinality(I) = 2
    <3>1. IsFiniteSet({p}) /\ Cardinality({p}) = 1
      BY FS_Singleton
    <3>2. I = {p} \cup {q} /\ q \notin {p}
      BY <2>1
    <3>3. Cardinality({p} \cup {q}) = Cardinality({p}) + 1
      BY <3>1, <3>2, FS_AddElement
    <3> QED BY <3>1, <3>2, <3>3
  <2>3. FromWall(zone, shown) = shown
    BY <1>6, <2>2 DEF FromWall
  <2>4. after < before
    <3>1. p + Offset(zone, p) = shown /\ q + Offset(zone, q) = shown
      BY <1>7, <2>1
    <3> QED BY <1>3, <1>5, <2>1, <3>1
  <2> QED BY <1>4, <1>6, <2>2, <2>3, <2>4
<1> QED BY <1>9, <1>10

-----------------------------------------------------------------------------
(* Lists that a set holds all of, and what a conversion can use.           *)

\* Nothing is taken out of a list that is within the set.
LEMMA AmongAll ==
  ASSUME NEW S
  PROVE  \A s \in Seq(S) : Among(s, S) = s
<1> DEFINE G == {s \in Seq(S) : Among(s, S) = s}
<1>1. <<>> \in G
  BY AmongEmpty
<1>2. ASSUME NEW s \in Seq(S), NEW e \in S, s \in G PROVE Append(s, e) \in G
  <2>1. Among(Append(s, e), S) = IF e \in S THEN Append(Among(s, S), e) ELSE Among(s, S)
    BY AmongAppend
  <2> QED BY <1>2, <2>1, AppendProperties
<1>3. Seq(S) \subseteq G
  <2> HIDE DEF G
  <2> QED BY <1>1, <1>2, ListInduction
<1> QED BY <1>3

-----------------------------------------------------------------------------
(* The layers of the settings, for every table of fields.                  *)

\* The conversions, of which the loose ones take any value of their TOML type, and what
\* each makes of a value it can use.
Conversions == {"string", "boolean", "u64", "i64", "u16", "u8", "checked_u16", "checked_u32", "float",
                "kinds", "levels"}
Loose == {"string", "boolean", "u64", "i64", "float"}
Usable(conversion, x) ==
  /\ conversion \in Loose => x # Unset
  /\ conversion \in {"u16", "checked_u16"} => x \in 0..(Limit16 - 1)
  /\ conversion = "u8" => x \in 0..(Limit8 - 1)
  /\ conversion = "checked_u32" => x \in 0..(Limit32 - 1)
  /\ conversion = "kinds" => x \in Seq(Kinds) /\ x # <<>>
  /\ conversion = "levels" => x \in Seq(0..(Limit16 - 1))

\* What a file can say: a TOML type, and a value; an array is a sequence.
IsToml(v) ==
  /\ v[1] = "integer" => v[2] \in Int
  /\ v[1] = "array" => \E E : v[2] \in Seq(E)
  /\ v[1] \in {"string", "boolean", "float"} => v[2] # Unset

\* What the conversions do, one by one.
LEMMA Conversion ==
  ASSUME NEW v
  PROVE  /\ Convert("string", v) = Only("string", v) /\ Convert("boolean", v) = Only("boolean", v)
         /\ Convert("u64", v) = Only("integer", v) /\ Convert("i64", v) = Only("integer", v)
         /\ Convert("u16", v) = IF v[1] = "integer" THEN <<v[2] % Limit16>> ELSE <<>>
         /\ Convert("u8", v) = IF v[1] = "integer" THEN <<v[2] % Limit8>> ELSE <<>>
         /\ Convert("checked_u16", v) = IF Fits(v, Limit16) THEN <<v[2]>> ELSE <<>>
         /\ Convert("checked_u32", v) = IF Fits(v, Limit32) THEN <<v[2]>> ELSE <<>>
         /\ Convert("float", v) = IF v[1] \in {"float", "integer"} THEN <<v[2]>> ELSE <<>>
         /\ Convert("none", v) = <<>>
BY DEF Convert

LEMMA ListConversion ==
  ASSUME NEW v
  PROVE  /\ Convert("kinds", v) =
               LET known == Among(IF v[1] = "array" THEN v[2] ELSE <<>>, {"string"} \X Kinds)
               IN IF known = <<>> THEN <<>> ELSE <<[i \in DOMAIN known |-> known[i][2]]>>
         /\ Convert("levels", v) =
               IF v[1] = "array" /\ \A i \in DOMAIN v[2] : Fits(v[2][i], Limit16)
               THEN <<[i \in DOMAIN v[2] |-> v[2][i][2]]>> ELSE <<>>
BY DEF Convert

LEMMA Writing ==
  ASSUME NEW x
  PROVE  /\ \A conversion \in {"string", "boolean", "float"} : Toml(conversion, x) = <<conversion, x>>
         /\ \A conversion \in {"u8", "u16", "u64", "i64", "checked_u16", "checked_u32"} :
              Toml(conversion, x) = <<"integer", x>>
         /\ Toml("kinds", x) = <<"array", [i \in DOMAIN x |-> <<"string", x[i]>>]>>
         /\ Toml("levels", x) = <<"array", [i \in DOMAIN x |-> <<"integer", x[i]>>]>>
BY DEF Toml

LEMMA UsableIs ==
  ASSUME NEW x
  PROVE  /\ Usable("string", x) <=> x # Unset
         /\ Usable("boolean", x) <=> x # Unset
         /\ Usable("u64", x) <=> x # Unset
         /\ Usable("i64", x) <=> x # Unset
         /\ Usable("float", x) <=> x # Unset
         /\ (Usable("u16", x) <=> x \in 0..(Limit16 - 1)) /\ (Usable("checked_u16", x) <=> x \in 0..(Limit16 - 1))
         /\ Usable("u8", x) <=> x \in 0..(Limit8 - 1)
         /\ Usable("checked_u32", x) <=> x \in 0..(Limit32 - 1)
         /\ Usable("kinds", x) <=> x \in Seq(Kinds) /\ x # <<>>
         /\ Usable("levels", x) <=> x \in Seq(0..(Limit16 - 1))
BY DEF Usable, Loose

\* A number is wrapped to one below the limit, and below it stays as it is.
LEMMA Wrapping ==
  ASSUME NEW limit \in {Limit8, Limit16}, NEW x \in Int
  PROVE  x % limit \in 0..(limit - 1) /\ (x \in 0..(limit - 1) => x % limit = x)
<1>1. limit \in Nat \ {0}
  BY DEF Limit8, Limit16
<1> QED BY ONLY <1>1, x \in Int

\* A conversion finds a value of no use, or makes a usable one of it.
Converts(conversion, v) ==
  Convert(conversion, v) = <<>> \/ \E x : Usable(conversion, x) /\ Convert(conversion, v) = <<x>>

LEMMA SeqWider ==
  ASSUME NEW S, NEW T, S \subseteq T
  PROVE  Seq(S) \subseteq Seq(T)
OBVIOUS

LEMMA ListOf ==
  ASSUME NEW S, NEW n \in Nat, NEW x, x = [i \in 1..n |-> x[i]], \A i \in 1..n : x[i] \in S
  PROVE  x \in Seq(S)
OBVIOUS

LEMMA ConversionType ==
  ASSUME NEW conversion \in Conversions, NEW v, IsToml(v)
  PROVE  Converts(conversion, v)
<1>0. /\ v[1] = "integer" => v[2] \in Int /\ v[2] # Unset
      /\ v[1] = "array" => \E E : v[2] \in Seq(E)
      /\ v[1] \in {"string", "boolean", "float"} => v[2] # Unset
  <2>1. v[2] \in Int => v[2] # Unset
    BY SettingsAssumption, Zenon
  <2> QED BY <2>1, Zenon DEF IsToml
<1>1. Converts("string", v) /\ Converts("boolean", v)
  <2>1. Convert("string", v) = Only("string", v) /\ Convert("boolean", v) = Only("boolean", v)
    BY Conversion, Zenon
  <2>2. (Usable("string", v[2]) <=> v[2] # Unset) /\ (Usable("boolean", v[2]) <=> v[2] # Unset)
    BY UsableIs, Zenon
  <2> QED BY ONLY <1>0, <2>1, <2>2, Zenon DEF Only, Converts
<1>2. Converts("u64", v) /\ Converts("i64", v)
  <2>1. Convert("u64", v) = Only("integer", v) /\ Convert("i64", v) = Only("integer", v)
    BY Conversion, Zenon
  <2>2. (Usable("u64", v[2]) <=> v[2] # Unset) /\ (Usable("i64", v[2]) <=> v[2] # Unset)
    BY UsableIs, Zenon
  <2> QED BY ONLY <1>0, <2>1, <2>2, Zenon DEF Only, Converts
<1>3. Converts("u16", v) /\ Converts("u8", v)
  <2> DEFINE x == v[2] % Limit16
             y == v[2] % Limit8
  <2>1. Convert("u16", v) = (IF v[1] = "integer" THEN <<x>> ELSE <<>>)
    BY Conversion, Zenon
  <2>2. Convert("u8", v) = (IF v[1] = "integer" THEN <<y>> ELSE <<>>)
    BY Conversion, Zenon
  <2>3. v[1] = "integer" => x \in 0..(Limit16 - 1) /\ y \in 0..(Limit8 - 1)
    <3>1. ASSUME v[1] = "integer" PROVE v[2] \in Int
      BY <1>0, <3>1
    <3> QED BY <3>1, Wrapping
  <2>4. (Usable("u16", x) <=> x \in 0..(Limit16 - 1)) /\ (Usable("u8", y) <=> y \in 0..(Limit8 - 1))
    BY UsableIs, Zenon
  <2> HIDE DEF x, y
  <2> QED BY ONLY <2>1, <2>2, <2>3, <2>4, Zenon DEF Converts
<1>4. Converts("checked_u16", v) /\ Converts("checked_u32", v)
  <2>1. Convert("checked_u16", v) = IF Fits(v, Limit16) THEN <<v[2]>> ELSE <<>>
    BY Conversion, Zenon
  <2>2. Convert("checked_u32", v) = IF Fits(v, Limit32) THEN <<v[2]>> ELSE <<>>
    BY Conversion, Zenon
  <2>3. Fits(v, Limit16) => v[2] \in 0..(Limit16 - 1)
    BY DEF Fits
  <2>4. Fits(v, Limit32) => v[2] \in 0..(Limit32 - 1)
    BY DEF Fits
  <2>5. Usable("checked_u16", v[2]) <=> v[2] \in 0..(Limit16 - 1)
    BY UsableIs, Zenon
  <2>6. Usable("checked_u32", v[2]) <=> v[2] \in 0..(Limit32 - 1)
    BY UsableIs, Zenon
  <2> QED BY ONLY <2>1, <2>2, <2>3, <2>4, <2>5, <2>6, Zenon DEF Converts
<1>5. Converts("float", v)
  <2>1. Convert("float", v) = IF v[1] \in {"float", "integer"} THEN <<v[2]>> ELSE <<>>
    BY Conversion, Zenon
  <2>2. Usable("float", v[2]) <=> v[2] # Unset
    BY UsableIs, Zenon
  <2> QED BY ONLY <1>0, <2>1, <2>2, Zenon DEF Converts
<1>6. Converts("kinds", v)
  <2>1. \E E : (IF v[1] = "array" THEN v[2] ELSE <<>>) \in Seq(E)
    <3>1. CASE v[1] = "array"
      BY <1>0, <3>1, Zenon
    <3>2. CASE v[1] # "array"
      <4>1. <<>> \in Seq({})
        BY EmptySeq
      <4> QED BY <3>2, <4>1, Zenon
    <3> QED BY <3>1, <3>2
  <2> PICK E : (IF v[1] = "array" THEN v[2] ELSE <<>>) \in Seq(E)
    BY <2>1
  <2> PICK list \in Seq(E) : list = IF v[1] = "array" THEN v[2] ELSE <<>>
    OBVIOUS
  <2>2. PICK k \in Seq({"string"} \X Kinds) : k = Among(list, {"string"} \X Kinds)
    BY AmongType
  <2>3. Convert("kinds", v) = IF k = <<>> THEN <<>> ELSE <<[i \in DOMAIN k |-> k[i][2]]>>
    BY <2>1, <2>2, ListConversion, Zenon
  <2>4. CASE k # <<>>
    <3>1. PICK n \in Nat : n = Len(k) /\ DOMAIN k = 1..n /\ n # 0
      BY <2>4, EmptySeq, LenProperties
    <3>2. ASSUME NEW i \in 1..n PROVE k[i][2] \in Kinds
      <4>1. k[i] \in {"string"} \X Kinds
        BY <3>1
      <4> QED BY <4>1
    <3>3. PICK x : x = [i \in 1..n |-> k[i][2]]
      OBVIOUS
    <3>4. x \in Seq(Kinds) /\ Len(x) = n
      BY <3>2, <3>3
    <3>5. x # <<>>
      BY <3>1, <3>4, EmptySeq
    <3>6. Usable("kinds", x)
      BY <3>4, <3>5, UsableIs, Zenon
    <3>7. Convert("kinds", v) = <<x>>
      BY <2>3, <2>4, <3>1, <3>3, Zenon
    <3> QED BY <3>6, <3>7, Zenon DEF Converts
  <2> QED BY <2>3, <2>4, Zenon DEF Converts
<1>7. Converts("levels", v)
  <2>1. CASE v[1] = "array" /\ \A i \in DOMAIN v[2] : Fits(v[2][i], Limit16)
    <3> PICK E : v[2] \in Seq(E)
      BY <1>0, <2>1, Zenon
    <3>1. PICK list \in Seq(E) : list = v[2]
      OBVIOUS
    <3>2. PICK n \in Nat : n = Len(list) /\ DOMAIN list = 1..n
      BY LenProperties
    <3>3. PICK x : x = [i \in 1..n |-> list[i][2]]
      OBVIOUS
    <3>4. ASSUME NEW i \in 1..n PROVE list[i][2] \in 0..(Limit16 - 1)
      <4>1. Fits(list[i], Limit16)
        BY <2>1, <3>1, <3>2
      <4> QED BY <4>1 DEF Fits
    <3>5. x \in Seq(0..(Limit16 - 1))
      <4>1. x = [i \in 1..n |-> x[i]] /\ \A i \in 1..n : x[i] = list[i][2]
        BY <3>3
      <4>2. \A i \in 1..n : x[i] \in 0..(Limit16 - 1)
        BY <3>4, <4>1, Zenon
      <4> QED BY <4>1, <4>2, ListOf, Zenon
    <3>6. Convert("levels", v) = <<[i \in DOMAIN v[2] |-> v[2][i][2]]>>
      BY <2>1, ListConversion, Zenon
    <3>7. Convert("levels", v) = <<x>>
      BY <3>1, <3>2, <3>3, <3>6, Zenon
    <3>8. Usable("levels", x)
      BY <3>5, UsableIs, Zenon
    <3> QED BY <3>7, <3>8, Zenon DEF Converts
  <2>2. CASE ~(v[1] = "array" /\ \A i \in DOMAIN v[2] : Fits(v[2][i], Limit16))
    <3>1. Convert("levels", v) = <<>>
      BY <2>2, ListConversion, Zenon
    <3> QED BY <3>1, Zenon DEF Converts
  <2> QED BY <2>1, <2>2
<1> QED BY <1>1, <1>2, <1>3, <1>4, <1>5, <1>6, <1>7, SMT DEF Conversions

\* What is written to a file is read as it was.
LEMMA RoundTrip ==
  ASSUME NEW conversion \in Conversions, NEW x, Usable(conversion, x)
  PROVE  Convert(conversion, Toml(conversion, x)) = <<x>>
<1>1. CASE conversion \in {"string", "boolean", "float"}
  BY <1>1, Conversion, Writing DEF Only
<1>2. CASE conversion \in {"u64", "i64"}
  BY <1>2, Conversion, Writing DEF Only
<1>3. CASE conversion \in {"u16", "u8"}
  <2>1. Toml(conversion, x) = <<"integer", x>>
    BY <1>3, Writing
  <2>2. Convert(conversion, <<"integer", x>>) = IF conversion = "u16" THEN <<x % Limit16>> ELSE <<x % Limit8>>
    BY <1>3, Conversion
  <2>3. conversion = "u16" => x \in 0..(Limit16 - 1)
    BY DEF Usable
  <2>4. conversion = "u8" => x \in 0..(Limit8 - 1)
    BY DEF Usable
  <2>5. IF conversion = "u16" THEN x % Limit16 = x ELSE x % Limit8 = x
    <3>1. \A limit \in {Limit8, Limit16} : 0..(limit - 1) \subseteq Int
      BY DEF Limit8, Limit16
    <3> QED BY <1>3, <2>3, <2>4, <3>1, Wrapping
  <2> QED BY <2>1, <2>2, <2>5
<1>4. CASE conversion \in {"checked_u16", "checked_u32"}
  <2>1. Toml(conversion, x) = <<"integer", x>>
    BY <1>4, Writing
  <2>2. Fits(<<"integer", x>>, IF conversion = "checked_u16" THEN Limit16 ELSE Limit32)
    BY <1>4 DEF Fits, Usable
  <2> QED BY <1>4, <2>1, <2>2, Conversion
<1>5. CASE conversion = "kinds"
  <2>1. PICK n \in Nat : n = Len(x) /\ DOMAIN x = 1..n /\ n # 0 /\ x \in Seq(Kinds)
    <3>1. x \in Seq(Kinds) /\ x # <<>>
      BY <1>5 DEF Usable
    <3> QED BY <3>1, EmptySeq, LenProperties
  <2>2. PICK list : list = [i \in 1..n |-> <<"string", x[i]>>]
    OBVIOUS
  <2>3. list \in Seq({"string"} \X Kinds) /\ Len(list) = n
    <3>1. \A i \in 1..n : x[i] \in Kinds
      BY <2>1
    <3> QED BY <2>2, <3>1
  <2>4. Among(list, {"string"} \X Kinds) = list
    BY <2>3, AmongAll
  <2>5. list # <<>>
    BY <2>1, <2>3, EmptySeq
  <2>6. Toml(conversion, x) = <<"array", list>>
    BY <1>5, <2>1, <2>2, Writing
  <2>7. Convert(conversion, <<"array", list>>) = <<[i \in DOMAIN list |-> list[i][2]]>>
    <3>1. (IF <<"array", list>>[1] = "array" THEN <<"array", list>>[2] ELSE <<>>) = list
      OBVIOUS
    <3> QED BY <1>5, <2>4, <2>5, <3>1, ListConversion
  <2>8. [i \in DOMAIN list |-> list[i][2]] = x
    <3>1. DOMAIN list = 1..n /\ \A i \in 1..n : list[i][2] = x[i]
      BY <2>2
    <3>2. x = [i \in 1..n |-> x[i]]
      BY <2>1, LenProperties
    <3> QED BY <3>1, <3>2
  <2> QED BY <2>6, <2>7, <2>8
<1>6. CASE conversion = "levels"
  <2>1. PICK n \in Nat : n = Len(x) /\ DOMAIN x = 1..n /\ x \in Seq(0..(Limit16 - 1))
    <3>1. x \in Seq(0..(Limit16 - 1))
      BY <1>6 DEF Usable
    <3> QED BY <3>1, LenProperties
  <2>2. PICK list : list = [i \in 1..n |-> <<"integer", x[i]>>]
    OBVIOUS
  <2>3. Toml(conversion, x) = <<"array", list>>
    BY <1>6, <2>1, <2>2, Writing
  <2>4. \A i \in DOMAIN list : Fits(list[i], Limit16)
    <3>1. \A i \in 1..n : x[i] \in 0..(Limit16 - 1)
      <4>1. PICK S : S = 0..(Limit16 - 1)
        OBVIOUS
      <4>2. x \in Seq(S) /\ n = Len(x)
        BY <2>1, <4>1
      <4>3. \A i \in 1..n : x[i] \in S
        BY ONLY <4>2
      <4> QED BY <4>1, <4>3
    <3>2. \A i \in 1..n : Fits(<<"integer", x[i]>>, Limit16)
      BY <3>1, Zenon DEF Fits
    <3> QED BY <2>2, <3>2
  <2>5. Convert(conversion, <<"array", list>>) = <<[i \in DOMAIN list |-> list[i][2]]>>
    BY <1>6, <2>4, ListConversion
  <2>6. [i \in DOMAIN list |-> list[i][2]] = x
    <3>1. DOMAIN list = 1..n /\ \A i \in 1..n : list[i][2] = x[i]
      BY <2>2
    <3>2. x = [i \in 1..n |-> x[i]]
      BY <2>1, LenProperties
    <3> QED BY <3>1, <3>2
  <2> QED BY <2>3, <2>5, <2>6
<1> QED BY <1>1, <1>2, <1>3, <1>4, <1>5, <1>6, Zenon DEF Conversions

\* Only a field that has no value is Unset.
LEMMA UsableIsSet ==
  ASSUME NEW conversion \in Conversions, NEW x, Usable(conversion, x)
  PROVE  x # Unset
<1>1. ASSUME NEW limit \in {Limit8, Limit16, Limit32} PROVE 0..(limit - 1) \subseteq Int
  <2>1. limit \in Int
    BY DEF Limit8, Limit16, Limit32
  <2> QED BY <2>1
<1>2. Seq(0..(Limit16 - 1)) \subseteq Seq(Int)
  <2>1. 0..(Limit16 - 1) \subseteq Int
    BY <1>1
  <2> QED BY <2>1, SeqWider, Zenon
<1>3. CASE conversion \in Loose
  BY <1>3, Zenon DEF Usable
<1>4. CASE conversion \notin Loose
  <2>1. \/ conversion \in {"u16", "checked_u16"} \/ conversion = "u8" \/ conversion = "checked_u32"
        \/ conversion = "kinds" \/ conversion = "levels"
    BY <1>4 DEF Conversions, Loose
  <2>2. x \in Int \/ x \in Seq(Kinds) \/ x \in Seq(Int)
    BY <1>1, <1>2, <2>1, Zenon DEF Usable
  <2> QED BY <2>2, SettingsAssumption, Zenon
<1> QED BY <1>3, <1>4

\* A field that the overlay does not know takes nothing from the file.
LEMMA NoneConverts == \A v : Convert("none", v) = <<>>
BY DEF Convert

\* A table of fields that an overlay and the command line can fill, of which the list
\* of forwarders is never without a value; what clap makes of the environment or of the
\* flags; and a file that is TOML.
IsTable(fields) ==
  /\ \A f \in DOMAIN fields :
       /\ fields[f].file \in Conversions \cup {"none"}
       /\ fields[f].file # "none" => fields[f].default = Unset \/ Usable(fields[f].file, fields[f].default)
  /\ "forwarders" \in DOMAIN fields => fields["forwarders"].file = "kinds" /\ fields["forwarders"].default # Unset
IsLayer(fields, layer) ==
  \A f \in DOMAIN layer : f \in DOMAIN fields /\ (fields[f].file # "none" => Usable(fields[f].file, layer[f]))
IsFile(toml) == \A f \in DOMAIN toml : IsToml(toml[f])

(***************************************************************************)
(* For every table, flags, environment and file: the layers hold           *)
(* (overlay_file and load of the three services' config.rs).               *)
(***************************************************************************)
THEOREM SettingsLayered ==
  ASSUME NEW fields, IsTable(fields), NEW flags, IsLayer(fields, flags), NEW env, IsLayer(fields, env),
         NEW toml, IsFile(toml)
  PROVE  LayersHold(fields, flags, env, toml)
<1>1. PICK c : c = Overlay(fields, flags, env, toml)
  OBVIOUS
<1>2. /\ DOMAIN c = DOMAIN fields
      /\ \A f \in DOMAIN fields :
           c[f] = IF IsDefaulted(fields, f, flags, env) /\ FromFile(fields, f, toml) # <<>>
                  THEN FromFile(fields, f, toml)[1] ELSE Parsed(fields, flags, env)[f]
  BY <1>1, Zenon DEF Overlay
<1>3. \A f \in DOMAIN fields :
        Parsed(fields, flags, env)[f] = IF f \in DOMAIN flags THEN flags[f]
                                        ELSE IF fields[f].env /\ f \in DOMAIN env THEN env[f]
                                        ELSE fields[f].default
  BY Zenon DEF Parsed
<1>4. ASSUME NEW f \in DOMAIN fields, fields[f].file # "none"
      PROVE  (c[f] = Unset /\ fields[f].default = Unset) \/ Usable(fields[f].file, c[f])
  <2>1. fields[f].file \in Conversions
    BY <1>4, Zenon DEF IsTable
  <2>2. CASE IsDefaulted(fields, f, flags, env) /\ FromFile(fields, f, toml) # <<>>
    <3>1. f \in DOMAIN toml /\ FromFile(fields, f, toml) = Convert(fields[f].file, toml[f])
      BY <2>2, Zenon DEF FromFile
    <3>2. Converts(fields[f].file, toml[f])
      BY <2>1, <3>1, ConversionType, Zenon DEF IsFile
    <3>3. PICK x : Usable(fields[f].file, x) /\ FromFile(fields, f, toml) = <<x>>
      BY <2>2, <3>1, <3>2, Zenon DEF Converts
    <3>4. c[f] = x
      BY <1>2, <2>2, <3>3
    <3> QED BY <3>3, <3>4
  <2>3. CASE ~(IsDefaulted(fields, f, flags, env) /\ FromFile(fields, f, toml) # <<>>)
    <3>1. c[f] = Parsed(fields, flags, env)[f]
      BY <1>2, <2>3, Zenon
    <3>2. f \in DOMAIN flags => Usable(fields[f].file, flags[f])
      BY <1>4, Zenon DEF IsLayer
    <3>3. f \in DOMAIN env => Usable(fields[f].file, env[f])
      BY <1>4, Zenon DEF IsLayer
    <3>4. fields[f].default = Unset \/ Usable(fields[f].file, fields[f].default)
      BY <1>4, Zenon DEF IsTable
    <3>5. CASE f \in DOMAIN flags
      <4>1. c[f] = flags[f]
        BY <1>3, <3>1, <3>5, Zenon
      <4> QED BY <3>2, <3>5, <4>1, Zenon
    <3>6. CASE f \notin DOMAIN flags /\ fields[f].env /\ f \in DOMAIN env
      <4>1. c[f] = env[f]
        BY <1>3, <3>1, <3>6, Zenon
      <4> QED BY <3>3, <3>6, <4>1, Zenon
    <3>7. CASE f \notin DOMAIN flags /\ ~(fields[f].env /\ f \in DOMAIN env)
      <4>1. c[f] = fields[f].default
        BY <1>3, <3>1, <3>7, Zenon
      <4> QED BY <3>4, <4>1, Zenon
    <3> QED BY <3>5, <3>6, <3>7, Zenon
  <2> QED BY <2>2, <2>3, Zenon
<1>5. \A f \in DOMAIN flags : c[f] = flags[f]
  BY <1>2, <1>3, Zenon DEF IsLayer, IsDefaulted
<1>6. \A f \in DOMAIN env \ DOMAIN flags : fields[f].env => c[f] = env[f]
  BY <1>2, <1>3, Zenon DEF IsLayer, IsDefaulted
<1>7. ASSUME NEW f \in DOMAIN fields, f \notin DOMAIN flags, ~(fields[f].env /\ f \in DOMAIN env)
      PROVE  c[f] = IF FromFile(fields, f, toml) # <<>> THEN FromFile(fields, f, toml)[1] ELSE fields[f].default
  <2>1. IsDefaulted(fields, f, flags, env)
    BY <1>7, Zenon DEF IsDefaulted
  <2>2. Parsed(fields, flags, env)[f] = fields[f].default
    BY <1>3, <1>7, Zenon
  <2> QED BY <1>2, <2>1, <2>2, Zenon
<1>8. ASSUME NEW f \in DOMAIN fields
      PROVE  Overlay(fields, <<>>, <<>>, Printed(fields, c))[f] =
               IF fields[f].file # "none" THEN c[f] ELSE fields[f].default
  <2>1. PICK printed : printed = Printed(fields, c)
    OBVIOUS
  <2>2. IsDefaulted(fields, f, <<>>, <<>>)
    <3>1. DOMAIN <<>> = {}
      OBVIOUS
    <3> QED BY <3>1, Zenon DEF IsDefaulted
  <2>3. Parsed(fields, <<>>, <<>>)[f] = fields[f].default
    <3>1. DOMAIN <<>> = {}
      OBVIOUS
    <3> QED BY <3>1, Zenon DEF Parsed
  <2>4. Overlay(fields, <<>>, <<>>, printed)[f] =
          IF FromFile(fields, f, printed) # <<>> THEN FromFile(fields, f, printed)[1] ELSE fields[f].default
    BY <2>2, <2>3, Zenon DEF Overlay
  <2>5. ASSUME fields[f].file # "none" PROVE fields[f].file \in Conversions
    BY <2>5, Zenon DEF IsTable
  <2>6. CASE fields[f].file # "none" /\ c[f] = Unset
    <3>1. ~Usable(fields[f].file, c[f])
      BY <2>5, <2>6, UsableIsSet, Zenon
    <3>2. fields[f].default = c[f]
      BY <1>4, <3>1, <2>6, Zenon
    <3>3. f \notin DOMAIN printed
      BY <2>1, <2>6, Zenon DEF Printed
    <3>4. FromFile(fields, f, printed) = <<>>
      BY <3>3, Zenon DEF FromFile
    <3> QED BY <2>1, <2>4, <2>6, <3>2, <3>4, Zenon
  <2>7. CASE fields[f].file # "none" /\ c[f] # Unset
    <3>1. Usable(fields[f].file, c[f])
      BY <1>4, <2>7, Zenon
    <3>2. f \in DOMAIN printed /\ printed[f] = Toml(fields[f].file, c[f])
      BY <2>1, <2>7, Zenon DEF Printed
    <3>3. FromFile(fields, f, printed) = Convert(fields[f].file, Toml(fields[f].file, c[f]))
      BY <3>2, Zenon DEF FromFile
    <3>4. FromFile(fields, f, printed) = <<c[f]>>
      BY <2>5, <2>7, <3>1, <3>3, RoundTrip, Zenon
    <3>5. <<c[f]>> # <<>> /\ <<c[f]>>[1] = c[f]
      OBVIOUS
    <3> QED BY <2>1, <2>4, <2>7, <3>4, <3>5, Zenon
  <2>8. CASE fields[f].file = "none"
    <3>1. f \in DOMAIN printed => FromFile(fields, f, printed) = Convert("none", printed[f])
      BY <2>8, Zenon DEF FromFile
    <3>2. FromFile(fields, f, printed) = <<>>
      BY <3>1, NoneConverts, Zenon DEF FromFile
    <3> QED BY <2>1, <2>4, <2>8, <3>2, Zenon
  <2> QED BY <2>6, <2>7, <2>8, Zenon
<1>9. "forwarders" \in DOMAIN fields => c.forwarders # <<>>
  <2> SUFFICES ASSUME "forwarders" \in DOMAIN fields PROVE c["forwarders"] # <<>>
    OBVIOUS
  <2>1. fields["forwarders"].file = "kinds" /\ fields["forwarders"].default # Unset
    BY DEF IsTable
  <2>2. Usable("kinds", c["forwarders"])
    BY <1>4, <2>1
  <2> QED BY <2>2, UsableIs
<1> DEFINE left == {f \in DOMAIN fields : f \notin DOMAIN flags /\ ~(fields[f].env /\ f \in DOMAIN env)}
<1>10. \A f \in left : FromFile(fields, f, toml) # <<>> => c[f] = FromFile(fields, f, toml)[1]
  BY <1>7, Zenon
<1>11. \A f \in left : FromFile(fields, f, toml) = <<>> => c[f] = fields[f].default
  BY <1>7, Zenon
<1>12. \A f \in DOMAIN fields : Overlay(fields, <<>>, <<>>, Printed(fields, c))[f] =
                              IF fields[f].file # "none" THEN c[f] ELSE fields[f].default
  BY <1>8, Zenon
<1> QED BY <1>1, <1>5, <1>6, <1>9, <1>10, <1>11, <1>12, Zenon DEF LayersHold

-----------------------------------------------------------------------------
(* The tables of the three services.                                       *)

IsField(d) ==
  /\ d.file \in Conversions \cup {"none"}
  /\ d.file # "none" => d.default = Unset \/ Usable(d.file, d.default)

LEMMA OneField ==
  ASSUME NEW default, NEW env, NEW conversion \in Conversions \cup {"none"},
         conversion = "none" \/ default = Unset \/ Usable(conversion, default)
  PROVE  IsField(Field(default, env, conversion))
<1>1. Field(default, env, conversion).default = default /\ Field(default, env, conversion).file = conversion
  BY DEF Field
<1> QED BY <1>1, Zenon DEF IsField

LEMMA AnyConversion ==
  {"none", "string", "boolean", "u64", "i64", "u8", "u16", "checked_u16", "checked_u32", "float", "kinds", "levels"}
  \subseteq Conversions \cup {"none"}
BY DEF Conversions

\* A field of a loose conversion, or of none, may have any default.
LEMMA LooseIs == \A d : d.file \in Loose \cup {"none"} => IsField(d)
BY Zenon, UsableIs DEF IsField, Loose, Conversions

LEMMA NumberFields ==
  ASSUME NEW n \in Nat, NEW env
  PROVE  /\ n < Limit8 => IsField(Field(n, env, "u8"))
         /\ n < Limit16 => IsField(Field(n, env, "u16")) /\ IsField(Field(n, env, "checked_u16"))
         /\ n < Limit32 => IsField(Field(n, env, "checked_u32"))
<1>1. Limit8 \in Nat /\ Limit16 \in Nat /\ Limit32 \in Nat
  BY DEF Limit8, Limit16, Limit32
<1>2. /\ n < Limit8 => n \in 0..(Limit8 - 1)
      /\ n < Limit16 => n \in 0..(Limit16 - 1)
      /\ n < Limit32 => n \in 0..(Limit32 - 1)
  BY <1>1
<1>3. {"u8", "u16", "checked_u16", "checked_u32"} \subseteq Conversions \cup {"none"}
  BY AnyConversion
<1> QED BY <1>2, <1>3, OneField, UsableIs, Zenon

LEMMA ListFields ==
  ASSUME NEW env
  PROVE  /\ IsField(Field(<<"pulsar">>, env, "kinds"))
         /\ \A s \in Seq(0..(Limit16 - 1)) : IsField(Field(s, env, "levels"))
<1>1. <<"pulsar">> \in Seq(Kinds) /\ <<"pulsar">> # <<>>
  BY DEF Kinds
<1>2. {"kinds", "levels"} \subseteq Conversions \cup {"none"}
  BY AnyConversion
<1> QED BY <1>1, <1>2, OneField, UsableIs, Zenon

AreFields(fields) == \A f \in DOMAIN fields : IsField(fields[f])

LEMMA JoinedFields ==
  ASSUME NEW t, NEW u, AreFields(t), AreFields(u)
  PROVE  AreFields(Joined(t, u))
BY Zenon DEF AreFields, Joined

LEMMA SourceAreFields == AreFields(SourceFields)
<1>1. \A f \in DOMAIN SourceFields :
        SourceFields[f].file \in Loose \cup {"none"} \/ f \in {"socket_port", "metrics_port"}
  BY SMT DEF SourceFields, Field, Loose
<1>2. /\ SourceFields["socket_port"] = Field(SbsPort, TRUE, "u16")
      /\ SourceFields["metrics_port"] = Field(0, TRUE, "checked_u16")
  BY SMT DEF SourceFields
<1>3. SbsPort \in Nat /\ SbsPort < Limit16 /\ 0 < Limit16
  BY DEF SbsPort, Limit16
<1>4. IsField(Field(SbsPort, TRUE, "u16")) /\ IsField(Field(0, TRUE, "checked_u16"))
  BY <1>3, NumberFields, Zenon
<1> QED BY <1>1, <1>2, <1>4, LooseIs, Zenon DEF AreFields

LEMMA LimitAreFields == AreFields(LimitFields)
<1>1. \A f \in DOMAIN LimitFields : LimitFields[f].file \in Loose \cup {"none"}
  BY SMT DEF LimitFields, Field, Loose
<1> QED BY <1>1, LooseIs, Zenon DEF AreFields

LEMMA BackendAreFields == AreFields(BackendFields)
<1>1. \A f \in DOMAIN BackendFields :
        BackendFields[f].file \in Loose \cup {"none"} \/ f \in {"mqtt_port", "forwarders"}
  BY SMT DEF BackendFields, Field, Loose
<1>2. /\ BackendFields["mqtt_port"] = Field(BrokerPort, TRUE, "u16")
      /\ BackendFields["forwarders"] = Field(<<"pulsar">>, FALSE, "kinds")
  BY SMT DEF BackendFields
<1>3. BrokerPort \in Nat /\ BrokerPort < Limit16
  BY DEF BrokerPort, Limit16
<1>4. IsField(Field(BrokerPort, TRUE, "u16")) /\ IsField(Field(<<"pulsar">>, FALSE, "kinds"))
  BY <1>3, NumberFields, ListFields, Zenon
<1> QED BY <1>1, <1>2, <1>4, LooseIs, Zenon DEF AreFields

LEMMA DerivedAreFields == AreFields(DerivedFields)
<1>1. \A f \in DOMAIN DerivedFields : DerivedFields[f].file \in Loose \cup {"none"} \/ f = "mqtt_qos"
  BY SMT DEF DerivedFields, Field, Loose
<1>2. DerivedFields["mqtt_qos"] = Field(0, TRUE, "u8")
  BY SMT DEF DerivedFields
<1>3. 0 < Limit8
  BY DEF Limit8
<1>4. IsField(Field(0, TRUE, "u8"))
  BY <1>3, NumberFields, Zenon
<1> QED BY <1>1, <1>2, <1>4, LooseIs, Zenon DEF AreFields

LEMMA ServerAreFields == AreFields(ServerFields)
<1>1. \A f \in DOMAIN ServerFields :
        ServerFields[f].file \in Loose \cup {"none"} \/ f \in {"mqtt_port", "http_port"}
  BY SMT DEF ServerFields, Field, Loose
<1>2. /\ ServerFields["mqtt_port"] = Field(BrokerPort, TRUE, "u16")
      /\ ServerFields["http_port"] = Field(RecorderPort, TRUE, "u16")
  BY SMT DEF ServerFields
<1>3. BrokerPort \in Nat /\ BrokerPort < Limit16 /\ RecorderPort \in Nat /\ RecorderPort < Limit16
  BY DEF BrokerPort, RecorderPort, Limit16
<1>4. IsField(Field(BrokerPort, TRUE, "u16")) /\ IsField(Field(RecorderPort, TRUE, "u16"))
  BY <1>3, NumberFields, Zenon
<1> QED BY <1>1, <1>2, <1>4, LooseIs, Zenon DEF AreFields

LEMMA WeatherAreFields == AreFields(WeatherFields)
<1>1. \A f \in DOMAIN WeatherFields :
        \/ WeatherFields[f].file \in Loose \cup {"none"}
        \/ f \in {"mqtt_port", "http_port", "levels", "refresh_minutes"}
  BY SMT DEF WeatherFields, Field, Loose
<1>2. /\ WeatherFields["mqtt_port"] = Field(BrokerPort, TRUE, "checked_u16")
      /\ WeatherFields["http_port"] = Field(WeatherPort, TRUE, "checked_u16")
      /\ WeatherFields["levels"] = Field(PressureLevels, TRUE, "levels")
      /\ WeatherFields["refresh_minutes"] = Field(60, TRUE, "checked_u32")
  BY SMT DEF WeatherFields
<1>3. /\ BrokerPort \in Nat /\ BrokerPort < Limit16
      /\ WeatherPort \in Nat /\ WeatherPort < Limit16
      /\ 60 < Limit32
  BY DEF BrokerPort, WeatherPort, Limit16, Limit32
<1>4. PressureLevels \in Seq(0..(Limit16 - 1))
  <2>1. PICK S : S = 0..(Limit16 - 1)
    OBVIOUS
  <2>2. Limit16 \in Nat /\ Limit16 > 1000
    BY DEF Limit16
  <2>3. 850 \in S /\ 700 \in S /\ 500 \in S /\ 300 \in S /\ 250 \in S /\ 200 \in S
    BY ONLY <2>1, <2>2
  <2>4. PressureLevels \in Seq(S)
    BY ONLY <2>3 DEF PressureLevels
  <2> QED BY <2>1, <2>4, Zenon
<1>5. /\ IsField(Field(BrokerPort, TRUE, "checked_u16")) /\ IsField(Field(WeatherPort, TRUE, "checked_u16"))
      /\ IsField(Field(PressureLevels, TRUE, "levels"))
  BY <1>3, <1>4, NumberFields, ListFields, Zenon
<1>6. IsField(Field(60, TRUE, "checked_u32"))
  BY <1>3, NumberFields, Zenon
<1> QED BY <1>1, <1>2, <1>5, <1>6, LooseIs, Zenon DEF AreFields

\* The table of each service is a table.
LEMMA FeedIsTable == IsTable(FeedFields)
<1>1. AreFields(FeedFields)
  BY JoinedFields, SourceAreFields, LimitAreFields, BackendAreFields, DerivedAreFields, Zenon DEF FeedFields
<1>2. /\ BackendFields["forwarders"] = Field(<<"pulsar">>, FALSE, "kinds")
      /\ "forwarders" \in DOMAIN BackendFields
      /\ "forwarders" \notin DOMAIN SourceFields \cup DOMAIN LimitFields
  BY SMT DEF BackendFields, SourceFields, LimitFields
<1>3. FeedFields["forwarders"] = Field(<<"pulsar">>, FALSE, "kinds")
  BY <1>2, Zenon DEF FeedFields, Joined
<1>4. <<"pulsar">> # Unset
  <2>1. <<"pulsar">> \in Seq(Kinds)
    BY DEF Kinds
  <2> QED BY <2>1, SettingsAssumption, Zenon
<1>5. FeedFields["forwarders"].file = "kinds" /\ FeedFields["forwarders"].default # Unset
  BY <1>3, <1>4 DEF Field
<1> QED BY <1>1, <1>5, Zenon DEF AreFields, IsField, IsTable

LEMMA ServerIsTable == IsTable(ServerFields)
<1>1. "forwarders" \notin DOMAIN ServerFields
  BY SMT DEF ServerFields
<1> QED BY <1>1, ServerAreFields, Zenon DEF AreFields, IsField, IsTable

LEMMA WeatherIsTable == IsTable(WeatherFields)
<1>1. "forwarders" \notin DOMAIN WeatherFields
  BY SMT DEF WeatherFields
<1> QED BY <1>1, WeatherAreFields, Zenon DEF AreFields, IsField, IsTable

-----------------------------------------------------------------------------
(* The services of one stack.                                              *)

\* A field that is in one of the tables only.
LEMMA FeedPicks ==
  /\ \A f \in DOMAIN SourceFields : f \in DOMAIN FeedFields /\ FeedFields[f] = SourceFields[f]
  /\ \A f \in DOMAIN LimitFields \ DOMAIN SourceFields : f \in DOMAIN FeedFields /\ FeedFields[f] = LimitFields[f]
  /\ \A f \in DOMAIN BackendFields \ (DOMAIN SourceFields \cup DOMAIN LimitFields) :
       f \in DOMAIN FeedFields /\ FeedFields[f] = BackendFields[f]
  /\ \A f \in DOMAIN DerivedFields \ (DOMAIN SourceFields \cup DOMAIN LimitFields \cup DOMAIN BackendFields) :
       f \in DOMAIN FeedFields /\ FeedFields[f] = DerivedFields[f]
BY Zenon DEF FeedFields, Joined

\* The fields of the feed client that the stack depends on.
FeedUsed == {"source_id", "metrics_port", "pulsar_broker", "recv_buffer_size", "test_mode", "connection_mode",
             "max_line_buffer_size", "forwarders", "mqtt_broker", "mqtt_topic", "mqtt_weather_topic",
             "mqtt_client_id", "mqtt_qos"}

LEMMA FeedValues ==
  /\ FeedUsed \subseteq DOMAIN FeedFields
  /\ FeedFields["source_id"] = Field("kraspberryPi", TRUE, "string")
  /\ FeedFields["metrics_port"] = Field(0, TRUE, "checked_u16")
  /\ FeedFields["pulsar_broker"] = Field("pulsar://", TRUE, "string")
  /\ FeedFields["recv_buffer_size"] = Field(ReceiveBuffer, FALSE, "none")
  /\ FeedFields["test_mode"] = Field(FALSE, FALSE, "none")
  /\ FeedFields["connection_mode"] = Field("client", FALSE, "string")
  /\ FeedFields["max_line_buffer_size"] = Field(LineBuffer, FALSE, "none")
  /\ FeedFields["forwarders"] = Field(<<"pulsar">>, FALSE, "kinds")
  /\ FeedFields["mqtt_broker"] = Field("localhost", TRUE, "string")
  /\ FeedFields["mqtt_topic"] = Field(<<"adsb", "sbs", "raw">>, TRUE, "string")
  /\ FeedFields["mqtt_weather_topic"] = Field(<<>>, TRUE, "string")
  /\ FeedFields["mqtt_client_id"] = Field(NoText, TRUE, "string")
  /\ FeedFields["mqtt_qos"] = Field(0, TRUE, "u8")
<1>1. /\ {"source_id", "metrics_port", "pulsar_broker", "recv_buffer_size"} \subseteq DOMAIN SourceFields
      /\ {"test_mode", "connection_mode", "max_line_buffer_size"} \subseteq DOMAIN LimitFields \ DOMAIN SourceFields
      /\ {"forwarders", "mqtt_broker", "mqtt_topic", "mqtt_weather_topic"}
         \subseteq DOMAIN BackendFields \ (DOMAIN SourceFields \cup DOMAIN LimitFields)
      /\ {"mqtt_client_id", "mqtt_qos"}
         \subseteq DOMAIN DerivedFields \ (DOMAIN SourceFields \cup DOMAIN LimitFields \cup DOMAIN BackendFields)
  BY SMT DEF SourceFields, LimitFields, BackendFields, DerivedFields
<1>2. /\ \A f \in {"source_id", "metrics_port", "pulsar_broker", "recv_buffer_size"} :
           f \in DOMAIN FeedFields /\ FeedFields[f] = SourceFields[f]
      /\ \A f \in {"test_mode", "connection_mode", "max_line_buffer_size"} :
           f \in DOMAIN FeedFields /\ FeedFields[f] = LimitFields[f]
      /\ \A f \in {"forwarders", "mqtt_broker", "mqtt_topic", "mqtt_weather_topic"} :
           f \in DOMAIN FeedFields /\ FeedFields[f] = BackendFields[f]
      /\ \A f \in {"mqtt_client_id", "mqtt_qos"} : f \in DOMAIN FeedFields /\ FeedFields[f] = DerivedFields[f]
  BY <1>1, FeedPicks
<1>3. /\ SourceFields["source_id"] = Field("kraspberryPi", TRUE, "string")
      /\ SourceFields["metrics_port"] = Field(0, TRUE, "checked_u16")
      /\ SourceFields["pulsar_broker"] = Field("pulsar://", TRUE, "string")
      /\ SourceFields["recv_buffer_size"] = Field(ReceiveBuffer, FALSE, "none")
  BY SMT DEF SourceFields
<1>4. /\ LimitFields["test_mode"] = Field(FALSE, FALSE, "none")
      /\ LimitFields["connection_mode"] = Field("client", FALSE, "string")
      /\ LimitFields["max_line_buffer_size"] = Field(LineBuffer, FALSE, "none")
  BY SMT DEF LimitFields
<1>5. /\ BackendFields["forwarders"] = Field(<<"pulsar">>, FALSE, "kinds")
      /\ BackendFields["mqtt_broker"] = Field("localhost", TRUE, "string")
      /\ BackendFields["mqtt_topic"] = Field(<<"adsb", "sbs", "raw">>, TRUE, "string")
      /\ BackendFields["mqtt_weather_topic"] = Field(<<>>, TRUE, "string")
  BY SMT DEF BackendFields
<1>6. DerivedFields["mqtt_client_id"] = Field(NoText, TRUE, "string") /\ DerivedFields["mqtt_qos"] = Field(0, TRUE, "u8")
  BY SMT DEF DerivedFields
<1>7. FeedUsed \subseteq DOMAIN FeedFields
  BY <1>2 DEF FeedUsed
<1> QED BY <1>2, <1>3, <1>4, <1>5, <1>6, <1>7

\* Without flags and environment a field is what the file makes it, or its default.
LEMMA Overlaid ==
  ASSUME NEW fields, NEW toml, NEW f \in DOMAIN fields
  PROVE  /\ f \notin DOMAIN toml => Overlay(fields, <<>>, <<>>, toml)[f] = fields[f].default
         /\ \A x : f \in DOMAIN toml /\ Convert(fields[f].file, toml[f]) = <<x>>
                   => Overlay(fields, <<>>, <<>>, toml)[f] = x
<1>1. DOMAIN <<>> = {}
  OBVIOUS
<1>2. /\ IsDefaulted(fields, f, <<>>, <<>>)
      /\ Parsed(fields, <<>>, <<>>)[f] = fields[f].default
  BY <1>1, Zenon DEF IsDefaulted, Parsed
<1>3. Overlay(fields, <<>>, <<>>, toml)[f] =
        IF FromFile(fields, f, toml) # <<>> THEN FromFile(fields, f, toml)[1] ELSE fields[f].default
  BY <1>2, Zenon DEF Overlay
<1>4. f \notin DOMAIN toml => FromFile(fields, f, toml) = <<>>
  BY Zenon DEF FromFile
<1>5. f \in DOMAIN toml => FromFile(fields, f, toml) = Convert(fields[f].file, toml[f])
  BY Zenon DEF FromFile
<1>6. \A x : <<x>> # <<>> /\ <<x>>[1] = x
  OBVIOUS
<1>7. ASSUME NEW x, f \in DOMAIN toml, Convert(fields[f].file, toml[f]) = <<x>>
      PROVE  Overlay(fields, <<>>, <<>>, toml)[f] = x
  <2>1. FromFile(fields, f, toml) = <<x>>
    BY <1>5, <1>7
  <2> QED BY <1>3, <1>6, <2>1
<1> QED BY <1>3, <1>4, <1>7, Zenon

LEMMA StringConverted == \A x : Convert("string", <<"string", x>>) = <<x>>
BY Conversion DEF Only

LEMMA FloatConverted == \A x : Convert("float", <<"float", x>>) = <<x>>
BY Conversion

LEMMA DefaultsKept == Overlay(FeedFields, <<>>, <<>>, <<>>) = [f \in DOMAIN FeedFields |-> FeedFields[f].default]
<1>1. DOMAIN <<>> = {}
  OBVIOUS
<1>2. \A f \in DOMAIN FeedFields : Overlay(FeedFields, <<>>, <<>>, <<>>)[f] = FeedFields[f].default
  BY <1>1, Overlaid, Zenon
<1>3. PICK c : c = Overlay(FeedFields, <<>>, <<>>, <<>>)
  OBVIOUS
<1>4. c = [f \in DOMAIN FeedFields |-> c[f]]
  BY <1>3, Zenon DEF Overlay
<1> QED BY <1>2, <1>3, <1>4, Zenon

\* The default of a feed's settings is what the command line gives without any.
LEMMA FeedDefaultIs == \A f \in DOMAIN FeedFields : FeedDefault[f] = FeedFields[f].default
<1>1. /\ SourceFields["source_kind"] = Field("socket", TRUE, "none")
      /\ "source_kind" \in DOMAIN SourceFields
  BY SMT DEF SourceFields
<1>2. /\ DerivedFields["weather_api_url"] = Field(NoText, TRUE, "string")
      /\ DerivedFields["receiver_latitude"] = Field(Unset, FALSE, "float")
      /\ DerivedFields["receiver_longitude"] = Field(Unset, FALSE, "float")
      /\ DerivedFields["receiver_altitude"] = Field(Unset, FALSE, "float")
      /\ {"weather_api_url", "receiver_latitude", "receiver_longitude", "receiver_altitude"}
         \subseteq DOMAIN DerivedFields \ (DOMAIN SourceFields \cup DOMAIN LimitFields \cup DOMAIN BackendFields)
  BY SMT DEF SourceFields, LimitFields, BackendFields, DerivedFields
<1>3. \A default, env, conversion : Field(default, env, conversion).default = default
  BY DEF Field
<1>4. /\ FeedFields["source_kind"].default = "socket"
      /\ FeedFields["weather_api_url"].default = NoText
      /\ FeedFields["receiver_latitude"].default = Unset
      /\ FeedFields["receiver_longitude"].default = Unset
      /\ FeedFields["receiver_altitude"].default = Unset
  <2>1. /\ FeedFields["source_kind"] = Field("socket", TRUE, "none")
        /\ FeedFields["weather_api_url"] = Field(NoText, TRUE, "string")
        /\ FeedFields["receiver_latitude"] = Field(Unset, FALSE, "float")
        /\ FeedFields["receiver_longitude"] = Field(Unset, FALSE, "float")
        /\ FeedFields["receiver_altitude"] = Field(Unset, FALSE, "float")
    BY <1>1, <1>2, FeedPicks
  <2> QED BY <2>1 DEF Field
<1>5. /\ FeedFields["test_mode"].default = FALSE
      /\ FeedFields["mqtt_qos"].default = 0
      /\ FeedFields["metrics_port"].default = 0
      /\ FeedFields["mqtt_client_id"].default = NoText
      /\ FeedFields["mqtt_weather_topic"].default = <<>>
  BY FeedValues DEF Field
<1>6. ASSUME NEW f \in DOMAIN FeedFields PROVE FeedDefault[f] = FeedFields[f].default
  <2>1. FeedDefault[f] =
     CASE f = "source_kind" -> "socket"
       [] f \in {"test_mode"} -> FALSE
       [] f \in {"mqtt_qos", "metrics_port"} -> 0
       [] f \in {"weather_api_url", "mqtt_client_id"} -> NoText
       [] f = "mqtt_weather_topic" -> <<>>
       [] f \in {"receiver_latitude", "receiver_longitude", "receiver_altitude"} -> Unset
       [] OTHER -> FeedFields[f].default
    BY Zenon DEF FeedDefault
  <2>2. CASE f = "source_kind"
    BY <1>4, <2>1, <2>2
  <2>3. CASE f = "test_mode"
    BY <1>5, <2>1, <2>3
  <2>4. CASE f \in {"mqtt_qos", "metrics_port"}
    BY <1>5, <2>1, <2>4
  <2>5. CASE f \in {"weather_api_url", "mqtt_client_id"}
    BY <1>4, <1>5, <2>1, <2>5
  <2>6. CASE f = "mqtt_weather_topic"
    BY <1>5, <2>1, <2>6
  <2>7. CASE f \in {"receiver_latitude", "receiver_longitude", "receiver_altitude"}
    BY <1>4, <2>1, <2>7
  <2>8. CASE f \notin {"source_kind", "test_mode", "mqtt_qos", "metrics_port", "weather_api_url", "mqtt_client_id",
                       "mqtt_weather_topic", "receiver_latitude", "receiver_longitude", "receiver_altitude"}
    BY <2>1, <2>8
  <2> QED BY <2>2, <2>3, <2>4, <2>5, <2>6, <2>7, <2>8
<1> QED BY <1>6

(***************************************************************************)
(* Given nothing, the feed client runs on the settings that the desktop    *)
(* and the recorder start from (config.rs, Config::load and Default), and  *)
(* validate() accepts them.                                                *)
(***************************************************************************)
THEOREM DefaultsAreOne == DefaultsAgree
<1>1. DOMAIN FeedDefault = DOMAIN FeedFields /\ FeedDefault = [f \in DOMAIN FeedFields |-> FeedDefault[f]]
  BY Zenon DEF FeedDefault
<1>2. Overlay(FeedFields, <<>>, <<>>, <<>>) = FeedDefault
  BY <1>1, DefaultsKept, FeedDefaultIs, Zenon
<1>3. LoadFeed(<<>>, <<>>, << <<>> >>) = <<FeedDefault>>
  <2>1. << <<>> >> # <<>> /\ << <<>> >>[1] = <<>>
    OBVIOUS
  <2> QED BY <1>2, <2>1, Zenon DEF LoadFeed, Load
<1>4. \A default, env, conversion : Field(default, env, conversion).default = default
  BY DEF Field
<1>5. /\ FeedDefault["source_id"] = "kraspberryPi" /\ FeedDefault["metrics_port"] = 0
      /\ FeedDefault["pulsar_broker"] = "pulsar://" /\ FeedDefault["mqtt_broker"] = "localhost"
      /\ FeedDefault["recv_buffer_size"] = ReceiveBuffer /\ FeedDefault["connection_mode"] = "client"
      /\ FeedDefault["max_line_buffer_size"] = LineBuffer /\ FeedDefault["mqtt_qos"] = 0
      /\ FeedDefault["mqtt_topic"] = <<"adsb", "sbs", "raw">>
  <2>1. /\ "source_id" \in FeedUsed /\ "metrics_port" \in FeedUsed /\ "pulsar_broker" \in FeedUsed
        /\ "mqtt_broker" \in FeedUsed /\ "recv_buffer_size" \in FeedUsed /\ "connection_mode" \in FeedUsed
        /\ "max_line_buffer_size" \in FeedUsed /\ "mqtt_qos" \in FeedUsed /\ "mqtt_topic" \in FeedUsed
    BY DEF FeedUsed
  <2>2. \A f \in FeedUsed : FeedDefault[f] = FeedFields[f].default
    BY FeedValues, FeedDefaultIs, Zenon
  <2>3. /\ FeedFields["source_id"].default = "kraspberryPi" /\ FeedFields["metrics_port"].default = 0
        /\ FeedFields["pulsar_broker"].default = "pulsar://" /\ FeedFields["mqtt_broker"].default = "localhost"
        /\ FeedFields["recv_buffer_size"].default = ReceiveBuffer /\ FeedFields["connection_mode"].default = "client"
        /\ FeedFields["max_line_buffer_size"].default = LineBuffer /\ FeedFields["mqtt_qos"].default = 0
        /\ FeedFields["mqtt_topic"].default = <<"adsb", "sbs", "raw">>
    BY FeedValues DEF Field
  <2> QED BY <2>1, <2>2, <2>3
<1>6. ReceiveBuffer > 0 /\ LineBuffer > 0
  BY DEF ReceiveBuffer, LineBuffer
<1>7. "kraspberryPi" # NoText /\ "localhost" # NoText
  BY Zenon DEF NoText
<1>8. <<"adsb", "sbs", "raw">> # <<>> /\ ~(0 > 0) /\ 0 <= 2
  OBVIOUS
<1>9. ValidFeed(FeedDefault)
  BY <1>5, <1>6, <1>7, <1>8, Zenon DEF ValidFeed
<1> QED BY <1>3, <1>9 DEF DefaultsAgree

\* What is emitted.
LEMMA EmitIs ==
  ASSUME NEW pairs, NEW position
  PROVE  /\ DOMAIN Emit(pairs, position) \subseteq DOMAIN pairs \cup {"receiver_latitude", "receiver_longitude"}
         /\ \A f \in DOMAIN pairs : f \in DOMAIN Emit(pairs, position) /\ Emit(pairs, position)[f] = pairs[f]
         /\ position = Unset => DOMAIN Emit(pairs, position) = DOMAIN pairs
         /\ position # Unset /\ "receiver_latitude" \notin DOMAIN pairs /\ "receiver_longitude" \notin DOMAIN pairs =>
              /\ "receiver_latitude" \in DOMAIN Emit(pairs, position)
              /\ "receiver_longitude" \in DOMAIN Emit(pairs, position)
              /\ Emit(pairs, position)["receiver_latitude"] = <<"float", position>>
              /\ Emit(pairs, position)["receiver_longitude"] = <<"float", position>>
<1> DEFINE here == [receiver_latitude |-> <<"float", position>>, receiver_longitude |-> <<"float", position>>]
           u == IF position = Unset THEN <<>> ELSE here
<1>1. DOMAIN <<>> = {}
  OBVIOUS
<1>2. /\ DOMAIN here = {"receiver_latitude", "receiver_longitude"}
      /\ here["receiver_latitude"] = <<"float", position>>
      /\ here["receiver_longitude"] = <<"float", position>>
  OBVIOUS
<1>3. Emit(pairs, position) = Joined(pairs, u)
  BY Zenon DEF Emit
<1>4. /\ DOMAIN Joined(pairs, u) = DOMAIN pairs \cup DOMAIN u
      /\ \A f \in DOMAIN pairs : Joined(pairs, u)[f] = pairs[f]
      /\ \A f \in DOMAIN u \ DOMAIN pairs : Joined(pairs, u)[f] = u[f]
  BY Zenon DEF Joined
<1>5. (position = Unset => DOMAIN u = {}) /\ (position # Unset => u = here)
  BY <1>1
<1> HIDE DEF here, u
<1> QED BY <1>2, <1>3, <1>4, <1>5

LEMMA RenderedFeed ==
  ASSUME NEW stack
  PROVE  LET toml == RenderFeed(stack) IN
         /\ \A f \in FeedUsed \ {"source_id", "mqtt_topic", "forwarders"} : f \notin DOMAIN toml
         /\ {"source_id", "mqtt_topic", "forwarders"} \subseteq DOMAIN toml
         /\ toml["source_id"] = <<"string", stack.id>>
         /\ toml["mqtt_topic"] = <<"string", stack.topic>>
         /\ toml["forwarders"] = <<"array", <<<<"string", "mqtt">>>> \o
                                   (IF stack.pulsar THEN <<<<"string", "pulsar">>>> ELSE <<>>)>>
<1> DEFINE kinds == <<"array", <<<<"string", "mqtt">>>> \o
                               (IF stack.pulsar THEN <<<<"string", "pulsar">>>> ELSE <<>>)>>
           pairs == [source_id |-> <<"string", stack.id>>, mqtt_topic |-> <<"string", stack.topic>>,
                     forwarders |-> kinds]
<1>1. RenderFeed(stack) = Emit(pairs, stack.position)
  BY Zenon DEF RenderFeed
<1> HIDE DEF kinds
<1>2. /\ DOMAIN pairs = {"source_id", "mqtt_topic", "forwarders"}
      /\ pairs["source_id"] = <<"string", stack.id>>
      /\ pairs["mqtt_topic"] = <<"string", stack.topic>>
      /\ pairs["forwarders"] = kinds
  OBVIOUS
<1> HIDE DEF pairs
<1>3. /\ DOMAIN Emit(pairs, stack.position) \subseteq DOMAIN pairs \cup {"receiver_latitude", "receiver_longitude"}
      /\ \A f \in DOMAIN pairs : f \in DOMAIN Emit(pairs, stack.position) /\ Emit(pairs, stack.position)[f] = pairs[f]
  BY EmitIs, Zenon
<1>4. PICK toml : toml = RenderFeed(stack)
  OBVIOUS
<1>5. /\ DOMAIN toml \subseteq {"source_id", "mqtt_topic", "forwarders", "receiver_latitude", "receiver_longitude"}
      /\ {"source_id", "mqtt_topic", "forwarders"} \subseteq DOMAIN toml
      /\ toml["source_id"] = <<"string", stack.id>>
      /\ toml["mqtt_topic"] = <<"string", stack.topic>>
      /\ toml["forwarders"] = kinds
  BY <1>1, <1>2, <1>3, <1>4
<1>6. \A f \in FeedUsed \ {"source_id", "mqtt_topic", "forwarders"} : f \notin DOMAIN toml
  BY <1>5 DEF FeedUsed
<1> QED BY <1>4, <1>5, <1>6, Zenon DEF kinds

\* The kinds of the rendered forwarders.
LEMMA KindsConverted ==
  ASSUME NEW s \in Seq(Kinds), s # <<>>
  PROVE  Convert("kinds", <<"array", [i \in DOMAIN s |-> <<"string", s[i]>>]>>) = <<s>>
<1> DEFINE pairs == [i \in DOMAIN s |-> <<"string", s[i]>>]
<1>1. pairs \in Seq({"string"} \X Kinds) /\ Len(pairs) = Len(s)
  <2>1. PICK n \in Nat : n = Len(s) /\ DOMAIN s = 1..n /\ \A i \in 1..n : s[i] \in Kinds
    BY LenProperties
  <2>2. \A x \in Kinds : <<"string", x>> \in {"string"} \X Kinds
    OBVIOUS
  <2>3. PICK E : E = {"string"} \X Kinds
    OBVIOUS
  <2>4. pairs \in [1..n -> E]
    BY <2>1, <2>2, <2>3
  <2>5. pairs \in Seq(E)
    BY <2>1, <2>4
  <2>6. DOMAIN pairs = 1..n
    BY <2>1
  <2>7. Len(pairs) = n
    BY <2>1, <2>5, <2>6, LenProperties
  <2> QED BY <2>1, <2>3, <2>5, <2>7
<1>2. Among(pairs, {"string"} \X Kinds) = pairs
  BY <1>1, AmongAll
<1>3. [i \in DOMAIN pairs |-> pairs[i][2]] = s
  BY SMT
<1>4. pairs # <<>>
  BY <1>1
<1> HIDE DEF pairs
<1>5. PICK v : v = <<"array", pairs>>
  OBVIOUS
<1>6. (IF v[1] = "array" THEN v[2] ELSE <<>>) = pairs
  BY <1>5
<1>7. Convert("kinds", v) = <<s>>
  BY <1>2, <1>3, <1>4, <1>6, ListConversion, Zenon
<1> QED BY <1>5, <1>7 DEF pairs

\* A topic as the two copies of the rule see it: its last levels say whether it is the
\* topic of the feed.
IsFeedTopic(topic) == Len(topic) > 2 /\ SubSeq(topic, Len(topic) - 1, Len(topic)) = <<"sbs", "raw">>

LEMMA SameRule ==
  ASSUME NEW T, NEW topic \in Seq(T)
  PROVE  Len(topic) > 2 /\ IsSuffix(<<"sbs", "raw">>, topic) <=> IsFeedTopic(topic)
<1>1. PICK n \in Nat : n = Len(topic)
  BY LenProperties
<1>2. ASSUME n > 2
      PROVE  IsSuffix(<<"sbs", "raw">>, topic) <=> SubSeq(topic, n - 1, n) = <<"sbs", "raw">>
  <2>1. PICK r : r = Reverse(topic)
    OBVIOUS
  <2>2. r = [i \in 1..n |-> topic[n - i + 1]]
    BY <1>1, <2>1 DEF Reverse
  <2>3. r \in Seq(T) /\ Len(r) = n /\ r[1] = topic[n] /\ r[2] = topic[n - 1]
    BY <1>1, <1>2, <2>2
  <2>4. PICK s : s = Reverse(<<"sbs", "raw">>)
    OBVIOUS
  <2>5. s = <<"raw", "sbs">>
    BY <2>4 DEF Reverse
  <2>6. IsSuffix(<<"sbs", "raw">>, topic) <=> IsPrefix(s, r)
    BY <2>1, <2>4 DEF IsSuffix
  <2>7. IsPrefix(s, r) <=> r[1] = "raw" /\ r[2] = "sbs"
    BY <1>2, <2>3, <2>5 DEF IsPrefix
  <2>8. SubSeq(topic, n - 1, n) = <<topic[n - 1], topic[n]>>
    <3>1. \A i \in (n - 1)..n : topic[i] \in T
      BY <1>1, <1>2
    <3>2. PICK b : b = SubSeq(topic, n - 1, n)
      OBVIOUS
    <3>3. /\ b \in Seq(T)
          /\ Len(b) = IF n - 1 <= n THEN n - (n - 1) + 1 ELSE 0
          /\ \A i \in 1..(n - (n - 1) + 1) : b[i] = topic[(n - 1) + i - 1]
      BY <1>1, <3>1, <3>2, SubSeqProperties
    <3>4. Len(b) = 2 /\ b[1] = topic[n - 1] /\ b[2] = topic[n]
      BY <1>2, <3>3
    <3>5. b = [i \in 1..2 |-> b[i]]
      BY <3>3, <3>4
    <3>6. b = <<topic[n - 1], topic[n]>>
      BY <3>4, <3>5
    <3> QED BY <3>2, <3>6
  <2> QED BY <2>3, <2>6, <2>7, <2>8
<1> QED BY <1>1, <1>2 DEF IsFeedTopic

LEMMA StatusEnds ==
  ASSUME NEW T, "status" \in T, NEW grid \in Seq(T)
  PROVE  /\ StatusTopic(grid) \in Seq(T)
         /\ Last(StatusTopic(grid)) = "status"
         /\ ~(Len(grid) > 1 /\ Last(grid) = "grid") => Len(StatusTopic(grid)) = Len(grid) + 1
<1>1. PICK n \in Nat : n = Len(grid)
  BY LenProperties
<1>2. ASSUME NEW g \in Seq(T)
      PROVE  LET s == g \o <<"status">> IN s \in Seq(T) /\ Len(s) = Len(g) + 1 /\ Last(s) = "status"
  <2>1. <<"status">> \in Seq(T) /\ Len(<<"status">>) = 1 /\ <<"status">>[1] = "status"
    OBVIOUS
  <2>2. PICK s : s = g \o <<"status">>
    OBVIOUS
  <2>3. PICK e : e = <<"status">>
    OBVIOUS
  <2>4. /\ s \in Seq(T) /\ Len(s) = Len(g) + Len(e)
        /\ \A i \in 1..(Len(g) + Len(e)) : s[i] = IF i <= Len(g) THEN g[i] ELSE e[i - Len(g)]
    BY <2>1, <2>2, <2>3, ConcatProperties
  <2>5. Len(g) \in Nat
    BY LenProperties
  <2>6. s[Len(g) + 1] = "status" /\ Len(s) = Len(g) + 1
    BY <2>1, <2>3, <2>4, <2>5
  <2> QED BY <2>2, <2>4, <2>6 DEF Last
<1>3. CASE n > 1 /\ Last(grid) = "grid"
  <2>1. \A i \in 1..(n - 1) : grid[i] \in T
    BY <1>1
  <2>2. Front(grid) \in Seq(T)
    BY <1>1, <2>1, SubSeqProperties DEF Front
  <2> QED BY <1>1, <1>2, <1>3, <2>2 DEF StatusTopic
<1>4. CASE ~(n > 1 /\ Last(grid) = "grid")
  BY <1>1, <1>2, <1>4 DEF StatusTopic
<1> QED BY <1>3, <1>4

\* The status of a grid is on a topic of its own.
LEMMA StatusApart ==
  ASSUME NEW T, "status" \in T, NEW grid \in Seq(T)
  PROVE  StatusTopic(grid) # grid
<1>1. CASE Len(grid) > 1 /\ Last(grid) = "grid"
  BY <1>1, StatusEnds
<1>2. CASE ~(Len(grid) > 1 /\ Last(grid) = "grid")
  <2>1. Len(grid) \in Nat
    BY LenProperties
  <2> QED BY <1>2, <2>1, StatusEnds
<1> QED BY <1>1, <1>2

\* What the rule makes of a feed's topic.
LEMMA RenderedTopicIs ==
  ASSUME NEW T, {"weather", "grid", "status"} \subseteq T, NEW topic \in Seq(T)
  PROVE  /\ RenderedTopic(topic) \in Seq(T) /\ RenderedTopic(topic) # <<>>
         /\ StatusTopic(RenderedTopic(topic)) # topic
<1>1. PICK n \in Nat : n = Len(topic)
  BY LenProperties
<1>2. CASE IsFeedTopic(topic)
  <2>1. \A i \in 1..(n - 2) : topic[i] \in T
    BY <1>1
  <2>2. PICK s \in Seq(T) : s = SubSeq(topic, 1, n - 2)
    <3>1. n - 2 \in Int /\ 1 \in Int
      OBVIOUS
    <3>2. SubSeq(topic, 1, n - 2) \in Seq(T)
      BY <2>1, <3>1, SubSeqProperties, Zenon
    <3> QED BY <3>2, Zenon
  <2>3. PICK e \in Seq(T) : e = <<"weather", "grid">> /\ Len(e) = 2
    <3>1. "weather" \in T /\ "grid" \in T
      OBVIOUS
    <3>2. <<"weather", "grid">> \in Seq(T) /\ Len(<<"weather", "grid">>) = 2
      BY <3>1
    <3> QED BY <3>2
  <2>4. RenderedTopic(topic) = s \o e
    BY <1>1, <1>2, <2>2, <2>3 DEF RenderedTopic, IsFeedTopic
  <2>5. s \o e \in Seq(T) /\ Len(s \o e) = Len(s) + 2 /\ Len(s) \in Nat
    BY <2>2, <2>3, ConcatProperties, LenProperties
  <2>6. Last(topic) = "raw"
    <3>1. PICK b : b = SubSeq(topic, n - 1, n)
      OBVIOUS
    <3>2. \A i \in (n - 1)..n : topic[i] \in T
      BY <1>1, <1>2 DEF IsFeedTopic
    <3>3. \A i \in 1..(n - (n - 1) + 1) : b[i] = topic[(n - 1) + i - 1]
      BY <1>1, <3>1, <3>2, SubSeqProperties
    <3>4. b = <<"sbs", "raw">>
      BY <1>1, <1>2, <3>1 DEF IsFeedTopic
    <3>5. b[2] = topic[n]
      BY <3>3
    <3> QED BY <1>1, <3>4, <3>5 DEF Last
  <2>7. Last(StatusTopic(s \o e)) = "status"
    BY <2>5, StatusEnds
  <2> QED BY <2>4, <2>5, <2>6, <2>7
<1>3. CASE ~IsFeedTopic(topic)
  <2>1. PICK e \in Seq(T) : e = <<"weather">> /\ Len(e) = 1 /\ e[1] = "weather"
    <3>1. "weather" \in T
      OBVIOUS
    <3>2. <<"weather">> \in Seq(T) /\ Len(<<"weather">>) = 1 /\ <<"weather">>[1] = "weather"
      BY <3>1
    <3> QED BY <3>2
  <2>2. PICK r : r = topic \o e
    OBVIOUS
  <2>3. RenderedTopic(topic) = r
    BY <1>1, <1>3, <2>1, <2>2 DEF RenderedTopic, IsFeedTopic
  <2>4. /\ r \in Seq(T) /\ Len(r) = n + 1
        /\ \A i \in 1..(n + 1) : r[i] = IF i <= n THEN topic[i] ELSE e[i - n]
    BY <1>1, <2>1, <2>2, ConcatProperties
  <2>5. Last(r) = "weather"
    BY <1>1, <2>1, <2>4 DEF Last
  <2>6. Len(StatusTopic(r)) = n + 2
    BY <1>1, <2>4, <2>5, StatusEnds
  <2> QED BY <1>1, <2>3, <2>4, <2>6
<1> QED BY <1>2, <1>3

LEMMA WeatherTopicIs ==
  ASSUME NEW T, NEW c, c.mqtt_topic \in Seq(T)
  PROVE  WeatherTopic(c) = IF c.mqtt_weather_topic # <<>> THEN c.mqtt_weather_topic
                           ELSE RenderedTopic(c.mqtt_topic)
<1>1. PICK topic \in Seq(T) : topic = c.mqtt_topic
  OBVIOUS
<1>2. Len(topic) > 2 /\ IsSuffix(<<"sbs", "raw">>, topic) <=> IsFeedTopic(topic)
  BY SameRule
<1>3. RenderedTopic(topic) = IF IsFeedTopic(topic) THEN SubSeq(topic, 1, Len(topic) - 2) \o <<"weather", "grid">>
                             ELSE topic \o <<"weather">>
  BY Zenon DEF RenderedTopic, IsFeedTopic
<1>4. WeatherTopic(c) =
        IF c.mqtt_weather_topic # <<>> THEN c.mqtt_weather_topic
        ELSE IF Len(topic) > 2 /\ IsSuffix(<<"sbs", "raw">>, topic)
             THEN SubSeq(topic, 1, Len(topic) - 2) \o <<"weather", "grid">> ELSE topic \o <<"weather">>
  BY <1>1, Zenon DEF WeatherTopic
<1> QED BY <1>1, <1>2, <1>3, <1>4, Zenon

LEMMA TwoTogether ==
  ASSUME NEW a, NEW b
  PROVE  <<a>> \o <<b>> = <<a, b>>
<1>1. PICK S : S = {a, b}
  OBVIOUS
<1>2. PICK c : c = <<a>> \o <<b>>
  OBVIOUS
<1>0. a \in S /\ b \in S
  BY <1>1
<1>3. PICK x \in Seq(S) : x = <<a>> /\ Len(x) = 1 /\ x[1] = a
  <2>1. <<a>> \in Seq(S) /\ Len(<<a>>) = 1 /\ <<a>>[1] = a
    BY <1>0
  <2> QED BY <2>1
<1>4. PICK y \in Seq(S) : y = <<b>> /\ Len(y) = 1 /\ y[1] = b
  <2>1. <<b>> \in Seq(S) /\ Len(<<b>>) = 1 /\ <<b>>[1] = b
    BY <1>0
  <2> QED BY <2>1
<1>5. /\ c \in Seq(S) /\ Len(c) = Len(x) + Len(y)
      /\ \A i \in 1..(Len(x) + Len(y)) : c[i] = IF i <= Len(x) THEN x[i] ELSE y[i - Len(x)]
  BY <1>2, <1>3, <1>4, ConcatProperties
<1>6. Len(c) = 2 /\ c[1] = a /\ c[2] = b
  BY <1>3, <1>4, <1>5
<1>7. c = [i \in 1..2 |-> c[i]]
  <2>1. c \in Seq(S)
    BY <1>5
  <2> QED BY ONLY <1>6, <2>1
<1>8. c = <<a, b>>
  BY <1>6, <1>7
<1> QED BY <1>2, <1>8

\* What the services of a stack load.
LEMMA FeedLoads ==
  ASSUME NEW stack, NEW feed, feed = LoadFeed(<<>>, <<>>, <<RenderFeed(stack)>>)[1]
  PROVE
         /\ feed["source_id"] = stack.id /\ feed["mqtt_topic"] = stack.topic
         /\ feed["forwarders"] = IF stack.pulsar THEN <<"mqtt", "pulsar">> ELSE <<"mqtt">>
         /\ feed["mqtt_weather_topic"] = <<>> /\ feed["mqtt_client_id"] = NoText
         /\ feed["metrics_port"] = 0 /\ feed["pulsar_broker"] = "pulsar://" /\ feed["mqtt_broker"] = "localhost"
         /\ feed["mqtt_qos"] = 0 /\ feed["connection_mode"] = "client" /\ feed["test_mode"] = FALSE
         /\ feed["recv_buffer_size"] = ReceiveBuffer /\ feed["max_line_buffer_size"] = LineBuffer
<1>1. PICK toml : toml = RenderFeed(stack)
  OBVIOUS
<1>2. feed = Overlay(FeedFields, <<>>, <<>>, toml)
  <2>1. <<toml>> # <<>> /\ <<toml>>[1] = toml /\ \A c : <<c>>[1] = c
    OBVIOUS
  <2>2. LoadFeed(<<>>, <<>>, <<toml>>)[1] = Overlay(FeedFields, <<>>, <<>>, toml)
    BY <2>1, Zenon DEF LoadFeed, Load
  <2> QED BY <1>1, <2>2, Zenon
<1>4. /\ \A f \in FeedUsed \ {"source_id", "mqtt_topic", "forwarders"} : f \notin DOMAIN toml
      /\ {"source_id", "mqtt_topic", "forwarders"} \subseteq DOMAIN toml
      /\ toml["source_id"] = <<"string", stack.id>>
      /\ toml["mqtt_topic"] = <<"string", stack.topic>>
      /\ toml["forwarders"] = <<"array", <<<<"string", "mqtt">>>> \o
                                (IF stack.pulsar THEN <<<<"string", "pulsar">>>> ELSE <<>>)>>
  BY <1>1, RenderedFeed, Zenon
<1>5. \A f \in FeedUsed \ {"source_id", "mqtt_topic", "forwarders"} : feed[f] = FeedFields[f].default
  <2>1. FeedUsed \subseteq DOMAIN FeedFields
    BY FeedValues, Zenon
  <2>2. \A f \in FeedUsed \ {"source_id", "mqtt_topic", "forwarders"} :
          Overlay(FeedFields, <<>>, <<>>, toml)[f] = FeedFields[f].default
    BY <1>4, <2>1, Overlaid, Zenon
  <2> QED BY <1>2, <2>2
<1>6. \A f \in FeedUsed : \A x : f \in DOMAIN toml /\ Convert(FeedFields[f].file, toml[f]) = <<x>> => feed[f] = x
  <2>1. ASSUME NEW f \in FeedUsed, NEW x, f \in DOMAIN toml, Convert(FeedFields[f].file, toml[f]) = <<x>>
        PROVE  feed[f] = x
    <3>1. f \in DOMAIN FeedFields
      BY FeedValues, Zenon
    <3>2. Overlay(FeedFields, <<>>, <<>>, toml)[f] = x
      BY <2>1, <3>1, Overlaid, Zenon
    <3> QED BY <1>2, <3>2
  <2> QED BY <2>1, Zenon
<1>7. FeedFields["source_id"].file = "string" /\ FeedFields["mqtt_topic"].file = "string"
      /\ FeedFields["forwarders"].file = "kinds"
  BY FeedValues DEF Field
<1>8. "source_id" \in FeedUsed /\ "mqtt_topic" \in FeedUsed /\ "forwarders" \in FeedUsed
  BY DEF FeedUsed
<1>9. Convert("string", toml["source_id"]) = <<stack.id>> /\ Convert("string", toml["mqtt_topic"]) = <<stack.topic>>
  BY <1>4, StringConverted, Zenon
<1>10. feed["source_id"] = stack.id /\ feed["mqtt_topic"] = stack.topic
  <2>1. "source_id" \in DOMAIN toml /\ "mqtt_topic" \in DOMAIN toml
    BY <1>4
  <2> QED BY <1>6, <1>7, <1>8, <1>9, <2>1, Zenon
<1>11. "mqtt" \in Kinds /\ "pulsar" \in Kinds
  BY DEF Kinds
<1>12. feed["forwarders"] = IF stack.pulsar THEN <<"mqtt", "pulsar">> ELSE <<"mqtt">>
  <2>1. "forwarders" \in DOMAIN toml
    BY <1>4
  <2>2. ASSUME NEW s \in Seq(Kinds), s # <<>>,
               toml["forwarders"] = <<"array", [i \in DOMAIN s |-> <<"string", s[i]>>]>>
        PROVE  feed["forwarders"] = s
    <3>1. Convert("kinds", toml["forwarders"]) = <<s>>
      BY <2>2, KindsConverted, Zenon
    <3> QED BY <1>6, <1>7, <1>8, <2>1, <3>1, Zenon
  <2>3. CASE stack.pulsar
    <3>1. PICK s \in Seq(Kinds) : s = <<"mqtt", "pulsar">> /\ s # <<>>
      <4>1. <<"mqtt", "pulsar">> \in Seq(Kinds) /\ <<"mqtt", "pulsar">> # <<>>
        BY <1>11
      <4> QED BY <4>1
    <3>2. <<<<"string", "mqtt">>>> \o <<<<"string", "pulsar">>>> = <<<<"string", "mqtt">>, <<"string", "pulsar">>>>
      BY TwoTogether, Zenon
    <3>3. [i \in DOMAIN s |-> <<"string", s[i]>>] = <<<<"string", "mqtt">>, <<"string", "pulsar">>>>
      BY <3>1
    <3>4. toml["forwarders"] = <<"array", [i \in DOMAIN s |-> <<"string", s[i]>>]>>
      BY <1>4, <2>3, <3>2, <3>3
    <3> QED BY <2>2, <2>3, <3>1, <3>4
  <2>4. CASE ~stack.pulsar
    <3>1. PICK s \in Seq(Kinds) : s = <<"mqtt">> /\ s # <<>>
      <4>1. <<"mqtt">> \in Seq(Kinds) /\ <<"mqtt">> # <<>>
        BY <1>11
      <4> QED BY <4>1
    <3>2. <<<<"string", "mqtt">>>> \o <<>> = <<<<"string", "mqtt">>>>
      OBVIOUS
    <3>3. [i \in DOMAIN s |-> <<"string", s[i]>>] = <<<<"string", "mqtt">>>>
      BY <3>1
    <3>4. toml["forwarders"] = <<"array", [i \in DOMAIN s |-> <<"string", s[i]>>]>>
      BY <1>4, <2>4, <3>2, <3>3
    <3> QED BY <2>2, <2>4, <3>1, <3>4
  <2> QED BY <2>3, <2>4
<1>13. /\ feed["mqtt_weather_topic"] = <<>> /\ feed["mqtt_client_id"] = NoText
       /\ feed["metrics_port"] = 0 /\ feed["pulsar_broker"] = "pulsar://" /\ feed["mqtt_broker"] = "localhost"
       /\ feed["mqtt_qos"] = 0 /\ feed["connection_mode"] = "client" /\ feed["test_mode"] = FALSE
       /\ feed["recv_buffer_size"] = ReceiveBuffer /\ feed["max_line_buffer_size"] = LineBuffer
  <2>1. /\ FeedFields["mqtt_weather_topic"].default = <<>> /\ FeedFields["mqtt_client_id"].default = NoText
        /\ FeedFields["metrics_port"].default = 0 /\ FeedFields["pulsar_broker"].default = "pulsar://"
        /\ FeedFields["mqtt_broker"].default = "localhost" /\ FeedFields["mqtt_qos"].default = 0
        /\ FeedFields["connection_mode"].default = "client" /\ FeedFields["test_mode"].default = FALSE
        /\ FeedFields["recv_buffer_size"].default = ReceiveBuffer
        /\ FeedFields["max_line_buffer_size"].default = LineBuffer
    BY FeedValues DEF Field
  <2>2. {"mqtt_weather_topic", "mqtt_client_id", "metrics_port", "pulsar_broker", "mqtt_broker", "mqtt_qos",
         "connection_mode", "test_mode", "recv_buffer_size", "max_line_buffer_size"}
        \subseteq FeedUsed \ {"source_id", "mqtt_topic", "forwarders"}
    BY DEF FeedUsed
  <2> QED BY <1>5, <2>1, <2>2
<1> QED BY <1>10, <1>12, <1>13, Zenon

LEMMA ServerLoads ==
  ASSUME NEW stack
  PROVE  LET server == LoadServer(<<>>, <<>>, <<RenderServer(stack)>>)[1] IN
         /\ server["source_id"] = stack.id /\ server["mqtt_topic"] = stack.topic
         /\ server["mqtt_weather_topic"] = RenderedWeatherTopic(stack)
         /\ server["retention_hours"] = 0 /\ server["checkpoint_secs"] = 300
         /\ server["mqtt_broker"] = "localhost"
<1> DEFINE pairs == [source_id |-> <<"string", stack.id>>, mqtt_topic |-> <<"string", stack.topic>>,
                     mqtt_weather_topic |-> <<"string", RenderedWeatherTopic(stack)>>,
                     retention_hours |-> <<"integer", 0>>]
<1>1. PICK toml : toml = RenderServer(stack)
  OBVIOUS
<1>2. PICK server : server = Overlay(ServerFields, <<>>, <<>>, toml)
  OBVIOUS
<1>3. LoadServer(<<>>, <<>>, <<toml>>)[1] = server
  <2>1. <<toml>> # <<>> /\ <<toml>>[1] = toml /\ <<server>>[1] = server
    OBVIOUS
  <2> QED BY <1>2, <2>1, Zenon DEF LoadServer, Load
<1>4. /\ DOMAIN pairs = {"source_id", "mqtt_topic", "mqtt_weather_topic", "retention_hours"}
      /\ pairs["source_id"] = <<"string", stack.id>>
      /\ pairs["mqtt_topic"] = <<"string", stack.topic>>
      /\ pairs["mqtt_weather_topic"] = <<"string", RenderedWeatherTopic(stack)>>
      /\ pairs["retention_hours"] = <<"integer", 0>>
  OBVIOUS
<1>5. RenderServer(stack) = Emit(pairs, Unset)
  BY Zenon DEF RenderServer
<1> HIDE DEF pairs
<1>6. /\ DOMAIN Emit(pairs, Unset) = DOMAIN pairs
      /\ \A f \in DOMAIN pairs : Emit(pairs, Unset)[f] = pairs[f]
  BY EmitIs, Zenon
<1>7. /\ DOMAIN toml = {"source_id", "mqtt_topic", "mqtt_weather_topic", "retention_hours"}
      /\ toml["source_id"] = <<"string", stack.id>>
      /\ toml["mqtt_topic"] = <<"string", stack.topic>>
      /\ toml["mqtt_weather_topic"] = <<"string", RenderedWeatherTopic(stack)>>
      /\ toml["retention_hours"] = <<"integer", 0>>
  BY <1>1, <1>4, <1>5, <1>6
<1>8. /\ {"source_id", "mqtt_topic", "mqtt_weather_topic", "retention_hours", "checkpoint_secs", "mqtt_broker"}
         \subseteq DOMAIN ServerFields
      /\ ServerFields["source_id"] = Field("adsb-edge", TRUE, "string")
      /\ ServerFields["mqtt_topic"] = Field(<<"adsb", "sbs", "raw">>, TRUE, "string")
      /\ ServerFields["mqtt_weather_topic"] = Field(<<>>, TRUE, "string")
      /\ ServerFields["retention_hours"] = Field(0, TRUE, "u64")
      /\ ServerFields["checkpoint_secs"] = Field(300, TRUE, "u64")
      /\ ServerFields["mqtt_broker"] = Field("localhost", TRUE, "string")
  BY SMT DEF ServerFields
<1>9. /\ ServerFields["source_id"].file = "string" /\ ServerFields["mqtt_topic"].file = "string"
      /\ ServerFields["mqtt_weather_topic"].file = "string" /\ ServerFields["retention_hours"].file = "u64"
  BY <1>8 DEF Field
<1>10. ASSUME NEW f \in DOMAIN ServerFields, NEW x, f \in DOMAIN toml, Convert(ServerFields[f].file, toml[f]) = <<x>>
       PROVE  server[f] = x
  <2>1. Overlay(ServerFields, <<>>, <<>>, toml)[f] = x
    BY <1>10, Overlaid, Zenon
  <2> QED BY <1>2, <2>1
<1>11. \A f \in DOMAIN ServerFields : f \notin DOMAIN toml => server[f] = ServerFields[f].default
  <2>1. \A f \in DOMAIN ServerFields :
          f \notin DOMAIN toml => Overlay(ServerFields, <<>>, <<>>, toml)[f] = ServerFields[f].default
    BY Overlaid, Zenon
  <2> QED BY <1>2, <2>1
<1>12. "checkpoint_secs" \notin DOMAIN toml /\ "mqtt_broker" \notin DOMAIN toml
  BY <1>7
<1>13. server["checkpoint_secs"] = 300 /\ server["mqtt_broker"] = "localhost"
  <2>1. ServerFields["checkpoint_secs"].default = 300 /\ ServerFields["mqtt_broker"].default = "localhost"
    BY <1>8 DEF Field
  <2> QED BY <1>8, <1>11, <1>12, <2>1
<1>14. /\ Convert("string", toml["source_id"]) = <<stack.id>>
       /\ Convert("string", toml["mqtt_topic"]) = <<stack.topic>>
       /\ Convert("string", toml["mqtt_weather_topic"]) = <<RenderedWeatherTopic(stack)>>
  BY <1>7, StringConverted, Zenon
<1>15. Convert("u64", toml["retention_hours"]) = <<0>>
  <2>1. Convert("u64", toml["retention_hours"]) = Only("integer", toml["retention_hours"])
    BY Conversion, Zenon
  <2> QED BY <1>7, <2>1 DEF Only
<1>16. /\ "source_id" \in DOMAIN toml /\ "source_id" \in DOMAIN ServerFields
       /\ "mqtt_topic" \in DOMAIN toml /\ "mqtt_topic" \in DOMAIN ServerFields
       /\ "mqtt_weather_topic" \in DOMAIN toml /\ "mqtt_weather_topic" \in DOMAIN ServerFields
       /\ "retention_hours" \in DOMAIN toml /\ "retention_hours" \in DOMAIN ServerFields
  BY <1>7, <1>8
<1>17. server["source_id"] = stack.id
  BY <1>9, <1>10, <1>14, <1>16, Zenon
<1>18. server["mqtt_topic"] = stack.topic
  BY <1>9, <1>10, <1>14, <1>16, Zenon
<1>19. server["mqtt_weather_topic"] = RenderedWeatherTopic(stack)
  BY <1>9, <1>10, <1>14, <1>16, Zenon
<1>20. server["retention_hours"] = 0
  BY <1>9, <1>10, <1>15, <1>16, Zenon
<1> QED BY <1>1, <1>3, <1>13, <1>17, <1>18, <1>19, <1>20, Zenon

LEMMA WeatherLoads ==
  ASSUME NEW stack, NEW fetcher, fetcher = LoadWeather(<<>>, <<>>, <<RenderWeather(stack)>>)[1]
  PROVE  /\ fetcher["source_id"] = stack.id /\ fetcher["mqtt_topic"] = RenderedWeatherTopic(stack)
         /\ fetcher["receiver_latitude"] = stack.position /\ fetcher["receiver_longitude"] = stack.position
         /\ fetcher["refresh_minutes"] = 60 /\ fetcher["levels"] = PressureLevels
         /\ fetcher["model"] = "best_match" /\ fetcher["http_bind"] = "127.0.0.1"
<1> DEFINE pairs == [source_id |-> <<"string", stack.id>>, mqtt_topic |-> <<"string", RenderedWeatherTopic(stack)>>]
<1>1. PICK toml : toml = RenderWeather(stack)
  OBVIOUS
<1>2. fetcher = Overlay(WeatherFields, <<>>, <<>>, toml)
  <2>1. <<toml>> # <<>> /\ <<toml>>[1] = toml /\ \A c : <<c>>[1] = c
    OBVIOUS
  <2>2. LoadWeather(<<>>, <<>>, <<toml>>)[1] = Overlay(WeatherFields, <<>>, <<>>, toml)
    BY <2>1, Zenon DEF LoadWeather, Load
  <2> QED BY <1>1, <2>2, Zenon
<1>4. /\ DOMAIN pairs = {"source_id", "mqtt_topic"}
      /\ pairs["source_id"] = <<"string", stack.id>>
      /\ pairs["mqtt_topic"] = <<"string", RenderedWeatherTopic(stack)>>
  OBVIOUS
<1>5. RenderWeather(stack) = Emit(pairs, stack.position)
  BY Zenon DEF RenderWeather
<1> HIDE DEF pairs
<1>6. /\ DOMAIN toml \subseteq {"source_id", "mqtt_topic", "receiver_latitude", "receiver_longitude"}
      /\ {"source_id", "mqtt_topic"} \subseteq DOMAIN toml
      /\ toml["source_id"] = <<"string", stack.id>>
      /\ toml["mqtt_topic"] = <<"string", RenderedWeatherTopic(stack)>>
  <2>1. /\ DOMAIN Emit(pairs, stack.position) \subseteq DOMAIN pairs \cup {"receiver_latitude", "receiver_longitude"}
        /\ \A f \in DOMAIN pairs : f \in DOMAIN Emit(pairs, stack.position)
                                   /\ Emit(pairs, stack.position)[f] = pairs[f]
    BY EmitIs, Zenon
  <2> QED BY <1>1, <1>4, <1>5, <2>1
<1>7. IF stack.position = Unset
      THEN "receiver_latitude" \notin DOMAIN toml /\ "receiver_longitude" \notin DOMAIN toml
      ELSE /\ "receiver_latitude" \in DOMAIN toml /\ "receiver_longitude" \in DOMAIN toml
           /\ toml["receiver_latitude"] = <<"float", stack.position>>
           /\ toml["receiver_longitude"] = <<"float", stack.position>>
  <2>1. "receiver_latitude" \notin DOMAIN pairs /\ "receiver_longitude" \notin DOMAIN pairs
    BY <1>4
  <2>2. stack.position = Unset => DOMAIN Emit(pairs, stack.position) = DOMAIN pairs
    BY EmitIs, Zenon
  <2>3. stack.position # Unset =>
          /\ "receiver_latitude" \in DOMAIN Emit(pairs, stack.position)
          /\ "receiver_longitude" \in DOMAIN Emit(pairs, stack.position)
          /\ Emit(pairs, stack.position)["receiver_latitude"] = <<"float", stack.position>>
          /\ Emit(pairs, stack.position)["receiver_longitude"] = <<"float", stack.position>>
    BY <2>1, EmitIs, Zenon
  <2> QED BY <1>1, <1>5, <2>1, <2>2, <2>3, Zenon
<1>8. /\ {"source_id", "mqtt_topic", "receiver_latitude", "receiver_longitude", "refresh_minutes", "levels", "model",
          "http_bind"} \subseteq DOMAIN WeatherFields
      /\ WeatherFields["source_id"] = Field("adsb-edge", TRUE, "string")
      /\ WeatherFields["mqtt_topic"] = Field(<<"adsb", "weather", "grid">>, TRUE, "string")
      /\ WeatherFields["receiver_latitude"] = Field(Unset, TRUE, "float")
      /\ WeatherFields["receiver_longitude"] = Field(Unset, TRUE, "float")
      /\ WeatherFields["refresh_minutes"] = Field(60, TRUE, "checked_u32")
      /\ WeatherFields["levels"] = Field(PressureLevels, TRUE, "levels")
      /\ WeatherFields["model"] = Field("best_match", TRUE, "string")
      /\ WeatherFields["http_bind"] = Field("127.0.0.1", TRUE, "string")
  BY SMT DEF WeatherFields
<1>9. /\ WeatherFields["source_id"].file = "string" /\ WeatherFields["mqtt_topic"].file = "string"
      /\ WeatherFields["receiver_latitude"].file = "float" /\ WeatherFields["receiver_longitude"].file = "float"
  BY <1>8 DEF Field
<1>10. ASSUME NEW f \in DOMAIN WeatherFields, NEW x, f \in DOMAIN toml, Convert(WeatherFields[f].file, toml[f]) = <<x>>
       PROVE  fetcher[f] = x
  <2>1. Overlay(WeatherFields, <<>>, <<>>, toml)[f] = x
    BY <1>10, Overlaid, Zenon
  <2> QED BY <1>2, <2>1
<1>11. \A f \in DOMAIN WeatherFields : f \notin DOMAIN toml => fetcher[f] = WeatherFields[f].default
  <2>1. \A f \in DOMAIN WeatherFields :
          f \notin DOMAIN toml => Overlay(WeatherFields, <<>>, <<>>, toml)[f] = WeatherFields[f].default
    BY Overlaid, Zenon
  <2> QED BY <1>2, <2>1
<1>12. /\ fetcher["refresh_minutes"] = 60 /\ fetcher["levels"] = PressureLevels
       /\ fetcher["model"] = "best_match" /\ fetcher["http_bind"] = "127.0.0.1"
  <2>1. /\ "refresh_minutes" \notin DOMAIN toml /\ "levels" \notin DOMAIN toml
        /\ "model" \notin DOMAIN toml /\ "http_bind" \notin DOMAIN toml
    BY <1>6
  <2>2. /\ WeatherFields["refresh_minutes"].default = 60 /\ WeatherFields["levels"].default = PressureLevels
        /\ WeatherFields["model"].default = "best_match" /\ WeatherFields["http_bind"].default = "127.0.0.1"
    BY <1>8 DEF Field
  <2>3. /\ "refresh_minutes" \in DOMAIN WeatherFields /\ "levels" \in DOMAIN WeatherFields
        /\ "model" \in DOMAIN WeatherFields /\ "http_bind" \in DOMAIN WeatherFields
    BY <1>8
  <2>4. /\ fetcher["refresh_minutes"] = WeatherFields["refresh_minutes"].default
        /\ fetcher["levels"] = WeatherFields["levels"].default
        /\ fetcher["model"] = WeatherFields["model"].default
        /\ fetcher["http_bind"] = WeatherFields["http_bind"].default
    BY <1>11, <2>1, <2>3, Zenon
  <2> QED BY <2>2, <2>4
<1>13. /\ Convert("string", toml["source_id"]) = <<stack.id>>
       /\ Convert("string", toml["mqtt_topic"]) = <<RenderedWeatherTopic(stack)>>
  BY <1>6, StringConverted, Zenon
<1>14. /\ "source_id" \in DOMAIN toml /\ "source_id" \in DOMAIN WeatherFields
       /\ "mqtt_topic" \in DOMAIN toml /\ "mqtt_topic" \in DOMAIN WeatherFields
       /\ "receiver_latitude" \in DOMAIN WeatherFields /\ "receiver_longitude" \in DOMAIN WeatherFields
  BY <1>6, <1>8
<1>15. fetcher["source_id"] = stack.id
  <2>1. "source_id" \in DOMAIN WeatherFields /\ "source_id" \in DOMAIN toml
        /\ Convert(WeatherFields["source_id"].file, toml["source_id"]) = <<stack.id>>
    BY <1>9, <1>13, <1>14
  <2> QED BY <1>10, <2>1, Zenon
<1>16. fetcher["mqtt_topic"] = RenderedWeatherTopic(stack)
  <2>1. "mqtt_topic" \in DOMAIN WeatherFields /\ "mqtt_topic" \in DOMAIN toml
        /\ Convert(WeatherFields["mqtt_topic"].file, toml["mqtt_topic"]) = <<RenderedWeatherTopic(stack)>>
    BY <1>9, <1>13, <1>14
  <2> QED BY <1>10, <2>1, Zenon
<1>17. fetcher["receiver_latitude"] = stack.position /\ fetcher["receiver_longitude"] = stack.position
  <2>1. CASE stack.position = Unset
    <3>1. "receiver_latitude" \notin DOMAIN toml /\ "receiver_longitude" \notin DOMAIN toml
      BY <1>7, <2>1
    <3>2. WeatherFields["receiver_latitude"].default = Unset /\ WeatherFields["receiver_longitude"].default = Unset
      BY <1>8 DEF Field
    <3>3. /\ fetcher["receiver_latitude"] = WeatherFields["receiver_latitude"].default
          /\ fetcher["receiver_longitude"] = WeatherFields["receiver_longitude"].default
      BY <1>11, <1>14, <3>1, Zenon
    <3> QED BY <2>1, <3>2, <3>3
  <2>2. CASE stack.position # Unset
    <3>1. Convert("float", toml["receiver_latitude"]) = <<stack.position>>
          /\ Convert("float", toml["receiver_longitude"]) = <<stack.position>>
      BY <1>7, <2>2, FloatConverted, Zenon
    <3>2. "receiver_latitude" \in DOMAIN toml /\ "receiver_longitude" \in DOMAIN toml
      BY <1>7, <2>2
    <3>3. /\ Convert(WeatherFields["receiver_latitude"].file, toml["receiver_latitude"]) = <<stack.position>>
          /\ Convert(WeatherFields["receiver_longitude"].file, toml["receiver_longitude"]) = <<stack.position>>
      BY <1>9, <3>1
    <3> QED BY <1>10, <1>14, <3>2, <3>3, Zenon
  <2> QED BY <2>1, <2>2
<1> QED BY <1>12, <1>15, <1>16, <1>17

\* What is rendered for a stack is accepted by the services.
LEMMA FeedRuns ==
  ASSUME NEW stack, stack.id # NoText, stack.topic # <<>>, stack.pulsar \in BOOLEAN
  PROVE  LET feed == LoadFeed(<<>>, <<>>, <<RenderFeed(stack)>>)[1] IN
         HasKind(feed, "mqtt") /\ (HasKind(feed, "pulsar") <=> stack.pulsar) /\ FeedOutcome(<<feed>>, FALSE) = "runs"
<1>1. PICK feed : feed = LoadFeed(<<>>, <<>>, <<RenderFeed(stack)>>)[1]
  OBVIOUS
<1>2. /\ feed["source_id"] = stack.id /\ feed["mqtt_topic"] = stack.topic
      /\ feed["forwarders"] = IF stack.pulsar THEN <<"mqtt", "pulsar">> ELSE <<"mqtt">>
      /\ feed["mqtt_weather_topic"] = <<>> /\ feed["mqtt_client_id"] = NoText
      /\ feed["metrics_port"] = 0 /\ feed["pulsar_broker"] = "pulsar://" /\ feed["mqtt_broker"] = "localhost"
      /\ feed["mqtt_qos"] = 0 /\ feed["connection_mode"] = "client" /\ feed["test_mode"] = FALSE
      /\ feed["recv_buffer_size"] = ReceiveBuffer /\ feed["max_line_buffer_size"] = LineBuffer
  BY <1>1, FeedLoads, ZenonT(60)
<1>3. HasKind(feed, "mqtt") /\ (HasKind(feed, "pulsar") <=> stack.pulsar)
  <2>1. PICK kinds : kinds = feed.forwarders /\ kinds = IF stack.pulsar THEN <<"mqtt", "pulsar">> ELSE <<"mqtt">>
    BY <1>2
  <2>2. (\E i \in DOMAIN kinds : kinds[i] = "mqtt") /\ ((\E i \in DOMAIN kinds : kinds[i] = "pulsar") <=> stack.pulsar)
    <3>1. CASE stack.pulsar
      <4>1. DOMAIN kinds = 1..2 /\ kinds[1] = "mqtt" /\ kinds[2] = "pulsar"
        BY <2>1, <3>1
      <4> QED BY <3>1, <4>1
    <3>2. CASE ~stack.pulsar
      <4>1. DOMAIN kinds = 1..1 /\ kinds[1] = "mqtt"
        BY <2>1, <3>2
      <4> QED BY <3>2, <4>1
    <3> QED BY <3>1, <3>2
  <2> QED BY <2>1, <2>2, Zenon DEF HasKind
<1>4. ReceiveBuffer > 0 /\ LineBuffer > 0
  BY DEF ReceiveBuffer, LineBuffer
<1>5. "localhost" # NoText
  BY Zenon DEF NoText
<1>6. ~(0 > 0) /\ 0 <= 2
  OBVIOUS
<1>7. ValidFeed(feed)
  BY <1>2, <1>4, <1>5, <1>6, Zenon DEF ValidFeed
<1>8. Forwarders(feed) # <<>> /\ Divides(feed) = 1
  <2>1. Forwarders(feed) = feed.forwarders /\ Divides(feed) = 1
    BY <1>2, Zenon DEF Forwarders, Divides
  <2>2. feed.forwarders # <<>>
    <3>1. <<"mqtt", "pulsar">> # <<>> /\ <<"mqtt">> # <<>>
      OBVIOUS
    <3>2. feed.forwarders = IF stack.pulsar THEN <<"mqtt", "pulsar">> ELSE <<"mqtt">>
      BY <1>2
    <3> QED BY <3>1, <3>2, Zenon
  <2> QED BY <2>1, <2>2
<1>9. PICK loaded : loaded = <<feed>> /\ loaded # <<>> /\ loaded[1] = feed
  <2>1. <<feed>> # <<>> /\ <<feed>>[1] = feed
    OBVIOUS
  <2> QED BY <2>1, Zenon
<1>10. ~(Divides(feed) = 0)
  BY <1>8
<1>11. FeedOutcome(loaded, FALSE) = "runs"
  BY <1>7, <1>8, <1>9, <1>10, Zenon DEF FeedOutcome
<1> QED BY <1>1, <1>3, <1>9, <1>11, Zenon

LEMMA WeatherRuns ==
  ASSUME NEW stack
  PROVE  LET fetcher == LoadWeather(<<>>, <<>>, <<RenderWeather(stack)>>)[1] IN
         WeatherOutcome(<<fetcher>>, FALSE, TRUE) = "runs" <=> stack.position # Unset
<1>1. PICK fetcher : fetcher = LoadWeather(<<>>, <<>>, <<RenderWeather(stack)>>)[1]
  OBVIOUS
<1>2. /\ fetcher["receiver_latitude"] = stack.position /\ fetcher["receiver_longitude"] = stack.position
      /\ fetcher["refresh_minutes"] = 60 /\ fetcher["levels"] = PressureLevels
      /\ fetcher["model"] = "best_match" /\ fetcher["http_bind"] = "127.0.0.1"
  BY <1>1, WeatherLoads
<1>3. PressureLevels # <<>> /\ \A i \in DOMAIN PressureLevels : PressureLevels[i] \in Served
  BY DEF PressureLevels, Served
<1>4. ValidWeather(fetcher, TRUE) <=> stack.position # Unset
  BY <1>2, <1>3 DEF ValidWeather, Addresses
<1>5. PICK loaded : loaded = <<fetcher>> /\ loaded # <<>> /\ loaded[1] = fetcher
  <2>1. <<fetcher>> # <<>> /\ <<fetcher>>[1] = fetcher
    OBVIOUS
  <2> QED BY <2>1, Zenon
<1>6. WeatherOutcome(loaded, FALSE, TRUE) = IF ValidWeather(fetcher, TRUE) THEN "runs" ELSE "exit_2"
  BY <1>5, Zenon DEF WeatherOutcome
<1>7. WeatherOutcome(loaded, FALSE, TRUE) = "runs" <=> ValidWeather(fetcher, TRUE)
  BY <1>6
<1> QED BY <1>1, <1>4, <1>5, <1>7, Zenon

\* The recorder's feed settings, of what the stack gives it.
LEMMA RecorderFeed ==
  ASSUME NEW server
  PROVE  LET c == FeedConfig(server) IN
         /\ c["mqtt_topic"] = server.mqtt_topic /\ c["mqtt_weather_topic"] = server.mqtt_weather_topic
         /\ c["source_id"] = server.source_id /\ c["mqtt_client_id"] = NoText
<1>1. DOMAIN FeedDefault = DOMAIN FeedFields
  BY Zenon DEF FeedDefault
<1>2. /\ "mqtt_topic" \in DOMAIN FeedDefault /\ "mqtt_weather_topic" \in DOMAIN FeedDefault
      /\ "source_id" \in DOMAIN FeedDefault /\ "mqtt_client_id" \in DOMAIN FeedDefault
  BY <1>1, FeedValues DEF FeedUsed
<1>3. FeedDefault["mqtt_client_id"] = NoText
  <2>1. FeedFields["mqtt_client_id"].default = NoText
    BY FeedValues DEF Field
  <2> QED BY <1>1, <1>2, <2>1, FeedDefaultIs, Zenon
<1>4. PICK d : d = FeedDefault
  OBVIOUS
<1>5. FeedConfig(server) =
        [d EXCEPT !.source_id = server.source_id, !.mqtt_broker = server.mqtt_broker, !.mqtt_port = server.mqtt_port,
                  !.mqtt_topic = server.mqtt_topic, !.mqtt_weather_topic = server.mqtt_weather_topic]
  BY <1>4, Zenon DEF FeedConfig
<1>6. /\ "mqtt_topic" \in DOMAIN d /\ "mqtt_weather_topic" \in DOMAIN d
      /\ "source_id" \in DOMAIN d /\ d["mqtt_client_id"] = NoText /\ "mqtt_client_id" \in DOMAIN d
  BY <1>2, <1>3, <1>4
<1> QED BY <1>5, <1>6

(***************************************************************************)
(* Any stack's services meet: whatever its receiver is called, whatever    *)
(* topics it has, with and without a position (scripts/render-config.py    *)
(* and the three services' configuration).                                 *)
(***************************************************************************)
THEOREM StacksMeet ==
  ASSUME NEW T, {"weather", "grid", "status"} \subseteq T,
         NEW stack, stack.id # NoText, stack.topic \in Seq(T), stack.topic # <<>>, stack.weather \in Seq(T),
         stack.pulsar \in BOOLEAN
  PROVE  StackMeets(stack)
<1>1. PICK feed : feed = LoadFeed(<<>>, <<>>, <<RenderFeed(stack)>>)[1]
  OBVIOUS
<1>2. PICK server : server = LoadServer(<<>>, <<>>, <<RenderServer(stack)>>)[1]
  OBVIOUS
<1>3. PICK fetcher : fetcher = LoadWeather(<<>>, <<>>, <<RenderWeather(stack)>>)[1]
  OBVIOUS
<1>4. PICK recorder : recorder = FeedConfig(server)
  OBVIOUS
<1>5. /\ feed.source_id = stack.id /\ feed.mqtt_topic = stack.topic
      /\ feed.mqtt_weather_topic = <<>> /\ feed.mqtt_client_id = NoText
  BY <1>1, FeedLoads, Zenon
<1>6. /\ server.source_id = stack.id /\ server.mqtt_topic = stack.topic
      /\ server.mqtt_weather_topic = RenderedWeatherTopic(stack)
      /\ server.retention_hours = 0 /\ server.checkpoint_secs = 300
  BY <1>2, ServerLoads
<1>7. fetcher.source_id = stack.id /\ fetcher.mqtt_topic = RenderedWeatherTopic(stack)
  BY <1>3, WeatherLoads
<1>8. /\ recorder.mqtt_topic = stack.topic /\ recorder.mqtt_weather_topic = RenderedWeatherTopic(stack)
      /\ recorder.source_id = stack.id /\ recorder.mqtt_client_id = NoText
  BY <1>4, <1>6, RecorderFeed
<1>9. "status" \in T
  OBVIOUS
<1>10. RenderedWeatherTopic(stack) \in Seq(T) /\ RenderedWeatherTopic(stack) # <<>>
  <2>1. RenderedTopic(stack.topic) \in Seq(T) /\ RenderedTopic(stack.topic) # <<>>
    BY RenderedTopicIs
  <2> QED BY <2>1, Zenon DEF RenderedWeatherTopic
<1>11. WeatherTopic(recorder) = fetcher.mqtt_topic
  BY <1>7, <1>8, <1>10, WeatherTopicIs
<1>12. stack.weather = <<>> => WeatherTopic(feed) = fetcher.mqtt_topic /\ StatusTopic(fetcher.mqtt_topic) # feed.mqtt_topic
  <2>1. ASSUME stack.weather = <<>> PROVE fetcher.mqtt_topic = RenderedTopic(stack.topic)
    BY <1>7, <2>1, Zenon DEF RenderedWeatherTopic
  <2>2. WeatherTopic(feed) = RenderedTopic(stack.topic)
    BY <1>5, WeatherTopicIs
  <2>3. StatusTopic(RenderedTopic(stack.topic)) # stack.topic
    BY RenderedTopicIs
  <2> QED BY <1>5, <2>1, <2>2, <2>3
<1>13. StatusTopic(fetcher.mqtt_topic) # fetcher.mqtt_topic
  BY <1>7, <1>9, <1>10, StatusApart
<1>14. IsInjective(ClientIds(feed, server, fetcher))
  <2>1. MqttClientId(feed) = stack.id /\ MqttClientId(recorder) = stack.id
    BY <1>5, <1>8 DEF MqttClientId
  <2>2. ClientIds(feed, server, fetcher) = <<<<stack.id>>, <<stack.id, "sub">>, <<stack.id, "weather">>>>
    BY <1>4, <1>7, <2>1, Zenon DEF ClientIds
  <2>3. PICK id : id = stack.id
    OBVIOUS
  <2>4. PICK cid : cid = <<<<id>>, <<id, "sub">>, <<id, "weather">>>>
    OBVIOUS
  <2>5. DOMAIN cid = 1..3 /\ cid[1] = <<id>> /\ cid[2] = <<id, "sub">> /\ cid[3] = <<id, "weather">>
    BY <2>4
  <2>6. Len(<<id>>) = 1 /\ Len(<<id, "sub">>) = 2 /\ Len(<<id, "weather">>) = 2
        /\ <<id, "sub">>[2] = "sub" /\ <<id, "weather">>[2] = "weather"
    OBVIOUS
  <2>7. cid[1] # cid[2] /\ cid[1] # cid[3] /\ cid[2] # cid[3]
    BY <2>5, <2>6
  <2>8. \A a, b \in DOMAIN cid : cid[a] = cid[b] => a = b
    BY <2>5, <2>7
  <2>9. IsInjective(cid)
    BY <2>8, Zenon DEF IsInjective
  <2> QED BY <2>2, <2>3, <2>4, <2>9
<1>15. HasKind(feed, "mqtt") /\ (HasKind(feed, "pulsar") <=> stack.pulsar) /\ FeedOutcome(<<feed>>, FALSE) = "runs"
  BY <1>1, FeedRuns
<1>16. WeatherOutcome(<<fetcher>>, FALSE, TRUE) = "runs" <=> stack.position # Unset
  BY <1>3, WeatherRuns
<1>17. Recording(server).maintenance /\ ~Recording(server).prunes
  <2>1. server.checkpoint_secs # 0 /\ ~(server.retention_hours # 0)
    BY <1>6
  <2> QED BY <2>1, Zenon DEF Recording
<1>18. HasKind(feed, "pulsar") = stack.pulsar
  BY <1>15 DEF HasKind
<1>19. /\ WeatherTopic(FeedConfig(server)) = fetcher.mqtt_topic
       /\ stack.weather = <<>> => /\ WeatherTopic(feed) = fetcher.mqtt_topic
                                  /\ StatusTopic(fetcher.mqtt_topic) # feed.mqtt_topic
       /\ StatusTopic(fetcher.mqtt_topic) # fetcher.mqtt_topic
       /\ server.mqtt_topic = feed.mqtt_topic
  BY <1>4, <1>5, <1>6, <1>11, <1>12, <1>13
<1> QED BY <1>1, <1>2, <1>3, <1>14, <1>15, <1>16, <1>17, <1>18, <1>19, Zenon DEF StackMeets

\* ahead orders I.
IsOrder(I, ahead) ==
  /\ \A x \in I : x \notin ahead[x]
  /\ \A x, y \in I : x # y => x \in ahead[y] \/ y \in ahead[x]
  /\ \A x, y, z \in I : x \in ahead[y] /\ y \in ahead[z] => x \in ahead[z]

\* Two finite sets that a function maps onto each other, one to one, are of one size.
LEMMA SameSize ==
  ASSUME NEW S, NEW T, IsFiniteSet(S), NEW f \in [S -> T],
         \A x, y \in S : f[x] = f[y] => x = y, \A y \in T : \E x \in S : f[x] = y
  PROVE  IsFiniteSet(T) /\ Cardinality(T) = Cardinality(S)
<1>1. f \in Surjection(S, T)
  BY DEF Surjection
<1>2. f \in Injection(S, T)
  BY DEF Injection, IsInjective
<1> QED BY <1>1, <1>2, FS_Surjection

\* The image of a finite set is not larger.
LEMMA ImageSize ==
  ASSUME NEW S, NEW T, IsFiniteSet(S), NEW f \in [S -> T], \A y \in T : \E x \in S : f[x] = y
  PROVE  IsFiniteSet(T) /\ Cardinality(T) <= Cardinality(S) /\ Cardinality(T) \in Nat /\ Cardinality(S) \in Nat
<1>1. f \in Surjection(S, T)
  BY DEF Surjection
<1> QED BY <1>1, FS_Surjection, FS_CardinalityType

\* How many of I come before x.
Place(I, ahead, x) == Cardinality(I \cap ahead[x])

LEMMA PlacesOfOrder ==
  ASSUME NEW I, IsFiniteSet(I), NEW ahead, IsOrder(I, ahead)
  PROVE  /\ Cardinality(I) \in Nat
         /\ \A x \in I : Place(I, ahead, x) \in 0..(Cardinality(I) - 1)
         /\ \A x, y \in I : x \in ahead[y] => Place(I, ahead, x) < Place(I, ahead, y)
         /\ \A x, y \in I : Place(I, ahead, x) = Place(I, ahead, y) => x = y
         /\ \A n \in 0..(Cardinality(I) - 1) : \E x \in I : Place(I, ahead, x) = n
<1>0. Cardinality(I) \in Nat
  BY FS_CardinalityType
<1>1. ASSUME NEW x \in I PROVE /\ IsFiniteSet(I \cap ahead[x]) /\ Place(I, ahead, x) \in Nat
                               /\ Place(I, ahead, x) < Cardinality(I)
  <2>1. I \cap ahead[x] \in SUBSET I /\ x \notin I \cap ahead[x]
    BY DEF IsOrder
  <2>2. PICK T : T = I \cap ahead[x]
    OBVIOUS
  <2>3. T \in SUBSET I /\ T # I
    BY <2>1, <2>2
  <2>4. IsFiniteSet(T) /\ Cardinality(T) \in Nat /\ Cardinality(T) <= Cardinality(I) /\ Cardinality(T) # Cardinality(I)
    BY <2>3, FS_Subset, FS_CardinalityType
  <2> QED BY <1>0, <2>2, <2>4 DEF Place
<1>2. ASSUME NEW x \in I, NEW y \in I, x \in ahead[y]
      PROVE  Place(I, ahead, x) < Place(I, ahead, y)
  <2>1. PICK T, U : T = I \cap ahead[x] /\ U = I \cap ahead[y]
    OBVIOUS
  <2>2. T \in SUBSET U /\ x \in U /\ x \notin T
    BY <1>2, <2>1 DEF IsOrder
  <2>3. IsFiniteSet(U) /\ Cardinality(T) \in Nat /\ Cardinality(U) \in Nat
    BY <1>1, <2>1 DEF Place
  <2>4. Cardinality(T) <= Cardinality(U) /\ Cardinality(T) # Cardinality(U)
    BY <2>2, <2>3, FS_Subset
  <2> QED BY <2>1, <2>3, <2>4 DEF Place
<1>3. \A x, y \in I : Place(I, ahead, x) = Place(I, ahead, y) => x = y
  <2> SUFFICES ASSUME NEW x \in I, NEW y \in I, x # y PROVE Place(I, ahead, x) # Place(I, ahead, y)
    OBVIOUS
  <2>1. x \in ahead[y] \/ y \in ahead[x]
    BY DEF IsOrder
  <2>2. Place(I, ahead, x) \in Nat /\ Place(I, ahead, y) \in Nat
    BY <1>1
  <2>3. CASE x \in ahead[y]
    BY <1>2, <2>2, <2>3
  <2>4. CASE y \in ahead[x]
    BY <1>2, <2>2, <2>4
  <2> QED BY <2>1, <2>3, <2>4
<1>8. ASSUME NEW x \in I PROVE Place(I, ahead, x) \in 0..(Cardinality(I) - 1)
  <2>1. PICK n, m \in Nat : n = Cardinality(I) /\ m = Place(I, ahead, x)
    BY <1>0, <1>1
  <2>2. m < n
    BY <1>1, <2>1
  <2>3. m \in 0..(n - 1)
    BY <2>1, <2>2
  <2> QED BY <2>1, <2>3
<1> DEFINE Numbers == 0..(Cardinality(I) - 1)
           place == [x \in I |-> Place(I, ahead, x)]
<1>4. place \in Injection(I, Numbers)
  <2>1. place \in [I -> Numbers]
    BY <1>8
  <2> QED BY <1>3, <2>1 DEF Injection, IsInjective
<1>5. IsFiniteSet(Numbers) /\ Cardinality(Numbers) = Cardinality(I)
  <2>1. \A n \in Nat : IsFiniteSet(0..(n - 1)) /\ Cardinality(0..(n - 1)) = n
    BY FS_Interval
  <2> QED BY <1>0, <2>1
<1>6. place \in Surjection(I, Numbers)
  BY <1>4, <1>5, FS_Injection
<1>7. \A n \in Numbers : \E x \in I : Place(I, ahead, x) = n
  BY <1>6 DEF Surjection
<1> QED BY <1>0, <1>2, <1>3, <1>7, <1>8

\* What InOrder lists: every element once, each after those ahead of it.
Sorts(p, I, ahead) ==
  /\ p \in [1..Cardinality(I) -> I]
  /\ \A k \in 1..Cardinality(I) : Place(I, ahead, p[k]) = k - 1
  /\ \A x \in I : \E k \in 1..Cardinality(I) : p[k] = x
  /\ \A k, l \in 1..Cardinality(I) : p[k] = p[l] => k = l
  /\ \A k, l \in 1..Cardinality(I) : p[k] \in ahead[p[l]] <=> k < l

LEMMA InOrderLists ==
  ASSUME NEW I, IsFiniteSet(I), NEW ahead, IsOrder(I, ahead)
  PROVE  Sorts(InOrder(I, ahead), I, ahead) /\ Cardinality(I) \in Nat
<1> DEFINE n == Cardinality(I)
           p == InOrder(I, ahead)
<1>0. n \in Nat
  BY FS_CardinalityType
<1>1. \A k \in 1..n : p[k] = CHOOSE x \in I : Place(I, ahead, x) = k - 1
  BY DEF InOrder, Place
<1>2. ASSUME NEW k \in 1..n PROVE p[k] \in I /\ Place(I, ahead, p[k]) = k - 1
  <2>1. k - 1 \in 0..(n - 1)
    BY <1>0
  <2>2. \E x \in I : Place(I, ahead, x) = k - 1
    BY <2>1, PlacesOfOrder
  <2> QED BY <1>1, <2>2
<1>3. p \in [1..n -> I]
  <2>1. \A k \in 1..n : (CHOOSE x \in I : Cardinality(I \cap ahead[x]) = k - 1) \in I
    BY <1>1, <1>2 DEF Place
  <2> QED BY <2>1 DEF InOrder
<1>4. \A x \in I : \E k \in 1..n : p[k] = x
  <2> SUFFICES ASSUME NEW x \in I PROVE \E k \in 1..n : p[k] = x
    OBVIOUS
  <2>1. PICK m \in 0..(n - 1) : m = Place(I, ahead, x)
    BY PlacesOfOrder
  <2>2. m + 1 \in 1..n /\ (m + 1) - 1 = m
    BY <1>0
  <2>3. Place(I, ahead, p[m + 1]) = m /\ p[m + 1] \in I
    BY <1>2, <2>2
  <2>4. p[m + 1] = x
    BY <2>1, <2>3, PlacesOfOrder
  <2> QED BY <2>2, <2>4
<1>5. \A k, l \in 1..n : p[k] = p[l] => k = l
  <2> SUFFICES ASSUME NEW k \in 1..n, NEW l \in 1..n, p[k] = p[l] PROVE k = l
    OBVIOUS
  <2>1. k - 1 = l - 1
    BY <1>2
  <2> QED BY <2>1
<1>6. ASSUME NEW k \in 1..n, NEW l \in 1..n PROVE p[k] \in ahead[p[l]] <=> k < l
  <2>1. p[k] \in I /\ p[l] \in I /\ Place(I, ahead, p[k]) = k - 1 /\ Place(I, ahead, p[l]) = l - 1
    BY <1>2
  <2>2. p[k] \in ahead[p[l]] => k - 1 < l - 1
    BY <2>1, PlacesOfOrder
  <2>3. p[l] \in ahead[p[k]] => l - 1 < k - 1
    BY <2>1, PlacesOfOrder
  <2>4. k < l => p[k] # p[l]
    BY <1>5
  <2>5. p[k] # p[l] => p[k] \in ahead[p[l]] \/ p[l] \in ahead[p[k]]
    BY <2>1 DEF IsOrder
  <2> QED BY <2>2, <2>3, <2>4, <2>5
<1> HIDE DEF p
<1>7. Sorts(p, I, ahead)
  BY <1>2, <1>3, <1>4, <1>5, <1>6 DEF Sorts
<1> QED BY <1>0, <1>7 DEF p

\* There is no other list with the elements at these places.
LEMMA InOrderOnly ==
  ASSUME NEW I, IsFiniteSet(I), NEW ahead, IsOrder(I, ahead),
         NEW q \in [1..Cardinality(I) -> I],
         \A k \in 1..Cardinality(I) : Place(I, ahead, q[k]) = k - 1
  PROVE  q = InOrder(I, ahead)
<1> DEFINE n == Cardinality(I)
<1>1. ASSUME NEW k \in 1..n PROVE q[k] = CHOOSE x \in I : Cardinality(I \cap ahead[x]) = k - 1
  <2>1. q[k] \in I /\ Cardinality(I \cap ahead[q[k]]) = k - 1
    BY DEF Place
  <2>2. \A x \in I : Cardinality(I \cap ahead[x]) = k - 1 => x = q[k]
    BY <2>1, PlacesOfOrder DEF Place
  <2> QED BY <2>1, <2>2
<1> QED BY <1>1 DEF InOrder

\* The numbers below each.
Below(N) == [i \in 1..N |-> 1..(i - 1)]
LEMMA BelowOrders ==
  ASSUME NEW N \in Nat, NEW J \in SUBSET (1..N)
  PROVE  /\ IsFiniteSet(J) /\ Cardinality(J) \in Nat /\ IsOrder(J, Below(N))
         /\ \A i \in J : J \cap Below(N)[i] = {j \in J : j < i}
<1>1. IsFiniteSet(1..N)
  BY FS_Interval
<1>2. IsFiniteSet(J) /\ Cardinality(J) \in Nat
  BY <1>1, FS_Subset, FS_CardinalityType
<1>3. \A i \in J, j \in J : j \in Below(N)[i] <=> j < i
  BY DEF Below
<1>4. IsOrder(J, Below(N))
  <2>1. \A x, y, z \in Int : ~(x < x) /\ (x # y => x < y \/ y < x) /\ (x < y /\ y < z => x < z)
    OBVIOUS
  <2>2. J \in SUBSET Int
    OBVIOUS
  <2> QED BY <1>3, <2>1, <2>2, Zenon DEF IsOrder
<1> QED BY <1>2, <1>3, <1>4

\* What Among takes: the elements at the places of J, in the order of the places.
Picked(s, S) == {i \in DOMAIN s : s[i] \in S}
LEMMA AmongIs ==
  ASSUME NEW N \in Nat, NEW s, DOMAIN s = 1..N, NEW S, NEW J, J = Picked(s, S)
  PROVE  /\ Sorts(InOrder(J, Below(N)), J, Below(N)) /\ Cardinality(J) \in Nat /\ IsFiniteSet(J)
         /\ Among(s, S) = [k \in 1..Cardinality(J) |-> s[InOrder(J, Below(N))[k]]]
<1> DEFINE q == InOrder(J, Below(N))
<1>1. J \in SUBSET (1..N)
  BY DEF Picked
<1>2. Sorts(q, J, Below(N)) /\ Cardinality(J) \in Nat /\ IsFiniteSet(J)
  BY <1>1, BelowOrders, InOrderLists
<1>3. ASSUME NEW k \in 1..Cardinality(J)
      PROVE  q[k] = CHOOSE i \in J : Cardinality({j \in J : j < i}) = k - 1
  <2>1. q[k] \in J /\ Cardinality(J \cap Below(N)[q[k]]) = k - 1
    BY <1>2 DEF Sorts, Place
  <2>2. \A i \in J : J \cap Below(N)[i] = {j \in J : j < i}
    BY <1>1, BelowOrders
  <2>3. ASSUME NEW i \in J, Cardinality({j \in J : j < i}) = k - 1 PROVE i = q[k]
    <3>1. Place(J, Below(N), i) = Place(J, Below(N), q[k])
      BY <2>1, <2>2, <2>3 DEF Place
    <3>2. IsFiniteSet(J) /\ IsOrder(J, Below(N))
      BY <1>1, BelowOrders
    <3>3. \A x, y \in J : Place(J, Below(N), x) = Place(J, Below(N), y) => x = y
      BY <3>2, PlacesOfOrder
    <3> QED BY <2>1, <3>1, <3>3
  <2>4. Cardinality({j \in J : j < q[k]}) = k - 1
    BY <2>1, <2>2
  <2> QED BY <2>1, <2>3, <2>4
<1> HIDE DEF q
<1>4. Among(s, S) = [k \in 1..Cardinality(J) |-> s[q[k]]]
  <2>1. Among(s, S) = [k \in 1..Cardinality(J) |->
                         s[CHOOSE i \in J : Cardinality({j \in J : j < i}) = k - 1]]
    BY DEF Among, Picked
  <2> QED BY <1>3, <2>1
<1> QED BY <1>2, <1>4 DEF q

\* A list, and what a set takes from it, as sets.
LEMMA AmongHas ==
  ASSUME NEW B, NEW s \in Seq(B), NEW S
  PROVE  /\ ToSet(Among(s, S)) = ToSet(s) \cap S
         /\ Len(Among(s, S)) = Cardinality(Picked(s, S))
<1>1. PICK N \in Nat : N = Len(s) /\ DOMAIN s = 1..N
  OBVIOUS
<1>2. PICK J : J = Picked(s, S)
  OBVIOUS
<1>8. /\ Sorts(InOrder(J, Below(N)), J, Below(N)) /\ Cardinality(J) \in Nat
      /\ Among(s, S) = [k \in 1..Cardinality(J) |-> s[InOrder(J, Below(N))[k]]]
  BY <1>1, <1>2, AmongIs
<1>3. PICK q : /\ Sorts(q, J, Below(N)) /\ Cardinality(J) \in Nat
               /\ Among(s, S) = [k \in 1..Cardinality(J) |-> s[q[k]]]
  BY <1>8
<1>4. ToSet(Among(s, S)) = {s[q[k]] : k \in 1..Cardinality(J)}
  BY <1>3 DEF ToSet
<1>5. {s[q[k]] : k \in 1..Cardinality(J)} = {s[i] : i \in J}
  BY <1>3 DEF Sorts
<1>6. {s[i] : i \in J} = ToSet(s) \cap S
  BY <1>2 DEF ToSet, Picked
<1>7. Len(Among(s, S)) = Cardinality(J)
  BY <1>3
<1> QED BY <1>2, <1>4, <1>5, <1>6, <1>7

-----------------------------------------------------------------------------
(* The order of the rows.                                                  *)

\* Rows that have numbers for the keys F.
LEMMA RowsOrdered ==
  ASSUME NEW data, NEW N \in Nat, DOMAIN data = 1..N, NEW I \in SUBSET (DOMAIN data)
  PROVE  /\ (\A i \in DOMAIN data : data[i].at \in Int) =>
              IsOrder(I, Earlier(data)) /\ IsOrder(I, Newer(data))
         /\ (\A i \in DOMAIN data : data[i].at \in Int /\ data[i].hex \in Int) => IsOrder(I, ByAircraft(data))
         /\ (\A i \in DOMAIN data : data[i].received \in Int) => IsOrder(I, CreatedLater(data))
<1>1. ASSUME \A i \in DOMAIN data : data[i].at \in Int PROVE IsOrder(I, Earlier(data)) /\ IsOrder(I, Newer(data))
  <2>1. PICK at \in [1..N -> Int] : \A i \in 1..N : at[i] = data[i].at
    <3>1. [i \in 1..N |-> data[i].at] \in [1..N -> Int]
      BY <1>1
    <3> QED BY <3>1
  <2>2. \A i, j \in I : j \in Earlier(data)[i] <=> at[j] < at[i] \/ (at[j] = at[i] /\ j < i)
    BY <2>1 DEF Earlier
  <2>3. \A i, j \in I : j \in Newer(data)[i] <=> at[j] > at[i] \/ (at[j] = at[i] /\ j < i)
    BY <2>1 DEF Newer
  <2>4. \A i \in I : i \in 1..N /\ i \in Int /\ at[i] \in Int
    OBVIOUS
  <2>5. IsOrder(I, Earlier(data))
    BY <2>2, <2>4 DEF IsOrder
  <2>6. IsOrder(I, Newer(data))
    BY <2>3, <2>4 DEF IsOrder
  <2> QED BY <2>5, <2>6
<1>2. ASSUME \A i \in DOMAIN data : data[i].at \in Int /\ data[i].hex \in Int PROVE IsOrder(I, ByAircraft(data))
  <2>1. PICK hex \in [1..N -> Int] : \A i \in 1..N : hex[i] = data[i].hex
    <3>1. [i \in 1..N |-> data[i].hex] \in [1..N -> Int]
      BY <1>2
    <3> QED BY <3>1
  <2>2. PICK b : b = Earlier(data)
    OBVIOUS
  <2>3. \A i, j \in I : j \in ByAircraft(data)[i] <=> hex[j] < hex[i] \/ (hex[j] = hex[i] /\ j \in b[i])
    BY <2>1, <2>2 DEF ByAircraft
  <2>4. \A i \in I : i \in 1..N /\ hex[i] \in Int
    OBVIOUS
  <2>5. IsOrder(I, b)
    BY <1>1, <1>2, <2>2
  <2> QED BY <2>3, <2>4, <2>5 DEF IsOrder
<1>3. ASSUME \A i \in DOMAIN data : data[i].received \in Int PROVE IsOrder(I, CreatedLater(data))
  <2>1. PICK at \in [1..N -> Int] : \A i \in 1..N : at[i] = data[i].received
    <3>1. [i \in 1..N |-> data[i].received] \in [1..N -> Int]
      BY <1>3
    <3> QED BY <3>1
  <2>2. \A i, j \in I : j \in CreatedLater(data)[i] <=> at[j] > at[i] \/ (at[j] = at[i] /\ j < i)
    BY <2>1 DEF CreatedLater
  <2>3. \A i \in I : i \in 1..N /\ i \in Int /\ at[i] \in Int
    OBVIOUS
  <2> QED BY <2>2, <2>3 DEF IsOrder
<1> QED BY <1>1, <1>2, <1>3

RowsAt(data, I) == {data[i] : i \in I}

\* What Select answers.
LEMMA SelectIs ==
  ASSUME NEW B, NEW data \in Seq(B), NEW I \in SUBSET (DOMAIN data), NEW ahead, IsOrder(I, ahead)
  PROVE  /\ IsFiniteSet(I) /\ Cardinality(I) \in Nat /\ Cardinality(I) <= Len(data)
         /\ Sorts(InOrder(I, ahead), I, ahead)
         /\ Select(data, I, ahead) = [k \in 1..Cardinality(I) |-> data[InOrder(I, ahead)[k]]]
         /\ Select(data, I, ahead) \in Seq(B) /\ Len(Select(data, I, ahead)) = Cardinality(I)
         /\ ToSet(Select(data, I, ahead)) = RowsAt(data, I)
<1>1. IsFiniteSet(DOMAIN data) /\ Cardinality(DOMAIN data) = Len(data)
  <2>1. Len(data) \in Nat /\ DOMAIN data = 1..Len(data)
    OBVIOUS
  <2>2. \A n \in Nat : IsFiniteSet(1..n) /\ Cardinality(1..n) = n
    BY FS_Interval
  <2> QED BY <2>1, <2>2
<1>2. IsFiniteSet(I) /\ Cardinality(I) \in Nat /\ Cardinality(I) <= Len(data)
  BY <1>1, FS_Subset, FS_CardinalityType
<1>3. Sorts(InOrder(I, ahead), I, ahead)
  BY <1>2, InOrderLists
<1>4. PICK p : p = InOrder(I, ahead)
  OBVIOUS
<1>5. PICK n \in Nat : n = Cardinality(I)
  BY <1>2
<1>6. /\ p \in [1..n -> I] /\ \A i \in I : \E k \in 1..n : p[k] = i
  BY <1>3, <1>4, <1>5 DEF Sorts
<1>7. Select(data, I, ahead) = [k \in 1..n |-> data[p[k]]]
  <2>1. DOMAIN p = 1..n
    BY <1>6
  <2> QED BY <1>4, <2>1 DEF Select
<1>8. PICK s : s = [k \in 1..n |-> data[p[k]]]
  OBVIOUS
<1>9. s \in Seq(B) /\ Len(s) = n
  BY <1>6, <1>8
<1>10. ToSet(s) = RowsAt(data, I)
  BY <1>6, <1>8 DEF ToSet, RowsAt
<1> QED BY <1>2, <1>3, <1>4, <1>5, <1>7, <1>8, <1>9, <1>10

\* The elements of a selection that are in V are the selection of those in V, also
\* by another order that agrees on them.
LEMMA AmongSelect ==
  ASSUME NEW B, NEW data \in Seq(B), NEW I \in SUBSET (DOMAIN data), NEW ahead, IsOrder(I, ahead),
         NEW V, NEW K, K = {i \in I : data[i] \in V}, NEW before, IsOrder(K, before),
         \A i, j \in K : i \in ahead[j] <=> i \in before[j]
  PROVE  Among(Select(data, I, ahead), V) = Select(data, K, before)
<1>1. PICK p : p = InOrder(I, ahead)
  OBVIOUS
<1>2. PICK n \in Nat : n = Cardinality(I)
  BY SelectIs
<1>3. PICK s : s = Select(data, I, ahead)
  OBVIOUS
<1>4. s = [k \in 1..n |-> data[p[k]]]
  BY <1>1, <1>2, <1>3, SelectIs
<1>5. /\ p \in [1..n -> I] /\ \A i \in I : \E k \in 1..n : p[k] = i
      /\ \A k, l \in 1..n : p[k] = p[l] => k = l
      /\ \A k, l \in 1..n : p[k] \in ahead[p[l]] <=> k < l
  <2>1. Sorts(p, I, ahead)
    BY <1>1, SelectIs
  <2> QED BY <1>2, <2>1 DEF Sorts
<1>6. PICK J : J = Picked(s, V)
  OBVIOUS
<1>7. J = {k \in 1..n : data[p[k]] \in V} /\ DOMAIN s = 1..n
  BY <1>4, <1>6 DEF Picked
<1>8. PICK d : d = InOrder(J, Below(n))
  OBVIOUS
<1>9. Sorts(d, J, Below(n)) /\ Cardinality(J) \in Nat /\ Among(s, V) = [k \in 1..Cardinality(J) |-> s[d[k]]]
  <2>1. n \in Nat /\ DOMAIN s = 1..n
    BY <1>7
  <2> QED BY <1>6, <1>8, <2>1, AmongIs
<1>10. PICK m \in Nat : m = Cardinality(J)
  BY <1>9
<1>11. d \in [1..m -> J] /\ \A k \in 1..m : Place(J, Below(n), d[k]) = k - 1
  BY <1>9, <1>10 DEF Sorts
<1>12. J \in SUBSET (1..n) /\ IsFiniteSet(J) /\ \A i \in J : J \cap Below(n)[i] = {j \in J : j < i}
  <2>1. J \in SUBSET (1..n)
    BY <1>7
  <2> QED BY <2>1, BelowOrders
<1>13. \A k \in J : p[k] \in K
  BY <1>5, <1>7
<1>14. \A i \in K : \E k \in J : p[k] = i
  BY <1>5, <1>7
<1>15. IsFiniteSet(K) /\ Cardinality(K) = m
  <2>1. PICK f : f = [k \in J |-> p[k]]
    OBVIOUS
  <2>2. f \in [J -> K] /\ (\A k, l \in J : f[k] = f[l] => k = l) /\ \A i \in K : \E k \in J : f[k] = i
    BY <1>5, <1>12, <1>13, <1>14, <2>1
  <2> QED BY <1>10, <1>12, <2>2, SameSize
<1>16. PICK q : q = [k \in 1..m |-> p[d[k]]]
  OBVIOUS
<1>17. q \in [1..m -> K]
  BY <1>11, <1>13, <1>16
<1>18. ASSUME NEW k \in 1..m PROVE Place(K, before, q[k]) = k - 1
  <2>1. PICK c \in J : c = d[k] /\ q[k] = p[c]
    BY <1>11, <1>16
  <2>2. PICK T : T = {j \in J : j < c}
    OBVIOUS
  <2>3. Cardinality(T) = k - 1 /\ IsFiniteSet(T)
    <3>1. T = J \cap Below(n)[c]
      BY <1>12, <2>2
    <3>2. Place(J, Below(n), c) = k - 1
      BY <1>11, <2>1
    <3>3. T \in SUBSET J
      BY <2>2
    <3> QED BY <1>12, <3>1, <3>2, <3>3, FS_Subset DEF Place
  <2>4. PICK U : U = K \cap before[q[k]]
    OBVIOUS
  <2>5. \A j \in J : p[j] \in U <=> j < c
    BY <1>5, <1>12, <1>13, <2>1, <2>4
  <2>6. PICK f : f = [j \in T |-> p[j]]
    OBVIOUS
  <2>7. f \in [T -> U]
    BY <2>2, <2>5, <2>6
  <2>8. \A i \in U : \E j \in T : f[j] = i
    BY <1>14, <2>2, <2>4, <2>5, <2>6
  <2>9. \A i, j \in T : f[i] = f[j] => i = j
    BY <1>5, <1>12, <2>2, <2>6
  <2>10. Cardinality(U) = k - 1
    BY <2>3, <2>7, <2>8, <2>9, SameSize
  <2> QED BY <2>4, <2>10 DEF Place
<1>19. q = InOrder(K, before)
  BY <1>15, <1>17, <1>18, InOrderOnly
<1>20. Select(data, K, before) = [k \in 1..m |-> data[q[k]]]
  <2>1. DOMAIN q = 1..m
    BY <1>17
  <2> QED BY <1>19, <2>1 DEF Select
<1>21. \A k \in 1..m : s[d[k]] = data[q[k]]
  BY <1>4, <1>11, <1>12, <1>16
<1> QED BY <1>3, <1>9, <1>10, <1>20, <1>21

\* A finite set of numbers that is not empty has a least and a greatest one.
LEMMA Extremes ==
  ASSUME NEW S \in SUBSET Int, IsFiniteSet(S), S # {}
  PROVE  /\ Least(S) \in S /\ \A x \in S : Least(S) <= x
         /\ Greatest(S) \in S /\ \A x \in S : x <= Greatest(S)
<1>1. PICK ahead : ahead = [x \in S |-> {y \in S : y < x}]
  OBVIOUS
<1>2. IsOrder(S, ahead)
  <2>1. \A x, y \in S : y \in ahead[x] <=> y < x
    BY <1>1
  <2>2. \A x \in S : x \in Int
    OBVIOUS
  <2> QED BY <2>1, <2>2 DEF IsOrder
<1>10. Sorts(InOrder(S, ahead), S, ahead) /\ Cardinality(S) \in Nat
  BY <1>2, InOrderLists
<1>3. PICK n, p : n \in Nat /\ n = Cardinality(S) /\ Sorts(p, S, ahead)
  BY <1>10
<1>4. n # 0
  BY <1>3, FS_EmptySet
<1>5. /\ p \in [1..n -> S] /\ \A x \in S : \E k \in 1..n : p[k] = x
      /\ \A k, l \in 1..n : p[k] \in ahead[p[l]] <=> k < l
  BY <1>3, SMTT(20) DEF Sorts
<1>6. 1 \in 1..n /\ n \in 1..n
  BY <1>3, <1>4
<1>7. \A k, l \in 1..n : k < l => p[k] < p[l]
  BY <1>1, <1>5
<1>8. p[1] \in S /\ \A x \in S : p[1] <= x
  <2> SUFFICES ASSUME NEW x \in S PROVE p[1] <= x
    BY <1>5, <1>6
  <2>1. PICK k \in 1..n : p[k] = x
    BY <1>5
  <2>2. k = 1 \/ 1 < k
    OBVIOUS
  <2>3. p[1] \in Int /\ x \in Int
    BY <1>5, <1>6
  <2> QED BY <1>6, <1>7, <2>1, <2>2, <2>3
<1>9. p[n] \in S /\ \A x \in S : x <= p[n]
  <2> SUFFICES ASSUME NEW x \in S PROVE x <= p[n]
    BY <1>5, <1>6
  <2>1. PICK k \in 1..n : p[k] = x
    BY <1>5
  <2>2. k = n \/ k < n
    BY <1>3
  <2>3. p[n] \in Int /\ x \in Int
    BY <1>5, <1>6
  <2> QED BY <1>6, <1>7, <2>1, <2>2, <2>3
<1> QED BY <1>8, <1>9 DEF Least, Greatest

-----------------------------------------------------------------------------
(* The flights.                                                            *)

Reported == [hex : Int, at : Int, place : (-180..180) \cup {None}]
Span == [start : Int \cup {None}, end : Int \cup {None}]
Flown == [hex : Int, id : Int \X Nat, first : Int, last : Int]

TimesOf(data, h) == {data[i].at : i \in {j \in DOMAIN data : data[j].hex = h}}
StartsOf(data, h) == {t \in TimesOf(data, h) : \A u \in TimesOf(data, h) : u < t => t - u > GapThreshold}
TimesFrom(data, h, t) ==
  {u \in TimesOf(data, h) : u >= t /\ \A s \in StartsOf(data, h) : s <= t \/ u < s}
SegmentAt(data, r) ==
  [hex |-> r.hex, id |-> <<r.hex, Cardinality({s \in StartsOf(data, r.hex) : s < r.at})>>,
   first |-> r.at, last |-> Greatest(TimesFrom(data, r.hex, r.at))]
Segments(data) ==
  {f \in {SegmentAt(data, r) : r \in ToSet(data)} : f.first \in StartsOf(data, f.hex)}
SegmentsAhead(data) ==
  [f \in Segments(data) |->
     {g \in Segments(data) : g.hex < f.hex \/ (g.hex = f.hex /\ g.first < f.first)}]

\* The rows as a list of records.
LEMMA RowFacts ==
  ASSUME NEW data \in Seq(Reported)
  PROVE  /\ Len(data) \in Nat /\ DOMAIN data = 1..Len(data)
         /\ \A i \in DOMAIN data : /\ data[i] \in Reported /\ data[i].hex \in Int /\ data[i].at \in Int
                                   /\ data[i].place # None => data[i].place \in -180..180
<1>1. \A i \in DOMAIN data : data[i] \in Reported
  OBVIOUS
<1>2. \A r \in Reported : r.hex \in Int /\ r.at \in Int /\ (r.place # None => r.place \in -180..180)
  BY DEF Reported
<1>3. Len(data) \in Nat /\ DOMAIN data = 1..Len(data)
  OBVIOUS
<1> QED BY <1>1, <1>2, <1>3

\* The times of an aircraft: finitely many numbers.
LEMMA TimesFinite ==
  ASSUME NEW data \in Seq(Reported), NEW h
  PROVE  /\ TimesOf(data, h) \in SUBSET Int /\ IsFiniteSet(TimesOf(data, h))
         /\ StartsOf(data, h) \in SUBSET TimesOf(data, h) /\ IsFiniteSet(StartsOf(data, h))
<1>1. PICK I : I = {j \in DOMAIN data : data[j].hex = h}
  OBVIOUS
<1>2. PICK f : f = [i \in I |-> data[i].at]
  OBVIOUS
<1>3. IsFiniteSet(I)
  <2>1. I \in SUBSET (1..Len(data)) /\ Len(data) \in Nat
    BY <1>1, RowFacts
  <2> QED BY <2>1, BelowOrders
<1>4. f \in [I -> TimesOf(data, h)] /\ \A t \in TimesOf(data, h) : \E i \in I : f[i] = t
  BY <1>1, <1>2 DEF TimesOf
<1>5. IsFiniteSet(TimesOf(data, h))
  BY <1>3, <1>4, ImageSize
<1>6. TimesOf(data, h) \in SUBSET Int
  BY RowFacts DEF TimesOf
<1>7. StartsOf(data, h) \in SUBSET TimesOf(data, h)
  BY DEF StartsOf
<1> QED BY <1>5, <1>6, <1>7, FS_Subset

\* A time on or after a start is on exactly one segment: the one of the last start up to it.
LEMMA OneSegment ==
  ASSUME NEW data \in Seq(Reported), NEW h, NEW t \in TimesOf(data, h)
  PROVE  \E s \in StartsOf(data, h) : s <= t /\ t <= Greatest(TimesFrom(data, h, s))
<1> DEFINE T == TimesOf(data, h)
           S == StartsOf(data, h)
<1>1. T \in SUBSET Int /\ IsFiniteSet(T) /\ S \in SUBSET T /\ IsFiniteSet(S)
  BY TimesFinite
<1>2. \A s \in S : TimesFrom(data, h, s) \in SUBSET T
  BY DEF TimesFrom
<1>3. Least(T) \in T /\ \A x \in T : Least(T) <= x
  <2>1. T # {}
    OBVIOUS
  <2> HIDE DEF T
  <2> QED BY <1>1, <2>1, Extremes
<1>4. Least(T) \in S
  <2>1. \A u \in T : ~(u < Least(T))
    BY <1>1, <1>3
  <2> QED BY <1>3, <2>1 DEF StartsOf
<1> HIDE DEF T, S
<1>5. PICK U : U = {s \in S : s <= t}
  OBVIOUS
<1>6. U \in SUBSET S /\ U \in SUBSET Int /\ Least(T) \in U
  <2>1. t \in T
    BY DEF T
  <2> QED BY <1>1, <1>3, <1>4, <1>5, <2>1
<1>7. IsFiniteSet(U) /\ U # {}
  BY <1>1, <1>6, FS_Subset
<1>8. PICK s \in U : \A x \in U : x <= s
  BY <1>6, <1>7, Extremes
<1>9. s \in S /\ s <= t
  BY <1>5, <1>8
<1>10. t \in TimesFrom(data, h, s)
  <2>1. t \in T /\ t \in Int /\ s \in Int /\ t >= s
    <3>1. t \in T
      BY DEF T
    <3> QED BY <1>1, <1>9, <3>1
  <2>2. ASSUME NEW x \in S PROVE x <= s \/ t < x
    <3>1. x \in Int
      BY <1>1
    <3>2. x <= t => x <= s
      BY <1>5, <1>8
    <3> QED BY <2>1, <3>1, <3>2
  <2> QED BY <2>1, <2>2 DEF TimesFrom, T, S
<1>11. t <= Greatest(TimesFrom(data, h, s))
  <2>1. TimesFrom(data, h, s) \in SUBSET T
    BY <1>2, <1>9
  <2>2. TimesFrom(data, h, s) \in SUBSET Int /\ IsFiniteSet(TimesFrom(data, h, s)) /\ TimesFrom(data, h, s) # {}
    BY <1>1, <1>10, <2>1, FS_Subset
  <2> QED BY <1>10, <2>2, Extremes
<1> QED BY <1>9, <1>11 DEF S

\* A segment begins and ends at times of its aircraft, before the next one begins.
LEMMA SegmentEnds ==
  ASSUME NEW data \in Seq(Reported), NEW h, NEW s \in StartsOf(data, h)
  PROVE  /\ s \in TimesOf(data, h) /\ Greatest(TimesFrom(data, h, s)) \in TimesOf(data, h)
         /\ s <= Greatest(TimesFrom(data, h, s))
         /\ \A u \in StartsOf(data, h) : u <= s \/ Greatest(TimesFrom(data, h, s)) < u
<1>1. PICK T, S : T = TimesOf(data, h) /\ S = StartsOf(data, h)
  OBVIOUS
<1>2. T \in SUBSET Int /\ IsFiniteSet(T) /\ S \in SUBSET T
  BY <1>1, TimesFinite
<1>3. PICK U : U = TimesFrom(data, h, s)
  OBVIOUS
<1>4. U = {u \in T : u >= s /\ \A x \in S : x <= s \/ u < x}
  BY <1>1, <1>3 DEF TimesFrom
<1>5. s \in U
  BY <1>1, <1>2, <1>4
<1>6. U \in SUBSET Int /\ IsFiniteSet(U) /\ U # {}
  BY <1>2, <1>4, <1>5, FS_Subset
<1>7. Greatest(U) \in U
  BY <1>6, Extremes
<1> QED BY <1>1, <1>2, <1>3, <1>4, <1>5, <1>7

\* SegmentsOf lists the segments.
LEMMA SegmentsListed ==
  ASSUME NEW data \in Seq(Reported)
  PROVE  /\ SegmentsOf(data) = InOrder(Segments(data), SegmentsAhead(data))
         /\ IsFiniteSet(Segments(data)) /\ Segments(data) \in SUBSET Flown
         /\ IsOrder(Segments(data), SegmentsAhead(data))
<1>1. SegmentsOf(data) = InOrder(Segments(data), SegmentsAhead(data))
  BY DEF SegmentsOf, Segments, SegmentsAhead, SegmentAt, TimesFrom, StartsOf, TimesOf
<1>2. ASSUME NEW f \in Segments(data)
      PROVE  /\ \E r \in ToSet(data) : f = SegmentAt(data, r)
             /\ f \in Flown /\ f.first \in StartsOf(data, f.hex)
  <2>1. PICK r \in ToSet(data) : f = SegmentAt(data, r)
    BY DEF Segments
  <2>2. r.hex \in Int /\ r.at \in Int
    BY RowFacts DEF ToSet
  <2>3. f.first \in StartsOf(data, f.hex) /\ f.first = r.at /\ f.hex = r.hex
    BY <2>1 DEF Segments, SegmentAt
  <2>4. Greatest(TimesFrom(data, r.hex, r.at)) \in Int
    <3>1. Greatest(TimesFrom(data, r.hex, r.at)) \in TimesOf(data, r.hex)
      BY <2>3, SegmentEnds
    <3> QED BY <3>1, TimesFinite
  <2>5. Cardinality({s \in StartsOf(data, r.hex) : s < r.at}) \in Nat
    <3>1. IsFiniteSet(StartsOf(data, r.hex))
      BY TimesFinite
    <3>2. {s \in StartsOf(data, r.hex) : s < r.at} \in SUBSET StartsOf(data, r.hex)
      OBVIOUS
    <3> QED BY <3>1, <3>2, FS_Subset, FS_CardinalityType
  <2>6. f \in Flown
    BY <2>1, <2>2, <2>4, <2>5 DEF Flown, SegmentAt
  <2> QED BY <2>1, <2>3, <2>6
<1>3. IsFiniteSet(Segments(data))
  <2>1. PICK I : I = {i \in DOMAIN data : SegmentAt(data, data[i]) \in Segments(data)}
    OBVIOUS
  <2>2. I \in SUBSET (1..Len(data)) /\ Len(data) \in Nat
    BY <2>1, RowFacts
  <2>3. IsFiniteSet(I)
    BY <2>2, BelowOrders
  <2>4. PICK f : f = [i \in I |-> SegmentAt(data, data[i])]
    OBVIOUS
  <2>5. f \in [I -> Segments(data)]
    BY <2>1, <2>4
  <2>6. \A g \in Segments(data) : \E i \in I : f[i] = g
    BY <1>2, <2>1, <2>4 DEF ToSet
  <2> QED BY <2>3, <2>5, <2>6, ImageSize
<1>4. IsOrder(Segments(data), SegmentsAhead(data))
  <2>1. PICK S : S = Segments(data)
    OBVIOUS
  <2>2. \A f, g \in S : g \in SegmentsAhead(data)[f] <=> g.hex < f.hex \/ (g.hex = f.hex /\ g.first < f.first)
    BY <2>1 DEF SegmentsAhead
  <2>3. \A f \in S : f.hex \in Int /\ f.first \in Int
    BY <1>2, <2>1 DEF Flown
  <2>4. ASSUME NEW f \in S, NEW g \in S, f.hex = g.hex, f.first = g.first PROVE f = g
    <3>1. PICK r \in ToSet(data), q \in ToSet(data) : f = SegmentAt(data, r) /\ g = SegmentAt(data, q)
      BY <1>2, <2>1
    <3>2. f.hex = r.hex /\ f.first = r.at /\ g.hex = q.hex /\ g.first = q.at
      BY <3>1 DEF SegmentAt
    <3> QED BY <2>4, <3>1, <3>2 DEF SegmentAt
  <2>5. ASSUME NEW f \in S, NEW g \in S, f # g PROVE f \in SegmentsAhead(data)[g] \/ g \in SegmentsAhead(data)[f]
    <3>1. f.hex # g.hex \/ f.first # g.first
      BY <2>4, <2>5
    <3>2. f.hex \in Int /\ f.first \in Int /\ g.hex \in Int /\ g.first \in Int
      BY <2>3
    <3> QED BY <2>2, <3>1, <3>2
  <2>6. ASSUME NEW f \in S PROVE f \notin SegmentsAhead(data)[f]
    BY <2>2, <2>3
  <2>7. ASSUME NEW f \in S, NEW g \in S, NEW k \in S,
               f \in SegmentsAhead(data)[g], g \in SegmentsAhead(data)[k]
        PROVE  f \in SegmentsAhead(data)[k]
    <3>1. /\ f.hex < g.hex \/ (f.hex = g.hex /\ f.first < g.first)
          /\ g.hex < k.hex \/ (g.hex = k.hex /\ g.first < k.first)
      BY <2>2, <2>7
    <3>2. f.hex \in Int /\ f.first \in Int /\ g.hex \in Int /\ g.first \in Int /\ k.hex \in Int /\ k.first \in Int
      BY <2>3
    <3>3. f.hex < k.hex \/ (f.hex = k.hex /\ f.first < k.first)
      BY <3>1, <3>2
    <3> QED BY <2>2, <3>3
  <2> QED BY <2>1, <2>5, <2>6, <2>7 DEF IsOrder
<1> QED BY <1>1, <1>2, <1>3, <1>4

\* The flights of a table of rows.
LEMMA FlightsAre ==
  ASSUME NEW data \in Seq(Reported)
  PROVE  /\ SegmentsOf(data) \in Seq(Flown)
         /\ \A j, k \in DOMAIN SegmentsOf(data) : SegmentsOf(data)[j] = SegmentsOf(data)[k] => j = k
         /\ \A j \in DOMAIN SegmentsOf(data) :
              LET f == SegmentsOf(data)[j] IN
              f.first \in StartsOf(data, f.hex) /\ f.last = Greatest(TimesFrom(data, f.hex, f.first))
         /\ \A h \in Int : \A t \in StartsOf(data, h) : \E j \in DOMAIN SegmentsOf(data) :
              SegmentsOf(data)[j].hex = h /\ SegmentsOf(data)[j].first = t
         /\ \A j, k \in DOMAIN SegmentsOf(data) :
              SegmentsOf(data)[j].hex = SegmentsOf(data)[k].hex
              /\ SegmentsOf(data)[j].first = SegmentsOf(data)[k].first => j = k
<1>1. PICK F, S, ahead : F = SegmentsOf(data) /\ S = Segments(data) /\ ahead = SegmentsAhead(data)
  OBVIOUS
<1>2. F = InOrder(S, ahead) /\ IsFiniteSet(S) /\ S \in SUBSET Flown /\ IsOrder(S, ahead)
  BY <1>1, SegmentsListed
<1>3. Sorts(F, S, ahead) /\ Cardinality(S) \in Nat
  BY <1>2, InOrderLists
<1>4. PICK n \in Nat : n = Cardinality(S)
  BY <1>3
<1>5. /\ F \in [1..n -> S] /\ \A f \in S : \E k \in 1..n : F[k] = f
      /\ \A j, k \in 1..n : F[j] = F[k] => j = k
  BY <1>3, <1>4 DEF Sorts
<1>6. DOMAIN F = 1..n /\ F \in Seq(Flown)
  BY <1>2, <1>5
<1>7. ASSUME NEW f \in S PROVE f.first \in StartsOf(data, f.hex) /\ f.last = Greatest(TimesFrom(data, f.hex, f.first))
  <2>1. PICK r \in ToSet(data) : f = SegmentAt(data, r) /\ f.first \in StartsOf(data, f.hex)
    BY <1>1 DEF Segments
  <2>2. f.hex = r.hex /\ f.first = r.at /\ f.last = Greatest(TimesFrom(data, r.hex, r.at))
    BY <2>1 DEF SegmentAt
  <2> QED BY <2>1, <2>2
<1>8. ASSUME NEW h \in Int, NEW t \in StartsOf(data, h) PROVE \E f \in S : f.hex = h /\ f.first = t
  <2>1. t \in TimesOf(data, h)
    BY TimesFinite
  <2>2. PICK i \in DOMAIN data : data[i].hex = h /\ data[i].at = t
    BY <2>1 DEF TimesOf
  <2>3. PICK f : f = SegmentAt(data, data[i])
    OBVIOUS
  <2>4. f.hex = h /\ f.first = t
    BY <2>2, <2>3 DEF SegmentAt
  <2>5. f \in S
    BY <1>1, <2>3, <2>4 DEF Segments, ToSet
  <2> QED BY <2>4, <2>5
<1>9. ASSUME NEW f \in S, NEW g \in S, f.hex = g.hex, f.first = g.first PROVE f = g
  <2>1. PICK r \in ToSet(data), q \in ToSet(data) : f = SegmentAt(data, r) /\ g = SegmentAt(data, q)
    BY <1>1 DEF Segments
  <2>2. f.hex = r.hex /\ f.first = r.at /\ g.hex = q.hex /\ g.first = q.at
    BY <2>1 DEF SegmentAt
  <2> QED BY <1>9, <2>1, <2>2 DEF SegmentAt
<1> QED BY <1>1, <1>5, <1>6, <1>7, <1>8, <1>9

\* Every row is on one flight, and on no other.
LEMMA OneFlight ==
  ASSUME NEW data \in Seq(Reported)
  PROVE  \A i \in DOMAIN data : \E j \in DOMAIN SegmentsOf(data) :
           OnFlight(data[i], SegmentsOf(data)[j])
           /\ \A k \in DOMAIN SegmentsOf(data) : OnFlight(data[i], SegmentsOf(data)[k]) => k = j
<1> SUFFICES ASSUME NEW i \in DOMAIN data
             PROVE  \E j \in DOMAIN SegmentsOf(data) :
                      OnFlight(data[i], SegmentsOf(data)[j])
                      /\ \A k \in DOMAIN SegmentsOf(data) : OnFlight(data[i], SegmentsOf(data)[k]) => k = j
  OBVIOUS
<1>1. PICK F, h, t : F = SegmentsOf(data) /\ h = data[i].hex /\ t = data[i].at
  OBVIOUS
<1>2. h \in Int /\ t \in Int /\ t \in TimesOf(data, h)
  BY <1>1, RowFacts DEF TimesOf
<1>3. PICK s \in StartsOf(data, h) : s <= t /\ t <= Greatest(TimesFrom(data, h, s))
  BY <1>2, OneSegment
<1>4. PICK j \in DOMAIN F : F[j].hex = h /\ F[j].first = s
  BY <1>1, <1>2, FlightsAre
<1>5. \A k \in DOMAIN F : F[k].first \in StartsOf(data, F[k].hex)
                          /\ F[k].last = Greatest(TimesFrom(data, F[k].hex, F[k].first))
  BY <1>1, FlightsAre
<1>6. StartsOf(data, h) \in SUBSET Int /\ TimesOf(data, h) \in SUBSET Int
  BY TimesFinite
<1>7. OnFlight(data[i], F[j])
  BY <1>1, <1>2, <1>3, <1>4, <1>5, <1>6 DEF OnFlight
<1>8. ASSUME NEW k \in DOMAIN F, OnFlight(data[i], F[k]) PROVE k = j
  <2>1. PICK u, e : u = F[k].first /\ e = F[k].last
    OBVIOUS
  <2>2. F[k].hex = h /\ u <= t /\ t <= e
    BY <1>1, <1>8, <2>1 DEF OnFlight
  <2>3. u \in StartsOf(data, h) /\ e = Greatest(TimesFrom(data, h, u))
    BY <1>5, <2>1, <2>2
  <2>4. (s <= u \/ e < s) /\ e \in TimesOf(data, h)
    BY <2>3, SegmentEnds
  <2>5. PICK d : d = Greatest(TimesFrom(data, h, s))
    OBVIOUS
  <2>6. (u <= s \/ d < u) /\ d \in TimesOf(data, h)
    BY <2>3, <2>5, SegmentEnds
  <2>7. u \in Int /\ e \in Int /\ s \in Int /\ d \in Int
    BY <1>6, <2>3, <2>4, <2>6
  <2>8. u = s
    BY <1>2, <1>3, <2>2, <2>4, <2>5, <2>6, <2>7
  <2> QED BY <1>1, <1>4, <2>1, <2>2, <2>8, FlightsAre
<1> QED BY <1>1, <1>7, <1>8

-----------------------------------------------------------------------------
(* Lists put one after the other.                                          *)

\* The length and the elements of a list of lists, where each has as many elements as
\* a set of its own.
LEMMA FlattenHas ==
  ASSUME NEW B, NEW parts \in Seq(Seq(B)), NEW L, IsFiniteSet(L),
         NEW P \in [DOMAIN parts -> SUBSET L],
         \A i \in DOMAIN parts : Cardinality(P[i]) = Len(parts[i]),
         \A i, j \in DOMAIN parts : i # j => P[i] \cap P[j] = {}
  PROVE  /\ FlattenSeq(parts) \in Seq(B)
         /\ Len(FlattenSeq(parts)) = Cardinality(UNION {P[i] : i \in DOMAIN parts})
         /\ ToSet(FlattenSeq(parts)) = UNION {ToSet(parts[i]) : i \in DOMAIN parts}
<1>1. PICK N \in Nat : N = Len(parts) /\ DOMAIN parts = 1..N
  OBVIOUS
<1>2. PICK g \in [0..N -> Seq(B)] : /\ g[0] = <<>> /\ \A n \in 1..N : g[n] = g[n - 1] \o parts[n]
                                    /\ FlattenSeq(parts) = g[N]
  BY <1>1, StreamFollows
<1> DEFINE Upto(n) == UNION {P[i] : i \in 1..n}
           Elements(n) == UNION {ToSet(parts[i]) : i \in 1..n}
           G == {n \in Nat : n <= N => Len(g[n]) = Cardinality(Upto(n)) /\ ToSet(g[n]) = Elements(n)}
<1>3. 0 \in G
  <2>1. Upto(0) = {} /\ Elements(0) = {}
    OBVIOUS
  <2>2. Cardinality(Upto(0)) = 0
    BY <2>1, FS_EmptySet
  <2>3. Len(g[0]) = 0 /\ ToSet(g[0]) = {}
    BY <1>2 DEF ToSet
  <2> QED BY <2>1, <2>2, <2>3
<1>4. ASSUME NEW n \in Nat, n \in G PROVE n + 1 \in G
  <2> SUFFICES ASSUME n + 1 <= N
               PROVE  Len(g[n + 1]) = Cardinality(Upto(n + 1)) /\ ToSet(g[n + 1]) = Elements(n + 1)
    OBVIOUS
  <2>1. n + 1 \in 1..N /\ n \in 0..N /\ (n + 1) - 1 = n
    OBVIOUS
  <2>2. PICK s \in Seq(B), t \in Seq(B) : s = g[n] /\ t = parts[n + 1]
    <3>1. g[n] \in Seq(B)
      BY <1>2, <2>1
    <3>2. parts[n + 1] \in Seq(B)
      BY <1>1, <2>1
    <3> QED BY <3>1, <3>2
  <2>3. g[n + 1] = s \o t
    BY <1>2, <2>1, <2>2
  <2>4. Len(s) = Cardinality(Upto(n)) /\ ToSet(s) = Elements(n)
    BY <1>4, <2>1, <2>2
  <2>5. 1..(n + 1) = (1..n) \cup {n + 1}
    OBVIOUS
  <2>6. Upto(n + 1) = Upto(n) \cup P[n + 1] /\ Elements(n + 1) = Elements(n) \cup ToSet(t)
    BY <2>2, <2>5
  <2>7. Upto(n) \cap P[n + 1] = {}
    <3>1. \A i \in 1..n : i \in DOMAIN parts /\ n + 1 \in DOMAIN parts /\ i # n + 1
      BY <1>1, <2>1
    <3> QED BY <3>1
  <2>8. P[n + 1] \in SUBSET L /\ Upto(n) \in SUBSET L
    <3>1. \A i \in 1..(n + 1) : i \in DOMAIN parts
      BY <1>1, <2>1
    <3>2. n + 1 \in 1..(n + 1) /\ 1..n \subseteq 1..(n + 1)
      OBVIOUS
    <3> QED BY <3>1, <3>2
  <2>9. Len(t) = Cardinality(P[n + 1])
    BY <1>1, <2>1, <2>2
  <2>10. PICK U, Q : U = Upto(n) /\ Q = P[n + 1]
    OBVIOUS
  <2>11. IsFiniteSet(U) /\ IsFiniteSet(Q) /\ U \cap Q = {}
    BY <2>7, <2>8, <2>10, FS_Subset
  <2>12. Cardinality(U \cup Q) = Cardinality(U) + Cardinality(Q)
    <3>1. Cardinality(U \cap Q) = 0
      BY <2>11, FS_EmptySet
    <3>2. Cardinality(U) \in Nat /\ Cardinality(Q) \in Nat
      BY <2>11, FS_CardinalityType
    <3>3. Cardinality(U \cup Q) = Cardinality(U) + Cardinality(Q) - Cardinality(U \cap Q)
      BY <2>11, FS_Union
    <3> QED BY <3>1, <3>2, <3>3
  <2>13. Len(s \o t) = Len(s) + Len(t) /\ ToSet(s \o t) = ToSet(s) \cup ToSet(t)
    <3>1. Len(s \o t) = Len(s) + Len(t) /\ Len(s) \in Nat /\ Len(t) \in Nat
      OBVIOUS
    <3>2. ASSUME NEW i \in DOMAIN (s \o t) PROVE (s \o t)[i] \in ToSet(s) \cup ToSet(t)
      <4>1. CASE i <= Len(s)
        <5>1. i \in DOMAIN s /\ (s \o t)[i] = s[i]
          BY <4>1
        <5> QED BY <5>1 DEF ToSet
      <4>2. CASE i > Len(s)
        <5>1. i - Len(s) \in DOMAIN t /\ (s \o t)[i] = t[i - Len(s)]
          BY <4>2
        <5> QED BY <5>1 DEF ToSet
      <4>3. i \in Int
        OBVIOUS
      <4> QED BY <3>1, <4>1, <4>2, <4>3
    <3>3. \A i \in DOMAIN s : i \in DOMAIN (s \o t) /\ (s \o t)[i] = s[i]
      OBVIOUS
    <3>4. \A i \in DOMAIN t : Len(s) + i \in DOMAIN (s \o t) /\ (s \o t)[Len(s) + i] = t[i]
      OBVIOUS
    <3>5. PICK u : u = s \o t
      OBVIOUS
    <3>6. ToSet(u) = ToSet(s) \cup ToSet(t)
      <4>1. ASSUME NEW e \in ToSet(u) PROVE e \in ToSet(s) \cup ToSet(t)
        <5>1. PICK i \in DOMAIN u : e = u[i]
          BY DEF ToSet
        <5> QED BY <3>2, <3>5, <5>1
      <4>2. ASSUME NEW e \in ToSet(s) PROVE e \in ToSet(u)
        BY <3>3, <3>5 DEF ToSet
      <4>3. ASSUME NEW e \in ToSet(t) PROVE e \in ToSet(u)
        <5>1. PICK i \in DOMAIN t : e = t[i]
          BY DEF ToSet
        <5> QED BY <3>4, <3>5, <5>1 DEF ToSet
      <4> QED BY <4>1, <4>2, <4>3
    <3> QED BY <3>1, <3>5, <3>6
  <2> QED BY <2>3, <2>4, <2>6, <2>9, <2>10, <2>12, <2>13
<1>5. Nat \subseteq G
  <2> HIDE DEF G
  <2> QED BY <1>3, <1>4, Induction
<1>6. Len(g[N]) = Cardinality(Upto(N)) /\ ToSet(g[N]) = Elements(N)
  <2>1. N \in G
    BY <1>5
  <2> QED BY <2>1
<1> QED BY <1>1, <1>2, <1>6

-----------------------------------------------------------------------------
(* The tracks.                                                             *)

\* The lesser and the greater of two numbers.
LEMMA OfTwo ==
  ASSUME NEW a \in Int, NEW b \in Int
  PROVE  /\ Least({a, b}) = IF a <= b THEN a ELSE b
         /\ Greatest({a, b}) = IF a <= b THEN b ELSE a
<1>1. IsFiniteSet({a} \cup {b}) /\ {a} \cup {b} = {a, b}
  BY FS_Singleton, FS_AddElement
<1>2. PICK S : S = {a, b}
  OBVIOUS
<1>3. S \in SUBSET Int /\ IsFiniteSet(S) /\ S # {}
  BY <1>1, <1>2
<1>4. /\ Least(S) \in S /\ \A x \in S : Least(S) <= x
      /\ Greatest(S) \in S /\ \A x \in S : x <= Greatest(S)
  BY <1>3, Extremes
<1>5. /\ Least(S) \in {a, b} /\ Least(S) <= a /\ Least(S) <= b
      /\ Greatest(S) \in {a, b} /\ a <= Greatest(S) /\ b <= Greatest(S)
  BY <1>2, <1>4
<1>6. PICK l \in Int, g \in Int : l = Least(S) /\ g = Greatest(S)
  BY <1>5
<1>7. l = (IF a <= b THEN a ELSE b) /\ g = (IF a <= b THEN b ELSE a)
  BY <1>5, <1>6
<1> QED BY <1>2, <1>6, <1>7

LEMMA LaterIs ==
  ASSUME NEW a \in Int, NEW b \in Int \cup {None}
  PROVE  /\ Later(a, b) \in Int /\ Later(a, b) # None
         /\ \A t \in Int : t >= Later(a, b) <=> t >= a /\ (b = None \/ t >= b)
<1>1. a # None
  BY QueriesAssumption
<1>2. CASE b = None
  BY <1>1, <1>2 DEF Later
<1>3. CASE b # None
  <2>1. b \in Int /\ Later(a, b) = Greatest({a, b})
    BY <1>1, <1>3 DEF Later
  <2>3. PICK g : g = Greatest({a, b})
    OBVIOUS
  <2>4. g \in Int /\ a <= g /\ b <= g /\ (g = a \/ g = b)
    BY <2>1, <2>3, OfTwo
  <2>5. \A t \in Int : t >= g <=> t >= a /\ t >= b
    BY <2>1, <2>4
  <2>6. g # None
    BY <2>4, QueriesAssumption
  <2> QED BY <1>3, <2>1, <2>3, <2>4, <2>5, <2>6
<1> QED BY <1>2, <1>3

LEMMA SoonerIs ==
  ASSUME NEW a \in Int, NEW b \in Int \cup {None}
  PROVE  /\ Sooner(a, b) \in Int /\ Sooner(a, b) # None
         /\ \A t \in Int : t <= Sooner(a, b) <=> t <= a /\ (b = None \/ t <= b)
<1>1. a # None
  BY QueriesAssumption
<1>2. CASE b = None
  BY <1>1, <1>2 DEF Sooner
<1>3. CASE b # None
  <2>1. b \in Int /\ Sooner(a, b) = Least({a, b})
    BY <1>1, <1>3 DEF Sooner
  <2>3. PICK g : g = Least({a, b})
    OBVIOUS
  <2>4. g \in Int /\ g <= a /\ g <= b /\ (g = a \/ g = b)
    BY <2>1, <2>3, OfTwo
  <2>5. \A t \in Int : t <= g <=> t <= a /\ t <= b
    BY <2>1, <2>4
  <2>6. g # None
    BY <2>4, QueriesAssumption
  <2> QED BY <1>3, <2>1, <2>3, <2>4, <2>5, <2>6
<1> QED BY <1>2, <1>3

\* What the window of a flight leaves of a window.
Narrowed(f, w) == [start |-> Later(f.first, w.start), end |-> Sooner(f.last, w.end)]
LEMMA NarrowedIs ==
  ASSUME NEW f \in Flown, NEW w \in Span
  PROVE  \A t \in Int : InWindow(t, Narrowed(f, w)) <=> t >= f.first /\ t <= f.last /\ InWindow(t, w)
<1>1. f.first \in Int /\ f.last \in Int /\ w.start \in Int \cup {None} /\ w.end \in Int \cup {None}
  BY DEF Flown, Span
<1>2. PICK a, b : a = Later(f.first, w.start) /\ b = Sooner(f.last, w.end)
  OBVIOUS
<1>3. /\ a # None /\ \A t \in Int : t >= a <=> t >= f.first /\ (w.start = None \/ t >= w.start)
      /\ b # None /\ \A t \in Int : t <= b <=> t <= f.last /\ (w.end = None \/ t <= w.end)
  BY <1>1, <1>2, LaterIs, SoonerIs
<1>4. Narrowed(f, w).start = a /\ Narrowed(f, w).end = b
  BY <1>2 DEF Narrowed
<1> QED BY <1>3, <1>4 DEF InWindow

\* The first n of a list that is not longer than n, and of one that is.
LEMMA FirstRowsAre ==
  ASSUME NEW B, NEW s \in Seq(B), NEW n \in Nat
  PROVE  /\ FirstRows(s, n) \in Seq(B)
         /\ Len(FirstRows(s, n)) = IF n <= Len(s) THEN n ELSE Len(s)
         /\ \A i \in 1..Len(FirstRows(s, n)) : FirstRows(s, n)[i] = s[i]
         /\ Len(s) <= n => FirstRows(s, n) = s
<1>1. PICK m : m = Least({n, Len(s)})
  OBVIOUS
<1>2. Len(s) \in Nat
  OBVIOUS
<1>3. m = IF n <= Len(s) THEN n ELSE Len(s)
  BY <1>1, <1>2, OfTwo
<1>4. m \in 0..Len(s) /\ m = IF n <= Len(s) THEN n ELSE Len(s)
  BY <1>2, <1>3
<1>5. FirstRows(s, n) = SubSeq(s, 1, m)
  BY <1>1 DEF FirstRows
<1>6. PICK q : q = SubSeq(s, 1, m)
  OBVIOUS
<1>7. q \in Seq(B) /\ Len(q) = m /\ \A i \in 1..m : q[i] = s[i]
  BY <1>4, <1>6
<1>8. m = Len(s) => q = s
  BY <1>7
<1> QED BY <1>2, <1>4, <1>5, <1>6, <1>7, <1>8

Shown(data, w) == Within(data, w) \cap Located(data)
On(data, w, f) == {r \in Shown(data, w) : OnFlight(data[r], f)}
Marked == [row : Reported, flight : Int \X Nat]

LEMMA ShownAre ==
  ASSUME NEW data \in Seq(Reported), NEW w
  PROVE  /\ Within(data, w) \in SUBSET (DOMAIN data) /\ Shown(data, w) \in SUBSET (DOMAIN data)
         /\ IsFiniteSet(Within(data, w)) /\ Cardinality(Within(data, w)) \in Nat
         /\ IsFiniteSet(Shown(data, w)) /\ Cardinality(Shown(data, w)) \in Nat
<1>1. Within(data, w) \in SUBSET (DOMAIN data) /\ Shown(data, w) \in SUBSET (DOMAIN data)
  BY DEF Within, Shown
<1>2. PICK N \in Nat : DOMAIN data = 1..N
  BY RowFacts
<1> QED BY <1>1, <1>2, BelowOrders

\* The orders on the places of a table of positions.
LEMMA OrdersHere ==
  ASSUME NEW data \in Seq(Reported), NEW I \in SUBSET (DOMAIN data)
  PROVE  IsOrder(I, Earlier(data)) /\ IsOrder(I, ByAircraft(data)) /\ IsOrder(I, Newer(data))
<1>1. PICK N \in Nat : DOMAIN data = 1..N
  BY RowFacts
<1>2. \A i \in DOMAIN data : data[i].at \in Int /\ data[i].hex \in Int
  BY RowFacts
<1> QED BY <1>1, <1>2, RowsOrdered

LEMMA TaggedIs ==
  ASSUME NEW s \in Seq(Reported), NEW id \in Int \X Nat
  PROVE  /\ Tagged(s, id) \in Seq(Marked) /\ Len(Tagged(s, id)) = Len(s)
         /\ ToSet(Tagged(s, id)) = {[row |-> r, flight |-> id] : r \in ToSet(s)}
<1>1. PICK N \in Nat : N = Len(s) /\ DOMAIN s = 1..N
  OBVIOUS
<1>2. \A i \in 1..N : s[i] \in Reported
  BY <1>1
<1>3. PICK t : t = [i \in 1..N |-> [row |-> s[i], flight |-> id]]
  OBVIOUS
<1>4. Tagged(s, id) = t
  BY <1>1, <1>3 DEF Tagged
<1>5. t \in Seq(Marked) /\ Len(t) = N
  <2>1. \A i \in 1..N : [row |-> s[i], flight |-> id] \in Marked
    BY <1>2 DEF Marked
  <2> QED BY <1>3, <2>1
<1>6. ToSet(t) = {[row |-> r, flight |-> id] : r \in ToSet(s)}
  BY <1>1, <1>3 DEF ToSet
<1> QED BY <1>1, <1>4, <1>5, <1>6

\* The join has every row with a place in the window once, with the flight it is on.
LEMMA AllTrajectoriesAre ==
  ASSUME NEW data \in Seq(Reported), NEW w, NEW F, F = SegmentsOf(data), NEW L, L = Shown(data, w),
         NEW A, A = AllTrajectories(data, F, w)
  PROVE  /\ A \in Seq(Marked) /\ Len(A) = Cardinality(L)
         /\ \A e \in ToSet(A) : \E r \in L, j \in DOMAIN F :
              OnFlight(data[r], F[j]) /\ e.row = data[r] /\ e.flight = F[j].id
         /\ \A r \in L : \E e \in ToSet(A) : e.row = data[r]
<1>1. F = SegmentsOf(data)
  OBVIOUS
<1>2. L = Shown(data, w)
  OBVIOUS
<1>3. L \in SUBSET (DOMAIN data) /\ IsFiniteSet(L)
  BY <1>2, ShownAre
<1>4. PICK part : part = [i \in DOMAIN F |-> Select(data, On(data, w, F[i]), Earlier(data))]
  OBVIOUS
<1>5. PICK parts : parts = [i \in DOMAIN F |-> Tagged(part[i], F[i].id)]
  OBVIOUS
<1>6. AllTrajectories(data, F, w) = FlattenSeq(parts)
  <2>1. \A i \in DOMAIN F : parts[i] =
          Tagged(Select(data, {r \in Within(data, w) \cap Located(data) : OnFlight(data[r], F[i])},
                        Earlier(data)), F[i].id)
    BY <1>4, <1>5 DEF On, Shown
  <2>2. parts = [i \in DOMAIN F |->
          Tagged(Select(data, {r \in Within(data, w) \cap Located(data) : OnFlight(data[r], F[i])},
                        Earlier(data)), F[i].id)]
    BY <1>5, <2>1
  <2> QED BY <2>2 DEF AllTrajectories
<1>7. F \in Seq(Flown) /\ \A i \in DOMAIN F : F[i] \in Flown /\ F[i].id \in Int \X Nat
  <2>1. F \in Seq(Flown)
    BY <1>1, FlightsAre
  <2>2. \A i \in DOMAIN F : F[i] \in Flown
    BY <2>1
  <2> QED BY <2>1, <2>2 DEF Flown
<1>8. ASSUME NEW i \in DOMAIN F
      PROVE  /\ On(data, w, F[i]) \in SUBSET L
             /\ part[i] \in Seq(Reported) /\ Len(part[i]) = Cardinality(On(data, w, F[i]))
             /\ ToSet(part[i]) = {data[r] : r \in On(data, w, F[i])}
             /\ parts[i] \in Seq(Marked) /\ Len(parts[i]) = Cardinality(On(data, w, F[i]))
             /\ ToSet(parts[i]) = {[row |-> r, flight |-> F[i].id] : r \in ToSet(part[i])}
  <2>1. On(data, w, F[i]) \in SUBSET L
    BY <1>2 DEF On
  <2>2. On(data, w, F[i]) \in SUBSET (DOMAIN data)
    BY <1>3, <2>1
  <2>3. IsOrder(On(data, w, F[i]), Earlier(data))
    BY <2>2, OrdersHere
  <2>4. /\ part[i] \in Seq(Reported) /\ Len(part[i]) = Cardinality(On(data, w, F[i]))
        /\ ToSet(part[i]) = {data[r] : r \in On(data, w, F[i])}
    <3>1. PICK I : I = On(data, w, F[i])
      OBVIOUS
    <3>2. I \in SUBSET (DOMAIN data) /\ IsOrder(I, Earlier(data))
      BY <2>2, <2>3, <3>1
    <3>5. Select(data, I, Earlier(data)) \in Seq(Reported)
      BY <3>2, SelectIs
    <3>6. Len(Select(data, I, Earlier(data))) = Cardinality(I)
      BY <3>2, SelectIs
    <3>7. ToSet(Select(data, I, Earlier(data))) = RowsAt(data, I)
      BY <3>2, SelectIs
    <3>4. part[i] = Select(data, I, Earlier(data))
      BY <1>4, <3>1
    <3> QED BY <3>1, <3>4, <3>5, <3>6, <3>7 DEF RowsAt
  <2>5. parts[i] = Tagged(part[i], F[i].id)
    BY <1>5
  <2> QED BY <1>7, <2>1, <2>4, <2>5, TaggedIs
<1>9. parts \in Seq(Seq(Marked)) /\ DOMAIN parts = DOMAIN F
  <2>1. PICK n \in Nat : DOMAIN F = 1..n
    BY <1>7
  <2>2. parts \in [1..n -> Seq(Marked)]
    BY <1>5, <1>8, <2>1
  <2> QED BY <2>1, <2>2
<1>10. PICK P : P = [i \in DOMAIN F |-> On(data, w, F[i])]
  OBVIOUS
<1>11. \A i, j \in DOMAIN F : i # j => P[i] \cap P[j] = {}
  <2> SUFFICES ASSUME NEW i \in DOMAIN F, NEW j \in DOMAIN F, NEW r \in P[i], r \in P[j] PROVE i = j
    OBVIOUS
  <2>1. r \in DOMAIN data /\ OnFlight(data[r], F[i]) /\ OnFlight(data[r], F[j])
    BY <1>2, <1>3, <1>10 DEF On
  <2> QED BY <1>1, <2>1, OneFlight
<1>12. UNION {P[i] : i \in DOMAIN F} = L
  <2>1. ASSUME NEW r \in L PROVE \E i \in DOMAIN F : r \in P[i]
    <3>1. PICK i \in DOMAIN F : OnFlight(data[r], F[i])
      BY <1>1, <1>3, OneFlight
    <3> QED BY <1>2, <1>10, <3>1 DEF On
  <2> QED BY <1>8, <1>10, <2>1
<1>13. A = FlattenSeq(parts)
  BY <1>6
<1>14. /\ A \in Seq(Marked) /\ Len(A) = Cardinality(L)
       /\ ToSet(A) = UNION {ToSet(parts[i]) : i \in DOMAIN F}
  <2>1. P \in [DOMAIN parts -> SUBSET L]
    BY <1>8, <1>9, <1>10
  <2>2. \A i \in DOMAIN parts : Cardinality(P[i]) = Len(parts[i])
    BY <1>8, <1>9, <1>10
  <2>3. \A i, j \in DOMAIN parts : i # j => P[i] \cap P[j] = {}
    BY <1>9, <1>11
  <2>4. /\ FlattenSeq(parts) \in Seq(Marked)
        /\ Len(FlattenSeq(parts)) = Cardinality(UNION {P[i] : i \in DOMAIN parts})
        /\ ToSet(FlattenSeq(parts)) = UNION {ToSet(parts[i]) : i \in DOMAIN parts}
    BY <1>3, <1>9, <2>1, <2>2, <2>3, FlattenHas
  <2>5. UNION {P[i] : i \in DOMAIN parts} = L
    BY <1>9, <1>12
  <2> QED BY <1>9, <1>13, <2>4, <2>5
<1>15. ASSUME NEW e \in ToSet(A)
       PROVE  \E r \in L, j \in DOMAIN F : OnFlight(data[r], F[j]) /\ e.row = data[r] /\ e.flight = F[j].id
  <2>1. PICK j \in DOMAIN F : e \in ToSet(parts[j])
    BY <1>14
  <2>2. PICK q \in ToSet(part[j]) : e = [row |-> q, flight |-> F[j].id]
    BY <1>8, <2>1
  <2>3. PICK r \in On(data, w, F[j]) : q = data[r]
    BY <1>8, <2>2, ZenonT(40)
  <2> QED BY <1>2, <2>2, <2>3 DEF On
<1>16. ASSUME NEW r \in L PROVE \E e \in ToSet(A) : e.row = data[r]
  <2>1. PICK j \in DOMAIN F : r \in On(data, w, F[j])
    BY <1>10, <1>12
  <2>2. data[r] \in ToSet(part[j])
    BY <1>8, <2>1
  <2>3. [row |-> data[r], flight |-> F[j].id] \in ToSet(parts[j])
    BY <1>8, <2>2, ZenonT(40)
  <2> QED BY <1>14, <2>3
<1> QED BY <1>14, <1>15, <1>16

LEMMA TrajectoriesMeet ==
  ASSUME NEW data \in Seq(Reported), NEW w \in Span,
         NEW F, F = SegmentsOf(data),
         NEW wanted, wanted = [i \in DOMAIN F |-> [hex |-> F[i].hex, flight |-> F[i].id,
                                                   window |-> Narrowed(F[i], w)]]
  PROVE  AllTrajectories(data, F, w) = BatchTrajectories(data, wanted)
<1>1. \A i \in DOMAIN F : F[i] \in Flown
  <2>1. F \in Seq(Flown)
    BY FlightsAre
  <2> QED BY <2>1
<1>2. ASSUME NEW i \in DOMAIN F
      PROVE  {r \in Within(data, w) \cap Located(data) : OnFlight(data[r], F[i])}
              = {r \in Within(data, Narrowed(F[i], w)) \cap Located(data) : data[r].hex = F[i].hex}
  <2>1. \A r \in DOMAIN data : data[r].at \in Int
    BY RowFacts
  <2>2. PICK u, f : u = Narrowed(F[i], w) /\ f = F[i]
    OBVIOUS
  <2>3. \A r \in DOMAIN data : InWindow(data[r].at, u)
                               <=> data[r].at >= f.first /\ data[r].at <= f.last /\ InWindow(data[r].at, w)
    BY <1>1, <2>1, <2>2, NarrowedIs
  <2>4. {r \in Within(data, w) \cap Located(data) : OnFlight(data[r], f)}
         = {r \in Within(data, u) \cap Located(data) : data[r].hex = f.hex}
    BY <2>3 DEF Within, OnFlight
  <2> QED BY <2>2, <2>4
<1>3. \A i \in DOMAIN F : /\ wanted[i].hex = F[i].hex /\ wanted[i].flight = F[i].id
                          /\ wanted[i].window = Narrowed(F[i], w)
  OBVIOUS
<1>4. DOMAIN wanted = DOMAIN F
  OBVIOUS
<1>5. \A i \in DOMAIN F :
        Tagged(Select(data, {r \in Within(data, w) \cap Located(data) : OnFlight(data[r], F[i])}, Earlier(data)), F[i].id)
        = Tagged(Trajectory(data, wanted[i].hex, wanted[i].window), wanted[i].flight)
  BY <1>2, <1>3 DEF Trajectory
<1>6. [i \in DOMAIN F |->
        Tagged(Select(data, {r \in Within(data, w) \cap Located(data) : OnFlight(data[r], F[i])}, Earlier(data)), F[i].id)]
      = [i \in DOMAIN wanted |-> Tagged(Trajectory(data, wanted[i].hex, wanted[i].window), wanted[i].flight)]
  BY <1>4, <1>5
<1> QED BY <1>6 DEF AllTrajectories, BatchTrajectories

\* A flight with a row of the window reaches into it.
LEMMA OnMeansOverlaps ==
  ASSUME NEW data \in Seq(Reported), NEW w \in Span, NEW r \in Within(data, w),
         NEW f \in Flown, OnFlight(data[r], f)
  PROVE  Overlaps(f, w)
<1>1. PICK t, a, b : t = data[r].at /\ a = f.first /\ b = f.last
  OBVIOUS
<1>2. t \in Int /\ a \in Int /\ b \in Int
  BY <1>1, RowFacts DEF Flown, Within
<1>3. a <= t /\ t <= b
  BY <1>1, <1>2 DEF OnFlight
<1>4. InWindow(t, w)
  BY <1>1 DEF Within
<1>5. w.start \in Int \cup {None} /\ w.end \in Int \cup {None}
  BY DEF Span
<1>6. w.start \in Int /\ t >= w.start => b >= w.start
  BY <1>2, <1>3
<1>7. w.end \in Int /\ t <= w.end => a <= w.end
  BY <1>2, <1>3
<1>8. (w.start = None \/ b >= w.start) /\ (w.end = None \/ a <= w.end)
  BY <1>4, <1>5, <1>6, <1>7 DEF InWindow
<1> QED BY <1>1, <1>8 DEF Overlaps

\* The box around everything has every row with a place.
LEMMA BoxIs ==
  ASSUME NEW data \in Seq(Reported), NEW w, NEW n \in Nat
  PROVE  BboxQuery(data, {r.place : r \in ToSet(data)} \ {None}, w, n)
          = FirstRows(Select(data, Shown(data, w), ByAircraft(data)), n)
<1>1. {i \in Within(data, w) : data[i].place \in {r.place : r \in ToSet(data)} \ {None}} = Shown(data, w)
  BY DEF Within, Shown, Located, ToSet
<1> QED BY <1>1 DEF BboxQuery

THEOREM TracksAlwaysMeet ==
  ASSUME NEW data \in Seq(Reported), NEW w \in Span
  PROVE  TracksAgree(data, w)
<1>1. PICK F, L, A : F = SegmentsOf(data) /\ L = Shown(data, w) /\ A = AllTrajectories(data, F, w)
  OBVIOUS
<1>2. PICK wanted : wanted = [i \in DOMAIN F |-> [hex |-> F[i].hex, flight |-> F[i].id,
                                                  window |-> [start |-> Later(F[i].first, w.start),
                                                              end |-> Sooner(F[i].last, w.end)]]]
  OBVIOUS
<1>3. A = BatchTrajectories(data, wanted)
  BY <1>1, <1>2, TrajectoriesMeet DEF Narrowed
<1>4. /\ A \in Seq(Marked) /\ Len(A) = Cardinality(L)
      /\ \A e \in ToSet(A) : \E r \in L, j \in DOMAIN F :
           OnFlight(data[r], F[j]) /\ e.row = data[r] /\ e.flight = F[j].id
      /\ \A r \in L : \E e \in ToSet(A) : e.row = data[r]
  BY <1>1, AllTrajectoriesAre
<1>5. L \in SUBSET (DOMAIN data) /\ IsOrder(L, ByAircraft(data)) /\ IsOrder(L, Earlier(data)) /\ Len(data) \in Nat
  BY <1>1, ShownAre, OrdersHere
<1>6. PICK places, S : places = {r.place : r \in ToSet(data)} \ {None} /\ S = Select(data, L, ByAircraft(data))
  OBVIOUS
<1>7. /\ S \in Seq(Reported) /\ Len(S) = Cardinality(L) /\ Cardinality(L) <= Len(data)
      /\ ToSet(S) = {data[i] : i \in L}
  BY <1>5, <1>6, SelectIs DEF RowsAt
<1>8. \A n \in Nat : BboxQuery(data, places, w, n) = FirstRows(S, n)
  BY <1>1, <1>6, BoxIs
<1>9. FirstRows(S, Len(data)) = S
  BY <1>5, <1>7, FirstRowsAre
<1>10. BboxQuery(data, places, w, Len(data)) = S
  BY <1>5, <1>8, <1>9
<1>11. ToSet(S) = {A[i].row : i \in DOMAIN A}
  <2>1. {A[i].row : i \in DOMAIN A} = {e.row : e \in ToSet(A)}
    BY DEF ToSet
  <2>2. {e.row : e \in ToSet(A)} = {data[r] : r \in L}
    BY <1>4
  <2> QED BY <1>7, <2>1, <2>2
<1>12. {A[i].flight : i \in DOMAIN A} \subseteq {f.id : f \in ToSet(FlightSummary(F, w))}
  <2> SUFFICES ASSUME NEW e \in ToSet(A) PROVE e.flight \in {f.id : f \in ToSet(FlightSummary(F, w))}
    BY DEF ToSet
  <2>1. PICK r \in L, j \in DOMAIN F : OnFlight(data[r], F[j]) /\ e.flight = F[j].id
    BY <1>4
  <2>2. F \in Seq(Flown)
    BY <1>1, FlightsAre
  <2>3. F[j] \in Flown /\ F[j] \in ToSet(F)
    BY <2>2 DEF ToSet
  <2>4. Overlaps(F[j], w)
    <3>1. r \in Within(data, w)
      BY <1>1 DEF Shown
    <3> QED BY <2>1, <2>3, <3>1, OnMeansOverlaps
  <2>5. ToSet(FlightSummary(F, w)) = ToSet(F) \cap {f \in ToSet(F) : Overlaps(f, w)}
    BY <2>2, AmongHas DEF FlightSummary
  <2> QED BY <2>1, <2>3, <2>4, <2>5
<1>13. \A n \in 0..Len(data) : IsPrefix(BboxQuery(data, places, w, n), S)
  <2> SUFFICES ASSUME NEW n \in 0..Len(data) PROVE IsPrefix(FirstRows(S, n), S)
    BY <1>5, <1>8
  <2>1. n \in Nat
    BY <1>5
  <2>2. PICK q : q = FirstRows(S, n)
    OBVIOUS
  <2>3. /\ q \in Seq(Reported) /\ Len(q) = (IF n <= Len(S) THEN n ELSE Len(S))
        /\ \A i \in 1..Len(q) : q[i] = S[i]
    BY <1>7, <2>1, <2>2, FirstRowsAre
  <2>4. Len(q) <= Len(S) /\ Len(q) \in Nat
    BY <1>7, <2>1, <2>3
  <2>5. SubSeq(q, 1, Len(q)) = SubSeq(S, 1, Len(q))
    BY <1>7, <2>3, <2>4
  <2> QED BY <2>2, <2>4, <2>5 DEF IsPrefix
<1>14. ASSUME NEW h \in {r.hex : r \in ToSet(data)}
       PROVE  /\ Among(S, {r \in ToSet(data) : r.hex = h}) = Trajectory(data, h, w)
              /\ Among(RawQuery(data, h, w, Len(data)), {r \in ToSet(data) : r.place # None}) = Trajectory(data, h, w)
  <2>1. PICK K : K = {i \in L : data[i].hex = h}
    OBVIOUS
  <2>2. Trajectory(data, h, w) = Select(data, K, Earlier(data))
    BY <1>1, <2>1 DEF Trajectory, Shown
  <2>3. K \in SUBSET (DOMAIN data) /\ IsOrder(K, Earlier(data))
    BY <1>5, <2>1, OrdersHere
  <2>4. \A i \in DOMAIN data : data[i] \in ToSet(data) /\ data[i].hex \in Int
    BY RowFacts DEF ToSet
  <2>5. Among(S, {r \in ToSet(data) : r.hex = h}) = Select(data, K, Earlier(data))
    <3>1. PICK V : V = {r \in ToSet(data) : r.hex = h}
      OBVIOUS
    <3>2. K = {i \in L : data[i] \in V}
      BY <1>5, <2>1, <2>4, <3>1
    <3>3. \A i, j \in K : i \in ByAircraft(data)[j] <=> i \in Earlier(data)[j]
      <4>1. \A i, j \in DOMAIN data : i \in ByAircraft(data)[j] <=>
              data[i].hex < data[j].hex \/ (data[i].hex = data[j].hex /\ i \in Earlier(data)[j])
        BY DEF ByAircraft
      <4>2. \A i, j \in K : i \in DOMAIN data /\ j \in DOMAIN data /\ data[i].hex = h /\ data[j].hex = h /\ h \in Int
        BY <2>1, <2>3, <2>4
      <4>3. h \in Int => ~(h < h)
        OBVIOUS
      <4> QED BY <4>1, <4>2, <4>3
    <3> QED BY <1>5, <1>6, <2>3, <3>1, <3>2, <3>3, AmongSelect
  <2>6. PICK R, J : J = {i \in Within(data, w) : data[i].hex = h} /\ R = Select(data, J, Earlier(data))
    OBVIOUS
  <2>7. J \in SUBSET (DOMAIN data) /\ IsOrder(J, Earlier(data))
    <3>1. J \in SUBSET (DOMAIN data)
      BY <2>6 DEF Within
    <3> QED BY <3>1, OrdersHere
  <2>8. R \in Seq(Reported) /\ Len(R) <= Len(data)
    <3>1. Select(data, J, Earlier(data)) \in Seq(Reported)
      BY <2>7, SelectIs
    <3>2. Len(Select(data, J, Earlier(data))) = Cardinality(J) /\ Cardinality(J) <= Len(data)
      BY <2>7, SelectIs
    <3> QED BY <2>6, <3>1, <3>2
  <2>9. RawQuery(data, h, w, Len(data)) = R
    BY <1>5, <2>6, <2>8, FirstRowsAre DEF RawQuery
  <2>10. Among(R, {r \in ToSet(data) : r.place # None}) = Select(data, K, Earlier(data))
    <3>1. PICK V : V = {r \in ToSet(data) : r.place # None}
      OBVIOUS
    <3>2. K = {i \in J : data[i] \in V}
      BY <1>1, <2>1, <2>4, <2>6, <3>1 DEF Shown, Within, Located
    <3> QED BY <2>3, <2>6, <2>7, <3>1, <3>2, AmongSelect
  <2> QED BY <2>2, <2>5, <2>9, <2>10
<1>15. Len(S) = Len(A) /\ Len(A) = Cardinality(Within(data, w) \cap Located(data))
  BY <1>1, <1>4, <1>7 DEF Shown
<1> QED BY <1>1, <1>2, <1>3, <1>6, <1>10, <1>11, <1>12, <1>13, <1>14, <1>15 DEF TracksAgree

-----------------------------------------------------------------------------
(* Quotients.                                                              *)

LEMMA DivMod ==
  ASSUME NEW a \in Int, NEW d \in Nat \ {0}
  PROVE  /\ a \div d \in Int /\ a % d \in 0..(d - 1)
         /\ a = d * (a \div d) + (a % d)
<1>1. a \div d \in Int /\ a % d \in 0..(d - 1)
  OBVIOUS
<1>2. a = d * (a \div d) + (a % d)
  BY Z3
<1> QED BY <1>1, <1>2

LEMMA DivMonotone ==
  ASSUME NEW a \in Int, NEW b \in Int, NEW d \in Nat \ {0}, a <= b
  PROVE  a \div d <= b \div d
<1>1. PICK p \in Int, q \in Int : p = a \div d /\ q = b \div d
  BY DivMod
<1>2. PICK r \in 0..(d - 1), s \in 0..(d - 1) : a = d * p + r /\ b = d * q + s
  <2>1. a % d \in 0..(d - 1) /\ a = d * p + (a % d)
    BY <1>1, DivMod, Zenon
  <2>2. b % d \in 0..(d - 1) /\ b = d * q + (b % d)
    BY <1>1, DivMod, Zenon
  <2> QED BY <2>1, <2>2, Zenon
<1>3. ASSUME q < p PROVE FALSE
  <2>1. PICK e \in Nat : p = q + 1 + e
    <3>1. p - q - 1 \in Nat /\ p = q + 1 + (p - q - 1)
      BY <1>3
    <3> QED BY <3>1
  <2>2. d * p = d * q + d + d * e
    BY <2>1
  <2>3. d * e >= 0
    BY <2>1
  <2>4. d * p \in Int /\ d * q \in Int /\ d * e \in Int
    BY <2>1
  <2>5. PICK x \in Int, y \in Int, z \in Int : x = d * p /\ y = d * q /\ z = d * e
    BY <2>4
  <2>6. x = y + d + z /\ z >= 0 /\ a = x + r /\ b = y + s
    BY <1>2, <2>2, <2>3, <2>5
  <2> QED BY <2>6
<1> QED BY <1>1, <1>3

\* A row is at most half a bucket from its bucket.
LEMMA QuotientNear ==
  ASSUME NEW at \in Int, NEW width \in Nat \ {0}
  PROVE  /\ Quotient(at, width) \in Int
         /\ 2 * (at - Quotient(at, width) * width) <= width
         /\ 2 * (Quotient(at, width) * width - at) <= width
<1>1. PICK q \in Int, m \in 0..(width - 1) : q = at \div width /\ m = at % width
  BY DivMod
<1>2. at = width * q + m
  BY <1>1, DivMod
<1>3. Quotient(at, width) = IF 2 * m < width \/ (2 * m = width /\ q % 2 = 0) THEN q ELSE q + 1
  BY <1>1 DEF Quotient
<1>4. (q + 1) * width = width * q + width /\ q * width = width * q /\ width * q \in Int
  BY <1>1
<1>5. PICK b \in Int : b = width * q
  BY <1>4
<1>6. CASE 2 * m < width \/ (2 * m = width /\ q % 2 = 0)
  <2>1. Quotient(at, width) = q
    BY <1>3, <1>6
  <2>2. at = b + m /\ Quotient(at, width) * width = b
    BY <1>2, <1>4, <1>5, <2>1
  <2>3. 2 * m <= width
    BY <1>6
  <2>4. 2 * (at - b) <= width /\ 2 * (b - at) <= width
    BY <2>2, <2>3
  <2> QED BY <2>1, <2>2, <2>4
<1>7. CASE ~(2 * m < width \/ (2 * m = width /\ q % 2 = 0))
  <2>1. Quotient(at, width) = q + 1
    BY <1>3, <1>7
  <2>2. at = b + m /\ Quotient(at, width) * width = b + width
    BY <1>2, <1>4, <1>5, <2>1
  <2>3. 2 * m >= width
    BY <1>7
  <2>4. 2 * (at - (b + width)) <= width /\ 2 * (b + width - at) <= width
    BY <2>2, <2>3
  <2> QED BY <2>1, <2>2, <2>4
<1> QED BY <1>6, <1>7

\* A sector is centred on its bearing.
THEOREM SectorsAreCentred == SectorsCentred
<1> SUFFICES ASSUME NEW bearing \in -180..180
             PROVE  LET off == (bearing - 10 * Sector(bearing) + 720) % 360
                    IN  Sector(bearing) \in 0..35 /\ (off <= 5 \/ off >= 355)
  BY DEF SectorsCentred
<1>1. PICK c \in Int : c = (bearing + 365) % 360
  OBVIOUS
<1>2. c \in 0..359 /\ (c = bearing + 365 \/ c = bearing + 5)
  BY <1>1
<1>3. PICK s \in Int : s = c \div 10
  BY <1>2
<1>4. Sector(bearing) = s
  BY <1>1, <1>3 DEF Sector
<1>5. s \in 0..35 /\ 10 * s <= c /\ c <= 10 * s + 9
  BY <1>2, <1>3
<1>6. PICK off \in Int : off = (bearing - 10 * s + 720) % 360
  BY <1>3
<1>7. off <= 5 \/ off >= 355
  BY <1>2, <1>5, <1>6
<1> QED BY <1>4, <1>5, <1>6, <1>7

THEOREM AnswersAreAlike ==
  ASSUME NEW answer
  PROVE  AnswersAlike(answer)
BY DEF AnswersAlike, Dispatch, ToolAnswer, CommandAnswer

-----------------------------------------------------------------------------
(* The charts.                                                             *)

\* What is counted by a key is counted once.
Tally(N, H, key) == [h \in H |-> Cardinality({i \in N : key[i] = h})]
LEMMA CountedOnce ==
  ASSUME NEW N, IsFiniteSet(N), NEW H, IsFiniteSet(H), NEW key \in [N -> H],
         NEW f, f = Tally(N, H, key)
  PROVE  f \in [H -> Nat] /\ SumFunction(f) = Cardinality(N)
<1> DEFINE Of(M) == [h \in H |-> Cardinality({i \in M : key[i] = h})]
           G == {M \in SUBSET N : SumFunction(Of(M)) = Cardinality(M)}
<1>1. ASSUME NEW M \in SUBSET N, NEW h \in H
      PROVE  IsFiniteSet({i \in M : key[i] = h}) /\ Cardinality({i \in M : key[i] = h}) \in Nat
  <2>1. {i \in M : key[i] = h} \in SUBSET N
    OBVIOUS
  <2> QED BY <2>1, FS_Subset, FS_CardinalityType
<1>2. \A M \in SUBSET N : Of(M) \in [H -> Nat]
  BY <1>1
<1>3. ASSUME NEW M \in SUBSET N, \A i \in M : M \ {i} \in G PROVE M \in G
  <2>1. CASE M = {}
    <3>1. \A h \in H : Of(M)[h] = 0
      BY <2>1, FS_EmptySet
    <3>2. PICK g : g = Of(M)
      OBVIOUS
    <3>3. g \in [H -> Nat] /\ \A h \in H : g[h] = 0
      BY <1>2, <3>1, <3>2
    <3>4. Places(g, H) = {}
      BY <3>3 DEF Places
    <3>5. SumFunction(g) = Cardinality(Places(g, H))
      BY <3>3, SumIsCount
    <3> QED BY <2>1, <3>2, <3>4, <3>5, FS_EmptySet
  <2>2. CASE M # {}
    <3>1. PICK i \in M : TRUE
      BY <2>2
    <3>2. PICK a \in H : a = key[i]
      OBVIOUS
    <3>3. PICK g, e : g = Of(M) /\ e = Of(M \ {i})
      OBVIOUS
    <3>4. g \in [H -> Nat] /\ e \in [H -> Nat]
      BY <1>2, <3>3
    <3>5. g[a] = e[a] + 1
      <4>1. PICK T, U : T = {j \in M : key[j] = a} /\ U = {j \in M \ {i} : key[j] = a}
        OBVIOUS
      <4>2. T = U \cup {i} /\ i \notin U
        BY <3>1, <3>2, <4>1
      <4>3. IsFiniteSet(U)
        BY <1>1, <4>1
      <4>4. Cardinality(T) = Cardinality(U) + 1
        BY <4>2, <4>3, FS_AddElement
      <4>5. g[a] = Cardinality(T) /\ e[a] = Cardinality(U)
        BY <3>3, <4>1
      <4> QED BY <4>4, <4>5
    <3>6. \A h \in H \ {a} : g[h] = e[h]
      <4> SUFFICES ASSUME NEW h \in H \ {a} PROVE g[h] = e[h]
        OBVIOUS
      <4>1. {j \in M : key[j] = h} = {j \in M \ {i} : key[j] = h}
        BY <3>2
      <4> QED BY <3>3, <4>1
    <3>7. SumFunction(g) = SumFunction(e) + 1
      BY <3>4, <3>5, <3>6, SumAtPoint
    <3>8. SumFunction(e) = Cardinality(M \ {i})
      BY <1>3, <3>3
    <3>9. Cardinality(M) = Cardinality(M \ {i}) + 1
      <4>1. IsFiniteSet(M) /\ Cardinality(M) \in Nat
        BY FS_Subset, FS_CardinalityType
      <4>2. Cardinality(M \ {i}) = Cardinality(M) - 1
        BY <3>1, <4>1, FS_RemoveElement
      <4> QED BY <4>1, <4>2
    <3> QED BY <3>3, <3>7, <3>8, <3>9
  <2> QED BY <2>1, <2>2
<1>4. N \in G
  <2> HIDE DEF G
  <2> QED BY <1>3, SubsetInduction
<1> QED BY <1>2, <1>4 DEF Tally

\* A list of values has no more than a list of places.
LEMMA ValuesAtMost ==
  ASSUME NEW I, IsFiniteSet(I), NEW F, NEW T, T = {F[i] : i \in I}
  PROVE  IsFiniteSet(T) /\ Cardinality(T) <= Cardinality(I) /\ Cardinality(T) \in Nat /\ Cardinality(I) \in Nat
<1>1. PICK g : g = [i \in I |-> F[i]]
  OBVIOUS
<1>2. g \in [I -> T] /\ \A y \in T : \E i \in I : g[i] = y
  BY <1>1
<1> QED BY <1>2, ImageSize

HexAt(data, I) == {data[i].hex : i \in I}
TimesAt(data, I) == {data[i].at : i \in I}
OfAircraft(data, w, h) == {i \in Within(data, w) : data[i].hex = h}

LEMMA HexFewer ==
  ASSUME NEW data, NEW I, IsFiniteSet(I)
  PROVE  IsFiniteSet(HexAt(data, I)) /\ Cardinality(HexAt(data, I)) <= Cardinality(I)
         /\ Cardinality(HexAt(data, I)) \in Nat /\ Cardinality(I) \in Nat
<1>1. PICK g : g = [i \in I |-> data[i].hex]
  OBVIOUS
<1>2. g \in [I -> HexAt(data, I)] /\ \A y \in HexAt(data, I) : \E i \in I : g[i] = y
  BY <1>1 DEF HexAt
<1> QED BY <1>2, ImageSize

LEMMA TimesFew ==
  ASSUME NEW data, NEW I, IsFiniteSet(I)
  PROVE  IsFiniteSet(TimesAt(data, I))
<1>1. PICK g : g = [i \in I |-> data[i].at]
  OBVIOUS
<1>2. g \in [I -> TimesAt(data, I)] /\ \A y \in TimesAt(data, I) : \E i \in I : g[i] = y
  BY <1>1 DEF TimesAt
<1> QED BY <1>2, ImageSize

LEMMA SummaryIs ==
  ASSUME NEW data, NEW w
  PROVE  AircraftSummary(data, w) =
           [h \in HexAt(data, Within(data, w)) |->
              [count |-> Cardinality(OfAircraft(data, w, h)),
               first |-> Least(TimesAt(data, OfAircraft(data, w, h))),
               last |-> Greatest(TimesAt(data, OfAircraft(data, w, h)))]]
BY DEF AircraftSummary, HexAt, TimesAt, OfAircraft

\* The aircraft list has the rows of the window once each.
LEMMA SummaryCounts ==
  ASSUME NEW data \in Seq(Reported), NEW w, NEW summary, summary = AircraftSummary(data, w)
  PROVE  SumFunction([h \in DOMAIN summary |-> summary[h].count]) = Cardinality(Within(data, w))
<1>1. PICK N, H : N = Within(data, w) /\ H = HexAt(data, N)
  OBVIOUS
<1>2. IsFiniteSet(N) /\ IsFiniteSet(H)
  BY <1>1, ShownAre, HexFewer
<1>3. PICK key : key = [i \in N |-> data[i].hex]
  OBVIOUS
<1>4. key \in [N -> H]
  BY <1>1, <1>3 DEF HexAt
<1>5. DOMAIN summary = H /\ \A h \in H : summary[h].count = Cardinality(OfAircraft(data, w, h))
  BY <1>1, SummaryIs
<1>6. PICK f : f = [h \in DOMAIN summary |-> summary[h].count]
  OBVIOUS
<1>7. \A h \in H : OfAircraft(data, w, h) = {i \in N : key[i] = h}
  BY <1>1, <1>3 DEF OfAircraft
<1>8. f = Tally(N, H, key)
  BY <1>5, <1>6, <1>7 DEF Tally
<1> QED BY <1>1, <1>2, <1>4, <1>6, <1>8, CountedOnce

\* It begins and ends where the database does.
LEMMA SummaryInside ==
  ASSUME NEW data \in Seq(Reported), NEW w, NEW summary, summary = AircraftSummary(data, w),
         NEW stats, stats = Stats(data, data, SegmentsOf(data)), NEW h \in DOMAIN summary
  PROVE  stats.oldest <= summary[h].first /\ summary[h].last <= stats.newest
<1>1. PICK I : I = OfAircraft(data, w, h)
  OBVIOUS
<1>2. h \in HexAt(data, Within(data, w)) /\ summary[h].first = Least(TimesAt(data, I))
      /\ summary[h].last = Greatest(TimesAt(data, I))
  BY <1>1, SummaryIs
<1>3. PICK i \in Within(data, w) : h = data[i].hex
  BY <1>2 DEF HexAt
<1>4. Within(data, w) \in SUBSET (DOMAIN data) /\ IsFiniteSet(Within(data, w))
  BY ShownAre
<1>5. I \in SUBSET (DOMAIN data) /\ IsFiniteSet(I) /\ i \in I
  <2>1. I \in SUBSET Within(data, w)
    BY <1>1 DEF OfAircraft
  <2>2. i \in I
    BY <1>1, <1>3 DEF OfAircraft
  <2> QED BY <1>4, <2>1, <2>2, FS_Subset
<1>6. PICK T, A : T = TimesAt(data, I) /\ A = TimesAt(data, DOMAIN data)
  OBVIOUS
<1>7. IsFiniteSet(DOMAIN data)
  <2>1. PICK n \in Nat : DOMAIN data = 1..n
    BY RowFacts
  <2> QED BY <2>1, BelowOrders
<1>8. IsFiniteSet(T) /\ IsFiniteSet(A)
  BY <1>5, <1>6, <1>7, TimesFew
<1>9. T \in SUBSET A /\ A \in SUBSET Int /\ T # {}
  BY <1>5, <1>6, RowFacts DEF TimesAt
<1>10. /\ Least(T) \in T /\ Greatest(T) \in T
       /\ \A x \in A : Least(A) <= x /\ x <= Greatest(A)
  <2>1. T \in SUBSET Int /\ A # {}
    BY <1>9
  <2> QED BY <1>8, <1>9, <2>1, Extremes
<1>11. stats.oldest = Least(A) /\ stats.newest = Greatest(A)
  <2>1. data # <<>>
    BY <1>5
  <2>2. A = {r.at : r \in ToSet(data)}
    BY <1>6 DEF TimesAt, ToSet
  <2> QED BY <2>1, <2>2 DEF Stats
<1> QED BY <1>2, <1>6, <1>9, <1>10, <1>11

HourAt(t) == t \div HourLength
InHour(data, w, h) == {i \in Within(data, w) : HourAt(data[i].at) = h}
HourSet(data, w) == {HourAt(data[i].at) : i \in Within(data, w)}
Crossing(F, w) == {i \in DOMAIN F : Overlaps(F[i], w)}
LastsIn(f) == HourAt(f.first)..HourAt(f.last)
HeatHours(data, F, w) ==
  HourSet(data, w) \cup HourSet(data, w) \cup UNION {LastsIn(F[i]) : i \in Crossing(F, w)}
InAir(F, w, h) == {i \in Crossing(F, w) : h \in LastsIn(F[i])}

LEMMA HeatIs ==
  ASSUME NEW data, NEW F, NEW w
  PROVE  Heatmap(data, data, F, w) =
           [h \in HeatHours(data, F, w) |->
              [aircraft |-> Cardinality(HexAt(data, InHour(data, w, h))),
               messages |-> Cardinality(InHour(data, w, h)),
               raw |-> Cardinality(InHour(data, w, h)),
               flights |-> Cardinality(InAir(F, w, h))]]
BY DEF Heatmap, HourAt, InHour, HourSet, Crossing, LastsIn, HeatHours, HexAt, InAir

LEMMA FlightsFew ==
  ASSUME NEW data \in Seq(Reported), NEW w, NEW F, F = SegmentsOf(data)
  PROVE  /\ IsFiniteSet(Crossing(F, w)) /\ \A i \in DOMAIN F : F[i] \in Flown /\ F[i].first \in Int /\ F[i].last \in Int
         /\ \E n \in Nat : DOMAIN F = 1..n
<1>1. F \in Seq(Flown)
  BY FlightsAre
<1>2. PICK n \in Nat : DOMAIN F = 1..n
  BY <1>1
<1>3. Crossing(F, w) \in SUBSET (1..n)
  BY <1>2 DEF Crossing
<1>4. IsFiniteSet(Crossing(F, w))
  BY <1>3, BelowOrders
<1>5. \A i \in DOMAIN F : F[i] \in Flown
  BY <1>1
<1> QED BY <1>2, <1>4, <1>5 DEF Flown

LEMMA HourType ==
  ASSUME NEW t \in Int
  PROVE  HourAt(t) \in Int
BY DivMod, QueriesAssumption DEF HourAt

LEMMA HoursFinite ==
  ASSUME NEW data \in Seq(Reported), NEW w, NEW F, F = SegmentsOf(data)
  PROVE  IsFiniteSet(HeatHours(data, F, w))
<1>1. IsFiniteSet(HourSet(data, w))
  <2>1. PICK g : g = [i \in Within(data, w) |-> HourAt(data[i].at)]
    OBVIOUS
  <2>2. g \in [Within(data, w) -> HourSet(data, w)] /\ \A y \in HourSet(data, w) : \E i \in Within(data, w) : g[i] = y
    BY <2>1 DEF HourSet
  <2>3. IsFiniteSet(Within(data, w))
    BY ShownAre
  <2> QED BY <2>2, <2>3, ImageSize
<1>2. PICK C, S : C = Crossing(F, w) /\ S = {LastsIn(F[i]) : i \in C}
  OBVIOUS
<1>3. IsFiniteSet(S)
  <2>1. PICK g : g = [i \in C |-> LastsIn(F[i])]
    OBVIOUS
  <2>2. g \in [C -> S] /\ \A y \in S : \E i \in C : g[i] = y
    BY <1>2, <2>1
  <2>3. IsFiniteSet(C)
    BY <1>2, FlightsFew
  <2> QED BY <2>2, <2>3, ImageSize
<1>4. ASSUME NEW T \in S PROVE IsFiniteSet(T)
  <2>1. PICK i \in C : T = LastsIn(F[i])
    BY <1>2
  <2>2. i \in DOMAIN F
    BY <1>2 DEF Crossing
  <2>3. F[i].first \in Int /\ F[i].last \in Int
    BY <2>2, FlightsFew
  <2>4. PICK a \in Int, b \in Int : a = HourAt(F[i].first) /\ b = HourAt(F[i].last)
    BY <2>3, HourType
  <2>5. T = a..b
    BY <2>1, <2>4 DEF LastsIn
  <2> QED BY <2>5, FS_Interval
<1>5. IsFiniteSet(UNION S)
  BY <1>3, <1>4, FS_UNION
<1>6. PICK A, U : A = HourSet(data, w) /\ U = UNION S
  OBVIOUS
<1>7. IsFiniteSet(A \cup U)
  BY <1>1, <1>5, <1>6, FS_Union
<1>8. HeatHours(data, F, w) = A \cup U
  BY <1>2, <1>6 DEF HeatHours
<1> QED BY <1>7, <1>8

\* The heatmap has the rows of the window once each.
LEMMA HeatCounts ==
  ASSUME NEW data \in Seq(Reported), NEW w, NEW F, F = SegmentsOf(data),
         NEW heat, heat = Heatmap(data, data, F, w)
  PROVE  SumFunction([h \in DOMAIN heat |-> heat[h].messages]) = Cardinality(Within(data, w))
<1>1. PICK N, H : N = Within(data, w) /\ H = HeatHours(data, F, w)
  OBVIOUS
<1>2. IsFiniteSet(N) /\ IsFiniteSet(H)
  BY <1>1, ShownAre, HoursFinite
<1>3. PICK key : key = [i \in N |-> HourAt(data[i].at)]
  OBVIOUS
<1>4. key \in [N -> H]
  <2>1. \A i \in N : HourAt(data[i].at) \in H
    BY <1>1 DEF HeatHours, HourSet
  <2> QED BY <1>3, <2>1
<1>5. DOMAIN heat = H /\ \A h \in H : heat[h].messages = Cardinality(InHour(data, w, h))
  BY <1>1, HeatIs
<1>6. PICK f : f = [h \in DOMAIN heat |-> heat[h].messages]
  OBVIOUS
<1>7. \A h \in H : InHour(data, w, h) = {i \in N : key[i] = h}
  BY <1>1, <1>3 DEF InHour
<1>8. f = Tally(N, H, key)
  BY <1>5, <1>6, <1>7 DEF Tally
<1> QED BY <1>1, <1>2, <1>4, <1>6, <1>8, CountedOnce

\* No hour has more aircraft than rows, or than flights.
LEMMA HeatBounds ==
  ASSUME NEW data \in Seq(Reported), NEW w \in Span, NEW F, F = SegmentsOf(data),
         NEW heat, heat = Heatmap(data, data, F, w), NEW h \in DOMAIN heat
  PROVE  heat[h].aircraft <= heat[h].messages /\ heat[h].aircraft <= heat[h].flights
<1>1. PICK I, K : I = InHour(data, w, h) /\ K = InAir(F, w, h)
  OBVIOUS
<1>2. heat[h].aircraft = Cardinality(HexAt(data, I)) /\ heat[h].messages = Cardinality(I)
      /\ heat[h].flights = Cardinality(K)
  BY <1>1, HeatIs
<1>3. IsFiniteSet(I) /\ I \in SUBSET Within(data, w)
  <2>1. I \in SUBSET Within(data, w)
    BY <1>1 DEF InHour
  <2> QED BY <2>1, ShownAre, FS_Subset
<1>4. IsFiniteSet(K) /\ K \in SUBSET Crossing(F, w)
  <2>1. K \in SUBSET Crossing(F, w)
    BY <1>1 DEF InAir
  <2> QED BY <2>1, FlightsFew, FS_Subset
<1>5. HexAt(data, I) \in SUBSET HexAt(F, K)
  <2> SUFFICES ASSUME NEW i \in I PROVE \E j \in K : F[j].hex = data[i].hex
    BY DEF HexAt
  <2>1. i \in Within(data, w) /\ i \in DOMAIN data /\ HourAt(data[i].at) = h
    BY <1>1, <1>3, ShownAre DEF InHour
  <2>2. PICK j \in DOMAIN F : OnFlight(data[i], F[j])
    BY <2>1, OneFlight
  <2>3. PICK t \in Int, a \in Int, b \in Int : t = data[i].at /\ a = F[j].first /\ b = F[j].last
    BY <2>1, FlightsFew, RowFacts
  <2>4. a <= t /\ t <= b /\ F[j].hex = data[i].hex
    BY <2>2, <2>3 DEF OnFlight
  <2>5. HourAt(a) <= h /\ h <= HourAt(b) /\ HourAt(a) \in Int /\ HourAt(b) \in Int /\ h \in Int
    <3>1. HourLength \in Nat \ {0}
      BY QueriesAssumption
    <3>2. HourAt(a) <= HourAt(t) /\ HourAt(t) <= HourAt(b)
      BY <2>4, <3>1, DivMonotone DEF HourAt
    <3> QED BY <2>1, <2>3, <3>2, HourType
  <2>6. h \in LastsIn(F[j])
    BY <2>3, <2>5 DEF LastsIn
  <2>7. F[j] \in Flown
    BY <2>2, FlightsFew
  <2>8. Overlaps(F[j], w)
    BY <2>1, <2>2, <2>7, OnMeansOverlaps
  <2>9. j \in K
    BY <1>1, <2>6, <2>8 DEF InAir, Crossing
  <2> QED BY <2>4, <2>9
<1>6. /\ IsFiniteSet(HexAt(F, K)) /\ Cardinality(HexAt(F, K)) <= Cardinality(K)
      /\ Cardinality(HexAt(F, K)) \in Nat /\ Cardinality(K) \in Nat
  BY <1>4, HexFewer
<1>7. /\ Cardinality(HexAt(data, I)) <= Cardinality(I)
      /\ Cardinality(HexAt(data, I)) \in Nat /\ Cardinality(I) \in Nat
  BY <1>3, HexFewer
<1>8. Cardinality(HexAt(data, I)) <= Cardinality(HexAt(F, K))
  BY <1>5, <1>6, FS_Subset
<1>9. Cardinality(HexAt(data, I)) <= Cardinality(K)
  BY <1>6, <1>7, <1>8
<1> QED BY <1>2, <1>7, <1>9

-----------------------------------------------------------------------------
(* The sectors.                                                            *)

FlightsOn(data, F, i) == {j \in DOMAIN F : OnFlight(data[i], F[j])}
Paired(data, F, w) ==
  UNION {IF FlightsOn(data, F, i) = {} THEN {<<i, 0>>} ELSE {i} \X FlightsOn(data, F, i) : i \in Shown(data, w)}
InSector(data, F, w, s) == {p \in Paired(data, F, w) : Sector(data[p[1]].place) = s}
Seconds(P) == {p[2] : p \in P}

LEMMA SectorsAre ==
  ASSUME NEW data, NEW F, NEW w
  PROVE  DetectionRange(data, F, w) =
           [s \in 0..35 |-> [count |-> Cardinality(InSector(data, F, w, s)),
                             flights |-> Cardinality(Seconds(InSector(data, F, w, s)) \ {0})]]
BY DEF DetectionRange, InSector, Paired, FlightsOn, Shown, Seconds

LEMMA JoinedOnce ==
  ASSUME NEW data \in Seq(Reported), NEW w, NEW F, F = SegmentsOf(data)
  PROVE  /\ IsFiniteSet(Paired(data, F, w)) /\ Cardinality(Paired(data, F, w)) = Cardinality(Shown(data, w))
         /\ \A p \in Paired(data, F, w) : p[1] \in Shown(data, w)
<1>1. PICK L, J : L = Shown(data, w) /\ J = Paired(data, F, w)
  OBVIOUS
<1>2. L \in SUBSET (DOMAIN data) /\ IsFiniteSet(L)
  BY <1>1, ShownAre
<1>3. PICK to : to = [i \in L |-> CHOOSE j \in DOMAIN F : OnFlight(data[i], F[j])]
  OBVIOUS
<1>4. \A i \in L : FlightsOn(data, F, i) = {to[i]}
  <2> SUFFICES ASSUME NEW i \in L PROVE FlightsOn(data, F, i) = {to[i]}
    OBVIOUS
  <2>1. PICK j \in DOMAIN F : OnFlight(data[i], F[j]) /\ \A k \in DOMAIN F : OnFlight(data[i], F[k]) => k = j
    BY <1>2, OneFlight
  <2>2. to[i] = j
    BY <1>3, <2>1
  <2> QED BY <2>1, <2>2 DEF FlightsOn
<1>5. J = {<<i, to[i]>> : i \in L}
  <2>1. \A i \in L : (IF FlightsOn(data, F, i) = {} THEN {<<i, 0>>} ELSE {i} \X FlightsOn(data, F, i)) = {<<i, to[i]>>}
    <3>1. \A i, x : {i} \X {x} = {<<i, x>>} /\ {x} # {}
      OBVIOUS
    <3> SUFFICES ASSUME NEW i \in L
                 PROVE  (IF FlightsOn(data, F, i) = {} THEN {<<i, 0>>} ELSE {i} \X FlightsOn(data, F, i)) = {<<i, to[i]>>}
      OBVIOUS
    <3>2. FlightsOn(data, F, i) # {}
      BY <1>4, <3>1, Zenon
    <3>3. {i} \X FlightsOn(data, F, i) = {<<i, to[i]>>}
      BY <1>4, <3>1, Zenon
    <3> QED BY <3>2, <3>3, Zenon
  <2>2. J = UNION {{<<i, to[i]>>} : i \in L}
    BY <1>1, <2>1 DEF Paired
  <2> QED BY <2>2
<1>6. PICK f : f = [i \in L |-> <<i, to[i]>>]
  OBVIOUS
<1>7. f \in [L -> J] /\ (\A i, j \in L : f[i] = f[j] => i = j) /\ \A p \in J : \E i \in L : f[i] = p
  BY <1>5, <1>6
<1>8. IsFiniteSet(J) /\ Cardinality(J) = Cardinality(L)
  BY <1>2, <1>7, SameSize
<1>9. \A p \in J : p[1] \in L
  BY <1>5
<1> QED BY <1>1, <1>8, <1>9

\* The sectors have the rows with a place once each, and not more flights than rows.
LEMMA SectorsCount ==
  ASSUME NEW data \in Seq(Reported), NEW w, NEW F, F = SegmentsOf(data),
         NEW sectors, sectors = DetectionRange(data, F, w)
  PROVE  /\ SumFunction([s \in DOMAIN sectors |-> sectors[s].count]) = Cardinality(Shown(data, w))
         /\ \A s \in DOMAIN sectors : sectors[s].flights <= sectors[s].count
<1>1. PICK J, H : J = Paired(data, F, w) /\ H = 0..35
  OBVIOUS
<1>2. IsFiniteSet(J) /\ IsFiniteSet(H) /\ Cardinality(J) = Cardinality(Shown(data, w))
  <2>1. IsFiniteSet(0..35)
    <3>1. \A n \in Nat : IsFiniteSet(0..n)
      BY FS_Interval
    <3> QED BY <3>1
  <2>2. IsFiniteSet(J) /\ Cardinality(J) = Cardinality(Shown(data, w))
    BY <1>1, JoinedOnce
  <2> QED BY <1>1, <2>1, <2>2
<1>3. PICK key : key = [p \in J |-> Sector(data[p[1]].place)]
  OBVIOUS
<1>4. key \in [J -> H]
  <2> SUFFICES ASSUME NEW p \in J PROVE Sector(data[p[1]].place) \in 0..35
    BY <1>1, <1>3
  <2>1. p[1] \in Shown(data, w)
    BY <1>1, JoinedOnce
  <2>2. p[1] \in DOMAIN data /\ data[p[1]].place # None
    BY <2>1, ShownAre DEF Shown, Located
  <2>3. data[p[1]].place \in -180..180
    BY <2>2, RowFacts
  <2> QED BY <2>3, SectorsAreCentred DEF SectorsCentred
<1>5. /\ DOMAIN sectors = H
      /\ \A s \in H : /\ sectors[s].count = Cardinality(InSector(data, F, w, s))
                      /\ sectors[s].flights = Cardinality(Seconds(InSector(data, F, w, s)) \ {0})
  BY <1>1, SectorsAre
<1>6. PICK f : f = [s \in DOMAIN sectors |-> sectors[s].count]
  OBVIOUS
<1>7. \A s \in H : InSector(data, F, w, s) = {p \in J : key[p] = s}
  BY <1>1, <1>3 DEF InSector
<1>8. f = Tally(J, H, key)
  BY <1>5, <1>6, <1>7 DEF Tally
<1>9. SumFunction(f) = Cardinality(J)
  BY <1>2, <1>4, <1>8, CountedOnce
<1>10. ASSUME NEW s \in H PROVE sectors[s].flights <= sectors[s].count
  <2>1. PICK P, T : P = InSector(data, F, w, s) /\ T = Seconds(P)
    OBVIOUS
  <2>2. IsFiniteSet(P)
    <3>1. P \in SUBSET J
      BY <1>1, <2>1 DEF InSector
    <3> QED BY <1>2, <3>1, FS_Subset
  <2>3. IsFiniteSet(T) /\ Cardinality(T) <= Cardinality(P) /\ Cardinality(T) \in Nat /\ Cardinality(P) \in Nat
    <3>1. PICK g : g = [p \in P |-> p[2]]
      OBVIOUS
    <3>2. g \in [P -> T] /\ \A y \in T : \E p \in P : g[p] = y
      BY <2>1, <3>1 DEF Seconds
    <3> QED BY <2>2, <3>2, ImageSize
  <2>4. IsFiniteSet(T \ {0}) /\ Cardinality(T \ {0}) <= Cardinality(T) /\ Cardinality(T \ {0}) \in Nat
    <3>1. T \ {0} \in SUBSET T
      OBVIOUS
    <3> QED BY <2>3, <3>1, FS_Subset, FS_CardinalityType
  <2>5. Cardinality(T \ {0}) <= Cardinality(P)
    BY <2>3, <2>4
  <2> QED BY <1>5, <2>1, <2>5
<1> QED BY <1>2, <1>5, <1>6, <1>9, <1>10

-----------------------------------------------------------------------------
(* The histogram.                                                          *)

Counted(data, q) == {i \in DOMAIN data : data[i].at \in q.start..q.end}
BucketOf(r, width) == Quotient(r.at, width) * width
SpreadOf(f, q, width) == {b * width : b \in (f.first \div width)..(f.last \div width)} \cap (q.start..q.end)
InBucket(data, q, width, b) == {i \in Counted(data, q) : BucketOf(data[i], width) = b}
Buckets(data, q, width) == {BucketOf(data[i], width) : i \in Counted(data, q)}

PositionsIn(data, q, width) ==
  [b \in Buckets(data, q, width) |-> Cardinality(InBucket(data, q, width, b))]
AircraftIn(data, q, width) ==
  [b \in Buckets(data, q, width) |-> Cardinality(HexAt(data, InBucket(data, q, width, b)))]
FlightsIn(F, q, width) ==
  [b \in UNION {SpreadOf(F[i], q, width) : i \in Crossing(F, q)} |->
     Cardinality({i \in Crossing(F, q) : b \in SpreadOf(F[i], q, width)})]

LEMMA DistributionIs ==
  ASSUME NEW data, NEW F, NEW q, NEW width, width = BucketWidth(q), width # 0
  PROVE  /\ TimeDistribution(data, data, F, q, "positions") = PositionsIn(data, q, width)
         /\ TimeDistribution(data, data, F, q, "raw") = PositionsIn(data, q, width)
         /\ TimeDistribution(data, data, F, q, "aircraft") = AircraftIn(data, q, width)
         /\ TimeDistribution(data, data, F, q, "flights") = FlightsIn(F, q, width)
<1>1. TimeDistribution(data, data, F, q, "positions") = PositionsIn(data, q, width)
  BY DEF TimeDistribution, PositionsIn, Buckets, InBucket, BucketOf, Counted
<1>2. TimeDistribution(data, data, F, q, "raw") = PositionsIn(data, q, width)
  BY DEF TimeDistribution, PositionsIn, Buckets, InBucket, BucketOf, Counted
<1>3. TimeDistribution(data, data, F, q, "aircraft") = AircraftIn(data, q, width)
  BY DEF TimeDistribution, AircraftIn, Buckets, InBucket, BucketOf, Counted, HexAt
<1>4. TimeDistribution(data, data, F, q, "flights") = FlightsIn(F, q, width)
  BY DEF TimeDistribution, FlightsIn, SpreadOf, Crossing
<1> QED BY <1>1, <1>2, <1>3, <1>4

\* Without a bucket nothing is counted.
LEMMA NothingCounted ==
  ASSUME NEW data, NEW F, NEW q, BucketWidth(q) = 0
  PROVE  TimeDistribution(data, data, F, q, "positions") = [b \in {} |-> 0]
BY DEF TimeDistribution

LEMMA WidthIs ==
  ASSUME NEW start \in Int, NEW end \in Int, NEW buckets \in Nat,
         NEW q, q = [start |-> start, end |-> end, buckets |-> buckets]
  PROVE  BucketWidth(q) \in Nat
<1>1. q.start = start /\ q.end = end /\ q.buckets = buckets
  OBVIOUS
<1>2. CASE buckets = 0 \/ end <= start
  BY <1>1, <1>2 DEF BucketWidth
<1>3. CASE ~(buckets = 0 \/ end <= start)
  <2>1. PICK d \in Nat : d = end - start
    BY <1>3
  <2>2. d \div buckets \in Int /\ d = buckets * (d \div buckets) + (d % buckets) /\ d % buckets \in 0..(buckets - 1)
    BY <1>3, <2>1, DivMod, SMTT(20)
  <2>3. 0 \div buckets <= d \div buckets
    BY <1>3, <2>1, DivMonotone
  <2>4. 0 \div buckets = 0
    BY <1>3, Z3
  <2>5. d \div buckets \in Nat
    BY <2>2, <2>3, <2>4
  <2>6. BucketWidth(q) = d \div buckets
    BY <1>1, <1>3, <2>1 DEF BucketWidth
  <2> QED BY <2>5, <2>6
<1> QED BY <1>2, <1>3

\* A chart of buckets has the rows of its window once each, in a bucket near their time,
\* and not more aircraft than rows.
LEMMA BucketsCount ==
  ASSUME NEW data \in Seq(Reported), NEW q, NEW width \in Nat \ {0}, NEW counts, NEW aircraft,
         counts = PositionsIn(data, q, width), aircraft = AircraftIn(data, q, width)
  PROVE  /\ SumFunction(counts) = Cardinality(Counted(data, q))
         /\ DOMAIN aircraft = DOMAIN counts /\ \A b \in DOMAIN counts : aircraft[b] <= counts[b]
         /\ \A b \in DOMAIN counts : \E i \in DOMAIN data :
              2 * (data[i].at - b) <= width /\ 2 * (b - data[i].at) <= width
<1>1. PICK N, H : N = Counted(data, q) /\ H = Buckets(data, q, width)
  OBVIOUS
<1>2. N \in SUBSET (DOMAIN data) /\ IsFiniteSet(N)
  <2>1. PICK n \in Nat : DOMAIN data = 1..n
    BY RowFacts
  <2>2. N \in SUBSET (1..n)
    BY <1>1, <2>1 DEF Counted
  <2> QED BY <2>1, <2>2, BelowOrders
<1>3. PICK key : key = [i \in N |-> BucketOf(data[i], width)]
  OBVIOUS
<1>4. key \in [N -> H] /\ \A b \in H : \E i \in N : key[i] = b
  BY <1>1, <1>3 DEF Buckets
<1>5. IsFiniteSet(H)
  BY <1>2, <1>4, ImageSize
<1>6. \A b \in H : InBucket(data, q, width, b) = {i \in N : key[i] = b}
  BY <1>1, <1>3 DEF InBucket
<1>7. counts = Tally(N, H, key)
  BY <1>1, <1>6 DEF Tally, PositionsIn
<1>8. SumFunction(counts) = Cardinality(N)
  BY <1>2, <1>4, <1>5, <1>7, CountedOnce
<1>9. DOMAIN counts = H /\ DOMAIN aircraft = H
  BY <1>1 DEF PositionsIn, AircraftIn
<1>10. ASSUME NEW b \in H PROVE aircraft[b] <= counts[b]
  <2>1. PICK I : I = InBucket(data, q, width, b)
    OBVIOUS
  <2>2. I \in SUBSET N
    BY <1>1, <2>1 DEF InBucket
  <2>3. IsFiniteSet(I)
    BY <1>2, <2>2, FS_Subset
  <2>4. counts[b] = Cardinality(I) /\ aircraft[b] = Cardinality(HexAt(data, I))
    BY <1>1, <2>1 DEF PositionsIn, AircraftIn
  <2> QED BY <2>3, <2>4, HexFewer
<1>11. ASSUME NEW b \in H
       PROVE  \E i \in DOMAIN data : 2 * (data[i].at - b) <= width /\ 2 * (b - data[i].at) <= width
  <2>1. PICK i \in N : b = BucketOf(data[i], width)
    BY <1>1 DEF Buckets
  <2>2. i \in DOMAIN data /\ data[i].at \in Int
    BY <1>2, RowFacts
  <2>3. b = Quotient(data[i].at, width) * width
    BY <2>1 DEF BucketOf
  <2>4. 2 * (data[i].at - b) <= width /\ 2 * (b - data[i].at) <= width
    BY <2>2, <2>3, QuotientNear
  <2> QED BY <2>2, <2>4
<1> QED BY <1>1, <1>8, <1>9, <1>10, <1>11

\* A flight is shown inside the window, and not more of them than the summary names.
LEMMA FlightsSpread ==
  ASSUME NEW data \in Seq(Reported), NEW w, NEW F, F = SegmentsOf(data), NEW q, q.start = w.start, q.end = w.end,
         NEW width, NEW spread, spread = FlightsIn(F, q, width)
  PROVE  /\ DOMAIN spread \subseteq w.start..w.end
         /\ \A b \in DOMAIN spread : spread[b] <= Len(FlightSummary(F, w))
<1>1. \A i \in DOMAIN F : SpreadOf(F[i], q, width) \subseteq w.start..w.end
  BY DEF SpreadOf
<1>2. DOMAIN spread \subseteq w.start..w.end
  BY <1>1 DEF Crossing, FlightsIn
<1>3. Crossing(F, q) = Crossing(F, w)
  BY DEF Crossing, Overlaps
<1>4. Len(FlightSummary(F, w)) = Cardinality(Crossing(F, w))
  <2>1. F \in Seq(Flown)
    BY FlightsAre
  <2>2. Len(FlightSummary(F, w)) = Cardinality(Picked(F, {f \in ToSet(F) : Overlaps(f, w)}))
    BY <2>1, AmongHas DEF FlightSummary
  <2>3. Picked(F, {f \in ToSet(F) : Overlaps(f, w)}) = Crossing(F, w)
    BY DEF Picked, Crossing, ToSet
  <2> QED BY <2>2, <2>3
<1>5. ASSUME NEW b \in DOMAIN spread PROVE spread[b] <= Cardinality(Crossing(F, w))
  <2>1. PICK K : K = {i \in Crossing(F, q) : b \in SpreadOf(F[i], q, width)}
    OBVIOUS
  <2>2. K \in SUBSET Crossing(F, w) /\ spread[b] = Cardinality(K)
    BY <1>3, <2>1 DEF FlightsIn
  <2> QED BY <2>2, FlightsFew, FS_Subset
<1> QED BY <1>2, <1>4, <1>5

THEOREM ChartsAlwaysMeet ==
  ASSUME NEW data \in Seq(Reported), NEW w \in Span, NEW buckets \in Nat
  PROVE  ChartsAgree(data, w, buckets)
<1>1. PICK F, N, heat, summary, sectors, stats :
        /\ F = SegmentsOf(data) /\ N = Within(data, w)
        /\ heat = Heatmap(data, data, F, w) /\ summary = AircraftSummary(data, w)
        /\ sectors = DetectionRange(data, F, w) /\ stats = Stats(data, data, F)
  OBVIOUS
<1>2. SumFunction([h \in DOMAIN summary |-> summary[h].count]) = Cardinality(N)
  BY <1>1, SummaryCounts
<1>3. SumFunction([h \in DOMAIN heat |-> heat[h].messages]) = Cardinality(N)
  BY <1>1, HeatCounts
<1>4. RawCount(data, w) = Cardinality(N)
  BY <1>1 DEF RawCount
<1>5. /\ SumFunction([s \in DOMAIN sectors |-> sectors[s].count]) = Cardinality(Within(data, w) \cap Located(data))
      /\ \A s \in DOMAIN sectors : sectors[s].flights <= sectors[s].count
  BY <1>1, SectorsCount DEF Shown
<1>6. \A h \in DOMAIN heat : heat[h].aircraft <= heat[h].messages /\ heat[h].aircraft <= heat[h].flights
  BY <1>1, HeatBounds
<1>7. \A h \in DOMAIN summary : stats.oldest <= summary[h].first /\ summary[h].last <= stats.newest
  BY <1>1, SummaryInside
<1>8. PICK q, width, counts, aircraft, spread :
        /\ q = [start |-> w.start, end |-> w.end, buckets |-> buckets] /\ width = BucketWidth(q)
        /\ counts = TimeDistribution(data, data, F, q, "positions")
        /\ aircraft = TimeDistribution(data, data, F, q, "aircraft")
        /\ spread = TimeDistribution(data, data, F, q, "flights")
  OBVIOUS
<1>9. ASSUME w.start # None, w.end # None, width # 0
      PROVE  /\ SumFunction(counts) = Cardinality(N)
             /\ TimeDistribution(data, data, F, q, "raw") = counts
             /\ DOMAIN aircraft = DOMAIN counts /\ \A b \in DOMAIN counts : aircraft[b] <= counts[b]
             /\ \A b \in DOMAIN counts : \E i \in DOMAIN data :
                  2 * (data[i].at - b) <= width /\ 2 * (b - data[i].at) <= width
             /\ DOMAIN spread \subseteq w.start..w.end
             /\ \A b \in DOMAIN spread : spread[b] <= Len(FlightSummary(F, w))
  <2>1. w.start \in Int /\ w.end \in Int
    BY <1>9 DEF Span
  <2>2. width \in Nat \ {0}
    BY <1>8, <1>9, <2>1, WidthIs
  <2>3. q.start = w.start /\ q.end = w.end
    BY <1>8
  <2>4. /\ counts = PositionsIn(data, q, width) /\ TimeDistribution(data, data, F, q, "raw") = counts
        /\ aircraft = AircraftIn(data, q, width) /\ spread = FlightsIn(F, q, width)
    BY <1>8, <1>9, DistributionIs
  <2>5. Counted(data, q) = N
    <3>1. \A i \in DOMAIN data : data[i].at \in Int
      BY RowFacts
    <3>2. \A i \in DOMAIN data : data[i].at \in q.start..q.end <=> InWindow(data[i].at, w)
      BY <1>9, <2>1, <2>3, <3>1 DEF InWindow
    <3> QED BY <1>1, <3>2 DEF Counted, Within
  <2>6. /\ SumFunction(counts) = Cardinality(Counted(data, q))
        /\ DOMAIN aircraft = DOMAIN counts /\ \A b \in DOMAIN counts : aircraft[b] <= counts[b]
        /\ \A b \in DOMAIN counts : \E i \in DOMAIN data :
             2 * (data[i].at - b) <= width /\ 2 * (b - data[i].at) <= width
    BY <2>2, <2>4, BucketsCount
  <2>7. /\ DOMAIN spread \subseteq w.start..w.end
        /\ \A b \in DOMAIN spread : spread[b] <= Len(FlightSummary(F, w))
    BY <1>1, <2>3, <2>4, FlightsSpread
  <2> QED BY <2>4, <2>5, <2>6, <2>7
<1>10. ASSUME width = 0 PROVE counts = [b \in {} |-> 0]
  BY <1>8, <1>10, NothingCounted
<1> QED BY <1>1, <1>2, <1>3, <1>4, <1>5, <1>6, <1>7, <1>8, <1>9, <1>10 DEF ChartsAgree

-----------------------------------------------------------------------------
(* The pages.                                                              *)

\* What a page has: the first n by the order; what is not on it comes after all of it.
IsPage(page, data, I, ahead, n) ==
  /\ Len(page) = IF n <= Cardinality(I) THEN n ELSE Cardinality(I)
  /\ \A i \in DOMAIN page : \E k \in I : page[i] = data[k]
  /\ \A j \in I : \/ data[j] \in ToSet(page)
                  \/ Len(page) = n /\ \A i \in DOMAIN page : \E k \in I : page[i] = data[k] /\ k \in ahead[j]
  /\ Len(page) # 0 => \E k \in I : page[1] = data[k] /\ \A j \in I : j = k \/ k \in ahead[j]

LEMMA PageIs ==
  ASSUME NEW B, NEW data \in Seq(B), NEW I \in SUBSET (DOMAIN data), NEW ahead, IsOrder(I, ahead), NEW n \in Nat,
         NEW page, page = FirstRows(Select(data, I, ahead), n)
  PROVE  page \in Seq(B) /\ Cardinality(I) \in Nat /\ IsFiniteSet(I) /\ IsPage(page, data, I, ahead, n)
<1>1. PICK c, p : c \in Nat /\ c = Cardinality(I) /\ p = InOrder(I, ahead)
  BY SelectIs
<1>2. PICK s \in Seq(B) : s = Select(data, I, ahead)
  BY SelectIs
<1>3. Len(s) = c /\ IsFiniteSet(I)
  BY <1>1, <1>2, SelectIs
<1>4. s = [k \in 1..c |-> data[p[k]]]
  BY <1>1, <1>2, SelectIs
<1>5. Sorts(p, I, ahead)
  BY <1>1, SelectIs
<1>6. /\ p \in [1..c -> I] /\ \A i \in I : \E k \in 1..c : p[k] = i
      /\ \A k, l \in 1..c : p[k] \in ahead[p[l]] <=> k < l
  BY <1>1, <1>5 DEF Sorts
<1>7. /\ page \in Seq(B) /\ Len(page) = (IF n <= c THEN n ELSE c)
      /\ \A i \in 1..Len(page) : page[i] = s[i]
  BY <1>2, <1>3, FirstRowsAre
<1>8. PICK m \in Nat : m = Len(page) /\ DOMAIN page = 1..m
  BY <1>7
<1>9. \A i \in 1..m : i \in 1..c /\ page[i] = data[p[i]] /\ p[i] \in I
  <2> SUFFICES ASSUME NEW i \in 1..m PROVE i \in 1..c /\ page[i] = data[p[i]] /\ p[i] \in I
    OBVIOUS
  <2>1. m <= c
    BY <1>7, <1>8
  <2>2. i \in 1..c
    BY <1>1, <1>8, <2>1
  <2>3. page[i] = s[i]
    BY <1>7, <1>8
  <2> QED BY <1>4, <1>6, <2>2, <2>3
<1>10. ASSUME NEW j \in I, data[j] \notin ToSet(page)
       PROVE  m = n /\ \A i \in 1..m : \E k \in I : page[i] = data[k] /\ k \in ahead[j]
  <2>1. PICK l \in 1..c : p[l] = j
    BY <1>6
  <2>2. ~(l \in 1..m)
    BY <1>8, <1>9, <1>10, <2>1 DEF ToSet
  <2>3. m < l
    BY <2>2
  <2>4. m = n
    BY <1>7, <1>8, <2>3
  <2>5. ASSUME NEW i \in 1..m PROVE page[i] = data[p[i]] /\ p[i] \in ahead[j] /\ p[i] \in I
    <3>1. i < l
      BY <2>3
    <3> QED BY <1>6, <1>9, <2>1, <3>1
  <2> QED BY <2>4, <2>5
<1>11. ASSUME m # 0 PROVE \E k \in I : page[1] = data[k] /\ \A j \in I : j = k \/ k \in ahead[j]
  <2>1. 1 \in 1..m
    BY <1>11
  <2>2. page[1] = data[p[1]] /\ p[1] \in I /\ 1 \in 1..c
    BY <1>9, <2>1
  <2>3. ASSUME NEW j \in I PROVE j = p[1] \/ p[1] \in ahead[j]
    <3>1. PICK l \in 1..c : p[l] = j
      BY <1>6
    <3>2. l = 1 \/ 1 < l
      OBVIOUS
    <3> QED BY <1>6, <2>2, <3>1, <3>2
  <2> QED BY <2>2, <2>3
<1>12. Len(page) = IF n <= Cardinality(I) THEN n ELSE Cardinality(I)
  BY <1>1, <1>7
<1>13. \A i \in DOMAIN page : \E k \in I : page[i] = data[k]
  BY <1>8, <1>9, Zenon
<1>14. \A j \in I : \/ data[j] \in ToSet(page)
                    \/ Len(page) = n /\ \A i \in DOMAIN page : \E k \in I : page[i] = data[k] /\ k \in ahead[j]
  <2> SUFFICES ASSUME NEW j \in I, data[j] \notin ToSet(page)
               PROVE  Len(page) = n /\ \A i \in DOMAIN page : \E k \in I : page[i] = data[k] /\ k \in ahead[j]
    OBVIOUS
  <2>1. m = n /\ \A i \in 1..m : \E k \in I : page[i] = data[k] /\ k \in ahead[j]
    BY <1>10
  <2> QED BY <1>8, <2>1
<1>15. Len(page) # 0 => \E k \in I : page[1] = data[k] /\ \A j \in I : j = k \/ k \in ahead[j]
  BY <1>8, <1>11, Zenon
<1>16. page \in Seq(B) /\ Cardinality(I) \in Nat /\ IsFiniteSet(I)
  BY <1>1, <1>3, <1>7, Zenon
<1>17. IsPage(page, data, I, ahead, n)
  BY <1>12, <1>13, <1>14, <1>15, Zenon DEF IsPage
<1> QED BY <1>16, <1>17, Zenon

Stored(Senders) == [at : Int, source : Senders, received : Int]
Keyed(snaps) == \A i, j \in DOMAIN snaps : snaps[i].at = snaps[j].at /\ snaps[i].source = snaps[j].source => i = j

LEMMA StoredFacts ==
  ASSUME NEW Senders, None \notin Senders, NEW snaps \in Seq(Stored(Senders)), NEW w
  PROVE  /\ \E n \in Nat : DOMAIN snaps = 1..n
         /\ \A i \in DOMAIN snaps : /\ snaps[i] \in Stored(Senders) /\ snaps[i].at \in Int /\ snaps[i].received \in Int
                                    /\ snaps[i].source \in Senders /\ snaps[i].source # None
         /\ Within(snaps, w) \in SUBSET (DOMAIN snaps)
         /\ IsOrder(Within(snaps, w), Newer(snaps)) /\ IsOrder(Within(snaps, w), CreatedLater(snaps))
<1>1. PICK n \in Nat : DOMAIN snaps = 1..n
  OBVIOUS
<1>2. \A i \in DOMAIN snaps : snaps[i] \in Stored(Senders)
  OBVIOUS
<1>3. \A r \in Stored(Senders) : r.at \in Int /\ r.received \in Int /\ r.source \in Senders /\ r.source # None
  BY DEF Stored
<1>4. Within(snaps, w) \in SUBSET (DOMAIN snaps)
  BY DEF Within
<1>5. \A i \in DOMAIN snaps : snaps[i].at \in Int /\ snaps[i].received \in Int
  BY <1>2, <1>3
<1>6. IsOrder(Within(snaps, w), Newer(snaps)) /\ IsOrder(Within(snaps, w), CreatedLater(snaps))
  BY <1>1, <1>4, <1>5, RowsOrdered
<1> QED BY <1>1, <1>2, <1>3, <1>4, <1>6

\* The snapshots of an hour: the one of a source is found, and the last received of all.
Matching(snaps, hour, source) == {s \in ToSet(snaps) : s.at = hour /\ (source = None \/ s.source = source)}
LEMMA WeatherFound ==
  ASSUME NEW Senders, None \notin Senders, NEW snaps \in Seq(Stored(Senders)), Keyed(snaps), NEW s \in ToSet(snaps)
  PROVE  /\ GetWeather(snaps, s.at, s.source) = s
         /\ GetWeather(snaps, s.at, None).received >= s.received
<1>1. PICK i \in DOMAIN snaps : s = snaps[i]
  BY DEF ToSet
<1>2. s.source # None /\ s.received \in Int
  BY <1>1, StoredFacts
<1>3. ASSUME NEW source
      PROVE  GetWeather(snaps, s.at, source) =
               IF Matching(snaps, s.at, source) = {} THEN None
               ELSE CHOOSE t \in Matching(snaps, s.at, source) :
                      \A u \in Matching(snaps, s.at, source) : u.received <= t.received
  BY DEF GetWeather, Matching
<1>4. Matching(snaps, s.at, s.source) = {s}
  <2>1. s \in Matching(snaps, s.at, s.source)
    BY DEF Matching
  <2>2. ASSUME NEW t \in Matching(snaps, s.at, s.source) PROVE t = s
    <3>1. t \in ToSet(snaps) /\ t.at = s.at /\ t.source = s.source
      BY <1>2 DEF Matching
    <3>2. PICK j \in DOMAIN snaps : t = snaps[j]
      BY <3>1 DEF ToSet
    <3> QED BY <1>1, <3>1, <3>2 DEF Keyed
  <2> QED BY <2>1, <2>2
<1>5. GetWeather(snaps, s.at, s.source) = s
  <2>1. s.received <= s.received
    BY <1>2
  <2> QED BY <1>3, <1>4, <2>1
<1>6. PICK M : M = Matching(snaps, s.at, None)
  OBVIOUS
<1>7. s \in M /\ M \in SUBSET ToSet(snaps)
  BY <1>6 DEF Matching
<1>8. \A t \in M : t.received \in Int
  <2> SUFFICES ASSUME NEW t \in M PROVE t.received \in Int
    OBVIOUS
  <2>1. PICK j \in DOMAIN snaps : t = snaps[j]
    BY <1>7 DEF ToSet
  <2> QED BY <2>1, StoredFacts
<1>9. \E t \in M : \A u \in M : u.received <= t.received
  <2>1. PICK T : T = {t.received : t \in M}
    OBVIOUS
  <2>2. PICK D : D = {j \in DOMAIN snaps : snaps[j] \in M}
    OBVIOUS
  <2>3. PICK g : g = [j \in D |-> snaps[j].received]
    OBVIOUS
  <2>4. IsFiniteSet(D)
    <3>1. PICK n \in Nat : DOMAIN snaps = 1..n
      BY StoredFacts
    <3>2. D \in SUBSET (1..n)
      BY <2>2, <3>1
    <3> QED BY <3>2, BelowOrders
  <2>5. g \in [D -> T]
    BY <2>1, <2>2, <2>3
  <2>6. \A x \in T : \E j \in D : g[j] = x
    BY <1>7, <2>1, <2>2, <2>3 DEF ToSet
  <2>7. IsFiniteSet(T) /\ T \in SUBSET Int /\ T # {}
    BY <1>7, <1>8, <2>1, <2>4, <2>5, <2>6, ImageSize
  <2>8. Greatest(T) \in T /\ \A x \in T : x <= Greatest(T)
    BY <2>7, Extremes
  <2> QED BY <2>1, <2>8
<1>10. PICK best : best = CHOOSE t \in M : \A u \in M : u.received <= t.received
  OBVIOUS
<1>11. best \in M /\ s.received <= best.received
  BY <1>7, <1>9, <1>10
<1>12. GetWeather(snaps, s.at, None) = best
  BY <1>3, <1>6, <1>7, <1>10
<1>13. best.received >= s.received
  BY <1>2, <1>8, <1>11
<1> QED BY <1>5, <1>12, <1>13

\* The snapshots as the rows of the status table: the time, and the source as the kind.
StatusRow(time, source) == [at |-> time, kind |-> source]

LEMMA StatusRows ==
  ASSUME NEW Senders, NEW snaps, NEW n \in Nat, DOMAIN snaps = 1..n,
         \A i \in DOMAIN snaps : snaps[i].at \in Int /\ snaps[i].source \in Senders,
         NEW ev, ev = [i \in DOMAIN snaps |-> [at |-> snaps[i].at, kind |-> snaps[i].source]]
  PROVE  /\ DOMAIN ev = DOMAIN snaps /\ ev \in Seq([at : Int, kind : Senders])
         /\ \A i \in DOMAIN snaps : ev[i].at = snaps[i].at /\ ev[i].kind = snaps[i].source
<1>1. \A time, source : StatusRow(time, source).at = time /\ StatusRow(time, source).kind = source
  BY DEF StatusRow
<1>2. \A time \in Int, source \in Senders : StatusRow(time, source) \in [at : Int, kind : Senders]
  BY DEF StatusRow
<1>3. DOMAIN ev = DOMAIN snaps /\ \A i \in DOMAIN snaps : ev[i] = StatusRow(snaps[i].at, snaps[i].source)
  BY DEF StatusRow
<1>4. DOMAIN ev = 1..n /\ ev = [i \in 1..n |-> ev[i]]
  BY <1>3
<1>5. PICK K : K = [at : Int, kind : Senders]
  OBVIOUS
<1> HIDE DEF StatusRow
<1>6. \A i \in 1..n : ev[i] \in K
  BY <1>2, <1>3, <1>5, Zenon
<1>7. ev \in Seq(K)
  BY <1>4, <1>6
<1> QED BY <1>1, <1>3, <1>5, <1>7, Zenon

THEOREM PagesAreHonest ==
  ASSUME NEW Senders, None \notin Senders, NEW snaps \in Seq(Stored(Senders)), Keyed(snaps),
         NEW w \in Span, NEW limit \in Nat \cup {None}
  PROVE  PagesHonest(snaps, w, limit)
<1>1. PICK I : I = Within(snaps, w)
  OBVIOUS
<1>2. /\ I \in SUBSET (DOMAIN snaps) /\ IsOrder(I, Newer(snaps)) /\ IsOrder(I, CreatedLater(snaps))
      /\ \A i \in DOMAIN snaps : /\ snaps[i].at \in Int /\ snaps[i].received \in Int /\ snaps[i].source # None
                                 /\ snaps[i].source \in Senders
  BY <1>1, StoredFacts
<1>3. /\ None \notin Nat /\ DefaultPage \in Nat /\ MaxPage \in Nat /\ DefaultPage <= MaxPage /\ DefaultEvents \in Nat
  BY QueriesAssumption
<1>4. PICK size : size = IF limit = None THEN DefaultPage ELSE Least({limit, MaxPage})
  OBVIOUS
<1>5. size \in Nat /\ size <= MaxPage
  <2>1. CASE limit = None
    BY <1>3, <1>4, <2>1
  <2>2. CASE limit # None
    <3>1. limit \in Nat
      BY <2>2
    <3>2. Least({limit, MaxPage}) = IF limit <= MaxPage THEN limit ELSE MaxPage
      BY <1>3, <3>1, OfTwo
    <3> QED BY <1>3, <1>4, <2>2, <3>1, <3>2
  <2> QED BY <2>1, <2>2
<1>6. PICK page, latest, newest, inside :
        /\ page = ListWeather(snaps, w, limit) /\ latest = EventQuery(snaps, w, None, limit)
        /\ newest = StatusQuery([i \in DOMAIN snaps |-> [at |-> snaps[i].at, kind |-> snaps[i].source]], w, None, 2)
        /\ inside = {s \in ToSet(snaps) : InWindow(s.at, w)}
  OBVIOUS
<1>7. \A s \in inside : \E j \in I : s = snaps[j]
  BY <1>1, <1>6 DEF Within, ToSet
<1>8. page = FirstRows(Select(snaps, I, Newer(snaps)), size)
  BY <1>1, <1>4, <1>6 DEF ListWeather
<1>9. /\ page \in Seq(Stored(Senders)) /\ Len(page) = (IF size <= Cardinality(I) THEN size ELSE Cardinality(I))
      /\ Cardinality(I) \in Nat /\ \A i \in DOMAIN page : \E k \in I : page[i] = snaps[k]
      /\ \A j \in I : \/ snaps[j] \in ToSet(page)
                      \/ Len(page) = size /\ \A i \in DOMAIN page : \E k \in I : page[i] = snaps[k] /\ k \in Newer(snaps)[j]
  <2>1. page \in Seq(Stored(Senders)) /\ Cardinality(I) \in Nat /\ IsPage(page, snaps, I, Newer(snaps), size)
    BY <1>2, <1>5, <1>8, PageIs
  <2> QED BY <2>1 DEF IsPage
<1>10. Len(page) <= MaxPage
  BY <1>3, <1>5, <1>9
<1>11. ASSUME NEW i \in DOMAIN page
       PROVE  /\ GetWeather(snaps, page[i].at, page[i].source) = page[i]
              /\ GetWeather(snaps, page[i].at, None).received >= page[i].received
  <2>1. page[i] \in ToSet(snaps)
    BY <1>2, <1>9 DEF ToSet
  <2> QED BY <2>1, WeatherFound
<1>12. ASSUME NEW s \in inside \ ToSet(page)
       PROVE  (\A i \in DOMAIN page : page[i].at >= s.at) /\ Len(page) = size
  <2>1. PICK j \in I : s = snaps[j]
    BY <1>7
  <2>2. Len(page) = size /\ \A i \in DOMAIN page : \E k \in I : page[i] = snaps[k] /\ k \in Newer(snaps)[j]
    BY <1>9, <1>12, <2>1
  <2>3. \A k \in I : k \in Newer(snaps)[j] => snaps[k].at >= snaps[j].at
    <3>1. \A k \in DOMAIN snaps : k \in Newer(snaps)[j] => snaps[k].at > snaps[j].at \/ snaps[k].at = snaps[j].at
      BY <1>2 DEF Newer
    <3>2. \A a, b \in Int : a > b \/ a = b => a >= b
      OBVIOUS
    <3> QED BY <1>2, <3>1, <3>2
  <2> QED BY <2>1, <2>2, <2>3
<1>13. PICK most : most = IF limit = None THEN DefaultEvents ELSE limit
  OBVIOUS
<1>14. most \in Nat
  BY <1>3, <1>13
<1>15. latest = FirstRows(Select(snaps, I, CreatedLater(snaps)), most)
  <2>1. {i \in Within(snaps, w) : None = None \/ snaps[i].source = None} = I
    BY <1>1
  <2> QED BY <1>6, <1>13, <2>1 DEF EventQuery
<1>16. \A j \in I : \/ snaps[j] \in ToSet(latest)
                    \/ Len(latest) = most /\ \A i \in DOMAIN latest : \E k \in I : latest[i] = snaps[k] /\ k \in CreatedLater(snaps)[j]
  <2>1. IsPage(latest, snaps, I, CreatedLater(snaps), most)
    BY <1>2, <1>14, <1>15, PageIs
  <2> QED BY <2>1 DEF IsPage
<1>17. ASSUME NEW s \in inside \ ToSet(latest)
       PROVE  (\A i \in DOMAIN latest : latest[i].received >= s.received) /\ Len(latest) = most
  <2>1. PICK j \in I : s = snaps[j]
    BY <1>7
  <2>2. Len(latest) = most /\ \A i \in DOMAIN latest : \E k \in I : latest[i] = snaps[k] /\ k \in CreatedLater(snaps)[j]
    BY <1>16, <1>17, <2>1
  <2>3. \A k \in I : k \in CreatedLater(snaps)[j] => snaps[k].received >= snaps[j].received
    <3>1. \A k \in DOMAIN snaps : k \in CreatedLater(snaps)[j] =>
            snaps[k].received > snaps[j].received \/ snaps[k].received = snaps[j].received
      BY <1>2 DEF CreatedLater
    <3>2. \A a, b \in Int : a > b \/ a = b => a >= b
      OBVIOUS
    <3> QED BY <1>2, <3>1, <3>2
  <2> QED BY <2>1, <2>2, <2>3
<1>18. PICK ev : ev = [i \in DOMAIN snaps |-> [at |-> snaps[i].at, kind |-> snaps[i].source]]
  OBVIOUS
<1>19. /\ DOMAIN ev = DOMAIN snaps /\ ev \in Seq([at : Int, kind : Senders])
       /\ \A i \in DOMAIN snaps : ev[i].at = snaps[i].at /\ ev[i].kind = snaps[i].source
  <2>1. PICK n \in Nat : DOMAIN snaps = 1..n
    BY StoredFacts
  <2>2. \A i \in DOMAIN snaps : snaps[i].at \in Int /\ snaps[i].source \in Senders
    BY <1>2
  <2> QED BY <1>18, <2>1, <2>2, StatusRows
<1>20. Within(ev, w) = I /\ IsOrder(I, Newer(ev)) /\ I \in SUBSET (DOMAIN ev)
  <2>1. Within(ev, w) = I
    BY <1>1, <1>19 DEF Within
  <2>2. PICK n \in Nat : DOMAIN ev = 1..n
    BY <1>19
  <2>3. I \in SUBSET (DOMAIN ev) /\ \A i \in DOMAIN ev : ev[i].at \in Int
    BY <1>2, <1>19
  <2>4. IsOrder(I, Newer(ev))
    BY <2>2, <2>3, RowsOrdered
  <2> QED BY <2>1, <2>3, <2>4
<1>21. PICK front : front = FirstRows(Select(ev, I, Newer(ev)), 2)
  OBVIOUS
<1>22. /\ Len(front) = (IF 2 <= Cardinality(I) THEN 2 ELSE Cardinality(I))
       /\ \A i \in DOMAIN front : \E k \in I : front[i] = ev[k]
       /\ Len(front) # 0 => \E k \in I : front[1] = ev[k] /\ \A j \in I : j = k \/ k \in Newer(ev)[j]
  <2>1. 2 \in Nat
    OBVIOUS
  <2>2. IsPage(front, ev, I, Newer(ev), 2)
    BY <1>19, <1>20, <1>21, <2>1, PageIs
  <2> QED BY <2>2 DEF IsPage
<1>23. newest = front
  <2>1. {i \in Within(ev, w) : None = None \/ ev[i].kind = None} = I
    BY <1>20
  <2>2. \A i \in DOMAIN front : front[i].kind # None
    BY <1>2, <1>19, <1>22, SMTT(20)
  <2> QED BY <1>6, <1>18, <1>21, <2>1, <2>2 DEF StatusQuery
<1>24. Cardinality(inside) = Cardinality(I)
  <2>1. PICK g : g = [i \in I |-> snaps[i]]
    OBVIOUS
  <2>2. g \in [I -> inside]
    BY <1>1, <1>2, <1>6, <2>1 DEF Within, ToSet
  <2>3. \A i, j \in I : g[i] = g[j] => i = j
    BY <1>2, <2>1 DEF Keyed
  <2>4. \A s \in inside : \E i \in I : g[i] = s
    BY <1>7, <2>1
  <2>5. IsFiniteSet(I)
    BY <1>2, <1>5, <1>8, PageIs
  <2> QED BY <2>2, <2>3, <2>4, <2>5, SameSize
<1>25. Len(newest) = Least({2, Cardinality(inside)})
  <2>1. 2 \in Int /\ Cardinality(inside) \in Int
    BY <1>9, <1>24
  <2> QED BY <1>22, <1>23, <1>24, <2>1, OfTwo
<1>26. ASSUME NEW s \in inside, Len(newest) = 2 PROVE s.at <= newest[1].at
  <2>1. PICK j \in I : s = snaps[j]
    BY <1>7
  <2>2. PICK k \in I : front[1] = ev[k] /\ \A x \in I : x = k \/ k \in Newer(ev)[x]
    BY <1>22, <1>23, <1>26
  <2>3. PICK a \in Int, b \in Int : a = snaps[j].at /\ b = snaps[k].at
    BY <1>2
  <2>4. k \in Newer(ev)[j] => b > a \/ b = a
    <3>1. j \in DOMAIN ev /\ ev[k].at = b /\ ev[j].at = a
      BY <1>2, <1>19, <2>3
    <3> QED BY <3>1 DEF Newer
  <2>5. a <= b
    BY <2>2, <2>3, <2>4
  <2>6. newest[1].at = b
    BY <1>2, <1>19, <1>23, <2>2, <2>3
  <2> QED BY <2>1, <2>3, <2>5, <2>6
<1> QED BY <1>4, <1>6, <1>10, <1>11, <1>12, <1>13, <1>17, <1>25, <1>26 DEF PagesHonest

-----------------------------------------------------------------------------
(* The questions of the small instance.                                    *)

\* A function on 1..n is a sequence.
LEMMA FunctionIsList ==
  ASSUME NEW S, NEW n \in Nat, NEW s \in [1..n -> S]
  PROVE  s \in Seq(S)
OBVIOUS

LEMMA ReadsAre == \A n \in Nat : Reads(n) \subseteq Seq(Bytes)
<1>1. ASSUME NEW n \in Nat, NEW r \in Reads(n) PROVE r \in Seq(Bytes)
  <2>1. PICK k \in 0..n : r \in [1..k -> Bytes]
    BY DEF Reads
  <2>2. k \in Nat
    OBVIOUS
  <2> QED BY <2>1, <2>2, FunctionIsList, Zenon
<1> QED BY <1>1

LEMMA DropsAre == Drops \subseteq Seq(Int \cup {Missed})
<1>1. Lasts \subseteq Int \cup {Missed}
  BY DEF Lasts
<1>2. ASSUME NEW d \in Drops PROVE d \in Seq(Int \cup {Missed})
  <2>1. CASE \E k \in 0..4 : d \in [1..k -> Lasts]
    <3>1. PICK k \in 0..4 : d \in [1..k -> Lasts]
      BY <2>1
    <3>2. k \in Nat
      OBVIOUS
    <3>3. d \in Seq(Lasts)
      BY <3>1, <3>2, FunctionIsList, Zenon
    <3> QED BY <1>1, <3>3, SeqWider, Zenon
  <2>2. CASE \E n \in 0..12 : d = [i \in 1..12 |-> IF i = n THEN 400 ELSE 2]
    <3>1. d \in [1..12 -> Int \cup {Missed}]
      BY <2>2
    <3> QED BY <3>1, FunctionIsList
  <2>3. (\E k \in 0..4 : d \in [1..k -> Lasts]) \/ \E n \in 0..12 : d = [i \in 1..12 |-> IF i = n THEN 400 ELSE 2]
    BY DEF Drops
  <2> QED BY <2>1, <2>2, <2>3, Zenon
<1> QED BY <1>2

\* What is asked is one of the questions, or nothing.
AskedSound == asked = <<"none">> \/ Asks

\* A step asks nothing, so the question stays.
LEMMA AskedStays == DataInit => AskedSound
BY DEF DataInit, AskedSound

LEMMA StepAsksNothing == [DataNext]_dataVars => UNCHANGED asked
BY DEF DataNext, dataVars

LEMMA LinesAnswered == AskedSound => LinesAgree
<1> SUFFICES ASSUME AskedSound PROVE LinesAgree
  OBVIOUS
<1>1. ASSUME asked[1] = "reads" PROVE \A timeout \in {0, 2} : LinesSame(asked[2], timeout)
  <2>1. asked[2] \in Seq(Seq(Bytes))
    <3>1. \/ \E a \in Reads(3), b \in Reads(2) : asked[2] = <<a, b>>
          \/ \E a, b, c \in Reads(1) : asked[2] = <<a, b, c>>
      BY <1>1 DEF AskedSound, Asks
    <3>2. Reads(3) \subseteq Seq(Bytes) /\ Reads(2) \subseteq Seq(Bytes) /\ Reads(1) \subseteq Seq(Bytes)
      BY ReadsAre
    <3>3. PICK S : S = Seq(Bytes)
      OBVIOUS
    <3>4. \/ \E a, b \in S : asked[2] = <<a, b>>
          \/ \E a, b, c \in S : asked[2] = <<a, b, c>>
      BY <3>1, <3>2, <3>3, Zenon
    <3>5. asked[2] \in Seq(S)
      <4>1. \A a, b \in S : <<a, b>> \in Seq(S)
        OBVIOUS
      <4>2. \A a, b, c \in S : <<a, b, c>> \in Seq(S)
        OBVIOUS
      <4> QED BY ONLY <3>4, <4>1, <4>2, Zenon
    <3> QED BY <3>3, <3>5, Zenon
  <2> QED BY <2>1, LinesAreSame
<1>2. ASSUME asked[1] = "drops" PROVE Paced(asked[2])
  <2>1. asked[2] \in Drops
    BY <1>2 DEF AskedSound, Asks
  <2> QED BY <2>1, DropsAre, ReconnectsPaced
<1>3. ASSUME asked[1] = "line"
      PROVE  ReadingsSame(asked[2], asked[3], [z \in {"Local"} |-> [change |-> 8, before |-> 2, after |-> 1]], 99)
  <2>1. asked[2] \in Lines
    BY <1>3 DEF AskedSound, Asks
  <2>2. asked[2].fields \in Nat
    <3>1. {7, 21, 22} \subseteq Nat
      OBVIOUS
    <3>2. \A F, T, H, D, W, X : \A l \in [fields : F, type : T, hex : H, date : D, time : W, transmission : X] : l.fields \in F
      OBVIOUS
    <3>3. asked[2].fields \in {7, 21, 22}
      BY <2>1, <3>2, Zenon DEF Lines
    <3> QED BY <3>1, <3>3, Zenon
  <2> QED BY <2>2, LinesReadTheSame
<1>4. ASSUME asked[1] = "zone" PROVE ClockHonest(asked[2])
  <2>1. asked[2] \in Zones
    BY <1>4 DEF AskedSound, Asks
  <2>2. asked[2] \in [change : Int, before : Int, after : Int]
    BY <2>1 DEF Zones
  <2> QED BY <2>2, ClocksHonest
<1> QED BY <1>1, <1>2, <1>3, <1>4 DEF LinesAgree, AskedFor

(***************************************************************************)
(* The streams, connections, lines and zones that are asked about have     *)
(* good answers in every state (client.rs, backoff.rs, sbs_parser.rs and   *)
(* parse_timestamp_to_ms).                                                 *)
(***************************************************************************)
THEOREM LinesAlwaysAgree == DataSpec => []LinesAgree
<1>1. DataInit => LinesAgree
  BY AskedStays, LinesAnswered
<1>2. LinesAgree /\ [DataNext]_dataVars => LinesAgree'
  BY StepAsksNothing DEF LinesAgree, AskedFor
<1> QED BY <1>1, <1>2, PTL DEF DataSpec

-----------------------------------------------------------------------------
(* The layers that are asked about.                                        *)

LEMMA LayerIs ==
  ASSUME NEW options, NEW l \in Layer(options)
  PROVE  \E o \in options : /\ DOMAIN l \subseteq DOMAIN o
                            /\ \A f \in DOMAIN l : l[f] = o[f] /\ l[f] # Unset
<1>1. PICK o \in options : l = [f \in {g \in DOMAIN o : o[g] # Unset} |-> o[f]]
  BY Zenon DEF Layer
<1>2. DOMAIN l = {g \in DOMAIN o : o[g] # Unset}
  BY <1>1
<1>3. \A f \in DOMAIN l : l[f] = o[f]
  BY <1>1
<1>4. DOMAIN l \subseteq DOMAIN o /\ \A f \in DOMAIN l : l[f] # Unset
  BY <1>2, <1>3
<1> QED BY <1>3, <1>4, Zenon

LEMMA FeedFlagsAre == \A l \in FeedFlags : IsLayer(FeedFields, l)
<1> SUFFICES ASSUME NEW l \in FeedFlags PROVE IsLayer(FeedFields, l)
  OBVIOUS
<1>1. PICK o \in [source_id : {Unset, "flag", "kraspberryPi"}, forwarders : {Unset, <<"file">>},
                 test_mode : {Unset, TRUE}] :
        DOMAIN l \subseteq DOMAIN o /\ \A f \in DOMAIN l : l[f] = o[f] /\ l[f] # Unset
  BY LayerIs, Zenon DEF FeedFlags
<1>2. DOMAIN o = {"source_id", "forwarders", "test_mode"} /\ o["forwarders"] \in {Unset, <<"file">>}
  OBVIOUS
<1>3. /\ FeedFields["source_id"].file = "string" /\ FeedFields["forwarders"].file = "kinds"
      /\ FeedFields["test_mode"].file = "none"
      /\ "source_id" \in DOMAIN FeedFields /\ "forwarders" \in DOMAIN FeedFields
      /\ "test_mode" \in DOMAIN FeedFields
  BY FeedValues DEF Field, FeedUsed
<1>4. \A f \in DOMAIN l : f = "source_id" \/ f = "test_mode" \/ (f = "forwarders" /\ l[f] = <<"file">>)
  BY <1>1, <1>2
<1>5. Usable("kinds", <<"file">>)
  <2>1. <<"file">> \in Seq(Kinds) /\ <<"file">> # <<>>
    BY DEF Kinds
  <2> QED BY <2>1, UsableIs, Zenon
<1>6. ASSUME NEW f \in DOMAIN l
      PROVE  f \in DOMAIN FeedFields /\ (FeedFields[f].file # "none" => Usable(FeedFields[f].file, l[f]))
  <2>1. CASE f = "source_id"
    BY <1>1, <1>3, <2>1, UsableIs, Zenon
  <2>2. CASE f = "forwarders" /\ l[f] = <<"file">>
    BY <1>3, <1>5, <2>2, Zenon
  <2>3. CASE f = "test_mode"
    BY <1>3, <2>3, Zenon
  <2> QED BY <1>4, <2>1, <2>2, <2>3, Zenon
<1> QED BY <1>6, Zenon DEF IsLayer

LEMMA FeedEnvsAre == \A l \in FeedEnvs : IsLayer(FeedFields, l)
<1> SUFFICES ASSUME NEW l \in FeedEnvs PROVE IsLayer(FeedFields, l)
  OBVIOUS
<1>1. PICK o \in [source_id : {Unset, "env"}, metrics_port : {Unset, 9, 0}, forwarders : {Unset, <<"mqtt">>}] :
        DOMAIN l \subseteq DOMAIN o /\ \A f \in DOMAIN l : l[f] = o[f] /\ l[f] # Unset
  BY LayerIs, Zenon DEF FeedEnvs
<1>2. /\ DOMAIN o = {"source_id", "metrics_port", "forwarders"}
      /\ o["metrics_port"] \in {Unset, 9, 0} /\ o["forwarders"] \in {Unset, <<"mqtt">>}
  OBVIOUS
<1>3. /\ FeedFields["source_id"].file = "string" /\ FeedFields["forwarders"].file = "kinds"
      /\ FeedFields["metrics_port"].file = "checked_u16"
      /\ "source_id" \in DOMAIN FeedFields /\ "forwarders" \in DOMAIN FeedFields
      /\ "metrics_port" \in DOMAIN FeedFields
  BY FeedValues DEF Field, FeedUsed
<1>4. \A f \in DOMAIN l : \/ f = "source_id"
                          \/ f = "metrics_port" /\ l[f] \in {9, 0}
                          \/ f = "forwarders" /\ l[f] = <<"mqtt">>
  BY <1>1, <1>2
<1>5. Usable("kinds", <<"mqtt">>) /\ Usable("checked_u16", 9) /\ Usable("checked_u16", 0)
  <2>1. <<"mqtt">> \in Seq(Kinds) /\ <<"mqtt">> # <<>>
    BY DEF Kinds
  <2>2. Limit16 \in Nat /\ Limit16 > 9
    BY DEF Limit16
  <2>3. 9 \in 0..(Limit16 - 1) /\ 0 \in 0..(Limit16 - 1)
    BY ONLY <2>2
  <2> QED BY <2>1, <2>3, UsableIs, Zenon
<1>6. ASSUME NEW f \in DOMAIN l
      PROVE  f \in DOMAIN FeedFields /\ Usable(FeedFields[f].file, l[f])
  <2>1. CASE f = "source_id"
    BY <1>1, <1>3, <2>1, UsableIs, Zenon
  <2>2. CASE f = "metrics_port" /\ l[f] \in {9, 0}
    BY <1>3, <1>5, <2>2, Zenon
  <2>3. CASE f = "forwarders" /\ l[f] = <<"mqtt">>
    BY <1>3, <1>5, <2>3, Zenon
  <2> QED BY <1>4, <2>1, <2>2, <2>3, Zenon
<1> QED BY <1>6, Zenon DEF IsLayer

LEMMA WeatherEnvsAre == \A l \in WeatherEnvs : IsLayer(WeatherFields, l)
<1> SUFFICES ASSUME NEW l \in WeatherEnvs PROVE IsLayer(WeatherFields, l)
  OBVIOUS
<1>1. PICK o \in [http_port : {Unset, 9, WeatherPort}, refresh_minutes : {Unset, 15}] :
        DOMAIN l \subseteq DOMAIN o /\ \A f \in DOMAIN l : l[f] = o[f] /\ l[f] # Unset
  BY LayerIs, Zenon DEF WeatherEnvs
<1>2. /\ DOMAIN o = {"http_port", "refresh_minutes"}
      /\ o["http_port"] \in {Unset, 9, WeatherPort} /\ o["refresh_minutes"] \in {Unset, 15}
  OBVIOUS
<1>3. /\ WeatherFields["http_port"] = Field(WeatherPort, TRUE, "checked_u16")
      /\ WeatherFields["refresh_minutes"] = Field(60, TRUE, "checked_u32")
      /\ "http_port" \in DOMAIN WeatherFields /\ "refresh_minutes" \in DOMAIN WeatherFields
  BY SMT DEF WeatherFields
<1>4. WeatherFields["http_port"].file = "checked_u16" /\ WeatherFields["refresh_minutes"].file = "checked_u32"
  BY <1>3 DEF Field
<1>5. \A f \in DOMAIN l : (f = "http_port" /\ l[f] \in {9, WeatherPort}) \/ (f = "refresh_minutes" /\ l[f] = 15)
  BY <1>1, <1>2
<1>6. Usable("checked_u16", 9) /\ Usable("checked_u16", WeatherPort) /\ Usable("checked_u32", 15)
  <2>1. /\ Limit16 \in Nat /\ Limit16 > 9 /\ WeatherPort \in Nat /\ Limit16 > WeatherPort
        /\ Limit32 \in Nat /\ Limit32 > 15
    BY DEF Limit16, Limit32, WeatherPort
  <2>2. 9 \in 0..(Limit16 - 1) /\ WeatherPort \in 0..(Limit16 - 1) /\ 15 \in 0..(Limit32 - 1)
    BY ONLY <2>1
  <2> QED BY <2>2, UsableIs, Zenon
<1>7. ASSUME NEW f \in DOMAIN l
      PROVE  f \in DOMAIN WeatherFields /\ Usable(WeatherFields[f].file, l[f])
  <2>1. CASE f = "http_port" /\ l[f] \in {9, WeatherPort}
    BY <1>3, <1>4, <1>6, <2>1, Zenon
  <2>2. CASE f = "refresh_minutes" /\ l[f] = 15
    BY <1>3, <1>4, <1>6, <2>2, Zenon
  <2> QED BY <1>5, <2>1, <2>2, Zenon
<1> QED BY <1>7, Zenon DEF IsLayer

\* What the files say is TOML.
LEMMA TomlIs ==
  /\ \A n \in Int : IsToml(<<"integer", n>>)
  /\ \A E : \A s \in Seq(E) : IsToml(<<"array", s>>)
  /\ \A x : x # Unset => IsToml(<<"string", x>>)
<1>1. ASSUME NEW n \in Int PROVE IsToml(<<"integer", n>>)
  <2>1. PICK v : v = <<"integer", n>>
    OBVIOUS
  <2>2. v[1] = "integer" /\ v[2] = n
    BY <2>1
  <2>3. IsToml(v)
    BY <2>2 DEF IsToml
  <2> QED BY <2>1, <2>3
<1>2. ASSUME NEW E, NEW s \in Seq(E) PROVE IsToml(<<"array", s>>)
  <2>1. PICK v : v = <<"array", s>>
    OBVIOUS
  <2>2. v[1] = "array" /\ v[2] = s
    BY <2>1
  <2>3. IsToml(v)
    BY <2>2 DEF IsToml
  <2> QED BY <2>1, <2>3
<1>3. ASSUME NEW x, x # Unset PROVE IsToml(<<"string", x>>)
  <2>1. PICK v : v = <<"string", x>>
    OBVIOUS
  <2>2. v[1] = "string" /\ v[2] = x
    BY <2>1
  <2>3. IsToml(v)
    BY <1>3, <2>2 DEF IsToml
  <2> QED BY <2>1, <2>3
<1> QED BY <1>1, <1>2, <1>3

LEMMA PortsAre == \A v \in Ports : v # Unset => IsToml(v)
<1>1. IsToml(<<"integer", 8080>>) /\ IsToml(<<"integer", 70000>>) /\ IsToml(<<"string", "http">>)
  BY TomlIs, TextAssumption, SMT
<1> QED BY <1>1 DEF Ports

LEMMA FeedFilesAre == \A l \in FeedFiles : IsFile(l)
<1> SUFFICES ASSUME NEW l \in FeedFiles PROVE IsFile(l)
  OBVIOUS
<1> DEFINE options == [source_id : {Unset, <<"string", "file">>, <<"integer", 5>>}, metrics_port : Ports,
                  mqtt_port : {Unset, <<"integer", 70000>>},
                  forwarders : {Unset, <<"array", <<>>>>, <<"array", <<<<"string", "file">>, <<"string", "carrier">>>>>>}]
<1>1. PICK o \in options : DOMAIN l \subseteq DOMAIN o /\ \A f \in DOMAIN l : l[f] = o[f] /\ l[f] # Unset
  <2>1. FeedFiles = Layer(options)
    BY DEF FeedFiles
  <2> HIDE DEF options
  <2> QED BY <2>1, LayerIs, Zenon
<1>2. /\ DOMAIN o = {"source_id", "metrics_port", "mqtt_port", "forwarders"}
      /\ o["source_id"] \in {Unset, <<"string", "file">>, <<"integer", 5>>} /\ o["metrics_port"] \in Ports
      /\ o["mqtt_port"] \in {Unset, <<"integer", 70000>>}
      /\ o["forwarders"] \in {Unset, <<"array", <<>>>>, <<"array", <<<<"string", "file">>, <<"string", "carrier">>>>>>}
  OBVIOUS
<1> HIDE DEF options
<1>3. IsToml(<<"string", "file">>) /\ IsToml(<<"integer", 5>>) /\ IsToml(<<"integer", 70000>>)
  BY TomlIs, TextAssumption, SMT
<1>4. IsToml(<<"array", <<>>>>) /\ IsToml(<<"array", <<<<"string", "file">>, <<"string", "carrier">>>>>>)
  <2>1. ASSUME NEW a, NEW b PROVE IsToml(<<"array", <<>>>>) /\ IsToml(<<"array", <<a, b>>>>)
    <3>1. PICK E : a \in E /\ b \in E
      <4>1. a \in {a, b} /\ b \in {a, b}
        OBVIOUS
      <4> QED BY <4>1, Zenon
    <3>2. <<>> \in Seq(E) /\ <<a, b>> \in Seq(E)
      BY <3>1
    <3>3. \A s \in Seq(E) : IsToml(<<"array", s>>)
      BY TomlIs, Zenon
    <3> QED BY <3>2, <3>3, Zenon
  <2> QED BY <2>1, Zenon
<1>5. ASSUME NEW f \in DOMAIN l PROVE IsToml(l[f])
  <2>1. l[f] = o[f] /\ l[f] # Unset /\ f \in {"source_id", "metrics_port", "mqtt_port", "forwarders"}
    BY <1>1, <1>2
  <2>2. CASE f = "metrics_port"
    BY <1>2, <2>1, <2>2, PortsAre
  <2>3. CASE f \in {"source_id", "mqtt_port"}
    BY <1>2, <1>3, <2>1, <2>3
  <2>4. CASE f = "forwarders"
    BY <1>2, <1>4, <2>1, <2>4
  <2> QED BY <2>1, <2>2, <2>3, <2>4
<1> QED BY <1>5 DEF IsFile

LEMMA WeatherFilesAre == \A l \in WeatherFiles : IsFile(l)
<1> SUFFICES ASSUME NEW l \in WeatherFiles PROVE IsFile(l)
  OBVIOUS
<1> DEFINE options == [levels : {Unset, <<"array", <<<<"integer", 500>>>>>>, <<"array", <<<<"integer", 70000>>>>>>},
                  refresh_minutes : {Unset, <<"integer", 30>>, <<"integer", -1>>}, http_port : Ports,
                  receiver_latitude : {Unset, <<"integer", 45>>}]
<1>1. PICK o \in options : DOMAIN l \subseteq DOMAIN o /\ \A f \in DOMAIN l : l[f] = o[f] /\ l[f] # Unset
  <2>1. WeatherFiles = Layer(options)
    BY DEF WeatherFiles
  <2> HIDE DEF options
  <2> QED BY <2>1, LayerIs, Zenon
<1>2. /\ DOMAIN o = {"levels", "refresh_minutes", "http_port", "receiver_latitude"}
      /\ o["levels"] \in {Unset, <<"array", <<<<"integer", 500>>>>>>, <<"array", <<<<"integer", 70000>>>>>>}
      /\ o["refresh_minutes"] \in {Unset, <<"integer", 30>>, <<"integer", -1>>} /\ o["http_port"] \in Ports
      /\ o["receiver_latitude"] \in {Unset, <<"integer", 45>>}
  OBVIOUS
<1> HIDE DEF options
<1>3. IsToml(<<"integer", 30>>) /\ IsToml(<<"integer", -1>>) /\ IsToml(<<"integer", 45>>)
  BY TomlIs, SMT
<1>4. IsToml(<<"array", <<<<"integer", 500>>>>>>) /\ IsToml(<<"array", <<<<"integer", 70000>>>>>>)
  <2>1. ASSUME NEW a PROVE IsToml(<<"array", <<a>>>>)
    <3>1. <<a>> \in Seq({a})
      OBVIOUS
    <3>2. \A s \in Seq({a}) : IsToml(<<"array", s>>)
      BY TomlIs, Zenon
    <3> QED BY <3>1, <3>2, Zenon
  <2> QED BY <2>1
<1>5. ASSUME NEW f \in DOMAIN l PROVE IsToml(l[f])
  <2>1. l[f] = o[f] /\ l[f] # Unset /\ f \in {"levels", "refresh_minutes", "http_port", "receiver_latitude"}
    BY <1>1, <1>2
  <2>2. CASE f = "http_port"
    BY <1>2, <2>1, <2>2, PortsAre
  <2>3. CASE f \in {"refresh_minutes", "receiver_latitude"}
    BY <1>2, <1>3, <2>1, <2>3
  <2>4. CASE f = "levels"
    BY <1>2, <1>4, <2>1, <2>4
  <2> QED BY <2>1, <2>2, <2>3, <2>4
<1> QED BY <1>5 DEF IsFile

LEMMA ServersAsked ==
  /\ LayersHold(FeedFields, <<>>, <<>>, <<>>)
  /\ LayersHold(ServerFields, <<>>, <<>>, [http_port |-> <<"integer", 70000>>])
<1>1. DOMAIN <<>> = {}
  OBVIOUS
<1>2. IsLayer(FeedFields, <<>>) /\ IsLayer(ServerFields, <<>>) /\ IsFile(<<>>)
  BY <1>1, Zenon DEF IsLayer, IsFile
<1>3. ASSUME NEW v, IsToml(v) PROVE IsFile([http_port |-> v])
  BY <1>3 DEF IsFile
<1>4. IsToml(<<"integer", 70000>>)
  BY TomlIs, SMT
<1>5. IsFile([http_port |-> <<"integer", 70000>>])
  BY <1>3, <1>4, SMT
<1> QED BY <1>2, <1>5, SettingsLayered, FeedIsTable, ServerIsTable, SMT

\* The stacks that are asked about.
LEMMA StacksAsked == \A s \in Stacks : StackMeets(s)
<1> SUFFICES ASSUME NEW s \in Stacks PROVE StackMeets(s)
  OBVIOUS
<1>1. /\ s.id = "pi" /\ s.topic \in TopicLevels /\ s.weather \in {<<>>, <<"wx">>, <<"wx", "grid">>}
      /\ s.pulsar \in BOOLEAN
  BY DEF Stacks
<1>2. s.id # NoText
  BY <1>1, Zenon DEF NoText
<1>3. PICK T : T = {"adsb", "sbs", "raw", "dev", "lab", "wx", "grid", "weather", "status"}
  OBVIOUS
<1>4. /\ "adsb" \in T /\ "sbs" \in T /\ "raw" \in T /\ "dev" \in T /\ "lab" \in T /\ "wx" \in T /\ "grid" \in T
      /\ {"weather", "grid", "status"} \subseteq T
  BY <1>3
<1>5. s.topic \in Seq(T) /\ s.topic # <<>>
  <2>1. /\ <<"adsb", "sbs", "raw">> \in Seq(T) /\ <<"adsb", "dev", "sbs", "raw">> \in Seq(T)
        /\ <<"sbs", "raw">> \in Seq(T) /\ <<"lab">> \in Seq(T)
    BY <1>4
  <2>2. /\ <<"adsb", "sbs", "raw">> # <<>> /\ <<"adsb", "dev", "sbs", "raw">> # <<>>
        /\ <<"sbs", "raw">> # <<>> /\ <<"lab">> # <<>>
    OBVIOUS
  <2> QED BY <1>1, <2>1, <2>2, Zenon DEF TopicLevels
<1>6. s.weather \in Seq(T)
  <2>1. <<>> \in Seq(T) /\ <<"wx">> \in Seq(T) /\ <<"wx", "grid">> \in Seq(T)
    BY <1>4
  <2> QED BY <1>1, <2>1, Zenon
<1> QED BY <1>1, <1>2, <1>4, <1>5, <1>6, StacksMeet, Zenon

LEMMA SettingsAnswered == AskedSound => SettingsAgree
<1> SUFFICES ASSUME AskedSound PROVE SettingsAgree
  OBVIOUS
<1>1. ASSUME asked[1] = "stack" PROVE StackMeets(asked[2])
  <2>1. asked[2] \in Stacks
    BY <1>1 DEF AskedSound, Asks
  <2> QED BY <2>1, StacksAsked
<1>2. ASSUME asked[1] = "feed_settings" PROVE LayersHold(FeedFields, asked[2], asked[3], asked[4])
  <2>1. asked[2] \in FeedFlags /\ asked[3] \in FeedEnvs /\ asked[4] \in FeedFiles
    BY <1>2 DEF AskedSound, Asks
  <2>2. IsLayer(FeedFields, asked[2]) /\ IsLayer(FeedFields, asked[3]) /\ IsFile(asked[4])
    BY <2>1, FeedFlagsAre, FeedEnvsAre, FeedFilesAre, Zenon
  <2> QED BY <2>2, SettingsLayered, FeedIsTable, Zenon
<1>3. ASSUME asked[1] = "weather_settings" PROVE LayersHold(WeatherFields, asked[2], asked[3], asked[4])
  <2>1. asked[2] = <<>> /\ asked[3] \in WeatherEnvs /\ asked[4] \in WeatherFiles
    BY <1>3 DEF AskedSound, Asks
  <2>2. IsLayer(WeatherFields, asked[2]) /\ IsLayer(WeatherFields, asked[3]) /\ IsFile(asked[4])
    <3>1. DOMAIN <<>> = {}
      OBVIOUS
    <3>2. IsLayer(WeatherFields, <<>>)
      BY <3>1, Zenon DEF IsLayer
    <3> QED BY <2>1, <3>2, WeatherEnvsAre, WeatherFilesAre, Zenon
  <2> QED BY <2>2, SettingsLayered, WeatherIsTable, Zenon
<1> QED BY <1>1, <1>2, <1>3, DefaultsAreOne, ServersAsked DEF SettingsAgree, AskedFor

(***************************************************************************)
(* The layers of each service's settings hold, and the services of one     *)
(* stack meet (config.rs of the three services, render-config.py).         *)
(***************************************************************************)
THEOREM SettingsAlwaysAgree == DataSpec => []SettingsAgree
<1>1. DataInit => AskedSound
  BY AskedStays
<1>2. AskedSound /\ [DataNext]_dataVars => AskedSound'
  BY StepAsksNothing DEF AskedSound, Asks
<1> QED BY <1>1, <1>2, SettingsAnswered, PTL DEF DataSpec

-----------------------------------------------------------------------------
(* The tables and pages that are asked about.                              *)

LEMMA HistoriesAre == Histories \subseteq Seq(Reported)
<1>1. Position \subseteq Reported
  BY DEF Position, Reported
<1>2. ASSUME NEW h \in Histories PROVE h \in Seq(Reported)
  <2>1. PICK n \in 0..3 : h \in [1..n -> Position]
    BY DEF Histories
  <2>2. n \in Nat
    OBVIOUS
  <2>3. h \in Seq(Position)
    BY <2>1, <2>2, FunctionIsList, Zenon
  <2> QED BY <1>1, <2>3, SeqWider, Zenon
<1> QED BY <1>2

LEMMA WindowsAre ==
  /\ Windows \subseteq Span
  /\ {Window(None, None), Window(0, 3), Window(1, 2)} \subseteq Span
<1>1. \A s, e \in Int \cup {None} : Window(s, e) \in Span
  BY DEF Window, Span
<1>2. {None, 0, 1, 2, 3} \subseteq Int \cup {None}
  OBVIOUS
<1> QED BY <1>1, <1>2, Zenon DEF Windows

LEMMA ShelvesAre == \A s \in Shelves : s \in Seq(Stored(Sources)) /\ Keyed(s)
<1> SUFFICES ASSUME NEW s \in Shelves PROVE s \in Seq(Stored(Sources)) /\ Keyed(s)
  OBVIOUS
<1>0. PICK n \in 0..4 :
        s \in {[i \in 1..n |-> [at |-> t[i].at, source |-> t[i].source, received |-> i]] :
                t \in {u \in [1..n -> Snapshot] : IsInjective(u)}}
  BY DEF Shelves
<1>1. PICK t \in [1..n -> Snapshot] :
        /\ IsInjective(t)
        /\ s = [i \in 1..n |-> [at |-> t[i].at, source |-> t[i].source, received |-> i]]
  BY <1>0
<1>2. \A r \in Snapshot : r.at \in Int /\ r.source \in Sources
  BY DEF Snapshot
<1>3. \A q, r \in Snapshot : q.at = r.at /\ q.source = r.source => q = r
  BY DEF Snapshot
<1>4. \A i \in 1..n : t[i] \in Snapshot /\ i \in Int
  OBVIOUS
<1>5. DOMAIN s = 1..n /\ \A i \in 1..n : s[i].at = t[i].at /\ s[i].source = t[i].source
  BY <1>1
<1>6. s \in Seq(Stored(Sources))
  <2>1. \A a, r \in Int, o \in Sources : [at |-> a, source |-> o, received |-> r] \in Stored(Sources)
    BY DEF Stored
  <2>2. PICK S : S = Stored(Sources)
    OBVIOUS
  <2>3. \A i \in 1..n : [at |-> t[i].at, source |-> t[i].source, received |-> i] \in S
    BY <1>2, <1>4, <2>1, <2>2, Zenon
  <2>4. s \in [1..n -> S]
    BY <1>1, <2>3, Zenon
  <2>5. n \in Nat
    OBVIOUS
  <2> QED BY <2>2, <2>4, <2>5, FunctionIsList, Zenon
<1>7. Keyed(s)
  <2> SUFFICES ASSUME NEW i \in 1..n, NEW j \in 1..n, s[i].at = s[j].at, s[i].source = s[j].source PROVE i = j
    BY <1>5 DEF Keyed
  <2>1. t[i] = t[j]
    BY <1>3, <1>4, <1>5
  <2> QED BY <1>1, <2>1 DEF IsInjective
<1> QED BY <1>6, <1>7

LEMMA QueriesAnswered == AskedSound => QueriesAgree
<1> SUFFICES ASSUME AskedSound PROVE QueriesAgree
  OBVIOUS
<1>1. ASSUME asked[1] = "tracks" PROVE TracksAgree(asked[2], asked[3])
  <2>1. asked[2] \in Histories /\ asked[3] \in Windows
    BY <1>1 DEF AskedSound, Asks
  <2> QED BY <2>1, HistoriesAre, WindowsAre, TracksAlwaysMeet, Zenon
<1>2. ASSUME asked[1] = "charts" PROVE ChartsAgree(asked[2], asked[3], asked[4])
  <2>1. /\ asked[2] \in Histories /\ asked[3] \in {Window(None, None), Window(0, 3), Window(1, 2)}
        /\ asked[4] \in {0, 2, 3}
    BY <1>2 DEF AskedSound, Asks
  <2>2. {0, 2, 3} \subseteq Nat
    OBVIOUS
  <2>3. asked[2] \in Seq(Reported) /\ asked[3] \in Span /\ asked[4] \in Nat
    BY <2>1, <2>2, HistoriesAre, WindowsAre, Zenon
  <2> QED BY <2>3, ChartsAlwaysMeet, Zenon
<1>3. ASSUME asked[1] = "pages" PROVE PagesHonest(asked[2], asked[3], asked[4])
  <2>1. asked[2] \in Shelves /\ asked[3] \in Windows /\ asked[4] \in {None, 0, 1, 9}
    BY <1>3 DEF AskedSound, Asks
  <2>2. {None, 0, 1, 9} \subseteq Nat \cup {None}
    OBVIOUS
  <2>3. /\ asked[2] \in Seq(Stored(Sources)) /\ Keyed(asked[2]) /\ asked[3] \in Span
        /\ asked[4] \in Nat \cup {None}
    BY <2>1, <2>2, ShelvesAre, WindowsAre, Zenon
  <2> QED BY <2>3, SourceAssumption, PagesAreHonest, Zenon
<1> QED BY <1>1, <1>2, <1>3, SectorsAreCentred, AnswersAreAlike DEF QueriesAgree, AskedFor

(***************************************************************************)
(* What the map, the charts and the pages show of one database agrees,     *)
(* whichever query it comes from (the queries of storage.rs).              *)
(***************************************************************************)
THEOREM QueriesAlwaysAgree == DataSpec => []QueriesAgree
<1>1. DataInit => AskedSound
  BY AskedStays
<1>2. AskedSound /\ [DataNext]_dataVars => AskedSound'
  BY StepAsksNothing DEF AskedSound, Asks
<1> QED BY <1>1, <1>2, QueriesAnswered, PTL DEF DataSpec
=============================================================================
