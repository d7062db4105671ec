---------------------------- MODULE IngestProofs -----------------------------
(***************************************************************************)
(* For any aircraft, fields, kinds of line and channel capacity: the       *)
(* buffer is the best-known state of the window, the raw records are       *)
(* stored in order and once, every parsed line is counted in one batch,    *)
(* and a pipeline that ends by itself leaves nothing behind.               *)
(*                                                                         *)
(* What the first two need is where a line can be: the window is what was  *)
(* received since the last drain (Window), and a record is in the raw      *)
(* buffer or in the table, everything in the table being older (Records).  *)
(* The others need where a count can be (Counts).                          *)
(***************************************************************************)
EXTENDS Ingest, SequenceTheorems, Counting

Steps == {"persist", "sink", "raw", "persist_raw"}

Window ==
  /\ window \subseteq 1 .. next - 1
  /\ phase \in Steps => window = {}

BestKnownOf(a) ==
  buffer[a] = [at |-> Newest(Reports(a)), message_count |-> 0,
               value |-> [f \in Field |-> Newest(Supplies(a, f))]]

Best == \A a \in Aircraft : BestKnownOf(a)

Increasing(s) == \A i, j \in 1 .. Len(s) : i < j => s[i] < s[j]
Below(s, n) == \A i \in 1 .. Len(s) : s[i] < n

Records ==
  /\ Increasing(raw_buffer) /\ Increasing(stored_raw)
  /\ Below(raw_buffer, next) /\ Below(stored_raw, next)
  /\ phase \notin Terminal =>
       \A j \in 1 .. Len(raw_buffer) : Below(stored_raw, raw_buffer[j])
  /\ phase = "select" => ToSet(raw_buffer) = {i \in window : sent[i].kind = "timed"}

Inv == TypeOK /\ Window /\ Best /\ Records

LEMMA NewestIsAdded ==
  ASSUME NEW i \in Nat \ {0}, NEW S \in SUBSET (1 .. i - 1)
  PROVE  Newest(S \cup {i}) = i
<1>1. \A x \in S \cup {i} : (\A y \in S \cup {i} : x >= y) <=> x = i
  OBVIOUS
<1>2. Max(S \cup {i}) = i
  BY <1>1 DEF Max
<1> QED BY <1>2 DEF Newest

LEMMA NoneIsNewest == Newest({}) = 0
BY DEF Newest

LEMMA FieldsOfBest ==
  ASSUME Best, NEW a \in Aircraft
  PROVE  /\ buffer[a].message_count = 0
         /\ \A f \in Field : buffer[a].value[f] = Newest(Supplies(a, f))
<1> DEFINE at == Newest(Reports(a))
           value == [f \in Field |-> Newest(Supplies(a, f))]
<1>1. buffer[a] = [at |-> at, message_count |-> 0, value |-> value]
  BY DEF Best, BestKnownOf
<1>2. \A f \in Field : value[f] = Newest(Supplies(a, f))
  OBVIOUS
<1> HIDE DEF at, value
<1>3. buffer[a].at = at /\ buffer[a].message_count = 0 /\ buffer[a].value = value
  BY <1>1
<1> QED BY <1>1, <1>2, <1>3

LEMMA Updated ==
  ASSUME NEW r \in Merged, r.message_count = 0, NEW n \in Nat, NEW v \in [Field -> Nat]
  PROVE  [r EXCEPT !.at = n, !.value = v] = [at |-> n, message_count |-> 0, value |-> v]
<1> DEFINE s == [r EXCEPT !.at = n, !.value = v]
           t == [at |-> n, message_count |-> 0, value |-> v]
<1>1. s \in Merged /\ t \in Merged
  BY DEF Merged
<1>2. s.at = t.at /\ s.value = t.value /\ s.message_count = t.message_count
  BY DEF Merged
<1>3. \A x, y \in Merged : x.at = y.at /\ x.value = y.value /\ x.message_count = y.message_count => x = y
  BY DEF Merged
<1> HIDE DEF s, t
<1>4. s = t BY <1>1, <1>2, <1>3
<1> QED BY <1>4 DEF s, t

(***************************************************************************)
(* The initial state.                                                      *)
(***************************************************************************)
LEMMA InitInv == Init => Inv
<1> SUFFICES ASSUME Init PROVE Inv OBVIOUS
<1> USE DEF Init
<1>0. NoPosition \in Merged /\ Empty \in [Aircraft -> Merged]
  BY DEF NoPosition, Empty, Merged
<1>1. TypeOK
  <2>1. sent = <<>> /\ Len(sent) = 0 /\ sent \in Seq(Lines)
    OBVIOUS
  <2>2. raw_buffer \in Seq(1..Len(sent)) /\ stored_raw \in Seq(1..Len(sent))
    OBVIOUS
  <2>3. message_counts \in [Aircraft -> Nat]
    OBVIOUS
  <2>4. next \in 1 .. Len(sent) + 1 /\ window \subseteq 1 .. Len(sent) /\ commands \in 0 .. MaxCommands
    BY <2>1, BoundAssumption
  <2>5. batch = Empty /\ phase = "select"
    OBVIOUS
  <2> QED BY <1>0, <2>1, <2>2, <2>3, <2>4, <2>5 DEF TypeOK
<1>2. Window
  BY DEF Window, Steps
<1>3. Best
  <2>1. \A a \in Aircraft : Reports(a) = {} /\ \A f \in Field : Supplies(a, f) = {}
    BY DEF Reports, Supplies
  <2>2. \A a \in Aircraft : BestKnownOf(a)
    BY <2>1, NoneIsNewest DEF BestKnownOf, Empty, NoPosition
  <2> QED BY <2>2 DEF Best
<1>4. Records
  BY DEF Records, Increasing, Below, ToSet
<1> QED BY <1>1, <1>2, <1>3, <1>4 DEF Inv

(***************************************************************************)
(* A line is sent.                                                         *)
(***************************************************************************)
LEMMA SendKeeps ==
  ASSUME Inv, NEW line \in Lines, Send(line)
  PROVE  Inv'
<1> USE DEF Inv
<1>1. /\ sent' = Append(sent, line) /\ sent \in Seq(Lines)
      /\ UNCHANGED <<closed, next, phase, last, buffer, message_counts, raw_buffer, messages_parsed,
                     record_positions, record_raw, batch, slot, commands, stored_raw, window>>
  BY DEF Send, TypeOK, toggles, store
<1>2. /\ sent' \in Seq(Lines) /\ Len(sent') = Len(sent) + 1
      /\ \A i \in 1 .. Len(sent) : sent'[i] = sent[i]
  BY <1>1
<1>3. 1 .. Len(sent) \subseteq 1 .. Len(sent')
  BY <1>2
<1>4. window \subseteq 1 .. Len(sent)
  BY DEF TypeOK
<1>5. TypeOK'
  <2>1. raw_buffer' \in Seq(1..Len(sent'))
    BY <1>1, <1>3 DEF TypeOK
  <2>2. stored_raw' \in Seq(1..Len(sent'))
    BY <1>1, <1>3 DEF TypeOK
  <2>3. next' \in 1 .. Len(sent') + 1 /\ window' \subseteq 1 .. Len(sent')
    BY <1>1, <1>2, <1>3 DEF TypeOK
  <2>4. (phase' \notin Terminal) => (batch' # Empty <=> phase' \in {"persist", "sink"})
    BY <1>1 DEF TypeOK
  <2> QED BY <1>1, <1>2, <2>1, <2>2, <2>3, <2>4 DEF TypeOK
<1>6. Window'
  BY <1>1 DEF Window
<1>7. Best'
  <2>1. \A a \in Aircraft : Reports(a)' = Reports(a)
    BY <1>1, <1>2, <1>4 DEF Reports
  <2>2. \A a \in Aircraft : \A f \in Field : Supplies(a, f)' = Supplies(a, f)
    BY <1>1, <1>2, <1>4, <2>1 DEF Supplies, Reports
  <2>3. ASSUME NEW a \in Aircraft PROVE BestKnownOf(a)'
    BY <1>1, <2>1, <2>2 DEF Best, BestKnownOf
  <2> QED BY <2>3 DEF Best
<1>8. Records'
  <2>1. {i \in window : sent[i].kind = "timed"}' = {i \in window : sent[i].kind = "timed"}
    BY <1>1, <1>2, <1>4
  <2> QED BY <1>1, <2>1 DEF Records, Increasing, Below
<1> QED BY <1>5, <1>6, <1>7, <1>8

(***************************************************************************)
(* A line is received and absorbed.                                        *)
(***************************************************************************)
LEMMA AbsorbBest ==
  ASSUME Inv, Receive
  PROVE  Best'
<1> USE DEF Inv
<1>1. /\ next \in Nat \ {0} /\ next \in 1 .. Len(sent) /\ window \subseteq 1 .. next - 1
      /\ sent' = sent /\ window' = window \cup {next}
  BY DEF Receive, Absorb, TypeOK, Window, input
<1>2. sent[next] \in Lines /\ sent[next].aircraft \in Aircraft
  BY <1>1, LinesAssumption DEF TypeOK, LineKind
<1> DEFINE line == sent[next]
<1>3. \A a \in Aircraft : Reports(a)' =
        IF Parses(line) /\ a = line.aircraft THEN Reports(a) \cup {next} ELSE Reports(a)
  BY <1>1 DEF Reports, Parses
<1>4. \A a \in Aircraft : \A f \in Field : Supplies(a, f)' =
        IF Parses(line) /\ a = line.aircraft /\ f \in line.fields
        THEN Supplies(a, f) \cup {next} ELSE Supplies(a, f)
  BY <1>1, <1>3 DEF Supplies
<1>5. \A a \in Aircraft : Reports(a) \subseteq 1 .. next - 1
        /\ \A f \in Field : Supplies(a, f) \subseteq 1 .. next - 1
  BY <1>1 DEF Reports, Supplies
<1>6. ASSUME NEW a \in Aircraft PROVE BestKnownOf(a)'
  <2>1. CASE ~(Parses(line) /\ a = line.aircraft)
    <3>1. buffer'[a] = buffer[a]
      BY <2>1 DEF Receive, Absorb, TypeOK
    <3>2. Reports(a)' = Reports(a) /\ \A f \in Field : Supplies(a, f)' = Supplies(a, f)
      BY <2>1, <1>3, <1>4
    <3> QED BY <3>1, <3>2 DEF Best, BestKnownOf
  <2>2. CASE Parses(line) /\ a = line.aircraft
    <3>1. buffer'[a] = Merge(buffer[a], Position(next))
      BY <2>2, <1>2 DEF Receive, Absorb, TypeOK
    <3>2. Newest(Reports(a)') = next
      <4>1. Reports(a)' = Reports(a) \cup {next}
        BY <2>2, <1>3
      <4> QED BY <4>1, <1>1, <1>5, NewestIsAdded
    <3>3. ASSUME NEW f \in Field
          PROVE  Newest(Supplies(a, f)') =
                   IF f \in line.fields THEN next ELSE buffer[a].value[f]
      <4>1. CASE f \in line.fields
        <5>1. Supplies(a, f)' = Supplies(a, f) \cup {next}
          BY <2>2, <4>1, <1>4
        <5> QED BY <4>1, <5>1, <1>1, <1>5, NewestIsAdded
      <4>2. CASE f \notin line.fields
        <5>1. Supplies(a, f)' = Supplies(a, f)
          BY <4>2, <1>4
        <5>2. buffer[a].value[f] = Newest(Supplies(a, f))
          BY FieldsOfBest
        <5> QED BY <4>2, <5>1, <5>2
      <4> QED BY <4>1, <4>2
    <3>4. /\ Position(next).at = next
          /\ Position(next).message_count = 0
          /\ DOMAIN Position(next) = {"at", "value", "message_count"}
          /\ Position(next).value = [f \in Field |-> IF f \in line.fields THEN next ELSE 0]
      BY DEF Position
    <3> DEFINE merged == [f \in Field |-> IF f \in line.fields THEN next ELSE buffer[a].value[f]]
    <3>5. Merge(buffer[a], Position(next)) = [at |-> next, message_count |-> 0, value |-> merged]
      <4>1. CASE buffer[a] = NoPosition
        <5>1. \A f \in Field : buffer[a].value[f] = 0
          BY <4>1 DEF NoPosition
        <5>2. merged = [f \in Field |-> IF f \in line.fields THEN next ELSE 0]
          BY <5>1
        <5> QED BY <4>1, <5>2 DEF Merge, Position
      <4>2. CASE buffer[a] # NoPosition
        <5>2. [f \in Field |-> IF Position(next).value[f] # 0 THEN Position(next).value[f] ELSE buffer[a].value[f]]
                = merged
          BY <1>1, <3>4
        <5>3. Merge(buffer[a], Position(next)) = [buffer[a] EXCEPT !.at = next, !.value = merged]
          BY <4>2, <5>2, <3>4 DEF Merge
        <5> HIDE DEF merged
        <5>4. [buffer[a] EXCEPT !.at = next, !.value = merged] = [at |-> next, message_count |-> 0, value |-> merged]
          <6>1. buffer[a] \in Merged BY DEF TypeOK
          <6>3. merged \in [Field -> Nat]
            <7>1. \A f \in Field : buffer[a].value[f] \in Nat BY <6>1 DEF Merged
            <7> QED BY <7>1, <1>1 DEF merged
          <6>2. buffer[a].message_count = 0 BY FieldsOfBest
          <6> QED BY <1>1, <6>1, <6>2, <6>3, Updated
        <5> QED BY <5>3, <5>4
      <4> QED BY <4>1, <4>2
    <3>6. merged = [f \in Field |-> Newest(Supplies(a, f)')]
      BY <3>3
    <3> QED BY <3>1, <3>2, <3>5, <3>6 DEF BestKnownOf
  <2> QED BY <2>1, <2>2
<1> QED BY <1>6 DEF Best

LEMMA ReceiveKeeps ==
  ASSUME Inv, Receive
  PROVE  Inv'
<1> USE DEF Inv
<1>1. /\ phase = "select" /\ next \in Nat \ {0} /\ next \in 1 .. Len(sent)
      /\ next' = next + 1 /\ window' = window \cup {next}
      /\ raw_buffer' = IF Archives(sent[next]) THEN Append(raw_buffer, next) ELSE raw_buffer
      /\ UNCHANGED <<sent, closed, phase, last, record_positions, record_raw, batch, slot, commands, stored_raw>>
  BY DEF Receive, Absorb, TypeOK, input, toggles, store
<1>2. sent[next] \in Lines /\ sent[next].aircraft \in Aircraft /\ sent[next].fields \subseteq Field
  BY <1>1, LinesAssumption DEF TypeOK, LineKind
<1>3. raw_buffer \in Seq(1..Len(sent)) /\ raw_buffer' \in Seq(1..Len(sent))
  <2>1. raw_buffer \in Seq(1..Len(sent)) BY DEF TypeOK
  <2>2. CASE Archives(sent[next])
    <3>1. raw_buffer' = Append(raw_buffer, next) BY <1>1, <2>2
    <3> DEFINE S == 1 .. Len(sent)
    <3>2. raw_buffer \in Seq(S) /\ next \in S BY <1>1, <2>1
    <3> HIDE DEF S
    <3>3. Append(raw_buffer, next) \in Seq(S) BY <3>2
    <3>4. raw_buffer \in Seq(S) /\ raw_buffer' \in Seq(S) BY <3>1, <3>2, <3>3
    <3> QED BY <3>4 DEF S
  <2>3. CASE ~Archives(sent[next]) BY <1>1, <2>1, <2>3
  <2> QED BY <2>1, <2>2, <2>3
<1>4. TypeOK'
  <2>1. next' \in 1 .. Len(sent) + 1 /\ window' \subseteq 1 .. Len(sent)
    BY <1>1 DEF TypeOK
  <2>2. Position(next) \in Merged
    BY <1>1 DEF Position, Merged
  <2>3. Merge(buffer[sent[next].aircraft], Position(next)) \in Merged
    <3>1. buffer[sent[next].aircraft] \in Merged
      BY <1>2 DEF TypeOK
    <3> QED BY <2>2, <3>1 DEF Merge, Merged
  <2>4. buffer' \in [Aircraft -> Merged]
    BY <2>3, <1>2 DEF Receive, Absorb, TypeOK
  <2>5. messages_parsed' \in Nat /\ message_counts' \in [Aircraft -> Nat]
    <3>1. \A n \in Nat : n + (IF Parses(sent[next]) THEN 1 ELSE 0) \in Nat
      OBVIOUS
    <3> QED BY <3>1, <1>2 DEF Receive, Absorb, TypeOK
  <2>6. (phase' \notin Terminal) => (batch' # Empty <=> phase' \in {"persist", "sink"})
    BY <1>1 DEF TypeOK
  <2> QED BY <1>1, <1>3, <2>1, <2>4, <2>5, <2>6 DEF TypeOK
<1>5. Window'
  BY <1>1 DEF Window, Steps
<1>6. Records'
  <2>1. CASE ~Archives(sent[next])
    <3>1. raw_buffer' = raw_buffer
      BY <1>1, <2>1
    <3>2. {i \in window : sent[i].kind = "timed"}' = {i \in window : sent[i].kind = "timed"}
      BY <1>1, <2>1 DEF Archives
    <3>3. Below(raw_buffer, next') /\ Below(stored_raw, next')
      <4>1. raw_buffer \in Seq(1..Len(sent)) /\ stored_raw \in Seq(1..Len(sent))
        BY DEF TypeOK
      <4> QED BY <1>1, <4>1 DEF Records, Below
    <3> QED BY <1>1, <3>1, <3>2, <3>3 DEF Records, Increasing, Below
  <2>2. CASE Archives(sent[next])
    <3>1. raw_buffer' = Append(raw_buffer, next) /\ stored_raw \in Seq(1..Len(sent))
      BY <1>1, <2>2 DEF TypeOK
    <3>2. /\ Len(raw_buffer') = Len(raw_buffer) + 1 /\ Len(raw_buffer) \in Nat
          /\ \A i \in 1 .. Len(raw_buffer) : raw_buffer'[i] = raw_buffer[i] /\ raw_buffer[i] \in Nat
          /\ raw_buffer'[Len(raw_buffer) + 1] = next
          /\ DOMAIN raw_buffer = 1 .. Len(raw_buffer) /\ DOMAIN raw_buffer' = 1 .. Len(raw_buffer) + 1
      BY <1>3, <3>1
    <3>3. Increasing(raw_buffer)'
      BY <3>2 DEF Records, Increasing, Below
    <3>4. Below(raw_buffer, next)'
      BY <1>1, <3>2 DEF Records, Below
    <3>5. Below(stored_raw, next)'
      BY <1>1, <3>1 DEF Records, Below
    <3>6. \A j \in 1 .. Len(raw_buffer') : Below(stored_raw', raw_buffer'[j])
      BY <1>1, <3>2 DEF Records, Below, Terminal
    <3>7. ToSet(raw_buffer') = ToSet(raw_buffer) \cup {next}
      BY <3>2 DEF ToSet
    <3>8. {i \in window : sent[i].kind = "timed"}' = {i \in window : sent[i].kind = "timed"} \cup {next}
      BY <1>1, <2>2 DEF Archives
    <3> QED BY <1>1, <3>3, <3>4, <3>5, <3>6, <3>7, <3>8 DEF Records, Increasing
  <2> QED BY <2>1, <2>2
<1> QED BY <1>4, <1>5, <1>6, AbsorbBest

(***************************************************************************)
(* The drain at the beginning of a flush.                                  *)
(***************************************************************************)
LEMMA DrainedIsBuffer ==
  ASSUME TypeOK, Best
  PROVE  /\ Drained \in [Aircraft -> Merged]
         /\ Drained # Empty <=> buffer # Empty
<1>1. ASSUME NEW a \in Aircraft
      PROVE  Drained[a] \in Merged /\ (Drained[a] = NoPosition <=> buffer[a] = NoPosition)
  <2>1. buffer[a] \in Merged /\ message_counts[a] \in Nat /\ NoPosition \in Merged
    BY DEF TypeOK, NoPosition, Merged
  <2>2. buffer[a].message_count = 0
    BY FieldsOfBest
  <2>3. CASE buffer[a] = NoPosition
    BY <2>1, <2>3 DEF Drained
  <2>4. CASE buffer[a] # NoPosition
    <3>1. Drained[a] = [buffer[a] EXCEPT !.message_count = message_counts[a]]
      BY <2>4 DEF Drained
    <3>2. Drained[a] \in Merged
      BY <2>1, <3>1 DEF Merged
    <3>3. SUFFICES ASSUME Drained[a] = NoPosition PROVE FALSE
      BY <2>4, <3>2
    <3>4. buffer[a].at = NoPosition.at /\ buffer[a].value = NoPosition.value
            /\ buffer[a].message_count = NoPosition.message_count
      BY <2>1, <2>2, <3>1, <3>3 DEF Merged, NoPosition
    <3>5. \A r, s \in Merged : r.at = s.at /\ r.value = s.value /\ r.message_count = s.message_count => r = s
      BY DEF Merged
    <3> QED BY <2>1, <2>4, <3>4, <3>5
  <2> QED BY <2>3, <2>4
<1>2. DOMAIN Drained = Aircraft /\ Drained = [a \in Aircraft |-> Drained[a]]
  BY DEF Drained
<1>3. Drained = Empty <=> \A a \in Aircraft : Drained[a] = NoPosition
  BY <1>2 DEF Empty
<1>4. buffer = Empty <=> \A a \in Aircraft : buffer[a] = NoPosition
  BY DEF Empty, TypeOK
<1> QED BY <1>1, <1>2, <1>3, <1>4

LEMMA DrainKeeps ==
  ASSUME Inv, BeginFlush, last' \in BOOLEAN
  PROVE  Inv'
<1> USE DEF Inv
<1>1. /\ phase = "select" /\ phase' = FlushPhase
      /\ buffer' = Empty /\ window' = {} /\ batch' = Drained
      /\ UNCHANGED <<sent, closed, next, raw_buffer, messages_parsed, record_positions, record_raw, slot, commands, stored_raw>>
  BY DEF BeginFlush, input, toggles, store
<1>2. phase' \in {"raw", "persist", "sink"} /\ (phase' = "raw" <=> buffer = Empty)
  BY <1>1 DEF FlushPhase
<1>3. TypeOK'
  <2>1. message_counts' \in [Aircraft -> Nat]
    BY DEF BeginFlush, TypeOK
  <2>2. Empty \in [Aircraft -> Merged]
    BY DEF Empty, NoPosition, Merged
  <2>3. batch' # Empty <=> phase' \in {"persist", "sink"}
    BY <1>1, <1>2, DrainedIsBuffer
  <2>4. batch' \in [Aircraft -> Merged]
    BY <1>1, DrainedIsBuffer
  <2> QED BY <1>1, <1>2, <2>1, <2>2, <2>3, <2>4 DEF TypeOK
<1>4. Window'
  BY <1>1 DEF Window
<1>5. Best'
  <2>1. \A a \in Aircraft : Reports(a)' = {} /\ \A f \in Field : Supplies(a, f)' = {}
    BY <1>1 DEF Reports, Supplies
  <2>2. ASSUME NEW a \in Aircraft PROVE BestKnownOf(a)'
    BY <1>1, <2>1, NoneIsNewest DEF BestKnownOf, Empty, NoPosition
  <2> QED BY <2>2 DEF Best
<1>6. Records'
  BY <1>1, <1>2 DEF Records, Increasing, Below, Terminal
<1> QED BY <1>3, <1>4, <1>5, <1>6

(***************************************************************************)
(* The steps that leave the window and the buffer alone.                   *)
(***************************************************************************)
LEMMA BestStays ==
  ASSUME Inv, UNCHANGED <<sent, window, buffer>>
  PROVE  Best'
<1>1. \A a \in Aircraft : Reports(a)' = Reports(a)
  BY DEF Reports
<1>2. \A a \in Aircraft : \A f \in Field : Supplies(a, f)' = Supplies(a, f)
  BY <1>1 DEF Supplies
<1>3. ASSUME NEW a \in Aircraft PROVE BestKnownOf(a)'
  BY <1>1, <1>2 DEF Inv, Best, BestKnownOf
<1> QED BY <1>3 DEF Best

\* The raw buffer and the table after the records are stored, or dropped.
LEMMA StoringKeepsOrder ==
  ASSUME TypeOK, Records, phase \notin Terminal
  PROVE  /\ stored_raw \o raw_buffer \in Seq(1 .. Len(sent))
         /\ Increasing(stored_raw \o raw_buffer) /\ Below(stored_raw \o raw_buffer, next)
<1> DEFINE all == stored_raw \o raw_buffer
           m == Len(stored_raw)
           n == Len(raw_buffer)
<1>1. /\ stored_raw \in Seq(1 .. Len(sent)) /\ raw_buffer \in Seq(1 .. Len(sent))
      /\ m \in Nat /\ n \in Nat /\ next \in Nat
  BY DEF TypeOK
<1>2. /\ all \in Seq(1 .. Len(sent)) /\ Len(all) = m + n
      /\ \A i \in 1 .. m : all[i] = stored_raw[i]
      /\ \A i \in m + 1 .. m + n : all[i] = raw_buffer[i - m]
  BY <1>1
<1>3. \A i \in 1 .. m + n : i \in 1 .. m \/ (i \in m + 1 .. m + n /\ i - m \in 1 .. n)
  BY <1>1
<1>4. /\ \A i \in 1 .. m : stored_raw[i] \in Nat
      /\ \A i \in 1 .. n : raw_buffer[i] \in Nat
  BY <1>1
<1> HIDE DEF all, m, n
<1>5. ASSUME NEW i \in 1 .. m + n, NEW j \in 1 .. m + n, i < j
      PROVE  all[i] < all[j]
  <2>1. CASE j \in 1 .. m
    <3>1. i \in 1 .. m BY <1>1, <1>5, <2>1
    <3> QED BY <1>2, <1>5, <2>1, <3>1 DEF Records, Increasing, m
  <2>2. CASE i \in 1 .. m /\ j \in m + 1 .. m + n
    <3>1. stored_raw[i] < raw_buffer[j - m]
      <4>1. j - m \in 1 .. n BY <1>1, <2>2
      <4>2. Below(stored_raw, raw_buffer[j - m]) BY <4>1 DEF Records, n
      <4> QED BY <2>2, <4>2 DEF Below, m
    <3> QED BY <1>2, <2>2, <3>1
  <2>3. CASE i \in m + 1 .. m + n /\ j \in m + 1 .. m + n
    <3>1. i - m \in 1 .. n /\ j - m \in 1 .. n /\ i - m < j - m
      BY <1>1, <1>5, <2>3
    <3>2. raw_buffer[i - m] < raw_buffer[j - m]
      BY <3>1 DEF Records, Increasing, n
    <3> QED BY <1>2, <2>3, <3>2
  <2> QED BY <1>1, <1>3, <1>5, <2>1, <2>2, <2>3
<1>6. Increasing(all)
  BY <1>2, <1>5 DEF Increasing
<1>7. Below(all, next)
  <2> SUFFICES ASSUME NEW i \in 1 .. m + n PROVE all[i] < next
    BY <1>2 DEF Below
  <2>1. CASE i \in 1 .. m BY <1>2, <2>1 DEF Records, Below, m
  <2>2. CASE i \in m + 1 .. m + n /\ i - m \in 1 .. n BY <1>2, <2>2 DEF Records, Below, n
  <2> QED BY <1>3, <2>1, <2>2
<1> QED BY <1>2, <1>6, <1>7 DEF all

LEMMA QuietKeeps ==
  ASSUME Inv,
         SourceEnds \/ Lagged \/ PersistBatch \/ Sink \/ LoadRaw \/ HoldSlot \/ ReleaseSlot
         \/ (\E p, r \in BOOLEAN : SetRecording(p, r)) \/ UNCHANGED vars
  PROVE  Inv'
<1> USE DEF Inv
<1>1. /\ UNCHANGED <<sent, last, buffer, message_counts, raw_buffer, messages_parsed, stored_raw, window>>
      /\ next' \in next .. Len(sent) + 1
      /\ phase' = "select" <=> phase = "select"
      /\ phase' \in Terminal <=> phase \in Terminal
      /\ phase' \in Steps <=> phase \in Steps
      /\ phase' \in {"select"} \cup Steps \cup Terminal
  <2>1. next \in Nat /\ next \in 1 .. Len(sent) + 1 /\ Len(sent) \in Nat
        /\ phase \in {"select"} \cup Steps \cup Terminal
    BY DEF TypeOK, Steps
  <2>2. CASE Lagged
    BY <2>1, <2>2, CapacityAssumption DEF Lagged, Oldest, input, toggles, store
  <2>3. CASE SourceEnds \/ HoldSlot \/ ReleaseSlot
             \/ (\E p, r \in BOOLEAN : SetRecording(p, r)) \/ UNCHANGED vars
    BY <2>1, <2>3 DEF SourceEnds, HoldSlot, ReleaseSlot, SetRecording, vars, input, toggles, store
  <2>4. CASE PersistBatch \/ Sink \/ LoadRaw
    BY <2>1, <2>4 DEF PersistBatch, Sink, LoadRaw, Steps, Terminal, input, toggles, store
  <2> QED BY <2>2, <2>3, <2>4
<1>2. /\ closed' \in BOOLEAN /\ record_positions' \in BOOLEAN /\ record_raw' \in BOOLEAN
      /\ slot' \in {"open", "none", "held"} /\ commands' \in 0 .. MaxCommands
  <2>1. CASE SourceEnds \/ Lagged \/ PersistBatch \/ Sink \/ LoadRaw \/ ReleaseSlot \/ UNCHANGED vars
    BY <2>1 DEF SourceEnds, Lagged, PersistBatch, Sink, LoadRaw, ReleaseSlot, vars, TypeOK, input, toggles, store
  <2>2. CASE HoldSlot \/ (\E p, r \in BOOLEAN : SetRecording(p, r))
    BY <2>2, BoundAssumption DEF HoldSlot, SetRecording, TypeOK, input, toggles, store
  <2> QED BY <2>1, <2>2
<1>3. /\ batch' \in [Aircraft -> Merged]
      /\ phase' \notin Terminal => (batch' # Empty <=> phase' \in {"persist", "sink"})
  <2>1. Empty \in [Aircraft -> Merged]
    BY DEF Empty, NoPosition, Merged
  <2>2. CASE Sink
    BY <2>1, <2>2 DEF Sink
  <2>3. CASE PersistBatch \/ LoadRaw
    BY <2>3 DEF PersistBatch, LoadRaw, TypeOK, Terminal
  <2>4. CASE ~(Sink \/ PersistBatch \/ LoadRaw)
    BY <2>4 DEF SourceEnds, Lagged, HoldSlot, ReleaseSlot, SetRecording, vars, TypeOK, store
  <2> QED BY <2>2, <2>3, <2>4
<1>4. TypeOK'
  <2>1. next' \in 1 .. Len(sent) + 1 BY <1>1 DEF TypeOK
  <2> QED BY <1>1, <1>2, <1>3, <2>1 DEF TypeOK, Steps
<1>5. Window'
  <2>1. window \subseteq 1 .. next' - 1
    <3>0. next \in 1 .. Len(sent) + 1 /\ Len(sent) \in Nat BY DEF TypeOK
    <3>1. next \in Nat /\ next' \in Nat /\ next <= next' BY <1>1, <3>0
    <3>2. \A m, n \in Nat : m <= n => 1 .. m - 1 \subseteq 1 .. n - 1 OBVIOUS
    <3> QED BY <3>1, <3>2 DEF Window
  <2> QED BY <1>1, <2>1 DEF Window
<1>6. Records'
  <2>1. /\ raw_buffer \in Seq(1 .. Len(sent)) /\ stored_raw \in Seq(1 .. Len(sent)) /\ next \in Nat
        /\ next' \in Nat /\ next' >= next
    BY <1>1 DEF TypeOK
  <2>2. Below(raw_buffer, next') /\ Below(stored_raw, next')
    BY <2>1 DEF Records, Below
  <2> QED BY <1>1, <2>2 DEF Records, Increasing, Below
<1> QED BY <1>1, <1>4, <1>5, <1>6, BestStays

LEMMA RawKeeps ==
  ASSUME Inv, SkipRaw \/ PersistRaw \/ Abort
  PROVE  Inv'
<1> USE DEF Inv
<1>1. /\ UNCHANGED <<sent, closed, next, last, buffer, message_counts, messages_parsed, record_positions,
                     record_raw, batch, slot, commands, window>>
      /\ phase \notin Terminal
  BY DEF SkipRaw, PersistRaw, Abort, EndFlush, Terminal, input, toggles, store
<1>2. \/ phase' \in Terminal /\ raw_buffer' = raw_buffer
      \/ phase \in {"raw", "persist_raw"} /\ phase' \in {"select", "done"} /\ raw_buffer' = <<>>
  BY DEF SkipRaw, PersistRaw, Abort, EndFlush, Terminal, RawKept
<1>3. stored_raw' = stored_raw \/ stored_raw' = stored_raw \o raw_buffer
  BY DEF SkipRaw, PersistRaw, Abort
<1>4. /\ stored_raw' \in Seq(1 .. Len(sent))
      /\ Increasing(stored_raw') /\ Below(stored_raw', next)
  BY <1>1, <1>3, StoringKeepsOrder DEF TypeOK, Records
<1>5. /\ raw_buffer' \in Seq(1 .. Len(sent))
      /\ Increasing(raw_buffer') /\ Below(raw_buffer', next)
  <2>1. <<>> \in Seq(1 .. Len(sent)) /\ Increasing(<<>>) /\ Below(<<>>, next)
    BY DEF Increasing, Below
  <2> QED BY <1>2, <2>1 DEF TypeOK, Records
<1>6. TypeOK'
  <2>1. phase' \notin Terminal => (batch' # Empty <=> phase' \in {"persist", "sink"})
    BY <1>1, <1>2 DEF TypeOK, Terminal
  <2>2. phase' \in {"select"} \cup Terminal
    BY <1>2 DEF Terminal
  <2> QED BY <1>1, <1>4, <1>5, <2>1, <2>2 DEF TypeOK
<1>7. Window'
  BY <1>1, <1>2 DEF Window, Steps, Terminal
<1>8. Records'
  <2>1. phase' \notin Terminal => raw_buffer' = <<>>
    BY <1>2
  <2>2. phase' \notin Terminal => \A j \in 1 .. Len(raw_buffer') : Below(stored_raw', raw_buffer'[j])
    BY <2>1
  <2>3. phase' = "select" => window = {} /\ ToSet(raw_buffer') = {}
    BY <1>2, <2>1 DEF Window, Steps, Terminal, ToSet
  <2> QED BY <1>1, <1>4, <1>5, <2>2, <2>3 DEF Records
<1> QED BY <1>1, <1>6, <1>7, <1>8, BestStays

LEMMA StepInv == Inv /\ [Next]_vars => Inv'
<1> SUFFICES ASSUME Inv, [Next]_vars PROVE Inv' OBVIOUS
<1>1. CASE \E line \in Lines : Send(line) BY <1>1, SendKeeps
<1>2. CASE Receive BY <1>2, ReceiveKeeps
<1>3. CASE Tick \/ Closed
  <2>1. BeginFlush /\ last' \in BOOLEAN BY <1>3 DEF Tick, Closed, Inv, TypeOK
  <2> QED BY <2>1, DrainKeeps
<1>4. CASE SkipRaw \/ PersistRaw \/ Abort BY <1>4, RawKeeps
<1>5. CASE SourceEnds \/ Lagged \/ PersistBatch \/ Sink \/ LoadRaw \/ HoldSlot \/ ReleaseSlot
           \/ (\E p, r \in BOOLEAN : SetRecording(p, r)) \/ Ended \/ UNCHANGED vars
  BY <1>5, QuietKeeps DEF Ended
<1> QED BY <1>1, <1>2, <1>3, <1>4, <1>5 DEF Next

LEMMA Invariant == Spec => []Inv
BY InitInv, StepInv, PTL DEF Spec

(***************************************************************************)
(* Merging line by line, with whatever lag, toggles, flushes and abort,    *)
(* gives the best-known state of the lines received since the last drain   *)
(* (merge_into_buffer, flush), and no flush skips the sink.                *)
(***************************************************************************)
THEOREM MergesToBestKnown == Spec => []BestKnown
<1>1. Inv => BestKnown
  BY DEF Inv, BestKnown, Best, BestKnownOf
<1> QED BY <1>1, Invariant, PTL

(***************************************************************************)
(* Raw records are stored in the order of arrival and once, whichever of   *)
(* the writes fail or are cut off by the abort (persist_raw_batch), and    *)
(* between flushes they are those of the positions in the buffer.          *)
(***************************************************************************)
THEOREM RawInOrder == Spec => []RawFollowsWindow
<1>1. Inv => RawFollowsWindow
  <2> SUFFICES ASSUME Inv PROVE RawFollowsWindow OBVIOUS
  <2>1. phase \in Terminal => Increasing(stored_raw)
    BY DEF Inv, Records
  <2>2. phase \notin Terminal => Increasing(stored_raw \o raw_buffer)
    BY StoringKeepsOrder DEF Inv
  <2> QED BY <2>1, <2>2 DEF Inv, Records, RawFollowsWindow, Increasing
<1> QED BY <1>1, Invariant, PTL

(***************************************************************************)
(* The counts.                                                             *)
(***************************************************************************)
Parsed == messages_parsed = emitted + Total(batch) + SumFunction(message_counts)

\* Every parsed line is in one of the counts; an aircraft without a position has no
\* count; and the flush after Closed leaves nothing behind.
Counts ==
  /\ emitted \in Nat /\ Parsed
  /\ \A a \in Aircraft : buffer[a] = NoPosition => message_counts[a] = 0
  /\ phase \in Steps => buffer = Empty
  /\ last => closed /\ next = Len(sent) + 1 /\ phase # "select"
  /\ phase = "done" => last /\ buffer = Empty /\ batch = Empty /\ raw_buffer = <<>>

LEMMA TotalType ==
  ASSUME NEW positions \in [Aircraft -> Merged]
  PROVE  Total(positions) \in Nat
<1>1. [a \in Aircraft |-> positions[a].message_count] \in [Aircraft -> Nat]
  BY DEF Merged
<1> QED
  BY <1>1, AircraftAssumption, SumType DEF Total

LEMMA EmptyTotal == Total(Empty) = 0
<1>1. PICK f : f = [a \in Aircraft |-> Empty[a].message_count]
  OBVIOUS
<1>2. f \in [Aircraft -> Nat] /\ \A a \in Aircraft : f[a] = 0
  BY <1>1 DEF Empty, NoPosition
<1>3. SumFunction(f) = 0
  BY <1>2, AircraftAssumption, SumZero
<1> QED
  BY <1>1, <1>3 DEF Total

LEMMA NoCounts ==
  ASSUME NEW counts \in [Aircraft -> Nat], \A a \in Aircraft : counts[a] = 0
  PROVE  SumFunction(counts) = 0
  BY AircraftAssumption, SumZero

\* The drain moves the counts into the batch.
LEMMA DrainMoves ==
  ASSUME Inv, BeginFlush
  PROVE  SumFunction(message_counts) = Total(batch') + SumFunction(message_counts')
<1>1. PICK f : f = [a \in Aircraft |-> batch'[a].message_count]
  OBVIOUS
<1>2. message_counts \in [Aircraft -> Nat] /\ message_counts' \in [Aircraft -> Nat]
  BY DEF Inv, TypeOK, BeginFlush
<1>3. batch' = Drained /\ Drained \in [Aircraft -> Merged]
  BY DrainedIsBuffer DEF Inv, BeginFlush
<1>4. f \in [Aircraft -> Nat]
  BY <1>1, <1>3 DEF Merged
<1>5. ASSUME NEW a \in Aircraft PROVE message_counts[a] = f[a] + message_counts'[a]
  <2>1. message_counts'[a] = IF buffer[a] = NoPosition THEN message_counts[a] ELSE 0
    BY DEF BeginFlush
  <2>2. message_counts[a] \in Nat
    BY <1>2
  <2>3. CASE buffer[a] = NoPosition
    <3>1. f[a] = 0
      BY <1>1, <1>3, <2>3 DEF Drained, NoPosition
    <3> QED
      BY <2>1, <2>2, <2>3, <3>1
  <2>4. CASE buffer[a] # NoPosition
    <3>1. buffer[a] \in Merged
      BY DEF Inv, TypeOK
    <3>2. batch'[a] = [buffer[a] EXCEPT !.message_count = message_counts[a]]
      BY <1>3, <2>4 DEF Drained
    <3>3. f[a] = message_counts[a]
      BY <1>1, <3>1, <3>2 DEF Merged
    <3> QED
      BY <2>1, <2>2, <2>4, <3>3
  <2> QED
    BY <2>3, <2>4
<1>6. SumFunction(message_counts) = SumFunction(f) + SumFunction(message_counts')
  BY <1>2, <1>4, <1>5, AircraftAssumption, SumAdd
<1> QED
  BY <1>1, <1>6 DEF Total

\* The numbers the sums are about.
LEMMA CountTypes ==
  ASSUME Inv
  PROVE  /\ Total(batch) \in Nat /\ SumFunction(message_counts) \in Nat
         /\ messages_parsed \in Nat
<1>1. batch \in [Aircraft -> Merged] /\ message_counts \in [Aircraft -> Nat]
      /\ messages_parsed \in Nat
  BY DEF Inv, TypeOK
<1> QED
  BY <1>1, TotalType, AircraftAssumption, SumType

LEMMA CountsInit == Init => Counts
<1> SUFFICES ASSUME Init PROVE Counts
  OBVIOUS
<1>1. message_counts \in [Aircraft -> Nat] /\ \A a \in Aircraft : message_counts[a] = 0
  BY DEF Init
<1>2. Parsed
  BY <1>1, NoCounts, EmptyTotal DEF Init, Parsed
<1> QED
  BY <1>1, <1>2 DEF Init, Counts, Steps

\* A line that parses is one more in one count.
LEMMA ReceiveCounts ==
  ASSUME Inv, Counts, Receive
  PROVE  Counts'
<1> DEFINE line == sent[next]
           a == line.aircraft
           one == IF Parses(line) THEN 1 ELSE 0
<1>1. /\ phase = "select" /\ phase' = phase /\ next \in 1..Len(sent) /\ next' = next + 1
      /\ messages_parsed' = messages_parsed + one
      /\ message_counts' = [message_counts EXCEPT ![a] = @ + one]
      /\ buffer' = IF Parses(line) THEN [buffer EXCEPT ![a] = Merge(@, Position(next))] ELSE buffer
      /\ UNCHANGED <<batch, emitted, last, closed, sent>>
  BY DEF Receive, Absorb, Inv, TypeOK, input
<1>2. a \in Aircraft
  BY <1>1, LinesAssumption DEF Inv, TypeOK, LineKind
<1>3. /\ message_counts \in [Aircraft -> Nat] /\ message_counts' \in [Aircraft -> Nat]
      /\ buffer \in [Aircraft -> Merged]
  BY <1>1, <1>2 DEF Inv, TypeOK
<1> HIDE DEF a
<1>4. SumFunction(message_counts') = SumFunction(message_counts) + one
  <2>1. CASE Parses(line)
    <3>1. message_counts'[a] = message_counts[a] + 1
          /\ \A x \in Aircraft \ {a} : message_counts'[x] = message_counts[x]
      BY <1>1, <1>2, <1>3, <2>1
    <3>2. SumFunction(message_counts') = SumFunction(message_counts) + 1
      BY <1>2, <1>3, <3>1, AircraftAssumption, SumAtPoint
    <3> QED
      BY <2>1, <3>2
  <2>2. CASE ~Parses(line)
    <3>1. message_counts' = message_counts
      BY <1>1, <1>2, <1>3, <2>2
    <3> QED
      BY <2>2, <3>1, CountTypes
  <2> QED
    BY <2>1, <2>2
<1>5. Parsed'
  <2>1. Total(batch)' = Total(batch)
    BY <1>1
  <2>2. one \in Nat
    OBVIOUS
  <2> HIDE DEF one
  <2> QED
    BY <1>1, <1>4, <2>1, <2>2, CountTypes DEF Parsed, Counts
<1>6. ASSUME NEW x \in Aircraft, buffer'[x] = NoPosition PROVE message_counts'[x] = 0
  <2>1. ~(x = a /\ Parses(line))
    <3>1. SUFFICES ASSUME x = a, Parses(line) PROVE FALSE
      OBVIOUS
    <3>2. buffer'[a] = Merge(buffer[a], Position(next))
      BY <1>1, <1>2, <1>3, <3>1
    <3>3. Merge(buffer[a], Position(next)).at = next
      BY <1>2, <1>3 DEF Merge, Position, Merged
    <3> QED
      BY <1>1, <1>6, <3>1, <3>2, <3>3 DEF NoPosition
  <2>2. buffer'[x] = buffer[x] /\ message_counts'[x] = message_counts[x]
    BY <1>1, <1>2, <1>3, <2>1
  <2> QED
    BY <1>6, <2>2 DEF Counts
<1>7. ~last'
  BY <1>1 DEF Counts
<1> QED
  BY <1>1, <1>5, <1>6, <1>7 DEF Counts, Steps

LEMMA DrainCounts ==
  ASSUME Inv, Counts, BeginFlush, last' => closed /\ next = Len(sent) + 1
  PROVE  Counts'
<1>1. /\ phase = "select" /\ phase' = FlushPhase /\ buffer' = Empty
      /\ UNCHANGED <<sent, closed, next, messages_parsed, emitted>>
  BY DEF BeginFlush, input
<1>2. phase' \in {"raw", "persist", "sink"}
  BY <1>1 DEF FlushPhase
<1>3. batch = Empty
  BY <1>1 DEF Inv, TypeOK, Terminal
<1>4. message_counts' \in [Aircraft -> Nat] /\ batch' \in [Aircraft -> Merged]
  BY DrainedIsBuffer DEF Inv, TypeOK, BeginFlush
<1>5. SumFunction(message_counts') \in Nat /\ Total(batch') \in Nat
  BY <1>4, AircraftAssumption, SumType, TotalType
<1>6. Parsed'
  BY <1>1, <1>3, <1>5, DrainMoves, EmptyTotal, CountTypes DEF Counts, Parsed
<1>7. \A a \in Aircraft : message_counts'[a] = 0
  BY DEF BeginFlush, Counts
<1> QED
  BY <1>1, <1>2, <1>6, <1>7 DEF Counts

\* The batch is handed over.
LEMMA SinkCounts ==
  ASSUME Inv, Counts, Sink
  PROVE  Counts'
<1>1. /\ phase' = "raw" /\ phase = "sink" /\ emitted' = emitted + Total(batch) /\ batch' = Empty
      /\ UNCHANGED <<sent, closed, next, last, buffer, message_counts, messages_parsed>>
  BY DEF Sink, input
<1>2. Total(batch') = 0
  BY <1>1, EmptyTotal
<1>3. emitted' \in Nat /\ Parsed'
  BY <1>1, <1>2, CountTypes DEF Counts, Parsed
<1> QED
  BY <1>1, <1>3 DEF Counts, Steps

\* The flush ends.
LEMMA EndCounts ==
  ASSUME Inv, Counts, EndFlush, phase \in {"raw", "persist_raw"}, raw_buffer' = <<>>
  PROVE  Counts'
<1>1. /\ phase' = IF last THEN "done" ELSE "select"
      /\ UNCHANGED <<sent, closed, next, last, buffer, message_counts, messages_parsed,
                     batch, emitted>>
  BY DEF EndFlush, input
<1>2. batch = Empty /\ buffer = Empty
  BY DEF Inv, TypeOK, Terminal, Counts, Steps
<1> QED
  BY <1>1, <1>2 DEF Counts, Parsed, Steps

\* The steps that count nothing.
LEMMA OthersCount ==
  ASSUME Inv, Counts,
         UNCHANGED <<last, buffer, message_counts, messages_parsed, batch, emitted>>,
         \/ UNCHANGED <<sent, closed, next, phase, raw_buffer>>
         \/ UNCHANGED <<next, phase, raw_buffer, closed>> /\ ~closed
         \/ UNCHANGED <<next, phase, raw_buffer, sent>> /\ closed'
         \/ phase = "select" /\ UNCHANGED <<sent, closed, phase, raw_buffer>>
         \/ phase \in Steps /\ phase' \in Steps /\ UNCHANGED <<sent, closed, next, raw_buffer>>
         \/ phase' = "aborted" /\ UNCHANGED <<sent, closed, next, raw_buffer>>
  PROVE  Counts'
<1>1. Parsed'
  BY DEF Parsed, Counts
<1> QED
  BY <1>1 DEF Counts, Steps

LEMMA CountsStep == Inv /\ Inv' /\ Counts /\ [Next]_vars => Counts'
<1> SUFFICES ASSUME Inv, Inv', Counts, [Next]_vars PROVE Counts'
  OBVIOUS
<1>1. CASE \E line \in Lines : Send(line)
  BY <1>1, OthersCount DEF Send, toggles, store
<1>2. CASE SourceEnds
  BY <1>2, OthersCount DEF SourceEnds, toggles, store
<1>3. CASE Receive
  BY <1>3, ReceiveCounts
<1>4. CASE Lagged
  BY <1>4, OthersCount DEF Lagged, input
<1>5. CASE Tick
  <2>1. BeginFlush /\ last' = last /\ phase = "select"
    BY <1>5 DEF Tick, BeginFlush
  <2>2. ~last
    BY <2>1 DEF Counts
  <2> QED
    BY <2>1, <2>2, DrainCounts
<1>6. CASE Closed
  <2>1. BeginFlush /\ closed /\ next = Len(sent) + 1
    BY <1>6 DEF Closed
  <2> QED
    BY <2>1, DrainCounts
<1>7. CASE PersistBatch
  BY <1>7, OthersCount DEF PersistBatch, input, Steps
<1>8. CASE Sink
  BY <1>8, SinkCounts
<1>9. CASE SkipRaw
  BY <1>9, EndCounts DEF SkipRaw, RawKept
<1>10. CASE LoadRaw
  BY <1>10, OthersCount DEF LoadRaw, input, Steps
<1>11. CASE PersistRaw
  BY <1>11, EndCounts DEF PersistRaw, RawKept
<1>12. CASE \E p, r \in BOOLEAN : SetRecording(p, r)
  BY <1>12, OthersCount DEF SetRecording, input
<1>13. CASE HoldSlot
  BY <1>13, OthersCount DEF HoldSlot, input
<1>14. CASE ReleaseSlot
  BY <1>14, OthersCount DEF ReleaseSlot, input
<1>15. CASE Abort
  BY <1>15, OthersCount DEF Abort, input
<1>16. CASE Ended \/ UNCHANGED vars
  BY <1>16, OthersCount DEF Ended, vars, input
<1> QED
  BY <1>1, <1>2, <1>3, <1>4, <1>5, <1>6, <1>7, <1>8, <1>9, <1>10, <1>11, <1>12, <1>13, <1>14,
     <1>15, <1>16 DEF Next

LEMMA CountsKept == Spec => []Counts
BY CountsInit, CountsStep, Invariant, PTL DEF Spec

(***************************************************************************)
(* No lag, toggle, empty slot or abort loses the count of a parsed line:   *)
(* it was handed to the sink, or is in the batch of the flush under way or *)
(* in the counts of the next (absorb, flush).                              *)
(***************************************************************************)
THEOREM CountsEveryLine == Spec => []EveryLineCounted
<1>1. Counts => EveryLineCounted
  BY DEF Counts, Parsed, EveryLineCounted
<1> QED BY <1>1, CountsKept, PTL

(***************************************************************************)
(* A pipeline that ended by itself received all lines, holds nothing, and  *)
(* handed every count to the sink (run: the flush after Closed).           *)
(***************************************************************************)
THEOREM NothingLeftBehind == Spec => []DrainsOnClose
<1>1. Inv /\ Counts => DrainsOnClose
  <2> SUFFICES ASSUME Inv, Counts, phase = "done"
               PROVE  /\ next = Len(sent) + 1
                      /\ buffer = Empty /\ batch = Empty /\ raw_buffer = <<>>
                      /\ emitted = messages_parsed
    BY DEF DrainsOnClose
  <2>1. /\ next = Len(sent) + 1
        /\ buffer = Empty /\ batch = Empty /\ raw_buffer = <<>>
    BY DEF Counts
  <2>2. \A a \in Aircraft : message_counts[a] = 0
    BY <2>1 DEF Counts, Empty
  <2>3. SumFunction(message_counts) = 0
    BY <2>2, NoCounts DEF Inv, TypeOK
  <2>4. emitted = messages_parsed
    BY <2>1, <2>3, EmptyTotal DEF Counts, Parsed
  <2> QED
    BY <2>1, <2>4
<1> QED BY <1>1, CountsKept, Invariant, PTL
=============================================================================
