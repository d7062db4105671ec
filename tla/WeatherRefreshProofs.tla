------------------------ MODULE WeatherRefreshProofs ------------------------
(***************************************************************************)
(* The refresh loop and the provider of the weather service.               *)
(*                                                                         *)
(* WeatherRefresh, for any delays, any answers of the provider and any     *)
(* failures of the files: the type invariant, the agreement of the         *)
(* setting, that no wait is cut short or chosen too short, also as the     *)
(* refinement of Quota, and that the channels are current.  They follow    *)
(* from one inductive invariant, which says where the waits of the past    *)
(* are kept while the loop, the commands and the process come and go, and  *)
(* from what the report says in each phase.                                *)
(*                                                                         *)
(* Provider: the level of the bucket, the time of its last refill less     *)
(* the tokens it has, grows by the cost with every reservation, so that it *)
(* bounds what was spent since any earlier request (WithinLevel); and what *)
(* was answered is still in hand, or of an earlier hour, or was assembled  *)
(* (AnswersSound).                                                         *)
(***************************************************************************)
EXTENDS WeatherRefresh, Provider, Counting, TLAPS

-----------------------------------------------------------------------------
(* The inductive invariant.                                                *)

\* Nothing is to be waited for, or the scheduled fetch comes after it.
Ahead == (pace = 0 /\ limit = 0) \/ (pending >= pace /\ pending >= limit)

\* While no request is with the provider the waits are covered by pending; once
\* one is, they are over; between processes the state file keeps the limit.
Timing ==
  /\ phase = "down" => pace = 0 /\ (kept \/ limit = 0)
  /\ phase \in {"fetch", "send", "schedule"} => pace = 0 /\ limit = 0
  /\ phase \in {"top", "disabled", "wait"} => Ahead
  /\ kept => \/ limit = 0
             \/ IF phase = "down" THEN file.left >= limit
                ELSE store.left >= limit /\ (Persistent => file.left >= limit)

\* A command under way is what the memory says.  The file says what the memory does
\* once a process has read or written it; one that has not has the default in memory.
Agreed ==
  /\ phase # "down" /\ Persistent /\ ~unread => store = file
  /\ phase # "down" /\ unread => store = Default
  /\ command # "none" => phase # "down" /\ store.enabled = command
  /\ command = "none" =>
       /\ phase # "down" => store.enabled = acked /\ desired = acked
       /\ Persistent \/ phase = "down" => file.enabled = acked \/ (unread /\ acked = "on")

IInv == TypeOK /\ Timing /\ Agreed

-----------------------------------------------------------------------------
(* The delays.                                                             *)

\* A boundary of the clock is ahead by at least one.
LEMMA UntilNextNat ==
  ASSUME clock \in Nat, NEW period \in Nat \ {0}
  PROVE  UntilNext(period) \in Nat
<1>1. clock % period \in 0..(period - 1)
  OBVIOUS
<1> QED
  BY <1>1 DEF UntilNext

\* What the variables that delays are computed from can be.
LEMMA DelayInputs ==
  ASSUME TypeOK
  PROVE  clock \in Nat /\ outcome.after \in Nat
<1>1. clock \in 0..(Day - 1) /\ Day \in Nat
  BY DelayAssumption DEF TypeOK
<1>2. outcome.after \in RetryAfters \cup {0}
  BY DEF TypeOK
<1>3. clock \in Nat
  BY <1>1
<1>4. outcome.after \in Nat
  <2>1. CASE outcome.after = 0
    BY <2>1
  <2>2. CASE outcome.after \in RetryAfters
    BY <2>2, RetryAftersAssumption
  <2> QED
    BY <1>2, <2>1, <2>2
<1> QED
  BY <1>3, <1>4

\* The window of a rate limit is a natural number, whatever its scope.
LEMMA WindowNat ==
  ASSUME clock \in Nat, NEW scope
  PROVE  Window(scope) \in Nat
<1>1. UntilNext(Hour) \in Nat /\ UntilNext(Day) \in Nat
  BY UntilNextNat, DelayAssumption
<1>2. Refresh \in Nat /\ MinuteWindow \in Nat /\ DailyRecheck \in Nat /\ RetryMax \in Nat
  BY DelayAssumption
<1>3. CASE scope = "minutely"
  BY <1>2, <1>3 DEF Window
<1>4. CASE scope = "hourly"
  BY <1>1, <1>2, <1>4 DEF Window, Most
<1>5. CASE scope = "daily"
  BY <1>1, <1>2, <1>5 DEF Window, Most, Least
<1>6. CASE scope \notin {"minutely", "hourly", "daily"}
  BY <1>2, <1>6 DEF Window, Most
<1> QED
  BY <1>3, <1>4, <1>5, <1>6

\* Every delay that next_delay can choose is a natural number.
LEMMA DelaysNat ==
  ASSUME TypeOK, NEW delay \in NextDelays(outcome, failures)
  PROVE  delay \in Nat
<1>1. CASE outcome.kind = "transient"
  <2>1. delay \in 0..Refresh
    BY <1>1 DEF NextDelays
  <2> QED
    BY <2>1
<1>2. CASE outcome.kind = "limited"
  <2> DEFINE nominal == Most(Window(outcome.scope), outcome.after)
  <2>1. nominal \in Nat
    BY DelayInputs, WindowNat DEF Most
  <2>2. delay \in nominal..2 * nominal
    BY <1>2 DEF NextDelays
  <2> HIDE DEF nominal
  <2> QED
    BY <2>1, <2>2
<1>3. CASE outcome.kind \notin {"transient", "limited"}
  <2>1. delay = Refresh
    BY <1>3 DEF NextDelays
  <2> QED
    BY <2>1, DelayAssumption
<1> QED
  BY <1>1, <1>2, <1>3

-----------------------------------------------------------------------------
(* The types.                                                              *)

\* The state reported while the loop waits is one of the states.
LEMMA WaitingStates ==
  ASSUME TypeOK
  PROVE  StateWhileWaiting \in States
<1>1. CASE last_outcome # "none"
  BY <1>1 DEF StateWhileWaiting, WaitingState, States
<1>2. CASE last_outcome = "none"
  <2>1. report.state \in States
    BY DEF TypeOK, Reports
  <2> QED
    BY <1>2, <2>1 DEF StateWhileWaiting, States
<1> QED
  BY <1>1, <1>2

\* Time passing keeps a time left a time left.
LEMMA PassedLeft ==
  ASSUME NEW left \in Left
  PROVE  Passed(left) \in Left /\ (left \in Nat => Passed(left) \in Nat)
         /\ (left # None => Passed(left) # None)
BY DEF Left, None, Passed

\* What a process starts from is typed.
LEMMA DefaultTyped ==
  /\ Default \in [enabled : Setting, left : Left] /\ Default.enabled \in Setting
  /\ NoReport \in Reports
  /\ NoOutcome \in [kind : Kinds \cup {"none"}, scope : Scopes \cup {"none"}, after : RetryAfters \cup {0}]
  /\ NoOutcome.kind = "none"
<1>1. Default \in [enabled : Setting, left : Left] /\ Default.enabled \in Setting
  BY DEF Default, State, Setting, Left
<1>2. NoReport \in Reports
  BY FailuresAssumption DEF NoReport, Report, Reports, States
<1>3. /\ NoOutcome \in [kind : Kinds \cup {"none"}, scope : Scopes \cup {"none"}, after : RetryAfters \cup {0}]
      /\ NoOutcome.kind = "none"
  BY DEF NoOutcome, Outcome
<1> QED
  BY <1>1, <1>2, <1>3

\* An update leaves the typed state it writes in memory, and the file typed.
LEMMA UpdateTyped ==
  ASSUME TypeOK, NEW next \in [enabled : Setting, left : Left], Update(next)
  PROVE  /\ store' = next /\ unread' \in BOOLEAN
         /\ file' \in [enabled : Setting, left : Left]
         /\ store' \in [enabled : Setting, left : Left]
BY DEF Update, TypeOK, stored

\* What the setting or the next fetch is changed to is typed, and is all that changes.
LEMMA StoredTyped ==
  ASSUME TypeOK
  PROVE  /\ \A e \in Setting :
              /\ StoredSetting(e) \in [enabled : Setting, left : Left]
              /\ StoredSetting(e).enabled = e /\ StoredSetting(e).left = store.left
         /\ \A left \in Left :
              /\ StoredLeft(left) \in [enabled : Setting, left : Left]
              /\ StoredLeft(left).enabled = store.enabled /\ StoredLeft(left).left = left
<1>1. store \in [enabled : Setting, left : Left]
  BY DEF TypeOK
<1> QED
  BY <1>1 DEF StoredSetting, StoredLeft

\* What the loop stores after an outcome.
LEMMA ScheduleStores ==
  ASSUME TypeOK, NEW delay \in Nat, Schedule(delay)
  PROVE  \/ /\ kept' = TRUE
            /\ \E left \in Left :
                 /\ Update(StoredLeft(left))
                 /\ outcome.kind = "limited" => left = delay
         \/ kept' = FALSE /\ UNCHANGED stored
<1> DEFINE left == IF outcome.kind = "limited" THEN delay ELSE None
<1>1. left \in Left /\ (outcome.kind = "limited" => left = delay)
  BY DEF Left
<1>2. \/ Update(StoredLeft(left)) /\ kept' = TRUE
      \/ UNCHANGED stored /\ kept' = FALSE
  BY DEF Schedule
<1> HIDE DEF left
<1> QED
  BY <1>1, <1>2

\* Every step keeps the types.
LEMMA TypeStep ==
  ASSUME TypeOK, [Next]_vars
  PROVE  TypeOK'
<1> USE DelayAssumption, FailuresAssumption, FlagAssumption DEF control, history, loop, stored
<1>0. CASE UNCHANGED vars
  BY <1>0 DEF vars, TypeOK
<1>1. CASE Start
  <2>1. /\ file' \in [enabled : Setting, left : Left] /\ acked' \in Setting /\ limit' \in Nat
        /\ store' \in [enabled : Setting, left : Left] /\ unread' \in BOOLEAN /\ kept' \in BOOLEAN
    <3>1. file.enabled \in Setting
      BY DEF TypeOK
    <3>2. Open
      BY <1>1 DEF Start
    <3>3. /\ file \in [enabled : Setting, left : Left] /\ acked \in Setting /\ limit \in Nat
          /\ kept \in BOOLEAN
      BY DEF TypeOK
    <3>4. CASE /\ store' = file /\ unread' = FALSE
               /\ acked' = IF unread THEN file.enabled ELSE acked
               /\ UNCHANGED <<file, limit, kept>>
      BY <3>1, <3>3, <3>4
    <3>5. CASE /\ store' = Default /\ unread' = TRUE /\ acked' = Default.enabled
               /\ limit' = 0 /\ kept' = FALSE /\ UNCHANGED file
      BY <3>3, <3>5, DefaultTyped
    <3> QED
      BY <3>2, <3>4, <3>5 DEF Open
  <2>2. cache' \in Age /\ snapshots' \in Age
    BY <1>1 DEF Start, Replayed, TypeOK, Age
  <2>3. report' \in Reports
    BY <1>1 DEF Start, Report, Reports, States
  <2>4. desired' \in Setting /\ pending' \in Left
    BY <1>1, <2>1 DEF Start, Honoured
  <2> QED
    BY <1>1, <2>1, <2>2, <2>3, <2>4, DefaultTyped DEF Start, TypeOK
<1>2. CASE Down
  <2>1. /\ file' \in [enabled : Setting, left : Left] /\ acked' \in Setting
        /\ store' \in [enabled : Setting, left : Left] /\ unread' \in BOOLEAN
    BY <1>2, DefaultTyped DEF Down, TypeOK
  <2>2. desired' \in Setting /\ snapshots' \in Age /\ pending' \in Left
    BY <1>2 DEF Down, Setting, Age, Left
  <2>3. kept' \in BOOLEAN /\ limit' \in Nat
    BY <1>2 DEF Down, TypeOK
  <2>4. /\ phase' = "down" /\ outcome' = NoOutcome /\ report' = NoReport /\ reported' = NoReport
        /\ stopping' = FALSE /\ command' = "none" /\ unseen' = FALSE /\ pace' = 0
        /\ failures' = 0 /\ last_outcome' = "none" /\ UNCHANGED <<clock, cache>>
    BY <1>2 DEF Down
  <2>5. "none" \notin Kinds /\ 0 \in 0..MaxFailures
    BY DEF Kinds
  <2>6. clock' \in 0..(Day - 1) /\ cache' \in Age
    BY <2>4 DEF TypeOK
  <2> QED
    BY <2>1, <2>2, <2>3, <2>4, <2>5, <2>6, DefaultTyped DEF TypeOK
<1>3. CASE Shutdown
  BY <1>3 DEF Shutdown, TypeOK
<1>4. ASSUME NEW e \in Setting, Persist(e)
      PROVE  TypeOK'
  <2>1. Update(StoredSetting(e)) /\ StoredSetting(e) \in [enabled : Setting, left : Left]
    BY <1>4, StoredTyped DEF Persist
  <2> QED
    BY <1>4, <2>1, UpdateTyped DEF Persist, TypeOK
<1>5. CASE Announce
  BY <1>5 DEF Announce, Wakes, TypeOK
<1>6. CASE EnterDisabled
  <2>1. report \in Reports /\ pending \in Left
    BY DEF TypeOK
  <2>2. report' \in Reports /\ reported' = report'
    BY <1>6, <2>1 DEF EnterDisabled, Publish, Reports, States
  <2>3. pending' \in Left /\ phase' = "disabled" /\ outcome' = outcome /\ phase = "top"
    BY <1>6, <2>1 DEF EnterDisabled, Survives
  <2> QED
    BY <1>6, <2>2, <2>3 DEF EnterDisabled, TypeOK
<1>7. CASE EnterWait
  BY <1>7, WaitingStates DEF EnterWait, Publish, TypeOK, Reports
<1>8. CASE Observe
  BY <1>8, ZenonT(40) DEF Observe, TypeOK
<1>9. CASE BeginFetch
  <2>1. report \in Reports
    BY DEF TypeOK
  <2>2. report' \in Reports /\ reported' = report'
    BY <1>9, <2>1 DEF BeginFetch, Publish, Reports, States
  <2>3. /\ pending' = None /\ pending' \in Left /\ phase' = "fetch" /\ outcome' = outcome
        /\ phase \in {"top", "wait"}
    BY <1>9 DEF BeginFetch, Left
  <2> QED
    BY <1>9, <2>2, <2>3 DEF BeginFetch, TypeOK
<1>10. CASE Fetched
  <2>1. cache' \in Age /\ snapshots' \in Age
    BY <1>10 DEF Fetched, Older, TypeOK, Age
  <2>2. report' \in Reports
    <3>1. report \in Reports /\ 0 \in 0..MaxFailures
      BY DEF TypeOK
    <3> QED
      BY <1>10, <3>1 DEF Fetched, Reports
  <2>3. outcome' = [kind |-> "fetched", scope |-> "none", after |-> 0]
    BY <1>10 DEF Fetched, Outcome
  <2> QED
    BY <1>10, <2>1, <2>2, <2>3 DEF Fetched, TypeOK, Kinds
<1>11. CASE SendSnapshot
  BY <1>11 DEF SendSnapshot, TypeOK, Age
<1>12. ASSUME NEW o \in Errors, Failed(o)
       PROVE  TypeOK'
  <2>1. failures' \in 0..MaxFailures /\ failures' > 0
    BY <1>12 DEF Failed, Least, TypeOK
  <2>2. report' \in Reports
    BY <1>12, <2>1 DEF Failed, TypeOK, Reports
  <2>3. /\ o.kind \in Kinds /\ o.scope \in Scopes \cup {"none"} /\ o.after \in RetryAfters \cup {0}
        /\ o = [kind |-> o.kind, scope |-> o.scope, after |-> o.after]
    BY DEF Errors, Outcome, Kinds
  <2>4. o \in [kind : Kinds \cup {"none"}, scope : Scopes \cup {"none"}, after : RetryAfters \cup {0}]
    BY <2>3
  <2> QED
    BY <1>12, <2>1, <2>2, <2>3, <2>4 DEF Failed, TypeOK, Kinds
<1>13. ASSUME NEW delay \in NextDelays(outcome, failures), Schedule(delay)
       PROVE  TypeOK'
  <2>1. delay \in Nat
    BY DelaysNat
  <2>2. pending' \in Left /\ pending' # None /\ pace' \in Nat /\ limit' \in Nat
    BY <1>13, <2>1 DEF Schedule, Left, None
  <2>3. /\ file' \in [enabled : Setting, left : Left] /\ kept' \in BOOLEAN
        /\ store' \in [enabled : Setting, left : Left] /\ unread' \in BOOLEAN
    <3>1. CASE kept' = FALSE /\ UNCHANGED stored
      BY <3>1 DEF TypeOK
    <3>2. ASSUME kept' = TRUE, NEW left \in Left, Update(StoredLeft(left))
          PROVE  /\ file' \in [enabled : Setting, left : Left]
                 /\ store' \in [enabled : Setting, left : Left] /\ unread' \in BOOLEAN
      BY <3>2, StoredTyped, UpdateTyped
    <3> QED
      BY <1>13, <2>1, <3>1, <3>2, ScheduleStores
  <2>4. last_outcome' \in Kinds
    BY <1>13 DEF Schedule, TypeOK
  <2> QED
    BY <1>13, <2>2, <2>3, <2>4, DefaultTyped DEF Schedule, TypeOK, Kinds
<1>14. CASE Tick
  <2>1. clock' \in 0..(Day - 1)
    BY <1>14 DEF Tick, TypeOK
  <2>2. Passed(pending) \in Left /\ Passed(file.left) \in Left /\ Passed(pace) \in Nat
        /\ Passed(store.left) \in Left
        /\ Passed(limit) \in Nat /\ (pending # None => Passed(pending) # None)
    BY PassedLeft DEF TypeOK, Left
  <2>3. /\ file' \in [enabled : Setting, left : Left]
        /\ store' \in [enabled : Setting, left : Left]
    BY <1>14, <2>2 DEF Tick, TypeOK
  <2>4. pending' \in Left /\ pace' \in Nat /\ limit' \in Nat /\ (pending # None => pending' # None)
    BY <1>14, <2>2 DEF Tick
  <2>5. pending = None => pending' = None
    BY <1>14 DEF Tick, Passed, None
  <2>6. UNCHANGED <<unread, cache, snapshots, phase, stopping, command, desired, unseen, acked, kept,
                    failures, last_outcome, outcome, report, reported>>
    BY <1>14 DEF Tick
  <2> QED
    BY <2>1, <2>3, <2>4, <2>5, <2>6 DEF TypeOK
<1> QED
  BY <1>0, <1>1, <1>2, <1>3, <1>4, <1>5, <1>6, <1>7, <1>8, <1>9, <1>10, <1>11, <1>12, <1>13,
     <1>14 DEF Next, Crash, Stop

-----------------------------------------------------------------------------
(* The setting.                                                            *)

\* Every step keeps the loop, the file and the operator in agreement.
LEMMA AgreedStep ==
  ASSUME TypeOK, Agreed, [Next]_vars
  PROVE  Agreed'
<1> USE DEF Agreed, control, history, loop, stored
<1>0. CASE UNCHANGED vars
  BY <1>0 DEF vars
<1>1. CASE Start
  <2>1. Open /\ desired' = store'.enabled /\ command' = command /\ phase = "down" /\ phase' = "top"
    BY <1>1 DEF Start
  <2>2. Default.enabled = "on"
    BY DEF Default, State
  <2> QED
    BY <2>1, <2>2 DEF Open
<1>2. CASE Down
  BY <1>2 DEF Down
<1>3. CASE Shutdown
  BY <1>3 DEF Shutdown
<1>4. ASSUME NEW e \in Setting, Persist(e)
      PROVE  Agreed'
  <2>1. Update(StoredSetting(e)) /\ StoredSetting(e).enabled = e
    BY <1>4, StoredTyped DEF Persist
  <2>2. phase # "down" /\ phase' = phase /\ command' = e /\ e # "none"
    BY <1>4 DEF Persist, Setting
  <2> QED
    BY <2>1, <2>2 DEF Update
<1>5. CASE Announce
  <2>1. Default.enabled = "on"
    BY DEF Default, State
  <2> QED
    BY <1>5, <2>1 DEF Announce
<1>6. CASE EnterDisabled
  BY <1>6 DEF EnterDisabled
<1>7. CASE EnterWait
  BY <1>7 DEF EnterWait
<1>8. CASE Observe
  BY <1>8 DEF Observe
<1>9. CASE BeginFetch
  BY <1>9 DEF BeginFetch
<1>10. CASE Fetched
  BY <1>10 DEF Fetched
<1>11. CASE SendSnapshot
  BY <1>11 DEF SendSnapshot
<1>12. ASSUME NEW o \in Errors, Failed(o)
       PROVE  Agreed'
  BY <1>12 DEF Failed
<1>13. ASSUME NEW delay \in NextDelays(outcome, failures), Schedule(delay)
       PROVE  Agreed'
  <2>1. delay \in Nat
    BY DelaysNat
  <2>2. phase # "down" /\ phase' # "down" /\ UNCHANGED <<command, desired, acked>>
    BY <1>13 DEF Schedule
  <2>3. CASE kept' = FALSE /\ UNCHANGED stored
    BY <2>2, <2>3
  <2>4. ASSUME NEW left \in Left, Update(StoredLeft(left))
        PROVE  Agreed'
    <3>1. StoredLeft(left).enabled = store.enabled
      BY StoredTyped
    <3> QED
      BY <2>2, <2>4, <3>1 DEF Update
  <2> QED
    BY <1>13, <2>1, <2>3, <2>4, ScheduleStores
<1>14. CASE Tick
  <2>1. file'.enabled = file.enabled /\ store'.enabled = store.enabled
    BY <1>14 DEF Tick, TypeOK
  <2>2. (store = file => store' = file') /\ (store = Default => store' = Default)
    BY <1>14 DEF Tick, Default, State, Passed, None
  <2> QED
    BY <1>14, <2>1, <2>2 DEF Tick
<1> QED
  BY <1>0, <1>1, <1>2, <1>3, <1>4, <1>5, <1>6, <1>7, <1>8, <1>9, <1>10, <1>11, <1>12, <1>13,
     <1>14 DEF Next, Crash, Stop

-----------------------------------------------------------------------------
(* The waits.                                                              *)

\* A time to come that is not shorter than another stays so while time passes.
LEMMA PassedMonotone ==
  ASSUME NEW left \in Left, NEW other \in Nat, left >= other
  PROVE  Passed(left) >= Passed(other)
BY DEF Left, None, Passed

\* Every step keeps the waits of the past covered.
LEMMA TimingStep ==
  ASSUME TypeOK, Timing, Agreed, [Next]_vars
  PROVE  Timing'
<1> USE DEF Timing, control, history, loop, stored
<1>0. CASE UNCHANGED vars
  BY <1>0 DEF vars, Ahead
<1>1. CASE Start
  <2>1. /\ phase = "down" /\ phase' = "top" /\ pace' = 0
        /\ pending' = store'.left /\ Open
    BY <1>1 DEF Start, Honoured
  <2>2. CASE store' = file /\ UNCHANGED <<file, limit, kept>>
    <3>1. limit \in Nat /\ file.left \in Int
      BY DEF TypeOK, Left, None
    <3>2. limit = 0 \/ file.left >= limit
      BY <2>1
    <3>3. limit # 0 => file.left >= 0
      BY <3>1, <3>2
    <3> QED
      BY <2>1, <2>2, <3>1, <3>2, <3>3 DEF Ahead
  <2>3. CASE limit' = 0 /\ kept' = FALSE
    BY <2>1, <2>3 DEF Ahead
  <2> QED
    BY <2>1, <2>2, <2>3 DEF Open
<1>2. CASE Down
  BY <1>2 DEF Down
<1>3. CASE Shutdown
  BY <1>3 DEF Shutdown, Ahead
<1>4. ASSUME NEW e \in Setting, Persist(e)
      PROVE  Timing'
  <2>1. Update(StoredSetting(e)) /\ StoredSetting(e).left = store.left
    BY <1>4, StoredTyped DEF Persist
  <2>2. phase # "down" /\ UNCHANGED <<phase, pending, pace, limit, kept>>
    BY <1>4 DEF Persist
  <2>3. store'.left = store.left /\ (file' = file \/ file'.left = store.left)
    BY <2>1 DEF Update
  <2> QED
    BY <2>2, <2>3 DEF Ahead
<1>5. CASE Announce
  BY <1>5 DEF Announce, Ahead
<1>6. CASE EnterDisabled
  BY <1>6 DEF EnterDisabled, Survives, Ahead
<1>7. CASE EnterWait
  BY <1>7 DEF EnterWait, Ahead
<1>8. CASE Observe
  BY <1>8 DEF Observe, Ahead
<1>9. CASE BeginFetch
  BY <1>9 DEF BeginFetch, Ahead, TypeOK, None
<1>10. CASE Fetched
  BY <1>10 DEF Fetched
<1>11. CASE SendSnapshot
  BY <1>11 DEF SendSnapshot
<1>12. ASSUME NEW o \in Errors, Failed(o)
       PROVE  Timing'
  BY <1>12 DEF Failed
<1>13. ASSUME NEW delay \in NextDelays(outcome, failures), Schedule(delay)
       PROVE  Timing'
  <2>1. delay \in Nat
    BY DelaysNat
  <2>2. phase' = "top" /\ Ahead'
    BY <1>13, <2>1 DEF Schedule, Ahead
  <2>3. ASSUME kept', limit' # 0
        PROVE  store'.left >= limit' /\ (Persistent => file'.left >= limit')
    <3>1. outcome.kind = "limited" /\ limit' = delay
      BY <1>13, <2>3 DEF Schedule
    <3>2. PICK left \in Left : Update(StoredLeft(left)) /\ left = delay
      BY <1>13, <2>1, <2>3, <3>1, ScheduleStores
    <3>3. StoredLeft(left).left = delay
      BY <3>2, StoredTyped
    <3>4. phase # "down" /\ (Persistent /\ ~unread => store = file)
      BY <1>13 DEF Agreed, Schedule
    <3>5. store' = StoredLeft(left) /\ (file' = store' \/ UNCHANGED stored \/ ~Persistent)
      BY <3>2 DEF Update
    <3>6. CASE ~unread
      BY <2>1, <3>1, <3>3, <3>4, <3>5, <3>6
    <3>7. CASE unread
      <4>1. store.left # delay
        BY <2>1, <3>4, <3>7 DEF Agreed, Default, State, None
      <4> QED
        BY <2>1, <3>1, <3>3, <3>5, <4>1
    <3> QED
      BY <3>6, <3>7
  <2> QED
    BY <2>2, <2>3
<1>14. CASE Tick
  <2>1. pending' = Passed(pending) /\ pace' = Passed(pace) /\ limit' = Passed(limit)
        /\ file'.left = Passed(file.left) /\ store'.left = Passed(store.left)
        /\ phase' = phase /\ kept' = kept
    BY <1>14 DEF Tick, TypeOK
  <2>2. (pace = 0 => pace' = 0) /\ (limit = 0 => limit' = 0)
    BY <2>1 DEF Passed
  <2>3. Ahead => Ahead'
    BY <2>1, <2>2, PassedMonotone DEF Ahead, TypeOK
  <2>4. (file.left >= limit => file'.left >= limit') /\ (store.left >= limit => store'.left >= limit')
    BY <2>1, PassedMonotone DEF TypeOK
  <2> QED
    BY <2>1, <2>2, <2>3, <2>4
<1> QED
  BY <1>0, <1>1, <1>2, <1>3, <1>4, <1>5, <1>6, <1>7, <1>8, <1>9, <1>10, <1>11, <1>12, <1>13,
     <1>14 DEF Next, Crash, Stop

-----------------------------------------------------------------------------
(* The invariant and what follows from it.                                 *)

LEMMA InitIInv == Init => IInv
<1> SUFFICES ASSUME Init PROVE IInv
  OBVIOUS
<1>1. TypeOK
  <2>1. "none" \notin Kinds /\ 0 \in 0..MaxFailures /\ 0 \in 0..(Day - 1)
    BY DelayAssumption, FailuresAssumption DEF Kinds
  <2> QED
    BY <2>1, DefaultTyped DEF Init, TypeOK, Left, Age, Setting
<1>2. Timing /\ Agreed
  BY DEF Init, Timing, Agreed, Default, State
<1> QED
  BY <1>1, <1>2 DEF IInv

LEMMA NextIInv == IInv /\ [Next]_vars => IInv'
BY TypeStep, AgreedStep, TimingStep DEF IInv

\* The inductive invariant holds throughout.
THEOREM Inductive == Spec => []IInv
<1> QED
  BY InitIInv, NextIInv, PTL DEF Spec

\* The variables keep their types, and a fetch to come is scheduled whenever the
\* loop waits for one (Refresher::run).
THEOREM TypeCorrect == Spec => []TypeOK
<1>1. IInv => TypeOK
  BY DEF IInv
<1> QED
  BY <1>1, Inductive, PTL

\* But for a command under way, the setting the operator was told is the one in
\* memory, the one the loop follows and the one in the file, over crashes and restarts
\* and although the loop writes the same file; only a process that could not read the
\* file may be enabled over a file that says "off" (Control::set_enabled,
\* StateStore::open, StateStore::update).
THEOREM SettingSafe == Spec => []SettingDurable
<1>1. IInv => SettingDurable
  BY DEF IInv, Agreed, SettingDurable, Up
<1> QED
  BY <1>1, Inductive, PTL

\* No step to a request is taken before the waits of the past are over: a request
\* starts from the top of the loop with nothing scheduled, or at the deadline.
LEMMA RequestsWait ==
  ASSUME IInv, [Next]_vars, phase # "fetch", phase' = "fetch"
  PROVE  BeginFetch /\ pace = 0 /\ limit = 0
<1> USE DEF control, history, loop, stored
<1>1. BeginFetch
  <2>1. ~UNCHANGED vars
    BY DEF vars
  <2>2. ~Start /\ ~Down /\ ~Shutdown /\ ~Announce /\ ~Tick
    BY DEF Start, Down, Shutdown, Announce, Tick
  <2>3. ~EnterDisabled /\ ~EnterWait /\ ~Observe /\ ~Fetched /\ ~SendSnapshot
    BY DEF EnterDisabled, EnterWait, Observe, Fetched, SendSnapshot
  <2>4. \A e \in Setting : ~Persist(e)
    BY DEF Persist
  <2>5. \A o \in Errors : ~Failed(o)
    BY DEF Failed
  <2>6. \A delay \in NextDelays(outcome, failures) : ~Schedule(delay)
    BY DEF Schedule
  <2> QED
    BY <2>1, <2>2, <2>3, <2>4, <2>5, <2>6 DEF Next, Crash, Stop
<1>2. Ahead /\ (pending = None \/ pending = 0)
  BY <1>1 DEF BeginFetch, IInv, Timing
<1>3. pace \in Nat /\ limit \in Nat
  BY DEF IInv, TypeOK
<1> QED
  BY <1>1, <1>2, <1>3 DEF Ahead, None

\* The provider is not asked before the delay chosen after the last attempt, and
\* the last recorded rate limit, have passed, whatever commands, crashes and
\* restarts came in between (Refresher::run, Pending::at_epoch_ms).
THEOREM FetchesOnTime == Spec => NeverEarly
<1>1. IInv /\ [Next]_vars => [phase # "fetch" /\ phase' = "fetch" => pace = 0 /\ limit = 0]_vars
  BY RequestsWait
<1> QED
  BY <1>1, Inductive, PTL DEF Spec, NeverEarly

-----------------------------------------------------------------------------
(* The waits that are chosen.                                              *)

\* A wait of at least what is left of the hour ends in another hour.
LEMMA BoundaryPassed ==
  ASSUME clock \in Nat, NEW delay \in Nat, delay >= UntilNext(Hour)
  PROVE  (clock + delay) \div Hour # clock \div Hour
<1> DEFINE q == clock \div Hour
           r == clock % Hour
           p == (clock + delay) \div Hour
           s == (clock + delay) % Hour
<1>1. Hour \in Nat /\ Hour > 0
  BY DelayAssumption
<1>2. q \in Nat /\ r \in 0..(Hour - 1) /\ clock = Hour * q + r
  BY <1>1
<1>3. p \in Nat /\ s \in 0..(Hour - 1) /\ clock + delay = Hour * p + s
  BY <1>1
<1>4. delay >= Hour - r
  BY DEF UntilNext
<1> HIDE DEF q, r, p, s
<1>5. ASSUME p = q PROVE FALSE
  <2> DEFINE x == Hour * q
  <2>1. x \in Nat
    BY <1>1, <1>2
  <2>2. clock = x + r /\ clock + delay = x + s
    BY <1>2, <1>3, <1>5
  <2> HIDE DEF x
  <2> QED
    BY <1>1, <1>2, <1>3, <1>4, <2>1, <2>2
<1> QED
  BY <1>5 DEF p, q

\* Only next_delay takes the loop from an outcome back to its top.
LEMMA ChosenDelay ==
  ASSUME IInv, [Next]_vars, phase = "schedule", phase' = "top"
  PROVE  \E delay \in NextDelays(outcome, failures) : Schedule(delay)
<1> USE DEF control, history, loop, stored
<1>1. ~UNCHANGED vars
  BY DEF vars
<1>2. ~Start /\ ~Down /\ ~Shutdown /\ ~Announce /\ ~Tick /\ ~EnterDisabled /\ ~EnterWait
  BY DEF Start, Down, Shutdown, Announce, Tick, EnterDisabled, EnterWait
<1>3. ~Observe /\ ~BeginFetch /\ ~Fetched /\ ~SendSnapshot
  BY DEF Observe, BeginFetch, Fetched, SendSnapshot
<1>4. \A e \in Setting : ~Persist(e)
  BY DEF Persist
<1>5. \A o \in Errors : ~Failed(o)
  BY DEF Failed
<1> QED
  BY <1>1, <1>2, <1>3, <1>4, <1>5 DEF Next, Crash, Stop

\* What a chosen delay is at least, after a limit, and at most, after an error.
LEMMA ChosenWaits ==
  ASSUME IInv, NEW delay \in NextDelays(outcome, failures)
  PROVE  /\ outcome.kind = "transient" => delay <= Refresh
         /\ outcome.kind = "limited" =>
              /\ delay >= outcome.after
              /\ outcome.scope = "hourly" => (clock + delay) \div Hour # clock \div Hour
              /\ outcome.scope # "minutely" => delay >= Refresh
<1>1. TypeOK /\ delay \in Nat /\ Refresh \in Nat
  BY DelaysNat, DelayAssumption DEF IInv
<1>2. ASSUME outcome.kind = "transient" PROVE delay <= Refresh
  <2>1. delay \in 0..Refresh
    BY <1>2 DEF NextDelays
  <2> QED
    BY <1>1, <2>1
<1>3. ASSUME outcome.kind = "limited"
      PROVE  /\ delay >= outcome.after
             /\ outcome.scope = "hourly" => (clock + delay) \div Hour # clock \div Hour
             /\ outcome.scope # "minutely" => delay >= Refresh
  <2> DEFINE window == Window(outcome.scope)
             nominal == Most(window, outcome.after)
  <2>1. window \in Nat /\ outcome.after \in Nat /\ clock \in Nat
    BY <1>1, DelayInputs, WindowNat
  <2>2. delay \in nominal..2 * nominal
    BY <1>3 DEF NextDelays
  <2>3. window >= 0 => nominal >= window /\ nominal >= outcome.after /\ nominal \in Nat
    BY <2>1 DEF Most
  <2>4. delay >= window /\ delay >= outcome.after
    <3> HIDE DEF nominal, window
    <3> QED
      BY <1>1, <2>1, <2>2, <2>3
  <2>5. UntilNext(Hour) \in Nat /\ UntilNext(Day) \in Nat
    BY <2>1, UntilNextNat, DelayAssumption
  <2>6. outcome.scope = "hourly" => window >= UntilNext(Hour)
    BY <1>1, <2>5 DEF Window, Most
  <2>7. outcome.scope # "minutely" => window >= Refresh
    BY <1>1, <2>5, DelayAssumption DEF Window, Most, Least
  <2>8. outcome.scope = "hourly" => delay >= UntilNext(Hour)
    <3> HIDE DEF window
    <3> QED
      BY <1>1, <2>1, <2>4, <2>5, <2>6
  <2>9. outcome.scope # "minutely" => delay >= Refresh
    <3> HIDE DEF window
    <3> QED
      BY <1>1, <2>1, <2>4, <2>7
  <2> QED
    BY <1>1, <2>1, <2>4, <2>8, <2>9, BoundaryPassed
<1> QED
  BY <1>2, <1>3

\* No wait is cut short by commands, crashes or restarts, and none is chosen too
\* short: a limit's window has rolled over by its end, a Retry-After has passed, and
\* a transient failure delays nothing past the schedule (next_delay).
THEOREM WaitsAreKept == Spec => WaitsKept
<1>1. ASSUME IInv, [Next]_vars
      PROVE  [phase = "schedule" /\ phase' = "top" =>
                /\ outcome.kind = "transient" => pending' <= Refresh
                /\ outcome.kind = "limited" =>
                     /\ pending' >= outcome.after
                     /\ outcome.scope = "hourly" => (clock + pending') \div Hour # clock \div Hour
                     /\ outcome.scope # "minutely" => pending' >= Refresh]_vars
  <2> SUFFICES ASSUME phase = "schedule", phase' = "top"
               PROVE  /\ outcome.kind = "transient" => pending' <= Refresh
                      /\ outcome.kind = "limited" =>
                           /\ pending' >= outcome.after
                           /\ outcome.scope = "hourly" => (clock + pending') \div Hour # clock \div Hour
                           /\ outcome.scope # "minutely" => pending' >= Refresh
    OBVIOUS
  <2>1. PICK delay \in NextDelays(outcome, failures) : Schedule(delay)
    BY <1>1, ChosenDelay
  <2>2. pending' = delay
    BY <2>1 DEF Schedule
  <2> QED
    BY <1>1, <2>2, ChosenWaits
<1>2. IInv /\ [Next]_vars =>
        [phase = "schedule" /\ phase' = "top" =>
           /\ outcome.kind = "transient" => pending' <= Refresh
           /\ outcome.kind = "limited" =>
                /\ pending' >= outcome.after
                /\ outcome.scope = "hourly" => (clock + pending') \div Hour # clock \div Hour
                /\ outcome.scope # "minutely" => pending' >= Refresh]_vars
  BY <1>1
<1>3. Spec => LimitsWaitedOut
  BY <1>2, Inductive, PTL DEF Spec, LimitsWaitedOut
<1> QED
  BY <1>3, FetchesOnTime DEF WaitsKept

-----------------------------------------------------------------------------
(* The channels.                                                           *)

\* What the local report of the loop says in each phase; the channel has it where
\* the loop rests.
Told ==
  /\ report.failures = failures
  /\ phase \in {"disabled", "wait", "fetch"} => reported = report
  /\ phase = "disabled" => report.state = "disabled" /\ ~report.next
  /\ phase = "fetch" => report.state = "fetching" /\ ~report.next
  /\ phase = "wait" => report.next /\ report.state \notin {"fetching", "disabled"}
  /\ phase = "wait" /\ last_outcome # "none" => report.state = WaitingState(last_outcome)
  /\ phase \in {"top", "disabled", "wait"} /\ last_outcome = "none" /\ pending # None =>
       report.state # "fetching"
  /\ phase \in {"top", "disabled", "wait"} /\ last_outcome = "none" /\ pending > 0 =>
       report.state \in {"rate_limited", "disabled"}

\* What the channel of snapshots holds, and that the report knows of it.
Shown ==
  /\ IF phase = "send" THEN report.snapshot ELSE report.snapshot <=> snapshots # "none"
  /\ phase = "down" => snapshots = "none" /\ failures = 0 /\ last_outcome = "none"
  /\ LatestPublished

\* Every step keeps what the report says.
LEMMA ToldStep ==
  ASSUME TypeOK, Told, Shown, [Next]_vars
  PROVE  Told'
<1> USE DEF Told, control, history, loop, stored
<1>0. CASE UNCHANGED vars
  BY <1>0 DEF vars
<1>1. CASE Start
  BY <1>1 DEF Start, Honoured, Report, NoReport, Shown, None
<1>2. CASE Down
  BY <1>2 DEF Down, NoReport, Report
<1>3. CASE Shutdown
  BY <1>3 DEF Shutdown
<1>4. ASSUME NEW e \in Setting, Persist(e)
      PROVE  Told'
  BY <1>4 DEF Persist
<1>5. CASE Announce
  BY <1>5 DEF Announce
<1>6. CASE EnterDisabled
  BY <1>6 DEF EnterDisabled, Survives, Publish, TypeOK, Reports
<1>7. CASE EnterWait
  <2>1. CASE last_outcome # "none"
    BY <1>7, <2>1 DEF EnterWait, Publish, TypeOK, Reports, StateWhileWaiting, WaitingState
  <2>2. CASE last_outcome = "none"
    BY <1>7, <2>2 DEF EnterWait, Publish, TypeOK, Reports, StateWhileWaiting
  <2> QED
    BY <2>1, <2>2
<1>8. CASE Observe
  BY <1>8 DEF Observe, TypeOK, None
<1>9. CASE BeginFetch
  BY <1>9 DEF BeginFetch, Publish, TypeOK, Reports
<1>10. CASE Fetched
  BY <1>10 DEF Fetched, TypeOK, Reports
<1>11. CASE SendSnapshot
  BY <1>11 DEF SendSnapshot
<1>12. ASSUME NEW o \in Errors, Failed(o)
       PROVE  Told'
  BY <1>12 DEF Failed, TypeOK, Reports
<1>13. ASSUME NEW delay \in NextDelays(outcome, failures), Schedule(delay)
       PROVE  Told'
  <2>1. last_outcome' # "none" /\ phase' = "top"
    BY <1>13 DEF Schedule, TypeOK, Kinds
  <2> QED
    BY <1>13, <2>1 DEF Schedule
<1>14. CASE Tick
  BY <1>14 DEF Tick, Passed, TypeOK, Left, None
<1> QED
  BY <1>0, <1>1, <1>2, <1>3, <1>4, <1>5, <1>6, <1>7, <1>8, <1>9, <1>10, <1>11, <1>12, <1>13,
     <1>14 DEF Next, Crash, Stop

\* Every step keeps what is shown.
LEMMA ShownStep ==
  ASSUME TypeOK, Shown, [Next]_vars
  PROVE  Shown'
<1> USE DEF Shown, LatestPublished, control, history, loop, stored
<1>0. CASE UNCHANGED vars
  BY <1>0 DEF vars
<1>1. CASE Start
  <2>1. PICK c \in {cache, "none"} :
          cache' = c /\ snapshots' = c /\ report'.snapshot = (c # "none")
    BY <1>1 DEF Start, Replayed, Report
  <2>2. phase' = "top"
    BY <1>1 DEF Start
  <2> QED
    BY <2>1, <2>2
<1>2. CASE Down
  BY <1>2 DEF Down, NoReport, Report
<1>3. CASE Shutdown
  BY <1>3 DEF Shutdown
<1>4. ASSUME NEW e \in Setting, Persist(e)
      PROVE  Shown'
  BY <1>4 DEF Persist
<1>5. CASE Announce
  BY <1>5 DEF Announce
<1>6. CASE EnterDisabled
  BY <1>6 DEF EnterDisabled, Publish, TypeOK, Reports
<1>7. CASE EnterWait
  BY <1>7 DEF EnterWait, Publish, TypeOK, Reports
<1>8. CASE Observe
  BY <1>8 DEF Observe
<1>9. CASE BeginFetch
  BY <1>9 DEF BeginFetch, Publish, TypeOK, Reports
<1>10. CASE Fetched
  BY <1>10 DEF Fetched, TypeOK, Reports
<1>11. CASE SendSnapshot
  BY <1>11 DEF SendSnapshot
<1>12. ASSUME NEW o \in Errors, Failed(o)
       PROVE  Shown'
  BY <1>12 DEF Failed, TypeOK, Reports
<1>13. ASSUME NEW delay \in NextDelays(outcome, failures), Schedule(delay)
       PROVE  Shown'
  BY <1>13 DEF Schedule
<1>14. CASE Tick
  BY <1>14 DEF Tick
<1> QED
  BY <1>0, <1>1, <1>2, <1>3, <1>4, <1>5, <1>6, <1>7, <1>8, <1>9, <1>10, <1>11, <1>12, <1>13,
     <1>14 DEF Next, Crash, Stop

\* What the operator and the relays are shown is current: wherever the loop rests
\* the report published says so, and the snapshot published is the one that is
\* cached, also after a restart (Refresher::publish, snapshots.send_replace).
THEOREM ChannelsAreCurrent == Spec => []ChannelsCurrent
<1>1. Init => IInv /\ Told /\ Shown
  <2>1. Init => Told /\ Shown
    BY DEF Init, Told, Shown, LatestPublished, NoReport, Report
  <2> QED
    BY <2>1, InitIInv
<1>2. IInv /\ Told /\ Shown /\ [Next]_vars => IInv' /\ Told' /\ Shown'
  BY NextIInv, ToldStep, ShownStep DEF IInv
<1>3. IInv /\ Told /\ Shown => ChannelsCurrent
  <2> SUFFICES ASSUME IInv, Told, Shown PROVE ReportHonest /\ LatestPublished
    BY DEF ChannelsCurrent
  <2>1. LatestPublished
    BY DEF Shown
  <2>2. phase = "wait" /\ last_outcome = "none" /\ pending > 0 => report.state = "rate_limited"
    BY DEF Told
  <2> QED
    BY <2>1, <2>2 DEF Told, Shown, ReportHonest
<1> QED
  BY <1>1, <1>2, <1>3, PTL DEF Spec

-----------------------------------------------------------------------------
(* The refinement of Quota.                                                *)

\* A step that neither starts nor ends a request nor changes the wait is a stutter.
LEMMA QuotaStutters ==
  ASSUME (phase' = "fetch") <=> (phase = "fetch"), UNCHANGED <<limit, kept>>
  PROVE  UNCHANGED Provider!vars
BY DEF Provider!vars

\* Every step is a step of Quota.
LEMMA QuotaStep ==
  ASSUME IInv, [Next]_vars
  PROVE  [Provider!Next]_(Provider!vars)
<1> USE DEF control, history, loop, stored
<1>0. CASE UNCHANGED vars
  BY <1>0, QuotaStutters DEF vars
<1>1. CASE Start
  <2>1. phase = "down" /\ phase' = "top"
    BY <1>1 DEF Start
  <2>2. CASE UNCHANGED <<limit, kept>>
    BY <2>1, <2>2, QuotaStutters
  <2>3. CASE limit' = 0 /\ kept' = FALSE
    BY <2>1, <2>3 DEF Provider!Next, Provider!Forget
  <2> QED
    BY <1>1, <2>2, <2>3 DEF Start, Open
<1>2. CASE Down
  <2>1. phase' = "down" /\ kept' \in BOOLEAN
    BY <1>2, FlagAssumption DEF Down, IInv, TypeOK
  <2>2. CASE ~kept'
    <3>1. limit' = 0
      BY <1>2, <2>2 DEF Down
    <3> QED
      BY <2>1, <2>2, <3>1 DEF Provider!Next, Provider!Forget
  <2>3. CASE kept'
    <3>1. UNCHANGED <<limit, kept>>
      BY <1>2, <2>3, FlagAssumption DEF Down, IInv, TypeOK
    <3>2. CASE phase = "fetch"
      BY <2>1, <3>1, <3>2 DEF Provider!Next, Provider!Leave
    <3> QED
      BY <2>1, <3>1, <3>2, QuotaStutters
  <2> QED
    BY <2>2, <2>3
<1>3. CASE Shutdown
  BY <1>3, QuotaStutters DEF Shutdown
<1>4. ASSUME NEW e \in Setting, Persist(e)
      PROVE  UNCHANGED Provider!vars
  BY <1>4, QuotaStutters DEF Persist
<1>5. CASE Announce
  BY <1>5, QuotaStutters DEF Announce
<1>6. CASE EnterDisabled
  BY <1>6, QuotaStutters DEF EnterDisabled
<1>7. CASE EnterWait
  BY <1>7, QuotaStutters DEF EnterWait
<1>8. CASE Observe
  <2>1. phase' \in {phase, "top"} /\ UNCHANGED <<limit, kept>>
    BY <1>8 DEF Observe
  <2>2. CASE phase = "fetch" /\ phase' = "top"
    BY <2>1, <2>2 DEF Provider!Next, Provider!Leave
  <2> QED
    BY <2>1, <2>2, QuotaStutters
<1>9. CASE BeginFetch
  <2>1. phase # "fetch" /\ phase' = "fetch"
    BY <1>9 DEF BeginFetch
  <2>2. limit = 0 /\ UNCHANGED <<limit, kept>>
    BY <1>9, <2>1, RequestsWait DEF BeginFetch
  <2> QED
    BY <2>1, <2>2 DEF Provider!Next, Provider!Ask
<1>10. CASE Fetched
  <2>1. phase = "fetch" /\ phase' = "send" /\ UNCHANGED <<limit, kept>>
    BY <1>10 DEF Fetched
  <2> QED
    BY <2>1 DEF Provider!Next, Provider!Leave
<1>11. CASE SendSnapshot
  BY <1>11, QuotaStutters DEF SendSnapshot
<1>12. ASSUME NEW o \in Errors, Failed(o)
       PROVE  Provider!Next
  <2>1. phase = "fetch" /\ phase' = "schedule" /\ UNCHANGED <<limit, kept>>
    BY <1>12 DEF Failed
  <2> QED
    BY <2>1 DEF Provider!Next, Provider!Leave
<1>13. ASSUME NEW delay \in NextDelays(outcome, failures), Schedule(delay)
       PROVE  Provider!Next
  <2>1. phase = "schedule" /\ phase' = "top" /\ kept' \in BOOLEAN
    BY <1>13 DEF Schedule
  <2>2. limit = 0 /\ limit' \in Nat
    BY <1>13, DelaysNat DEF Schedule, IInv, Timing
  <2> QED
    BY <2>1, <2>2 DEF Provider!Next, Provider!Limit
<1>14. CASE Tick
  <2>1. UNCHANGED <<phase, kept>> /\ limit' = Passed(limit) /\ limit \in Nat
    BY <1>14 DEF Tick, IInv, TypeOK
  <2>2. CASE limit = 0
    BY <2>1, <2>2, QuotaStutters DEF Passed
  <2>3. CASE limit > 0
    BY <2>1, <2>3 DEF Passed, Provider!Next, Provider!Pass
  <2> QED
    BY <2>1, <2>2, <2>3
<1> QED
  BY <1>0, <1>1, <1>2, <1>3, <1>4, <1>5, <1>6, <1>7, <1>8, <1>9, <1>10, <1>11, <1>12, <1>13,
     <1>14 DEF Next, Crash, Stop

\* The loop, its state file and its restarts implement Quota: a wait that was
\* recorded ends by the passing of time only, and no request comes before its end.
THEOREM QuotaKept == Spec => QuotaPromise
<1>1. Init => Provider!Init
  BY DEF Init, Provider!Init
<1>2. IInv /\ [Next]_vars => [Provider!Next]_(Provider!vars)
  BY QuotaStep
<1> QED
  BY <1>1, <1>2, Inductive, PTL DEF Spec, QuotaPromise, Provider!Spec

-----------------------------------------------------------------------------
(* The provider.                                                           *)

Half == HourTicks \div 2

\* Half an hour, twice, is an hour.
LEMMA Halves == HourTicks \in Nat \ {0} /\ Half \in Nat \ {0} /\ HourTicks = 2 * Half
BY ProviderAssumption DEF ProviderAssumption, Half

\* An hour begins where those before it end.
LEMMA HoursApart ==
  ASSUME NEW g \in Int, NEW h \in Int, g < h
  PROVE  g * HourTicks \in Int /\ h * HourTicks \in Int /\ g * HourTicks + HourTicks <= h * HourTicks
<1>1. PICK H \in Nat \ {0} : H = HourTicks
  BY Halves
<1>2. (h - g - 1) * H >= 0
  <2>1. h - g - 1 \in Nat
    OBVIOUS
  <2>2. \A a, b \in Nat : a * b >= 0
    OBVIOUS
  <2> QED
    BY <2>1, <2>2
<1>3. (h - g - 1) * H = h * H - g * H - H
  OBVIOUS
<1>4. g * H \in Int /\ h * H \in Int
  OBVIOUS
<1>5. g * H + H <= h * H
  BY <1>2, <1>3, <1>4
<1> QED
  BY <1>1, <1>4, <1>5

\* The hour of a time.
LEMMA HourOf ==
  ASSUME NEW t \in Nat
  PROVE  /\ t \div HourTicks \in Nat
         /\ (t \div HourTicks) * HourTicks <= t /\ t < (t \div HourTicks) * HourTicks + HourTicks
<1>1. PICK H \in Nat \ {0} : H = HourTicks
  BY Halves
<1>2. t \div H \in Nat /\ (t \div H) * H <= t /\ t < (t \div H) * H + H
  OBVIOUS
<1> QED
  BY <1>1, <1>2

\* A time is at most half an hour from its nearest hour, which later times do not undercut.
LEMMA Nearest ==
  ASSUME NEW t \in Nat
  PROVE  /\ NearestHour(t) \in Nat /\ NearestHour(t) * HourTicks \in Int
         /\ NearestHour(t) * HourTicks <= t + Half /\ t < NearestHour(t) * HourTicks + Half
<1>1. t + Half \in Nat /\ NearestHour(t) = (t + Half) \div HourTicks
  BY Halves DEF NearestHour, Half
<1>2. PICK n \in Nat : n = NearestHour(t)
  BY <1>1, HourOf
<1>3. n * HourTicks <= t + Half /\ t + Half < n * HourTicks + HourTicks
  BY <1>1, <1>2, HourOf
<1>4. PICK N \in Int : N = n * HourTicks
  BY Halves
<1> QED
  BY <1>2, <1>3, <1>4, Halves

\* The nearest hour does not go back.
LEMMA NearestLater ==
  ASSUME NEW t \in Nat, NEW u \in Nat, t <= u
  PROVE  NearestHour(t) <= NearestHour(u)
<1>1. PICK m \in Nat, n \in Nat : m = NearestHour(t) /\ n = NearestHour(u)
  BY Nearest
<1>2. /\ m * HourTicks \in Int /\ n * HourTicks \in Int
      /\ m * HourTicks <= t + Half /\ u < n * HourTicks + Half
  BY <1>1, Nearest
<1>3. ASSUME n < m PROVE FALSE
  <2>1. n * HourTicks + HourTicks <= m * HourTicks
    BY <1>3, HoursApart
  <2> QED
    BY <1>2, <2>1, Halves
<1> QED
  BY <1>1, <1>3

\* The times for a fetch of the hour n have that hour and the one before it.
Covers(hours, n) == hours \subseteq Int /\ n - 1 \in hours /\ n \in hours

\* An answer to such a fetch has no times at all or those.
Answers == [short : BOOLEAN, hours : SUBSET Int]
Serves(x, n) == x \in Answers /\ (x.hours = {} \/ Covers(x.hours, n))

\* What is asked for within the time of a fetch covers the hour of the fetch.
LEMMA CoveredCovers ==
  ASSUME NEW t \in Nat, NEW u \in Nat, t <= u, u <= t + FetchTicks
  PROVE  Covers(Covered(u), NearestHour(t))
<1>1. FetchTicks \in Nat /\ FetchTicks <= Half
  <2>1. FetchTicks \in Nat /\ 2 * FetchTicks <= HourTicks
    BY ProviderAssumption DEF ProviderAssumption
  <2> QED
    BY <2>1, Halves
<1>2. PICK n \in Nat, h \in Nat : n = NearestHour(t) /\ h = u \div HourTicks
  BY Nearest, HourOf
<1>3. PICK N \in Int : N = n * HourTicks
  BY Halves
<1>4. N <= t + Half /\ t < N + Half
  BY <1>2, <1>3, Nearest
<1>5. PICK U \in Int : U = h * HourTicks
  BY Halves
<1>6. U <= u /\ u < U + HourTicks
  BY <1>2, <1>5, HourOf
<1>7. h <= n
  <2>1. ASSUME n < h PROVE FALSE
    <3>1. N + HourTicks <= U
      BY <1>3, <1>5, <2>1, HoursApart
    <3> QED
      BY <1>1, <1>4, <1>6, <3>1, Halves
  <2> QED
    BY <2>1
<1>8. n - 1 <= h
  <2>1. ASSUME h < n - 1 PROVE FALSE
    <3>1. PICK P \in Int : P = (n - 1) * HourTicks
      BY Halves
    <3>2. U + HourTicks <= P
      BY <1>5, <2>1, <3>1, HoursApart
    <3>3. P + HourTicks <= N
      BY <1>3, <3>1, HoursApart
    <3> QED
      BY <1>4, <1>6, <3>2, <3>3, Halves
  <2> QED
    BY <2>1
<1>9. Covered(u) = (h - 1)..(h + 1)
  BY <1>2 DEF Covered
<1> QED
  BY <1>2, <1>7, <1>8, <1>9 DEF Covers

\* So every answer serves it.
LEMMA RepliesServe ==
  ASSUME NEW t \in Nat, NEW u \in Nat, t <= u, u <= t + FetchTicks, NEW x \in Replies(u)
  PROVE  Serves(x, NearestHour(t))
<1>1. Covers(Covered(u), NearestHour(t))
  BY CoveredCovers
<1>2. PICK C : C = Covered(u)
  OBVIOUS
<1>3. C \subseteq Int /\ x \in [short : BOOLEAN, hours : {C, {}}]
  BY <1>1, <1>2 DEF Covers, Replies
<1>4. x \in Answers /\ x.hours \in {C, {}}
  BY <1>3 DEF Answers
<1> QED
  BY <1>1, <1>2, <1>4 DEF Serves

\* The hour that is chosen from such an answer is one of the two, and the nearest.
LEMMA Selects ==
  ASSUME NEW t \in Nat, NEW hours, Covers(hours, NearestHour(t))
  PROVE  /\ SelectHour(hours, t) \in {NearestHour(t) - 1, NearestHour(t)}
         /\ 2 * Away(SelectHour(hours, t), t) <= HourTicks
<1>1. PICK n \in Nat : n = NearestHour(t)
  BY Nearest
<1>2. PICK N \in Int : N = n * HourTicks
  BY Halves
<1>3. N <= t + Half /\ t < N + Half
  BY <1>1, <1>2, Nearest
<1>4. PICK H \in Nat \ {0} : H = Half
  BY Halves
<1>5. HourTicks = 2 * H /\ N <= t + H /\ t < N + H
  BY <1>3, <1>4, Halves
<1> DEFINE Far(h) == Away(h, t)
<1>6. Far(n) \in Nat /\ Far(n) <= H /\ (Far(n) = H <=> N = t + H)
  <2>1. Far(n) = IF N >= t THEN N - t ELSE t - N
    BY <1>2 DEF Away
  <2> QED
    BY <1>5, <2>1
<1>7. Far(n - 1) \in Nat /\ Far(n - 1) >= H /\ (Far(n - 1) = H <=> N = t + H)
  <2>1. (n - 1) * HourTicks = N - 2 * H
    <3>1. \A a \in Nat : (a - 1) * (2 * H) = a * (2 * H) - 2 * H
      OBVIOUS
    <3> QED
      BY <1>2, <1>5, <3>1
  <2>2. Far(n - 1) = IF N - 2 * H >= t THEN N - 2 * H - t ELSE t - (N - 2 * H)
    BY <2>1 DEF Away
  <2> QED
    BY <1>5, <2>2
<1>8. \A g \in Int : g > n => Far(g) \in Nat /\ Far(g) > H
  <2> SUFFICES ASSUME NEW g \in Int, g > n PROVE Far(g) \in Nat /\ Far(g) > H
    OBVIOUS
  <2>1. PICK G \in Int : G = g * HourTicks
    BY Halves
  <2>2. N + 2 * H <= G
    BY <1>2, <1>5, <2>1, HoursApart
  <2>3. Far(g) = IF G >= t THEN G - t ELSE t - G
    BY <2>1 DEF Away
  <2> QED
    BY <1>5, <2>2, <2>3
<1>9. \A g \in Int : g < n - 1 => Far(g) \in Nat /\ Far(g) > H
  <2> SUFFICES ASSUME NEW g \in Int, g < n - 1 PROVE Far(g) \in Nat /\ Far(g) > H
    OBVIOUS
  <2>1. PICK G \in Int, P \in Int : G = g * HourTicks /\ P = (n - 1) * HourTicks
    BY Halves
  <2>2. G + 2 * H <= P /\ P + 2 * H <= N
    BY <1>2, <1>5, <2>1, HoursApart
  <2>3. Far(g) = IF G >= t THEN G - t ELSE t - G
    BY <2>1 DEF Away
  <2> QED
    BY <1>5, <2>2, <2>3
<1> HIDE DEF Far
<1>10. PICK v : v = SelectHour(hours, t)
  OBVIOUS
<1>11. /\ v \in hours
       /\ \A g \in hours : Far(v) < Far(g) \/ (Far(v) = Far(g) /\ v <= g)
  <2> DEFINE Best(h) == \A g \in hours : Far(h) < Far(g) \/ (Far(h) = Far(g) /\ h <= g)
  <2>1. n \in hours /\ n - 1 \in hours /\ hours \subseteq Int
    BY <1>1 DEF Covers
  <2>2. \E h \in hours : Best(h)
    <3>1. \A g \in Int : g = n \/ g = n - 1 \/ g > n \/ g < n - 1
      OBVIOUS
    <3>2. CASE N = t + H
      <4>1. Far(n - 1) = H /\ Far(n) = H /\ n - 1 <= n
        BY <1>6, <1>7, <3>2
      <4>2. \A g \in Int : Far(n - 1) < Far(g) \/ (Far(n - 1) = Far(g) /\ n - 1 <= g)
        BY <1>5, <1>8, <1>9, <3>1, <4>1
      <4> QED
        BY <2>1, <4>2
    <3>3. CASE N # t + H
      <4>1. Far(n) < H /\ H < Far(n - 1)
        BY <1>6, <1>7, <3>3
      <4>2. \A g \in Int : Far(n) < Far(g) \/ (Far(n) = Far(g) /\ n <= g)
        BY <1>5, <1>6, <1>7, <1>8, <1>9, <3>1, <4>1
      <4> QED
        BY <2>1, <4>2
    <3> QED
      BY <3>2, <3>3
  <2>3. v = CHOOSE h \in hours : Best(h)
    BY <1>10 DEF SelectHour, Far
  <2> HIDE DEF Best
  <2>4. v \in hours /\ Best(v)
    BY <2>2, <2>3
  <2> QED
    BY <2>4 DEF Best
<1>12. v \in Int /\ n \in hours
  BY <1>1, <1>11 DEF Covers
<1>13. Far(v) <= Far(n)
  <2>1. Far(v) < Far(n) \/ Far(v) = Far(n)
    BY <1>11, <1>12
  <2>2. Far(v) \in Nat
    <3>1. v = n \/ v = n - 1 \/ v > n \/ v < n - 1
      BY <1>12
    <3> QED
      BY <1>6, <1>7, <1>8, <1>9, <1>12, <3>1
  <2> QED
    BY <1>6, <2>1, <2>2
<1>14. v \in {n - 1, n}
  BY <1>6, <1>8, <1>9, <1>12, <1>13
<1>15. 2 * Far(v) <= HourTicks
  <2>1. Far(v) \in Nat
    BY <1>6, <1>7, <1>14
  <2> QED
    BY <1>5, <1>6, <1>13, <2>1
<1> QED
  BY <1>1, <1>10, <1>14, <1>15 DEF Far

-----------------------------------------------------------------------------

\* The chunks are numbered from 1 and cost something.
LEMMA Costs ==
  /\ DOMAIN Cost = 1..Len(Cost) /\ Len(Cost) \in Nat \ {0}
  /\ \A i \in DOMAIN Cost : Cost[i] \in Nat \ {0}
BY ProviderAssumption DEF ProviderAssumption

\* No chunk costs more than the bucket and the overdraft hold.
LEMMA Overdraws ==
  /\ Capacity \in Nat \ {0} /\ Overdraft \in Nat
  /\ \A i \in DOMAIN Cost : Cost[i] <= Capacity + Overdraft
<1> DEFINE Values == {Cost[i] : i \in DOMAIN Cost}
           Costlier(i) == \A j \in DOMAIN Cost : Cost[j] <= Cost[i]
<1>1. Capacity \in Nat \ {0}
  BY ProviderAssumption DEF ProviderAssumption
<1>2. Values \in SUBSET Nat /\ Values # {} /\ IsFiniteSet(Values)
  <2>1. Values \in SUBSET Nat
    BY Costs
  <2>2. 1 \in DOMAIN Cost
    BY Costs
  <2>3. Cost \in Surjection(DOMAIN Cost, Values)
    <3>1. Cost = [i \in DOMAIN Cost |-> Cost[i]]
      BY ProviderAssumption DEF ProviderAssumption
    <3> QED
      BY <3>1 DEF Surjection
  <2>4. IsFiniteSet(DOMAIN Cost)
    BY Costs, FS_Interval
  <2>5. IsFiniteSet(Values)
    <3> HIDE DEF Values
    <3> QED
      BY <2>3, <2>4, FS_Surjection
  <2> QED
    BY <2>1, <2>2, <2>5
<1>3. \E i \in DOMAIN Cost : Costlier(i)
  <2>1. PICK m \in Values : \A x \in Values : x <= m
    <3> HIDE DEF Values
    <3> QED
      BY <1>2, FiniteHasGreatest
  <2> QED
    BY <2>1
<1>4. PICK g : g = CHOOSE i \in DOMAIN Cost : Costlier(i)
  OBVIOUS
<1>5. g \in DOMAIN Cost /\ Costlier(g)
  <2> HIDE DEF Costlier
  <2> QED
    BY <1>3, <1>4
<1>6. Overdraft = Larger(0, Cost[g] - Capacity)
  BY <1>4 DEF Overdraft
<1>7. Cost[g] \in Nat
  BY <1>5, Costs
<1>8. Overdraft = IF 0 <= Cost[g] - Capacity THEN Cost[g] - Capacity ELSE 0
  BY <1>6 DEF Larger
<1>9. Overdraft \in Nat /\ Cost[g] <= Capacity + Overdraft
  BY <1>1, <1>7, <1>8
<1>10. ASSUME NEW i \in DOMAIN Cost PROVE Cost[i] <= Capacity + Overdraft
  <2>1. Cost[i] \in Nat /\ Cost[i] <= Cost[g]
    BY <1>5, Costs
  <2> QED
    BY <1>1, <1>7, <1>9, <2>1
<1> QED
  BY <1>1, <1>9, <1>10

\* A reservation: its level rises by the cost at least, and it is neither deeper in debt
\* than the overdraft nor, with the cost, fuller than the bucket.
LEMMA Reserved ==
  ASSUME now \in Nat, NEW b \in [tokens : Int, updated : Nat], b.tokens <= Capacity,
         NEW cost \in Nat \ {0}, cost <= Capacity + Overdraft, NEW r, r = Reserve(b, cost)
  PROVE  /\ r \in [tokens : Int, updated : Nat] /\ now <= r.updated
         /\ r.updated - r.tokens >= b.updated - b.tokens + cost
         /\ r.tokens + Overdraft >= 0 /\ r.tokens + cost <= Capacity
<1>1. Capacity \in Nat \ {0} /\ Overdraft \in Nat
  BY Overdraws
<1>2. PICK B \in Int, U \in Nat : B = b.tokens /\ U = b.updated
  OBVIOUS
<1>3. PICK tokens : tokens = IF now > U THEN Smaller(Capacity, B + now - U) ELSE B
  OBVIOUS
<1>4. PICK refill : refill = Larger(0, Smaller(cost, Capacity) - tokens)
  OBVIOUS
<1>5. r = [tokens |-> tokens + refill - cost, updated |-> Larger(now, U) + refill]
  BY <1>2, <1>3, <1>4 DEF Reserve
<1>6. /\ tokens \in Int /\ tokens <= Capacity
      /\ tokens <= B + Larger(now, U) - U /\ Larger(now, U) \in Nat /\ now <= Larger(now, U)
  BY <1>1, <1>2, <1>3 DEF Smaller, Larger
<1>7. /\ refill \in Nat /\ tokens + refill <= Capacity
      /\ tokens + refill >= Smaller(cost, Capacity)
  BY <1>1, <1>4, <1>6 DEF Smaller, Larger
<1>8. Smaller(cost, Capacity) \in Nat /\ Smaller(cost, Capacity) + Overdraft >= cost
  BY <1>1 DEF Smaller
<1>9. PICK L \in Nat, M \in Nat : L = Larger(now, U) /\ M = Smaller(cost, Capacity)
  BY <1>6, <1>8
<1>10. r.tokens = tokens + refill - cost /\ r.updated = L + refill /\ r \in [tokens : Int, updated : Nat]
  BY <1>5, <1>6, <1>7, <1>9
<1> QED
  BY <1>1, <1>2, <1>6, <1>7, <1>8, <1>9, <1>10

\* What one more request adds.
LEMMA OneRequestMore ==
  ASSUME NEW S, IsFiniteSet(S), \A q \in S : q.chunk \in DOMAIN Cost,
         NEW p, p \notin S, p.chunk \in DOMAIN Cost
  PROVE  CostOf(S \cup {p}) = CostOf(S) + Cost[p.chunk]
<1>1. PICK f, g : /\ f = [q \in S |-> Cost[q.chunk]]
                  /\ g = [q \in S \cup {p} |-> Cost[q.chunk]]
  OBVIOUS
<1>2. f \in [S -> Nat] /\ g \in [S \cup {p} -> Nat] /\ \A q \in S : g[q] = f[q]
  BY <1>1, Costs
<1>3. SumFunction(g) = SumFunction(f) + g[p]
  BY <1>2, SumAddElement
<1>4. g[p] = Cost[p.chunk]
  BY <1>1
<1> QED
  BY <1>1, <1>3, <1>4 DEF CostOf

\* What requests cost is a number.
LEMMA CostOfIsNat ==
  ASSUME NEW S, IsFiniteSet(S), \A q \in S : q.chunk \in DOMAIN Cost
  PROVE  CostOf(S) \in Nat
<1>1. PICK f : f = [q \in S |-> Cost[q.chunk]]
  OBVIOUS
<1>2. f \in [S -> Nat]
  BY <1>1, Costs
<1>3. SumFunction(f) \in Nat
  BY <1>2, SumType
<1> QED
  BY <1>1, <1>3 DEF CostOf

-----------------------------------------------------------------------------

NowSound == now \in Nat /\ tries \in Nat

BucketSound ==
  bucket \in [tokens : Int, updated : Nat] /\ bucket.tokens <= Capacity /\ bucket.tokens + Overdraft >= 0

PartialSound ==
  /\ partial = [hour |-> partial.hour, chunks |-> partial.chunks]
  /\ partial.hour \in Nat /\ partial.hour <= NearestHour(now)
  /\ \A i \in DOMAIN partial.chunks : i \in DOMAIN Cost /\ Serves(partial.chunks[i], partial.hour)

\* The fetch under way: it is not old, what it has covers its hour, and while it waits or
\* asks, the chunk it is at is not in hand.
FetchFits ==
  /\ fetch \in [phase : {"none", "loop", "pacing", "asking"}, began : Nat, hour : Nat,
                got : Seq(Answers), wake : Nat]
  /\ fetch.phase # "none" =>
       /\ fetch.began <= now /\ now <= fetch.began + FetchTicks
       /\ fetch.hour = NearestHour(fetch.began) /\ partial.hour <= fetch.hour
       /\ Len(fetch.got) <= Len(Cost)
       /\ \A i \in DOMAIN fetch.got : Serves(fetch.got[i], fetch.hour)
  /\ fetch.phase \in {"pacing", "asking"} => Upcoming \in DOMAIN Cost /\ ~InHand(fetch.hour, Upcoming)
  /\ fetch.phase = "pacing" =>
       now <= fetch.wake /\ fetch.wake = bucket.updated /\ bucket.tokens + Cost[Upcoming] <= Capacity

\* The requests: a fetch asks for each chunk once, in order.
Requests == [try : Nat, chunk : DOMAIN Cost, at : Nat, hour : Nat]
RequestsSound ==
  /\ IsFiniteSet(purchases) /\ purchases \subseteq Requests /\ answered \subseteq purchases
  /\ \A p \in purchases :
       /\ p.at <= now /\ p.try <= tries
       /\ fetch.phase # "none" /\ p.try = tries =>
            p.hour = fetch.hour /\ p.chunk <= Upcoming /\ (fetch.phase # "asking" => p.chunk < Upcoming)
  /\ \A p, q \in purchases : p.try = q.try /\ p.chunk = q.chunk => p = q

\* What was answered is in hand, or of an earlier hour than what is, or went into a snapshot
\* that was assembled or failed to be.
AnswersSound ==
  /\ \A p \in answered : \/ p.hour < partial.hour
                         \/ p.hour = partial.hour /\ p.chunk \in DOMAIN partial.chunks
                         \/ \E t \in assembled : p.try <= t
  /\ \A p, q \in answered :
       p.chunk = q.chunk /\ p.hour = q.hour /\ p.try <= q.try => p = q \/ Between(p, q)

\* The fetch under way has not come to that.
AssembledSound == \A t \in assembled : t \in Nat /\ t <= tries /\ (fetch.phase # "none" => t < tries)

\* The level rises with every reservation: it bounds what was spent since any request,
\* and what is reserved and not yet spent.
Level == bucket.updated - bucket.tokens
Pending == IF fetch.phase = "pacing" THEN Cost[Upcoming] ELSE 0
Since(a) == {q \in purchases : q.at >= a}
WithinLevel == \A p \in purchases : CostOf(Since(p.at)) + Pending <= Level + Capacity - p.at

WithinBudget ==
  \A p, q \in purchases : p.at <= q.at => CostIn(p.at, q.at) <= Capacity + Overdraft + (q.at - p.at)

SnapshotSound ==
  snapshot # Nothing =>
    /\ Len(snapshot.parts) = Len(Cost)
    /\ \A i \in DOMAIN snapshot.parts :
         LET part == snapshot.parts[i]
         IN ~part.short /\ (part.hours = {} \/ snapshot.valid \in part.hours)
    /\ 2 * Away(snapshot.valid, snapshot.began) <= HourTicks

ProviderInv ==
  /\ NowSound /\ BucketSound /\ PartialSound /\ FetchFits /\ RequestsSound /\ AnswersSound /\ AssembledSound
  /\ WithinLevel /\ WithinBudget /\ SnapshotSound

-----------------------------------------------------------------------------

\* Before the first fetch nothing was spent.
LEMMA ProviderInvInit == ProviderInit => ProviderInv
<1> SUFFICES ASSUME ProviderInit PROVE ProviderInv
  OBVIOUS
<1>1. /\ now \in Nat /\ bucket = [tokens |-> Capacity, updated |-> now]
      /\ partial = [hour |-> 0, chunks |-> <<>>] /\ fetch = NoFetch /\ tries = 0
      /\ snapshot = Nothing /\ purchases = {} /\ answered = {} /\ assembled = {}
  BY Halves DEF ProviderInit
<1>2. Capacity \in Nat /\ Overdraft \in Nat
  BY Overdraws
<1>3. NearestHour(now) \in Nat
  BY <1>1, Nearest
<1>4. NowSound /\ BucketSound
  BY <1>1, <1>2 DEF NowSound, BucketSound
<1>5. PartialSound
  BY <1>1, <1>3 DEF PartialSound
<1>6. FetchFits
  BY <1>1 DEF FetchFits, NoFetch
<1>7. IsFiniteSet(purchases)
  BY <1>1, FS_EmptySet
<1>8. RequestsSound /\ AnswersSound /\ AssembledSound /\ WithinLevel /\ WithinBudget /\ SnapshotSound
  BY <1>1, <1>7 DEF RequestsSound, AnswersSound, AssembledSound, WithinLevel, WithinBudget, SnapshotSound
<1> QED
  BY <1>4, <1>5, <1>6, <1>8 DEF ProviderInv

\* A new fetch has asked for nothing yet.
LEMMA BeginKeeps ==
  ASSUME ProviderInv, Begin
  PROVE  ProviderInv'
<1>0. NowSound /\ BucketSound /\ PartialSound /\ FetchFits /\ RequestsSound /\ AnswersSound /\ AssembledSound
      /\ WithinLevel /\ WithinBudget /\ SnapshotSound
  BY DEF ProviderInv
<1>1. /\ fetch.phase = "none" /\ tries' = tries + 1
      /\ fetch' = [NoFetch EXCEPT !.phase = "loop", !.began = now, !.hour = NearestHour(now)]
      /\ now' = now /\ bucket' = bucket /\ partial' = partial /\ snapshot' = snapshot
      /\ purchases' = purchases /\ answered' = answered /\ assembled' = assembled
  BY DEF Begin
<1>2. fetch' = [phase |-> "loop", began |-> now, hour |-> NearestHour(now), got |-> <<>>, wake |-> 0]
  BY <1>1 DEF NoFetch
<1>3. now \in Nat /\ tries \in Nat /\ NearestHour(now) \in Nat /\ FetchTicks \in Nat /\ Len(Cost) \in Nat
  BY <1>0, Nearest, ProviderAssumption, Costs DEF NowSound, ProviderAssumption
<1>4. NowSound' /\ BucketSound' /\ PartialSound'
  BY <1>0, <1>1, <1>3 DEF NowSound, BucketSound, PartialSound, Overdraft
<1>5. FetchFits'
  <2>1. /\ fetch'.phase = "loop" /\ fetch'.began = now /\ fetch'.hour = NearestHour(now)
        /\ fetch'.got = <<>> /\ fetch'.wake = 0
    BY <1>2
  <2>2. fetch' \in [phase : {"none", "loop", "pacing", "asking"}, began : Nat, hour : Nat,
                got : Seq(Answers), wake : Nat]
    BY <1>2, <1>3
  <2>3. now <= now + FetchTicks /\ Len(fetch'.got) <= Len(Cost) /\ DOMAIN fetch'.got = {}
    BY <1>3, <2>1
  <2>4. partial.hour <= NearestHour(now)
    BY <1>0 DEF PartialSound
  <2>5. now <= now
    BY <1>3
  <2> QED
    BY <1>1, <2>1, <2>2, <2>3, <2>4, <2>5 DEF FetchFits
<1>6. RequestsSound'
  <2>1. \A p \in purchases : p.try \in Nat /\ p.try <= tries
    BY <1>0 DEF RequestsSound, Requests
  <2>2. \A p \in purchases : p.try # tries' /\ p.try <= tries'
    BY <1>1, <1>3, <2>1
  <2> QED
    BY <1>0, <1>1, <2>2 DEF RequestsSound
<1>7. AnswersSound' /\ SnapshotSound'
  BY <1>0, <1>1 DEF AnswersSound, Between, SnapshotSound
<1>8. AssembledSound'
  <2>1. \A t \in assembled : t \in Nat /\ t <= tries
    BY <1>0 DEF AssembledSound
  <2>2. \A t \in assembled : t <= tries' /\ t < tries'
    BY <1>1, <1>3, <2>1
  <2> QED
    BY <1>1, <2>1, <2>2 DEF AssembledSound
<1>9. WithinBudget'
  BY <1>0, <1>1 DEF WithinBudget, CostIn
<1>10. WithinLevel'
  <2>1. Pending = 0 /\ Pending' = 0
    BY <1>1, <1>2 DEF Pending
  <2>2. \A a : Since(a)' = Since(a)
    BY <1>1 DEF Since
  <2> QED
    BY <1>0, <1>1, <2>1, <2>2 DEF WithinLevel, Level
<1> QED
  BY <1>4, <1>5, <1>6, <1>7, <1>8, <1>9, <1>10 DEF ProviderInv

\* A chunk that is in hand is used again only for its hour.
LEMMA UseHeldKeeps ==
  ASSUME ProviderInv, UseHeld
  PROVE  ProviderInv'
<1>0. NowSound /\ BucketSound /\ PartialSound /\ FetchFits /\ RequestsSound /\ AnswersSound /\ AssembledSound
      /\ WithinLevel /\ WithinBudget /\ SnapshotSound
  BY DEF ProviderInv
<1>1. /\ fetch.phase = "loop" /\ Upcoming <= Len(Cost) /\ InHand(fetch.hour, Upcoming)
      /\ fetch' = [fetch EXCEPT !.got = Append(@, partial.chunks[Upcoming])]
      /\ now' = now /\ bucket' = bucket /\ partial' = partial /\ snapshot' = snapshot
      /\ tries' = tries /\ purchases' = purchases /\ answered' = answered /\ assembled' = assembled
  BY DEF UseHeld
<1>2. PICK x : x = partial.chunks[Upcoming]
  OBVIOUS
<1>3. Serves(x, fetch.hour)
  BY <1>0, <1>1, <1>2 DEF PartialSound, InHand
<1>4. /\ fetch.got \in Seq(Answers) /\ x \in Answers /\ Len(Cost) \in Nat
      /\ \A i \in DOMAIN fetch.got : Serves(fetch.got[i], fetch.hour)
  BY <1>0, <1>1, <1>3, Costs DEF FetchFits, Serves
<1>5. /\ fetch' = [phase |-> "loop", began |-> fetch.began, hour |-> fetch.hour,
                   got |-> Append(fetch.got, x), wake |-> fetch.wake]
      /\ fetch.began \in Nat /\ fetch.hour \in Nat /\ fetch.wake \in Nat
  BY <1>0, <1>1, <1>2 DEF FetchFits
<1>6. /\ Append(fetch.got, x) \in Seq(Answers) /\ Len(Append(fetch.got, x)) = Len(fetch.got) + 1
      /\ \A i \in DOMAIN Append(fetch.got, x) : Serves(Append(fetch.got, x)[i], fetch.hour)
  <2>1. PICK s \in Seq(Answers) : s = fetch.got
    BY <1>4
  <2>2. /\ Append(s, x) \in Seq(Answers) /\ Len(Append(s, x)) = Len(s) + 1
        /\ DOMAIN Append(s, x) = 1..(Len(s) + 1) /\ DOMAIN s = 1..Len(s)
        /\ \A i \in 1..Len(s) : Append(s, x)[i] = s[i]
        /\ Append(s, x)[Len(s) + 1] = x
    BY <1>4
  <2>3. \A i \in 1..(Len(s) + 1) : i \in 1..Len(s) \/ i = Len(s) + 1
    OBVIOUS
  <2> QED
    BY <1>3, <1>4, <2>1, <2>2, <2>3
<1>7. Upcoming' = Upcoming + 1 /\ Upcoming \in Nat /\ Len(fetch.got) \in Nat /\ Upcoming = Len(fetch.got) + 1
  BY <1>4, <1>5, <1>6 DEF Upcoming
<1>8. NowSound' /\ BucketSound' /\ PartialSound'
  BY <1>0, <1>1 DEF NowSound, BucketSound, PartialSound, Overdraft
<1>9. FetchFits'
  <2>1. fetch' \in [phase : {"none", "loop", "pacing", "asking"}, began : Nat, hour : Nat,
                got : Seq(Answers), wake : Nat]
    BY <1>5, <1>6
  <2>2. Len(fetch'.got) <= Len(Cost) /\ \A i \in DOMAIN fetch'.got : Serves(fetch'.got[i], fetch.hour)
    BY <1>1, <1>5, <1>6, <1>7
  <2>3. fetch'.phase = "loop" /\ fetch'.began = fetch.began /\ fetch'.hour = fetch.hour
    BY <1>5
  <2> QED
    BY <1>0, <1>1, <2>1, <2>2, <2>3 DEF FetchFits
<1>10. RequestsSound'
  <2>1. \A p \in purchases : p.chunk \in Nat /\ (p.try = tries => p.hour = fetch.hour /\ p.chunk < Upcoming)
    BY <1>0, <1>1, Costs DEF RequestsSound, Requests
  <2>2. \A p \in purchases : p.try = tries => p.chunk <= Upcoming' /\ p.chunk < Upcoming'
    BY <1>7, <2>1
  <2> QED
    BY <1>0, <1>1, <1>5, <2>1, <2>2 DEF RequestsSound
<1>11. AnswersSound' /\ AssembledSound' /\ SnapshotSound'
  BY <1>0, <1>1, <1>5 DEF AnswersSound, AssembledSound, Between, SnapshotSound
<1>12. WithinBudget'
  BY <1>0, <1>1 DEF WithinBudget, CostIn
<1>13. WithinLevel'
  <2>1. Pending = 0 /\ Pending' = 0
    BY <1>1, <1>5 DEF Pending
  <2>2. \A a : Since(a)' = Since(a)
    BY <1>1 DEF Since
  <2> QED
    BY <1>0, <1>1, <2>1, <2>2 DEF WithinLevel, Level
<1> QED
  BY <1>8, <1>9, <1>10, <1>11, <1>12, <1>13 DEF ProviderInv

\* The reservation puts the cost into the level before the request is made.
LEMMA PaceKeeps ==
  ASSUME ProviderInv, Pace
  PROVE  ProviderInv'
<1>0. NowSound /\ BucketSound /\ PartialSound /\ FetchFits /\ RequestsSound /\ AnswersSound /\ AssembledSound
      /\ WithinLevel /\ WithinBudget /\ SnapshotSound
  BY DEF ProviderInv
<1>1. PICK c : c = Cost[Upcoming]
  OBVIOUS
<1>2. /\ fetch.phase = "loop" /\ Upcoming <= Len(Cost) /\ ~InHand(fetch.hour, Upcoming)
      /\ bucket' = Reserve(bucket, c)
      /\ fetch' = [fetch EXCEPT !.phase = "pacing", !.wake = bucket'.updated]
      /\ now' = now /\ partial' = partial /\ snapshot' = snapshot
      /\ tries' = tries /\ purchases' = purchases /\ answered' = answered /\ assembled' = assembled
  BY <1>1 DEF Pace
<1>3. /\ fetch.got \in Seq(Answers) /\ fetch.began \in Nat /\ fetch.hour \in Nat
      /\ fetch' = [phase |-> "pacing", began |-> fetch.began, hour |-> fetch.hour, got |-> fetch.got,
                   wake |-> bucket'.updated]
  BY <1>0, <1>2 DEF FetchFits
<1>4. Upcoming \in DOMAIN Cost /\ Upcoming' = Upcoming
  BY <1>2, <1>3, Costs DEF Upcoming
<1>5. c \in Nat \ {0} /\ c <= Capacity + Overdraft
  BY <1>1, <1>4, Costs, Overdraws
<1>6. /\ bucket' \in [tokens : Int, updated : Nat] /\ now <= bucket'.updated
      /\ bucket'.updated - bucket'.tokens >= bucket.updated - bucket.tokens + c
      /\ bucket'.tokens + Overdraft >= 0 /\ bucket'.tokens + c <= Capacity
  <2>1. PICK r : r = bucket'
    OBVIOUS
  <2>2. PICK b : b = bucket
    OBVIOUS
  <2>3. r = Reserve(b, c)
    BY <1>2, <2>1, <2>2
  <2>4. b \in [tokens : Int, updated : Nat] /\ b.tokens <= Capacity /\ now \in Nat
    BY <1>0, <2>2 DEF BucketSound, NowSound
  <2> QED
    BY <1>5, <2>1, <2>2, <2>3, <2>4, Reserved
<1>7. bucket'.tokens \in Int /\ bucket'.tokens <= Capacity
  BY <1>5, <1>6, Overdraws
<1>8. NowSound' /\ BucketSound' /\ PartialSound'
  BY <1>0, <1>2, <1>6, <1>7 DEF NowSound, BucketSound, PartialSound, Overdraft
<1>9. FetchFits'
  <2>1. /\ fetch'.phase = "pacing" /\ fetch'.began = fetch.began /\ fetch'.hour = fetch.hour
        /\ fetch'.got = fetch.got /\ fetch'.wake = bucket'.updated
    BY <1>3
  <2>2. fetch' \in [phase : {"none", "loop", "pacing", "asking"}, began : Nat, hour : Nat,
                got : Seq(Answers), wake : Nat]
    BY <1>3, <1>6
  <2>3. InHand(fetch.hour, Upcoming)' = InHand(fetch.hour, Upcoming)
    BY <1>2, <1>4, <2>1 DEF InHand
  <2> QED
    BY <1>0, <1>1, <1>2, <1>4, <1>6, <2>1, <2>2, <2>3 DEF FetchFits
<1>10. RequestsSound'
  BY <1>0, <1>2, <1>3, <1>4 DEF RequestsSound
<1>11. AnswersSound' /\ AssembledSound' /\ SnapshotSound'
  BY <1>0, <1>2, <1>3 DEF AnswersSound, AssembledSound, Between, SnapshotSound
<1>12. WithinBudget'
  BY <1>0, <1>2 DEF WithinBudget, CostIn
<1>13. WithinLevel'
  <2>1. Pending = 0 /\ Pending' = c
    BY <1>1, <1>2, <1>3, <1>4 DEF Pending
  <2>2. \A a : Since(a)' = Since(a)
    BY <1>2 DEF Since
  <2> SUFFICES ASSUME NEW p \in purchases PROVE CostOf(Since(p.at)) + c <= Level' + Capacity - p.at
    BY <1>2, <2>1, <2>2 DEF WithinLevel
  <2>3. CostOf(Since(p.at)) + 0 <= Level + Capacity - p.at
    BY <1>0, <2>1 DEF WithinLevel
  <2>4. CostOf(Since(p.at)) \in Nat
    <3>1. IsFiniteSet(Since(p.at)) /\ \A q \in Since(p.at) : q.chunk \in DOMAIN Cost
      BY <1>0, FS_Subset DEF RequestsSound, Requests, Since
    <3> QED
      BY <3>1, CostOfIsNat
  <2>5. Level \in Int /\ Level' \in Int /\ Level' >= Level + c
    <3>1. bucket.tokens \in Int /\ bucket.updated \in Nat
      BY <1>0 DEF BucketSound
    <3>2. bucket'.tokens \in Int /\ bucket'.updated \in Nat
      BY <1>6
    <3> QED
      BY <1>5, <1>6, <3>1, <3>2 DEF Level
  <2>6. p.at \in Nat /\ Capacity \in Nat
    BY <1>0, Overdraws DEF RequestsSound, Requests
  <2> QED
    BY <1>5, <2>3, <2>4, <2>5, <2>6
<1> QED
  BY <1>8, <1>9, <1>10, <1>11, <1>12, <1>13 DEF ProviderInv

\* The request spends what was reserved for it.
LEMMA RequestKeeps ==
  ASSUME ProviderInv, Request
  PROVE  ProviderInv'
<1>0. NowSound /\ BucketSound /\ PartialSound /\ FetchFits /\ RequestsSound /\ AnswersSound /\ AssembledSound
      /\ WithinLevel /\ WithinBudget /\ SnapshotSound
  BY DEF ProviderInv
<1>1. PICK r : r = [try |-> tries, chunk |-> Upcoming, at |-> now, hour |-> fetch.hour]
  OBVIOUS
<1>2. /\ fetch.phase = "pacing" /\ now >= fetch.wake
      /\ fetch' = [fetch EXCEPT !.phase = "asking"] /\ purchases' = purchases \cup {r}
      /\ now' = now /\ bucket' = bucket /\ partial' = partial /\ snapshot' = snapshot
      /\ tries' = tries /\ answered' = answered /\ assembled' = assembled
  BY <1>1 DEF Request
<1>3. /\ fetch.got \in Seq(Answers) /\ fetch.began \in Nat /\ fetch.hour \in Nat /\ fetch.wake \in Nat
      /\ fetch' = [phase |-> "asking", began |-> fetch.began, hour |-> fetch.hour, got |-> fetch.got,
                   wake |-> fetch.wake]
  BY <1>0, <1>2 DEF FetchFits
<1>4. Upcoming \in DOMAIN Cost /\ Upcoming' = Upcoming /\ ~InHand(fetch.hour, Upcoming)
  BY <1>0, <1>2, <1>3 DEF FetchFits, Upcoming
<1>5. PICK c : c = Cost[Upcoming]
  OBVIOUS
<1>6. /\ now \in Nat /\ tries \in Nat /\ c \in Nat \ {0} /\ Upcoming \in Nat
      /\ bucket.tokens \in Int /\ bucket.tokens + Overdraft >= 0 /\ bucket.updated = now
      /\ bucket.tokens + c <= Capacity /\ Capacity \in Nat /\ Overdraft \in Nat
  <2>1. now <= fetch.wake /\ fetch.wake = bucket.updated /\ bucket.tokens + c <= Capacity
    BY <1>0, <1>2, <1>5 DEF FetchFits
  <2>2. now \in Nat /\ tries \in Nat /\ bucket.tokens \in Int /\ bucket.tokens + Overdraft >= 0
    BY <1>0 DEF NowSound, BucketSound
  <2>3. now = bucket.updated
    BY <1>2, <1>3, <2>1, <2>2
  <2> QED
    BY <1>4, <1>5, <2>1, <2>2, <2>3, Costs, Overdraws
<1>7. NowSound' /\ BucketSound' /\ PartialSound'
  BY <1>0, <1>2 DEF NowSound, BucketSound, PartialSound, Overdraft
<1>8. FetchFits'
  <2>1. /\ fetch'.phase = "asking" /\ fetch'.began = fetch.began /\ fetch'.hour = fetch.hour
        /\ fetch'.got = fetch.got
    BY <1>3
  <2>2. fetch' \in [phase : {"none", "loop", "pacing", "asking"}, began : Nat, hour : Nat,
                got : Seq(Answers), wake : Nat]
    BY <1>3
  <2>3. InHand(fetch.hour, Upcoming)' = InHand(fetch.hour, Upcoming)
    BY <1>2, <1>4, <2>1 DEF InHand
  <2> QED
    BY <1>0, <1>2, <1>4, <2>1, <2>2, <2>3 DEF FetchFits
<1>9. \A p \in purchases : /\ p \in Requests /\ p.at \in Nat /\ p.at <= now /\ p.chunk \in DOMAIN Cost
                            /\ p.chunk \in Nat /\ (p.try = tries => p.hour = fetch.hour /\ p.chunk < Upcoming)
  BY <1>0, <1>2, Costs DEF RequestsSound, Requests
<1>10. /\ r \in Requests /\ r.try = tries /\ r.chunk = Upcoming /\ r.at = now /\ r.hour = fetch.hour
  BY <1>1, <1>3, <1>4, <1>6 DEF Requests
<1>11. \A p \in purchases : p.try = tries => p.chunk # Upcoming
  BY <1>6, <1>9
<1>12. IsFiniteSet(purchases) /\ r \notin purchases
  BY <1>0, <1>10, <1>11 DEF RequestsSound
<1>13. RequestsSound'
  <2>1. IsFiniteSet(purchases')
    BY <1>2, <1>12, FS_AddElement
  <2>2. purchases' \subseteq Requests /\ answered' \subseteq purchases'
    BY <1>0, <1>2, <1>9, <1>10 DEF RequestsSound
  <2>3. \A p \in purchases' : /\ p.at <= now /\ p.try <= tries
                              /\ p.try = tries => p.hour = fetch.hour /\ p.chunk <= Upcoming
    <3>1. \A p \in purchases : p.try <= tries
      BY <1>0 DEF RequestsSound
    <3>2. r.at <= now /\ r.try <= tries /\ r.hour = fetch.hour /\ r.chunk <= Upcoming
      BY <1>6, <1>10
    <3>3. \A p \in purchases : p.try = tries => p.chunk <= Upcoming
      BY <1>6, <1>9
    <3> QED
      BY <1>2, <1>9, <3>1, <3>2, <3>3
  <2>4. \A p, q \in purchases' : p.try = q.try /\ p.chunk = q.chunk => p = q
    BY <1>0, <1>2, <1>10, <1>11 DEF RequestsSound
  <2> QED
    BY <1>2, <1>3, <1>4, <2>1, <2>2, <2>3, <2>4 DEF RequestsSound, Requests
<1>14. AnswersSound' /\ AssembledSound' /\ SnapshotSound'
  BY <1>0, <1>2, <1>3 DEF AnswersSound, AssembledSound, Between, SnapshotSound
<1>15. ASSUME NEW S \in SUBSET purchases
       PROVE  CostOf(S) \in Nat /\ CostOf(S \cup {r}) = CostOf(S) + c
  <2>1. IsFiniteSet(S) /\ \A q \in S : q.chunk \in DOMAIN Cost
    BY <1>9, <1>12, FS_Subset
  <2>2. r \notin S /\ r.chunk \in DOMAIN Cost /\ Cost[r.chunk] = c
    BY <1>4, <1>5, <1>10, <1>12
  <2> QED
    BY <2>1, <2>2, CostOfIsNat, OneRequestMore
\* What was spent since a request, the new one included, is within the level.
<1>16. ASSUME NEW a \in Nat, a <= now, (\E p \in purchases : p.at = a) \/ a = now
       PROVE  CostOf(Since(a) \cup {r}) <= Level + Capacity - a
  <2>1. Since(a) \in SUBSET purchases
    BY DEF Since
  <2>2. Level \in Int /\ now - bucket.tokens = Level
    BY <1>6 DEF Level
  <2>3. CostOf(Since(a)) \in Nat /\ CostOf(Since(a) \cup {r}) = CostOf(Since(a)) + c
    BY <1>15, <2>1
  <2>4. CASE \E p \in purchases : p.at = a
    <3>1. Pending = c
      BY <1>2, <1>5 DEF Pending
    <3>2. CostOf(Since(a)) + c <= Level + Capacity - a
      BY <1>0, <2>4, <3>1 DEF WithinLevel
    <3> QED
      BY <2>3, <3>2
  <2>5. CASE a = now /\ ~\E p \in purchases : p.at = a
    <3>1. Since(a) = {}
      <4>1. \A p \in purchases : ~(p.at >= a)
        BY <1>6, <1>9, <2>5
      <4> QED
        BY <4>1 DEF Since
    <3>2. CostOf({}) = 0
      <4>1. PICK f : f = [q \in {} |-> Cost[q.chunk]]
        OBVIOUS
      <4>2. f \in [{} -> Nat] /\ \A q \in {} : f[q] = 0
        BY <4>1
      <4>3. IsFiniteSet({})
        BY FS_EmptySet
      <4>4. SumFunction(f) = 0
        BY <4>2, <4>3, SumZero
      <4> QED
        BY <4>1, <4>4 DEF CostOf
    <3>3. c <= Level + Capacity - a
      BY <1>6, <2>2, <2>5
    <3> QED
      BY <1>6, <2>3, <3>1, <3>2, <3>3
  <2> QED
    BY <1>16, <2>4, <2>5
<1>17. \A p \in purchases' : p.at \in Nat /\ p.at <= now /\ ((\E q \in purchases : q.at = p.at) \/ p.at = now)
  BY <1>2, <1>6, <1>9, <1>10
<1>18. WithinLevel'
  <2>1. Pending' = 0 /\ Level' = Level
    BY <1>2, <1>3 DEF Pending, Level
  <2> SUFFICES ASSUME NEW p \in purchases'
               PROVE  CostOf(Since(p.at)') + 0 <= Level + Capacity - p.at
    BY <1>2, <2>1 DEF WithinLevel
  <2>2. Since(p.at)' = Since(p.at) \cup {r}
    BY <1>2, <1>6, <1>10, <1>17 DEF Since
  <2>3. CostOf(Since(p.at) \cup {r}) <= Level + Capacity - p.at
    BY <1>16, <1>17
  <2>4. CostOf(Since(p.at) \cup {r}) \in Nat
    <3>1. Since(p.at) \in SUBSET purchases
      BY DEF Since
    <3>2. CostOf(Since(p.at)) \in Nat /\ CostOf(Since(p.at) \cup {r}) = CostOf(Since(p.at)) + c
      BY <1>15, <3>1
    <3> QED
      BY <1>6, <3>2
  <2> QED
    BY <2>2, <2>3, <2>4
<1>19. WithinBudget'
  <2> SUFFICES ASSUME NEW p \in purchases', NEW q \in purchases', p.at <= q.at
               PROVE  CostIn(p.at, q.at)' <= Capacity + Overdraft + (q.at - p.at)
    BY DEF WithinBudget, Overdraft
  <2>0. p.at \in Nat /\ q.at \in Nat /\ p.at <= now /\ q.at <= now
    BY <1>17
  <2>1. CASE q.at = now
    <3>1. {x \in purchases' : x.at \in p.at..q.at} = Since(p.at) \cup {r}
      BY <1>2, <1>6, <1>9, <1>10, <2>0, <2>1 DEF Since
    <3>2. CostIn(p.at, q.at)' = CostOf(Since(p.at) \cup {r})
      BY <3>1 DEF CostIn
    <3>3. CostOf(Since(p.at) \cup {r}) <= Level + Capacity - p.at
      BY <1>16, <1>17
    <3>4. Level \in Int /\ Level <= now + Overdraft
      BY <1>6 DEF Level
    <3>5. CostOf(Since(p.at) \cup {r}) \in Nat
      <4>1. Since(p.at) \in SUBSET purchases
        BY DEF Since
      <4>2. CostOf(Since(p.at)) \in Nat /\ CostOf(Since(p.at) \cup {r}) = CostOf(Since(p.at)) + c
        BY <1>15, <4>1
      <4> QED
        BY <1>6, <4>2
    <3> QED
      BY <1>6, <2>0, <2>1, <3>2, <3>3, <3>4, <3>5
  <2>2. CASE q.at # now
    <3>1. p.at # now
      BY <1>6, <2>0, <2>2
    <3>2. p \in purchases /\ q \in purchases
      BY <1>2, <1>10, <2>2, <3>1
    <3>3. {x \in purchases' : x.at \in p.at..q.at} = {x \in purchases : x.at \in p.at..q.at}
      <4>1. r.at \notin p.at..q.at
        BY <1>6, <1>10, <2>0, <2>2
      <4> QED
        BY <1>2, <4>1
    <3>4. CostIn(p.at, q.at)' = CostIn(p.at, q.at)
      BY <3>3 DEF CostIn
    <3> QED
      BY <1>0, <3>2, <3>4 DEF WithinBudget
  <2> QED
    BY <2>1, <2>2
<1> QED
  BY <1>7, <1>8, <1>13, <1>14, <1>18, <1>19 DEF ProviderInv

\* An answer goes into the partial result, in place of an older hour.
LEMMA AnsweredKeeps ==
  ASSUME ProviderInv, Answered
  PROVE  ProviderInv'
<1>0. NowSound /\ BucketSound /\ PartialSound /\ FetchFits /\ RequestsSound /\ AnswersSound /\ AssembledSound
      /\ WithinLevel /\ WithinBudget /\ SnapshotSound
  BY DEF ProviderInv
<1>21. PICK n, i : n = fetch.hour /\ i = Upcoming
  OBVIOUS
<1>1. PICK x \in Replies(now) :
        /\ n = fetch.hour /\ i = Upcoming /\ partial' = Inserted(n, i, x)
        /\ fetch' = [fetch EXCEPT !.phase = "loop", !.got = Append(@, x)]
  BY <1>21 DEF Answered
<1>2. /\ fetch.phase = "asking" /\ partial' = Inserted(n, i, x)
      /\ fetch' = [fetch EXCEPT !.phase = "loop", !.got = Append(@, x)]
      /\ answered' = answered \cup {p \in purchases : p.try = tries /\ p.chunk = i}
      /\ now' = now /\ bucket' = bucket /\ snapshot' = snapshot
      /\ tries' = tries /\ purchases' = purchases /\ assembled' = assembled
  BY <1>1 DEF Answered
<1>3. /\ fetch.got \in Seq(Answers) /\ fetch.began \in Nat /\ n \in Nat /\ fetch.wake \in Nat
      /\ fetch' = [phase |-> "loop", began |-> fetch.began, hour |-> n,
                   got |-> Append(fetch.got, x), wake |-> fetch.wake]
  BY <1>0, <1>1, <1>2 DEF FetchFits
<1>4. /\ now \in Nat /\ fetch.began <= now /\ now <= fetch.began + FetchTicks
      /\ n = NearestHour(fetch.began) /\ partial.hour <= n
      /\ Len(fetch.got) <= Len(Cost) /\ \A k \in DOMAIN fetch.got : Serves(fetch.got[k], n)
      /\ i \in DOMAIN Cost /\ ~InHand(n, i)
  BY <1>0, <1>1, <1>2 DEF FetchFits, NowSound
<1>5. Serves(x, n)
  BY <1>1, <1>3, <1>4, RepliesServe
<1>6. x \in Answers
  BY <1>5 DEF Serves
<1>7. /\ Append(fetch.got, x) \in Seq(Answers) /\ Len(Append(fetch.got, x)) = Len(fetch.got) + 1
      /\ \A k \in DOMAIN Append(fetch.got, x) : Serves(Append(fetch.got, x)[k], n)
  <2>1. PICK s \in Seq(Answers) : s = fetch.got
    BY <1>3
  <2>2. /\ Append(s, x) \in Seq(Answers) /\ Len(Append(s, x)) = Len(s) + 1
        /\ DOMAIN Append(s, x) = 1..(Len(s) + 1) /\ DOMAIN s = 1..Len(s)
        /\ \A k \in 1..Len(s) : Append(s, x)[k] = s[k]
        /\ Append(s, x)[Len(s) + 1] = x
    BY <1>6
  <2>3. \A k \in 1..(Len(s) + 1) : k \in 1..Len(s) \/ k = Len(s) + 1
    OBVIOUS
  <2> QED
    BY <1>4, <1>5, <2>1, <2>2, <2>3
<1>8. i \in Nat /\ Upcoming' = i + 1 /\ i = Len(fetch.got) + 1 /\ Len(fetch.got) \in Nat
      /\ i <= Len(Cost) /\ Len(Cost) \in Nat
  BY <1>1, <1>3, <1>4, <1>7, Costs DEF Upcoming
<1>9. NowSound' /\ BucketSound'
  BY <1>0, <1>2 DEF NowSound, BucketSound, Overdraft
<1>10. PICK had : had = Kept(n)
  OBVIOUS
<1>11. /\ partial' = [hour |-> n, chunks |-> [j \in DOMAIN had \cup {i} |-> IF j = i THEN x ELSE had[j]]]
       /\ had = IF partial.hour = n THEN partial.chunks ELSE <<>>
  BY <1>2, <1>10 DEF Inserted, Kept
<1>12. /\ partial'.hour = n /\ DOMAIN partial'.chunks = DOMAIN had \cup {i}
       /\ partial'.chunks[i] = x /\ \A j \in DOMAIN had : j # i => partial'.chunks[j] = had[j]
       /\ partial' = [hour |-> partial'.hour, chunks |-> partial'.chunks]
  BY <1>11
<1>13. PartialSound'
  <2>1. \A j \in DOMAIN had : j \in DOMAIN Cost /\ Serves(had[j], n)
    <3>1. CASE partial.hour = n
      BY <1>0, <1>11, <3>1 DEF PartialSound
    <3>2. CASE partial.hour # n
      BY <1>11, <3>2
    <3> QED
      BY <3>1, <3>2
  <2>2. \A j \in DOMAIN partial'.chunks : j \in DOMAIN Cost /\ Serves(partial'.chunks[j], n)
    BY <1>4, <1>5, <1>12, <2>1
  <2>3. n <= NearestHour(now)
    BY <1>3, <1>4, NearestLater
  <2> QED
    BY <1>2, <1>3, <1>12, <2>2, <2>3 DEF PartialSound
<1>14. FetchFits'
  <2>1. fetch' \in [phase : {"none", "loop", "pacing", "asking"}, began : Nat, hour : Nat,
                got : Seq(Answers), wake : Nat]
    BY <1>3, <1>7
  <2>2. Len(fetch'.got) <= Len(Cost) /\ \A k \in DOMAIN fetch'.got : Serves(fetch'.got[k], n)
    BY <1>3, <1>7, <1>8
  <2>3. fetch'.phase = "loop" /\ fetch'.began = fetch.began /\ fetch'.hour = n /\ n <= n
    BY <1>3
  <2> QED
    BY <1>2, <1>4, <1>12, <2>1, <2>2, <2>3 DEF FetchFits
<1>15. RequestsSound'
  <2>1. \A p \in purchases : p.chunk \in Nat /\ (p.try = tries => p.hour = n /\ p.chunk <= i)
    BY <1>0, <1>1, <1>2, Costs DEF RequestsSound, Requests
  <2>2. \A p \in purchases : p.try = tries => p.chunk <= Upcoming' /\ p.chunk < Upcoming'
    BY <1>8, <2>1
  <2> QED
    BY <1>0, <1>2, <1>3, <2>1, <2>2 DEF RequestsSound
<1>16. \A p \in purchases : p.try = tries /\ p.chunk = i => p.hour = n
  BY <1>0, <1>1, <1>2 DEF RequestsSound
\* An answer that there is for this chunk and hour was used up.
<1>17. ASSUME NEW q \in answered, q.chunk = i, q.hour = n
       PROVE  q \in purchases /\ q.try \in Nat /\ q.try <= tries /\ \E t \in assembled : q.try <= t /\ t < tries
  <2>1. partial.hour \in Nat
    BY <1>0 DEF PartialSound
  <2>2. ~(n < partial.hour) /\ ~(n = partial.hour /\ i \in DOMAIN partial.chunks)
    BY <1>3, <1>4, <2>1 DEF InHand
  <2>3. PICK t \in assembled : q.try <= t
    BY <1>0, <1>17, <2>2 DEF AnswersSound
  <2>4. t < tries
    BY <1>0, <1>2, <2>3 DEF AssembledSound
  <2>5. q \in purchases /\ q.try \in Nat /\ q.try <= tries
    BY <1>0, <1>17 DEF RequestsSound, Requests
  <2> QED
    BY <2>3, <2>4, <2>5
<1>18. AnswersSound' /\ AssembledSound'
  <2>1. ASSUME NEW p \in answered'
        PROVE  \/ p.hour < n
               \/ p.hour = n /\ p.chunk \in DOMAIN partial'.chunks
               \/ \E t \in assembled : p.try <= t
    <3>1. CASE p \in answered
      <4>1. partial.hour \in Nat /\ p.hour \in Nat
        BY <1>0, <3>1 DEF PartialSound, RequestsSound, Requests
      <4>2. CASE p.hour < partial.hour
        BY <1>3, <1>4, <4>1, <4>2
      <4>3. CASE p.hour = partial.hour /\ p.chunk \in DOMAIN partial.chunks
        <5>1. CASE partial.hour = n
          BY <1>11, <1>12, <4>3, <5>1
        <5>2. CASE partial.hour # n
          BY <1>3, <1>4, <4>1, <4>3, <5>2
        <5> QED
          BY <5>1, <5>2
      <4>4. CASE \E t \in assembled : p.try <= t
        BY <4>4
      <4> QED
        BY <1>0, <3>1, <4>2, <4>3, <4>4 DEF AnswersSound
    <3>2. CASE p \in purchases /\ p.try = tries /\ p.chunk = i
      BY <1>12, <1>16, <3>2
    <3> QED
      BY <1>2, <3>1, <3>2
  <2>2. ASSUME NEW p \in answered', NEW q \in answered', p.chunk = q.chunk, p.hour = q.hour, p.try <= q.try
        PROVE  p = q \/ Between(p, q)
    <3>1. CASE p \in answered /\ q \in answered
      BY <1>0, <2>2, <3>1 DEF AnswersSound
    <3>2. CASE p \notin answered
      <4>1. p \in purchases /\ p.try = tries /\ p.chunk = i /\ p.hour = n
        BY <1>2, <1>16, <3>2
      <4>2. q \in purchases /\ q.try \in Nat /\ q.try <= tries /\ tries \in Nat
        BY <1>0, <1>2 DEF RequestsSound, Requests, NowSound
      <4>3. q.try = tries
        BY <2>2, <4>1, <4>2
      <4> QED
        BY <1>0, <2>2, <4>1, <4>2, <4>3 DEF RequestsSound
    <3>3. CASE p \in answered /\ q \notin answered
      <4>1. q \in purchases /\ q.try = tries /\ q.chunk = i /\ q.hour = n
        BY <1>2, <1>16, <3>3
      <4>2. \E t \in assembled : p.try <= t /\ t < tries
        BY <1>17, <2>2, <3>3, <4>1
      <4> QED
        BY <4>1, <4>2 DEF Between
    <3> QED
      BY <3>1, <3>2, <3>3
  <2>3. \A p, q : Between(p, q)' <=> Between(p, q)
    BY <1>2 DEF Between
  <2>4. AnswersSound'
    <3>1. \A p \in answered' :
            \/ p.hour < partial'.hour
            \/ p.hour = partial'.hour /\ p.chunk \in DOMAIN partial'.chunks
            \/ \E t \in assembled' : p.try <= t
      <4> SUFFICES ASSUME NEW p \in answered'
                   PROVE  \/ p.hour < partial'.hour
                          \/ p.hour = partial'.hour /\ p.chunk \in DOMAIN partial'.chunks
                          \/ \E t \in assembled' : p.try <= t
        OBVIOUS
      <4>1. assembled' = assembled /\ partial'.hour = n
        BY <1>2, <1>12
      <4> QED
        BY <2>1, <4>1
    <3>2. \A p, q \in answered' :
            p.chunk = q.chunk /\ p.hour = q.hour /\ p.try <= q.try => p = q \/ Between(p, q)'
      BY <2>2, <2>3
    <3> QED
      BY <3>1, <3>2 DEF AnswersSound
  <2>5. AssembledSound'
    BY <1>0, <1>2, <1>3 DEF AssembledSound
  <2> QED
    BY <2>4, <2>5
<1>19. WithinBudget' /\ SnapshotSound'
  BY <1>0, <1>2 DEF WithinBudget, CostIn, SnapshotSound
<1>20. WithinLevel'
  <2>1. Pending = 0 /\ Pending' = 0
    BY <1>2, <1>3 DEF Pending
  <2>2. \A a : Since(a)' = Since(a)
    BY <1>2 DEF Since
  <2> QED
    BY <1>0, <1>2, <2>1, <2>2 DEF WithinLevel, Level
<1> QED
  BY <1>9, <1>13, <1>14, <1>15, <1>18, <1>19, <1>20 DEF ProviderInv

\* A fetch that fails or is cut off keeps what it has in hand, and what it reserved stays spent.
LEMMA AbandonedKeeps ==
  ASSUME ProviderInv, Abandoned
  PROVE  ProviderInv'
<1>0. NowSound /\ BucketSound /\ PartialSound /\ FetchFits /\ RequestsSound /\ AnswersSound /\ AssembledSound
      /\ WithinLevel /\ WithinBudget /\ SnapshotSound
  BY DEF ProviderInv
<1>1. /\ fetch' = NoFetch /\ fetch.phase \in {"pacing", "asking"}
      /\ now' = now /\ bucket' = bucket /\ partial' = partial /\ snapshot' = snapshot
      /\ tries' = tries /\ purchases' = purchases /\ answered' = answered /\ assembled' = assembled
  BY DEF Abandoned
<1>2. NowSound' /\ BucketSound' /\ PartialSound'
  BY <1>0, <1>1 DEF NowSound, BucketSound, PartialSound, Overdraft
<1>3. FetchFits'
  BY <1>1 DEF FetchFits, NoFetch
<1>4. RequestsSound'
  BY <1>0, <1>1 DEF RequestsSound, NoFetch
<1>5. AnswersSound' /\ AssembledSound' /\ SnapshotSound'
  BY <1>0, <1>1 DEF AnswersSound, AssembledSound, Between, SnapshotSound, NoFetch
<1>6. WithinBudget'
  BY <1>0, <1>1 DEF WithinBudget, CostIn
<1>7. WithinLevel'
  <2>1. Pending \in Nat /\ Pending' = 0
    BY <1>0, <1>1, Costs DEF Pending, NoFetch, FetchFits
  <2>2. \A a : Since(a)' = Since(a)
    BY <1>1 DEF Since
  <2> SUFFICES ASSUME NEW p \in purchases PROVE CostOf(Since(p.at)) + 0 <= Level + Capacity - p.at
    BY <1>1, <2>1, <2>2 DEF WithinLevel, Level
  <2>3. CostOf(Since(p.at)) + Pending <= Level + Capacity - p.at
    BY <1>0 DEF WithinLevel
  <2>4. CostOf(Since(p.at)) \in Nat
    <3>1. IsFiniteSet(Since(p.at)) /\ \A q \in Since(p.at) : q.chunk \in DOMAIN Cost
      BY <1>0, FS_Subset DEF RequestsSound, Requests, Since
    <3> QED
      BY <3>1, CostOfIsNat
  <2>5. Level \in Int /\ p.at \in Nat /\ Capacity \in Nat
    BY <1>0, Overdraws DEF BucketSound, Level, RequestsSound, Requests
  <2> QED
    BY <2>1, <2>3, <2>4, <2>5
<1> QED
  BY <1>2, <1>3, <1>4, <1>5, <1>6, <1>7 DEF ProviderInv

\* The chunks are used up, and a snapshot that they make takes an hour that every one with times has.
LEMMA AssembleKeeps ==
  ASSUME ProviderInv, Assemble
  PROVE  ProviderInv'
<1>0. NowSound /\ BucketSound /\ PartialSound /\ FetchFits /\ RequestsSound /\ AnswersSound /\ AssembledSound
      /\ WithinLevel /\ WithinBudget /\ SnapshotSound
  BY DEF ProviderInv
<1>1. /\ fetch.phase = "loop" /\ Upcoming > Len(Cost)
      /\ partial' = [partial EXCEPT !.chunks = <<>>]
      /\ \/ CanAssemble(fetch.got) /\ snapshot' = Assembly(fetch.got, fetch.began)
         \/ snapshot' = snapshot
      /\ fetch' = NoFetch /\ assembled' = assembled \cup {tries}
      /\ now' = now /\ bucket' = bucket /\ tries' = tries /\ purchases' = purchases /\ answered' = answered
  BY DEF Assemble
<1>2. NowSound' /\ BucketSound'
  BY <1>0, <1>1 DEF NowSound, BucketSound, Overdraft
<1>3. PartialSound'
  <2>1. partial' = [hour |-> partial.hour, chunks |-> <<>>]
    BY <1>0, <1>1 DEF PartialSound
  <2> QED
    BY <1>0, <1>1, <2>1 DEF PartialSound
<1>4. FetchFits'
  BY <1>1 DEF FetchFits, NoFetch
<1>5. RequestsSound'
  BY <1>0, <1>1 DEF RequestsSound, NoFetch
<1>6. AnswersSound' /\ AssembledSound'
  <2>1. tries \in Nat /\ tries <= tries /\ tries \in assembled'
    BY <1>0, <1>1 DEF NowSound
  <2>2. \A p \in answered : p.try <= tries
    BY <1>0 DEF RequestsSound
  <2>3. \A p, q : Between(p, q) => Between(p, q)'
    BY <1>1 DEF Between
  <2>4. AnswersSound'
    BY <1>0, <1>1, <2>1, <2>2, <2>3 DEF AnswersSound
  <2>5. AssembledSound'
    BY <1>0, <1>1, <2>1 DEF AssembledSound, NoFetch
  <2> QED
    BY <2>4, <2>5
<1>7. WithinBudget'
  BY <1>0, <1>1 DEF WithinBudget, CostIn
<1>8. WithinLevel'
  <2>1. Pending = 0 /\ Pending' = 0
    BY <1>1 DEF Pending, NoFetch
  <2>2. \A a : Since(a)' = Since(a)
    BY <1>1 DEF Since
  <2> QED
    BY <1>0, <1>1, <2>1, <2>2 DEF WithinLevel, Level
<1>9. ASSUME snapshot' = snapshot PROVE SnapshotSound'
  BY <1>0, <1>9 DEF SnapshotSound
<1>10. ASSUME CanAssemble(fetch.got), snapshot' = Assembly(fetch.got, fetch.began)
       PROVE  SnapshotSound'
  <2>1. PICK l \in Seq(Answers), t \in Nat : l = fetch.got /\ t = fetch.began
    BY <1>0 DEF FetchFits
  <2>2. Len(l) <= Len(Cost) /\ \A k \in DOMAIN l : Serves(l[k], NearestHour(t))
    BY <1>0, <1>1, <2>1 DEF FetchFits
  <2>3. Len(l) = Len(Cost) /\ 1 \in DOMAIN l
    <3>1. Len(l) + 1 > Len(Cost)
      BY <1>1, <2>1 DEF Upcoming
    <3>2. Len(Cost) \in Nat \ {0} /\ Len(l) \in Nat
      BY <2>1, Costs
    <3> QED
      BY <2>2, <3>1, <3>2
  <2>8. (\A k \in DOMAIN l : ~l[k].short) /\ l[1].hours # {}
    BY <1>10, <2>1 DEF CanAssemble
  <2>4. PICK v : v = SelectHour(l[1].hours, t)
    OBVIOUS
  <2>5. v \in {NearestHour(t) - 1, NearestHour(t)} /\ 2 * Away(v, t) <= HourTicks
    <3>1. Covers(l[1].hours, NearestHour(t))
      BY <2>2, <2>3, <2>8 DEF Serves
    <3>2. PICK hours : hours = l[1].hours
      OBVIOUS
    <3> QED
      BY <2>4, <3>1, <3>2, Selects
  <2>6. snapshot' = [began |-> t, parts |-> l, valid |-> v]
    BY <1>10, <2>1, <2>4 DEF Assembly
  <2>7. \A k \in DOMAIN l : ~l[k].short /\ (l[k].hours = {} \/ v \in l[k].hours)
    BY <2>2, <2>5, <2>8 DEF Serves, Covers
  <2> QED
    BY <2>3, <2>5, <2>6, <2>7 DEF SnapshotSound
<1>11. SnapshotSound'
  BY <1>1, <1>9, <1>10
<1> QED
  BY <1>2, <1>3, <1>4, <1>5, <1>6, <1>7, <1>8, <1>11 DEF ProviderInv

\* Waiting alone spends nothing, and no fetch outlasts its time.
LEMMA TimePassesKeeps ==
  ASSUME ProviderInv, TimePasses
  PROVE  ProviderInv'
<1>0. NowSound /\ BucketSound /\ PartialSound /\ FetchFits /\ RequestsSound /\ AnswersSound /\ AssembledSound
      /\ WithinLevel /\ WithinBudget /\ SnapshotSound
  BY DEF ProviderInv
<1>1. /\ fetch.phase # "none" => now < fetch.began + FetchTicks
      /\ fetch.phase = "pacing" => now < fetch.wake
      /\ now' = now + 1
      /\ bucket' = bucket /\ partial' = partial /\ fetch' = fetch /\ tries' = tries
      /\ snapshot' = snapshot /\ purchases' = purchases /\ answered' = answered /\ assembled' = assembled
  BY DEF TimePasses
<1>2. now \in Nat /\ now' \in Nat /\ now <= now' /\ tries \in Nat /\ FetchTicks \in Nat
  BY <1>0, <1>1, ProviderAssumption DEF NowSound, ProviderAssumption
<1>3. NowSound' /\ BucketSound'
  BY <1>0, <1>1, <1>2 DEF NowSound, BucketSound, Overdraft
<1>4. PartialSound'
  <2>1. PICK m \in Nat, n \in Nat : m = NearestHour(now) /\ n = NearestHour(now')
    BY <1>2, Nearest
  <2>2. m <= n
    BY <1>2, <2>1, NearestLater
  <2>3. partial.hour \in Nat /\ partial.hour <= m
    BY <1>0, <2>1 DEF PartialSound
  <2>4. NearestHour(now)' = n
    BY <2>1 DEF NearestHour
  <2>5. partial.hour <= n
    BY <2>2, <2>3
  <2> QED
    BY <1>0, <1>1, <2>4, <2>5 DEF PartialSound
<1>5. FetchFits'
  <2>1. fetch.began \in Nat /\ fetch.wake \in Nat
    BY <1>0 DEF FetchFits
  <2>2. fetch.phase # "none" => fetch.began <= now' /\ now' <= fetch.began + FetchTicks
    BY <1>0, <1>1, <1>2, <2>1 DEF FetchFits
  <2>3. fetch.phase = "pacing" => now' <= fetch.wake
    BY <1>1, <1>2, <2>1
  <2>4. Upcoming' = Upcoming /\ InHand(fetch.hour, Upcoming)' = InHand(fetch.hour, Upcoming)
    BY <1>1 DEF Upcoming, InHand
  <2> QED
    BY <1>0, <1>1, <2>2, <2>3, <2>4 DEF FetchFits
<1>6. RequestsSound'
  <2>1. \A p \in purchases : p.at <= now'
    <3>1. \A p \in purchases : p.at \in Nat /\ p.at <= now
      BY <1>0 DEF RequestsSound, Requests
    <3> QED
      BY <1>2, <3>1
  <2>2. Upcoming' = Upcoming
    BY <1>1 DEF Upcoming
  <2> QED
    BY <1>0, <1>1, <2>1, <2>2 DEF RequestsSound
<1>7. AnswersSound' /\ AssembledSound' /\ SnapshotSound'
  BY <1>0, <1>1 DEF AnswersSound, AssembledSound, Between, SnapshotSound
<1>8. WithinBudget'
  BY <1>0, <1>1 DEF WithinBudget, CostIn
<1>9. WithinLevel'
  BY <1>0, <1>1 DEF WithinLevel, Level, Pending, Since, Upcoming
<1> QED
  BY <1>3, <1>4, <1>5, <1>6, <1>7, <1>8, <1>9 DEF ProviderInv

\* One lemma for each action.
LEMMA ProviderInvStep == ProviderInv /\ [ProviderNext]_providerVars => ProviderInv'
<1> SUFFICES ASSUME ProviderInv, [ProviderNext]_providerVars PROVE ProviderInv'
  OBVIOUS
<1>1. CASE ProviderNext
  BY <1>1, BeginKeeps, UseHeldKeeps, PaceKeeps, RequestKeeps, AnsweredKeeps, AbandonedKeeps,
     AssembleKeeps, TimePassesKeeps DEF ProviderNext
<1>2. CASE UNCHANGED providerVars
  <2>1. /\ now' = now /\ bucket' = bucket /\ partial' = partial /\ fetch' = fetch /\ tries' = tries
        /\ snapshot' = snapshot /\ purchases' = purchases /\ answered' = answered /\ assembled' = assembled
    BY <1>2 DEF providerVars
  <2>2. NowSound /\ BucketSound /\ PartialSound /\ FetchFits /\ RequestsSound /\ AnswersSound /\ AssembledSound
        /\ WithinLevel /\ WithinBudget /\ SnapshotSound
    BY DEF ProviderInv
  <2>3. NowSound' /\ BucketSound' /\ PartialSound' /\ SnapshotSound' /\ AnswersSound' /\ AssembledSound'
        /\ WithinBudget'
    BY <2>1, <2>2 DEF NowSound, BucketSound, PartialSound, SnapshotSound, AnswersSound, AssembledSound, Between,
       WithinBudget, CostIn, Overdraft
  <2>4. Upcoming' = Upcoming /\ InHand(fetch.hour, Upcoming)' = InHand(fetch.hour, Upcoming)
    BY <2>1 DEF Upcoming, InHand
  <2>5. FetchFits' /\ RequestsSound'
    BY <2>1, <2>2, <2>4 DEF FetchFits, RequestsSound
  <2>6. WithinLevel'
    BY <2>1, <2>2, <2>4 DEF WithinLevel, Level, Pending, Since
  <2> QED
    BY <2>3, <2>5, <2>6 DEF ProviderInv
<1> QED
  BY <1>1, <1>2

(***************************************************************************)
(* Between any two requests, of one fetch or of several, the provider is   *)
(* asked for no more than the bucket, its overdraft and the time between   *)
(* them allow (budget.rs reserve); what a request was answered is not paid *)
(* for again in its hour, however often fetches fail and start again,      *)
(* until a fetch has every chunk and makes a snapshot of them or fails to  *)
(* (provider.rs partial, open_meteo.rs assemble_snapshot); and a snapshot  *)
(* has every location and one hour that every chunk with times has, within *)
(* half an hour of the fetch (open_meteo.rs select_hour).                  *)
(***************************************************************************)
THEOREM FetchesSound == ProviderSpec => []FetchSound
<1>1. ProviderInv => FetchSound
  <2> SUFFICES ASSUME ProviderInv PROVE FetchSound
    OBVIOUS
  <2>1. BucketSound /\ PartialSound /\ AnswersSound /\ WithinBudget /\ SnapshotSound
    BY DEF ProviderInv
  <2>2. \A a, b \in {p.at : p \in purchases} : a <= b => CostIn(a, b) <= Capacity + Overdraft + (b - a)
    <3> SUFFICES ASSUME NEW p \in purchases, NEW q \in purchases, p.at <= q.at
                 PROVE  CostIn(p.at, q.at) <= Capacity + Overdraft + (q.at - p.at)
      OBVIOUS
    <3> QED
      BY <2>1 DEF WithinBudget
  <2>3. DOMAIN partial.chunks \subseteq DOMAIN Cost /\ bucket.tokens <= Capacity
    BY <2>1 DEF PartialSound, BucketSound
  <2> QED
    BY <2>1, <2>2, <2>3 DEF FetchSound, AnswersSound, SnapshotSound
<1> QED
  BY <1>1, ProviderInvInit, ProviderInvStep, PTL DEF ProviderSpec
=============================================================================
