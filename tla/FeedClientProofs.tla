-------------------------- MODULE FeedClientProofs --------------------------
(***************************************************************************)
(* Proofs about FeedClient, for any number and kinds of forwarders and any *)
(* limits: the type invariant, the accounting of every message at every    *)
(* forwarder, the bound and the order of the retry queues, the order of    *)
(* the retries, and that the client implements Delivery.  All of them      *)
(* follow from one inductive invariant, which keeps a ledger for each      *)
(* forwarder.                                                              *)
(***************************************************************************)
EXTENDS FeedClient, TLAPS, SequenceTheorems, FiniteSetTheorems

-----------------------------------------------------------------------------
(* Facts about the queues.                                                 *)

Increasing(q) == \A i, j \in 1..Len(q) : i < j => q[i] < q[j]

\* Taking the oldest message off an increasing queue.
LEMMA TailIncreasing ==
  ASSUME NEW q \in Seq(Nat), q # <<>>, Increasing(q)
  PROVE  /\ Tail(q) \in Seq(Nat) /\ Increasing(Tail(q))
         /\ Len(Tail(q)) = Len(q) - 1
         /\ Head(q) \in Nat /\ Head(q) \in Range(q)
         /\ Range(Tail(q)) = Range(q) \ {Head(q)}
         /\ \A i \in 1..Len(Tail(q)) : Head(q) < Tail(q)[i]
<1>1. /\ Tail(q) \in Seq(Nat) /\ Len(q) \in Nat \ {0}
      /\ Len(Tail(q)) = Len(q) - 1
      /\ \A i \in 1..Len(Tail(q)) : Tail(q)[i] = q[i + 1]
      /\ Head(q) = q[1] /\ q[1] \in Nat
  BY HeadTailProperties, EmptySeq
<1>2. DOMAIN q = 1..Len(q) /\ DOMAIN Tail(q) = 1..Len(Tail(q))
  BY <1>1
<1>3. \A i \in 1..Len(q) : q[i] \in Nat
  OBVIOUS
<1>4. Increasing(Tail(q)) /\ \A i \in 1..Len(Tail(q)) : Head(q) < Tail(q)[i]
  BY <1>1, <1>3 DEF Increasing
<1>5. Head(q) \in Range(q)
  BY <1>1, <1>2 DEF Range
<1>6. Range(Tail(q)) = Range(q) \ {Head(q)}
  <2>1. ASSUME NEW x \in Range(Tail(q)) PROVE x \in Range(q) \ {Head(q)}
    <3>1. PICK i \in 1..Len(Tail(q)) : x = Tail(q)[i]
      BY <1>2 DEF Range
    <3>2. x = q[i + 1] /\ i + 1 \in 1..Len(q) /\ Head(q) < x
      BY <1>1, <1>4, <3>1
    <3>3. x \in Range(q)
      BY <1>2, <3>2 DEF Range
    <3>4. x # Head(q)
      BY <1>1, <1>3, <3>2
    <3> QED
      BY <3>3, <3>4
  <2>2. ASSUME NEW x \in Range(q), x # Head(q) PROVE x \in Range(Tail(q))
    <3>1. PICK i \in 1..Len(q) : x = q[i]
      BY <1>2 DEF Range
    <3>2. i - 1 \in 1..Len(Tail(q)) /\ x = Tail(q)[i - 1]
      BY <1>1, <2>2, <3>1
    <3> QED
      BY <1>2, <3>2 DEF Range
  <2> QED
    BY <2>1, <2>2
<1> QED
  BY <1>1, <1>4, <1>5, <1>6

\* Adding a newer message at the end of an increasing queue.
LEMMA AppendIncreasing ==
  ASSUME NEW q \in Seq(Nat), Increasing(q), NEW m \in Nat, \A x \in Range(q) : x < m
  PROVE  /\ Append(q, m) \in Seq(Nat) /\ Increasing(Append(q, m))
         /\ Len(Append(q, m)) = Len(q) + 1
         /\ Range(Append(q, m)) = Range(q) \cup {m}
<1>1. /\ Append(q, m) \in Seq(Nat) /\ Len(Append(q, m)) = Len(q) + 1
      /\ Append(q, m)[Len(q) + 1] = m
      /\ \A i \in 1..Len(q) : Append(q, m)[i] = q[i]
  BY AppendProperties
<1>2. DOMAIN q = 1..Len(q) /\ DOMAIN Append(q, m) = 1..(Len(q) + 1) /\ Len(q) \in Nat
  BY <1>1
<1>3. \A i \in 1..Len(q) : q[i] \in Nat /\ q[i] < m
  BY <1>2 DEF Range
<1>4. Increasing(Append(q, m))
  BY <1>1, <1>2, <1>3 DEF Increasing
<1>5. Range(Append(q, m)) = Range(q) \cup {m}
  <2>1. ASSUME NEW x \in Range(Append(q, m)) PROVE x \in Range(q) \cup {m}
    <3>1. PICK i \in 1..(Len(q) + 1) : x = Append(q, m)[i]
      BY <1>2 DEF Range
    <3> QED
      BY <1>1, <1>2, <3>1 DEF Range
  <2>2. ASSUME NEW x \in Range(q) PROVE x \in Range(Append(q, m))
    <3>1. PICK i \in 1..Len(q) : x = q[i]
      BY <1>2 DEF Range
    <3> QED
      BY <1>1, <1>2, <3>1 DEF Range
  <2>3. m \in Range(Append(q, m))
    BY <1>1, <1>2 DEF Range
  <2> QED
    BY <2>1, <2>2, <2>3
<1> QED
  BY <1>1, <1>4, <1>5

\* Taking a message and putting it back changes nothing.
LEMMA PutBackTail ==
  ASSUME NEW S, NEW q \in Seq(S), q # <<>>
  PROVE  PutBack(Tail(q), Head(q)) = q
BY DEF PutBack

-----------------------------------------------------------------------------
(* The ledger of one forwarder: its queue q, the sets d and l of delivered *)
(* and lost messages, the last retried message r, after h messages.        *)

Ledger(q, d, l, r, h) ==
  /\ q \in Seq(Nat) /\ Increasing(q) /\ Len(q) <= QueueLimit
  /\ d \subseteq Nat /\ l \subseteq Nat /\ r \in Nat
  /\ Range(q) \cup d \cup l = 1..h
  /\ Range(q) \cap (d \cup l) = {} /\ d \cap l = {}
  /\ \A x \in Range(q) : r < x /\ \A y \in l : y < x
  /\ r <= h

LEMMA LedgerDeliver ==
  ASSUME NEW q, NEW d, NEW l, NEW r, NEW h \in Nat, Ledger(q, d, l, r, h)
  PROVE  Ledger(q, d \cup {h + 1}, l, r, h + 1)
<1>1. h + 1 \notin Range(q) \cup d \cup l /\ 1..(h + 1) = 1..h \cup {h + 1}
  BY DEF Ledger
<1> QED
  BY <1>1 DEF Ledger

LEMMA LedgerRetry ==
  ASSUME NEW q, NEW d, NEW l, NEW r, NEW h \in Nat, Ledger(q, d, l, r, h), q # <<>>
  PROVE  /\ Ledger(Tail(q), d \cup {Head(q)}, l, Head(q), h)
         /\ r < Head(q)
<1>1. q \in Seq(Nat) /\ Increasing(q)
  BY DEF Ledger
<1>2. /\ Tail(q) \in Seq(Nat) /\ Increasing(Tail(q))
      /\ Len(Tail(q)) = Len(q) - 1 /\ Len(q) \in Nat
      /\ Head(q) \in Nat /\ Head(q) \in Range(q)
      /\ Range(Tail(q)) = Range(q) \ {Head(q)}
      /\ \A i \in 1..Len(Tail(q)) : Head(q) < Tail(q)[i]
  BY <1>1, TailIncreasing
<1>3. \A x \in Range(Tail(q)) : Head(q) < x
  BY <1>2 DEF Range
<1>4. Len(Tail(q)) <= QueueLimit
  BY <1>2, LimitAssumption DEF Ledger, QueueLimit
<1>5. Head(q) <= h /\ r < Head(q)
  BY <1>2 DEF Ledger
<1>6. Range(Tail(q)) \cup (d \cup {Head(q)}) \cup l = 1..h
  BY <1>2 DEF Ledger
<1> QED
  BY <1>2, <1>3, <1>4, <1>5, <1>6 DEF Ledger

\* enqueue_retry, below the limit and at the limit.
LEMMA LedgerEnqueue ==
  ASSUME NEW q, NEW d, NEW l, NEW r, NEW h \in Nat, Ledger(q, d, l, r, h),
         NEW k, k = IF Len(q) < MaxRetryQueue \/ q = <<>> THEN l ELSE l \cup {Head(q)}
  PROVE  Ledger(Enqueue(q, h + 1), d, k, r, h + 1)
<1>1. /\ q \in Seq(Nat) /\ Increasing(q) /\ Len(q) \in Nat /\ Len(q) <= QueueLimit
      /\ h + 1 \notin Range(q) \cup d \cup l /\ 1..(h + 1) = 1..h \cup {h + 1}
      /\ \A x \in Range(q) : x < h + 1
  BY DEF Ledger
<1>2. CASE Len(q) < MaxRetryQueue \/ q = <<>>
  <2>1. Enqueue(q, h + 1) = Append(q, h + 1)
    BY <1>2 DEF Enqueue
  <2>2. /\ Append(q, h + 1) \in Seq(Nat) /\ Increasing(Append(q, h + 1))
        /\ Len(Append(q, h + 1)) = Len(q) + 1
        /\ Range(Append(q, h + 1)) = Range(q) \cup {h + 1}
    BY <1>1, AppendIncreasing
  <2>3. Len(q) + 1 <= QueueLimit
    BY <1>1, <1>2, LimitAssumption DEF QueueLimit
  <2>4. /\ \A y \in l : y \in Nat /\ y < h + 1
        /\ r \in Nat /\ r < h + 1 /\ d \subseteq Nat /\ l \subseteq Nat
    BY DEF Ledger
  <2>5. Range(Append(q, h + 1)) \cup d \cup l = 1..(h + 1)
    BY <1>1, <2>2 DEF Ledger
  <2>6. Range(Append(q, h + 1)) \cap (d \cup l) = {} /\ d \cap l = {}
    BY <1>1, <2>2 DEF Ledger
  <2>7. \A x \in Range(Append(q, h + 1)) : r < x /\ \A y \in l : y < x
    BY <2>2, <2>4 DEF Ledger
  <2>8. Len(Append(q, h + 1)) <= QueueLimit /\ r <= h + 1
    BY <2>2, <2>3, <2>4
  <2>9. Ledger(Append(q, h + 1), d, l, r, h + 1)
    BY <2>2, <2>4, <2>5, <2>6, <2>7, <2>8 DEF Ledger
  <2> QED
    BY <1>2, <2>1, <2>9
<1>3. CASE ~(Len(q) < MaxRetryQueue \/ q = <<>>)
  <2> DEFINE t == Tail(q)
  <2>1. Enqueue(q, h + 1) = Append(t, h + 1)
    BY <1>3 DEF Enqueue
  <2>2. /\ t \in Seq(Nat) /\ Increasing(t) /\ Len(t) = Len(q) - 1
        /\ Head(q) \in Nat /\ Head(q) \in Range(q)
        /\ Range(t) = Range(q) \ {Head(q)}
        /\ \A i \in 1..Len(t) : Head(q) < t[i]
    BY <1>1, <1>3, TailIncreasing
  <2>3. \A x \in Range(t) : Head(q) < x
    BY <2>2 DEF Range
  <2>4. \A x \in Range(t) : x < h + 1
    BY <1>1, <2>2
  <2> HIDE DEF t
  <2>5. /\ Append(t, h + 1) \in Seq(Nat) /\ Increasing(Append(t, h + 1))
        /\ Len(Append(t, h + 1)) = Len(t) + 1
        /\ Range(Append(t, h + 1)) = Range(t) \cup {h + 1}
    BY <2>2, <2>4, AppendIncreasing
  <2>6. Len(Append(t, h + 1)) <= QueueLimit
    BY <1>1, <2>2, <2>5
  <2>7. Range(Append(t, h + 1)) \cup d \cup (l \cup {Head(q)}) = 1..(h + 1)
    BY <1>1, <2>2, <2>5 DEF Ledger
  <2>8. /\ Range(Append(t, h + 1)) \cap (d \cup (l \cup {Head(q)})) = {}
        /\ d \cap (l \cup {Head(q)}) = {}
    BY <1>1, <2>2, <2>5 DEF Ledger
  <2>9. \A x \in Range(Append(t, h + 1)) : r < x /\ \A y \in l \cup {Head(q)} : y < x
    <3>1. \A y \in l \cup {Head(q)} : y \in Nat /\ y < h + 1
      BY <1>1, <2>2 DEF Ledger
    <3>2. r < h + 1
      BY DEF Ledger
    <3>3. \A x \in Range(t) : r < x /\ \A y \in l \cup {Head(q)} : y < x
      BY <2>2, <2>3 DEF Ledger
    <3> QED
      BY <2>5, <3>1, <3>2, <3>3
  <2>10. d \subseteq Nat /\ l \cup {Head(q)} \subseteq Nat /\ r \in Nat /\ r <= h + 1
    BY <2>2 DEF Ledger
  <2> QED
    BY <1>3, <2>1, <2>5, <2>6, <2>7, <2>8, <2>9, <2>10 DEF Ledger
<1> QED
  BY <1>2, <1>3

-----------------------------------------------------------------------------
(* Type correctness.                                                       *)

LEMMA EnqueueType ==
  ASSUME NEW q \in Seq(Message), NEW m \in Message
  PROVE  Enqueue(q, m) \in Seq(Message)
BY HeadTailProperties, AppendProperties, EmptySeq DEF Enqueue

LEMMA ForwarderFacts ==
  /\ Len(Kind) \in Nat \ {0}
  /\ 1 \in Forwarder
  /\ \A f \in Forwarder : Kind[f] \in {"pulsar", "mqtt", "file"}
BY KindAssumption, EmptySeq DEF Forwarder

LEMMA InitType == Init => TypeOK
<1> SUFFICES ASSUME Init PROVE TypeOK
  OBVIOUS
<1>1. retry \in [Forwarder -> Seq(Message)]
  BY EmptySeq DEF Init
<1>2. /\ phase = "starting" /\ cur = 1 /\ read = 0 /\ done = 0 /\ sent = 0
      /\ 1 \in 1..(Len(Kind) + 1) /\ 0 \in 0..MaxMsg /\ 0 \in 0..MaxDrain
      /\ 0 \in 0..RequestCap
  BY ForwarderFacts, LimitAssumption DEF Init
<1>3. phase \in Phase /\ phase \notin Working \cup {"drain"} /\ phase \notin AtSelect
  BY <1>2 DEF Phase, Working, AtSelect
<1>4. /\ shutdown \in BOOLEAN
      /\ handle \in [Forwarder -> BOOLEAN] /\ flag \in [Forwarder -> BOOLEAN]
      /\ task \in [Forwarder -> {"none", "running", "ready", "down", "up"}]
      /\ requests \in [Forwarder -> 0..RequestCap]
      /\ delivered \in [Forwarder -> SUBSET Message]
      /\ retried \in [Forwarder -> 0..MaxMsg]
      /\ lost \in [Forwarder -> SUBSET Message]
  BY <1>2 DEF Init
<1> QED
  BY <1>1, <1>2, <1>3, <1>4 DEF TypeOK

\* The change of phase and of the counters at the end of a fan-out step.
LEMMA NextForwarderType ==
  ASSUME TypeOK, phase \in Working, NextForwarder
  PROVE  /\ phase' \in {"fanout", "reading"} /\ cur' \in Forwarder
         /\ phase' = "reading" => cur' = 1
         /\ read' = read /\ done' \in 0..read
         /\ IF phase' = "fanout" THEN done' < read ELSE done' = read
BY ForwarderFacts DEF TypeOK, NextForwarder, Forwarder, streamVars, Working

LEMMA EnqueueRetryType ==
  ASSUME TypeOK, NEW f \in Forwarder, NEW m \in Message, EnqueueRetry(f, m)
  PROVE  retry' \in [Forwarder -> Seq(Message)] /\ lost' \in [Forwarder -> SUBSET Message]
<1>1. Enqueue(retry[f], m) \in Seq(Message)
  BY EnqueueType DEF TypeOK
<1>2. retry[f] # <<>> => Head(retry[f]) \in Message
  BY HeadTailProperties DEF TypeOK
<1> QED
  BY <1>1, <1>2 DEF EnqueueRetry, TypeOK

LEMMA AcceptedType ==
  ASSUME TypeOK, NEW f \in Forwarder, CanAccept(f), Accepted(f)
  PROVE  /\ handle' = handle /\ flag' = flag /\ task' = task
         /\ requests' \in [Forwarder -> 0..RequestCap]
BY LimitAssumption DEF TypeOK, CanAccept, Accepted

USE DEF mainVars, streamVars, queueVars, forwarderVars, deliveryVars

LEMMA FanoutType == ASSUME TypeOK, Fanout PROVE TypeOK'
<1> USE DEF Working
<1>1. phase \in Working /\ cur \in Forwarder /\ Current \in Message
  BY LimitAssumption
     DEF Fanout, ForwardOffline, ForwardOk, ForwardError, Disconnect, TypeOK, Current, Message
<1>2. CASE ForwardOffline
  <2>1. retry' \in [Forwarder -> Seq(Message)] /\ lost' \in [Forwarder -> SUBSET Message]
    BY <1>1, <1>2, EnqueueRetryType DEF ForwardOffline
  <2>9. /\ phase' \in {"fanout", "reading"} /\ cur' \in Forwarder
        /\ phase' = "reading" => cur' = 1
        /\ read' = read /\ done' \in 0..read
        /\ IF phase' = "fanout" THEN done' < read ELSE done' = read
    BY <1>1, <1>2, NextForwarderType DEF ForwardOffline
  <2> QED
    BY <1>1, <1>2, <2>1, <2>9, ForwarderFacts
       DEF ForwardOffline, TypeOK, Phase, AtSelect, Forwarder
<1>3. CASE ForwardOk
  <2>1. /\ handle' = handle /\ flag' = flag /\ task' = task
        /\ requests' \in [Forwarder -> 0..RequestCap]
    BY <1>1, <1>3, AcceptedType DEF ForwardOk
  <2>2. delivered' \in [Forwarder -> SUBSET Message]
    BY <1>1, <1>3 DEF ForwardOk, Deliver, TypeOK
  <2>9. /\ phase' \in {"fanout", "reading"} /\ cur' \in Forwarder
        /\ phase' = "reading" => cur' = 1
        /\ read' = read /\ done' \in 0..read
        /\ IF phase' = "fanout" THEN done' < read ELSE done' = read
    BY <1>1, <1>3, NextForwarderType DEF ForwardOk
  <2> QED
    BY <1>1, <1>3, <2>1, <2>2, <2>9, ForwarderFacts
       DEF ForwardOk, TypeOK, Phase, AtSelect, Forwarder
<1>4. CASE ForwardError
  <2>1. retry' \in [Forwarder -> Seq(Message)] /\ lost' \in [Forwarder -> SUBSET Message]
    BY <1>1, <1>4, EnqueueRetryType DEF ForwardError
  <2> QED
    BY <1>1, <1>4, <2>1 DEF ForwardError, TypeOK, Phase, AtSelect
<1>5. CASE Disconnect
  <2>1. /\ handle' \in [Forwarder -> BOOLEAN] /\ flag' \in [Forwarder -> BOOLEAN]
        /\ task' \in [Forwarder -> {"none", "running", "ready", "down", "up"}]
        /\ requests' \in [Forwarder -> 0..RequestCap]
    <3>1. handle' \in [Forwarder -> BOOLEAN]
      BY <1>5 DEF Disconnect, DisconnectForwarder, TypeOK
    <3>2. flag' \in [Forwarder -> BOOLEAN]
      BY <1>5 DEF Disconnect, DisconnectForwarder, TypeOK
    <3>3. task' \in [Forwarder -> {"none", "running", "ready", "down", "up"}]
      BY <1>5 DEF Disconnect, DisconnectForwarder, StartReconnect, TypeOK
    <3>4. requests' \in [Forwarder -> 0..RequestCap]
      <4>1. CASE Kind[cur] = "mqtt" /\ handle[cur]
        <5>1. requests[cur] + 1 \in 0..RequestCap
          BY <1>1, <1>5, <4>1, LimitAssumption DEF Disconnect, DisconnectForwarder, TypeOK
        <5>2. requests' = [requests EXCEPT ![cur] = requests[cur] + 1]
          BY <1>5, <4>1 DEF Disconnect, DisconnectForwarder
        <5> QED
          BY <5>1, <5>2 DEF TypeOK
      <4>2. CASE ~(Kind[cur] = "mqtt" /\ handle[cur])
        BY <1>5, <4>2 DEF Disconnect, DisconnectForwarder, TypeOK
      <4> QED
        BY <4>1, <4>2
    <3> QED
      BY <3>1, <3>2, <3>3, <3>4
  <2>9. /\ phase' \in {"fanout", "reading"} /\ cur' \in Forwarder
        /\ phase' = "reading" => cur' = 1
        /\ read' = read /\ done' \in 0..read
        /\ IF phase' = "fanout" THEN done' < read ELSE done' = read
    BY <1>1, <1>5, NextForwarderType DEF Disconnect
  <2> QED
    BY <1>1, <1>5, <2>1, <2>9, ForwarderFacts
       DEF Disconnect, TypeOK, Phase, AtSelect, Forwarder
<1> QED
  BY <1>2, <1>3, <1>4, <1>5 DEF Fanout

LEMMA LeaveDrainType ==
  ASSUME TypeOK, phase = "drain", LeaveDrain, retry' \in [Forwarder -> Seq(Message)]
  PROVE  TypeOK'
<1>1. /\ handle' \in [Forwarder -> BOOLEAN]
      /\ task' \in [Forwarder -> {"none", "running", "ready", "down", "up"}]
  BY DEF LeaveDrain, FlushForwarder, TypeOK
<1>2. cur' \in 1..(Len(Kind) + 1) /\ phase' = "tick"
  BY ForwarderFacts DEF LeaveDrain, TypeOK, Forwarder
<1> QED
  BY <1>1, <1>2 DEF LeaveDrain, TypeOK, Phase, Working, AtSelect

LEMMA HousekeepType == ASSUME TypeOK, Housekeep PROVE TypeOK'
<1> USE DEF Working
<1>1. CASE TickForwarder
  BY <1>1, ForwarderFacts, LimitAssumption
     DEF TickForwarder, TypeOK, Phase, AtSelect, Forwarder
<1>2. CASE DrainOk
  <2>1. cur \in Forwarder /\ retry[cur] \in Seq(Message) /\ retry[cur] # <<>>
    BY <1>2 DEF DrainOk, TypeOK
  <2>2. Head(retry[cur]) \in Message /\ Tail(retry[cur]) \in Seq(Message)
    BY <2>1, HeadTailProperties
  <2>3. /\ handle' = handle /\ flag' = flag /\ task' = task
        /\ requests' \in [Forwarder -> 0..RequestCap]
    BY <1>2, <2>1, AcceptedType DEF DrainOk
  <2>4. /\ retry' \in [Forwarder -> Seq(Message)]
        /\ delivered' \in [Forwarder -> SUBSET Message]
        /\ retried' \in [Forwarder -> 0..MaxMsg]
    BY <1>2, <2>1, <2>2 DEF DrainOk, Deliver, TypeOK, Message
  <2>5. sent' \in 0..MaxDrain
    BY <1>2, LimitAssumption DEF DrainOk, TypeOK
  <2> QED
    BY <1>2, <2>3, <2>4, <2>5 DEF DrainOk, TypeOK
<1>3. CASE DrainError
  <2>1. cur \in Forwarder /\ retry[cur] \in Seq(Message) /\ retry[cur] # <<>>
    BY <1>3 DEF DrainError, TypeOK
  <2>2. retry' = retry
    BY <1>3, <2>1, PutBackTail DEF DrainError, TypeOK
  <2> QED
    BY <1>3, <2>2, LeaveDrainType DEF DrainError, TypeOK
<1>4. CASE DrainEnd
  BY <1>4, LeaveDrainType DEF DrainEnd, TypeOK
<1>5. CASE TickEnd
  BY <1>5, ForwarderFacts DEF TickEnd, LinkLost, TypeOK, Phase, AtSelect, Forwarder
<1> QED
  BY <1>1, <1>2, <1>3, <1>4, <1>5 DEF Housekeep

LEMMA StartType == ASSUME TypeOK, Start PROVE TypeOK'
<1>1. cur' \in 1..(Len(Kind) + 1) /\ phase' = "starting"
  BY ForwarderFacts DEF Start, TypeOK
<1>2. /\ handle' \in [Forwarder -> BOOLEAN]
      /\ task' \in [Forwarder -> {"none", "running", "ready", "down", "up"}]
  BY DEF Start, ConnectForwarder, StartReconnect, TypeOK
<1> QED
  BY <1>1, <1>2 DEF Start, TypeOK, Working, AtSelect, Phase

LEMMA LifecycleType ==
  ASSUME TypeOK, Lifecycle \/ StreamError \/ ObserveShutdown \/ Shutdown \/ Tick
  PROVE  TypeOK'
<1> USE ForwarderFacts
    DEF Idle, LinkLost, Listen, TypeOK, Phase, Terminal, Working, AtSelect
<1>1. CASE Start
  BY <1>1, StartType
<1>2. CASE StartError
  BY <1>2 DEF StartError
<1>3. CASE Started
  BY <1>3 DEF Started
<1>4. CASE Attempt
  BY <1>4 DEF Attempt
<1>5. CASE ConnectOk
  BY <1>5 DEF ConnectOk
<1>6. CASE ConnectError
  BY <1>6 DEF ConnectError
<1>7. CASE Wake
  BY <1>7 DEF Wake
<1>8. CASE StreamError
  BY <1>8 DEF StreamError
<1>9. CASE ObserveShutdown
  BY <1>9 DEF ObserveShutdown
<1>10. CASE Shutdown
  BY <1>10 DEF Shutdown
<1>11. CASE Tick
  BY <1>11 DEF Tick
<1> QED
  BY <1>1, <1>2, <1>3, <1>4, <1>5, <1>6, <1>7, <1>8, <1>9, <1>10, <1>11 DEF Lifecycle

LEMMA ReceiveType == ASSUME TypeOK, Receive PROVE TypeOK'
<1>1. PICK n \in 0..MaxBatch :
        /\ read + n <= MaxMsg /\ read' = read + n
        /\ phase' = IF n = 0 THEN "reading" ELSE "fanout"
  BY DEF Receive
<1>2. read' \in 0..MaxMsg /\ done' = read /\ cur' = 1 /\ done' \in 0..read'
  BY <1>1, LimitAssumption DEF Receive, TypeOK, AtSelect, Working
<1>3. CASE n = 0
  BY <1>1, <1>2, <1>3, ForwarderFacts
     DEF Receive, TypeOK, Phase, Working, AtSelect
<1>4. CASE n # 0
  <2>1. done' < read' /\ phase' = "fanout"
    BY <1>1, <1>2, <1>4, LimitAssumption DEF TypeOK
  <2> QED
    BY <1>2, <2>1, ForwarderFacts DEF Receive, TypeOK, Phase, Working, AtSelect
<1> QED
  BY <1>3, <1>4

LEMMA BackgroundType ==
  ASSUME TypeOK, NEW f \in Forwarder, Background(f)
  PROVE  TypeOK'
<1>1. UNCHANGED <<mainVars, streamVars, sent, queueVars, handle, deliveryVars>>
  BY DEF Background, PulsarReconnected, MqttConnAck, MqttPublish, MqttError
<1>2. /\ flag \in [Forwarder -> BOOLEAN] /\ requests \in [Forwarder -> 0..RequestCap]
      /\ task \in [Forwarder -> {"none", "running", "ready", "down", "up"}]
  BY DEF TypeOK
<1>3. /\ flag' \in [Forwarder -> BOOLEAN] /\ requests' \in [Forwarder -> 0..RequestCap]
      /\ task' \in [Forwarder -> {"none", "running", "ready", "down", "up"}]
  <2>1. CASE PulsarReconnected(f)
    BY <2>1, <1>2 DEF PulsarReconnected
  <2>2. CASE MqttConnAck(f)
    BY <2>2, <1>2 DEF MqttConnAck
  <2>3. CASE MqttPublish(f)
    <3>1. requests[f] - 1 \in 0..RequestCap
      BY <2>3, <1>2, LimitAssumption DEF MqttPublish
    <3> QED
      BY <2>3, <3>1, <1>2 DEF MqttPublish
  <2>4. CASE MqttError(f)
    BY <2>4, <1>2, LimitAssumption DEF MqttError
  <2> QED
    BY <2>1, <2>2, <2>3, <2>4 DEF Background
<1> QED
  BY <1>1, <1>3 DEF TypeOK, mainVars, streamVars, queueVars, deliveryVars

LEMMA StepType == TypeOK /\ [Next]_vars => TypeOK'
<1> SUFFICES ASSUME TypeOK, [Next]_vars PROVE TypeOK'
  OBVIOUS
<1>1. CASE Next
  BY <1>1, FanoutType, HousekeepType, LifecycleType, ReceiveType, BackgroundType DEF Next
<1>2. CASE UNCHANGED vars
  BY <1>2 DEF vars, TypeOK
<1> QED
  BY <1>1, <1>2

\* The variables keep their types and the counters their ranges: in particular
\* the MQTT request channel never holds more than its capacity, and the client
\* is never at a select with a message half forwarded.
THEOREM TypeCorrect == Spec => []TypeOK
BY InitType, StepType, PTL DEF Spec

-----------------------------------------------------------------------------
(* The ledgers are kept by every step.                                     *)

LedgerOf(f) == Ledger(retry[f], delivered[f], lost[f], retried[f], HandledCount(f))

AllLedgers == \A f \in Forwarder : LedgerOf(f)

LEMMA InitLedgers == Init => AllLedgers
<1> SUFFICES ASSUME Init, NEW f \in Forwarder PROVE LedgerOf(f)
  BY DEF AllLedgers
<1>1. /\ retry[f] = <<>> /\ delivered[f] = {} /\ lost[f] = {} /\ retried[f] = 0
      /\ HandledCount(f) = 0
  BY DEF Init, HandledCount
<1>2. <<>> \in Seq(Nat) /\ Len(<<>>) = 0 /\ Range(<<>>) = {} /\ 0 <= QueueLimit
  BY EmptySeq, LimitAssumption DEF Range, QueueLimit
<1>3. Increasing(<<>>)
  BY <1>2 DEF Increasing
<1>4. 1..0 = {}
  OBVIOUS
<1> QED
  BY <1>1, <1>2, <1>3, <1>4 DEF LedgerOf, Ledger

\* Finishing the work on the current forwarder counts the message for it, and
\* leaves the counts of the others as they were.
LEMMA NextForwarderCount ==
  ASSUME TypeOK, phase \in Working, NextForwarder, NEW f \in Forwarder
  PROVE  /\ HandledCount(f) \in Nat
         /\ f # cur => HandledCount(f)' = HandledCount(f)
         /\ f = cur => HandledCount(f)' = done + 1
         /\ f = cur /\ phase = "fanout" => HandledCount(f) = done
         /\ f = cur /\ phase = "disconnect" => HandledCount(f) = done + 1
BY ForwarderFacts
   DEF TypeOK, NextForwarder, HandledCount, Current, Forwarder, Working

\* Steps that leave the queues and the histories alone, and the counts too.
LEMMA SameLedgers ==
  ASSUME AllLedgers, retry' = retry, delivered' = delivered, lost' = lost,
         retried' = retried,
         \A f \in Forwarder : HandledCount(f)' = HandledCount(f)
  PROVE  AllLedgers'
BY DEF AllLedgers, LedgerOf

LEMMA FanoutLedgers == ASSUME TypeOK, AllLedgers, Fanout PROVE AllLedgers'
<1> SUFFICES ASSUME NEW f \in Forwarder PROVE LedgerOf(f)'
  BY DEF AllLedgers
<1> USE DEF Working
<1>0. /\ phase \in Working /\ cur \in Forwarder /\ done \in Nat
      /\ LedgerOf(f) /\ LedgerOf(cur)
  BY DEF Fanout, ForwardOffline, ForwardOk, ForwardError, Disconnect, TypeOK, AllLedgers
<1>1. CASE ForwardOffline
  <2>1. /\ f # cur => HandledCount(f)' = HandledCount(f)
        /\ f = cur => HandledCount(f)' = done + 1 /\ HandledCount(f) = done
    BY <1>0, <1>1, NextForwarderCount DEF ForwardOffline
  <2>2. CASE f = cur
    <3>1. /\ retry'[f] = Enqueue(retry[f], done + 1)
          /\ lost'[f] = IF Len(retry[f]) < MaxRetryQueue \/ retry[f] = <<>>
                          THEN lost[f] ELSE lost[f] \cup {Head(retry[f])}
          /\ delivered' = delivered /\ retried' = retried
      BY <1>0, <1>1, <2>2 DEF ForwardOffline, EnqueueRetry, Current, TypeOK
    <3>2. Ledger(retry[f], delivered[f], lost[f], retried[f], done)
      BY <1>0, <2>1, <2>2 DEF LedgerOf
    <3>3. Ledger(Enqueue(retry[f], done + 1), delivered[f], lost'[f], retried[f], done + 1)
      BY <1>0, <3>1, <3>2, LedgerEnqueue
    <3> QED
      BY <2>1, <2>2, <3>1, <3>3 DEF LedgerOf
  <2>3. CASE f # cur
    <3>1. /\ retry'[f] = retry[f] /\ lost'[f] = lost[f]
          /\ delivered' = delivered /\ retried' = retried
      BY <1>0, <1>1, <2>3 DEF ForwardOffline, EnqueueRetry, TypeOK
    <3> QED
      BY <1>0, <2>1, <2>3, <3>1 DEF LedgerOf
  <2> QED
    BY <2>2, <2>3
<1>2. CASE ForwardOk
  <2>1. /\ f # cur => HandledCount(f)' = HandledCount(f)
        /\ f = cur => HandledCount(f)' = done + 1 /\ HandledCount(f) = done
    BY <1>0, <1>2, NextForwarderCount DEF ForwardOk
  <2>2. CASE f = cur
    <3>1. /\ delivered'[f] = delivered[f] \cup {done + 1}
          /\ retry' = retry /\ lost' = lost /\ retried' = retried
      BY <1>0, <1>2, <2>2 DEF ForwardOk, Deliver, Current, TypeOK
    <3>2. Ledger(retry[f], delivered[f], lost[f], retried[f], done)
      BY <1>0, <2>1, <2>2 DEF LedgerOf
    <3>3. Ledger(retry'[f], delivered'[f], lost'[f], retried'[f], done + 1)
      BY <1>0, <3>1, <3>2, LedgerDeliver
    <3> QED
      BY <2>1, <2>2, <3>1, <3>3 DEF LedgerOf
  <2>3. CASE f # cur
    <3>1. /\ delivered'[f] = delivered[f]
          /\ retry' = retry /\ lost' = lost /\ retried' = retried
      BY <1>0, <1>2, <2>3 DEF ForwardOk, Deliver, TypeOK
    <3> QED
      BY <1>0, <2>1, <2>3, <3>1 DEF LedgerOf
  <2> QED
    BY <2>2, <2>3
<1>3. CASE ForwardError
  <2>1. /\ f # cur => HandledCount(f)' = HandledCount(f)
        /\ f = cur => HandledCount(f)' = done + 1 /\ HandledCount(f) = done
    BY <1>0, <1>3 DEF ForwardError, HandledCount, Current, TypeOK, Forwarder
  <2>2. CASE f = cur
    <3>1. /\ retry'[f] = Enqueue(retry[f], done + 1)
          /\ lost'[f] = IF Len(retry[f]) < MaxRetryQueue \/ retry[f] = <<>>
                          THEN lost[f] ELSE lost[f] \cup {Head(retry[f])}
          /\ delivered' = delivered /\ retried' = retried
      BY <1>0, <1>3, <2>2 DEF ForwardError, EnqueueRetry, Current, TypeOK
    <3>2. Ledger(retry[f], delivered[f], lost[f], retried[f], done)
      BY <1>0, <2>1, <2>2 DEF LedgerOf
    <3>3. Ledger(Enqueue(retry[f], done + 1), delivered[f], lost'[f], retried[f], done + 1)
      BY <1>0, <3>1, <3>2, LedgerEnqueue
    <3> QED
      BY <2>1, <2>2, <3>1, <3>3 DEF LedgerOf
  <2>3. CASE f # cur
    <3>1. /\ retry'[f] = retry[f] /\ lost'[f] = lost[f]
          /\ delivered' = delivered /\ retried' = retried
      BY <1>0, <1>3, <2>3 DEF ForwardError, EnqueueRetry, TypeOK
    <3> QED
      BY <1>0, <2>1, <2>3, <3>1 DEF LedgerOf
  <2> QED
    BY <2>2, <2>3
<1>4. CASE Disconnect
  <2>1. HandledCount(f)' = HandledCount(f)
    BY <1>0, <1>4, NextForwarderCount DEF Disconnect
  <2>2. retry' = retry /\ delivered' = delivered /\ lost' = lost /\ retried' = retried
    BY <1>4 DEF Disconnect
  <2> QED
    BY <1>0, <2>1, <2>2 DEF LedgerOf
<1> QED
  BY <1>1, <1>2, <1>3, <1>4 DEF Fanout

LEMMA DrainLedgers == ASSUME TypeOK, AllLedgers, DrainOk PROVE AllLedgers'
<1> SUFFICES ASSUME NEW f \in Forwarder PROVE LedgerOf(f)'
  BY DEF AllLedgers
<1>1. cur \in Forwarder /\ LedgerOf(f) /\ retry[cur] # <<>> /\ phase = "drain"
  BY DEF DrainOk, TypeOK, AllLedgers
<1>2. HandledCount(f)' = HandledCount(f) /\ HandledCount(f) \in Nat /\ lost' = lost
  BY DEF DrainOk, HandledCount, Current, TypeOK
<1>3. CASE f = cur
  <2>1. /\ retry'[f] = Tail(retry[f]) /\ retried'[f] = Head(retry[f])
        /\ delivered'[f] = delivered[f] \cup {Head(retry[f])}
    BY <1>1, <1>3 DEF DrainOk, Deliver, TypeOK
  <2>2. Ledger(retry[f], delivered[f], lost[f], retried[f], HandledCount(f))
    BY <1>1 DEF LedgerOf
  <2>3. Ledger(Tail(retry[f]), delivered[f] \cup {Head(retry[f])}, lost[f],
               Head(retry[f]), HandledCount(f))
    BY <1>1, <1>2, <1>3, <2>2, LedgerRetry
  <2> QED
    BY <1>2, <2>1, <2>3 DEF LedgerOf
<1>4. CASE f # cur
  <2>1. retry'[f] = retry[f] /\ retried'[f] = retried[f] /\ delivered'[f] = delivered[f]
    BY <1>1, <1>4 DEF DrainOk, Deliver, TypeOK
  <2> QED
    BY <1>1, <1>2, <2>1 DEF LedgerOf
<1> QED
  BY <1>3, <1>4

LEMMA StepLedgers == TypeOK /\ AllLedgers /\ [Next]_vars => AllLedgers'
<1> SUFFICES ASSUME TypeOK, AllLedgers, [Next]_vars PROVE AllLedgers'
  OBVIOUS
<1>1. CASE Fanout
  BY <1>1, FanoutLedgers
<1>2. CASE DrainOk
  BY <1>2, DrainLedgers
<1>3. CASE DrainError
  <2>1. cur \in Forwarder /\ retry[cur] \in Seq(Message) /\ retry[cur] # <<>>
    BY <1>3 DEF DrainError, TypeOK
  <2>2. retry' = retry
    BY <1>3, <2>1, PutBackTail DEF DrainError, TypeOK
  <2>3. \A f \in Forwarder : HandledCount(f)' = HandledCount(f)
    BY <1>3 DEF DrainError, LeaveDrain, HandledCount, Current
  <2> QED
    BY <1>3, <2>2, <2>3, SameLedgers DEF DrainError, LeaveDrain
<1>4. CASE DrainEnd
  <2>1. \A f \in Forwarder : HandledCount(f)' = HandledCount(f)
    BY <1>4 DEF DrainEnd, LeaveDrain, HandledCount, Current
  <2> QED
    BY <1>4, <2>1, SameLedgers DEF DrainEnd, LeaveDrain
<1>5. CASE TickForwarder \/ TickEnd \/ Tick \/ Lifecycle \/ StreamError \/ ObserveShutdown
  <2>1. \A f \in Forwarder : HandledCount(f)' = HandledCount(f)
    BY <1>5
       DEF TickForwarder, TickEnd, Tick, Lifecycle, Start, StartError, Started, Attempt,
           ConnectOk, ConnectError, Wake, StreamError, ObserveShutdown, Idle, LinkLost,
           Listen, HandledCount, Current
  <2>2. retry' = retry /\ delivered' = delivered /\ lost' = lost /\ retried' = retried
    BY <1>5
       DEF TickForwarder, TickEnd, Tick, Lifecycle, Start, StartError, Started, Attempt,
           ConnectOk, ConnectError, Wake, StreamError, ObserveShutdown, Idle
  <2> QED
    BY <2>1, <2>2, SameLedgers
<1>6. CASE Receive
  <2>1. \A f \in Forwarder : HandledCount(f)' = HandledCount(f)
    BY <1>6 DEF Receive, HandledCount, Current, TypeOK, AtSelect, Forwarder
  <2> QED
    BY <1>6, <2>1, SameLedgers DEF Receive
<1>7. CASE Shutdown \/ \E f \in Forwarder : Background(f)
  <2>1. \A f \in Forwarder : HandledCount(f)' = HandledCount(f)
    BY <1>7
       DEF Shutdown, Idle, Background, PulsarReconnected, MqttConnAck, MqttPublish,
           MqttError, HandledCount, Current
  <2>2. retry' = retry /\ delivered' = delivered /\ lost' = lost /\ retried' = retried
    BY <1>7
       DEF Shutdown, Idle, Background, PulsarReconnected, MqttConnAck, MqttPublish, MqttError
  <2> QED
    BY <2>1, <2>2, SameLedgers
<1>8. CASE UNCHANGED vars
  <2>1. \A f \in Forwarder : HandledCount(f)' = HandledCount(f)
    BY <1>8 DEF vars, HandledCount, Current
  <2> QED
    BY <1>8, <2>1, SameLedgers DEF vars
<1> QED
  BY <1>1, <1>2, <1>3, <1>4, <1>5, <1>6, <1>7, <1>8 DEF Next, Housekeep

LEMMA LedgersKept == Spec => [](TypeOK /\ AllLedgers)
BY InitType, InitLedgers, StepType, StepLedgers, PTL DEF Spec

-----------------------------------------------------------------------------
(* The safety properties.                                                  *)

\* For any forwarders, every message read is delivered, waiting or dropped at
\* each of them, and in one of these places only.
THEOREM MessagesAccounted == Spec => []EveryMessageAccounted
<1>1. AllLedgers => EveryMessageAccounted
  BY DEF AllLedgers, LedgerOf, Ledger, EveryMessageAccounted, Handled
<1> QED
  BY <1>1, LedgersKept, PTL

\* The retry queues respect their limit, whatever it is.
THEOREM RetryQueuesBounded == Spec => []QueuesBounded
<1>1. AllLedgers => QueuesBounded
  BY DEF AllLedgers, LedgerOf, Ledger, QueuesBounded
<1> QED
  BY <1>1, LedgersKept, PTL

\* The retry queues are oldest first and newer than what they dropped.
THEOREM RetryQueuesOrdered == Spec => []QueuesOldestFirst
<1>1. ASSUME TypeOK, AllLedgers, NEW f \in Forwarder
      PROVE  /\ \A i, j \in 1..Len(retry[f]) : i < j => retry[f][i] < retry[f][j]
             /\ \A i \in 1..Len(retry[f]), m \in lost[f] : m < retry[f][i]
  <2>1. Ledger(retry[f], delivered[f], lost[f], retried[f], HandledCount(f))
    BY <1>1 DEF AllLedgers, LedgerOf
  <2>2. \A i \in 1..Len(retry[f]) : retry[f][i] \in Range(retry[f])
    BY <2>1 DEF Ledger, Range
  <2> QED
    BY <2>1, <2>2 DEF Ledger, Increasing
<1>2. TypeOK /\ AllLedgers => QueuesOldestFirst
  BY <1>1 DEF QueuesOldestFirst
<1> QED
  BY <1>2, LedgersKept, PTL

\* run() returns between messages only.
THEOREM StopBoundary == Spec => []StopsBetweenMessages
<1>1. TypeOK => StopsBetweenMessages
  BY DEF TypeOK, StopsBetweenMessages, Handled, HandledCount, Terminal, Working
<1> QED
  BY <1>1, TypeCorrect, PTL

\* The retry queues are sound in every respect at once.
THEOREM RetryQueuesAreSound == Spec => []RetryQueuesSound
<1>1. EveryMessageAccounted /\ QueuesBounded /\ QueuesOldestFirst /\ StopsBetweenMessages
        => RetryQueuesSound
  BY DEF RetryQueuesSound
<1> QED
  BY <1>1, MessagesAccounted, RetryQueuesBounded, RetryQueuesOrdered, StopBoundary, PTL

\* Retried messages are delivered in the order they were received.
THEOREM RetryOrder == Spec => RetriesInOrder
<1>1. ASSUME TypeOK, AllLedgers, [Next]_vars
      PROVE  [\A f \in Forwarder : retried'[f] # retried[f] => retried'[f] > retried[f]]_vars
  <2> SUFFICES ASSUME Next, NEW f \in Forwarder, retried'[f] # retried[f]
               PROVE  retried'[f] > retried[f]
    BY <1>1
  <2>1. CASE DrainOk
    <3>1. /\ cur = f /\ retried'[f] = Head(retry[f]) /\ retry[f] # <<>>
          /\ LedgerOf(f) /\ HandledCount(f) \in Nat
      BY <1>1, <2>1 DEF DrainOk, TypeOK, AllLedgers, HandledCount, Current
    <3>2. Ledger(retry[f], delivered[f], lost[f], retried[f], HandledCount(f))
      BY <3>1 DEF LedgerOf
    <3> QED
      BY <3>1, <3>2, LedgerRetry
  <2>2. CASE ~DrainOk
    BY <2>2
       DEF Next, Fanout, ForwardOffline, ForwardOk, ForwardError, Disconnect, Tick,
           Housekeep, TickForwarder, DrainError, DrainEnd, LeaveDrain, TickEnd, Lifecycle,
           Start, StartError, Started, Attempt, ConnectOk, ConnectError, Wake, Receive,
           StreamError, ObserveShutdown, Shutdown, Idle, Background, PulsarReconnected,
           MqttConnAck, MqttPublish, MqttError
  <2> QED
    BY <2>1, <2>2
<1>2. TypeOK /\ AllLedgers /\ [Next]_vars =>
        [\A f \in Forwarder : retried'[f] # retried[f] => retried'[f] > retried[f]]_vars
  BY <1>1
<1> QED
  BY <1>2, LedgersKept, PTL DEF Spec, RetriesInOrder

-----------------------------------------------------------------------------
(* The refinement of Delivery.                                             *)

\* An increasing queue holds as many messages as it is long.
LEMMA QueueCardinality ==
  ASSUME NEW q \in Seq(Nat), Increasing(q)
  PROVE  Cardinality(Range(q)) = Len(q)
<1>1. Len(q) \in Nat /\ DOMAIN q = 1..Len(q)
  OBVIOUS
<1>2. IsFiniteSet(1..Len(q)) /\ Cardinality(1..Len(q)) = Len(q)
  <2>1. \A n \in Nat : IsFiniteSet(1..n)
    BY FS_Interval, 1 \in Int, Nat \subseteq Int
  <2>2. \A n \in Nat : Cardinality(1..n) = IF 1 > n THEN 0 ELSE n - 1 + 1
    BY FS_Interval, 1 \in Int, Nat \subseteq Int
  <2>3. \A n \in Nat : Cardinality(1..n) = n
    BY <2>2
  <2> QED
    BY <1>1, <2>1, <2>3
<1>3. \A i, j \in 1..Len(q) : q[i] = q[j] => i = j
  <2> SUFFICES ASSUME NEW i \in 1..Len(q), NEW j \in 1..Len(q), i # j PROVE q[i] # q[j]
    OBVIOUS
  <2>1. q[i] \in Nat /\ q[j] \in Nat /\ (i < j \/ j < i)
    BY <1>1
  <2> QED
    BY <2>1 DEF Increasing
<1>4. \A x \in Range(q) : \E i \in 1..Len(q) : q[i] = x
  BY <1>1 DEF Range
<1>5. q \in [1..Len(q) -> Range(q)]
  BY <1>1 DEF Range
<1>6. q \in Bijection(1..Len(q), Range(q))
  BY <1>3, <1>4, <1>5 DEF Bijection, Injection, Surjection, IsInjective
<1>7. ExistsBijection(1..Len(q), Range(q))
  BY <1>6 DEF ExistsBijection
<1> QED
  BY <1>2, <1>7, FS_Bijection

\* What enqueue_retry leaves in a queue.
LEMMA EnqueueRange ==
  ASSUME NEW q, NEW d, NEW l, NEW r, NEW h \in Nat, Ledger(q, d, l, r, h)
  PROVE  Range(Enqueue(q, h + 1)) =
           (IF Len(q) < MaxRetryQueue \/ q = <<>> THEN Range(q) ELSE Range(q) \ {Head(q)})
             \cup {h + 1}
<1>1. q \in Seq(Nat) /\ Increasing(q) /\ \A x \in Range(q) : x < h + 1
  BY DEF Ledger
<1>2. CASE Len(q) < MaxRetryQueue \/ q = <<>>
  <2>1. Range(Append(q, h + 1)) = Range(q) \cup {h + 1}
    BY <1>1, AppendIncreasing
  <2> QED
    BY <1>2, <2>1 DEF Enqueue
<1>3. CASE ~(Len(q) < MaxRetryQueue \/ q = <<>>)
  <2> DEFINE t == Tail(q)
  <2>1. Enqueue(q, h + 1) = Append(t, h + 1)
    BY <1>3 DEF Enqueue
  <2>2. t \in Seq(Nat) /\ Increasing(t) /\ Range(t) = Range(q) \ {Head(q)}
    BY <1>1, <1>3, TailIncreasing
  <2> HIDE DEF t
  <2>3. \A x \in Range(t) : x < h + 1
    BY <1>1, <2>2
  <2>4. Range(Append(t, h + 1)) = Range(t) \cup {h + 1}
    BY <2>2, <2>3, AppendIncreasing
  <2> QED
    BY <1>3, <2>1, <2>2, <2>4
<1> QED
  BY <1>2, <1>3

\* What became of message m at forwarder f.
FateOf(f, m) ==
  IF m \in delivered[f] THEN "delivered"
  ELSE IF m \in lost[f] THEN "lost"
  ELSE IF m \in Range(retry[f]) THEN "queued" ELSE "unseen"

LEMMA StatusIsFate ==
  /\ Status = [f \in Forwarder |-> [m \in Message |-> FateOf(f, m)]]
  /\ Status' = [f \in Forwarder |-> [m \in Message |-> FateOf(f, m)']]
BY DEF Status, FateOf

\* The messages waiting for a backend, and those it has not been handed yet.
LEMMA Fates ==
  ASSUME TypeOK, AllLedgers, NEW f \in Forwarder
  PROVE  /\ Promise!With(f, "queued") = Range(retry[f])
         /\ Promise!With(f, "unseen") = {m \in Message : m > HandledCount(f)}
         /\ HandledCount(f) \in Nat
<1>1. HandledCount(f) \in Nat
  BY DEF TypeOK, HandledCount, Current
<1>2. Ledger(retry[f], delivered[f], lost[f], retried[f], HandledCount(f))
  BY DEF AllLedgers, LedgerOf
<1>3. Range(retry[f]) \subseteq Message
  <2>1. retry[f] \in Seq(Message)
    BY DEF TypeOK
  <2> QED
    BY <2>1 DEF Range
<1>4. \A m \in Message : Status[f][m] = FateOf(f, m)
  BY StatusIsFate
<1>5. Promise!With(f, "queued") = {m \in Message : FateOf(f, m) = "queued"}
      /\ Promise!With(f, "unseen") = {m \in Message : FateOf(f, m) = "unseen"}
  BY <1>4 DEF Promise!With, Promise!Message, Message
<1>6. \A m \in Message : (m \in Range(retry[f]) \/ m \in delivered[f] \/ m \in lost[f]) <=> ~(m > HandledCount(f))
  BY <1>1, <1>2 DEF Ledger, Message
<1>7. \A m \in Range(retry[f]) : m \notin delivered[f] /\ m \notin lost[f]
  BY <1>2 DEF Ledger
<1> QED
  BY <1>1, <1>3, <1>5, <1>6, <1>7 DEF FateOf

\* What changes at one forwarder only.
LEMMA StatusStep ==
  ASSUME NEW f \in Forwarder,
         \A g \in Forwarder \ {f} :
           retry'[g] = retry[g] /\ delivered'[g] = delivered[g] /\ lost'[g] = lost[g],
         NEW fate, fate = [m \in Message |-> FateOf(f, m)']
  PROVE  Status' = [Status EXCEPT ![f] = fate]
<1>1. \A g \in Forwarder \ {f} : \A m \in Message : FateOf(g, m)' = FateOf(g, m)
  BY DEF FateOf
<1> QED
  BY <1>1, StatusIsFate

\* One message meets its fate at one forwarder.
LEMMA StatusOne ==
  ASSUME NEW f \in Forwarder, NEW m \in Message, NEW fate,
         \A g \in Forwarder \ {f} :
           retry'[g] = retry[g] /\ delivered'[g] = delivered[g] /\ lost'[g] = lost[g],
         \A n \in Message : FateOf(f, n)' = IF n = m THEN fate ELSE FateOf(f, n)
  PROVE  Status' = [Status EXCEPT ![f][m] = fate]
<1>1. Status' = [Status EXCEPT ![f] = [n \in Message |-> FateOf(f, n)']]
  BY StatusStep
<1>2. Status[f] = [n \in Message |-> FateOf(f, n)]
  BY StatusIsFate
<1>3. [n \in Message |-> FateOf(f, n)'] = [Status[f] EXCEPT ![m] = fate]
  BY <1>2
<1> QED
  BY <1>1, <1>3

\* The cardinality of Delivery is the one of this module.
LEMMA SameCardinality ==
  ASSUME NEW S
  PROVE  Promise!Cardinality(S) = Cardinality(S)
BY DEF Promise!Cardinality, Cardinality

\* A step that leaves queues, deliveries and losses alone is a stutter.
LEMMA StatusStutters ==
  ASSUME retry' = retry, delivered' = delivered, lost' = lost
  PROVE  Status' = Status
BY DEF Status

\* The current message is the next one for the current forwarder.
LEMMA CurrentIsNext ==
  ASSUME TypeOK, AllLedgers, phase = "fanout"
  PROVE  /\ cur \in Forwarder /\ done \in Nat /\ done + 1 \in Message
         /\ HandledCount(cur) = done /\ Promise!IsNext(cur, done + 1)
<1>1. /\ cur \in Forwarder /\ done \in Nat /\ done + 1 \in Message /\ HandledCount(cur) = done
  BY LimitAssumption DEF TypeOK, Working, HandledCount, Message, Forwarder
<1>2. Promise!With(cur, "unseen") = {m \in Message : m > done}
  BY <1>1, Fates
<1> QED
  BY <1>1, <1>2 DEF Promise!IsNext, Message

\* The head of a queue is its oldest message.
LEMMA HeadIsOldest ==
  ASSUME TypeOK, AllLedgers, NEW f \in Forwarder, retry[f] # <<>>
  PROVE  Promise!IsOldest(f, Head(retry[f])) /\ Head(retry[f]) \in Message
         /\ Head(retry[f]) \in Range(retry[f])
<1>1. retry[f] \in Seq(Nat) /\ Increasing(retry[f]) /\ retry[f] \in Seq(Message)
  BY DEF AllLedgers, LedgerOf, Ledger, TypeOK
<1>2. /\ Head(retry[f]) \in Nat /\ Head(retry[f]) \in Range(retry[f])
      /\ Range(Tail(retry[f])) = Range(retry[f]) \ {Head(retry[f])}
      /\ DOMAIN Tail(retry[f]) = 1..Len(Tail(retry[f]))
      /\ \A i \in 1..Len(Tail(retry[f])) : Head(retry[f]) < Tail(retry[f])[i]
  BY <1>1, TailIncreasing
<1>3. \A m \in Range(Tail(retry[f])) : Head(retry[f]) < m
  BY <1>2 DEF Range
<1>4. \A m \in Range(retry[f]) : Head(retry[f]) <= m
  <2>1. \A m \in Range(retry[f]) : m \in Nat
    BY <1>1 DEF Range
  <2> QED
    BY <1>2, <1>3, <2>1
<1>5. Head(retry[f]) \in Message
  BY <1>1, <1>2 DEF Range
<1> QED
  BY <1>2, <1>4, <1>5, Fates DEF Promise!IsOldest

\* Queueing the current message is Queue while there is room, else Displace.
LEMMA EnqueuePromise ==
  ASSUME TypeOK, AllLedgers, phase = "fanout", NEW f, f = cur, NEW m, m = Current,
         EnqueueRetry(f, m), delivered' = delivered
  PROVE  Promise!Next
<1> DEFINE q == retry[f]
<1>1. f \in Forwarder /\ m \in Message /\ done \in Nat /\ m = done + 1 /\ Promise!IsNext(f, m)
  BY CurrentIsNext DEF Current
<1>2. Ledger(q, delivered[f], lost[f], retried[f], done)
  BY CurrentIsNext DEF AllLedgers, LedgerOf
<1>3. /\ q \in Seq(Nat) /\ Len(q) \in Nat /\ Len(q) <= QueueLimit /\ Increasing(q)
      /\ m \notin Range(q) /\ m \notin delivered[f] /\ m \notin lost[f]
      /\ \A x \in Range(q) : x \notin delivered[f] /\ x \notin lost[f]
  BY <1>1, <1>2 DEF Ledger
<1>4. Promise!Cardinality(Promise!With(f, "queued")) = Len(q)
  BY <1>1, <1>3, Fates, QueueCardinality, SameCardinality
<1>5. /\ retry'[f] = Enqueue(q, m)
      /\ \A g \in Forwarder \ {f} :
           retry'[g] = retry[g] /\ delivered'[g] = delivered[g] /\ lost'[g] = lost[g]
  BY <1>1 DEF EnqueueRetry, Current, TypeOK
<1>6. Status' = [Status EXCEPT ![f] = [n \in Message |-> FateOf(f, n)']]
  BY <1>1, <1>5, StatusStep
<1>7. CASE Len(q) < MaxRetryQueue \/ q = <<>>
  <2>1. Range(retry'[f]) = Range(q) \cup {m} /\ lost'[f] = lost[f]
    BY <1>1, <1>2, <1>5, <1>7, EnqueueRange DEF EnqueueRetry, Current
  <2>2. \A n \in Message : FateOf(f, n)' = IF n = m THEN "queued" ELSE FateOf(f, n)
    BY <1>3, <2>1 DEF FateOf
  <2>3. Status' = [Status EXCEPT ![f][m] = "queued"]
    BY <1>1, <1>5, <2>2, StatusOne
  <2>4. Len(q) < QueueLimit
    BY <1>3, <1>7, LimitAssumption DEF QueueLimit
  <2>5. Promise!Queue(f, m)
    BY <1>1, <1>4, <2>3, <2>4 DEF Promise!Queue
  <2> QED
    BY <1>1, <2>5 DEF Promise!Next, Promise!Message, Message
<1>8. CASE ~(Len(q) < MaxRetryQueue \/ q = <<>>)
  <2>1. Promise!IsOldest(f, Head(q)) /\ Head(q) \in Message /\ Head(q) \in Range(q)
    BY <1>1, <1>8, HeadIsOldest
  <2>2. Range(retry'[f]) = (Range(q) \ {Head(q)}) \cup {m} /\ lost'[f] = lost[f] \cup {Head(q)}
    <3>1. lost' = [lost EXCEPT ![f] = @ \cup {Head(q)}]
      BY <1>8 DEF EnqueueRetry
    <3>2. lost'[f] = lost[f] \cup {Head(q)}
      BY <1>1, <3>1 DEF TypeOK
    <3> QED
      BY <1>1, <1>2, <1>5, <1>8, <3>2, EnqueueRange
  <2>3. \A n \in Message : FateOf(f, n)' =
          IF n = Head(q) THEN "lost" ELSE IF n = m THEN "queued" ELSE FateOf(f, n)
    BY <1>3, <2>1, <2>2 DEF FateOf
  <2>4. Status' = [Status EXCEPT ![f][m] = "queued", ![f][Head(q)] = "lost"]
    <3>1. Status[f] = [n \in Message |-> FateOf(f, n)] /\ m # Head(q)
      BY <1>1, <1>3, <2>1, StatusIsFate
    <3>2. [n \in Message |-> FateOf(f, n)'] =
            [[Status[f] EXCEPT ![m] = "queued"] EXCEPT ![Head(q)] = "lost"]
      BY <1>1, <2>1, <2>3, <3>1
    <3> QED
      BY <1>1, <1>6, <3>1, <3>2
  <2>5. Len(q) = QueueLimit
    BY <1>3, <1>8, LimitAssumption, EmptySeq DEF QueueLimit
  <2>6. Promise!Displace(f, m)
    BY <1>1, <1>4, <2>1, <2>4, <2>5 DEF Promise!Displace, Promise!Message, Message
  <2> QED
    BY <1>1, <2>6 DEF Promise!Next, Promise!Message, Message
<1> QED
  BY <1>7, <1>8

\* Every step is a step of Delivery.
LEMMA PromiseStep ==
  ASSUME TypeOK, AllLedgers, [Next]_vars
  PROVE  [Promise!Next]_Status
<1>1. CASE ForwardOffline \/ ForwardError
  BY <1>1, EnqueuePromise DEF ForwardOffline, ForwardError, deliveryVars
<1>2. CASE ForwardOk
  <2>1. PICK f : f = cur
    OBVIOUS
  <2>2. PICK m : m = done + 1
    OBVIOUS
  <2>3. /\ f \in Forwarder /\ m \in Message /\ Promise!IsNext(f, m)
        /\ Ledger(retry[f], delivered[f], lost[f], retried[f], done) /\ done \in Nat
    BY <1>2, <2>1, <2>2, CurrentIsNext DEF ForwardOk, AllLedgers, LedgerOf
  <2>4. /\ delivered'[f] = delivered[f] \cup {m} /\ retry' = retry /\ lost' = lost
        /\ \A g \in Forwarder \ {f} : delivered'[g] = delivered[g]
    BY <1>2, <2>1, <2>3, <2>2 DEF ForwardOk, Deliver, Current, queueVars, TypeOK
  <2>5. \A n \in Message : FateOf(f, n)' = IF n = m THEN "delivered" ELSE FateOf(f, n)
    BY <2>4 DEF FateOf
  <2>6. Status' = [Status EXCEPT ![f][m] = "delivered"]
    BY <2>3, <2>4, <2>5, StatusOne
  <2> QED
    BY <2>3, <2>6 DEF Promise!Next, Promise!Deliver, Promise!Message, Message
<1>3. CASE DrainOk
  <2>1. PICK f : f = cur
    OBVIOUS
  <2>2. PICK m : m = Head(retry[f])
    OBVIOUS
  <2>3. /\ f \in Forwarder /\ m \in Message /\ Promise!IsOldest(f, m) /\ m \in Range(retry[f])
        /\ retry[f] \in Seq(Nat) /\ Increasing(retry[f]) /\ retry[f] # <<>>
    BY <1>3, <2>1, <2>2, HeadIsOldest DEF DrainOk, TypeOK, AllLedgers, LedgerOf, Ledger
  <2>4. /\ delivered'[f] = delivered[f] \cup {m} /\ retry'[f] = Tail(retry[f]) /\ lost' = lost
        /\ \A g \in Forwarder \ {f} : delivered'[g] = delivered[g] /\ retry'[g] = retry[g]
    BY <1>3, <2>1, <2>3, <2>2 DEF DrainOk, Deliver, TypeOK
  <2>5. Range(retry'[f]) = Range(retry[f]) \ {m}
    BY <2>3, <2>4, <2>2, TailIncreasing
  <2>6. \A n \in Message : FateOf(f, n)' = IF n = m THEN "delivered" ELSE FateOf(f, n)
    BY <2>4, <2>5 DEF FateOf
  <2>7. Status' = [Status EXCEPT ![f][m] = "delivered"]
    BY <2>3, <2>4, <2>6, StatusOne
  <2> QED
    BY <2>3, <2>7 DEF Promise!Next, Promise!Redeliver, Promise!Message, Message
<1>4. CASE DrainError
  <2>1. retry[cur] \in Seq(Message) /\ retry[cur] # <<>> /\ cur \in Forwarder
    BY <1>4 DEF DrainError, TypeOK
  <2>2. retry' = retry
    BY <1>4, <2>1, PutBackTail DEF DrainError, TypeOK
  <2> QED
    BY <1>4, <2>2, StatusStutters DEF DrainError, LeaveDrain, deliveryVars
<1>5. CASE DrainEnd
  BY <1>5, StatusStutters DEF DrainEnd, LeaveDrain, deliveryVars
<1>6. CASE Disconnect \/ TickForwarder \/ TickEnd \/ Tick \/ Lifecycle \/ StreamError
           \/ ObserveShutdown \/ Receive
  BY <1>6, StatusStutters
     DEF Disconnect, TickForwarder, TickEnd, Tick, Lifecycle, Start, StartError, Started,
         Attempt, ConnectOk, ConnectError, Wake, StreamError, ObserveShutdown, Receive, Idle,
         queueVars, deliveryVars
<1>7. CASE Shutdown \/ \E f \in Forwarder : Background(f)
  BY <1>7, StatusStutters
     DEF Shutdown, Idle, Background, PulsarReconnected, MqttConnAck, MqttPublish, MqttError,
         queueVars, deliveryVars
<1>8. CASE UNCHANGED vars
  BY <1>8, StatusStutters DEF vars, queueVars, deliveryVars
<1> QED
  BY <1>1, <1>2, <1>3, <1>4, <1>5, <1>6, <1>7, <1>8 DEF Next, Fanout, Housekeep

\* FeedClient implements Delivery: each backend is handed every message once, at
\* once or from its queue, oldest first, and loses one only to a newer one when its
\* queue is full (forward_message, enqueue_retry, drain_retry_queue).
THEOREM DeliveryKept == Spec => DeliveryPromise
<1>1. Init => Promise!Init
  <2> SUFFICES ASSUME Init PROVE Status = [b \in Forwarder |-> [m \in Message |-> "unseen"]]
    BY DEF Promise!Init, Promise!Message, Message
  <2>1. \A f \in Forwarder : \A m \in Message : FateOf(f, m) = "unseen"
    BY DEF Init, FateOf, Range
  <2> QED
    BY <2>1, StatusIsFate
<1>2. TypeOK /\ AllLedgers /\ [Next]_vars => [Promise!Next]_Status
  BY PromiseStep
<1> QED
  BY <1>1, <1>2, LedgersKept, PTL DEF Spec, DeliveryPromise, Promise!Spec
=============================================================================
