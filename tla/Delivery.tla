------------------------------ MODULE Delivery ------------------------------
(***************************************************************************)
(* What the feed client promises each of its backends about the messages   *)
(* it reads: every message is handed to every backend exactly once, either *)
(* at once or through that backend's retry queue; a queued message is      *)
(* retried oldest first; and the only way to lose one is to be the oldest  *)
(* message of a full queue when another has to be queued.  Backends do not *)
(* disturb one another.  FeedClient is shown to implement this module.     *)
(***************************************************************************)
EXTENDS Naturals, FiniteSets

CONSTANTS
  Backend,       (* the forwarders                                         *)
  Capacity,      (* messages a retry queue may hold                        *)
  MaxMsg         (* messages are numbered 1..MaxMsg in the order received  *)

VARIABLE status  (* status[b][m]: what became of message m at backend b    *)

Message == 1..MaxMsg

With(b, fate) == {m \in Message : status[b][m] = fate}

\* The oldest message waiting for backend b.
IsOldest(b, m) == m \in With(b, "queued") /\ \A n \in With(b, "queued") : m <= n

\* Messages reach a backend in the order they were received.
IsNext(b, m) == m \in With(b, "unseen") /\ \A n \in With(b, "unseen") : m <= n

Init == status = [b \in Backend |-> [m \in Message |-> "unseen"]]

\* Message m is accepted by the backend on the first attempt.
Deliver(b, m) ==
  /\ IsNext(b, m)
  /\ status' = [status EXCEPT ![b][m] = "delivered"]

\* Message m has to wait, and there is room.
Queue(b, m) ==
  /\ IsNext(b, m)
  /\ Cardinality(With(b, "queued")) < Capacity
  /\ status' = [status EXCEPT ![b][m] = "queued"]

\* Message m has to wait and takes the place of the oldest waiting message.
Displace(b, m) ==
  /\ IsNext(b, m)
  /\ Cardinality(With(b, "queued")) = Capacity
  /\ \E old \in Message :
       /\ IsOldest(b, old)
       /\ status' = [status EXCEPT ![b][m] = "queued", ![b][old] = "lost"]

\* The oldest waiting message is accepted on a later attempt.
Redeliver(b, m) ==
  /\ IsOldest(b, m)
  /\ status' = [status EXCEPT ![b][m] = "delivered"]

Next ==
  \E b \in Backend, m \in Message :
     Deliver(b, m) \/ Queue(b, m) \/ Displace(b, m) \/ Redeliver(b, m)

Spec == Init /\ [][Next]_status
=============================================================================
