------------------------------- MODULE Quota -------------------------------
(***************************************************************************)
(* What the weather service promises its provider: a wait that a rate      *)
(* limit imposed ends by the passing of time, or because the record of it  *)
(* was lost, and the provider is not asked before it has ended.            *)
(***************************************************************************)
EXTENDS Integers

VARIABLES
  asking,   (* a request is with the provider                              *)
  wait,     (* time until the provider may be asked again                  *)
  recorded  (* the wait would survive the process                          *)

vars == <<asking, wait, recorded>>

Init == asking = FALSE /\ wait = 0 /\ recorded = TRUE

Ask == ~asking /\ wait = 0 /\ asking' = TRUE /\ UNCHANGED <<wait, recorded>>

\* Answered, abandoned, or ended with the process.
Leave == asking /\ asking' = FALSE /\ UNCHANGED <<wait, recorded>>

Limit == ~asking /\ wait' \in Nat /\ wait' >= wait /\ recorded' \in BOOLEAN /\ UNCHANGED asking

Pass == wait > 0 /\ wait' = wait - 1 /\ UNCHANGED <<asking, recorded>>

\* The process ends, or starts, without a record of the wait.
Forget == ~recorded' /\ wait' = 0 /\ asking' = FALSE

Next == Ask \/ Leave \/ Limit \/ Pass \/ Forget

Spec == Init /\ [][Next]_vars
=============================================================================
