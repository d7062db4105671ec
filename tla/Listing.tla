--------------------------------- MODULE Listing ---------------------------------
(***************************************************************************)
(* What the specifications take from a list by a set and put in an order   *)
(* by a function, where the library has an operator parameter.             *)
(***************************************************************************)
EXTENDS Naturals, Sequences, FiniteSets

\* Those of a sequence that are in S, in their order: SelectSeq with a set for its
\* predicate.
Among(s, S) ==
  LET I == {i \in DOMAIN s : s[i] \in S}
  IN  [k \in 1 .. Cardinality(I) |->
         s[CHOOSE i \in I : Cardinality({j \in I : j < i}) = k - 1]]

\* The elements of S in an order: ahead[x] are those that come before x.
InOrder(S, ahead) ==
  [k \in 1 .. Cardinality(S) |-> CHOOSE x \in S : Cardinality(S \cap ahead[x]) = k - 1]
=============================================================================
