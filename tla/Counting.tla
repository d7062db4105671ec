------------------------------ MODULE Counting ------------------------------
(***************************************************************************)
(* What the proofs need about numbers, sums and ranks: induction over the  *)
(* natural numbers and over the subsets of a finite set, for a set instead *)
(* of a predicate; what SumFunction (module Functions) returns and how it  *)
(* changes with its argument; least and greatest elements; the number of   *)
(* the elements below one of a set; and lists of which only some elements  *)
(* are kept (Listing Among).                                               *)
(***************************************************************************)
EXTENDS Functions, Listing, FiniteSetTheorems, SequenceTheorems, TLAPS

\* A set with 0 that is closed under + 1 has every number.  If m were missing, n + 1
\* would map the numbers of the set up to m into themselves and miss 0.
LEMMA Induction ==
  ASSUME NEW S, 0 \in S, \A n \in Nat : n \in S => n + 1 \in S
  PROVE  Nat \subseteq S
<1> SUFFICES ASSUME NEW m \in Nat, m \notin S PROVE FALSE
  OBVIOUS
<1> DEFINE D == {n \in 0..m : n \in S}
           next == [n \in D |-> n + 1]
<1>1. next \in Injection(D, D \ {0})
  <2>1. \A n \in D : n + 1 \in D \ {0} OBVIOUS
  <2>2. IsInjective(next) BY DEF IsInjective
  <2> QED BY <2>1, <2>2 DEF Injection
<1>2. IsFiniteSet(D) /\ IsFiniteSet(D \ {0}) /\ Cardinality(D \ {0}) = Cardinality(D) - 1 /\ Cardinality(D) \in Nat
  <2>1. IsFiniteSet(0..m) BY FS_Interval
  <2>2. IsFiniteSet(D) BY <2>1, FS_Subset
  <2>3. 0 \in D OBVIOUS
  <2> QED BY <2>2, <2>3, FS_RemoveElement, FS_CardinalityType
<1>3. Cardinality(D) <= Cardinality(D \ {0})
  BY <1>1, <1>2, FS_Injection
<1> QED BY <1>2, <1>3

\* A set G with every subset of S all of whose maximal proper subsets it has.
LEMMA SubsetInduction ==
  ASSUME NEW S, IsFiniteSet(S), NEW G,
         \A T \in SUBSET S : (\A x \in T : T \ {x} \in G) => T \in G
  PROVE  \A T \in SUBSET S : T \in G
<1> DEFINE N == {n \in Nat : \A T \in SUBSET S : Cardinality(T) = n => T \in G}
<1>1. \A T \in SUBSET S : IsFiniteSet(T) /\ Cardinality(T) \in Nat
  BY FS_Subset, FS_CardinalityType
<1>2. 0 \in N
  BY <1>1, FS_EmptySet
<1>3. ASSUME NEW n \in Nat, n \in N PROVE n + 1 \in N
  <2>1. ASSUME NEW T \in SUBSET S, Cardinality(T) = n + 1 PROVE T \in G
    <3>1. ASSUME NEW x \in T PROVE T \ {x} \in G
      <4>1. IsFiniteSet(T) /\ T \ {x} \in SUBSET S
        BY <1>1
      <4>2. Cardinality(T \ {x}) = Cardinality(T) - 1
        BY <4>1, FS_RemoveElement
      <4>3. Cardinality(T \ {x}) = n
        BY <2>1, <4>2
      <4> QED
        BY <1>3, <4>1, <4>3
    <3> QED
      BY <3>1
  <2> QED
    BY <2>1
<1>4. Nat \subseteq N
  <2> HIDE DEF N
  <2> QED BY <1>2, <1>3, Induction
<1> QED
  BY <1>1, <1>4

-----------------------------------------------------------------------------
(* Sums.                                                                   *)

\* The sum of f over s, counted: one place for each unit of each f[x].
Places(f, s) == {p \in s \X Nat : p[2] < f[p[1]]}

\* The places of T are those of T without x and f[x] more.
LEMMA PlacesStep ==
  ASSUME NEW S, NEW f \in [S -> Nat], NEW T \in SUBSET S, NEW x \in T,
         IsFiniteSet(Places(f, T \ {x}))
  PROVE  /\ IsFiniteSet(Places(f, T))
         /\ Cardinality(Places(f, T)) = f[x] + Cardinality(Places(f, T \ {x}))
<1> DEFINE Here == {x} \X (0..(f[x] - 1))
           Rest == Places(f, T \ {x})
<1>1. f[x] \in Nat
  OBVIOUS
<1>2. IsFiniteSet(0..(f[x] - 1)) /\ Cardinality(0..(f[x] - 1)) = f[x]
  BY <1>1, FS_Interval
<1>3. IsFiniteSet(Here) /\ Cardinality(Here) = f[x]
  <2>1. IsFiniteSet({x}) /\ Cardinality({x}) = 1
    BY FS_Singleton
  <2>2. PICK One, Many : One = {x} /\ Many = 0..(f[x] - 1) /\ Here = One \X Many
    OBVIOUS
  <2>3. IsFiniteSet(One) /\ IsFiniteSet(Many)
    BY <1>2, <2>1, <2>2
  <2>4. IsFiniteSet(One \X Many) /\ Cardinality(One \X Many) = Cardinality(One) * Cardinality(Many)
    BY <2>3, FS_Product
  <2>5. Cardinality(One) = 1 /\ Cardinality(Many) = f[x]
    BY <1>2, <2>1, <2>2
  <2>6. 1 * f[x] = f[x]
    BY <1>1
  <2> QED
    BY <2>2, <2>4, <2>5, <2>6
<1>4. Places(f, T) = Here \cup Rest
  BY <1>1 DEF Places
<1>5. Here \cap Rest = {}
  BY DEF Places
<1> HIDE DEF Here, Rest
<1>6. Cardinality(Here \cap Rest) = 0
  BY <1>5, FS_EmptySet
<1>7. IsFiniteSet(Rest) /\ Cardinality(Rest) \in Nat
  BY FS_CardinalityType DEF Rest
<1>8. /\ IsFiniteSet(Here \cup Rest)
      /\ Cardinality(Here \cup Rest) = f[x] + Cardinality(Rest) - 0
  BY <1>3, <1>6, <1>7, FS_Union
<1>9. f[x] + Cardinality(Rest) - 0 = f[x] + Cardinality(Rest)
  BY <1>1, <1>7
<1> QED
  BY <1>4, <1>8, <1>9 DEF Rest

\* A function to numbers on a finite set has finitely many places.
LEMMA PlacesFinite ==
  ASSUME NEW S, IsFiniteSet(S), NEW f \in [S -> Nat], NEW T \in SUBSET S
  PROVE  IsFiniteSet(Places(f, T)) /\ Cardinality(Places(f, T)) \in Nat
<1> DEFINE G == {s \in SUBSET S : IsFiniteSet(Places(f, s))}
<1>1. Places(f, {}) = {}
  BY DEF Places
<1>2. {} \in G
  BY <1>1, FS_EmptySet
<1>3. ASSUME NEW s \in SUBSET S, \A x \in s : s \ {x} \in G PROVE s \in G
  <2>1. CASE s = {}
    BY <1>2, <2>1
  <2>2. CASE s # {}
    <3>1. PICK x \in s : TRUE
      BY <2>2
    <3> QED
      BY <1>3, <3>1, PlacesStep
  <2> QED
    BY <2>1, <2>2
<1> HIDE DEF G
<1>4. T \in G
  BY <1>3, SubsetInduction
<1> QED
  BY <1>4, FS_CardinalityType DEF G

\* How the fold behind SumFunction is defined.
Chosen(s) == CHOOSE x \in s : TRUE

Unfolds(g, f) ==
  g = [s \in SUBSET DOMAIN f |-> IF s = {} THEN 0 ELSE f[Chosen(s)] + g[s \ {Chosen(s)}]]

\* SumFunction by its definition in the module Functions and those it is built on.
LEMMA SumUnfolds ==
  ASSUME NEW f
  PROVE  SumFunction(f) = (CHOOSE g : Unfolds(g, f))[DOMAIN f]
BY DEF SumFunction, SumFunctionOnSet, FoldFunctionOnSet, MapThenFoldSet, Unfolds, Chosen

\* A sum is the number of places.
LEMMA SumIsCount ==
  ASSUME NEW S, IsFiniteSet(S), NEW f \in [S -> Nat]
  PROVE  SumFunction(f) = Cardinality(Places(f, S))
<1> DEFINE count == [s \in SUBSET S |-> Cardinality(Places(f, s))]
           iter == CHOOSE g : Unfolds(g, f)
<1>0. DOMAIN f = S
  OBVIOUS
<1>1. \A s \in SUBSET S : s # {} => Chosen(s) \in s
  BY DEF Chosen
<1>2. count[{}] = 0
  <2>1. Places(f, {}) = {}
    BY DEF Places
  <2> QED
    BY <2>1, FS_EmptySet
<1>3. \A s \in SUBSET S : \A x \in s : count[s] = f[x] + count[s \ {x}]
  <2> SUFFICES ASSUME NEW s \in SUBSET S, NEW x \in s PROVE count[s] = f[x] + count[s \ {x}]
    OBVIOUS
  <2>1. IsFiniteSet(Places(f, s \ {x}))
    <3>1. s \ {x} \in SUBSET S
      OBVIOUS
    <3> QED BY <3>1, PlacesFinite
  <2> QED
    BY <2>1, PlacesStep
<1>4. Unfolds(count, f)
  <2>1. \A s \in SUBSET S : count[s] = IF s = {} THEN 0 ELSE f[Chosen(s)] + count[s \ {Chosen(s)}]
    BY <1>1, <1>2, <1>3
  <2>2. count = [s \in SUBSET S |-> count[s]]
    OBVIOUS
  <2> HIDE DEF count
  <2> QED
    BY <1>0, <2>1, <2>2 DEF Unfolds
<1>5. Unfolds(iter, f)
  <2> HIDE DEF count
  <2> QED BY <1>4
<1> HIDE DEF iter
<1>6. \A s \in SUBSET S : iter[s] = IF s = {} THEN 0 ELSE f[Chosen(s)] + iter[s \ {Chosen(s)}]
  BY <1>0, <1>5 DEF Unfolds
<1> DEFINE G == {s \in SUBSET S : iter[s] = count[s]}
<1>7. ASSUME NEW s \in SUBSET S, \A x \in s : s \ {x} \in G PROVE s \in G
  <2> HIDE DEF count
  <2>1. CASE s = {}
    BY <1>2, <1>6, <2>1
  <2>2. CASE s # {}
    BY <1>1, <1>3, <1>6, <1>7, <2>2
  <2> QED
    BY <2>1, <2>2
<1>8. S \in G
  <2> HIDE DEF G
  <2> QED BY <1>7, SubsetInduction
<1>9. iter[S] = count[S]
  BY <1>8
<1> QED
  BY <1>0, <1>9, SumUnfolds DEF iter

\* A sum of numbers is a number.
LEMMA SumType ==
  ASSUME NEW S, IsFiniteSet(S), NEW f \in [S -> Nat]
  PROVE  SumFunction(f) \in Nat
<1>1. SumFunction(f) = Cardinality(Places(f, S))
  BY SumIsCount
<1>2. S \in SUBSET S
  OBVIOUS
<1> QED
  BY <1>1, <1>2, PlacesFinite

\* A sum of zeros.
LEMMA SumZero ==
  ASSUME NEW S, IsFiniteSet(S), NEW f \in [S -> Nat], \A x \in S : f[x] = 0
  PROVE  SumFunction(f) = 0
<1>1. Places(f, S) = {}
  BY DEF Places
<1> QED
  BY <1>1, SumIsCount, FS_EmptySet

\* One more at one point.
LEMMA SumAtPoint ==
  ASSUME NEW S, IsFiniteSet(S), NEW f \in [S -> Nat], NEW g \in [S -> Nat], NEW a \in S,
         g[a] = f[a] + 1, \A x \in S \ {a} : g[x] = f[x]
  PROVE  SumFunction(g) = SumFunction(f) + 1
<1>1. IsFiniteSet(Places(f, S))
  BY PlacesFinite, S \in SUBSET S
<1>2. f[a] \in Nat /\ <<a, f[a]>> \notin Places(f, S)
  BY DEF Places
<1>3. Places(g, S) = Places(f, S) \cup {<<a, f[a]>>}
  <2>1. ASSUME NEW p \in Places(g, S) PROVE p \in Places(f, S) \cup {<<a, f[a]>>}
    <3>1. PICK x \in S, n \in Nat : p = <<x, n>> /\ n < g[x]
      BY DEF Places
    <3>2. x = a => n < f[a] \/ n = f[a]
      BY <1>2, <3>1
    <3> QED
      BY <3>1, <3>2 DEF Places
  <2>2. ASSUME NEW p \in Places(f, S) PROVE p \in Places(g, S)
    <3>1. PICK x \in S, n \in Nat : p = <<x, n>> /\ n < f[x]
      BY DEF Places
    <3>2. n < g[x]
      <4>1. CASE x = a
        BY <1>2, <3>1, <4>1
      <4>2. CASE x # a
        BY <3>1, <4>2
      <4> QED
        BY <4>1, <4>2
    <3> QED
      BY <3>1, <3>2 DEF Places
  <2>3. <<a, f[a]>> \in Places(g, S)
    BY <1>2 DEF Places
  <2> QED
    BY <2>1, <2>2, <2>3
<1>4. Cardinality(Places(g, S)) = Cardinality(Places(f, S)) + 1
  BY <1>1, <1>2, <1>3, FS_AddElement
<1> QED
  BY <1>4, SumIsCount

\* One more element.
LEMMA SumAddElement ==
  ASSUME NEW S, IsFiniteSet(S), NEW a, a \notin S,
         NEW f \in [S -> Nat], NEW g \in [S \cup {a} -> Nat], \A x \in S : g[x] = f[x]
  PROVE  SumFunction(g) = SumFunction(f) + g[a]
<1>1. PICK T : T = S \cup {a}
  OBVIOUS
<1>2. IsFiniteSet(T) /\ T \in SUBSET T /\ a \in T /\ T \ {a} = S /\ S \in SUBSET T /\ g \in [T -> Nat]
  BY <1>1, FS_AddElement
<1>3. IsFiniteSet(Places(g, S)) /\ Cardinality(Places(g, S)) \in Nat
  BY <1>2, PlacesFinite
<1>4. Cardinality(Places(g, T)) = g[a] + Cardinality(Places(g, S))
  BY <1>2, <1>3, PlacesStep
<1>5. Places(g, S) = Places(f, S)
  BY DEF Places
<1>6. SumFunction(g) = Cardinality(Places(g, T)) /\ SumFunction(f) = Cardinality(Places(f, S))
  BY <1>2, SumIsCount
<1>7. g[a] \in Nat
  BY <1>2
<1> QED
  BY <1>3, <1>4, <1>5, <1>6, <1>7

\* The sum of two functions.
LEMMA SumAdd ==
  ASSUME NEW S, IsFiniteSet(S), NEW f \in [S -> Nat], NEW g \in [S -> Nat],
         NEW h \in [S -> Nat], \A x \in S : h[x] = f[x] + g[x]
  PROVE  SumFunction(h) = SumFunction(f) + SumFunction(g)
<1> DEFINE Of(k, s) == Cardinality(Places(k, s))
           G == {s \in SUBSET S : Of(h, s) = Of(f, s) + Of(g, s)}
<1>1. ASSUME NEW s \in SUBSET S, \A x \in s : s \ {x} \in G PROVE s \in G
  <2>1. CASE s = {}
    <3>1. Places(f, s) = {} /\ Places(g, s) = {} /\ Places(h, s) = {}
      BY <2>1 DEF Places
    <3>2. Of(f, s) = 0 /\ Of(g, s) = 0 /\ Of(h, s) = 0
      BY <3>1, FS_EmptySet
    <3> HIDE DEF Of
    <3> QED
      BY <3>2
  <2>2. CASE s # {}
    <3>1. PICK x \in s : TRUE
      BY <2>2
    <3>2. s \ {x} \in SUBSET S /\ x \in S
      OBVIOUS
    <3>3. ASSUME NEW k \in [S -> Nat]
          PROVE  Of(k, s) = k[x] + Of(k, s \ {x}) /\ Of(k, s \ {x}) \in Nat
      BY <3>2, PlacesStep, PlacesFinite
    <3>4. Of(h, s \ {x}) = Of(f, s \ {x}) + Of(g, s \ {x})
      BY <1>1
    <3> HIDE DEF Of
    <3>5. f[x] \in Nat /\ g[x] \in Nat /\ h[x] = f[x] + g[x]
      BY <3>2
    <3>6. /\ Of(f, s) = f[x] + Of(f, s \ {x}) /\ Of(f, s \ {x}) \in Nat
          /\ Of(g, s) = g[x] + Of(g, s \ {x}) /\ Of(g, s \ {x}) \in Nat
          /\ Of(h, s) = h[x] + Of(h, s \ {x})
      BY <3>3
    <3>7. Of(h, s) = Of(f, s) + Of(g, s)
      BY <3>4, <3>5, <3>6
    <3> QED
      BY <3>7
  <2> QED
    BY <2>1, <2>2
<1>2. S \in G
  <2> HIDE DEF G, Of
  <2>1. \A s \in SUBSET S : (\A x \in s : s \ {x} \in G) => s \in G
    BY <1>1
  <2>2. \A s \in SUBSET S : s \in G
    BY <2>1, SubsetInduction, Zenon
  <2> QED
    BY <2>2
<1> QED
  BY <1>2, SumIsCount

\* A function that is extended with zeros, ...
LEMMA SumExtend ==
  ASSUME NEW S, NEW R, R \subseteq S, IsFiniteSet(S),
         NEW f \in [R -> Nat], NEW g \in [S -> Nat],
         \A x \in R : g[x] = f[x], \A x \in S \ R : g[x] = 0
  PROVE  SumFunction(g) = SumFunction(f)
<1>1. IsFiniteSet(R)
  BY FS_Subset
<1>2. Places(g, S) = Places(f, R)
  BY DEF Places
<1> QED
  BY <1>1, <1>2, SumIsCount

\* ... and one that is extended with zeros and then has one more at one point.
LEMMA SumExtendAtPoint ==
  ASSUME NEW S, NEW R, R \subseteq S, IsFiniteSet(S),
         NEW f \in [R -> Nat], NEW g \in [S -> Nat], NEW a \in S,
         g[a] = (IF a \in R THEN f[a] ELSE 0) + 1,
         \A x \in R : x # a => g[x] = f[x],
         \A x \in S : x \notin R /\ x # a => g[x] = 0
  PROVE  SumFunction(g) = SumFunction(f) + 1
<1>1. PICK h : h = [x \in S |-> IF x \in R THEN f[x] ELSE 0]
  OBVIOUS
<1>2. h \in [S -> Nat]
  BY <1>1
<1>3. SumFunction(h) = SumFunction(f)
  <2>1. (\A x \in R : h[x] = f[x]) /\ \A x \in S \ R : h[x] = 0
    BY <1>1
  <2> QED
    BY <1>2, <2>1, SumExtend
<1>4. SumFunction(g) = SumFunction(h) + 1
  <2>1. g[a] = h[a] + 1 /\ \A x \in S \ {a} : g[x] = h[x]
    BY <1>1
  <2> QED
    BY <1>2, <2>1, SumAtPoint
<1> QED
  BY <1>3, <1>4

\* A sum is at least each of its terms.
LEMMA SumAtLeast ==
  ASSUME NEW S, IsFiniteSet(S), NEW f \in [S -> Nat], NEW a \in S
  PROVE  f[a] <= SumFunction(f)
<1>1. {a} \in SUBSET S /\ S \in SUBSET S
  OBVIOUS
<1>2. Cardinality(Places(f, S)) = f[a] + Cardinality(Places(f, S \ {a}))
  BY <1>1, PlacesStep, PlacesFinite
<1>3. Cardinality(Places(f, S \ {a})) \in Nat /\ f[a] \in Nat
  BY PlacesFinite
<1> QED
  BY <1>2, <1>3, SumIsCount

-----------------------------------------------------------------------------
(* Least and greatest elements, and ranks.                                *)

\* Every set of numbers that is not empty has a least one, ...
LEMMA HasLeast ==
  ASSUME NEW S \in SUBSET Nat, S # {}
  PROVE  \E m \in S : \A x \in S : m <= x
<1> SUFFICES ASSUME \A m \in S : \E x \in S : x < m PROVE FALSE
  <2>1. \A m \in S, x \in S : m <= x \/ x < m
    OBVIOUS
  <2> QED
    BY <2>1
<1> DEFINE G == {n \in Nat : \A x \in S : x >= n}
<1>1. 0 \in G
  OBVIOUS
<1>2. ASSUME NEW n \in Nat, n \in G PROVE n + 1 \in G
  <2>1. ASSUME NEW x \in S PROVE x >= n + 1
    <3>1. PICK y \in S : y < x
      OBVIOUS
    <3>2. y >= n
      BY <1>2
    <3> QED
      BY <3>1, <3>2
  <2> QED
    BY <2>1
<1>3. Nat \subseteq G
  <2> HIDE DEF G
  <2> QED
    BY <1>1, <1>2, Induction
<1>4. PICK m \in S : TRUE
  OBVIOUS
<1>5. m + 1 \in G
  BY <1>3
<1> QED
  BY <1>5

\* ... and a greatest one if they are bounded.
LEMMA HasGreatest ==
  ASSUME NEW M \in Nat, NEW S \in SUBSET 0..M, S # {}
  PROVE  \E m \in S : \A x \in S : x <= m
<1> DEFINE R == {M - x : x \in S}
<1>1. R \in SUBSET Nat /\ R # {}
  <2>1. ASSUME NEW x \in S PROVE M - x \in Nat
    OBVIOUS
  <2>2. PICK x \in S : TRUE
    OBVIOUS
  <2> QED
    BY <2>1, <2>2
<1>2. PICK r \in R : \A y \in R : r <= y
  BY <1>1, HasLeast
<1>3. PICK m \in S : r = M - m
  OBVIOUS
<1>4. ASSUME NEW x \in S PROVE x <= m
  <2>1. M - m <= M - x
    BY <1>2, <1>3
  <2> QED
    BY <2>1
<1> QED
  BY <1>4

\* The elements of S below x, and their number.
Lesser(S, x) == {u \in S : u < x}
Rank(S, x) == Cardinality(Lesser(S, x))

\* Ranks are the numbers from 0 to the size of the set, in the order of its elements.
LEMMA Ranks ==
  ASSUME NEW S \in SUBSET Nat, IsFiniteSet(S)
  PROVE  /\ Cardinality(S) \in Nat
         /\ \A x \in S : Rank(S, x) \in Nat /\ Rank(S, x) < Cardinality(S)
         /\ \A x, y \in S : x < y => Rank(S, x) < Rank(S, y)
         /\ \A n \in 0..(Cardinality(S) - 1) : \E x \in S : Rank(S, x) = n
<1>0. Cardinality(S) \in Nat
  BY FS_CardinalityType
<1>1. \A x \in S : /\ Lesser(S, x) \in SUBSET S /\ Lesser(S, x) # S
                   /\ IsFiniteSet(Lesser(S, x)) /\ Rank(S, x) \in Nat
  <2>1. \A x \in S : Lesser(S, x) \in SUBSET S /\ x \notin Lesser(S, x)
    BY DEF Lesser
  <2> QED
    BY <2>1, FS_Subset, FS_CardinalityType DEF Rank
<1>2. \A x \in S : Rank(S, x) < Cardinality(S)
  <2> SUFFICES ASSUME NEW x \in S PROVE Rank(S, x) < Cardinality(S)
    OBVIOUS
  <2>1. /\ Cardinality(Lesser(S, x)) <= Cardinality(S)
        /\ Cardinality(S) = Cardinality(Lesser(S, x)) => S = Lesser(S, x)
    BY <1>1, FS_Subset
  <2> QED
    BY <1>0, <1>1, <2>1 DEF Rank
<1>3. \A x, y \in S : x < y => Rank(S, x) < Rank(S, y)
  <2> SUFFICES ASSUME NEW x \in S, NEW y \in S, x < y PROVE Rank(S, x) < Rank(S, y)
    OBVIOUS
  <2>0. \A u \in S : u < x => u < y
    OBVIOUS
  <2>1. Lesser(S, x) \in SUBSET Lesser(S, y) /\ x \in Lesser(S, y) /\ x \notin Lesser(S, x)
    <3>1. ~(x < x)
      OBVIOUS
    <3> QED
      BY <2>0, <3>1 DEF Lesser
  <2>2. /\ Cardinality(Lesser(S, x)) <= Cardinality(Lesser(S, y))
        /\ Cardinality(Lesser(S, y)) = Cardinality(Lesser(S, x)) => Lesser(S, y) = Lesser(S, x)
    BY <1>1, <2>1, FS_Subset
  <2> QED
    BY <1>1, <2>1, <2>2 DEF Rank
<1> DEFINE Numbers == 0..(Cardinality(S) - 1)
           rank == [x \in S |-> Rank(S, x)]
<1>4. rank \in [S -> Numbers]
  BY <1>0, <1>1, <1>2
<1>5. \A x, y \in S : rank[x] = rank[y] => x = y
  <2> SUFFICES ASSUME NEW x \in S, NEW y \in S, x # y PROVE Rank(S, x) # Rank(S, y)
    OBVIOUS
  <2>1. x < y \/ y < x
    OBVIOUS
  <2> QED
    BY <1>1, <1>3, <2>1
<1>6. rank \in Injection(S, Numbers)
  BY <1>4, <1>5 DEF Injection, IsInjective
<1>7. IsFiniteSet(Numbers) /\ Cardinality(Numbers) = Cardinality(S)
  <2>1. \A n \in Nat : IsFiniteSet(0..(n - 1)) /\ Cardinality(0..(n - 1)) = n
    BY FS_Interval
  <2> QED
    BY <1>0, <2>1
<1>8. rank \in Surjection(S, Numbers)
  BY <1>6, <1>7, FS_Injection
<1>9. \A n \in Numbers : \E x \in S : Rank(S, x) = n
  BY <1>8 DEF Surjection
<1> QED
  BY <1>0, <1>1, <1>2, <1>3, <1>9

\* A finite set of numbers that is not empty has a greatest one.
LEMMA FiniteHasGreatest ==
  ASSUME NEW S \in SUBSET Nat, IsFiniteSet(S), S # {}
  PROVE  \E m \in S : \A x \in S : x <= m
<1>1. PICK c : c = Cardinality(S)
  OBVIOUS
<1>2. c \in Nat /\ c # 0
  BY <1>1, FS_CardinalityType, FS_EmptySet
<1>3. PICK m \in S : Rank(S, m) = c - 1
  <2>1. c - 1 \in 0..(c - 1)
    BY <1>2
  <2> QED
    BY <1>1, <2>1, Ranks
<1>4. ASSUME NEW x \in S PROVE x <= m
  <2>1. m < x => Rank(S, m) < Rank(S, x)
    BY Ranks
  <2>2. Rank(S, x) \in Nat /\ Rank(S, x) < c
    BY <1>1, Ranks
  <2>3. ~(m < x)
    BY <1>2, <1>3, <2>1, <2>2
  <2> QED
    BY <2>3
<1> QED
  BY <1>4
-----------------------------------------------------------------------------
(* Recursion over the numbers up to N, and induction over lists: with a    *)
(* function for the step and a set for the predicate.                      *)

\* f starts at base and goes on by the steps.
Follows(f, N, base, step) == f[0] = base /\ \A n \in 1..N : f[n] = step[n][f[n - 1]]

\* There is a function whose value at n is the step from its value at n - 1.
LEMMA Recursion ==
  ASSUME NEW N \in Nat, NEW State, NEW base \in State, NEW step \in [1..N -> [State -> State]]
  PROVE  \E f \in [0..N -> State] : Follows(f, N, base, step)
<1> DEFINE Upto(m) == {f \in [0..m -> State] : Follows(f, m, base, step)}
           G == {m \in Nat : m <= N => Upto(m) # {}}
<1>1. 0 \in G
  <2>1. [n \in 0..0 |-> base] \in Upto(0) BY DEF Follows
  <2> QED BY <2>1
<1>2. ASSUME NEW m \in Nat, m \in G PROVE m + 1 \in G
  <2> SUFFICES ASSUME m + 1 <= N PROVE Upto(m + 1) # {}
    OBVIOUS
  <2>1. PICK f \in Upto(m) : TRUE
    BY <1>2
  <2>2. f \in [0..m -> State] /\ f[0] = base /\ \A n \in 1..m : f[n] = step[n][f[n - 1]]
    BY <2>1 DEF Follows
  <2>3. m + 1 \in 1..N /\ f[m] \in State /\ step[m + 1][f[m]] \in State
    BY <2>2
  <2>4. PICK g : g = [n \in 0..(m + 1) |-> IF n = m + 1 THEN step[m + 1][f[m]] ELSE f[n]]
    OBVIOUS
  <2>5. g \in [0..(m + 1) -> State] /\ g[0] = base
    BY <2>2, <2>3, <2>4
  <2>6. ASSUME NEW n \in 1..(m + 1) PROVE g[n] = step[n][g[n - 1]]
    <3>1. g[n - 1] = f[n - 1]
      BY <2>4
    <3>2. CASE n = m + 1
      <4>1. g[n] = step[m + 1][f[m]] /\ g[m] = f[m] /\ n - 1 = m
        BY <2>4, <3>2
      <4> QED BY <3>2, <4>1
    <3>3. CASE n # m + 1
      <4>1. n \in 1..m /\ g[n] = f[n]
        BY <2>4, <3>3
      <4> QED BY <2>2, <3>1, <4>1
    <3> QED BY <3>2, <3>3
  <2>7. Follows(g, m + 1, base, step)
    BY <2>5, <2>6 DEF Follows
  <2> QED BY <2>5, <2>7
<1>3. Nat \subseteq G
  <2> HIDE DEF G
  <2> QED BY <1>1, <1>2, Induction
<1>4. N \in G
  BY <1>3
<1> QED BY <1>4

\* f starts at base and takes the steps as long as it stays among the states.
Tries(f, N, base, step, State) ==
  f[0] = base /\ \A n \in 1..N : f[n - 1] \in State => f[n] = step[n][f[n - 1]]

\* Then it stays there.
LEMMA RecursionStays ==
  ASSUME NEW N \in Nat, NEW State, NEW base \in State, NEW step \in [1..N -> [State -> State]],
         NEW f, Tries(f, N, base, step, State)
  PROVE  Follows(f, N, base, step) /\ \A n \in 0..N : f[n] \in State
<1> DEFINE G == {n \in Nat : n <= N => f[n] \in State}
<1> USE DEF Tries
<1>1. 0 \in G OBVIOUS
<1>2. ASSUME NEW n \in Nat, n \in G PROVE n + 1 \in G
  <2> SUFFICES ASSUME n + 1 <= N PROVE f[n + 1] \in State
    OBVIOUS
  <2>1. n + 1 \in 1..N /\ (n + 1) - 1 = n /\ f[n] \in State
    BY <1>2
  <2>2. step[n + 1][f[n]] \in State
    BY <2>1
  <2> QED BY <2>1, <2>2
<1>3. Nat \subseteq G
  <2> HIDE DEF G
  <2> QED BY <1>1, <1>2, Induction
<1>4. \A n \in 0..N : f[n] \in State
  BY <1>3
<1>5. \A n \in 1..N : n - 1 \in 0..N
  OBVIOUS
<1> QED BY <1>4, <1>5 DEF Follows

\* The first N steps are the same, the values up to the one at N are.
SameSteps(N, step, walk) == \A n \in 1..N : step[n] = walk[n]
SameValues(N, f, g) == \A n \in 0..N : f[n] = g[n]

\* Two functions that take the same steps from the same value are the same.
LEMMA SameRecursion ==
  ASSUME NEW N \in Nat, NEW base, NEW f, NEW g, NEW step, NEW walk,
         Follows(f, N, base, step), Follows(g, N, base, walk), SameSteps(N, step, walk)
  PROVE  SameValues(N, f, g)
<1> DEFINE G == {n \in Nat : n <= N => f[n] = g[n]}
<1>1. 0 \in G BY DEF Follows
<1>2. ASSUME NEW n \in Nat, n \in G PROVE n + 1 \in G
  <2> SUFFICES ASSUME n + 1 <= N PROVE f[n + 1] = g[n + 1]
    OBVIOUS
  <2>1. n + 1 \in 1..N /\ (n + 1) - 1 = n /\ f[n] = g[n]
    BY <1>2
  <2> QED BY <2>1 DEF Follows, SameSteps
<1>3. Nat \subseteq G
  <2> HIDE DEF G
  <2> QED BY <1>1, <1>2, Induction
<1> QED BY <1>3 DEF SameValues

\* A set with the empty list, and with a list one element more, has every list.
LEMMA ListInduction ==
  ASSUME NEW S, NEW G, <<>> \in G, \A s \in Seq(S), e \in S : s \in G => Append(s, e) \in G
  PROVE  Seq(S) \subseteq G
<1> DEFINE N == {n \in Nat : \A s \in Seq(S) : Len(s) = n => s \in G}
<1>1. 0 \in N
  <2>1. \A s \in Seq(S) : Len(s) = 0 => s = <<>> OBVIOUS
  <2> QED BY <2>1
<1>2. ASSUME NEW n \in Nat, n \in N PROVE n + 1 \in N
  <2>1. ASSUME NEW s \in Seq(S), Len(s) = n + 1 PROVE s \in G
    <3>1. s # <<>> BY <2>1
    <3>2. PICK t \in Seq(S), e \in S : s = Append(t, e)
      BY <3>1, SequenceEmptyOrAppend
    <3>3. Len(t) = n
      BY <2>1, <3>2, AppendProperties
    <3> QED BY <1>2, <3>2, <3>3
  <2> QED BY <2>1
<1>3. Nat \subseteq N
  <2> HIDE DEF N
  <2> QED BY <1>1, <1>2, Induction
<1> QED BY <1>3, LenProperties

-----------------------------------------------------------------------------
(* Lists of which only some elements are kept.                             *)

LEMMA AmongEmpty ==
  ASSUME NEW S
  PROVE  Among(<<>>, S) = <<>>
<1>1. {i \in DOMAIN <<>> : <<>>[i] \in S} = {}
  OBVIOUS
<1>2. Cardinality({}) = 0
  BY FS_EmptySet
<1> QED
  BY <1>1, <1>2 DEF Among

\* What is taken from a list with one element more.
LEMMA AmongAppend ==
  ASSUME NEW B, NEW s \in Seq(B), NEW e \in B, NEW S
  PROVE  Among(Append(s, e), S) = IF e \in S THEN Append(Among(s, S), e) ELSE Among(s, S)
<1> DEFINE t == Append(s, e)
           n == Len(s)
<1>1. PICK I : I = {i \in DOMAIN s : s[i] \in S}
  OBVIOUS
<1>2. PICK J : J = {i \in DOMAIN t : t[i] \in S}
  OBVIOUS
<1>3. /\ n \in Nat /\ DOMAIN s = 1..n /\ DOMAIN t = 1..(n + 1)
      /\ t[n + 1] = e /\ \A i \in 1..n : t[i] = s[i]
  OBVIOUS
<1>4. I \in SUBSET (1..n) /\ I \in SUBSET Nat /\ IsFiniteSet(I) /\ Cardinality(I) \in Nat
  <2>1. I \in SUBSET (1..n) /\ I \in SUBSET Nat
    BY <1>1, <1>3
  <2>2. IsFiniteSet(1..n)
    <3>1. n \in Int /\ 1 \in Int
      BY <1>3
    <3> QED BY <3>1, FS_Interval
  <2>3. IsFiniteSet(I)
    BY <2>1, <2>2, FS_Subset
  <2> QED BY <2>1, <2>3, FS_CardinalityType
<1> DEFINE from(K, k) == CHOOSE i \in K : Cardinality({j \in K : j < i}) = k - 1
<1>5. Among(s, S) = [k \in 1..Cardinality(I) |-> s[from(I, k)]]
  BY <1>1 DEF Among
<1>6. Among(t, S) = [k \in 1..Cardinality(J) |-> t[from(J, k)]]
  BY <1>2 DEF Among
<1>7. \A k \in 1..Cardinality(I) : from(I, k) \in I
  <2> TAKE k \in 1..Cardinality(I)
  <2>1. k - 1 \in 0..(Cardinality(I) - 1)
    BY <1>4
  <2>2. \E x \in I : Rank(I, x) = k - 1
    BY <1>4, <2>1, Ranks
  <2> QED BY <2>2 DEF Rank, Lesser
<1>8. CASE e \notin S
  <2>1. J = I
    BY <1>1, <1>2, <1>3, <1>8
  <2>2. \A k \in 1..Cardinality(I) : t[from(I, k)] = s[from(I, k)]
    BY <1>3, <1>4, <1>7
  <2> HIDE DEF from, t
  <2> QED BY <1>5, <1>6, <1>8, <2>1, <2>2 DEF t
<1>9. CASE e \in S
  <2>1. J = I \cup {n + 1} /\ n + 1 \notin I
    BY <1>1, <1>2, <1>3, <1>4, <1>9
  <2>2. Cardinality(J) = Cardinality(I) + 1
    BY <1>4, <2>1, FS_AddElement
  <2>3. ASSUME NEW k \in 1..Cardinality(I) PROVE from(J, k) = from(I, k)
    <3>1. ASSUME NEW i \in I PROVE {j \in J : j < i} = {j \in I : j < i}
      <4>1. i <= n /\ ~(n + 1 < i)
        BY <1>3, <1>4
      <4> QED BY <2>1, <4>1
    <3>2. {j \in J : j < n + 1} = I /\ Cardinality(I) # k - 1
      <4>1. \A j \in I : j < n + 1
        BY <1>3, <1>4
      <4>2. {j \in J : j < n + 1} = I
        BY <1>3, <2>1, <4>1
      <4> QED BY <1>4, <4>2
    <3>3. \A i : (i \in J /\ Cardinality({j \in J : j < i}) = k - 1)
                  <=> (i \in I /\ Cardinality({j \in I : j < i}) = k - 1)
      BY <2>1, <3>1, <3>2
    <3> QED BY <3>3
  <2>4. from(J, Cardinality(I) + 1) = n + 1
    <3>1. {j \in J : j < n + 1} = I
      <4>1. \A j \in I : j < n + 1
        BY <1>3, <1>4
      <4> QED BY <1>3, <2>1, <4>1
    <3>2. ASSUME NEW i \in I PROVE Cardinality({j \in J : j < i}) # Cardinality(I)
      <4>0. i <= n /\ ~(n + 1 < i)
        BY <1>3, <1>4
      <4>1. {j \in J : j < i} = {j \in I : j < i}
        BY <2>1, <4>0
      <4>2. Rank(I, i) \in Nat /\ Rank(I, i) < Cardinality(I)
        BY <1>4, Ranks
      <4>3. Cardinality({j \in I : j < i}) \in Nat /\ Cardinality({j \in I : j < i}) < Cardinality(I)
        BY <4>2 DEF Rank, Lesser
      <4>4. PICK r \in Nat : r = Cardinality({j \in J : j < i}) /\ r < Cardinality(I)
        BY <4>1, <4>3
      <4> QED BY <1>4, <4>4
    <3>3. \A i \in J : Cardinality({j \in J : j < i}) = Cardinality(I) <=> i = n + 1
      BY <2>1, <3>1, <3>2
    <3>4. (Cardinality(I) + 1) - 1 = Cardinality(I) /\ n + 1 \in J
      BY <1>4, <2>1
    <3> QED BY <3>3, <3>4
  <2>5. Among(t, S) = [k \in 1..(Cardinality(I) + 1) |-> IF k = Cardinality(I) + 1 THEN e ELSE s[from(I, k)]]
    <3>1. ASSUME NEW k \in 1..(Cardinality(I) + 1)
          PROVE  t[from(J, k)] = IF k = Cardinality(I) + 1 THEN e ELSE s[from(I, k)]
      <4>1. CASE k = Cardinality(I) + 1
        <5>1. t[from(J, k)] = t[n + 1]
          BY <2>4, <4>1
        <5> QED BY <1>3, <4>1, <5>1
      <4>2. CASE k # Cardinality(I) + 1
        <5>1. k \in 1..Cardinality(I)
          BY <1>4, <4>2
        <5>2. from(I, k) \in 1..n
          BY <1>4, <1>7, <5>1
        <5> QED BY <1>3, <2>3, <4>2, <5>1, <5>2
      <4> QED BY <4>1, <4>2
    <3> HIDE DEF from, t
    <3> QED BY <1>6, <2>2, <3>1
  <2>6. Among(s, S) \in Seq(B) /\ Len(Among(s, S)) = Cardinality(I)
    <3>1. ASSUME NEW k \in 1..Cardinality(I) PROVE s[from(I, k)] \in B
      <4>1. from(I, k) \in 1..n
        BY <1>4, <1>7
      <4> QED BY <1>3, <4>1
    <3> HIDE DEF from
    <3> QED BY <1>4, <1>5, <3>1
  <2> HIDE DEF from, t
  <2>7. PICK c \in Nat : c = Cardinality(I)
    BY <1>4
  <2>8. PICK a \in Seq(B) : a = Among(s, S)
    BY <2>6
  <2>9. Len(a) = c /\ \A k \in 1..c : a[k] = s[from(I, k)]
    BY <1>5, <2>6, <2>7, <2>8
  <2>10. Append(a, e) = [k \in 1..(c + 1) |-> IF k = c + 1 THEN e ELSE a[k]]
    <3>1. Append(a, e) \in Seq(B) /\ Len(Append(a, e)) = c + 1 /\ Append(a, e)[c + 1] = e
          /\ \A k \in 1..c : Append(a, e)[k] = a[k]
      BY <2>9, AppendProperties
    <3>2. PICK b \in Seq(B) : b = Append(a, e)
      BY <3>1
    <3>4. b = [k \in 1..(c + 1) |-> b[k]]
      BY <3>1, <3>2, LenProperties
    <3>3. \A k \in 1..(c + 1) : k = c + 1 \/ k \in 1..c
      OBVIOUS
    <3> QED BY <3>1, <3>2, <3>3, <3>4
  <2>11. [k \in 1..(c + 1) |-> IF k = c + 1 THEN e ELSE a[k]] = [k \in 1..(c + 1) |-> IF k = c + 1 THEN e ELSE s[from(I, k)]]
    BY <2>9
  <2> QED BY <1>9, <2>5, <2>7, <2>8, <2>10, <2>11 DEF t
<1> QED BY <1>8, <1>9

LEMMA AmongType ==
  ASSUME NEW B, NEW S
  PROVE  \A s \in Seq(B) : Among(s, S) \in Seq(B) /\ Among(s, S) \in Seq(S)
<1> DEFINE G == {s \in Seq(B) : Among(s, S) \in Seq(B) /\ Among(s, S) \in Seq(S)}
<1>1. <<>> \in G
  <2>1. Among(<<>>, S) = <<>> /\ <<>> \in Seq(B) /\ <<>> \in Seq(S)
    BY AmongEmpty
  <2> QED BY <2>1
<1>2. ASSUME NEW s \in Seq(B), NEW e \in B, s \in G PROVE Append(s, e) \in G
  <2>1. Append(s, e) \in Seq(B)
    OBVIOUS
  <2>2. Among(Append(s, e), S) = IF e \in S THEN Append(Among(s, S), e) ELSE Among(s, S)
    BY AmongAppend
  <2>3. PICK a : a = Among(s, S) /\ a \in Seq(B) /\ a \in Seq(S)
    BY <1>2
  <2>4. Append(a, e) \in Seq(B) /\ (e \in S => Append(a, e) \in Seq(S))
    BY <2>3
  <2> QED BY <2>1, <2>2, <2>3, <2>4
<1>3. Seq(B) \subseteq G
  <2> HIDE DEF G
  <2> QED BY <1>1, <1>2, ListInduction
<1> QED BY <1>3

LEMMA AmongConcat ==
  ASSUME NEW B, NEW s \in Seq(B), NEW S
  PROVE  \A t \in Seq(B) : Among(s \o t, S) = Among(s, S) \o Among(t, S)
<1> DEFINE G == {t \in Seq(B) : Among(s \o t, S) = Among(s, S) \o Among(t, S)}
<1>0. Among(s, S) \in Seq(B)
  BY AmongType
<1>1. <<>> \in G
  <2>1. s \o <<>> = s /\ Among(s, S) \o <<>> = Among(s, S)
    BY <1>0
  <2>2. Among(<<>>, S) = <<>> /\ <<>> \in Seq(B)
    BY AmongEmpty
  <2> QED BY <2>1, <2>2
<1>2. ASSUME NEW t \in Seq(B), NEW e \in B, t \in G PROVE Append(t, e) \in G
  <2>1. Append(t, e) \in Seq(B) /\ s \o t \in Seq(B) /\ s \o Append(t, e) = Append(s \o t, e)
    OBVIOUS
  <2>2. PICK a \in Seq(B) : a = Among(s, S)
    BY <1>0
  <2>3. PICK b \in Seq(B) : b = Among(t, S)
    BY AmongType
  <2>4. a \o Append(b, e) = Append(a \o b, e)
    OBVIOUS
  <2>5. Among(s \o t, S) = a \o b
    BY <1>2, <2>2, <2>3
  <2>6. Among(Append(t, e), S) = IF e \in S THEN Append(b, e) ELSE b
    BY <2>3, AmongAppend
  <2>7. Among(Append(s \o t, e), S) = IF e \in S THEN Append(a \o b, e) ELSE a \o b
    <3>1. \A c \in Seq(B) : Among(Append(c, e), S) = IF e \in S THEN Append(Among(c, S), e) ELSE Among(c, S)
      BY AmongAppend
    <3>2. Among(Append(s \o t, e), S) = IF e \in S THEN Append(Among(s \o t, S), e) ELSE Among(s \o t, S)
      BY <2>1, <3>1, Zenon
    <3> QED BY <2>5, <3>2
  <2>8. Among(s \o Append(t, e), S) = a \o Among(Append(t, e), S)
    BY <2>1, <2>4, <2>6, <2>7
  <2> QED BY <2>1, <2>2, <2>8
<1>3. Seq(B) \subseteq G
  <2> HIDE DEF G
  <2> QED BY <1>1, <1>2, ListInduction
<1> QED BY <1>3

LEMMA AmongOfConcat ==
  ASSUME NEW B, NEW S, NEW s \in Seq(B), NEW t \in Seq(B)
  PROVE  Among(s \o t, S) = Among(s, S) \o Among(t, S)
BY AmongConcat

\* It depends on which elements are in the set only.
LEMMA AmongSame ==
  ASSUME NEW s, NEW S, NEW T, \A i \in DOMAIN s : s[i] \in S <=> s[i] \in T
  PROVE  Among(s, S) = Among(s, T)
<1>1. PICK I : I = {i \in DOMAIN s : s[i] \in S} /\ I = {i \in DOMAIN s : s[i] \in T}
  OBVIOUS
<1> DEFINE list == [k \in 1..Cardinality(I) |-> s[CHOOSE i \in I : Cardinality({j \in I : j < i}) = k - 1]]
<1>2. Among(s, S) = list
  <2>1. I = {i \in DOMAIN s : s[i] \in S}
    BY <1>1
  <2> QED BY <2>1 DEF Among
<1>3. Among(s, T) = list
  <2>1. I = {i \in DOMAIN s : s[i] \in T}
    BY <1>1
  <2> QED BY <2>1 DEF Among
<1> QED BY <1>2, <1>3
=============================================================================
