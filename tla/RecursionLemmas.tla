-------------------------- MODULE RecursionLemmas --------------------------
(***************************************************************************)
(* Induction over natural numbers for sets and functions, without an       *)
(* operator as a parameter: the least element of a set, induction up to a  *)
(* bound, and the existence of a function defined by recursion.            *)
(***************************************************************************)
EXTENDS Integers, WellFoundedInduction, TLAPS

\* Every non-empty set of natural numbers has a least element.
LEMMA LeastElement ==
  ASSUME NEW T, T \subseteq Nat, T # {}
  PROVE  \E n \in T : \A m \in T : n <= m
<1> DEFINE R == {ss \in Nat \X Nat : ss[1] < ss[2]}
<1>1. IsWellFoundedOn(R, Nat)
  BY NatLessThanWellFounded DEF OpToRel
<1>2. PICK n \in T : \A m \in T : ~ (<<m, n>> \in R)
  <2> HIDE DEF R
  <2> QED BY <1>1, WFMin
<1>3. ASSUME NEW m \in T PROVE n <= m
  <2>1. m \in Nat /\ n \in Nat
    OBVIOUS
  <2>2. ASSUME m < n PROVE <<m, n>> \in R
    <3> DEFINE p == <<m, n>>
    <3>1. p[1] < p[2] /\ p \in Nat \X Nat
      BY <2>1, <2>2
    <3> HIDE DEF p
    <3>2. p \in R
      BY <3>1
    <3> QED BY <3>2 DEF p
  <2> QED BY <1>2, <2>1, <2>2
<1> QED BY <1>3

\* What holds at m and is kept by every step up to n holds from m to n.
LEMMA BoundedInduction ==
  ASSUME NEW m \in Nat, NEW n \in Nat, NEW Holds,
         m \in Holds,
         \A k \in m + 1 .. n : k - 1 \in Holds => k \in Holds
  PROVE  \A k \in m .. n : k \in Holds
<1> SUFFICES ASSUME NEW j \in m .. n, j \notin Holds PROVE FALSE
  OBVIOUS
<1> DEFINE T == {k \in Nat : k \in m .. n /\ k \notin Holds}
<1>1. j \in T
  OBVIOUS
<1>2. PICK k \in T : \A l \in T : k <= l
  <2>1. T \subseteq Nat /\ T # {}
    BY <1>1
  <2> HIDE DEF T
  <2> QED BY <2>1, LeastElement
<1>3. k # m /\ k \in m .. n /\ k \notin Holds
  OBVIOUS
<1>4. k - 1 \notin T
  BY <1>2, <1>3
<1>5. k - 1 \in Holds
  BY <1>3, <1>4
<1> QED BY <1>3, <1>5

\* A step function on D and a first value define a function on 0 .. n.
LEMMA IteratesExist ==
  ASSUME NEW D, NEW first \in D, NEW n \in Nat,
         NEW Step \in [D \X (1 .. n) -> D]
  PROVE  \E g \in [0 .. n -> D] :
           g[0] = first /\ \A k \in 1 .. n : g[k] = Step[<<g[k - 1], k>>]
<1> DEFINE Good(g, m) ==
      g[0] = first /\ \A k \in 1 .. m : g[k] = Step[<<g[k - 1], k>>]
    Holds == {m \in 0 .. n : \E g \in [0 .. m -> D] : Good(g, m)}
<1>1. 0 \in Holds
  <2> DEFINE g == [i \in 0 .. 0 |-> first]
  <2>1. g \in [0 .. 0 -> D] /\ Good(g, 0)
    OBVIOUS
  <2>2. 0 \in 0 .. n
    OBVIOUS
  <2> QED BY <2>1, <2>2
<1>2. ASSUME NEW m \in 0 + 1 .. n, m - 1 \in Holds PROVE m \in Holds
  <2>1. PICK f \in [0 .. m - 1 -> D] : Good(f, m - 1)
    BY <1>2
  <2> DEFINE g == [i \in 0 .. m |-> IF i = m THEN Step[<<f[m - 1], m>>] ELSE f[i]]
  <2>2. m \in 1 .. n /\ m - 1 \in 0 .. m - 1
    OBVIOUS
  <2>3. f[m - 1] \in D
    BY <2>1, <2>2
  <2>4. Step[<<f[m - 1], m>>] \in D
    <3>1. <<f[m - 1], m>> \in D \X (1 .. n)
      BY <2>2, <2>3
    <3> QED BY <3>1
  <2>5. g \in [0 .. m -> D]
    BY <2>1, <2>2, <2>4
  <2>6. g[0] = first
    BY <2>1, <2>2
  <2>7. ASSUME NEW k \in 1 .. m PROVE g[k] = Step[<<g[k - 1], k>>]
    <3>1. k \in 0 .. m /\ k - 1 \in 0 .. m - 1 /\ k - 1 \in 0 .. m
      OBVIOUS
    <3>2. g[k - 1] = f[k - 1]
      BY <3>1
    <3>3. CASE k = m
      BY <3>1, <3>2, <3>3
    <3>4. CASE k # m
      <4>1. k \in 1 .. m - 1
        BY <3>4
      <4>2. f[k] = Step[<<f[k - 1], k>>]
        BY <4>1, <2>1
      <4> QED BY <3>1, <3>2, <3>4, <4>2
    <3> QED BY <3>3, <3>4
  <2>8. m \in 0 .. n
    OBVIOUS
  <2> HIDE DEF g
  <2> QED BY <2>5, <2>6, <2>7, <2>8
<1>3. \A k \in 0 .. n : k \in Holds
  <2> HIDE DEF Holds
  <2>1. 0 \in Nat
    OBVIOUS
  <2> QED BY <1>1, <1>2, <2>1, BoundedInduction
<1>4. n \in 0 .. n
  OBVIOUS
<1>5. \E g \in [0 .. n -> D] : Good(g, n)
  BY <1>3, <1>4
<1> QED BY <1>5

\* The same for use with a given set: every step function on D can be iterated.
Iterates(D) ==
  \A first \in D : \A n \in Nat : \A Step \in [D \X (1 .. n) -> D] :
    \E g \in [0 .. n -> D] :
      g[0] = first /\ \A k \in 1 .. n : g[k] = Step[<<g[k - 1], k>>]

LEMMA EveryStepIterates == \A D : Iterates(D)
BY IteratesExist DEF Iterates
=============================================================================
