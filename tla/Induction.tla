------------------------------ MODULE Induction ------------------------------
(***************************************************************************)
(* Induction on the naturals and on the subsets of a finite set, and       *)
(* recursion, in a form without operator parameters: the induction         *)
(* hypothesis is a set, the step of a recursion is a function.  All follow *)
(* from the well-founded order of the finite sets.                         *)
(***************************************************************************)
EXTENDS Integers, FiniteSets, FiniteSetTheorems, TLAPS

\* Every set of numbers has a least one: the segment 0..n of the least n is
\* minimal among the segments of its members.
LEMMA LeastNumber ==
  ASSUME NEW T \in SUBSET Nat, T # {}
  PROVE  \E n \in T : \A m \in T : n <= m
<1> DEFINE Segments == {0..n : n \in T}
<1>1. Segments \subseteq FiniteSubsetsOf(Nat)
  <2>1. \A n \in T : 0..n \in SUBSET Nat /\ IsFiniteSet(0..n)
    BY FS_Interval
  <2>2. QED BY <2>1 DEF FiniteSubsetsOf
<1>2. Segments # {} OBVIOUS
<1>3. PICK x \in Segments : \A y \in Segments : <<y, x>> \notin StrictSubsetOrdering(Nat)
  BY <1>1, <1>2, FS_StrictSubsetOrderingWellFounded, WFMin
<1>4. PICK n \in T : x = 0..n
  OBVIOUS
<1>5. \A m \in T : n <= m
  <2> SUFFICES ASSUME NEW m \in T, m < n PROVE FALSE
    OBVIOUS
  <2>1. /\ 0..m \in Segments /\ 0..m \subseteq 0..n /\ 0..m # 0..n
        /\ 0..m \in SUBSET Nat /\ 0..n \in SUBSET Nat
    BY SMT
  <2>2. QED BY <2>1, <1>3, <1>4 DEF StrictSubsetOrdering
<1>6. QED BY <1>5

\* A set that has 0, and with every number its successor, has all numbers.
THEOREM SetInduction ==
  ASSUME NEW P, 0 \in P, \A n \in Nat : n \in P => n + 1 \in P
  PROVE  Nat \subseteq P
<1> SUFFICES ASSUME Nat \ P # {} PROVE FALSE
  OBVIOUS
<1>1. PICK n \in Nat \ P : \A m \in Nat \ P : n <= m
  BY LeastNumber
<1>2. n # 0 /\ n - 1 \in Nat /\ n = (n - 1) + 1
  OBVIOUS
<1>3. n - 1 \in P
  BY <1>1, <1>2
<1>4. QED BY <1>2, <1>3, <1>1

\* The same up to a bound.
THEOREM BoundedInduction ==
  ASSUME NEW N \in Nat, NEW P, 0 \in P, \A n \in 1..N : n - 1 \in P => n \in P
  PROVE  0..N \subseteq P
<1> DEFINE Q == P \cup {n \in Nat : n > N}
<1>1. \A n \in Nat : n \in Q => n + 1 \in Q
  <2> SUFFICES ASSUME NEW n \in Nat, n \in Q, n + 1 <= N PROVE n + 1 \in P
    OBVIOUS
  <2>1. n \in P /\ n + 1 \in 1..N /\ (n + 1) - 1 = n
    OBVIOUS
  <2>2. QED BY <2>1
<1>2. Nat \subseteq Q
  <2> HIDE DEF Q
  <2>1. 0 \in Q BY DEF Q
  <2>2. QED BY <1>1, <2>1, SetInduction
<1>3. QED BY <1>2

\* A step takes the index and the value before it to a value.
Steps(N, X) == [(1..N) \X X -> X]

Recursive(f, N, X, base, step) ==
  /\ f \in [0..N -> X]
  /\ f[0] = base
  /\ \A i \in 1..N : f[i] = step[<<i, f[i - 1]>>]

\* A first value and a step determine a function on 0..N.
THEOREM Recursion ==
  ASSUME NEW N \in Nat, NEW X, NEW base \in X, NEW step \in Steps(N, X)
  PROVE  \E f : Recursive(f, N, X, base, step)
<1> DEFINE Good(n, f) == f[0] = base /\ \A i \in 1..n : f[i] = step[<<i, f[i - 1]>>]
           P == {n \in 0..N : \E f \in [0..n -> X] : Good(n, f)}
<1>1. 0 \in P
  <2> DEFINE g == [i \in 0..0 |-> base]
  <2>1. g \in [0..0 -> X] /\ Good(0, g)
    OBVIOUS
  <2> HIDE DEF g
  <2>2. QED BY <2>1
<1>2. ASSUME NEW n \in 1..N, n - 1 \in P PROVE n \in P
  <2>1. PICK f \in [0..(n - 1) -> X] : Good(n - 1, f)
    BY <1>2
  <2> DEFINE g == [i \in 0..n |-> IF i = n THEN step[<<n, f[n - 1]>>] ELSE f[i]]
  <2>2. f[n - 1] \in X /\ <<n, f[n - 1]>> \in (1..N) \X X
    OBVIOUS
  <2>3. g \in [0..n -> X]
    BY <2>2 DEF Steps
  <2>4. g[0] = base
    BY <2>1
  <2>5. ASSUME NEW i \in 1..n PROVE g[i] = step[<<i, g[i - 1]>>]
    <3>1. g[i - 1] = f[i - 1]
      OBVIOUS
    <3>2. CASE i = n
      <4>1. g[i] = step[<<n, f[n - 1]>>]
        BY <3>2
      <4>2. QED BY <4>1, <3>1, <3>2
    <3>3. CASE i # n
      <4>1. i \in 1..(n - 1) /\ g[i] = f[i]
        BY <3>3
      <4>2. QED BY <4>1, <3>1, <2>1
    <3>4. QED BY <3>2, <3>3
  <2> HIDE DEF g
  <2>6. QED BY <2>3, <2>4, <2>5
<1>3. N \in P
  <2> HIDE DEF P
  <2>1. 0..N \subseteq P
    BY <1>1, <1>2, BoundedInduction
  <2>2. QED BY <2>1
<1>4. QED BY <1>3 DEF Recursive

\* A family that has the empty set, and every set of which it has what is left
\* without any one member, has all the subsets of a finite set.
THEOREM SubsetInduction ==
  ASSUME NEW S, IsFiniteSet(S), NEW P, {} \in P,
         \A t \in SUBSET S : t # {} /\ (\A x \in t : t \ {x} \in P) => t \in P
  PROVE  SUBSET S \subseteq P
<1> DEFINE Q == {n \in Nat : \A t \in SUBSET S : Cardinality(t) = n => t \in P}
<1>1. \A t \in SUBSET S : IsFiniteSet(t) /\ Cardinality(t) \in Nat
  BY FS_Subset, FS_CardinalityType
<1>2. 0 \in Q
  BY <1>1, FS_EmptySet
<1>3. ASSUME NEW n \in Nat, n \in Q PROVE n + 1 \in Q
  <2> SUFFICES ASSUME NEW t \in SUBSET S, Cardinality(t) = n + 1 PROVE t \in P
    OBVIOUS
  <2>1. t # {}
    BY FS_EmptySet
  <2>2. ASSUME NEW x \in t PROVE t \ {x} \in P
    <3>1. Cardinality(t \ {x}) = n
      BY <1>1, FS_RemoveElement
    <3>2. QED BY <3>1, <1>3
  <2>3. QED BY <2>1, <2>2
<1> HIDE DEF Q
<1>4. Nat \subseteq Q
  BY <1>2, <1>3, SetInduction
<1>5. QED BY <1>1, <1>4 DEF Q
=============================================================================
