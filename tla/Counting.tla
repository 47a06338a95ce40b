------------------------------ MODULE Counting ------------------------------
(***************************************************************************)
(* Lemmas on numbers and on functions defined by recursion over them, for  *)
(* the proofs about nodes, clauses and bytes.                              *)
(***************************************************************************)
EXTENDS Integers, TLAPS, WellFoundedInduction

\* A nonempty set of numbers has a least element.
LEMMA LeastNumber ==
    ASSUME NEW S \in SUBSET Nat, S # {}
    PROVE  \E x \in S : \A y \in S : x <= y
<1> DEFINE R == {ss \in Nat \X Nat : ss[1] < ss[2]}
<1>1. IsWellFoundedOn(R, Nat)
  BY NatLessThanWellFounded DEF OpToRel
<1>2. \E x \in S : \A y \in S : ~(<<y, x>> \in R)
  <2> HIDE DEF R
  <2> QED BY <1>1, WFMin
<1>3. PICK x \in S : \A y \in S : ~(<<y, x>> \in R)
  BY <1>2
<1>4. ASSUME NEW y \in S PROVE x <= y
  <2>1. x \in Nat /\ y \in Nat /\ <<y, x>> \in Nat \X Nat
    OBVIOUS
  <2>2. ~(<<y, x>>[1] < <<y, x>>[2])
    BY <1>3, <2>1
  <2> QED
    BY <2>1, <2>2
<1> QED
  BY <1>4

\* What holds of 0 and passes from each number to the next holds up to n.
LEMMA UpTo ==
    ASSUME NEW n \in Nat, NEW P, 0 \in P, \A k \in 1..n : k - 1 \in P => k \in P
    PROVE  \A k \in 0..n : k \in P
<1> DEFINE S == {k \in 0..n : k \notin P}
<1> SUFFICES ASSUME S # {} PROVE FALSE
  OBVIOUS
<1>1. S \in SUBSET Nat
  OBVIOUS
<1>2. PICK x \in S : \A y \in S : x <= y
  <2> HIDE DEF S
  <2> QED BY <1>1, LeastNumber
<1>3. x \in 1..n /\ x - 1 \in 0..n /\ x - 1 \notin S
  BY <1>2
<1> QED
  BY <1>3

\* A function can be defined by its first value and a step.
StepsOf(n, S) == [1..n -> [S -> S]]
LEMMA StepByStep ==
    ASSUME NEW S, NEW a \in S, NEW n \in Nat, NEW G \in StepsOf(n, S)
    PROVE  \E f \in [0..n -> S] : f[0] = a /\ \A k \in 1..n : f[k] = G[k][f[k - 1]]
<1> USE DEF StepsOf
<1> DEFINE Good(m, f) == f[0] = a /\ \A k \in 1..m : f[k] = G[k][f[k - 1]]
           P == {m \in 0..n : \E f \in [0..n -> S] : Good(m, f)}
<1>1. 0 \in P
  <2>1. [k \in 0..n |-> a] \in [0..n -> S] /\ Good(0, [k \in 0..n |-> a])
    OBVIOUS
  <2> HIDE DEF Good
  <2>2. \E f \in [0..n -> S] : Good(0, f)
    BY <2>1
  <2> QED
    BY <2>2
<1>2. ASSUME NEW m \in 1..n, m - 1 \in P PROVE m \in P
  <2>1. PICK f \in [0..n -> S] : Good(m - 1, f)
    BY <1>2
  <2>2. m \in 0..n /\ m - 1 \in 0..n /\ m # m - 1 /\ f[m - 1] \in S
    OBVIOUS
  <2>3. G[m][f[m - 1]] \in S
    BY <2>2
  <2> DEFINE g == [f EXCEPT ![m] = G[m][f[m - 1]]]
  <2>4. g \in [0..n -> S] /\ g[m] = G[m][f[m - 1]]
    BY <2>2, <2>3
  <2>5. \A k \in 0..m - 1 : g[k] = f[k]
    BY <2>2
  <2> HIDE DEF g
  <2>6. Good(m, g)
    <3>1. g[0] = a
      BY <2>1, <2>5
    <3>2. ASSUME NEW k \in 1..m PROVE g[k] = G[k][g[k - 1]]
      <4>1. CASE k = m
        <5>1. g[m - 1] = f[m - 1]
          BY <2>5
        <5> QED
          BY <2>4, <4>1, <5>1
      <4>2. CASE k # m
        <5>1. k \in 1..m - 1 /\ k - 1 \in 0..m - 1 /\ k \in 0..m - 1
          BY <4>2
        <5> QED
          BY <2>1, <2>5, <5>1
      <4> QED
        BY <4>1, <4>2
    <3> QED
      BY <3>1, <3>2
  <2> HIDE DEF Good
  <2>7. \E h \in [0..n -> S] : Good(m, h)
    BY <2>4, <2>6
  <2> QED
    BY <2>2, <2>7
<1> HIDE DEF P
<1>3. \A k \in 1..n : k - 1 \in P => k \in P
  BY <1>2
<1>4. \A k \in 0..n : k \in P
  BY <1>1, <1>3, UpTo
<1>5. n \in P
  BY <1>4
<1> QED
  BY <1>5 DEF P

\* The same for one step that is repeated.
Repeats(r, S, a, n, F) == r \in [0..n -> S] /\ r[0] = a /\ \A k \in 1..n : r[k] = F[r[k - 1]]
LEMMA RecursiveFunction ==
    ASSUME NEW S, NEW a \in S, NEW n \in Nat, NEW F \in [S -> S]
    PROVE  \E r : Repeats(r, S, a, n, F)
<1> DEFINE G == [k \in 1..n |-> F]
<1>1. G \in StepsOf(n, S)
  BY DEF StepsOf
<1>2. PICK r \in [0..n -> S] : r[0] = a /\ \A k \in 1..n : r[k] = G[k][r[k - 1]]
  <2> HIDE DEF G
  <2> QED BY <1>1, StepByStep
<1>3. \A k \in 1..n : r[k] = F[r[k - 1]]
  BY <1>2
<1>4. Repeats(r, S, a, n, F)
  BY <1>2, <1>3 DEF Repeats
<1> QED
  BY <1>4
=============================================================================
