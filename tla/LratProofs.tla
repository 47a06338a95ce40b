----------------------------- MODULE LratProofs -----------------------------
(***************************************************************************)
(* Theorems about lrat-check: what it accepts is sound, whatever the proof *)
(* file holds, and it accepts every line that propagation proves.         *)
(***************************************************************************)
EXTENDS LratCheck, Counting, FiniteSetTheorems, SequenceTheorems

-----------------------------------------------------------------------------
(* Propagation along the hints.                                            *)

Holds(A, x) == IF x > 0 THEN x \in A ELSE -x \notin A
Marks == [Codes -> Nat]

\* The clauses that are live: their ids, their literals.
DbType ==
    /\ db = [i \in DOMAIN db |-> db[i]] /\ DOMAIN db \subseteq 1..clsLast
    /\ \A i \in DOMAIN db : db[i] \subseteq CheckedLits

\* The state of the checker, between two lines.
CheckTypeOK ==
    /\ DbType
    /\ intro \in Marks /\ mask \in Marks /\ now \in Nat /\ clsLast \in Nat
    /\ \A x \in Codes : intro[x] <= clsLast
    /\ verified \in BOOLEAN /\ status \in {"checking", "refused", "ended"}

\* The literals are numbers, 0 and its negation are none of them.
LEMMA LiteralFacts ==
    /\ CheckedLits \subseteq Int /\ IsFiniteSet(CheckedLits) /\ Codes \subseteq Int
    /\ \A x \in CheckedLits : /\ x # 0 /\ x \in Codes /\ -x \in CheckedLits /\ Flip(x) = -x
                              /\ -(-x) = x
    /\ 0 \in Codes /\ NoLit \in Codes /\ NoLit \notin CheckedLits /\ 0 \notin CheckedLits /\ Flip(0) = NoLit
<1> DEFINE N == Cardinality(CheckedVars)
<1>1. IsFiniteSet(CheckedVars) /\ CheckedVars = 1..N /\ N \in Nat
  BY CheckAssumption, FS_CardinalityType
<1> HIDE DEF N
<1>2. CheckedLits \subseteq Int /\ \A x \in CheckedLits : x # 0 /\ -x \in CheckedLits /\ -(-x) = x
  BY <1>1 DEF CheckedLits
<1>3. N + 1 \notin CheckedLits
  BY <1>1 DEF CheckedLits
<1>4. IsFiniteSet(CheckedLits)
  <2>1. IsFiniteSet((0 - N)..N) /\ CheckedLits \subseteq (0 - N)..N
    <3>1. IsFiniteSet((0 - N)..N)
      BY <1>1, FS_Interval
    <3> QED
      BY <1>1, <3>1 DEF CheckedLits
  <2> QED
    BY <2>1, FS_Subset
<1>5. NoLit = N + 1 /\ NoLit \in Int /\ 0 \notin CheckedLits
  BY <1>1, <1>2 DEF NoLit, N
<1>6. CheckedLits \subseteq Codes /\ 0 \in Codes /\ NoLit \in Codes /\ Codes \subseteq Int
  <2>1. NoLit \in Int /\ CheckedLits \subseteq Int
    BY <1>2, <1>5
  <2> QED
    BY <2>1 DEF Codes
<1>7. \A x \in CheckedLits : Flip(x) = -x
  BY <1>2 DEF Flip
<1> QED
  BY <1>2, <1>3, <1>4, <1>5, <1>6, <1>7 DEF Flip

PropStates == [res : {"open", "conflict", "failed"}, mask : Marks]

\* Marking literals leaves marks.
LEMMA MarkedType ==
    ASSUME NEW m \in Marks, NEW S, NEW t \in Nat
    PROVE  /\ Marked(m, S, t) \in Marks
           /\ \A x \in Codes : Marked(m, S, t)[x] = IF x \in S THEN t ELSE m[x]
BY DEF Marked, Marks

LEMMA UseHintType ==
    ASSUME NEW acc \in PropStates, NEW h, NEW t \in Nat
    PROVE  UseHint(acc, h, t) \in PropStates
<1> DEFINE rest == {x \in db[h] : acc.mask[x] < t}
           S == {Flip(x) : x \in rest}
<1>1. Marked(acc.mask, S, t) \in Marks
  BY MarkedType DEF PropStates
<1> QED
  BY <1>1 DEF UseHint, PropStates

\* Propagation uses one hint after the other.
PropRun(run, m, hs, t) ==
    /\ run \in [0..Len(hs) -> PropStates]
    /\ run[0] = [res |-> "open", mask |-> m]
    /\ \A k \in 1..Len(hs) : run[k] = UseHint(run[k - 1], hs[k], t)
    /\ Propagated(m, hs, t) = run[Len(hs)]
LEMMA PropagatedRun ==
    ASSUME NEW m \in Marks, NEW hs \in Seq(Int), NEW t \in Nat
    PROVE  \E run : PropRun(run, m, hs, t)
<1> DEFINE n == Len(hs)
           first == [res |-> "open", mask |-> m]
           G == [k \in 1..n |-> [acc \in PropStates |-> UseHint(acc, hs[k], t)]]
           R(f) == f = [k \in 0..n |-> IF k = 0 THEN first ELSE UseHint(f[k - 1], hs[k], t)]
           run == CHOOSE f : R(f)
<1>1. n \in Nat /\ first \in PropStates
  BY DEF PropStates
<1>2. G \in StepsOf(n, PropStates)
  BY UseHintType DEF StepsOf
<1>3. PICK f \in [0..n -> PropStates] : f[0] = first /\ \A k \in 1..n : f[k] = G[k][f[k - 1]]
  <2> HIDE DEF n, first, G, R, run
  <2>1. n \in Nat
    BY <1>1
  <2>2. first \in PropStates
    BY <1>1
  <2> QED BY <1>2, <2>1, <2>2, StepByStep, SMTT(40)
<1>4. \A k \in 1..n : G[k][f[k - 1]] = UseHint(f[k - 1], hs[k], t)
  <2>1. \A k \in 1..n : f[k - 1] \in PropStates
    BY <1>1, SMTT(40)
  <2> QED
    BY <2>1
<1>5. R(f)
  <2>1. \A k \in 1..n : f[k] = UseHint(f[k - 1], hs[k], t)
    BY <1>3, <1>4
  <2> HIDE DEF G, first, n
  <2> QED BY <1>1, <1>3, <2>1
<1>6. R(run)
  <2> HIDE DEF R
  <2> QED BY <1>5
<1>7. /\ run = [k \in 0..n |-> run[k]] /\ run[0] = first
      /\ \A k \in 1..n : run[k] = UseHint(run[k - 1], hs[k], t)
  <2> HIDE DEF run, first
  <2> QED BY <1>1, <1>6
<1>8. Propagated(m, hs, t) = run[n]
  BY DEF Propagated
<1> HIDE DEF run, first, n
<1>9. \A k \in 0..n : run[k] \in PropStates
  <2> DEFINE P == {k \in 0..n : run[k] \in PropStates}
  <2>1. 0 \in P
    BY <1>1, <1>7
  <2>2. ASSUME NEW k \in 1..n, k - 1 \in P PROVE k \in P
    <3>1. UseHint(run[k - 1], hs[k], t) \in PropStates
      BY <2>2, UseHintType
    <3>2. k \in 0..n
      BY <1>1
    <3>3. \A j \in 1..n : run[j] = UseHint(run[j - 1], hs[j], t)
      BY <1>7
    <3>4. run[k] = UseHint(run[k - 1], hs[k], t)
      BY <3>3
    <3> QED
      BY <3>1, <3>2, <3>4
  <2> HIDE DEF P
  <2>3. \A k \in 0..n : k \in P
    BY <1>1, <2>1, <2>2, UpTo
  <2> QED
    BY <2>3 DEF P
<1>10. run \in [0..n -> PropStates]
  BY <1>7, <1>9
<1> QED
  BY <1>7, <1>8, <1>10 DEF first, n, PropRun

\* What holds at the start of a propagation and passes over every hint holds at
\* its end.
LEMMA PropagatedKeeps ==
    ASSUME NEW m \in Marks, NEW hs \in Seq(Int), NEW t \in Nat, NEW P,
           [res |-> "open", mask |-> m] \in P,
           \A acc \in PropStates, h \in Int : acc \in P => UseHint(acc, h, t) \in P
    PROVE  Propagated(m, hs, t) \in PropStates \cap P
<1>0. PICK run : PropRun(run, m, hs, t)
  BY PropagatedRun
<1>1. /\ run \in [0..Len(hs) -> PropStates]
      /\ run[0] = [res |-> "open", mask |-> m]
      /\ \A k \in 1..Len(hs) : run[k] = UseHint(run[k - 1], hs[k], t)
      /\ Propagated(m, hs, t) = run[Len(hs)]
  BY <1>0 DEF PropRun
<1>2. Len(hs) \in Nat /\ \A k \in 1..Len(hs) : hs[k] \in Int /\ k - 1 \in 0..Len(hs)
  OBVIOUS
<1> DEFINE K == {k \in 0..Len(hs) : run[k] \in P}
<1>3. 0 \in K
  BY <1>1, <1>2
<1>4. ASSUME NEW k \in 1..Len(hs), k - 1 \in K PROVE k \in K
  <2>1. run[k - 1] \in P /\ run[k - 1] \in PropStates /\ hs[k] \in Int
    BY <1>1, <1>2, <1>4
  <2>2. UseHint(run[k - 1], hs[k], t) \in P
    BY <2>1
  <2> QED
    BY <1>1, <2>2
<1> HIDE DEF K
<1>5. \A k \in 0..Len(hs) : k \in K
  BY <1>2, <1>3, <1>4, UpTo
<1>6. run[Len(hs)] \in P /\ run[Len(hs)] \in PropStates
  BY <1>1, <1>2, <1>5 DEF K
<1> QED
  BY <1>1, <1>6

\* Propagation marks literals with its own number, and leaves the other marks.
LEMMA PropagatedMarks ==
    ASSUME NEW m \in Marks, NEW hs \in Seq(Int), NEW t \in Nat
    PROVE  /\ Propagated(m, hs, t) \in PropStates
           /\ \A x \in Codes : Propagated(m, hs, t).mask[x] \in {m[x], t}
<1> DEFINE P == {acc \in PropStates : \A x \in Codes : acc.mask[x] \in {m[x], t}}
<1>1. [res |-> "open", mask |-> m] \in P
  BY DEF PropStates
<1>2. ASSUME NEW acc \in PropStates, NEW h \in Int, acc \in P PROVE UseHint(acc, h, t) \in P
  <2> DEFINE S == {Flip(x) : x \in {y \in db[h] : acc.mask[y] < t}}
  <2>1. UseHint(acc, h, t) \in PropStates
    BY UseHintType
  <2>2. UseHint(acc, h, t).mask \in {acc.mask, Marked(acc.mask, S, t)}
    BY DEF UseHint, PropStates
  <2>3. \A x \in Codes : Marked(acc.mask, S, t)[x] \in {acc.mask[x], t}
    <3>1. acc.mask \in Marks
      BY DEF PropStates
    <3> HIDE DEF S
    <3> QED
      BY <3>1, MarkedType
  <2>4. \A x \in Codes : UseHint(acc, h, t).mask[x] \in {m[x], t}
    <3> HIDE DEF S
    <3> QED BY <1>2, <2>2, <2>3
  <2> QED
    BY <2>1, <2>4
<1> HIDE DEF P
<1>3. Propagated(m, hs, t) \in PropStates \cap P
  BY <1>1, <1>2, PropagatedKeeps
<1> QED
  BY <1>3 DEF P

\* The literals marked by t or a newer number are false in A.
MarksFalse(A, m, t) == \A x \in CheckedLits : m[x] >= t => ~Holds(A, x)

\* A literal or its negation holds.
LEMMA EitherHolds ==
    ASSUME NEW A, NEW x \in CheckedLits
    PROVE  Holds(A, -x) <=> ~Holds(A, x)
BY LiteralFacts DEF Holds

\* Where the live clauses hold and the marked literals are false, a hint is never
\* falsified, and the literal that it adds is false.
LEMMA PropagatedSound ==
    ASSUME DbType, NEW A, \A i \in DOMAIN db : Satisfies(A, db[i]),
           NEW m \in Marks, NEW hs \in Seq(Int), NEW t \in Nat, MarksFalse(A, m, t)
    PROVE  /\ Propagated(m, hs, t).res # "conflict"
           /\ MarksFalse(A, Propagated(m, hs, t).mask, t)
<1> DEFINE P == {acc \in PropStates : acc.res # "conflict" /\ MarksFalse(A, acc.mask, t)}
<1>1. [res |-> "open", mask |-> m] \in P
  BY DEF PropStates
<1>2. ASSUME NEW acc \in PropStates, NEW h \in Int, acc \in P PROVE UseHint(acc, h, t) \in P
  <2> DEFINE rest == {x \in db[h] : acc.mask[x] < t}
             S == {Flip(x) : x \in rest}
  <2>1. UseHint(acc, h, t) \in PropStates
    BY UseHintType
  <2>2. acc.res \in {"open", "failed"} /\ acc.mask \in Marks /\ MarksFalse(A, acc.mask, t)
    BY <1>2 DEF PropStates
  <2>3. CASE UseHint(acc, h, t).mask = acc.mask /\ UseHint(acc, h, t).res # "conflict"
    BY <2>1, <2>2, <2>3
  <2>4. CASE acc.res = "open" /\ h \in DOMAIN db
    <3>1. db[h] \subseteq CheckedLits /\ \E x \in db[h] : Holds(A, x)
      BY <2>4 DEF DbType, Satisfies, Holds
    <3>2. PICK y \in db[h] : Holds(A, y)
      BY <3>1
    <3>3. y \in CheckedLits /\ y \in rest
      <4>1. y \in CheckedLits /\ y \in Codes /\ acc.mask[y] \in Nat
        BY <2>2, <3>1, LiteralFacts DEF Marks
      <4> QED
        BY <2>2, <3>2, <4>1 DEF MarksFalse
    <3>4. CASE Cardinality(rest) > 1
      <4>1. UseHint(acc, h, t) = [acc EXCEPT !.res = "failed"]
        BY <2>4, <3>3, <3>4 DEF UseHint
      <4>2. UseHint(acc, h, t).mask = acc.mask /\ UseHint(acc, h, t).res # "conflict"
        BY <4>1 DEF PropStates
      <4> QED
        BY <2>3, <4>2
    <3>5. CASE ~(Cardinality(rest) > 1)
      <4>1. IsFiniteSet(rest)
        BY <3>1, LiteralFacts, FS_Subset
      <4>2. rest = {y}
        <5> HIDE DEF rest
        <5>1. Cardinality(rest) \in Nat /\ Cardinality(rest) # 0
          BY <3>3, <4>1, FS_CardinalityType, FS_EmptySet
        <5>2. Cardinality(rest) = 1
          BY <3>5, <5>1
        <5>3. \E z : rest = {z}
          BY <4>1, <5>2, FS_Singleton
        <5> QED
          BY <3>3, <5>3
      <4>3. UseHint(acc, h, t) = [acc EXCEPT !.mask = Marked(@, S, t)]
        BY <2>4, <3>3, <3>5 DEF UseHint
      <4>4. S = {-y}
        <5>1. Flip(y) = -y
          BY <3>3, LiteralFacts
        <5> HIDE DEF rest
        <5> QED BY <4>2, <5>1
      <4>5. UseHint(acc, h, t).res = "open" /\ UseHint(acc, h, t).mask = Marked(acc.mask, S, t)
        BY <2>4, <4>3 DEF PropStates
      <4>6. MarksFalse(A, Marked(acc.mask, S, t), t)
        <5> HIDE DEF S
        <5>1. ASSUME NEW x \in CheckedLits, Marked(acc.mask, S, t)[x] >= t PROVE ~Holds(A, x)
          <6>1. x \in Codes
            BY LiteralFacts
          <6>2. CASE x \in S
            BY <3>2, <3>3, <4>4, <6>2, EitherHolds
          <6>3. CASE x \notin S
            <7>1. Marked(acc.mask, S, t)[x] = acc.mask[x]
              BY <2>2, <6>1, <6>3, MarkedType
            <7> QED
              BY <2>2, <5>1, <7>1 DEF MarksFalse
          <6> QED
            BY <6>2, <6>3
        <5> QED
          BY <5>1 DEF MarksFalse
      <4> QED
        BY <2>1, <4>5, <4>6
    <3> QED
      BY <3>4, <3>5
  <2>5. CASE acc.res # "open"
    BY <2>2, <2>3, <2>5 DEF UseHint
  <2>6. CASE acc.res = "open" /\ h \notin DOMAIN db
    <3>1. UseHint(acc, h, t) = [acc EXCEPT !.res = "failed"]
      BY <2>6 DEF UseHint
    <3>2. UseHint(acc, h, t).mask = acc.mask /\ UseHint(acc, h, t).res # "conflict"
      BY <3>1 DEF PropStates
    <3> QED
      BY <2>3, <3>2
  <2> QED
    BY <2>4, <2>5, <2>6
<1> HIDE DEF P
<1>3. Propagated(m, hs, t) \in PropStates \cap P
  BY <1>1, <1>2, PropagatedKeeps
<1> QED
  BY <1>3 DEF P

-----------------------------------------------------------------------------
(* Resolvents.                                                             *)

LEMMA MinFacts ==
    ASSUME NEW S \in SUBSET Nat, S # {}
    PROVE  Min(S) \in S /\ \A y \in S : Min(S) <= y
<1>1. \E x \in S : \A y \in S : x <= y
  BY LeastNumber
<1> QED
  BY <1>1 DEF Min

\* The hints after a place are hints.
LEMMA AfterType ==
    ASSUME NEW hints \in Seq(Int), NEW k \in 0..Len(hints)
    PROVE  After(hints, k) \in Seq(Int)
<1> DEFINE n == Len(hints)
           stop == {j \in (k + 1)..n : hints[j] < 0} \cup {n + 1}
<1>1. n \in Nat /\ k \in Nat
  OBVIOUS
<1>2. stop \in SUBSET Nat /\ stop # {} /\ n + 1 \in stop /\ \A j \in stop : k + 1 <= j /\ j <= n + 1
  BY <1>1
<1> HIDE DEF stop, n
<1>3. PICK w \in stop : w = Min(stop)
  BY <1>2, MinFacts
<1>4. w - 1 <= n /\ w - 1 \in Int /\ k + 1 >= 1 /\ k + 1 \in Int
  BY <1>1, <1>2
<1>5. \A i \in (k + 1)..(w - 1) : hints[i] \in Int
  <2>1. \A i \in (k + 1)..(w - 1) : i \in 1..n
    BY <1>1, <1>4
  <2> QED
    BY <2>1 DEF n
<1>6. SubSeq(hints, k + 1, w - 1) \in Seq(Int)
  BY <1>4, <1>5, SubSeqProperties
<1> QED
  BY <1>3, <1>6 DEF After, stop, n

\* A state that satisfies a literal, and what held except the negation of it.
LEMMA FlipModel ==
    ASSUME NEW A \in SUBSET CheckedVars, NEW p \in CheckedLits
    PROVE  \E B \in SUBSET CheckedVars :
              Holds(B, p) /\ \A x \in CheckedLits : x # -p /\ Holds(A, x) => Holds(B, x)
<1>1. p \in Int /\ p # 0 /\ CheckedVars \subseteq Nat \ {0} /\ CheckedLits \subseteq Int \ {0}
  <2>1. CheckedVars \subseteq Nat \ {0}
    BY CheckAssumption, FS_CardinalityType
  <2> QED
    BY <2>1, LiteralFacts
<1>2. (p > 0 => p \in CheckedVars) /\ (p < 0 => -p \in CheckedVars)
  BY <1>1 DEF CheckedLits
<1>3. CASE p > 0
  <2>1. A \cup {p} \in SUBSET CheckedVars /\ Holds(A \cup {p}, p)
    BY <1>2, <1>3 DEF Holds
  <2>2. \A x \in CheckedLits : x # -p /\ Holds(A, x) => Holds(A \cup {p}, x)
    BY <1>1, <1>3 DEF Holds
  <2> QED
    BY <2>1, <2>2
<1>4. CASE p < 0
  <2>1. A \ {-p} \in SUBSET CheckedVars /\ Holds(A \ {-p}, p)
    BY <1>1, <1>2, <1>4 DEF Holds
  <2>2. \A x \in CheckedLits : x # -p /\ Holds(A, x) => Holds(A \ {-p}, x)
    BY <1>1, <1>4 DEF Holds
  <2> QED
    BY <2>1, <2>2
<1> QED
  BY <1>1, <1>3, <1>4

ResolventStates == [res : {"open", "conflict", "failed", "blocked"}, mask : Marks]

\* What the check of one resolvent does to the marks, and what it needs.
Judged(q, pivot, start, cand, m, t) ==
    /\ q \in ResolventStates
    /\ \A x \in Codes : q.mask[x] \in {m[x], t}
    /\ q.res # "failed" => cand \in DOMAIN db /\ ~Occurs(Flip(pivot), start, cand - 1)
LEMMA ResolventFacts ==
    ASSUME NEW pivot, NEW start, NEW cand, NEW m \in Marks, NEW hs \in Seq(Int), NEW t \in Nat
    PROVE  Judged(Resolvent(pivot, start, cand, m, hs, t), pivot, start, cand, m, t)
<1> DEFINE S == {x \in db[cand] \ {Flip(pivot)} : m[x] < t}
           p == Propagated(Marked(m, S, t), hs, t)
           q == Resolvent(pivot, start, cand, m, hs, t)
<1>1. Marked(m, S, t) \in Marks /\ \A x \in Codes : Marked(m, S, t)[x] \in {m[x], t}
  <2> HIDE DEF S
  <2> QED BY MarkedType
<1>2. p \in PropStates /\ \A x \in Codes : p.mask[x] \in {Marked(m, S, t)[x], t}
  <2> HIDE DEF S
  <2> QED BY <1>1, PropagatedMarks
<1>3. \/ q = [res |-> "failed", mask |-> m]
      \/ /\ cand \in DOMAIN db /\ ~Occurs(Flip(pivot), start, cand - 1)
         /\ \/ q = [res |-> "blocked", mask |-> Marked(m, S, t)]
            \/ q = [res |-> "failed", mask |-> Marked(m, S, t)]
            \/ p.res = "open" /\ q = [p EXCEPT !.res = "failed"]
            \/ p.res # "open" /\ q = p
  BY DEF Resolvent
<1> HIDE DEF S, p, q
<1> USE DEF Judged
<1>4. CASE q = [res |-> "failed", mask |-> m]
  BY <1>4 DEF ResolventStates, q
<1>5. CASE /\ cand \in DOMAIN db /\ ~Occurs(Flip(pivot), start, cand - 1)
           /\ q \in {[res |-> "blocked", mask |-> Marked(m, S, t)],
                     [res |-> "failed", mask |-> Marked(m, S, t)]}
  BY <1>1, <1>5 DEF ResolventStates, q
<1>6. CASE /\ cand \in DOMAIN db /\ ~Occurs(Flip(pivot), start, cand - 1)
           /\ q \in {[p EXCEPT !.res = "failed"], p}
  <2>1. q.mask = p.mask /\ q \in ResolventStates
    BY <1>2, <1>6 DEF ResolventStates, PropStates
  <2>2. \A x \in Codes : q.mask[x] \in {m[x], t}
    BY <1>1, <1>2, <2>1
  <2> QED
    BY <1>6, <2>1, <2>2 DEF q
<1> QED
  BY <1>3, <1>4, <1>5, <1>6

\* A candidate whose resolvent is accepted has another literal that holds.
LEMMA ResolventSound ==
    ASSUME DbType, NEW A, \A i \in DOMAIN db : Satisfies(A, db[i]),
           NEW pivot, NEW start, NEW cand, NEW m \in Marks, NEW hs \in Seq(Int), NEW t \in Nat,
           MarksFalse(A, m, t), Resolvent(pivot, start, cand, m, hs, t).res # "failed"
    PROVE  \E x \in db[cand] \ {Flip(pivot)} : Holds(A, x)
<1> DEFINE S == {x \in db[cand] \ {Flip(pivot)} : m[x] < t}
           p == Propagated(Marked(m, S, t), hs, t)
           q == Resolvent(pivot, start, cand, m, hs, t)
<1> SUFFICES ASSUME \A x \in db[cand] \ {Flip(pivot)} : ~Holds(A, x) PROVE FALSE
  OBVIOUS
<1>1. cand \in DOMAIN db
  BY DEF Resolvent
<1>2. db[cand] \subseteq CheckedLits /\ S \subseteq db[cand] /\ \A x \in S : ~Holds(A, x)
  BY <1>1 DEF DbType
<1>3. Marked(m, S, t) \in Marks /\ MarksFalse(A, Marked(m, S, t), t)
  <2> HIDE DEF S
  <2>1. ASSUME NEW x \in CheckedLits, Marked(m, S, t)[x] >= t PROVE ~Holds(A, x)
    <3>1. x \in Codes
      BY LiteralFacts
    <3> QED
      BY <1>2, <2>1, <3>1, MarkedType DEF MarksFalse
  <2> QED
    BY <2>1, MarkedType DEF MarksFalse
<1>4. p.res # "conflict" /\ p \in PropStates
  <2> HIDE DEF S
  <2> QED BY <1>3, PropagatedSound, PropagatedMarks
<1>5. ~\E x \in S : m[Flip(x)] >= t \/ Flip(x) \in S
  <2>1. ASSUME NEW x \in S, m[Flip(x)] >= t \/ Flip(x) \in S PROVE FALSE
    <3> HIDE DEF S
    <3>1. x \in CheckedLits /\ Flip(x) = -x /\ -x \in CheckedLits /\ ~Holds(A, x)
      BY <1>2, LiteralFacts
    <3>2. Holds(A, -x)
      BY <3>1, EitherHolds
    <3>3. CASE m[-x] >= t
      BY <3>1, <3>2, <3>3 DEF MarksFalse
    <3>4. CASE -x \in S
      BY <1>2, <3>2, <3>4
    <3> QED
      BY <2>1, <3>1, <3>3, <3>4
  <2> QED
    BY <2>1
<1>6. q.res = "failed"
  <2>1. p.res \in {"open", "failed"}
    BY <1>4 DEF PropStates
  <2>2. \/ q = [res |-> "failed", mask |-> m]
        \/ q = [res |-> "failed", mask |-> Marked(m, S, t)]
        \/ p.res = "open" /\ q = [p EXCEPT !.res = "failed"]
        \/ p.res # "open" /\ q = p
    <3> HIDE DEF p
    <3> QED BY <1>5 DEF Resolvent, p
  <2> HIDE DEF q, p, S
  <2> QED
    BY <1>4, <2>1, <2>2 DEF PropStates
<1> QED
  BY <1>6

RunStates == [ok : BOOLEAN, mask : Marks, now : Nat, start : Nat]
HintSeqs == Seq(Int \ {0})

LEMMA HintFacts ==
    ASSUME NEW hints \in HintSeqs
    PROVE  /\ hints \in Seq(Int) /\ Len(hints) \in Nat
           /\ \A k \in 1..Len(hints) : hints[k] \in Int /\ hints[k] # 0 /\ k - 1 \in 0..Len(hints)
           /\ DOMAIN hints = 1..Len(hints)
BY DEF HintSeqs

\* One hint among those of the resolvents.
Used(r, acc, pivot, hints, k) ==
    LET c == -hints[k]
        q == Resolvent(pivot, acc.start, c, acc.mask, After(hints, k), acc.now + 1)
    IN  /\ r \in RunStates
        /\ hints[k] > 0 \/ ~acc.ok => r = acc
        /\ hints[k] < 0 /\ acc.ok =>
              /\ r.ok = (q.res # "failed" /\ c >= acc.start)
              /\ r.mask = q.mask /\ r.now = acc.now + 1 /\ r.start = c + 1
              /\ c \in Nat /\ Judged(q, pivot, acc.start, c, acc.mask, acc.now + 1)
              /\ acc.mask \in Marks /\ acc.start \in Nat /\ acc.now + 1 \in Nat
              /\ After(hints, k) \in Seq(Int)
LEMMA UseCandidateFacts ==
    ASSUME NEW acc \in RunStates, NEW pivot, NEW hints \in HintSeqs, NEW k \in 1..Len(hints)
    PROVE  Used(UseCandidate(acc, pivot, hints, k), acc, pivot, hints, k)
<1> DEFINE c == -hints[k]
           q == Resolvent(pivot, acc.start, c, acc.mask, After(hints, k), acc.now + 1)
           r == UseCandidate(acc, pivot, hints, k)
<1>1. hints \in Seq(Int) /\ hints[k] \in Int /\ hints[k] # 0 /\ k \in 0..Len(hints)
  BY HintFacts
<1>2. acc.mask \in Marks /\ acc.start \in Nat /\ acc.now \in Nat /\ acc.ok \in BOOLEAN
  BY DEF RunStates
<1>3. After(hints, k) \in Seq(Int)
  BY <1>1, AfterType
<1>4. Judged(q, pivot, acc.start, c, acc.mask, acc.now + 1) /\ q.mask \in Marks
  <2>1. acc.now + 1 \in Nat
    BY <1>2
  <2>2. Judged(q, pivot, acc.start, c, acc.mask, acc.now + 1)
    BY <1>2, <1>3, <2>1, ResolventFacts
  <2> QED
    BY <2>2 DEF ResolventStates, Judged
<1> HIDE DEF q
<1>5. CASE hints[k] > 0 \/ ~acc.ok
  BY <1>1, <1>2, <1>5 DEF UseCandidate, Used
<1>6. CASE hints[k] < 0 /\ acc.ok
  <2>1. r = [ok |-> q.res # "failed" /\ c >= acc.start, mask |-> q.mask, now |-> acc.now + 1, start |-> c + 1]
    BY <1>1, <1>6 DEF UseCandidate, NextNow, q
  <2>2. c \in Nat
    BY <1>1, <1>6
  <2> HIDE DEF r, c
  <2>3. r \in RunStates
    BY <1>2, <1>4, <2>1, <2>2 DEF RunStates
  <2> QED
    <3>1. r.ok = (q.res # "failed" /\ c >= acc.start)
      BY <2>1
    <3>2. r.mask = q.mask /\ r.now = acc.now + 1 /\ r.start = c + 1
      BY <2>1
    <3>3. acc.now + 1 \in Nat /\ ~(hints[k] > 0)
      <4>1. hints[k] < 0
        BY <1>6
      <4> QED
        BY <1>1, <1>2, <4>1
    <3> QED
      BY <1>2, <1>3, <1>4, <1>6, <2>2, <2>3, <3>1, <3>2, <3>3, Zenon DEF r, c, q, Used
<1> QED
  BY <1>1, <1>2, <1>5, <1>6

CandidateRun(run, pivot, start, hints, m, n, int) ==
    /\ run \in [0..Len(hints) -> RunStates]
    /\ run[0] = [ok |-> TRUE, mask |-> m, now |-> n, start |-> start]
    /\ \A k \in 1..Len(hints) : run[k] = UseCandidate(run[k - 1], pivot, hints, k)
    /\ LET r == run[Len(hints)]
       IN  AllResolvents(pivot, start, hints, m, n, int) =
              IF ~r.ok THEN Out(FALSE, r.mask, r.now, int)
              ELSE Out(~RestHas(pivot, r.start), r.mask, r.now + 1, int)

\* The resolvents are checked one after the other.
LEMMA ResolventsRun ==
    ASSUME NEW pivot, NEW start \in Nat, NEW hints \in HintSeqs, NEW m \in Marks, NEW n \in Nat, NEW int
    PROVE  \E run : CandidateRun(run, pivot, start, hints, m, n, int)
<1> DEFINE l == Len(hints)
           first == [ok |-> TRUE, mask |-> m, now |-> n, start |-> start]
           G == [k \in 1..l |-> [acc \in RunStates |-> UseCandidate(acc, pivot, hints, k)]]
           R(f) == f = [k \in 0..l |-> IF k = 0 THEN first ELSE UseCandidate(f[k - 1], pivot, hints, k)]
           run == CHOOSE f : R(f)
<1>1. l \in Nat /\ first \in RunStates
  BY HintFacts DEF RunStates
<1>2. G \in StepsOf(l, RunStates)
  BY UseCandidateFacts DEF StepsOf, Used
<1>3. PICK f \in [0..l -> RunStates] : f[0] = first /\ \A k \in 1..l : f[k] = G[k][f[k - 1]]
  <2> HIDE DEF l, first, G, R, run
  <2>1. l \in Nat
    BY <1>1
  <2>2. first \in RunStates
    BY <1>1
  <2> QED BY <1>2, <2>1, <2>2, StepByStep
<1>4. \A k \in 1..l : G[k][f[k - 1]] = UseCandidate(f[k - 1], pivot, hints, k)
  <2>1. \A k \in 1..l : f[k - 1] \in RunStates
    BY <1>1
  <2> QED
    BY <2>1
<1>5. R(f)
  <2>1. \A k \in 1..l : f[k] = UseCandidate(f[k - 1], pivot, hints, k)
    BY <1>3, <1>4
  <2> HIDE DEF G, first, l
  <2> QED BY <1>1, <1>3, <2>1
<1>6. R(run)
  <2> HIDE DEF R
  <2> QED BY <1>5
<1>7. /\ run = [k \in 0..l |-> run[k]] /\ run[0] = first
      /\ \A k \in 1..l : run[k] = UseCandidate(run[k - 1], pivot, hints, k)
  <2> HIDE DEF run, first, l
  <2>1. run = [k \in 0..l |-> IF k = 0 THEN first ELSE UseCandidate(run[k - 1], pivot, hints, k)]
    BY <1>6
  <2>2. run[0] = first
    BY <1>1, <2>1
  <2>3. ASSUME NEW k \in 1..l PROVE run[k] = UseCandidate(run[k - 1], pivot, hints, k)
    <3>1. k \in 0..l /\ k # 0
      BY <1>1
    <3> QED
      BY <2>1, <3>1
  <2>4. run = [k \in 0..l |-> run[k]]
    BY <2>1, Zenon
  <2> QED BY <2>2, <2>3, <2>4
<1>8. AllResolvents(pivot, start, hints, m, n, int) =
         IF ~run[l].ok THEN Out(FALSE, run[l].mask, run[l].now, int)
         ELSE Out(~RestHas(pivot, run[l].start), run[l].mask, run[l].now + 1, int)
  BY DEF AllResolvents
<1> HIDE DEF run, first, l
<1>9. \A k \in 0..l : run[k] \in RunStates
  <2> DEFINE P == {k \in 0..l : run[k] \in RunStates}
  <2>1. 0 \in P
    BY <1>1, <1>7
  <2>2. ASSUME NEW k \in 1..l, k - 1 \in P PROVE k \in P
    <3>0. k \in 1..Len(hints)
      BY DEF l
    <3>1. UseCandidate(run[k - 1], pivot, hints, k) \in RunStates
      BY <2>2, <3>0, UseCandidateFacts DEF Used
    <3>2. k \in 0..l
      BY <1>1
    <3>3. \A j \in 1..l : run[j] = UseCandidate(run[j - 1], pivot, hints, j)
      BY <1>7
    <3>4. run[k] = UseCandidate(run[k - 1], pivot, hints, k)
      BY <3>3
    <3> QED
      BY <3>1, <3>2, <3>4
  <2> HIDE DEF P
  <2>3. \A k \in 0..l : k \in P
    BY <1>1, <2>1, <2>2, UpTo
  <2> QED
    BY <2>3 DEF P
<1>10. run \in [0..l -> RunStates]
  BY <1>7, <1>9
<1> QED
  BY <1>7, <1>8, <1>10 DEF first, l, CandidateRun

\* When all resolvents are accepted, a clause with the negated pivot has another
\* literal that holds, unless it lies before the first place that is scanned.
LEMMA ResolventsSound ==
    ASSUME DbType, clsLast \in Nat, NEW A, \A i \in DOMAIN db : Satisfies(A, db[i]),
           NEW pivot, NEW start \in Nat, NEW hints \in HintSeqs, NEW m \in Marks, NEW n \in Nat, NEW int,
           MarksFalse(A, m, n + 1),
           \A i \in DOMAIN db : Flip(pivot) \in db[i] => start <= i,
           AllResolvents(pivot, start, hints, m, n, int).ok
    PROVE  \A i \in DOMAIN db : Flip(pivot) \in db[i] => \E x \in db[i] \ {Flip(pivot)} : Holds(A, x)
<1> DEFINE Other(i) == \E x \in db[i] \ {Flip(pivot)} : Holds(A, x)
           Safe(r) == /\ MarksFalse(A, r.mask, r.now + 1)
                      /\ \A i \in DOMAIN db : Flip(pivot) \in db[i] /\ i < r.start => Other(i)
           l == Len(hints)
<1>1. PICK run : CandidateRun(run, pivot, start, hints, m, n, int)
  BY ResolventsRun
<1>2. /\ run \in [0..l -> RunStates]
      /\ run[0] = [ok |-> TRUE, mask |-> m, now |-> n, start |-> start]
      /\ \A k \in 1..l : run[k] = UseCandidate(run[k - 1], pivot, hints, k)
  BY <1>1 DEF CandidateRun
<1>3. l \in Nat /\ DOMAIN db \subseteq 1..clsLast
  BY HintFacts DEF DbType
<1> HIDE DEF l
<1> DEFINE K == {k \in 0..l : run[k].ok => Safe(run[k])}
<1>4. 0 \in K
  <2> HIDE DEF Other
  <2>1. run[0].mask = m /\ run[0].now = n /\ run[0].start = start
    BY <1>2
  <2>2. \A i \in DOMAIN db : Flip(pivot) \in db[i] => ~(i < start)
    BY <1>3
  <2>3. Safe(run[0])
    BY <2>1, <2>2
  <2> HIDE DEF Safe
  <2> QED
    BY <1>3, <2>3
<1>5. ASSUME NEW k \in 1..l, k - 1 \in K PROVE k \in K
  <2> DEFINE acc == run[k - 1]
             c == -hints[k]
             q == Resolvent(pivot, acc.start, c, acc.mask, After(hints, k), acc.now + 1)
             r == UseCandidate(acc, pivot, hints, k)
  <2>1. k \in 0..l /\ k - 1 \in 0..l /\ k \in 1..Len(hints) /\ hints[k] \in Int /\ hints[k] # 0
    BY <1>3, HintFacts DEF l
  <2>2. acc \in RunStates /\ run[k] = r /\ (acc.ok => Safe(acc))
    BY <1>2, <1>5, <2>1
  <2>0. Used(r, acc, pivot, hints, k)
    BY <2>1, <2>2, UseCandidateFacts
  <2>3. /\ hints[k] > 0 \/ ~acc.ok => r = acc
        /\ hints[k] < 0 /\ acc.ok =>
              /\ r.ok = (q.res # "failed" /\ c >= acc.start)
              /\ r.mask = q.mask /\ r.now = acc.now + 1 /\ r.start = c + 1
              /\ c \in Nat /\ Judged(q, pivot, acc.start, c, acc.mask, acc.now + 1)
              /\ acc.mask \in Marks /\ acc.start \in Nat /\ acc.now + 1 \in Nat
              /\ After(hints, k) \in Seq(Int)
    <3> HIDE DEF r, acc
    <3> QED BY <2>0, Zenon DEF Used
  <2> SUFFICES ASSUME r.ok PROVE Safe(r)
    BY <2>1, <2>2
  <2>4. CASE hints[k] > 0 \/ ~acc.ok
    BY <2>2, <2>3, <2>4
  <2>5. CASE hints[k] < 0 /\ acc.ok
    <3>0. acc.ok
      BY <2>5
    <3>1. /\ q.res # "failed" /\ c >= acc.start
          /\ r.mask = q.mask /\ r.now = acc.now + 1 /\ r.start = c + 1
          /\ c \in Nat /\ acc.mask \in Marks /\ acc.start \in Nat /\ acc.now + 1 \in Nat
          /\ After(hints, k) \in Seq(Int) /\ Judged(q, pivot, acc.start, c, acc.mask, acc.now + 1)
      BY <2>3, <2>5
    <3>2. Safe(acc)
      BY <2>2, <3>0
    <3>3. MarksFalse(A, acc.mask, acc.now + 1)
      BY <3>2
    <3>4. Other(c)
      BY <3>1, <3>3, ResolventSound
    <3>5. c \in DOMAIN db /\ ~Occurs(Flip(pivot), acc.start, c - 1)
      <4> HIDE DEF q, acc, c
      <4> QED BY <3>1 DEF Judged
    <3>6. \A x \in Codes : q.mask[x] \in {acc.mask[x], acc.now + 1}
      <4> HIDE DEF q, acc, c
      <4> QED BY <3>1 DEF Judged
    <3>7. MarksFalse(A, r.mask, r.now + 1)
      <4>1. ASSUME NEW x \in CheckedLits, r.mask[x] >= r.now + 1 PROVE ~Holds(A, x)
        <5>1. x \in Codes /\ acc.mask[x] \in Nat
          BY <3>1, LiteralFacts DEF Marks
        <5>2. q.mask[x] >= acc.now + 1 + 1 /\ q.mask[x] \in {acc.mask[x], acc.now + 1}
          BY <3>1, <3>6, <4>1, <5>1
        <5>3. acc.mask[x] >= acc.now + 1
          <6> HIDE DEF q, acc
          <6>1. acc.now + 1 \in Nat
            BY <3>1
          <6> QED
            BY <5>1, <5>2, <6>1
        <5> QED
          BY <3>3, <5>3 DEF MarksFalse
      <4> QED
        BY <4>1 DEF MarksFalse
    <3>8. ASSUME NEW i \in DOMAIN db, Flip(pivot) \in db[i], i < r.start PROVE Other(i)
      <4>1. i \in Nat
        BY <1>3
      <4>2. CASE i < acc.start
        BY <3>2, <3>8, <4>2
      <4>3. CASE i = c
        BY <3>4, <4>3
      <4>4. CASE ~(i < acc.start) /\ i # c
        <5>0. i < c + 1
          BY <3>1, <3>8
        <5>1. acc.start <= i /\ i <= c - 1
          <6> HIDE DEF c, acc
          <6>1. c \in Nat /\ acc.start \in Nat
            BY <3>1
          <6> QED
            BY <4>1, <4>4, <5>0, <6>1
        <5> QED
          BY <3>5, <3>8, <5>1 DEF Occurs
      <4> QED
        BY <4>2, <4>3, <4>4
    <3> QED
      BY <3>7, <3>8
  <2> QED
    BY <2>1, <2>4, <2>5
<1> HIDE DEF K
<1>6. \A k \in 0..l : k \in K
  BY <1>3, <1>4, <1>5, UpTo
<1> DEFINE r == run[l]
<1>7. r.ok /\ ~RestHas(pivot, r.start)
  <2>1. AllResolvents(pivot, start, hints, m, n, int) =
              IF ~r.ok THEN Out(FALSE, r.mask, r.now, int)
              ELSE Out(~RestHas(pivot, r.start), r.mask, r.now + 1, int)
    BY <1>1 DEF CandidateRun, l
  <2>2. /\ Out(FALSE, r.mask, r.now, int).ok = FALSE
        /\ Out(~RestHas(pivot, r.start), r.mask, r.now + 1, int).ok = ~RestHas(pivot, r.start)
    <3> HIDE DEF r
    <3> QED BY Zenon DEF Out
  <2> HIDE DEF r
  <2> QED
    BY <2>1, <2>2, Zenon
<1>8. Safe(r) /\ r.start \in Nat
  <2>1. l \in 0..l
    BY <1>3
  <2>2. r \in RunStates
    BY <1>2, <2>1
  <2>3. r.ok => Safe(r)
    BY <1>6, <2>1 DEF K
  <2> QED
    BY <1>7, <2>2, <2>3 DEF RunStates
<1>9. ASSUME NEW i \in DOMAIN db, Flip(pivot) \in db[i] PROVE Other(i)
  <2>1. i \in Nat /\ i <= clsLast
    BY <1>3
  <2>2. ~(r.start <= i)
    BY <1>7, <1>9, <2>1 DEF RestHas, Occurs
  <2>3. i < r.start
    <3> HIDE DEF r
    <3>1. r.start \in Nat
      BY <1>8
    <3> QED
      BY <2>1, <2>2, <3>1
  <2> QED
    BY <1>8, <1>9, <2>3
<1> QED
  BY <1>9

\* The numbers that are given to the resolvents.
LEMMA ResolventsMarks ==
    ASSUME NEW pivot, NEW start \in Nat, NEW hints \in HintSeqs, NEW m \in Marks, NEW n \in Nat, NEW int,
           \A x \in Codes : m[x] <= n + Cardinality(Negatives(hints))
    PROVE  LET o == AllResolvents(pivot, start, hints, m, n, int)
           IN  /\ o.mask \in Marks /\ o.now \in Nat /\ o.intro = int /\ o.ok \in BOOLEAN
               /\ o.ok => \A x \in Codes : o.mask[x] <= o.now
<1> DEFINE count == [k \in 0..Len(hints) |-> Cardinality({j \in 1..k : hints[j] < 0})]
           t == n + Cardinality(Negatives(hints))
           Safe(k, r) == r.now = n + count[k] /\ \A x \in Codes : r.mask[x] <= t
           l == Len(hints)
<1>1. PICK run : CandidateRun(run, pivot, start, hints, m, n, int)
  BY ResolventsRun
<1>2. /\ run \in [0..l -> RunStates]
      /\ run[0] = [ok |-> TRUE, mask |-> m, now |-> n, start |-> start]
      /\ \A k \in 1..l : run[k] = UseCandidate(run[k - 1], pivot, hints, k)
  BY <1>1 DEF CandidateRun
<1>3. l \in Nat /\ DOMAIN hints = 1..l
  BY HintFacts
<1>4. \A k \in 0..l : IsFiniteSet({j \in 1..k : hints[j] < 0})
  <2>1. ASSUME NEW k \in 0..l PROVE IsFiniteSet({j \in 1..k : hints[j] < 0})
    <3>1. IsFiniteSet(1..k)
      BY <1>3, FS_Interval
    <3> QED
      BY <3>1, FS_Subset
  <2> QED
    BY <2>1
<1>4a. \A k \in 0..l : count[k] = Cardinality({j \in 1..k : hints[j] < 0})
  OBVIOUS
<1> HIDE DEF count
<1>4b. \A k \in 0..l : count[k] \in Nat
  BY <1>4, <1>4a, FS_CardinalityType
<1>4c. ASSUME NEW k \in 0..l PROVE count[k] <= count[l]
  <2>1. {j \in 1..k : hints[j] < 0} \subseteq {j \in 1..l : hints[j] < 0} /\ l \in 0..l
    BY <1>3
  <2>2. Cardinality({j \in 1..k : hints[j] < 0}) <= Cardinality({j \in 1..l : hints[j] < 0})
    BY <1>4, <2>1, FS_Subset
  <2> QED
    BY <1>4a, <2>1, <2>2
<1>5. t = n + count[l] /\ count[l] \in Nat
  <2>1. Negatives(hints) = {j \in 1..l : hints[j] < 0} /\ l \in 0..l
    BY <1>3 DEF Negatives
  <2> QED
    BY <1>4a, <1>4b, <2>1
<1>6. ASSUME NEW k \in 1..l
      PROVE  count[k] = IF hints[k] < 0 THEN count[k - 1] + 1 ELSE count[k - 1]
  <2>1. k \in 0..l /\ k - 1 \in 0..l /\ k \notin {j \in 1..(k - 1) : hints[j] < 0}
    BY <1>3
  <2>2. CASE hints[k] < 0
    <3>1. {j \in 1..k : hints[j] < 0} = {j \in 1..(k - 1) : hints[j] < 0} \cup {k}
      BY <1>3, <2>2
    <3>2. IsFiniteSet({j \in 1..(k - 1) : hints[j] < 0})
      BY <1>4, <2>1
    <3>3. Cardinality({j \in 1..k : hints[j] < 0}) = Cardinality({j \in 1..(k - 1) : hints[j] < 0}) + 1
      BY <2>1, <3>1, <3>2, FS_AddElement
    <3> QED
      BY <1>4a, <2>1, <2>2, <3>3
  <2>3. CASE ~(hints[k] < 0)
    <3>1. {j \in 1..k : hints[j] < 0} = {j \in 1..(k - 1) : hints[j] < 0}
      BY <1>3, <2>3
    <3> QED
      BY <1>4a, <2>1, <2>3, <3>1
  <2> QED
    BY <2>2, <2>3
<1>7. count[0] = 0
  <2>1. {j \in 1..0 : hints[j] < 0} = {} /\ 0 \in 0..l
    BY <1>3
  <2> QED
    BY <1>4a, <2>1, FS_EmptySet
<1> HIDE DEF l
<1> DEFINE K == {k \in 0..l : run[k].ok => Safe(k, run[k])}
<1>8. 0 \in K
  <2>1. run[0].mask = m /\ run[0].now = n
    BY <1>2
  <2>2. Safe(0, run[0])
    BY <1>7, <2>1
  <2> HIDE DEF Safe
  <2> QED
    BY <1>3, <2>2
<1>9. ASSUME NEW k \in 1..l, k - 1 \in K PROVE k \in K
  <2> DEFINE acc == run[k - 1]
             c == -hints[k]
             q == Resolvent(pivot, acc.start, c, acc.mask, After(hints, k), acc.now + 1)
             r == UseCandidate(acc, pivot, hints, k)
  <2>1. k \in 0..l /\ k - 1 \in 0..l /\ k \in 1..Len(hints) /\ hints[k] \in Int /\ hints[k] # 0
    BY <1>3, HintFacts DEF l
  <2>2. acc \in RunStates /\ run[k] = r /\ (acc.ok => Safe(k - 1, acc))
    BY <1>2, <1>9, <2>1
  <2>0. Used(r, acc, pivot, hints, k)
    BY <2>1, <2>2, UseCandidateFacts
  <2>3. /\ hints[k] > 0 \/ ~acc.ok => r = acc
        /\ hints[k] < 0 /\ acc.ok =>
              /\ r.ok = (q.res # "failed" /\ c >= acc.start)
              /\ r.mask = q.mask /\ r.now = acc.now + 1 /\ r.start = c + 1
              /\ c \in Nat /\ Judged(q, pivot, acc.start, c, acc.mask, acc.now + 1)
              /\ acc.mask \in Marks /\ acc.start \in Nat /\ acc.now + 1 \in Nat
              /\ After(hints, k) \in Seq(Int)
    <3> HIDE DEF r, acc
    <3> QED BY <2>0, Zenon DEF Used
  <2> SUFFICES ASSUME r.ok PROVE Safe(k, r)
    BY <2>1, <2>2
  <2>4. CASE hints[k] > 0 \/ ~acc.ok
    <3>1. r = acc /\ acc.ok
      BY <2>3, <2>4
    <3>2. hints[k] > 0
      BY <2>4, <3>1
    <3>3. count[k] = count[k - 1]
      BY <1>6, <2>1, <3>2
    <3> QED
      BY <2>2, <3>1, <3>3
  <2>5. CASE hints[k] < 0 /\ acc.ok
    <3>0. acc.ok /\ hints[k] < 0
      BY <2>5
    <3>1. /\ r.mask = q.mask /\ r.now = acc.now + 1
          /\ acc.mask \in Marks /\ acc.now + 1 \in Nat
          /\ After(hints, k) \in Seq(Int) /\ Judged(q, pivot, acc.start, c, acc.mask, acc.now + 1)
      BY <2>3, <2>5
    <3>2. Safe(k - 1, acc)
      BY <2>2, <3>0
    <3>3. \A x \in Codes : q.mask[x] \in {acc.mask[x], acc.now + 1}
      <4> HIDE DEF q, acc, c
      <4> QED BY <3>1 DEF Judged
    <3>4. count[k] = count[k - 1] + 1 /\ count[k] \in Nat /\ count[k - 1] \in Nat /\ count[k] <= count[l]
      BY <1>4b, <1>4c, <1>6, <2>1, <3>0
    <3>5. acc.now + 1 = n + count[k] /\ acc.now + 1 <= t
      <4>1. count[l] \in Nat
        BY <1>5
      <4>2. acc.now = n + count[k - 1]
        BY <3>2
      <4> HIDE DEF acc, t
      <4> QED
        BY <1>5, <3>4, <4>1, <4>2
    <3>6. \A x \in Codes : r.mask[x] <= t
      <4>1. \A x \in Codes : acc.mask[x] <= t
        BY <3>2
      <4> HIDE DEF acc, t, q, r
      <4> QED
        BY <3>1, <3>3, <3>5, <4>1
    <3>7. r.now = n + count[k]
      BY <3>1, <3>5
    <3> QED
      BY <3>6, <3>7
  <2> QED
    BY <2>1, <2>4, <2>5
<1> HIDE DEF K
<1>10. \A k \in 0..l : k \in K
  BY <1>3, <1>8, <1>9, UpTo
<1> DEFINE r == run[l]
<1>11. r \in RunStates /\ (r.ok => Safe(l, r))
  <2>1. l \in 0..l
    BY <1>3
  <2> QED
    BY <1>2, <1>10, <2>1 DEF K
<1>12. r.ok \in BOOLEAN /\ r.mask \in Marks /\ r.now \in Nat
  BY <1>11 DEF RunStates
<1>13. AllResolvents(pivot, start, hints, m, n, int) =
              IF ~r.ok THEN Out(FALSE, r.mask, r.now, int)
              ELSE Out(~RestHas(pivot, r.start), r.mask, r.now + 1, int)
  BY <1>1 DEF CandidateRun, l
<1> DEFINE o == AllResolvents(pivot, start, hints, m, n, int)
<1>14. CASE ~r.ok
  <2>1. o.ok = FALSE /\ o.mask = r.mask /\ o.now = r.now /\ o.intro = int
    <3> HIDE DEF r
    <3> QED BY <1>13, <1>14 DEF Out
  <2> QED
    BY <1>12, <2>1
<1>15. CASE r.ok
  <2>1. o.ok = ~RestHas(pivot, r.start) /\ o.mask = r.mask /\ o.now = r.now + 1 /\ o.intro = int
    <3> HIDE DEF r
    <3> QED BY <1>13, <1>15 DEF Out
  <2>2. o.ok \in BOOLEAN
    BY <2>1 DEF RestHas, Occurs
  <2>3. r.now = t /\ \A x \in Codes : r.mask[x] <= t /\ r.mask[x] \in Nat
    BY <1>5, <1>11, <1>12, <1>15 DEF Marks
  <2>4. \A x \in Codes : o.mask[x] <= o.now
    <3> HIDE DEF o, r, t
    <3> QED BY <1>12, <2>1, <2>3
  <2> QED
    BY <1>12, <2>1, <2>2, <2>4
<1> QED
  BY <1>14, <1>15

-----------------------------------------------------------------------------
(* One line that adds a clause.                                            *)

Pivot(lits) == IF lits = <<>> THEN 0 ELSE lits[1]
FirstCand(hints) == -hints[Min(Negatives(hints))]
FirstScan(lits) == intro[Flip(Pivot(lits))]
LastNumber(hints) == now + 1 + Cardinality(Negatives(hints))
MarksOld == \A x \in Codes : mask[x] <= now
NewIntro(lits, hints) == [intro EXCEPT ![Flip(Pivot(lits))] = FirstCand(hints)]

LEMMA NegativesFacts ==
    ASSUME NEW hints \in HintSeqs
    PROVE  /\ IsFiniteSet(Negatives(hints)) /\ Cardinality(Negatives(hints)) \in Nat
           /\ Negatives(hints) \in SUBSET Nat
           /\ \A k \in Negatives(hints) : hints[k] \in Int /\ -hints[k] \in Nat \ {0}
           /\ Negatives(hints) # {} =>
                 /\ Cardinality(Negatives(hints)) >= 1
                 /\ Min(Negatives(hints)) \in Negatives(hints)
<1>1. DOMAIN hints = 1..Len(hints) /\ Len(hints) \in Nat /\ \A k \in DOMAIN hints : hints[k] \in Int
  BY HintFacts
<1>2. Negatives(hints) \subseteq 1..Len(hints) /\ \A k \in Negatives(hints) : hints[k] \in Int /\ hints[k] < 0
  BY <1>1 DEF Negatives
<1>3. IsFiniteSet(Negatives(hints))
  <2>1. IsFiniteSet(1..Len(hints))
    BY <1>1, FS_Interval
  <2> QED
    BY <1>2, <2>1, FS_Subset
<1>4. Cardinality(Negatives(hints)) \in Nat
  BY <1>3, FS_CardinalityType
<1>5. Negatives(hints) \in SUBSET Nat
  BY <1>1, <1>2
<1>6. ASSUME Negatives(hints) # {}
      PROVE  Cardinality(Negatives(hints)) >= 1 /\ Min(Negatives(hints)) \in Negatives(hints)
  <2>1. Cardinality(Negatives(hints)) # 0
    BY <1>3, <1>6, FS_EmptySet
  <2> QED
    BY <1>4, <1>5, <1>6, <2>1, MinFacts
<1> QED
  BY <1>2, <1>3, <1>4, <1>5, <1>6

\* The pivot of a clause, the literal that is looked for.
LEMMA PivotFacts ==
    ASSUME NEW lits \in Seq(CheckedLits)
    PROVE  /\ Flip(Pivot(lits)) \in Codes
           /\ lits # <<>> => /\ Pivot(lits) \in CheckedLits /\ Pivot(lits) \in RangeOf(lits)
                             /\ Flip(Pivot(lits)) = -Pivot(lits)
           /\ RangeOf(lits) \subseteq CheckedLits
           /\ lits = <<>> => RangeOf(lits) = {}
<1>1. RangeOf(lits) \subseteq CheckedLits
  BY DEF RangeOf
<1>2. lits # <<>> => lits[1] \in CheckedLits /\ lits[1] \in RangeOf(lits)
  BY DEF RangeOf
<1>3. lits = <<>> => RangeOf(lits) = {}
  BY DEF RangeOf
<1>4. CASE lits = <<>>
  BY <1>1, <1>3, <1>4, LiteralFacts DEF Pivot
<1>5. CASE lits # <<>>
  BY <1>1, <1>2, <1>5, LiteralFacts DEF Pivot
<1> QED
  BY <1>4, <1>5

\* The cases of checkClause.
ClauseCases(c, lits, hints) ==
    LET p == FirstPass(lits, hints)
        n == now + 1
        seen == Occurs(Flip(Pivot(lits)), FirstScan(lits), FirstCand(hints) - 1)
    IN  \/ p.res = "conflict" /\ c = Out(TRUE, p.mask, n, intro)
        \/ p.res = "failed" /\ c = Out(FALSE, p.mask, n, intro)
        \/ p.res = "open" /\ Negatives(hints) = {} /\ c = Out(FirstScan(lits) = 0, p.mask, n, intro)
        \/ p.res = "open" /\ Negatives(hints) # {} /\ seen /\ c = Out(FALSE, p.mask, n, intro)
        \/ /\ p.res = "open" /\ Negatives(hints) # {} /\ ~seen
           /\ \/ FirstScan(lits) = 0 /\ c = Out(TRUE, p.mask, n, NewIntro(lits, hints))
              \/ /\ FirstScan(lits) # 0
                 /\ c = AllResolvents(Pivot(lits), Max({FirstScan(lits), FirstCand(hints)}), hints,
                                      p.mask, n, NewIntro(lits, hints))

LEMMA FirstPassMarks ==
    ASSUME CheckTypeOK, NEW lits \in Seq(CheckedLits), NEW hints \in HintSeqs
    PROVE  /\ FirstPass(lits, hints) \in PropStates
           /\ LastNumber(hints) \in Nat /\ LastNumber(hints) >= now + 1
           /\ Marked(mask, RangeOf(lits), LastNumber(hints)) \in Marks
           /\ After(hints, 0) \in Seq(Int)
           /\ \A x \in Codes : FirstPass(lits, hints).mask[x] \in {mask[x], LastNumber(hints)}
<1> DEFINE t == LastNumber(hints)
           m == Marked(mask, RangeOf(lits), t)
<1>1. t \in Nat /\ t >= now + 1
  BY NegativesFacts DEF LastNumber, CheckTypeOK
<1>2. m \in Marks /\ \A x \in Codes : m[x] \in {mask[x], t}
  <2> HIDE DEF t
  <2> QED BY <1>1, MarkedType DEF CheckTypeOK
<1>3. After(hints, 0) \in Seq(Int)
  BY HintFacts, AfterType
<1>4. FirstPass(lits, hints) = Propagated(m, After(hints, 0), t)
  BY DEF FirstPass, LastNumber
<1> HIDE DEF t, m
<1>5. FirstPass(lits, hints) \in PropStates /\ \A x \in Codes : FirstPass(lits, hints).mask[x] \in {m[x], t}
  BY <1>1, <1>2, <1>3, <1>4, PropagatedMarks
<1> QED
  BY <1>1, <1>2, <1>3, <1>5 DEF t, m

LEMMA ClauseCase ==
    ASSUME CheckTypeOK, NEW lits \in Seq(CheckedLits), NEW hints \in HintSeqs
    PROVE  ClauseCases(checkClause(lits, hints), lits, hints)
<1> DEFINE p == FirstPass(lits, hints)
           pivot == Pivot(lits)
           seen == Occurs(Flip(pivot), FirstScan(lits), FirstCand(hints) - 1)
           n == now + 1
<1>1. p.res \in {"open", "conflict", "failed"}
  BY FirstPassMarks DEF PropStates
<1> HIDE DEF p, seen
<1>2. checkClause(lits, hints) =
        IF p.res = "conflict" THEN Out(TRUE, p.mask, n, intro)
        ELSE IF p.res = "failed" THEN Out(FALSE, p.mask, n, intro)
        ELSE IF Negatives(hints) = {} THEN Out(FirstScan(lits) = 0, p.mask, n, intro)
        ELSE IF seen THEN Out(FALSE, p.mask, n, intro)
        ELSE IF FirstScan(lits) = 0 THEN Out(TRUE, p.mask, n, NewIntro(lits, hints))
        ELSE AllResolvents(pivot, Max({FirstScan(lits), FirstCand(hints)}), hints, p.mask, n, NewIntro(lits, hints))
  BY Zenon DEF checkClause, p, seen, Pivot, FirstScan, FirstCand, NewIntro
<1>3. ClauseCases(checkClause(lits, hints), lits, hints) <=>
        LET c == checkClause(lits, hints)
        IN \/ p.res = "conflict" /\ c = Out(TRUE, p.mask, n, intro)
           \/ p.res = "failed" /\ c = Out(FALSE, p.mask, n, intro)
           \/ p.res = "open" /\ Negatives(hints) = {} /\ c = Out(FirstScan(lits) = 0, p.mask, n, intro)
           \/ p.res = "open" /\ Negatives(hints) # {} /\ seen /\ c = Out(FALSE, p.mask, n, intro)
           \/ /\ p.res = "open" /\ Negatives(hints) # {} /\ ~seen
              /\ \/ FirstScan(lits) = 0 /\ c = Out(TRUE, p.mask, n, NewIntro(lits, hints))
                 \/ /\ FirstScan(lits) # 0
                    /\ c = AllResolvents(pivot, Max({FirstScan(lits), FirstCand(hints)}), hints,
                                         p.mask, n, NewIntro(lits, hints))
  BY Zenon DEF ClauseCases, p, seen
<1> QED
  BY <1>1, <1>2, <1>3, Zenon

LEMMA MaxFacts ==
    ASSUME NEW a \in Nat, NEW b \in Nat
    PROVE  Max({a, b}) \in {a, b} /\ Max({a, b}) >= a /\ Max({a, b}) >= b
<1>1. \E x \in {a, b} : \A y \in {a, b} : x >= y
  <2>1. CASE a >= b
    BY <2>1
  <2>2. CASE b >= a
    BY <2>2
  <2> QED
    BY <2>1, <2>2
<1>2. Max({a, b}) \in {a, b} /\ \A y \in {a, b} : Max({a, b}) >= y
  BY <1>1, Zenon DEF Max
<1> QED
  BY <1>2

\* Where the live clauses hold and the new one does not, its hints do not conflict.
LEMMA FirstPassSound ==
    ASSUME CheckTypeOK, MarksOld, NEW A, \A i \in DOMAIN db : Satisfies(A, db[i]),
           NEW lits \in Seq(CheckedLits), NEW hints \in HintSeqs,
           \A x \in RangeOf(lits) : ~Holds(A, x)
    PROVE  /\ FirstPass(lits, hints).res # "conflict"
           /\ MarksFalse(A, FirstPass(lits, hints).mask, now + 2)
<1> DEFINE t == LastNumber(hints)
           m == Marked(mask, RangeOf(lits), t)
           p == FirstPass(lits, hints)
<1>1. /\ t \in Nat /\ t >= now + 1 /\ m \in Marks /\ After(hints, 0) \in Seq(Int)
      /\ \A x \in Codes : p.mask[x] \in {mask[x], t}
  BY FirstPassMarks
<1>2. p = Propagated(m, After(hints, 0), t)
  BY DEF FirstPass, LastNumber
<1>3. MarksFalse(A, m, t)
  <2>1. ASSUME NEW x \in CheckedLits, m[x] >= t PROVE ~Holds(A, x)
    <3>1. x \in Codes /\ mask[x] \in Nat /\ mask[x] <= now /\ now \in Nat
      BY LiteralFacts DEF CheckTypeOK, Marks, MarksOld
    <3>2. CASE x \in RangeOf(lits)
      BY <3>2
    <3>3. CASE x \notin RangeOf(lits)
      <4>1. m[x] = mask[x]
        BY <1>1, <3>1, <3>3, MarkedType DEF CheckTypeOK
      <4> HIDE DEF m, t
      <4> QED
        BY <1>1, <2>1, <3>1, <4>1
    <3> QED
      BY <3>2, <3>3
  <2> QED
    BY <2>1 DEF MarksFalse
<1> HIDE DEF t, m, p
<1>4. p.res # "conflict" /\ MarksFalse(A, p.mask, t)
  BY <1>1, <1>2, <1>3, PropagatedSound DEF CheckTypeOK
<1>5. ASSUME NEW x \in CheckedLits, p.mask[x] >= now + 2 PROVE ~Holds(A, x)
  <2>1. x \in Codes /\ mask[x] \in Nat /\ mask[x] <= now /\ now \in Nat
    BY LiteralFacts DEF CheckTypeOK, Marks, MarksOld
  <2>2. p.mask[x] = t
    BY <1>1, <1>5, <2>1
  <2> QED
    BY <1>1, <1>4, <2>2 DEF MarksFalse
<1> QED
  BY <1>4, <1>5 DEF MarksFalse, p

LEMMA OutFields ==
    ASSUME NEW ok, NEW m, NEW n, NEW int
    PROVE  LET o == Out(ok, m, n, int)
           IN  o.ok = ok /\ o.mask = m /\ o.now = n /\ o.intro = int
BY DEF Out

\* The first occurrences after the line: none of them is too late.
LEMMA ClauseIntro ==
    ASSUME CheckTypeOK, IntroRight, NEW lits \in Seq(CheckedLits), NEW hints \in HintSeqs,
           WellMeant(lits, hints)
    PROVE  LET c == checkClause(lits, hints)
           IN  /\ c.intro \in Marks
               /\ \A x \in Codes : c.intro[x] <= clsLast
               /\ \A i \in DOMAIN db : \A x \in db[i] : c.intro[x] \in 1..i
<1> DEFINE c == checkClause(lits, hints)
           z == Flip(Pivot(lits))
           f == FirstCand(hints)
           int == NewIntro(lits, hints)
           Right(g) == /\ g \in Marks /\ \A x \in Codes : g[x] <= clsLast
                       /\ \A i \in DOMAIN db : \A x \in db[i] : g[x] \in 1..i
<1>1. Right(intro)
  BY DEF CheckTypeOK, IntroRight
<1>2. ASSUME Negatives(hints) # {}, ~Occurs(z, FirstScan(lits), f - 1) PROVE Right(int)
  <2>1. PICK k \in Negatives(hints) : f = -hints[k]
    BY <1>2, NegativesFacts DEF FirstCand
  <2>2. f \in Nat \ {0} /\ f <= clsLast
    <3>1. -hints[k] <= clsLast
      BY <1>2 DEF WellMeant
    <3> QED
      BY <2>1, <3>1, NegativesFacts
  <2>3. z \in Codes /\ intro \in Marks
    BY PivotFacts DEF CheckTypeOK
  <2>4. int = [intro EXCEPT ![z] = f]
    BY DEF NewIntro
  <2> HIDE DEF int, z, f
  <2>5. int \in Marks /\ \A x \in Codes : int[x] = IF x = z THEN f ELSE intro[x]
    BY <2>2, <2>3, <2>4 DEF Marks
  <2>6. \A x \in Codes : int[x] <= clsLast
    BY <1>1, <2>2, <2>5
  <2>7. ASSUME NEW i \in DOMAIN db, NEW x \in db[i] PROVE int[x] \in 1..i
    <3>1. i \in Nat /\ x \in Codes /\ intro[x] \in 1..i
      BY <1>1, LiteralFacts DEF CheckTypeOK, DbType
    <3>2. CASE x = z
      <4>1. ~(FirstScan(lits) <= i /\ i <= f - 1)
        BY <1>2, <2>7, <3>2 DEF Occurs
      <4>2. FirstScan(lits) = intro[x]
        BY <3>2 DEF FirstScan, z
      <4> QED
        BY <2>2, <2>5, <3>1, <3>2, <4>1, <4>2
    <3>3. CASE x # z
      BY <2>5, <3>1, <3>3
    <3> QED
      BY <3>2, <3>3
  <2> QED
    BY <2>5, <2>6, <2>7
<1> HIDE DEF Right, c, int
<1>3. ClauseCases(c, lits, hints)
  BY ClauseCase DEF c
<1>4. CASE c.intro = intro
  BY <1>1, <1>4 DEF Right, c
<1>5. CASE Negatives(hints) # {} /\ ~Occurs(z, FirstScan(lits), f - 1) /\ c.intro = int
  <2>1. Right(c.intro)
    BY <1>2, <1>5
  <2> QED
    BY <2>1 DEF Right, c
<1> DEFINE p == FirstPass(lits, hints)
           start == Max({FirstScan(lits), f})
<1>6. p.mask \in Marks /\ now \in Nat /\ now + 1 \in Nat
  BY FirstPassMarks DEF PropStates, CheckTypeOK
<1> HIDE DEF p, start
<1>7. CASE \/ c = Out(TRUE, p.mask, now + 1, intro)
           \/ c = Out(FALSE, p.mask, now + 1, intro)
           \/ c = Out(FirstScan(lits) = 0, p.mask, now + 1, intro)
  <2>0. \E ok : c = Out(ok, p.mask, now + 1, intro)
    BY <1>7, Zenon
  <2>1. c.intro = intro
    BY <2>0, OutFields
  <2> QED
    BY <1>4, <2>1
<1>8. CASE /\ Negatives(hints) # {} /\ ~Occurs(z, FirstScan(lits), f - 1)
           /\ c = Out(TRUE, p.mask, now + 1, int)
  <2>1. c.intro = int
    BY <1>8, Zenon DEF Out
  <2> QED
    BY <1>5, <1>8, <2>1
<1>9. CASE /\ Negatives(hints) # {} /\ ~Occurs(z, FirstScan(lits), f - 1)
           /\ c = AllResolvents(Pivot(lits), start, hints, p.mask, now + 1, int)
  <2>1. start \in Nat
    <3>1. FirstScan(lits) \in Nat /\ f \in Nat
      BY <1>9, PivotFacts, NegativesFacts DEF FirstScan, FirstCand, CheckTypeOK, Marks
    <3> QED
      BY <3>1, MaxFacts DEF start
  <2>2. PICK run : CandidateRun(run, Pivot(lits), start, hints, p.mask, now + 1, int)
    BY <1>6, <2>1, ResolventsRun
  <2>3. \E ok, m, n : c = Out(ok, m, n, int)
    BY <1>9, <2>2, Zenon DEF CandidateRun
  <2>4. c.intro = int
    BY <2>3, OutFields
  <2> QED
    BY <1>5, <1>9, <2>4
<1> QED
  BY <1>3, <1>7, <1>8, <1>9, Zenon DEF ClauseCases, p, start, int

\* The marks after the line: none is newer than the number of the next line.
LEMMA ClauseMarks ==
    ASSUME CheckTypeOK, MarksOld, NEW lits \in Seq(CheckedLits), NEW hints \in HintSeqs,
           WellMeant(lits, hints)
    PROVE  LET c == checkClause(lits, hints)
           IN  /\ c.mask \in Marks /\ c.now \in Nat /\ c.ok \in BOOLEAN
               /\ c.ok => \A x \in Codes : c.mask[x] <= c.now
<1> DEFINE c == checkClause(lits, hints)
           p == FirstPass(lits, hints)
           f == FirstCand(hints)
           start == Max({FirstScan(lits), f})
           Right(d) == /\ d.mask \in Marks /\ d.now \in Nat /\ d.ok \in BOOLEAN
                       /\ d.ok => \A x \in Codes : d.mask[x] <= d.now
           N == Cardinality(Negatives(hints))
<1>1. /\ p.mask \in Marks /\ now \in Nat /\ N \in Nat
      /\ \A x \in Codes : p.mask[x] \in Nat /\ p.mask[x] <= now + 1 + N
  <2>1. p.mask \in Marks /\ now \in Nat /\ N \in Nat /\ LastNumber(hints) = now + 1 + N
    BY FirstPassMarks, NegativesFacts DEF PropStates, CheckTypeOK, LastNumber
  <2>2. ASSUME NEW x \in Codes PROVE p.mask[x] \in Nat /\ p.mask[x] <= now + 1 + N
    <3>1. p.mask[x] \in {mask[x], now + 1 + N}
      BY <2>1, FirstPassMarks
    <3>2. mask[x] \in Nat /\ mask[x] <= now
      BY DEF CheckTypeOK, Marks, MarksOld
    <3> HIDE DEF p, N
    <3> QED
      BY <2>1, <3>1, <3>2
  <2> QED
    BY <2>1, <2>2
<1>2. ClauseCases(c, lits, hints)
  BY ClauseCase
<1>3. /\ Negatives(hints) # {} => p.res = "open" /\ FirstScan(lits) # 0
      /\ Negatives(hints) = {} => N = 0
  <2>1. Negatives(hints) = {} => N = 0
    BY FS_EmptySet
  <2>2. Negatives(hints) # {} => p.res = "open" /\ lits # <<>> /\ intro[Flip(lits[1])] # 0
    BY Zenon DEF WellMeant
  <2>3. Negatives(hints) # {} => FirstScan(lits) # 0
    BY <2>2, Zenon DEF FirstScan, Pivot
  <2> QED
    BY <2>1, <2>2, <2>3
<1> HIDE DEF c, p, N, start, f
<1>4. ASSUME NEW ok, c = Out(ok, p.mask, now + 1, intro), ok => N = 0, ok \in BOOLEAN PROVE Right(c)
  <2>1. c.mask = p.mask /\ c.now = now + 1 /\ c.ok = ok
    BY <1>4 DEF Out
  <2>2. ok => \A x \in Codes : p.mask[x] <= now + 1
    BY <1>1, <1>4
  <2>3. now + 1 \in Nat
    BY <1>1
  <2> QED
    BY <1>1, <1>4, <2>1, <2>2, <2>3, Zenon
<1>5. ASSUME /\ Negatives(hints) # {}
             /\ c = AllResolvents(Pivot(lits), start, hints, p.mask, now + 1, NewIntro(lits, hints))
      PROVE  Right(c)
  <2>1. start \in Nat
    <3>1. FirstScan(lits) \in Nat /\ f \in Nat
      BY <1>5, PivotFacts, NegativesFacts DEF FirstScan, FirstCand, CheckTypeOK, Marks, f
    <3> QED
      BY <3>1, MaxFacts DEF start
  <2>2. now + 1 \in Nat /\ \A x \in Codes : p.mask[x] <= now + 1 + Cardinality(Negatives(hints))
    BY <1>1 DEF N
  <2> QED
    BY <1>1, <1>5, <2>1, <2>2, ResolventsMarks
<1>6. \/ p.res = "conflict" /\ c = Out(TRUE, p.mask, now + 1, intro)
      \/ c = Out(FALSE, p.mask, now + 1, intro)
      \/ Negatives(hints) = {} /\ c = Out(FirstScan(lits) = 0, p.mask, now + 1, intro)
      \/ Negatives(hints) # {} /\ FirstScan(lits) = 0
      \/ /\ Negatives(hints) # {}
         /\ c = AllResolvents(Pivot(lits), start, hints, p.mask, now + 1, NewIntro(lits, hints))
  BY <1>2, Zenon DEF ClauseCases, p, start, f
<1>7. CASE p.res = "conflict" /\ c = Out(TRUE, p.mask, now + 1, intro)
  <2>1. N = 0
    BY <1>3, <1>7
  <2> QED
    BY <1>4, <1>7, <2>1 DEF c
<1>8. CASE c = Out(FALSE, p.mask, now + 1, intro)
  BY <1>4, <1>8 DEF c
<1>9. CASE Negatives(hints) = {} /\ c = Out(FirstScan(lits) = 0, p.mask, now + 1, intro)
  <2>1. N = 0 /\ (FirstScan(lits) = 0) \in BOOLEAN
    BY <1>3, <1>9
  <2> QED
    BY <1>4, <1>9, <2>1 DEF c
<1>10. CASE Negatives(hints) # {} /\ FirstScan(lits) = 0
  BY <1>3, <1>10
<1> QED
  BY <1>5, <1>6, <1>7, <1>8, <1>9, <1>10 DEF c

\* An accepted clause is implied, or its negated pivot can be made false: either
\* way the live clauses keep a model, which satisfies it too.
LEMMA ClauseSound ==
    ASSUME CheckTypeOK, IntroRight, MarksOld,
           NEW lits \in Seq(CheckedLits), NEW hints \in HintSeqs, WellMeant(lits, hints),
           checkClause(lits, hints).ok,
           NEW A \in SUBSET CheckedVars, \A i \in DOMAIN db : Satisfies(A, db[i])
    PROVE  \E B \in SUBSET CheckedVars :
              (\A i \in DOMAIN db : Satisfies(B, db[i])) /\ Satisfies(B, RangeOf(lits))
<1> DEFINE c == checkClause(lits, hints)
           p == FirstPass(lits, hints)
           f == FirstCand(hints)
           z == Flip(Pivot(lits))
           start == Max({FirstScan(lits), f})
<1> SUFFICES ASSUME ~Satisfies(A, RangeOf(lits)) PROVE \E B \in SUBSET CheckedVars :
              (\A i \in DOMAIN db : Satisfies(B, db[i])) /\ Satisfies(B, RangeOf(lits))
  OBVIOUS
<1>1. p.res # "conflict" /\ MarksFalse(A, p.mask, now + 2)
  <2>1. \A x \in RangeOf(lits) : ~Holds(A, x)
    BY DEF Satisfies, Holds
  <2> QED
    BY <2>1, FirstPassSound
<1>2. lits # <<>>
  BY <1>1 DEF WellMeant
<1>3. /\ Pivot(lits) \in CheckedLits /\ Pivot(lits) \in RangeOf(lits) /\ z = -Pivot(lits)
      /\ z \in Codes /\ RangeOf(lits) \subseteq CheckedLits
  BY <1>2, PivotFacts
<1>4. ClauseCases(c, lits, hints)
  BY ClauseCase
<1>5. p.mask \in Marks /\ now \in Nat /\ FirstScan(lits) \in Nat /\ DbType /\ clsLast \in Nat
  BY <1>3, FirstPassMarks DEF PropStates, CheckTypeOK, FirstScan, Marks
\* Every clause with the negated pivot has another literal that holds.
<1>6. ASSUME NEW i \in DOMAIN db, z \in db[i] PROVE FirstScan(lits) # 0 /\ FirstScan(lits) <= i /\ i \in Nat
  <2>1. intro[z] \in 1..i /\ i \in Nat
    BY <1>5, <1>6 DEF IntroRight, DbType
  <2> QED
    BY <2>1 DEF FirstScan
<1>7. \A i \in DOMAIN db : z \in db[i] => \E x \in db[i] \ {z} : Holds(A, x)
  <2>1. CASE FirstScan(lits) = 0
    BY <1>6, <2>1
  <2>2. CASE /\ Negatives(hints) # {} /\ ~Occurs(z, FirstScan(lits), f - 1)
             /\ c = AllResolvents(Pivot(lits), start, hints, p.mask, now + 1, NewIntro(lits, hints))
    <3>1. f \in Nat
      BY <2>2, NegativesFacts DEF FirstCand
    <3>2. start \in {FirstScan(lits), f} /\ start \in Nat
      BY <1>5, <3>1, MaxFacts
    <3>3. ASSUME NEW i \in DOMAIN db, z \in db[i] PROVE start <= i
      <4>1. FirstScan(lits) <= i /\ i \in Nat
        BY <1>6, <3>3
      <4>2. ~(i <= f - 1)
        BY <2>2, <3>3, <4>1 DEF Occurs
      <4> HIDE DEF f, start
      <4> QED
        BY <3>1, <3>2, <4>1, <4>2
    <3>4. now + 1 \in Nat /\ now + 1 + 1 = now + 2
      BY <1>5
    <3>5. MarksFalse(A, p.mask, now + 1 + 1)
      BY <1>1, <3>4
    <3>6. AllResolvents(Pivot(lits), start, hints, p.mask, now + 1, NewIntro(lits, hints)).ok
      BY <2>2
    <3> HIDE DEF start, p, c, f
    <3> QED
      BY <1>5, <3>2, <3>3, <3>4, <3>5, <3>6, ResolventsSound
  <2> HIDE DEF c, p, start, f
  <2>3. CASE c = Out(FALSE, p.mask, now + 1, intro)
    <3>1. c.ok = FALSE
      BY <2>3 DEF Out
    <3> QED
      BY <3>1 DEF c
  <2>4. CASE c = Out(FirstScan(lits) = 0, p.mask, now + 1, intro)
    <3>1. c.ok = (FirstScan(lits) = 0)
      BY <2>4 DEF Out
    <3> QED
      BY <2>1, <3>1 DEF c
  <2>5. \/ FirstScan(lits) = 0
        \/ /\ Negatives(hints) # {} /\ ~Occurs(z, FirstScan(lits), f - 1)
           /\ c = AllResolvents(Pivot(lits), start, hints, p.mask, now + 1, NewIntro(lits, hints))
        \/ c = Out(FALSE, p.mask, now + 1, intro)
        \/ c = Out(FirstScan(lits) = 0, p.mask, now + 1, intro)
    BY <1>1, <1>4, Zenon DEF ClauseCases, p, start, f
  <2> HIDE DEF z
  <2> QED
    BY <2>1, <2>2, <2>3, <2>4, <2>5
\* Making the pivot true keeps every other literal that holds.
<1>8. PICK B \in SUBSET CheckedVars :
         Holds(B, Pivot(lits)) /\ \A x \in CheckedLits : x # -Pivot(lits) /\ Holds(A, x) => Holds(B, x)
  BY <1>3, FlipModel
<1>9. Satisfies(B, RangeOf(lits))
  BY <1>3, <1>8 DEF Satisfies, Holds
<1>10. ASSUME NEW i \in DOMAIN db PROVE Satisfies(B, db[i])
  <2>1. db[i] \subseteq CheckedLits
    BY <1>5 DEF DbType
  <2>2. \E x \in db[i] \ {z} : Holds(A, x)
    <3>1. CASE z \in db[i]
      BY <1>7, <3>1
    <3>2. CASE z \notin db[i]
      <4>1. \E x \in db[i] : Holds(A, x)
        BY DEF Satisfies, Holds
      <4> HIDE DEF z
      <4> QED BY <3>2, <4>1
    <3> QED
      BY <3>1, <3>2
  <2>3. \E x \in db[i] : Holds(B, x)
    <3> HIDE DEF z
    <3> QED BY <1>3, <1>8, <2>1, <2>2
  <2> QED
    BY <2>3 DEF Satisfies, Holds
<1> QED
  BY <1>8, <1>9, <1>10

-----------------------------------------------------------------------------
(* The first occurrences in the formula.                                   *)

\* After the first k clauses, each of their literals has the place of its first
\* clause.
IntroRun(run) ==
    /\ run \in [0..Len(Cnf) -> Marks]
    /\ run[0] = [x \in Codes |-> 0]
    /\ \A k \in 1..Len(Cnf) : run[k] = Introduce(run[k - 1], k, RangeOf(Cnf[k]))
    /\ Introduced = run[Len(Cnf)]

LEMMA IntroduceType ==
    ASSUME NEW int \in Marks, NEW i \in Nat, NEW S
    PROVE  /\ Introduce(int, i, S) \in Marks
           /\ \A x \in Codes : Introduce(int, i, S)[x] = IF x \in S /\ int[x] = 0 THEN i ELSE int[x]
BY DEF Introduce, Marks

LEMMA IntroducedRun == \E run : IntroRun(run)
<1> DEFINE n == Len(Cnf)
           first == [x \in Codes |-> 0]
           G == [k \in 1..n |-> [int \in Marks |-> Introduce(int, k, RangeOf(Cnf[k]))]]
           R(f) == f = [k \in 0..n |-> IF k = 0 THEN first ELSE Introduce(f[k - 1], k, RangeOf(Cnf[k]))]
           run == CHOOSE f : R(f)
<1>1. n \in Nat /\ first \in Marks
  BY CheckAssumption DEF Marks
<1>2. G \in StepsOf(n, Marks)
  <2>1. \A k \in 1..n : k \in Nat
    BY <1>1
  <2> QED BY <2>1, IntroduceType DEF StepsOf
<1>3. PICK f \in [0..n -> Marks] : f[0] = first /\ \A k \in 1..n : f[k] = G[k][f[k - 1]]
  <2> HIDE DEF n, first, G, R, run
  <2>1. n \in Nat
    BY <1>1
  <2>2. first \in Marks
    BY <1>1
  <2> QED BY <1>2, <2>1, <2>2, StepByStep
<1>4. \A k \in 1..n : G[k][f[k - 1]] = Introduce(f[k - 1], k, RangeOf(Cnf[k]))
  <2>1. \A k \in 1..n : f[k - 1] \in Marks
    BY <1>1
  <2> QED
    BY <2>1
<1>5. R(f)
  <2>1. \A k \in 1..n : f[k] = Introduce(f[k - 1], k, RangeOf(Cnf[k]))
    BY <1>3, <1>4
  <2> HIDE DEF G, first, n
  <2> QED BY <1>1, <1>3, <2>1
<1>6. R(run)
  <2> HIDE DEF R
  <2> QED BY <1>5
<1>7. /\ run = [k \in 0..n |-> run[k]] /\ run[0] = first
      /\ \A k \in 1..n : run[k] = Introduce(run[k - 1], k, RangeOf(Cnf[k]))
  <2> HIDE DEF run, first, n
  <2>1. run = [k \in 0..n |-> IF k = 0 THEN first ELSE Introduce(run[k - 1], k, RangeOf(Cnf[k]))]
    BY <1>6
  <2>2. run[0] = first
    BY <1>1, <2>1
  <2>3. ASSUME NEW k \in 1..n PROVE run[k] = Introduce(run[k - 1], k, RangeOf(Cnf[k]))
    <3>1. k \in 0..n /\ k # 0
      BY <1>1
    <3> QED
      BY <2>1, <3>1
  <2>4. run = [k \in 0..n |-> run[k]]
    BY <2>1, Zenon
  <2> QED BY <2>2, <2>3, <2>4
<1>8. Introduced = run[n]
  BY DEF Introduced
<1> HIDE DEF run, first, n
<1>9. \A k \in 0..n : run[k] \in Marks
  <2> DEFINE P == {k \in 0..n : run[k] \in Marks}
  <2>1. 0 \in P
    BY <1>1, <1>7
  <2>2. ASSUME NEW k \in 1..n, k - 1 \in P PROVE k \in P
    <3>1. k \in Nat /\ k \in 0..n
      BY <1>1
    <3>2. Introduce(run[k - 1], k, RangeOf(Cnf[k])) \in Marks
      BY <2>2, <3>1, IntroduceType
    <3>3. \A j \in 1..n : run[j] = Introduce(run[j - 1], j, RangeOf(Cnf[j]))
      BY <1>7
    <3>4. run[k] = Introduce(run[k - 1], k, RangeOf(Cnf[k]))
      BY <3>3
    <3> QED
      BY <3>1, <3>2, <3>4
  <2> HIDE DEF P
  <2>3. \A k \in 0..n : k \in P
    BY <1>1, <2>1, <2>2, UpTo
  <2> QED
    BY <2>3 DEF P
<1>10. run \in [0..n -> Marks]
  BY <1>7, <1>9
<1> QED
  BY <1>7, <1>8, <1>10 DEF first, n, IntroRun

\* Every literal of the formula has a place that is not after its clause.
LEMMA IntroducedFacts ==
    /\ Introduced \in Marks /\ \A x \in Codes : Introduced[x] <= Len(Cnf)
    /\ \A j \in 1..Len(Cnf) : \A x \in RangeOf(Cnf[j]) : Introduced[x] \in 1..j
<1>1. PICK run : IntroRun(run)
  BY IntroducedRun
<1> DEFINE n == Len(Cnf)
           Right(k, g) == /\ \A x \in Codes : g[x] <= k
                          /\ \A j \in 1..k : \A x \in RangeOf(Cnf[j]) : g[x] \in 1..j
           P == {k \in 0..n : Right(k, run[k])}
<1>2. n \in Nat /\ \A j \in 1..n : RangeOf(Cnf[j]) \subseteq CheckedLits
  BY CheckAssumption DEF RangeOf
<1>3. /\ run \in [0..n -> Marks]
      /\ run[0] = [x \in Codes |-> 0]
      /\ \A k \in 1..n : run[k] = Introduce(run[k - 1], k, RangeOf(Cnf[k]))
      /\ Introduced = run[n]
  BY <1>1 DEF IntroRun
<1> HIDE DEF n
<1>4. 0 \in P
  BY <1>2, <1>3
<1>5. ASSUME NEW k \in 1..n, k - 1 \in P PROVE k \in P
  <2> DEFINE g == run[k - 1]
             h == Introduce(g, k, RangeOf(Cnf[k]))
  <2>1. k \in 0..n /\ k - 1 \in 0..n /\ k \in Nat
    BY <1>2
  <2>2. g \in Marks /\ Right(k - 1, g) /\ run[k] = h
    BY <1>3, <1>5, <2>1
  <2>3. \A x \in Codes : g[x] \in Nat /\ h[x] = IF x \in RangeOf(Cnf[k]) /\ g[x] = 0 THEN k ELSE g[x]
    BY <2>1, <2>2, IntroduceType DEF Marks
  <2> HIDE DEF g, h
  <2>4. \A x \in Codes : h[x] <= k
    BY <2>1, <2>2, <2>3
  <2>5. ASSUME NEW j \in 1..k, NEW x \in RangeOf(Cnf[j]) PROVE h[x] \in 1..j
    <3>1. x \in Codes /\ j \in Nat
      <4>1. j \in 1..n
        BY <1>2
      <4>2. x \in CheckedLits
        BY <1>2, <4>1
      <4> QED
        BY <4>1, <4>2, LiteralFacts
    <3>2. CASE j = k
      BY <2>1, <2>2, <2>3, <3>1, <3>2
    <3>3. CASE j # k
      <4>1. j \in 1..(k - 1)
        BY <2>1, <3>3
      <4>2. g[x] \in 1..j
        BY <2>2, <4>1
      <4> QED
        BY <2>3, <3>1, <4>2
    <3> QED
      BY <3>2, <3>3
  <2> QED
    BY <2>1, <2>2, <2>4, <2>5
<1> HIDE DEF P
<1>6. \A k \in 0..n : k \in P
  BY <1>2, <1>4, <1>5, UpTo
<1>7. Right(n, Introduced) /\ Introduced \in Marks
  <2>1. n \in 0..n
    BY <1>2
  <2> QED
    BY <1>3, <1>6, <2>1 DEF P
<1> QED
  BY <1>7 DEF n

-----------------------------------------------------------------------------
(* What unit propagation proves is accepted.                               *)

RupStates == [units : SUBSET CheckedLits, state : {"open", "conflict", "fail"}]

\* RupLine follows one hint after the other.
RupRun(run, lits, hints) ==
    /\ run \in [0..Len(hints) -> RupStates]
    /\ run[0] = [units |-> {-x : x \in lits}, state |-> "open"]
    /\ \A k \in 1..Len(hints) : run[k] = Follow(db, run[k - 1], hints[k])
    /\ RupLine(db, lits, hints) <=> run[Len(hints)].state = "conflict"

LEMMA FollowType ==
    ASSUME DbType, NEW acc \in RupStates, NEW h \in DOMAIN db
    PROVE  Follow(db, acc, h) \in RupStates
BY DEF DbType, RupStates, Follow

LEMMA RupLineRun ==
    ASSUME DbType, NEW lits \in SUBSET CheckedLits, NEW hints \in HintSeqs,
           \A k \in 1..Len(hints) : hints[k] \in DOMAIN db
    PROVE  \E run : RupRun(run, lits, hints)
<1> DEFINE n == Len(hints)
           first == [units |-> {-x : x \in lits}, state |-> "open"]
           G == [k \in 1..n |-> [acc \in RupStates |-> Follow(db, acc, hints[k])]]
           R(f) == f = [k \in 0..n |-> IF k = 0 THEN first ELSE Follow(db, f[k - 1], hints[k])]
           run == CHOOSE f : R(f)
<1>1. n \in Nat /\ first \in RupStates
  BY HintFacts, LiteralFacts DEF RupStates
<1>2. G \in StepsOf(n, RupStates)
  BY FollowType DEF StepsOf
<1>3. PICK f \in [0..n -> RupStates] : f[0] = first /\ \A k \in 1..n : f[k] = G[k][f[k - 1]]
  <2> HIDE DEF n, first, G, R, run
  <2>1. n \in Nat
    BY <1>1
  <2>2. first \in RupStates
    BY <1>1
  <2> QED BY <1>2, <2>1, <2>2, StepByStep
<1>4. \A k \in 1..n : G[k][f[k - 1]] = Follow(db, f[k - 1], hints[k])
  <2>1. \A k \in 1..n : f[k - 1] \in RupStates
    BY <1>1
  <2> QED
    BY <2>1
<1>5. R(f)
  <2>1. \A k \in 1..n : f[k] = Follow(db, f[k - 1], hints[k])
    BY <1>3, <1>4
  <2> HIDE DEF G, first, n
  <2> QED BY <1>1, <1>3, <2>1
<1>6. R(run)
  <2> HIDE DEF R
  <2> QED BY <1>5
<1>7. /\ run = [k \in 0..n |-> run[k]] /\ run[0] = first
      /\ \A k \in 1..n : run[k] = Follow(db, run[k - 1], hints[k])
  <2> HIDE DEF run, first, n
  <2>1. run = [k \in 0..n |-> IF k = 0 THEN first ELSE Follow(db, run[k - 1], hints[k])]
    BY <1>6
  <2>2. run[0] = first
    BY <1>1, <2>1
  <2>3. ASSUME NEW k \in 1..n PROVE run[k] = Follow(db, run[k - 1], hints[k])
    <3>1. k \in 0..n /\ k # 0
      BY <1>1
    <3> QED
      BY <2>1, <3>1
  <2>4. run = [k \in 0..n |-> run[k]]
    BY <2>1, Zenon
  <2> QED BY <2>2, <2>3, <2>4
<1>8. RupLine(db, lits, hints) <=> run[n].state = "conflict"
  BY Zenon DEF RupLine
<1> HIDE DEF run, first
<1>9. \A k \in 0..n : run[k] \in RupStates
  <2> DEFINE P == {k \in 0..n : run[k] \in RupStates}
  <2>1. 0 \in P
    BY <1>1, <1>7
  <2>2. ASSUME NEW k \in 1..n, k - 1 \in P PROVE k \in P
    <3>1. Follow(db, run[k - 1], hints[k]) \in RupStates
      BY <2>2, FollowType
    <3> HIDE DEF n
    <3>2. k \in 0..n
      BY <1>1
    <3>3. \A j \in 1..n : run[j] = Follow(db, run[j - 1], hints[j])
      BY <1>7
    <3>4. run[k] = Follow(db, run[k - 1], hints[k])
      BY <3>3
    <3> QED
      BY <3>1, <3>2, <3>4
  <2> HIDE DEF P, n
  <2>3. \A k \in 0..n : k \in P
    BY <1>1, <2>1, <2>2, UpTo
  <2> QED
    BY <2>3 DEF P
<1> HIDE DEF n
<1>10. run \in [0..n -> RupStates]
  BY <1>7, <1>9
<1> QED
  BY <1>7, <1>8, <1>10, Zenon DEF first, n, RupRun

\* Propagation by marks follows propagation by sets of units.
Agree(a, b, t) ==
    /\ a.state = "open" <=> b.res = "open"
    /\ a.state = "conflict" <=> b.res = "conflict"
    /\ a.state = "open" => \A x \in CheckedLits : -x \in a.units <=> b.mask[x] >= t

LEMMA AgreeStep ==
    ASSUME DbType, NEW a \in RupStates, NEW b \in PropStates, NEW t \in Nat, Agree(a, b, t),
           NEW h \in DOMAIN db
    PROVE  Agree(Follow(db, a, h), UseHint(b, h, t), t)
<1> DEFINE rest == {x \in db[h] : -x \notin a.units}
           left == {x \in db[h] : b.mask[x] < t}
           S == {Flip(x) : x \in left}
<1>1. db[h] \subseteq CheckedLits /\ b.mask \in Marks
  BY DEF DbType, PropStates
<1>2. CASE a.state # "open"
  <2>1. Follow(db, a, h) = a /\ UseHint(b, h, t) = b
    BY <1>2 DEF Follow, UseHint, Agree
  <2> QED
    BY <2>1
<1>3. CASE a.state = "open"
  <2>1. rest = left
    <3>1. \A x \in db[h] : -x \notin a.units <=> b.mask[x] < t
      <4>1. \A x \in db[h] : x \in CheckedLits /\ b.mask[x] \in Nat
        BY <1>1, LiteralFacts DEF Marks
      <4> QED
        BY <1>3, <4>1 DEF Agree
    <3> QED
      BY <3>1
  <2>2. b.res = "open"
    BY <1>3 DEF Agree
  <2>3. IsFiniteSet(rest) /\ rest \subseteq CheckedLits
    BY <1>1, LiteralFacts, FS_Subset
  <2>4. CASE rest = {}
    <3>1. Follow(db, a, h) = [a EXCEPT !.state = "conflict"] /\ UseHint(b, h, t) = [b EXCEPT !.res = "conflict"]
      BY <1>3, <2>1, <2>2, <2>4 DEF Follow, UseHint
    <3>2. Follow(db, a, h).state = "conflict" /\ UseHint(b, h, t).res = "conflict"
      BY <3>1 DEF RupStates, PropStates
    <3> QED
      BY <3>2 DEF Agree
  <2>5. CASE Cardinality(rest) = 1
    <3>1. PICK y : rest = {y}
      BY <2>3, <2>5, FS_Singleton
    <3>2. y \in CheckedLits /\ Flip(y) = -y
      BY <2>3, <3>1, LiteralFacts
    <3>3. S = {-y}
      <4>1. left = {y}
        BY <2>1, <3>1
      <4> HIDE DEF left
      <4> QED BY <3>2, <4>1
    <3>4. Follow(db, a, h) = [a EXCEPT !.units = @ \cup rest]
      BY <1>3, <2>5, <3>1 DEF Follow
    <3>5. UseHint(b, h, t) = [b EXCEPT !.mask = Marked(@, S, t)]
      <4>1. left # {} /\ ~(Cardinality(left) > 1)
        BY <2>1, <2>5, <3>1
      <4> QED
        BY <2>2, <4>1 DEF UseHint
    <3>6. /\ Follow(db, a, h).state = "open" /\ Follow(db, a, h).units = a.units \cup {y}
          /\ UseHint(b, h, t).res = "open" /\ UseHint(b, h, t).mask = Marked(b.mask, S, t)
      <4> HIDE DEF rest, S
      <4> QED BY <1>3, <2>2, <3>1, <3>4, <3>5 DEF RupStates, PropStates
    <3>7. ASSUME NEW x \in CheckedLits
          PROVE  -x \in a.units \cup {y} <=> Marked(b.mask, S, t)[x] >= t
      <4>1. x \in Codes /\ -(-x) = x /\ x \in Int /\ b.mask[x] \in Nat /\ -(-y) = y /\ y \in Int
        BY <1>1, <3>2, LiteralFacts DEF Marks
      <4>2. -x = y <=> x = -y
        BY <4>1
      <4>3. -x \in a.units <=> b.mask[x] >= t
        BY <1>3 DEF Agree
      <4>4. Marked(b.mask, S, t)[x] = IF x \in S THEN t ELSE b.mask[x]
        BY <1>1, <4>1, MarkedType
      <4> HIDE DEF S
      <4> QED
        BY <3>3, <4>1, <4>2, <4>3, <4>4
    <3> HIDE DEF S
    <3> QED
      BY <3>6, <3>7 DEF Agree
  <2>6. CASE rest # {} /\ Cardinality(rest) # 1
    <3>1. Cardinality(rest) \in Nat /\ Cardinality(rest) # 0
      BY <2>3, <2>6, FS_CardinalityType, FS_EmptySet
    <3>2. left # {} /\ Cardinality(left) > 1
      <4> HIDE DEF rest, left
      <4> QED BY <2>1, <2>6, <3>1
    <3>3. Follow(db, a, h) = [a EXCEPT !.state = "fail"] /\ UseHint(b, h, t) = [b EXCEPT !.res = "failed"]
      BY <1>3, <2>2, <2>6, <3>2 DEF Follow, UseHint
    <3>4. Follow(db, a, h).state = "fail" /\ UseHint(b, h, t).res = "failed"
      BY <3>3 DEF RupStates, PropStates
    <3> QED
      BY <3>4 DEF Agree
  <2> QED
    BY <2>4, <2>5, <2>6
<1> QED
  BY <1>2, <1>3

LEMMA RupAccepted ==
    ASSUME CheckTypeOK, MarksOld, NEW lits \in Seq(CheckedLits), NEW hints \in HintSeqs,
           \A k \in DOMAIN hints : hints[k] \in DOMAIN db, RupLine(db, RangeOf(lits), hints)
    PROVE  checkClause(lits, hints).ok
<1> DEFINE n == Len(hints)
           t == now + 1
           m == Marked(mask, RangeOf(lits), t)
<1>1. /\ n \in Nat /\ DOMAIN hints = 1..n /\ t \in Nat /\ DbType /\ RangeOf(lits) \in SUBSET CheckedLits
      /\ \A k \in 1..n : hints[k] \in DOMAIN db /\ hints[k] \in Nat \ {0}
  <2>1. DbType /\ t \in Nat
    BY DEF CheckTypeOK
  <2>2. \A k \in DOMAIN hints : hints[k] \in Nat \ {0}
    BY <2>1 DEF DbType, CheckTypeOK
  <2> QED
    BY <2>1, <2>2, HintFacts, PivotFacts
<1>2. Negatives(hints) = {} /\ Cardinality(Negatives(hints)) = 0
  <2>1. Negatives(hints) = {}
    BY <1>1 DEF Negatives
  <2> QED
    BY <2>1, FS_EmptySet
<1>3. After(hints, 0) = hints
  <2>1. {j \in (0 + 1)..n : hints[j] < 0} \cup {n + 1} = {n + 1}
    BY <1>1
  <2>2. Min({n + 1}) = n + 1
    <3>1. {n + 1} \in SUBSET Nat
      BY <1>1
    <3> QED
      BY <3>1, MinFacts
  <2>3. SubSeq(hints, 1, n) = hints
    BY HintFacts, SubSeqFull
  <2>5. After(hints, 0) = SubSeq(hints, 0 + 1, Min({n + 1}) - 1)
    BY <2>1, Zenon DEF After
  <2>6. Min({n + 1}) - 1 = n
    BY <1>1, <2>2
  <2>7. 0 + 1 = 1
    OBVIOUS
  <2> HIDE DEF n
  <2>8. After(hints, 0) = SubSeq(hints, 1, n)
    BY <2>5, <2>6, <2>7, Zenon
  <2> QED
    BY <2>3, <2>8, Zenon
<1>4. FirstPass(lits, hints) = Propagated(m, hints, t)
  <2>1. now + 1 + 0 = now + 1
    BY DEF CheckTypeOK
  <2> QED
    BY <1>2, <1>3, <2>1, Zenon DEF FirstPass
<1>5. m \in Marks /\ \A x \in Codes : m[x] = IF x \in RangeOf(lits) THEN t ELSE mask[x]
  <2> HIDE DEF t
  <2> QED BY <1>1, MarkedType DEF CheckTypeOK
<1> HIDE DEF m, n
<1>6. PICK ru : RupRun(ru, RangeOf(lits), hints)
  BY <1>1, RupLineRun DEF n
<1>7. PICK pr : PropRun(pr, m, hints, t)
  BY <1>1, <1>5, HintFacts, PropagatedRun
<1>8. /\ ru \in [0..n -> RupStates] /\ ru[0] = [units |-> {-x : x \in RangeOf(lits)}, state |-> "open"]
      /\ \A k \in 1..n : ru[k] = Follow(db, ru[k - 1], hints[k])
      /\ ru[n].state = "conflict"
  BY <1>6 DEF RupRun, n
<1>9. /\ pr \in [0..n -> PropStates] /\ pr[0] = [res |-> "open", mask |-> m]
      /\ \A k \in 1..n : pr[k] = UseHint(pr[k - 1], hints[k], t)
      /\ FirstPass(lits, hints) = pr[n]
  BY <1>4, <1>7 DEF PropRun, n
<1> DEFINE P == {k \in 0..n : Agree(ru[k], pr[k], t)}
<1>10. 0 \in P
  <2>1. ASSUME NEW x \in CheckedLits PROVE -x \in {-y : y \in RangeOf(lits)} <=> m[x] >= t
    <3>1. x \in Codes /\ mask[x] \in Nat /\ mask[x] <= now /\ now \in Nat
      BY LiteralFacts DEF CheckTypeOK, Marks, MarksOld
    <3>2. -x \in {-y : y \in RangeOf(lits)} <=> x \in RangeOf(lits)
      <4>1. \A y \in RangeOf(lits) : -y = -x => y = x
        <5>1. \A y \in RangeOf(lits) : -(-y) = y /\ -(-x) = x
          BY <1>1, LiteralFacts
        <5> QED
          BY <5>1
      <4> QED
        BY <4>1
    <3> QED
      BY <1>5, <3>1, <3>2
  <2>2. ru[0].state = "open" /\ ru[0].units = {-y : y \in RangeOf(lits)} /\ pr[0].res = "open" /\ pr[0].mask = m
    BY <1>8, <1>9
  <2>3. Agree(ru[0], pr[0], t)
    <3> HIDE DEF t
    <3> QED BY <2>1, <2>2 DEF Agree
  <2> QED
    BY <1>1, <2>3
<1>11. ASSUME NEW k \in 1..n, k - 1 \in P PROVE k \in P
  <2>1. k \in 0..n /\ k - 1 \in 0..n /\ hints[k] \in DOMAIN db
    BY <1>1
  <2>2. ru[k - 1] \in RupStates /\ pr[k - 1] \in PropStates
    BY <1>8, <1>9, <2>1
  <2>3. Agree(Follow(db, ru[k - 1], hints[k]), UseHint(pr[k - 1], hints[k], t), t)
    <3> HIDE DEF t
    <3>1. Agree(ru[k - 1], pr[k - 1], t)
      BY <1>11
    <3> QED BY <1>1, <2>1, <2>2, <3>1, AgreeStep
  <2> HIDE DEF t
  <2>4. Agree(ru[k], pr[k], t)
    BY <1>8, <1>9, <2>3
  <2> QED
    BY <2>1, <2>4
<1> HIDE DEF P
<1>12. \A k \in 0..n : k \in P
  BY <1>1, <1>10, <1>11, UpTo
<1>13. FirstPass(lits, hints).res = "conflict"
  <2>1. n \in 0..n
    BY <1>1
  <2>2. Agree(ru[n], pr[n], t)
    BY <1>12, <2>1 DEF P
  <2> QED
    BY <1>8, <1>9, <2>2 DEF Agree
<1>14. checkClause(lits, hints) = Out(TRUE, FirstPass(lits, hints).mask, now + 1, intro)
  BY <1>13, Zenon DEF checkClause
<1>15. Out(TRUE, FirstPass(lits, hints).mask, now + 1, intro).ok = TRUE
  BY OutFields
<1> QED
  BY <1>14, <1>15, Zenon

-----------------------------------------------------------------------------
(* The checker.                                                            *)

\* No live clause lies before the place where the scan for its literal starts,
\* no mark is newer than the lines read, no model of the formula has been lost.
CheckInv == CheckTypeOK /\ IntroRight /\ MarksFresh /\ Sound

LEMMA CheckInitRight == CheckInit => CheckInv
<1> SUFFICES ASSUME CheckInit PROVE CheckInv
  OBVIOUS
<1>1. Len(Cnf) \in Nat /\ DOMAIN Cnf = 1..Len(Cnf) /\ \A i \in 1..Len(Cnf) : RangeOf(Cnf[i]) \subseteq CheckedLits
  BY CheckAssumption DEF RangeOf
<1>2. /\ DOMAIN db = 1..Len(Cnf) /\ \A i \in 1..Len(Cnf) : db[i] = RangeOf(Cnf[i])
      /\ db = [i \in DOMAIN db |-> db[i]]
  BY <1>1 DEF CheckInit
<1>3. CheckTypeOK
  <2>1. DbType
    BY <1>1, <1>2 DEF CheckInit, DbType
  <2>2. [x \in Codes |-> 0] \in Marks
    BY DEF Marks
  <2> QED
    BY <1>1, <2>1, <2>2, IntroducedFacts DEF CheckInit, CheckTypeOK
<1>4. IntroRight
  BY <1>2, IntroducedFacts DEF CheckInit, IntroRight
<1>5. MarksFresh
  BY DEF CheckInit, MarksFresh
<1>6. Sound
  <2>1. {db[i] : i \in DOMAIN db} = {RangeOf(Cnf[i]) : i \in DOMAIN Cnf}
    BY <1>1, <1>2
  <2>2. verified = FALSE
    BY DEF CheckInit
  <2> QED
    BY <2>1, <2>2, Zenon DEF Sound
<1> QED
  BY <1>3, <1>4, <1>5, <1>6 DEF CheckInv

\* A line with a clause, accepted or refused.
LEMMA CheckLineRight ==
    ASSUME CheckInv, NEW lits \in Lemmas, NEW hints \in HintLists, CheckLine(lits, hints)
    PROVE  CheckInv'
<1> DEFINE c == checkClause(lits, hints)
           i == clsLast + 1
<1>1. lits \in Seq(CheckedLits) /\ hints \in HintSeqs
  BY CheckAssumption DEF HintSeqs
<1>2. CheckTypeOK /\ IntroRight /\ MarksFresh /\ Sound
  BY DEF CheckInv
<1>3. MarksOld
  <2>1. DOMAIN mask = Codes
    BY <1>2 DEF CheckTypeOK, Marks
  <2> QED
    BY <1>2, <2>1 DEF CheckLine, MarksFresh, MarksOld
<1>4. WellMeant(lits, hints) /\ mask' = c.mask /\ now' = c.now /\ status = "checking"
  BY DEF CheckLine
<1>5. /\ c.mask \in Marks /\ c.now \in Nat /\ c.ok \in BOOLEAN
      /\ c.ok => \A x \in Codes : c.mask[x] <= c.now
  BY <1>1, <1>2, <1>3, <1>4, ClauseMarks
<1>6. /\ c.intro \in Marks /\ \A x \in Codes : c.intro[x] <= clsLast
      /\ \A j \in DOMAIN db : \A x \in db[j] : c.intro[x] \in 1..j
  BY <1>1, <1>2, <1>4, ClauseIntro
<1>7. /\ DbType /\ clsLast \in Nat /\ i \in Nat /\ verified \in BOOLEAN /\ i \notin DOMAIN db
      /\ RangeOf(lits) \subseteq CheckedLits
  BY <1>1, <1>2, PivotFacts DEF CheckTypeOK, DbType
<1>8. CASE c.ok
  <2>1. /\ db' = [j \in DOMAIN db \cup {i} |-> IF j = i THEN RangeOf(lits) ELSE db[j]]
        /\ intro' = Introduce(c.intro, i, RangeOf(lits))
        /\ clsLast' = i /\ status' = status
        /\ verified' = (verified \/ lits = <<>>)
    BY <1>8, Zenon DEF CheckLine
  <2> HIDE DEF c
  <2>2. /\ DOMAIN db' = DOMAIN db \cup {i} /\ db'[i] = RangeOf(lits)
        /\ \A j \in DOMAIN db : db'[j] = db[j]
    BY <1>7, <2>1
  <2>3. DbType'
    <3>1. db' = [j \in DOMAIN db' |-> db'[j]]
      BY <2>1
    <3>2. DOMAIN db' \subseteq 1..clsLast'
      BY <1>7, <2>1, <2>2 DEF DbType
    <3>3. \A j \in DOMAIN db' : db'[j] \subseteq CheckedLits
      BY <1>7, <2>2 DEF DbType
    <3> QED
      BY <3>1, <3>2, <3>3 DEF DbType
  <2>4. /\ intro' \in Marks
        /\ \A x \in Codes : intro'[x] = IF x \in RangeOf(lits) /\ c.intro[x] = 0 THEN i ELSE c.intro[x]
    BY <1>6, <1>7, <2>1, IntroduceType
  <2>5. \A x \in Codes : c.intro[x] \in Nat /\ intro'[x] <= clsLast'
    BY <1>6, <1>7, <2>1, <2>4, SMTT(40) DEF Marks
  <2>6. CheckTypeOK'
    <3>1. verified' \in BOOLEAN
      BY <1>7, <2>1
    <3>2. mask' \in Marks /\ now' \in Nat /\ clsLast' \in Nat /\ status' = "checking"
      BY <1>4, <1>5, <1>7, <2>1
    <3> QED
      BY <2>3, <2>4, <2>5, <3>1, <3>2 DEF CheckTypeOK
  <2>7. IntroRight'
    <3>1. ASSUME NEW j \in DOMAIN db, NEW x \in db[j] PROVE intro'[x] \in 1..j
      <4>1. x \in Codes /\ c.intro[x] \in 1..j /\ j \in Nat
        BY <1>6, <1>7, LiteralFacts DEF DbType
      <4> QED
        BY <2>4, <4>1
    <3>2. ASSUME NEW x \in RangeOf(lits) PROVE intro'[x] \in 1..i
      <4>1. x \in Codes
        BY <1>7, LiteralFacts
      <4>2. c.intro[x] \in Nat /\ c.intro[x] <= clsLast
        BY <1>6, <2>5, <4>1
      <4> QED
        BY <1>7, <2>4, <4>1, <4>2
    <3> HIDE DEF i
    <3> QED
      BY <2>2, <3>1, <3>2 DEF IntroRight
  <2>8. MarksFresh'
    <3>1. DOMAIN mask' = Codes
      BY <1>4, <1>5 DEF Marks
    <3> QED
      BY <1>4, <1>5, <1>8, <3>1 DEF MarksFresh
  <2>9. Sound'
    <3>1. SUFFICES ASSUME Satisfiable({RangeOf(Cnf[j]) : j \in DOMAIN Cnf})
          PROVE  ~verified' /\ Satisfiable({db'[j] : j \in DOMAIN db'})
      BY Zenon DEF Sound
    <3>2. ~verified /\ Satisfiable({db[j] : j \in DOMAIN db})
      BY <1>2, <3>1, Zenon DEF Sound
    <3>3. PICK A \in SUBSET CheckedVars : \A d \in {db[j] : j \in DOMAIN db} : Satisfies(A, d)
      BY <3>2 DEF Satisfiable
    <3>4. \A j \in DOMAIN db : Satisfies(A, db[j])
      BY <3>3
    <3>5. PICK B \in SUBSET CheckedVars :
              (\A j \in DOMAIN db : Satisfies(B, db[j])) /\ Satisfies(B, RangeOf(lits))
      BY <1>1, <1>2, <1>3, <1>4, <1>8, <3>4, ClauseSound DEF c
    <3>6. lits # <<>>
      <4>1. RangeOf(lits) # {}
        BY <3>5 DEF Satisfies
      <4> QED
        BY <1>1, <4>1, PivotFacts
    <3>7. \A d \in {db'[j] : j \in DOMAIN db'} : Satisfies(B, d)
      <4> HIDE DEF i
      <4> QED BY <2>2, <3>5
    <3>8. Satisfiable({db'[j] : j \in DOMAIN db'})
      BY <3>7 DEF Satisfiable
    <3> QED
      BY <2>1, <3>2, <3>6, <3>8
  <2> QED
    BY <2>6, <2>7, <2>8, <2>9 DEF CheckInv
<1>9. CASE ~c.ok
  <2>1. intro' = c.intro /\ status' = "refused" /\ UNCHANGED <<db, clsLast, verified>>
    BY <1>9, Zenon DEF CheckLine
  <2> HIDE DEF c, i
  <2>2. DbType'
    BY <1>7, <2>1 DEF DbType
  <2>3. CheckTypeOK'
    BY <1>4, <1>5, <1>6, <1>7, <2>1, <2>2 DEF CheckTypeOK
  <2>4. IntroRight'
    BY <1>6, <2>1 DEF IntroRight
  <2>5. MarksFresh'
    BY <2>1 DEF MarksFresh
  <2>6. Sound'
    <3>1. db' = db /\ verified' = verified
      BY <2>1
    <3> QED
      BY <1>2, <3>1, Zenon DEF Sound
  <2> QED
    BY <2>3, <2>4, <2>5, <2>6 DEF CheckInv
<1> QED
  BY <1>5, <1>8, <1>9

LEMMA DeleteLineRight ==
    ASSUME CheckInv, NEW i \in 1..clsLast, DeleteLine(i)
    PROVE  CheckInv'
<1>1. /\ db' = [j \in DOMAIN db \ {i} |-> db[j]]
      /\ UNCHANGED <<intro, mask, now, clsLast, verified, status>>
      /\ CheckTypeOK /\ IntroRight /\ MarksFresh /\ Sound
  BY DEF DeleteLine, CheckInv
<1>2. DOMAIN db' = DOMAIN db \ {i} /\ \A j \in DOMAIN db' : db'[j] = db[j]
  BY <1>1
<1>3. CheckTypeOK'
  BY <1>1, <1>2 DEF CheckTypeOK, DbType
<1>4. IntroRight'
  BY <1>1, <1>2 DEF IntroRight
<1>5. MarksFresh'
  BY <1>1 DEF MarksFresh
<1>6. Sound'
  <2>1. {db'[j] : j \in DOMAIN db'} \subseteq {db[j] : j \in DOMAIN db}
    BY <1>2
  <2>2. Satisfiable({db[j] : j \in DOMAIN db}) => Satisfiable({db'[j] : j \in DOMAIN db'})
    BY <2>1 DEF Satisfiable
  <2>3. verified' = verified /\ Sound
    BY <1>1
  <2>4. SUFFICES ASSUME Satisfiable({RangeOf(Cnf[j]) : j \in DOMAIN Cnf})
        PROVE  ~verified' /\ Satisfiable({db'[j] : j \in DOMAIN db'})
    BY Zenon DEF Sound
  <2>5. ~verified /\ Satisfiable({db[j] : j \in DOMAIN db})
    BY <2>3, <2>4, Zenon DEF Sound
  <2> QED
    BY <2>2, <2>3, <2>5, Zenon
<1> QED
  BY <1>3, <1>4, <1>5, <1>6 DEF CheckInv

\* Whatever lines the proof has, the checker keeps its invariant: a formula that
\* has a model keeps one, and is never reported as refuted.
THEOREM CheckerInvariant == CheckSpec => []CheckInv
<1>1. CheckInv /\ [CheckNext]_checkVars => CheckInv'
  <2> SUFFICES ASSUME CheckInv, [CheckNext]_checkVars PROVE CheckInv'
    OBVIOUS
  <2>1. CASE \E lits \in Lemmas, hints \in HintLists : CheckLine(lits, hints)
    BY <2>1, CheckLineRight
  <2>2. CASE \E i \in 1..clsLast : DeleteLine(i)
    BY <2>2, DeleteLineRight
  <2>3. CASE EndOfFile
    <3>1. status' = "ended" /\ UNCHANGED <<db, intro, mask, now, clsLast, verified>>
      BY <2>3 DEF EndOfFile
    <3>2. CheckTypeOK' /\ IntroRight' /\ MarksFresh'
      BY <3>1 DEF CheckInv, CheckTypeOK, DbType, IntroRight, MarksFresh
    <3>3. Sound'
      <4>1. db' = db /\ verified' = verified /\ Sound
        BY <3>1 DEF CheckInv
      <4> QED
        BY <4>1, Zenon DEF Sound
    <3> QED
      BY <3>2, <3>3 DEF CheckInv
  <2>4. CASE UNCHANGED checkVars
    <3>1. UNCHANGED <<db, intro, mask, now, clsLast, verified, status>>
      BY <2>4 DEF checkVars
    <3>2. CheckTypeOK' /\ IntroRight' /\ MarksFresh'
      BY <3>1 DEF CheckInv, CheckTypeOK, DbType, IntroRight, MarksFresh
    <3>3. Sound'
      <4>1. db' = db /\ verified' = verified /\ Sound
        BY <3>1 DEF CheckInv
      <4> QED
        BY <4>1, Zenon DEF Sound
    <3> QED
      BY <3>2, <3>3 DEF CheckInv
  <2> QED
    BY <2>1, <2>2, <2>3, <2>4 DEF CheckNext
<1> QED
  BY <1>1, CheckInitRight, PTL DEF CheckSpec

\* No line that unit propagation along its hints proves is refused, whatever was
\* checked, resolved and deleted before it.
LEMMA AcceptsRupRight == CheckInv => AcceptsRup
<1> SUFFICES ASSUME CheckInv, status = "checking", NEW lits \in Lemmas, NEW hints \in HintLists,
                    \A k \in DOMAIN hints : hints[k] \in DOMAIN db, RupLine(db, RangeOf(lits), hints)
             PROVE  checkClause(lits, hints).ok
  BY DEF AcceptsRup
<1>1. lits \in Seq(CheckedLits) /\ hints \in HintSeqs
  BY CheckAssumption DEF HintSeqs
<1>2. CheckTypeOK /\ MarksOld
  BY DEF CheckInv, CheckTypeOK, Marks, MarksFresh, MarksOld
<1> QED
  BY <1>1, <1>2, RupAccepted

\* The checker is sound, and complete for lines that unit propagation proves: the
\* property that the runs check of lrat-check.c, for every formula and every
\* proof file.
THEOREM CheckerRight == CheckSpec => []LratCheckRight
<1>1. CheckInv => LratCheckRight
  BY AcceptsRupRight DEF CheckInv, LratCheckRight
<1> QED
  BY <1>1, CheckerInvariant, PTL
=============================================================================
