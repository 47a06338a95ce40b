----------------------------- MODULE LratCheck -----------------------------
(***************************************************************************)
(* lrat-check: one line of the proof after the other is checked against the *)
(* live clauses and added to them, or deletes some.  Literals are assigned   *)
(* by numbered marks that are never cleared; intro remembers where a literal *)
(* first occurred, so that no earlier clause need be scanned for it.         *)
(***************************************************************************)
EXTENDS Integers, Sequences, FiniteSets, SequencesExt, FiniteSetsExt, LratRules

CONSTANTS
    CheckedVars, \* variables
    Cnf,         \* the clauses of the formula, sequences of literals
    Lemmas,      \* the clauses of the proof, sequences of literals
    HintLists,   \* their hints: ids, and negative ids before those of a resolvent
    MaxId        \* bound on the ids in the file

CheckedLits == CheckedVars \cup {-v : v \in CheckedVars}

\* convertLit numbers the literals; xor 1 negates.  0 has a number, and so a
\* negation, of which no clause contains an occurrence.
NoLit == Cardinality(CheckedVars) + 1
Flip(x) == IF x = 0 THEN NoLit ELSE -x
Codes == CheckedLits \cup {0, NoLit}

ASSUME CheckAssumption ==
    /\ IsFiniteSet(CheckedVars) /\ CheckedVars = 1..Cardinality(CheckedVars)
    /\ Cnf \in Seq(Seq(CheckedLits)) /\ Lemmas \subseteq Seq(CheckedLits)
    /\ HintLists \subseteq Seq(Int \ {0}) /\ MaxId \in Nat

VARIABLES db, intro, mask, now, clsLast, verified, status

checkVars == <<db, intro, mask, now, clsLast, verified, status>>

\* A literal of clause i occurs first there, unless it has occurred before.
\* Mutant: whether it has occurred before or not.
IntroLast(int, i, lits) == [x \in DOMAIN int |-> IF x \in lits THEN i ELSE int[x]]
Introduce(int, i, lits) == [x \in DOMAIN int |-> IF x \in lits /\ int[x] = 0 THEN i ELSE int[x]]

Introduced ==
    LET run[i \in 0..Len(Cnf)] ==
            IF i = 0 THEN [x \in Codes |-> 0] ELSE Introduce(run[i - 1], i, RangeOf(Cnf[i]))
    IN  run[Len(Cnf)]

CheckInit ==
    /\ db = [i \in DOMAIN Cnf |-> RangeOf(Cnf[i])]
    /\ intro = Introduced
    /\ mask = [x \in Codes |-> 0]
    /\ now = 0 /\ clsLast = Len(Cnf) /\ verified = FALSE /\ status = "checking"

-----------------------------------------------------------------------------
\* A falsified literal has a mark that is not older than the clause checked.
Marked(m, S, t) == [x \in DOMAIN m |-> IF x \in S THEN t ELSE m[x]]

\* One hint: unit, conflicting, or useless.
UseHint(acc, h, t) ==
    IF acc.res # "open" THEN acc
    ELSE IF h \notin DOMAIN db THEN [acc EXCEPT !.res = "failed"]
    ELSE LET rest == {x \in db[h] : acc.mask[x] < t}
         IN  IF rest = {} THEN [acc EXCEPT !.res = "conflict"]
             ELSE IF Cardinality(rest) > 1 THEN [acc EXCEPT !.res = "failed"]
             ELSE [acc EXCEPT !.mask = Marked(@, {Flip(x) : x \in rest}, t)]

Propagated(m, hs, t) ==
    LET run[k \in 0..Len(hs)] ==
            IF k = 0 THEN [res |-> "open", mask |-> m] ELSE UseHint(run[k - 1], hs[k], t)
    IN  run[Len(hs)]

\* A live clause with literal x among the ids first..last.
Occurs(x, first, last) == \E i \in DOMAIN db : first <= i /\ i <= last /\ x \in db[i]

\* checkRedundancy for a resolvent: no clause between the last candidate and
\* this one has -pivot, and the resolvent is a tautology or its hints conflict.
Resolvent(pivot, start, cand, m, hs, t) ==
    IF Occurs(Flip(pivot), start, cand - 1) \/ cand \notin DOMAIN db THEN [res |-> "failed", mask |-> m]
    ELSE LET S == {x \in db[cand] \ {Flip(pivot)} : m[x] < t}
             p == Propagated(Marked(m, S, t), hs, t)
         IN  IF \E x \in S : m[Flip(x)] >= t \/ Flip(x) \in S THEN [res |-> "blocked", mask |-> Marked(m, S, t)]
             ELSE IF Flip(pivot) \notin db[cand] THEN [res |-> "failed", mask |-> Marked(m, S, t)]
             ELSE IF p.res = "open" THEN [p EXCEPT !.res = "failed"] ELSE p

\* The positive hints after place k of the list.
\* Mutant: all but the last.
AfterButLast(hints, k) ==
    LET stop == {j \in (k + 1)..Len(hints) : hints[j] < 0} \cup {Len(hints)}
    IN  SubSeq(hints, k + 1, Min(stop) - 1)
After(hints, k) ==
    LET stop == {j \in (k + 1)..Len(hints) : hints[j] < 0} \cup {Len(hints) + 1}
    IN  SubSeq(hints, k + 1, Min(stop) - 1)
Negatives(hints) == {k \in DOMAIN hints : hints[k] < 0}

Out(ok, m, n, int) == [ok |-> ok, mask |-> m, now |-> n, intro |-> int]

\* Mutant: the number is not raised for a resolvent.
NextNowSame(n) == n
NextNow(n) == n + 1

\* The clauses after the last candidate.
\* Mutant: they are not read.
RestUnread(pivot, start) == FALSE
RestHas(pivot, start) == Occurs(Flip(pivot), start, clsLast)

\* One hint: a negative one names the next candidate.
UseCandidate(acc, pivot, hints, k) ==
    LET c == -hints[k]
        q == Resolvent(pivot, acc.start, c, acc.mask, After(hints, k), NextNow(acc.now))
    IN  IF hints[k] > 0 \/ ~acc.ok THEN acc
        ELSE [ok    |-> q.res # "failed" /\ c >= acc.start,
              mask  |-> q.mask, now |-> NextNow(acc.now), start |-> c + 1]

\* The resolvents, one candidate after the other, then the rest of the clauses.
AllResolvents(pivot, start, hints, m, n, int) ==
    LET run[k \in 0..Len(hints)] ==
            IF k = 0 THEN [ok |-> TRUE, mask |-> m, now |-> n, start |-> start]
            ELSE UseCandidate(run[k - 1], pivot, hints, k)
        r == run[Len(hints)]
    IN  IF ~r.ok THEN Out(FALSE, r.mask, r.now, int)
        ELSE Out(~RestHas(pivot, r.start), r.mask, r.now + 1, int)

\* The propagation before any resolvent, under a number newer than all of theirs.
FirstPass(lits, hints) ==
    LET t == now + 1 + Cardinality(Negatives(hints))
    IN  Propagated(Marked(mask, RangeOf(lits), t), After(hints, 0), t)

\* checkClause.  The pivot of an empty clause is the 0 that ends it.
checkClause(lits, hints) ==
    LET n     == now + 1
        neg   == Negatives(hints)
        pivot == IF lits = <<>> THEN 0 ELSE lits[1]
        p     == FirstPass(lits, hints)
        start == intro[Flip(pivot)]
        first == -hints[Min(neg)]
    IN  IF p.res = "conflict" THEN Out(TRUE, p.mask, n, intro)
        ELSE IF p.res = "failed" THEN Out(FALSE, p.mask, n, intro)
        ELSE IF neg = {} THEN Out(start = 0, p.mask, n, intro)
        ELSE IF Occurs(Flip(pivot), start, first - 1) THEN Out(FALSE, p.mask, n, intro)
        ELSE LET int == [intro EXCEPT ![Flip(pivot)] = first]
             IN  IF start = 0 THEN Out(TRUE, p.mask, n, int)
                 ELSE AllResolvents(pivot, Max({start, first}), hints, p.mask, n, int)

\* The lines of prover.c and drat-trim: negative hints only where propagation
\* fails and the negated pivot occurs, in increasing order, and a clause
\* without literals only when its hints conflict.
WellMeant(lits, hints) ==
    LET neg == Negatives(hints)
        p   == FirstPass(lits, hints)
    IN  /\ neg # {} => /\ p.res = "open" /\ lits # <<>> /\ intro[Flip(lits[1])] # 0
                       /\ \A k \in neg : -hints[k] <= clsLast
        /\ lits = <<>> => p.res = "conflict"

-----------------------------------------------------------------------------
\* A line that adds a clause, under the id after the last one.
CheckLine(lits, hints) ==
    /\ status = "checking" /\ clsLast < MaxId
    /\ WellMeant(lits, hints)
    /\ LET c == checkClause(lits, hints)
           i == clsLast + 1
       IN  /\ mask' = c.mask /\ now' = c.now
           /\ IF c.ok
              THEN /\ db' = [j \in DOMAIN db \cup {i} |-> IF j = i THEN RangeOf(lits) ELSE db[j]]
                   /\ intro' = Introduce(c.intro, i, RangeOf(lits))
                   /\ clsLast' = i
                   /\ verified' = (verified \/ lits = <<>>)
                   /\ UNCHANGED status
              ELSE /\ intro' = c.intro
                   /\ status' = "refused"
                   /\ UNCHANGED <<db, clsLast, verified>>

\* A line that deletes a clause; an id that is deleted already draws a warning.
DeleteLine(i) ==
    /\ status = "checking"
    /\ db' = [j \in DOMAIN db \ {i} |-> db[j]]
    /\ UNCHANGED <<intro, mask, now, clsLast, verified, status>>

EndOfFile ==
    /\ status = "checking" /\ status' = "ended"
    /\ UNCHANGED <<db, intro, mask, now, clsLast, verified>>

CheckNext ==
    \/ \E lits \in Lemmas, hints \in HintLists : CheckLine(lits, hints)
    \/ \E i \in 1..clsLast : DeleteLine(i)
    \/ EndOfFile

CheckSpec == CheckInit /\ [][CheckNext]_checkVars

-----------------------------------------------------------------------------
Satisfies(A, c) == \E x \in c : IF x > 0 THEN x \in A ELSE -x \notin A
Satisfiable(S) == \E A \in SUBSET CheckedVars : \A c \in S : Satisfies(A, c)

\* What is accepted never turns a satisfiable formula into an unsatisfiable set
\* of clauses; "VERIFIED" is printed of unsatisfiable formulas only.
Sound ==
    Satisfiable({RangeOf(Cnf[i]) : i \in DOMAIN Cnf}) =>
        ~verified /\ Satisfiable({db[i] : i \in DOMAIN db})

\* No live clause lies before the place where the scan for its literal starts.
IntroRight == \A i \in DOMAIN db : \A x \in db[i] : intro[x] \in 1..i

\* No mark is newer than the lines read, else it counts as an assignment of a
\* later line.
MarksFresh == status = "checking" => \A x \in DOMAIN mask : mask[x] <= now

\* A line that unit propagation along its hints proves is never refused.
AcceptsRup ==
    status = "checking" =>
        \A lits \in Lemmas, hints \in HintLists :
            (\A k \in DOMAIN hints : hints[k] \in DOMAIN db) /\ RupLine(db, RangeOf(lits), hints)
                => checkClause(lits, hints).ok

\* The checker accepts and refuses what it should, on marks and first
\* occurrences that it never rebuilds.
LratCheckRight == Sound /\ IntroRight /\ MarksFresh /\ AcceptsRup
=============================================================================
