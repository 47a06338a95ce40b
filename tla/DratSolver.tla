----------------------------- MODULE DratSolver -----------------------------
(***************************************************************************)
(* The solver of drat-trim.c: unit propagation with two watched literals,  *)
(* core clauses first, the analysis that marks the clauses of a conflict   *)
(* and records the dependencies of a lemma, and the checks that a lemma    *)
(* has RUP or RAT.  An operator takes and returns the record of the C      *)
(* struct.  The stack holds the falsified literals; the first forced of    *)
(* them stand for good, those before processed have been propagated.       *)
(* A clause is a number, DB[c] = [lits, pivot, active].  mode is "backward" *)
(* or "forward", lratFile says whether an LRAT proof is written.           *)
(***************************************************************************)
EXTENDS Integers, Sequences, FiniteSets, SequencesExt

CONSTANT NVars

ASSUME SolverAssumption == NVars \in Nat \ {0}

Vars == 1 .. NVars
Lits == {l \in -NVars .. NVars : l # 0}
Abs(l) == IF l < 0 THEN -l ELSE l
FALSIFIED == 1
ASSUMED == 2
MARK == 3

Positions(seq, Test(_)) == {i \in DOMAIN seq : Test(seq[i])}
Least(S) == CHOOSE i \in S : \A j \in S : i <= j

----------------------------------------------------------------------------
(* Watches and the stack.                                                  *)

AddWatch(s, l, c, core) == [s EXCEPT !.wlist[l] = Append(@, [c |-> c, core |-> core])]
AddWatches(s, c) == AddWatch(AddWatch(s, s.DB[c].lits[1], c, FALSE), s.DB[c].lits[2], c, FALSE)

LastTo(seq, i) == Front([seq EXCEPT ![i] = Last(seq)])
RemoveWatch(s, l, c) ==
    LET at == Positions(s.wlist[l], LAMBDA w : w.c = c)
    IN IF at = {} THEN s ELSE [s EXCEPT !.wlist[l] = LastTo(@, Least(at))]
\* Mutant: the second watch stays.
removeFirstWatch(s, c) == RemoveWatch(s, s.DB[c].lits[1], c)
removeWatches(s, c) == RemoveWatch(RemoveWatch(s, s.DB[c].lits[1], c), s.DB[c].lits[2], c)

markWatch(s, l, c) ==
    [s EXCEPT !.wlist[l][Least(Positions(s.wlist[l], LAMBDA w : w.c = c))].core = TRUE]

assign(s, l, c) == [s EXCEPT !.falseA[-l] = FALSIFIED, !.stack = Append(@, -l), !.reason[Abs(l)] = c]

\* The stack is cut back to n literals.
Unwound(s, n) ==
    LET gone == {s.stack[i] : i \in n + 1 .. Len(s.stack)}
    IN [s EXCEPT !.falseA = [l \in DOMAIN @ |-> IF l \in gone THEN 0 ELSE @[l]],
                 !.reason = [v \in Vars |-> IF v \in gone \/ -v \in gone THEN 0 ELSE @[v]],
                 !.stack = SubSeq(@, 1, n)]

unassignUnit(s, l) ==
    LET n == IF s.falseA[-l] = 0 THEN s.forced
             ELSE Least(Positions(s.stack, LAMBDA m : m = -l)) - 1
    IN [Unwound(s, n) EXCEPT !.forced = n, !.processed = n]

\* The falsified literals go to the end: [s, size], the size is negative when
\* the clause is satisfied.  Literals trade places as the loop leaves them.
RECURSIVE Sorted(_, _, _, _)
Sorted(fA, lits, size, i) ==
    IF i > Len(lits) THEN [lits |-> lits, size |-> size]
    ELSE IF fA[lits[i]] # 0 THEN Sorted(fA, lits, size, i + 1)
    ELSE Sorted(fA, [lits EXCEPT ![i] = lits[size + 1], ![size + 1] = lits[i]], size + 1, i + 1)

sortSize(s, c) ==
    LET r == Sorted(s.falseA, s.DB[c].lits, 0, 1)
        sat == \E l \in ToSet(r.lits) : s.falseA[l] = 0 /\ s.falseA[-l] # 0
    IN [s |-> [s EXCEPT !.DB[c].lits = r.lits], size |-> IF sat THEN 0 - r.size ELSE r.size]

----------------------------------------------------------------------------
(* Analysis of a conflict.                                                 *)

addDependency(s, c, fresh) == [s EXCEPT !.deps = Append(@, [c |-> c, fresh |-> fresh])]

\* The first use of a clause: it is deleted after it, and its watches are core.
MarkedWatches(s, c, lits) ==
    IF Len(lits) > 1 THEN markWatch(markWatch(s, lits[1], c), lits[2], c) ELSE s
FirstUse(s, c) ==
    IF s.DB[c].active THEN s
    ELSE [MarkedWatches(s, c, s.DB[c].lits) EXCEPT
            !.DB[c].active = TRUE,
            !.optproof = IF s.mode = "backward" /\ Len(s.DB[c].lits) > 1
                         THEN Append(@, [del |-> TRUE, c |-> c]) ELSE @]

\* The clause is used: as a conflict (from = 1), or as a reason (from = 2),
\* whose first literal is not marked.
markClause(s, c, from, n) ==
    LET marked == ToSet(SubSeq(s.DB[c].lits, from, Len(s.DB[c].lits)))
        used == addDependency([s EXCEPT !.nResolve = @ + 1], c, n > s.forced)
    IN [FirstUse(used, c) EXCEPT !.falseA = [l \in DOMAIN @ |-> IF l \in marked THEN MARK ELSE @[l]]]

\* The literal on top of the n + 1 remaining ones is taken off.
RECURSIVE Walk(_, _)
Walk(s, n) ==
    IF n < 0 THEN [s EXCEPT !.stack = SubSeq(@, 1, s.forced), !.processed = s.forced]
    ELSE LET l == s.stack[n + 1]
             r == s.reason[Abs(l)]
             used == IF s.falseA[l] = MARK /\ r # 0 THEN markClause(s, r, 2, n)
                     ELSE IF s.falseA[l] = ASSUMED /\ ~ s.RATmode /\ s.mode = "backward" /\ ~ s.lratFile
                     THEN [s EXCEPT !.DB[s.current].lits = SelectSeq(@, LAMBDA m : m # l)]
                     ELSE s
         IN Walk([used EXCEPT !.reason[Abs(l)] = IF n >= s.forced THEN 0 ELSE @,
                              !.falseA[l] = IF n < s.forced THEN FALSIFIED ELSE 0], n - 1)
analyze(s, c, from) == Walk(markClause(s, c, from, Len(s.stack)), Len(s.stack) - 1)

----------------------------------------------------------------------------
(* Propagation: [s, conflict].  Clauses in the core come first, unless the *)
(* preprocessing mode is on: a unit that another clause gives sends the    *)
(* search back to the core.  at[b] counts the literals whose core (b) or   *)
(* other watches are done, from is where the list of the next one resumes. *)

Satisfied(s, c) == s.falseA[-s.DB[c].lits[1]] # 0 \/ s.falseA[-s.DB[c].lits[2]] # 0

Pending(s, l, core, start) ==
    {i \in start .. Len(s.wlist[l]) :
        /\ IF s.prep THEN ~ core ELSE s.wlist[l][i].core = core
        /\ ~ Satisfied(s, s.wlist[l][i].c)}
\* In clause c, the i-th that watches l, another literal is watched: the k-th.
WatchMoved(s, l, i, c, other, k) ==
    AddWatch([s EXCEPT !.DB[c].lits = [@ EXCEPT ![1] = other, ![2] = s.DB[c].lits[k], ![k] = l],
                       !.wlist[l] = LastTo(@, i)],
             s.DB[c].lits[k], c, s.wlist[l][i].core)
WatchKept(s, l, c, other) == [s EXCEPT !.DB[c].lits = [@ EXCEPT ![1] = other, ![2] = l]]
Other(lits, l) == IF lits[1] = l THEN lits[2] ELSE lits[1]
Free(s, lits) == {k \in 3 .. Len(lits) : s.falseA[lits[k]] = 0}

RECURSIVE Propagate(_, _, _, _)
\* Clause c, the i-th that watches l, has lost l: free are its other literals
\* that are not false.
VisitClause(s, at, core, from, l, i, c, other, free) ==
    IF free # {}
    THEN Propagate(WatchMoved(s, l, i, c, other, Least(free)), at, core, IF core THEN from ELSE i)
    ELSE IF s.falseA[other] # 0
    THEN [s |-> analyze(WatchKept(s, l, c, other), c, 1), conflict |-> TRUE]
    ELSE Propagate(assign(WatchKept(s, l, c, other), other, c), at, TRUE, IF core THEN from ELSE i + 1)
Visit(s, at, core, from, l, i, c) ==
    VisitClause(s, at, core, from, l, i, c, Other(s.DB[c].lits, l), Free(s, s.DB[c].lits))
VisitFirst(s, at, core, from, l, todo) ==
    IF todo = {} THEN Propagate(s, [at EXCEPT ![core] = @ + 1], core, IF core THEN from ELSE 1)
    ELSE Visit(s, at, core, from, l, Least(todo), s.wlist[l][Least(todo)].c)
Propagate(s, at, core, from) ==
    LET l == s.stack[at[core] + 1]
    IN IF at[core] < Len(s.stack)
       THEN VisitFirst(s, at, core, from, l, Pending(s, l, core, IF core THEN 1 ELSE from))
       ELSE IF core THEN Propagate(s, at, FALSE, from)
       ELSE [s |-> [s EXCEPT !.processed = Len(s.stack)], conflict |-> FALSE]

propagate(s) == Propagate(s, [b \in BOOLEAN |-> s.processed], TRUE, 1)

----------------------------------------------------------------------------
(* The LRAT line of a lemma, the literals with the pivot first and the     *)
(* hints: for a RUP lemma the clauses in the order in which they became    *)
(* unit; for a RAT lemma first those that need no candidate, then every    *)
(* candidate, as a negative number, with those that it needs.              *)

Deduped(seq) == FoldLeft(LAMBDA acc, x : IF x \in ToSet(acc) THEN acc ELSE Append(acc, x), <<>>, seq)
Numbers(deps) == [i \in DOMAIN deps |-> deps[i].c]
\* What precedes the i-th dependency, a candidate, up to the one before, last first.
Segment(deps, i) ==
    LET before == {j \in 1 .. i - 1 : deps[j].c < 0}
        first == IF before = {} THEN 1 ELSE 1 + CHOOSE j \in before : \A k \in before : k <= j
    IN Reverse(SubSeq(deps, first, i - 1))
RECURSIVE Segments(_, _)
Segments(deps, i) == IF i > Len(deps) THEN <<>>
                     ELSE (IF deps[i].c < 0 THEN Segment(deps, i) ELSE <<>>) \o Segments(deps, i + 1)
PreRAT(deps) == Deduped(Numbers(SelectSeq(Segments(deps, 1), LAMBDA d : ~ d.fresh)))
\* Mutant: the hints are in the order of the analysis.
HintsForward(deps) == Numbers(deps)
Hints(deps) == IF \A i \in DOMAIN deps : deps[i].c > 0 THEN Reverse(Numbers(deps))
               ELSE PreRAT(deps) \o Reverse(Numbers(SelectSeq(deps, LAMBDA d : d.fresh)))

\* c = 0 is the empty clause that ends the proof.
printDependencies(s, c) ==
    IF ~ s.lratFile THEN s
    ELSE LET line == [lits |-> IF c = 0 THEN {} ELSE ToSet(s.DB[c].lits),
                      pivot |-> IF c = 0 THEN 0 ELSE s.DB[c].pivot, hints |-> Hints(s.deps)]
         IN [s EXCEPT !.lrat = [d \in DOMAIN @ \cup {c} |-> IF d = c THEN line ELSE @[d]]]

----------------------------------------------------------------------------
(* Redundancy of a lemma.                                                  *)

\* The candidates, first to last: watched clauses with the negated pivot,
\* in backward mode only those in the core.
\* Mutant: no candidate is found.
CandidatesNone(s, pivot) == {}
Candidates(s, pivot) ==
    {c \in DOMAIN s.DB : /\ \E l \in Lits : \E i \in DOMAIN s.wlist[l] : s.wlist[l][i].c = c
                         /\ -pivot \in ToSet(s.DB[c].lits)
                         /\ s.mode = "backward" => s.DB[c].active}
\* A literal of the candidate that is already true: the one with the oldest reason.
Blocking(s, c, pivot) ==
    LET true == {l \in ToSet(s.DB[c].lits) \ {-pivot} : s.falseA[-l] # 0}
    IN {l \in true : \A m \in true : s.reason[Abs(l)] <= s.reason[Abs(m)]}

AssumeAll(s, lits) ==
    FoldLeft(LAMBDA t, l : IF t.falseA[l] = 0 THEN assign(t, -l, 0) ELSE t, s, lits)

\* The clause that made a literal of the candidate true is used.
Justified(s, l) ==
    IF s.reason[Abs(l)] = 0 THEN s
    ELSE [analyze(s, s.reason[Abs(l)], 2) EXCEPT !.reason[Abs(l)] = 0]
TryCandidate(s, pivot, c, blocking) ==
    IF blocking # {} THEN [s |-> Justified(s, CHOOSE m \in blocking : TRUE), conflict |-> TRUE]
    ELSE propagate(AssumeAll(s, SelectSeq(s.DB[c].lits, LAMBDA m : m # -pivot)))
\* [s, ok]; a failed candidate leaves processed behind the end of the stack.
Tried(p, c) ==
    IF p.conflict THEN [s |-> addDependency(p.s, -c, TRUE), ok |-> TRUE]
    ELSE [s |-> Unwound(p.s, p.s.forced), ok |-> FALSE]
\* The candidates, from the last to the first.
CheckCandidates(s, pivot, cs) ==
    FoldLeft(LAMBDA r, c : IF r.ok THEN Tried(TryCandidate(r.s, pivot, c, Blocking(r.s, c, pivot)), c) ELSE r,
             [s |-> s, ok |-> TRUE], SetToSortSeq(cs, >))
checkRAT(s, pivot) == CheckCandidates([s EXCEPT !.deps = <<>>], pivot, Candidates(s, pivot))

\* The literals of the lemma are tried one after the other.
RECURSIVE OtherPivots(_, _, _)
NextPivot(r, l, c, i) ==
    IF r.ok THEN [r EXCEPT !.s.DB[c].pivot = l] ELSE OtherPivots(r.s, c, i + 1)
OtherPivots(s, c, i) ==
    IF i > Len(s.DB[c].lits) THEN [s |-> s, ok |-> FALSE]
    ELSE IF s.DB[c].lits[i] = s.DB[c].pivot THEN OtherPivots(s, c, i + 1)
    ELSE NextPivot(checkRAT(s, s.DB[c].lits[i]), s.DB[c].lits[i], c, i)

OrOthers(r, c) == IF r.ok THEN r ELSE OtherPivots(r.s, c, 1)
RatChecked(r, c, forced) ==
    [s |-> [Unwound(IF r.ok THEN printDependencies(r.s, c) ELSE r.s, forced)
              EXCEPT !.forced = forced, !.processed = forced],
     ok |-> r.ok]
RatCheck(s, c) ==
    RatChecked(OrOthers(checkRAT([s EXCEPT !.RATmode = TRUE, !.forced = Len(s.stack)], s.DB[c].pivot), c),
               c, s.forced)

Assumed(s, c, size) ==
    LET ls == SubSeq(s.DB[c].lits, 1, size)
    IN [s EXCEPT !.falseA = [l \in DOMAIN @ |-> IF l \in ToSet(ls) THEN ASSUMED ELSE @[l]],
                 !.stack = @ \o ls,
                 !.reason = [v \in Vars |-> IF v \in ToSet(ls) \/ -v \in ToSet(ls) THEN 0 ELSE @[v]],
                 !.current = c, !.RATmode = FALSE, !.deps = <<>>]

\* p is what propagation of the negated lemma gives; RAT is left when it is no conflict.
RupChecked(s, c, p) ==
    IF p.conflict
    THEN [s |-> printDependencies([p.s EXCEPT !.prep = p.s.nResolve - s.nResolve <= 2, !.nResolve = 0], c),
          ok |-> TRUE]
    ELSE IF s.falseA[s.DB[c].pivot] # 0 THEN [s |-> p.s, ok |-> FALSE]
    ELSE RatCheck(p.s, c)
redundancyCheck(s, c, size) ==
    IF \E i, j \in 1 .. size : i < j /\ s.DB[c].lits[i] = -s.DB[c].lits[j]
    THEN [s |-> [s EXCEPT !.RATmode = FALSE, !.deps = <<>>], ok |-> TRUE]
    ELSE RupChecked(s, c, propagate(Assumed(s, c, size)))
=============================================================================
