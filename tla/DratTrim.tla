------------------------------ MODULE DratTrim ------------------------------
(***************************************************************************)
(* The program drat-trim.c, in backward and in forward mode for UNSAT: the *)
(* proof is read, gone through forwards until a conflict, and in backward  *)
(* mode then checked backwards, where clauses that were deleted return and *)
(* lemmas that nothing used are skipped.  The core, the optimised proof    *)
(* and the LRAT proof are what it writes.                                  *)
(***************************************************************************)
EXTENDS DratSolver

CONSTANT Checks           \* [formula, mode, lratFile, lines, max]: a sequence of clauses,
                          \* and proofs of at most max of the lines, [del, lits]

VARIABLES input,
          phase,          \* "parse", "forward", "backward", "done"
          live,           \* the clauses in the hash table, in their lists
          proof,          \* [del, c]; c = 0 is a step that was dropped
          step,
          s,              \* the solver
          verdict,        \* "none", "VERIFIED", "DERIVATION", "NOT VERIFIED"
          sts             \* what main returns is sts # 0; UNSAT is 0

trimVars == <<input, phase, live, proof, step, s, verdict, sts>>
UNSAT == 0
SAT == 1
DERIVATION == 2
ERROR == -1

----------------------------------------------------------------------------
(* Parsing.                                                                *)

Sort(lits) == SetToSortSeq(lits, <)
NewClause(lits) == [lits |-> Sort(ToSet(lits)), pivot |-> IF lits = <<>> THEN 0 ELSE lits[1], active |-> FALSE]
formula == input.formula
nClauses == Len(formula)

Fresh(in) == [DB |-> [i \in DOMAIN in.formula |-> NewClause(in.formula[i])],
             mode |-> in.mode, lratFile |-> in.lratFile,
             stack |-> <<>>, forced |-> 0, processed |-> 0,
             falseA |-> [l \in Lits |-> 0], reason |-> [v \in Vars |-> 0],
             wlist |-> [l \in Lits |-> <<>>], deps |-> <<>>, optproof |-> <<>>,
             lrat |-> [d \in {} |-> 0], prep |-> FALSE, RATmode |-> FALSE, current |-> 0, nResolve |-> 0]

TrimInit == /\ input \in Checks
            /\ phase = "parse"
            /\ live = [i \in DOMAIN formula |-> i]
            /\ proof = <<>>
            /\ step = 1
            /\ s = Fresh(input)
            /\ verdict = "none"
            /\ sts = ERROR

\* The first clause of its list matches; the last takes its place.
matchClause(lits) ==
    SelectSeq(live, LAMBDA c : s.DB[c].lits = Sort(lits))
LiveWithout(same) ==
    SelectSeq(live, LAMBDA c : c \notin ToSet(same)) \o (IF Len(same) = 1 THEN <<>> ELSE LastTo(same, 1))

ReadLemma(line) ==
    /\ ~ line.del
    /\ s' = [s EXCEPT !.DB = Append(@, NewClause(line.lits))]
    /\ live' = Append(live, Len(s.DB) + 1)
    /\ proof' = Append(proof, [del |-> FALSE, c |-> Len(s.DB) + 1])

ReadDeletion(line) ==
    LET same == matchClause(ToSet(line.lits))
        ignored == same = <<>> \/ (s.mode = "backward" /\ Cardinality(ToSet(line.lits)) <= 1)
    IN /\ line.del
       /\ proof' = IF ignored THEN proof ELSE Append(proof, [del |-> TRUE, c |-> same[1]])
       /\ live' = IF ignored THEN live ELSE LiveWithout(same)
       /\ UNCHANGED s

Read == /\ phase = "parse"
        /\ Len(proof) < input.max
        /\ \E line \in input.lines : ReadLemma(line) \/ ReadDeletion(line)
        /\ UNCHANGED <<input, phase, step, verdict, sts>>

----------------------------------------------------------------------------
(* The units of the formula.                                               *)

Stop(v, r) == phase' = "done" /\ verdict' = v /\ sts' = r

Watched(t) == FoldLeft(LAMBDA u, c : IF Len(u.DB[c].lits) > 1 THEN AddWatches(u, c) ELSE u,
                       t, [i \in DOMAIN formula |-> i])
UnitClauses(t) == SelectSeq([i \in DOMAIN formula |-> i], LAMBDA c : Len(t.DB[c].lits) = 1)
Units(t) == FoldLeft(LAMBDA u, c : IF u.falseA[-u.DB[c].lits[1]] # 0 THEN u ELSE assign(u, u.DB[c].lits[1], c),
                     t, UnitClauses(t))
Complementary(t) == \E i, j \in ToSet(UnitClauses(t)) : t.DB[i].lits[1] = -t.DB[j].lits[1]
ComplementLine(t) ==
    LET us == UnitClauses(t)
        Clashes(k) == \E j \in 1 .. k - 1 : t.DB[us[j]].lits[1] = -t.DB[us[k]].lits[1]
        k == Least({i \in DOMAIN us : Clashes(i)})
        j == Least({i \in 1 .. k - 1 : t.DB[us[i]].lits[1] = -t.DB[us[k]].lits[1]})
    IN [lits |-> {}, pivot |-> 0, hints |-> <<us[j], us[k]>>]

\* The last clause that was read counts as used.
Begun == [s EXCEPT !.DB[Len(s.DB)].active = TRUE]
Cleared == [Begun EXCEPT !.DB = [c \in DOMAIN @ |-> IF c <= nClauses THEN [@[c] EXCEPT !.active = FALSE] ELSE @[c]]]

StartTrivial ==
    /\ \E i \in DOMAIN formula : formula[i] = <<>>
    /\ Stop("VERIFIED", ERROR)          \* verify is not called
    /\ UNCHANGED s

StartComplementary ==
    /\ \A i \in DOMAIN formula : formula[i] # <<>>
    /\ Complementary(s)
    /\ s' = [Cleared EXCEPT !.lrat = IF s.lratFile THEN [d \in {0} |-> ComplementLine(s)] ELSE @]
    /\ Stop("VERIFIED", UNSAT)

\* What the propagation of the units gives.
UnitsDone(p) ==
    IF p.conflict THEN s' = printDependencies(p.s, 0) /\ Stop("VERIFIED", UNSAT)
    ELSE /\ s' = [p.s EXCEPT !.forced = p.s.processed]
         /\ phase' = "forward"
         /\ UNCHANGED <<verdict, sts>>
StartPropagate ==
    /\ \A i \in DOMAIN formula : formula[i] # <<>>
    /\ ~ Complementary(s)
    /\ UnitsDone(propagate(Units(Watched(Cleared))))

Start == /\ phase = "parse"
         /\ StartTrivial \/ StartComplementary \/ StartPropagate
         /\ UNCHANGED <<input, live, proof, step>>

----------------------------------------------------------------------------
(* Forwards through the proof.                                             *)

ad == proof[step]
clause == s.DB[ad.c].lits
Dropped == [proof EXCEPT ![step].c = 0]
Onwards == step' = step + 1 /\ UNCHANGED <<phase, verdict, sts>>

\* Deleting units, or the reason of a literal, is ignored.
IsReason(c) == s.reason[Abs(s.DB[c].lits[1])] = c
\* Mutant: the reason of a literal is deleted.
ForwardDeleteAny ==
    /\ ad.del
    /\ s' = IF Len(clause) = 1 THEN s ELSE removeWatches(s, ad.c)
    /\ proof' = proof
    /\ Onwards
ForwardDelete ==
    /\ ad.del
    /\ IF Len(clause) = 1 \/ IsReason(ad.c)
       THEN proof' = Dropped /\ s' = s
       ELSE proof' = proof /\ s' = removeWatches(s, ad.c)
    /\ Onwards

\* A unit that is already true is no lemma of a backward check.
ForwardKnownUnit ==
    /\ ~ ad.del
    /\ s.mode = "backward" /\ Len(clause) = 1 /\ s.falseA[-clause[1]] # 0
    /\ proof' = Dropped
    /\ s' = s
    /\ Onwards

Failed == Stop("NOT VERIFIED", SAT) /\ UNCHANGED step

\* The conflict ends the forward pass: [del |-> FALSE] is printed, and what
\* the backward pass writes starts anew.
Ended(d) ==
    IF s.mode = "forward"
    THEN s' = d /\ Stop("VERIFIED", UNSAT) /\ UNCHANGED step
    ELSE /\ s' = [d EXCEPT !.forced = d.processed, !.optproof = <<>>]
         /\ phase' = "backward"
         /\ UNCHANGED <<step, verdict, sts>>
Conflict(t) == Ended(printDependencies(t, 0))

\* The lemma, checked and sorted, takes its place among the clauses.
UnitDone(p) ==
    IF p.conflict THEN Conflict(p.s) ELSE s' = [p.s EXCEPT !.forced = p.s.processed] /\ Onwards
Placed(w, size) ==
    IF size = 0 THEN s' = w /\ Failed
    ELSE IF size # 1 THEN s' = w /\ Onwards
    ELSE UnitDone(propagate(assign(w, w.DB[ad.c].lits[1], ad.c)))
Installed(r) == Placed(IF Len(r.s.DB[ad.c].lits) > 1 THEN AddWatches(r.s, ad.c) ELSE r.s, r.size)

\* In backward mode lemmas are believed until a conflict.
ForwardBelieve ==
    /\ s.mode = "backward" /\ ~ ad.del
    /\ ~ (Len(clause) = 1 /\ s.falseA[-clause[1]] # 0)
    /\ Installed(sortSize(s, ad.c))
    /\ UNCHANGED proof

\* r is the sorted lemma: if its check succeeds it is sorted again.
CheckedForward(r, checked) ==
    IF ~ checked.ok THEN s' = checked.s /\ Failed
    ELSE Installed(sortSize([checked.s EXCEPT !.deps = <<>>], ad.c))
SortedForward(r) ==
    IF r.size < 0 THEN s' = r.s /\ Onwards
    ELSE IF clause = <<>> THEN s' = r.s /\ Failed
    ELSE CheckedForward(r, redundancyCheck(r.s, ad.c, r.size))
ForwardCheck ==
    /\ s.mode = "forward" /\ ~ ad.del
    /\ SortedForward(sortSize(s, ad.c))
    /\ UNCHANGED proof

ForwardEnd ==
    /\ step > Len(proof)
    /\ IF s.mode = "forward" THEN Stop("DERIVATION", DERIVATION) ELSE Stop("NOT VERIFIED", SAT)
    /\ UNCHANGED <<proof, step, s>>

Forward == /\ phase = "forward"
           /\ IF step > Len(proof) THEN ForwardEnd
              ELSE ForwardDelete \/ ForwardKnownUnit \/ ForwardBelieve \/ ForwardCheck
           /\ UNCHANGED <<input, live>>

----------------------------------------------------------------------------
(* Backwards through the proof.                                            *)

Backwards == step' = step - 1 /\ UNCHANGED <<phase, verdict, sts>>

TakenOut ==
    LET t == IF Len(clause) > 1 THEN removeWatches(s, ad.c) ELSE s
    IN IF Len(clause) = 1 \/ IsReason(ad.c) THEN unassignUnit(t, clause[1]) ELSE t

BackwardDropped == ad.c = 0 /\ s' = s /\ Backwards

BackwardDeletion ==
    /\ ad.c # 0 /\ ad.del
    /\ s' = AddWatches(sortSize(s, ad.c).s, ad.c)
    /\ Backwards

\* False literals are cut off; a lemma that nothing used is skipped.
CheckedBackward(checked) ==
    IF ~ checked.ok THEN s' = checked.s /\ Failed
    ELSE s' = [checked.s EXCEPT !.optproof = Append(@, ad)] /\ Backwards
SortedBackward(r) ==
    IF ~ s.DB[ad.c].active THEN s' = r.s /\ Backwards
    ELSE CheckedBackward(redundancyCheck([r.s EXCEPT !.DB[ad.c].lits = SubSeq(@, 1, r.size)], ad.c, r.size))
BackwardLemma ==
    /\ ad.c # 0 /\ ~ ad.del
    /\ SortedBackward(sortSize(TakenOut, ad.c))

BackwardEnd == Stop("VERIFIED", UNSAT) /\ UNCHANGED <<s, step>>

Backward == /\ phase = "backward"
            /\ IF step = 0 THEN BackwardEnd
               ELSE BackwardDropped \/ BackwardDeletion \/ BackwardLemma
            /\ UNCHANGED <<input, live, proof>>

TrimNext == Read \/ Start \/ Forward \/ Backward
TrimSpec == TrimInit /\ [][TrimNext]_trimVars

----------------------------------------------------------------------------
(* What is written at the end.                                             *)

Core == {i \in 1 .. nClauses : s.DB[i].active}
\* Mutant: the order of the backward pass is kept.
ProofBackwards == s.optproof
OptimizedProof == Reverse(s.optproof)
\* Deletions are written after a first lemma, and never of units.
Written(p) == SelectSeq(p, LAMBDA a : ~ (a.del /\ Len(s.DB[a.c].lits) = 1))
LratProof ==
    LET lemmas == {i \in DOMAIN OptimizedProof : ~ OptimizedProof[i].del}
    IN IF lemmas = {} THEN <<>> ELSE Written(SubSeq(OptimizedProof, Least(lemmas), Len(OptimizedProof)))

----------------------------------------------------------------------------
\* Textbook definitions: clauses are sets, a database is a sequence.

Holds(c, a) == \E l \in c : IF l > 0 THEN l \in a ELSE (0 - l) \notin a
Unsatisfiable(F) == ~ \E a \in SUBSET Vars : \A c \in F : Holds(c, a)

RECURSIVE Closure(_, _)
Closure(F, A) ==
    LET new == {l \in Lits \ A : \E c \in F : l \in c /\ \A m \in c \ {l} : -m \in A}
    IN IF new = {} THEN A ELSE Closure(F, A \cup new)
Refutes(F, A) == {} \in F \/ \E l \in Closure(F, A) : -l \in Closure(F, A)
Negated(c) == {-l : l \in c}
Rup(F, c) == Refutes(F, Negated(c))
Rat(F, c, p) == /\ p \in c
                /\ \A d \in F : -p \in d => Rup(F, c \cup (d \ {-p}))
RupOrRat(F, c) == Rup(F, c) \/ \E p \in c : Rat(F, c, p)

RECURSIVE DratProof(_, _)
DratProof(F, steps) ==
    IF steps = <<>> THEN Refutes(ToSet(F), {})
    ELSE LET a == Head(steps)
             at == {i \in DOMAIN F : F[i] = a.lits}
         IN IF a.del THEN at # {} /\ DratProof(LastTo(F, Least(at)), Tail(steps))
            ELSE RupOrRat(ToSet(F), a.lits) /\ DratProof(Append(F, a.lits), Tail(steps))

\* A hint that is not unit fails; [A, ok, done].
HintStep(st, c) ==
    LET left == {l \in c : -l \notin st.A}
    IN IF st.done \/ ~ st.ok THEN st
       ELSE IF left = {} THEN [st EXCEPT !.done = TRUE]
       ELSE IF \E l \in left : l \in st.A THEN st
       ELSE IF Cardinality(left) = 1 THEN [st EXCEPT !.A = @ \cup left]
       ELSE [st EXCEPT !.ok = FALSE]
Hinted(db, A, hints) ==
    FoldLeft(LAMBDA st, h : IF h \in DOMAIN db THEN HintStep(st, db[h]) ELSE [st EXCEPT !.ok = FALSE],
             [A |-> A, ok |-> TRUE, done |-> FALSE], hints)
LratLine(db, line) ==
    LET hs == line.hints
        groups == {i \in DOMAIN hs : hs[i] < 0}
        end(i) == LET later == {j \in groups : j > i} IN IF later = {} THEN Len(hs) ELSE Least(later) - 1
        rup == Hinted(db, Negated(line.lits), IF groups = {} THEN hs ELSE SubSeq(hs, 1, Least(groups) - 1))
        Group(i) == LET others == db[-hs[i]] \ {-line.pivot}
                        r == Hinted(db, rup.A \cup Negated(others), SubSeq(hs, i + 1, end(i)))
                    IN -hs[i] \in DOMAIN db /\ (others \cap rup.A # {} \/ (r.ok /\ r.done))
    IN /\ rup.ok
       /\ rup.done \/ /\ line.pivot \in line.lits
                      /\ {c \in DOMAIN db : -line.pivot \in db[c]} = {-hs[i] : i \in groups}
                      /\ \A i \in groups : Group(i)
RECURSIVE LratChecks(_, _)
LratChecks(db, steps) ==
    IF steps = <<>> THEN LratLine(db, s.lrat[0])
    ELSE LET a == Head(steps)
             c == a.c
         IN IF a.del THEN c \in DOMAIN db /\ LratChecks([d \in DOMAIN db \ {c} |-> db[d]], Tail(steps))
            ELSE /\ LratLine(db, s.lrat[c])
                 /\ LratChecks([d \in DOMAIN db \cup {c} |-> IF d = c THEN s.lrat[c].lits ELSE db[d]], Tail(steps))

----------------------------------------------------------------------------
FormulaSet == {ToSet(formula[i]) : i \in DOMAIN formula}

\* Only an unsatisfiable formula is VERIFIED, although backward mode
\* believes lemmas at first and ignores clauses outside the core in the
\* RAT check, and although deletions are undone on the way back.
VerdictSound == verdict = "VERIFIED" => Unsatisfiable(FormulaSet)

Checked == verdict = "VERIFIED" /\ phase = "done" /\ step = 0
CoreSequence == LET cs == SelectSeq([i \in DOMAIN formula |-> i], LAMBDA c : c \in Core)
                IN [i \in DOMAIN cs |-> ToSet(formula[cs[i]])]
WithLits(p) == [i \in DOMAIN p |-> [del |-> p[i].del, lits |-> ToSet(s.DB[p[i].c].lits)]]

\* After a backward check, the core and the optimised proof, whose lemmas
\* lost literals and whose deletions follow the last use, are by the
\* textbook a refutation.
CoreRefutes == Checked => DratProof(CoreSequence, WithLits(Written(OptimizedProof)))

\* The LRAT proof, the hints of a RAT lemma included, passes a checker
\* that propagates nothing but hints; the clauses outside the core are
\* deleted at its beginning.
LratRight ==
    phase = "done" /\ s.lratFile /\ verdict = "VERIFIED" /\ (Complementary(s) \/ Checked)
    => IF Checked THEN LratChecks([c \in Core |-> ToSet(formula[c])], LratProof)
       ELSE LratLine([c \in DOMAIN formula |-> ToSet(formula[c])], s.lrat[0])

\* Between steps, each literal that stands was implied by its reason and
\* the literals before it, and the reason is still there: also after
\* ignored deletions and after lemmas have been taken out backwards. Only a
\* forward RAT check forgets reasons, of the literals that block a candidate.
TrailRight ==
    phase \in {"forward", "backward"} =>
    /\ Len(s.stack) = s.forced
    /\ \A i \in 1 .. s.forced :
         LET c == s.reason[Abs(s.stack[i])]
         IN IF c = 0 THEN s.mode = "forward"
            ELSE /\ \A l \in ToSet(s.DB[c].lits) : l = -s.stack[i] \/ \E j \in 1 .. i - 1 : s.stack[j] = l
                 /\ Len(s.DB[c].lits) > 1 =>
                      \E j \in DOMAIN s.wlist[s.DB[c].lits[1]] : s.wlist[s.DB[c].lits[1]][j].c = c

\* Between steps, every watched clause is in the lists of its first two
\* literals and in no other, and if one of them is false the other is true.
\* Only the lemma of the conflict, the next to be taken out, is conflicting.
WatchesRight ==
    phase \in {"forward", "backward"} =>
    /\ \A l \in Lits : \A i \in DOMAIN s.wlist[l] :
         LET c == s.wlist[l][i].c
             ls == s.DB[c].lits
             other == IF ls[1] = l THEN ls[2] ELSE ls[1]
         IN /\ l \in {ls[1], ls[2]}
            /\ \E j \in DOMAIN s.wlist[other] : s.wlist[other][j].c = c
            /\ s.falseA[l] # 0 => s.falseA[-other] # 0 \/ (phase = "backward" /\ ad.c = c)
            /\ s.DB[c].active /\ phase = "backward" /\ c <= nClauses => s.wlist[l][i].core

\* Verdict, core, optimised proof and LRAT proof can all be relied on.
OutputsRight == VerdictSound /\ CoreRefutes /\ LratRight

\* The trail and the watches survive deletions and the way back.
PropagationRight == TrailRight /\ WatchesRight
=============================================================================
