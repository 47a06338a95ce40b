---------------------------- MODULE KissatSearch ----------------------------
(***************************************************************************)
(* Kissat's search: propagate, analyze conflicts, reduce, restart, decide. *)
(* Each action is one turn of the search loop, or one turn of the loop of  *)
(* conflict analysis, which goes on as long as on-the-fly strengthening    *)
(* yields another conflict.  Between actions nothing else runs: inner      *)
(* processing is the subject of KissatInprocessing and KissatProbing.      *)
(*                                                                         *)
(* First the state of the search and its propagation: watched clauses, the *)
(* trail with the levels and reasons of its literals, and backtracking     *)
(* that keeps literals assigned out of order (chronological backtracking). *)
(* A clause is a record: its literals, the two that are watched, and its   *)
(* flags.  Binary clauses watch both literals.  A reason is the index of   *)
(* a clause, Decided for decisions or Unit for units of the root.          *)
(***************************************************************************)
EXTENDS KissatState

VARIABLES
    formula,     \* the formula
    clauses,      \* the clauses, garbage ones until the next collection
    units,        \* root-level literals flushed from the trail
    trail,        \* assigned literals with level and reason, in order
    propagate,    \* how many of the trail are propagated
    visiting,     \* watched clauses of the last propagated literal, still to visit
    conflict      \* a falsified clause, or None

None == 0
Decided == 0
Unit == -1

Assigned1(l, k, r) == [lit |-> l, level |-> k, reason |-> r]

TrailLit(t) == {t[i].lit : i \in DOMAIN t}
True == units \cup TrailLit(trail)
IsTrue(l) == l \in True
IsFalse(l) == -l \in True
Unassigned == {l \in Lits : Var(l) \notin {Var(k) : k \in True}}

IndexOf(l) == CHOOSE i \in DOMAIN trail : Var(trail[i].lit) = Var(l)
LEVEL(l) == IF Var(l) \in {Var(k) : k \in units} THEN 0 ELSE trail[IndexOf(l)].level
MaxLevel(C) == Max({LEVEL(l) : l \in C} \cup {0})

Decisions(t) == {i \in DOMAIN t : t[i].reason = Decided}
level == Cardinality(Decisions(trail))

(***************************************************************************)
(* Clauses.                                                                *)
(***************************************************************************)
Clause(lits, watched, red) == [lits |-> lits, watched |-> watched, red |-> red, garbage |-> FALSE]
Kept(C) == {i \in DOMAIN C : ~C[i].garbage}
Unwatched(c) == c.lits \ c.watched
MarkGarbage(C, G) == [i \in DOMAIN C |-> [C[i] EXCEPT !.garbage = @ \/ i \in G]]

(***************************************************************************)
(* Watching the two literals that kissat sorts first: unassigned or true   *)
(* ones, then those falsified at the highest level.                        *)
(***************************************************************************)
\* Mutant: literals falsified at the lowest level first.
LowestFirst(k, l) ==
    \/ ~IsFalse(k) /\ IsFalse(l)
    \/ IsFalse(k) /\ IsFalse(l) /\ LEVEL(k) < LEVEL(l)

Better(k, l) ==
    \/ ~IsFalse(k) /\ IsFalse(l)
    \/ IsFalse(k) /\ IsFalse(l) /\ LEVEL(k) > LEVEL(l)

kissat_sort_literals(lits) ==
    CHOOSE W \in SUBSET lits : Cardinality(W) = 2 /\ \A l \in W, k \in lits \ W : ~Better(k, l)

(***************************************************************************)
(* Propagation.  The next literal of the trail: all clauses that watch its *)
(* negation are to be visited.                                             *)
(***************************************************************************)
Watching(l) == {i \in Kept(clauses) : l \in clauses[i].watched}

search_propagate ==
    /\ conflict = None /\ visiting = {}
    /\ propagate < Len(trail)
    /\ propagate' = propagate + 1
    /\ visiting' = Watching(-trail[propagate + 1].lit)
    /\ UNCHANGED <<formula, clauses, units, trail, conflict>>

FalseLiteral == -trail[propagate].lit
Other(i) == CHOOSE l \in clauses[i].watched : l # FalseLiteral
Exhausted(i) == ~IsTrue(Other(i)) /\ \A l \in Unwatched(clauses[i]) : IsFalse(l)

\* A true literal is found first: the other watch, the blocking literal or one of the rest.
VisitSatisfied(i) ==
    /\ \E l \in clauses[i].lits : IsTrue(l)
    /\ visiting' = visiting \ {i}
    /\ UNCHANGED <<formula, clauses, units, trail, propagate, conflict>>

\* An unassigned literal is found first and watched instead.
VisitReplacement(i) ==
    /\ ~IsTrue(Other(i))
    /\ \E replacement \in Unwatched(clauses[i]) \cap Unassigned :
          clauses' = [clauses EXCEPT ![i].watched = {Other(i), replacement}]
    /\ visiting' = visiting \ {i}
    /\ UNCHANGED <<formula, units, trail, propagate, conflict>>

kissat_assignment_level(i, l) == MaxLevel(clauses[i].lits \ {l})

VisitUnit(i) ==
    /\ Exhausted(i) /\ ~IsFalse(Other(i))
    /\ trail' = Append(trail, Assigned1(Other(i), kissat_assignment_level(i, Other(i)), i))
    /\ visiting' = visiting \ {i}
    /\ UNCHANGED <<formula, clauses, units, propagate, conflict>>

VisitConflict(i) ==
    /\ Exhausted(i) /\ IsFalse(Other(i))
    /\ conflict' = i
    /\ visiting' = {}
    /\ UNCHANGED <<formula, clauses, units, trail, propagate>>

\* Nothing left to propagate.
Propagated1 == conflict = None /\ visiting = {} /\ propagate = Len(trail)

\* At the root the propagated trail is flushed: its literals are units for good.
kissat_flush_trail ==
    /\ Propagated1 /\ level = 0 /\ trail # <<>>
    /\ units' = True
    /\ trail' = <<>>
    /\ propagate' = 0
    /\ UNCHANGED <<formula, clauses, visiting, conflict>>

(***************************************************************************)
(* Backtracking to level k.  Behind the first dropped decision literals of *)
(* level k or lower stay assigned and are propagated once more: a clause   *)
(* they visited may have been satisfied by a literal that is dropped.      *)
(***************************************************************************)
NewEnd(k) == Min({i \in Decisions(trail) : trail[i].level > k} \cup {Len(trail) + 1}) - 1

Backtracked(k) ==
    SubSeq(trail, 1, NewEnd(k)) \o
    SelectSeq(SubSeq(trail, NewEnd(k) + 1, Len(trail)), LAMBDA a : a.level <= k)

\* Mutant: literals that stay assigned are taken for propagated.
BehindReassigned(k) == IF k = level THEN propagate ELSE Len(Backtracked(k))

PropagateFrom(k) == IF k = level THEN propagate ELSE NewEnd(k)

kissat_backtrack_without_updating_phases(k, assigned) ==
    /\ trail' = Backtracked(k) \o assigned
    /\ propagate' = PropagateFrom(k)
    /\ visiting' = {}


-----------------------------------------------------------------------------
(***************************************************************************)
(* The search.                                                             *)
(***************************************************************************)

CONSTANTS
    Formulas,           \* the formulas
    ChronoLevels,     \* backjumping over more levels is chronological instead
    EagerSubsume,     \* how many learned clauses are remembered for subsumption
    MaxReductions     \* bound for each formula: reductions of the learned clauses

ASSUME SearchAssumption ==
    {ChronoLevels, EagerSubsume} \subseteq Nat /\ MaxReductions \in [Formulas -> Nat]

VARIABLES
    clueue,           \* the clauses learned last
    restartable,      \* a conflict since the last restart
    reducing,         \* in a reduction that had to flush the trail first
    reductions,       \* the reductions so far
    status            \* 0 while searching, then 10 or 20

search == <<clueue, restartable, reducing, reductions, status>>
searchVars == <<formula, clauses, units, trail, propagate, visiting, conflict,
          clueue, restartable, reducing, reductions, status>>

\* Units of a formula are propagated when they are added: the formulas here have none.
ASSUME InputsAssumption == \A F \in Formulas : \A c \in F : c \subseteq Lits /\ Cardinality(c) > 1

SearchInit ==
    /\ formula \in Formulas
    /\ units = {} /\ trail = <<>>
    /\ clauses = LET order == SetToSeq(formula)
                 IN  [i \in DOMAIN order |-> Clause(order[i], kissat_sort_literals(order[i]), FALSE)]
    /\ propagate = 0 /\ visiting = {} /\ conflict = None
    /\ clueue = <<>> /\ restartable = FALSE
    /\ reducing = FALSE /\ reductions = 0 /\ status = 0

(***************************************************************************)
(* Analysis starts on the highest level of the conflict, to which the      *)
(* solver backtracks, and there the literals of the highest levels are     *)
(* watched.                                                                *)
(***************************************************************************)
Conflict == clauses[conflict].lits
conflict_level == MaxLevel(Conflict)
OnLevel(C, k) == {l \in C : LEVEL(l) = k}
AboveRoot(C) == {l \in C : LEVEL(l) > 0}

\* A watched literal gives way only to one of a higher level.
Highest(c) ==
    LET stay == {l \in c.watched : \A k \in Unwatched(c) : LEVEL(k) <= LEVEL(l)}
    IN  CHOOSE W \in SUBSET c.lits : /\ Cardinality(W) = 2 /\ stay \subseteq W
                                     /\ \A l \in W, k \in c.lits \ W : LEVEL(k) <= LEVEL(l)

Rewatched == [clauses EXCEPT ![conflict].watched = Highest(clauses[conflict])]

ReasonOf(C, l) == C[trail[IndexOf(l)].reason].lits
Latest(C) == CHOOSE l \in C : \A k \in C : IndexOf(k) <= IndexOf(l)

(***************************************************************************)
(* The first unique implication point: the literals of the level are       *)
(* resolved with their reasons, last ones first, until one is left.  When  *)
(* the resolvent is smaller than a reason it came from, it subsumes that   *)
(* reason, which is strengthened and becomes the next conflict.            *)
(***************************************************************************)
RECURSIVE Deduced(_, _)
Deduced(resolvent, resolved) ==
    LET open       == OnLevel(resolvent, conflict_level)
        not_uip    == Latest(open)
        uip        == -not_uip
        antecedent == AboveRoot(ReasonOf(clauses, uip))
        next       == (resolvent \cup antecedent) \ {uip, not_uip}
    IN  IF Cardinality(open) = 1
        THEN [strengthened |-> FALSE, lits |-> resolvent, not_uip |-> not_uip]
        ELSE IF Cardinality(antecedent) > 2 /\ Cardinality(next) < Cardinality(antecedent)
        THEN [strengthened |-> TRUE, lits |-> next, uip |-> uip,
              subsuming |-> resolved = 0 /\ Cardinality(next) < Cardinality(AboveRoot(Conflict))]
        ELSE Deduced(next, resolved + 1)

(***************************************************************************)
(* Minimization with shrinking.  A set of literals implies what follows    *)
(* from them by reasons; a block of literals of one level is replaced by   *)
(* its own implication point if the literals of lower levels met on the    *)
(* way are implied, and otherwise loses the literals that are implied.     *)
(***************************************************************************)
Antecedents(l) == {-k : k \in AboveRoot(ReasonOf(clauses, l)) \ {l}}

ImpliedBy(M) ==
    FoldLeft(LAMBDA S, a : IF a.reason > 0 /\ Antecedents(a.lit) \subseteq S THEN S \cup {a.lit} ELSE S,
             M, trail)

RECURSIVE BlockPoint(_, _, _)
\* Mutant: a block shrinks to its last literal.
LastOfBlock(open, k, implied) == {Latest(open)}

BlockPoint(open, k, implied) ==
    LET uip == Latest(open)
        ant == Antecedents(uip)
    IN  IF Cardinality(open) = 1 THEN open
        ELSE IF \E l \in ant : LEVEL(l) < k /\ l \notin implied THEN {}
        ELSE BlockPoint((open \ {uip}) \cup OnLevel(ant, k), k, implied)

\* s holds the true literals whose negations are the clause, and what is removable with them.
ShrunkenBlock(s, k) ==
    LET block   == OnLevel(s.lits, k)
        implied == ImpliedBy(s.removable)
        point   == BlockPoint(block, k, implied)
        minimal == {l \in block : trail[IndexOf(l)].reason = Decided \/ ~(Antecedents(l) \subseteq implied)}
    IN  IF Cardinality(block) < 2 THEN s
        ELSE IF point # {} THEN [lits |-> (s.lits \ block) \cup point, removable |-> s.removable \cup point]
        ELSE [s EXCEPT !.lits = (@ \ block) \cup minimal]

kissat_shrink_clause(lits) ==
    LET true == {-l : l \in lits}
    IN  {-l : l \in FoldLeft(ShrunkenBlock, [lits |-> true, removable |-> true],
                             SetToSortSeq({LEVEL(l) : l \in lits}, <)).lits}

(***************************************************************************)
(* Units from a conflict on level one: every single literal the decision   *)
(* passes through is false, and so is the decision.                        *)
(***************************************************************************)
failed == trail[Min(Decisions(trail))].lit

RECURSIVE FailedUnits(_)
FailedUnits(unresolved) ==
    LET next == (unresolved \ {Latest(unresolved)}) \cup
                AboveRoot(ReasonOf(clauses, Latest(unresolved)) \ {-Latest(unresolved)})
    IN  IF -failed \in unresolved THEN <<-failed>>
        ELSE (IF Cardinality(unresolved) = 1 THEN <<Latest(unresolved)>> ELSE <<>>) \o FailedUnits(next)

(***************************************************************************)
(* The actions of conflict analysis.  All start from the conflict level.   *)
(***************************************************************************)
Analyzing == status = 0 /\ conflict # None

\* Mutant: a conflict on the first level refutes the formula.
FirstLevelRefutes ==
    /\ Analyzing /\ conflict_level <= 1
    /\ status' = 20
    /\ UNCHANGED <<formula, clauses, units, trail, propagate, visiting, conflict,
                   clueue, restartable, reducing, reductions>>

\* A conflict that needs no decision refutes the formula.
AnalyzeRoot ==
    /\ Analyzing /\ conflict_level = 0
    /\ status' = 20
    /\ UNCHANGED <<formula, clauses, units, trail, propagate, visiting, conflict,
                   clueue, restartable, reducing, reductions>>

\* With one literal on its level the conflict forces that literal one level below.
ForceOneLiteral ==
    /\ Analyzing /\ conflict_level > 0
    /\ LET forced == CHOOSE l \in OnLevel(Conflict, conflict_level) : TRUE
       IN  /\ OnLevel(Conflict, conflict_level) = {forced}
           /\ kissat_backtrack_without_updating_phases(conflict_level - 1,
                  <<Assigned1(forced, kissat_assignment_level(conflict, forced), conflict)>>)
    /\ clauses' = Rewatched
    /\ conflict' = None
    /\ UNCHANGED <<formula, units, search>>

Deducing == Analyzing /\ Cardinality(OnLevel(Conflict, conflict_level)) > 1

AnalyzeFailedLiteral ==
    /\ Deducing /\ conflict_level = 1
    /\ LET learned == FailedUnits(Conflict \ OnLevel(Conflict, 0))
       IN  kissat_backtrack_without_updating_phases(0,
              [i \in DOMAIN learned |-> Assigned1(learned[i], 0, Unit)])
    /\ clauses' = Rewatched
    /\ conflict' = None
    /\ UNCHANGED <<formula, units, search>>

(***************************************************************************)
(* On-the-fly strengthening: a reason of three literals turns into a new   *)
(* binary clause, a larger one loses the literal.  The old conflict, if    *)
(* subsumed, is garbage and hands on that it is irredundant.               *)
(***************************************************************************)
Strengthened(C, ref, lit) ==
    LET c     == C[ref]
        kept  == c.watched \ {lit}
        small == AboveRoot(c.lits) \ {lit}
        W     == CHOOSE l \in small \ kept : \A k \in small \ kept : LEVEL(k) <= LEVEL(l)
    IN  IF Cardinality(small) = 2
        THEN Append(MarkGarbage(C, {ref}), Clause(small, small, c.red))
        ELSE [C EXCEPT ![ref].lits = small \cup kept, ![ref].watched = kept \cup {W}]

\* Mutant: the subsuming clause stays redundant.
StaysRedundant(C, res) == MarkGarbage(C, {conflict})

kissat_on_the_fly_subsume(C, res) ==
    [MarkGarbage(C, {conflict}) EXCEPT ![res].red = @ /\ C[conflict].red]

kissat_on_the_fly_strengthen ==
    /\ Deducing /\ conflict_level > 1
    /\ LET d   == Deduced(AboveRoot(Conflict), 0)
           ref == trail[IndexOf(d.uip)].reason
           C   == Strengthened(Rewatched, ref, d.uip)
           res == IF Len(C) > Len(clauses) THEN Len(C) ELSE ref
       IN  /\ d.strengthened
           /\ clauses' = IF d.subsuming THEN kissat_on_the_fly_subsume(C, res) ELSE C
           /\ conflict' = res
    /\ kissat_backtrack_without_updating_phases(conflict_level, <<>>)
    /\ UNCHANGED <<formula, units, search>>

(***************************************************************************)
(* Learning.  Too long a jump is replaced by one level (chronological      *)
(* backtracking): then the literal is assigned out of order.  Of the       *)
(* clauses learned last those subsumed by the new one become garbage.      *)
(***************************************************************************)
determine_new_level(jump) ==
    IF conflict_level - 1 - jump > ChronoLevels THEN conflict_level - 1 ELSE jump

kissat_eager_subsume(C, lits) ==
    {i \in ToSet(clueue) \ {0} : ~C[i].garbage /\ C[i].red /\ lits \subseteq C[i].lits}

RemoveSubsumed(C, lits) ==
    [j \in DOMAIN clueue |-> IF clueue[j] = 0 \/ C[clueue[j]].garbage \/ ~C[clueue[j]].red
                                \/ lits \subseteq C[clueue[j]].lits
                             THEN 0 ELSE clueue[j]]

kissat_push_clueue(q, i) ==
    LET all == Append(q, i) IN SubSeq(all, Max({1, Len(all) - EagerSubsume + 1}), Len(all))

kissat_learn_clause ==
    /\ Deducing /\ conflict_level > 1
    /\ LET d     == Deduced(AboveRoot(Conflict), 0)
           lits  == kissat_shrink_clause(d.lits)
           lower == lits \ {d.not_uip}
           jump  == MaxLevel(lower)
           other == CHOOSE l \in lower : LEVEL(l) = jump
           ref   == Len(clauses) + 1
       IN  /\ ~d.strengthened
           /\ kissat_backtrack_without_updating_phases(determine_new_level(jump),
                  <<Assigned1(d.not_uip, jump, IF lower = {} THEN Unit ELSE ref)>>)
           /\ IF lower = {} THEN clauses' = Rewatched /\ UNCHANGED clueue
              ELSE /\ clauses' = Append(MarkGarbage(Rewatched, kissat_eager_subsume(Rewatched, lits)),
                                        Clause(lits, {d.not_uip, other}, TRUE))
                   /\ clueue' = IF Cardinality(lits) = 2 THEN RemoveSubsumed(Rewatched, lits)
                                ELSE kissat_push_clueue(RemoveSubsumed(Rewatched, lits), ref)
    /\ conflict' = None
    /\ UNCHANGED <<formula, units, restartable, reducing, reductions, status>>

(***************************************************************************)
(* The other turns of the search loop, with everything propagated.         *)
(***************************************************************************)
Searching == status = 0 /\ Propagated1 /\ ~(level = 0 /\ trail # <<>>)

Propagate ==
    /\ status = 0
    /\ \/ search_propagate
       \/ \E i \in visiting : VisitSatisfied(i) \/ VisitReplacement(i) \/ VisitUnit(i)
       \/ kissat_flush_trail
    /\ UNCHANGED search

PropagateConflict ==
    /\ status = 0
    /\ \E i \in visiting : VisitConflict(i)
    /\ restartable' = TRUE
    /\ UNCHANGED <<clueue, reducing, reductions, status>>

AllAssigned ==
    /\ Searching /\ ~reducing /\ Unassigned = {}
    /\ status' = 10
    /\ UNCHANGED <<formula, clauses, units, trail, propagate, visiting, conflict,
                   clueue, restartable, reducing, reductions>>

kissat_decide ==
    /\ Searching /\ ~reducing
    /\ \E l \in Unassigned : trail' = Append(trail, Assigned1(l, level + 1, Decided))
    /\ UNCHANGED <<formula, clauses, units, propagate, visiting, conflict, search>>

\* The levels up to the first literal out of order may be reused.
smallest_out_of_order_trail_level ==
    Min({trail[i].level : i \in {i \in DOMAIN trail : \E j \in 1 .. i - 1 : trail[j].level > trail[i].level}}
        \cup {level})

\* Mutant: restarts wait for no conflict.
RestartAnytime ==
    /\ Searching /\ ~reducing /\ Unassigned # {}
    /\ level > 0
    /\ \E reuse \in 0 .. smallest_out_of_order_trail_level :
          kissat_backtrack_without_updating_phases(reuse, <<>>)
    /\ restartable' = FALSE
    /\ UNCHANGED <<formula, clauses, units, conflict, clueue, reducing, reductions, status>>

kissat_restart ==
    /\ Searching /\ ~reducing /\ Unassigned # {}
    /\ level > 0 /\ restartable
    /\ \E reuse \in 0 .. smallest_out_of_order_trail_level :
          kissat_backtrack_without_updating_phases(reuse, <<>>)
    /\ restartable' = FALSE
    /\ UNCHANGED <<formula, clauses, units, conflict, clueue, reducing, reductions, status>>

(***************************************************************************)
(* Reduction: root literals still on the trail are flushed first, by a     *)
(* restart.  Then redundant clauses that are no reasons may go, clauses    *)
(* satisfied at the root go, and false literals are dropped; the clauses   *)
(* left move together, and the reasons on the trail follow them.           *)
(***************************************************************************)
kissat_restart_and_flush_trail ==
    /\ Searching /\ ~reducing /\ Unassigned # {}
    /\ reductions < MaxReductions[formula]
    /\ \E i \in Kept(clauses) : clauses[i].red
    /\ \E i \in DOMAIN trail : trail[i].level = 0
    /\ kissat_backtrack_without_updating_phases(0, <<>>)
    /\ reducing' = TRUE
    /\ UNCHANGED <<formula, clauses, units, conflict, clueue, restartable, reductions, status>>

\* Mutant: reason clauses are not protected.
NoReasons == {}

Reasons == {trail[i].reason : i \in DOMAIN trail}
Reducible == {i \in Kept(clauses) : clauses[i].red /\ Cardinality(clauses[i].lits) > 2} \ Reasons

Swept(c) ==
    LET lits == {l \in c.lits : -l \notin units} IN [c EXCEPT !.lits = lits, !.watched = kissat_sort_literals(lits)]

kissat_sparse_collect(G) ==
    LET left   == {i \in Kept(clauses) \ G : clauses[i].lits \cap units = {}}
        src    == SelectSeq([i \in DOMAIN clauses |-> i], LAMBDA i : i \in left)
        dst(i) == Cardinality({j \in left : j <= i})
    IN  /\ clauses' = [j \in DOMAIN src |-> Swept(clauses[src[j]])]
        /\ trail' = [i \in DOMAIN trail |->
                        [trail[i] EXCEPT !.reason = IF @ > 0 THEN dst(@) ELSE @]]
        /\ clueue' = <<>>

kissat_reduce ==
    /\ Searching
    /\ reducing \/ (/\ Unassigned # {} /\ reductions < MaxReductions[formula]
                   /\ \E i \in Kept(clauses) : clauses[i].red)
    /\ \A i \in DOMAIN trail : trail[i].level > 0
    /\ \E G \in SUBSET Reducible : kissat_sparse_collect(G)
    /\ reducing' = FALSE
    /\ reductions' = reductions + 1
    /\ UNCHANGED <<formula, units, propagate, visiting, conflict, restartable, status>>

Ended == status # 0 /\ UNCHANGED searchVars

SearchNext ==
    \/ Propagate
    \/ PropagateConflict
    \/ AnalyzeRoot
    \/ ForceOneLiteral
    \/ AnalyzeFailedLiteral
    \/ kissat_on_the_fly_strengthen
    \/ kissat_learn_clause
    \/ AllAssigned
    \/ kissat_decide
    \/ kissat_restart
    \/ kissat_restart_and_flush_trail
    \/ kissat_reduce
    \/ Ended

(***************************************************************************)
(* The solver does not stop on its own: it takes steps until it has an     *)
(* answer.  As some step is always possible until then, this is weak       *)
(* fairness of SearchNext, put without ENABLED.                            *)
(***************************************************************************)
Fairness == []<>(status # 0) \/ []<><<TRUE>>_searchVars

SearchSpec == SearchInit /\ [][SearchNext]_searchVars /\ Fairness

-----------------------------------------------------------------------------
(***************************************************************************)
(* Every clause kept and every root-level unit follows from the formula,   *)
(* and the irredundant clauses still have exactly its models.              *)
(***************************************************************************)
Rooted == units \cup {trail[i].lit : i \in {i \in DOMAIN trail : trail[i].level = 0}}
Sets(I) == {clauses[i].lits : i \in I} \cup {{l} : l \in Rooted}
Irredundant == {i \in Kept(clauses) : ~clauses[i].red}

ClausesEquivalent == Models(Sets(Kept(clauses))) = Models(formula)
IrredundantEquivalent == Models(Sets(Irredundant)) = Models(formula)

(***************************************************************************)
(* A reason on the trail has its literal, its other literals were false    *)
(* before, and the highest of their levels is the level of the literal:    *)
(* then backtracking never takes away why a literal is true.               *)
(***************************************************************************)
Before(i) == {trail[j].lit : j \in 1 .. i - 1} \cup units

TrailJustified ==
    status = 0 /\ conflict = None =>
        \A i \in {i \in DOMAIN trail : trail[i].reason > 0} :
            LET c == clauses[trail[i].reason] IN
            /\ ~c.garbage /\ trail[i].lit \in c.lits
            /\ \A l \in c.lits \ {trail[i].lit} : -l \in Before(i)
            /\ trail[i].level = MaxLevel(c.lits \ {trail[i].lit})

(***************************************************************************)
(* When the solver goes on to decide, no clause is false and none has a    *)
(* single literal left, though literals were assigned out of order and     *)
(* clauses satisfied by literals that backtracking took away.  So the      *)
(* flush before a reduction cannot fail, as trail.c asserts.               *)
(***************************************************************************)
PropagationComplete ==
    Searching => \A i \in Kept(clauses) :
        \/ \E l \in clauses[i].lits : IsTrue(l)
        \/ Cardinality(clauses[i].lits \cap Unassigned) > 1

(***************************************************************************)
(* The search ends, as long as reductions are finite and restarts wait for *)
(* a conflict.                                                             *)
(***************************************************************************)
SearchEnds == <>(status # 0)

\* The answer is right.
AnswerRight ==
    /\ status = 10 => True \in Models(formula)
    /\ status = 20 => Models(formula) = {}

\* Trail, clauses and answer of a search with restarts and reductions.
SearchRight ==
    /\ TrailJustified
    /\ PropagationComplete
    /\ ClausesEquivalent
    /\ IrredundantEquivalent
    /\ AnswerRight
=============================================================================
