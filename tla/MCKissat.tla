------------------------------ MODULE MCKissat ------------------------------
(***************************************************************************)
(* Formulas over four variables for the two models of kissat: the          *)
(* techniques between searches (KissatProbing) and the search itself       *)
(* (KissatSearch).  The initial state chooses one of them.                 *)
(***************************************************************************)
EXTENDS KissatProbing, KissatSearch

VARIABLE part                \* "probing" or "search"

mcVars == 1 .. 4

Setup(formulas, techniques, max) ==
    {[formula |-> F, techniques |-> techniques, maxRedundant |-> max] : F \in formulas}
Extended(formulas, extra, sizes) ==
    {F \cup E : F \in formulas, E \in {C \in SUBSET extra : Cardinality(C) \in sizes}}

----------------------------------------------------------------------------
\* Definitions of variable 1 with a gate of each kind.
Equivalence == {{1, -2}, {-1, 2}}
And == {{1, -2, -3}, {-1, 2}, {-1, 3}}
IfThenElse == {{-1, -2, 3}, {-1, 2, 4}, {1, -2, -3}, {1, 2, -4}}
Xor == {{1, 2, 3}, {1, -2, -3}, {-1, 2, -3}, {-1, -2, 3}}
ShortIfThenElse == {{-1, -2}, {-1, 2, 4}, {1, -2, 3}, {1, 2, -4}}
GateCandidates == {{1, 4}, {-1, -4}, {1, -3, 4}, {-1, 3, -4}, {-1, 2, 4}, {2, -4}, {-2, -3, 4}, {-3, -4}}

\* Equivalences, with failed literals, and clauses they change.
Cycle == {{-1, 2}, {-2, 3}, {-3, 1}}
TwoClasses == {{1, 3}, {-1, -3}, {-2, 4}, {2, -4}}
Failed == {{-4, 2}, {-4, -2}, {-1, 3}, {1, -3}}
Changed == {{1, 2, 4}, {-1, -2, 4}, {-2, 3, -4}, {1, -3, 4}, {2, 3}, {1, -4}, {-1, -3, -4}, {-2, -3}}

\* One formula for each technique, for the runs that mix them.
Mixed == {And \cup {{1, 4}, {-1, 3, -4}},
          IfThenElse \cup {{-3, -4}, {2, 4}},
          Cycle \cup {{1, 4}, {-2, -4}, {-3, 4}},
          {{1, 2, 3}, {-1, -2, 4}, {-3, -4}, {1, 4}},
          {{1, 2}, {-1, 3}, {-2, -3, 4}, {-1, -4}}}

\* An implication graph with a failed root, a path beside an edge, and clauses of three literals.
Graph == {{-1, 2}, {-2, 3}, {-1, 3}, {-3, 4, -1}}
FailedRoot == {{-1, 2}, {-1, 3}, {-2, -3, 4}, {-4, -2, -1}}
Backbone == {{-1, 2}, {-2, 3}, {-2, -3}, {1, 4}}
Extra == {{1, 2, 4}, {-4, 3}, {-4, -3}, {1, -3}, {2, 4}, {-2, -4, 3}}

\* Clauses of three literals that subsume, strengthen and imply one another.
Larges == {{1, 2, 3}, {-1, 2, 3}, {1, -2, 4}, {-3, 4}, {1, 2, 3, 4}, {-2, -3, -4}, {1, 3, -4}, {-1, -4}}

mcInputs ==
    Setup(Extended({Equivalence, And, IfThenElse, Xor, ShortIfThenElse}, GateCandidates, 1 .. 2), {"eliminate"}, 0)
    \cup Setup(Extended({Equivalence, Cycle, TwoClasses, Failed}, Changed, 1 .. 2), {"substitute", "search"}, 1)
    \cup Setup(Mixed, {"search", "eliminate", "autarky", "substitute"}, 1)
    \cup Setup(Extended({Graph, FailedRoot, Backbone}, Extra, {1}), {"search", "backbone", "transitive", "failed"}, 1)
    \cup Setup(Extended({{}}, Larges, {3}), {"search", "ternary", "vivify", "sweep"}, 2)

-----------------------------------------------------------------------------
\* Formulas of clauses of two to four literals.
Unsat3 == {{1, 2, 3}, {1, 2, -3}, {1, -2, 4}, {1, -2, -4}, {-1, 3, 4}, {-1, 3, -4}, {-1, -3}}

\* A learned clause that subsumes an irredundant one.
Subsuming == {{1, 2, 4}, {3, -4, 2}, {-1, 2, 3}}

\* Two literals of a lower level, one implied by the other; a literal that fails.
Shrinking == {{-1, 2}, {-3, -1, 4}, {-3, -2, -4}}
Failing == {{-1, 2}, {-1, 3}, {-2, -3}, {3, 4}, {3, -4}}

\* A unit learned above the root while a learned clause is there to be reduced.
Flushing == {{1, -3}, {1, -2, 4}, {3, -4}, {-2, -3, 4}, {-1, -3, -4}, {-1, -2, -3}}

mcFormulas == {Unsat3, Subsuming, Flushing, Shrinking, Failing}
mcReductions == [F \in mcFormulas |-> 1]

-----------------------------------------------------------------------------
allVars == <<vars, searchVars, part>>

ProbingIdle ==
    /\ input = [formula |-> {{}}, techniques |-> {}, maxRedundant |-> 0]
    /\ mode = "sparse"
    /\ solver = [Fresh({}) EXCEPT !.inconsistent = TRUE]

\* The status is none of the answers.
SearchIdle ==
    /\ formula = {} /\ clauses = <<>> /\ units = {} /\ trail = <<>>
    /\ propagate = 0 /\ visiting = {} /\ conflict = None
    /\ clueue = <<>> /\ restartable = FALSE
    /\ reducing = FALSE /\ reductions = 0 /\ status = 30

KissatInit ==
    \/ part = "probing" /\ Init /\ SearchIdle
    \/ part = "search" /\ SearchInit /\ ProbingIdle

KissatNext ==
    /\ UNCHANGED part
    /\ \/ part = "probing" /\ ProbingNext /\ UNCHANGED searchVars
       \/ part = "search" /\ SearchNext /\ UNCHANGED vars

KissatSpec == KissatInit /\ [][KissatNext]_allVars /\ Fairness
=============================================================================
