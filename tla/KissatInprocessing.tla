------------------------- MODULE KissatInprocessing ------------------------
(***************************************************************************)
(* Kissat between searches.  The search only adds clauses that follow      *)
(* (redundant ones), may let a redundant clause take the place of an       *)
(* irredundant one and forgets redundant clauses; the techniques rewrite   *)
(* the formula.  The models of what is left must, extended along the       *)
(* stack, satisfy the formula that was given.                              *)
(***************************************************************************)
EXTENDS KissatEliminate

CONSTANT Inputs             \* [formula, techniques, maxRedundant]: a set of clauses to start from,
                            \* the techniques that are enabled, and a bound on how
                            \* many redundant clauses are kept

VARIABLES input,            \* one of them
          mode,             \* "sparse", "dense" or, between rounds of substitution, "binaries"
          solver            \* the formula now

vars == <<input, mode, solver>>
original == input.formula

Modes == {"sparse", "dense", "binaries"}

TypeOK ==
    /\ mode \in Modes
    /\ solver.irr \subseteq SUBSET Lits /\ solver.red \subseteq SUBSET Lits
    /\ solver.units \subseteq Lits
    /\ Eliminated(solver) \subseteq Vars
    /\ \A i \in DOMAIN solver.extend : solver.extend[i].witness \in solver.extend[i].clause

Fresh(F) == [irr |-> F, red |-> {}, units |-> {}, extend |-> <<>>, eliminated |-> <<>>,
             inconsistent |-> FALSE]

Init ==
    /\ input \in Inputs
    /\ mode = "sparse"
    /\ solver = kissat_resume_sparse_mode(Fresh(original))

(***************************************************************************)
(* The search.                                                             *)
(***************************************************************************)
FollowsByPropagation(s, c) ==
    Propagated([s EXCEPT !.units = @ \cup {-l : l \in c}], s.irr \cup s.red).inconsistent

Simplified(s) == kissat_resume_sparse_mode(s)

LearnClause ==
    /\ "search" \in input.techniques
    /\ mode = "sparse" /\ ~solver.inconsistent
    /\ \E c \in SUBSET ActiveLits(solver) :
         /\ Cardinality(c) \in 1 .. 3 /\ ~Tautology(c)
         /\ c \notin solver.irr \cup solver.red
         /\ FollowsByPropagation(solver, c)
         /\ IF Cardinality(c) = 1
            THEN solver' = Simplified(kissat_learned_unit(solver, CHOOSE l \in c : TRUE))
            ELSE /\ Cardinality(solver.red) < input.maxRedundant
                 /\ solver' = [solver EXCEPT !.red = @ \cup {c}]
    /\ UNCHANGED <<input, mode>>

\* The subsumed clause goes; if it was irredundant the other one becomes irredundant.
SubsumedOnTheFly(s, c, d) ==
    IF d \in s.irr /\ c \in s.red
    THEN [s EXCEPT !.irr = (@ \ {d}) \cup {c}, !.red = @ \ {c, d}]
    ELSE [s EXCEPT !.irr = @ \ {d}, !.red = @ \ {d}]

SubsumeOnTheFly ==
    /\ "search" \in input.techniques
    /\ mode = "sparse" /\ ~solver.inconsistent
    /\ \E c, d \in solver.irr \cup solver.red :
         c \subseteq d /\ c # d /\ solver' = SubsumedOnTheFly(solver, c, d)
    /\ UNCHANGED <<input, mode>>

ForgetClause ==
    /\ "search" \in input.techniques
    /\ mode = "sparse" /\ ~solver.inconsistent
    /\ \E c \in solver.red : solver' = [solver EXCEPT !.red = @ \ {c}]
    /\ UNCHANGED <<input, mode>>

(***************************************************************************)
(* The dense mode: elimination and autarkies.                              *)
(***************************************************************************)
kissat_enter_dense_mode ==
    /\ input.techniques \cap {"eliminate", "autarky"} # {}
    /\ mode = "sparse" /\ ~solver.inconsistent
    /\ mode' = "dense"
    /\ UNCHANGED <<input, solver>>

kissat_eliminate ==
    /\ "eliminate" \in input.techniques
    /\ mode = "dense" /\ ~solver.inconsistent
    /\ \E x \in Active(solver) : solver' \in eliminate_variable(solver, x)
    /\ UNCHANGED <<input, mode>>

\* A clause is dropped, or loses a literal, because of an irredundant clause.
kissat_forward_subsume_during_elimination ==
    /\ "eliminate" \in input.techniques
    /\ mode = "dense" /\ ~solver.inconsistent
    /\ \E c \in solver.irr, d \in solver.irr :
         /\ c # d
         /\ IF Subsumes(solver, d, c) THEN solver' = [solver EXCEPT !.irr = @ \ {c}]
            ELSE \E l \in c :
                    /\ Strengthens(solver, d, c, l)
                    /\ solver' = kissat_flush_units_while_connected(
                                    [solver EXCEPT !.irr = (@ \ {c}) \cup {c \ {l}}])
    /\ UNCHANGED <<input, mode>>

kissat_autarky ==
    /\ "autarky" \in input.techniques
    /\ mode = "dense" /\ ~solver.inconsistent
    /\ \E phases \in {a \cap ActiveLits(solver) : a \in Assignments} :
         LET autarky == determine_autarky(solver, phases)
         IN  autarky # {} /\ solver' = apply_autarky(solver, autarky)
    /\ UNCHANGED <<input, mode>>

Resume ==
    /\ mode = "dense"
    /\ mode' = "sparse"
    /\ solver' = kissat_resume_sparse_mode(solver)
    /\ UNCHANGED input

(***************************************************************************)
(* Equivalent literal substitution.                                        *)
(***************************************************************************)
kissat_substitute ==
    /\ "substitute" \in input.techniques
    /\ mode \in {"sparse", "binaries"} /\ ~solver.inconsistent
    /\ mode' = "binaries"
    /\ solver' \in substitute_round(solver, mode = "sparse")
    /\ UNCHANGED input

StopSubstitution ==
    /\ mode = "binaries"
    /\ mode' = "sparse"
    /\ solver' = IF solver.inconsistent THEN solver ELSE FinishSubstitute(solver)
    /\ UNCHANGED input

Next ==
    \/ LearnClause
    \/ SubsumeOnTheFly
    \/ ForgetClause
    \/ kissat_enter_dense_mode
    \/ kissat_eliminate
    \/ kissat_forward_subsume_during_elimination
    \/ kissat_autarky
    \/ Resume
    \/ kissat_substitute
    \/ StopSubstitution

Spec == Init /\ [][Next]_vars

-----------------------------------------------------------------------------
(***************************************************************************)
(* Every assignment that satisfies the irredundant clauses and the units   *)
(* (what the search would report as a model), extended along the stack and *)
(* printed, satisfies the formula that was given.                          *)
(***************************************************************************)
Rest(s) == s.irr \cup {{l} : l \in s.units}

Remaining(s, a) == {l \in a : Var(l) \notin Eliminated(s)}

ModelsExtend ==
    ~solver.inconsistent =>
        \A a \in Models(Rest(solver)) :
            LET b == Printed(kissat_extend(solver, Remaining(solver, a)))
            IN  \A c \in original : c \cap b # {}

(***************************************************************************)
(* Nothing is lost on the other side: all clauses, redundant ones and      *)
(* units included, follow from the given formula, so that a contradiction  *)
(* is one of the formula.                                                  *)
(***************************************************************************)
ClausesFollow ==
    IF solver.inconsistent THEN Models(original) = {}
    ELSE \A a \in Models(original) :
            \A c \in Rest(solver) \cup solver.red : c \cap a # {}

(***************************************************************************)
(* While the search runs, redundant clauses follow from the irredundant    *)
(* ones: any of them may be forgotten, and none speaks of a variable that  *)
(* is gone.                                                                *)
(***************************************************************************)
RedundantImplied ==
    mode = "sparse" /\ ~solver.inconsistent =>
        /\ VarsOf(solver.irr \cup solver.red) \subseteq Active(solver)
        /\ \A a \in Models(Rest(solver)) : \A c \in solver.red : c \cap a # {}

\* Whatever the techniques do in turn, the clauses keep their meaning.
ClausesRight == TypeOK /\ RedundantImplied /\ ClausesFollow
=============================================================================
