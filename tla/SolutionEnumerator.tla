------------------------- MODULE SolutionEnumerator -------------------------
(***************************************************************************)
(* What a user of tbsat is promised: a verdict that is right, and then     *)
(* different solutions, all of them or as many as were asked for; or no    *)
(* verdict.                                                                *)
(***************************************************************************)
EXTENDS FiniteSets, Integers

CONSTANT max_solutions

VARIABLES models,         \* the solutions of the formula
          verdict,
          printed

vars == <<models, verdict, printed>>

\* Nothing is promised when no verdict is asked for.
Init == verdict \in {"none", "no verdict"} /\ printed = {}

Decide ==
  /\ verdict = "none"
  /\ verdict' \in {"no verdict", IF models = {} THEN "UNSATISFIABLE" ELSE "SATISFIABLE"}
  /\ UNCHANGED <<models, printed>>

PrintOne ==
  /\ verdict = "SATISFIABLE" /\ Cardinality(printed) < max_solutions
  /\ \E m \in models \ printed : printed' = printed \cup {m}
  /\ UNCHANGED <<models, verdict>>

Next == Decide \/ PrintOne

Spec == Init /\ [][Next]_vars /\ WF_vars(Next)
=============================================================================
