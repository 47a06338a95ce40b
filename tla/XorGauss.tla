------------------------------ MODULE XorGauss ------------------------------
(***************************************************************************)
(* xor_set::gauss_jordan as a state machine over the steps of              *)
(* XorElimination: one elimination step at a time, with every choice that  *)
(* the random numbers may make.                                            *)
(***************************************************************************)
EXTENDS XorElimination

CONSTANTS Systems,        \* [eqs, internal]: what the elimination is called on
          MaxEqnVar

VARIABLES system, gpc, g

gaussVars == <<system, gpc, g>>

\* xor_set::add keeps out constraints that restrict nothing.
Added(eqs) == SelectSeq(eqs, LAMBDA eq : ~ is_degenerate(eq))

GaussInit ==
  /\ system \in {[eqs |-> Added(s.eqs), internal |-> s.internal] : s \in Systems}
  /\ gpc = "prepared"
  /\ g = Prepared(system.eqs, system.internal, MaxEqnVar)

\* The constructor ends with a pivot for every variable.
FirstPivots ==
  /\ gpc = "prepared" /\ gpc' = "eliminate"
  /\ g' \in RepivotedAll(g, 1 .. MaxEqnVar)
  /\ UNCHANGED system

Eliminate ==
  /\ gpc = "eliminate" /\ ~ g.infeasible /\ g.remaining > 0
  /\ \E v \in Selectable(g) : g' \in gauss_step(g, v)
  /\ UNCHANGED <<system, gpc>>

FinishElimination ==
  /\ gpc = "eliminate" /\ (g.infeasible \/ g.remaining = 0)
  /\ g' = IF g.infeasible THEN g ELSE Jordan(g)
  /\ gpc' = "result"
  /\ UNCHANGED system

\* The elimination object is destroyed before the set; the set clears
\* what is left of its own.
Destroy ==
  /\ gpc = "result"
  /\ g' = clear(Destroyed(g))
  /\ gpc' = "destroyed"
  /\ UNCHANGED system

GaussNext == FirstPivots \/ Eliminate \/ FinishElimination \/ Destroy

GaussSpec == GaussInit /\ [][GaussNext]_gaussVars

----------------------------------------------------------------------------

Eqs(seq) == {seq[i] : i \in DOMAIN seq}
Left == {g.equations[eid] : eid \in DOMAIN g.equations} \ {NoEquation}
All == Left \cup Eqs(g.external_equations) \cup Eqs(g.internal_equations)

\* No step gains or loses a solution, and a system is reported infeasible
\* exactly when it has none.
SolutionsKept ==
  gpc \in {"eliminate", "result"} =>
    /\ IF g.infeasible THEN Solutions(1 .. MaxEqnVar, Eqs(system.eqs)) = {}
       ELSE Solutions(1 .. MaxEqnVar, All) = Solutions(1 .. MaxEqnVar, Eqs(system.eqs))
    /\ g.infeasible = (\E eq \in Eqs(g.external_equations) : is_infeasible(eq))
    /\ gpc = "result" /\ ~ g.infeasible => Solutions(1 .. MaxEqnVar, Eqs(system.eqs)) # {}

\* Between steps the map holds exactly the occurrences, every variable that
\* still occurs has a pivot, and it is a cheapest one now.
PivotsCurrent ==
  gpc = "eliminate" /\ ~ g.infeasible =>
    \A v \in 1 .. MaxEqnVar :
      /\ g.imap[v] = {eid \in DOMAIN g.equations : v \in Variables(g.equations[eid])}
      /\ g.pivot_list[v] \in choose_pivot(g, v)

\* External equations are over external variables only, in Jordan form: the
\* pivot of each occurs in no other.  An internal equation holds no pivot of
\* an earlier one.
JordanForm ==
  gpc = "result" /\ ~ g.infeasible =>
    LET k == Len(g.internal_equations)
        I(i) == Variables(g.internal_equations[i])
        E(i) == Variables(g.external_equations[i])
        P(i) == g.pivot_sequence[i]
    IN  /\ Len(g.pivot_sequence) = k + Len(g.external_equations)
        /\ \A i \in 1 .. k : /\ P(i) \in I(i) \cap g.internal
                             /\ \A j \in i + 1 .. k : P(i) \notin I(j)
        /\ \A i \in DOMAIN g.external_equations :
             /\ E(i) \cap g.internal = {}
             /\ \A j \in DOMAIN g.external_equations : (P(k + i) \in E(j)) = (i = j)

\* No constraint is deleted twice or used after it was deleted.
NoDangling ==
  /\ gpc # "idle" => g.wrong = {}
  /\ gpc \in {"eliminate", "result"} => \A eq \in All : eq.id \in g.heap

\* The elimination keeps the solutions, its pivots and its equations.
EliminationRight == SolutionsKept /\ PivotsCurrent /\ JordanForm /\ NoDangling
=============================================================================
