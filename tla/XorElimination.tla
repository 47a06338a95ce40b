--------------------------- MODULE XorElimination ---------------------------
(***************************************************************************)
(* The class gauss of pseudoboolean.cxx, as operators on its state: the    *)
(* equations by number, the map imap from variables to equations, one      *)
(* pivot per variable, and the equations set aside so far.  Every equation *)
(* is an object with an id; heap holds the ids not deleted, and wrong the  *)
(* ids that were deleted twice.                                            *)
(***************************************************************************)
EXTENDS Integers, Sequences, FiniteSets

(***************************************************************************)
(* The xor constraints of pseudoboolean.cxx: an ascending list of variables *)
(* and the parity they must have.  The TBDD that validates a constraint is *)
(* kept by its meaning, the set of its solutions.                          *)
(***************************************************************************)
xor_constraint(vars, phase) == [vars |-> vars, phase |-> phase]
Elements(s) == {s[i] : i \in DOMAIN s}
Variables(eq) == Elements(eq.vars)

\* The empty constraint is a tautology.
EmptyConstraint == xor_constraint(<<>>, 0)
is_infeasible(eq) == eq.vars = <<>> /\ eq.phase = 1
is_degenerate(eq) == eq.vars = <<>> /\ eq.phase = 0

RECURSIVE coefficient_sum(_, _)
\* A merge of ascending lists that drops what occurs in both.
coefficient_sum(l1, l2) ==
  IF l1 = <<>> THEN l2
  ELSE IF l2 = <<>> THEN l1
  ELSE IF l1[1] < l2[1] THEN <<l1[1]>> \o coefficient_sum(Tail(l1), l2)
  ELSE IF l2[1] < l1[1] THEN <<l2[1]>> \o coefficient_sum(l1, Tail(l2))
  ELSE coefficient_sum(Tail(l1), Tail(l2))

xor_plus(a, b) == xor_constraint(coefficient_sum(a.vars, b.vars), (a.phase + b.phase) % 2)

xoverlap(a, b) == Variables(a) \cap Variables(b) # {}
\* The length of the sum.
xcost(a, b) == Len(a.vars) + Len(b.vars) - 2 * Cardinality(Variables(a) \cap Variables(b))

----------------------------------------------------------------------------

\* A solution is the set of variables that are true.
Satisfies(a, eq) == Cardinality(a \cap Variables(eq)) % 2 = eq.phase
Solutions(V, eqs) == {a \in SUBSET V : \A eq \in eqs : Satisfies(a, eq)}

----------------------------------------------------------------------------
NoEquation == [id |-> 0, vars |-> <<>>, phase |-> 0]
NoPivot == [eid |-> 0, cost |-> 0]
EXTERNAL_PENALTY == 2 ^ 30

SetMin(S) == CHOOSE x \in S : \A y \in S : x <= y
Object(id, eq) == [id |-> id, vars |-> eq.vars, phase |-> eq.phase]
Delete(g, ids) ==
  [g EXCEPT !.heap = @ \ ids, !.wrong = @ \cup (ids \ g.heap)]

----------------------------------------------------------------------------
(* Pivots.                                                                 *)

\* The cost of the equation eid as the pivot of variable v.
Cost(g, v, eid) ==
  (Cardinality(g.imap[v]) - 1) * (Len(g.equations[eid].vars) - 1)
    + (IF v \in g.internal THEN 0 ELSE EXTERNAL_PENALTY)

\* The best pivots of a variable; random numbers decide between them.
choose_pivot(g, v) ==
  LET costs == {Cost(g, v, eid) : eid \in g.imap[v]}
  IN  IF g.imap[v] = {} THEN {NoPivot}
      ELSE {[eid |-> eid, cost |-> SetMin(costs)] :
              eid \in {e \in g.imap[v] : Cost(g, v, e) = SetMin(costs)}}

\* All ways to choose the pivots of the variables in V anew.
RepivotedAll(g, V) ==
  {[g EXCEPT !.pivot_list = [v \in DOMAIN @ |-> IF v \in V THEN f[v] ELSE @[v]]] :
     f \in {h \in [V -> UNION {choose_pivot(g, v) : v \in V}] :
              \A v \in V : h[v] \in choose_pivot(g, v)}}

\* The variables with the cheapest pivot of all.
Selectable(g) ==
  LET V == {v \in DOMAIN g.pivot_list : g.pivot_list[v] # NoPivot}
  IN  {v \in V : \A w \in V : g.pivot_list[v].cost <= g.pivot_list[w].cost}

----------------------------------------------------------------------------

\* The equations become the objects 1 .. Len(eqs).
Prepared(eqs, internal, maxvar) ==
  [equations |-> [eid \in DOMAIN eqs |-> Object(eid, eqs[eid])],
   internal  |-> internal,
   imap      |-> [v \in 1 .. maxvar |-> {eid \in DOMAIN eqs : v \in Variables(eqs[eid])}],
   pivot_list |-> [v \in 1 .. maxvar |-> NoPivot],
   pivot_sequence |-> <<>>,
   external_equations |-> <<>>,
   internal_equations |-> <<>>,
   remaining |-> Len(eqs),
   next  |-> Len(eqs) + 1,
   heap  |-> DOMAIN eqs,
   wrong |-> {},
   infeasible |-> FALSE]

gauss(eqs, internal, maxvar) ==
  RepivotedAll(Prepared(eqs, internal, maxvar), 1 .. maxvar)

\* The equation that defines the pivot leaves the system.
TakePivot(g, pvar) ==
  LET peid == g.pivot_list[pvar].eid
      pvars == Variables(g.equations[peid])
  IN  [g EXCEPT !.equations[peid] = NoEquation,
                !.remaining = @ - 1,
                !.pivot_list[pvar] = NoPivot,
                !.pivot_sequence = Append(@, pvar),
                !.imap = [v \in DOMAIN @ |-> IF v \in pvars THEN @[v] \ {peid} ELSE @[v]]]

\* One equation with the pivot variable is replaced by its sum with peq.
AddTo(g, peq, pvar, eid) ==
  LET eq == g.equations[eid]
      neq == Object(g.next, xor_plus(peq, eq))
      out == [v \in DOMAIN g.imap |->
                IF v \in Variables(eq) \ {pvar} THEN g.imap[v] \ {eid} ELSE g.imap[v]]
      h == [Delete([g EXCEPT !.heap = @ \cup {neq.id}], {eq.id}) EXCEPT !.next = @ + 1]
  IN  IF is_infeasible(neq)
      THEN [Delete(h, {h.internal_equations[i].id : i \in DOMAIN h.internal_equations} \cup
                      {h.external_equations[i].id : i \in DOMAIN h.external_equations})
             EXCEPT !.equations[eid] = NoEquation, !.imap = out,
                    !.internal_equations = <<>>, !.external_equations = <<neq>>,
                    !.pivot_sequence = <<pvar>>, !.infeasible = TRUE]
      ELSE IF is_degenerate(neq)
      THEN [h EXCEPT !.equations[eid] = NoEquation, !.imap = out, !.remaining = @ - 1]
      ELSE [h EXCEPT !.equations[eid] = neq,
                     !.imap = [v \in DOMAIN out |-> IF v \in Variables(neq)
                                                    THEN out[v] \cup {eid} ELSE out[v]]]

\* The numbers in eids are ascending; an infeasible sum ends the loop.
RECURSIVE AddToAll(_, _, _, _)
AddToAll(g, peq, pvar, eids) ==
  IF eids = {} \/ g.infeasible THEN g
  ELSE LET eid == SetMin(eids) IN AddToAll(AddTo(g, peq, pvar, eid), peq, pvar, eids \ {eid})

\* Mutant: only the variables of the pivot equation get a new pivot.
TouchedByPivot(g, pvar) == Variables(g.equations[g.pivot_list[pvar].eid]) \ {pvar}

\* The variables of all equations that change.
Touched(g, pvar) ==
  (UNION {Variables(g.equations[eid]) : eid \in g.imap[pvar]}) \ {pvar}

\* Mutant: an equation set aside for an internal variable is lost.
ExternalAside(g, pvar, peq) ==
  [g EXCEPT !.imap[pvar] = {},
            !.external_equations = IF pvar \in g.internal THEN @ ELSE Append(@, peq)]

SetAside(g, pvar, peq) ==
  [g EXCEPT !.imap[pvar] = {},
            !.external_equations = IF pvar \in g.internal THEN @ ELSE Append(@, peq),
            !.internal_equations = IF pvar \in g.internal THEN Append(@, peq) ELSE @]

\* All outcomes of a step that eliminates pvar.
gauss_step(g, pvar) ==
  LET peq == g.equations[g.pivot_list[pvar].eid]
      taken == TakePivot(g, pvar)
      added == AddToAll(taken, peq, pvar, taken.imap[pvar])
  IN  IF added.infeasible THEN {added} ELSE RepivotedAll(SetAside(added, pvar, peq), Touched(g, pvar))

----------------------------------------------------------------------------
(* The Jordan form of the external equations, from the last pivot.         *)

ClearPivot(g, peid, eid) ==
  LET pvar == g.pivot_sequence[peid + Len(g.internal_equations)]
      eq == g.external_equations[eid]
      neq == Object(g.next, xor_plus(eq, g.external_equations[peid]))
  IN  IF pvar \in Variables(eq)
      THEN Delete([g EXCEPT !.external_equations[eid] = neq, !.next = @ + 1,
                            !.heap = @ \cup {neq.id}], {eq.id})
      ELSE g

\* Mutant: a pivot is cleared from the equation just before only.
RECURSIVE jordanize(_, _, _)
JordanShort(g, peid, eid) ==
  IF peid <= 1 THEN g ELSE jordanize(ClearPivot(g, peid, peid - 1), peid - 1, peid - 2)

jordanize(g, peid, eid) ==
  IF peid <= 1 THEN g
  ELSE IF eid = 0 THEN jordanize(g, peid - 1, peid - 2)
  ELSE jordanize(ClearPivot(g, peid, eid), peid, eid - 1)

Jordan(g) == jordanize(g, Len(g.external_equations), Len(g.external_equations) - 1)

\* ~gauss: the equations left and the external ones are deleted.
Destroyed(g) ==
  Delete(g, ({g.equations[eid].id : eid \in DOMAIN g.equations} \ {0})
            \cup {g.external_equations[i].id : i \in DOMAIN g.external_equations})

\* Mutant: the entries that are left are deleted.
ClearAll(g) == Delete(g, {g.equations[eid].id : eid \in DOMAIN g.equations} \ {0})

\* xor_set::clear deletes only the entries that are NULL; the array of the
\* elimination is the one of the set.
clear(g) ==
  Delete(g, {g.equations[eid].id : eid \in {e \in DOMAIN g.equations : g.equations[e] = NoEquation}} \ {0})

\* The results: eset and iset get copies.
Constraints(objects) == [i \in DOMAIN objects |-> xor_constraint(objects[i].vars, objects[i].phase)]
eset(g) == Constraints(g.external_equations)
iset(g) == IF g.infeasible THEN <<>> ELSE Constraints(g.internal_equations)

\* All final states of the elimination.
RECURSIVE Finals(_)
Finals(g) ==
  IF g.infeasible THEN {g}
  ELSE IF g.remaining = 0 THEN {Jordan(g)}
  ELSE UNION {Finals(h) : h \in UNION {gauss_step(g, v) : v \in Selectable(g)}}
gauss_jordan(eqs, internal, maxvar) ==
  {[eset |-> eset(g), iset |-> iset(g), pivots |-> g.pivot_sequence, infeasible |-> g.infeasible] :
     g \in UNION {Finals(h) : h \in gauss(eqs, internal, maxvar)}}
=============================================================================
