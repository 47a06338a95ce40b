------------------------------ MODULE SumGraph ------------------------------
(***************************************************************************)
(* xor_set::sum: a list of at most four constraints is added up from the   *)
(* left; a longer one over a graph whose edges join constraints that share *)
(* a variable.  The pair with the shortest sum is contracted first; a      *)
(* random number breaks ties.                                              *)
(***************************************************************************)
EXTENDS XorElimination

CONSTANT Lists            \* the lists of constraints that are summed

None == [vars |-> <<>>]   \* a constraint that was deleted

VARIABLES xlist,          \* the list that was given
          spc,
          nodes,          \* what is left of it
          edges,          \* the cost of each edge <<n1, n2>>, n1 < n2
          neighbors,
          sum

sumVars == <<xlist, spc, nodes, edges, neighbors, sum>>

Live == {n \in DOMAIN nodes : nodes[n] # None}
Pair(m, n) == IF m < n THEN <<m, n>> ELSE <<n, m>>
Pairs(N) == {p \in N \X N : p[1] < p[2]}

SumInit ==
  /\ xlist \in Lists
  /\ spc = "call" /\ nodes = xlist
  /\ edges = [e \in {} |-> 0] /\ neighbors = [n \in DOMAIN xlist |-> {}]
  /\ sum = EmptyConstraint

RECURSIVE xor_sum_list_linear(_)
xor_sum_list_linear(l) ==
  IF l = <<>> THEN EmptyConstraint
  ELSE IF Len(l) = 1 THEN l[1]
  ELSE xor_sum_list_linear(<<xor_plus(l[1], l[2])>> \o SubSeq(l, 3, Len(l)))

Linear ==
  /\ spc = "call" /\ Len(xlist) <= 4
  /\ sum' = xor_sum_list_linear(xlist)
  /\ nodes' = [n \in DOMAIN nodes |-> None]
  /\ spc' = "done"
  /\ UNCHANGED <<xlist, edges, neighbors>>

BuildGraph ==
  /\ spc = "call" /\ Len(xlist) > 4
  /\ LET E == {p \in Pairs(DOMAIN nodes) : xoverlap(nodes[p[1]], nodes[p[2]])}
     IN  /\ edges' = [p \in E |-> xcost(nodes[p[1]], nodes[p[2]])]
         /\ neighbors' = [n \in DOMAIN nodes |-> {m \in DOMAIN nodes : Pair(m, n) \in E}]
  /\ spc' = "reduce"
  /\ UNCHANGED <<xlist, nodes, sum>>

Cheapest == {e \in DOMAIN edges : \A d \in DOMAIN edges : edges[e] <= edges[d]}

\* Mutant: only the neighbours of the first end are looked at.
FirstNeighbors(n1, n2, xc) ==
  {m \in neighbors[n1] \ {n1, n2} : xoverlap(xc, nodes[m])}

\* The nodes joined to the contracted one: those joined to either end that
\* share a variable with the sum.
NewNeighbors(n1, n2, xc) ==
  {m \in (neighbors[n1] \cup neighbors[n2]) \ {n1, n2} : xoverlap(xc, nodes[m])}

\* All edges of both ends are replaced by edges of n1.
EdgesAfter(n1, n2, new, xc) ==
  LET old == {Pair(n1, m) : m \in neighbors[n1]} \cup {Pair(n2, m) : m \in neighbors[n2]}
      add == {Pair(n1, m) : m \in new}
  IN  [e \in (DOMAIN edges \ old) \cup add |->
         IF e \in add
         THEN xcost(xc, nodes[IF e[1] = n1 THEN e[2] ELSE e[1]])
         ELSE edges[e]]

contract_edge(n1, n2, xc) ==
  LET new == NewNeighbors(n1, n2, xc)
  IN  /\ edges' = EdgesAfter(n1, n2, new, xc)
      /\ neighbors' = [n \in DOMAIN neighbors |->
                         IF n = n1 THEN new
                         ELSE IF n = n2 THEN {}
                         ELSE (neighbors[n] \ {n1, n2}) \cup (IF n \in new THEN {n1} ELSE {})]

Contract ==
  /\ spc = "reduce"
  /\ \E e \in Cheapest :
       LET n1 == e[1]
           n2 == e[2]
           xc == xor_plus(nodes[n1], nodes[n2])
       IN  /\ nodes[n1] # None /\ nodes[n2] # None
           /\ ~ is_degenerate(xc)
           /\ nodes' = [nodes EXCEPT ![n1] = xc, ![n2] = None]
           /\ contract_edge(n1, n2, xc)
  /\ UNCHANGED <<xlist, spc, sum>>

\* Both constraints vanish; only the edge between them is removed.
Cancel ==
  /\ spc = "reduce"
  /\ \E e \in Cheapest :
       /\ nodes[e[1]] # None /\ nodes[e[2]] # None
       /\ is_degenerate(xor_plus(nodes[e[1]], nodes[e[2]]))
       /\ nodes' = [nodes EXCEPT ![e[1]] = None, ![e[2]] = None]
       /\ edges' = [d \in DOMAIN edges \ {e} |-> edges[d]]
  /\ UNCHANGED <<xlist, spc, neighbors, sum>>

\* An edge that leads to a deleted constraint: a null pointer is added.
Crash ==
  /\ spc = "reduce"
  /\ \E e \in Cheapest : nodes[e[1]] = None \/ nodes[e[2]] = None
  /\ spc' = "crashed"
  /\ UNCHANGED <<xlist, nodes, edges, neighbors, sum>>

\* Mutant: the sum of a component replaces the one of the component before.
LastComponent ==
  /\ spc = "reduce" /\ edges = [e \in {} |-> 0]
  /\ Live # {}
  /\ LET n == CHOOSE m \in Live : \A k \in Live : m <= k
     IN  /\ sum' = nodes[n]
         /\ nodes' = [nodes EXCEPT ![n] = None]
  /\ UNCHANGED <<xlist, spc, edges, neighbors>>

\* No edge is left: one constraint per component of the graph.
AddComponent ==
  /\ spc = "reduce" /\ edges = [e \in {} |-> 0]
  /\ Live # {}
  /\ LET n == CHOOSE m \in Live : \A k \in Live : m <= k
     IN  /\ sum' = xor_plus(sum, nodes[n])
         /\ nodes' = [nodes EXCEPT ![n] = None]
  /\ UNCHANGED <<xlist, spc, edges, neighbors>>

ReturnSum ==
  /\ spc = "reduce" /\ edges = [e \in {} |-> 0] /\ Live = {}
  /\ spc' = "done"
  /\ UNCHANGED <<xlist, nodes, edges, neighbors, sum>>

SumNext == Linear \/ BuildGraph \/ Contract \/ Cancel \/ Crash \/ AddComponent \/ ReturnSum

SumSpec == SumInit /\ [][SumNext]_sumVars

----------------------------------------------------------------------------

\* What is returned is the sum of the whole list: exactly the variables that
\* occur an odd number of times, and the sum of the phases.
SumRight ==
  spc = "done" =>
    /\ Variables(sum) = {v \in UNION {Variables(xlist[i]) : i \in DOMAIN xlist} :
                           Cardinality({i \in DOMAIN xlist : v \in Variables(xlist[i])}) % 2 = 1}
    /\ sum.phase = Cardinality({i \in DOMAIN xlist : xlist[i].phase = 1}) % 2

\* No sum of some of the constraints is empty, so that no two cancel.
Independent(l) ==
  \A I \in SUBSET DOMAIN l \ {{}} :
    \E v \in UNION {Variables(l[i]) : i \in I} :
      Cardinality({i \in I : v \in Variables(l[i])}) % 2 = 1

\* Between contractions there is an edge exactly between constraints that
\* share a variable, its cost is the length of their sum now, and the
\* neighbours of a node are the other ends of its edges; only when two
\* constraints cancelled are there edges to deleted ones.
EdgesExact ==
  spc = "reduce" =>
    LET current == {p \in DOMAIN edges : p[1] \in Live /\ p[2] \in Live}
    IN  /\ current = {p \in Pairs(Live) : xoverlap(nodes[p[1]], nodes[p[2]])}
        /\ \A p \in current : edges[p] = xcost(nodes[p[1]], nodes[p[2]])
        /\ \A n \in Live : neighbors[n] \cap Live = {m \in Live : Pair(m, n) \in current}
        /\ Independent(xlist) => DOMAIN edges = current

\* The graph of overlaps stays exact while it contracts, and ends in the sum.
SumGraphRight == SumRight /\ EdgesExact
=============================================================================
