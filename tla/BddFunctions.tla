---------------------------- MODULE BddFunctions ----------------------------
(***************************************************************************)
(* Decision diagrams up to isomorphism.  In a canonical table (NodeTable)  *)
(* a node is the function it computes, so a BDD is here the set of the     *)
(* assignments that make it true, an assignment the set of its true        *)
(* variables, and LEVEL, LOW and HIGH are read off the function under the  *)
(* current order.  A node built out of order is Malformed: a result that   *)
(* the real table would keep as a second copy of its function.             *)
(***************************************************************************)
EXTENDS Integers, FiniteSets, Sequences

CONSTANT MaxVars        \* the variables that may ever be declared

ASSUME MaxVarsPositive == MaxVars \in Nat \ {0}

VARIABLE level2var      \* bddlevel2var, one entry for each declared variable

Variables   == 0 .. MaxVars - 1
Assignments == SUBSET Variables
BDDs        == SUBSET Assignments
BDDZERO     == {}
BDDONE      == Assignments
ISCONST(f)  == f \in {BDDZERO, BDDONE}

\* A set that is no BDD.
Malformed == {{MaxVars}}

bddvarnum == Len(level2var)
Levels    == 0 .. bddvarnum - 1
Declared  == {level2var[i] : i \in DOMAIN level2var}
VarAt(l)  == level2var[l + 1]
bddvar2level(v) == CHOOSE l \in Levels : VarAt(l) = v

Orders(vars) == {o \in [1 .. Cardinality(vars) -> vars] :
                   \A i, j \in DOMAIN o : o[i] = o[j] => i = j}

Cofactor(f, v, b) ==
  {a \in Assignments : (IF b THEN a \cup {v} ELSE a \ {v}) \in f}

DependsOn(f, v) == \E a \in Assignments : (a \cup {v} \in f) # (a \ {v} \in f)
Support(f) == {v \in Variables : DependsOn(f, v)}

\* The level of the terminals is the number of variables.
LEVEL(f) ==
  IF ISCONST(f) \/ \A l \in Levels : ~DependsOn(f, VarAt(l)) THEN bddvarnum
  ELSE CHOOSE l \in Levels : /\ DependsOn(f, VarAt(l))
                             /\ \A k \in 0 .. l - 1 : ~DependsOn(f, VarAt(k))

LOW(f)  == Cofactor(f, VarAt(LEVEL(f)), FALSE)
HIGH(f) == Cofactor(f, VarAt(LEVEL(f)), TRUE)

BDD_ithvar(v)  == {a \in Assignments : v \in a}
BDD_nithvar(v) == {a \in Assignments : v \notin a}

bdd_makenode(l, low, high) ==
  IF Malformed \in {low, high} THEN Malformed
  ELSE IF low = high THEN low
  ELSE IF l < LEVEL(low) /\ l < LEVEL(high)
       THEN {a \in Assignments : IF VarAt(l) \in a THEN a \in high ELSE a \in low}
       ELSE Malformed

\* The least of the levels of the operands of a step.
Top(S) == LET ls == {LEVEL(f) : f \in S}
          IN  CHOOSE l \in ls : \A k \in ls : l <= k

\* The operand of the next step on either side: an operand that starts at
\* level l is replaced by its child, any other stays.
AtLow(l, f)  == IF LEVEL(f) = l THEN LOW(f) ELSE f
AtHigh(l, f) == IF LEVEL(f) = l THEN HIGH(f) ELSE f

\* The cube of a partial assignment, as a function from variables to BOOLEAN.
CubeOf(p) == {a \in Assignments : \A v \in DOMAIN p : (v \in a) = p[v]}
SetOf(V)  == CubeOf([v \in V |-> TRUE])
=============================================================================
