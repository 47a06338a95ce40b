----------------------------- MODULE LevelSwap ------------------------------
(***************************************************************************)
(* Swaps of neighbouring levels in the node table (reorder.c): roots are   *)
(* marked and references counted in full, the nodes of a level that depend *)
(* on the next one are rebuilt in place, dead nodes are collected, and at  *)
(* the end only the references from outside are to remain.                 *)
(* A sub-table of the hash is the set of the nodes of its variable.  The   *)
(* table may always grow.                                                  *)
(***************************************************************************)
EXTENDS BddFunctions, FiniteSetsExt

CONSTANTS Increase,        \* by how much the table grows
          MaxRefs,
          Programs,        \* what the user does before: [slots, ops], slots being
                           \* bddnodesize at the start
          SwapVarnum,      \* how many variables there are
          Sessions         \* how often the levels are reordered

VARIABLES bddnodes,        \* [level, low, high, refcou]; low is -1 when free
          bddfreenum,
          chains, nodenum, \* levels[var]: the nodes of a variable
          iactmtx,         \* pairs of variables that occur together
          extroots,
          phase,           \* "user", "levels", "swap"
          var0, toBeProcessed,
          resizedInMakenode,
          held,            \* what the user has: [node -> [fun, refs]]
          program, sessions

tables == <<chains, nodenum, iactmtx, extroots>>
user == <<held, program, sessions>>
swapVars == <<bddnodes, bddfreenum, level2var, tables, phase, var0, toBeProcessed,
          resizedInMakenode, user>>

Inner == DOMAIN bddnodes \ {0, 1}
InUse(nodes) == {n \in DOMAIN nodes \ {0, 1} : nodes[n].low # -1}
Free(nodes) == {n \in DOMAIN nodes : nodes[n].low = -1}
Unused == [level |-> 0, low |-> -1, high |-> -1, refcou |-> 0]

INCREF(nodes, n) == [nodes EXCEPT ![n].refcou = IF @ < MaxRefs THEN @ + 1 ELSE @]
\* Mutant: a reference is not given up.
Keepref(nodes, n) == nodes
DECREF(nodes, n) == [nodes EXCEPT ![n].refcou = IF @ # MaxRefs /\ @ > 0 THEN @ - 1 ELSE @]

\* During a session the level of a node is its variable.
Var(n) == IF phase = "user" THEN VarAt(bddnodes[n].level) ELSE bddnodes[n].level

RECURSIVE Fun(_)
Fun(n) == CASE n = 0 -> {}
            [] n = 1 -> SUBSET Declared
            [] OTHER -> {a \in SUBSET Declared :
                           a \in Fun(IF Var(n) \in a THEN bddnodes[n].high ELSE bddnodes[n].low)}

----------------------------------------------------------------------------
(* The user.                                                               *)

VarNode(v, pos) == [level |-> v, low |-> IF pos THEN 0 ELSE 1, high |-> IF pos THEN 1 ELSE 0,
                    refcou |-> MaxRefs]

\* bdd_setvarnum has made two nodes of every variable.
SwapInit ==
  /\ level2var = [i \in 1 .. SwapVarnum |-> i - 1]
  /\ \E p \in Programs :
       /\ bddnodes = [n \in 0 .. p.slots - 1 |->
            IF n < 2 THEN [level |-> bddvarnum, low |-> n, high |-> n, refcou |-> MaxRefs]
            ELSE IF n < 2 * bddvarnum + 2 THEN VarNode((n - 2) \div 2, n % 2 = 0)
            ELSE Unused]
       /\ program = p.ops
  /\ bddfreenum = Cardinality(Free(bddnodes))
  /\ chains = <<>> /\ nodenum = <<>> /\ iactmtx = {} /\ extroots = {}
  /\ phase = "user" /\ var0 = -1 /\ toBeProcessed = {} /\ resizedInMakenode = FALSE
  /\ held = [n \in 2 .. 2 * bddvarnum + 1 |->
       [fun |-> {a \in SUBSET Declared : ((n - 2) \div 2 \in a) = (n % 2 = 0)}, refs |-> MaxRefs]]
  /\ sessions = 0

Op == program[1]
AtOp(op) == phase = "user" /\ program # <<>> /\ Op.op = op
NextOp == program' = Tail(program) /\ UNCHANGED <<level2var, tables, phase, var0, toBeProcessed,
                                                  resizedInMakenode, sessions>>

\* A node is made, or found, and referenced.
Build ==
  /\ AtOp("build")
  /\ {Op.low, Op.high} \subseteq InUse(bddnodes) \cup {0, 1}
  /\ \A c \in {Op.low, Op.high} : Op.level < bddnodes[c].level
  /\ LET same == {n \in InUse(bddnodes) : /\ bddnodes[n].level = Op.level
                                          /\ bddnodes[n].low = Op.low /\ bddnodes[n].high = Op.high}
         n == IF same # {} THEN CHOOSE s \in same : TRUE ELSE Min(Free(bddnodes))
         node == [level |-> Op.level, low |-> Op.low, high |-> Op.high, refcou |-> 0]
         v == VarAt(Op.level)
     IN  /\ same = {} => Free(bddnodes) # {}
         /\ bddnodes' = INCREF(IF same # {} THEN bddnodes ELSE [bddnodes EXCEPT ![n] = node], n)
         /\ bddfreenum' = IF same # {} THEN bddfreenum ELSE bddfreenum - 1
         /\ held' = IF n \in DOMAIN held
                    THEN [held EXCEPT ![n].refs = IF @ < MaxRefs THEN @ + 1 ELSE @]
                    ELSE [m \in DOMAIN held \cup {n} |->
                            IF m = n THEN [fun |-> {a \in SUBSET Declared :
                                                      a \in Fun(IF v \in a THEN Op.high ELSE Op.low)},
                                           refs |-> 1]
                            ELSE held[m]]
  /\ NextOp

DelRef ==
  /\ AtOp("delref") /\ Op.node \in DOMAIN held /\ held[Op.node].refs < MaxRefs
  /\ bddnodes' = DECREF(bddnodes, Op.node)
  /\ held' = IF held[Op.node].refs = 1 THEN [m \in DOMAIN held \ {Op.node} |-> held[m]]
             ELSE [held EXCEPT ![Op.node].refs = @ - 1]
  /\ UNCHANGED bddfreenum /\ NextOp

RECURSIVE Reached(_, _)
Reached(nodes, S) ==
  LET T == S \cup {nodes[n].low : n \in S \ {0, 1}} \cup {nodes[n].high : n \in S \ {0, 1}}
  IN  IF T = S THEN S ELSE Reached(nodes, T)
\* Nodes that no referenced node needs are freed.
Collected(nodes) ==
  LET live == Reached(nodes, {n \in DOMAIN nodes : nodes[n].refcou > 0})
  IN  [n \in DOMAIN nodes |-> IF n \in live THEN nodes[n] ELSE Unused]

bdd_gbc ==
  /\ AtOp("gbc")
  /\ bddnodes' = Collected(bddnodes)
  /\ bddfreenum' = Cardinality(Free(bddnodes'))
  /\ UNCHANGED held /\ NextOp

----------------------------------------------------------------------------
(* The start of a session.                                                 *)

RECURSIVE addref_rec(_, _)
\* References of a node are counted below it when it is seen first; one that
\* was seen before brings along what is known of its variable.
addref_rec(acc, r) ==
  IF r < 2 THEN acc
  ELSE LET n == acc.nodes[r]
           down == IF n.refcou = 0
                   THEN addref_rec(addref_rec([acc EXCEPT !.dep = @ \cup {n.level},
                                                          !.nodenum[n.level] = @ + 1], n.low), n.high)
                   ELSE [acc EXCEPT !.dep = @ \cup {v \in Declared : <<n.level, v>> \in acc.iact}]
       IN  [down EXCEPT !.nodes = INCREF(@, r)]

\* One root: its variables depend on each other.
MarkRoot(acc, r) ==
  LET n == acc.nodes[r]
      a == addref_rec(addref_rec([acc EXCEPT !.dep = {n.level}, !.nodenum[n.level] = @ + 1], n.low), n.high)
  IN  [a EXCEPT !.iact = @ \cup (a.dep \X a.dep)]

mark_roots(nodes, roots) ==
  LET RECURSIVE From(_, _)
      From(acc, S) == IF S = {} THEN acc ELSE From(MarkRoot(acc, Min(S)), S \ {Min(S)})
  IN  From([nodes |-> nodes, dep |-> {}, iact |-> {}, nodenum |-> [v \in Declared |-> 0]], roots)

ByVar(nodes) == [v \in Declared |-> {n \in InUse(nodes) : nodes[n].level = v /\ nodes[n].refcou > 0}]
Swept(nodes) == [n \in DOMAIN nodes |-> IF nodes[n].refcou = 0 THEN Unused ELSE nodes[n]]

reorder_init ==
  /\ phase = "user" /\ program = <<>> /\ sessions < Sessions
  /\ LET renamed == [n \in DOMAIN bddnodes |->
                       IF n < 2 THEN bddnodes[n] ELSE [bddnodes[n] EXCEPT !.level = VarAt(@)]]
         roots == {n \in Inner : bddnodes[n].refcou > 0}
         m == mark_roots(renamed, roots)
     IN  /\ bddnodes' = Swept(m.nodes)
         /\ chains' = ByVar(m.nodes)
         /\ nodenum' = m.nodenum /\ iactmtx' = m.iact /\ extroots' = roots
         /\ bddfreenum' = Cardinality(Free(bddnodes'))
  /\ phase' = "levels" /\ sessions' = sessions + 1
  /\ UNCHANGED <<level2var, var0, toBeProcessed, resizedInMakenode, held, program>>

----------------------------------------------------------------------------
(* A swap of the levels of var0 and of the next variable.                  *)

Below(v) == VarAt(bddvar2level(v) + 1)
LevelsExchanged(l) == [level2var EXCEPT ![l + 1] = level2var[l + 2], ![l + 2] = level2var[l + 1]]

\* Mutant: a node stays unless both of its children depend on the next variable.
DependentBoth(v, w) == {n \in chains[v] : /\ bddnodes[bddnodes[n].low].level = w
                                          /\ bddnodes[bddnodes[n].high].level = w}

\* The nodes that reorder_downSimple takes out of their chains.
Dependent(v, w) == {n \in chains[v] : \/ bddnodes[bddnodes[n].low].level = w
                                      \/ bddnodes[bddnodes[n].high].level = w}

\* Variables that never occur together only change places.
reorder_vardown(v) ==
  /\ phase = "levels" /\ bddvar2level(v) < bddvarnum - 1
  /\ resizedInMakenode' = FALSE
  /\ IF <<v, Below(v)>> \notin iactmtx
     THEN /\ level2var' = LevelsExchanged(bddvar2level(v))
          /\ UNCHANGED <<phase, var0, toBeProcessed, chains, nodenum>>
     ELSE /\ phase' = "swap" /\ var0' = v
          /\ toBeProcessed' = Dependent(v, Below(v))
          /\ chains' = [chains EXCEPT ![v] = @ \ toBeProcessed']
          /\ nodenum' = [nodenum EXCEPT ![v] = Cardinality(chains'[v])]
          /\ UNCHANGED level2var
  /\ UNCHANGED <<bddnodes, bddfreenum, iactmtx, extroots, user>>

Grown(nodes) == [n \in 0 .. Cardinality(DOMAIN nodes) + Increase - 1 |->
                   IF n \in DOMAIN nodes THEN nodes[n] ELSE Unused]

\* Mutants: a node is found by one child; a node that is made is not counted.
MakeByLow(t, low, high) ==
  LET same == {n \in t.chains[var0] : t.nodes[n].low = low}
      n == Min(Free(t.nodes))
      made == [t.nodes EXCEPT ![n] = [level |-> var0, low |-> low, high |-> high, refcou |-> 1]]
  IN  IF low = high THEN [t EXCEPT !.nodes = INCREF(@, low), !.res = low]
      ELSE IF same # {} THEN LET s == CHOOSE s \in same : TRUE
                             IN  [t EXCEPT !.nodes = INCREF(@, s), !.res = s]
      ELSE [t EXCEPT !.nodes = INCREF(INCREF(made, low), high), !.res = n,
                     !.chains[var0] = @ \cup {n}, !.nodenum[var0] = @ + 1, !.freenum = @ - 1]
\* Mutant: a node found again is not counted.
MakeUncounted(t, low, high) ==
  LET same == {n \in t.chains[var0] : t.nodes[n].low = low /\ t.nodes[n].high = high}
      space == IF Free(t.nodes) = {} THEN Grown(t.nodes) ELSE t.nodes
      n == Min(Free(space))
      made == [space EXCEPT ![n] = [level |-> var0, low |-> low, high |-> high, refcou |-> 1]]
  IN  IF low = high THEN [t EXCEPT !.nodes = INCREF(@, low), !.res = low]
      ELSE IF same # {} THEN LET s == CHOOSE s \in same : TRUE
                             IN  [t EXCEPT !.nodes = INCREF(@, s), !.res = s]
      ELSE [t EXCEPT !.nodes = INCREF(INCREF(made, low), high), !.res = n,
                     !.chains[var0] = @ \cup {n}, !.nodenum[var0] = @ + 1]

\* The node of var0 with these children, with a reference; when it is new,
\* so have its children.
reorder_makenode(t, low, high) ==
  LET same == {n \in t.chains[var0] : t.nodes[n].low = low /\ t.nodes[n].high = high}
      full == Free(t.nodes) = {}
      space == IF full THEN Grown(t.nodes) ELSE t.nodes
      n == Min(Free(space))
      made == [space EXCEPT ![n] = [level |-> var0, low |-> low, high |-> high, refcou |-> 1]]
  IN  IF low = high THEN [t EXCEPT !.nodes = INCREF(@, low), !.res = low]
      ELSE IF same # {} THEN LET s == CHOOSE s \in same : TRUE
                             IN  [t EXCEPT !.nodes = INCREF(@, s), !.res = s]
      ELSE [nodes |-> INCREF(INCREF(made, low), high), res |-> n,
            chains |-> [t.chains EXCEPT ![var0] = @ \cup {n}],
            nodenum |-> [t.nodenum EXCEPT ![var0] = @ + 1],
            freenum |-> t.freenum + (IF full THEN Increase ELSE 0) - 1,
            resized |-> t.resized \/ full]

\* One node that waits is rebuilt in place, with the next variable on top;
\* the chains hold them in no order that matters.
reorder_swap ==
  /\ phase = "swap"
  /\ \E r \in toBeProcessed :
       LET w == Below(var0)
           node == bddnodes[r]
           cof(n, pos) == IF bddnodes[n].level # w THEN n
                          ELSE IF pos THEN bddnodes[n].high ELSE bddnodes[n].low
           t0 == [nodes |-> bddnodes, chains |-> chains, nodenum |-> nodenum, res |-> 0,
                  freenum |-> bddfreenum, resized |-> resizedInMakenode]
           t1 == reorder_makenode(t0, cof(node.low, FALSE), cof(node.high, FALSE))
           t2 == reorder_makenode(t1, cof(node.low, TRUE), cof(node.high, TRUE))
           n2 == DECREF(DECREF(t2.nodes, node.low), node.high)
       IN  /\ bddnodes' = [n2 EXCEPT ![r].level = w, ![r].low = t1.res, ![r].high = t2.res]
           /\ chains' = [t2.chains EXCEPT ![w] = @ \cup {r}]
           /\ nodenum' = [t2.nodenum EXCEPT ![w] = @ + 1]
           /\ bddfreenum' = t2.freenum
           /\ resizedInMakenode' = t2.resized
           /\ toBeProcessed' = toBeProcessed \ {r}
  /\ UNCHANGED <<level2var, iactmtx, extroots, phase, var0, user>>

RECURSIVE Buried(_, _)
Buried(nodes, dead) ==
  IF dead = {} THEN nodes
  ELSE LET n == CHOOSE d \in dead : TRUE
           less == DECREF(DECREF(nodes, nodes[n].low), nodes[n].high)
       IN  Buried([less EXCEPT ![n] = Unused], dead \ {n})

\* Dead nodes of the variable that moved up are freed, and the levels change
\* places; a table that has grown is hashed again.
reorder_localGbc ==
  /\ phase = "swap" /\ toBeProcessed = {}
  /\ LET w == Below(var0)
         dead == {n \in chains[w] : bddnodes[n].refcou = 0}
         left == [chains EXCEPT ![w] = @ \ dead]
     IN  /\ bddnodes' = Buried(bddnodes, dead)
         /\ chains' = IF resizedInMakenode THEN ByVar(bddnodes') ELSE left
         /\ nodenum' = [nodenum EXCEPT ![w] = @ - Cardinality(dead)]
         /\ bddfreenum' = bddfreenum + Cardinality(dead)
  /\ level2var' = LevelsExchanged(bddvar2level(var0))
  /\ phase' = "levels" /\ var0' = -1
  /\ UNCHANGED <<iactmtx, extroots, toBeProcessed, resizedInMakenode, user>>

----------------------------------------------------------------------------

\* Roots keep the references that they have now, other nodes lose theirs.
reorder_done ==
  /\ phase = "levels"
  /\ LET back == [n \in DOMAIN bddnodes |->
                    IF n < 2 THEN bddnodes[n]
                    ELSE [bddnodes[n] EXCEPT !.refcou = IF n \in extroots THEN @ ELSE 0,
                                             !.level = bddvar2level(@)]]
     IN  /\ bddnodes' = Collected(back)
         /\ bddfreenum' = Cardinality(Free(bddnodes'))
  /\ phase' = "user" /\ extroots' = {} /\ iactmtx' = {} /\ chains' = <<>> /\ nodenum' = <<>>
  /\ UNCHANGED <<level2var, var0, toBeProcessed, resizedInMakenode, user>>

SwapNext ==
  \/ Build \/ DelRef \/ bdd_gbc
  \/ reorder_init
  \/ \E v \in Declared : reorder_vardown(v)
  \/ reorder_swap \/ reorder_localGbc
  \/ reorder_done

SwapSpec == SwapInit /\ [][SwapNext]_swapVars

----------------------------------------------------------------------------

\* What the user holds denotes the same function at every step, in the
\* middle of a swap as well.
FunctionsKept == \A n \in DOMAIN held : n \in InUse(bddnodes) /\ Fun(n) = held[n].fun

Ordered ==
  \A n \in InUse(bddnodes) : \A c \in {bddnodes[n].low, bddnodes[n].high} \ {0, 1} :
    bddvar2level(Var(n)) < bddvar2level(Var(c))

Distinct ==
  \A m, n \in InUse(bddnodes) :
    [bddnodes[m] EXCEPT !.refcou = 0] = [bddnodes[n] EXCEPT !.refcou = 0] => m = n

\* sanitycheck(): between swaps the chains hold the nodes of their variables,
\* nodenum counts them, and levels grow downwards; no node is there twice.
Sanity ==
  phase = "levels" =>
    /\ \A v \in Declared : /\ nodenum[v] = Cardinality(chains[v])
                       /\ chains[v] = {n \in InUse(bddnodes) : bddnodes[n].level = v}
    /\ Ordered /\ Distinct

\* Between swaps a node has a reference for every parent and those of the
\* user, and no node is without one.
RefsExact ==
  phase = "levels" =>
    \A n \in InUse(bddnodes) :
      LET edges == Cardinality({m \in InUse(bddnodes) : bddnodes[m].low = n})
                   + Cardinality({m \in InUse(bddnodes) : bddnodes[m].high = n})
          outside == IF n \in DOMAIN held THEN held[n].refs ELSE 0
      IN  /\ bddnodes[n].refcou > 0
          /\ bddnodes[n].refcou = IF edges + outside > MaxRefs THEN MaxRefs ELSE edges + outside

\* The count of free nodes, by which orders are compared, is right.
FreeExact == bddfreenum = Cardinality(Free(bddnodes))

\* A swap keeps the functions, the order, the counts and the chains.
SwapsRight == FunctionsKept /\ Sanity /\ RefsExact /\ FreeExact
=============================================================================
