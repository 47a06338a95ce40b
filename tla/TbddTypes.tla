----------------------------- MODULE TbddTypes ------------------------------
(***************************************************************************)
(* Lemmas on the operators of TbddKernel (reference counts, what bdd_mark  *)
(* reaches, the ids of the clauses in the proof file), type correctness,   *)
(* and the parts of the inductive invariant that do not depend on what the *)
(* collector keeps: ids, counts of unit clauses, the table, the flow of    *)
(* control, the destination of an operation and the two stacks.            *)
(***************************************************************************)
EXTENDS TbddInductive, Counting, FiniteSetTheorems, SequenceTheorems

\* The last variable of a clause that BDD_build_clause has left is one of them.
LEMMA MaxOfProps ==
    ASSUME NEW S \in SUBSET (1..NumVars), S # {}
    PROVE  MaxOf(S) \in S
<1> DEFINE R == {NumVars - v : v \in S}
<1>0. NumVars \in Nat
  BY SizeAssumption
<1>1. R \in SUBSET Nat /\ R # {}
  <2>1. \A v \in S : v \in Int /\ 1 <= v /\ v <= NumVars
    BY <1>0
  <2>2. \A v \in S : NumVars - v \in Nat
    BY <1>0, <2>1
  <2> QED
    BY <2>2
<1>2. PICK x \in R : \A y \in R : x <= y
  BY <1>1, LeastNumber
<1>3. PICK v \in S : x = NumVars - v
  OBVIOUS
<1>4. \A w \in S : w <= v
  BY <1>0, <1>2, <1>3
<1> QED
  BY <1>4 DEF MaxOf

\* The sets of nodes a step can change are functions of the table alone.
LEMMA TableUnchanged ==
    ASSUME UNCHANGED node
    PROVE  Used' = Used /\ Live' = Live /\ Referenced' = Referenced /\ Safe' = Safe
BY DEF Used, Live, Referenced, Safe, Reach, ClosedUnder

-----------------------------------------------------------------------------

\* Where the sets of node ids lie: the two constants come before the inner nodes.
LEMMA NodeIdFacts ==
    /\ 0 \in NodeIds /\ 1 \in NodeIds /\ -1 \notin NodeIds /\ NodeIds \subseteq Nat
    /\ Terminals \subseteq NodeIds /\ Inner \subseteq NodeIds
    /\ Used \subseteq Inner /\ Live \subseteq NodeIds
    /\ Terminals \cap Used = {} /\ Referenced \subseteq Used
    /\ \A n \in NodeIds : n \in Inner <=> ~(n < 2)
BY GrowthAssumption DEF NodeIds, Terminals, Inner, Used, Live, Referenced

\* INCREF changes the count of one inner node, by one unless it is saturated.
LEMMA IncRefProps ==
    ASSUME NEW nd \in [NodeIds -> Nodes], NEW n \in NodeIds
    PROVE  /\ IncRef(nd, n) \in [NodeIds -> Nodes]
           /\ \A m \in NodeIds : /\ IncRef(nd, n)[m].low = nd[m].low
                                 /\ IncRef(nd, n)[m].high = nd[m].high
                                 /\ IncRef(nd, n)[m].level = nd[m].level
                                 /\ IncRef(nd, n)[m].xvar = nd[m].xvar
                                 /\ IncRef(nd, n)[m].dclause = nd[m].dclause
                                 /\ m # n \/ m < 2 => IncRef(nd, n)[m] = nd[m]
           /\ n \in Inner => IncRef(nd, n)[n].ref =
                                IF nd[n].ref = MaxRef THEN MaxRef ELSE nd[n].ref + 1
<1> DEFINE new == [nd[n] EXCEPT !.ref = @ + 1]
<1>0. MaxRef \in Nat
  BY SizeAssumption
<1>1. CASE n < 2 \/ nd[n].ref = MaxRef
  <2>1. IncRef(nd, n) = nd
    BY <1>1 DEF IncRef
  <2> QED
    BY <1>1, <2>1, NodeIdFacts
<1>2. CASE ~(n < 2 \/ nd[n].ref = MaxRef)
  <2>1. IncRef(nd, n) = [nd EXCEPT ![n] = new]
    BY <1>2 DEF IncRef
  <2>2. nd[n] \in Nodes
    OBVIOUS
  <2>3. /\ new.low = nd[n].low /\ new.high = nd[n].high /\ new.level = nd[n].level
        /\ new.xvar = nd[n].xvar /\ new.dclause = nd[n].dclause
        /\ new.ref = nd[n].ref + 1 /\ new \in Nodes
    BY <1>0, <1>2, <2>2 DEF Nodes
  <2> HIDE DEF new
  <2> QED
    BY <1>2, <2>1, <2>3, NodeIdFacts
<1> QED
  BY <1>1, <1>2

\* DECREF changes the count of one inner node, by one unless it is saturated or zero.
LEMMA DecRefProps ==
    ASSUME NEW nd \in [NodeIds -> Nodes], NEW n \in NodeIds
    PROVE  /\ DecRef(nd, n) \in [NodeIds -> Nodes]
           /\ \A m \in NodeIds : /\ DecRef(nd, n)[m].low = nd[m].low
                                 /\ DecRef(nd, n)[m].high = nd[m].high
                                 /\ DecRef(nd, n)[m].level = nd[m].level
                                 /\ DecRef(nd, n)[m].xvar = nd[m].xvar
                                 /\ DecRef(nd, n)[m].dclause = nd[m].dclause
                                 /\ m # n \/ m < 2 => DecRef(nd, n)[m] = nd[m]
           /\ n \in Inner => DecRef(nd, n)[n].ref =
                                IF nd[n].ref = MaxRef \/ nd[n].ref = 0 THEN nd[n].ref
                                ELSE nd[n].ref - 1
<1> DEFINE new == [nd[n] EXCEPT !.ref = @ - 1]
<1>0. MaxRef \in Nat
  BY SizeAssumption
<1>1. CASE n < 2 \/ nd[n].ref = MaxRef \/ nd[n].ref = 0
  <2>1. DecRef(nd, n) = nd
    BY <1>1 DEF DecRef
  <2> QED
    BY <1>1, <2>1, NodeIdFacts
<1>2. CASE ~(n < 2 \/ nd[n].ref = MaxRef \/ nd[n].ref = 0)
  <2>1. DecRef(nd, n) = [nd EXCEPT ![n] = new]
    BY <1>2 DEF DecRef
  <2>2. nd[n] \in Nodes
    OBVIOUS
  <2>3. /\ new.low = nd[n].low /\ new.high = nd[n].high /\ new.level = nd[n].level
        /\ new.xvar = nd[n].xvar /\ new.dclause = nd[n].dclause
        /\ new.ref = nd[n].ref - 1 /\ new \in Nodes
    BY <1>0, <1>2, <2>2 DEF Nodes
  <2> HIDE DEF new
  <2> QED
    BY <1>2, <2>1, <2>3, NodeIdFacts
<1> QED
  BY <1>1, <1>2

\* bdd_mark reaches the roots it starts from, and used nodes only.
LEMMA ReachRoots == ASSUME NEW A PROVE A \cap Used \subseteq Reach(A) /\ Reach(A) \subseteq Used
BY DEF Reach

\* bdd_mark reaches the children of what it reaches.
LEMMA ReachClosed ==
    ASSUME NEW A, NEW n \in Reach(A)
    PROVE  /\ node[n].low \in Used => node[n].low \in Reach(A)
           /\ node[n].high \in Used => node[n].high \in Reach(A)
BY DEF Reach, ClosedUnder

\* bdd_mark reaches more from more roots.
LEMMA ReachMonotone ==
    ASSUME NEW A, NEW B, A \subseteq B
    PROVE  Reach(A) \subseteq Reach(B)
BY DEF Reach

\* What every collection keeps is in the table.
LEMMA SafeLive == Safe \subseteq Live /\ Terminals \subseteq Safe /\ Referenced \subseteq Safe
BY ReachRoots, NodeIdFacts DEF Safe, Live

\* The children of a constant are the constant itself.
LEMMA TerminalChild ==
    ASSUME TableInv, NEW n \in Terminals
    PROVE  node[n].low = n /\ node[n].high = n
<1>1. node[n] = Terminal(n)
  BY DEF TableInv
<1> QED
  BY <1>1 DEF Terminal

\* The children of a node that every collection keeps are kept too.
LEMMA SafeChild ==
    ASSUME TableInv, NEW n \in Safe
    PROVE  node[n].low \in Safe /\ node[n].high \in Safe
<1>1. CASE n \in Terminals
  BY <1>1, SafeLive, TerminalChild
<1>2. CASE n \in Reach(Referenced)
  <2>1. n \in Used
    BY <1>2, ReachRoots
  <2>2. node[n].low \in Live /\ node[n].high \in Live
    BY <2>1 DEF TableInv
  <2> QED
    BY <1>2, <2>2, ReachClosed DEF Live, Safe
<1> QED
  BY <1>1, <1>2 DEF Safe

\* The children of a node in the table are in the table.
LEMMA LiveChild ==
    ASSUME TableInv, NEW n \in Live
    PROVE  node[n].low \in Live /\ node[n].high \in Live
<1>1. CASE n \in Terminals
  BY <1>1, TerminalChild DEF Live
<1>2. CASE n \in Used
  BY <1>2 DEF TableInv
<1> QED
  BY <1>1, <1>2 DEF Live

\* A step that changes neither children nor takes references away keeps what is safe.
LEMMA SameShape ==
    ASSUME \A m \in NodeIds : node'[m].low = node[m].low /\ node'[m].high = node[m].high,
           Referenced \subseteq Referenced'
    PROVE  Used' = Used /\ Live' = Live /\ Safe \subseteq Safe'
<1>1. Used' = Used
  BY NodeIdFacts DEF Used
<1>2. Live' = Live
  BY <1>1 DEF Live
<1>3. ASSUME NEW n \in Reach(Referenced), NEW S \in SUBSET Used',
             Referenced' \cap Used' \subseteq S,
             \A m \in S : {node'[m].low, node'[m].high} \cap Used' \subseteq S
      PROVE  n \in S
  <2>1. S \in SUBSET Used /\ Referenced \cap Used \subseteq S
    BY <1>1, <1>3
  <2>2. \A m \in S : node'[m].low = node[m].low /\ node'[m].high = node[m].high
    BY <2>1, NodeIdFacts
  <2>3. ClosedUnder(S)
    BY <1>1, <1>3, <2>2 DEF ClosedUnder
  <2> QED
    BY <2>1, <2>3 DEF Reach
<1>4. Reach(Referenced) \subseteq Reach(Referenced)'
  BY <1>1, <1>3, ReachRoots DEF Reach, ClosedUnder
<1> QED
  BY <1>1, <1>2, <1>4 DEF Safe

\* A node built in a free place is added to the table, and nothing else changes.
LEMMA FreshNode ==
    ASSUME NEW n \in Free, NEW new \in Nodes, new.low # -1, new.ref = 0,
           node \in [NodeIds -> Nodes], node' = [node EXCEPT ![n] = new]
    PROVE  /\ Used' = Used \cup {n} /\ Live' = Live \cup {n}
           /\ Referenced' = Referenced /\ Safe \subseteq Safe'
<1>1. n \in Inner /\ n \in NodeIds /\ n \notin Used
  BY NodeIdFacts DEF Free, Used
<1>2. \A m \in NodeIds : node'[m] = IF m = n THEN new ELSE node[m]
  BY <1>1
<1>3. Used' = Used \cup {n}
  BY <1>1, <1>2, NodeIdFacts DEF Used
<1>4. Live' = Live \cup {n}
  BY <1>3 DEF Live
<1>5. Referenced' = Referenced
  BY <1>1, <1>2, <1>3, NodeIdFacts DEF Referenced
<1>6. ASSUME NEW m \in Reach(Referenced), NEW S \in SUBSET Used',
             Referenced' \cap Used' \subseteq S,
             \A k \in S : {node'[k].low, node'[k].high} \cap Used' \subseteq S
      PROVE  m \in S
  <2> DEFINE T == S \cap Used
  <2>1. T \in SUBSET Used /\ Referenced \cap Used \subseteq T
    BY <1>3, <1>5, <1>6
  <2>2. \A k \in T : node'[k] = node[k]
    BY <1>1, <1>2, NodeIdFacts
  <2>3. ClosedUnder(T)
    BY <1>3, <1>6, <2>2 DEF ClosedUnder
  <2>4. m \in T
    BY <2>1, <2>3 DEF Reach
  <2> QED
    BY <2>4
<1>7. Reach(Referenced) \subseteq Reach(Referenced)'
  BY <1>3, <1>6, ReachRoots DEF Reach, ClosedUnder
<1> QED
  BY <1>3, <1>4, <1>5, <1>7 DEF Safe

\* A collection keeps what it marked, as it was, and with it all that was safe.
LEMMA Collected ==
    ASSUME node \in [NodeIds -> Nodes],
           node' = [n \in NodeIds |-> IF n \in Dead THEN FreeNode ELSE node[n]]
    PROVE  /\ Used' = Reach(GcRoots) /\ Live' = Terminals \cup Reach(GcRoots)
           /\ \A n \in Live' : node'[n] = node[n]
           /\ Referenced' = Referenced /\ Safe \subseteq Safe'
<1>1. Reach(GcRoots) \subseteq Used /\ GcRoots \cap Used \subseteq Reach(GcRoots)
  BY ReachRoots
<1>2. \A n \in Reach(GcRoots) : node'[n] = node[n]
  BY <1>1, NodeIdFacts DEF Dead
<1>3. \A n \in Inner : n \notin Reach(GcRoots) => node'[n].low = -1
  BY NodeIdFacts DEF Dead, FreeNode, Used
<1>4. Used' = Reach(GcRoots)
  BY <1>1, <1>2, <1>3, NodeIdFacts DEF Used
<1>5. Live' = Terminals \cup Reach(GcRoots)
  BY <1>4 DEF Live
<1>6. \A n \in Live' : node'[n] = node[n]
  BY <1>2, <1>5, NodeIdFacts DEF Dead
<1>7. Referenced \subseteq Reach(GcRoots)
  BY <1>1, NodeIdFacts DEF GcRoots
<1>8. Referenced' = Referenced
  BY <1>1, <1>2, <1>4, <1>7 DEF Referenced
<1>9. ASSUME NEW m \in Reach(Referenced), NEW S \in SUBSET Used',
             Referenced' \cap Used' \subseteq S,
             \A k \in S : {node'[k].low, node'[k].high} \cap Used' \subseteq S
      PROVE  m \in S
  <2>1. S \in SUBSET Used /\ Referenced \cap Used \subseteq S
    BY <1>1, <1>4, <1>7, <1>8, <1>9
  <2>2. \A k \in S : node'[k] = node[k]
    BY <1>2, <1>4, <1>9
  <2>3. ASSUME NEW k \in S PROVE {node[k].low, node[k].high} \cap Used \subseteq S
    <3>1. k \in Reach(GcRoots)
      BY <1>4, <1>9
    <3>2. {node[k].low, node[k].high} \cap Used \subseteq Used'
      BY <1>4, <3>1, ReachClosed
    <3>3. {node[k].low, node[k].high} \cap Used' \subseteq S
      BY <1>9, <2>2
    <3> QED
      BY <3>2, <3>3
  <2>4. ClosedUnder(S)
    BY <2>3 DEF ClosedUnder
  <2> QED
    BY <2>1, <2>4 DEF Reach
<1>10. Reach(Referenced) \subseteq Used'
  BY <1>4, ReachMonotone DEF GcRoots
<1>11. Reach(Referenced) \subseteq Reach(Referenced)'
  BY <1>9, <1>10 DEF Reach, ClosedUnder
<1> QED
  BY <1>4, <1>5, <1>6, <1>8, <1>11 DEF Safe

-----------------------------------------------------------------------------

\* generate_clause writes a line or nothing.
LEMMA GenSeq ==
    ASSUME NEW lits, NEW hints, NEW kind, NEW k, NEW S,
           Line(counter + k, CleanClause(lits), hints, kind) \in S
    PROVE  Gen(lits, hints, kind, k) \in Seq(S)
BY DEF Gen

\* The line that generate_clause writes has the id it was given.
LEMMA GenLine ==
    ASSUME NEW lits, NEW hints, NEW kind, NEW k, NEW i \in DOMAIN Gen(lits, hints, kind, k)
    PROVE  Gen(lits, hints, kind, k)[i].id = counter + k
BY DEF Gen, Line

\* A generated clause has the next id, or TAUTOLOGY when it was not written.
LEMMA GenIdType ==
    ASSUME NEW lits, NEW k \in Nat, counter \in Nat
    PROVE  GenId(lits, k) \in Nat /\ (GenId(lits, k) # TAUTOLOGY => GenId(lits, k) = counter + k)
BY TautologyAssumption DEF GenId

\* Lines with ids up to c leave clauses with ids up to c in the file.
LEMMA EmitIds ==
    ASSUME NEW add, NEW del, NEW c \in Nat, Emit(add, del),
           counter \in Nat, counter <= c, DOMAIN db \subseteq 1..counter, emptyId \in Nat,
           \A k \in DOMAIN add : add[k].id \in 1..c
    PROVE  DOMAIN db' \subseteq 1..c /\ emptyId' \in Nat
<1> DEFINE empty == {k \in DOMAIN add : add[k].lits = {}}
           dels  == IF empty = {} THEN del ELSE {}
<1>1. CASE emptyId = TAUTOLOGY
  <2>1. db' = LogSpec!Replay(db, add, dels)
    BY <1>1 DEF Emit
  <2>2. LogSpec!AddedIds(add) \subseteq 1..c
    BY DEF LogSpec!AddedIds
  <2>3. DOMAIN db' \subseteq DOMAIN db \cup LogSpec!AddedIds(add)
    BY <2>1 DEF LogSpec!Replay
  <2>4. DOMAIN db' \subseteq 1..c
    BY <2>2, <2>3
  <2>5. emptyId' = IF empty = {} THEN TAUTOLOGY ELSE add[CHOOSE k \in empty : TRUE].id
    BY <1>1 DEF Emit
  <2>6. empty # {} => (CHOOSE k \in empty : TRUE) \in DOMAIN add
    OBVIOUS
  <2>7. emptyId' \in Nat
    BY <2>5, <2>6, TautologyAssumption
  <2> QED
    BY <2>4, <2>7
<1>2. CASE emptyId # TAUTOLOGY
  BY <1>2 DEF Emit
<1> QED
  BY <1>1, <1>2

\* Deletions leave no id behind that was not there.
LEMMA NothingIds ==
    ASSUME NEW del, NEW c \in Nat, Emit(<<>>, del),
           counter \in Nat, counter <= c, DOMAIN db \subseteq 1..counter, emptyId \in Nat
    PROVE  DOMAIN db' \subseteq 1..c /\ emptyId' \in Nat
<1>1. \A k \in DOMAIN <<>> : <<>>[k].id \in 1..c
  OBVIOUS
<1> QED
  BY <1>1, EmitIds

\* justify_apply takes the ids after the last one, as many as it writes lines.
LEMMA JustifyIds ==
    ASSUME NEW nd, NEW op, NEW l, NEW r, NEW level, NEW tresl, NEW tresh, NEW res, NEW last \in Nat
    PROVE  LET j == Justify(nd, op, l, r, level, tresl, tresh, res, last)
           IN  /\ j.jid \in Nat /\ j.del \subseteq Nat /\ Len(j.add) \in Nat
               /\ \A k \in DOMAIN j.add : j.add[k].id \in (last + 1)..(last + Len(j.add))
<1> DEFINE targ  == JustTarget(nd, op, l, r, res)
           hint  == Candidates(nd, op, l, r, level, tresl, tresh, res)
           hl    == RupCheck(targ, HintHL, hint)
           lh    == RupCheck(targ, HintLH, hint)
           itarg == CleanClause(targ \cup {-level})
           extra == [hint EXCEPT !["EXTRA"] = [id |-> last + 1, lits |-> itarg]]
           first == RupCheck(itarg, HintH, hint)
           secnd == RupCheck(targ, HintL, extra)
           one(order, used) ==
              [ok |-> TRUE, jid |-> last + 1, del |-> {},
               add |-> <<Line(last + 1, targ, Antecedents(order, hint, used), "just")>>]
           two ==
              [ok |-> first.ok /\ secnd.ok, jid |-> last + 2, del |-> {last + 1},
               add |-> <<Line(last + 1, itarg, Antecedents(HintH, hint, first.used), "just"),
                         Line(last + 2, targ, Antecedents(HintL, extra, secnd.used), "just")>>]
           none == [ok |-> TRUE, jid |-> TAUTOLOGY, del |-> {}, add |-> <<>>]
           good(j) == /\ j.jid \in Nat /\ j.del \subseteq Nat /\ Len(j.add) \in Nat
                      /\ \A k \in DOMAIN j.add : j.add[k].id \in (last + 1)..(last + Len(j.add))
<1>1. good(none)
  BY TautologyAssumption
<1>2. ASSUME NEW order, NEW used PROVE good(one(order, used))
  BY DEF Line
<1>3. good(two)
  BY DEF Line
<1>4. Justify(nd, op, l, r, level, tresl, tresh, res, last) =
        IF targ = TautClause THEN none
        ELSE IF hint["OPH"].id = TAUTOLOGY /\ hl.ok THEN one(HintHL, hl.used)
        ELSE IF hint["OPL"].id = TAUTOLOGY /\ lh.ok THEN one(HintLH, lh.used)
        ELSE two
  BY Zenon DEF Justify
<1> HIDE DEF none, one, two, targ, hint, hl, lh, good
<1>5. good(Justify(nd, op, l, r, level, tresl, tresh, res, last))
  BY <1>1, <1>2, <1>3, <1>4
<1> QED
  BY <1>5 DEF good

\* The defining clauses of a node have the four ids after the counter.
LEMMA FreshIds ==
    ASSUME NEW add, NEW S, add \in Seq(S), \A x \in S : x.id \in 1..(counter + 4)
    PROVE  \A k \in DOMAIN add : add[k].id \in 1..(counter + 4)
BY ElementOfSeq, LenProperties

-----------------------------------------------------------------------------
(* Type correctness: every step keeps TypeOK, given the rest of the invariant, *)
(* one lemma for each group of actions.                                        *)

USE DEF Quiet, kernelVars

\* Building a node writes clauses with the four ids after the counter, and deletes none.
LEMMA FreshLines ==
    ASSUME MakeFresh, counter \in Nat
    PROVE  \E add : Emit(add, {}) /\ \A k \in DOMAIN add : add[k].id \in 1..(counter + 4)
<1> DEFINE nid == varcounter + 1
           Def(d) == CleanClause(DefiningClause(d, nid, mk.level, node[mk.high].xvar, node[mk.low].xvar))
           Raw(d) == DefiningClause(d, nid, mk.level, node[mk.high].xvar, node[mk.low].xvar)
           up == <<-GenId(Raw("HU"), 1), -GenId(Raw("LU"), 2)>>
           g1 == Gen(Raw("HU"), <<>>, "def", 1)
           g2 == Gen(Raw("LU"), <<>>, "def", 2)
           g3 == Gen(Raw("HD"), up, "def", 3)
           g4 == Gen(Raw("LD"), up, "def", 4)
           S  == {Line(counter + 1, Def("HU"), <<>>, "def"), Line(counter + 2, Def("LU"), <<>>, "def"),
                  Line(counter + 3, Def("HD"), up, "def"), Line(counter + 4, Def("LD"), up, "def")}
<1>1. Emit(g1 \o g2 \o g3 \o g4, {})
  BY DEF MakeFresh
<1>2. \A x \in S : x.id \in 1..(counter + 4)
  BY DEF Line
<1>3. g1 \in Seq(S) /\ g2 \in Seq(S) /\ g3 \in Seq(S) /\ g4 \in Seq(S)
  BY GenSeq
<1> HIDE DEF g1, g2, g3, g4, S
<1>4. g1 \o g2 \o g3 \o g4 \in Seq(S)
  BY <1>3, ConcatProperties
<1>5. \A k \in DOMAIN (g1 \o g2 \o g3 \o g4) :
         (g1 \o g2 \o g3 \o g4)[k].id \in 1..(counter + 4)
  BY <1>2, <1>4, FreshIds
<1> QED
  BY <1>1, <1>5

\* bdd_makenode takes a free node when there is one.
LEMMA FreeChoice ==
    ASSUME Free # {}
    PROVE  (CHOOSE n \in Free : \A m \in Free : n <= m) \in Free /\ Free \subseteq NodeIds
<1>1. Free \subseteq NodeIds /\ Free \in SUBSET Nat
  BY NodeIdFacts DEF Free
<1> QED
  BY <1>1, LeastNumber

\* The clauses of the operation cache have ids.
LEMMA CachedTypes ==
    ASSUME cache \in [Slots -> Entries]
    PROVE  CachedClauses \subseteq Nat
BY DEF CachedClauses, Entries

\* The empty cache has its type.
LEMMA EntryTypes == NoEntry \in Entries /\ [s \in Slots |-> NoEntry] \in [Slots -> Entries]
BY TautologyAssumption, NodeIdFacts DEF NoEntry, Entries

\* bdd_noderesize stays between the initial and the maximal size of the table.
LEMMA SizeTypes ==
    ASSUME nodesize \in InitNodes..MaxNodes, Grow
    PROVE  nodesize' \in InitNodes..MaxNodes
<1>0. /\ InitNodes \in Nat /\ MaxNodes \in Nat
      /\ \A size \in InitNodes..(MaxNodes - 1) : NewSize(size) \in (size + 1)..MaxNodes
  BY GrowthAssumption
<1>1. CASE Grows
  <2>1. nodesize \in InitNodes..(MaxNodes - 1)
    BY <1>0, <1>1 DEF Grows
  <2>2. nodesize' = NewSize(nodesize)
    BY <1>1 DEF Grow
  <2> QED
    BY <1>0, <2>1, <2>2
<1>2. CASE ~Grows
  BY <1>2 DEF Grow
<1> QED
  BY <1>1, <1>2

\* bdd_setvarnum, bdd_makenode and the collector keep the types.
LEMMA TypeMake ==
    ASSUME TypeOK, IdsInv, Running => TableInv /\ ControlInv /\ DestInv /\ RootsInv /\ StackInv,
           SetVar \/ VarMade \/ MakeFound \/ MakeFresh \/ MakeGbc \/ Grow
    PROVE  TypeOK'
<1>0. /\ NumVars \in Nat /\ MaxRef \in Nat \ {0} /\ NodeIds \subseteq Nat
      /\ 0 \in NodeIds /\ 1 \in NodeIds
  BY SizeAssumption, NodeIdFacts
<1>1. CASE SetVar
  <2>1. CASE job.id < 2 * NumVars
    <3>1. job.id \in Nat /\ pc' = "makenode" /\ UNCHANGED job
      BY <1>1, <2>1 DEF SetVar, ControlInv, Running
    <3>2. mk' = [level |-> 1 + (job.id \div 2), low |-> job.id % 2, high |-> 1 - (job.id % 2)]
      BY <1>1, <2>1 DEF SetVar
    <3>3. /\ 1 + (job.id \div 2) \in 0..NumVars
          /\ job.id % 2 \in {0, 1} /\ 1 - (job.id % 2) \in {0, 1}
      BY <1>0, <2>1, <3>1
    <3>4. mk' \in [level : 0..NumVars, low : NodeIds, high : NodeIds]
      BY <1>0, <3>2, <3>3
    <3> QED
      BY <1>1, <3>1, <3>4 DEF SetVar, TypeOK
  <2>2. CASE ~(job.id < 2 * NumVars)
    <3>1. pc' = "client" /\ job' = NoJob /\ UNCHANGED mk
      BY <1>1, <2>2 DEF SetVar
    <3>2. NoJob \in Jobs
      BY <1>0 DEF NoJob, Jobs, Holders
    <3> QED
      BY <1>1, <3>1, <3>2 DEF SetVar, TypeOK
  <2> QED
    BY <2>1, <2>2
<1>2. CASE VarMade
  <2>1. ret.root \in NodeIds
    BY DEF TypeOK, Pcbdd
  <2>2. [node[ret.root] EXCEPT !.ref = MaxRef] \in Nodes
    <3>1. node[ret.root] \in Nodes
      BY <2>1 DEF TypeOK
    <3> QED
      BY <1>0, <3>1 DEF Nodes
  <2>3. node' \in [NodeIds -> Nodes]
    BY <1>2, <2>1, <2>2 DEF VarMade, TypeOK
  <2>4. job.id + 1 \in Int /\ job' = [job EXCEPT !.id = job.id + 1]
    BY <1>2 DEF VarMade, TypeOK, Jobs
  <2>5. job' \in Jobs
    BY <2>4 DEF TypeOK, Jobs
  <2> QED
    BY <1>2, <2>3, <2>5 DEF VarMade, TypeOK
<1>3. CASE MakeFound
  <2>1. mk.low \in NodeIds /\ Matching \subseteq NodeIds
    BY NodeIdFacts DEF TypeOK, Matching
  <2>2. \A n \in NodeIds : [NoRet EXCEPT !.root = n] \in Pcbdd
    BY TautologyAssumption DEF NoRet, Pcbdd
  <2>3. ret' \in Pcbdd
    BY <1>3, <2>1, <2>2 DEF MakeFound
  <2> QED
    BY <1>3, <2>3 DEF MakeFound, TypeOK
<1>4. CASE MakeFresh
  <2> DEFINE n   == CHOOSE n \in Free : \A m \in Free : n <= m
             new == [level |-> mk.level, low |-> mk.low, high |-> mk.high,
                     xvar |-> varcounter + 1, dclause |-> counter + 1, ref |-> 0]
  <2>1. PICK add : Emit(add, {}) /\ \A k \in DOMAIN add : add[k].id \in 1..(counter + 4)
    BY <1>4, FreshLines DEF TypeOK
  <2>2. DOMAIN db' \subseteq 1..(counter + 4) /\ emptyId' \in Nat
    <3>1. counter \in Nat /\ counter + 4 \in Nat /\ counter <= counter + 4 /\ emptyId \in Nat
      BY DEF TypeOK
    <3> QED
      BY <2>1, <3>1, EmitIds DEF IdsInv
  <2>3. new \in Nodes
    BY <1>0, SMTT(40) DEF TypeOK, Nodes
  <2>4. node' = [node EXCEPT ![n] = new]
    BY <1>4 DEF MakeFresh
  <2>5. ret' = [NoRet EXCEPT !.root = n]
    BY <1>4 DEF MakeFresh
  <2>6. n \in NodeIds
    BY <1>4, FreeChoice DEF MakeFresh
  <2>7. ret' \in Pcbdd
    BY <2>5, <2>6, TautologyAssumption DEF NoRet, Pcbdd
  <2>8. node' \in [NodeIds -> Nodes]
    BY <2>3, <2>4, <2>6 DEF TypeOK
  <2>9. /\ counter' = counter + 4 /\ varcounter' = varcounter + 1 /\ pc' = "made"
        /\ UNCHANGED <<nodesize, resized, refstack, cache, deferred, handle, rc, job, mk, call, stack>>
    BY <1>4 DEF MakeFresh
  <2>10. counter' \in Nat /\ varcounter' \in Nat /\ DOMAIN db' \subseteq Nat
    BY <2>2, <2>9 DEF TypeOK
  <2> QED
    BY <2>2, <2>7, <2>8, <2>9, <2>10 DEF TypeOK
<1>5. CASE MakeGbc
  <2>1. CASE Ordered
    <3>1. Collect /\ pc' = "grow"
      BY <1>5, <2>1 DEF MakeGbc
    <3>2. DOMAIN db' \subseteq Nat /\ emptyId' \in Nat
      <4>1. \E del : Emit(<<>>, del)
        BY <3>1 DEF Collect
      <4>2. counter \in Nat /\ emptyId \in Nat /\ counter <= counter
        BY DEF TypeOK
      <4>3. DOMAIN db' \subseteq 1..counter /\ emptyId' \in Nat
        BY <4>1, <4>2, NothingIds DEF IdsInv
      <4> QED
        BY <4>2, <4>3
    <3>3. FreeNode \in Nodes
      BY <1>0 DEF FreeNode, Nodes
    <3>4. node' \in [NodeIds -> Nodes]
      BY <3>1, <3>3 DEF Collect, TypeOK
    <3>5. CachedClauses \subseteq Nat /\ deferred' \subseteq Nat
      BY <3>1, CachedTypes DEF Collect, TypeOK
    <3>6. cache' \in [Slots -> Entries]
      BY <3>1, EntryTypes DEF Collect
    <3> QED
      BY <1>5, <3>1, <3>2, <3>4, <3>5, <3>6 DEF MakeGbc, TypeOK
  <2>2. CASE ~Ordered
    BY <1>5, <2>2 DEF MakeGbc, TypeOK
  <2> QED
    BY <2>1, <2>2
<1>6. CASE Grow
  <2>1. nodesize' \in InitNodes..MaxNodes
    BY <1>6, SizeTypes DEF TypeOK
  <2>2. resized' \in BOOLEAN /\ pc' \in {"exit", "makenode"}
    BY <1>6 DEF Grow, AfterGrow, TypeOK
  <2> QED
    BY <1>6, <2>1, <2>2 DEF Grow, TypeOK
<1> QED
  BY <1>1, <1>2, <1>3, <1>4, <1>5, <1>6

-----------------------------------------------------------------------------

\* The frame on top of the C stack is a frame.
LEMMA TopFrame ==
    ASSUME TypeOK, stack # <<>>
    PROVE  Top \in Frames /\ Len(stack) \in Nat \ {0} /\ Len(stack) \in DOMAIN stack
BY EmptySeq, LenProperties, ElementOfSeq DEF TypeOK, Top

\* Nodes that are in the table have node ids.
LEMMA SafeTypes == Safe \subseteq NodeIds /\ Live \subseteq NodeIds
BY SafeLive, NodeIdFacts

\* An inner node is labelled with a variable.
LEMMA InnerLevel ==
    ASSUME TableInv, NEW n \in Live
    PROVE  /\ node[n].level \in 1..(NumVars + 1)
           /\ n >= 2 => node[n].level \in 1..NumVars
<1>0. NumVars \in Nat
  BY SizeAssumption
<1>1. CASE n \in Terminals
  <2>1. node[n] = Terminal(n)
    BY <1>1 DEF TableInv
  <2>2. node[n].level = NumVars + 1
    BY <2>1 DEF Terminal
  <2> QED
    BY <1>0, <1>1, <2>2 DEF Terminals
<1>2. CASE n \in Used
  BY <1>0, <1>2 DEF TableInv
<1> QED
  BY <1>1, <1>2 DEF Live

\* A call of an apply function that splits has two inner nodes as arguments.
LEMMA SplitArgs ==
    ASSUME NEW c \in Calls, Splits(c)
    PROVE  c.l >= 2 /\ c.r >= 2
<1>1. c.l \in Nat /\ c.r \in Nat /\ c.op \in {"and", "imp", "aij"}
  BY NodeIdFacts DEF Calls, Ops
<1> QED
  BY <1>1 DEF Splits, Sat, Refuted, Degenerate, AndLeaf

\* It splits on a variable.
LEMMA SplitLevelType ==
    ASSUME TableInv, NEW c \in Calls, Splits(c), {c.l, c.r, c.t} \subseteq Live
    PROVE  SplitLevel(node, c) \in 1..NumVars
<1> DEFINE args == {c.l, c.r} \cup IF c.op = "aij" THEN {c.t} ELSE {}
           lev  == {node[n].level : n \in args}
<1>0. NumVars \in Nat
  BY SizeAssumption
<1>1. args \subseteq Live /\ c.l \in args
  OBVIOUS
<1>2. node[c.l].level \in 1..NumVars /\ node[c.l].level \in lev
  BY <1>1, SplitArgs, InnerLevel
<1>3. lev \in SUBSET Nat /\ lev # {}
  BY <1>0, <1>1, InnerLevel
<1>4. PICK x \in lev : \A y \in lev : x <= y
  BY <1>3, LeastNumber
<1>5. \A n \in args : x <= node[n].level
  BY <1>4
<1>6. SplitLevel(node, c) = CHOOSE v \in lev : \A n \in args : v <= node[n].level
  BY DEF SplitLevel
<1> HIDE DEF args, lev
<1>7. PICK v \in lev : v = SplitLevel(node, c) /\ \A n \in args : v <= node[n].level
  BY <1>4, <1>5, <1>6
<1>8. v \in Nat /\ v <= node[c.l].level
  BY <1>1, <1>3, <1>7
<1>9. 1 <= v
  BY <1>0, <1>1, <1>7, InnerLevel DEF lev
<1> QED
  BY <1>0, <1>2, <1>7, <1>8, <1>9

\* A cofactor of a node that every collection keeps is kept too.
LEMMA CofactorSafe ==
    ASSUME TableInv, NEW n \in Safe, NEW lev, NEW b
    PROVE  Cofactor(node, n, lev, b) \in Safe
BY SafeChild DEF Cofactor

\* A cofactor of a node of the table is in the table.
LEMMA CofactorLive ==
    ASSUME TableInv, NEW n \in Live, NEW lev, NEW b
    PROVE  Cofactor(node, n, lev, b) \in Live
BY LiveChild DEF Cofactor

\* The call of a half of a frame whose arguments are safe.
LEMMA SubCallSafe ==
    ASSUME TableInv, NEW c, c.op \in Ops, {c.l, c.r, c.t} \subseteq Safe, NEW lev, NEW b
    PROVE  LET s == SubCall(node, c, lev, b)
           IN  s \in Calls /\ {s.l, s.r, s.t} \subseteq Safe /\ s.op = c.op
<1> DEFINE s == SubCall(node, c, lev, b)
<1>1. /\ s.op = c.op /\ s.l = Cofactor(node, c.l, lev, b) /\ s.r = Cofactor(node, c.r, lev, b)
      /\ s.t = IF c.op = "aij" THEN Cofactor(node, c.t, lev, b) ELSE c.t
      /\ s = [op |-> s.op, l |-> s.l, r |-> s.r, t |-> s.t]
  BY DEF SubCall
<1>2. s.l \in Safe /\ s.r \in Safe /\ s.t \in Safe
  BY <1>1, CofactorSafe
<1>3. s \in Calls
  BY <1>1, <1>2, SafeTypes DEF Calls
<1> QED
  BY <1>1, <1>2, <1>3

\* So are those of the implication test that apply_aij_rec falls back on.
LEMMA WeakerSafe ==
    ASSUME call \in Calls, {call.l, call.r, call.t} \subseteq Safe
    PROVE  /\ Weaker(call) \in Calls
           /\ {Weaker(call).l, Weaker(call).r, Weaker(call).t} \subseteq Safe
BY SafeLive, SafeTypes, NodeIdFacts DEF Weaker, Calls, Ops, Terminals

\* A new frame remembers its arguments and starts with its low half.
LEMMA FrameType ==
    ASSUME TableInv, call \in Calls, Splits(call), {call.l, call.r, call.t} \subseteq Safe
    PROVE  /\ Frame(call) \in Frames /\ Frame(call).op = call.op
           /\ {Frame(call).l, Frame(call).r, Frame(call).t} \subseteq Safe
           /\ Frame(call).half = "low"
<1>1. SplitLevel(node, call) \in 1..NumVars
  BY SplitLevelType, SafeLive
<1>2. NoRet \in Pcbdd
  BY TautologyAssumption, NodeIdFacts DEF NoRet, Pcbdd
<1> QED
  BY <1>1, <1>2 DEF Frame, Frames, Calls

\* The count of pending results is positive while a high half is computed.
LEMMA HighHalvesFinite ==
    ASSUME TypeOK
    PROVE  /\ IsFiniteSet(HighHalves) /\ Cardinality(HighHalves) \in Nat
           /\ HighHalves # {} => Cardinality(HighHalves) >= 1
<1>1. IsFiniteSet(1..Len(stack)) /\ DOMAIN stack = 1..Len(stack)
  <2>1. Len(stack) \in Nat /\ DOMAIN stack = 1..Len(stack)
    BY LenProperties DEF TypeOK
  <2>2. 1 \in Int /\ Len(stack) \in Int
    BY <2>1
  <2> QED
    BY <2>1, <2>2, FS_Interval
<1>2. IsFiniteSet(HighHalves)
  BY <1>1, FS_Subset DEF HighHalves
<1>3. Cardinality(HighHalves) \in Nat
  BY <1>2, FS_CardinalityType
<1>4. HighHalves # {} => Cardinality(HighHalves) # 0
  BY <1>2, FS_EmptySet
<1> QED
  BY <1>2, <1>3, <1>4

\* A frame that computes its high half has its low result on top of bddrefstack.
LEMMA PendingLow ==
    ASSUME TypeOK, StackInv, stack # <<>>, Top.half = "high"
    PROVE  Len(refstack) \in Nat \ {0} /\ refstack[Len(refstack)] \in NodeIds
                                       /\ refstack[Len(refstack)] \in RangeOf(refstack)
<1>1. Len(stack) \in HighHalves
  BY TopFrame DEF HighHalves, Top
<1>2. Cardinality(HighHalves) \in Nat /\ Cardinality(HighHalves) >= 1
  BY <1>1, HighHalvesFinite
<1>3. Len(refstack) \in Nat \ {0}
  BY <1>2 DEF StackInv
<1>4. refstack \in Seq(NodeIds) /\ DOMAIN refstack = 1..Len(refstack)
  BY LenProperties DEF TypeOK
<1> QED
  BY <1>3, <1>4, ElementOfSeq DEF RangeOf

\* APPLYHASH yields a slot of the cache.
LEMMA SlotType ==
    ASSUME NEW op \in Ops, NEW l \in NodeIds, NEW r \in NodeIds, NEW t \in NodeIds
    PROVE  Slot(op, l, r, t) \in Slots
BY SlotAssumption DEF Slot, OpCode, Ops

\* POPREF(2) takes the two last pending results.
LEMMA PoppedProps ==
    ASSUME TypeOK
    PROVE  /\ Popped \in Seq(NodeIds)
           /\ Len(refstack) >= 2 => Len(Popped) = Len(refstack) - 2
           /\ RangeOf(Popped) \subseteq RangeOf(refstack)
<1>1. refstack \in Seq(NodeIds) /\ Len(refstack) \in Nat /\ DOMAIN refstack = 1..Len(refstack)
      /\ \A i \in 1..Len(refstack) : refstack[i] \in NodeIds
  BY LenProperties, ElementOfSeq DEF TypeOK
<1>2. \A i \in 1..(Len(refstack) - 2) : refstack[i] \in NodeIds
  BY <1>1
<1> DEFINE len == Len(refstack)
<1>3. /\ Popped \in Seq(NodeIds)
      /\ Len(Popped) = IF 1 <= len - 2 THEN len - 2 - 1 + 1 ELSE 0
      /\ \A i \in 1..(len - 2 - 1 + 1) : Popped[i] = refstack[1 + i - 1]
  BY <1>1, <1>2, SubSeqProperties DEF Popped
<1>4. DOMAIN Popped = 1..Len(Popped)
  BY <1>3, LenProperties
<1>a. len \in Nat /\ DOMAIN refstack = 1..len
  BY <1>1
<1> HIDE DEF len
<1>b. Len(Popped) = IF 3 <= len THEN len - 2 ELSE 0
  BY <1>a, <1>3
<1>c. ASSUME NEW i \in DOMAIN Popped PROVE i \in 1..len /\ Popped[i] = refstack[i]
  <2>1. i \in Int /\ 1 <= i /\ i <= len - 2
    BY <1>a, <1>b, <1>4
  <2>2. i \in 1..(len - 2 - 1 + 1) /\ 1 + i - 1 = i
    BY <1>a, <2>1
  <2>3. Popped[i] = refstack[1 + i - 1]
    BY <1>3, <2>2
  <2> QED
    BY <1>a, <2>1, <2>2, <2>3
<1>5. RangeOf(Popped) \subseteq RangeOf(refstack)
  BY <1>a, <1>c DEF RangeOf
<1>6. len >= 2 => Len(Popped) = len - 2
  BY <1>a, <1>b
<1> QED
  BY <1>3, <1>5, <1>6 DEF len

\* A return takes the last frame away.
LEMMA ShorterStack ==
    ASSUME TypeOK, stack # <<>>
    PROVE  LET s == SubSeq(stack, 1, Len(stack) - 1)
           IN  /\ s \in Seq(Frames) /\ Len(s) = Len(stack) - 1
               /\ DOMAIN stack = 1..Len(stack) /\ DOMAIN s = 1..(Len(stack) - 1)
               /\ \A i \in 1..(Len(stack) - 1) : s[i] = stack[i]
<1>1. stack \in Seq(Frames) /\ Len(stack) \in Nat \ {0} /\ DOMAIN stack = 1..Len(stack)
      /\ \A i \in 1..Len(stack) : stack[i] \in Frames
  BY LenProperties, ElementOfSeq, TopFrame DEF TypeOK
<1>2. \A i \in 1..(Len(stack) - 1) : stack[i] \in Frames
  BY <1>1
<1> DEFINE len == Len(stack)
           s == SubSeq(stack, 1, len - 1)
<1>3. /\ s \in Seq(Frames)
      /\ Len(s) = IF 1 <= len - 1 THEN len - 1 - 1 + 1 ELSE 0
      /\ \A i \in 1..(len - 1 - 1 + 1) : s[i] = stack[1 + i - 1]
  BY <1>1, <1>2, SubSeqProperties
<1>4. DOMAIN s = 1..Len(s)
  BY <1>3, LenProperties
<1>a. len \in Nat \ {0} /\ DOMAIN stack = 1..len
  BY <1>1
<1> HIDE DEF s, len
<1>b. Len(s) = len - 1
  BY <1>a, <1>3
<1>c. ASSUME NEW i \in 1..(len - 1) PROVE s[i] = stack[i]
  <2>1. i \in 1..(len - 1 - 1 + 1) /\ 1 + i - 1 = i
    BY <1>a
  <2>2. s[i] = stack[1 + i - 1]
    BY <1>3, <2>1
  <2> QED
    BY <2>1, <2>2
<1>5. /\ s \in Seq(Frames) /\ Len(s) = len - 1 /\ DOMAIN s = 1..(len - 1)
      /\ \A i \in 1..(len - 1) : s[i] = stack[i]
  BY <1>b, <1>c, <1>3, <1>4
<1> QED
  BY <1>a, <1>5 DEF s, len

\* The apply functions keep the types.
LEMMA TypeApply ==
    ASSUME TypeOK, IdsInv, Running => TableInv /\ ControlInv /\ DestInv /\ RootsInv /\ StackInv,
           \/ EnterLeaf \/ EnterDegenerate \/ EnterRefuted \/ EnterMiss
           \/ ReturnLow \/ ReturnHigh \/ JustifyStep
    PROVE  TypeOK'
<1>0. /\ Running /\ pc \in ApplyPcs
      /\ TableInv /\ ControlInv /\ RootsInv /\ StackInv
      /\ call \in Calls /\ {call.l, call.r, call.t} \subseteq Safe
  <2>1. pc \in {"call", "ret", "made"}
    BY DEF EnterLeaf, EnterDegenerate, EnterRefuted, EnterMiss, ReturnLow, ReturnHigh, JustifyStep
  <2>2. Running /\ pc \in ApplyPcs
    BY <2>1 DEF Running, ApplyPcs, MakePcs
  <2> QED
    BY <2>2 DEF RootsInv, TypeOK
<1>t. TAUTOLOGY \in Nat /\ 0 \in NodeIds /\ 1 \in NodeIds
  BY TautologyAssumption, NodeIdFacts
<1>1. CASE EnterLeaf
  <2>1. [root |-> 1, cid |-> TAUTOLOGY] \in Pcbdd
    BY <1>t DEF Pcbdd
  <2>2. [root |-> AndRoot(call), cid |-> TAUTOLOGY] \in Pcbdd
    BY <1>0, <1>t DEF AndRoot, Pcbdd, Calls
  <2>3. ASSUME Splits(call), Hits PROVE [root |-> Entry.root, cid |-> Entry.cid] \in Pcbdd
    <3>0. call.op \in Ops /\ call.l \in NodeIds /\ call.r \in NodeIds /\ call.t \in NodeIds
      BY <1>0 DEF Calls
    <3>1. Slot(call.op, call.l, call.r, call.t) \in Slots
      BY <3>0, SlotType
    <3>2. Entry \in Entries
      BY <3>1 DEF Entry, TypeOK
    <3> QED
      BY <3>2 DEF Entries, Pcbdd
  <2>4. ret' \in Pcbdd
    BY <1>1, <2>1, <2>2, <2>3 DEF EnterLeaf
  <2> QED
    BY <1>1, <2>4 DEF EnterLeaf, TypeOK
<1>2. CASE EnterDegenerate
  BY <1>0, <1>2, WeakerSafe DEF EnterDegenerate, TypeOK
<1>3. CASE EnterRefuted
  BY <1>3 DEF EnterRefuted, TypeOK
<1>4. CASE EnterMiss
  <2>1. Frame(call) \in Frames /\ Frame(call).op = call.op
        /\ {Frame(call).l, Frame(call).r, Frame(call).t} \subseteq Safe
    BY <1>0, <1>4, FrameType DEF EnterMiss
  <2>2. stack' \in Seq(Frames)
    BY <1>4, <2>1, AppendProperties DEF EnterMiss, TypeOK
  <2>3. call' \in Calls
    BY <1>0, <1>4, <2>1, SubCallSafe DEF EnterMiss, CallCofactor, Calls
  <2> QED
    BY <1>4, <2>2, <2>3 DEF EnterMiss, TypeOK
<1>5. CASE ReturnLow
  <2>1. Top \in Frames /\ Len(stack) \in DOMAIN stack /\ stack[Len(stack)] = Top
    BY <1>5, TopFrame DEF ReturnLow, Top
  <2>2. {Top.l, Top.r, Top.t} \subseteq Safe /\ Top.op \in Ops
    BY <1>0, <2>1 DEF RootsInv, Top, Frames
  <2>3. call' \in Calls
    BY <1>0, <1>5, <2>2, SubCallSafe DEF ReturnLow, CallCofactor
  <2>4. refstack' \in Seq(NodeIds)
    BY <1>5, AppendProperties DEF ReturnLow, TypeOK, Pcbdd
  <2>5. stack' \in Seq(Frames)
    <3>1. stack' = [stack EXCEPT ![Len(stack)] = [Top EXCEPT !.half = "high", !.low = ret]]
      BY <1>5 DEF ReturnLow, Top
    <3>2. [Top EXCEPT !.half = "high", !.low = ret] \in Frames
      BY <2>1 DEF Frames, TypeOK
    <3>3. Len(stack) \in 1..Len(stack)
      BY <2>1, LenProperties DEF TypeOK
    <3> QED
      BY <3>1, <3>2, <3>3, ExceptSeq DEF TypeOK
  <2> QED
    BY <1>5, <2>3, <2>4, <2>5 DEF ReturnLow, TypeOK
<1>6. CASE ReturnHigh
  <2>1. Top \in Frames /\ Len(stack) \in DOMAIN stack /\ Top.half = "high" /\ stack # <<>>
    BY <1>6, TopFrame DEF ReturnHigh
  <2>2. refstack' \in Seq(NodeIds)
    BY <1>6, AppendProperties DEF ReturnHigh, TypeOK, Pcbdd
  <2>3. stack' \in Seq(Frames)
    <3>1. stack' = [stack EXCEPT ![Len(stack)] = [Top EXCEPT !.high = ret]]
      BY <1>6 DEF ReturnHigh, Top
    <3>2. [Top EXCEPT !.high = ret] \in Frames
      BY <2>1 DEF Frames, TypeOK
    <3>3. Len(stack) \in 1..Len(stack)
      BY <2>1, LenProperties DEF TypeOK
    <3> QED
      BY <3>1, <3>2, <3>3, ExceptSeq DEF TypeOK
  <2>4. refstack[Len(refstack)] \in NodeIds
    BY <1>0, <2>1, PendingLow
  <2>5. CASE Top.op = "and"
    <3>0. mk' = [level |-> Top.level, low |-> refstack[Len(refstack)], high |-> ret.root]
          /\ pc' = "makenode" /\ UNCHANGED ret
      BY <1>6, <2>5 DEF ReturnHigh
    <3>a. Top.level \in 1..NumVars /\ NumVars \in Nat
      BY <2>1, SizeAssumption DEF Frames
    <3>b. Top.level \in 0..NumVars
      BY <3>a
    <3>c. ret.root \in NodeIds
      BY DEF TypeOK, Pcbdd
    <3>1. mk' \in [level : 0..NumVars, low : NodeIds, high : NodeIds]
      BY <2>4, <3>0, <3>b, <3>c
    <3> QED
      BY <1>6, <2>2, <2>3, <3>0, <3>1 DEF ReturnHigh, TypeOK
  <2>6. CASE Top.op # "and"
    <3>1. ret' \in Pcbdd
      BY <1>t, <1>6, <2>6 DEF ReturnHigh, Pcbdd
    <3> QED
      BY <1>6, <2>2, <2>3, <2>6, <3>1 DEF ReturnHigh, TypeOK
  <2> QED
    BY <2>5, <2>6
<1>7. CASE JustifyStep
  <2>1. Top \in Frames /\ Len(stack) \in Nat \ {0}
    BY <1>7, TopFrame DEF JustifyStep
  <2> DEFINE s == Slot(Top.op, Top.l, Top.r, Top.t)
             j == Justify(node, IF Top.op = "imp" THEN "imp" ELSE "and", Top.l, Top.r, Top.level,
                          Top.low, Top.high, IF Top.op = "aij" THEN Top.t ELSE ret.root, counter)
             e == [a |-> Top.l, b |-> Top.r, c |-> IF Top.op = "aij" THEN Top.t ELSE -1,
                   op |-> Top.op, root |-> ret.root, cid |-> j.jid]
  <2>2. CASE ~j.ok
    <3>1. pc' = "exit" /\ UNCHANGED <<refstack, cache, deferred, ret, stack>> /\ Quiet
      BY <1>7, <2>2, Zenon DEF JustifyStep
    <3> QED
      BY <1>7, <3>1 DEF JustifyStep, TypeOK
  <2>3. CASE j.ok
    <3>1. /\ Emit(j.add, j.del)
          /\ counter' = counter + Len(j.add)
          /\ deferred' = deferred \cup Evicted(s)
          /\ cache' = [cache EXCEPT ![s] = e]
          /\ refstack' = Popped
          /\ stack' = SubSeq(stack, 1, Len(stack) - 1)
          /\ ret' = [ret EXCEPT !.cid = j.jid]
          /\ pc' = "ret"
      BY <1>7, <2>3, Zenon DEF JustifyStep
    <3>2. /\ j.jid \in Nat /\ j.del \subseteq Nat /\ Len(j.add) \in Nat
          /\ \A k \in DOMAIN j.add : j.add[k].id \in (counter + 1)..(counter + Len(j.add))
      BY JustifyIds DEF TypeOK
    <3> HIDE DEF j
    <3>3. s \in Slots
      BY <2>1, SlotType DEF Frames
    <3>4. counter' \in Nat /\ DOMAIN db' \subseteq Nat /\ emptyId' \in Nat
      <4>1. counter \in Nat /\ counter + Len(j.add) \in Nat /\ counter <= counter + Len(j.add)
            /\ emptyId \in Nat
        BY <3>2 DEF TypeOK
      <4>2. \A k \in DOMAIN j.add : j.add[k].id \in 1..(counter + Len(j.add))
        BY <3>2, <4>1
      <4>3. DOMAIN db' \subseteq 1..(counter + Len(j.add)) /\ emptyId' \in Nat
        BY <3>1, <4>1, <4>2, EmitIds DEF IdsInv
      <4> QED
        BY <3>1, <4>1, <4>3
    <3>5. deferred' \subseteq Nat
      BY <3>1, <3>3 DEF Evicted, TypeOK, Entries
    <3>6. e \in Entries
      BY <2>1, <3>2 DEF Entries, Frames, TypeOK, Pcbdd
    <3>7. cache' \in [Slots -> Entries]
      BY <3>1, <3>3, <3>6 DEF TypeOK
    <3>8. refstack' \in Seq(NodeIds)
      BY <3>1, PoppedProps
    <3>9. stack' \in Seq(Frames)
      BY <2>1, <3>1, ShorterStack
    <3>10. ret' \in Pcbdd
      BY <3>1, <3>2 DEF TypeOK, Pcbdd
    <3>11. UNCHANGED <<node, nodesize, resized, varcounter, handle, rc, job, mk, call>>
      BY <1>7 DEF JustifyStep
    <3> QED
      BY <3>1, <3>4, <3>5, <3>7, <3>8, <3>9, <3>10, <3>11 DEF TypeOK
  <2> QED
    BY <2>2, <2>3
<1> QED
  BY <1>1, <1>2, <1>3, <1>4, <1>5, <1>6, <1>7

-----------------------------------------------------------------------------

\* The variables of a clause are variables.
LEMMA VarsOf ==
    ASSUME NEW lits \in SUBSET Literals
    PROVE  {VarOf(x) : x \in lits} \subseteq 1..NumVars
<1>1. NumVars \in Nat
  BY SizeAssumption
<1> QED
  BY <1>1 DEF Literals, VarOf

\* The clauses of the input are numbered from one and have literals as elements.
LEMMA InputTypes ==
    /\ \A id \in DOMAIN InputClauses : InputClauses[id] \in SUBSET Literals /\ id \in Nat
    /\ ClientClauses \subseteq SUBSET Literals /\ Len(InputClauses) \in Nat
    /\ DOMAIN InputClauses = 1..Len(InputClauses)
BY InputAssumption, LenProperties, ElementOfSeq

\* A defining clause has an id.
LEMMA DclauseType ==
    ASSUME node \in [NodeIds -> Nodes], NEW n \in NodeIds, NEW d \in {"HU", "LU", "HD", "LD"}
    PROVE  Dclause(node, n, d) \in Nat
<1>1. \E k \in 0..3 : DefTypes[k + 1] = d
  BY DEF DefTypes
<1>2. DefOffset(d) \in 0..3
  BY <1>1 DEF DefOffset
<1>3. node[n].dclause \in Nat
  BY DEF Nodes
<1> QED
  BY <1>2, <1>3, TautologyAssumption DEF Dclause

\* A trusted BDD that the client owns has a root and a unit clause.
LEMMA OwnedFacts ==
    ASSUME TypeOK, DestInv, NEW h \in Owned
    PROVE  /\ h \in Handles /\ h \in Holders /\ handle[h].root \in NodeIds /\ handle[h].cid \in Nat
           /\ handle[h] \in Tbdds
<1>1. h \in Held /\ h \in Handles
  BY DEF Owned, Held, Holders
<1>2. handle[h] \in Tbdds /\ handle[h].root # -1 /\ h \in Holders
  BY <1>1 DEF Held, TypeOK
<1> QED
  BY <1>1, <1>2 DEF Tbdds

\* A BDD that the client can name is in the table.
LEMMA NameableLive ==
    ASSUME TypeOK, RootsInv
    PROVE  Nameable \subseteq Live /\ Nameable \subseteq NodeIds
BY NodeIdFacts DEF Nameable, RootsInv, Live, Terminals

\* The call of an apply function from its top-level operation keeps the types.
LEMMA StartTypes ==
    ASSUME TypeOK, NEW kind \in {"and", "validate", "validateand", "check"}, NEW dest \in Holders,
           NEW args \in Seq(Handles), NEW op \in Ops, NEW r \in NodeIds,
           handle[args[1]].root \in NodeIds,
           op # "imp" => handle[args[2]].root \in NodeIds,
           StartApply(kind, dest, args, op, r)
    PROVE  job' \in Jobs /\ refstack' \in Seq(NodeIds) /\ call' \in Calls /\ pc' = "call"
<1>1. job' \in Jobs
  BY DEF StartApply, TypeOK, Jobs
<1>2. call' \in Calls
  BY NodeIdFacts DEF StartApply, Calls
<1> QED
  BY <1>1, <1>2 DEF StartApply

\* rc_new_entry adds a count of one.
LEMMA NewRcType ==
    ASSUME TypeOK, NEW cid \in Nat
    PROVE  /\ DOMAIN NewRc(cid) = DOMAIN rc \cup ({cid} \ {TAUTOLOGY})
           /\ DOMAIN NewRc(cid) \subseteq Nat
           /\ NewRc(cid) \in [DOMAIN NewRc(cid) -> Nat \ {0}]
           /\ \A c \in DOMAIN NewRc(cid) : NewRc(cid)[c] = IF c = cid THEN 1 ELSE rc[c]
<1>1. DOMAIN rc \subseteq Nat /\ \A c \in DOMAIN rc : rc[c] \in Nat \ {0}
  BY DEF TypeOK
<1> QED
  BY <1>1 DEF NewRc

\* rc_decrement takes one from a count, and disposes of a count that was one.
LEMMA RcAfterType ==
    ASSUME TypeOK, NEW cid, cid \in DOMAIN rc \/ (cid = TAUTOLOGY /\ TAUTOLOGY \notin DOMAIN rc)
    PROVE  /\ DOMAIN RcAfter(cid) = IF cid \in DOMAIN rc /\ rc[cid] = 1 THEN DOMAIN rc \ {cid}
                                    ELSE DOMAIN rc
           /\ RcAfter(cid) \in [DOMAIN RcAfter(cid) -> Nat \ {0}]
           /\ \A c \in DOMAIN RcAfter(cid) :
                 RcAfter(cid)[c] = IF c = cid THEN rc[c] - 1 ELSE rc[c]
<1>1. DOMAIN rc \subseteq Nat /\ \A c \in DOMAIN rc : rc[c] \in Nat \ {0}
      /\ rc \in [DOMAIN rc -> Nat \ {0}]
  BY DEF TypeOK
<1>2. CASE cid \notin DOMAIN rc
  <2> DEFINE f == [c \in DOMAIN rc \ {cid} |-> rc[c]]
             g == [rc EXCEPT ![cid] = @ - 1]
  <2>1. DOMAIN rc \ {cid} = DOMAIN rc
    BY <1>2
  <2>2. /\ DOMAIN f = DOMAIN rc /\ \A c \in DOMAIN rc : f[c] = rc[c]
        /\ f \in [DOMAIN rc -> Nat \ {0}]
    BY <1>1, <2>1
  <2>3. DOMAIN g = DOMAIN rc /\ \A c \in DOMAIN rc : g[c] = rc[c]
    BY <1>1, <1>2
  <2>4. g \in [DOMAIN rc -> Nat \ {0}]
    BY <1>1, <1>2
  <2>5. RcAfter(cid) = f \/ RcAfter(cid) = g
    BY DEF RcAfter
  <2> HIDE DEF f, g
  <2>6. /\ DOMAIN RcAfter(cid) = DOMAIN rc /\ \A c \in DOMAIN rc : RcAfter(cid)[c] = rc[c]
        /\ RcAfter(cid) \in [DOMAIN rc -> Nat \ {0}]
    BY <2>2, <2>3, <2>4, <2>5
  <2> HIDE DEF RcAfter
  <2> QED
    BY <1>2, <2>6
<1>3. CASE cid \in DOMAIN rc /\ rc[cid] = 1
  <2>1. RcAfter(cid) = [c \in DOMAIN rc \ {cid} |-> rc[c]]
    BY <1>3 DEF RcAfter
  <2> QED
    BY <1>1, <1>3, <2>1
<1>4. CASE cid \in DOMAIN rc /\ rc[cid] # 1
  <2>1. RcAfter(cid) = [rc EXCEPT ![cid] = rc[cid] - 1]
    BY <1>4 DEF RcAfter
  <2>2. rc[cid] - 1 \in Nat \ {0}
    BY <1>1, <1>4
  <2> QED
    BY <1>1, <1>4, <2>1, <2>2
<1> QED
  BY <1>2, <1>3, <1>4

\* tbdd_addref keeps the types, and adds one to the count of the unit clause.
LEMMA DuplicateType ==
    ASSUME TypeOK, RcInv, DestInv, NEW dest \in Handles, NEW h \in Owned, Duplicate(dest, handle[h])
    PROVE  /\ node' \in [NodeIds -> Nodes] /\ handle' \in [Holders -> Tbdds]
           /\ DOMAIN rc' = DOMAIN rc
           /\ \A c \in DOMAIN rc' : rc'[c] = IF c = handle[h].cid THEN rc[c] + 1 ELSE rc[c]
           /\ rc' \in [DOMAIN rc' -> Nat \ {0}]
<1>1. handle[h].root \in NodeIds /\ handle[h] \in Tbdds /\ h \in Holders
  BY OwnedFacts
<1>2. node' \in [NodeIds -> Nodes]
  BY <1>1, IncRefProps DEF Duplicate, TypeOK
<1>3. handle' \in [Holders -> Tbdds]
  BY <1>1 DEF Duplicate, TypeOK
<1>4. rc \in [DOMAIN rc -> Nat \ {0}] /\ handle[h].cid \in DOMAIN rc \cup {TAUTOLOGY}
      /\ TAUTOLOGY \notin DOMAIN rc
  BY <1>1 DEF TypeOK, RcInv
<1>5. CASE handle[h].cid = TAUTOLOGY
  BY <1>2, <1>3, <1>4, <1>5 DEF Duplicate
<1>6. CASE handle[h].cid # TAUTOLOGY
  <2>1. rc' = [rc EXCEPT ![handle[h].cid] = rc[handle[h].cid] + 1]
    BY <1>6 DEF Duplicate
  <2>2. handle[h].cid \in DOMAIN rc /\ rc[handle[h].cid] + 1 \in Nat \ {0}
    BY <1>4, <1>6
  <2> QED
    BY <1>2, <1>3, <1>4, <2>1, <2>2
<1> QED
  BY <1>5, <1>6

\* The locals of an operation have their types when it returns.
LEMMA LocalTypes ==
    NoJob \in Jobs /\ NoMk \in [level : 0..NumVars, low : NodeIds, high : NodeIds]
    /\ NoCall \in Calls /\ NoRet \in Pcbdd /\ NoTbdd \in Tbdds
<1>1. NumVars \in Nat /\ 0 \in 0..NumVars /\ 0 \in NodeIds /\ TAUTOLOGY \in Nat
  BY SizeAssumption, NodeIdFacts, TautologyAssumption
<1>2. NoJob \in Jobs
  BY <1>1 DEF NoJob, Jobs, Holders
<1>3. NoMk \in [level : 0..NumVars, low : NodeIds, high : NodeIds]
  BY <1>1 DEF NoMk
<1>4. NoCall \in Calls
  BY <1>1 DEF NoCall, Calls, Ops
<1> QED
  BY <1>1, <1>2, <1>3, <1>4 DEF NoRet, NoTbdd, Pcbdd, Tbdds

\* A line that is generated first has the next id.
LEMMA FirstLine ==
    ASSUME counter \in Nat, NEW lits, NEW hints, NEW kind
    PROVE  \A k \in DOMAIN Gen(lits, hints, kind, 1) :
              Gen(lits, hints, kind, 1)[k].id \in 1..(counter + 1)
BY GenLine

\* One generated clause keeps the ids in the file below the counter.
LEMMA OneLine ==
    ASSUME TypeOK, IdsInv, NEW lits, NEW hints, NEW kind, NEW del,
           Emit(Gen(lits, hints, kind, 1), del), counter' = counter + 1
    PROVE  counter' \in Nat /\ DOMAIN db' \subseteq 1..counter' /\ emptyId' \in Nat
           /\ DOMAIN db' \subseteq Nat
<1>1. counter \in Nat /\ counter + 1 \in Nat /\ counter <= counter + 1 /\ emptyId \in Nat
  BY DEF TypeOK
<1>2. DOMAIN db' \subseteq 1..(counter + 1) /\ emptyId' \in Nat
  BY <1>1, FirstLine, EmitIds DEF IdsInv
<1> QED
  BY <1>1, <1>2

\* So do deletions alone.
LEMMA NoLine ==
    ASSUME TypeOK, IdsInv, NEW del, Emit(<<>>, del), counter' = counter
    PROVE  counter' \in Nat /\ DOMAIN db' \subseteq 1..counter' /\ emptyId' \in Nat
           /\ DOMAIN db' \subseteq Nat
<1>1. counter \in Nat /\ counter <= counter /\ emptyId \in Nat
  BY DEF TypeOK
<1>2. DOMAIN db' \subseteq 1..counter /\ emptyId' \in Nat
  BY <1>1, NothingIds DEF IdsInv
<1> QED
  BY <1>1, <1>2

-----------------------------------------------------------------------------

\* What the actions of the top-level operations start from.
TopPre == /\ TypeOK /\ IdsInv /\ RcInv
          /\ Running => TableInv /\ ControlInv /\ DestInv /\ RootsInv /\ StackInv

\* What the end of tbdd_and, tbdd_validate and tbdd_validate_with_and assigns.
LEMMA FinishFacts ==
    ASSUME TopPre, FinishApply
    PROVE  LET r == IF job.kind = "and" THEN ret.root ELSE job.r
               cid == GenId({node[r].xvar}, 1)
           IN  /\ Running /\ r \in NodeIds /\ r \in Live /\ cid \in Nat
               /\ cid # TAUTOLOGY => cid = counter + 1
               /\ \E hints, del : Emit(Gen({node[r].xvar}, hints, "unit", 1), del)
               /\ rc' = NewRc(cid)
               /\ handle' = [handle EXCEPT ![job.dest] = [root |-> r, cid |-> cid]]
               /\ job.dest \in Holders
               /\ job.kind = "check" =>
                     /\ node' = DecRef(IncRef(node, r), r) /\ pc' = "walk"
                     /\ job' = [job EXCEPT !.at = r, !.ants = <<cid>>,
                                           !.todo = {VarOf(x) : x \in job.lits}]
                     /\ UNCHANGED <<mk, call, ret>>
               /\ job.kind # "check" => node' = IncRef(node, r) /\ Return
<1> DEFINE r == IF job.kind = "and" THEN ret.root ELSE job.r
           cid == GenId({node[r].xvar}, 1)
<1>1. pc = "ret" /\ Running /\ TypeOK /\ RootsInv
  BY DEF FinishApply, Running, TopPre
<1>2. r \in NodeIds /\ r \in Live
  BY <1>1 DEF TypeOK, Pcbdd, Jobs, RootsInv
<1>3. cid \in Nat /\ (cid # TAUTOLOGY => cid = counter + 1)
  BY <1>1, GenIdType DEF TypeOK
<1>4. job.dest \in Holders
  BY <1>1 DEF TypeOK, Jobs
<1>5. \E hints, del : Emit(Gen({node[r].xvar}, hints, "unit", 1), del)
  BY DEF FinishApply
<1>6. /\ rc' = NewRc(cid)
      /\ handle' = [handle EXCEPT ![job.dest] = [root |-> r, cid |-> cid]]
      /\ job.kind = "check" =>
            /\ node' = DecRef(IncRef(node, r), r) /\ pc' = "walk"
            /\ job' = [job EXCEPT !.at = r, !.ants = <<cid>>,
                                  !.todo = {VarOf(x) : x \in job.lits}]
            /\ UNCHANGED <<mk, call, ret>>
      /\ job.kind # "check" => node' = IncRef(node, r) /\ Return
  BY DEF FinishApply
<1> QED
  BY <1>1, <1>2, <1>3, <1>4, <1>5, <1>6

\* The end of the apply operations keeps the types.
LEMMA TypeFinish ==
    ASSUME TopPre, FinishApply
    PROVE  TypeOK'
<1> DEFINE r == IF job.kind = "and" THEN ret.root ELSE job.r
           cid == GenId({node[r].xvar}, 1)
<1>1. /\ Running /\ r \in NodeIds /\ cid \in Nat /\ job.dest \in Holders /\ TypeOK /\ IdsInv
      /\ rc' = NewRc(cid)
      /\ handle' = [handle EXCEPT ![job.dest] = [root |-> r, cid |-> cid]]
      /\ job.kind = "check" =>
            /\ node' = DecRef(IncRef(node, r), r) /\ pc' = "walk"
            /\ job' = [job EXCEPT !.at = r, !.ants = <<cid>>,
                                  !.todo = {VarOf(x) : x \in job.lits}]
            /\ UNCHANGED <<mk, call, ret>>
      /\ job.kind # "check" => node' = IncRef(node, r) /\ Return
  BY FinishFacts DEF TopPre
<1>2. PICK hints, del : Emit(Gen({node[r].xvar}, hints, "unit", 1), del)
  BY FinishFacts
<1>3. /\ counter' = counter + 1 /\ deferred' = {} /\ resized' = FALSE
      /\ UNCHANGED <<nodesize, refstack, varcounter, stack>>
      /\ cache' = IF resized THEN [s \in Slots |-> NoEntry] ELSE cache
  BY DEF FinishApply
<1> HIDE DEF r, cid
<1>4. counter' \in Nat /\ DOMAIN db' \subseteq Nat /\ emptyId' \in Nat
  BY <1>1, <1>2, <1>3, OneLine
<1>5. DOMAIN rc' \subseteq Nat /\ rc' \in [DOMAIN rc' -> Nat \ {0}]
  BY <1>1, NewRcType
<1>6. handle' \in [Holders -> Tbdds]
  BY <1>1 DEF TypeOK, Tbdds
<1>7. cache' \in [Slots -> Entries]
  BY <1>1, <1>3, EntryTypes DEF TypeOK
<1>8. IncRef(node, r) \in [NodeIds -> Nodes] /\ DecRef(IncRef(node, r), r) \in [NodeIds -> Nodes]
  <2>1. IncRef(node, r) \in [NodeIds -> Nodes]
    BY <1>1, IncRefProps DEF TypeOK
  <2> HIDE DEF IncRef
  <2> QED
    BY <1>1, <2>1, DecRefProps
<1>9. node' \in [NodeIds -> Nodes]
  BY <1>1, <1>8
<1>10. CASE job.kind = "check"
  <2>1. {VarOf(x) : x \in job.lits} \subseteq 1..NumVars /\ <<cid>> \in Seq(Nat)
    <3>1. job.lits \in SUBSET Literals
      BY <1>1 DEF TypeOK, Jobs
    <3>2. <<cid>> \in Seq(Nat)
      BY <1>1
    <3> QED
      BY <3>1, <3>2, VarsOf
  <2> DEFINE todo == {VarOf(x) : x \in job.lits}
  <2>2. job' = [job EXCEPT !.at = r, !.ants = <<cid>>, !.todo = todo]
    BY <1>1, <1>10
  <2> HIDE DEF todo
  <2>3. todo \in SUBSET (1..NumVars)
    BY <2>1 DEF todo
  <2>4. job' \in Jobs
    BY <1>1, <2>1, <2>2, <2>3 DEF TypeOK, Jobs
  <2> QED
    BY <1>1, <1>3, <1>4, <1>5, <1>6, <1>7, <1>9, <1>10, <2>4 DEF TypeOK
<1>11. CASE job.kind # "check"
  <2>1. pc' = "client" /\ job' = NoJob /\ mk' = NoMk /\ call' = NoCall /\ ret' = NoRet
    BY <1>1, <1>11 DEF Return
  <2> QED
    BY <1>1, <1>3, <1>4, <1>5, <1>6, <1>7, <1>9, <2>1, LocalTypes DEF TypeOK
<1> QED
  BY <1>10, <1>11

\* BDD_build_clause keeps the types.
LEMMA TypeBuild ==
    ASSUME TopPre, BuildLiteral \/ LiteralMade \/ ClauseBuilt \/ CheckBuilt
    PROVE  TypeOK'
<1>0. /\ TypeOK /\ NumVars \in Nat /\ job.r \in NodeIds /\ 1 \in NodeIds
      /\ job.todo \in SUBSET (1..NumVars) /\ job.lits \in SUBSET Literals
      /\ Running /\ RootsInv /\ ControlInv /\ job.args \in Seq(Handles)
  <2>1. Running
    BY DEF BuildLiteral, LiteralMade, ClauseBuilt, CheckBuilt, Running
  <2> QED
    BY <2>1, SizeAssumption, NodeIdFacts DEF TopPre, TypeOK, Jobs
<1>1. IncRef(node, job.r) \in [NodeIds -> Nodes] /\ DecRef(node, job.r) \in [NodeIds -> Nodes]
  BY <1>0, IncRefProps, DecRefProps DEF TypeOK
<1>2. CASE BuildLiteral
  <2>1. MaxOf(job.todo) \in 1..NumVars
    BY <1>0, <1>2, MaxOfProps DEF BuildLiteral
  <2>2. MaxOf(job.todo) \in 0..NumVars
    BY <1>0, <2>1
  <2>3. mk' \in [level : 0..NumVars, low : NodeIds, high : NodeIds]
    BY <1>0, <1>2, <2>2 DEF BuildLiteral, LiteralNode
  <2> QED
    BY <1>0, <1>1, <1>2, <2>3 DEF BuildLiteral, TypeOK
<1>3. CASE LiteralMade
  <2>1. job' \in Jobs
    <3>1. job' = [job EXCEPT !.r = ret.root, !.todo = job.todo \ {MaxOf(job.todo)}]
      BY <1>3 DEF LiteralMade
    <3>2. ret.root \in NodeIds
      BY <1>0 DEF TypeOK, Pcbdd
    <3>3. job.todo \ {MaxOf(job.todo)} \in SUBSET (1..NumVars)
      BY <1>0
    <3> QED
      BY <1>0, <3>1, <3>2, <3>3 DEF TypeOK, Jobs
  <2> QED
    BY <1>0, <1>1, <1>3, <2>1 DEF LiteralMade, TypeOK
<1>4. CASE ClauseBuilt
  <2>1. job' \in Jobs
    <3> DEFINE todo == {VarOf(x) : x \in job.lits}
    <3>1. job' = [job EXCEPT !.at = job.r, !.todo = todo]
      BY <1>4 DEF ClauseBuilt
    <3>2. todo \in SUBSET (1..NumVars)
      BY <1>0, VarsOf
    <3> HIDE DEF todo
    <3> QED
      BY <1>0, <3>1, <3>2 DEF TypeOK, Jobs
  <2> QED
    BY <1>0, <1>4, <2>1 DEF ClauseBuilt, TypeOK
<1>5. CASE CheckBuilt
  <2>1. StartApply("check", Tmp, job.args, "imp", job.r) /\ Tmp \in Holders
    BY <1>5 DEF CheckBuilt, Holders
  <2>2. handle[job.args[1]].root \in NodeIds
    <3>1. job.kind = "check" /\ DestInv
      BY <1>0, <1>5 DEF CheckBuilt, TopPre
    <3>2. job.args[1] \in Handles
      BY <1>0, <3>1, LenProperties, ElementOfSeq DEF DestInv
    <3>3. handle[job.args[1]] \in Tbdds
      BY <1>0, <3>2 DEF TypeOK, Holders
    <3> QED
      BY <3>1, <3>3 DEF DestInv, Tbdds
  <2>3. job' \in Jobs /\ refstack' \in Seq(NodeIds) /\ call' \in Calls /\ pc' = "call"
    BY <1>0, <2>1, <2>2, StartTypes DEF Ops
  <2> QED
    BY <1>0, <1>1, <1>5, <2>3 DEF CheckBuilt, TypeOK
<1> QED
  BY <1>2, <1>3, <1>4, <1>5

\* A step down the falsifying path goes from a node of the table to a node of the table.
LEMMA WalkFacts ==
    ASSUME TopPre, Walk
    PROVE  \E todo \in SUBSET (1..NumVars), at \in Live, ants \in Seq(Nat), id \in {job.id, -1} :
              /\ job' = [job EXCEPT !.todo = todo, !.at = at, !.ants = ants, !.id = id]
              /\ job.kind = "clause" => id = job.id
<1> DEFINE v    == LeastOf(job.todo)
           n    == job.at
           pos  == v \in job.lits
           Id(dtype) == Dclause(node, n, dtype)
           ups  == IF pos THEN <<Id("HU"), Id("LU")>> ELSE <<Id("LU"), Id("HU")>>
           down == <<Id(IF pos THEN "LD" ELSE "HD")>>
           next == IF pos THEN node[n].low ELSE node[n].high
           todo == job.todo \ {v}
<1>1. /\ TypeOK /\ TableInv /\ n \in Live /\ n \in NodeIds /\ job \in Jobs
      /\ job.todo \in SUBSET (1..NumVars) /\ job.ants \in Seq(Nat) /\ job.id \in Int
  <2>1. Running
    BY DEF Walk, Running
  <2> QED
    BY <2>1 DEF TopPre, RootsInv, TypeOK, Jobs
<1>2. next \in Live
  BY <1>1, LiveChild
<1>3. \A d \in {"HU", "LU", "HD", "LD"} : Id(d) \in Nat
  BY <1>1, DclauseType DEF TypeOK
<1>4. ups \in Seq(Nat) /\ down \in Seq(Nat)
  BY <1>3
<1>5. job' = IF job.kind = "clause"
             THEN [job EXCEPT !.todo = todo, !.at = next, !.ants = job.ants \o ups]
             ELSE IF node[n].level > v THEN [job EXCEPT !.todo = todo]
             ELSE IF node[n].level < v THEN [job EXCEPT !.todo = {}, !.id = -1]
             ELSE [job EXCEPT !.todo = todo, !.at = next, !.ants = job.ants \o down]
  BY DEF Walk
<1>6. todo \in SUBSET (1..NumVars) /\ {} \in SUBSET (1..NumVars)
  BY <1>1
<1> HIDE DEF v, n, ups, down, next, todo
<1>7. job.ants \o ups \in Seq(Nat) /\ job.ants \o down \in Seq(Nat)
  BY <1>1, <1>4, ConcatProperties
<1> DEFINE J(t, a, s, i) == [job EXCEPT !.todo = t, !.at = a, !.ants = s, !.id = i]
<1>8. /\ [job EXCEPT !.todo = todo, !.at = next, !.ants = job.ants \o ups]
            = J(todo, next, job.ants \o ups, job.id)
      /\ [job EXCEPT !.todo = todo] = J(todo, job.at, job.ants, job.id)
      /\ [job EXCEPT !.todo = {}, !.id = -1] = J({}, job.at, job.ants, -1)
      /\ [job EXCEPT !.todo = todo, !.at = next, !.ants = job.ants \o down]
            = J(todo, next, job.ants \o down, job.id)
  BY <1>1 DEF Jobs
<1>9. job.at \in Live
  BY <1>1 DEF n
<1> HIDE DEF J
<1>10. \E t \in SUBSET (1..NumVars), a \in Live, s \in Seq(Nat), i \in {job.id, -1} :
          job' = J(t, a, s, i) /\ (job.kind = "clause" => i = job.id)
  <2>1. CASE job.kind = "clause"
    BY <1>2, <1>5, <1>6, <1>7, <1>8, <2>1
  <2>2. CASE job.kind # "clause"
    BY <1>1, <1>2, <1>5, <1>6, <1>7, <1>8, <1>9, <2>2
  <2> QED
    BY <2>1, <2>2
<1> QED
  BY <1>10 DEF J

\* tbdd_from_clause and tbdd_validate_clause keep the types.
LEMMA TypeWalk ==
    ASSUME TopPre, Walk \/ ClauseWalked \/ CheckWalked
    PROVE  TypeOK'
<1>0. /\ TypeOK /\ IdsInv /\ RcInv /\ Running /\ RootsInv /\ ControlInv /\ DestInv
      /\ job \in Jobs /\ job.r \in NodeIds /\ job.dest \in Holders /\ job.kind \in {"none", "clause", "check", "path", "and", "validate", "validateand"}
  <2>1. Running
    BY DEF Walk, ClauseWalked, CheckWalked, Running
  <2> QED
    BY <2>1 DEF TopPre, TypeOK, Jobs
<1>1. CASE Walk
  <2>1. PICK todo \in SUBSET (1..NumVars), at \in Live, ants \in Seq(Nat), id \in {job.id, -1} :
           job' = [job EXCEPT !.todo = todo, !.at = at, !.ants = ants, !.id = id]
    BY <1>1, WalkFacts
  <2>2. job' \in Jobs
    <3>1. at \in NodeIds /\ id \in Int
      BY <1>0, NodeIdFacts DEF Jobs
    <3> QED
      BY <1>0, <2>1, <3>1 DEF Jobs
  <2> QED
    BY <1>0, <1>1, <2>2 DEF Walk, TypeOK
<1>2. CASE ClauseWalked
  <2> DEFINE cid == GenId({node[job.r].xvar}, 1)
  <2>1. /\ Emit(Gen({node[job.r].xvar}, Append(job.ants, job.id), "unit", 1), {})
        /\ rc' = NewRc(cid)
        /\ handle' = [handle EXCEPT ![job.dest] = [root |-> job.r, cid |-> cid]]
        /\ node' = IncRef(node, job.r) /\ counter' = counter + 1 /\ Return
        /\ UNCHANGED <<nodesize, resized, refstack, cache, deferred, varcounter, stack>>
    BY <1>2 DEF ClauseWalked
  <2>2. cid \in Nat
    BY <1>0, GenIdType DEF TypeOK
  <2> HIDE DEF cid
  <2>3. counter' \in Nat /\ DOMAIN db' \subseteq Nat /\ emptyId' \in Nat
    BY <1>0, <2>1, OneLine
  <2>4. DOMAIN rc' \subseteq Nat /\ rc' \in [DOMAIN rc' -> Nat \ {0}]
    BY <1>0, <2>1, <2>2, NewRcType
  <2>5. handle' \in [Holders -> Tbdds]
    BY <1>0, <2>1, <2>2 DEF TypeOK, Tbdds
  <2>6. node' \in [NodeIds -> Nodes]
    BY <1>0, <2>1, IncRefProps DEF TypeOK
  <2>7. pc' = "client" /\ job' = NoJob /\ mk' = NoMk /\ call' = NoCall /\ ret' = NoRet
    BY <2>1 DEF Return
  <2> QED
    BY <1>0, <2>1, <2>3, <2>4, <2>5, <2>6, <2>7, LocalTypes DEF TypeOK
<1>3. CASE CheckWalked
  <2> DEFINE t == handle[Tmp]
             claim == IF job.id = -1 THEN <<>> ELSE Gen(job.lits, job.ants, "client", 1)
  <2>1. /\ counter' = IF job.id = -1 THEN counter ELSE counter + 1
        /\ Return
        /\ UNCHANGED <<nodesize, resized, refstack, cache, deferred, varcounter, stack>>
        /\ \E del : Emit(claim, del)
        /\ \/ UNCHANGED <<node, handle, rc>>
           \/ /\ t.root # -1 /\ node' = DecRef(node, t.root) /\ rc' = RcAfter(t.cid)
              /\ handle' = [handle EXCEPT ![Tmp] = NoTbdd]
    BY <1>3 DEF CheckWalked
  <2>2. t \in Tbdds /\ (t.cid \in DOMAIN rc \/ (t.cid = TAUTOLOGY /\ TAUTOLOGY \notin DOMAIN rc))
    BY <1>0 DEF TypeOK, Holders, RcInv
  <2>3. counter' \in Nat /\ DOMAIN db' \subseteq Nat /\ emptyId' \in Nat
    <3>1. CASE job.id = -1
      BY <1>0, <2>1, <3>1, NoLine
    <3>2. CASE job.id # -1
      BY <1>0, <2>1, <3>2, OneLine
    <3> QED
      BY <3>1, <3>2
  <2> HIDE DEF t, claim
  <2>4. DOMAIN rc' \subseteq Nat /\ rc' \in [DOMAIN rc' -> Nat \ {0}]
    <3>1. CASE rc' = RcAfter(t.cid)
      <4>1. /\ DOMAIN rc' \subseteq DOMAIN rc /\ rc' \in [DOMAIN rc' -> Nat \ {0}]
        BY <1>0, <2>2, <3>1, RcAfterType
      <4> QED
        BY <1>0, <4>1 DEF TypeOK
    <3>2. CASE UNCHANGED rc
      BY <1>0, <3>2 DEF TypeOK
    <3> QED
      BY <2>1, <3>1, <3>2
  <2>5. handle' \in [Holders -> Tbdds]
    BY <1>0, <2>1, LocalTypes DEF TypeOK
  <2>6. node' \in [NodeIds -> Nodes]
    <3>1. t.root # -1 => t.root \in NodeIds
      BY <2>2 DEF Tbdds
    <3>2. t.root # -1 => DecRef(node, t.root) \in [NodeIds -> Nodes]
      BY <1>0, <3>1, DecRefProps DEF TypeOK
    <3> QED
      BY <1>0, <2>1, <3>2 DEF TypeOK
  <2>7. pc' = "client" /\ job' = NoJob /\ mk' = NoMk /\ call' = NoCall /\ ret' = NoRet
    BY <2>1 DEF Return
  <2> QED
    BY <1>0, <2>1, <2>3, <2>4, <2>5, <2>6, <2>7, LocalTypes DEF TypeOK
<1> QED
  BY <1>1, <1>2, <1>3

\* Every operation that the client starts keeps the types.
LEMMA TypeClient ==
    ASSUME TopPre, Client
    PROVE  TypeOK'
<1>0. ASSUME pc = "client"
      PROVE  /\ TypeOK /\ IdsInv /\ RcInv /\ RootsInv /\ ControlInv /\ DestInv /\ Nameable \subseteq NodeIds
             /\ Open \subseteq Handles /\ Handles \subseteq Holders /\ job = NoJob
             /\ ("client" \in {"setvarnum", "client", "build", "makenode", "grow", "made", "call", "ret",
               "walk", "done", "exit"})
  <2>1. Running
    BY <1>0 DEF Running
  <2> QED
    BY <1>0, <2>1, NameableLive DEF TopPre, Open, Holders, ControlInv
<1>1. ASSUME NEW h \in Open, NEW id \in DOMAIN InputClauses, FromClause(h, id) PROVE TypeOK'
  <2> DEFINE lits == InputClauses[id]
             todo == {VarOf(x) : x \in lits}
  <2>1. pc = "client" /\ pc' = "build"
    BY <1>1 DEF FromClause, MayStart, StartBuild
  <2>2. lits \in SUBSET Literals /\ id \in Int /\ todo \in SUBSET (1..NumVars)
    BY InputTypes, VarsOf
  <2>3. job' = [NoJob EXCEPT !.kind = "clause", !.dest = h, !.args = <<>>, !.lits = lits,
                             !.todo = todo, !.id = id]
    BY <1>1 DEF FromClause, StartBuild
  <2> HIDE DEF lits, todo
  <2>4. h \in Holders /\ <<>> \in Seq(Handles) /\ NoJob \in Jobs
    BY <1>0, <2>1, LocalTypes
  <2>5. job' \in Jobs
    BY <2>2, <2>3, <2>4 DEF Jobs
  <2> QED
    BY <1>0, <1>1, <2>1, <2>5 DEF FromClause, TypeOK
<1>2. ASSUME NEW h \in Open, NEW h1 \in Owned, Addref(h, h1) PROVE TypeOK'
  <2>1. pc = "client" /\ Duplicate(h, handle[h1])
    BY <1>2 DEF Addref, MayStart
  <2>2. node' \in [NodeIds -> Nodes] /\ handle' \in [Holders -> Tbdds]
        /\ DOMAIN rc' = DOMAIN rc /\ rc' \in [DOMAIN rc' -> Nat \ {0}]
    BY <1>0, <2>1, DuplicateType
  <2> QED
    BY <1>0, <1>2, <2>1, <2>2 DEF Addref, TypeOK
<1>3. ASSUME NEW h \in Open, NEW h1 \in Owned, NEW r \in Nameable, Validate(h, r, h1) PROVE TypeOK'
  <2>1. pc = "client" /\ handle[h1].root \in NodeIds /\ h1 \in Handles
    BY <1>0, <1>3, OwnedFacts DEF Validate, MayStart
  <2>2. CASE Duplicate(h, handle[h1]) /\ UNCHANGED <<pc, job, refstack, call>>
    <3>1. node' \in [NodeIds -> Nodes] /\ handle' \in [Holders -> Tbdds]
          /\ DOMAIN rc' = DOMAIN rc /\ rc' \in [DOMAIN rc' -> Nat \ {0}]
      BY <1>0, <2>1, <2>2, DuplicateType
    <3> QED
      BY <1>0, <1>3, <2>1, <2>2, <3>1 DEF Validate, TypeOK
  <2>3. CASE StartApply("validate", h, <<h1>>, "imp", r) /\ UNCHANGED <<node, handle, rc>>
    <3>1. h \in Holders /\ <<h1>> \in Seq(Handles) /\ <<h1>>[1] = h1 /\ r \in NodeIds
      BY <1>0, <2>1
    <3>2. job' \in Jobs /\ refstack' \in Seq(NodeIds) /\ call' \in Calls /\ pc' = "call"
      BY <1>0, <2>1, <2>3, <3>1, StartTypes DEF Ops
    <3> QED
      BY <1>0, <1>3, <2>1, <2>3, <3>2 DEF Validate, TypeOK
  <2> QED
    BY <1>3, <2>2, <2>3 DEF Validate
<1>4. ASSUME NEW h \in Open, NEW h1 \in Owned, NEW h2 \in Owned, And(h, h1, h2) PROVE TypeOK'
  <2>1. pc = "client" /\ handle[h1].root \in NodeIds /\ h1 \in Handles
        /\ handle[h2].root \in NodeIds /\ h2 \in Handles
    BY <1>0, <1>4, OwnedFacts DEF And, MayStart
  <2>2. ASSUME NEW g \in Owned, Duplicate(h, handle[g]), UNCHANGED <<pc, job, refstack, call>>
        PROVE  TypeOK'
    <3>1. node' \in [NodeIds -> Nodes] /\ handle' \in [Holders -> Tbdds]
          /\ DOMAIN rc' = DOMAIN rc /\ rc' \in [DOMAIN rc' -> Nat \ {0}]
      BY <1>0, <2>1, <2>2, DuplicateType
    <3> QED
      BY <1>0, <1>4, <2>1, <2>2, <3>1 DEF And, TypeOK
  <2>3. CASE StartApply("and", h, <<h1, h2>>, "and", 0) /\ UNCHANGED <<node, handle, rc>>
    <3>1. h \in Holders /\ <<h1, h2>> \in Seq(Handles) /\ <<h1, h2>>[1] = h1
          /\ <<h1, h2>>[2] = h2 /\ 0 \in NodeIds
      BY <1>0, <2>1, NodeIdFacts
    <3>2. job' \in Jobs /\ refstack' \in Seq(NodeIds) /\ call' \in Calls /\ pc' = "call"
      BY <1>0, <2>1, <2>3, <3>1, StartTypes DEF Ops
    <3> QED
      BY <1>0, <1>4, <2>1, <2>3, <3>2 DEF And, TypeOK
  <2> QED
    BY <1>4, <2>2, <2>3 DEF And
<1>5. ASSUME NEW h \in Open, NEW h1 \in Owned, NEW h2 \in Owned, NEW r \in Nameable,
             ValidateWithAnd(h, r, h1, h2)
      PROVE  TypeOK'
  <2>1. pc = "client" /\ handle[h1].root \in NodeIds /\ h1 \in Handles
        /\ handle[h2].root \in NodeIds /\ h2 \in Handles
    BY <1>0, <1>5, OwnedFacts DEF ValidateWithAnd, MayStart
  <2>2. h \in Holders /\ <<h1, h2>> \in Seq(Handles) /\ <<h1, h2>>[1] = h1
        /\ <<h1, h2>>[2] = h2 /\ r \in NodeIds
    BY <1>0, <2>1
  <2>3. job' \in Jobs /\ refstack' \in Seq(NodeIds) /\ call' \in Calls /\ pc' = "call"
    BY <1>0, <1>5, <2>1, <2>2, StartTypes DEF ValidateWithAnd, Ops
  <2> QED
    BY <1>0, <1>5, <2>1, <2>3 DEF ValidateWithAnd, TypeOK
<1>6. ASSUME NEW h1 \in Owned, Delref(h1) PROVE TypeOK'
  <2>1. pc = "client" /\ handle[h1].root \in NodeIds /\ h1 \in Holders
    BY <1>0, <1>6, OwnedFacts DEF Delref
  <2>2. /\ pc' \in {"exit", "client"} /\ node' = DecRef(node, handle[h1].root)
        /\ handle' = [handle EXCEPT ![h1] = NoTbdd]
        /\ \E del : Emit(<<>>, del)
        /\ UNCHANGED rc \/ rc' = RcAfter(handle[h1].cid)
        /\ UNCHANGED <<counter, nodesize, resized, refstack, cache, deferred, varcounter,
                       job, mk, call, ret, stack>>
    BY <1>6 DEF Delref
  <2>3. counter' \in Nat /\ DOMAIN db' \subseteq Nat /\ emptyId' \in Nat
    BY <1>0, <2>1, <2>2, NoLine
  <2>4. DOMAIN rc' \subseteq Nat /\ rc' \in [DOMAIN rc' -> Nat \ {0}]
    <3>1. CASE rc' = RcAfter(handle[h1].cid)
      <4>1. handle[h1].cid \in DOMAIN rc
          \/ (handle[h1].cid = TAUTOLOGY /\ TAUTOLOGY \notin DOMAIN rc)
        BY <1>0, <2>1 DEF RcInv
      <4>2. DOMAIN rc' \subseteq DOMAIN rc /\ rc' \in [DOMAIN rc' -> Nat \ {0}]
        BY <1>0, <2>1, <3>1, <4>1, RcAfterType
      <4> QED
        BY <1>0, <2>1, <4>2 DEF TypeOK
    <3>2. CASE UNCHANGED rc
      BY <1>0, <2>1, <3>2 DEF TypeOK
    <3> QED
      BY <2>2, <3>1, <3>2
  <2>5. node' \in [NodeIds -> Nodes]
    BY <1>0, <2>1, <2>2, DecRefProps DEF TypeOK
  <2>6. handle' \in [Holders -> Tbdds]
    BY <1>0, <2>1, <2>2, LocalTypes DEF TypeOK
  <2> QED
    BY <1>0, <2>1, <2>2, <2>3, <2>4, <2>5, <2>6 DEF TypeOK
<1>7. ASSUME NEW h1 \in Owned, NEW lits \in ClientClauses, ValidateClause(lits, h1) PROVE TypeOK'
  <2> DEFINE todo == {VarOf(x) : x \in lits}
  <2>1. pc = "client" /\ pc' \in {"walk", "build"}
    BY <1>7 DEF ValidateClause, MayStart, StartBuild
  <2>2. lits \in SUBSET Literals /\ todo \in SUBSET (1..NumVars)
    BY InputTypes, VarsOf
  <2>3. \/ job' = [NoJob EXCEPT !.kind = "path", !.args = <<h1>>, !.lits = lits, !.todo = todo,
                                !.at = handle[h1].root, !.ants = <<handle[h1].cid>>]
        \/ job' = [NoJob EXCEPT !.kind = "check", !.dest = Tmp, !.args = <<h1>>, !.lits = lits,
                                !.todo = todo, !.id = 0]
    BY <1>7 DEF ValidateClause, StartBuild
  <2> HIDE DEF todo
  <2>4. NoJob \in Jobs /\ <<h1>> \in Seq(Handles) /\ Tmp \in Holders
        /\ handle[h1].root \in NodeIds /\ <<handle[h1].cid>> \in Seq(Nat)
    BY <1>0, <2>1, LocalTypes, OwnedFacts DEF Holders
  <2>a. 0 \in Int /\ "check" # "path"
    OBVIOUS
  <2>5. job' \in Jobs
    <3>1. [NoJob EXCEPT !.kind = "path", !.args = <<h1>>, !.lits = lits, !.todo = todo,
                        !.at = handle[h1].root, !.ants = <<handle[h1].cid>>] \in Jobs
      BY <2>2, <2>4 DEF Jobs
    <3>2. [NoJob EXCEPT !.kind = "check", !.dest = Tmp, !.args = <<h1>>, !.lits = lits,
                        !.todo = todo, !.id = 0] \in Jobs
      BY <2>2, <2>4, <2>a DEF Jobs
    <3> QED
      BY <2>3, <3>1, <3>2
  <2> QED
    BY <1>0, <1>7, <2>1, <2>5 DEF ValidateClause, TypeOK
<1>8. CASE Done
  <2>1. pc = "client"
    BY <1>8 DEF Done
  <2>2. counter' \in Nat /\ DOMAIN db' \subseteq Nat /\ emptyId' \in Nat
    BY <1>0, <1>8, <2>1, NoLine DEF Done
  <2> QED
    BY <1>0, <1>8, <2>1, <2>2, EntryTypes DEF Done, TypeOK
<1> QED
  BY <1>1, <1>2, <1>3, <1>4, <1>5, <1>6, <1>7, <1>8 DEF Client

-----------------------------------------------------------------------------
(* Every step keeps ids, counts, the table, the flow of control and the stacks. *)


\* A step that writes nothing keeps the ids in the file.
LEMMA QuietIds ==
    ASSUME TypeOK, IdsInv, Quiet
    PROVE  IdsInv' /\ counter' >= counter
BY DEF IdsInv, TypeOK

\* Every step keeps the ids in the file below the counter, which never goes back.
LEMMA IdsStep ==
    ASSUME TopPre, Internal \/ Client
    PROVE  IdsInv' /\ counter' >= counter
<1>0. TypeOK /\ IdsInv /\ counter \in Nat /\ emptyId \in Nat
  BY DEF TopPre, TypeOK
<1>1. CASE Quiet
  BY <1>0, <1>1, QuietIds
<1>2. CASE MakeFresh
  <2>1. PICK add : Emit(add, {}) /\ \A k \in DOMAIN add : add[k].id \in 1..(counter + 4)
    BY <1>0, <1>2, FreshLines
  <2>2. counter + 4 \in Nat /\ counter <= counter + 4
    BY <1>0
  <2>3. DOMAIN db' \subseteq 1..(counter + 4)
    BY <1>0, <2>1, <2>2, EmitIds DEF IdsInv
  <2>4. counter' = counter + 4
    BY <1>2 DEF MakeFresh
  <2> QED
    BY <1>0, <2>3, <2>4 DEF IdsInv
<1>3. CASE MakeGbc
  <2>1. counter' = counter
    BY <1>3 DEF MakeGbc
  <2>2. CASE Ordered
    <3>1. \E del : Emit(<<>>, del)
      BY <1>3, <2>2 DEF MakeGbc, Collect
    <3>2. DOMAIN db' \subseteq 1..counter'
      BY <1>0, <2>1, <3>1, NoLine
    <3> QED
      BY <1>0, <2>1, <3>2 DEF IdsInv
  <2>3. CASE ~Ordered
    <3>1. UNCHANGED db
      BY <1>3, <2>3 DEF MakeGbc
    <3> QED
      BY <1>0, <2>1, <3>1 DEF IdsInv
  <2> QED
    BY <2>2, <2>3
<1>4. CASE JustifyStep
  <2> DEFINE s == Slot(Top.op, Top.l, Top.r, Top.t)
             j == Justify(node, IF Top.op = "imp" THEN "imp" ELSE "and", Top.l, Top.r, Top.level,
                          Top.low, Top.high, IF Top.op = "aij" THEN Top.t ELSE ret.root, counter)
  <2>1. CASE ~j.ok
    BY <1>0, <1>4, <2>1, QuietIds, Zenon DEF JustifyStep
  <2>2. CASE j.ok
    <3>1. Emit(j.add, j.del) /\ counter' = counter + Len(j.add)
      BY <1>4, <2>2, Zenon DEF JustifyStep
    <3>2. /\ Len(j.add) \in Nat
          /\ \A k \in DOMAIN j.add : j.add[k].id \in (counter + 1)..(counter + Len(j.add))
      BY <1>0, JustifyIds
    <3> HIDE DEF j
    <3>3. counter + Len(j.add) \in Nat /\ counter <= counter + Len(j.add)
      BY <1>0, <3>2
    <3>4. \A k \in DOMAIN j.add : j.add[k].id \in 1..(counter + Len(j.add))
      BY <1>0, <3>2
    <3>5. DOMAIN db' \subseteq 1..(counter + Len(j.add))
      BY <1>0, <3>1, <3>3, <3>4, EmitIds DEF IdsInv
    <3> QED
      BY <1>0, <3>1, <3>3, <3>5 DEF IdsInv
  <2> QED
    BY <2>1, <2>2
<1>5. CASE FinishApply
  <2>1. \E lits, hints, del : Emit(Gen(lits, hints, "unit", 1), del)
    BY <1>5, FinishFacts
  <2>2. counter' = counter + 1
    BY <1>5 DEF FinishApply
  <2>3. DOMAIN db' \subseteq 1..counter'
    BY <1>0, <2>1, <2>2, OneLine
  <2> QED
    BY <1>0, <2>2, <2>3 DEF IdsInv
<1>6. CASE ClauseWalked
  <2>1. \E lits, hints, del : Emit(Gen(lits, hints, "unit", 1), del)
    BY <1>6 DEF ClauseWalked
  <2>2. counter' = counter + 1
    BY <1>6 DEF ClauseWalked
  <2>3. DOMAIN db' \subseteq 1..counter'
    BY <1>0, <2>1, <2>2, OneLine
  <2> QED
    BY <1>0, <2>2, <2>3 DEF IdsInv
<1>7. CASE CheckWalked
  <2> DEFINE claim == IF job.id = -1 THEN <<>> ELSE Gen(job.lits, job.ants, "client", 1)
  <2>1. /\ \E del : Emit(claim, del)
        /\ counter' = IF job.id = -1 THEN counter ELSE counter + 1
    BY <1>7 DEF CheckWalked
  <2>2. CASE job.id = -1
    <3>1. DOMAIN db' \subseteq 1..counter'
      BY <1>0, <2>1, <2>2, NoLine
    <3> QED
      BY <1>0, <2>1, <2>2, <3>1 DEF IdsInv
  <2>3. CASE job.id # -1
    <3>1. DOMAIN db' \subseteq 1..counter'
      BY <1>0, <2>1, <2>3, OneLine
    <3> QED
      BY <1>0, <2>1, <2>3, <3>1 DEF IdsInv
  <2> QED
    BY <2>2, <2>3
<1>8. ASSUME NEW h1 \in Owned, Delref(h1) PROVE IdsInv' /\ counter' >= counter
  <2>1. counter' = counter /\ \E del : Emit(<<>>, del)
    BY <1>8 DEF Delref
  <2>2. DOMAIN db' \subseteq 1..counter'
    BY <1>0, <2>1, NoLine
  <2> QED
    BY <1>0, <2>1, <2>2 DEF IdsInv
<1>9. CASE Done
  <2>1. counter' = counter /\ \E del : Emit(<<>>, del)
    BY <1>9 DEF Done
  <2>2. DOMAIN db' \subseteq 1..counter'
    BY <1>0, <2>1, NoLine
  <2> QED
    BY <1>0, <2>1, <2>2 DEF IdsInv
<1>10. CASE Internal
  <2>1. ASSUME \/ SetVar \/ VarMade \/ MakeFound \/ Grow
               \/ EnterLeaf \/ EnterDegenerate \/ EnterRefuted \/ EnterMiss
               \/ ReturnLow \/ ReturnHigh \/ BuildLiteral \/ LiteralMade \/ ClauseBuilt
               \/ CheckBuilt \/ Walk
        PROVE  Quiet
    BY <2>1 DEF SetVar, VarMade, MakeFound, Grow, EnterLeaf, EnterDegenerate, EnterRefuted, EnterMiss,
           ReturnLow, ReturnHigh, BuildLiteral, LiteralMade, ClauseBuilt, CheckBuilt, Walk
  <2> QED
    BY <1>1, <1>2, <1>3, <1>4, <1>5, <1>6, <1>7, <1>10, <2>1 DEF Internal
<1>11. CASE Client
  <2>1. ASSUME \/ \E h \in Open :
                     \/ \E id \in DOMAIN InputClauses : FromClause(h, id)
                     \/ \E h1 \in Owned :
                           \/ Addref(h, h1)
                           \/ \E r \in Nameable : Validate(h, r, h1)
                           \/ \E h2 \in Owned : And(h, h1, h2)
                           \/ \E h2 \in Owned, r \in Nameable : ValidateWithAnd(h, r, h1, h2)
               \/ \E h1 \in Owned, lits \in ClientClauses : ValidateClause(lits, h1)
        PROVE Quiet
    BY <2>1 DEF FromClause, Addref, Validate, And, ValidateWithAnd, ValidateClause
  <2> QED
    BY <1>1, <1>8, <1>9, <1>11, <2>1 DEF Client
<1> QED
  BY <1>10, <1>11

-----------------------------------------------------------------------------

HoldersOf(c) == {h \in Holders : handle[h].cid = c}

\* There are finitely many variables that hold trusted BDDs.
LEMMA HoldersFinite == IsFiniteSet(Holders) /\ \A S : S \subseteq Holders => IsFiniteSet(S)
<1>1. IsFiniteSet(Handles)
  BY ClientAssumption
<1>2. IsFiniteSet(Holders)
  BY <1>1, FS_AddElement DEF Holders
<1> QED
  BY <1>2, FS_Subset

\* A step that touches neither trusted BDDs nor counts keeps the counts of unit clauses.
LEMMA RcSame ==
    ASSUME TypeOK, RcInv, UNCHANGED <<handle, rc>>, counter' \in Nat, counter' >= counter
    PROVE  RcInv'
<1>1. counter \in Nat /\ 1..counter \subseteq 1..counter'
  BY DEF TypeOK
<1> QED
  BY <1>1 DEF RcInv

\* A reference is added to an entry that is there.
LEMMA RcDuplicate ==
    ASSUME TypeOK, RcInv, DestInv, NEW dest \in Open, NEW h \in Owned, Duplicate(dest, handle[h]),
           counter' = counter
    PROVE  RcInv'
<1>1. /\ dest \in Holders /\ dest \in Handles /\ handle[dest].cid = TAUTOLOGY /\ handle[h].root \in NodeIds
      /\ h \in Holders /\ handle[h].cid \in DOMAIN rc \cup {TAUTOLOGY} /\ TAUTOLOGY \notin DOMAIN rc
  BY OwnedFacts DEF Open, Holders, DestInv, RcInv
<1>2. /\ DOMAIN rc' = DOMAIN rc
      /\ \A c \in DOMAIN rc : rc'[c] = IF c = handle[h].cid THEN rc[c] + 1 ELSE rc[c]
  BY <1>1, DuplicateType
<1>3. handle' = [handle EXCEPT ![dest] = handle[h]]
  BY DEF Duplicate
<1>4. ASSUME NEW c \in DOMAIN rc
      PROVE  rc'[c] = Cardinality({g \in Holders : handle'[g].cid = c})
  <2> DEFINE new == {g \in Holders : handle'[g].cid = c}
  <2>1. rc[c] = Cardinality(HoldersOf(c)) /\ IsFiniteSet(HoldersOf(c)) /\ dest \notin HoldersOf(c)
    BY <1>1, HoldersFinite DEF RcInv, HoldersOf
  <2>2. CASE c = handle[h].cid
    <3>1. new = HoldersOf(c) \cup {dest}
      BY <1>1, <1>3, <2>2 DEF HoldersOf, TypeOK
    <3>2. Cardinality(new) = Cardinality(HoldersOf(c)) + 1
      BY <2>1, <3>1, FS_AddElement
    <3> QED
      BY <1>2, <2>1, <2>2, <3>2
  <2>3. CASE c # handle[h].cid
    <3>1. new = HoldersOf(c)
      BY <1>1, <1>3, <2>3 DEF HoldersOf, TypeOK
    <3> QED
      BY <1>2, <2>1, <2>3, <3>1
  <2> QED
    BY <2>2, <2>3
<1>5. \A g \in Holders : handle'[g].cid \in DOMAIN rc' \cup {TAUTOLOGY}
  BY <1>1, <1>2, <1>3 DEF TypeOK, RcInv
<1> QED
  BY <1>1, <1>2, <1>4, <1>5 DEF RcInv

\* A new entry, for a unit clause with the next id or for the constant 1.
LEMMA RcCreate ==
    ASSUME TypeOK, RcInv, NEW dest \in Holders, handle[dest].cid = TAUTOLOGY, NEW root,
           NEW cid \in Nat, cid # TAUTOLOGY => cid = counter + 1,
           rc' = NewRc(cid), handle' = [handle EXCEPT ![dest] = [root |-> root, cid |-> cid]],
           counter' = counter + 1
    PROVE  RcInv'
<1>1. /\ counter \in Nat /\ DOMAIN rc \subseteq 1..counter /\ TAUTOLOGY \notin DOMAIN rc
      /\ cid \notin DOMAIN rc
  BY DEF TypeOK, RcInv
<1>2. /\ DOMAIN rc' = DOMAIN rc \cup ({cid} \ {TAUTOLOGY})
      /\ \A c \in DOMAIN rc' : rc'[c] = IF c = cid THEN 1 ELSE rc[c]
  BY NewRcType
<1>3. DOMAIN rc' \subseteq 1..counter' /\ TAUTOLOGY \notin DOMAIN rc'
  BY <1>1, <1>2
<1>4. \A g \in Holders : handle'[g].cid = IF g = dest THEN cid ELSE handle[g].cid
  BY DEF TypeOK
<1>5. \A g \in Holders : handle'[g].cid \in DOMAIN rc' \cup {TAUTOLOGY}
  BY <1>2, <1>4 DEF RcInv
<1>6. ASSUME NEW c \in DOMAIN rc'
      PROVE  rc'[c] = Cardinality({g \in Holders : handle'[g].cid = c})
  <2> DEFINE new == {g \in Holders : handle'[g].cid = c}
  <2>1. CASE c = cid
    <3>1. \A g \in Holders : handle[g].cid # cid
      BY <1>1, <1>3, <2>1 DEF RcInv
    <3>2. new = {dest}
      BY <1>4, <2>1, <3>1
    <3> QED
      BY <1>2, <2>1, <3>2, FS_Singleton
  <2>2. CASE c # cid
    <3>1. c \in DOMAIN rc /\ c # TAUTOLOGY
      BY <1>2, <1>3, <2>2
    <3>2. new = HoldersOf(c)
      BY <1>4, <2>2, <3>1 DEF HoldersOf
    <3> QED
      BY <1>2, <2>2, <3>1, <3>2 DEF RcInv, HoldersOf
  <2> QED
    BY <2>1, <2>2
<1> QED
  BY <1>3, <1>5, <1>6 DEF RcInv

\* A reference is dropped.
LEMMA RcDrop ==
    ASSUME TypeOK, RcInv, NEW h \in Holders, counter' \in Nat, counter' >= counter,
           handle' = [handle EXCEPT ![h] = NoTbdd],
           rc' = RcAfter(handle[h].cid) \/ (UNCHANGED rc /\ handle[h].cid = TAUTOLOGY)
    PROVE  RcInv'
<1> DEFINE cid == handle[h].cid
<1>1. /\ counter \in Nat /\ DOMAIN rc \subseteq 1..counter' /\ TAUTOLOGY \notin DOMAIN rc
      /\ cid \in DOMAIN rc \cup {TAUTOLOGY}
  BY DEF TypeOK, RcInv
<1>2. /\ DOMAIN rc' = IF cid \in DOMAIN rc /\ rc[cid] = 1 THEN DOMAIN rc \ {cid} ELSE DOMAIN rc
      /\ \A c \in DOMAIN rc' : rc'[c] = IF c = cid THEN rc[c] - 1 ELSE rc[c]
  <2>1. CASE rc' = RcAfter(cid)
    BY <1>1, <2>1, RcAfterType
  <2>2. CASE UNCHANGED rc /\ cid = TAUTOLOGY
    BY <1>1, <2>2
  <2> QED
    BY <2>1, <2>2
<1>3. \A g \in Holders : handle'[g].cid = IF g = h THEN TAUTOLOGY ELSE handle[g].cid
  BY DEF TypeOK, NoTbdd
<1> HIDE DEF cid
<1>4. ASSUME NEW g \in Holders PROVE handle'[g].cid \in DOMAIN rc' \cup {TAUTOLOGY}
  <2>1. CASE g # h /\ handle[g].cid = cid /\ cid \in DOMAIN rc /\ rc[cid] = 1
    <3>1. Cardinality(HoldersOf(cid)) = 1 /\ IsFiniteSet(HoldersOf(cid))
      BY <2>1, HoldersFinite DEF RcInv, HoldersOf
    <3>2. h \in HoldersOf(cid) /\ g \in HoldersOf(cid)
      BY <2>1 DEF HoldersOf, cid
    <3> QED
      BY <2>1, <3>1, <3>2, FS_Singleton
  <2>2. CASE ~(g # h /\ handle[g].cid = cid /\ cid \in DOMAIN rc /\ rc[cid] = 1)
    BY <1>1, <1>2, <1>3, <2>2 DEF RcInv
  <2> QED
    BY <2>1, <2>2
<1>5. ASSUME NEW c \in DOMAIN rc'
      PROVE  rc'[c] = Cardinality({g \in Holders : handle'[g].cid = c})
  <2> DEFINE new == {g \in Holders : handle'[g].cid = c}
  <2>1. c \in DOMAIN rc /\ c # TAUTOLOGY
    BY <1>1, <1>2
  <2>2. rc[c] = Cardinality(HoldersOf(c)) /\ IsFiniteSet(HoldersOf(c))
    BY <2>1, HoldersFinite DEF RcInv, HoldersOf
  <2>3. CASE c = cid
    <3>1. h \in HoldersOf(c) /\ new = HoldersOf(c) \ {h}
      BY <1>3, <2>1, <2>3 DEF HoldersOf, cid
    <3>2. Cardinality(new) = Cardinality(HoldersOf(c)) - 1
      BY <2>2, <3>1, FS_RemoveElement
    <3> QED
      BY <1>2, <2>2, <2>3, <3>2
  <2>4. CASE c # cid
    <3>1. new = HoldersOf(c)
      BY <1>3, <2>1, <2>4 DEF HoldersOf, cid
    <3> QED
      BY <1>2, <2>2, <2>4, <3>1
  <2> QED
    BY <2>3, <2>4
<1>6. DOMAIN rc' \subseteq 1..counter' /\ TAUTOLOGY \notin DOMAIN rc'
  BY <1>1, <1>2
<1> QED
  BY <1>4, <1>5, <1>6 DEF RcInv

-----------------------------------------------------------------------------

\* Every step keeps the counts of unit clauses exact.
LEMMA RcStep ==
    ASSUME TopPre, Internal \/ Client, counter' \in Nat
    PROVE  RcInv'
<1>0. TypeOK /\ IdsInv /\ RcInv /\ counter' >= counter /\ TAUTOLOGY \in Nat
  BY IdsStep, TautologyAssumption DEF TopPre
<1>1. CASE UNCHANGED <<handle, rc>>
  BY <1>0, <1>1, RcSame
<1>2. CASE FinishApply
  <2> DEFINE r == IF job.kind = "and" THEN ret.root ELSE job.r
             cid == GenId({node[r].xvar}, 1)
  <2>1. /\ cid \in Nat /\ job.dest \in Holders
        /\ cid # TAUTOLOGY => cid = counter + 1
        /\ rc' = NewRc(cid)
        /\ handle' = [handle EXCEPT ![job.dest] = [root |-> r, cid |-> cid]]
    BY <1>2, FinishFacts
  <2>2. counter' = counter + 1 /\ pc = "ret" /\ stack = <<>>
    BY <1>2 DEF FinishApply
  <2>3. handle[job.dest].cid = TAUTOLOGY
    <3>1. Running /\ DestInv /\ ControlInv
      BY <2>2 DEF Running, TopPre
    <3>2. job.kind \in ApplyKinds
      BY <2>2, <3>1 DEF ControlInv
    <3>3. handle[job.dest].root = -1
      BY <2>2, <3>1, <3>2 DEF DestInv, ApplyKinds
    <3> QED
      BY <2>1, <3>1, <3>3 DEF DestInv
  <2> HIDE DEF r, cid
  <2> QED
    BY <1>0, <2>1, <2>2, <2>3, RcCreate
<1>3. CASE ClauseWalked
  <2> DEFINE cid == GenId({node[job.r].xvar}, 1)
  <2>1. /\ counter' = counter + 1 /\ rc' = NewRc(cid) /\ pc = "walk" /\ job.kind = "clause"
        /\ handle' = [handle EXCEPT ![job.dest] = [root |-> job.r, cid |-> cid]]
    BY <1>3 DEF ClauseWalked
  <2>2. cid \in Nat /\ (cid # TAUTOLOGY => cid = counter + 1)
    BY <1>0, GenIdType DEF TypeOK
  <2>3. job.dest \in Holders /\ handle[job.dest].cid = TAUTOLOGY
    <3>1. Running /\ DestInv
      BY <2>1 DEF Running, TopPre
    <3> QED
      BY <2>1, <3>1 DEF DestInv, Holders
  <2> HIDE DEF cid
  <2> QED
    BY <1>0, <2>1, <2>2, <2>3, RcCreate
<1>4. CASE CheckWalked
  <2>1. \/ UNCHANGED <<node, handle, rc>>
        \/ rc' = RcAfter(handle[Tmp].cid) /\ handle' = [handle EXCEPT ![Tmp] = NoTbdd]
    BY <1>4 DEF CheckWalked
  <2>2. Tmp \in Holders
    BY DEF Holders
  <2> QED
    BY <1>0, <1>1, <2>1, <2>2, RcDrop
<1>5. ASSUME NEW h \in Owned, Delref(h) PROVE RcInv'
  <2>1. /\ handle' = [handle EXCEPT ![h] = NoTbdd]
        /\ rc' = RcAfter(handle[h].cid) \/ (UNCHANGED rc /\ handle[h].cid = TAUTOLOGY)
    BY <1>5 DEF Delref
  <2>2. h \in Holders
    BY DEF Owned, Held
  <2> QED
    BY <1>0, <2>1, <2>2, RcDrop
<1>6. ASSUME NEW h \in Open, NEW g \in Owned, Duplicate(h, handle[g]), counter' = counter, pc = "client"
      PROVE  RcInv'
  <2>1. DestInv
    BY <1>6 DEF Running, TopPre
  <2> QED
    BY <1>0, <1>6, <2>1, RcDuplicate
<1>7. CASE Internal
  <2>1. ASSUME \/ SetVar \/ VarMade \/ MakeFound \/ MakeFresh \/ MakeGbc \/ Grow
               \/ EnterLeaf \/ EnterDegenerate \/ EnterRefuted \/ EnterMiss
               \/ ReturnLow \/ ReturnHigh \/ JustifyStep \/ BuildLiteral \/ LiteralMade
               \/ ClauseBuilt \/ CheckBuilt \/ Walk
        PROVE  UNCHANGED <<handle, rc>>
    BY <2>1 DEF SetVar, VarMade, MakeFound, MakeFresh, MakeGbc, Grow, EnterLeaf, EnterDegenerate,
           EnterRefuted, EnterMiss, JustifyStep,
           ReturnLow, ReturnHigh, BuildLiteral, LiteralMade, ClauseBuilt, CheckBuilt, Walk
  <2> QED
    BY <1>1, <1>2, <1>3, <1>4, <1>7, <2>1 DEF Internal
<1>8. CASE Client
  <2>1. ASSUME NEW h \in Open, NEW g \in Owned, Addref(h, g) PROVE RcInv'
    BY <1>6, <2>1 DEF Addref, MayStart
  <2>2. ASSUME NEW h \in Open, NEW g \in Owned, NEW r \in Nameable, Validate(h, r, g) PROVE RcInv'
    BY <1>1, <1>6, <2>2 DEF Validate, MayStart
  <2>3. ASSUME NEW h \in Open, NEW g \in Owned, NEW k \in Owned, And(h, g, k) PROVE RcInv'
    BY <1>1, <1>6, <2>3 DEF And, MayStart
  <2>4. ASSUME \/ \E h \in Open :
                     \/ \E id \in DOMAIN InputClauses : FromClause(h, id)
                     \/ \E h1 \in Owned : \E h2 \in Owned, r \in Nameable : ValidateWithAnd(h, r, h1, h2)
               \/ \E h1 \in Owned, lits \in ClientClauses : ValidateClause(lits, h1)
               \/ Done
        PROVE UNCHANGED <<handle, rc>>
    BY <2>4 DEF FromClause, ValidateWithAnd, ValidateClause, Done
  <2> QED
    BY <1>1, <1>5, <1>8, <2>1, <2>2, <2>3, <2>4 DEF Client
<1> QED
  BY <1>7, <1>8

-----------------------------------------------------------------------------

\* A step that changes at most reference counts of inner nodes.
SameNodes == /\ node' \in [NodeIds -> Nodes]
             /\ \A m \in NodeIds : /\ node'[m].low = node[m].low /\ node'[m].high = node[m].high
                                   /\ node'[m].level = node[m].level /\ node'[m].xvar = node[m].xvar
                                   /\ node'[m].dclause = node[m].dclause
                                   /\ m \in Terminals => node'[m] = node[m]

\* A step that changes reference counts only keeps the table.
LEMMA SameTable ==
    ASSUME SameNodes, TableInv
    PROVE  Used' = Used /\ Live' = Live /\ TableInv'
<1>1. Used' = Used
  BY NodeIdFacts, ZenonT(60) DEF Used, SameNodes
<1>2. Live' = Live
  BY <1>1 DEF Live
<1> QED
  BY <1>1, <1>2, NodeIdFacts DEF TableInv, SameNodes, Terminal

\* A step that leaves the nodes alone is one that changes reference counts only.
LEMMA SameIfUnchanged ==
    ASSUME TypeOK, UNCHANGED node
    PROVE  SameNodes
BY DEF SameNodes, TypeOK

\* INCREF changes a reference count only.
LEMMA IncRefSame ==
    ASSUME TypeOK, NEW n \in NodeIds, node' = IncRef(node, n)
    PROVE  SameNodes
<1>1. node \in [NodeIds -> Nodes] /\ \A m \in Terminals : m < 2
  BY DEF TypeOK, Terminals
<1>2. /\ node' \in [NodeIds -> Nodes]
      /\ \A m \in NodeIds : /\ node'[m].low = node[m].low /\ node'[m].high = node[m].high
                            /\ node'[m].level = node[m].level /\ node'[m].xvar = node[m].xvar
                            /\ node'[m].dclause = node[m].dclause
                            /\ m # n \/ m < 2 => node'[m] = node[m]
  BY <1>1, IncRefProps
<1> QED
  BY <1>1, <1>2 DEF SameNodes

\* DECREF changes a reference count only.
LEMMA DecRefSame ==
    ASSUME TypeOK, NEW n \in NodeIds, node' = DecRef(node, n)
    PROVE  SameNodes
<1>1. node \in [NodeIds -> Nodes] /\ \A m \in Terminals : m < 2
  BY DEF TypeOK, Terminals
<1>2. /\ node' \in [NodeIds -> Nodes]
      /\ \A m \in NodeIds : /\ node'[m].low = node[m].low /\ node'[m].high = node[m].high
                            /\ node'[m].level = node[m].level /\ node'[m].xvar = node[m].xvar
                            /\ node'[m].dclause = node[m].dclause
                            /\ m # n \/ m < 2 => node'[m] = node[m]
  BY <1>1, DecRefProps
<1> QED
  BY <1>1, <1>2 DEF SameNodes

\* IncRef and DecRef of the same node: bdd_delref after tbdd_create.
LEMMA IncDec ==
    ASSUME NEW nd \in [NodeIds -> Nodes], NEW n \in NodeIds
    PROVE  /\ DecRef(IncRef(nd, n), n) \in [NodeIds -> Nodes]
           /\ \A m \in NodeIds :
                 /\ DecRef(IncRef(nd, n), n)[m].low = nd[m].low
                 /\ DecRef(IncRef(nd, n), n)[m].high = nd[m].high
                 /\ DecRef(IncRef(nd, n), n)[m].level = nd[m].level
                 /\ DecRef(IncRef(nd, n), n)[m].xvar = nd[m].xvar
                 /\ DecRef(IncRef(nd, n), n)[m].dclause = nd[m].dclause
                 /\ m # n \/ m < 2 => DecRef(IncRef(nd, n), n)[m] = nd[m]
           /\ n \in Inner =>
                 DecRef(IncRef(nd, n), n)[n].ref =
                    IF nd[n].ref = MaxRef \/ nd[n].ref + 1 = MaxRef THEN MaxRef ELSE nd[n].ref
<1> DEFINE i == IncRef(nd, n)
<1>1. /\ i \in [NodeIds -> Nodes]
      /\ \A m \in NodeIds : /\ i[m].low = nd[m].low /\ i[m].high = nd[m].high
                            /\ i[m].level = nd[m].level /\ i[m].xvar = nd[m].xvar
                            /\ i[m].dclause = nd[m].dclause /\ (m # n \/ m < 2 => i[m] = nd[m])
      /\ n \in Inner => i[n].ref = IF nd[n].ref = MaxRef THEN MaxRef ELSE nd[n].ref + 1
  BY IncRefProps
<1> HIDE DEF i
<1>2. /\ DecRef(i, n) \in [NodeIds -> Nodes]
      /\ \A m \in NodeIds : /\ DecRef(i, n)[m].low = i[m].low /\ DecRef(i, n)[m].high = i[m].high
                            /\ DecRef(i, n)[m].level = i[m].level /\ DecRef(i, n)[m].xvar = i[m].xvar
                            /\ DecRef(i, n)[m].dclause = i[m].dclause
                            /\ (m # n \/ m < 2 => DecRef(i, n)[m] = i[m])
      /\ n \in Inner => DecRef(i, n)[n].ref =
                           IF i[n].ref = MaxRef \/ i[n].ref = 0 THEN i[n].ref ELSE i[n].ref - 1
  BY <1>1, DecRefProps
<1>3. nd[n].ref \in Nat /\ MaxRef \in Nat \ {0}
  BY SizeAssumption DEF Nodes
<1>4. /\ DecRef(i, n) \in [NodeIds -> Nodes]
      /\ \A m \in NodeIds : /\ DecRef(i, n)[m].low = nd[m].low /\ DecRef(i, n)[m].high = nd[m].high
                            /\ DecRef(i, n)[m].level = nd[m].level /\ DecRef(i, n)[m].xvar = nd[m].xvar
                            /\ DecRef(i, n)[m].dclause = nd[m].dclause
                            /\ (m # n \/ m < 2 => DecRef(i, n)[m] = nd[m])
  BY <1>1, <1>2
<1>5. ASSUME n \in Inner
      PROVE DecRef(i, n)[n].ref =
               IF nd[n].ref = MaxRef \/ nd[n].ref + 1 = MaxRef THEN MaxRef ELSE nd[n].ref
  <2> HIDE DEF DecRef
  <2>1. i[n].ref = IF nd[n].ref = MaxRef THEN MaxRef ELSE nd[n].ref + 1
    BY <1>1, <1>5
  <2>2. DecRef(i, n)[n].ref = IF i[n].ref = MaxRef \/ i[n].ref = 0 THEN i[n].ref ELSE i[n].ref - 1
    BY <1>2, <1>5
  <2> QED
    BY <1>3, <2>1, <2>2
<1> QED
  BY <1>4, <1>5 DEF i

\* bdd_setvarnum pins the two nodes of a variable and changes nothing else.
LEMMA PinSame ==
    ASSUME TypeOK, TableInv, VarMade
    PROVE  SameNodes /\ (ret.root \in Inner => node'[ret.root].ref = MaxRef)
           /\ \A m \in NodeIds : m # ret.root => node'[m] = node[m]
<1>1. ret.root \in NodeIds /\ node[ret.root] \in Nodes /\ MaxRef \in Nat
      /\ node \in [NodeIds -> Nodes]
  BY SizeAssumption DEF TypeOK, Pcbdd
<1> DEFINE new == [node[ret.root] EXCEPT !.ref = MaxRef]
<1>2. /\ new \in Nodes /\ new.low = node[ret.root].low /\ new.high = node[ret.root].high
      /\ new.level = node[ret.root].level /\ new.xvar = node[ret.root].xvar
      /\ new.dclause = node[ret.root].dclause /\ new.ref = MaxRef
  BY <1>1 DEF Nodes
<1>3. ret.root \in Terminals => new = node[ret.root]
  <2>1. ASSUME ret.root \in Terminals PROVE node[ret.root] = Terminal(ret.root)
    BY <2>1 DEF TableInv
  <2>2. \A n : [Terminal(n) EXCEPT !.ref = MaxRef] = Terminal(n)
    BY DEF Terminal
  <2> QED
    BY <2>1, <2>2
<1>4. node' = [node EXCEPT ![ret.root] = new]
  BY DEF VarMade
<1> HIDE DEF new
<1> QED
  BY <1>1, <1>2, <1>3, <1>4 DEF SameNodes

-----------------------------------------------------------------------------

\* Every step but the two of bdd_makenode that build or free nodes.
LEMMA ShapeKept ==
    ASSUME TopPre, Running, Internal \/ Client, ~MakeFresh, ~MakeGbc
    PROVE  SameNodes
<1>0. TypeOK /\ TableInv /\ node \in [NodeIds -> Nodes] /\ job.r \in NodeIds
      /\ DestInv /\ RootsInv /\ job \in Jobs
  BY DEF TopPre, TypeOK, Jobs
<1>1. CASE UNCHANGED node
  BY <1>0, <1>1, SameIfUnchanged
<1>2. ASSUME NEW n \in NodeIds, node' = IncRef(node, n) \/ node' = DecRef(node, n) PROVE SameNodes
  BY <1>0, <1>2, IncRefSame, DecRefSame
<1>3. CASE VarMade
  BY <1>0, <1>3, PinSame
<1>4. CASE FinishApply
  <2> DEFINE r == IF job.kind = "and" THEN ret.root ELSE job.r
  <2>1. /\ r \in NodeIds
        /\ node' = IncRef(node, r) \/ node' = DecRef(IncRef(node, r), r)
    BY <1>4, FinishFacts
  <2> HIDE DEF r
  <2>2. ASSUME node' = DecRef(IncRef(node, r), r) PROVE SameNodes
    BY <1>0, <2>1, <2>2, IncDec, NodeIdFacts DEF SameNodes, Terminals
  <2> QED
    BY <1>2, <2>1, <2>2
<1>5. CASE BuildLiteral \/ LiteralMade \/ CheckBuilt \/ ClauseWalked
  BY <1>0, <1>2, <1>5 DEF BuildLiteral, LiteralMade, CheckBuilt, ClauseWalked
<1>6. CASE CheckWalked
  <2>1. \/ UNCHANGED <<node, handle, rc>>
        \/ handle[Tmp].root # -1 /\ node' = DecRef(node, handle[Tmp].root)
    BY <1>6 DEF CheckWalked
  <2>2. handle[Tmp].root # -1 => handle[Tmp].root \in NodeIds
    BY <1>0 DEF TypeOK, Tbdds, Holders
  <2> QED
    BY <1>1, <1>2, <2>1, <2>2
<1>7. ASSUME NEW h \in Owned, \/ node' = DecRef(node, handle[h].root)
                              \/ node' = IncRef(node, handle[h].root)
      PROVE SameNodes
  BY <1>0, <1>2, <1>7, OwnedFacts
<1>8. CASE Internal
  <2>1. ASSUME \/ SetVar \/ MakeFound \/ Grow
               \/ EnterLeaf \/ EnterDegenerate \/ EnterRefuted \/ EnterMiss
               \/ ReturnLow \/ ReturnHigh \/ JustifyStep \/ ClauseBuilt \/ Walk
        PROVE  UNCHANGED node
    BY <2>1 DEF SetVar, MakeFound, Grow, EnterLeaf, EnterDegenerate,
           EnterRefuted, EnterMiss, JustifyStep, ReturnLow, ReturnHigh, ClauseBuilt, Walk
  <2> QED
    BY <1>1, <1>3, <1>4, <1>5, <1>6, <1>8, <2>1 DEF Internal
<1>9. CASE Client
  <2>1. ASSUME NEW h \in Open, NEW g \in Owned, Addref(h, g) PROVE SameNodes
    BY <1>7, <2>1 DEF Addref, Duplicate
  <2>2. ASSUME NEW h \in Open, NEW g \in Owned, NEW r \in Nameable, Validate(h, r, g) PROVE SameNodes
    BY <1>1, <1>7, <2>2 DEF Validate, Duplicate
  <2>3. ASSUME NEW h \in Open, NEW g \in Owned, NEW k \in Owned, And(h, g, k) PROVE SameNodes
    BY <1>1, <1>7, <2>3 DEF And, Duplicate
  <2>4. ASSUME \/ \E h \in Open :
                     \/ \E id \in DOMAIN InputClauses : FromClause(h, id)
                     \/ \E h1 \in Owned : \E h2 \in Owned, r \in Nameable : ValidateWithAnd(h, r, h1, h2)
               \/ \E h1 \in Owned, lits \in ClientClauses : ValidateClause(lits, h1)
               \/ Done
        PROVE UNCHANGED node
    BY <2>4 DEF FromClause, ValidateWithAnd, ValidateClause, Done
  <2>5. ASSUME NEW h \in Owned, Delref(h) PROVE SameNodes
    BY <1>7, <2>5 DEF Delref
  <2> QED
    BY <1>1, <1>9, <2>1, <2>2, <2>3, <2>4, <2>5 DEF Client
<1> QED
  BY <1>8, <1>9

\* The new node of bdd_makenode.
LEMMA FreshFacts ==
    ASSUME TypeOK, TableInv, RootsInv, ControlInv, MakeFresh
    PROVE  /\ Used' = Used \cup {ret'.root} /\ Live' = Live \cup {ret'.root}
           /\ Referenced' = Referenced /\ Safe \subseteq Safe'
           /\ ret'.root \in Inner /\ ret'.root \notin Used /\ TableInv' 
           /\ node'[ret'.root].ref = 0 /\ \A m \in NodeIds : m # ret'.root => node'[m] = node[m]
           /\ node'[ret'.root] = [level |-> mk.level, low |-> mk.low, high |-> mk.high,
                                    xvar |-> varcounter + 1, dclause |-> counter + 1, ref |-> 0]
<1> DEFINE n   == CHOOSE n \in Free : \A m \in Free : n <= m
           new == [level |-> mk.level, low |-> mk.low, high |-> mk.high,
                   xvar |-> varcounter + 1, dclause |-> counter + 1, ref |-> 0]
<1>0. MaxRef \in Nat /\ NumVars \in Nat
  BY SizeAssumption
<1>1. n \in Free /\ Free \subseteq NodeIds
  BY FreeChoice DEF MakeFresh
<1>2. node' = [node EXCEPT ![n] = new] /\ ret' = [NoRet EXCEPT !.root = n]
  BY DEF MakeFresh
<1>3. ret'.root = n
  BY <1>2 DEF NoRet
<1>4. mk.level \in 1..NumVars /\ mk.low \in Live /\ mk.high \in Live
  BY DEF MakeFresh, MustBuild, ControlInv, RootsInv
<1>5. new \in Nodes /\ new.low # -1 /\ new.ref = 0
  <2>1. mk.low \in NodeIds /\ mk.high \in NodeIds /\ mk.low # -1
    BY <1>4, NodeIdFacts
  <2>2. mk.level \in 0..(NumVars + 1) /\ varcounter + 1 \in Int /\ counter + 1 \in Nat /\ 0 \in 0..MaxRef
    BY <1>0, <1>4 DEF TypeOK
  <2> QED
    BY <2>1, <2>2 DEF Nodes
<1>6. node \in [NodeIds -> Nodes]
  BY DEF TypeOK
<1>7. new.level = mk.level /\ new.low = mk.low /\ new.high = mk.high
  OBVIOUS
<1> HIDE DEF n, new
<1>8. /\ Used' = Used \cup {n} /\ Live' = Live \cup {n}
      /\ Referenced' = Referenced /\ Safe \subseteq Safe'
  BY <1>1, <1>2, <1>5, <1>6, FreshNode
<1>9. /\ n \in Inner /\ n \notin Used /\ n \in NodeIds /\ n \notin Terminals
      /\ \A m \in NodeIds : node'[m] = IF m = n THEN new ELSE node[m]
  BY <1>1, <1>2, <1>6, NodeIdFacts DEF Free, Used, Inner
<1>10. TableInv'
  <2>1. \A m \in Terminals : node'[m] = Terminal(m)
    BY <1>9, NodeIdFacts DEF TableInv
  <2>2. ASSUME NEW m \in Used'
        PROVE  node'[m].level \in 1..NumVars /\ node'[m].low \in Live' /\ node'[m].high \in Live'
    <3>1. CASE m = n
      BY <1>4, <1>7, <1>8, <1>9, <3>1
    <3>2. CASE m # n
      BY <1>8, <1>9, <3>2, NodeIdFacts DEF TableInv
    <3> QED
      BY <3>1, <3>2
  <2> QED
    BY <2>1, <2>2 DEF TableInv, Terminal
<1>11. node'[ret'.root] = [level |-> mk.level, low |-> mk.low, high |-> mk.high,
                             xvar |-> varcounter + 1, dclause |-> counter + 1, ref |-> 0]
  BY <1>3, <1>9 DEF new
<1> QED
  BY <1>3, <1>5, <1>8, <1>9, <1>10, <1>11

\* bdd_gbc keeps the table and all that is safe.
LEMMA CollectFacts ==
    ASSUME TypeOK, TableInv, Collect
    PROVE  /\ Used' = Reach(GcRoots) /\ Live' = Terminals \cup Reach(GcRoots) /\ Used' \subseteq Used
           /\ \A n \in Live' : node'[n] = node[n]
           /\ Referenced' = Referenced /\ Safe \subseteq Safe' /\ TableInv'
<1>1. /\ Used' = Reach(GcRoots) /\ Live' = Terminals \cup Reach(GcRoots)
      /\ \A n \in Live' : node'[n] = node[n]
      /\ Referenced' = Referenced /\ Safe \subseteq Safe'
  BY Collected DEF Collect, TypeOK
<1>2. ASSUME NEW n \in Used'
      PROVE  node'[n].level \in 1..NumVars /\ node'[n].low \in Live' /\ node'[n].high \in Live'
  <2>1. n \in Reach(GcRoots) /\ n \in Used /\ node'[n] = node[n]
    BY <1>1, ReachRoots
  <2>2. node[n].level \in 1..NumVars /\ node[n].low \in Live /\ node[n].high \in Live
    BY <2>1 DEF TableInv
  <2> QED
    BY <1>1, <2>1, <2>2, ReachClosed DEF Live
<1>3. \A n \in Terminals : node'[n] = Terminal(n)
  BY <1>1 DEF TableInv
<1> QED
  BY <1>1, <1>2, <1>3, ReachRoots DEF TableInv, Terminal

\* Every step keeps a table whose nodes have their children.
LEMMA TableStep ==
    ASSUME TopPre, Running, Running', Internal \/ Client
    PROVE  TableInv'
<1>0. TypeOK /\ TableInv /\ RootsInv /\ ControlInv
  BY DEF TopPre
<1>1. CASE MakeFresh
  BY <1>0, <1>1, FreshFacts
<1>2. CASE MakeGbc
  <2>1. Collect
    BY <1>2 DEF MakeGbc, Running
  <2> QED
    BY <1>0, <2>1, CollectFacts
<1>3. CASE ~MakeFresh /\ ~MakeGbc
  BY <1>0, <1>3, ShapeKept, SameTable
<1> QED
  BY <1>1, <1>2, <1>3

-----------------------------------------------------------------------------

\* bdd_makenode is called with the level of a variable.
LEMMA MkLevels ==
    ASSUME TypeOK, ControlInv
    PROVE  /\ SetVar /\ pc' = "makenode" => mk'.level \in 1..NumVars
           /\ BuildLiteral => mk'.level \in 1..NumVars
           /\ ReturnHigh /\ pc' = "makenode" => mk'.level \in 1..NumVars
<1>0. NumVars \in Nat
  BY SizeAssumption
<1>1. ASSUME SetVar, pc' = "makenode" PROVE mk'.level \in 1..NumVars
  <2>1. job.id \in Nat /\ job.id < 2 * NumVars /\ mk'.level = 1 + (job.id \div 2)
    BY <1>1 DEF SetVar, ControlInv
  <2> QED
    BY <1>0, <2>1
<1>2. ASSUME BuildLiteral PROVE mk'.level \in 1..NumVars
  <2>1. job.todo \in SUBSET (1..NumVars) /\ job.todo # {} /\ mk'.level = MaxOf(job.todo)
    BY <1>2 DEF BuildLiteral, LiteralNode, TypeOK, Jobs
  <2> QED
    BY <2>1, MaxOfProps
<1>3. ASSUME ReturnHigh, pc' = "makenode" PROVE mk'.level \in 1..NumVars
  <2>1. mk'.level = Top.level /\ stack # <<>>
    BY <1>3 DEF ReturnHigh
  <2> QED
    BY <2>1, TopFrame DEF Frames
<1> QED
  BY <1>1, <1>2, <1>3

\* Every step keeps pc, stack and job in agreement.
LEMMA ControlStep ==
    ASSUME TopPre, Running, Running', Internal \/ Client
    PROVE  ControlInv'
<1>0. TypeOK /\ ControlInv /\ job \in Jobs /\ pc \in {"setvarnum", "client", "build", "makenode",
                  "grow", "made", "call", "ret", "walk"}
  BY DEF TopPre, TypeOK, Running
<1> USE DEF ApplyPcs, MakePcs, ApplyKinds, BuildKinds
<1>1. CASE SetVar
  <2>1. CASE job.id < 2 * NumVars
    BY <1>0, <1>1, <2>1, MkLevels DEF SetVar, ControlInv
  <2>2. CASE ~(job.id < 2 * NumVars)
    BY <1>0, <1>1, <2>2 DEF SetVar, ControlInv, NoJob
  <2> QED
    BY <2>1, <2>2
<1>2. CASE VarMade
  <2>1. /\ job.id \in Nat /\ job' = [job EXCEPT !.id = job.id + 1] /\ job.r = 0
    BY <1>0, <1>2 DEF VarMade, ControlInv
  <2>2. job'.kind = job.kind /\ job'.r = 0 /\ job'.id \in Nat /\ job'.at = job.at
    BY <1>0, <2>1 DEF Jobs
  <2> QED
    BY <1>0, <1>2, <2>2 DEF VarMade, ControlInv
<1>3. CASE MakeFound \/ MakeFresh
  BY <1>0, <1>3 DEF MakeFound, MakeFresh, MustBuild, ControlInv
<1>4. CASE MakeGbc \/ Grow
  BY <1>0, <1>4 DEF MakeGbc, Grow, MustBuild, AfterGrow, ControlInv, Running
<1>5. CASE EnterLeaf \/ EnterDegenerate \/ EnterRefuted
  BY <1>0, <1>5 DEF EnterLeaf, EnterDegenerate, EnterRefuted, ControlInv, Running
<1>6. CASE EnterMiss
  BY <1>0, <1>6 DEF EnterMiss, ControlInv
<1>7. CASE ReturnLow
  BY <1>0, <1>7 DEF ReturnLow, ControlInv
<1>8. CASE ReturnHigh
  <2>1. stack' # <<>> /\ stack # <<>> /\ pc = "ret" /\ pc' \in {"makenode", "made"} /\ UNCHANGED <<job, call>>
    <3>1. stack # <<>> /\ Len(stack) \in Nat \ {0} /\ stack \in Seq(Frames)
      BY <1>0, <1>8, TopFrame DEF ReturnHigh, TypeOK
    <3> QED
      BY <1>8, <3>1 DEF ReturnHigh
  <2>2. pc' = "makenode" => mk'.level \in 1..NumVars
    BY <1>0, <1>8, MkLevels
  <2> QED
    BY <1>0, <2>1, <2>2 DEF ControlInv
<1>9. CASE JustifyStep
  <2>1. pc' \in {"ret", "exit"} /\ UNCHANGED <<job, call, mk>> /\ pc = "made" /\ stack # <<>>
    BY <1>9, Zenon DEF JustifyStep
  <2> QED
    BY <1>0, <2>1 DEF ControlInv, Running
<1>10. CASE FinishApply
  <2>1. job.kind # "check" => Return
    BY <1>10, FinishFacts
  <2>2. job.kind = "check" => pc' = "walk" /\ job'.kind = "check" /\ job'.r = job.r /\ job'.id = job.id
    BY <1>0, <1>10, FinishFacts DEF Jobs
  <2>3. UNCHANGED stack /\ stack = <<>>
    BY <1>10 DEF FinishApply
  <2>4. CASE job.kind # "check"
    BY <1>0, <2>1, <2>3, <2>4 DEF ControlInv, Return, NoJob, NoCall
  <2>5. CASE job.kind = "check"
    BY <1>0, <2>2, <2>3, <2>5 DEF ControlInv
  <2> QED
    BY <2>4, <2>5
<1>11. CASE BuildLiteral
  BY <1>0, <1>11, MkLevels DEF BuildLiteral, ControlInv
<1>12. CASE LiteralMade
  <2>1. job'.kind = job.kind /\ job'.at = job.at /\ job.kind \in {"clause", "check"}
    BY <1>0, <1>12 DEF LiteralMade, Jobs
  <2> QED
    BY <1>0, <1>12, <2>1 DEF LiteralMade, ControlInv
<1>13. CASE ClauseBuilt
  <2>1. job'.kind = job.kind /\ job.kind = "clause"
    BY <1>0, <1>13 DEF ClauseBuilt, Jobs
  <2> QED
    BY <1>0, <1>13, <2>1 DEF ClauseBuilt, ControlInv
<1>14. CASE CheckBuilt
  <2>1. job'.kind = "check" /\ job'.at = job.at /\ pc' = "call" /\ UNCHANGED stack
    BY <1>0, <1>14 DEF CheckBuilt, StartApply, Jobs
  <2> QED
    BY <1>0, <1>14, <2>1 DEF CheckBuilt, ControlInv
<1>15. CASE Walk
  <2>1. job'.kind = job.kind /\ job'.r = job.r /\ UNCHANGED <<pc, mk, call, stack>> /\ pc = "walk"
    BY <1>0, <1>15, WalkFacts DEF Walk, Jobs
  <2> QED
    BY <1>0, <2>1 DEF ControlInv
<1>16. CASE ClauseWalked \/ CheckWalked
  <2>1. Return /\ UNCHANGED stack /\ pc = "walk"
    BY <1>16 DEF ClauseWalked, CheckWalked
  <2> QED
    BY <1>0, <2>1 DEF ControlInv, Return, NoJob
<1>17. ASSUME NEW kind \in {"and", "validate", "validateand"}, NEW dest, NEW args, NEW op, NEW r,
              StartApply(kind, dest, args, op, r), kind = "and" => r = 0, pc = "client", UNCHANGED <<stack, mk>>
       PROVE  ControlInv'
  <2>1. job'.kind = kind /\ job'.at = job.at /\ job'.r = r /\ pc' = "call"
    BY <1>0, <1>17 DEF StartApply, Jobs
  <2> QED
    BY <1>0, <1>17, <2>1 DEF ControlInv
<1>18. ASSUME pc = "client", UNCHANGED <<stack, mk, job, call, pc>> PROVE ControlInv'
  BY <1>0, <1>18 DEF ControlInv
<1>19. ASSUME NEW kind \in {"clause", "check"}, NEW dest, NEW args, NEW lits, NEW id,
              StartBuild(kind, dest, args, lits, id), pc = "client", UNCHANGED <<stack, mk, call>>
       PROVE  ControlInv'
  <2>1. job'.kind = kind /\ job'.at = 0 /\ job'.r = 0 /\ pc' = "build"
    BY <1>0, <1>19 DEF StartBuild, NoJob
  <2> QED
    BY <1>0, <1>19, <2>1 DEF ControlInv
<1>20. CASE Internal
  BY <1>1, <1>2, <1>3, <1>4, <1>5, <1>6, <1>7, <1>8, <1>9, <1>10, <1>11, <1>12, <1>13, <1>14,
     <1>15, <1>16, <1>20 DEF Internal
<1>21. CASE Client
  <2>1. ASSUME NEW h, NEW id, FromClause(h, id) PROVE ControlInv'
    BY <1>19, <2>1 DEF FromClause, MayStart
  <2>2. ASSUME NEW h, NEW g, Addref(h, g) PROVE ControlInv'
    BY <1>18, <2>2 DEF Addref, MayStart
  <2>3. ASSUME NEW h, NEW g, NEW r, Validate(h, r, g) PROVE ControlInv'
    BY <1>17, <1>18, <2>3 DEF Validate, MayStart
  <2>4. ASSUME NEW h, NEW g, NEW k, And(h, g, k) PROVE ControlInv'
    BY <1>17, <1>18, <2>4 DEF And, MayStart
  <2>5. ASSUME NEW h, NEW g, NEW k, NEW r, ValidateWithAnd(h, r, g, k) PROVE ControlInv'
    BY <1>17, <2>5 DEF ValidateWithAnd, MayStart
  <2>6. ASSUME NEW h, Delref(h) PROVE ControlInv'
    <3>1. pc = "client" /\ pc' = "client" /\ UNCHANGED <<job, mk, call, ret, stack>>
      BY <2>6 DEF Delref, Running
    <3> QED
      BY <1>18, <3>1
  <2>7. ASSUME NEW h, NEW lits, ValidateClause(lits, h) PROVE ControlInv'
    <3>1. pc = "client" /\ UNCHANGED <<stack, mk, call>>
      BY <2>7 DEF ValidateClause, MayStart
    <3>2. CASE StartBuild("check", Tmp, <<h>>, lits, 0)
      BY <1>19, <3>1, <3>2
    <3>3. CASE ~StartBuild("check", Tmp, <<h>>, lits, 0)
      <4>1. job'.kind = "path" /\ job'.r = 0 /\ pc' = "walk"
        BY <2>7, <3>3 DEF ValidateClause, NoJob
      <4> QED
        BY <1>0, <3>1, <4>1 DEF ControlInv
    <3> QED
      BY <3>2, <3>3
  <2>8. CASE Done
    BY <2>8 DEF Done, Running
  <2> QED
    BY <1>21, <2>1, <2>2, <2>3, <2>4, <2>5, <2>6, <2>7, <2>8 DEF Client
<1> QED
  BY <1>20, <1>21

-----------------------------------------------------------------------------

\* A step that leaves job and trusted BDDs alone keeps the destination free.
LEMMA DestKept ==
    ASSUME DestInv, UNCHANGED handle, job'.kind = job.kind, job'.dest = job.dest, job'.args = job.args,
           pc = "walk" => pc' = "walk"
    PROVE  DestInv'
BY DEF DestInv

\* The local variable of tbdd_validate_clause is not one of the client's.
LEMMA TmpFree == Tmp \notin Handles /\ Tmp \in Holders /\ Handles \subseteq Holders
BY ClientAssumption DEF Holders

\* Every step keeps the variable that an operation is going to assign empty.
LEMMA DestStep ==
    ASSUME TopPre, Running, Running', Internal \/ Client
    PROVE  DestInv'
<1>0. TypeOK /\ ControlInv /\ DestInv /\ job \in Jobs /\ handle \in [Holders -> Tbdds]
  BY DEF TopPre, TypeOK
<1>1. CASE UNCHANGED <<handle, job>> /\ (pc = "walk" => pc' = "walk")
  BY <1>0, <1>1, DestKept
<1>2. CASE SetVar \/ VarMade
  <2>1. job.kind = "none" /\ pc # "walk"
    BY <1>0, <1>2 DEF SetVar, VarMade, ControlInv
  <2>2. job'.kind = "none" /\ UNCHANGED handle
    BY <1>0, <1>2, <2>1 DEF SetVar, VarMade, NoJob, Jobs
  <2> QED
    BY <1>0, <2>1, <2>2 DEF DestInv
<1>3. CASE LiteralMade \/ ClauseBuilt
  <2>1. job'.kind = job.kind /\ job'.dest = job.dest /\ job'.args = job.args
        /\ UNCHANGED handle /\ pc # "walk"
    BY <1>0, <1>3 DEF LiteralMade, ClauseBuilt, Jobs
  <2> QED
    BY <1>0, <2>1, DestKept
<1>4. CASE CheckBuilt
  <2>1. job.kind = "check" /\ UNCHANGED handle /\ pc # "walk" /\ job.dest = Tmp
    BY <1>0, <1>4 DEF CheckBuilt, DestInv
  <2>2. job'.kind = "check" /\ job'.dest = Tmp /\ job'.args = job.args
    BY <1>0, <1>4 DEF CheckBuilt, StartApply, Jobs
  <2> QED
    BY <1>0, <2>1, <2>2, DestKept
<1>5. CASE Walk
  <2>1. job'.kind = job.kind /\ job'.dest = job.dest /\ job'.args = job.args
    BY <1>0, <1>5, WalkFacts DEF Jobs
  <2> QED
    BY <1>0, <1>5, <2>1, DestKept DEF Walk
<1>6. ASSUME NEW root \in NodeIds, NEW cid, handle' = [handle EXCEPT ![job.dest] = [root |-> root, cid |-> cid]],
             job.dest \in Handles, handle[Tmp].root = -1, job' = NoJob
      PROVE  DestInv'
  <2>1. job'.kind = "none"
    BY <1>6 DEF NoJob
  <2>2. root # -1
    BY NodeIdFacts
  <2>3. /\ handle'[Tmp] = handle[Tmp] /\ handle'[job.dest].root = root
        /\ \A h \in Holders : h # job.dest => handle'[h] = handle[h]
    BY <1>0, <1>6, TmpFree
  <2> QED
    BY <1>0, <1>6, <2>1, <2>2, <2>3 DEF DestInv
<1>7. CASE FinishApply
  <2> DEFINE r == IF job.kind = "and" THEN ret.root ELSE job.r
             cid == GenId({node[r].xvar}, 1)
  <2>1. /\ handle' = [handle EXCEPT ![job.dest] = [root |-> r, cid |-> cid]] /\ r \in NodeIds
        /\ job.kind # "check" => Return
        /\ job.kind = "check" => /\ pc' = "walk" /\ job'.kind = "check" /\ job'.dest = job.dest
                                 /\ job'.args = job.args
    BY <1>0, <1>7, FinishFacts DEF Jobs
  <2>2. job.kind \in ApplyKinds /\ pc = "ret" /\ handle[Tmp].root = -1
    BY <1>0, <1>7 DEF FinishApply, ControlInv, DestInv
  <2> HIDE DEF r, cid
  <2>3. CASE job.kind # "check"
    <3>1. job.dest \in Handles /\ job' = NoJob
      BY <1>0, <2>1, <2>2, <2>3 DEF DestInv, ApplyKinds, Return
    <3> QED
      BY <1>6, <2>1, <2>2, <3>1
  <2>4. CASE job.kind = "check"
    <3>1. job.dest = Tmp /\ Len(job.args) = 1 /\ job.args \in Seq(Handles)
      BY <1>0, <2>4 DEF DestInv, Jobs
    <3>2. job.args[1] \in Handles
      BY <3>1, LenProperties, ElementOfSeq
    <3>3. handle'[job.args[1]] = handle[job.args[1]] /\ handle'[Tmp].root = r
          /\ \A h \in Holders : h # Tmp => handle'[h] = handle[h]
      BY <1>0, <2>1, <3>1, <3>2, TmpFree
    <3>4. r # -1
      BY <2>1, NodeIdFacts
    <3> QED
      BY <1>0, <2>1, <2>4, <3>1, <3>3, <3>4 DEF DestInv
  <2> QED
    BY <2>3, <2>4
<1>8. CASE ClauseWalked
  <2>1. /\ handle' = [handle EXCEPT ![job.dest] = [root |-> job.r, cid |-> GenId({node[job.r].xvar}, 1)]]
        /\ job.kind = "clause" /\ job' = NoJob /\ job.r \in NodeIds
    BY <1>0, <1>8 DEF ClauseWalked, Return, Jobs
  <2>2. job.dest \in Handles /\ handle[Tmp].root = -1
    BY <1>0, <2>1 DEF DestInv
  <2> QED
    BY <1>6, <2>1, <2>2
<1>9. CASE CheckWalked
  <2>1. job' = NoJob /\ ((UNCHANGED handle /\ handle[Tmp].root = -1) \/ handle' = [handle EXCEPT ![Tmp] = NoTbdd])
    BY <1>9 DEF CheckWalked, Return
  <2>2. job'.kind = "none"
    BY <2>1 DEF NoJob
  <2>3. handle'[Tmp].root = -1
    BY <1>0, <2>1, TmpFree DEF NoTbdd
  <2>4. \A h \in Holders : handle'[h] = handle[h] \/ handle'[h] = NoTbdd
    BY <1>0, <2>1
  <2> QED
    BY <1>0, <2>2, <2>3, <2>4 DEF DestInv, NoTbdd
<1>10. ASSUME pc = "client" PROVE job = NoJob /\ job.kind = "none" /\ handle[Tmp].root = -1
  BY <1>0, <1>10 DEF ControlInv, NoJob, DestInv
<1>11. ASSUME NEW kind \in {"and", "validate", "validateand"}, NEW dest \in Open, NEW args, NEW op, NEW r,
              StartApply(kind, dest, args, op, r), pc = "client", UNCHANGED handle
       PROVE  DestInv'
  <2>1. job'.kind = kind /\ job'.dest = dest
    BY <1>0, <1>11 DEF StartApply, Jobs
  <2> QED
    BY <1>0, <1>10, <1>11, <2>1 DEF DestInv, Open
<1>12. ASSUME NEW dest \in Open, NEW h \in Owned, Duplicate(dest, handle[h]), pc = "client", UNCHANGED job
       PROVE  DestInv'
  <2>1. handle' = [handle EXCEPT ![dest] = handle[h]] /\ dest \in Handles /\ handle[h].root # -1
    BY <1>12 DEF Duplicate, Open, Owned, Held
  <2>2. handle'[Tmp] = handle[Tmp] /\ \A g \in Holders : handle'[g] = handle[g] \/ handle'[g] = handle[h]
    BY <1>0, <2>1, TmpFree
  <2> QED
    BY <1>0, <1>10, <1>12, <2>1, <2>2 DEF DestInv
<1>13. CASE Internal
  <2>1. ASSUME \/ MakeFound \/ MakeFresh \/ MakeGbc \/ Grow
               \/ EnterLeaf \/ EnterDegenerate \/ EnterRefuted \/ EnterMiss
               \/ ReturnLow \/ ReturnHigh \/ JustifyStep \/ BuildLiteral
        PROVE  UNCHANGED <<handle, job>> /\ (pc = "walk" => pc' = "walk")
    BY <2>1 DEF MakeFound, MakeFresh, MakeGbc, MustBuild, Grow, EnterLeaf, EnterDegenerate,
           EnterRefuted, EnterMiss, JustifyStep, ReturnLow, ReturnHigh, BuildLiteral
  <2> QED
    BY <1>1, <1>2, <1>3, <1>4, <1>5, <1>7, <1>8, <1>9, <1>13, <2>1 DEF Internal
<1>14. CASE Client
  <2>1. ASSUME NEW h \in Open, NEW id, FromClause(h, id) PROVE DestInv'
    <3>1. pc = "client" /\ UNCHANGED handle /\ job'.kind = "clause" /\ job'.dest = h
      BY <2>1 DEF FromClause, StartBuild, NoJob, MayStart
    <3> QED
      BY <1>0, <1>10, <3>1 DEF DestInv, Open
  <2>2. ASSUME NEW h \in Open, NEW g \in Owned, Addref(h, g) PROVE DestInv'
    BY <1>12, <2>2 DEF Addref, MayStart
  <2>3. ASSUME NEW h \in Open, NEW g \in Owned, NEW r, Validate(h, r, g) PROVE DestInv'
    BY <1>11, <1>12, <2>3 DEF Validate, MayStart
  <2>4. ASSUME NEW h \in Open, NEW g \in Owned, NEW k \in Owned, And(h, g, k) PROVE DestInv'
    BY <1>11, <1>12, <2>4 DEF And, MayStart
  <2>5. ASSUME NEW h \in Open, NEW g, NEW k, NEW r, ValidateWithAnd(h, r, g, k) PROVE DestInv'
    BY <1>11, <2>5 DEF ValidateWithAnd, MayStart
  <2>6. ASSUME NEW h \in Owned, Delref(h) PROVE DestInv'
    <3>1. pc = "client" /\ UNCHANGED job /\ handle' = [handle EXCEPT ![h] = NoTbdd]
      BY <2>6 DEF Delref
    <3>2. \A g \in Holders : handle'[g] = handle[g] \/ handle'[g] = NoTbdd
      BY <1>0, <3>1
    <3> QED
      BY <1>0, <1>10, <3>1, <3>2, TmpFree DEF DestInv, NoTbdd
  <2>7. ASSUME NEW h \in Owned, NEW lits, ValidateClause(lits, h) PROVE DestInv'
    <3>1. pc = "client" /\ UNCHANGED handle
      BY <2>7 DEF ValidateClause, MayStart
    <3>2. \/ job'.kind = "path"
          \/ job'.kind = "check" /\ job'.dest = Tmp /\ job'.args = <<h>>
      BY <2>7 DEF ValidateClause, StartBuild, NoJob
    <3>3. Len(<<h>>) = 1 /\ <<h>>[1] = h /\ handle[h].root # -1
      BY DEF Owned, Held
    <3> QED
      BY <1>0, <1>10, <3>1, <3>2, <3>3 DEF DestInv
  <2>8. CASE Done
    BY <2>8 DEF Done, Running
  <2> QED
    BY <1>14, <2>1, <2>2, <2>3, <2>4, <2>5, <2>6, <2>7, <2>8 DEF Client
<1> QED
  BY <1>13, <1>14

-----------------------------------------------------------------------------

\* A step that leaves both stacks alone keeps them in agreement.
LEMMA StackKept ==
    ASSUME StackInv, UNCHANGED <<stack, refstack>>, stack # <<>> => (pc \in MakePcs <=> pc' \in MakePcs)
    PROVE  StackInv'
BY DEF StackInv, Combining, HighHalves, Top, MakePcs

\* Every step keeps bddrefstack in agreement with the C stack.
LEMMA StackStep ==
    ASSUME TopPre, Running, Running', Internal \/ Client
    PROVE  StackInv'
<1>0. TypeOK /\ ControlInv /\ StackInv /\ stack \in Seq(Frames) /\ refstack \in Seq(NodeIds)
      /\ Len(refstack) \in Nat
  BY LenProperties DEF TopPre, TypeOK
<1>1. CASE UNCHANGED <<stack, refstack>> /\ (stack # <<>> => (pc \in MakePcs <=> pc' \in MakePcs))
  BY <1>0, <1>1, StackKept
<1>2. CASE UNCHANGED stack /\ refstack' = <<>> /\ stack = <<>>
  <2>1. HighHalves' = {}
    BY <1>2 DEF HighHalves
  <2> QED
    BY <1>2, <2>1, FS_EmptySet DEF StackInv, Combining
<1>3. /\ IsFiniteSet(HighHalves) /\ Cardinality(HighHalves) \in Nat
      /\ HighHalves \subseteq 1..Len(stack) /\ Len(stack) \in Nat /\ DOMAIN stack = 1..Len(stack)
  BY <1>0, HighHalvesFinite, LenProperties DEF HighHalves
<1>4. CASE EnterMiss
  <2>1. /\ stack' = Append(stack, Frame(call)) /\ UNCHANGED <<refstack, pc>> /\ pc = "call"
        /\ Frame(call).half = "low"
    BY <1>4 DEF EnterMiss, Frame
  <2>2. Frame(call) \in Frames
    <3>1. TableInv /\ call \in Calls /\ RootsInv
      BY DEF TopPre, TypeOK
    <3>2. {call.l, call.r, call.t} \subseteq Safe /\ Splits(call)
      BY <1>4, <3>1 DEF RootsInv, ApplyPcs, EnterMiss
    <3> QED
      BY <3>1, <3>2, FrameType
  <2>3. /\ DOMAIN stack' = 1..(Len(stack) + 1)
        /\ \A i \in 1..Len(stack) : stack'[i] = stack[i]
        /\ stack'[Len(stack) + 1] = Frame(call)
    BY <1>0, <1>3, <2>1, <2>2, AppendProperties, LenProperties
  <2>4. HighHalves' = HighHalves
    BY <1>3, <2>1, <2>3 DEF HighHalves
  <2> QED
    BY <1>0, <2>1, <2>4 DEF StackInv, Combining
<1>5. CASE ReturnLow
  <2>1. /\ stack # <<>> /\ Top.half = "low" /\ refstack' = Append(refstack, ret.root) /\ pc = "ret"
        /\ pc' = "call" /\ ret.root \in NodeIds
        /\ stack' = [stack EXCEPT ![Len(stack)].half = "high", ![Len(stack)].low = ret]
    BY <1>0, <1>5 DEF ReturnLow, TypeOK, Pcbdd
  <2>2. Len(stack) \in DOMAIN stack /\ stack[Len(stack)] \in Frames
    BY <1>0, <2>1, TopFrame DEF Top
  <2>3. /\ DOMAIN stack' = DOMAIN stack /\ stack'[Len(stack)].half = "high"
        /\ \A i \in DOMAIN stack : i # Len(stack) => stack'[i] = stack[i]
    BY <2>1, <2>2 DEF Frames
  <2>4. Len(stack) \notin HighHalves /\ HighHalves' = HighHalves \cup {Len(stack)}
    BY <2>1, <2>2, <2>3 DEF HighHalves, Top
  <2>5. Cardinality(HighHalves') = Cardinality(HighHalves) + 1
    BY <1>3, <2>4, FS_AddElement
  <2>6. Len(refstack') = Len(refstack) + 1
    BY <1>0, <2>1, AppendProperties
  <2>7. ~Combining /\ ~Combining'
    BY <2>1 DEF Combining
  <2> QED
    BY <1>0, <1>3, <2>5, <2>6, <2>7 DEF StackInv
<1>6. CASE ReturnHigh
  <2>1. /\ stack # <<>> /\ Top.half = "high" /\ refstack' = Append(refstack, ret.root) /\ pc = "ret"
        /\ pc' \in {"makenode", "made"} /\ ret.root \in NodeIds
        /\ stack' = [stack EXCEPT ![Len(stack)].high = ret]
    BY <1>0, <1>6 DEF ReturnHigh, TypeOK, Pcbdd
  <2>2. Len(stack) \in DOMAIN stack /\ stack[Len(stack)] \in Frames
    BY <1>0, <2>1, TopFrame DEF Top
  <2>3. /\ DOMAIN stack' = DOMAIN stack /\ \A i \in DOMAIN stack : stack'[i].half = stack[i].half
    BY <2>1, <2>2 DEF Frames
  <2>4. HighHalves' = HighHalves
    BY <2>3 DEF HighHalves
  <2>5. Len(refstack') = Len(refstack) + 1
    BY <1>0, <2>1, AppendProperties
  <2>6. stack' # <<>> /\ Len(stack') = Len(stack) /\ stack'[Len(stack')].half = "high"
    <3>1. Len(stack) \in 1..Len(stack)
      BY <1>3, <2>2
    <3>2. [stack[Len(stack)] EXCEPT !.high = ret] \in Frames
      BY <1>0, <2>2 DEF Frames, TypeOK
    <3>3. stack' \in Seq(Frames) /\ Len(stack') = Len(stack)
      BY <1>0, <2>1, <3>1, <3>2, ExceptSeq
    <3>4. Len(stack') \in DOMAIN stack /\ stack'[Len(stack')].half = "high"
      BY <2>1, <2>2, <2>3, <3>3 DEF Top
    <3>5. Len(stack') # 0
      BY <1>3, <2>2, <3>3
    <3>6. stack' # <<>>
      BY <3>5, EmptySeq
    <3> QED
      BY <3>3, <3>4, <3>6
  <2>7. ~Combining /\ Combining' /\ Top'.half = "high"
    BY <2>1, <2>6 DEF Combining, Top
  <2> QED
    BY <1>0, <1>3, <2>4, <2>5, <2>7 DEF StackInv
<1>7. CASE JustifyStep
  <2>1. /\ refstack' = Popped /\ stack' = SubSeq(stack, 1, Len(stack) - 1) /\ pc' = "ret"
        /\ pc = "made" /\ stack # <<>>
    <3>1. pc' # "exit"
      BY DEF Running
    <3> QED
      BY <1>7, <3>1, Zenon DEF JustifyStep
  <2>2. Combining /\ ~Combining' /\ Top.half = "high"
    BY <1>0, <2>1 DEF Combining, StackInv
  <2>3. Len(stack) \in HighHalves
    BY <1>0, <2>1, <2>2, TopFrame DEF HighHalves, Top
  <2>4. HighHalves' = HighHalves \ {Len(stack)}
    <3>1. DOMAIN stack' = 1..(Len(stack) - 1) /\ \A i \in 1..(Len(stack) - 1) : stack'[i] = stack[i]
      BY <1>0, <2>1, ShorterStack
    <3>2. DOMAIN stack' = DOMAIN stack \ {Len(stack)}
      BY <1>3, <2>3, <3>1
    <3>3. \A i \in DOMAIN stack' : stack'[i] = stack[i]
      BY <3>1
    <3> QED
      BY <3>2, <3>3 DEF HighHalves
  <2>5. Cardinality(HighHalves') = Cardinality(HighHalves) - 1 /\ Cardinality(HighHalves) >= 1
    BY <1>0, <1>3, <2>3, <2>4, FS_RemoveElement, HighHalvesFinite
  <2>6. Len(refstack) = Cardinality(HighHalves) + 1
    BY <1>0, <2>2 DEF StackInv
  <2>7. Len(refstack') = Len(refstack) - 2
    BY <1>0, <1>3, <2>1, <2>5, <2>6, PoppedProps
  <2> QED
    BY <1>0, <1>3, <2>2, <2>5, <2>6, <2>7 DEF StackInv
<1>8. ASSUME stack # <<>> PROVE pc \in ApplyPcs
  BY <1>0, <1>8 DEF ControlInv
<1>9. CASE Internal
  <2>1. CASE CheckBuilt
    BY <1>2, <1>8, <2>1 DEF CheckBuilt, StartApply, ApplyPcs, MakePcs
  <2>2. ASSUME \/ MakeFound \/ MakeFresh \/ MakeGbc \/ Grow
               \/ EnterLeaf \/ EnterDegenerate \/ EnterRefuted
        PROVE  UNCHANGED <<stack, refstack>> /\ (stack # <<>> => (pc \in MakePcs <=> pc' \in MakePcs))
    BY <2>2 DEF MakeFound, MakeFresh, MakeGbc, MustBuild, Grow, AfterGrow, EnterLeaf, EnterDegenerate,
           EnterRefuted, MakePcs, Running
  <2>3. ASSUME \/ SetVar \/ VarMade \/ FinishApply
               \/ BuildLiteral \/ LiteralMade \/ ClauseBuilt
               \/ Walk \/ ClauseWalked \/ CheckWalked
        PROVE  UNCHANGED <<stack, refstack>> /\ stack = <<>>
    BY <1>8, <2>3 DEF SetVar, VarMade, FinishApply, BuildLiteral, LiteralMade, ClauseBuilt,
           Walk, ClauseWalked, CheckWalked, ApplyPcs, MakePcs
  <2> QED
    BY <1>1, <1>4, <1>5, <1>6, <1>7, <1>9, <2>1, <2>2, <2>3 DEF Internal
<1>10. CASE Client
  <2>1. pc = "client" /\ UNCHANGED stack /\ (UNCHANGED refstack \/ refstack' = <<>>)
    <3>1. ASSUME NEW h, NEW g, NEW k, NEW r, NEW lits, NEW id,
                 \/ FromClause(h, id) \/ Addref(h, g) \/ Validate(h, r, g) \/ ValidateClause(lits, h)
                 \/ And(h, g, k) \/ ValidateWithAnd(h, r, g, k) \/ Delref(h) \/ Done
          PROVE  pc = "client" /\ UNCHANGED stack /\ (UNCHANGED refstack \/ refstack' = <<>>)
      BY <3>1 DEF FromClause, Addref, Validate, And, ValidateWithAnd, ValidateClause, Delref, Done,
             StartApply, MayStart
    <3> QED
      BY <1>10, <3>1, Zenon DEF Client
  <2>2. stack = <<>>
    BY <1>8, <2>1 DEF ApplyPcs, MakePcs
  <2> QED
    BY <1>1, <1>2, <2>1, <2>2
<1> QED
  BY <1>9, <1>10
=============================================================================
