----------------------------- MODULE TbddSound ------------------------------
(***************************************************************************)
(* Proofs about what the BDDs mean: a node has one value, that of the child*)
(* its variable points to, and keeps it; what a trusted BDD says follows   *)
(* from the input clauses, and a cached operation means what it meant when *)
(* it was stored.                                                          *)
(***************************************************************************)
EXTENDS TbddOwners

-----------------------------------------------------------------------------
(* The functions that the nodes of the table stand for.                    *)

\* A table whose nodes are labelled in the order of the variables.
Ranked(nd, used) ==
    /\ used \subseteq NodeIds
    /\ \A n \in used : /\ nd[n].level \in 1..NumVars
                       /\ nd[n].low \in NodeIds /\ nd[n].high \in NodeIds
                       /\ nd[n].low \in used => nd[n].level < nd[nd[n].low].level
                       /\ nd[n].high \in used => nd[n].level < nd[nd[n].high].level

\* What holds of the nodes whose children it holds of holds of every node.
LEMMA UpTheLevels ==
    ASSUME NEW nd, NEW used, Ranked(nd, used), NEW P,
           \A n \in NodeIds : n \notin used => n \in P,
           \A n \in used : nd[n].low \in P /\ nd[n].high \in P => n \in P
    PROVE  NodeIds \subseteq P
<1> SUFFICES ASSUME NEW e \in NodeIds, e \notin P PROVE FALSE
  OBVIOUS
<1> DEFINE X == {n \in used : n \notin P}
           L == {NumVars - nd[n].level : n \in X}
<1>1. e \in X
  OBVIOUS
<1>2. NumVars \in Nat /\ \A n \in X : nd[n].level \in 1..NumVars
  BY SizeAssumption DEF Ranked
<1>3. L \in SUBSET Nat /\ L # {}
  BY <1>1, <1>2
<1> HIDE DEF L
<1>4. PICK x \in L : \A y \in L : x <= y
  BY <1>3, LeastNumber
<1>5. PICK n \in X : x = NumVars - nd[n].level
  BY <1>4 DEF L
<1>6. \A m \in X : nd[m].level <= nd[n].level
  <2>1. \A m \in X : NumVars - nd[m].level \in L
    BY DEF L
  <2> HIDE DEF X
  <2> QED
    BY <1>2, <1>4, <1>5, <2>1
<1>7. \A m \in {nd[n].low, nd[n].high} : m \in NodeIds /\ (m \in used => nd[n].level < nd[m].level)
  BY DEF Ranked
<1>8. \A m \in {nd[n].low, nd[n].high} : m \notin X
  BY <1>2, <1>6, <1>7
<1> QED
  BY <1>7, <1>8

\* The value of every node at an assignment, once its children have theirs.
ValueFrom(nd, used, a, f, m) ==
    IF m \notin used THEN m = 1 ELSE IF a[nd[m].level] THEN f[nd[m].high] ELSE f[nd[m].low]

\* There are such values: they are found from the last level to the first.
LEMMA ValuesExist ==
    ASSUME NEW nd, NEW used, Ranked(nd, used), NEW a \in Assignments
    PROVE  \E f \in [NodeIds -> BOOLEAN] : \A m \in NodeIds : f[m] = ValueFrom(nd, used, a, f, m)
<1> DEFINE From(f, k) == \A m \in NodeIds : (m \in used => nd[m].level > k)
                                             => f[m] = ValueFrom(nd, used, a, f, m)
           S == {k \in Nat : k <= NumVars /\ \E f \in [NodeIds -> BOOLEAN] : From(f, k)}
<1>1. /\ NumVars \in Nat /\ used \subseteq NodeIds
      /\ \A m \in used : /\ nd[m].level \in 1..NumVars
                         /\ nd[m].low \in NodeIds /\ nd[m].high \in NodeIds
                         /\ nd[m].low \in used => nd[m].level < nd[nd[m].low].level
                         /\ nd[m].high \in used => nd[m].level < nd[nd[m].high].level
  BY SizeAssumption DEF Ranked
<1>2. NumVars \in S
  <2> DEFINE f == [m \in NodeIds |-> m = 1]
  <2>1. f \in [NodeIds -> BOOLEAN]
    OBVIOUS
  <2>2. From(f, NumVars)
    BY <1>1 DEF ValueFrom
  <2> HIDE DEF f, From
  <2> QED
    BY <1>1, <2>1, <2>2
<1>3. ASSUME NEW k \in S, k # 0 PROVE k - 1 \in S
  <2>1. PICK f \in [NodeIds -> BOOLEAN] : From(f, k)
    OBVIOUS
  <2> DEFINE g == [m \in NodeIds |-> IF m \in used /\ nd[m].level = k
                                     THEN IF a[k] THEN f[nd[m].high] ELSE f[nd[m].low]
                                     ELSE f[m]]
  <2>2. k \in Nat /\ k <= NumVars
    OBVIOUS
  <2>3. g \in [NodeIds -> BOOLEAN]
    BY <1>1
  <2>4. ASSUME NEW m \in NodeIds, m \in used => nd[m].level > k - 1
        PROVE  g[m] = ValueFrom(nd, used, a, g, m)
    <3>1. CASE m \notin used
      BY <2>1, <3>1 DEF ValueFrom
    <3>2. CASE m \in used
      <4>1. nd[m].low \in used => nd[nd[m].low].level \in Int /\ nd[nd[m].low].level > k
        BY <1>1, <2>2, <2>4, <3>2
      <4>2. nd[m].high \in used => nd[nd[m].high].level \in Int /\ nd[nd[m].high].level > k
        BY <1>1, <2>2, <2>4, <3>2
      <4>3. g[nd[m].low] = f[nd[m].low] /\ g[nd[m].high] = f[nd[m].high]
        BY <1>1, <2>2, <3>2, <4>1, <4>2
      <4>4. CASE nd[m].level = k
        BY <3>2, <4>3, <4>4 DEF ValueFrom
      <4>5. CASE nd[m].level # k
        <5>1. nd[m].level > k
          BY <1>1, <2>2, <2>4, <3>2, <4>5
        <5>2. f[m] = ValueFrom(nd, used, a, f, m)
          BY <2>1, <5>1
        <5>3. g[m] = f[m]
          BY <4>5
        <5> HIDE DEF g
        <5> QED
          BY <3>2, <4>3, <5>2, <5>3 DEF ValueFrom
      <4> QED
        BY <4>4, <4>5
    <3> QED
      BY <3>1, <3>2
  <2>5. From(g, k - 1)
    BY <2>4
  <2> HIDE DEF g, From
  <2>6. \E h \in [NodeIds -> BOOLEAN] : From(h, k - 1)
    BY <2>3, <2>5
  <2>7. k - 1 \in Nat /\ k - 1 <= NumVars
    BY <1>1, <1>3, <2>2
  <2> QED
    BY <2>6, <2>7
<1>4. 0 \in S
  <2>1. S \in SUBSET Nat /\ S # {}
    BY <1>2
  <2> HIDE DEF S
  <2>2. PICK x \in S : \A y \in S : x <= y
    BY <2>1, LeastNumber
  <2>3. CASE x # 0
    <3>1. x - 1 \in S /\ x \in Nat
      BY <1>3, <2>1, <2>3
    <3> QED
      BY <2>2, <3>1
  <2> QED
    BY <2>2, <2>3
<1>5. PICK f \in [NodeIds -> BOOLEAN] : From(f, 0)
  BY <1>4
<1>6. \A m \in used : nd[m].level > 0
  BY <1>1
<1> QED
  BY <1>5, <1>6

\* Value is what it says: the value of a node is that of the child its variable
\* points to, and a constant is its own value.
LEMMA ValueStep ==
    ASSUME NEW nd, NEW used, Ranked(nd, used), NEW a \in Assignments
    PROVE  \A n \in NodeIds :
              /\ ValueIn(nd, used, n, a) \in BOOLEAN
              /\ n \notin used => ValueIn(nd, used, n, a) = (n = 1)
              /\ n \in used => ValueIn(nd, used, n, a) =
                                  IF a[nd[n].level] THEN ValueIn(nd, used, nd[n].high, a)
                                                    ELSE ValueIn(nd, used, nd[n].low, a)
<1> DEFINE Rec(f) == f = [m \in NodeIds |-> IF m \notin used THEN m = 1
                                            ELSE IF a[nd[m].level] THEN f[nd[m].high] ELSE f[nd[m].low]]
           F == CHOOSE f : Rec(f)
<1>1. PICK g \in [NodeIds -> BOOLEAN] : \A m \in NodeIds : g[m] = ValueFrom(nd, used, a, g, m)
  BY ValuesExist
<1>2. g = [m \in NodeIds |-> ValueFrom(nd, used, a, g, m)]
  BY <1>1
<1>3. Rec(g)
  BY <1>2 DEF ValueFrom
<1>4. Rec(F)
  <2> HIDE DEF Rec
  <2> QED
    BY <1>3
<1>5. \A n : ValueIn(nd, used, n, a) = F[n]
  BY DEF ValueIn
<1> HIDE DEF F
<1>6. \A m \in NodeIds : F[m] = IF m \notin used THEN m = 1
                               ELSE IF a[nd[m].level] THEN F[nd[m].high] ELSE F[nd[m].low]
  BY <1>4
<1>7. used \subseteq NodeIds /\ \A n \in used : nd[n].low \in NodeIds /\ nd[n].high \in NodeIds
  BY DEF Ranked
<1>8. NodeIds \subseteq {n \in NodeIds : F[n] \in BOOLEAN}
  <2> DEFINE P == {n \in NodeIds : F[n] \in BOOLEAN}
  <2>1. \A n \in NodeIds : n \notin used => n \in P
    BY <1>6
  <2>2. \A n \in used : nd[n].low \in P /\ nd[n].high \in P => n \in P
    BY <1>6, <1>7
  <2> HIDE DEF P
  <2>3. NodeIds \subseteq P
    BY <2>1, <2>2, UpTheLevels
  <2> QED
    BY <2>3 DEF P
<1> HIDE DEF Rec
<1> QED
  BY <1>5, <1>6, <1>7, <1>8

\* Two tables that agree on nodes and their children give them the same values.
LEMMA ValuesAgree ==
    ASSUME NEW nd, NEW used, Ranked(nd, used), NEW md, NEW vsed, Ranked(md, vsed),
           NEW S \in SUBSET NodeIds, \A n \in S : n \in used <=> n \in vsed,
           \A n \in S : n \in used => /\ md[n].level = nd[n].level
                                      /\ md[n].low = nd[n].low /\ md[n].high = nd[n].high
                                      /\ nd[n].low \in S /\ nd[n].high \in S,
           NEW a \in Assignments
    PROVE  \A n \in S : ValueIn(md, vsed, n, a) = ValueIn(nd, used, n, a)
<1> DEFINE P == {n \in NodeIds : n \in S => ValueIn(md, vsed, n, a) = ValueIn(nd, used, n, a)}
<1>1. ASSUME NEW n \in NodeIds, n \notin used PROVE n \in P
  BY <1>1, ValueStep
<1>2. ASSUME NEW n \in used, nd[n].low \in P, nd[n].high \in P PROVE n \in P
  <2>1. n \in NodeIds /\ nd[n].low \in NodeIds /\ nd[n].high \in NodeIds
    BY DEF Ranked
  <2>2. CASE n \in S
    <3>1. /\ ValueIn(md, vsed, nd[n].low, a) = ValueIn(nd, used, nd[n].low, a)
          /\ ValueIn(md, vsed, nd[n].high, a) = ValueIn(nd, used, nd[n].high, a)
      BY <1>2, <2>2
    <3>2. ValueIn(nd, used, n, a) = IF a[nd[n].level] THEN ValueIn(nd, used, nd[n].high, a)
                                                       ELSE ValueIn(nd, used, nd[n].low, a)
      BY <2>1, ValueStep
    <3>3. ValueIn(md, vsed, n, a) = IF a[nd[n].level] THEN ValueIn(md, vsed, nd[n].high, a)
                                                       ELSE ValueIn(md, vsed, nd[n].low, a)
      <4>1. n \in vsed /\ md[n].level = nd[n].level /\ md[n].low = nd[n].low /\ md[n].high = nd[n].high
        BY <2>2
      <4>2. ValueIn(md, vsed, n, a) = IF a[md[n].level] THEN ValueIn(md, vsed, md[n].high, a)
                                                        ELSE ValueIn(md, vsed, md[n].low, a)
        BY <2>1, <4>1, ValueStep
      <4> QED
        BY <4>1, <4>2
    <3> QED
      BY <2>1, <3>1, <3>2, <3>3
  <2>3. CASE n \notin S
    BY <2>1, <2>3
  <2> QED
    BY <2>2, <2>3
<1> HIDE DEF P
<1>3. NodeIds \subseteq P
  BY <1>1, <1>2, UpTheLevels
<1> QED
  BY <1>3 DEF P

\* The table of the program is one.
LEMMA TableRanked ==
    ASSUME TableInv, Canonical
    PROVE  Ranked(node, Used)
<1>1. \A n \in Used : n \in Live /\ node[n].low \in Live /\ node[n].high \in Live
  BY DEF TableInv, Live
<1> QED
  BY <1>1, NodeIdFacts DEF TableInv, Canonical, Ranked
LEMMA TableRankedNext == TableInv' /\ Canonical' => Ranked(node', Used')
<1>1. TableInv /\ Canonical => Ranked(node, Used)
  BY TableRanked
<1>2. (TableInv /\ Canonical => Ranked(node, Used))'
  BY <1>1, PTL
<1> QED
  BY <1>2

-----------------------------------------------------------------------------
(* No step changes a value *)

USE DEF Quiet, kernelVars

\* The table is a table of ordered nodes when the program has ended, too.
LEMMA TableAlways ==
    ASSUME IInv, Canonical, Internal \/ Client
    PROVE  TableInv' /\ Canonical'
<1>1. Running /\ TopPre /\ TypeOK /\ TableInv /\ RootsInv /\ ControlInv
  BY StillRunning DEF IInv, TopPre
<1>2. ASSUME ~MakeFresh, ~MakeGbc PROVE TableInv'
  BY <1>1, <1>2, ShapeKept, SameTable
<1>3. ASSUME MakeFresh PROVE TableInv'
  BY <1>1, <1>3, FreshFacts
<1>4. ASSUME MakeGbc PROVE TableInv'
  <2>1. Collect \/ UNCHANGED node
    BY <1>4 DEF MakeGbc
  <2>2. CASE UNCHANGED node
    BY <1>1, <2>2, SameIfUnchanged, SameTable
  <2> QED
    BY <1>1, <2>1, <2>2, CollectFacts
<1> QED
  BY <1>2, <1>3, <1>4, CanonicalStep

\* A node that a step keeps stays what it is: the table loses nodes only to a
\* collection, and the program does not end with one.
LEMMA NodesKept ==
    ASSUME IInv, Internal \/ Client
    PROVE  /\ \A n \in Live : n \in Live' =>
                 /\ node'[n].level = node[n].level /\ node'[n].xvar = node[n].xvar
                 /\ node'[n].low = node[n].low /\ node'[n].high = node[n].high
           /\ Live \subseteq Live' \/ Live' \subseteq Live
           /\ ~MakeGbc \/ ~Running' => Live \subseteq Live'
<1>1. Running /\ TopPre /\ TypeOK /\ TableInv /\ RootsInv /\ ControlInv
  BY StillRunning DEF IInv, TopPre
<1>2. ASSUME SameNodes
      PROVE  /\ \A n \in Live : /\ node'[n].level = node[n].level /\ node'[n].xvar = node[n].xvar
                                /\ node'[n].low = node[n].low /\ node'[n].high = node[n].high
             /\ Live' = Live
  BY <1>1, <1>2, SameTable, NodeIdFacts DEF SameNodes
<1>3. CASE ~MakeFresh /\ ~MakeGbc
  BY <1>1, <1>2, <1>3, ShapeKept
<1>4. CASE MakeFresh
  <2>1. \A n \in Live : node'[n] = node[n]
    BY <1>1, <1>4, FreshFacts, NodeIdFacts DEF Live, Inner
  <2>2. Live \subseteq Live'
    BY <1>1, <1>4, FreshFacts
  <2> QED
    BY <2>1, <2>2
<1>5. CASE MakeGbc
  <2>1. (Collect /\ Running') \/ UNCHANGED node
    BY <1>5 DEF MakeGbc, Running
  <2>2. CASE UNCHANGED node
    BY <1>1, <1>2, <2>2, SameIfUnchanged
  <2>3. CASE Collect /\ Running'
    <3>1. Used' \subseteq Used /\ \A n \in Live' : node'[n] = node[n]
      BY <1>1, <2>3, CollectFacts
    <3>2. Live' \subseteq Live
      BY <3>1 DEF Live
    <3> QED
      BY <1>5, <2>3, <3>1, <3>2
  <2> QED
    BY <2>1, <2>2, <2>3
<1> QED
  BY <1>3, <1>4, <1>5

\* So is its value.
LEMMA ValuesKept ==
    ASSUME IInv, Canonical, Internal \/ Client
    PROVE  \A n \in Live \cap Live', a \in Assignments :
              ValueIn(node', Used', n, a) = ValueIn(node, Used, n, a)
<1>1. TableInv /\ TableInv' /\ Canonical'
  BY StillRunning, TableAlways DEF IInv
<1>2. Ranked(node, Used) /\ Ranked(node', Used')
  BY <1>1, TableRanked, TableRankedNext
<1> DEFINE S == Live \cap Live'
<1>3. S \in SUBSET NodeIds
  BY NodeIdFacts
<1>4. \A n \in S : n \in Used <=> n \in Used'
  <2>1. Live' = Terminals \cup Used'
    BY DEF Live
  <2>2. Terminals \cap Used = {} /\ Live = Terminals \cup Used
    BY NodeIdFacts DEF Live
  <2>3. Terminals \cap Used' = {}
    BY DEF Used, Inner
  <2> QED
    BY <2>1, <2>2, <2>3
<1>5. ASSUME NEW n \in S, n \in Used
      PROVE  /\ node'[n].level = node[n].level
             /\ node'[n].low = node[n].low /\ node'[n].high = node[n].high
             /\ node[n].low \in S /\ node[n].high \in S
  <2>1. /\ node'[n].level = node[n].level
        /\ node'[n].low = node[n].low /\ node'[n].high = node[n].high
    BY NodesKept
  <2>2. node[n].low \in Live /\ node[n].high \in Live
    BY <1>1, <1>5 DEF TableInv
  <2>3. node'[n].low \in Live' /\ node'[n].high \in Live'
    BY <1>1, <1>4, <1>5 DEF TableInv
  <2> QED
    BY <2>1, <2>2, <2>3
<1> HIDE DEF S
<1>6. ASSUME NEW a \in Assignments
      PROVE  \A n \in S : ValueIn(node', Used', n, a) = ValueIn(node, Used, n, a)
  BY <1>2, <1>3, <1>4, <1>5, ValuesAgree
<1> QED
  BY <1>6 DEF S

-----------------------------------------------------------------------------
(* What a call asks for, and its answer *)

\* Answers in a given table.
AnswersIn(nd, used, c, root) ==
    \A a \in Assignments :
        /\ c.op = "and" => ValueIn(nd, used, root, a) = (ValueIn(nd, used, c.l, a) /\ ValueIn(nd, used, c.r, a))
        /\ c.op = "imp" => (ValueIn(nd, used, c.l, a) => ValueIn(nd, used, c.r, a))
        /\ c.op = "aij" => (ValueIn(nd, used, c.l, a) /\ ValueIn(nd, used, c.r, a) => ValueIn(nd, used, c.t, a))
LEMMA AnswersNow == \A c, root : Answers(c, root) <=> AnswersIn(node, Used, c, root)
BY DEF Answers, AnswersIn, Value

\* The nodes a call is about.
Args(c) == {c.l, c.r} \cup IF c.op = "aij" THEN {c.t} ELSE {}

\* An answer stays one as long as the values of the nodes do not change.
LEMMA AnswersAgree ==
    ASSUME NEW nd, NEW used, NEW md, NEW vsed, NEW S,
           \A n \in S, a \in Assignments : ValueIn(md, vsed, n, a) = ValueIn(nd, used, n, a),
           NEW c, NEW root, Args(c) \subseteq S, c.op = "and" => root \in S,
           AnswersIn(nd, used, c, root)
    PROVE  AnswersIn(md, vsed, c, root)
<1> SUFFICES ASSUME NEW a \in Assignments
    PROVE  /\ c.op = "and" => ValueIn(md, vsed, root, a) = (ValueIn(md, vsed, c.l, a) /\ ValueIn(md, vsed, c.r, a))
           /\ c.op = "imp" => (ValueIn(md, vsed, c.l, a) => ValueIn(md, vsed, c.r, a))
           /\ c.op = "aij" => (ValueIn(md, vsed, c.l, a) /\ ValueIn(md, vsed, c.r, a) => ValueIn(md, vsed, c.t, a))
  BY DEF AnswersIn
<1>1. c.l \in S /\ c.r \in S /\ (c.op = "aij" => c.t \in S)
  BY DEF Args
<1>2. /\ ValueIn(md, vsed, c.l, a) = ValueIn(nd, used, c.l, a)
      /\ ValueIn(md, vsed, c.r, a) = ValueIn(nd, used, c.r, a)
      /\ c.op = "aij" => ValueIn(md, vsed, c.t, a) = ValueIn(nd, used, c.t, a)
      /\ c.op = "and" => ValueIn(md, vsed, root, a) = ValueIn(nd, used, root, a)
  BY <1>1
<1>3. /\ c.op = "and" => ValueIn(nd, used, root, a) = (ValueIn(nd, used, c.l, a) /\ ValueIn(nd, used, c.r, a))
      /\ c.op = "imp" => (ValueIn(nd, used, c.l, a) => ValueIn(nd, used, c.r, a))
      /\ c.op = "aij" => (ValueIn(nd, used, c.l, a) /\ ValueIn(nd, used, c.r, a) => ValueIn(nd, used, c.t, a))
  BY DEF AnswersIn
<1> QED
  BY <1>2, <1>3

\* A node has the value of its cofactor.
LEMMA CofactorValue ==
    ASSUME NEW nd, NEW used, Ranked(nd, used), NEW a \in Assignments, NEW lev \in 1..NumVars,
           NEW n \in NodeIds, nd[n].level = lev => n \in used
    PROVE  ValueIn(nd, used, Cofactor(nd, n, lev, IF a[lev] THEN 1 ELSE 0), a) = ValueIn(nd, used, n, a)
<1>1. CASE nd[n].level # lev
  BY <1>1 DEF Cofactor
<1>2. CASE nd[n].level = lev
  <2>1. ValueIn(nd, used, n, a) = IF a[lev] THEN ValueIn(nd, used, nd[n].high, a)
                                            ELSE ValueIn(nd, used, nd[n].low, a)
    BY <1>2, ValueStep
  <2>2. Cofactor(nd, n, lev, IF a[lev] THEN 1 ELSE 0) = IF a[lev] THEN nd[n].high ELSE nd[n].low
    BY <1>2 DEF Cofactor
  <2> QED
    BY <2>1, <2>2
<1> QED
  BY <1>1, <1>2

\* Shannon's expansion: the answers to the two halves of a call make up the
\* answer to the call.
LEMMA HalvesAnswer ==
    ASSUME NEW nd, NEW used, Ranked(nd, used), NEW lev \in 1..NumVars, NEW f, f.op \in Ops,
           \A n \in Args(f) : n \in NodeIds /\ (nd[n].level = lev => n \in used),
           NEW lo, NEW hi, NEW root,
           AnswersIn(nd, used, SubCall(nd, f, lev, 0), lo), AnswersIn(nd, used, SubCall(nd, f, lev, 1), hi),
           f.op = "and" => \A a \in Assignments : ValueIn(nd, used, root, a) =
                              IF a[lev] THEN ValueIn(nd, used, hi, a) ELSE ValueIn(nd, used, lo, a)
    PROVE  AnswersIn(nd, used, Request(f), root)
<1> SUFFICES ASSUME NEW a \in Assignments
    PROVE  /\ f.op = "and" => ValueIn(nd, used, root, a) = (ValueIn(nd, used, f.l, a) /\ ValueIn(nd, used, f.r, a))
           /\ f.op = "imp" => (ValueIn(nd, used, f.l, a) => ValueIn(nd, used, f.r, a))
           /\ f.op = "aij" => (ValueIn(nd, used, f.l, a) /\ ValueIn(nd, used, f.r, a) => ValueIn(nd, used, f.t, a))
  BY DEF AnswersIn, Request
<1> DEFINE b == IF a[lev] THEN 1 ELSE 0
           s == SubCall(nd, f, lev, b)
           h == IF a[lev] THEN hi ELSE lo
<1>1. AnswersIn(nd, used, s, h)
  OBVIOUS
<1>2. /\ s.op = f.op /\ s.l = Cofactor(nd, f.l, lev, b) /\ s.r = Cofactor(nd, f.r, lev, b)
      /\ f.op = "aij" => s.t = Cofactor(nd, f.t, lev, b)
  BY DEF SubCall
<1>3. f.l \in Args(f) /\ f.r \in Args(f) /\ (f.op = "aij" => f.t \in Args(f))
  BY DEF Args
<1>4. /\ ValueIn(nd, used, s.l, a) = ValueIn(nd, used, f.l, a)
      /\ ValueIn(nd, used, s.r, a) = ValueIn(nd, used, f.r, a)
      /\ f.op = "aij" => ValueIn(nd, used, s.t, a) = ValueIn(nd, used, f.t, a)
  BY <1>2, <1>3, CofactorValue
<1>5. f.op = "and" => ValueIn(nd, used, root, a) = ValueIn(nd, used, h, a)
  OBVIOUS
<1> HIDE DEF s, h, b
<1>6. /\ s.op = "and" => ValueIn(nd, used, h, a) = (ValueIn(nd, used, s.l, a) /\ ValueIn(nd, used, s.r, a))
      /\ s.op = "imp" => (ValueIn(nd, used, s.l, a) => ValueIn(nd, used, s.r, a))
      /\ s.op = "aij" => (ValueIn(nd, used, s.l, a) /\ ValueIn(nd, used, s.r, a) => ValueIn(nd, used, s.t, a))
  BY <1>1 DEF AnswersIn
<1>7. s.op = f.op
  BY <1>2
<1> QED
  BY <1>4, <1>5, <1>6, <1>7

\* The values of the constants.
LEMMA ConstantValues ==
    ASSUME NEW nd, NEW used, Ranked(nd, used), Terminals \cap used = {}, NEW a \in Assignments
    PROVE  ValueIn(nd, used, 0, a) = FALSE /\ ValueIn(nd, used, 1, a) = TRUE
<1>1. 0 \in NodeIds /\ 1 \in NodeIds /\ 0 \notin used /\ 1 \notin used
  BY NodeIdFacts DEF Terminals
<1>2. ValueIn(nd, used, 0, a) = (0 = 1) /\ ValueIn(nd, used, 1, a) = (1 = 1)
  BY <1>1, ValueStep
<1>3. (0 = 1) = FALSE /\ (1 = 1) = TRUE
  OBVIOUS
<1> QED
  BY <1>2, <1>3, Zenon

\* The terminal cases of the recursive functions.
LEMMA LeafAnswers ==
    ASSUME NEW nd, NEW used, Ranked(nd, used), Terminals \cap used = {},
           NEW c, c.l \in NodeIds, c.r \in NodeIds
    PROVE  /\ Sat(c) => AnswersIn(nd, used, c, 1)
           /\ AndLeaf(c) => AnswersIn(nd, used, c, AndRoot(c))
<1>1. ASSUME Sat(c), NEW a \in Assignments
      PROVE  /\ c.op # "and"
             /\ c.op = "imp" => (ValueIn(nd, used, c.l, a) => ValueIn(nd, used, c.r, a))
             /\ c.op = "aij" => (ValueIn(nd, used, c.l, a) /\ ValueIn(nd, used, c.r, a) => ValueIn(nd, used, c.t, a))
  <2>1. ValueIn(nd, used, 0, a) = FALSE /\ ValueIn(nd, used, 1, a) = TRUE
    BY ConstantValues
  <2> QED
    BY <1>1, <2>1 DEF Sat
<1>2. ASSUME AndLeaf(c), NEW a \in Assignments
      PROVE  /\ c.op = "and"
             /\ ValueIn(nd, used, AndRoot(c), a) = (ValueIn(nd, used, c.l, a) /\ ValueIn(nd, used, c.r, a))
  <2>1. ValueIn(nd, used, 0, a) = FALSE /\ ValueIn(nd, used, 1, a) = TRUE
    BY ConstantValues
  <2>2. ValueIn(nd, used, c.l, a) \in BOOLEAN /\ ValueIn(nd, used, c.r, a) \in BOOLEAN
    BY ValueStep
  <2>3. c.op = "and" /\ (c.l = c.r \/ c.l = 0 \/ c.l = 1 \/ c.r = 0 \/ c.r = 1)
    <3>1. c.l \in Nat /\ c.r \in Nat
      BY NodeIdFacts
    <3> QED
      BY <1>2, <3>1 DEF AndLeaf
  <2>4. CASE c.l = c.r
    BY <2>2, <2>3, <2>4 DEF AndRoot
  <2>5. CASE c.l # c.r /\ (c.l = 0 \/ c.r = 0)
    BY <2>1, <2>3, <2>5 DEF AndRoot
  <2>6. CASE c.l # c.r /\ c.l # 0 /\ c.r # 0 /\ c.l = 1
    BY <2>1, <2>2, <2>3, <2>6 DEF AndRoot
  <2>7. CASE c.l # c.r /\ c.l # 0 /\ c.r # 0 /\ c.l # 1
    BY <2>1, <2>2, <2>3, <2>7 DEF AndRoot
  <2> QED
    BY <2>4, <2>5, <2>6, <2>7
<1> QED
  BY <1>1, <1>2 DEF AnswersIn

\* An implication test that stands in for a degenerate call answers it.
LEMMA ServedAnswer ==
    ASSUME NEW nd, NEW used, Ranked(nd, used), Terminals \cap used = {},
           NEW c, NEW d, Serves(c, d), NEW root, AnswersIn(nd, used, c, root)
    PROVE  AnswersIn(nd, used, d, root)
<1>1. CASE c = d
  BY <1>1
<1>2. CASE Degenerate(d) /\ c = Weaker(d)
  <2>1. ASSUME NEW a \in Assignments, ValueIn(nd, used, d.l, a), ValueIn(nd, used, d.r, a)
        PROVE  ValueIn(nd, used, d.t, a)
    <3>1. ValueIn(nd, used, c.l, a) => ValueIn(nd, used, c.r, a)
      BY <1>2 DEF AnswersIn, Weaker
    <3>2. c.r = d.t /\ c.l \in {d.l, d.r}
      BY <1>2 DEF Weaker
    <3> QED
      BY <2>1, <3>1, <3>2
  <2>2. d.op = "aij"
    BY <1>2 DEF Degenerate
  <2> QED
    BY <2>1, <2>2 DEF AnswersIn
<1> QED
  BY <1>1, <1>2 DEF Serves

-----------------------------------------------------------------------------
(* The steps of the program.                                               *)

USE DEF Quiet, kernelVars

\* What the proofs about a step start from.
Before == IInv /\ OrderInv /\ OwnerInv /\ MeaningInv /\ IdsFit
After  == IInv' /\ OrderInv' /\ OwnerInv' /\ IdsFit'

LEMMA BeforeFacts ==
    ASSUME Before, Internal \/ Client
    PROVE  /\ Running /\ TopPre /\ TypeOK /\ TableInv /\ ControlInv /\ DestInv /\ RootsInv /\ StackInv
           /\ Canonical /\ LevelsInv /\ TrustedSound /\ CacheInv /\ CallsInv /\ JobInv
           /\ Ranked(node, Used) /\ XvarInv /\ FileInv /\ Terminals \cap Used = {}
<1>1. Running /\ TopPre
  BY StillRunning DEF Before, IInv, TopPre
<1>2. Canonical /\ TableInv
  BY <1>1 DEF Before, IInv, OrderInv
<1> QED
  BY <1>1, <1>2, TableRanked, OwnerParts, NodeIdFacts DEF Before, IInv, OrderInv, MeaningInv

-----------------------------------------------------------------------------
(* What is trusted *)

\* The nodes that the input clauses imply.
Trusted == {n \in Live : \A a \in Models : Value(n, a)}

LEMMA ModelsAssign == \A a \in Models : a \in Assignments
BY DEF Models

LEMMA HeldTrusted ==
    ASSUME Before, Internal \/ Client
    PROVE  \A h \in Held : handle[h].root \in Trusted
<1>1. RootsInv /\ TrustedSound /\ pc # "done"
  BY BeforeFacts DEF Running
<1> QED
  BY <1>1 DEF RootsInv, TrustedSound, Trusted

\* A node that is kept stays trusted.
LEMMA TrustedKept ==
    ASSUME IInv, Canonical, Internal \/ Client, NEW n \in Trusted, n \in Live'
    PROVE  \A a \in Models : ValueIn(node', Used', n, a)
<1>1. n \in Live /\ \A a \in Models : ValueIn(node, Used, n, a)
  BY DEF Trusted, Value
<1>2. \A a \in Models : ValueIn(node', Used', n, a) = ValueIn(node, Used, n, a)
  BY <1>1, ValuesKept, ModelsAssign
<1> QED
  BY <1>1, <1>2

\* The constant 0 is only trusted when the input clauses have no model.
LEMMA TrustedZero ==
    ASSUME Ranked(node, Used), Terminals \cap Used = {}, 0 \in Trusted
    PROVE  Models = {}
<1>1. \A a \in Models : ValueIn(node, Used, 0, a)
  BY DEF Trusted, Value
<1>2. \A a \in Models : ValueIn(node, Used, 0, a) = FALSE
  BY ConstantValues, ModelsAssign
<1> QED
  BY <1>1, <1>2

\* A clause as BDD_build_clause makes it.
LEMMA WholeClause ==
    ASSUME NEW root, Disjunction(root, {}), NEW a \in Assignments
    PROVE  Value(root, a) = SatClause(job.lits, a)
<1>1. {x \in job.lits : VarOf(x) \notin {}} = job.lits
  OBVIOUS
<1> QED
  BY <1>1 DEF Disjunction

\* The arguments of an apply operation are trusted.
LEMMA ArgsTrusted ==
    ASSUME Before, Internal \/ Client, job.kind \in ApplyKinds, NEW i \in DOMAIN job.args
    PROVE  handle[job.args[i]].root \in Trusted
<1>1. TypeOK /\ DestInv /\ JobInv
  BY BeforeFacts
<1>2. job.args \in Seq(Handles) /\ Handles \subseteq Holders
  BY <1>1, TmpFree DEF TypeOK, Jobs
<1>3. job.args[i] \in Holders
  BY <1>2
<1>4. handle[job.args[i]].root # -1
  <2>1. CASE job.kind = "check"
    <3>1. Len(job.args) = 1 /\ handle[job.args[1]].root # -1
      BY <1>1, <2>1 DEF DestInv
    <3>2. i = 1
      BY <1>2, <3>1
    <3> QED
      BY <3>1, <3>2
  <2>2. CASE job.kind # "check"
    BY <1>1, <2>2 DEF JobInv, ApplyKinds
  <2> QED
    BY <2>1, <2>2
<1> QED
  BY <1>3, <1>4, HeldTrusted DEF Held

\* The root of the trusted BDD that tbdd_and, tbdd_validate, tbdd_validate_with_and
\* and tbdd_validate_clause create is implied by those of their arguments.
FinishRoot == IF job.kind = "and" THEN ret.root ELSE job.r
LEMMA FinishTrusted ==
    ASSUME Before, FinishApply
    PROVE  FinishRoot \in Trusted
<1>1. Internal \/ Client
  BY DEF Internal
<1>2. /\ pc = "ret" /\ stack = <<>> /\ job.kind \in ApplyKinds /\ TopPre /\ CallsInv /\ JobInv /\ DestInv
      /\ TypeOK
  BY <1>1, BeforeFacts DEF FinishApply, ControlInv
<1>3. FinishRoot \in Live
  BY <1>2, FinishFacts DEF FinishRoot
<1>4. Answers(JobCall, ret.root)
  <2>1. Len(stack) = 0
    BY <1>2
  <2> QED
    BY <1>2, <2>1 DEF CallsInv, Asked
<1>5. /\ 1 \in DOMAIN job.args
      /\ job.kind \in {"and", "validateand"} => 2 \in DOMAIN job.args
  <2>1. job.args \in Seq(Handles)
    BY <1>2 DEF TypeOK, Jobs
  <2>2. Len(job.args) = IF job.kind \in {"validate", "check"} THEN 1 ELSE 2
    BY <1>2 DEF JobInv, DestInv, ApplyKinds
  <2> QED
    BY <2>1, <2>2
<1>6. ASSUME NEW a \in Models PROVE Value(FinishRoot, a)
  <2>1. a \in Assignments
    BY ModelsAssign
  <2>2. /\ Value(handle[job.args[1]].root, a)
        /\ job.kind \in {"and", "validateand"} => Value(handle[job.args[2]].root, a)
    BY <1>1, <1>2, <1>5, <1>6, ArgsTrusted DEF Trusted
  <2>3. /\ JobCall.op = "and" => Value(ret.root, a) = (Value(JobCall.l, a) /\ Value(JobCall.r, a))
        /\ JobCall.op = "imp" => (Value(JobCall.l, a) => Value(JobCall.r, a))
        /\ JobCall.op = "aij" => (Value(JobCall.l, a) /\ Value(JobCall.r, a) => Value(JobCall.t, a))
    BY <1>4, <2>1 DEF Answers
  <2>4. CASE job.kind = "and"
    BY <2>2, <2>3, <2>4 DEF JobCall, FinishRoot
  <2>5. CASE job.kind = "validateand"
    BY <2>2, <2>3, <2>5 DEF JobCall, FinishRoot
  <2>6. CASE job.kind \in {"validate", "check"}
    BY <2>2, <2>3, <2>6 DEF JobCall, FinishRoot
  <2> QED
    BY <1>2, <2>4, <2>5, <2>6 DEF ApplyKinds
<1> QED
  BY <1>3, <1>6 DEF Trusted

\* The root of the trusted BDD of an input clause is that of the clause.
LEMMA ClauseTrusted ==
    ASSUME Before, ClauseWalked
    PROVE  job.r \in Trusted
<1>1. Internal \/ Client
  BY DEF Internal
<1>2. pc = "walk" /\ job.kind = "clause" /\ JobInv /\ RootsInv
  BY <1>1, BeforeFacts DEF ClauseWalked
<1>3. job.id \in DOMAIN InputClauses /\ job.lits = InputClauses[job.id] /\ Disjunction(job.r, {})
  BY <1>2 DEF JobInv, BuildsInv, BuildKinds
<1>4. ASSUME NEW a \in Models PROVE Value(job.r, a)
  <2>1. a \in Assignments /\ SatClause(job.lits, a)
    BY <1>3 DEF Models
  <2> QED
    BY <1>3, <2>1, WholeClause
<1> QED
  BY <1>2, <1>4 DEF Trusted, RootsInv

\* Whatever the client or the package holds after a step is trusted.
LEMMA HeldNext ==
    ASSUME Before, Internal \/ Client
    PROVE  \A g \in Held' : handle'[g].root \in Trusted
<1>1. TypeOK /\ Running /\ IInv /\ TopPre /\ DestInv
  BY BeforeFacts DEF Before
<1>2. \A g : (\E h \in Held : handle'[g] = handle[h]) => handle'[g].root \in Trusted
  BY HeldTrusted
<1>3. CASE UNCHANGED handle
  BY <1>2, <1>3 DEF Held
<1>4. CASE ~Writes
  BY <1>1, <1>2, <1>4, QuietSteps DEF SameOwners
<1>5. CASE MakeFresh \/ MakeGbc \/ JustifyStep \/ Done
  BY <1>3, <1>5 DEF MakeFresh, MakeGbc, JustifyStep, Done
<1>6. ASSUME NEW dest \in Holders, NEW root \in Trusted, NEW cid,
             handle' = [handle EXCEPT ![dest] = [root |-> root, cid |-> cid]]
      PROVE  \A g \in Held' : handle'[g].root \in Trusted
  <2>1. \A g \in Holders : handle'[g] = IF g = dest THEN [root |-> root, cid |-> cid] ELSE handle[g]
    BY <1>1, <1>6 DEF TypeOK
  <2> QED
    BY <2>1, HeldTrusted DEF Held
<1>7. CASE FinishApply
  <2>1. FinishRoot \in Trusted
    BY <1>7, FinishTrusted
  <2>2. job.dest \in Holders
    BY <1>1 DEF TypeOK, Jobs
  <2>3. \E cid : handle' = [handle EXCEPT ![job.dest] = [root |-> FinishRoot, cid |-> cid]]
    BY <1>7 DEF FinishApply, FinishRoot
  <2> QED
    BY <1>6, <2>1, <2>2, <2>3
<1>8. CASE ClauseWalked
  <2>1. job.r \in Trusted
    BY <1>8, ClauseTrusted
  <2>2. job.dest \in Holders
    BY <1>1 DEF TypeOK, Jobs
  <2>3. \E cid : handle' = [handle EXCEPT ![job.dest] = [root |-> job.r, cid |-> cid]]
    BY <1>8 DEF ClauseWalked
  <2> QED
    BY <1>6, <2>1, <2>2, <2>3
<1>9. CASE CheckWalked
  <2>1. UNCHANGED handle \/ handle' = [handle EXCEPT ![Tmp] = NoTbdd]
    BY <1>9 DEF CheckWalked
  <2> QED
    BY <1>1, <1>2, <1>3, <2>1, HandleDropped, TmpFree
<1>10. CASE \E h \in Owned : Delref(h)
  <2>1. PICK h \in Owned : Delref(h)
    BY <1>10
  <2>2. handle' = [handle EXCEPT ![h] = NoTbdd] /\ h \in Holders
    BY <2>1 DEF Delref, Owned, Held
  <2> QED
    BY <1>1, <1>2, <2>2, HandleDropped
<1> QED
  BY <1>4, <1>5, <1>7, <1>8, <1>9, <1>10 DEF Writes

-----------------------------------------------------------------------------
(* What the file says *)

\* The clauses that the client gets are implied, and so is the empty one.
FileSound ==
    /\ \A i \in DOMAIN db : db[i].kind = "client" => Implied(db[i].lits)
    /\ emptyId # TAUTOLOGY => Models = {}

\* The lines of a step keep it so if they are.
LineSound(line) == (line.kind = "client" => Implied(line.lits)) /\ (line.lits = {} => Models = {})
LEMMA EmitSound ==
    ASSUME FileSound, NEW add, NEW del, Emit(add, del), \A k \in DOMAIN add : LineSound(add[k])
    PROVE  FileSound'
<1>1. CASE emptyId # TAUTOLOGY
  BY <1>1 DEF Emit, FileSound, Implied, Models, Assignments
<1>2. CASE emptyId = TAUTOLOGY
  <2> DEFINE empty == {k \in DOMAIN add : add[k].lits = {}}
             kept == IF empty = {} THEN del ELSE {}
  <2>1. /\ db' = LogSpec!Replay(db, add, kept)
        /\ empty = {} => emptyId' = TAUTOLOGY
    BY <1>2 DEF Emit
  <2>2. ASSUME NEW i \in DOMAIN db'
        PROVE  \/ i \in DOMAIN db /\ db'[i] = db[i]
               \/ \E k \in DOMAIN add : db'[i] = [lits |-> add[k].lits, kind |-> add[k].kind]
    <3> DEFINE k == CHOOSE k \in DOMAIN add : add[k].id = i
    <3> HIDE DEF kept
    <3>1. i \in (DOMAIN db \cup LogSpec!AddedIds(add)) \ kept
      BY <2>1 DEF LogSpec!Replay
    <3>2. db'[i] = IF i \in DOMAIN db THEN db[i] ELSE [lits |-> add[k].lits, kind |-> add[k].kind]
      BY <2>1, <3>1 DEF LogSpec!Replay
    <3>3. i \notin DOMAIN db => k \in DOMAIN add
      BY <3>1 DEF LogSpec!AddedIds
    <3> HIDE DEF k
    <3> QED
      BY <3>2, <3>3
  <2>3. ASSUME NEW i \in DOMAIN db', db'[i].kind = "client" PROVE Implied(db'[i].lits)
    <3>1. CASE i \in DOMAIN db /\ db'[i] = db[i]
      BY <2>3, <3>1 DEF FileSound
    <3>2. ASSUME NEW k \in DOMAIN add, db'[i] = [lits |-> add[k].lits, kind |-> add[k].kind]
          PROVE  Implied(db'[i].lits)
      BY <2>3, <3>2 DEF LineSound
    <3> QED
      BY <2>2, <3>1, <3>2
  <2>4. emptyId' # TAUTOLOGY => Models = {}
    BY <2>1 DEF LineSound
  <2> QED
    BY <2>3, <2>4 DEF FileSound, Implied, Models, Assignments
<1> QED
  BY <1>1, <1>2

\* One clause that is generated with Gen.
LEMMA GenSound ==
    ASSUME FileSound, counter \in Nat, NEW lits, NEW hints, NEW kind, NEW del,
           Emit(Gen(lits, hints, kind, 1), del),
           kind = "client" => Implied(CleanClause(lits)), CleanClause(lits) = {} => Models = {}
    PROVE  FileSound'
<1> DEFINE g == Gen(lits, hints, kind, 1)
<1>1. \A k \in DOMAIN g : g[k] = Line(counter + 1, CleanClause(lits), hints, kind)
  BY GenFacts
<1> HIDE DEF g
<1>2. \A k \in DOMAIN g : LineSound(g[k])
  BY <1>1 DEF LineSound, Line
<1>3. Emit(g, del)
  BY DEF g
<1> QED
  BY <1>2, <1>3, EmitSound

LEMMA DeleteSound ==
    ASSUME FileSound, NEW del, Emit(<<>>, del)
    PROVE  FileSound'
BY EmitSound

\* The unit clause of a trusted root is empty only if there is no model.
LEMMA UnitSound ==
    ASSUME Before, Internal \/ Client, FileSound, NEW r \in Trusted, NEW hints, NEW del,
           Emit(Gen({node[r].xvar}, hints, "unit", 1), del)
    PROVE  FileSound'
<1>1. TypeOK /\ TableInv /\ XvarInv /\ IdsFit /\ Ranked(node, Used) /\ Terminals \cap Used = {}
  BY BeforeFacts DEF Before
<1>2. r \in Live /\ counter \in Nat
  BY <1>1 DEF Trusted, TypeOK
<1>3. CleanClause({node[r].xvar}) = {} => r = 0
  BY <1>1, <1>2, UnitClause DEF TautClause
<1>4. CleanClause({node[r].xvar}) = {} => Models = {}
  BY <1>1, <1>3, TrustedZero
<1> QED
  BY <1>2, <1>4, GenSound

\* A clause of input literals is cleaned to itself.
LEMMA ClientLits ==
    ASSUME XvarInv, IdsFit, varcounter \in Nat, NEW lits \in ClientClauses
    PROVE  CleanClause(lits) = lits /\ lits # {}
<1>1. lits \subseteq Literals /\ lits # {} /\ \A x \in lits : -x \notin lits
  BY InputAssumption
<1>2. \A x \in lits : x \in Int /\ x < TAUTOLOGY /\ -TAUTOLOGY < x
  BY <1>1, SizeAssumption, TautologyAssumption DEF XvarInv, IdsFit, Literals
<1>3. TAUTOLOGY \notin lits /\ -TAUTOLOGY \notin lits
  BY <1>2, TautologyAssumption
<1> QED
  BY <1>1, <1>3 DEF CleanClause

\* A line that has a literal of its own is not empty.
LEMMA CleanedLits ==
    ASSUME NEW lits, NEW x \in lits, x # -TAUTOLOGY
    PROVE  CleanClause(lits) # {}
<1>1. x \in lits \ {-TAUTOLOGY} /\ TAUTOLOGY \in TautClause
  BY DEF TautClause
<1> QED
  BY <1>1 DEF CleanClause

\* The lines of bdd_makenode name the new extension variable.
LEMMA FreshSound ==
    ASSUME Before, IdsFit', FileSound, MakeFresh
    PROVE  FileSound'
<1>1. TypeOK /\ XvarInv
  <2>1. Internal \/ Client
    BY DEF Internal
  <2> QED
    BY <2>1, BeforeFacts
<1>2. counter \in Nat /\ varcounter \in Nat /\ TAUTOLOGY \in Nat /\ varcounter + 1 < TAUTOLOGY
  BY <1>1, TautologyAssumption DEF TypeOK, MakeFresh, IdsFit
<1>3. ASSUME NEW d \in DTypes PROVE CleanClause(FreshClause(d)) # {}
  <2> DEFINE nid == varcounter + 1
  <2>1. nid # -TAUTOLOGY /\ -nid # -TAUTOLOGY
    BY <1>2
  <2> HIDE DEF nid
  <2>2. FreshClause(d) = DefiningClause(d, nid, mk.level, node[mk.high].xvar, node[mk.low].xvar)
    BY DEF FreshClause, nid
  <2>3. nid \in FreshClause(d) \/ -nid \in FreshClause(d)
    BY <2>2 DEF DefiningClause, DTypes
  <2> QED
    BY <2>1, <2>3, CleanedLits
<1>4. \A k \in DOMAIN FreshAdd : \E d \in DTypes : FreshAdd[k] = FreshLine(d)
  BY <1>2, FreshAddFacts
<1>5. \A d \in DTypes : LineSound(FreshLine(d))
  BY <1>3 DEF LineSound, FreshLine, Line
<1> QED
  BY <1>4, <1>5, FreshEmits, EmitSound

\* Those of justify_apply name the left argument.
JustRight(j, targ, level, last) ==
    /\ \A k \in DOMAIN j.add : /\ j.add[k].kind = "just"
                               /\ j.add[k].lits \in {targ, CleanClause(targ \cup {-level})}
    /\ targ = TautClause => j.jid = TAUTOLOGY
    /\ targ # TautClause =>
          /\ j.jid \in Nat /\ last < j.jid /\ j.jid \notin j.del
          /\ \E k \in DOMAIN j.add : /\ j.add[k].id = j.jid /\ j.add[k].lits = targ
                                     /\ \A m \in DOMAIN j.add : j.add[m].id = j.jid => m = k
LEMMA JustLines ==
    ASSUME NEW nd, NEW op, NEW l, NEW r, NEW level, NEW tresl, NEW tresh, NEW res, NEW last \in Nat
    PROVE  JustRight(Justify(nd, op, l, r, level, tresl, tresh, res, last),
                     JustTarget(nd, op, l, r, res), level, last)
<1> DEFINE j == Justify(nd, op, l, r, level, tresl, tresh, res, last)
           targ  == JustTarget(nd, op, l, r, res)
           hint  == Candidates(nd, op, l, r, level, tresl, tresh, res)
           hl    == RupCheck(targ, HintHL, hint)
           lh    == RupCheck(targ, HintLH, hint)
           itarg == CleanClause(targ \cup {-level})
           extra == [hint EXCEPT !["EXTRA"] = [id |-> last + 1, lits |-> itarg]]
           first == RupCheck(itarg, HintH, hint)
           secnd == RupCheck(targ, HintL, extra)
           One(order, used) ==
               [ok |-> TRUE, jid |-> last + 1, del |-> {},
                add |-> <<Line(last + 1, targ, Antecedents(order, hint, used), "just")>>]
           none == [ok |-> TRUE, jid |-> TAUTOLOGY, del |-> {}, add |-> <<>>]
           two == [ok |-> first.ok /\ secnd.ok, jid |-> last + 2, del |-> {last + 1},
                   add |-> <<Line(last + 1, itarg, Antecedents(HintH, hint, first.used), "just"),
                             Line(last + 2, targ, Antecedents(HintL, extra, secnd.used), "just")>>]
<1> DEFINE Right == JustRight(j, targ, level, last)
<1> SUFFICES Right
  OBVIOUS
<1>1. \/ targ = TautClause /\ j = none
      \/ targ # TautClause /\ (j = One(HintHL, hl.used) \/ j = One(HintLH, lh.used) \/ j = two)
  BY DEF Justify
<1> HIDE DEF j, targ, hint, hl, lh, itarg, extra, first, secnd
<1>2. CASE targ = TautClause /\ j = none
  BY <1>2 DEF JustRight
<1>3. ASSUME NEW order, NEW used, targ # TautClause, j = One(order, used) PROVE Right
  <2>1. DOMAIN j.add = {1} /\ j.add[1].id = last + 1 /\ j.add[1].lits = targ /\ j.add[1].kind = "just"
    BY <1>3 DEF Line
  <2>2. j.jid = last + 1 /\ j.del = {}
    BY <1>3
  <2> QED
    BY <1>3, <2>1, <2>2 DEF JustRight
<1>4. CASE targ # TautClause /\ j = two
  <2>1. /\ DOMAIN j.add = {1, 2} /\ j.add[2].id = last + 2 /\ j.add[2].lits = targ
        /\ j.add[1].id = last + 1 /\ j.add[1].lits = itarg
        /\ j.add[1].kind = "just" /\ j.add[2].kind = "just"
    BY <1>4 DEF Line
  <2>2. j.jid = last + 2 /\ j.del = {last + 1}
    BY <1>4
  <2> QED
    <3>1. j.jid \in Nat /\ last < j.jid /\ j.jid \notin j.del
      BY <2>2
    <3>2. \A m \in DOMAIN j.add : j.add[m].id = j.jid => m = 2
      BY <2>1, <2>2
    <3>3. 2 \in DOMAIN j.add /\ j.add[2].id = j.jid /\ j.add[2].lits = targ
      BY <2>1, <2>2
    <3>4. \A k \in DOMAIN j.add : /\ j.add[k].kind = "just"
                                  /\ j.add[k].lits \in {targ, CleanClause(targ \cup {-level})}
      BY <2>1 DEF itarg
    <3>5. targ # TautClause
      BY <1>4
    <3> HIDE DEF j, targ
    <3>6. \E k \in DOMAIN j.add :
            /\ j.add[k].id = j.jid /\ j.add[k].lits = targ
            /\ \A m \in DOMAIN j.add : j.add[m].id = j.jid => m = k
      BY <3>2, <3>3, Zenon
    <3> QED
      BY <3>1, <3>4, <3>5, <3>6, Zenon DEF JustRight
<1> QED
  BY <1>1, <1>2, <1>3, <1>4

\* The left argument of a step that split is not a constant.
LEMMA TopSplits ==
    ASSUME Before, Internal \/ Client, stack # <<>>
    PROVE  /\ Top \in Frames /\ Splits(Request(Top)) /\ Top.l >= 2 /\ Top.r >= 2
           /\ Top.l \in Used /\ Top.r \in Used /\ {Top.l, Top.r, Top.t} \subseteq Live
<1>1. TypeOK /\ RootsInv /\ CallsInv
  BY BeforeFacts
<1>2. Top \in Frames /\ Len(stack) \in DOMAIN stack
  BY <1>1, TopFrame
<1>3. Splits(Request(Top)) /\ Request(Top) \in Calls
  BY <1>1, <1>2 DEF CallsInv, Top, Request, Frames, Calls
<1>4. Top.l >= 2 /\ Top.r >= 2
  BY <1>3, SplitArgs DEF Request
<1>5. {Top.l, Top.r, Top.t} \subseteq Live
  BY <1>1, <1>2, SafeLive DEF RootsInv, Top
<1> QED
  BY <1>2, <1>3, <1>4, <1>5 DEF Live, Terminals

LEMMA JustifySound ==
    ASSUME Before, FileSound, JustifyStep
    PROVE  FileSound'
<1>1. Internal \/ Client
  BY DEF Internal
<1>2. TypeOK /\ TableInv /\ XvarInv /\ IdsFit /\ counter \in Nat /\ stack # <<>>
  BY <1>1, BeforeFacts, JustifyFacts DEF Before, TypeOK
<1>3. CASE pc' = "exit"
  <2>1. UNCHANGED <<db, emptyId>>
    <3>1. pc' # "ret"
      BY <1>3
    <3> QED
      BY <3>1 DEF JustifyStep
  <2> QED
    BY <2>1 DEF FileSound, Implied, Models, Assignments
<1>4. CASE pc' = "ret"
  <2> DEFINE op == IF Top.op = "imp" THEN "imp" ELSE "and"
             res == IF Top.op = "aij" THEN Top.t ELSE ret.root
             j == JustOf
             targ == JustTarget(node, op, Top.l, Top.r, res)
  <2>1. Emit(j.add, j.del) /\ j = Justify(node, op, Top.l, Top.r, Top.level, Top.low, Top.high, res, counter)
    BY <1>4, JustifyFacts DEF JustOf
  <2>2. -node[Top.l].xvar # -TAUTOLOGY
    <3>1. Top.l \in Used
      BY <1>1, <1>2, TopSplits
    <3> QED
      BY <1>2, <3>1, XvarFacts
  <2>3. targ # {}
    <3>1. -node[Top.l].xvar \in TargetImply(node, Top.l, Top.r)
      BY DEF TargetImply
    <3>2. -node[Top.l].xvar \in TargetAnd(node, Top.l, Top.r, res)
      BY DEF TargetAnd
    <3> QED
      BY <2>2, <3>1, <3>2, CleanedLits DEF JustTarget
  <2>4. CleanClause(targ \cup {-Top.level}) # {}
    <3>1. Top.level \in 1..NumVars /\ NumVars < TAUTOLOGY /\ NumVars \in Nat /\ TAUTOLOGY \in Nat
      BY <1>1, <1>2, TopSplits, XvarFacts DEF Frames
    <3>2. -Top.level # -TAUTOLOGY
      BY <3>1
    <3> QED
      BY <3>2, CleanedLits
  <2> HIDE DEF op, res, j, targ
  <2>5. \A k \in DOMAIN j.add : /\ j.add[k].kind = "just"
                                /\ j.add[k].lits \in {targ, CleanClause(targ \cup {-Top.level})}
    <3>1. JustRight(j, targ, Top.level, counter)
      BY <1>2, <2>1, JustLines DEF targ
    <3> QED
      BY <3>1 DEF JustRight
  <2>6. \A k \in DOMAIN j.add : LineSound(j.add[k])
    BY <2>3, <2>4, <2>5 DEF LineSound
  <2> QED
    BY <2>1, <2>6, EmitSound
<1> QED
  BY <1>3, <1>4, JustifyFacts

\* The client's clause is implied by what is validated.
LEMMA ClaimSound ==
    ASSUME Before, FileSound, CheckWalked
    PROVE  FileSound'
<1>1. Internal \/ Client
  BY DEF Internal
<1>2. TypeOK /\ XvarInv /\ IdsFit /\ JobInv
  BY <1>1, BeforeFacts DEF Before
<1>3. pc = "walk" /\ job.kind \in {"check", "path"}
  BY DEF CheckWalked
<1>4. job.lits \in ClientClauses /\ Implied(job.lits)
  BY <1>2, <1>3 DEF JobInv, BuildsInv, BuildKinds
<1>5. CleanClause(job.lits) = job.lits /\ job.lits # {} /\ counter \in Nat
  BY <1>2, <1>4, ClientLits DEF TypeOK
<1>6. PICK del : Emit(IF job.id = -1 THEN <<>> ELSE Gen(job.lits, job.ants, "client", 1), del)
  BY DEF CheckWalked
<1>7. CASE job.id = -1
  BY <1>6, <1>7, DeleteSound
<1>8. CASE job.id # -1
  BY <1>4, <1>5, <1>6, <1>8, GenSound
<1> QED
  BY <1>7, <1>8

\* Every step keeps the file sound.
LEMMA FileSoundStep ==
    ASSUME Before, IdsFit', Internal \/ Client
    PROVE  FileSound'
<1>1. FileSound /\ IInv
  BY BeforeFacts DEF TrustedSound, FileSound, Implied, Before
<1>2. CASE ~Writes
  BY <1>1, <1>2, QuietSteps DEF SameOwners, FileSound, Implied, Models, Assignments
<1>3. CASE MakeFresh
  BY <1>1, <1>3, FreshSound
<1>4. CASE MakeGbc /\ Ordered
  BY <1>1, <1>4, DeleteSound DEF MakeGbc, Collect
<1>5. CASE JustifyStep
  BY <1>1, <1>5, JustifySound
<1>6. CASE FinishApply
  <2>1. PICK hints, del : Emit(Gen({node[FinishRoot].xvar}, hints, "unit", 1), del)
    BY <1>6 DEF FinishApply, FinishRoot
  <2>2. FinishRoot \in Trusted
    BY <1>6, FinishTrusted
  <2> QED
    BY <1>1, <2>1, <2>2, UnitSound
<1>7. CASE ClauseWalked
  <2>1. PICK hints : Emit(Gen({node[job.r].xvar}, hints, "unit", 1), {})
    BY <1>7 DEF ClauseWalked
  <2>2. job.r \in Trusted
    BY <1>7, ClauseTrusted
  <2> QED
    BY <1>1, <2>1, <2>2, UnitSound
<1>8. CASE CheckWalked
  BY <1>1, <1>8, ClaimSound
<1>9. CASE \E h \in Owned : Delref(h)
  <2>1. PICK del : Emit(<<>>, del)
    BY <1>9 DEF Delref
  <2> QED
    BY <1>1, <2>1, DeleteSound
<1>10. CASE Done
  BY <1>1, <1>10, DeleteSound DEF Done
<1> QED
  BY <1>2, <1>3, <1>4, <1>5, <1>6, <1>7, <1>8, <1>9, <1>10 DEF Writes

\* What is trusted is implied by the input clauses.
LEMMA SoundStep ==
    ASSUME Before, After, Internal \/ Client
    PROVE  TrustedSound'
<1>1. FileSound'
  BY FileSoundStep DEF After
<1>2. IInv /\ Canonical /\ RootsInv /\ (Running' => RootsInv')
  BY BeforeFacts DEF Before, After, IInv
<1>3. ASSUME pc' # "done", NEW g \in Held', NEW a \in Models
      PROVE  ValueIn(node', Used', handle'[g].root, a)
  <2>1. handle'[g].root \in Trusted
    BY HeldNext
  <2>2. handle'[g].root \in Live'
    <3>1. CASE Running'
      BY <1>2, <3>1 DEF RootsInv
    <3>2. CASE ~Running'
      BY <1>2, <2>1, <3>2, NodesKept DEF Trusted
    <3> QED
      BY <3>1, <3>2
  <2> QED
    BY <1>2, <2>1, <2>2, TrustedKept
<1> QED
  BY <1>1, <1>3 DEF TrustedSound, FileSound, Implied, Value, Models, Assignments

-----------------------------------------------------------------------------
(* What the cache says *)

\* A clause of the file stays as it is until it is deleted.
LEMMA EmitKept ==
    ASSUME NEW add, NEW del, Emit(add, del)
    PROVE  \A i \in DOMAIN db : i \in DOMAIN db' => db'[i] = db[i]
<1>1. CASE emptyId # TAUTOLOGY
  BY <1>1 DEF Emit
<1>2. CASE emptyId = TAUTOLOGY
  <2>1. PICK kept : db' = LogSpec!Replay(db, add, kept)
    BY <1>2 DEF Emit
  <2> QED
    BY <2>1 DEF LogSpec!Replay
<1> QED
  BY <1>1, <1>2
LEMMA FileKept ==
    ASSUME IInv, Internal \/ Client
    PROVE  \A i \in DOMAIN db : i \in DOMAIN db' => db'[i] = db[i]
<1>1. CASE UNCHANGED db
  BY <1>1
<1>2. CASE ~Writes
  BY <1>1, <1>2, QuietSteps DEF SameOwners
<1>3. CASE MakeFresh
  BY <1>3, EmitKept, FreshEmits
<1>4. CASE MakeGbc /\ Ordered
  BY <1>4, EmitKept DEF MakeGbc, Collect
<1>5. CASE JustifyStep /\ pc' = "ret"
  BY <1>5, EmitKept, JustifyFacts
<1>6. CASE FinishApply
  BY <1>6, EmitKept DEF FinishApply
<1>7. CASE ClauseWalked
  BY <1>7, EmitKept DEF ClauseWalked
<1>8. CASE CheckWalked
  BY <1>8, EmitKept DEF CheckWalked
<1>9. CASE \E h \in Owned : Delref(h)
  BY <1>9, EmitKept DEF Delref
<1>10. CASE Done
  BY <1>10, EmitKept DEF Done
<1> QED
  BY <1>2, <1>3, <1>4, <1>5, <1>6, <1>7, <1>8, <1>9, <1>10 DEF Writes

\* A new clause is the one that was generated.
LEMMA EmitNew ==
    ASSUME NEW add, NEW del, Emit(add, del), emptyId = TAUTOLOGY, NEW k \in DOMAIN add,
           add[k].id \notin DOMAIN db, add[k].id \notin del,
           \A m \in DOMAIN add : add[m].id = add[k].id => m = k
    PROVE  db'[add[k].id].lits = add[k].lits
<1> DEFINE i == add[k].id
           c == CHOOSE m \in DOMAIN add : add[m].id = i
<1>1. PICK kept : kept \subseteq del /\ db' = LogSpec!Replay(db, add, kept)
  <2> DEFINE empty == {m \in DOMAIN add : add[m].lits = {}}
             kept == IF empty = {} THEN del ELSE {}
  <2>1. db' = LogSpec!Replay(db, add, kept)
    BY DEF Emit
  <2> QED
    BY <2>1
<1>2. i \in (DOMAIN db \cup LogSpec!AddedIds(add)) \ kept
  BY <1>1 DEF LogSpec!AddedIds
<1>3. db'[i] = [lits |-> add[c].lits, kind |-> add[c].kind]
  BY <1>1, <1>2 DEF LogSpec!Replay
<1>4. c = k
  BY DEF i
<1> QED
  BY <1>3, <1>4

\* The entry of a slot, in a given table and file.
EntryIn(nd, used, live, base, empty, e) ==
    e.a # -1 =>
       /\ e.op \in Ops /\ (e.op = "aij" => e.c \in live)
       /\ AnswersIn(nd, used, [op |-> e.op, l |-> e.a, r |-> e.b, t |-> e.c], e.root)
       /\ e.cid # TAUTOLOGY /\ empty = TAUTOLOGY =>
             base[e.cid].lits = IF e.op = "imp" THEN JustTarget(nd, "imp", e.a, e.b, 1)
                                ELSE JustTarget(nd, "and", e.a, e.b, IF e.op = "and" THEN e.root ELSE e.c)
LEMMA CacheEntries ==
    /\ CacheInv <=> \A s \in Slots : EntryIn(node, Used, Live, db, emptyId, cache[s])
    /\ CacheInv' <=> \A s \in Slots : EntryIn(node', Used', Live', db', emptyId', cache'[s])
<1>1. CacheInv <=> \A s \in Slots : EntryIn(node, Used, Live, db, emptyId, cache[s])
  BY AnswersNow DEF CacheInv, EntryIn, EntryClause
<1>2. (CacheInv <=> \A s \in Slots : EntryIn(node, Used, Live, db, emptyId, cache[s]))'
  BY <1>1, PTL
<1> QED
  BY <1>1, <1>2

\* The literals of the nodes are all that a justification depends on.
LEMMA TargetKept ==
    ASSUME NEW nd, NEW md, NEW op, NEW l, NEW r, NEW s, op # "imp" => md[s].xvar = nd[s].xvar,
           md[l].xvar = nd[l].xvar, md[r].xvar = nd[r].xvar
    PROVE  JustTarget(md, op, l, r, s) = JustTarget(nd, op, l, r, s)
BY DEF JustTarget, TargetImply, TargetAnd

\* An entry that is kept stays right: its nodes and its clause are.
LEMMA EntryKept ==
    ASSUME Before, After, Internal \/ Client, Running', Live \subseteq Live',
           NEW s \in Slots, cache'[s] = cache[s]
    PROVE  EntryIn(node', Used', Live', db', emptyId', cache'[s])
<1> DEFINE e == cache[s]
           c == [op |-> e.op, l |-> e.a, r |-> e.b, t |-> e.c]
<1> SUFFICES ASSUME e.a # -1 PROVE EntryIn(node', Used', Live', db', emptyId', e)
  BY DEF EntryIn
<1>1. RootsInv /\ IInv /\ Canonical /\ OwnerInv /\ OwnerInv'
  BY BeforeFacts DEF Before, After, OrderInv
<1>2. EntryIn(node, Used, Live, db, emptyId, e)
  BY BeforeFacts, CacheEntries
<1>3. {e.a, e.b, e.root} \subseteq Live
  BY <1>1 DEF RootsInv
<1>4. e.op \in Ops /\ (e.op = "aij" => e.c \in Live) /\ AnswersIn(node, Used, c, e.root)
  BY <1>2 DEF EntryIn
<1>5. \A n \in Live : /\ n \in Live' /\ node'[n].xvar = node[n].xvar
                      /\ \A a \in Assignments : ValueIn(node', Used', n, a) = ValueIn(node, Used, n, a)
  BY <1>1, NodesKept, ValuesKept
<1>6. Args(c) \subseteq Live
  BY <1>3, <1>4 DEF Args
<1> HIDE DEF e
<1>7. AnswersIn(node', Used', c, e.root)
  BY <1>3, <1>4, <1>5, <1>6, AnswersAgree
<1>8. ASSUME e.cid # TAUTOLOGY, emptyId' = TAUTOLOGY
      PROVE  emptyId = TAUTOLOGY /\ db'[e.cid] = db[e.cid]
  <2>1. Going /\ emptyId = TAUTOLOGY
    BY <1>1, <1>8, GoingBefore DEF Going
  <2>2. e.cid \in CachedClauses
    BY <1>8 DEF CachedClauses, e
  <2>3. e.cid \in CachedClauses'
    BY <1>8 DEF CachedClauses, e
  <2>4. CachedClauses \subseteq KindOf("just")
    BY <1>1, <2>1 DEF OwnerInv, OneOwner, Going
  <2>5. CachedClauses' \subseteq KindOf("just")'
    BY <1>1, <1>8 DEF OwnerInv, OneOwner, Running
  <2>6. e.cid \in DOMAIN db /\ e.cid \in DOMAIN db'
    BY <2>2, <2>3, <2>4, <2>5 DEF KindOf
  <2> QED
    BY <1>1, <2>1, <2>6, FileKept
<1>9. /\ JustTarget(node', "imp", e.a, e.b, 1) = JustTarget(node, "imp", e.a, e.b, 1)
      /\ e.op = "and" => JustTarget(node', "and", e.a, e.b, e.root) = JustTarget(node, "and", e.a, e.b, e.root)
      /\ e.op = "aij" => JustTarget(node', "and", e.a, e.b, e.c) = JustTarget(node, "and", e.a, e.b, e.c)
  BY <1>3, <1>4, <1>5, TargetKept
<1>10. e.op \in {"and", "imp", "aij"}
  BY <1>4 DEF Ops
<1>11. ASSUME e.cid # TAUTOLOGY, emptyId' = TAUTOLOGY
       PROVE  db'[e.cid].lits = IF e.op = "imp" THEN JustTarget(node', "imp", e.a, e.b, 1)
                                ELSE JustTarget(node', "and", e.a, e.b, IF e.op = "and" THEN e.root ELSE e.c)
  <2>1. db[e.cid].lits = IF e.op = "imp" THEN JustTarget(node, "imp", e.a, e.b, 1)
                         ELSE JustTarget(node, "and", e.a, e.b, IF e.op = "and" THEN e.root ELSE e.c)
    BY <1>2, <1>8, <1>11 DEF EntryIn, e
  <2>2. db'[e.cid] = db[e.cid]
    BY <1>8, <1>11
  <2> QED
    BY <1>9, <1>10, <2>1, <2>2
<1> QED
  BY <1>4, <1>5, <1>7, <1>11 DEF EntryIn

\* The entry that a step of the recursion leaves is that of the call it ends.
LEMMA NewEntryRight ==
    ASSUME Before, After, JustifyStep, pc' = "ret"
    PROVE  EntryIn(node', Used', Live', db', emptyId', TopEntry)
<1> DEFINE op == IF Top.op = "imp" THEN "imp" ELSE "and"
           res == IF Top.op = "aij" THEN Top.t ELSE ret.root
           j == JustOf
           targ == JustTarget(node, op, Top.l, Top.r, res)
<1>1. Internal \/ Client
  BY DEF Internal
<1>2. /\ TypeOK /\ TableInv /\ IdsFit /\ CallsInv /\ IInv /\ counter \in Nat
      /\ stack # <<>> /\ pc = "made" /\ DOMAIN db \subseteq 1..counter
  BY <1>1, BeforeFacts, JustifyFacts DEF Before, TypeOK, IInv, IdsInv
<1>3. Top \in Frames /\ {Top.l, Top.r, Top.t} \subseteq Live
  BY <1>1, <1>2, TopSplits
<1>4. UNCHANGED node /\ Emit(j.add, j.del)
  BY JustifyFacts
<1>5. Used' = Used /\ Live' = Live
  BY <1>4, TableUnchanged
<1>6. /\ TopEntry.a = Top.l /\ TopEntry.b = Top.r /\ TopEntry.op = Top.op /\ TopEntry.root = ret.root
      /\ TopEntry.cid = j.jid /\ TopEntry.c = IF Top.op = "aij" THEN Top.t ELSE -1
  BY DEF TopEntry
<1>7. Top.op \in Ops /\ (Top.op = "aij" => TopEntry.c \in Live)
  BY <1>3, <1>6 DEF Frames
<1>8. AnswersIn(node, Used, [op |-> Top.op, l |-> Top.l, r |-> Top.r, t |-> TopEntry.c], ret.root)
  <2>1. AnswersIn(node, Used, Request(Top), ret.root)
    <3>1. Answers(Request(Top), ret.root)
      BY <1>2 DEF CallsInv, Combining
    <3> QED
      BY <3>1, AnswersNow
  <2> QED
    BY <1>6, <2>1 DEF AnswersIn, Request
<1>9. ASSUME j.jid # TAUTOLOGY, emptyId' = TAUTOLOGY PROVE db'[j.jid].lits = targ
  <2>1. j = Justify(node, op, Top.l, Top.r, Top.level, Top.low, Top.high, res, counter)
    BY DEF JustOf
  <2>2. emptyId = TAUTOLOGY
    BY <1>1, <1>2, <1>9, GoingBefore DEF Going
  <2> HIDE DEF j, targ, op, res
  <2>3. /\ j.jid \in Nat /\ counter < j.jid /\ j.jid \notin j.del
        /\ \E k \in DOMAIN j.add : /\ j.add[k].id = j.jid /\ j.add[k].lits = targ
                                   /\ \A m \in DOMAIN j.add : j.add[m].id = j.jid => m = k
    <3>1. JustRight(j, targ, Top.level, counter)
      BY <1>2, <2>1, JustLines DEF targ
    <3> QED
      BY <1>9, <3>1 DEF JustRight
  <2>4. j.jid \notin DOMAIN db
    BY <1>2, <2>3
  <2> QED
    BY <1>4, <2>2, <2>3, <2>4, EmitNew
<1>10. targ = IF Top.op = "imp" THEN JustTarget(node, "imp", Top.l, Top.r, 1)
              ELSE JustTarget(node, "and", Top.l, Top.r, IF Top.op = "and" THEN ret.root ELSE TopEntry.c)
  <2>1. CASE Top.op = "imp"
    BY <2>1 DEF JustTarget
  <2>2. CASE Top.op # "imp"
    BY <1>3, <1>6, <2>2 DEF Frames, Ops
  <2> QED
    BY <2>1, <2>2
<1> HIDE DEF targ, j
<1> QED
  BY <1>4, <1>5, <1>6, <1>7, <1>8, <1>9, <1>10 DEF EntryIn

LEMMA CacheStep ==
    ASSUME Before, After, Internal \/ Client, Running'
    PROVE  CacheInv'
<1>1. IInv /\ TypeOK /\ Running
  BY BeforeFacts DEF Before
<1>2. \A live, base, empty : EntryIn(node', Used', live, base, empty, NoEntry)
  BY DEF EntryIn, NoEntry
<1>3. CASE UNCHANGED cache /\ ~MakeGbc
  <2>1. Live \subseteq Live'
    BY <1>1, <1>3, NodesKept
  <2> QED
    BY <1>3, <2>1, EntryKept, CacheEntries
<1>4. CASE ~Writes
  <2>1. MakeGbc => ~Running'
    BY <1>4 DEF Writes, MakeGbc, Running
  <2>2. UNCHANGED cache
    BY <1>1, <1>4, QuietSteps DEF SameOwners
  <2> QED
    BY <1>3, <2>1, <2>2
<1>5. CASE MakeFresh \/ ClauseWalked \/ CheckWalked \/ \E h \in Owned : Delref(h)
  <2>1. ~MakeGbc
    BY <1>5 DEF MakeFresh, MakeGbc, ClauseWalked, CheckWalked, Delref, MustBuild
  <2>2. UNCHANGED cache
    BY <1>5 DEF MakeFresh, ClauseWalked, CheckWalked, Delref
  <2> QED
    BY <1>3, <2>1, <2>2
<1>6. CASE MakeGbc /\ Ordered
  <2>1. \A s \in Slots : cache'[s] = NoEntry
    BY <1>6 DEF MakeGbc, Collect
  <2> QED
    BY <1>2, <2>1, CacheEntries
<1>7. CASE JustifyStep /\ pc' = "ret"
  <2>1. cache' = [cache EXCEPT ![TopSlot] = TopEntry] /\ UNCHANGED node
    BY <1>7, JustifyFacts
  <2>2. Live' = Live
    BY <2>1, TableUnchanged
  <2>3. \A s \in Slots : cache'[s] = IF s = TopSlot THEN TopEntry ELSE cache[s]
    BY <1>1, <2>1 DEF TypeOK
  <2>4. EntryIn(node', Used', Live', db', emptyId', TopEntry)
    BY <1>7, NewEntryRight
  <2> QED
    BY <2>2, <2>3, <2>4, EntryKept, CacheEntries
<1>8. CASE FinishApply
  <2>1. ~MakeGbc
    BY <1>8 DEF FinishApply, MakeGbc, MustBuild
  <2>2. UNCHANGED cache \/ \A s \in Slots : cache'[s] = NoEntry
    BY <1>8 DEF FinishApply
  <2>3. CASE \A s \in Slots : cache'[s] = NoEntry
    BY <1>2, <2>3, CacheEntries
  <2> QED
    BY <1>3, <2>1, <2>2, <2>3
<1>9. CASE Done
  BY <1>9 DEF Done, Running
<1> QED
  BY <1>4, <1>5, <1>6, <1>7, <1>8, <1>9 DEF Writes

-----------------------------------------------------------------------------
(* The recursion *)

\* CallsInv in parts, for a given state of the recursion.
HighTo(stk, i) == {j \in DOMAIN stk : stk[j].half = "high" /\ j <= i}
HalfIn(nd, f, b) == SubCall(nd, f, f.level, b)
AskedIn(nd, jc, stk, i) ==
    IF i = 0 THEN jc ELSE HalfIn(nd, stk[i], IF stk[i].half = "low" THEN 0 ELSE 1)
FramesIn(nd, jc, stk) ==
    \A i \in DOMAIN stk : Splits(Request(stk[i])) /\ Serves(Request(stk[i]), AskedIn(nd, jc, stk, i - 1))
LowsIn(nd, used, stk, rs) ==
    \A i \in DOMAIN stk : stk[i].half = "high" =>
        AnswersIn(nd, used, HalfIn(nd, stk[i], 0), rs[Cardinality(HighTo(stk, i))])
NowIn(nd, used, jc, stk, p, m, c, r) ==
    /\ p = "call" => Serves(c, AskedIn(nd, jc, stk, Len(stk)))
    /\ p = "ret" => AnswersIn(nd, used, AskedIn(nd, jc, stk, Len(stk)), r.root)
    /\ stk # <<>> /\ p \in {"makenode", "grow"} =>
          /\ stk[Len(stk)].op = "and" /\ m.level = stk[Len(stk)].level
          /\ AnswersIn(nd, used, HalfIn(nd, stk[Len(stk)], 0), m.low)
          /\ AnswersIn(nd, used, HalfIn(nd, stk[Len(stk)], 1), m.high)
    /\ stk # <<>> /\ p = "made" => AnswersIn(nd, used, Request(stk[Len(stk)]), r.root)
CallsIn(nd, used, jc, stk, rs, p, m, c, r) ==
    FramesIn(nd, jc, stk) /\ LowsIn(nd, used, stk, rs) /\ NowIn(nd, used, jc, stk, p, m, c, r)

LEMMA CallsParts ==
    /\ CallsInv <=> CallsIn(node, Used, JobCall, stack, refstack, pc, mk, call, ret)
    /\ CallsInv' <=> CallsIn(node', Used', JobCall', stack', refstack', pc', mk', call', ret')
<1>1. CallsInv <=> CallsIn(node, Used, JobCall, stack, refstack, pc, mk, call, ret)
  <2>1. \A i \in DOMAIN stack : LowResult(i) = refstack[Cardinality(HighTo(stack, i))]
    <3>1. \A i \in DOMAIN stack : {j \in HighHalves : j <= i} = HighTo(stack, i)
      BY DEF HighHalves, HighTo
    <3> QED
      BY <3>1 DEF LowResult
  <2>2. \A i : Asked(i) = AskedIn(node, JobCall, stack, i)
    BY DEF Asked, AskedIn, HalfCall, HalfIn
  <2>3. FramesIn(node, JobCall, stack)
           <=> \A i \in DOMAIN stack : Splits(Request(stack[i])) /\ Serves(Request(stack[i]), Asked(i - 1))
    BY <2>2 DEF FramesIn
  <2>4. LowsIn(node, Used, stack, refstack)
           <=> \A i \in HighHalves : Answers(HalfCall(stack[i], 0), LowResult(i))
    BY <2>1, AnswersNow DEF LowsIn, HighHalves, HalfCall, HalfIn
  <2>5. NowIn(node, Used, JobCall, stack, pc, mk, call, ret)
           <=> /\ pc = "call" => Serves(call, Asked(Len(stack)))
               /\ pc = "ret" => Answers(Asked(Len(stack)), ret.root)
               /\ Combining /\ pc # "made" =>
                     /\ Top.op = "and" /\ mk.level = Top.level
                     /\ Answers(HalfCall(Top, 0), mk.low) /\ Answers(HalfCall(Top, 1), mk.high)
               /\ Combining /\ pc = "made" => Answers(Request(Top), ret.root)
    BY <2>2, AnswersNow DEF NowIn, Combining, Top, HalfCall, HalfIn
  <2> QED
    BY <2>3, <2>4, <2>5 DEF CallsInv, CallsIn
<1>2. (CallsInv <=> CallsIn(node, Used, JobCall, stack, refstack, pc, mk, call, ret))'
  BY <1>1, PTL
<1> QED
  BY <1>1, <1>2

LEMMA JobCallKept == UNCHANGED <<job, handle>> => JobCall' = JobCall
BY DEF JobCall

\* No call is under way.
LEMMA NoCalls ==
    ASSUME stack' = <<>>, pc' \notin {"call", "ret"}
    PROVE  CallsInv'
<1>1. DOMAIN stack' = {}
  OBVIOUS
<1> QED
  BY <1>1, CallsParts DEF CallsIn, FramesIn, LowsIn, NowIn

\* The variables of a call are those of nodes in the table.
LEMMA LevelsUsed ==
    /\ TableInv => \A n \in Live : node[n].level \in 1..NumVars => n \in Used
    /\ TableInv' => \A n \in Live' : node'[n].level \in 1..NumVars => n \in Used'
<1>1. TableInv => \A n \in Live : node[n].level \in 1..NumVars => n \in Used
  <2>1. \A n \in Terminals : Terminal(n).level = NumVars + 1 /\ NumVars + 1 \notin 1..NumVars
    BY SizeAssumption DEF Terminal
  <2> QED
    BY <2>1 DEF TableInv, Live
<1>2. (TableInv => \A n \in Live : node[n].level \in 1..NumVars => n \in Used)'
  BY <1>1, PTL
<1> QED
  BY <1>1, <1>2

\* The places of the pending results of the frames on bddrefstack.
LEMMA HighRanks ==
    ASSUME TypeOK, NEW i \in DOMAIN stack
    PROVE  /\ Cardinality(HighTo(stack, i)) \in Nat
           /\ Cardinality(HighTo(stack, i)) <= Cardinality(HighHalves)
           /\ stack[i].half = "high" => Cardinality(HighTo(stack, i)) >= 1
           /\ i = Len(stack) => HighTo(stack, i) = HighHalves
           /\ i < Len(stack) /\ stack[Len(stack)].half = "high" =>
                 Cardinality(HighTo(stack, i)) < Cardinality(HighHalves)
<1>1. DOMAIN stack = 1..Len(stack) /\ Len(stack) \in Nat
  BY LenProperties DEF TypeOK
<1>2. IsFiniteSet(HighHalves) /\ Cardinality(HighHalves) \in Nat
  BY HighHalvesFinite
<1>3. HighTo(stack, i) \subseteq HighHalves
  BY DEF HighTo, HighHalves
<1>4. IsFiniteSet(HighTo(stack, i)) /\ Cardinality(HighTo(stack, i)) <= Cardinality(HighHalves)
  BY <1>2, <1>3, FS_Subset
<1>5. Cardinality(HighTo(stack, i)) \in Nat
  BY <1>4, FS_CardinalityType
<1>6. stack[i].half = "high" => Cardinality(HighTo(stack, i)) # 0
  <2>1. stack[i].half = "high" => i \in HighTo(stack, i)
    BY <1>1 DEF HighTo
  <2> QED
    BY <1>4, <2>1, FS_EmptySet
<1>7. i = Len(stack) => HighTo(stack, i) = HighHalves
  BY <1>1 DEF HighTo, HighHalves
<1>8. ASSUME i < Len(stack), stack[Len(stack)].half = "high"
      PROVE  Cardinality(HighTo(stack, i)) < Cardinality(HighHalves)
  <2> DEFINE len == Len(stack)
             Rest == HighHalves \ {len}
  <2>1. len \in HighHalves
    BY <1>1, <1>8 DEF HighHalves
  <2>2. HighTo(stack, i) \subseteq Rest
    BY <1>1, <1>8 DEF HighTo, HighHalves
  <2>3. IsFiniteSet(Rest) /\ Cardinality(Rest) = Cardinality(HighHalves) - 1
    BY <1>2, <2>1, FS_RemoveElement
  <2> HIDE DEF Rest
  <2>4. Cardinality(HighTo(stack, i)) <= Cardinality(Rest)
    BY <2>2, <2>3, FS_Subset
  <2> QED
    BY <1>2, <1>5, <2>3, <2>4
<1> QED
  BY <1>2, <1>4, <1>5, <1>6, <1>7, <1>8

\* What a step starts from, and has to leave, when it keeps the table and the job.
Here(stk, rs, p, m, c, r) == CallsIn(node, Used, JobCall, stk, rs, p, m, c, r)
LEMMA CallsBefore ==
    ASSUME Before, Internal \/ Client
    PROVE  /\ FramesIn(node, JobCall, stack) /\ LowsIn(node, Used, stack, refstack)
           /\ NowIn(node, Used, JobCall, stack, pc, mk, call, ret)
           /\ stack \in Seq(Frames) /\ Len(stack) \in Nat /\ DOMAIN stack = 1..Len(stack)
           /\ refstack \in Seq(NodeIds) /\ Len(refstack) \in Nat /\ DOMAIN refstack = 1..Len(refstack)
           /\ Len(refstack) = Cardinality(HighHalves) + IF Combining THEN 1 ELSE 0
           /\ Cardinality(HighHalves) \in Nat
<1>1. TypeOK /\ CallsInv /\ StackInv
  BY BeforeFacts
<1>2. CallsIn(node, Used, JobCall, stack, refstack, pc, mk, call, ret)
  BY <1>1, CallsParts
<1> QED
  BY <1>1, <1>2, LenProperties, HighHalvesFinite DEF CallsIn, TypeOK, StackInv
LEMMA CallsHere ==
    ASSUME UNCHANGED <<node, job, handle>>
    PROVE  CallsInv' <=> Here(stack', refstack', pc', mk', call', ret')
<1>1. Used' = Used /\ JobCall' = JobCall
  BY TableUnchanged, JobCallKept
<1> QED
  BY <1>1, CallsParts DEF Here

\* A terminal case or a cache hit is the answer.
LEMMA EnterLeafCalls ==
    ASSUME Before, EnterLeaf
    PROVE  CallsInv'
<1>1. Internal \/ Client
  BY DEF Internal
<1>2. /\ TypeOK /\ CacheInv /\ Ranked(node, Used) /\ Terminals \cap Used = {}
      /\ pc = "call" /\ pc' = "ret" /\ UNCHANGED <<node, job, handle, stack, refstack, mk, call>>
  BY <1>1, BeforeFacts DEF EnterLeaf
<1>3. call.l \in NodeIds /\ call.r \in NodeIds /\ call.t \in NodeIds /\ call.op \in Ops
  BY <1>2 DEF TypeOK, Calls
<1>4. AnswersIn(node, Used, call, ret'.root)
  <2>1. CASE Sat(call) /\ ret'.root = 1
    BY <1>2, <1>3, <2>1, LeafAnswers
  <2>2. CASE AndLeaf(call) /\ ret'.root = AndRoot(call)
    BY <1>2, <1>3, <2>2, LeafAnswers
  <2>3. CASE Hits /\ ret'.root = Entry.root
    <3> DEFINE e == Entry
    <3>1. EntryIn(node, Used, Live, db, emptyId, e)
      <4>1. Slot(call.op, call.l, call.r, call.t) \in Slots
        BY <1>3, SlotType
      <4> QED
        BY <1>2, <4>1, CacheEntries DEF Entry
    <3> HIDE DEF e
    <3>2. e.a = call.l /\ e.b = call.r /\ e.op = call.op /\ (call.op = "aij" => e.c = call.t)
      BY <2>3 DEF Hits, e
    <3>3. e.a # -1
      BY <1>3, <3>2, NodeIdFacts
    <3>4. AnswersIn(node, Used, [op |-> e.op, l |-> e.a, r |-> e.b, t |-> e.c], e.root)
      BY <3>1, <3>3 DEF EntryIn
    <3>5. ret'.root = e.root
      BY <2>3 DEF e
    <3> QED
      BY <3>2, <3>4, <3>5 DEF AnswersIn
  <2> QED
    BY <2>1, <2>2, <2>3 DEF EnterLeaf
<1>5. /\ FramesIn(node, JobCall, stack) /\ LowsIn(node, Used, stack, refstack)
      /\ Serves(call, AskedIn(node, JobCall, stack, Len(stack)))
  BY <1>1, <1>2, CallsBefore DEF NowIn
<1>6. AnswersIn(node, Used, AskedIn(node, JobCall, stack, Len(stack)), ret'.root)
  BY <1>2, <1>4, <1>5, ServedAnswer
<1>7. NowIn(node, Used, JobCall, stack', pc', mk', call', ret')
  BY <1>2, <1>6 DEF NowIn
<1> QED
  BY <1>2, <1>5, <1>7, CallsHere DEF Here, CallsIn

\* The implication test that stands in for a call serves who asked for it.
LEMMA EnterDegenerateCalls ==
    ASSUME Before, EnterDegenerate
    PROVE  CallsInv'
<1>1. Internal \/ Client
  BY DEF Internal
<1>2. /\ pc = "call" /\ pc' = "call" /\ UNCHANGED <<node, job, handle, stack, refstack, mk, ret>>
      /\ Degenerate(call) /\ call' = Weaker(call)
  BY DEF EnterDegenerate
<1> DEFINE d == AskedIn(node, JobCall, stack, Len(stack))
<1>3. FramesIn(node, JobCall, stack) /\ LowsIn(node, Used, stack, refstack) /\ Serves(call, d)
  BY <1>1, <1>2, CallsBefore DEF NowIn
<1> HIDE DEF d
<1>4. call = d
  <2>1. call.op = "aij" /\ Weaker(d).op = "imp"
    BY <1>2 DEF Degenerate, Weaker
  <2>2. call # Weaker(d)
    BY <2>1
  <2> QED
    BY <1>3, <2>2 DEF Serves
<1>5. Serves(call', d)
  BY <1>2, <1>4 DEF Serves
<1>6. NowIn(node, Used, JobCall, stack', pc', mk', call', ret')
  BY <1>2, <1>5 DEF NowIn, d
<1> QED
  BY <1>2, <1>3, <1>6, CallsHere DEF Here, CallsIn

\* Frames that differ in their results only ask for the same.
SameFrame(f, g) == g.op = f.op /\ g.l = f.l /\ g.r = f.r /\ g.t = f.t /\ g.level = f.level
LEMMA SameFrameAsks ==
    ASSUME NEW f, NEW g, SameFrame(f, g)
    PROVE  Request(g) = Request(f) /\ \A nd, b : HalfIn(nd, g, b) = HalfIn(nd, f, b)
BY DEF SameFrame, Request, HalfIn, SubCall

\* A call that splits becomes a frame, and asks for its low half.
LEMMA EnterMissCalls ==
    ASSUME Before, EnterMiss
    PROVE  CallsInv'
<1> DEFINE f == Frame(call)
           len == Len(stack)
<1>1. Internal \/ Client
  BY DEF Internal
<1>2. /\ pc = "call" /\ pc' = "call" /\ UNCHANGED <<node, job, handle, refstack, mk, ret>>
      /\ stack' = Append(stack, f) /\ call' = SubCall(node, f, f.level, 0) /\ Splits(call)
  BY DEF EnterMiss, CallCofactor
<1>3. TypeOK /\ TableInv /\ RootsInv /\ ControlInv
  BY <1>1, BeforeFacts
<1>4. f \in Frames /\ f.half = "low"
  BY <1>2, <1>3, FrameType DEF RootsInv, TypeOK, ApplyPcs
<1>5. Request(f) = call
  BY <1>3 DEF Request, Frame, TypeOK, Calls
<1>6. /\ FramesIn(node, JobCall, stack) /\ LowsIn(node, Used, stack, refstack)
      /\ Serves(call, AskedIn(node, JobCall, stack, len))
      /\ stack \in Seq(Frames) /\ len \in Nat /\ DOMAIN stack = 1..len
  BY <1>1, <1>2, CallsBefore DEF NowIn
<1> HIDE DEF f
<1>7. /\ DOMAIN stack' = 1..(len + 1) /\ Len(stack') = len + 1
      /\ stack'[len + 1] = f /\ \A i \in 1..len : stack'[i] = stack[i]
  <2>1. stack' \in Seq(Frames) /\ Len(stack') = len + 1
    BY <1>2, <1>4, <1>6, AppendProperties
  <2>2. \A i \in 1..(len + 1) : stack'[i] = IF i <= len THEN stack[i] ELSE f
    BY <1>2, <1>4, <1>6, AppendProperties
  <2> QED
    BY <1>6, <2>1, <2>2, LenProperties
<1> HIDE DEF len
<1>8. \A i \in 0..len : AskedIn(node, JobCall, stack', i) = AskedIn(node, JobCall, stack, i)
  BY <1>6, <1>7 DEF AskedIn
<1>9. FramesIn(node, JobCall, stack')
  <2> SUFFICES ASSUME NEW i \in 1..(len + 1)
               PROVE  Splits(Request(stack'[i])) /\ Serves(Request(stack'[i]), AskedIn(node, JobCall, stack', i - 1))
    BY <1>7 DEF FramesIn
  <2>1. AskedIn(node, JobCall, stack', i - 1) = AskedIn(node, JobCall, stack, i - 1)
    BY <1>6, <1>8
  <2>2. CASE i = len + 1
    BY <1>2, <1>5, <1>6, <1>7, <2>1, <2>2
  <2>3. CASE i \in 1..len
    BY <1>6, <1>7, <2>1, <2>3 DEF FramesIn
  <2> QED
    BY <1>6, <2>2, <2>3
<1>10. LowsIn(node, Used, stack', refstack)
  <2> SUFFICES ASSUME NEW i \in 1..(len + 1), stack'[i].half = "high"
               PROVE  AnswersIn(node, Used, HalfIn(node, stack'[i], 0), refstack[Cardinality(HighTo(stack', i))])
    BY <1>7 DEF LowsIn
  <2>1. i \in 1..len
    BY <1>4, <1>6, <1>7
  <2>2. HighTo(stack', i) = HighTo(stack, i)
    BY <1>4, <1>6, <1>7, <2>1 DEF HighTo
  <2> QED
    BY <1>6, <1>7, <2>1, <2>2 DEF LowsIn
<1>11. call' = AskedIn(node, JobCall, stack', Len(stack'))
  BY <1>2, <1>4, <1>6, <1>7 DEF AskedIn, HalfIn
<1>12. NowIn(node, Used, JobCall, stack', pc', mk', call', ret')
  BY <1>2, <1>11 DEF NowIn, Serves
<1> QED
  BY <1>2, <1>9, <1>10, <1>12, CallsHere DEF Here, CallsIn

\* The low result is pending when the high half is asked for.
LEMMA ReturnLowCalls ==
    ASSUME Before, ReturnLow
    PROVE  CallsInv'
<1> DEFINE len == Len(stack)
           g == [stack[len] EXCEPT !.half = "high", !.low = ret]
<1>1. Internal \/ Client
  BY DEF Internal
<1>2. /\ pc = "ret" /\ pc' = "call" /\ UNCHANGED <<node, job, handle, mk, ret>> /\ stack # <<>>
      /\ Top.half = "low" /\ refstack' = Append(refstack, ret.root)
      /\ stack' = [stack EXCEPT ![Len(stack)].half = "high", ![Len(stack)].low = ret]
      /\ call' = SubCall(node, Top, Top.level, 1)
  BY DEF ReturnLow, CallCofactor
<1>3. TypeOK /\ ret \in Pcbdd /\ ret.root \in NodeIds
  BY <1>1, BeforeFacts DEF TypeOK, Pcbdd
<1>4. /\ FramesIn(node, JobCall, stack) /\ LowsIn(node, Used, stack, refstack)
      /\ AnswersIn(node, Used, AskedIn(node, JobCall, stack, len), ret.root)
      /\ stack \in Seq(Frames) /\ len \in Nat /\ DOMAIN stack = 1..len
      /\ refstack \in Seq(NodeIds) /\ Len(refstack) \in Nat
      /\ Len(refstack) = Cardinality(HighHalves) /\ Cardinality(HighHalves) \in Nat
  BY <1>1, <1>2, CallsBefore DEF NowIn, Combining
<1>5. Top = stack[len] /\ Top \in Frames /\ len \in 1..len
  BY <1>3, <1>2, <1>4, TopFrame DEF Top
<1>6. /\ DOMAIN stack' = 1..len /\ Len(stack') = len
      /\ stack'[len] = g /\ \A i \in 1..len : i # len => stack'[i] = stack[i]
  <2>1. stack' = [stack EXCEPT ![len] = g]
    BY <1>2, <1>4, <1>5
  <2>2. g \in Frames
    BY <1>3, <1>5 DEF Frames
  <2> HIDE DEF g
  <2>3. stack' \in Seq(Frames) /\ Len(stack') = len
    BY <1>4, <1>5, <2>1, <2>2, ExceptSeq
  <2> QED
    BY <1>4, <1>5, <2>1, <2>3
<1>7. SameFrame(stack[len], g) /\ g.half = "high"
  BY <1>5 DEF SameFrame, Frames
<1> HIDE DEF g, len
<1>8. \A i \in 1..len : SameFrame(stack[i], stack'[i])
  <2>1. \A i \in 1..len : i = len \/ stack'[i] = stack[i]
    BY <1>6
  <2> QED
    BY <1>6, <1>7, <2>1 DEF SameFrame
<1>9. \A i \in 0..(len - 1) : AskedIn(node, JobCall, stack', i) = AskedIn(node, JobCall, stack, i)
  BY <1>4, <1>6 DEF AskedIn
<1>10. FramesIn(node, JobCall, stack')
  <2> SUFFICES ASSUME NEW i \in 1..len
               PROVE  Splits(Request(stack'[i])) /\ Serves(Request(stack'[i]), AskedIn(node, JobCall, stack', i - 1))
    BY <1>6 DEF FramesIn
  <2>1. AskedIn(node, JobCall, stack', i - 1) = AskedIn(node, JobCall, stack, i - 1)
    BY <1>4, <1>9
  <2>2. Request(stack'[i]) = Request(stack[i])
    BY <1>8, SameFrameAsks
  <2> QED
    BY <1>4, <2>1, <2>2 DEF FramesIn
<1>11. \A i \in 1..Len(refstack) : refstack'[i] = refstack[i]
  BY <1>2, <1>3, <1>4, AppendProperties
<1>12. refstack'[Len(refstack) + 1] = ret.root
  BY <1>2, <1>3, <1>4, AppendProperties
<1>13. LowsIn(node, Used, stack', refstack')
  <2> SUFFICES ASSUME NEW i \in 1..len, stack'[i].half = "high"
               PROVE  AnswersIn(node, Used, HalfIn(node, stack'[i], 0), refstack'[Cardinality(HighTo(stack', i))])
    BY <1>6 DEF LowsIn
  <2>1. HalfIn(node, stack'[i], 0) = HalfIn(node, stack[i], 0)
    BY <1>8, SameFrameAsks
  <2>2. CASE i # len
    <3>1. HighTo(stack', i) = HighTo(stack, i) /\ stack[i].half = "high"
      BY <1>4, <1>6, <2>2 DEF HighTo
    <3>2. i \in DOMAIN stack
      BY <1>4
    <3>3. Cardinality(HighTo(stack, i)) \in 1..Len(refstack)
      <4>1. /\ Cardinality(HighTo(stack, i)) \in Nat /\ Cardinality(HighTo(stack, i)) >= 1
            /\ Cardinality(HighTo(stack, i)) <= Cardinality(HighHalves)
        BY <1>3, <3>1, <3>2, HighRanks
      <4> QED
        BY <1>4, <4>1
    <3> QED
      BY <1>4, <1>11, <2>1, <3>1, <3>2, <3>3 DEF LowsIn
  <2>3. CASE i = len
    <3>1. HighTo(stack', i) = HighHalves \cup {len}
      BY <1>4, <1>5, <1>6, <1>7, <2>3 DEF HighTo, HighHalves
    <3>2. len \notin HighHalves /\ IsFiniteSet(HighHalves)
      BY <1>2, <1>3, <1>5, HighHalvesFinite DEF HighHalves
    <3>3. Cardinality(HighHalves \cup {len}) = Len(refstack) + 1
      BY <1>4, <3>2, FS_AddElement
    <3>4. AskedIn(node, JobCall, stack, len) = HalfIn(node, stack[len], 0)
      BY <1>2, <1>4, <1>5 DEF AskedIn
    <3> QED
      BY <1>4, <1>12, <2>1, <2>3, <3>1, <3>3, <3>4
  <2> QED
    BY <2>2, <2>3
<1>14. call' = AskedIn(node, JobCall, stack', Len(stack'))
  <2>1. HalfIn(node, g, 1) = HalfIn(node, stack[len], 1)
    BY <1>7, SameFrameAsks
  <2>2. call' = HalfIn(node, stack[len], 1)
    BY <1>2, <1>5 DEF HalfIn
  <2>3. len # 0
    BY <1>4, <1>5
  <2>4. AskedIn(node, JobCall, stack', len) = HalfIn(node, g, 1)
    BY <1>6, <1>7, <2>3 DEF AskedIn
  <2> QED
    BY <1>6, <2>1, <2>2, <2>4
<1>15. NowIn(node, Used, JobCall, stack', pc', mk', call', ret')
  BY <1>2, <1>14 DEF NowIn, Serves
<1> QED
  BY <1>2, <1>10, <1>13, <1>15, CallsHere DEF Here, CallsIn

\* What the halves make up is combined, or the implication has been tested.
LEMMA ReturnHighCalls ==
    ASSUME Before, ReturnHigh
    PROVE  CallsInv'
<1> DEFINE len == Len(stack)
           g == [stack[len] EXCEPT !.high = ret]
<1>1. Internal \/ Client
  BY DEF Internal
<1>2. /\ pc = "ret" /\ UNCHANGED <<node, job, handle, call>> /\ stack # <<>>
      /\ Top.half = "high" /\ refstack' = Append(refstack, ret.root)
      /\ stack' = [stack EXCEPT ![Len(stack)].high = ret]
      /\ \/ /\ Top.op = "and" /\ pc' = "makenode"
            /\ mk' = [level |-> Top.level, low |-> refstack[Len(refstack)], high |-> ret.root]
         \/ Top.op # "and" /\ pc' = "made"
  BY DEF ReturnHigh
<1>3. /\ TypeOK /\ TableInv /\ RootsInv /\ Ranked(node, Used) /\ ret \in Pcbdd /\ ret.root \in NodeIds
  BY <1>1, BeforeFacts DEF TypeOK, Pcbdd
<1>4. /\ FramesIn(node, JobCall, stack) /\ LowsIn(node, Used, stack, refstack)
      /\ AnswersIn(node, Used, AskedIn(node, JobCall, stack, len), ret.root)
      /\ stack \in Seq(Frames) /\ len \in Nat /\ DOMAIN stack = 1..len
      /\ refstack \in Seq(NodeIds) /\ Len(refstack) \in Nat
      /\ Len(refstack) = Cardinality(HighHalves) /\ Cardinality(HighHalves) \in Nat
  BY <1>1, <1>2, CallsBefore DEF NowIn, Combining
<1>5. Top = stack[len] /\ Top \in Frames /\ len \in 1..len
  BY <1>3, <1>2, <1>4, TopFrame DEF Top
<1>6. /\ DOMAIN stack' = 1..len /\ Len(stack') = len
      /\ stack'[len] = g /\ \A i \in 1..len : i # len => stack'[i] = stack[i]
  <2>1. stack' = [stack EXCEPT ![len] = g]
    BY <1>2, <1>4, <1>5
  <2>2. g \in Frames
    BY <1>3, <1>5 DEF Frames
  <2> HIDE DEF g
  <2>3. stack' \in Seq(Frames) /\ Len(stack') = len
    BY <1>4, <1>5, <2>1, <2>2, ExceptSeq
  <2> QED
    BY <1>4, <1>5, <2>1, <2>3
<1>7. SameFrame(stack[len], g) /\ g.half = "high" /\ stack[len].half = "high"
  BY <1>2, <1>5 DEF SameFrame, Frames
<1> HIDE DEF g, len
<1>8. \A i \in 1..len : SameFrame(stack[i], stack'[i]) /\ stack'[i].half = stack[i].half
  <2>1. \A i \in 1..len : i = len \/ stack'[i] = stack[i]
    BY <1>6
  <2> QED
    BY <1>6, <1>7, <2>1 DEF SameFrame
<1>9. \A i \in 0..(len - 1) : AskedIn(node, JobCall, stack', i) = AskedIn(node, JobCall, stack, i)
  BY <1>4, <1>6 DEF AskedIn
<1>10. FramesIn(node, JobCall, stack')
  <2> SUFFICES ASSUME NEW i \in 1..len
               PROVE  Splits(Request(stack'[i])) /\ Serves(Request(stack'[i]), AskedIn(node, JobCall, stack', i - 1))
    BY <1>6 DEF FramesIn
  <2>1. AskedIn(node, JobCall, stack', i - 1) = AskedIn(node, JobCall, stack, i - 1)
    BY <1>4, <1>9
  <2>2. Request(stack'[i]) = Request(stack[i])
    BY <1>8, SameFrameAsks
  <2> QED
    BY <1>4, <2>1, <2>2 DEF FramesIn
<1>11. \A i \in 1..Len(refstack) : refstack'[i] = refstack[i]
  BY <1>2, <1>3, <1>4, AppendProperties
<1>12. LowsIn(node, Used, stack', refstack')
  <2> SUFFICES ASSUME NEW i \in 1..len, stack'[i].half = "high"
               PROVE  AnswersIn(node, Used, HalfIn(node, stack'[i], 0), refstack'[Cardinality(HighTo(stack', i))])
    BY <1>6 DEF LowsIn
  <2>1. HalfIn(node, stack'[i], 0) = HalfIn(node, stack[i], 0)
    BY <1>8, SameFrameAsks
  <2>2. HighTo(stack', i) = HighTo(stack, i) /\ stack[i].half = "high" /\ i \in DOMAIN stack
    BY <1>4, <1>6, <1>8 DEF HighTo
  <2>3. Cardinality(HighTo(stack, i)) \in 1..Len(refstack)
    <3>1. /\ Cardinality(HighTo(stack, i)) \in Nat /\ Cardinality(HighTo(stack, i)) >= 1
          /\ Cardinality(HighTo(stack, i)) <= Cardinality(HighHalves)
      BY <1>3, <2>2, HighRanks
    <3> QED
      BY <1>4, <3>1
  <2> QED
    BY <1>4, <1>11, <2>1, <2>2, <2>3 DEF LowsIn
<1>13. AnswersIn(node, Used, HalfIn(node, stack[len], 0), refstack[Len(refstack)])
  <2>1. HighTo(stack, len) = HighHalves
    BY <1>3, <1>4, <1>5, HighRanks DEF len
  <2> QED
    BY <1>4, <1>5, <1>7, <2>1 DEF LowsIn
<1>14. AnswersIn(node, Used, HalfIn(node, stack[len], 1), ret.root)
  <2>1. AskedIn(node, JobCall, stack, len) = HalfIn(node, stack[len], 1)
    BY <1>4, <1>5, <1>7 DEF AskedIn
  <2> QED
    BY <1>4, <2>1
<1>15. \A b : HalfIn(node, g, b) = HalfIn(node, stack[len], b)
  BY <1>7, SameFrameAsks
<1>16. CASE Top.op = "and" /\ pc' = "makenode"
  <2>1. mk'.level = Top.level /\ mk'.low = refstack[Len(refstack)] /\ mk'.high = ret.root
    BY <1>2, <1>16
  <2>2. g.op = "and" /\ g.level = Top.level
    BY <1>5, <1>7, <1>16 DEF SameFrame
  <2>3. NowIn(node, Used, JobCall, stack', pc', mk', call', ret')
    BY <1>6, <1>13, <1>14, <1>15, <1>16, <2>1, <2>2 DEF NowIn
  <2> QED
    BY <1>2, <1>10, <1>12, <2>3, CallsHere DEF Here, CallsIn
<1>17. CASE Top.op # "and" /\ pc' = "made"
  <2> DEFINE f == stack[len]
  <2>1. f.op \in Ops /\ f.op # "and" /\ f.level \in 1..NumVars /\ {f.l, f.r, f.t} \subseteq Live
    BY <1>3, <1>4, <1>5, <1>17, SafeLive DEF Frames, RootsInv
  <2>2. \A n \in Args(f) : n \in NodeIds /\ (node[n].level = f.level => n \in Used)
    BY <1>3, <2>1, LevelsUsed, NodeIdFacts DEF Args
  <2>3. AnswersIn(node, Used, SubCall(node, f, f.level, 0), refstack[Len(refstack)])
        /\ AnswersIn(node, Used, SubCall(node, f, f.level, 1), ret.root)
    BY <1>13, <1>14 DEF HalfIn
  <2> HIDE DEF f
  <2>4. AnswersIn(node, Used, Request(f), ret'.root)
    BY <1>3, <2>1, <2>2, <2>3, HalvesAnswer
  <2>5. Request(g) = Request(f)
    BY <1>7, SameFrameAsks DEF f
  <2>6. NowIn(node, Used, JobCall, stack', pc', mk', call', ret')
    BY <1>6, <1>17, <2>4, <2>5 DEF NowIn
  <2> QED
    BY <1>2, <1>10, <1>12, <2>6, CallsHere DEF Here, CallsIn
<1> QED
  BY <1>2, <1>16, <1>17

\* The frame that ends passes its answer on to the one below.
LEMMA JustifyCalls ==
    ASSUME Before, JustifyStep, pc' = "ret"
    PROVE  CallsInv'
<1> DEFINE len == Len(stack)
<1>1. Internal \/ Client
  BY DEF Internal
<1>2. /\ stack # <<>> /\ pc = "made" /\ UNCHANGED <<node, job, handle, mk, call>>
      /\ refstack' = Popped /\ stack' = SubSeq(stack, 1, Len(stack) - 1) /\ ret'.root = ret.root
  BY <1>1, BeforeFacts DEF JustifyStep, TypeOK, Pcbdd
<1>3. TypeOK /\ StackInv /\ Ranked(node, Used) /\ Terminals \cap Used = {}
  BY <1>1, BeforeFacts
<1>4. /\ FramesIn(node, JobCall, stack) /\ LowsIn(node, Used, stack, refstack)
      /\ AnswersIn(node, Used, Request(stack[len]), ret.root)
      /\ stack \in Seq(Frames) /\ len \in Nat /\ DOMAIN stack = 1..len
      /\ refstack \in Seq(NodeIds) /\ Len(refstack) \in Nat /\ DOMAIN refstack = 1..Len(refstack)
      /\ Len(refstack) = Cardinality(HighHalves) + 1 /\ Cardinality(HighHalves) \in Nat
  BY <1>1, <1>2, CallsBefore DEF NowIn, Combining
<1>5. len \in 1..len /\ stack[len].half = "high"
  BY <1>2, <1>3, <1>4, TopFrame DEF Top, StackInv, Combining
<1>6. Len(stack') = len - 1 /\ DOMAIN stack' = 1..(len - 1) /\ \A i \in 1..(len - 1) : stack'[i] = stack[i]
  BY <1>2, <1>3, ShorterStack
<1> HIDE DEF len
<1>7. \A i \in 0..(len - 1) : AskedIn(node, JobCall, stack', i) = AskedIn(node, JobCall, stack, i)
  BY <1>4, <1>6 DEF AskedIn
<1>8. FramesIn(node, JobCall, stack')
  <2> SUFFICES ASSUME NEW i \in 1..(len - 1)
               PROVE  Splits(Request(stack'[i])) /\ Serves(Request(stack'[i]), AskedIn(node, JobCall, stack', i - 1))
    BY <1>6 DEF FramesIn
  <2>1. AskedIn(node, JobCall, stack', i - 1) = AskedIn(node, JobCall, stack, i - 1)
    BY <1>4, <1>7
  <2>2. i \in DOMAIN stack
    BY <1>4
  <2> QED
    BY <1>4, <1>6, <2>1, <2>2 DEF FramesIn
<1>9. \A k \in 1..(Len(refstack) - 2) : Popped[k] = refstack[k]
  <2> TAKE k \in 1..(Len(refstack) - 2)
  <2>1. /\ 1 \in Nat /\ \A i \in 1..(Len(refstack) - 2) : refstack[i] \in NodeIds
    BY <1>4, ElementOfSeq
  <2>2. \A i \in 1..(Len(refstack) - 2 - 1 + 1) : Popped[i] = refstack[1 + i - 1]
    BY <1>4, <2>1, SubSeqProperties DEF Popped
  <2>3. k \in 1..(Len(refstack) - 2 - 1 + 1) /\ 1 + k - 1 = k
    BY <1>4
  <2> QED
    BY <2>2, <2>3
<1>10. LowsIn(node, Used, stack', refstack')
  <2> SUFFICES ASSUME NEW i \in 1..(len - 1), stack'[i].half = "high"
               PROVE  AnswersIn(node, Used, HalfIn(node, stack'[i], 0), refstack'[Cardinality(HighTo(stack', i))])
    BY <1>6 DEF LowsIn
  <2>1. HighTo(stack', i) = HighTo(stack, i) /\ stack[i].half = "high" /\ i \in DOMAIN stack /\ i < len
    BY <1>4, <1>6 DEF HighTo
  <2>2. Cardinality(HighTo(stack, i)) \in 1..(Len(refstack) - 2)
    <3>1. /\ Cardinality(HighTo(stack, i)) \in Nat /\ Cardinality(HighTo(stack, i)) >= 1
          /\ Cardinality(HighTo(stack, i)) < Cardinality(HighHalves)
      BY <1>3, <1>5, <2>1, HighRanks DEF len
    <3> QED
      BY <1>4, <3>1
  <2> QED
    BY <1>2, <1>4, <1>6, <1>9, <2>1, <2>2 DEF LowsIn
<1>11. AnswersIn(node, Used, AskedIn(node, JobCall, stack, len - 1), ret.root)
  <2>1. Serves(Request(stack[len]), AskedIn(node, JobCall, stack, len - 1))
    BY <1>4, <1>5 DEF FramesIn
  <2> QED
    BY <1>3, <1>4, <2>1, ServedAnswer
<1>12. AskedIn(node, JobCall, stack', Len(stack')) = AskedIn(node, JobCall, stack, len - 1)
  BY <1>4, <1>5, <1>6, <1>7
<1>13. NowIn(node, Used, JobCall, stack', pc', mk', call', ret')
  BY <1>2, <1>11, <1>12 DEF NowIn
<1> QED
  BY <1>2, <1>8, <1>10, <1>13, CallsHere DEF Here, CallsIn

\* What bdd_makenode returns is the node that was asked for.
LEMMA MadeValue ==
    ASSUME Before, MakeFound \/ MakeFresh
    PROVE  /\ ret'.root \in Live' /\ mk.low \in Live' /\ mk.high \in Live' /\ mk.level \in 1..NumVars
           /\ \A a \in Assignments : ValueIn(node', Used', ret'.root, a) =
                 IF a[mk.level] THEN ValueIn(node', Used', mk.high, a) ELSE ValueIn(node', Used', mk.low, a)
<1>1. Internal \/ Client
  BY DEF Internal
<1>2. /\ TypeOK /\ TableInv /\ RootsInv /\ ControlInv /\ pc = "makenode"
      /\ Ranked(node, Used) /\ Used \subseteq NodeIds
  BY <1>1, BeforeFacts, NodeIdFacts DEF MakeFound, MakeFresh, MustBuild
<1>3. mk.low \in Live /\ mk.high \in Live /\ mk.level \in 1..NumVars
  BY <1>2 DEF RootsInv, ControlInv
<1>4. Ranked(node', Used')
  BY <1>1, TableAlways, TableRankedNext DEF Before, OrderInv
<1>5. CASE MakeFound
  <2>1. UNCHANGED node /\ Used' = Used /\ Live' = Live
    BY <1>5, TableUnchanged DEF MakeFound
  <2>2. CASE mk.low = mk.high /\ ret' = [NoRet EXCEPT !.root = mk.low]
    <3>1. ret'.root = mk.low
      BY <2>2 DEF NoRet
    <3> QED
      BY <1>3, <2>1, <2>2, <3>1
  <2>3. ASSUME NEW n \in Matching, ret' = [NoRet EXCEPT !.root = n]
        PROVE  /\ ret'.root \in Live
               /\ \A a \in Assignments : ValueIn(node, Used, ret'.root, a) =
                     IF a[mk.level] THEN ValueIn(node, Used, mk.high, a) ELSE ValueIn(node, Used, mk.low, a)
    <3>1. n \in Used /\ node[n].level = mk.level /\ node[n].low = mk.low /\ node[n].high = mk.high
      BY DEF Matching
    <3>2. ret'.root = n /\ n \in Live /\ n \in NodeIds
      BY <1>2, <2>3, <3>1 DEF NoRet, Live
    <3>3. \A a \in Assignments : ValueIn(node, Used, n, a) =
             IF a[node[n].level] THEN ValueIn(node, Used, node[n].high, a)
                                 ELSE ValueIn(node, Used, node[n].low, a)
      BY <1>2, <3>1, <3>2, ValueStep
    <3> QED
      BY <3>1, <3>2, <3>3
  <2> QED
    BY <1>3, <1>5, <2>1, <2>2, <2>3 DEF MakeFound
<1>6. CASE MakeFresh
  <2> DEFINE n == ret'.root
  <2>1. /\ Used' = Used \cup {n} /\ Live' = Live \cup {n} /\ n \in Inner
        /\ node'[n].level = mk.level /\ node'[n].low = mk.low /\ node'[n].high = mk.high
    BY <1>2, <1>6, FreshFacts
  <2>2. n \in Used' /\ n \in NodeIds
    BY <2>1, NodeIdFacts
  <2> HIDE DEF n
  <2>3. \A a \in Assignments : ValueIn(node', Used', n, a) =
           IF a[node'[n].level] THEN ValueIn(node', Used', node'[n].high, a)
                                ELSE ValueIn(node', Used', node'[n].low, a)
    BY <1>4, <2>2, ValueStep
  <2> QED
    BY <1>3, <2>1, <2>3 DEF n
<1> QED
  BY <1>5, <1>6

\* The nodes that a step keeps, with their values and cofactors.
Kept == Live \cap Live'
LEMMA KeptFacts ==
    ASSUME Before, After, Internal \/ Client, Running'
    PROVE  /\ Kept \subseteq NodeIds
           /\ \A n \in Kept, a \in Assignments : ValueIn(node', Used', n, a) = ValueIn(node, Used, n, a)
           /\ \A n \in Kept : node'[n].level = node[n].level
           /\ \A n \in Kept : \A lev, b : Cofactor(node', n, lev, b) = Cofactor(node, n, lev, b)
           /\ \A n \in Kept, lev \in 1..NumVars : \A b : Cofactor(node, n, lev, b) \in Kept
<1>1. IInv /\ Canonical /\ TableInv /\ TableInv'
  BY BeforeFacts DEF Before, After, IInv
<1>2. \A n \in Kept : /\ node'[n].level = node[n].level
                      /\ node'[n].low = node[n].low /\ node'[n].high = node[n].high
  BY <1>1, NodesKept DEF Kept
<1>3. \A n \in Kept : \A lev, b : Cofactor(node', n, lev, b) = Cofactor(node, n, lev, b)
  BY <1>2 DEF Cofactor
<1>4. ASSUME NEW n \in Kept, NEW lev \in 1..NumVars, NEW b PROVE Cofactor(node, n, lev, b) \in Kept
  <2>1. CASE node[n].level # lev
    BY <2>1 DEF Cofactor
  <2>2. CASE node[n].level = lev
    <3>1. n \in Used /\ n \in Used'
      BY <1>1, <1>2, <2>2, LevelsUsed DEF Kept
    <3>2. {node[n].low, node[n].high, node'[n].low, node'[n].high} \subseteq Live \cup Live'
          /\ node[n].low \in Live /\ node[n].high \in Live /\ node'[n].low \in Live' /\ node'[n].high \in Live'
      BY <1>1, <3>1 DEF TableInv
    <3> QED
      BY <1>2, <3>2 DEF Cofactor, Kept
  <2> QED
    BY <2>1, <2>2
<1> QED
  BY <1>1, <1>2, <1>3, <1>4, ValuesKept, NodeIdFacts DEF Kept

\* So a call about nodes that are kept has the same halves and the same answers.
LEMMA HalvesKept ==
    ASSUME Before, After, Internal \/ Client, Running', NEW f, f.level \in 1..NumVars, Args(f) \subseteq Kept, NEW b
    PROVE  HalfIn(node', f, b) = HalfIn(node, f, b) /\ Args(HalfIn(node, f, b)) \subseteq Kept
<1>1. f.l \in Kept /\ f.r \in Kept /\ (f.op = "aij" => f.t \in Kept)
  BY DEF Args
<1>2. /\ Cofactor(node', f.l, f.level, b) = Cofactor(node, f.l, f.level, b)
      /\ Cofactor(node', f.r, f.level, b) = Cofactor(node, f.r, f.level, b)
      /\ f.op = "aij" => Cofactor(node', f.t, f.level, b) = Cofactor(node, f.t, f.level, b)
      /\ Cofactor(node, f.l, f.level, b) \in Kept /\ Cofactor(node, f.r, f.level, b) \in Kept
      /\ f.op = "aij" => Cofactor(node, f.t, f.level, b) \in Kept
  BY <1>1, KeptFacts
<1> QED
  BY <1>2 DEF HalfIn, SubCall, Args
LEMMA AnswersKept ==
    ASSUME Before, After, Internal \/ Client, Running', NEW c, NEW root, Args(c) \subseteq Kept, root \in Kept,
           AnswersIn(node, Used, c, root)
    PROVE  AnswersIn(node', Used', c, root)
<1>1. \A n \in Kept, a \in Assignments : ValueIn(node', Used', n, a) = ValueIn(node, Used, n, a)
  BY KeptFacts
<1> QED
  BY <1>1, AnswersAgree

\* bdd_makenode, whether or not it collects, keeps what the recursion is at.
Makes == MakeFound \/ MakeFresh \/ MakeGbc \/ Grow
LEMMA MakesFacts ==
    ASSUME Makes, Running'
    PROVE  /\ Internal /\ pc \in {"makenode", "grow"} /\ pc' \in MakePcs
           /\ UNCHANGED <<stack, refstack, job, handle, call, mk>>
           /\ pc' = "made" <=> MakeFound \/ MakeFresh
<1>1. CASE MakeFound \/ MakeFresh
  BY <1>1 DEF MakeFound, MakeFresh, MustBuild, Internal, MakePcs
<1>2. CASE MakeGbc
  <2>1. pc = "makenode" /\ pc' = "grow"
    BY <1>2 DEF MakeGbc, MustBuild, Running
  <2>2. UNCHANGED <<stack, refstack, job, handle, call, mk>>
    BY <1>2 DEF MakeGbc
  <2>3. ~MakeFound /\ ~MakeFresh
    BY <2>1 DEF MakeFound, MakeFresh
  <2> QED
    BY <1>2, <2>1, <2>2, <2>3 DEF Internal, MakePcs
<1>3. CASE Grow
  <2>1. pc = "grow" /\ pc' = "makenode"
    BY <1>3 DEF Grow, AfterGrow, Running
  <2>2. UNCHANGED <<stack, refstack, job, handle, call, mk>>
    BY <1>3 DEF Grow
  <2>3. ~MakeFound /\ ~MakeFresh
    BY <2>1 DEF MakeFound, MakeFresh
  <2> QED
    BY <1>3, <2>1, <2>2, <2>3 DEF Internal, MakePcs
<1> QED
  BY <1>1, <1>2, <1>3 DEF Makes

LEMMA MakeCalls ==
    ASSUME Before, After, Makes, Running', stack # <<>>
    PROVE  CallsInv'
<1> DEFINE len == Len(stack)
           f == stack[len]
<1>1. Internal \/ Client
  BY MakesFacts
<1>2. /\ pc \in {"makenode", "grow"} /\ pc' \in {"makenode", "grow", "made"}
      /\ UNCHANGED <<stack, refstack, job, handle, call, mk>>
      /\ pc' = "made" <=> MakeFound \/ MakeFresh
  BY MakesFacts DEF MakePcs
<1>3. /\ TypeOK /\ RootsInv /\ RootsInv' /\ TableInv' /\ Canonical' /\ JobCall' = JobCall
  BY <1>1, <1>2, BeforeFacts, JobCallKept DEF After, IInv, OrderInv
<1>4. /\ FramesIn(node, JobCall, stack) /\ LowsIn(node, Used, stack, refstack)
      /\ f.op = "and" /\ mk.level = f.level
      /\ AnswersIn(node, Used, HalfIn(node, f, 0), mk.low)
      /\ AnswersIn(node, Used, HalfIn(node, f, 1), mk.high)
      /\ stack \in Seq(Frames) /\ len \in Nat /\ DOMAIN stack = 1..len
      /\ refstack \in Seq(NodeIds) /\ Len(refstack) \in Nat /\ DOMAIN refstack = 1..Len(refstack)
      /\ Len(refstack) = Cardinality(HighHalves) + 1 /\ Cardinality(HighHalves) \in Nat
  BY <1>1, <1>2, CallsBefore DEF NowIn, Combining
<1>5. f \in Frames /\ len \in 1..len
  BY <1>3, <1>4, TopFrame DEF Top
<1>6. \A i \in 1..len : stack[i].level \in 1..NumVars /\ Args(stack[i]) \subseteq Kept
  <2> TAKE i \in 1..len
  <2>1. stack[i] \in Frames
    BY <1>4, ElementOfSeq
  <2>2. {stack[i].l, stack[i].r, stack[i].t} \subseteq Live
    BY <1>3, <1>4, SafeLive DEF RootsInv
  <2>3. {stack[i].l, stack[i].r, stack[i].t} \subseteq Live'
    BY <1>2, <1>3, <1>4, SafeLiveNext DEF RootsInv
  <2> QED
    BY <2>1, <2>2, <2>3 DEF Frames, Args, Kept
<1>7. RangeOf(refstack) \subseteq Kept /\ mk.low \in Kept /\ mk.high \in Kept
  BY <1>2, <1>3 DEF RootsInv, Kept
<1>8. \A i \in 1..len : \A b : /\ HalfIn(node', stack[i], b) = HalfIn(node, stack[i], b)
                               /\ Args(HalfIn(node, stack[i], b)) \subseteq Kept
  BY <1>1, <1>6, HalvesKept
<1> HIDE DEF f, len
<1>9. \A i \in 0..len : AskedIn(node', JobCall, stack, i) = AskedIn(node, JobCall, stack, i)
  BY <1>4, <1>8 DEF AskedIn
<1>10. FramesIn(node', JobCall, stack)
  <2> SUFFICES ASSUME NEW i \in 1..len
               PROVE  Splits(Request(stack[i])) /\ Serves(Request(stack[i]), AskedIn(node', JobCall, stack, i - 1))
    BY <1>4 DEF FramesIn
  <2>1. AskedIn(node', JobCall, stack, i - 1) = AskedIn(node, JobCall, stack, i - 1)
    BY <1>4, <1>9
  <2> QED
    BY <1>4, <2>1 DEF FramesIn
<1>11. LowsIn(node', Used', stack, refstack)
  <2> SUFFICES ASSUME NEW i \in 1..len, stack[i].half = "high"
               PROVE  AnswersIn(node', Used', HalfIn(node', stack[i], 0), refstack[Cardinality(HighTo(stack, i))])
    BY <1>4 DEF LowsIn
  <2> DEFINE k == Cardinality(HighTo(stack, i))
  <2>1. i \in DOMAIN stack
    BY <1>4
  <2>2. k \in Nat /\ k >= 1 /\ k <= Cardinality(HighHalves)
    BY <1>3, <2>1, HighRanks
  <2>3. AnswersIn(node, Used, HalfIn(node, stack[i], 0), refstack[k])
    BY <1>4, <2>1 DEF LowsIn
  <2> HIDE DEF k
  <2>4. refstack[k] \in Kept
    <3>1. k \in DOMAIN refstack
      BY <1>4, <2>2
    <3> QED
      BY <1>7, <3>1 DEF RangeOf
  <2>5. AnswersIn(node', Used', HalfIn(node, stack[i], 0), refstack[k])
    BY <1>1, <1>8, <2>3, <2>4, AnswersKept
  <2> QED
    BY <1>8, <2>5 DEF k
<1>12. \A b : HalfIn(node', f, b) = HalfIn(node, f, b) /\ Args(HalfIn(node, f, b)) \subseteq Kept
  BY <1>5, <1>8 DEF f
<1>13. /\ AnswersIn(node', Used', HalfIn(node', f, 0), mk.low)
       /\ AnswersIn(node', Used', HalfIn(node', f, 1), mk.high)
  BY <1>1, <1>4, <1>7, <1>12, AnswersKept
<1>14. ASSUME pc' = "made" PROVE AnswersIn(node', Used', Request(f), ret'.root)
  <2>1. \A a \in Assignments : ValueIn(node', Used', ret'.root, a) =
           IF a[mk.level] THEN ValueIn(node', Used', mk.high, a) ELSE ValueIn(node', Used', mk.low, a)
    BY <1>2, <1>14, MadeValue
  <2>2. Ranked(node', Used') /\ f.op \in Ops /\ f.level \in 1..NumVars
    BY <1>3, <1>5, TableRankedNext DEF Frames
  <2>3. \A n \in Args(f) : n \in NodeIds /\ (node'[n].level = f.level => n \in Used')
    <3>1. Args(f) \subseteq Kept
      BY <1>5, <1>6 DEF f
    <3>2. Kept \subseteq NodeIds /\ Kept \subseteq Live'
      BY <1>1, KeptFacts DEF Kept
    <3> QED
      BY <1>3, <2>2, <3>1, <3>2, LevelsUsed
  <2>4. /\ AnswersIn(node', Used', SubCall(node', f, f.level, 0), mk.low)
        /\ AnswersIn(node', Used', SubCall(node', f, f.level, 1), mk.high)
    BY <1>13 DEF HalfIn
  <2> QED
    BY <1>4, <2>1, <2>2, <2>3, <2>4, HalvesAnswer
<1>15. NowIn(node', Used', JobCall, stack, pc', mk, call', ret')
  BY <1>2, <1>4, <1>13, <1>14 DEF NowIn, f, len
<1> QED
  BY <1>2, <1>3, <1>10, <1>11, <1>15, CallsParts DEF CallsIn

\* A top-level operation calls what it is going to be answered.
LEMMA StartCalls ==
    ASSUME TypeOK, UNCHANGED handle, stack' = <<>>, NEW kind, NEW dest, NEW args, NEW op, NEW r,
           StartApply(kind, dest, args, op, r),
           \/ kind = "and" /\ op = "and" /\ r = 0
           \/ kind = "validateand" /\ op = "aij"
           \/ kind \in {"validate", "check"} /\ op = "imp"
    PROVE  CallsInv'
<1>1. job'.kind = kind /\ job'.args = args /\ job'.r = r
  BY DEF StartApply, TypeOK, Jobs
<1>2. call' = IF op = "imp" THEN [op |-> op, l |-> handle[args[1]].root, r |-> r, t |-> 0]
              ELSE [op |-> op, l |-> handle[args[1]].root, r |-> handle[args[2]].root, t |-> r]
  BY DEF StartApply
<1>3. JobCall' = CASE job'.kind = "and" -> [op |-> "and", l |-> handle'[job'.args[1]].root,
                                            r |-> handle'[job'.args[2]].root, t |-> 0]
                   [] job'.kind = "validateand" -> [op |-> "aij", l |-> handle'[job'.args[1]].root,
                                                    r |-> handle'[job'.args[2]].root, t |-> job'.r]
                   [] OTHER -> [op |-> "imp", l |-> handle'[job'.args[1]].root, r |-> job'.r, t |-> 0]
  BY DEF JobCall
<1>4. call' = JobCall'
  <2>1. CASE kind = "and" /\ op = "and" /\ r = 0
    BY <1>1, <1>2, <1>3, <2>1
  <2>2. CASE kind = "validateand" /\ op = "aij"
    BY <1>1, <1>2, <1>3, <2>2
  <2>3. CASE kind \in {"validate", "check"} /\ op = "imp"
    BY <1>1, <1>2, <1>3, <2>3
  <2> QED
    BY <2>1, <2>2, <2>3
<1>5. pc' = "call" /\ DOMAIN stack' = {} /\ Len(stack') = 0
  BY DEF StartApply
<1> HIDE DEF StartApply
<1>6. FramesIn(node', JobCall', stack') /\ LowsIn(node', Used', stack', refstack')
  BY <1>5 DEF FramesIn, LowsIn
<1>7. AskedIn(node', JobCall', stack', Len(stack')) = JobCall'
  BY <1>5 DEF AskedIn
<1>8. NowIn(node', Used', JobCall', stack', pc', mk', call', ret')
  BY <1>4, <1>5, <1>7 DEF NowIn, Serves
<1> QED
  BY <1>6, <1>8, CallsParts DEF CallsIn

\* Every step answers what the recursion asks.
LEMMA CallsStep ==
    ASSUME Before, After, Internal \/ Client, Running'
    PROVE  CallsInv'
<1>1. TypeOK /\ ControlInv
  BY BeforeFacts
<1>2. pc \notin ApplyPcs => stack = <<>>
  BY <1>1 DEF ControlInv
<1>3. CASE SetVar \/ VarMade \/ FinishApply \/ BuildLiteral \/ LiteralMade \/ ClauseBuilt
           \/ Walk \/ ClauseWalked \/ CheckWalked
  <2>1. UNCHANGED stack /\ stack = <<>> /\ pc' \notin {"call", "ret"}
    <3>1. CASE SetVar \/ VarMade
      BY <1>2, <3>1 DEF SetVar, VarMade, ApplyPcs, MakePcs
    <3>2. CASE FinishApply
      BY <3>2 DEF FinishApply, Return
    <3>3. CASE BuildLiteral \/ LiteralMade \/ ClauseBuilt \/ Walk
      BY <1>2, <3>3 DEF BuildLiteral, LiteralMade, ClauseBuilt, Walk, ApplyPcs, MakePcs
    <3>4. CASE ClauseWalked \/ CheckWalked
      BY <1>2, <3>4 DEF ClauseWalked, CheckWalked, Return, ApplyPcs, MakePcs
    <3> QED
      BY <1>3, <3>1, <3>2, <3>3, <3>4
  <2> QED
    BY <2>1, NoCalls
<1>4. CASE Makes
  <2>1. CASE stack = <<>>
    <3>1. stack' = <<>> /\ pc' \in MakePcs
      BY <1>4, <2>1, MakesFacts
    <3> QED
      BY <3>1, NoCalls DEF MakePcs
  <2>2. CASE stack # <<>>
    BY <1>4, <2>2, MakeCalls
  <2> QED
    BY <2>1, <2>2
<1>5. CASE CheckBuilt
  <2>1. stack' = <<>> /\ UNCHANGED handle /\ StartApply("check", Tmp, job.args, "imp", job.r)
    BY <1>2, <1>5 DEF CheckBuilt, ApplyPcs, MakePcs
  <2> QED
    BY <1>1, <2>1, StartCalls
<1>6. CASE EnterRefuted
  BY <1>6 DEF EnterRefuted, Running
<1>7. CASE JustifyStep
  <2>1. pc' = "ret"
    BY <1>7, JustifyFacts DEF Running
  <2> QED
    BY <1>7, <2>1, JustifyCalls
<1>8. CASE Client
  <2>1. pc = "client" /\ stack = <<>> /\ UNCHANGED stack
    <3> DEFINE Now == pc = "client" /\ UNCHANGED stack
    <3>a. \A h, id : FromClause(h, id) => Now
      BY DEF FromClause, MayStart
    <3>b. \A h, h1 : Addref(h, h1) => Now
      BY DEF Addref, MayStart
    <3>c. \A h, h1, r : Validate(h, r, h1) => Now
      BY DEF Validate, MayStart
    <3>d. \A h, h1, h2 : And(h, h1, h2) => Now
      BY DEF And, MayStart
    <3>e. \A h, h1, h2, r : ValidateWithAnd(h, r, h1, h2) => Now
      BY DEF ValidateWithAnd, MayStart
    <3>f. \A h : Delref(h) => Now
      BY DEF Delref
    <3>g. \A lits, h : ValidateClause(lits, h) => Now
      BY DEF ValidateClause, MayStart
    <3>h. Done => Now
      BY DEF Done
    <3> HIDE DEF Now
    <3>i. Now
      BY <1>8, <3>a, <3>b, <3>c, <3>d, <3>e, <3>f, <3>g, <3>h DEF Client
    <3>1. pc = "client" /\ UNCHANGED stack
      BY <3>i DEF Now
    <3> QED
      BY <1>2, <3>1 DEF ApplyPcs, MakePcs
  <2>2. CASE \E h \in Open, id \in DOMAIN InputClauses : FromClause(h, id)
    BY <2>1, <2>2, NoCalls DEF FromClause, StartBuild
  <2>3. CASE \E h \in Open, h1 \in Owned : Addref(h, h1)
    BY <2>1, <2>3, NoCalls DEF Addref
  <2>4. ASSUME NEW h \in Open, NEW h1 \in Owned, NEW r \in Nameable, Validate(h, r, h1) PROVE CallsInv'
    <3>1. CASE UNCHANGED pc
      BY <2>1, <3>1, NoCalls
    <3>2. CASE StartApply("validate", h, <<h1>>, "imp", r) /\ UNCHANGED handle
      BY <1>1, <2>1, <3>2, StartCalls
    <3> QED
      BY <2>4, <3>1, <3>2 DEF Validate
  <2>5. ASSUME NEW h \in Open, NEW h1 \in Owned, NEW h2 \in Owned, And(h, h1, h2) PROVE CallsInv'
    <3>1. CASE UNCHANGED pc
      BY <2>1, <3>1, NoCalls
    <3>2. CASE StartApply("and", h, <<h1, h2>>, "and", 0) /\ UNCHANGED handle
      BY <1>1, <2>1, <3>2, StartCalls
    <3> QED
      BY <2>5, <3>1, <3>2 DEF And
  <2>6. ASSUME NEW h \in Open, NEW h1 \in Owned, NEW h2 \in Owned, NEW r \in Nameable,
               ValidateWithAnd(h, r, h1, h2)
        PROVE  CallsInv'
    <3>1. StartApply("validateand", h, <<h1, h2>>, "aij", r) /\ UNCHANGED handle
      BY <2>6 DEF ValidateWithAnd
    <3> QED
      BY <1>1, <2>1, <3>1, StartCalls
  <2>7. CASE \E h1 \in Owned : Delref(h1)
    BY <2>1, <2>7, NoCalls DEF Delref
  <2>8. CASE \E h1 \in Owned, lits \in ClientClauses : ValidateClause(lits, h1)
    BY <2>1, <2>8, NoCalls DEF ValidateClause, StartBuild
  <2>9. CASE Done
    BY <2>9 DEF Done, Running
  <2> QED
    BY <1>8, <2>2, <2>3, <2>4, <2>5, <2>6, <2>7, <2>8, <2>9 DEF Client
<1> QED
  BY <1>3, <1>4, <1>5, <1>6, <1>7, <1>8, EnterLeafCalls, EnterDegenerateCalls, EnterMissCalls,
     ReturnLowCalls, ReturnHighCalls DEF Internal, Makes

-----------------------------------------------------------------------------
(* The path that falsifies a clause *)

\* One step along the path: at level v, from node n.
PathStep(lits, v, n) ==
    IF n = -1 \/ {v, -v} \cap lits = {} \/ node[n].level > v THEN n
    ELSE IF node[n].level < v THEN -1
    ELSE IF v \in lits THEN node[n].low ELSE node[n].high

\* There is a path from every root, found from the first level to the last.
PathFrom(lits, root, f, v) == IF v = 0 THEN root ELSE PathStep(lits, v, f[v - 1])
IsPath(lits, root, f) == f = [v \in 0..NumVars |-> PathFrom(lits, root, f, v)]
LEMMA PathExists ==
    ASSUME NEW lits, NEW root
    PROVE  \E f : IsPath(lits, root, f)
<1> DEFINE To(f, k) == /\ f = [v \in 0..NumVars |-> f[v]]
                       /\ \A v \in 0..NumVars : v <= k => f[v] = PathFrom(lits, root, f, v)
           S == {k \in 0..NumVars : \E f : To(f, k)}
           L == {NumVars - k : k \in S}
<1>1. NumVars \in Nat
  BY SizeAssumption
<1>2. 0 \in S
  <2> DEFINE f == [v \in 0..NumVars |-> root]
  <2>1. To(f, 0)
    BY <1>1 DEF PathFrom
  <2> HIDE DEF To, f
  <2> QED
    BY <1>1, <2>1
<1>3. ASSUME NEW k \in S, k < NumVars PROVE k + 1 \in S
  <2>1. k \in 0..NumVars /\ \E f : To(f, k)
    OBVIOUS
  <2>2. PICK f : To(f, k)
    BY <2>1
  <2> DEFINE g == [v \in 0..NumVars |-> IF v = k + 1 THEN PathStep(lits, v, f[k]) ELSE f[v]]
  <2>3. ASSUME NEW v \in 0..NumVars, v <= k + 1
        PROVE  g[v] = PathFrom(lits, root, g, v)
    <3>1. CASE v = k + 1
      <4>1. v - 1 = k /\ g[v - 1] = f[k] /\ v # 0
        BY <1>1, <2>1, <3>1
      <4> QED
        BY <3>1, <4>1 DEF PathFrom
    <3>2. CASE v # k + 1
      <4>1. v <= k /\ g[v] = f[v] /\ (v # 0 => g[v - 1] = f[v - 1])
        BY <1>1, <2>1, <2>3, <3>2
      <4>2. f[v] = PathFrom(lits, root, f, v)
        BY <2>2, <4>1
      <4> HIDE DEF g, To
      <4> QED
        BY <4>1, <4>2 DEF PathFrom
    <3> QED
      BY <3>1, <3>2
  <2>4. g = [v \in 0..NumVars |-> g[v]]
    OBVIOUS
  <2>5. To(g, k + 1)
    BY <2>3, <2>4
  <2> HIDE DEF To, g
  <2> QED
    BY <1>1, <1>3, <2>1, <2>5
<1> HIDE DEF To
<1>4. NumVars \in S
  <2>1. L \in SUBSET Nat /\ L # {} /\ S \subseteq 0..NumVars
    BY <1>1, <1>2
  <2> HIDE DEF S
  <2>2. \A k \in S : NumVars - k \in L
    OBVIOUS
  <2> HIDE DEF L
  <2>3. PICK x \in L : \A y \in L : x <= y
    BY <2>1, LeastNumber
  <2>4. PICK k \in S : x = NumVars - k
    BY <2>3 DEF L
  <2>5. CASE k < NumVars
    <3>1. NumVars - (k + 1) \in L
      BY <1>3, <2>2, <2>5
    <3> QED
      BY <1>1, <2>1, <2>3, <2>4, <2>5, <3>1
  <2>6. CASE ~(k < NumVars)
    BY <1>1, <2>1, <2>6
  <2> QED
    BY <2>5, <2>6
<1>5. PICK f : To(f, NumVars)
  BY <1>4 DEF S
<1>6. \A v \in 0..NumVars : f[v] = PathFrom(lits, root, f, v)
  <2> TAKE v \in 0..NumVars
  <2>1. v <= NumVars
    BY <1>1
  <2> QED
    BY <1>5, <2>1 DEF To
<1>7. f = [v \in 0..NumVars |-> f[v]]
  BY <1>5 DEF To
<1>8. IsPath(lits, root, f)
  BY <1>6, <1>7 DEF IsPath
<1> QED
  BY <1>8

\* test_validation_path only finds paths for clauses that follow from the root.
LEMMA PathImplies ==
    ASSUME Ranked(node, Used), TableInv, Terminals \cap Used = {}, NEW lits, NEW root \in Live,
           FalsifyingPath(lits, root), NEW a \in Assignments, Value(root, a)
    PROVE  SatClause(lits, a)
<1> DEFINE at == CHOOSE f : IsPath(lits, root, f)
<1>1. IsPath(lits, root, at)
  BY PathExists
<1>2. at[NumVars] = 0
  BY DEF FalsifyingPath, IsPath, PathFrom, PathStep
<1> HIDE DEF at
<1>3. NumVars \in Nat
  BY SizeAssumption
<1>4. \A v \in 0..NumVars : at[v] = PathFrom(lits, root, at, v)
  BY <1>1 DEF IsPath
<1> SUFFICES ASSUME ~SatClause(lits, a) PROVE FALSE
  OBVIOUS
<1>5. /\ NumVars \in Nat /\ Live \subseteq NodeIds /\ -1 \notin NodeIds
      /\ \A n \in Used : n \in Live /\ n \in NodeIds
  BY SizeAssumption, NodeIdFacts DEF Live
<1> DEFINE Good(n) == n = -1 \/ (n \in Live /\ Value(n, a))
           B == {v \in 0..NumVars : ~Good(at[v])}
<1>6. ASSUME NEW v \in 1..NumVars, Good(at[v - 1]) PROVE Good(at[v])
  <2> DEFINE n == at[v - 1]
  <2>1. at[v] = PathStep(lits, v, n)
    BY <1>4, <1>5 DEF PathFrom
  <2> HIDE DEF n
  <2>2. CASE at[v] \in {n, -1}
    BY <1>6, <2>2 DEF n
  <2>3. CASE at[v] \notin {n, -1}
    <3>1. /\ n # -1 /\ {v, -v} \cap lits # {} /\ ~(node[n].level > v) /\ ~(node[n].level < v)
          /\ at[v] = IF v \in lits THEN node[n].low ELSE node[n].high
      BY <2>1, <2>3 DEF PathStep
    <3>2. n \in Live /\ Value(n, a)
      BY <1>6, <3>1 DEF n
    <3>3. node[n].level = v
      BY <1>5, <3>1, <3>2, InnerLevel
    <3>4. n \in Used
      BY <3>2, <3>3, LevelsUsed
    <3>5. node[n].low \in Live /\ node[n].high \in Live
      BY <3>4 DEF TableInv
    <3>6. ValueIn(node, Used, n, a) = IF a[v] THEN ValueIn(node, Used, node[n].high, a)
                                              ELSE ValueIn(node, Used, node[n].low, a)
      BY <1>5, <3>3, <3>4, ValueStep
    <3>7. a[v] \in BOOLEAN
      BY DEF Assignments
    <3>8. v \in lits => ~a[v]
      BY DEF SatClause
    <3>9. v \notin lits => a[v]
      <4>1. v \notin lits => -v \in lits /\ -v < 0 /\ -(-v) = v
        BY <1>5, <3>1
      <4> QED
        BY <4>1, <3>7 DEF SatClause
    <3>10. Value(at[v], a)
      BY <3>1, <3>2, <3>6, <3>7, <3>8, <3>9 DEF Value
    <3> QED
      BY <3>1, <3>5, <3>10
  <2> QED
    BY <2>2, <2>3
<1>7. Good(at[0])
  <2>1. at[0] = root
    BY <1>4, <1>5 DEF PathFrom
  <2> QED
    BY <2>1
<1>8. B = {}
  <2> SUFFICES ASSUME B # {} PROVE FALSE
    OBVIOUS
  <2>1. B \in SUBSET Nat
    BY <1>5
  <2>2. PICK v \in B : \A w \in B : v <= w
    BY <2>1, LeastNumber
  <2>3. v \in 1..NumVars /\ v - 1 \in 0..NumVars
    BY <1>5, <1>7, <2>2
  <2>4. v - 1 \notin B
    BY <1>5, <2>2, <2>3
  <2> HIDE DEF Good
  <2> QED
    BY <1>6, <2>2, <2>3, <2>4
<1>9. Good(0)
  <2>1. NumVars \in 0..NumVars
    BY <1>5
  <2> HIDE DEF Good
  <2> QED
    BY <1>2, <1>8, <2>1
<1>10. Value(0, a)
  BY <1>9
<1>11. Value(0, a) = FALSE
  BY ConstantValues DEF Value
<1> QED
  BY <1>10, <1>11

-----------------------------------------------------------------------------
(* What BDD_build_clause builds *)

\* JobInv in parts, for a given table and state of the operation.
DisjIn(nd, used, lits, root, todo) ==
    \A a \in Assignments : ValueIn(nd, used, root, a) = SatClause({x \in lits : VarOf(x) \notin todo}, a)
NodeFor(jb, v) == [level |-> v, low  |-> IF v \in jb.lits THEN jb.r ELSE 1,
                                high |-> IF v \in jb.lits THEN 1 ELSE jb.r]
BuildsIn(nd, used, jb, p, stk, m, r) ==
    /\ jb.todo \subseteq {VarOf(x) : x \in jb.lits}
    /\ p = "build" => DisjIn(nd, used, jb.lits, jb.r, jb.todo)
    /\ p \in {"makenode", "grow"} /\ stk = <<>> =>
          jb.todo # {} /\ m = NodeFor(jb, MaxOf(jb.todo)) /\ DisjIn(nd, used, jb.lits, jb.r, jb.todo)
    /\ p = "made" /\ stk = <<>> =>
          jb.todo # {} /\ DisjIn(nd, used, jb.lits, r.root, jb.todo \ {MaxOf(jb.todo)})
    /\ p \in {"call", "ret"} \/ stk # <<>> => DisjIn(nd, used, jb.lits, jb.r, {})
    /\ p = "walk" => IF jb.kind = "clause" THEN DisjIn(nd, used, jb.lits, jb.r, {}) ELSE Implied(jb.lits)
JobIn(jb, hd) ==
    /\ jb.kind \in {"and", "validate", "validateand"} =>
          /\ Len(jb.args) = IF jb.kind = "validate" THEN 1 ELSE 2
          /\ \A i \in DOMAIN jb.args : hd[jb.args[i]].root # -1
    /\ jb.kind = "clause" => jb.id \in DOMAIN InputClauses /\ jb.lits = InputClauses[jb.id]
    /\ jb.kind \in {"check", "path"} => jb.lits \in ClientClauses
    /\ jb.kind = "path" => Implied(jb.lits)

LEMMA DisjNow == \A root, todo : Disjunction(root, todo) <=> DisjIn(node, Used, job.lits, root, todo)
BY DEF Disjunction, DisjIn, Value
LEMMA JobParts ==
    /\ JobInv <=> /\ JobIn(job, handle)
                  /\ job.kind \in BuildKinds => BuildsIn(node, Used, job, pc, stack, mk, ret)
    /\ JobInv' <=> /\ JobIn(job', handle')
                   /\ job'.kind \in BuildKinds => BuildsIn(node', Used', job', pc', stack', mk', ret')
<1>1. JobInv <=> /\ JobIn(job, handle)
                 /\ job.kind \in BuildKinds => BuildsIn(node, Used, job, pc, stack, mk, ret)
  <2>1. \A v : LiteralNode(v) = NodeFor(job, v)
    BY DEF LiteralNode, NodeFor
  <2>2. job.todo \subseteq {VarOf(x) : x \in job.lits} /\ BuildsInv
           <=> BuildsIn(node, Used, job, pc, stack, mk, ret)
    BY <2>1, DisjNow DEF BuildsInv, BuildsIn
  <2> QED
    BY <2>2 DEF JobInv, JobIn
<1>2. (JobInv <=> /\ JobIn(job, handle)
                  /\ job.kind \in BuildKinds => BuildsIn(node, Used, job, pc, stack, mk, ret))'
  BY <1>1, PTL
<1> QED
  BY <1>1, <1>2

\* The clause of an operation is one of those given.
LEMMA JobClause ==
    ASSUME JobIn(job, handle), job.kind \in BuildKinds
    PROVE  job.lits \subseteq Literals /\ \A x \in job.lits : -x \notin job.lits
<1>1. job.lits \in {InputClauses[i] : i \in DOMAIN InputClauses} \cup ClientClauses
  BY DEF JobIn, BuildKinds
<1>2. job.lits \in SUBSET Literals
  <2>1. CASE job.lits \in ClientClauses
    BY <2>1, InputAssumption
  <2>2. ASSUME NEW i \in DOMAIN InputClauses, job.lits = InputClauses[i] PROVE job.lits \in SUBSET Literals
    BY <2>2, InputAssumption, ElementOfSeq
  <2> QED
    BY <1>1, <2>1, <2>2
<1> QED
  BY <1>1, <1>2, InputAssumption

\* A clause with one more literal.
Holds(x, a) == IF x < 0 THEN ~a[-x] ELSE a[x]
LEMMA OneMore ==
    ASSUME NEW D, NEW x, NEW a
    PROVE  SatClause(D \cup {x}, a) <=> SatClause(D, a) \/ Holds(x, a)
<1>1. \A C : SatClause(C, a) <=> \E y \in C : Holds(y, a)
  BY DEF SatClause, Holds
<1> QED
  BY <1>1

\* The node of a literal adds it to the disjunction of those below.
LEMMA LiteralAdded ==
    ASSUME NEW nd, NEW used, Ranked(nd, used), Terminals \cap used = {},
           NEW lits \in SUBSET Literals, \A x \in lits : -x \notin lits,
           NEW todo, NEW v \in todo, v \in 1..NumVars, v \in {VarOf(x) : x \in lits}, NEW r, NEW root,
           DisjIn(nd, used, lits, r, todo), NEW low, NEW high,
           low = IF v \in lits THEN r ELSE 1, high = IF v \in lits THEN 1 ELSE r,
           \A a \in Assignments : ValueIn(nd, used, root, a) =
              IF a[v] THEN ValueIn(nd, used, high, a) ELSE ValueIn(nd, used, low, a)
    PROVE  DisjIn(nd, used, lits, root, todo \ {v})
<1> DEFINE D == {x \in lits : VarOf(x) \notin todo}
           E == {x \in lits : VarOf(x) \notin todo \ {v}}
<1>1. NumVars \in Nat /\ v \in Int /\ v > 0 /\ \A x \in lits : x \in Int /\ x # 0
  BY SizeAssumption DEF Literals
<1> SUFFICES ASSUME NEW a \in Assignments PROVE ValueIn(nd, used, root, a) = SatClause(E, a)
  BY DEF DisjIn
<1>2. ValueIn(nd, used, r, a) = SatClause(D, a) /\ ValueIn(nd, used, 1, a) = TRUE
  BY ConstantValues DEF DisjIn
<1>3. a[v] \in BOOLEAN
  BY DEF Assignments
<1>4. CASE v \in lits
  <2>1. \A x \in lits : VarOf(x) = v => x = v
    BY <1>1, <1>4 DEF VarOf
  <2>2. VarOf(v) = v
    BY <1>1 DEF VarOf
  <2>3. E = D \cup {v}
    BY <1>4, <2>1, <2>2
  <2> HIDE DEF D, E
  <2>4. SatClause(E, a) <=> SatClause(D, a) \/ a[v]
    <3>1. Holds(v, a) = a[v]
      BY <1>1 DEF Holds
    <3> QED
      BY <2>3, <3>1, OneMore
  <2>5. ValueIn(nd, used, root, a) = IF a[v] THEN TRUE ELSE SatClause(D, a)
    BY <1>2, <1>4
  <2>6. SatClause(D, a) \in BOOLEAN /\ SatClause(E, a) \in BOOLEAN
    BY DEF SatClause
  <2> QED
    BY <1>3, <2>4, <2>5, <2>6
<1>5. CASE v \notin lits
  <2>1. -v \in lits
    BY <1>1, <1>5 DEF VarOf
  <2>2. \A x \in lits : VarOf(x) = v => x = -v
    BY <1>1, <1>5 DEF VarOf
  <2>3. VarOf(-v) = v
    BY <1>1 DEF VarOf
  <2>4. E = D \cup {-v}
    BY <2>1, <2>2, <2>3
  <2> HIDE DEF D, E
  <2>5. -v < 0 /\ -(-v) = v
    BY <1>1
  <2>6. SatClause(E, a) <=> SatClause(D, a) \/ ~a[v]
    <3>1. Holds(-v, a) <=> ~a[v]
      BY <1>3, <2>5 DEF Holds
    <3> QED
      BY <2>4, <3>1, OneMore
  <2>7. ValueIn(nd, used, root, a) = IF a[v] THEN SatClause(D, a) ELSE TRUE
    BY <1>2, <1>5
  <2>8. SatClause(D, a) \in BOOLEAN /\ SatClause(E, a) \in BOOLEAN
    BY DEF SatClause
  <2> QED
    BY <1>3, <2>6, <2>7, <2>8
<1> QED
  BY <1>4, <1>5

\* A disjunction stays one as long as its root is kept.
LEMMA DisjKept ==
    ASSUME Before, After, Internal \/ Client, Running', NEW lits, NEW root \in Kept, NEW todo,
           DisjIn(node, Used, lits, root, todo)
    PROVE  DisjIn(node', Used', lits, root, todo)
<1>1. \A a \in Assignments : ValueIn(node', Used', root, a) = ValueIn(node, Used, root, a)
  BY KeptFacts
<1> QED
  BY <1>1 DEF DisjIn

LEMMA BuildsBefore ==
    ASSUME Before, Internal \/ Client, job.kind \in BuildKinds
    PROVE  /\ BuildsIn(node, Used, job, pc, stack, mk, ret) /\ JobIn(job, handle)
           /\ job \in Jobs /\ job.r \in Live /\ TypeOK /\ RootsInv /\ ControlInv
<1>1. TypeOK /\ RootsInv /\ JobInv /\ ControlInv
  BY BeforeFacts
<1> QED
  BY <1>1, JobParts DEF TypeOK, RootsInv

\* bdd_makenode in BDD_build_clause, or under the check of a clause.
LEMMA MakeBuilds ==
    ASSUME Before, After, Makes, Running', job.kind \in BuildKinds
    PROVE  BuildsIn(node', Used', job', pc', stack', mk', ret')
<1>1. Internal \/ Client
  BY MakesFacts
<1>2. /\ pc \in {"makenode", "grow"} /\ pc' \in {"makenode", "grow", "made"}
      /\ UNCHANGED <<stack, job, mk>>
      /\ (pc' = "made" <=> MakeFound \/ MakeFresh)
  BY MakesFacts DEF MakePcs
<1>3. /\ BuildsIn(node, Used, job, pc, stack, mk, ret) /\ JobIn(job, handle) /\ job \in Jobs
      /\ job.r \in Kept
  <2>1. RootsInv'
    BY DEF After, IInv
  <2> QED
    BY <1>1, <1>2, <2>1, BuildsBefore DEF RootsInv, Kept
<1>4. CASE stack # <<>>
  <2>1. DisjIn(node, Used, job.lits, job.r, {}) /\ job.todo \subseteq {VarOf(x) : x \in job.lits}
    BY <1>3, <1>4 DEF BuildsIn
  <2>2. DisjIn(node', Used', job.lits, job.r, {})
    BY <1>1, <1>3, <2>1, DisjKept
  <2> QED
    BY <1>2, <1>4, <2>1, <2>2 DEF BuildsIn
<1>5. CASE stack = <<>>
  <2> DEFINE v == MaxOf(job.todo)
  <2>1. /\ job.todo # {} /\ mk = NodeFor(job, v) /\ DisjIn(node, Used, job.lits, job.r, job.todo)
        /\ job.todo \subseteq {VarOf(x) : x \in job.lits}
    BY <1>2, <1>3, <1>5 DEF BuildsIn
  <2>2. job.todo \in SUBSET (1..NumVars)
    BY <1>3 DEF Jobs
  <2>3. v \in job.todo
    BY <2>1, <2>2, MaxOfProps
  <2> HIDE DEF v
  <2>4. DisjIn(node', Used', job.lits, job.r, job.todo)
    BY <1>1, <1>3, <2>1, DisjKept
  <2>5. ASSUME pc' = "made" PROVE DisjIn(node', Used', job.lits, ret'.root, job.todo \ {v})
    <3>1. /\ mk.level = v /\ mk.low = IF v \in job.lits THEN job.r ELSE 1
          /\ mk.high = IF v \in job.lits THEN 1 ELSE job.r
      BY <2>1 DEF NodeFor
    <3>2. \A a \in Assignments : ValueIn(node', Used', ret'.root, a) =
             IF a[v] THEN ValueIn(node', Used', mk.high, a) ELSE ValueIn(node', Used', mk.low, a)
      BY <1>2, <2>5, <3>1, MadeValue
    <3>3. Ranked(node', Used')
      BY <1>1, TableAlways, TableRankedNext DEF Before, OrderInv
    <3>4. Terminals \cap Used' = {}
      BY DEF Used, Inner
    <3>5. job.lits \in SUBSET Literals /\ \A x \in job.lits : -x \notin job.lits
      BY <1>3, JobClause
    <3>6. v \in 1..NumVars /\ v \in {VarOf(x) : x \in job.lits}
      BY <2>1, <2>2, <2>3
    <3> QED
      BY <2>3, <2>4, <3>1, <3>2, <3>3, <3>4, <3>5, <3>6, LiteralAdded
  <2> QED
    BY <1>2, <1>5, <2>1, <2>4, <2>5 DEF BuildsIn, v
<1> QED
  BY <1>4, <1>5

\* The recursion works on the finished clause.
LEMMA RecursionBuilds ==
    ASSUME Before, After, Running', job.kind \in BuildKinds,
           EnterLeaf \/ EnterDegenerate \/ EnterMiss \/ ReturnLow \/ ReturnHigh \/ JustifyStep
    PROVE  BuildsIn(node', Used', job', pc', stack', mk', ret')
<1>1. Internal \/ Client
  BY DEF Internal
<1>2. BuildsIn(node, Used, job, pc, stack, mk, ret) /\ TypeOK
  BY <1>1, BuildsBefore
<1>3. UNCHANGED node /\ UNCHANGED job /\ (pc \in {"call", "ret"} \/ stack # <<>>)
  BY DEF EnterLeaf, EnterDegenerate, EnterMiss, ReturnLow, ReturnHigh, JustifyStep
<1>4. pc' \in {"call", "ret"} \/ (pc' \in MakePcs /\ stack' # <<>>)
  <2>1. CASE EnterLeaf \/ EnterDegenerate \/ EnterMiss \/ ReturnLow
    BY <2>1 DEF EnterLeaf, EnterDegenerate, EnterMiss, ReturnLow
  <2>2. CASE JustifyStep
    BY <2>2, JustifyFacts DEF Running
  <2>3. CASE ReturnHigh
    <3>1. pc' \in MakePcs /\ stack # <<>> /\ stack' = [stack EXCEPT ![Len(stack)].high = ret]
      BY <2>3 DEF ReturnHigh, MakePcs
    <3>2. Len(stack) \in DOMAIN stack
      BY <1>2, <3>1, TopFrame
    <3>3. DOMAIN stack' = DOMAIN stack
      BY <3>1
    <3>4. stack' # <<>>
      BY <3>2, <3>3
    <3> QED
      BY <3>1, <3>4
  <2> QED
    BY <2>1, <2>2, <2>3
<1>5. Used' = Used
  BY <1>3, TableUnchanged
<1>6. DisjIn(node, Used, job.lits, job.r, {}) /\ job.todo \subseteq {VarOf(x) : x \in job.lits}
  BY <1>2, <1>3 DEF BuildsIn
<1> QED
  BY <1>3, <1>4, <1>5, <1>6 DEF BuildsIn, MakePcs

\* BDD_build_clause goes from the last literal to the first.
LEMMA LiteralBuilds ==
    ASSUME Before, After, Running', BuildLiteral \/ LiteralMade \/ ClauseBuilt \/ CheckBuilt
    PROVE  BuildsIn(node', Used', job', pc', stack', mk', ret')
<1>1. Internal \/ Client
  BY DEF Internal
<1>2. TypeOK /\ RootsInv /\ ControlInv /\ RootsInv' /\ job.kind \in BuildKinds
  <2>1. TypeOK /\ RootsInv /\ ControlInv /\ RootsInv'
    BY <1>1, BeforeFacts DEF After, IInv
  <2> QED
    BY <2>1 DEF BuildLiteral, LiteralMade, ClauseBuilt, CheckBuilt, ControlInv, BuildKinds
<1>3. BuildsIn(node, Used, job, pc, stack, mk, ret) /\ job \in Jobs
  BY <1>1, <1>2, BuildsBefore
<1>4. pc = "build" => stack = <<>>
  BY <1>2 DEF ControlInv, ApplyPcs, MakePcs
<1>5. CASE BuildLiteral
  <2>1. /\ pc = "build" /\ job.todo # {} /\ mk' = NodeFor(job, MaxOf(job.todo)) /\ pc' = "makenode"
        /\ UNCHANGED <<job, stack>>
    BY <1>5 DEF BuildLiteral, LiteralNode, NodeFor
  <2>2. job.r \in Kept
    BY <1>2, <2>1 DEF RootsInv, Kept
  <2>3. DisjIn(node, Used, job.lits, job.r, job.todo) /\ job.todo \subseteq {VarOf(x) : x \in job.lits}
    BY <1>3, <2>1 DEF BuildsIn
  <2>4. DisjIn(node', Used', job.lits, job.r, job.todo)
    BY <1>1, <2>2, <2>3, DisjKept
  <2> QED
    BY <1>4, <2>1, <2>3, <2>4 DEF BuildsIn
<1>6. CASE LiteralMade
  <2> DEFINE rest == job.todo \ {MaxOf(job.todo)}
  <2>1. /\ pc = "made" /\ stack = <<>> /\ pc' = "build" /\ UNCHANGED stack
        /\ job' = [job EXCEPT !.r = ret.root, !.todo = rest]
    BY <1>6 DEF LiteralMade
  <2>2. job'.r = ret.root /\ job'.todo = rest /\ job'.lits = job.lits /\ job'.kind = job.kind
    BY <1>3, <2>1 DEF Jobs
  <2>3. DisjIn(node, Used, job.lits, ret.root, rest) /\ job.todo \subseteq {VarOf(x) : x \in job.lits}
    BY <1>3, <2>1 DEF BuildsIn
  <2> HIDE DEF rest
  <2>4. ret.root \in Kept
    BY <1>2, <2>1, <2>2 DEF RootsInv, Kept
  <2>5. DisjIn(node', Used', job.lits, ret.root, rest)
    BY <1>1, <2>3, <2>4, DisjKept
  <2>6. rest \subseteq {VarOf(x) : x \in job.lits}
    BY <2>3 DEF rest
  <2> QED
    BY <2>1, <2>2, <2>5, <2>6 DEF BuildsIn
<1>7. CASE ClauseBuilt
  <2>1. /\ pc = "build" /\ job.todo = {} /\ pc' = "walk" /\ UNCHANGED <<node, stack>> /\ job.kind = "clause"
        /\ job' = [job EXCEPT !.at = job.r, !.todo = {VarOf(x) : x \in job.lits}]
    BY <1>7 DEF ClauseBuilt
  <2>2. /\ job'.r = job.r /\ job'.todo = {VarOf(x) : x \in job.lits} /\ job'.lits = job.lits
        /\ job'.kind = job.kind /\ Used' = Used
    BY <1>3, <2>1, TableUnchanged DEF Jobs
  <2>3. DisjIn(node, Used, job.lits, job.r, {})
    BY <1>3, <2>1 DEF BuildsIn
  <2> QED
    BY <1>4, <2>1, <2>2, <2>3 DEF BuildsIn
<1>8. CASE CheckBuilt
  <2>1. /\ pc = "build" /\ job.todo = {} /\ pc' = "call" /\ UNCHANGED stack
        /\ job' = [job EXCEPT !.kind = "check", !.dest = Tmp, !.args = job.args, !.r = job.r]
    BY <1>8 DEF CheckBuilt, StartApply
  <2>2. job'.r = job.r /\ job'.todo = {} /\ job'.lits = job.lits
    BY <1>3, <2>1 DEF Jobs
  <2>3. DisjIn(node, Used, job.lits, job.r, {})
    BY <1>3, <2>1 DEF BuildsIn
  <2>4. job.r \in Kept
    BY <1>2, <2>2 DEF RootsInv, Kept
  <2>5. DisjIn(node', Used', job.lits, job.r, {})
    BY <1>1, <2>3, <2>4, DisjKept
  <2> QED
    BY <1>4, <2>1, <2>2, <2>5 DEF BuildsIn
<1> QED
  BY <1>5, <1>6, <1>7, <1>8

\* The clause that has been validated is implied, and it stays so along the path.
LEMMA PathBuilds ==
    ASSUME Before, After, Running', FinishApply \/ Walk, job'.kind \in BuildKinds
    PROVE  BuildsIn(node', Used', job', pc', stack', mk', ret')
<1>1. Internal \/ Client
  BY DEF Internal
<1>2. TypeOK /\ ControlInv /\ job \in Jobs
  BY <1>1, BeforeFacts DEF TypeOK
<1>3. CASE FinishApply
  <2>1. job.kind = "check"
    <3>1. job'.kind = "none" \/ job.kind = "check"
      BY <1>3 DEF FinishApply, Return, NoJob
    <3> QED
      BY <3>1 DEF BuildKinds
  <2>2. BuildsIn(node, Used, job, pc, stack, mk, ret)
    BY <1>1, <2>1, BuildsBefore DEF BuildKinds
  <2>3. /\ pc = "ret" /\ stack = <<>> /\ UNCHANGED stack /\ pc' = "walk"
        /\ job' = [job EXCEPT !.at = FinishRoot, !.ants = <<GenId({node[FinishRoot].xvar}, 1)>>,
                             !.todo = {VarOf(x) : x \in job.lits}]
    BY <1>3, <2>1 DEF FinishApply, FinishRoot
  <2>4. job'.lits = job.lits /\ job'.todo = {VarOf(x) : x \in job.lits} /\ job'.kind = "check"
    BY <1>2, <2>1, <2>3 DEF Jobs
  <2>5. DisjIn(node, Used, job.lits, job.r, {})
    BY <2>2, <2>3 DEF BuildsIn
  <2>6. FinishRoot \in Trusted /\ FinishRoot = job.r
    BY <1>3, <2>1, FinishTrusted DEF FinishRoot
  <2>7. ASSUME NEW a \in Models PROVE SatClause(job.lits, a)
    <3>1. a \in Assignments /\ Value(job.r, a)
      BY <2>6, ModelsAssign DEF Trusted
    <3>2. Disjunction(job.r, {})
      BY <2>5, DisjNow
    <3> QED
      BY <3>1, <3>2, WholeClause
  <2>8. Implied(job.lits)
    BY <2>7 DEF Implied
  <2> QED
    BY <2>3, <2>4, <2>8 DEF BuildsIn
<1>4. CASE Walk
  <2>1. /\ pc = "walk" /\ pc' = "walk" /\ UNCHANGED <<node, stack>>
    BY <1>4 DEF Walk
  <2>2. job'.kind = job.kind /\ job'.lits = job.lits /\ job'.r = job.r /\ job'.todo \subseteq job.todo
    BY <1>2, <1>4 DEF Walk, Jobs
  <2>3. BuildsIn(node, Used, job, pc, stack, mk, ret)
    BY <1>1, <2>2, BuildsBefore
  <2>4. stack = <<>> /\ Used' = Used
    BY <1>2, <2>1, TableUnchanged DEF ControlInv, ApplyPcs, MakePcs
  <2> QED
    BY <2>1, <2>2, <2>3, <2>4 DEF BuildsIn
<1> QED
  BY <1>3, <1>4

\* A clause that BDD_build_clause has not begun with.
LEMMA StartBuilds ==
    ASSUME After, Running', NEW kind \in BuildKinds, NEW dest, NEW args, NEW lits, NEW id,
           StartBuild(kind, dest, args, lits, id), stack' = <<>>
    PROVE  BuildsIn(node', Used', job', pc', stack', mk', ret')
<1> DEFINE vs == {VarOf(x) : x \in lits}
<1>1. pc' = "build" /\ job' = [NoJob EXCEPT !.kind = kind, !.dest = dest, !.args = args,
                                            !.lits = lits, !.todo = vs, !.id = id]
  BY DEF StartBuild
<1>2. job'.lits = lits /\ job'.todo = vs /\ job'.r = 0
  BY <1>1 DEF NoJob
<1>3. {x \in lits : VarOf(x) \notin vs} = {}
  OBVIOUS
<1>4. \A a \in Assignments : ValueIn(node', Used', 0, a) = FALSE
  <2>1. Ranked(node', Used')
    BY TableRankedNext DEF After, IInv, OrderInv
  <2>2. Terminals \cap Used' = {}
    BY DEF Used, Inner
  <2> QED
    BY <2>1, <2>2, ConstantValues
<1>5. \A a : SatClause({}, a) = FALSE
  BY DEF SatClause
<1>6. DisjIn(node', Used', lits, 0, vs)
  BY <1>3, <1>4, <1>5 DEF DisjIn
<1> HIDE DEF vs
<1>7. job'.todo \subseteq {VarOf(x) : x \in job'.lits}
  BY <1>2 DEF vs
<1> QED
  BY <1>1, <1>2, <1>6, <1>7 DEF BuildsIn

\* What the client does, in the parts that the rest of the state can see.
LEMMA ClientMoves ==
    ASSUME Client, Running'
    PROVE  /\ pc = "client" /\ UNCHANGED stack
           /\ \/ \E h \in Open, id \in DOMAIN InputClauses : FromClause(h, id)
              \/ \E h1 \in Owned, lits \in ClientClauses : ValidateClause(lits, h1)
              \/ UNCHANGED job
              \/ /\ UNCHANGED handle
                 /\ \E h \in Open, h1 \in Owned, h2 \in Owned, r \in Nameable :
                      \/ StartApply("validate", h, <<h1>>, "imp", r)
                      \/ StartApply("and", h, <<h1, h2>>, "and", 0)
                      \/ StartApply("validateand", h, <<h1, h2>>, "aij", r)
<1> DEFINE Applies == \E h \in Open, h1 \in Owned, h2 \in Owned, r \in Nameable :
                        \/ StartApply("validate", h, <<h1>>, "imp", r)
                        \/ StartApply("and", h, <<h1, h2>>, "and", 0)
                        \/ StartApply("validateand", h, <<h1, h2>>, "aij", r)
           Calm == pc = "client" /\ UNCHANGED stack
           Moves == Calm /\ (UNCHANGED job \/ (UNCHANGED handle /\ Applies))
<1>1. ASSUME NEW h, NEW h1, Addref(h, h1) PROVE Moves
  BY <1>1 DEF Addref, MayStart
<1>2. ASSUME NEW h \in Open, NEW h1 \in Owned, NEW r \in Nameable, Validate(h, r, h1) PROVE Moves
  <2>1. Calm
    BY <1>2 DEF Validate, MayStart
  <2>2. UNCHANGED job \/ (UNCHANGED handle /\ StartApply("validate", h, <<h1>>, "imp", r))
    BY <1>2 DEF Validate
  <2> HIDE DEF Calm
  <2> QED
    BY <2>1, <2>2
<1>3. ASSUME NEW h \in Open, NEW h1 \in Owned, NEW h2 \in Owned, And(h, h1, h2) PROVE Moves
  <2>1. Calm
    BY <1>3 DEF And, MayStart
  <2>2. UNCHANGED job \/ (UNCHANGED handle /\ StartApply("and", h, <<h1, h2>>, "and", 0))
    BY <1>3 DEF And
  <2>3. 0 \in Nameable
    BY DEF Nameable
  <2> HIDE DEF Calm
  <2> QED
    BY <2>1, <2>2, <2>3
<1>4. ASSUME NEW h \in Open, NEW h1 \in Owned, NEW h2 \in Owned, NEW r \in Nameable,
             ValidateWithAnd(h, r, h1, h2)
      PROVE  Moves
  <2>1. Calm
    BY <1>4 DEF ValidateWithAnd, MayStart
  <2>2. UNCHANGED handle /\ StartApply("validateand", h, <<h1, h2>>, "aij", r)
    BY <1>4 DEF ValidateWithAnd
  <2> HIDE DEF Calm
  <2> QED
    BY <2>1, <2>2
<1>5. ASSUME NEW h, Delref(h) PROVE Moves
  BY <1>5 DEF Delref
<1>6. ~Done
  BY DEF Done, Running
<1>7. ASSUME NEW h, NEW id, FromClause(h, id) PROVE Calm
  BY <1>7 DEF FromClause, MayStart
<1>8. ASSUME NEW lits, NEW h1, ValidateClause(lits, h1) PROVE Calm
  BY <1>8 DEF ValidateClause, MayStart
<1> HIDE DEF Moves
<1>9. \/ Moves
      \/ \E h \in Open, id \in DOMAIN InputClauses : FromClause(h, id)
      \/ \E h1 \in Owned, lits \in ClientClauses : ValidateClause(lits, h1)
  BY <1>1, <1>2, <1>3, <1>4, <1>5, <1>6 DEF Client
<1> HIDE DEF Calm, Applies
<1>10. CASE Moves
  <2>1. Calm /\ (UNCHANGED job \/ (UNCHANGED handle /\ Applies))
    BY <1>10 DEF Moves
  <2> QED
    BY <2>1 DEF Calm, Applies
<1>11. CASE \E h \in Open, id \in DOMAIN InputClauses : FromClause(h, id)
  BY <1>7, <1>11 DEF Calm
<1>12. CASE \E h1 \in Owned, lits \in ClientClauses : ValidateClause(lits, h1)
  BY <1>8, <1>12 DEF Calm
<1> QED
  BY <1>9, <1>10, <1>11, <1>12

\* BDD_build_clause always has the disjunction of the literals it is done with.
LEMMA BuildsStep ==
    ASSUME Before, After, Internal \/ Client, Running', job'.kind \in BuildKinds
    PROVE  BuildsIn(node', Used', job', pc', stack', mk', ret')
<1>1. TypeOK /\ ControlInv
  BY BeforeFacts
<1>2. CASE Makes
  BY <1>2, MakesFacts, MakeBuilds
<1>3. CASE EnterLeaf \/ EnterDegenerate \/ EnterMiss \/ ReturnLow \/ ReturnHigh \/ JustifyStep
  <2>1. UNCHANGED job
    BY <1>3 DEF EnterLeaf, EnterDegenerate, EnterMiss, ReturnLow, ReturnHigh, JustifyStep
  <2> QED
    BY <1>3, <2>1, RecursionBuilds
<1>4. CASE BuildLiteral \/ LiteralMade \/ ClauseBuilt \/ CheckBuilt
  BY <1>4, LiteralBuilds
<1>5. CASE FinishApply \/ Walk
  BY <1>5, PathBuilds
<1>6. CASE SetVar \/ VarMade
  <2>1. job.kind = "none" /\ job \in Jobs /\ (UNCHANGED job \/ job' = NoJob \/ job' = [job EXCEPT !.id = @ + 1])
    BY <1>1, <1>6 DEF SetVar, VarMade, ControlInv, TypeOK
  <2>2. job'.kind = "none"
    BY <2>1 DEF Jobs, NoJob
  <2> QED
    BY <2>2 DEF BuildKinds
<1>7. CASE ClauseWalked \/ CheckWalked
  <2>1. job' = NoJob
    BY <1>7 DEF ClauseWalked, CheckWalked, Return
  <2> QED
    BY <2>1 DEF NoJob, BuildKinds
<1>8. CASE EnterRefuted
  BY <1>8 DEF EnterRefuted, Running
<1>9. CASE Client
  <2>1. pc = "client" /\ UNCHANGED stack
    BY <1>9, ClientMoves
  <2>2. stack' = <<>> /\ job = NoJob
    BY <1>1, <2>1 DEF ControlInv, ApplyPcs, MakePcs
  <2>3. CASE \E h \in Open, id \in DOMAIN InputClauses : FromClause(h, id)
    BY <2>2, <2>3, StartBuilds DEF FromClause, BuildKinds
  <2>4. ASSUME NEW h1 \in Owned, NEW lits \in ClientClauses, ValidateClause(lits, h1)
        PROVE  BuildsIn(node', Used', job', pc', stack', mk', ret')
    <3>1. job'.kind = "path" \/ StartBuild("check", Tmp, <<h1>>, lits, 0)
      BY <2>4 DEF ValidateClause, NoJob
    <3> QED
      BY <2>2, <3>1, StartBuilds DEF BuildKinds
  <2>5. CASE UNCHANGED job
    BY <2>2, <2>5 DEF NoJob, BuildKinds
  <2>6. ASSUME NEW kind \in {"validate", "and", "validateand"}, NEW dest, NEW args, NEW op, NEW r,
               StartApply(kind, dest, args, op, r)
        PROVE  FALSE
    <3>1. job'.kind = kind
      BY <2>2, <2>6 DEF StartApply, NoJob
    <3> QED
      BY <3>1 DEF BuildKinds
  <2> QED
    BY <1>9, <2>3, <2>4, <2>5, <2>6, ClientMoves
<1> QED
  BY <1>2, <1>3, <1>4, <1>5, <1>6, <1>7, <1>8, <1>9 DEF Internal, Makes

\* An operation goes on.
LEMMA JobSame ==
    ASSUME JobIn(job, handle), job'.kind = job.kind, job'.lits = job.lits, job'.args = job.args,
           job.kind = "clause" => job'.id = job.id,
           UNCHANGED handle \/ job.kind \notin {"and", "validate", "validateand"}
    PROVE  JobIn(job', handle')
BY DEF JobIn
LEMMA JobNone == job'.kind = "none" => JobIn(job', handle')
BY DEF JobIn

\* tbdd_validate_clause goes down the path only when its clause is implied.
LEMMA PathImplied ==
    ASSUME Before, Internal \/ Client, NEW h1 \in Owned, NEW lits, FalsifyingPath(lits, handle[h1].root)
    PROVE  Implied(lits)
<1>1. Ranked(node, Used) /\ TableInv /\ Terminals \cap Used = {}
  BY BeforeFacts
<1>2. handle[h1].root \in Trusted
  BY HeldTrusted DEF Owned
<1>3. ASSUME NEW a \in Models PROVE SatClause(lits, a)
  <2>1. handle[h1].root \in Live /\ Value(handle[h1].root, a) /\ a \in Assignments
    BY <1>2, ModelsAssign DEF Trusted
  <2> QED
    BY <1>1, <2>1, PathImplies
<1> QED
  BY <1>3 DEF Implied

\* What a new operation is given is still there.
LEMMA JobStarts ==
    ASSUME Before, Internal \/ Client, Running', Client
    PROVE  JobIn(job', handle')
<1>1. ControlInv /\ TypeOK /\ pc = "client" /\ job = NoJob
  BY BeforeFacts, ClientMoves DEF ControlInv
<1>2. CASE UNCHANGED job
  BY <1>1, <1>2, JobNone DEF NoJob
<1>3. ASSUME NEW h \in Open, NEW id \in DOMAIN InputClauses, FromClause(h, id) PROVE JobIn(job', handle')
  <2>1. job'.kind = "clause" /\ job'.lits = InputClauses[id] /\ job'.id = id
    BY <1>3 DEF FromClause, StartBuild, NoJob
  <2> QED
    BY <2>1 DEF JobIn
<1>4. ASSUME NEW h1 \in Owned, NEW lits \in ClientClauses, ValidateClause(lits, h1)
      PROVE  JobIn(job', handle')
  <2>1. CASE FalsifyingPath(lits, handle[h1].root)
    <3>1. job'.kind = "path" /\ job'.lits = lits
      BY <1>4, <2>1 DEF ValidateClause, NoJob
    <3> QED
      BY <2>1, <3>1, PathImplied DEF JobIn
  <2>2. CASE ~FalsifyingPath(lits, handle[h1].root)
    <3>1. job'.kind = "check" /\ job'.lits = lits
      BY <1>4, <2>2 DEF ValidateClause, StartBuild, NoJob
    <3> QED
      BY <3>1 DEF JobIn
  <2> QED
    BY <2>1, <2>2
<1>5. ASSUME UNCHANGED handle, NEW h \in Open, NEW h1 \in Owned, NEW h2 \in Owned, NEW r \in Nameable,
             \/ StartApply("validate", h, <<h1>>, "imp", r)
             \/ StartApply("and", h, <<h1, h2>>, "and", 0)
             \/ StartApply("validateand", h, <<h1, h2>>, "aij", r)
      PROVE  JobIn(job', handle')
  <2>1. handle'[h1].root # -1 /\ handle'[h2].root # -1
    BY <1>5 DEF Owned, Held
  <2>2. \/ job'.kind = "validate" /\ job'.args = <<h1>>
        \/ job'.kind \in {"and", "validateand"} /\ job'.args = <<h1, h2>>
    BY <1>1, <1>5 DEF StartApply, NoJob
  <2>3. CASE job'.kind = "validate" /\ job'.args = <<h1>>
    BY <2>1, <2>3 DEF JobIn
  <2>4. CASE job'.kind \in {"and", "validateand"} /\ job'.args = <<h1, h2>>
    <3>1. Len(job'.args) = 2 /\ \A i \in DOMAIN job'.args : handle'[job'.args[i]].root # -1
      BY <2>1, <2>4
    <3> QED
      BY <2>4, <3>1 DEF JobIn
  <2> QED
    BY <2>2, <2>3, <2>4
<1> QED
  BY <1>2, <1>3, <1>4, <1>5, ClientMoves

\* Every step keeps what an operation was given.
LEMMA OperationStep ==
    ASSUME Before, After, Internal \/ Client, Running'
    PROVE  JobInv'
<1>1. TypeOK /\ ControlInv /\ JobIn(job, handle) /\ job \in Jobs
  BY BeforeFacts, JobParts DEF TypeOK
<1>2. JobIn(job', handle')
  <2>1. CASE UNCHANGED <<job, handle>>
    BY <1>1, <2>1, JobSame
  <2>2. CASE EnterLeaf \/ EnterDegenerate \/ EnterMiss \/ ReturnLow \/ ReturnHigh \/ JustifyStep \/ BuildLiteral
    BY <2>1, <2>2 DEF EnterLeaf, EnterDegenerate, EnterMiss, ReturnLow, ReturnHigh, JustifyStep, BuildLiteral
  <2>3. CASE Makes
    <3>1. UNCHANGED job
      BY <2>3, MakesFacts
    <3>2. UNCHANGED handle
      BY <2>3 DEF Makes, MakeFound, MakeFresh, MakeGbc, Grow
    <3> QED
      BY <2>1, <3>1, <3>2
  <2>4. CASE SetVar \/ VarMade
    <3>1. job.kind = "none" /\ (UNCHANGED job \/ job' = NoJob \/ job' = [job EXCEPT !.id = @ + 1])
      BY <1>1, <2>4 DEF SetVar, VarMade, ControlInv
    <3>2. job'.kind = "none"
      BY <1>1, <3>1 DEF Jobs, NoJob
    <3> QED
      BY <3>2, JobNone
  <2>5. CASE FinishApply
    <3>1. CASE job.kind = "check"
      <4>1. job'.kind = job.kind /\ job'.lits = job.lits /\ job'.args = job.args
        BY <1>1, <2>5, <3>1 DEF FinishApply, Jobs
      <4> QED
        BY <1>1, <3>1, <4>1, JobSame
    <3>2. CASE job.kind # "check"
      BY <2>5, <3>2, JobNone DEF FinishApply, Return, NoJob
    <3> QED
      BY <3>1, <3>2
  <2>6. CASE LiteralMade \/ ClauseBuilt
    <3>1. /\ job'.kind = job.kind /\ job'.lits = job.lits /\ job'.args = job.args /\ job'.id = job.id
          /\ UNCHANGED handle
      BY <1>1, <2>6 DEF LiteralMade, ClauseBuilt, Jobs
    <3> QED
      BY <1>1, <3>1, JobSame
  <2>7. CASE CheckBuilt
    <3>1. /\ job'.kind = job.kind /\ job'.lits = job.lits /\ job'.args = job.args /\ job.kind = "check"
      BY <1>1, <2>7 DEF CheckBuilt, StartApply, Jobs
    <3> QED
      BY <1>1, <3>1, JobSame
  <2>8. CASE Walk
    <3>1. UNCHANGED handle
      BY <2>8 DEF Walk
    <3>2. /\ job'.kind = job.kind /\ job'.lits = job.lits /\ job'.args = job.args
          /\ job.kind = "clause" => job'.id = job.id
      BY <1>1, <2>8 DEF Walk, Jobs
    <3> QED
      BY <1>1, <3>1, <3>2, JobSame
  <2>9. CASE ClauseWalked \/ CheckWalked
    <3>1. job' = NoJob
      BY <2>9 DEF ClauseWalked, CheckWalked, Return
    <3> QED
      BY <3>1, JobNone DEF NoJob
  <2>10. CASE EnterRefuted
    BY <2>10 DEF EnterRefuted, Running
  <2>11. CASE Client
    BY <2>11, JobStarts
  <2> QED
    BY <2>2, <2>3, <2>4, <2>5, <2>6, <2>7, <2>8, <2>9, <2>10, <2>11 DEF Internal, Makes
<1> QED
  BY <1>2, BuildsStep, JobParts

-----------------------------------------------------------------------------
(* The meaning is kept *)

LEMMA MeaningStep ==
    ASSUME Before, After, Internal \/ Client
    PROVE  MeaningInv'
<1>1. TrustedSound'
  BY SoundStep
<1>2. Running' => CacheInv' /\ CallsInv' /\ JobInv'
  BY CacheStep, CallsStep, OperationStep
<1> QED
  BY <1>1, <1>2 DEF MeaningInv

LEMMA MeaningStutter ==
    ASSUME MeaningInv, UNCHANGED vars
    PROVE  MeaningInv'
<1> USE DEF vars
<1>1. node' = node /\ Used' = Used /\ Live' = Live
  BY TableUnchanged DEF Live
<1>2. FileSound' = FileSound /\ Held' = Held
  BY DEF FileSound, Held
<1>3. TrustedSound'
  BY <1>1, <1>2 DEF MeaningInv, TrustedSound, FileSound, Implied, Value, Models, Assignments
<1>4. Running' = Running
  BY DEF Running
<1>5. Running => CacheInv'
  BY <1>1, CacheEntries DEF MeaningInv
<1>6. Running => CallsInv'
  <2>1. JobCall' = JobCall
    BY JobCallKept
  <2> QED
    BY <1>1, <2>1, CallsParts DEF MeaningInv
<1>7. Running => JobInv'
  BY <1>1, JobParts DEF MeaningInv
<1> QED
  BY <1>3, <1>4, <1>5, <1>6, <1>7 DEF MeaningInv

\* Nothing has been said at the start but the input clauses.
LEMMA MeaningInit == Init => MeaningInv
<1> SUFFICES ASSUME Init PROVE MeaningInv
  OBVIOUS
<1>1. stack = <<>> /\ job = NoJob /\ pc = "setvarnum"
  BY DEF Init
<1>2. Held = {}
  BY DEF Init, Held, NoTbdd
<1>3. TrustedSound
  <2>1. emptyId = TAUTOLOGY
    BY DEF Init
  <2>2. \A i \in DOMAIN db : db[i].kind = "input"
    BY DEF Init, LogSpec!Init
  <2> QED
    BY <1>2, <2>1, <2>2 DEF TrustedSound
<1>4. CacheInv
  BY DEF Init, CacheInv, NoEntry
<1>5. CallsInv
  <2>1. DOMAIN stack = {}
    BY <1>1
  <2> QED
    BY <1>1, <2>1, CallsParts DEF CallsIn, FramesIn, LowsIn, NowIn
<1>6. JobInv
  BY <1>1, JobParts DEF NoJob, JobIn, BuildKinds
<1> QED
  BY <1>3, <1>4, <1>5, <1>6 DEF MeaningInv

THEOREM MeaningKept == Spec /\ []IdsFit => []MeaningInv
<1>1. Init => MeaningInv
  BY MeaningInit
<1>2. IInv /\ IInv' /\ OrderInv /\ OrderInv' /\ OwnerInv /\ OwnerInv' /\ IdsFit /\ IdsFit'
         /\ MeaningInv /\ [Next]_vars => MeaningInv'
  <2>1. ASSUME Before, After, Internal \/ Client PROVE MeaningInv'
    BY <2>1, MeaningStep
  <2>2. ASSUME MeaningInv, Stopped \/ UNCHANGED vars PROVE MeaningInv'
    BY <2>2, MeaningStutter DEF Stopped
  <2> QED
    BY <2>1, <2>2 DEF Next, Before, After
<1> QED
  BY <1>1, <1>2, Inductive, OrderKept, OwnersKept, PTL DEF Spec

\* Soundness of the package: every root that the client holds is implied by the
\* input clauses, every clause that it was given is implied by them, and the
\* empty clause is only written when they are unsatisfiable.
THEOREM TrustedIsSound == Spec /\ []IdsFit => []TrustedSound
<1>1. MeaningInv => TrustedSound
  BY DEF MeaningInv
<1> QED
  BY <1>1, MeaningKept, PTL

\* An entry of the operation cache is right for as long as it can be found: its
\* root answers its operation for every assignment, and its clause is in the
\* file and says so, whatever the collector has done to the table since.
THEOREM CacheIsRight == Spec /\ []IdsFit => []CacheRight
<1>1. MeaningInv /\ OwnerInv => CacheRight
  <2> SUFFICES ASSUME MeaningInv, OwnerInv, Running, NEW s \in Slots, cache[s].a # -1
               PROVE  /\ \A x \in Assignments :
                            CASE cache[s].op = "and" ->
                                   Value(cache[s].root, x) = (Value(cache[s].a, x) /\ Value(cache[s].b, x))
                              [] cache[s].op = "imp" -> Value(cache[s].a, x) => Value(cache[s].b, x)
                              [] cache[s].op = "aij" ->
                                   Value(cache[s].a, x) /\ Value(cache[s].b, x) => Value(cache[s].c, x)
                      /\ cache[s].cid # TAUTOLOGY /\ emptyId = TAUTOLOGY =>
                            /\ cache[s].cid \in DOMAIN db
                            /\ db[cache[s].cid].lits = EntryClause(cache[s])
    BY DEF CacheRight, EntryClause
  <2> DEFINE e == cache[s]
  <2>1. /\ e.op \in Ops /\ Answers([op |-> e.op, l |-> e.a, r |-> e.b, t |-> e.c], e.root)
        /\ e.cid # TAUTOLOGY /\ emptyId = TAUTOLOGY => db[e.cid].lits = EntryClause(e)
    BY DEF MeaningInv, CacheInv
  <2>2. e.cid # TAUTOLOGY /\ emptyId = TAUTOLOGY => e.cid \in DOMAIN db
    BY DEF OwnerInv, OneOwner, Running, CachedClauses, KindOf
  <2> HIDE DEF e
  <2>3. ASSUME NEW x \in Assignments
        PROVE  /\ e.op = "and" => Value(e.root, x) = (Value(e.a, x) /\ Value(e.b, x))
               /\ e.op = "imp" => (Value(e.a, x) => Value(e.b, x))
               /\ e.op = "aij" => (Value(e.a, x) /\ Value(e.b, x) => Value(e.c, x))
    BY <2>1 DEF Answers
  <2>4. ASSUME NEW x \in Assignments
        PROVE  CASE e.op = "and" -> Value(e.root, x) = (Value(e.a, x) /\ Value(e.b, x))
                 [] e.op = "imp" -> Value(e.a, x) => Value(e.b, x)
                 [] e.op = "aij" -> Value(e.a, x) /\ Value(e.b, x) => Value(e.c, x)
    <3>1. e.op \in {"and", "imp", "aij"}
      BY <2>1 DEF Ops
    <3> QED
      BY <2>3, <3>1
  <2> QED
    BY <2>1, <2>2, <2>4 DEF e
<1> QED
  BY <1>1, MeaningKept, OwnersKept, PTL

\* All of the inductive invariant.
THEOREM FullInductive == Spec /\ []IdsFit => []FullInv
<1>1. IInv /\ OrderInv /\ OwnerInv /\ MeaningInv => FullInv
  BY DEF FullInv
<1> QED
  BY <1>1, Inductive, OrderKept, OwnersKept, MeaningKept, PTL
=============================================================================
