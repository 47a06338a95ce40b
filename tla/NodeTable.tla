----------------------------- MODULE NodeTable -----------------------------
(***************************************************************************)
(* The node table of kernel.c as it lies in memory: an array of nodes, each  *)
(* the head of one hash chain and a member of another, or of the free list;   *)
(* the collector, which rebuilds both, and the growth of the array.           *)
(***************************************************************************)
EXTENDS Integers, Sequences, FiniteSets, FiniteSetsExt

CONSTANTS
    InitSize,      \* initnodesize
    MaxSizes,      \* what bddmaxnodesize may be set to
    MaxIncrease,   \* bddmaxnodeincrease
    MinFree,       \* minfreenodes, in percent
    MaxVarnum,     \* bound on the number of variables
    MaxHeld,       \* bound on the results a caller keeps
    MaxCounted,    \* bound on the counted nodes
    MaxProduced,   \* bound on the nodes ever built
    MAXREF

MAXVAR == MaxVarnum + 1

ASSUME NodeTableAssumption ==
    /\ InitSize \in Nat \ {0, 1} /\ MaxSizes \subseteq Nat /\ MaxIncrease \in Nat
    /\ MinFree \in 0..100 /\ MaxVarnum \in Nat /\ MAXREF \in Nat \ {0}

VARIABLES
    bddmaxnodesize,  \* set before the first variable is declared
    node,      \* bddnodes: records of level, low, high, refcou, hash, next
    freepos,   \* bddfreepos
    freenum,   \* bddfreenum
    produced,  \* bddproduced
    varnum,    \* bddvarnum
    kept,      \* what callers have on bddrefstack
    err        \* the error that ended an operation, or "none"

tableVars == <<bddmaxnodesize, node, freepos, freenum, produced, varnum, kept, err>>

\* Both searches step over the even numbers.
IsPrime(n) == n >= 3 /\ \A d \in 2..(n - 1) : n % d # 0
PrimeGte(n) == Min({p \in n..(2 * n) : IsPrime(p)})
PrimeLte(n) == Max({p \in 3..n : IsPrime(p)})

ASSUME PrimeAssumption == \E p \in InitSize..(2 * InitSize) : IsPrime(p)   \* Bertrand's postulate

Size(tab) == Cardinality(DOMAIN tab)
Used(tab) == {n \in DOMAIN tab : n >= 2 /\ tab[n].low # -1}

PAIR(a, b) == ((a + b) * (a + b + 1)) \div 2 + a
NODEHASH(tab, l, lo, hi) == PAIR(hi, PAIR(l, lo)) % Size(tab)
HashOf(tab, n) == NODEHASH(tab, tab[n].level, tab[n].low, tab[n].high)

Empty == [level |-> 0, low |-> -1, high |-> 0, ref |-> 0, hash |-> 0, next |-> 0]

\* The entries that follow an index, or 0.
NextIn(S, n) == LET later == {m \in S : m > n} IN IF later = {} THEN 0 ELSE Min(later)

\* bdd_gbc_rehash and the last loop of bdd_gbc: from the last entry to the
\* first, used nodes go to the front of their chain, the others to the free list.
Rehashed(tab, keep) ==
    [n \in DOMAIN tab |->
        LET chain == {m \in keep : HashOf(tab, m) = n}
            peers == {m \in keep : HashOf(tab, m) = HashOf(tab, n)}
        IN  [tab[n] EXCEPT
               !.hash = NextIn(chain, 0),
               !.low  = IF n < 2 \/ n \in keep THEN @ ELSE -1,
               !.next = IF n < 2 THEN @ ELSE IF n \in keep THEN NextIn(peers, n)
                        ELSE NextIn(DOMAIN tab \ (keep \cup {0, 1}), n)]]
FirstFree(tab, keep) == NextIn(DOMAIN tab \ (keep \cup {0, 1}), 0)
FreeCount(tab, keep) == Size(tab) - 2 - Cardinality(keep)

-----------------------------------------------------------------------------
TableInit ==
    LET size == PrimeGte(InitSize)
    IN  /\ node = [n \in 0..(size - 1) |->
                     IF n < 2 THEN [Empty EXCEPT !.level = MAXVAR, !.low = n, !.high = n, !.ref = MAXREF, !.next = n + 1]
                     ELSE [Empty EXCEPT !.next = IF n = size - 1 THEN 0 ELSE n + 1]]
        /\ freepos = 2 /\ freenum = size - 2 /\ produced = 0
        /\ varnum = 0 /\ kept = {} /\ err = "none"
        /\ bddmaxnodesize \in MaxSizes

\* bdd_mark from the references on the stack and the counted nodes.
WithChildren(tab, S) == S \cup UNION {{tab[n].low, tab[n].high} \ {0, 1} : n \in S}
Reach(tab, S) ==
    LET marked[k \in 0..Size(tab)] == IF k = 0 THEN S ELSE WithChildren(tab, marked[k - 1])
    IN  marked[Size(tab)]
\* Mutant: the stack is not marked.
RootsCounted(tab, stack) == {n \in Used(tab) : tab[n].ref > 0}
Roots(tab, stack) == {n \in Used(tab) : tab[n].ref > 0} \cup (stack \ {0, 1})

\* Mutant: the chains of the old size are kept.
GrownStale(tab, size) == [n \in 0..(size - 1) |-> IF n \in DOMAIN tab THEN tab[n] ELSE Empty]
\* bdd_noderesize(1): a larger array, and every chain anew.
Enlarged(tab, size) ==
    LET big == [n \in 0..(size - 1) |-> IF n \in DOMAIN tab THEN tab[n] ELSE Empty]
    IN  Rehashed(big, Used(big))
NewSize(old) ==
    IF old >= bddmaxnodesize /\ bddmaxnodesize > 0 THEN old
    ELSE LET two == IF 2 * old > old + MaxIncrease THEN old + MaxIncrease ELSE 2 * old
         IN  PrimeLte(IF two > bddmaxnodesize /\ bddmaxnodesize > 0 THEN bddmaxnodesize ELSE two)

\* A full table: collect, and grow when too little was free.
\* Mutant: the table may only grow.
AfterGbc(tab, stack) == Rehashed(tab, Reach(tab, Roots(tab, stack)))
MadeRoomGrow(tab, stack) == Enlarged(tab, NewSize(Size(tab)))
GrownIfShort(t) ==
    IF (FreeCount(t, Used(t)) * 100) \div Size(t) <= MinFree THEN Enlarged(t, NewSize(Size(t))) ELSE t
MadeRoom(tab, stack) == GrownIfShort(AfterGbc(tab, stack))

\* The nodes of a chain, by following next.
Chain(tab, h) ==
    LET at[k \in 0..Size(tab)] ==
            IF k = 0 THEN tab[h].hash ELSE IF at[k - 1] = 0 THEN 0 ELSE tab[at[k - 1]].next
    IN  {at[k] : k \in 0..Size(tab)} \ {0}

\* bdd_makenode: the table, the free list and the result, 0 with an error.
Made(tab, fp, fn, made, e, r) ==
    [tab |-> tab, freepos |-> fp, freenum |-> fn, produced |-> made, err |-> e, res |-> r]
Refused(m, e) == Made(m.tab, m.freepos, m.freenum, m.produced, e, 0)
WithTable(m, t) == [m EXCEPT !.tab = t, !.freepos = FirstFree(t, Used(t)), !.freenum = FreeCount(t, Used(t))]
\* The first free entry, fp, becomes the head of its chain, h.
LinkIn(tab, fp, l, lo, hi, h) ==
    [tab EXCEPT ![fp].level = l, ![fp].low = lo, ![fp].high = hi,
                ![fp].next = tab[h].hash, ![h].hash = fp]
Linked(m, fp, l, lo, hi, h) ==
    IF fp = 0 THEN Refused(m, "BDD_NODENUM")
    ELSE Made(LinkIn(m.tab, fp, l, lo, hi, h), m.tab[fp].next, m.freenum - 1, m.produced + 1, m.err, fp)
NewNode(m, l, lo, hi) == Linked(m, m.freepos, l, lo, hi, NODEHASH(m.tab, l, lo, hi))
makenode(m, l, lo, hi, stack) ==
    LET found == {n \in Chain(m.tab, NODEHASH(m.tab, l, lo, hi)) :
                    m.tab[n].level = l /\ m.tab[n].low = lo /\ m.tab[n].high = hi}
    IN  IF lo = hi THEN [m EXCEPT !.res = lo]
        ELSE IF found # {} THEN [m EXCEPT !.res = CHOOSE n \in found : TRUE]
        ELSE IF l >= m.tab[lo].level \/ l >= m.tab[hi].level THEN Refused(m, "BDD_ILLBDD")
        ELSE NewNode(IF m.freepos # 0 THEN m ELSE WithTable(m, MadeRoom(m.tab, stack)), l, lo, hi)

Now == Made(node, freepos, freenum, produced, err, 0)
Keeps(m) ==
    /\ node' = m.tab /\ freepos' = m.freepos /\ freenum' = m.freenum /\ produced' = m.produced /\ err' = m.err

\* bdd_setvarnum: two nodes for every new variable, then the level of the
\* constants below all of them.
Pinned(m, n) == [m EXCEPT !.tab = [@ EXCEPT ![n].ref = MAXREF, ![m.res].ref = MAXREF]]
NegatedToo(m, v) ==
    IF m.err # "none" THEN m
    ELSE LET q == makenode(m, v, 1, 0, {m.res}) IN IF q.err # "none" THEN q ELSE Pinned(q, m.res)
NodesOf(m, v) == IF m.err # "none" THEN m ELSE NegatedToo(makenode(m, v, 0, 1, {}), v)
WithVars(num) ==
    LET upto[v \in varnum..num] == IF v = varnum THEN Now ELSE NodesOf(upto[v - 1], v - 1) IN upto[num]
VarsAdded(m, num) ==
    IF m.err # "none" THEN Keeps(m) /\ UNCHANGED varnum
    ELSE /\ Keeps([m EXCEPT !.tab = [@ EXCEPT ![0].level = num, ![1].level = num]])
         /\ varnum' = num
setvarnum(num) ==
    /\ err = "none" /\ num > varnum
    /\ VarsAdded(WithVars(num), num)
    /\ kept' = {}

\* An operation asks for a node over results that it keeps.
Returned(m) ==
    /\ Keeps(m)
    /\ kept' = IF m.err # "none" \/ m.res < 2 THEN kept ELSE kept \cup {m.res}
Make(l, lo, hi) ==
    /\ err = "none" /\ varnum > 0 /\ produced < MaxProduced
    /\ l < node[lo].level /\ l < node[hi].level
    /\ Returned(makenode(Now, l, lo, hi, kept))
    /\ Cardinality(kept') <= MaxHeld
    /\ UNCHANGED varnum

Drop(n) ==
    /\ err = "none" /\ kept' = kept \ {n}
    /\ UNCHANGED <<node, freepos, freenum, produced, varnum, err>>

addref(n) ==
    /\ err = "none" /\ Cardinality({m \in Used(node) : 0 < node[m].ref}) < MaxCounted
    /\ node' = [node EXCEPT ![n].ref = IF @ < MAXREF THEN @ + 1 ELSE @]
    /\ UNCHANGED <<freepos, freenum, produced, varnum, kept, err>>
delref(n) ==
    /\ err = "none" /\ node[n].ref > 0
    /\ node' = [node EXCEPT ![n].ref = IF @ < MAXREF THEN @ - 1 ELSE @]
    /\ UNCHANGED <<freepos, freenum, produced, varnum, kept, err>>

gbc ==
    /\ err = "none"
    /\ Keeps(WithTable(Now, AfterGbc(node, kept)))
    /\ UNCHANGED <<varnum, kept>>

Nameable == Reach(node, Roots(node, kept)) \cup {0, 1}

TableNext ==
    /\ UNCHANGED bddmaxnodesize
    /\ \/ varnum = 0 /\ \E num \in 1..MaxVarnum : setvarnum(num)
       \/ \E lo, hi \in Nameable : \E l \in 0..(varnum - 1) : Make(l, lo, hi)
       \/ \E n \in kept : Drop(n) \/ addref(n)
       \/ \E n \in Nameable \ {0, 1} : delref(n)
       \/ gbc

TableSpec == TableInit /\ [][TableNext]_tableVars

-----------------------------------------------------------------------------
\* The nodes that somebody counts on.
Wanted == {n \in Used(node) : node[n].ref > 0} \cup (kept \ {0, 1})

\* Whoever holds a node finds it unchanged, and an equal node is never built.
Table == INSTANCE UniqueTable WITH
    nodes <- [n \in Used(node) |-> <<node[n].level, node[n].low, node[n].high>>],
    roots <- Wanted
KeepsNodes == Table!Spec

\* Every entry is in one chain, its own, or in the free list, and the list ends.
FreeList ==
    LET at[k \in 0..Size(node)] ==
            IF k = 0 THEN freepos ELSE IF at[k - 1] = 0 THEN 0 ELSE node[at[k - 1]].next
    IN  {at[k] : k \in 0..Size(node)}
ChainsExact ==
    /\ \A h \in DOMAIN node : Chain(node, h) = {n \in Used(node) : HashOf(node, n) = h}
    /\ FreeList = (DOMAIN node \ (Used(node) \cup {0, 1})) \cup {0}
    /\ freenum = Cardinality(FreeList) - 1

\* A node that an operation is refused for want of room: every other is needed, and
\* the table has its last size.
FullMeansFull ==
    err = "BDD_NODENUM" /\ varnum > 0 => Reach(node, Wanted) = 2..(Size(node) - 1) /\ NewSize(Size(node)) = Size(node)

\* Chains and free list cover the array, also when it has no room left.
TableExact == ChainsExact /\ FullMeansFull
=============================================================================
