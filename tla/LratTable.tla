----------------------------- MODULE LratTable -----------------------------
(***************************************************************************)
(* The clause storage of lrat-check: literals lie one after the other in     *)
(* one array (table), an index is found through its bucket, and a bucket     *)
(* whose clauses are all deleted is given to other indices.                  *)
(***************************************************************************)
EXTENDS Integers, Sequences, FiniteSets

CONSTANTS
    Clauses,     \* the clauses that are added: sequences of literals
    Indices,     \* their indices
    BUCKET,      \* indices per bucket
    InitTop,     \* INIT: entries of topTable at the start
    InitAlloc    \* integers allocated for the table at the start: 2 * nCls

DELETED == -1

ASSUME TableAssumption ==
    /\ Indices \subseteq Nat \ {0} /\ BUCKET \in Nat \ {0} /\ InitTop \in Nat \ {0, 1}
    /\ InitAlloc \in Nat
    /\ Clauses \subseteq Seq(Int)
    /\ \A c \in Clauses : \A k \in DOMAIN c : c[k] # 0

VARIABLES topTable, inBucket, clsList, table, tableAlloc, lastIndex, deleted, del

storageVars == <<topTable, inBucket, clsList, table, tableAlloc, lastIndex, deleted, del>>

\* topTable[index/BUCKET] and the place of the index in its bucket.
Bucket(index) == topTable[index \div BUCKET]
Offset(index) == index % BUCKET

Known(index) == Bucket(index) # -1
getClause(index) == IF Known(index) THEN clsList[Bucket(index)][Offset(index)] ELSE DELETED

\* The literals from a place of the table to the next 0.
ReadAt(tab, pos) ==
    LET n == CHOOSE n \in 0..Len(tab) : tab[pos + n + 1] = 0 /\ \A k \in 1..n : tab[pos + k] # 0
    IN  SubSeq(tab, pos + 1, pos + n)

Live == {i \in Indices : i \div BUCKET \in DOMAIN topTable /\ getClause(i) # DELETED}

StorageInit ==
    /\ topTable = [b \in 0..(InitTop - 1) |-> -1]
    /\ inBucket = [b \in 0..(InitTop - 1) |-> 0]
    /\ clsList  = [b \in 0..(InitTop - 1) |-> [o \in 0..(BUCKET - 1) |-> DELETED]]
    /\ table = <<>> /\ tableAlloc = InitAlloc /\ lastIndex = 0 /\ deleted = 0 /\ del = 0

-----------------------------------------------------------------------------
Extended(f, size, v) == [b \in 0..(size - 1) |-> IF b \in DOMAIN f THEN f[b] ELSE v]

\* An array grows by half, once.
Grown(size) == (size * 3) \div 2

FreshBuckets == {b \in DOMAIN inBucket : inBucket[b] = 0}

addClause(index, lits) ==
    /\ index > lastIndex
    /\ LET tops == IF index >= Cardinality(DOMAIN topTable) * BUCKET
                   THEN Grown(Cardinality(DOMAIN topTable)) ELSE Cardinality(DOMAIN topTable)
           top  == Extended(topTable, tops, -1)
           old  == Cardinality(DOMAIN inBucket)
           b    == IF top[index \div BUCKET] # -1 THEN top[index \div BUCKET]
                   ELSE IF FreshBuckets # {} THEN CHOOSE b \in FreshBuckets : \A a \in FreshBuckets : b <= a
                   ELSE old
           size == IF b = old THEN Grown(old) ELSE old
       IN  /\ index \div BUCKET < tops
           /\ topTable' = [top EXCEPT ![index \div BUCKET] = b]
           /\ inBucket' = [Extended(inBucket, size, 0) EXCEPT ![b] = @ + 1]
           /\ clsList'  = [Extended(clsList, size, [o \in 0..(BUCKET - 1) |-> DELETED])
                             EXCEPT ![b][Offset(index)] = Len(table)]
    /\ tableAlloc' = IF Len(table) + Len(lits) >= tableAlloc THEN Grown(tableAlloc) ELSE tableAlloc
    /\ table' = table \o lits \o <<0>>
    /\ lastIndex' = index
    /\ UNCHANGED <<deleted, del>>

\* Mutants: the bucket of the last clause is kept.
EmptiedNever(n) == FALSE
Emptied(n) == n = 0

\* One index of a deletion line.
deleteClause(index) ==
    /\ index <= lastIndex /\ Known(index) /\ getClause(index) # DELETED
    /\ LET b == Bucket(index)
       IN  /\ clsList'  = [clsList EXCEPT ![b][Offset(index)] = DELETED]
           /\ inBucket' = [inBucket EXCEPT ![b] = @ - 1]
           /\ topTable' = IF Emptied(inBucket[b] - 1)
                          THEN [topTable EXCEPT ![index \div BUCKET] = -1] ELSE topTable
    /\ deleted' = deleted + 1
    /\ UNCHANGED <<table, tableAlloc, lastIndex, del>>

\* At least every fifth clause is gone since the last time.
Due == Cardinality(Live) < 5 * (deleted - del)

\* The clauses are moved to the front, in the order of their indices, within
\* the array they are read from.
\* Mutant: in the reverse order.
InOrderDown(S) == CHOOSE s \in [1..Cardinality(S) -> S] :
                \A i, j \in 1..Cardinality(S) : i < j => s[i] > s[j]
InOrder(S) == CHOOSE s \in [1..Cardinality(S) -> S] :
                \A i, j \in 1..Cardinality(S) : i < j => s[i] < s[j]

\* One clause is read where it lies and written after the n integers in use.
MoveOne(m, place) ==
    LET c == ReadAt(m.tab, place) \o <<0>>
    IN  [tab |-> [i \in DOMAIN m.tab |-> IF i \in (m.n + 1)..(m.n + Len(c)) THEN c[i - m.n] ELSE m.tab[i]],
         n   |-> m.n + Len(c),
         at  |-> Append(m.at, m.n)]

compress ==
    /\ Due
    /\ LET order == InOrder(Live)
           \* after the first k clauses: the array, how much of it is used, the places
           move[k \in 0..Len(order)] ==
               IF k = 0 THEN [tab |-> table, n |-> 0, at |-> <<>>]
               ELSE MoveOne(move[k - 1], getClause(order[k]))
           end == move[Len(order)]
       IN  /\ table' = SubSeq(end.tab, 1, end.n)
           /\ clsList' = [b \in DOMAIN clsList |-> [o \in 0..(BUCKET - 1) |->
                            LET here == {k \in DOMAIN order : Bucket(order[k]) = b /\ Offset(order[k]) = o}
                            IN  IF here = {} THEN clsList[b][o] ELSE end.at[CHOOSE k \in here : TRUE]]]
    /\ del' = deleted
    /\ UNCHANGED <<topTable, inBucket, tableAlloc, lastIndex, deleted>>

\* main compresses the table, when it is worth while, before the next line.
StorageNext ==
    \/ compress
    \/ ~Due /\ \E i \in Indices : deleteClause(i) \/ \E c \in Clauses : addClause(i, c)
    \/ lastIndex = (CHOOSE m \in Indices : \A i \in Indices : i <= m) /\ ~Due /\ UNCHANGED storageVars

StorageSpec == StorageInit /\ [][StorageNext]_storageVars

-----------------------------------------------------------------------------
\* The storage finds every clause that was added and not deleted, with its own
\* literals, wherever compress has moved it and whatever bucket it is in.
Stored == [i \in Live |-> ReadAt(table, getClause(i))]
Store == INSTANCE ClauseStore WITH store <- Stored
KeepsClauses == Store!Spec

\* A bucket belongs to one range of indices and counts its clauses, so that it
\* is handed on exactly when it is empty.
BucketsExact ==
    /\ \A r, s \in DOMAIN topTable : topTable[r] = topTable[s] /\ r # s => topTable[r] = -1
    /\ \A b \in DOMAIN inBucket :
          inBucket[b] = Cardinality({o \in DOMAIN clsList[b] : clsList[b][o] # DELETED})
    /\ \A b \in DOMAIN inBucket : inBucket[b] > 0 <=> b \in {topTable[r] : r \in DOMAIN topTable}
=============================================================================
