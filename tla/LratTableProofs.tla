--------------------------- MODULE LratTableProofs ---------------------------
(***************************************************************************)
(* Theorems about the clause storage of lrat-check: its buckets are exact,  *)
(* and it implements ClauseStore, whatever is added, deleted and moved.     *)
(***************************************************************************)
EXTENDS LratTable, LratProofs

-----------------------------------------------------------------------------
(* Indices, buckets and places.                                            *)

LEMMA IndexFacts ==
    /\ BUCKET \in Nat \ {0} /\ Indices \subseteq Nat \ {0}
    /\ \A i \in Nat : i \div BUCKET \in Nat /\ i % BUCKET \in 0..(BUCKET - 1)
    /\ \A i, j \in Nat : i <= j => i \div BUCKET <= j \div BUCKET
<1>1. BUCKET \in Nat \ {0} /\ Indices \subseteq Nat \ {0}
  BY TableAssumption
<1>2. ASSUME NEW i \in Nat PROVE i \div BUCKET \in Nat /\ i % BUCKET \in 0..(BUCKET - 1)
  BY <1>1
<1>3. ASSUME NEW i \in Nat, NEW j \in Nat, i <= j PROVE i \div BUCKET <= j \div BUCKET
  BY <1>1, <1>3
<1> QED
  BY <1>1, <1>2, <1>3

\* An index is known by its bucket and its place there.
LEMMA SameIndex ==
    ASSUME NEW i \in Nat, NEW j \in Nat, i \div BUCKET = j \div BUCKET, i % BUCKET = j % BUCKET
    PROVE  i = j
<1>1. BUCKET \in Nat \ {0}
  BY TableAssumption
<1>2. i = BUCKET * (i \div BUCKET) + (i % BUCKET) /\ j = BUCKET * (j \div BUCKET) + (j % BUCKET)
  BY <1>1
<1> QED
  BY <1>1, <1>2

LEMMA GrownFacts ==
    ASSUME NEW n \in Nat
    PROVE  Grown(n) \in Nat /\ Grown(n) >= n /\ (n \notin {0, 1} => Grown(n) > n)
BY DEF Grown

-----------------------------------------------------------------------------
(* Clauses in the table.                                                   *)

Literals == Seq(Int \ {0})

\* The literals c and the 0 after them lie at place p.
Placed(tab, p, c) ==
    /\ p \in Nat /\ c \in Literals /\ p + Len(c) + 1 <= Len(tab)
    /\ \A k \in 1..Len(c) : tab[p + k] = c[k]
    /\ tab[p + Len(c) + 1] = 0

LEMMA LiteralsFacts ==
    ASSUME NEW c \in Literals
    PROVE  /\ Len(c) \in Nat /\ c \in Seq(Int) /\ DOMAIN c = 1..Len(c)
           /\ \A k \in 1..Len(c) : c[k] \in Int /\ c[k] # 0
BY DEF Literals

LEMMA SubSeqAt ==
    ASSUME NEW tab \in Seq(Int), NEW a \in Int, NEW b \in Int, \A k \in a..b : tab[k] \in Int
    PROVE  \A k \in 1..(b - a + 1) : SubSeq(tab, a, b)[k] = tab[a + k - 1]
<1>1. ASSUME NEW k \in 1..(b - a + 1) PROVE SubSeq(tab, a, b)[k] = tab[a + k - 1]
  BY SubSeqProperties
<1> QED
  BY <1>1

\* What is read at a place is the clause that lies there.
LEMMA ReadPlaced ==
    ASSUME NEW tab \in Seq(Int), NEW p, NEW c, Placed(tab, p, c)
    PROVE  ReadAt(tab, p) = c
<1> DEFINE R(n) == tab[p + n + 1] = 0 /\ \A k \in 1..n : tab[p + k] # 0
           m == CHOOSE n \in 0..Len(tab) : R(n)
           l == Len(c)
<1>1. /\ p \in Nat /\ c \in Literals /\ p + l + 1 <= Len(tab) /\ l \in Nat /\ Len(tab) \in Nat
      /\ \A k \in 1..l : tab[p + k] = c[k] /\ tab[p + k] # 0 /\ c[k] \in Int
      /\ tab[p + l + 1] = 0
  BY LiteralsFacts, SMTT(40) DEF Placed
<1>2. l \in 0..Len(tab) /\ R(l)
  BY <1>1
<1>3. m \in 0..Len(tab) /\ R(m)
  <2> HIDE DEF R, l
  <2> QED BY <1>2
<1> HIDE DEF m
<1>4. m = l
  <2>1. CASE m < l
    <3>1. m + 1 \in 1..l /\ p + (m + 1) = p + m + 1
      BY <1>1, <1>3, <2>1
    <3> QED
      BY <1>1, <1>3, <3>1
  <2>2. CASE l < m
    <3>1. l + 1 \in 1..m /\ p + (l + 1) = p + l + 1
      BY <1>1, <1>3, <2>2
    <3> QED
      BY <1>1, <1>3, <3>1
  <2> QED
    BY <1>1, <1>3, <2>1, <2>2
<1>5. ReadAt(tab, p) = SubSeq(tab, p + 1, p + l)
  <2>1. ReadAt(tab, p) = SubSeq(tab, p + 1, p + m)
    BY DEF ReadAt, m
  <2> QED
    BY <1>4, <2>1
<1>6. SubSeq(tab, p + 1, p + l) = c
  <2> DEFINE u == SubSeq(tab, p + 1, p + l)
             a == p + 1
             b == p + l
  <2>1. p + 1 \in Int /\ p + l \in Int /\ \A k \in (p + 1)..(p + l) : tab[k] \in Int
    <3>1. \A k \in (p + 1)..(p + l) : k \in 1..Len(tab)
      BY <1>1
    <3> QED
      BY <1>1, <3>1
  <2>2. /\ u \in Seq(Int) /\ Len(u) = IF a <= b THEN b - a + 1 ELSE 0
        /\ \A k \in 1..(b - a + 1) : u[k] = tab[a + k - 1]
    <3>1. SubSeq(tab, a, b) = u
      OBVIOUS
    <3> HIDE DEF a, b, u
    <3>2. a \in Int /\ b \in Int /\ \A k \in a..b : tab[k] \in Int
      BY <2>1 DEF a, b
    <3>3. SubSeq(tab, a, b) \in Seq(Int)
      BY <3>2, SubSeqProperties
    <3>4. Len(SubSeq(tab, a, b)) = IF a <= b THEN b - a + 1 ELSE 0
      BY <3>2, SubSeqProperties
    <3>5. \A k \in 1..(b - a + 1) : SubSeq(tab, a, b)[k] = tab[a + k - 1]
      BY <3>2, SubSeqAt
    <3> QED BY <3>1, <3>3, <3>4, <3>5, Zenon
  <2> HIDE DEF u
  <2>3. Len(u) = l
    BY <1>1, <2>2
  <2>4. ASSUME NEW k \in 1..l PROVE u[k] = c[k]
    <3>1. a + k - 1 = p + k /\ k \in 1..(b - a + 1)
      BY <1>1
    <3>2. u[k] = tab[p + k]
      BY <2>2, <3>1
    <3> QED
      BY <1>1, <3>2
  <2>5. c \in Seq(Int)
    BY <1>1, LiteralsFacts
  <2>6. \A s, t \in Seq(Int) : Len(s) = Len(t) /\ (\A k \in 1..Len(s) : s[k] = t[k]) => s = t
    BY SeqEqual
  <2> QED
    BY <2>2, <2>3, <2>4, <2>5, <2>6 DEF u
<1> QED
  BY <1>5, <1>6

\* A clause stays where it lies when nothing is written over it.
LEMMA StaysPlaced ==
    ASSUME NEW tab \in Seq(Int), NEW new \in Seq(Int), NEW p, NEW c, Placed(tab, p, c),
           p + Len(c) + 1 <= Len(new),
           \A k \in (p + 1)..(p + Len(c) + 1) : new[k] = tab[k]
    PROVE  Placed(new, p, c)
<1>1. p \in Nat /\ c \in Literals /\ Len(c) \in Nat
  BY LiteralsFacts DEF Placed
<1>2. \A k \in 1..Len(c) : p + k \in (p + 1)..(p + Len(c) + 1)
  BY <1>1
<1>3. p + Len(c) + 1 \in (p + 1)..(p + Len(c) + 1)
  BY <1>1
<1> QED
  BY <1>1, <1>2, <1>3 DEF Placed

-----------------------------------------------------------------------------
(* The order in which clauses are moved.                                   *)

Sorted(s, S) ==
    /\ s \in [1..Cardinality(S) -> S]
    /\ \A i, j \in 1..Cardinality(S) : i < j => s[i] < s[j]

\* Every finite set of numbers can be listed in increasing order.
LEMMA SortedExists ==
    ASSUME NEW n \in Nat, NEW S \in SUBSET (1..n)
    PROVE  \E s : Sorted(s, S)
<1> DEFINE P == {k \in 0..n : \A T \in SUBSET (1..k) : \E s : Sorted(s, T)}
<1>1. 0 \in P
  <2>1. ASSUME NEW T \in SUBSET (1..0) PROVE \E s : Sorted(s, T)
    <3>1. T = {} /\ Cardinality(T) = 0
      <4>1. T = {}
        OBVIOUS
      <4> QED
        BY <4>1, FS_EmptySet
    <3>2. Sorted([i \in 1..0 |-> 0], T)
      BY <3>1 DEF Sorted
    <3> QED
      BY <3>2
  <2> QED
    BY <2>1
<1>2. ASSUME NEW k \in 1..n, k - 1 \in P PROVE k \in P
  <2>1. ASSUME NEW T \in SUBSET (1..k) PROVE \E s : Sorted(s, T)
    <3> DEFINE U == T \ {k}
               c == Cardinality(U)
    <3>1. U \in SUBSET (1..(k - 1)) /\ IsFiniteSet(U) /\ c \in Nat
      <4>1. U \in SUBSET (1..(k - 1))
        OBVIOUS
      <4>2. IsFiniteSet(1..(k - 1))
        BY FS_Interval
      <4>3. IsFiniteSet(U)
        BY <4>1, <4>2, FS_Subset
      <4> QED
        BY <4>1, <4>3, FS_CardinalityType
    <3>2. PICK s : Sorted(s, U)
      <4> HIDE DEF U
      <4> QED BY <1>2, <3>1
    <3>3. CASE k \notin T
      <4>1. U = T
        BY <3>3
      <4> QED
        BY <3>2, <4>1
    <3>4. CASE k \in T
      <4>1. T = U \cup {k} /\ k \notin U
        BY <3>4
      <4> HIDE DEF U
      <4>2. Cardinality(T) = c + 1
        BY <3>1, <4>1, FS_AddElement
      <4> HIDE DEF c
      <4>3. s \in [1..c -> U] /\ \A i, j \in 1..c : i < j => s[i] < s[j]
        BY <3>2 DEF Sorted, c
      <4> DEFINE u == [i \in 1..(c + 1) |-> IF i = c + 1 THEN k ELSE s[i]]
      <4>4. u \in [1..(c + 1) -> T]
        BY <3>1, <4>1, <4>3
      <4>5. ASSUME NEW i \in 1..(c + 1), NEW j \in 1..(c + 1), i < j PROVE u[i] < u[j]
        <5>0. i \in 1..c
          BY <3>1, <4>5
        <5>1. i \in 1..c /\ s[i] \in U /\ s[i] \in 1..(k - 1)
          BY <3>1, <4>3, <5>0
        <5>2. CASE j = c + 1
          BY <3>1, <5>1, <5>2
        <5>3. CASE j # c + 1
          <6>1. j \in 1..c
            BY <3>1, <5>3
          <6> QED
            BY <3>1, <4>3, <4>5, <5>1, <6>1
        <5> QED
          BY <5>2, <5>3
      <4> HIDE DEF u
      <4>6. Sorted(u, T)
        BY <4>2, <4>4, <4>5 DEF Sorted
      <4> QED
        BY <4>6
    <3> QED
      BY <3>3, <3>4
  <2> QED
    BY <2>1
<1> HIDE DEF P
<1>3. \A k \in 0..n : k \in P
  BY <1>1, <1>2, UpTo
<1>4. n \in P
  BY <1>3
<1> QED
  BY <1>4 DEF P

\* InOrder lists all of the set, each number once.
LEMMA InOrderFacts ==
    ASSUME NEW n \in Nat, NEW S \in SUBSET (1..n)
    PROVE  /\ Cardinality(S) \in Nat /\ InOrder(S) \in [1..Cardinality(S) -> S]
           /\ \A i, j \in 1..Cardinality(S) : i < j => InOrder(S)[i] < InOrder(S)[j]
           /\ \A x \in S : \E i \in 1..Cardinality(S) : InOrder(S)[i] = x
<1> DEFINE c == Cardinality(S)
           s == InOrder(S)
<1>1. IsFiniteSet(S) /\ c \in Nat
  <2>1. IsFiniteSet(1..n)
    BY FS_Interval
  <2> QED
    BY <2>1, FS_Subset, FS_CardinalityType
<1>2. \E u \in [1..c -> S] : \A i, j \in 1..c : i < j => u[i] < u[j]
  <2>1. PICK u : Sorted(u, S)
    BY SortedExists
  <2> QED
    BY <2>1 DEF Sorted
<1>3. s \in [1..c -> S] /\ \A i, j \in 1..c : i < j => s[i] < s[j]
  BY <1>2 DEF InOrder
<1> HIDE DEF s, c
<1>4. s \in Injection(1..c, S)
  <2>1. ASSUME NEW i \in 1..c, NEW j \in 1..c, i # j PROVE s[i] # s[j]
    <3>0. \A x \in S : x \in Int
      OBVIOUS
    <3>1. s[i] \in Int /\ s[j] \in Int
      BY <1>3, <3>0
    <3>2. i < j \/ j < i
      BY <1>1, <2>1
    <3> QED
      BY <1>3, <3>1, <3>2
  <2> QED
    BY <1>3, <2>1 DEF Injection, IsInjective
<1>5. IsFiniteSet(1..c) /\ Cardinality(1..c) = c
  BY <1>1, FS_Interval
<1>6. s \in Surjection(1..c, S)
  <2>1. Cardinality(1..c) = Cardinality(S)
    BY <1>5 DEF c
  <2> QED
    BY <1>1, <1>4, <1>5, <2>1, FS_Injection
<1>7. \A x \in S : \E i \in 1..c : s[i] = x
  BY <1>6 DEF Surjection
<1> QED
  BY <1>1, <1>3, <1>7 DEF s, c

-----------------------------------------------------------------------------
(* The invariant.                                                          *)

Row(i) == i \div BUCKET

\* Where the clause of an index lies, if it has one.
Place(i) == IF Row(i) \in DOMAIN topTable /\ topTable[Row(i)] # -1
            THEN clsList[topTable[Row(i)]][Offset(i)] ELSE DELETED

Tops == Cardinality(DOMAIN topTable)
Old  == Cardinality(DOMAIN inBucket)

TableTypeOK ==
    /\ Tops \in Nat \ {0} /\ Old \in Nat \ {0, 1}
    /\ topTable \in [0..(Tops - 1) -> -1..(Old - 1)]
    /\ inBucket \in [0..(Old - 1) -> Nat]
    /\ clsList \in [0..(Old - 1) -> [0..(BUCKET - 1) -> Nat \cup {-1}]]
    /\ table \in Seq(Int) /\ lastIndex \in Nat /\ Row(lastIndex) < Tops

\* A place in a bucket that somebody owns belongs to an index that was added.
SlotsOwned ==
    \A r \in 0..(Tops - 1), o \in 0..(BUCKET - 1) :
        topTable[r] # -1 /\ clsList[topTable[r]][o] # -1 =>
            \E i \in Indices : i <= lastIndex /\ Row(i) = r /\ Offset(i) = o

\* Live clauses lie in the table in the order of their indices.
ClausesLie ==
    /\ \A i \in Live : i <= lastIndex /\ Placed(table, Place(i), Stored[i])
    /\ \A i, j \in Live : i < j => Place(i) + Len(Stored[i]) + 1 <= Place(j)

StorageInv == TableTypeOK /\ BucketsExact /\ SlotsOwned /\ ClausesLie

\* The live indices are those that have a place.
LEMMA LivePlaces ==
    ASSUME TableTypeOK
    PROVE  /\ Live = {i \in Indices : Place(i) # -1}
           /\ \A i \in Live : Place(i) = getClause(i) /\ Stored[i] = ReadAt(table, Place(i))
<1>1. \A i \in Indices : Row(i) \in DOMAIN topTable => Place(i) = getClause(i)
  BY DEF Row, Place, getClause, Known, Bucket
<1>2. \A i \in Indices : Row(i) \notin DOMAIN topTable => Place(i) = -1
  BY DEF Place, DELETED
<1>3. \A i : i \in Live <=> i \in Indices /\ Row(i) \in DOMAIN topTable /\ getClause(i) # -1
  BY DEF Live, Row, DELETED
<1>4. \A i \in Live : Stored[i] = ReadAt(table, getClause(i))
  BY DEF Stored
<1> QED
  BY <1>1, <1>2, <1>3, <1>4

\* After a step, too.
LEMMA LivePlacesAfter ==
    /\ Live' = {i \in Indices : Place(i)' # -1}
    /\ \A i \in Live' : Stored'[i] = ReadAt(table', Place(i)')
<1>1. \A i \in Indices : Row(i) \in DOMAIN topTable' => Place(i)' = getClause(i)'
  BY DEF Row, Place, getClause, Known, Bucket
<1>2. \A i \in Indices : Row(i) \notin DOMAIN topTable' => Place(i)' = -1
  BY DEF Place, DELETED, Row
<1>3. \A i : i \in Live' <=> i \in Indices /\ Row(i) \in DOMAIN topTable' /\ getClause(i)' # -1
  BY DEF Live, Row, DELETED
<1>4. \A i \in Live' : Stored'[i] = ReadAt(table', getClause(i)')
  BY DEF Stored
<1> QED
  BY <1>1, <1>2, <1>3, <1>4

LEMMA RowFacts ==
    /\ BUCKET \in Nat \ {0} /\ Indices \subseteq Nat \ {0}
    /\ \A i \in Nat : Row(i) \in Nat /\ Offset(i) \in 0..(BUCKET - 1)
    /\ \A i, j \in Nat : i <= j => Row(i) <= Row(j)
    /\ \A i, j \in Nat : Row(i) = Row(j) /\ Offset(i) = Offset(j) => i = j
BY IndexFacts, SameIndex DEF Row, Offset

\* How many places of a bucket are in use.
InUse(b) == {o \in 0..(BUCKET - 1) : clsList[b][o] # -1}

LEMMA Exact ==
    ASSUME TableTypeOK
    PROVE  /\ DOMAIN topTable = 0..(Tops - 1) /\ DOMAIN inBucket = 0..(Old - 1) /\ DOMAIN clsList = 0..(Old - 1)
           /\ \A b \in 0..(Old - 1) :
                 /\ InUse(b) = {o \in DOMAIN clsList[b] : clsList[b][o] # DELETED}
                 /\ IsFiniteSet(InUse(b)) /\ Cardinality(InUse(b)) \in Nat
                 /\ Cardinality(InUse(b)) = 0 <=> InUse(b) = {}
<1>1. DOMAIN topTable = 0..(Tops - 1) /\ DOMAIN inBucket = 0..(Old - 1) /\ DOMAIN clsList = 0..(Old - 1)
  BY DEF TableTypeOK
<1>2. ASSUME NEW b \in 0..(Old - 1)
      PROVE  /\ InUse(b) = {o \in DOMAIN clsList[b] : clsList[b][o] # DELETED}
             /\ IsFiniteSet(InUse(b)) /\ Cardinality(InUse(b)) \in Nat
             /\ Cardinality(InUse(b)) = 0 <=> InUse(b) = {}
  <2>1. DOMAIN clsList[b] = 0..(BUCKET - 1)
    BY DEF TableTypeOK
  <2>2. InUse(b) = {o \in DOMAIN clsList[b] : clsList[b][o] # DELETED}
    BY <2>1 DEF InUse, DELETED
  <2>3. IsFiniteSet(0..(BUCKET - 1))
    BY RowFacts, FS_Interval
  <2>4. IsFiniteSet(InUse(b))
    BY <2>3, FS_Subset DEF InUse
  <2> QED
    BY <2>2, <2>4, FS_CardinalityType, FS_EmptySet
<1> QED
  BY <1>1, <1>2

-----------------------------------------------------------------------------
(* The start.                                                              *)

LEMMA InitTops ==
    ASSUME StorageInit
    PROVE  Tops = InitTop /\ Old = InitTop /\ InitTop \in Nat \ {0, 1}
<1>1. InitTop \in Nat \ {0, 1}
  BY TableAssumption
<1>2. DOMAIN topTable = 0..(InitTop - 1) /\ DOMAIN inBucket = 0..(InitTop - 1)
  BY DEF StorageInit
<1>3. Cardinality(0..(InitTop - 1)) = InitTop
  BY <1>1, FS_Interval
<1> QED
  BY <1>1, <1>2, <1>3 DEF Tops, Old

LEMMA InitRight ==
    ASSUME StorageInit
    PROVE  StorageInv /\ Live = {} /\ Stored = <<>>
<1>0. Tops = InitTop /\ Old = InitTop /\ InitTop \in Nat \ {0, 1}
  BY InitTops
<1>1. TableTypeOK
  <2>1. Row(0) = 0 /\ lastIndex = 0
    BY IndexFacts DEF Row, StorageInit
  <2>2. clsList \in [0..(Old - 1) -> [0..(BUCKET - 1) -> Nat \cup {-1}]]
    BY <1>0 DEF StorageInit, DELETED
  <2>3. topTable \in [0..(Tops - 1) -> -1..(Old - 1)] /\ inBucket \in [0..(Old - 1) -> Nat]
    BY <1>0 DEF StorageInit
  <2>4. table \in Seq(Int)
    BY DEF StorageInit
  <2> QED
    BY <1>0, <2>1, <2>2, <2>3, <2>4 DEF TableTypeOK
<1>2. \A r \in DOMAIN topTable : topTable[r] = -1
  BY DEF StorageInit
<1>3. Live = {}
  BY <1>1, <1>2, LivePlaces DEF Place, DELETED
<1>4. BucketsExact
  <2>1. \A b \in 0..(Old - 1) : inBucket[b] = 0 /\ InUse(b) = {}
    BY <1>0 DEF StorageInit, InUse, DELETED
  <2>2. \A b \in DOMAIN inBucket : inBucket[b] = Cardinality({o \in DOMAIN clsList[b] : clsList[b][o] # DELETED})
    BY <1>1, <2>1, Exact
  <2>3. \A b \in DOMAIN inBucket : ~(inBucket[b] > 0) /\ b # -1
    BY <1>1, <2>1, Exact DEF TableTypeOK
  <2>4. \A b \in DOMAIN inBucket : inBucket[b] > 0 <=> b \in {topTable[r] : r \in DOMAIN topTable}
    BY <1>2, <2>3
  <2>5. \A r, s \in DOMAIN topTable : topTable[r] = topTable[s] /\ r # s => topTable[r] = -1
    BY <1>2
  <2> QED
    BY <2>2, <2>4, <2>5 DEF BucketsExact
<1>5. SlotsOwned
  BY <1>1, <1>2, Exact DEF SlotsOwned
<1>6. ClausesLie
  BY <1>3 DEF ClausesLie
<1>7. Stored = <<>>
  BY <1>3 DEF Stored
<1> QED
  BY <1>1, <1>3, <1>4, <1>5, <1>6, <1>7 DEF StorageInv

-----------------------------------------------------------------------------
(* A clause is added.                                                      *)

\* The bucket b that index gets, among as many as size; tops rows.
RowsGrown(index, tops, b) ==
    /\ tops \in Nat /\ Tops <= tops /\ Row(index) < tops
    /\ topTable' = [r \in 0..(tops - 1) |-> IF r = Row(index) THEN b
                                            ELSE IF r < Tops THEN topTable[r] ELSE -1]

BucketFilled(index, size, b) ==
    /\ size \in Nat /\ Old <= size /\ b \in 0..(size - 1)
    /\ inBucket' = [k \in 0..(size - 1) |->
                      (IF k < Old THEN inBucket[k] ELSE 0) + (IF k = b THEN 1 ELSE 0)]
    /\ clsList' = [k \in 0..(size - 1) |-> [o \in 0..(BUCKET - 1) |->
                     IF k = b /\ o = Offset(index) THEN Len(table)
                     ELSE IF k < Old THEN clsList[k][o] ELSE -1]]

\* The bucket of the index, or one that is not in use.
OwnBucket(index, b) == Row(index) < Tops /\ topTable[Row(index)] = b /\ b # -1
FreeBucket(index, b) ==
    /\ Row(index) < Tops => topTable[Row(index)] = -1
    /\ b < Old => inBucket[b] = 0

LEMMA Bigger ==
    ASSUME NEW f, NEW n \in Nat, NEW size \in Nat, NEW v, DOMAIN f = 0..(n - 1), n <= size
    PROVE  Extended(f, size, v) = [k \in 0..(size - 1) |-> IF k < n THEN f[k] ELSE v]
<1>1. \A k \in 0..(size - 1) : k \in DOMAIN f <=> k < n
  OBVIOUS
<1> QED
  BY <1>1 DEF Extended

LEMMA AddUnfolded ==
    ASSUME TableTypeOK, BucketsExact, NEW index \in Indices, NEW lits, addClause(index, lits)
    PROVE  \E tops, size, b : /\ RowsGrown(index, tops, b) /\ BucketFilled(index, size, b)
                              /\ OwnBucket(index, b) \/ FreeBucket(index, b)
<1> DEFINE r    == index \div BUCKET
           tops == IF index >= Tops * BUCKET THEN Grown(Tops) ELSE Tops
           top  == Extended(topTable, tops, -1)
           b    == IF top[r] # -1 THEN top[r]
                   ELSE IF FreshBuckets # {} THEN CHOOSE b \in FreshBuckets : \A a \in FreshBuckets : b <= a
                   ELSE Old
           size == IF b = Old THEN Grown(Old) ELSE Old
           fill == Extended(inBucket, size, 0)
           none == [o \in 0..(BUCKET - 1) |-> DELETED]
           room == Extended(clsList, size, none)
<1>1. /\ r < tops
      /\ topTable' = [top EXCEPT ![r] = b]
      /\ inBucket' = [fill EXCEPT ![b] = @ + 1]
      /\ clsList' = [room EXCEPT ![b][Offset(index)] = Len(table)]
  BY Zenon DEF addClause, Tops, Old
<1>2. /\ Tops \in Nat \ {0} /\ Old \in Nat \ {0, 1} /\ topTable \in [0..(Tops - 1) -> -1..(Old - 1)]
      /\ inBucket \in [0..(Old - 1) -> Nat] /\ table \in Seq(Int)
      /\ clsList \in [0..(Old - 1) -> [0..(BUCKET - 1) -> Nat \cup {-1}]]
  BY DEF TableTypeOK
<1>3. r = Row(index) /\ r \in Nat /\ Offset(index) \in 0..(BUCKET - 1)
  BY RowFacts DEF Row
<1>4. tops \in Nat /\ Tops <= tops
  BY <1>2, GrownFacts
<1>4a. /\ top[r] # -1 => b = top[r]
       /\ top[r] = -1 /\ FreshBuckets # {} => b = CHOOSE x \in FreshBuckets : \A a \in FreshBuckets : x <= a
       /\ top[r] = -1 /\ FreshBuckets = {} => b = Old
  OBVIOUS
<1>4b. (b = Old => size = Grown(Old)) /\ (b # Old => size = Old)
  OBVIOUS
<1> HIDE DEF b, size
<1> HIDE DEF r, tops
<1>5. top = [k \in 0..(tops - 1) |-> IF k < Tops THEN topTable[k] ELSE -1]
  BY <1>2, <1>4, Bigger, Exact, SMTT(40)
<1> HIDE DEF top
<1>6. /\ b \in 0..Old
      /\ OwnBucket(index, b) \/ FreeBucket(index, b)
  <2>1. CASE top[r] # -1
    <3>1. r < Tops /\ top[r] = topTable[r]
      BY <1>1, <1>3, <1>4, <1>5, <2>1
    <3>2. topTable[r] \in -1..(Old - 1)
      BY <1>2, <1>3, <3>1
    <3>3. b = topTable[r]
      BY <1>4a, <2>1, <3>1
    <3> QED
      BY <1>2, <1>3, <2>1, <3>1, <3>2, <3>3, SMTT(40) DEF OwnBucket
  <2>2. CASE top[r] = -1
    <3>1. r < Tops => topTable[r] = -1
      BY <1>1, <1>3, <1>4, <1>5, <2>2
    <3>2. CASE FreshBuckets # {}
      <4> DEFINE least == CHOOSE x \in FreshBuckets : \A a \in FreshBuckets : x <= a
      <4>1. b = least
        BY <1>4a, <2>2, <3>2
      <4>2. FreshBuckets \in SUBSET Nat /\ FreshBuckets \subseteq 0..(Old - 1)
        BY <1>2 DEF FreshBuckets
      <4>3. \E x \in FreshBuckets : \A y \in FreshBuckets : x <= y
        BY <3>2, <4>2, LeastNumber
      <4>4. least \in FreshBuckets
        BY <4>3
      <4> HIDE DEF least
      <4>5. b \in 0..(Old - 1) /\ inBucket[b] = 0
        BY <4>1, <4>2, <4>4 DEF FreshBuckets
      <4> QED
        BY <1>2, <1>3, <3>1, <4>5 DEF FreeBucket
    <3>3. CASE FreshBuckets = {}
      <4>1. b = Old
        BY <1>4a, <2>2, <3>3
      <4> QED
        BY <1>2, <1>3, <3>1, <4>1 DEF FreeBucket
    <3> QED
      BY <3>2, <3>3
  <2> QED
    BY <2>1, <2>2
<1>7. size \in Nat /\ Old <= size /\ b \in 0..(size - 1)
  <2>1. Old \in Nat /\ Old \notin {0, 1}
    BY <1>2
  <2>2. Grown(Old) \in Nat /\ Grown(Old) >= Old /\ Grown(Old) > Old
    BY <2>1, GrownFacts
  <2> QED
    BY <1>4b, <1>6, <2>1, <2>2
<1>8. RowsGrown(index, tops, b)
  <2>1. topTable' = [k \in 0..(tops - 1) |-> IF k = r THEN b ELSE top[k]]
    BY <1>1, <1>3, <1>4, <1>5
  <2>2. topTable' = [k \in 0..(tops - 1) |-> IF k = r THEN b ELSE IF k < Tops THEN topTable[k] ELSE -1]
    BY <1>5, <2>1
  <2> QED
    BY <1>1, <1>3, <1>4, <2>2 DEF RowsGrown
<1>9. BucketFilled(index, size, b)
  <2>1. fill = [k \in 0..(size - 1) |-> IF k < Old THEN inBucket[k] ELSE 0]
    <3>1. DOMAIN inBucket = 0..(Old - 1) /\ Old \in Nat
      BY <1>2
    <3> QED
      BY <1>7, <3>1, Bigger
  <2>2. room = [k \in 0..(size - 1) |-> IF k < Old THEN clsList[k] ELSE none]
    <3> HIDE DEF none
    <3>1. DOMAIN clsList = 0..(Old - 1) /\ Old \in Nat
      BY <1>2
    <3> QED
      BY <1>7, <3>1, Bigger
  <2> HIDE DEF fill, room
  <2>3. \A k \in 0..(size - 1) : fill[k] \in Nat
    BY <1>2, <2>1
  <2>4. inBucket' = [k \in 0..(size - 1) |-> fill[k] + (IF k = b THEN 1 ELSE 0)]
    <3>1. inBucket' = [k \in 0..(size - 1) |-> IF k = b THEN fill[k] + 1 ELSE fill[k]]
      BY <1>1, <1>7, <2>1
    <3>2. \A k \in 0..(size - 1) : (IF k = b THEN fill[k] + 1 ELSE fill[k]) = fill[k] + (IF k = b THEN 1 ELSE 0)
      BY <2>3
    <3> QED
      BY <3>1, <3>2
  <2>5. inBucket' = [k \in 0..(size - 1) |-> (IF k < Old THEN inBucket[k] ELSE 0) + (IF k = b THEN 1 ELSE 0)]
    BY <2>1, <2>4
  <2>6. ASSUME NEW k \in 0..(size - 1)
        PROVE  room[k] = [o \in 0..(BUCKET - 1) |-> IF k < Old THEN clsList[k][o] ELSE -1]
    <3>1. CASE k < Old
      <4>1. clsList[k] \in [0..(BUCKET - 1) -> Nat \cup {-1}]
        BY <1>2, <1>7, <3>1
      <4>2. room[k] = clsList[k]
        BY <2>2, <3>1
      <4> QED
        BY <3>1, <4>1, <4>2
    <3>2. CASE ~(k < Old)
      BY <2>2, <3>2 DEF DELETED
    <3> QED
      BY <3>1, <3>2
  <2>7. clsList' = [k \in 0..(size - 1) |-> IF k = b THEN [room[b] EXCEPT ![Offset(index)] = Len(table)] ELSE room[k]]
    BY <1>1, <1>7, <2>2
  <2>8. ASSUME NEW k \in 0..(size - 1)
        PROVE  (IF k = b THEN [room[b] EXCEPT ![Offset(index)] = Len(table)] ELSE room[k])
                 = [o \in 0..(BUCKET - 1) |-> IF k = b /\ o = Offset(index) THEN Len(table)
                                              ELSE IF k < Old THEN clsList[k][o] ELSE -1]
    <3>1. room[k] = [o \in 0..(BUCKET - 1) |-> IF k < Old THEN clsList[k][o] ELSE -1]
      BY <2>6
    <3>2. CASE k = b
      BY <1>3, <3>1, <3>2
    <3>3. CASE k # b
      BY <3>1, <3>3
    <3> QED
      BY <3>2, <3>3
  <2>9. clsList' = [k \in 0..(size - 1) |-> [o \in 0..(BUCKET - 1) |->
                      IF k = b /\ o = Offset(index) THEN Len(table)
                      ELSE IF k < Old THEN clsList[k][o] ELSE -1]]
    BY <2>7, <2>8
  <2> QED
    BY <1>7, <2>5, <2>9 DEF BucketFilled
<1> QED
  BY <1>6, <1>8, <1>9

\* What the proof of addClause goes on with.
Added(index, tops, size, b) ==
    /\ RowsGrown(index, tops, b) /\ BucketFilled(index, size, b)
    /\ OwnBucket(index, b) \/ FreeBucket(index, b)
    /\ index \in Indices /\ index > lastIndex

\* The rest of what is known before.
LEMMA AddedFacts ==
    ASSUME StorageInv, NEW index, NEW tops, NEW size, NEW b, Added(index, tops, size, b)
    PROVE  /\ index \in Nat /\ Row(index) \in 0..(tops - 1) /\ Offset(index) \in 0..(BUCKET - 1)
           /\ Tops' = tops /\ Old' = size /\ DOMAIN topTable' = 0..(tops - 1)
           /\ \A r \in 0..(tops - 1) : topTable'[r] = IF r = Row(index) THEN b
                                                      ELSE IF r < Tops THEN topTable[r] ELSE -1
           /\ \A k \in 0..(size - 1) : \A o \in 0..(BUCKET - 1) :
                 clsList'[k][o] = IF k = b /\ o = Offset(index) THEN Len(table)
                                  ELSE IF k < Old THEN clsList[k][o] ELSE -1
<1>1. index \in Nat /\ Row(index) \in Nat /\ Offset(index) \in 0..(BUCKET - 1)
  BY RowFacts DEF Added
<1>2. /\ tops \in Nat /\ size \in Nat /\ Row(index) < tops
      /\ topTable' = [r \in 0..(tops - 1) |-> IF r = Row(index) THEN b
                                              ELSE IF r < Tops THEN topTable[r] ELSE -1]
  BY DEF Added, RowsGrown, BucketFilled
<1>3. DOMAIN inBucket' = 0..(size - 1)
  BY DEF Added, BucketFilled
<1>4. Cardinality(0..(tops - 1)) = tops /\ Cardinality(0..(size - 1)) = size
  <2>1. \A n \in Nat : Cardinality(0..(n - 1)) = n
    BY FS_Interval
  <2> QED
    BY <1>2, <2>1
<1>5. Tops' = tops /\ Old' = size
  BY <1>2, <1>3, <1>4 DEF Tops, Old
<1>6. \A k \in 0..(size - 1) : \A o \in 0..(BUCKET - 1) :
         clsList'[k][o] = IF k = b /\ o = Offset(index) THEN Len(table)
                          ELSE IF k < Old THEN clsList[k][o] ELSE -1
  BY DEF Added, BucketFilled
<1> QED
  BY <1>1, <1>2, <1>5, <1>6

\* No other row has the bucket, and the place in it is free; all of a new
\* bucket is.
LEMMA BucketGiven ==
    ASSUME StorageInv, NEW index, NEW tops, NEW size, NEW b, Added(index, tops, size, b)
    PROVE  /\ b \in Nat
           /\ \A r \in 0..(Tops - 1) : r # Row(index) => topTable[r] # b
           /\ b < Old => clsList[b][Offset(index)] = -1
           /\ ~OwnBucket(index, b) => \A o \in 0..(BUCKET - 1) : b < Old => clsList[b][o] = -1
<1>1. /\ index \in Nat /\ Row(index) \in 0..(tops - 1) /\ Offset(index) \in 0..(BUCKET - 1)
      /\ b \in Nat /\ Old \in Nat /\ Tops \in Nat
  <2>1. index \in Nat /\ Row(index) \in 0..(tops - 1) /\ Offset(index) \in 0..(BUCKET - 1)
    BY AddedFacts
  <2> QED
    BY <2>1 DEF Added, BucketFilled, StorageInv, TableTypeOK
<1>2. TableTypeOK /\ BucketsExact /\ SlotsOwned /\ index > lastIndex /\ index \in Indices
  BY DEF StorageInv, Added
<1>3. CASE OwnBucket(index, b)
  <2>1. Row(index) \in 0..(Tops - 1) /\ topTable[Row(index)] = b /\ b # -1
    BY <1>1, <1>3 DEF OwnBucket
  <2>2. \A r \in 0..(Tops - 1) : r # Row(index) => topTable[r] # b
    BY <1>2, <2>1, Exact DEF BucketsExact
  <2>3. clsList[b][Offset(index)] = -1
    <3> SUFFICES ASSUME clsList[b][Offset(index)] # -1 PROVE FALSE
      OBVIOUS
    <3>1. PICK i \in Indices : i <= lastIndex /\ Row(i) = Row(index) /\ Offset(i) = Offset(index)
      BY <1>1, <1>2, <2>1 DEF SlotsOwned
    <3>2. i = index
      BY <1>1, <3>1, RowFacts
    <3>3. lastIndex \in Nat
      BY <1>2 DEF TableTypeOK
    <3> QED
      BY <1>1, <1>2, <3>1, <3>2, <3>3
  <2> QED
    BY <1>1, <1>3, <2>2, <2>3
<1>4. CASE ~OwnBucket(index, b)
  <2>1. (Row(index) < Tops => topTable[Row(index)] = -1) /\ (b < Old => inBucket[b] = 0)
    BY <1>4 DEF Added, FreeBucket
  <2>2. ASSUME b < Old PROVE \A o \in 0..(BUCKET - 1) : clsList[b][o] = -1
    <3>0. b \in 0..(Old - 1) /\ inBucket[b] = 0
      BY <1>1, <2>1, <2>2
    <3>1. Cardinality(InUse(b)) = 0
      BY <1>2, <3>0, Exact DEF BucketsExact
    <3>2. InUse(b) = {}
      BY <1>2, <3>0, <3>1, Exact
    <3> QED
      BY <3>2 DEF InUse
  <2>3. ASSUME NEW r \in 0..(Tops - 1) PROVE topTable[r] # b
    <3>1. CASE b < Old
      <4>1. b \in DOMAIN inBucket /\ ~(inBucket[b] > 0)
        BY <1>1, <1>2, <2>1, <3>1, Exact
      <4>2. b \notin {topTable[s] : s \in DOMAIN topTable}
        BY <1>2, <4>1 DEF BucketsExact
      <4> QED
        BY <1>2, <4>2, Exact
    <3>2. CASE ~(b < Old)
      <4>1. topTable[r] \in -1..(Old - 1)
        BY <1>2 DEF TableTypeOK
      <4> QED
        BY <1>1, <3>2, <4>1
    <3> QED
      BY <3>1, <3>2
  <2> QED
    BY <1>1, <2>2, <2>3
<1> QED
  BY <1>3, <1>4

\* Every other index has its clause where it had it.
LEMMA AddPlaces ==
    ASSUME StorageInv, NEW index, NEW tops, NEW size, NEW b, Added(index, tops, size, b)
    PROVE  Place(index)' = Len(table) /\ \A i \in Indices : i # index => Place(i)' = Place(i)
<1>1. /\ index \in Nat /\ Row(index) \in 0..(tops - 1) /\ Offset(index) \in 0..(BUCKET - 1)
      /\ b \in Nat /\ Old \in Nat /\ Tops \in Nat /\ tops \in Nat /\ size \in Nat
      /\ b \in 0..(size - 1) /\ Tops <= tops /\ Old <= size
  <2>1. index \in Nat /\ Row(index) \in 0..(tops - 1) /\ Offset(index) \in 0..(BUCKET - 1)
    BY AddedFacts
  <2> QED
    BY <2>1 DEF Added, BucketFilled, RowsGrown, StorageInv, TableTypeOK
<1>2. /\ DOMAIN topTable' = 0..(tops - 1)
      /\ \A r \in 0..(tops - 1) : topTable'[r] = IF r = Row(index) THEN b
                                                 ELSE IF r < Tops THEN topTable[r] ELSE -1
      /\ \A k \in 0..(size - 1) : \A o \in 0..(BUCKET - 1) :
            clsList'[k][o] = IF k = b /\ o = Offset(index) THEN Len(table)
                             ELSE IF k < Old THEN clsList[k][o] ELSE -1
  BY AddedFacts
<1>3. /\ \A r \in 0..(Tops - 1) : r # Row(index) => topTable[r] # b
      /\ ~OwnBucket(index, b) => \A o \in 0..(BUCKET - 1) : b < Old => clsList[b][o] = -1
  BY BucketGiven
<1>4. DOMAIN topTable = 0..(Tops - 1) /\ \A r \in 0..(Tops - 1) : topTable[r] \in -1..(Old - 1)
  BY DEF StorageInv, TableTypeOK
<1>5. Place(index)' = Len(table)
  <2>1. topTable'[Row(index)] = b /\ b # -1
    BY <1>1, <1>2
  <2>2. clsList'[b][Offset(index)] = Len(table)
    BY <1>1, <1>2
  <2> QED
    BY <1>1, <1>2, <2>1, <2>2 DEF Place, Row, Offset
<1>6. ASSUME NEW i \in Indices, i # index PROVE Place(i)' = Place(i)
  <2> DEFINE r == Row(i)
             o == Offset(i)
  <2>1. i \in Nat /\ r \in Nat /\ o \in 0..(BUCKET - 1) /\ (r = Row(index) => o # Offset(index))
    BY <1>1, <1>6, RowFacts
  <2>2. Place(i) = IF r \in DOMAIN topTable /\ topTable[r] # -1 THEN clsList[topTable[r]][o] ELSE -1
    BY DEF Place, DELETED
  <2>3. Place(i)' = IF r \in DOMAIN topTable' /\ topTable'[r] # -1 THEN clsList'[topTable'[r]][o] ELSE -1
    BY DEF Place, DELETED, Row, Offset
  <2> HIDE DEF r, o
  <2>4. CASE r # Row(index) /\ r < Tops
    <3>1. r \in 0..(Tops - 1) /\ r \in 0..(tops - 1) /\ topTable'[r] = topTable[r] /\ topTable[r] # b
      BY <1>1, <1>2, <1>3, <2>1, <2>4 DEF r
    <3>2. topTable[r] # -1 => clsList'[topTable[r]][o] = clsList[topTable[r]][o]
      <4>1. topTable[r] # -1 => topTable[r] \in 0..(size - 1) /\ topTable[r] < Old
        <5>1. topTable[r] \in -1..(Old - 1)
          BY <1>4, <3>1
        <5> QED
          BY <1>1, <5>1
      <4> QED
        BY <1>2, <2>1, <3>1, <4>1
    <3> QED
      BY <1>2, <1>4, <2>2, <2>3, <3>1, <3>2
  <2>5. CASE r # Row(index) /\ ~(r < Tops)
    BY <1>1, <1>2, <1>4, <2>1, <2>2, <2>3, <2>5, SMTT(40) DEF r
  <2>6. CASE r = Row(index)
    <3>1. topTable'[r] = b /\ b # -1 /\ clsList'[b][o] = IF b < Old THEN clsList[b][o] ELSE -1
      BY <1>1, <1>2, <2>1, <2>6
    <3>2. Place(i)' = IF b < Old THEN clsList[b][o] ELSE -1
      BY <1>1, <1>2, <2>3, <2>6, <3>1
    <3>3. CASE OwnBucket(index, b)
      <4>1. r \in 0..(Tops - 1) /\ topTable[r] = b
        BY <1>1, <2>1, <2>6, <3>3 DEF OwnBucket
      <4> QED
        BY <1>1, <1>4, <2>2, <3>1, <3>2, <4>1
    <3>4. CASE ~OwnBucket(index, b)
      <4>1. Place(i)' = -1
        BY <1>3, <2>1, <3>2, <3>4
      <4>2. r < Tops => topTable[r] = -1
        BY <2>6, <3>4 DEF Added, FreeBucket
      <4>3. r \in DOMAIN topTable => topTable[r] = -1
        BY <1>1, <1>4, <2>1, <4>2
      <4>4. Place(i) = -1
        BY <2>2, <4>3
      <4> QED
        BY <4>1, <4>4
    <3> QED
      BY <3>3, <3>4
  <2> QED
    BY <2>4, <2>5, <2>6
<1> QED
  BY <1>5, <1>6

LEMMA AddTypes ==
    ASSUME StorageInv, NEW index, NEW tops, NEW size, NEW b, Added(index, tops, size, b),
           table' \in Seq(Int), lastIndex' = index
    PROVE  TableTypeOK'
<1>1. /\ index \in Nat /\ Row(index) \in 0..(tops - 1) /\ Offset(index) \in 0..(BUCKET - 1)
      /\ Tops' = tops /\ Old' = size
  BY AddedFacts
<1>2. /\ Tops \in Nat \ {0} /\ Old \in Nat \ {0, 1}
      /\ topTable \in [0..(Tops - 1) -> -1..(Old - 1)] /\ inBucket \in [0..(Old - 1) -> Nat]
      /\ clsList \in [0..(Old - 1) -> [0..(BUCKET - 1) -> Nat \cup {-1}]]
      /\ Len(table) \in Nat
  BY SMTT(40) DEF StorageInv, TableTypeOK
<1>3. /\ tops \in Nat /\ size \in Nat /\ Tops <= tops /\ Old <= size /\ b \in 0..(size - 1)
  BY DEF Added, RowsGrown, BucketFilled
<1>4. topTable' \in [0..(tops - 1) -> -1..(size - 1)]
  <2>1. ASSUME NEW r \in 0..(tops - 1)
        PROVE  (IF r = Row(index) THEN b ELSE IF r < Tops THEN topTable[r] ELSE -1) \in -1..(size - 1)
    <3>1. r < Tops => topTable[r] \in -1..(Old - 1)
      BY <1>2, <1>3
    <3> QED
      BY <1>2, <1>3, <3>1, SMTT(40)
  <2> QED
    BY <2>1 DEF Added, RowsGrown
<1>5. inBucket' \in [0..(size - 1) -> Nat]
  <2>1. ASSUME NEW k \in 0..(size - 1)
        PROVE  (IF k < Old THEN inBucket[k] ELSE 0) + (IF k = b THEN 1 ELSE 0) \in Nat
    <3>1. k < Old => inBucket[k] \in Nat
      BY <1>2, <1>3
    <3> QED
      BY <3>1
  <2> QED
    BY <2>1 DEF Added, BucketFilled
<1>6. clsList' \in [0..(size - 1) -> [0..(BUCKET - 1) -> Nat \cup {-1}]]
  <2>1. ASSUME NEW k \in 0..(size - 1), NEW o \in 0..(BUCKET - 1)
        PROVE  (IF k = b /\ o = Offset(index) THEN Len(table)
                ELSE IF k < Old THEN clsList[k][o] ELSE -1) \in Nat \cup {-1}
    <3>1. k < Old => clsList[k][o] \in Nat \cup {-1}
      <4>1. k < Old => k \in 0..(Old - 1)
        BY <1>2, <1>3
      <4> QED
        BY <1>2, <4>1
    <3> QED
      BY <1>2, <3>1
  <2> QED
    BY <2>1 DEF Added, BucketFilled
<1>7. tops \in Nat \ {0} /\ size \in Nat \ {0, 1} /\ Row(index) < tops /\ Row(lastIndex)' = Row(index)
  BY <1>1, <1>2, <1>3, SMTT(40) DEF Row
<1> QED
  BY <1>1, <1>4, <1>5, <1>6, <1>7 DEF TableTypeOK

LEMMA AddCounts ==
    ASSUME StorageInv, NEW index, NEW tops, NEW size, NEW b, Added(index, tops, size, b),
           NEW k \in 0..(size - 1)
    PROVE  Cardinality(InUse(k)') = inBucket'[k]
<1>1. /\ Offset(index) \in 0..(BUCKET - 1) /\ b \in Nat
      /\ \A o \in 0..(BUCKET - 1) : clsList'[k][o] = IF k = b /\ o = Offset(index) THEN Len(table)
                                                     ELSE IF k < Old THEN clsList[k][o] ELSE -1
      /\ b < Old => clsList[b][Offset(index)] = -1
  BY AddedFacts, BucketGiven
<1>2. /\ Len(table) \in Nat /\ TableTypeOK /\ Old \in Nat
      /\ k < Old => inBucket[k] \in Nat /\ inBucket[k] = Cardinality(InUse(k)) /\ IsFiniteSet(InUse(k))
  <2>1. TableTypeOK /\ BucketsExact /\ Len(table) \in Nat /\ Old \in Nat
    BY SMTT(40) DEF StorageInv, TableTypeOK
  <2>2. size \in Nat
    BY DEF Added, BucketFilled
  <2>3. ASSUME k < Old
        PROVE  inBucket[k] \in Nat /\ inBucket[k] = Cardinality(InUse(k)) /\ IsFiniteSet(InUse(k))
    <3>1. k \in 0..(Old - 1)
      BY <2>1, <2>2, <2>3
    <3> QED
      BY <2>1, <3>1, Exact DEF BucketsExact, TableTypeOK
  <2> QED
    BY <2>1, <2>3
<1> DEFINE was == IF k < Old THEN InUse(k) ELSE {}
<1>3. inBucket'[k] = (IF k < Old THEN inBucket[k] ELSE 0) + (IF k = b THEN 1 ELSE 0)
  BY DEF Added, BucketFilled
<1>4. IsFiniteSet(was) /\ Cardinality(was) = (IF k < Old THEN inBucket[k] ELSE 0) /\ Cardinality(was) \in Nat
  BY <1>2, FS_EmptySet
<1>5. InUse(k)' = {o \in 0..(BUCKET - 1) : clsList'[k][o] # -1}
  BY DEF InUse
<1>6. was = {o \in 0..(BUCKET - 1) : k < Old /\ clsList[k][o] # -1}
  BY DEF InUse
<1> HIDE DEF was
<1>7. CASE k = b
  <2>1. InUse(k)' = was \cup {Offset(index)} /\ Offset(index) \notin was
    BY <1>1, <1>2, <1>5, <1>6, <1>7
  <2>2. Cardinality(InUse(k)') = Cardinality(was) + 1
    BY <1>4, <2>1, FS_AddElement
  <2> QED
    BY <1>3, <1>4, <1>7, <2>2
<1>8. CASE k # b
  <2>1. InUse(k)' = was
    BY <1>1, <1>5, <1>6, <1>8
  <2>2. inBucket'[k] = Cardinality(was)
    BY <1>2, <1>3, <1>4, <1>8
  <2> QED
    BY <2>1, <2>2
<1> QED
  BY <1>7, <1>8

LEMMA AddExact ==
    ASSUME StorageInv, NEW index, NEW tops, NEW size, NEW b, Added(index, tops, size, b), TableTypeOK'
    PROVE  BucketsExact'
<1>1. /\ index \in Nat /\ Row(index) \in 0..(tops - 1) /\ b \in Nat
      /\ Tops' = tops /\ Old' = size /\ DOMAIN topTable' = 0..(tops - 1)
      /\ \A r \in 0..(Tops - 1) : r # Row(index) => topTable[r] # b
      /\ \A r \in 0..(tops - 1) : topTable'[r] = IF r = Row(index) THEN b
                                                 ELSE IF r < Tops THEN topTable[r] ELSE -1
  BY AddedFacts, BucketGiven
<1>2. /\ tops \in Nat /\ size \in Nat /\ Tops <= tops /\ Old <= size /\ b \in 0..(size - 1)
      /\ OwnBucket(index, b) \/ FreeBucket(index, b)
      /\ \A k \in 0..(size - 1) : inBucket'[k] = (IF k < Old THEN inBucket[k] ELSE 0) + (IF k = b THEN 1 ELSE 0)
  BY DEF Added, RowsGrown, BucketFilled
<1>3. /\ Tops \in Nat /\ Old \in Nat /\ DOMAIN topTable = 0..(Tops - 1) /\ DOMAIN inBucket = 0..(Old - 1)
      /\ \A r \in 0..(Tops - 1) : topTable[r] \in -1..(Old - 1)
      /\ \A k \in 0..(Old - 1) : inBucket[k] \in Nat
      /\ BucketsExact
  BY DEF StorageInv, TableTypeOK
<1>4. DOMAIN inBucket' = 0..(size - 1)
  BY DEF Added, BucketFilled
<1>5. ASSUME NEW r \in DOMAIN topTable', NEW s \in DOMAIN topTable', topTable'[r] = topTable'[s], r # s
      PROVE  topTable'[r] = -1
  <2>1. r \in 0..(tops - 1) /\ s \in 0..(tops - 1)
    BY <1>1
  <2>2. ASSUME NEW q \in 0..(tops - 1), q # Row(index) PROVE topTable'[q] # b
    <3>1. CASE q < Tops
      BY <1>1, <1>2, <1>3, <2>2, <3>1
    <3>2. CASE ~(q < Tops)
      BY <1>1, <2>2, <3>2
    <3> QED
      BY <3>1, <3>2
  <2>3. r # Row(index) /\ s # Row(index)
    BY <1>1, <1>5, <2>1, <2>2
  <2>4. CASE r < Tops /\ s < Tops
    <3>1. topTable[r] = topTable[s] /\ r \in DOMAIN topTable /\ s \in DOMAIN topTable /\ topTable'[r] = topTable[r]
      BY <1>1, <1>2, <1>3, <1>5, <2>1, <2>3, <2>4
    <3> QED
      BY <1>3, <1>5, <3>1 DEF BucketsExact
  <2>5. CASE ~(r < Tops /\ s < Tops)
    BY <1>1, <1>5, <2>1, <2>3, <2>5
  <2> QED
    BY <2>4, <2>5
<1>6. ASSUME NEW k \in 0..(size - 1)
      PROVE  inBucket'[k] > 0 <=> \E r \in 0..(tops - 1) : topTable'[r] = k
  <2>1. CASE k = b
    <3>1. inBucket'[k] > 0
      <4>1. inBucket'[k] = (IF k < Old THEN inBucket[k] ELSE 0) + 1
        BY <1>2, <2>1
      <4>2. k < Old => inBucket[k] \in Nat
        BY <1>2, <1>3
      <4> QED
        BY <4>1, <4>2
    <3>2. topTable'[Row(index)] = k
      BY <1>1, <2>1
    <3> QED
      BY <1>1, <3>1, <3>2
  <2>2. CASE k # b /\ k < Old
    <3>1. inBucket'[k] = inBucket[k] /\ k \in 0..(Old - 1)
      BY <1>2, <1>3, <2>2
    <3>2. inBucket[k] > 0 <=> \E r \in 0..(Tops - 1) : topTable[r] = k
      <4>1. k \in DOMAIN inBucket
        BY <1>3, <3>1
      <4>2. inBucket[k] > 0 <=> k \in {topTable[r] : r \in DOMAIN topTable}
        BY <1>3, <4>1, Zenon DEF BucketsExact
      <4> QED
        BY <1>3, <4>2
    <3>3. ASSUME NEW r \in 0..(Tops - 1), topTable[r] = k PROVE r \in 0..(tops - 1) /\ topTable'[r] = k
      <4>1. r # Row(index)
        <5>1. r < Tops /\ k # -1
          BY <1>2, <1>3
        <5>2. Row(index) < Tops => topTable[Row(index)] \in {-1, b}
          BY <1>2 DEF OwnBucket, FreeBucket
        <5> QED
          BY <2>2, <3>3, <5>1, <5>2
      <4> QED
        BY <1>1, <1>2, <1>3, <3>3, <4>1
    <3>4. ASSUME NEW r \in 0..(tops - 1), topTable'[r] = k PROVE r \in 0..(Tops - 1) /\ topTable[r] = k
      <4>1. r # Row(index)
        BY <1>1, <2>2, <3>4
      <4>2. r < Tops
        BY <1>1, <1>2, <3>4, <4>1
      <4> QED
        BY <1>1, <1>2, <1>3, <3>4, <4>1, <4>2
    <3> QED
      BY <3>1, <3>2, <3>3, <3>4
  <2>3. CASE k # b /\ ~(k < Old)
    <3>1. ~(inBucket'[k] > 0)
      BY <1>2, <2>3
    <3>2. ASSUME NEW r \in 0..(tops - 1), topTable'[r] = k PROVE FALSE
      <4>1. r # Row(index) /\ r < Tops /\ topTable[r] = k
        BY <1>1, <1>2, <2>3, <3>2
      <4>2. topTable[r] \in -1..(Old - 1)
        BY <1>3, <4>1
      <4> QED
        BY <1>2, <1>3, <2>3, <4>1, <4>2
    <3> QED
      BY <3>1, <3>2
  <2> QED
    BY <2>1, <2>2, <2>3
<1>7. \A k \in DOMAIN inBucket' : inBucket'[k] = Cardinality({o \in DOMAIN clsList'[k] : clsList'[k][o] # DELETED})
  <2>1. ASSUME NEW k \in 0..(size - 1)
        PROVE  inBucket'[k] = Cardinality({o \in DOMAIN clsList'[k] : clsList'[k][o] # DELETED})
    <3>1. DOMAIN clsList'[k] = 0..(BUCKET - 1)
      BY DEF Added, BucketFilled
    <3>2. InUse(k)' = {o \in DOMAIN clsList'[k] : clsList'[k][o] # DELETED}
      BY <3>1 DEF InUse, DELETED
    <3> QED
      BY <3>2, AddCounts
  <2> QED
    BY <1>4, <2>1
<1>8. \A r, s \in DOMAIN topTable' : topTable'[r] = topTable'[s] /\ r # s => topTable'[r] = -1
  BY <1>5
<1>9. \A k \in DOMAIN inBucket' : inBucket'[k] > 0 <=> k \in {topTable'[r] : r \in DOMAIN topTable'}
  BY <1>1, <1>4, <1>6
<1> QED
  BY <1>7, <1>8, <1>9 DEF BucketsExact

LEMMA AddOwned ==
    ASSUME StorageInv, NEW index, NEW tops, NEW size, NEW b, Added(index, tops, size, b), lastIndex' = index
    PROVE  SlotsOwned'
<1>1. /\ index \in Nat /\ Row(index) \in 0..(tops - 1) /\ Offset(index) \in 0..(BUCKET - 1)
      /\ Tops' = tops /\ DOMAIN topTable' = 0..(tops - 1)
      /\ \A r \in 0..(tops - 1) : topTable'[r] = IF r = Row(index) THEN b
                                                 ELSE IF r < Tops THEN topTable[r] ELSE -1
      /\ \A k \in 0..(size - 1) : \A o \in 0..(BUCKET - 1) :
            clsList'[k][o] = IF k = b /\ o = Offset(index) THEN Len(table)
                             ELSE IF k < Old THEN clsList[k][o] ELSE -1
      /\ b \in Nat /\ \A r \in 0..(Tops - 1) : r # Row(index) => topTable[r] # b
      /\ ~OwnBucket(index, b) => \A o \in 0..(BUCKET - 1) : b < Old => clsList[b][o] = -1
  BY AddedFacts, BucketGiven
<1>2. /\ tops \in Nat /\ size \in Nat /\ Tops <= tops /\ Old <= size /\ b \in 0..(size - 1)
      /\ index \in Indices /\ index > lastIndex
  BY DEF Added, RowsGrown, BucketFilled
<1>3. /\ Tops \in Nat /\ Old \in Nat /\ lastIndex \in Nat /\ SlotsOwned
      /\ \A r \in 0..(Tops - 1) : topTable[r] \in -1..(Old - 1)
  BY DEF StorageInv, TableTypeOK
<1>4. ASSUME NEW r \in 0..(Tops - 1), NEW o \in 0..(BUCKET - 1), topTable[r] # -1, clsList[topTable[r]][o] # -1
      PROVE  \E i \in Indices : i <= index /\ Row(i) = r /\ Offset(i) = o
  <2>1. PICK i \in Indices : i <= lastIndex /\ Row(i) = r /\ Offset(i) = o
    BY <1>3, <1>4 DEF SlotsOwned
  <2>2. i \in Nat
    BY RowFacts
  <2>3. i <= index
    BY <1>1, <1>2, <1>3, <2>1, <2>2
  <2> QED
    BY <2>1, <2>3
<1>5. ASSUME NEW r \in 0..(tops - 1), NEW o \in 0..(BUCKET - 1), topTable'[r] # -1, clsList'[topTable'[r]][o] # -1
      PROVE  \E i \in Indices : i <= index /\ Row(i) = r /\ Offset(i) = o
  <2>1. CASE r = Row(index) /\ o = Offset(index)
    BY <1>1, <1>2, <2>1
  <2>2. CASE r = Row(index) /\ o # Offset(index)
    <3>1. b < Old /\ clsList[b][o] # -1
      BY <1>1, <1>2, <1>5, <2>2
    <3>2. OwnBucket(index, b)
      BY <1>1, <3>1
    <3>3. r \in 0..(Tops - 1) /\ topTable[r] = b /\ b # -1
      BY <1>1, <1>3, <2>2, <3>2 DEF OwnBucket
    <3> QED
      BY <1>4, <3>1, <3>3
  <2>3. CASE r # Row(index)
    <3>1. r < Tops /\ topTable'[r] = topTable[r]
      BY <1>1, <1>2, <1>5, <2>3
    <3>2. r \in 0..(Tops - 1) /\ topTable[r] # -1 /\ topTable[r] # b /\ topTable[r] \in -1..(Old - 1)
      BY <1>1, <1>2, <1>3, <1>5, <2>3, <3>1, SMTT(40)
    <3>3. topTable[r] \in 0..(size - 1) /\ topTable[r] < Old
      BY <1>2, <1>3, <3>2
    <3>4. clsList[topTable[r]][o] # -1
      BY <1>1, <1>5, <3>1, <3>2, <3>3
    <3> QED
      BY <1>4, <3>2, <3>4
  <2> QED
    BY <2>1, <2>2, <2>3
<1>6. \A i : (Row(i)' = Row(i)) /\ Offset(i)' = Offset(i)
  BY DEF Row, Offset
<1> QED
  BY <1>1, <1>5, <1>6 DEF SlotsOwned, Row, Offset

LEMMA ClausesTyped == ASSUME NEW c \in Clauses PROVE c \in Literals
<1>1. c \in Seq(Int) /\ \A k \in DOMAIN c : c[k] # 0
  BY TableAssumption
<1> QED
  BY <1>1 DEF Literals

\* A clause is added after what is in the table, and what is there stays.
LEMMA AppendPlaced ==
    ASSUME NEW tab \in Seq(Int), NEW c \in Literals
    PROVE  LET new == tab \o c \o <<0>>
           IN  /\ new \in Seq(Int) /\ Placed(new, Len(tab), c)
               /\ \A p, d : Placed(tab, p, d) => Placed(new, p, d)
<1> DEFINE new == tab \o c \o <<0>>
<1>1. Len(tab) \in Nat /\ Len(c) \in Nat /\ c \in Seq(Int) /\ DOMAIN c = 1..Len(c)
  BY LiteralsFacts
<1>2. /\ tab \o c \in Seq(Int) /\ Len(tab \o c) = Len(tab) + Len(c)
      /\ \A k \in 1..(Len(tab) + Len(c)) : (tab \o c)[k] = IF k <= Len(tab) THEN tab[k] ELSE c[k - Len(tab)]
  BY <1>1
<1> DEFINE front == tab \o c
<1> HIDE DEF front
<1>3. front \in Seq(Int) /\ Len(front) = Len(tab) + Len(c)
  BY <1>2 DEF front
<1>4. /\ front \o <<0>> \in Seq(Int) /\ Len(front \o <<0>>) = Len(front) + 1
      /\ \A k \in 1..Len(front) : (front \o <<0>>)[k] = front[k]
      /\ (front \o <<0>>)[Len(front) + 1] = 0
  BY <1>3
<1>5. new = front \o <<0>>
  BY DEF front
<1> HIDE DEF new
<1>6. /\ new \in Seq(Int) /\ Len(new) = Len(tab) + Len(c) + 1 /\ new[Len(tab) + Len(c) + 1] = 0
      /\ \A k \in 1..Len(tab) : new[k] = tab[k]
      /\ \A k \in 1..Len(c) : new[Len(tab) + k] = c[k]
  <2>1. new \in Seq(Int) /\ Len(new) = Len(tab) + Len(c) + 1 /\ new[Len(tab) + Len(c) + 1] = 0
    BY <1>1, <1>3, <1>4, <1>5
  <2>2. ASSUME NEW k \in 1..(Len(tab) + Len(c)) PROVE new[k] = IF k <= Len(tab) THEN tab[k] ELSE c[k - Len(tab)]
    BY <1>2, <1>3, <1>4, <1>5 DEF front
  <2>3. ASSUME NEW k \in 1..Len(tab) PROVE new[k] = tab[k]
    <3>1. k \in 1..(Len(tab) + Len(c)) /\ k <= Len(tab)
      BY <1>1
    <3> QED
      BY <2>2, <3>1
  <2>4. ASSUME NEW k \in 1..Len(c) PROVE new[Len(tab) + k] = c[k]
    <3>1. Len(tab) + k \in 1..(Len(tab) + Len(c)) /\ ~(Len(tab) + k <= Len(tab)) /\ Len(tab) + k - Len(tab) = k
      BY <1>1
    <3>2. new[Len(tab) + k] = c[Len(tab) + k - Len(tab)]
      BY <2>2, <3>1
    <3> QED
      BY <3>1, <3>2
  <2> QED
    BY <2>1, <2>3, <2>4
<1>7. Placed(new, Len(tab), c)
  BY <1>1, <1>6 DEF Placed
<1>8. ASSUME NEW p, NEW d, Placed(tab, p, d) PROVE Placed(new, p, d)
  <2>1. p \in Nat /\ d \in Literals /\ Len(d) \in Nat /\ p + Len(d) + 1 <= Len(tab)
    BY <1>8, LiteralsFacts DEF Placed
  <2>2. p + Len(d) + 1 <= Len(new)
    BY <1>1, <1>6, <2>1
  <2>3. \A k \in (p + 1)..(p + Len(d) + 1) : k \in 1..Len(tab)
    BY <1>1, <2>1
  <2>4. \A k \in (p + 1)..(p + Len(d) + 1) : new[k] = tab[k]
    BY <1>6, <2>3
  <2> QED
    BY <1>6, <1>8, <2>2, <2>4, StaysPlaced
<1> QED
  BY <1>6, <1>7, <1>8 DEF new

LEMMA AddRight ==
    ASSUME StorageInv, NEW index \in Indices, NEW lits \in Clauses, addClause(index, lits)
    PROVE  StorageInv' /\ Store!Add(index, lits)
<1>1. TableTypeOK /\ BucketsExact /\ ClausesLie /\ lits \in Literals
  BY ClausesTyped DEF StorageInv
<1>2. index > lastIndex /\ table' = table \o lits \o <<0>> /\ lastIndex' = index /\ lastIndex \in Nat
      /\ table \in Seq(Int) /\ Len(table) \in Nat
  BY <1>1, Zenon, LenProperties DEF addClause, TableTypeOK
<1>3. \E tops, size, b : Added(index, tops, size, b)
  <2>1. \E tops, size, b : /\ RowsGrown(index, tops, b) /\ BucketFilled(index, size, b)
                           /\ OwnBucket(index, b) \/ FreeBucket(index, b)
    BY <1>1, AddUnfolded
  <2> QED
    BY <1>2, <2>1 DEF Added
<1>4. PICK tops, size, b : Added(index, tops, size, b)
  BY <1>3
<1>5. /\ table' \in Seq(Int) /\ Placed(table', Len(table), lits)
      /\ \A p, d : Placed(table, p, d) => Placed(table', p, d)
  BY <1>1, <1>2, AppendPlaced
<1>6. TableTypeOK'
  BY <1>2, <1>4, <1>5, AddTypes
<1>7. BucketsExact' /\ SlotsOwned'
  BY <1>2, <1>4, <1>6, AddExact, AddOwned
<1>8. Place(index)' = Len(table) /\ \A i \in Indices : i # index => Place(i)' = Place(i)
  BY <1>4, AddPlaces
<1>9. /\ Live = {i \in Indices : Place(i) # -1} /\ \A i \in Live : Stored[i] = ReadAt(table, Place(i))
      /\ Live' = {i \in Indices : Place(i)' # -1} /\ \A i \in Live' : Stored'[i] = ReadAt(table', Place(i)')
  BY <1>1, LivePlaces, LivePlacesAfter
<1>10. index \notin Live
  <2>1. index \in Nat
    BY RowFacts
  <2> QED
    BY <1>1, <1>2, <2>1 DEF ClausesLie
<1>11. Live' = Live \cup {index}
  BY <1>2, <1>8, <1>9
<1>12. /\ Stored'[index] = lits /\ Placed(table', Place(index)', Stored'[index])
       /\ \A i \in Live : Stored'[i] = Stored[i] /\ Placed(table', Place(i)', Stored'[i]) /\ Place(i)' = Place(i)
  <2>1. Stored'[index] = lits
    BY <1>5, <1>8, <1>9, <1>11, ReadPlaced
  <2>2. ASSUME NEW i \in Live
        PROVE  Stored'[i] = Stored[i] /\ Placed(table', Place(i)', Stored'[i]) /\ Place(i)' = Place(i)
    <3>1. Place(i)' = Place(i) /\ i \in Live'
      BY <1>8, <1>9, <1>10, <1>11
    <3>2. Placed(table, Place(i), Stored[i])
      BY <1>1 DEF ClausesLie
    <3>3. Placed(table', Place(i)', Stored[i])
      BY <1>5, <3>1, <3>2
    <3>4. Stored'[i] = Stored[i]
      BY <1>5, <1>9, <3>1, <3>3, ReadPlaced
    <3> QED
      BY <3>1, <3>3, <3>4
  <2> QED
    BY <1>5, <1>8, <2>1, <2>2
<1>13. ClausesLie'
  <2>1. \A i \in Live' : i <= lastIndex' /\ Placed(table', Place(i)', Stored'[i])
    <3>1. ASSUME NEW i \in Live PROVE i <= index
      <4>1. i \in Nat /\ index \in Nat /\ i <= lastIndex
        BY <1>1, <1>9, RowFacts DEF ClausesLie
      <4> QED
        BY <1>2, <4>1
    <3>2. index <= index
      BY RowFacts
    <3> QED
      BY <1>2, <1>11, <1>12, <3>1, <3>2
  <2>2. ASSUME NEW i \in Live', NEW j \in Live', i < j
        PROVE  Place(i)' + Len(Stored'[i]) + 1 <= Place(j)'
    <3>1. i \in Nat /\ j \in Nat /\ index \in Nat
      BY <1>9, RowFacts
    <3>2. i \in Live
      <4>1. CASE i = index
        <5>1. j \in Live
          BY <1>11, <2>2, <3>1, <4>1
        <5>2. j <= lastIndex
          BY <1>1, <5>1 DEF ClausesLie
        <5> QED
          BY <1>2, <2>2, <3>1, <4>1, <5>2
      <4> QED
        BY <1>11, <4>1
    <3>3. CASE j = index
      <4>1. Placed(table, Place(i), Stored[i])
        BY <1>1, <3>2 DEF ClausesLie
      <4> QED
        BY <1>8, <1>12, <3>2, <3>3, <4>1 DEF Placed
    <3>4. CASE j # index
      <4>1. j \in Live
        BY <1>11, <3>4
      <4>2. Place(i) + Len(Stored[i]) + 1 <= Place(j)
        BY <1>1, <2>2, <3>2, <4>1 DEF ClausesLie
      <4> QED
        BY <1>12, <3>2, <4>1, <4>2
    <3> QED
      BY <3>3, <3>4
  <2> QED
    BY <2>1, <2>2 DEF ClausesLie
<1>14. Store!Add(index, lits)
  <2>1. DOMAIN Stored = Live
    BY DEF Stored
  <2>2. Stored' = [j \in Live' |-> Stored'[j]]
    BY DEF Stored
  <2>3. Stored' = [j \in Live \cup {index} |-> IF j = index THEN lits ELSE Stored[j]]
    BY <1>10, <1>11, <1>12, <2>2
  <2> QED
    BY <1>10, <2>1, <2>3 DEF Store!Add
<1> QED
  BY <1>6, <1>7, <1>13, <1>14 DEF StorageInv

-----------------------------------------------------------------------------
(* A clause is deleted.                                                    *)

\* The bucket b of the index loses a clause; when it was the last one, the row
\* loses the bucket.
Removed(index, b) ==
    /\ index \in Indices /\ Row(index) \in 0..(Tops - 1) /\ topTable[Row(index)] = b /\ b \in 0..(Old - 1)
    /\ clsList[b][Offset(index)] # -1
    /\ clsList' = [clsList EXCEPT ![b] = [@ EXCEPT ![Offset(index)] = -1]]
    /\ inBucket' = [inBucket EXCEPT ![b] = @ - 1]
    /\ topTable' = IF inBucket[b] - 1 = 0 THEN [topTable EXCEPT ![Row(index)] = -1] ELSE topTable
    /\ UNCHANGED <<table, lastIndex>>

LEMMA DeleteUnfolded ==
    ASSUME StorageInv, NEW index \in Indices, deleteClause(index)
    PROVE  \E b : Removed(index, b)
<1> DEFINE b == topTable[Row(index)]
<1>1. TableTypeOK /\ index \in Nat /\ Row(index) \in Nat /\ Offset(index) \in 0..(BUCKET - 1)
  BY RowFacts DEF StorageInv
<1>2. index <= lastIndex /\ Known(index) /\ getClause(index) # DELETED
  BY DEF deleteClause
<1>3. Row(index) \in 0..(Tops - 1)
  <2>1. Row(index) <= Row(lastIndex) /\ Row(lastIndex) < Tops /\ Row(lastIndex) \in Nat /\ Tops \in Nat
    BY <1>1, <1>2, RowFacts DEF TableTypeOK
  <2> QED
    BY <1>1, <2>1
<1>4. b # -1 /\ b \in 0..(Old - 1) /\ clsList[b][Offset(index)] # -1
  <2>1. b # -1 /\ clsList[b][Offset(index)] # -1
    BY <1>2 DEF Known, getClause, Bucket, Row, DELETED
  <2>2. b \in -1..(Old - 1) /\ Old \in Nat
    BY <1>1, <1>3 DEF TableTypeOK
  <2> QED
    BY <2>1, <2>2
<1>5. /\ clsList' = [clsList EXCEPT ![b][Offset(index)] = -1]
      /\ inBucket' = [inBucket EXCEPT ![b] = @ - 1]
      /\ topTable' = IF inBucket[b] - 1 = 0 THEN [topTable EXCEPT ![Row(index)] = -1] ELSE topTable
      /\ table' = table /\ lastIndex' = lastIndex
  BY Zenon DEF deleteClause, Bucket, Row, DELETED, Emptied
<1>6. clsList' = [clsList EXCEPT ![b] = [@ EXCEPT ![Offset(index)] = -1]]
  BY <1>5
<1> HIDE DEF b
<1> QED
  BY <1>3, <1>4, <1>5, <1>6 DEF Removed, b

LEMMA RemovedFacts ==
    ASSUME StorageInv, NEW index, NEW b, Removed(index, b)
    PROVE  /\ TableTypeOK /\ index \in Nat /\ Offset(index) \in 0..(BUCKET - 1) /\ Row(index) \in 0..(Tops - 1)
           /\ b \in 0..(Old - 1) /\ topTable[Row(index)] = b
           /\ Tops' = Tops /\ Old' = Old /\ DOMAIN topTable' = 0..(Tops - 1) /\ DOMAIN inBucket' = 0..(Old - 1)
           /\ \A r \in 0..(Tops - 1) :
                 topTable'[r] = IF r = Row(index) /\ inBucket[b] = 1 THEN -1 ELSE topTable[r]
           /\ \A k \in 0..(Old - 1) : inBucket'[k] = IF k = b THEN inBucket[k] - 1 ELSE inBucket[k]
           /\ \A k \in 0..(Old - 1) : \A o \in 0..(BUCKET - 1) :
                 clsList'[k][o] = IF k = b /\ o = Offset(index) THEN -1 ELSE clsList[k][o]
           /\ InUse(b)' = InUse(b) \ {Offset(index)} /\ Offset(index) \in InUse(b)
           /\ inBucket[b] \in Nat /\ inBucket[b] = Cardinality(InUse(b))
           /\ inBucket[b] - 1 = Cardinality(InUse(b)') /\ inBucket[b] >= 1
           /\ inBucket[b] = 1 => InUse(b)' = {}
<1>1. TableTypeOK /\ BucketsExact
  BY DEF StorageInv
<1>2. /\ index \in Indices /\ Row(index) \in 0..(Tops - 1) /\ topTable[Row(index)] = b /\ b \in 0..(Old - 1)
      /\ clsList[b][Offset(index)] # -1
      /\ clsList' = [clsList EXCEPT ![b] = [@ EXCEPT ![Offset(index)] = -1]]
      /\ inBucket' = [inBucket EXCEPT ![b] = @ - 1]
      /\ topTable' = IF inBucket[b] - 1 = 0 THEN [topTable EXCEPT ![Row(index)] = -1] ELSE topTable
  BY DEF Removed
<1>3. index \in Nat /\ Offset(index) \in 0..(BUCKET - 1)
  BY <1>2, RowFacts
<1>4. /\ topTable \in [0..(Tops - 1) -> -1..(Old - 1)] /\ inBucket \in [0..(Old - 1) -> Nat]
      /\ clsList \in [0..(Old - 1) -> [0..(BUCKET - 1) -> Nat \cup {-1}]]
      /\ Tops \in Nat /\ Old \in Nat
  BY <1>1 DEF TableTypeOK
<1>5. DOMAIN topTable' = DOMAIN topTable /\ DOMAIN inBucket' = DOMAIN inBucket
  BY <1>2
<1>6. Tops' = Tops /\ Old' = Old
  BY <1>5 DEF Tops, Old
<1>7. \A k \in 0..(Old - 1) : inBucket'[k] = IF k = b THEN inBucket[k] - 1 ELSE inBucket[k]
  BY <1>2, <1>4
<1>8. ASSUME NEW k \in 0..(Old - 1), NEW o \in 0..(BUCKET - 1)
      PROVE  clsList'[k][o] = IF k = b /\ o = Offset(index) THEN -1 ELSE clsList[k][o]
  <2>1. clsList[k] \in [0..(BUCKET - 1) -> Nat \cup {-1}]
    BY <1>4
  <2>2. clsList'[k] = IF k = b THEN [clsList[k] EXCEPT ![Offset(index)] = -1] ELSE clsList[k]
    BY <1>2, <1>4
  <2> QED
    BY <1>3, <2>1, <2>2
<1>9. InUse(b)' = {o \in 0..(BUCKET - 1) : clsList'[b][o] # -1}
  BY DEF InUse
<1>10. InUse(b)' = InUse(b) \ {Offset(index)} /\ Offset(index) \in InUse(b)
  BY <1>2, <1>3, <1>8, <1>9 DEF InUse
<1>11. inBucket[b] \in Nat /\ inBucket[b] = Cardinality(InUse(b)) /\ IsFiniteSet(InUse(b))
  BY <1>1, <1>2, <1>4, Exact DEF BucketsExact
<1>12. Cardinality(InUse(b)') = inBucket[b] - 1
  BY <1>10, <1>11, FS_RemoveElement
<1>13. Cardinality(InUse(b)') \in Nat /\ (Cardinality(InUse(b)') = 0 => InUse(b)' = {})
  <2>1. IsFiniteSet(InUse(b)')
    BY <1>10, <1>11, FS_Subset
  <2> QED
    BY <2>1, FS_CardinalityType, FS_EmptySet
<1>14. inBucket[b] >= 1
  BY <1>11, <1>12, <1>13
<1>15. \A r \in 0..(Tops - 1) : topTable'[r] = IF r = Row(index) /\ inBucket[b] = 1 THEN -1 ELSE topTable[r]
  <2>1. inBucket[b] - 1 = 0 <=> inBucket[b] = 1
    BY <1>11
  <2> QED
    BY <1>2, <1>4, <2>1
<1>16. inBucket[b] = 1 => InUse(b)' = {}
  BY <1>12, <1>13
<1>17. DOMAIN topTable' = 0..(Tops - 1) /\ DOMAIN inBucket' = 0..(Old - 1)
  BY <1>4, <1>5
<1> QED
  BY <1>1, <1>2, <1>3, <1>6, <1>7, <1>8, <1>10, <1>11, <1>12, <1>14, <1>15, <1>16, <1>17

LEMMA RemovedTypes ==
    ASSUME StorageInv, NEW index, NEW b, Removed(index, b)
    PROVE  TableTypeOK'
<1>1. /\ TableTypeOK /\ b \in 0..(Old - 1) /\ Row(index) \in 0..(Tops - 1) /\ Offset(index) \in 0..(BUCKET - 1)
      /\ Tops' = Tops /\ Old' = Old /\ inBucket[b] \in Nat /\ inBucket[b] >= 1
  BY RemovedFacts
<1>2. /\ clsList' = [clsList EXCEPT ![b] = [@ EXCEPT ![Offset(index)] = -1]]
      /\ inBucket' = [inBucket EXCEPT ![b] = @ - 1]
      /\ topTable' = IF inBucket[b] - 1 = 0 THEN [topTable EXCEPT ![Row(index)] = -1] ELSE topTable
      /\ table' = table /\ lastIndex' = lastIndex
  BY DEF Removed
<1>3. /\ topTable \in [0..(Tops - 1) -> -1..(Old - 1)] /\ inBucket \in [0..(Old - 1) -> Nat]
      /\ clsList \in [0..(Old - 1) -> [0..(BUCKET - 1) -> Nat \cup {-1}]]
      /\ Tops \in Nat \ {0} /\ Old \in Nat \ {0, 1} /\ table \in Seq(Int) /\ lastIndex \in Nat
      /\ Row(lastIndex) < Tops
  BY <1>1 DEF TableTypeOK
<1>4. clsList' \in [0..(Old - 1) -> [0..(BUCKET - 1) -> Nat \cup {-1}]]
  <2>1. [clsList[b] EXCEPT ![Offset(index)] = -1] \in [0..(BUCKET - 1) -> Nat \cup {-1}]
    BY <1>1, <1>3
  <2> QED
    BY <1>2, <1>3, <2>1
<1>5. inBucket' \in [0..(Old - 1) -> Nat]
  <2>1. inBucket[b] - 1 \in Nat
    BY <1>1
  <2> QED
    BY <1>2, <1>3, <2>1
<1>6. topTable' \in [0..(Tops - 1) -> -1..(Old - 1)]
  BY <1>1, <1>2, <1>3, SMTT(40)
<1>7. Row(lastIndex)' = Row(lastIndex)
  BY <1>2 DEF Row
<1> QED
  BY <1>1, <1>2, <1>3, <1>4, <1>5, <1>6, <1>7 DEF TableTypeOK

LEMMA RemovedExact ==
    ASSUME StorageInv, NEW index, NEW b, Removed(index, b)
    PROVE  BucketsExact' /\ SlotsOwned'
<1>1. /\ TableTypeOK /\ index \in Nat /\ Offset(index) \in 0..(BUCKET - 1) /\ Row(index) \in 0..(Tops - 1)
      /\ b \in 0..(Old - 1) /\ topTable[Row(index)] = b
      /\ Tops' = Tops /\ Old' = Old /\ DOMAIN topTable' = 0..(Tops - 1) /\ DOMAIN inBucket' = 0..(Old - 1)
      /\ \A r \in 0..(Tops - 1) :
            topTable'[r] = IF r = Row(index) /\ inBucket[b] = 1 THEN -1 ELSE topTable[r]
      /\ \A k \in 0..(Old - 1) : inBucket'[k] = IF k = b THEN inBucket[k] - 1 ELSE inBucket[k]
      /\ \A k \in 0..(Old - 1) : \A o \in 0..(BUCKET - 1) :
            clsList'[k][o] = IF k = b /\ o = Offset(index) THEN -1 ELSE clsList[k][o]
      /\ inBucket[b] \in Nat /\ inBucket[b] - 1 = Cardinality(InUse(b)') /\ inBucket[b] >= 1
  BY RemovedFacts
<1>2. /\ BucketsExact /\ SlotsOwned /\ TableTypeOK' /\ lastIndex' = lastIndex
      /\ DOMAIN topTable = 0..(Tops - 1) /\ DOMAIN inBucket = 0..(Old - 1)
      /\ Old \in Nat /\ \A r \in 0..(Tops - 1) : topTable[r] \in -1..(Old - 1)
  BY <1>1, RemovedTypes, Exact DEF StorageInv, Removed, TableTypeOK
<1>3. \A r, s \in DOMAIN topTable' : topTable'[r] = topTable'[s] /\ r # s => topTable'[r] = -1
  <2>1. \A r, s \in 0..(Tops - 1) : topTable[r] = topTable[s] /\ r # s => topTable[r] = -1
    BY <1>2 DEF BucketsExact
  <2> QED
    BY <1>1, <2>1
<1>4. ASSUME NEW k \in 0..(Old - 1)
      PROVE  inBucket'[k] = Cardinality({o \in DOMAIN clsList'[k] : clsList'[k][o] # DELETED})
  <2>1. DOMAIN clsList'[k] = 0..(BUCKET - 1)
    BY <1>1, <1>2 DEF TableTypeOK
  <2>2. InUse(k)' = {o \in DOMAIN clsList'[k] : clsList'[k][o] # DELETED}
    BY <2>1 DEF InUse, DELETED
  <2>3. CASE k = b
    BY <1>1, <2>2, <2>3
  <2>4. CASE k # b
    <3>1. InUse(k)' = InUse(k)
      BY <1>1, <2>4 DEF InUse
    <3>2. inBucket[k] = Cardinality(InUse(k))
      <4>1. inBucket[k] = Cardinality({o \in DOMAIN clsList[k] : clsList[k][o] # DELETED})
        BY <1>2, Zenon DEF BucketsExact
      <4>2. InUse(k) = {o \in DOMAIN clsList[k] : clsList[k][o] # DELETED}
        BY <1>1, Exact
      <4> QED
        BY <4>1, <4>2
    <3> QED
      BY <1>1, <2>2, <2>4, <3>1, <3>2
  <2> QED
    BY <2>3, <2>4
<1>5. ASSUME NEW k \in 0..(Old - 1)
      PROVE  inBucket'[k] > 0 <=> \E r \in 0..(Tops - 1) : topTable'[r] = k
  <2>1. inBucket[k] > 0 <=> \E r \in 0..(Tops - 1) : topTable[r] = k
    <3>1. inBucket[k] > 0 <=> k \in {topTable[r] : r \in DOMAIN topTable}
      BY <1>2, Zenon DEF BucketsExact
    <3> QED
      BY <1>2, <3>1
  <2>2. CASE k # b
    <3>1. \A r \in 0..(Tops - 1) : topTable'[r] = k <=> topTable[r] = k
      <4>1. k # -1
        BY <1>2
      <4> QED
        BY <1>1, <2>2, <4>1
    <3> QED
      BY <1>1, <2>1, <2>2, <3>1
  <2>3. CASE k = b /\ inBucket[b] = 1
    <3>1. ~(inBucket'[k] > 0)
      BY <1>1, <2>3
    <3>2. ASSUME NEW r \in 0..(Tops - 1) PROVE topTable'[r] # k
      <4>1. k # -1
        BY <1>2
      <4>2. CASE r = Row(index)
        BY <1>1, <2>3, <4>1, <4>2
      <4>3. CASE r # Row(index)
        <5>1. topTable[r] # b
          BY <1>1, <1>2, <2>3, <4>1, <4>3 DEF BucketsExact
        <5> QED
          BY <1>1, <2>3, <4>3, <5>1
      <4> QED
        BY <4>2, <4>3
    <3> QED
      BY <3>1, <3>2
  <2>4. CASE k = b /\ inBucket[b] # 1
    <3>1. inBucket'[k] > 0
      BY <1>1, <2>4
    <3>2. topTable'[Row(index)] = k
      BY <1>1, <2>4
    <3> QED
      BY <1>1, <3>1, <3>2
  <2> QED
    BY <2>2, <2>3, <2>4
<1>6. BucketsExact'
  <2>1. \A k \in DOMAIN inBucket' : inBucket'[k] > 0 <=> k \in {topTable'[r] : r \in DOMAIN topTable'}
    BY <1>1, <1>5
  <2>2. \A k \in DOMAIN inBucket' : inBucket'[k] = Cardinality({o \in DOMAIN clsList'[k] : clsList'[k][o] # DELETED})
    BY <1>1, <1>4
  <2> QED
    BY <1>3, <2>1, <2>2 DEF BucketsExact
<1>7. ASSUME NEW r \in 0..(Tops - 1), NEW o \in 0..(BUCKET - 1), topTable'[r] # -1, clsList'[topTable'[r]][o] # -1
      PROVE  \E i \in Indices : i <= lastIndex /\ Row(i) = r /\ Offset(i) = o
  <2>1. topTable'[r] = topTable[r]
    BY <1>1, <1>7
  <2>2. topTable[r] \in 0..(Old - 1)
    <3>1. topTable[r] \in -1..(Old - 1) /\ topTable[r] # -1
      BY <1>2, <1>7, <2>1
    <3> QED
      BY <1>2, <3>1
  <2>3. clsList[topTable[r]][o] # -1
    BY <1>1, <1>7, <2>1, <2>2
  <2> QED
    BY <1>2, <1>7, <2>1, <2>3 DEF SlotsOwned
<1>8. SlotsOwned'
  BY <1>1, <1>2, <1>7 DEF SlotsOwned, Row, Offset
<1> QED
  BY <1>6, <1>8

LEMMA RemovedPlaces ==
    ASSUME StorageInv, NEW index, NEW b, Removed(index, b)
    PROVE  Place(index)' = -1 /\ Place(index) # -1 /\ \A i \in Indices : i # index => Place(i)' = Place(i)
<1>1. /\ TableTypeOK /\ index \in Nat /\ Offset(index) \in 0..(BUCKET - 1) /\ Row(index) \in 0..(Tops - 1)
      /\ b \in 0..(Old - 1) /\ topTable[Row(index)] = b
      /\ DOMAIN topTable' = 0..(Tops - 1)
      /\ \A r \in 0..(Tops - 1) :
            topTable'[r] = IF r = Row(index) /\ inBucket[b] = 1 THEN -1 ELSE topTable[r]
      /\ \A k \in 0..(Old - 1) : \A o \in 0..(BUCKET - 1) :
            clsList'[k][o] = IF k = b /\ o = Offset(index) THEN -1 ELSE clsList[k][o]
      /\ InUse(b)' = InUse(b) \ {Offset(index)}
      /\ inBucket[b] = 1 => InUse(b)' = {}
  BY RemovedFacts
<1>2. /\ BucketsExact /\ DOMAIN topTable = 0..(Tops - 1) /\ Old \in Nat /\ b # -1
      /\ \A r \in 0..(Tops - 1) : topTable[r] \in -1..(Old - 1)
      /\ clsList[b][Offset(index)] # -1
  <2>1. BucketsExact /\ clsList[b][Offset(index)] # -1
    BY DEF StorageInv, Removed
  <2>2. /\ topTable \in [0..(Tops - 1) -> -1..(Old - 1)] /\ Old \in Nat
    BY <1>1 DEF TableTypeOK
  <2> QED
    BY <1>1, <2>1, <2>2
<1>3. ASSUME NEW i \in Indices
      PROVE  /\ Place(i) = IF Row(i) \in 0..(Tops - 1) /\ topTable[Row(i)] # -1
                           THEN clsList[topTable[Row(i)]][Offset(i)] ELSE -1
             /\ Place(i)' = IF Row(i) \in 0..(Tops - 1) /\ topTable'[Row(i)] # -1
                            THEN clsList'[topTable'[Row(i)]][Offset(i)] ELSE -1
             /\ Offset(i) \in 0..(BUCKET - 1) /\ i \in Nat
  <2>1. Offset(i) \in 0..(BUCKET - 1) /\ i \in Nat
    BY RowFacts
  <2> QED
    BY <1>1, <1>2, <2>1 DEF Place, DELETED, Row, Offset
<1>4. index \in Indices
  BY DEF Removed
<1>5. Place(index)' = -1 /\ Place(index) # -1
  BY <1>1, <1>2, <1>3, <1>4
<1>6. ASSUME NEW i \in Indices, i # index PROVE Place(i)' = Place(i)
  <2>1. CASE Row(i) \notin 0..(Tops - 1)
    BY <1>3, <2>1
  <2>2. CASE Row(i) \in 0..(Tops - 1) /\ Row(i) # Row(index)
    <3>1. topTable'[Row(i)] = topTable[Row(i)]
      BY <1>1, <2>2
    <3>2. topTable[Row(i)] # -1 => topTable[Row(i)] # b
      BY <1>1, <1>2, <2>2 DEF BucketsExact
    <3>3. topTable[Row(i)] # -1 => topTable[Row(i)] \in 0..(Old - 1)
      <4>1. topTable[Row(i)] \in -1..(Old - 1)
        BY <1>2, <2>2
      <4> QED
        BY <1>2, <4>1
    <3>4. topTable[Row(i)] # -1 => clsList'[topTable[Row(i)]][Offset(i)] = clsList[topTable[Row(i)]][Offset(i)]
      BY <1>1, <1>3, <3>2, <3>3
    <3> QED
      BY <1>3, <3>1, <3>4
  <2>3. CASE Row(i) = Row(index)
    <3>1. Offset(i) # Offset(index)
      BY <1>1, <1>3, <1>6, <2>3, RowFacts
    <3>2. Place(i) = clsList[b][Offset(i)] /\ clsList'[b][Offset(i)] = clsList[b][Offset(i)]
      BY <1>1, <1>2, <1>3, <2>3, <3>1
    <3>3. CASE inBucket[b] = 1
      <4>1. Offset(i) \notin InUse(b)
        BY <1>1, <3>1, <3>3
      <4>2. Place(i) = -1
        BY <1>3, <3>2, <4>1 DEF InUse
      <4>3. Place(i)' = -1
        BY <1>1, <1>3, <2>3, <3>3
      <4> QED
        BY <4>2, <4>3
    <3>4. CASE inBucket[b] # 1
      BY <1>1, <1>2, <1>3, <2>3, <3>2, <3>4
    <3> QED
      BY <3>3, <3>4
  <2> QED
    BY <2>1, <2>2, <2>3
<1> QED
  BY <1>5, <1>6

LEMMA DeleteRight ==
    ASSUME StorageInv, NEW index \in Indices, deleteClause(index)
    PROVE  StorageInv' /\ Store!Delete(index)
<1>1. PICK b : Removed(index, b)
  BY DeleteUnfolded
<1>2. TableTypeOK' /\ BucketsExact' /\ SlotsOwned'
  BY <1>1, RemovedTypes, RemovedExact
<1>3. Place(index)' = -1 /\ Place(index) # -1 /\ \A i \in Indices : i # index => Place(i)' = Place(i)
  BY <1>1, RemovedPlaces
<1>4. TableTypeOK /\ ClausesLie /\ table' = table /\ lastIndex' = lastIndex
  BY <1>1 DEF StorageInv, Removed
<1>5. /\ Live = {i \in Indices : Place(i) # -1} /\ \A i \in Live : Stored[i] = ReadAt(table, Place(i))
      /\ Live' = {i \in Indices : Place(i)' # -1} /\ \A i \in Live' : Stored'[i] = ReadAt(table', Place(i)')
  BY <1>4, LivePlaces, LivePlacesAfter
<1>6. Live' = Live \ {index}
  BY <1>3, <1>5
<1>7. \A i \in Live' : i \in Live /\ Place(i)' = Place(i) /\ Stored'[i] = Stored[i]
  BY <1>3, <1>4, <1>5, <1>6
<1>8. ClausesLie'
  BY <1>4, <1>7 DEF ClausesLie
<1>9. Store!Delete(index)
  <2>1. DOMAIN Stored = Live
    BY DEF Stored
  <2>2. Stored' = [j \in Live' |-> Stored'[j]]
    BY DEF Stored
  <2>3. Stored' = [j \in Live \ {index} |-> Stored[j]]
    BY <1>6, <1>7, <2>2
  <2> QED
    BY <2>1, <2>3 DEF Store!Delete
<1> QED
  BY <1>2, <1>8, <1>9 DEF StorageInv

-----------------------------------------------------------------------------
(* The clauses are moved.                                                  *)

MoveStates == [tab : Seq(Int), n : Nat, at : Seq(Nat)]

\* The clauses that are moved, one after the other.
Ordering(order) ==
    /\ order \in Seq(Live) /\ Len(order) \in Nat
    /\ \A k \in 1..Len(order) : order[k] \in Live
    /\ \A j, k \in 1..Len(order) : j < k => order[j] < order[k]
    /\ \A i \in Live : \E k \in 1..Len(order) : order[k] = i

Size(i) == Len(Stored[i]) + 1

\* After the first k: they lie in n integers, and the rest is as it was.
GoodMove(order, k, m) ==
    /\ m \in MoveStates
    /\ Len(m.tab) = Len(table) /\ Len(m.at) = k /\ m.n <= Len(table)
    /\ \A x \in 1..Len(table) : x > m.n => m.tab[x] = table[x]
    /\ \A j \in 1..k : Placed(m.tab, m.at[j], Stored[order[j]]) /\ m.at[j] + Size(order[j]) <= m.n
    /\ \A i, j \in 1..k : i < j => m.at[i] + Size(order[i]) <= m.at[j]
    /\ \A j \in (k + 1)..Len(order) : m.n <= Place(order[j])

LEMMA OrderingFacts ==
    ASSUME StorageInv
    PROVE  Ordering(InOrder(Live))
<1> DEFINE order == InOrder(Live)
           c == Cardinality(Live)
<1>1. lastIndex \in Nat /\ Live \in SUBSET (1..lastIndex)
  <2>1. lastIndex \in Nat /\ Live \subseteq Indices /\ \A i \in Live : i <= lastIndex
    BY LivePlaces DEF StorageInv, TableTypeOK, ClausesLie
  <2>2. \A i \in Live : i \in Nat \ {0}
    BY <2>1, RowFacts
  <2> QED
    BY <2>1, <2>2
<1>2. /\ c \in Nat /\ order \in [1..c -> Live]
      /\ \A i, j \in 1..c : i < j => order[i] < order[j]
      /\ \A x \in Live : \E i \in 1..c : order[i] = x
  <2> HIDE DEF order, c
  <2> QED BY <1>1, InOrderFacts DEF order, c
<1> HIDE DEF order, c
<1>3. order \in Seq(Live) /\ Len(order) = c
  BY <1>2
<1>4. Ordering(order)
  BY <1>2, <1>3 DEF Ordering
<1> QED
  BY <1>4 DEF order

LEMMA ConcatZero ==
    ASSUME NEW c \in Literals
    PROVE  /\ Len(c \o <<0>>) = Len(c) + 1
           /\ \A k \in 1..Len(c) : (c \o <<0>>)[k] = c[k]
           /\ (c \o <<0>>)[Len(c) + 1] = 0
           /\ \A k \in 1..(Len(c) + 1) : (c \o <<0>>)[k] \in Int
<1>1. c \in Seq(Int) /\ Len(c) \in Nat /\ \A k \in 1..Len(c) : c[k] \in Int
  BY LiteralsFacts
<1>2. /\ Len(c \o <<0>>) = Len(c) + 1
      /\ \A k \in 1..Len(c) : (c \o <<0>>)[k] = c[k]
      /\ (c \o <<0>>)[Len(c) + 1] = 0
  BY <1>1
<1>3. ASSUME NEW k \in 1..(Len(c) + 1) PROVE (c \o <<0>>)[k] \in Int
  <2>1. CASE k = Len(c) + 1
    BY <1>2, <2>1
  <2>2. CASE k # Len(c) + 1
    <3>1. k \in 1..Len(c)
      BY <1>1, <2>2
    <3> QED
      BY <1>1, <1>2, <3>1
  <2> QED
    BY <2>1, <2>2
<1> QED
  BY <1>2, <1>3

\* What one move does to the array, when its clause lies at or after n.
LEMMA MoveFacts ==
    ASSUME NEW m \in MoveStates, NEW p, NEW c, Placed(m.tab, p, c), m.n <= p
    PROVE  LET q == MoveOne(m, p)
           IN  /\ q \in MoveStates /\ Len(q.tab) = Len(m.tab) /\ q.n = m.n + Len(c) + 1
               /\ q.at = Append(m.at, m.n) /\ Placed(q.tab, m.n, c)
               /\ \A x \in 1..Len(m.tab) : x <= m.n \/ x > q.n => q.tab[x] = m.tab[x]
<1> DEFINE w == c \o <<0>>
           l == Len(c)
           n == m.n
           t == m.tab
           L == Len(t)
           f(x) == IF x \in (n + 1)..(n + Len(w)) THEN w[x - n] ELSE t[x]
           tab == [x \in DOMAIN t |-> f(x)]
           q == MoveOne(m, p)
<1>1. /\ t \in Seq(Int) /\ n \in Nat /\ m.at \in Seq(Nat) /\ n <= p /\ L \in Nat /\ DOMAIN t = 1..L
      /\ p \in Nat /\ c \in Literals /\ p + l + 1 <= L
  BY DEF MoveStates, Placed
<1>2. /\ l \in Nat /\ Len(w) = l + 1
      /\ \A k \in 1..l : w[k] = c[k]
      /\ w[l + 1] = 0
      /\ \A k \in 1..(l + 1) : w[k] \in Int
  BY <1>1, LiteralsFacts, ConcatZero
<1>3. ReadAt(t, p) = c
  BY <1>1, ReadPlaced
<1>4. q = [tab |-> tab, n |-> n + Len(w), at |-> Append(m.at, n)]
  BY <1>3, Zenon DEF MoveOne
<1>5. \A x \in DOMAIN t : tab[x] = f(x)
  OBVIOUS
<1>6. DOMAIN tab = DOMAIN t
  OBVIOUS
<1> HIDE DEF w, l, n, t, L, tab, q
<1>7. ASSUME NEW x \in 1..L
      PROVE  /\ f(x) \in Int
             /\ (x <= n \/ x > n + l + 1) => f(x) = t[x]
             /\ x > n /\ x <= n + l + 1 => f(x) = w[x - n]
  <2>1. CASE x > n /\ x <= n + l + 1
    <3>1. x - n \in 1..(l + 1) /\ x \in (n + 1)..(n + Len(w)) /\ ~(x <= n) /\ ~(x > n + l + 1)
      BY <1>1, <1>2, <2>1
    <3>2. f(x) = w[x - n]
      BY <3>1
    <3> QED
      BY <1>2, <3>1, <3>2
  <2>2. CASE ~(x > n /\ x <= n + l + 1)
    <3>1. x \notin (n + 1)..(n + Len(w))
      BY <1>1, <1>2, <2>2
    <3>2. f(x) = t[x] /\ t[x] \in Int
      BY <1>1, <3>1
    <3> QED
      BY <2>2, <3>2
  <2> QED
    BY <2>1, <2>2
<1> HIDE DEF f
<1>8. tab \in Seq(Int) /\ Len(tab) = L
  <2>1. \A x \in 1..L : tab[x] \in Int
    BY <1>1, <1>5, <1>7
  <2>2. tab = [x \in 1..L |-> tab[x]]
    <3>1. tab = [x \in DOMAIN t |-> f(x)]
      BY Zenon DEF tab
    <3> QED
      BY <1>1, <1>5, <3>1
  <2>3. tab \in [1..L -> Int]
    BY <2>1, <2>2
  <2> QED
    BY <1>1, <2>3
<1>9. q \in MoveStates /\ q.tab = tab /\ q.n = n + l + 1 /\ q.at = Append(m.at, n)
  <2>1. n + Len(w) \in Nat /\ n + Len(w) = n + l + 1
    BY <1>1, <1>2
  <2>2. Append(m.at, n) \in Seq(Nat)
    BY <1>1
  <2>3. q.tab = tab /\ q.n = n + Len(w) /\ q.at = Append(m.at, n)
    BY <1>4
  <2>4. q \in MoveStates
    BY <1>4, <1>8, <2>1, <2>2 DEF MoveStates
  <2> QED BY <2>1, <2>3, <2>4
<1>10. Placed(tab, n, c)
  <2>1. n + l + 1 <= L
    BY <1>1, <1>2
  <2>2. ASSUME NEW k \in 1..(l + 1) PROVE tab[n + k] = w[k]
    <3>1. n + k \in 1..L /\ n + k > n /\ n + k <= n + l + 1 /\ n + k - n = k
      BY <1>1, <1>2, <2>1
    <3> DEFINE y == n + k
    <3>2. y \in 1..L /\ y > n /\ y <= n + l + 1 /\ y - n = k
      BY <1>1, <3>1
    <3> HIDE DEF y
    <3>3. f(y) = w[y - n]
      BY <1>7, <3>2
    <3>4. tab[y] = f(y)
      BY <1>1, <1>5, <3>2
    <3> QED
      BY <3>2, <3>3, <3>4 DEF y
  <2>3. \A k \in 1..l : tab[n + k] = c[k]
    BY <1>2, <2>2
  <2>4. tab[n + l + 1] = 0
    <3>1. l + 1 \in 1..(l + 1) /\ n + (l + 1) = n + l + 1
      BY <1>1, <1>2
    <3> QED
      BY <1>2, <2>2, <3>1
  <2> QED
    BY <1>1, <1>8, <2>1, <2>3, <2>4 DEF Placed, l
<1>11. \A x \in 1..L : (x <= n \/ x > q.n) => q.tab[x] = t[x]
  BY <1>1, <1>5, <1>7, <1>9
<1> QED
  BY <1>8, <1>9, <1>10, <1>11 DEF q, n, t, L, l

LEMMA AppendFacts ==
    ASSUME NEW s \in Seq(Nat), NEW x \in Nat
    PROVE  /\ Len(Append(s, x)) = Len(s) + 1 /\ Append(s, x)[Len(s) + 1] = x
           /\ \A j \in 1..Len(s) : Append(s, x)[j] = s[j] /\ s[j] \in Nat
OBVIOUS

LEMMA MoveStep ==
    ASSUME StorageInv, NEW order, Ordering(order), NEW k \in 1..Len(order), NEW m,
           GoodMove(order, k - 1, m)
    PROVE  GoodMove(order, k, MoveOne(m, getClause(order[k])))
<1> DEFINE i == order[k]
           p == Place(i)
           c == Stored[i]
           q == MoveOne(m, p)
           N == Len(order)
           T == Len(table)
           n == m.n
           t == m.tab
           l == Len(c)
           e == q.n
           u == q.tab
<1>1. /\ N \in Nat /\ \A j \in 1..N : order[j] \in Live
      /\ \A a, b \in 1..N : a < b => order[a] < order[b]
      /\ \A a, b \in Live : a < b => Place(a) + Size(a) <= Place(b)
      /\ \A a \in Live : Placed(table, Place(a), Stored[a]) /\ Size(a) \in Nat /\ Place(a) \in Nat /\ Place(a) = getClause(a)
      /\ table \in Seq(Int) /\ T \in Nat
  <2>1. TableTypeOK /\ ClausesLie
    BY DEF StorageInv
  <2>2. ASSUME NEW a \in Live
        PROVE  Placed(table, Place(a), Stored[a]) /\ Size(a) \in Nat /\ Place(a) \in Nat /\ Place(a) = getClause(a)
    <3>1. Placed(table, Place(a), Stored[a])
      BY <2>1 DEF ClausesLie
    <3>2. Len(Stored[a]) \in Nat /\ Place(a) \in Nat
      BY <3>1, LiteralsFacts DEF Placed
    <3> QED
      BY <2>1, <3>1, <3>2, LivePlaces DEF Size
  <2>3. \A a, b \in Live : a < b => Place(a) + Size(a) <= Place(b)
    <3>1. ASSUME NEW a \in Live, NEW b \in Live, a < b PROVE Place(a) + Size(a) <= Place(b)
      <4>1. Place(a) + Len(Stored[a]) + 1 <= Place(b)
        BY <2>1, <3>1 DEF ClausesLie
      <4>2. Len(Stored[a]) \in Nat /\ Place(a) \in Nat
        BY <2>2, LiteralsFacts DEF Placed
      <4> QED
        BY <4>1, <4>2 DEF Size
    <3> QED
      BY <3>1
  <2>4. table \in Seq(Int) /\ T \in Nat
    BY <2>1 DEF TableTypeOK
  <2> QED
    BY <2>2, <2>3, <2>4 DEF Ordering
<1>2. /\ m \in MoveStates /\ Len(t) = T /\ Len(m.at) = k - 1 /\ n <= T
      /\ \A x \in 1..T : x > n => t[x] = table[x]
      /\ \A j \in 1..(k - 1) : Placed(t, m.at[j], Stored[order[j]]) /\ m.at[j] + Size(order[j]) <= n
      /\ \A a, b \in 1..(k - 1) : a < b => m.at[a] + Size(order[a]) <= m.at[b]
      /\ n <= p
  <2>1. k \in (k - 1 + 1)..N
    BY <1>1
  <2> QED
    BY <2>1 DEF GoodMove
<1>3. i \in Live /\ Placed(table, p, c) /\ Size(i) = l + 1 /\ l \in Nat /\ p \in Nat
      /\ getClause(order[k]) = p /\ p + l + 1 <= T /\ n \in Nat /\ t \in Seq(Int)
  <2>1. i \in Live
    BY <1>1
  <2>2. Placed(table, p, c)
    BY <1>1, <2>1
  <2>3. l \in Nat
    BY <2>2, LiteralsFacts DEF Placed
  <2>4. n \in Nat /\ t \in Seq(Int)
    BY <1>2 DEF MoveStates
  <2> QED
    BY <1>1, <2>1, <2>2, <2>3, <2>4 DEF Size, Placed
<1> HIDE DEF i, p, c, N, T, n, t, l
<1>4. Placed(t, p, c)
  <2>1. p + l + 1 <= Len(t)
    BY <1>2, <1>3
  <2>2. \A x \in (p + 1)..(p + l + 1) : t[x] = table[x]
    <3>0. T \in Nat /\ p \in Nat /\ l \in Nat /\ n \in Nat /\ n <= p /\ p + l + 1 <= T
      BY <1>1, <1>2, <1>3
    <3>1. \A x \in (p + 1)..(p + l + 1) : x \in 1..T /\ x > n
      BY <3>0
    <3> QED
      BY <1>2, <3>1
  <2> QED
    BY <1>1, <1>3, <2>1, <2>2, StaysPlaced DEF l
<1>5. /\ q \in MoveStates /\ Len(u) = Len(t) /\ e = n + l + 1
      /\ q.at = Append(m.at, n) /\ Placed(u, n, c)
      /\ \A x \in 1..Len(t) : x <= n \/ x > e => u[x] = t[x]
  BY <1>2, <1>4, MoveFacts DEF n, t, l
<1> HIDE DEF q, e, u
<1>6. /\ Len(q.at) = k /\ q.at[k] = n /\ \A j \in 1..(k - 1) : q.at[j] = m.at[j] /\ m.at[j] \in Nat
  <2>1. m.at \in Seq(Nat) /\ k \in Nat
    BY <1>1, <1>2 DEF MoveStates
  <2>2. Len(m.at) = k - 1 /\ Len(m.at) + 1 = k
    BY <1>2, <2>1
  <2>3a. n \in Nat
    BY <1>3
  <2>3. Len(Append(m.at, n)) = Len(m.at) + 1 /\ Append(m.at, n)[Len(m.at) + 1] = n
        /\ \A j \in 1..Len(m.at) : Append(m.at, n)[j] = m.at[j] /\ m.at[j] \in Nat
    BY <2>1, <2>3a, AppendFacts
  <2> QED
    BY <1>5, <2>2, <2>3
<1>7. e <= T /\ e \in Nat /\ \A x \in 1..T : x > e => u[x] = table[x]
  <2>1. e <= p + l + 1 /\ e \in Nat /\ e >= n
    BY <1>2, <1>3, <1>5
  <2>2. e <= T
    BY <1>1, <1>3, <2>1
  <2>3. \A x \in 1..T : x > e => x > n
    BY <1>1, <1>3, <2>1
  <2> QED
    BY <1>2, <1>5, <2>1, <2>2, <2>3
<1>8. ASSUME NEW j \in 1..k PROVE Placed(u, q.at[j], Stored[order[j]]) /\ q.at[j] + Size(order[j]) <= e
  <2>1. CASE j = k
    <3>1. Stored[order[j]] = c /\ order[j] = i /\ q.at[j] = n
      BY <1>6, <2>1 DEF i, c
    <3>2. n + Size(i) <= e
      BY <1>3, <1>5
    <3> QED
      BY <1>5, <3>1, <3>2
  <2>2. CASE j # k
    <3>1. j \in 1..(k - 1)
      BY <1>1, <2>2
    <3> DEFINE d == Stored[order[j]]
               a == m.at[j]
    <3>2. Placed(t, a, d) /\ a + Size(order[j]) <= n /\ q.at[j] = a /\ Size(order[j]) = Len(d) + 1
      BY <1>2, <1>6, <3>1 DEF Size
    <3> HIDE DEF d, a
    <3>3. a \in Nat /\ Len(d) \in Nat
      BY <3>2, LiteralsFacts DEF Placed
    <3>4. a + Len(d) + 1 <= n
      BY <3>2, <3>3
    <3>5. \A x \in (a + 1)..(a + Len(d) + 1) : u[x] = t[x]
      <4>0. T \in Nat /\ n \in Nat /\ n <= T
        BY <1>1, <1>2, <1>3
      <4>1. \A x \in (a + 1)..(a + Len(d) + 1) : x \in 1..T /\ x <= n
        BY <3>3, <3>4, <4>0
      <4> QED
        BY <1>2, <1>5, <4>1
    <3>6. a + Len(d) + 1 <= Len(u)
      BY <1>1, <1>2, <1>3, <1>5, <3>3, <3>4
    <3>7. u \in Seq(Int)
      BY <1>5 DEF MoveStates, u
    <3>8. Placed(u, a, d)
      BY <1>3, <3>2, <3>5, <3>6, <3>7, StaysPlaced
    <3>9. a + Size(order[j]) <= e
      BY <1>3, <1>5, <3>2, <3>3
    <3> QED
      BY <3>2, <3>8, <3>9 DEF d
  <2> QED
    BY <2>1, <2>2
<1>9. ASSUME NEW a \in 1..k, NEW b \in 1..k, a < b PROVE q.at[a] + Size(order[a]) <= q.at[b]
  <2>1. a \in 1..(k - 1)
    BY <1>1, <1>9
  <2>2. CASE b = k
    BY <1>2, <1>6, <2>1, <2>2
  <2>3. CASE b # k
    <3>1. b \in 1..(k - 1)
      BY <1>1, <2>3
    <3> QED
      BY <1>2, <1>6, <1>9, <2>1, <3>1
  <2> QED
    BY <2>2, <2>3
<1>10. ASSUME NEW j \in (k + 1)..N PROVE e <= Place(order[j])
  <2>1. j \in 1..N /\ k \in 1..N /\ k < j
    BY <1>1 DEF N
  <2>2. order[j] \in Live /\ Place(i) + Size(i) <= Place(order[j]) /\ Place(order[j]) \in Nat
    BY <1>1, <1>3, <2>1 DEF i
  <2>3. e <= p + Size(i)
    BY <1>2, <1>3, <1>5
  <2>4. p + Size(i) <= Place(order[j]) /\ p + Size(i) \in Nat
    <3>1. Size(i) \in Nat /\ Place(i) \in Nat
      BY <1>1, <1>3
    <3>2. Place(i) + Size(i) \in Nat
      BY <3>1
    <3> QED
      BY <2>2, <3>2 DEF p
  <2> QED
    BY <1>7, <2>2, <2>3, <2>4
<1>11. GoodMove(order, k, q)
  <2>1. u = q.tab /\ e = q.n
    BY DEF u, e
  <2>2. /\ \A j \in 1..k : Placed(u, q.at[j], Stored[order[j]]) /\ q.at[j] + Size(order[j]) <= e
        /\ \A a, b \in 1..k : a < b => q.at[a] + Size(order[a]) <= q.at[b]
        /\ \A j \in (k + 1)..N : e <= Place(order[j])
    BY <1>8, <1>9, <1>10
  <2>3. Len(u) = T
    BY <1>2, <1>5
  <2> HIDE DEF q
  <2> QED
    BY <1>5, <1>6, <1>7, <2>1, <2>2, <2>3, Zenon DEF GoodMove, N, T
<1> QED
  BY <1>3, <1>11 DEF q

\* Where the moved clauses of a place in a bucket stand in the order.
Here(order, b, o) == {k \in DOMAIN order : Bucket(order[k]) = b /\ Offset(order[k]) = o}

Compressed(order, m) ==
    /\ table' = SubSeq(m.tab, 1, m.n)
    /\ clsList' = [b \in DOMAIN clsList |-> [o \in 0..(BUCKET - 1) |->
                     IF Here(order, b, o) = {} THEN clsList[b][o] ELSE m.at[CHOOSE k \in Here(order, b, o) : TRUE]]]
    /\ UNCHANGED <<topTable, inBucket, lastIndex>>

LEMMA MoveStarts ==
    ASSUME StorageInv, NEW order, Ordering(order)
    PROVE  GoodMove(order, 0, [tab |-> table, n |-> 0, at |-> <<>>])
<1> DEFINE m == [tab |-> table, n |-> 0, at |-> <<>>]
<1>1. /\ table \in Seq(Int) /\ Len(table) \in Nat /\ Len(order) \in Nat
      /\ \A i \in Live : Placed(table, Place(i), Stored[i])
      /\ \A k \in 1..Len(order) : order[k] \in Live
  BY DEF StorageInv, TableTypeOK, ClausesLie, Ordering
<1>2. m \in MoveStates /\ m.tab = table /\ m.n = 0 /\ m.at = <<>> /\ Len(<<>>) = 0
  BY <1>1 DEF MoveStates
<1> HIDE DEF m
<1>3. \A j \in (0 + 1)..Len(order) : 0 <= Place(order[j])
  <2>1. ASSUME NEW j \in (0 + 1)..Len(order) PROVE 0 <= Place(order[j])
    <3>1. j \in 1..Len(order)
      OBVIOUS
    <3>2. Place(order[j]) \in Nat
      BY <1>1, <3>1 DEF Placed
    <3> QED
      BY <3>2
  <2> QED
    BY <2>1
<1>4. \A j : j \notin 1..0
  OBVIOUS
<1> QED
  BY <1>1, <1>2, <1>3, <1>4 DEF GoodMove, m

LEMMA CompressUnfolded ==
    ASSUME StorageInv, compress
    PROVE  \E order, m : Ordering(order) /\ GoodMove(order, Len(order), m) /\ Compressed(order, m)
<1> DEFINE order == InOrder(Live)
           n == Len(order)
           start == [tab |-> table, n |-> 0, at |-> <<>>]
           next(k, m) == MoveOne(m, getClause(order[k]))
           G == [k \in 1..n |-> [m \in MoveStates |-> IF GoodMove(order, k - 1, m) THEN next(k, m) ELSE m]]
           R(f) == f = [k \in 0..n |-> IF k = 0 THEN start ELSE next(k, f[k - 1])]
           move == CHOOSE f : R(f)
           end == move[n]
<1>1. /\ table' = SubSeq(end.tab, 1, end.n)
      /\ clsList' = [b \in DOMAIN clsList |-> [o \in 0..(BUCKET - 1) |->
                       IF Here(order, b, o) = {} THEN clsList[b][o] ELSE end.at[CHOOSE k \in Here(order, b, o) : TRUE]]]
      /\ topTable' = topTable /\ inBucket' = inBucket /\ lastIndex' = lastIndex
  BY Zenon DEF compress, Here
<1> HIDE DEF order
<1>2. Ordering(order) /\ n \in Nat
  BY OrderingFacts DEF order, Ordering
<1>3. start \in MoveStates /\ GoodMove(order, 0, start)
  <2>1. GoodMove(order, 0, start)
    BY <1>2, MoveStarts
  <2> HIDE DEF start
  <2> QED BY <2>1 DEF GoodMove
<1> HIDE DEF n, start, next
<1>4. \A k \in 1..n : \A m : GoodMove(order, k - 1, m) => GoodMove(order, k, next(k, m))
  BY <1>2, MoveStep DEF n, next
<1>5. \A k, m : GoodMove(order, k, m) => m \in MoveStates
  BY DEF GoodMove
<1>6. G \in StepsOf(n, MoveStates)
  <2>1. ASSUME NEW k \in 1..n, NEW m \in MoveStates
        PROVE  (IF GoodMove(order, k - 1, m) THEN next(k, m) ELSE m) \in MoveStates
    BY <1>4, <1>5
  <2> QED
    BY <2>1 DEF StepsOf
<1>7. PICK f \in [0..n -> MoveStates] : f[0] = start /\ \A k \in 1..n : f[k] = G[k][f[k - 1]]
  <2> HIDE DEF G, R, move
  <2> QED BY <1>2, <1>3, <1>6, StepByStep
<1>8. ASSUME NEW k \in 1..n, GoodMove(order, k - 1, f[k - 1])
      PROVE  f[k] = next(k, f[k - 1])
  <2>1. f[k - 1] \in MoveStates
    BY <1>5, <1>8
  <2> QED
    BY <1>7, <1>8, <2>1
<1>9. \A k \in 0..n : GoodMove(order, k, f[k])
  <2> DEFINE P == {k \in 0..n : GoodMove(order, k, f[k])}
  <2>1. 0 \in P
    BY <1>2, <1>3, <1>7
  <2>2. ASSUME NEW k \in 1..n, k - 1 \in P PROVE k \in P
    <3>1. GoodMove(order, k - 1, f[k - 1])
      BY <2>2
    <3>2. GoodMove(order, k, next(k, f[k - 1]))
      BY <1>4, <3>1
    <3>3. f[k] = next(k, f[k - 1])
      BY <1>8, <3>1
    <3>4. k \in 0..n
      BY <1>2
    <3> QED
      BY <3>2, <3>3, <3>4
  <2> HIDE DEF P
  <2>3. \A k \in 0..n : k \in P
    BY <1>2, <2>1, <2>2, UpTo
  <2> QED
    BY <2>3 DEF P
<1>10. R(f)
  <2>1. \A k \in 1..n : f[k] = next(k, f[k - 1])
    <3>1. \A k \in 1..n : k - 1 \in 0..n
      BY <1>2
    <3> QED
      BY <1>8, <1>9, <3>1
  <2> HIDE DEF G
  <2> QED BY <1>2, <1>7, <2>1
<1>11. R(move)
  <2> HIDE DEF R
  <2> QED BY <1>10
<1>12. move[0] = start /\ \A k \in 1..n : move[k] = next(k, move[k - 1])
  <2> HIDE DEF move
  <2>1. move = [k \in 0..n |-> IF k = 0 THEN start ELSE next(k, move[k - 1])]
    BY <1>11
  <2>2. move[0] = start
    BY <1>2, <2>1
  <2>3. ASSUME NEW k \in 1..n PROVE move[k] = next(k, move[k - 1])
    <3>1. k \in 0..n /\ k # 0
      BY <1>2
    <3> QED
      BY <2>1, <3>1
  <2> QED BY <2>2, <2>3
<1> HIDE DEF move
<1>13. \A k \in 0..n : GoodMove(order, k, move[k])
  <2> DEFINE P == {k \in 0..n : GoodMove(order, k, move[k])}
  <2>1. 0 \in P
    BY <1>2, <1>3, <1>12
  <2>2. ASSUME NEW k \in 1..n, k - 1 \in P PROVE k \in P
    <3>1. GoodMove(order, k - 1, move[k - 1])
      BY <2>2
    <3>2. GoodMove(order, k, next(k, move[k - 1]))
      BY <1>4, <3>1
    <3>3. move[k] = next(k, move[k - 1])
      BY <1>12
    <3>4. k \in 0..n
      BY <1>2
    <3> QED
      BY <3>2, <3>3, <3>4
  <2> HIDE DEF P
  <2>3. \A k \in 0..n : k \in P
    BY <1>2, <2>1, <2>2, UpTo
  <2> QED
    BY <2>3 DEF P
<1>14. GoodMove(order, n, end)
  <2>1. n \in 0..n
    BY <1>2
  <2> QED
    BY <1>13, <2>1
<1> HIDE DEF end
<1>15. Compressed(order, end)
  BY <1>1, Zenon DEF Compressed
<1> QED
  BY <1>2, <1>14, <1>15 DEF n

\* Where the bucket of a live clause is.
LEMMA LiveBucket ==
    ASSUME StorageInv, NEW i \in Live
    PROVE  /\ i \in Indices /\ i \in Nat /\ Row(i) \in 0..(Tops - 1) /\ Offset(i) \in 0..(BUCKET - 1)
           /\ Bucket(i) = topTable[Row(i)] /\ Bucket(i) \in 0..(Old - 1) /\ Bucket(i) # -1
           /\ clsList[Bucket(i)][Offset(i)] = Place(i) /\ Place(i) \in Nat
<1>1. TableTypeOK /\ Placed(table, Place(i), Stored[i])
  BY DEF StorageInv, ClausesLie
<1>2. i \in Indices /\ Place(i) # -1 /\ Place(i) \in Nat
  BY <1>1, LivePlaces DEF Placed
<1>3. Row(i) \in DOMAIN topTable /\ topTable[Row(i)] # -1 /\ Place(i) = clsList[topTable[Row(i)]][Offset(i)]
  BY <1>2 DEF Place, DELETED
<1>4. Bucket(i) = topTable[Row(i)]
  BY DEF Bucket, Row
<1>5. i \in Nat /\ Offset(i) \in 0..(BUCKET - 1)
  BY <1>2, RowFacts
<1>6. Row(i) \in 0..(Tops - 1)
  BY <1>1, <1>3, Exact
<1>7. topTable[Row(i)] \in -1..(Old - 1) /\ Old \in Nat
  BY <1>1, <1>6 DEF TableTypeOK
<1>8. topTable[Row(i)] \in 0..(Old - 1)
  BY <1>3, <1>7
<1> QED
  BY <1>2, <1>3, <1>4, <1>5, <1>6, <1>8

\* A place in a bucket is that of one clause.
LEMMA HereOne ==
    ASSUME StorageInv, NEW order, Ordering(order), NEW k \in 1..Len(order)
    PROVE  Here(order, Bucket(order[k]), Offset(order[k])) = {k}
<1> DEFINE i == order[k]
<1>1. Len(order) \in Nat /\ DOMAIN order = 1..Len(order) /\ \A j \in 1..Len(order) : order[j] \in Live
  BY DEF Ordering
<1>2. ASSUME NEW j \in 1..Len(order), Bucket(order[j]) = Bucket(i), Offset(order[j]) = Offset(i)
      PROVE  j = k
  <2>1. i \in Live /\ order[j] \in Live
    BY <1>1
  <2>2. /\ i \in Nat /\ order[j] \in Nat /\ Row(i) \in 0..(Tops - 1) /\ Row(order[j]) \in 0..(Tops - 1)
        /\ Bucket(i) = topTable[Row(i)] /\ Bucket(order[j]) = topTable[Row(order[j])] /\ Bucket(i) # -1
    BY <2>1, LiveBucket
  <2> HIDE DEF i
  <2>3. Row(order[j]) = Row(i)
    <3>1. DOMAIN topTable = 0..(Tops - 1)
      BY Exact DEF StorageInv
    <3> QED
      BY <1>2, <2>2, <3>1 DEF StorageInv, BucketsExact
  <2>4. order[j] = order[k]
    BY <1>2, <2>2, <2>3, RowFacts DEF i
  <2>5. order[k] \in Nat
    BY <2>2 DEF i
  <2>6. \A a, b \in 1..Len(order) : a < b => order[a] < order[b]
    BY DEF Ordering
  <2>7. ~(order[j] < order[k]) /\ ~(order[k] < order[j])
    BY <2>4, <2>5
  <2>8. ~(j < k) /\ ~(k < j)
    BY <2>6, <2>7, Zenon
  <2> QED
    BY <1>1, <2>8
<1> QED
  BY <1>1, <1>2 DEF Here

LEMMA CompressCells ==
    ASSUME StorageInv, NEW order, NEW m, Ordering(order), GoodMove(order, Len(order), m), Compressed(order, m)
    PROVE  /\ DOMAIN clsList' = 0..(Old - 1) /\ \A b \in 0..(Old - 1) : DOMAIN clsList'[b] = 0..(BUCKET - 1)
           /\ \A b \in 0..(Old - 1), o \in 0..(BUCKET - 1) :
                 clsList'[b][o] \in Nat \cup {-1} /\ (clsList'[b][o] # -1 <=> clsList[b][o] # -1)
           /\ \A k \in 1..Len(order) : clsList'[Bucket(order[k])][Offset(order[k])] = m.at[k]
<1>1. Len(order) \in Nat /\ DOMAIN order = 1..Len(order) /\ \A j \in 1..Len(order) : order[j] \in Live
  BY DEF Ordering
<1>2. /\ clsList \in [0..(Old - 1) -> [0..(BUCKET - 1) -> Nat \cup {-1}]] /\ Old \in Nat
  BY DEF StorageInv, TableTypeOK
<1>3. clsList' = [b \in DOMAIN clsList |-> [o \in 0..(BUCKET - 1) |->
                     IF Here(order, b, o) = {} THEN clsList[b][o] ELSE m.at[CHOOSE k \in Here(order, b, o) : TRUE]]]
  BY DEF Compressed
<1>4. \A k \in 1..Len(order) : m.at[k] \in Nat
  BY <1>1 DEF GoodMove, MoveStates
<1>5. ASSUME NEW b \in 0..(Old - 1), NEW o \in 0..(BUCKET - 1)
      PROVE  clsList'[b][o] = IF Here(order, b, o) = {} THEN clsList[b][o]
                              ELSE m.at[CHOOSE k \in Here(order, b, o) : TRUE]
  BY <1>2, <1>3
<1>6. ASSUME NEW b \in 0..(Old - 1), NEW o \in 0..(BUCKET - 1)
      PROVE  clsList'[b][o] \in Nat \cup {-1} /\ (clsList'[b][o] # -1 <=> clsList[b][o] # -1)
  <2>1. CASE Here(order, b, o) = {}
    BY <1>2, <1>5, <2>1
  <2>2. CASE Here(order, b, o) # {}
    <3> DEFINE k == CHOOSE k \in Here(order, b, o) : TRUE
    <3>1. k \in Here(order, b, o)
      BY <2>2
    <3>2. clsList'[b][o] = m.at[k]
      BY <1>5, <2>2
    <3> HIDE DEF k
    <3>3. k \in 1..Len(order) /\ Bucket(order[k]) = b /\ Offset(order[k]) = o
      BY <1>1, <3>1 DEF Here
    <3>4. clsList[b][o] \in Nat
      BY <1>1, <3>3, LiveBucket
    <3>5. m.at[k] \in Nat
      BY <1>4, <3>3
    <3> QED
      BY <3>2, <3>4, <3>5
  <2> QED
    BY <2>1, <2>2
<1>7. ASSUME NEW k \in 1..Len(order)
      PROVE  clsList'[Bucket(order[k])][Offset(order[k])] = m.at[k]
  <2> DEFINE b == Bucket(order[k])
             o == Offset(order[k])
  <2>1. Here(order, b, o) = {k}
    BY HereOne
  <2>2. b \in 0..(Old - 1) /\ o \in 0..(BUCKET - 1)
    BY <1>1, LiveBucket
  <2> HIDE DEF b, o
  <2>3. clsList'[b][o] = IF {k} = {} THEN clsList[b][o] ELSE m.at[CHOOSE j \in {k} : TRUE]
    <3>1. clsList'[b][o] = IF Here(order, b, o) = {} THEN clsList[b][o]
                           ELSE m.at[CHOOSE j \in Here(order, b, o) : TRUE]
      BY <1>5, <2>2, Zenon
    <3> HIDE DEF Here
    <3> QED
      BY <2>1, <3>1, Zenon
  <2>4. (CHOOSE j \in {k} : TRUE) = k
    OBVIOUS
  <2>5. clsList'[b][o] = m.at[k]
    <3>1. {k} # {}
      OBVIOUS
    <3> QED
      BY <2>3, <2>4, <3>1, Zenon
  <2> QED
    BY <2>5 DEF b, o
<1>8. DOMAIN clsList' = 0..(Old - 1) /\ \A b \in 0..(Old - 1) : DOMAIN clsList'[b] = 0..(BUCKET - 1)
  BY <1>2, <1>3
<1> QED
  BY <1>6, <1>7, <1>8

\* What lies in the part that is kept lies there afterwards.
LEMMA KeptPlaced ==
    ASSUME NEW tab \in Seq(Int), NEW n \in Nat, n <= Len(tab)
    PROVE  /\ SubSeq(tab, 1, n) \in Seq(Int)
           /\ \A p, c : Placed(tab, p, c) /\ p + Len(c) + 1 <= n => Placed(SubSeq(tab, 1, n), p, c)
<1> DEFINE new == SubSeq(tab, 1, n)
<1>1. new \in Seq(Int) /\ Len(new) = n /\ \A k \in 1..n : new[k] = tab[k]
  <2>1. \A k \in 1..n : tab[k] \in Int
    BY LenProperties
  <2> QED
    BY <2>1, SubSeqProperties
<1> HIDE DEF new
<1>2. ASSUME NEW p, NEW c, Placed(tab, p, c), p + Len(c) + 1 <= n PROVE Placed(new, p, c)
  <2>1. p \in Nat /\ Len(c) \in Nat
    BY <1>2, LiteralsFacts DEF Placed
  <2>2. \A k \in (p + 1)..(p + Len(c) + 1) : k \in 1..n
    BY <1>2, <2>1
  <2> QED
    BY <1>1, <1>2, <2>2, StaysPlaced
<1> QED
  BY <1>1, <1>2 DEF new

LEMMA CompressRight ==
    ASSUME StorageInv, compress
    PROVE  StorageInv' /\ Stored' = Stored
<1>1. PICK order, m : Ordering(order) /\ GoodMove(order, Len(order), m) /\ Compressed(order, m)
  BY CompressUnfolded
<1> DEFINE N == Len(order)
<1>2. /\ N \in Nat /\ \A k \in 1..N : order[k] \in Live
      /\ \A j, k \in 1..N : j < k => order[j] < order[k]
      /\ \A i \in Live : \E k \in 1..N : order[k] = i
  BY <1>1 DEF Ordering
<1>3. TableTypeOK /\ BucketsExact /\ SlotsOwned /\ ClausesLie
  BY DEF StorageInv
<1>4. topTable' = topTable /\ inBucket' = inBucket /\ lastIndex' = lastIndex /\ table' = SubSeq(m.tab, 1, m.n)
  BY <1>1 DEF Compressed
<1>5. /\ DOMAIN clsList' = 0..(Old - 1) /\ \A b \in 0..(Old - 1) : DOMAIN clsList'[b] = 0..(BUCKET - 1)
      /\ \A b \in 0..(Old - 1), o \in 0..(BUCKET - 1) :
            clsList'[b][o] \in Nat \cup {-1} /\ (clsList'[b][o] # -1 <=> clsList[b][o] # -1)
      /\ \A k \in 1..N : clsList'[Bucket(order[k])][Offset(order[k])] = m.at[k]
  BY <1>1, CompressCells
<1>6. /\ m.tab \in Seq(Int) /\ m.n \in Nat /\ m.n <= Len(m.tab)
      /\ \A k \in 1..N : Placed(m.tab, m.at[k], Stored[order[k]]) /\ m.at[k] + Size(order[k]) <= m.n
      /\ \A j, k \in 1..N : j < k => m.at[j] + Size(order[j]) <= m.at[k]
  BY <1>1 DEF GoodMove, MoveStates
<1> HIDE DEF N
<1>7. table' \in Seq(Int) /\ \A k \in 1..N : Placed(table', m.at[k], Stored[order[k]])
  <2>1. ASSUME NEW k \in 1..N PROVE m.at[k] + Len(Stored[order[k]]) + 1 <= m.n
    <3> DEFINE l == Len(Stored[order[k]])
               a == m.at[k]
               e == m.n
    <3>1. Stored[order[k]] \in Literals /\ a \in Nat /\ e \in Nat
      BY <1>6 DEF Placed
    <3>2. l \in Nat
      BY <3>1, LiteralsFacts
    <3>3. a + (l + 1) <= e
      BY <1>6 DEF Size
    <3> HIDE DEF l, a, e
    <3>4. a + l + 1 <= e
      BY <3>1, <3>2, <3>3
    <3> QED
      BY <3>4 DEF l, a, e
  <2> QED
    BY <1>4, <1>6, <2>1, KeptPlaced
<1>8. Tops' = Tops /\ Old' = Old /\ Row(lastIndex)' = Row(lastIndex)
  BY <1>4 DEF Tops, Old, Row
<1>9. TableTypeOK'
  <2>1. clsList' \in [0..(Old - 1) -> [0..(BUCKET - 1) -> Nat \cup {-1}]]
    <3>1. clsList' = [b \in 0..(Old - 1) |-> [o \in 0..(BUCKET - 1) |-> clsList'[b][o]]]
      <4>1. clsList' = [b \in 0..(Old - 1) |-> clsList'[b]]
        BY <1>1, <1>5, Zenon DEF Compressed
      <4>2. ASSUME NEW b \in 0..(Old - 1) PROVE clsList'[b] = [o \in 0..(BUCKET - 1) |-> clsList'[b][o]]
        <5>1. b \in DOMAIN clsList
          BY <1>3, Exact
        <5>2. clsList'[b] = [o \in 0..(BUCKET - 1) |->
                     IF Here(order, b, o) = {} THEN clsList[b][o] ELSE m.at[CHOOSE k \in Here(order, b, o) : TRUE]]
          BY <1>1, <5>1 DEF Compressed
        <5> QED
          BY <5>2
      <4> QED
        BY <4>1, <4>2
    <3> QED
      BY <1>5, <3>1
  <2> QED
    BY <1>3, <1>4, <1>7, <1>8, <2>1 DEF TableTypeOK
<1>10. BucketsExact'
  <2>1. \A b \in DOMAIN inBucket' : inBucket'[b] = Cardinality({o \in DOMAIN clsList'[b] : clsList'[b][o] # DELETED})
    <3>1. ASSUME NEW b \in 0..(Old - 1)
          PROVE  inBucket[b] = Cardinality({o \in DOMAIN clsList'[b] : clsList'[b][o] # DELETED})
      <4>1. {o \in DOMAIN clsList'[b] : clsList'[b][o] # DELETED} = InUse(b)
        BY <1>5 DEF InUse, DELETED
      <4>2. b \in DOMAIN inBucket /\ InUse(b) = {o \in DOMAIN clsList[b] : clsList[b][o] # DELETED}
        BY <1>3, Exact
      <4>3. inBucket[b] = Cardinality({o \in DOMAIN clsList[b] : clsList[b][o] # DELETED})
        BY <1>3, <4>2, Zenon DEF BucketsExact
      <4> QED
        BY <4>1, <4>2, <4>3
    <3>2. DOMAIN inBucket = 0..(Old - 1)
      BY <1>3, Exact
    <3> QED
      BY <1>4, <3>1, <3>2
  <2> QED
    BY <1>3, <1>4, <2>1 DEF BucketsExact
<1>11. SlotsOwned'
  <2>1. ASSUME NEW r \in 0..(Tops - 1), NEW o \in 0..(BUCKET - 1), topTable[r] # -1, clsList'[topTable[r]][o] # -1
        PROVE  \E i \in Indices : i <= lastIndex /\ Row(i) = r /\ Offset(i) = o
    <3>1. topTable[r] \in 0..(Old - 1)
      <4>1. topTable[r] \in -1..(Old - 1) /\ Old \in Nat
        BY <1>3 DEF TableTypeOK
      <4> QED
        BY <2>1, <4>1
    <3>2. clsList[topTable[r]][o] # -1
      BY <1>5, <2>1, <3>1
    <3> QED
      BY <1>3, <2>1, <3>2 DEF SlotsOwned
  <2> QED
    BY <1>4, <1>8, <2>1 DEF SlotsOwned, Row, Offset
<1>12. ASSUME NEW i \in Indices
       PROVE  Place(i)' = IF Row(i) \in DOMAIN topTable /\ topTable[Row(i)] # -1
                          THEN clsList'[topTable[Row(i)]][Offset(i)] ELSE -1
  BY <1>4 DEF Place, DELETED, Row, Offset
<1>13. ASSUME NEW k \in 1..N PROVE order[k] \in Indices /\ Place(order[k])' = m.at[k] /\ m.at[k] \in Nat
  <2>1. /\ order[k] \in Indices /\ Row(order[k]) \in 0..(Tops - 1) /\ Bucket(order[k]) = topTable[Row(order[k])]
        /\ Bucket(order[k]) # -1
    BY <1>2, LiveBucket
  <2>2. m.at[k] \in Nat
    BY <1>6 DEF Placed
  <2>3. DOMAIN topTable = 0..(Tops - 1)
    BY <1>3, Exact
  <2> QED
    BY <1>5, <1>12, <2>1, <2>2, <2>3
<1>14. ASSUME NEW i \in Indices, i \notin Live PROVE Place(i)' = -1
  <2>1. Place(i) = -1
    BY <1>3, <1>14, LivePlaces
  <2>2. CASE Row(i) \in DOMAIN topTable /\ topTable[Row(i)] # -1
    <3>1. clsList[topTable[Row(i)]][Offset(i)] = -1
      BY <2>1, <2>2 DEF Place
    <3>2. topTable[Row(i)] \in 0..(Old - 1)
      <4>1. topTable[Row(i)] \in -1..(Old - 1) /\ Old \in Nat
        BY <1>3, <2>2 DEF TableTypeOK
      <4> QED
        BY <2>2, <4>1
    <3>3. Offset(i) \in 0..(BUCKET - 1)
      BY RowFacts
    <3> QED
      BY <1>5, <1>12, <2>2, <3>1, <3>2, <3>3
  <2>3. CASE ~(Row(i) \in DOMAIN topTable /\ topTable[Row(i)] # -1)
    BY <1>12, <2>3
  <2> QED
    BY <2>2, <2>3
<1>15. Live \subseteq Indices
  BY <1>3, LivePlaces
<1>16. Live' = Live
  <2>1. ASSUME NEW i \in Live PROVE Place(i)' # -1
    <3>1. PICK k \in 1..N : order[k] = i
      BY <1>2
    <3>2. Place(order[k])' = m.at[k] /\ m.at[k] \in Nat
      BY <1>13
    <3>3. Place(i)' = m.at[k]
      BY <3>1, <3>2 DEF Place, Row, Offset
    <3> QED
      BY <3>2, <3>3
  <2>2. Live' = {i \in Indices : Place(i)' # -1}
    BY LivePlacesAfter
  <2> QED
    BY <1>14, <1>15, <2>1, <2>2
<1>17. ASSUME NEW i \in Live
       PROVE  /\ \E k \in 1..N : order[k] = i /\ Place(i)' = m.at[k]
              /\ Placed(table', Place(i)', Stored[i]) /\ Stored'[i] = Stored[i]
  <2>1. PICK k \in 1..N : order[k] = i
    BY <1>2
  <2>2. Place(order[k])' = m.at[k]
    BY <1>13
  <2>3. Place(i)' = m.at[k]
    BY <2>1, <2>2 DEF Place, Row, Offset
  <2>4. Placed(table', Place(i)', Stored[i])
    BY <1>7, <2>1, <2>3
  <2>5. Stored'[i] = ReadAt(table', Place(i)')
    BY <1>16, LivePlacesAfter
  <2>6. Stored'[i] = Stored[i]
    BY <1>7, <2>4, <2>5, ReadPlaced
  <2> QED
    BY <2>1, <2>3, <2>4, <2>6
<1>18. ClausesLie'
  <2>1. \A i \in Live' : i <= lastIndex' /\ Placed(table', Place(i)', Stored'[i])
    BY <1>3, <1>4, <1>16, <1>17 DEF ClausesLie
  <2>2. ASSUME NEW i \in Live', NEW j \in Live', i < j
        PROVE  Place(i)' + Len(Stored'[i]) + 1 <= Place(j)'
    <3>0. i \in Live /\ j \in Live /\ i \in Nat /\ j \in Nat
      BY <1>15, <1>16, RowFacts
    <3>1. PICK a \in 1..N : order[a] = i /\ Place(i)' = m.at[a]
      BY <1>17, <3>0
    <3>2. PICK b \in 1..N : order[b] = j /\ Place(j)' = m.at[b]
      BY <1>17, <3>0
    <3>3. a < b
      <4>1. a # b /\ ~(b < a)
        BY <1>2, <2>2, <3>0, <3>1, <3>2
      <4> QED
        BY <1>2, <4>1
    <3>4. m.at[a] + Size(order[a]) <= m.at[b]
      BY <1>6, <3>3
    <3>5. Len(Stored[i]) \in Nat /\ m.at[a] \in Nat /\ m.at[b] \in Nat /\ Stored'[i] = Stored[i]
      BY <1>13, <1>17, <3>0, LiteralsFacts DEF Placed
    <3>6. m.at[a] + (Len(Stored[i]) + 1) <= m.at[b]
      BY <3>1, <3>4 DEF Size
    <3>7. m.at[a] + Len(Stored[i]) + 1 <= m.at[b]
      <4> DEFINE x == m.at[a]
                 y == m.at[b]
                 l == Len(Stored[i])
      <4>1. x \in Nat /\ y \in Nat /\ l \in Nat /\ x + (l + 1) <= y
        BY <3>5, <3>6
      <4> HIDE DEF x, y, l
      <4>2. x + l + 1 <= y
        BY <4>1
      <4> QED
        BY <4>2 DEF x, y, l
    <3> QED
      BY <3>1, <3>2, <3>5, <3>7
  <2> QED
    BY <2>1, <2>2 DEF ClausesLie
<1>19. Stored' = Stored
  <2>1. Stored' = [i \in Live' |-> Stored'[i]] /\ Stored = [i \in Live |-> Stored[i]]
    BY DEF Stored
  <2> QED
    BY <1>16, <1>17, <2>1
<1> QED
  BY <1>9, <1>10, <1>11, <1>18, <1>19 DEF StorageInv

-----------------------------------------------------------------------------
(* The theorems.                                                           *)

LEMMA StorageStep ==
    ASSUME StorageInv, [StorageNext]_storageVars
    PROVE  StorageInv' /\ [Store!Next]_Stored
<1>1. CASE compress
  BY <1>1, CompressRight
<1>2. CASE \E i \in Indices : deleteClause(i) \/ \E c \in Clauses : addClause(i, c)
  <2>1. PICK i \in Indices : deleteClause(i) \/ \E c \in Clauses : addClause(i, c)
    BY <1>2
  <2>2. CASE deleteClause(i)
    BY <2>2, DeleteRight DEF Store!Next
  <2>3. CASE \E c \in Clauses : addClause(i, c)
    BY <2>3, AddRight DEF Store!Next
  <2> QED
    BY <2>1, <2>2, <2>3
<1>3. CASE UNCHANGED storageVars
  <2>1. /\ topTable' = topTable /\ inBucket' = inBucket /\ clsList' = clsList /\ table' = table
        /\ lastIndex' = lastIndex
    BY <1>3 DEF storageVars
  <2>2. /\ Tops' = Tops /\ Old' = Old /\ Live' = Live /\ Stored' = Stored /\ BucketsExact' = BucketsExact
        /\ \A i : (Row(i)' = Row(i)) /\ Place(i)' = Place(i) /\ Offset(i)' = Offset(i)
    BY <2>1 DEF Tops, Old, Live, Stored, getClause, Known, Bucket, Offset, Row, Place, BucketsExact
  <2>3. TableTypeOK' /\ SlotsOwned' /\ ClausesLie' /\ BucketsExact'
    BY <2>1, <2>2 DEF StorageInv, TableTypeOK, SlotsOwned, ClausesLie, Row, Offset
  <2> QED
    BY <2>2, <2>3 DEF StorageInv
<1> QED
  BY <1>1, <1>2, <1>3 DEF StorageNext

\* The invariant of the storage: the buckets are exact, a place in a bucket is
\* that of an index that was added, and the clauses lie one after the other in
\* the order of their indices, each closed by its own 0 and over by where the next starts.
THEOREM StorageInvariant == StorageSpec => []StorageInv
<1>1. StorageInit => StorageInv
  BY InitRight
<1>2. StorageInv /\ [StorageNext]_storageVars => StorageInv'
  BY StorageStep
<1> QED
  BY <1>1, <1>2, PTL DEF StorageSpec

\* addClause, deleteClause and compress keep the buckets exact: no two ranges of
\* indices share one, its counter is the number of its clauses, and it is in the
\* top table as long as it has any.
THEOREM BucketsStayExact == StorageSpec => []BucketsExact
<1>1. StorageInv => BucketsExact
  BY DEF StorageInv
<1> QED
  BY <1>1, StorageInvariant, PTL

\* The storage implements the abstract one (ClauseStore): every index that was
\* added and not deleted is found with its own literals, wherever compress has
\* moved them.
THEOREM StorageKeepsClauses == StorageSpec => KeepsClauses
<1>1. StorageInit => StorageInv /\ Store!Init
  BY InitRight DEF Store!Init
<1>2. StorageInv /\ [StorageNext]_storageVars => StorageInv' /\ [Store!Next]_Stored
  BY StorageStep
<1> QED
  BY <1>1, <1>2, PTL DEF StorageSpec, KeepsClauses, Store!Spec
=============================================================================
