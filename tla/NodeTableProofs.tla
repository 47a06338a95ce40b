--------------------------- MODULE NodeTableProofs ---------------------------
(***************************************************************************)
(* Theorems about the node table of kernel.c: every node is in its chain   *)
(* and every other entry in the free list, and a node that can be reached  *)
(* keeps its id and its children, for every size of the table.             *)
(***************************************************************************)
EXTENDS NodeTable, FiniteSetTheorems, Counting

-----------------------------------------------------------------------------
(* Lists: a head and the field next.                                       *)

\* rank is how many members there are from an entry to the end of the list.
Ranked(tab, S, head, rank) ==
    /\ rank \in [S -> 1..Cardinality(S)]
    /\ \A m, n \in S : rank[m] = rank[n] => m = n
    /\ \A n \in S : IF rank[n] = 1 THEN tab[n].next = 0
                    ELSE tab[n].next \in S /\ rank[tab[n].next] = rank[n] - 1
    /\ IF S = {} THEN head = 0 ELSE head \in S /\ rank[head] = Cardinality(S)
ListOf(tab, S, head) == \E rank : Ranked(tab, S, head, rank)

\* Following next from the head, n times.
Walk(tab, head, n, at) ==
    at = [k \in 0..n |-> IF k = 0 THEN head ELSE IF at[k - 1] = 0 THEN 0 ELSE tab[at[k - 1]].next]

LEMMA WalkExists ==
    ASSUME NEW tab, NEW S, NEW head, ListOf(tab, S, head), NEW n \in Nat
    PROVE  \E at : Walk(tab, head, n, at)
<1> DEFINE F == [x \in S \cup {0} |-> IF x = 0 THEN 0 ELSE tab[x].next]
<1>1. head \in S \cup {0} /\ \A x \in S : tab[x].next \in S \cup {0}
  BY DEF ListOf, Ranked
<1>2. F \in [S \cup {0} -> S \cup {0}]
  BY <1>1
<1>3. PICK r : Repeats(r, S \cup {0}, head, n, F)
  <2> HIDE DEF F
  <2> QED BY <1>1, <1>2, RecursiveFunction
<1>4. \A k \in 1..n : F[r[k - 1]] = IF r[k - 1] = 0 THEN 0 ELSE tab[r[k - 1]].next
  <2>1. \A k \in 1..n : r[k - 1] \in S \cup {0}
    BY <1>3 DEF Repeats
  <2> QED
    BY <2>1
<1> HIDE DEF F
<1>5. Walk(tab, head, n, r)
  <2>1. \A k \in 0..n : r[k] = IF k = 0 THEN head
                              ELSE IF r[k - 1] = 0 THEN 0 ELSE tab[r[k - 1]].next
    BY <1>3, <1>4 DEF Repeats
  <2>2. r = [k \in 0..n |-> r[k]]
    BY <1>3 DEF Repeats
  <2> QED
    BY <2>1, <2>2 DEF Walk
<1> QED
  BY <1>5

Visited(at, n) == {at[k] : k \in 0..n}

\* A walk that is long enough visits the members of the list and ends.
LEMMA WalkReads ==
    ASSUME NEW tab, NEW S, IsFiniteSet(S), 0 \notin S, NEW head, ListOf(tab, S, head),
           NEW n \in Nat, Cardinality(S) <= n, NEW at, Walk(tab, head, n, at)
    PROVE  Visited(at, n) = S \cup {0}
<1> DEFINE c == Cardinality(S)
<1>0. c \in Nat /\ c <= n /\ (S = {} <=> c = 0)
  BY FS_CardinalityType, FS_EmptySet
<1> HIDE DEF c
<1>1. PICK rank : Ranked(tab, S, head, rank)
  BY DEF ListOf
<1>2. /\ rank \in [S -> 1..c]
      /\ \A x, y \in S : rank[x] = rank[y] => x = y
      /\ \A x \in S : IF rank[x] = 1 THEN tab[x].next = 0
                      ELSE tab[x].next \in S /\ rank[tab[x].next] = rank[x] - 1
      /\ IF S = {} THEN head = 0 ELSE head \in S /\ rank[head] = c
  BY <1>1 DEF Ranked, c
<1>3. /\ at[0] = head
      /\ \A k \in 1..n : at[k] = IF at[k - 1] = 0 THEN 0 ELSE tab[at[k - 1]].next
  BY DEF Walk
<1> DEFINE At(k) == IF k < c THEN at[k] \in S /\ rank[at[k]] = c - k ELSE at[k] = 0
           P == {k \in 0..n : At(k)}
<1>4. 0 \in P
  BY <1>0, <1>2, <1>3
<1>5. ASSUME NEW k \in 1..n, k - 1 \in P PROVE k \in P
  <2>1. k - 1 \in 0..n /\ At(k - 1) /\ at[k] = IF at[k - 1] = 0 THEN 0 ELSE tab[at[k - 1]].next
    BY <1>3, <1>5
  <2>2. CASE k - 1 < c
    <3>1. at[k - 1] \in S /\ rank[at[k - 1]] = c - (k - 1) /\ at[k - 1] # 0
      BY <2>1, <2>2
    <3>2. at[k] = tab[at[k - 1]].next
      BY <2>1, <3>1
    <3>3. CASE k < c
      <4>1. c - (k - 1) # 1 /\ c - (k - 1) - 1 = c - k
        BY <1>0, <3>3
      <4> QED
        BY <1>2, <3>1, <3>2, <3>3, <4>1
    <3>4. CASE ~(k < c)
      <4>1. c - (k - 1) = 1
        BY <1>0, <2>2, <3>4
      <4> QED
        BY <1>2, <3>1, <3>2, <3>4, <4>1
    <3> QED
      BY <3>3, <3>4
  <2>3. CASE ~(k - 1 < c)
    <3>1. ~(k < c)
      BY <1>0, <2>3
    <3> QED
      BY <2>1, <2>3, <3>1
  <2> QED
    BY <2>2, <2>3
<1> HIDE DEF P
<1>6. \A k \in 0..n : k \in P
  BY <1>4, <1>5, UpTo
<1>7. \A k \in 0..n : At(k)
  BY <1>6 DEF P
<1>8. {at[k] : k \in 0..n} \subseteq S \cup {0}
  BY <1>7
<1>9. ASSUME NEW x \in S PROVE \E k \in 0..n : at[k] = x
  <2> DEFINE k == c - rank[x]
  <2>1. rank[x] \in 1..c
    BY <1>2
  <2>2. k \in 0..n /\ k < c /\ c - k = rank[x]
    BY <1>0, <2>1
  <2> HIDE DEF k
  <2>3. at[k] \in S /\ rank[at[k]] = rank[x]
    BY <1>7, <2>2
  <2> QED
    BY <1>2, <2>2, <2>3
<1>10. c \in 0..n /\ at[c] = 0
  <2>1. c \in 0..n /\ ~(c < c)
    BY <1>0
  <2> QED
    BY <1>7, <2>1
<1> QED
  BY <1>8, <1>9, <1>10 DEF Visited

\* The entries that follow an index.
LEMMA NextFacts ==
    ASSUME NEW S, \A m \in S : m \in Nat /\ m # 0, NEW n \in Nat
    PROVE  \/ NextIn(S, n) = 0 /\ \A m \in S : m <= n
           \/ NextIn(S, n) \in S /\ NextIn(S, n) > n /\ \A m \in S : m > n => NextIn(S, n) <= m
<1> DEFINE later == {m \in S : m > n}
<1>1. CASE later = {}
  <2>1. \A m \in S : m \in Int
    OBVIOUS
  <2> QED
    BY <1>1, <2>1 DEF NextIn
<1>2. CASE later # {}
  <2>1. later \in SUBSET Nat
    OBVIOUS
  <2>2. \E x \in later : \A y \in later : x <= y
    <3> HIDE DEF later
    <3> QED BY <1>2, <2>1, LeastNumber
  <2>3. NextIn(S, n) = CHOOSE x \in later : \A y \in later : x <= y
    BY <1>2 DEF NextIn, Min
  <2> DEFINE x == NextIn(S, n)
  <2>4. x \in later /\ \A y \in later : x <= y
    <3> HIDE DEF later
    <3> QED BY <2>2, <2>3
  <2> QED
    BY <2>4
<1> QED
  BY <1>1, <1>2

\* Entries that are linked in the order of their indices are a list.
LEMMA OrderedList ==
    ASSUME NEW S, \A m \in S : m \in Nat /\ m # 0, IsFiniteSet(S), NEW tab, NEW head,
           head = NextIn(S, 0), \A n \in S : tab[n].next = NextIn(S, n)
    PROVE  ListOf(tab, S, head)
<1>0. \A m \in S : m \in Int /\ m > 0
  OBVIOUS
<1> DEFINE from(n) == {m \in S : m >= n}
           rank == [n \in S |-> Cardinality(from(n))]
           c == Cardinality(S)
<1>1. ASSUME NEW n \in S
      PROVE  /\ IsFiniteSet(from(n)) /\ n \in from(n) /\ rank[n] \in 1..c
             /\ rank[n] = Cardinality(from(n))
  <2>1. from(n) \in SUBSET S /\ n \in from(n)
    OBVIOUS
  <2>2. IsFiniteSet(from(n)) /\ Cardinality(from(n)) <= c /\ c \in Nat
    <3> HIDE DEF from
    <3> QED BY <2>1, FS_Subset, FS_CardinalityType
  <2>3. Cardinality(from(n)) \in Nat /\ Cardinality(from(n)) # 0
    <3> HIDE DEF from
    <3> QED BY <2>1, <2>2, FS_CardinalityType, FS_EmptySet
  <2> QED
    BY <2>1, <2>2, <2>3
<1>2. ASSUME NEW m \in S, NEW n \in S, m < n PROVE rank[n] < rank[m]
  <2>1. from(n) \in SUBSET from(m) /\ m \notin from(n) /\ m \in from(m)
    BY <1>0, <1>2
  <2>2. Cardinality(from(n)) <= Cardinality(from(m)) /\ Cardinality(from(n)) # Cardinality(from(m))
    <3>1. IsFiniteSet(from(m)) /\ from(n) # from(m)
      BY <1>1, <2>1
    <3> HIDE DEF from
    <3> QED BY <2>1, <3>1, FS_Subset
  <2>3. rank[n] \in Int /\ rank[m] \in Int
    BY <1>1
  <2> QED
    BY <2>2, <2>3
<1>3. ASSUME NEW m \in S, NEW n \in S, rank[m] = rank[n] PROVE m = n
  <2>1. m \in Nat /\ n \in Nat /\ rank[m] \in Nat
    BY <1>1
  <2> HIDE DEF rank
  <2> QED BY <1>2, <1>3, <2>1
<1>4. ASSUME NEW n \in S
      PROVE  IF rank[n] = 1 THEN tab[n].next = 0
             ELSE tab[n].next \in S /\ rank[tab[n].next] = rank[n] - 1
  <2> DEFINE q == NextIn(S, n)
  <2>1. n \in Nat /\ n \in Int /\ n > 0 /\ tab[n].next = q
    BY <1>0
  <2>2. CASE q = 0 /\ \A m \in S : m <= n
    <3>1. from(n) = {n}
      BY <1>0, <2>2
    <3>2. rank[n] = 1
      BY <3>1, FS_Singleton
    <3> QED
      BY <2>1, <2>2, <3>2
  <2>3. CASE q \in S /\ q > n /\ \A m \in S : m > n => q <= m
    <3>1. from(q) = from(n) \ {n}
      <4>1. \A m \in S : m >= q <=> m >= n /\ m # n
        <5> HIDE DEF q
        <5> QED BY <1>0, <2>1, <2>3
      <4> HIDE DEF q
      <4> QED BY <4>1
    <3>2. Cardinality(from(q)) = Cardinality(from(n)) - 1
      <4>1. IsFiniteSet(from(n)) /\ n \in from(n)
        BY <1>1
      <4> HIDE DEF from
      <4> QED BY <3>1, <4>1, FS_RemoveElement
    <3>3. rank[q] = rank[n] - 1 /\ rank[q] \in 1..c /\ rank[n] \in 1..c
      BY <1>1, <2>3, <3>2
    <3>4. c \in Nat
      BY FS_CardinalityType
    <3> HIDE DEF rank, c, q
    <3>5. rank[n] # 1
      BY <3>3, <3>4
    <3> QED
      BY <2>1, <2>3, <3>3, <3>5
  <2>4. \/ q = 0 /\ \A m \in S : m <= n
        \/ q \in S /\ q > n /\ \A m \in S : m > n => q <= m
    BY <2>1, NextFacts
  <2> HIDE DEF q
  <2> QED
    BY <2>2, <2>3, <2>4
<1>5. IF S = {} THEN head = 0 ELSE head \in S /\ rank[head] = c
  <2>1. \A m \in S : ~(m <= 0)
    OBVIOUS
  <2>2. S = {} => head = 0
    <3>1. 0 \in Nat
      OBVIOUS
    <3> QED
      BY <3>1, NextFacts
  <2>3. ASSUME NEW m \in S PROVE head \in S /\ rank[head] = c
    <3>1. head \in S /\ \A x \in S : x > 0 => head <= x
      <4>1. 0 \in Nat
        OBVIOUS
      <4> QED
        BY <2>1, <4>1, NextFacts
    <3>2. from(head) = S
      BY <1>0, <3>1
    <3> QED
      BY <3>1, <3>2
  <2> QED
    BY <2>2, <2>3
<1>6. rank \in [S -> 1..c]
  BY <1>1
<1> HIDE DEF rank, c
<1>7. Ranked(tab, S, head, rank)
  BY <1>3, <1>4, <1>5, <1>6 DEF Ranked, c
<1> QED
  BY <1>7 DEF ListOf

\* An entry that is put before the head.
LEMMA ListPush ==
    ASSUME NEW tab, NEW S, IsFiniteSet(S), 0 \notin S, NEW head, ListOf(tab, S, head),
           NEW t, NEW n, n \notin S, n # 0, t[n].next = head,
           \A m \in S : t[m].next = tab[m].next
    PROVE  ListOf(t, S \cup {n}, n)
<1> DEFINE c == Cardinality(S)
           T == S \cup {n}
<1>0. c \in Nat /\ Cardinality(T) = c + 1 /\ (S = {} <=> c = 0)
  BY FS_CardinalityType, FS_AddElement, FS_EmptySet
<1>1. PICK rank : Ranked(tab, S, head, rank)
  BY DEF ListOf
<1> HIDE DEF c, T
<1>2. /\ rank \in [S -> 1..c]
      /\ \A x, y \in S : rank[x] = rank[y] => x = y
      /\ \A x \in S : IF rank[x] = 1 THEN tab[x].next = 0
                      ELSE tab[x].next \in S /\ rank[tab[x].next] = rank[x] - 1
      /\ IF S = {} THEN head = 0 ELSE head \in S /\ rank[head] = c
  BY <1>1 DEF Ranked, c
<1> DEFINE r == [x \in T |-> IF x = n THEN c + 1 ELSE rank[x]]
<1>3. /\ r[n] = c + 1 /\ n \in T /\ \A x \in S : x \in T /\ r[x] = rank[x] /\ rank[x] \in 1..c
      /\ \A x \in T : x \in S \/ x = n
  BY <1>2 DEF T
<1>4. r \in [T -> 1..(c + 1)]
  BY <1>0, <1>2, <1>3
<1> HIDE DEF r
<1>5. \A x, y \in T : r[x] = r[y] => x = y
  BY <1>0, <1>2, <1>3
<1>6. ASSUME NEW x \in T
      PROVE  IF r[x] = 1 THEN t[x].next = 0 ELSE t[x].next \in T /\ r[t[x].next] = r[x] - 1
  <2>1. CASE x \in S
    BY <1>2, <1>3, <2>1
  <2>2. CASE x = n
    <3>1. CASE S = {}
      BY <1>0, <1>2, <1>3, <2>2, <3>1
    <3>2. CASE S # {}
      BY <1>0, <1>2, <1>3, <2>2, <3>2
    <3> QED
      BY <3>1, <3>2
  <2> QED
    BY <1>3, <2>1, <2>2
<1>7. Ranked(t, T, n, r)
  BY <1>0, <1>3, <1>4, <1>5, <1>6 DEF Ranked
<1> QED
  BY <1>7 DEF ListOf, T

\* The head is taken from a list.
LEMMA ListPop ==
    ASSUME NEW tab, NEW S, IsFiniteSet(S), 0 \notin S, NEW head, ListOf(tab, S, head), head # 0,
           NEW t, \A m \in S \ {head} : t[m].next = tab[m].next
    PROVE  head \in S /\ ListOf(t, S \ {head}, tab[head].next)
<1> DEFINE c == Cardinality(S)
           T == S \ {head}
<1>1. PICK rank : Ranked(tab, S, head, rank)
  BY DEF ListOf
<1>2. head \in S
  BY <1>1 DEF Ranked
<1>0. c \in Nat /\ c # 0 /\ Cardinality(T) = c - 1 /\ (T = {} <=> c - 1 = 0)
  BY <1>2, FS_CardinalityType, FS_RemoveElement, FS_EmptySet
<1> HIDE DEF c, T
<1>3. /\ rank \in [S -> 1..c]
      /\ \A x, y \in S : rank[x] = rank[y] => x = y
      /\ \A x \in S : IF rank[x] = 1 THEN tab[x].next = 0
                      ELSE tab[x].next \in S /\ rank[tab[x].next] = rank[x] - 1
      /\ rank[head] = c
  BY <1>1, <1>2 DEF Ranked, c
<1> DEFINE r == [x \in T |-> rank[x]]
<1>4. \A x \in T : x \in S /\ x # head /\ r[x] = rank[x] /\ rank[x] \in 1..(c - 1)
  BY <1>0, <1>2, <1>3 DEF T
<1>5. r \in [T -> 1..(c - 1)]
  BY <1>4
<1> HIDE DEF r
<1>6. \A x, y \in T : r[x] = r[y] => x = y
  BY <1>3, <1>4
<1>7. ASSUME NEW x \in S, tab[x].next \in S, rank[tab[x].next] = rank[x] - 1
      PROVE  tab[x].next \in T /\ r[tab[x].next] = rank[x] - 1
  <2>1. rank[x] \in 1..c
    BY <1>3
  <2>2. tab[x].next # head
    BY <1>0, <1>3, <1>7, <2>1
  <2>3. tab[x].next \in T
    BY <1>7, <2>2 DEF T
  <2> QED
    BY <1>4, <1>7, <2>3
<1>8. ASSUME NEW x \in T
      PROVE  IF r[x] = 1 THEN t[x].next = 0 ELSE t[x].next \in T /\ r[t[x].next] = r[x] - 1
  <2>1. x \in S /\ t[x].next = tab[x].next /\ r[x] = rank[x]
    BY <1>4 DEF T
  <2> QED
    BY <1>3, <1>7, <2>1
<1>9. IF T = {} THEN tab[head].next = 0
      ELSE tab[head].next \in T /\ r[tab[head].next] = c - 1
  <2>1. CASE c = 1
    BY <1>0, <1>2, <1>3, <2>1
  <2>2. CASE c # 1
    BY <1>0, <1>2, <1>3, <1>7, <2>2
  <2> QED
    BY <2>1, <2>2
<1>10. Ranked(t, T, tab[head].next, r)
  BY <1>0, <1>5, <1>6, <1>8, <1>9 DEF Ranked
<1> QED
  BY <1>2, <1>10 DEF ListOf, T

-----------------------------------------------------------------------------
(* The array.                                                              *)

NodeRecords == [level : Nat, low : Nat \cup {-1}, high : Nat, ref : 0..MAXREF, hash : Nat, next : Nat]
Array(tab) ==
    /\ Size(tab) \in Nat /\ IsPrime(Size(tab))
    /\ tab \in [0..(Size(tab) - 1) -> NodeRecords]

Members(tab, h) == {n \in Used(tab) : HashOf(tab, n) = h}
Free(tab) == DOMAIN tab \ (Used(tab) \cup {0, 1})
Equal(tab, m, n) == tab[m].level = tab[n].level /\ tab[m].low = tab[n].low /\ tab[m].high = tab[n].high

\* The children of a node are nodes, and no two nodes are equal.
Reduced(tab) ==
    /\ \A n \in Used(tab) : {tab[n].low, tab[n].high} \subseteq Used(tab) \cup {0, 1}
    /\ \A m, n \in Used(tab) : Equal(tab, m, n) => m = n

\* Every entry is in its chain or in the free list.
Listed(tab, fp, fn) ==
    /\ \A h \in DOMAIN tab : ListOf(tab, Members(tab, h), tab[h].hash)
    /\ ListOf(tab, Free(tab), fp)
    /\ fn = Cardinality(Free(tab))
Sound(m) == Array(m.tab) /\ Reduced(m.tab) /\ Listed(m.tab, m.freepos, m.freenum)

LEMMA SizeIs ==
    ASSUME NEW tab, NEW s \in Nat, DOMAIN tab = 0..(s - 1)
    PROVE  Size(tab) = s /\ IsFiniteSet(DOMAIN tab)
<1>1. IsFiniteSet(0..(s - 1)) /\ Cardinality(0..(s - 1)) = IF 0 > s - 1 THEN 0 ELSE (s - 1) - 0 + 1
  BY FS_Interval
<1>2. Cardinality(0..(s - 1)) = s
  BY <1>1
<1> QED
  BY <1>1, <1>2 DEF Size

LEMMA ArrayFacts ==
    ASSUME NEW tab, Array(tab)
    PROVE  /\ Size(tab) \in Nat /\ Size(tab) >= 3
           /\ DOMAIN tab = 0..(Size(tab) - 1) /\ IsFiniteSet(DOMAIN tab)
           /\ 0 \in DOMAIN tab /\ 1 \in DOMAIN tab
           /\ \A n \in DOMAIN tab : n \in Nat /\ n < Size(tab) /\ tab[n] \in NodeRecords
           /\ Used(tab) \subseteq DOMAIN tab /\ IsFiniteSet(Used(tab))
           /\ \A n \in Used(tab) : n \in Nat /\ n >= 2 /\ tab[n].low \in Nat
           /\ Free(tab) \subseteq DOMAIN tab /\ IsFiniteSet(Free(tab)) /\ 0 \notin Free(tab)
           /\ \A n \in Free(tab) : n \in Nat /\ n >= 2 /\ n \notin Used(tab)
<1> DEFINE s == Size(tab)
<1>1. s \in Nat /\ s >= 3 /\ tab \in [0..(s - 1) -> NodeRecords]
  BY DEF Array, IsPrime
<1>2. IsFiniteSet(DOMAIN tab)
  <2> HIDE DEF s
  <2> QED BY <1>1, SizeIs
<1> HIDE DEF s
<1>3. DOMAIN tab = 0..(s - 1) /\ \A n \in DOMAIN tab : tab[n] \in NodeRecords
  BY <1>1
<1>4. /\ Used(tab) \subseteq DOMAIN tab /\ \A n \in Used(tab) : n >= 2 /\ tab[n].low # -1
      /\ Free(tab) \subseteq DOMAIN tab /\ \A n \in Free(tab) : n \notin Used(tab) /\ n \notin {0, 1}
  BY DEF Used, Free
<1>5. IsFiniteSet(Used(tab)) /\ IsFiniteSet(Free(tab))
  BY <1>2, <1>4, FS_Subset
<1>6. \A n \in DOMAIN tab : n \in Nat /\ n < s
  BY <1>1, <1>3
<1>7. \A n \in Used(tab) : n \in Nat /\ n >= 2 /\ tab[n].low \in Nat
  <2>1. \A n \in Used(tab) : tab[n].low \in Nat \cup {-1}
    BY <1>3, <1>4 DEF NodeRecords
  <2> QED
    BY <1>4, <1>6, <2>1
<1>8. \A n \in Free(tab) : n \in Nat /\ n >= 2 /\ n \notin Used(tab)
  BY <1>4, <1>6
<1>9. 0 \in DOMAIN tab /\ 1 \in DOMAIN tab /\ 0 \notin Free(tab)
  BY <1>1, <1>3, <1>4
<1> QED
  BY <1>1, <1>2, <1>3, <1>4, <1>5, <1>6, <1>7, <1>8, <1>9 DEF s

LEMMA Fields ==
    ASSUME NEW x \in NodeRecords
    PROVE  /\ x.level \in Nat /\ x.low \in Nat \cup {-1} /\ x.high \in Nat /\ x.ref \in 0..MAXREF
           /\ x.hash \in Nat /\ x.next \in Nat
BY DEF NodeRecords

LEMMA HashFacts ==
    ASSUME NEW tab, Array(tab), NEW l \in Nat, NEW lo \in Nat, NEW hi \in Nat
    PROVE  NODEHASH(tab, l, lo, hi) \in DOMAIN tab
<1>1. \A a, b \in Nat : PAIR(a, b) \in Nat
  <2>1. ASSUME NEW a \in Nat, NEW b \in Nat PROVE PAIR(a, b) \in Nat
    <3>1. \A x \in Nat : x * (x + 1) \in Nat
      OBVIOUS
    <3>2. (a + b) * (a + b + 1) \in Nat
      <4> DEFINE x == a + b
      <4>1. x \in Nat
        OBVIOUS
      <4> HIDE DEF x
      <4>2. x * (x + 1) \in Nat
        BY <3>1, <4>1
      <4> QED
        BY <4>2 DEF x
    <3>3. \A y \in Nat : y \div 2 \in Nat
      OBVIOUS
    <3>4. ((a + b) * (a + b + 1)) \div 2 \in Nat
      BY <3>2, <3>3
    <3> QED
      BY <3>4 DEF PAIR
  <2> QED
    BY <2>1
<1>2. PAIR(hi, PAIR(l, lo)) \in Nat
  BY <1>1
<1>3. DOMAIN tab = 0..(Size(tab) - 1) /\ Size(tab) \in Nat \ {0}
  BY ArrayFacts
<1>4. \A x \in Nat, y \in Nat \ {0} : x % y \in 0..(y - 1)
  OBVIOUS
<1> QED
  BY <1>2, <1>3, <1>4 DEF NODEHASH

LEMMA HashOfFacts ==
    ASSUME NEW tab, Array(tab), NEW n \in Used(tab)
    PROVE  HashOf(tab, n) \in DOMAIN tab
BY ArrayFacts, Fields, HashFacts DEF HashOf

-----------------------------------------------------------------------------
(* The lists rebuilt.                                                      *)

\* t has the nodes of keep as they are in tab, and the constants.
SameNodes(tab, t, keep) ==
    \A n \in keep : /\ tab[n].level = t[n].level /\ tab[n].low = t[n].low
                    /\ tab[n].high = t[n].high /\ tab[n].ref = t[n].ref

LEMMA RehashedFacts ==
    ASSUME NEW tab, Array(tab), NEW keep, keep \subseteq Used(tab)
    PROVE  /\ Array(Rehashed(tab, keep)) /\ Size(Rehashed(tab, keep)) = Size(tab)
           /\ Used(Rehashed(tab, keep)) = keep
           /\ SameNodes(tab, Rehashed(tab, keep), keep \cup {0, 1})
           /\ \A n \in keep : HashOf(Rehashed(tab, keep), n) = HashOf(tab, n)
<1> DEFINE t == Rehashed(tab, keep)
           chain(n) == {m \in keep : HashOf(tab, m) = n}
           peers(n) == {m \in keep : HashOf(tab, m) = HashOf(tab, n)}
           rest == DOMAIN tab \ (keep \cup {0, 1})
           low(n) == IF n < 2 \/ n \in keep THEN tab[n].low ELSE -1
           next(n) == IF n < 2 THEN tab[n].next ELSE IF n \in keep THEN NextIn(peers(n), n)
                      ELSE NextIn(rest, n)
<1>1. /\ Size(tab) \in Nat /\ Size(tab) >= 3 /\ DOMAIN tab = 0..(Size(tab) - 1)
      /\ 0 \in DOMAIN tab /\ 1 \in DOMAIN tab
      /\ \A n \in DOMAIN tab : n \in Nat /\ n < Size(tab) /\ tab[n] \in NodeRecords
      /\ Used(tab) \subseteq DOMAIN tab /\ \A n \in Used(tab) : n \in Nat /\ n >= 2 /\ tab[n].low \in Nat
  BY ArrayFacts
<1>2. keep \subseteq DOMAIN tab /\ \A n \in keep : n \in Nat /\ n >= 2 /\ n # 0 /\ tab[n].low \in Nat
  BY <1>1
<1>3. ASSUME NEW S, S \subseteq DOMAIN tab, 0 \notin S, NEW n \in Nat PROVE NextIn(S, n) \in Nat
  <2>1. \A m \in S : m \in Nat /\ m # 0
    BY <1>1, <1>3
  <2> QED
    BY <2>1, NextFacts
<1>4. t = [n \in DOMAIN tab |-> [tab[n] EXCEPT !.hash = NextIn(chain(n), 0), !.low = low(n), !.next = next(n)]]
  BY DEF Rehashed
<1> HIDE DEF t
<1>5. ASSUME NEW n \in DOMAIN tab
      PROVE  /\ NextIn(chain(n), 0) \in Nat /\ low(n) \in Nat \cup {-1} /\ next(n) \in Nat
             /\ t[n] \in NodeRecords
             /\ t[n].level = tab[n].level /\ t[n].high = tab[n].high /\ t[n].ref = tab[n].ref
             /\ t[n].low = low(n) /\ t[n].next = next(n) /\ t[n].hash = NextIn(chain(n), 0)
  <2>1. n \in Nat /\ tab[n] \in NodeRecords
    BY <1>1
  <2>2. NextIn(chain(n), 0) \in Nat /\ NextIn(peers(n), n) \in Nat /\ NextIn(rest, n) \in Nat
    <3>1. chain(n) \subseteq DOMAIN tab /\ 0 \notin chain(n) /\ peers(n) \subseteq DOMAIN tab
          /\ 0 \notin peers(n) /\ rest \subseteq DOMAIN tab /\ 0 \notin rest
      BY <1>2
    <3> HIDE DEF chain, peers, rest
    <3>2. 0 \in Nat
      OBVIOUS
    <3> QED
      BY <1>3, <2>1, <3>1, <3>2
  <2>3. low(n) \in Nat \cup {-1} /\ next(n) \in Nat
    <3> HIDE DEF peers, rest
    <3> QED BY <2>1, <2>2, Fields
  <2> DEFINE a == NextIn(chain(n), 0)
             b == low(n)
             c == next(n)
  <2>4. t[n] = [tab[n] EXCEPT !.hash = a, !.low = b, !.next = c]
    <3> HIDE DEF chain, peers, rest, low, next
    <3> QED BY <1>4
  <2>5. a \in Nat /\ b \in Nat \cup {-1} /\ c \in Nat
    BY <2>2, <2>3
  <2> HIDE DEF a, b, c, chain, peers, rest, low, next
  <2>6. /\ t[n] \in NodeRecords
        /\ t[n].level = tab[n].level /\ t[n].high = tab[n].high /\ t[n].ref = tab[n].ref
        /\ t[n].low = b /\ t[n].next = c /\ t[n].hash = a
    BY <2>1, <2>4, <2>5 DEF NodeRecords
  <2> QED
    BY <2>5, <2>6 DEF a, b, c
<1> HIDE DEF chain, peers, rest, next
<1>6. DOMAIN t = DOMAIN tab /\ t \in [DOMAIN tab -> NodeRecords]
  <2>1. DOMAIN t = DOMAIN tab /\ t = [n \in DOMAIN tab |-> t[n]]
    BY <1>4
  <2> QED
    BY <1>5, <2>1
<1>7. Size(t) = Size(tab)
  BY <1>6 DEF Size
<1>8. Array(t)
  BY <1>1, <1>6, <1>7 DEF Array
<1>9. Used(t) = keep
  <2>1. ASSUME NEW n \in DOMAIN tab PROVE n >= 2 /\ t[n].low # -1 <=> n \in keep
    <3>1. n \in Nat /\ t[n].low = low(n)
      BY <1>1, <1>5
    <3> QED
      BY <1>2, <3>1
  <2> QED
    BY <1>2, <1>6, <2>1 DEF Used
<1>10. SameNodes(tab, t, keep \cup {0, 1})
  <2>1. ASSUME NEW n \in keep \cup {0, 1} PROVE n \in DOMAIN tab /\ t[n].low = tab[n].low
    <3>1. n \in DOMAIN tab /\ (n < 2 \/ n \in keep)
      BY <1>1, <1>2
    <3>2. t[n].low = low(n)
      BY <1>5, <3>1
    <3> QED
      BY <3>1, <3>2
  <2> QED
    BY <1>5, <2>1 DEF SameNodes
<1>11. \A n \in keep : HashOf(t, n) = HashOf(tab, n)
  BY <1>7, <1>10 DEF HashOf, NODEHASH, SameNodes
<1> QED
  BY <1>7, <1>8, <1>9, <1>10, <1>11 DEF t

LEMMA RehashedListed ==
    ASSUME NEW tab, Array(tab), NEW keep, keep \subseteq Used(tab), NEW t, t = Rehashed(tab, keep)
    PROVE  Listed(t, FirstFree(t, Used(t)), FreeCount(t, Used(t)))
<1> DEFINE chain(n) == {m \in keep : HashOf(tab, m) = n}
           rest == DOMAIN tab \ (keep \cup {0, 1})
<1>1. /\ Array(t) /\ Size(t) = Size(tab) /\ Used(t) = keep
      /\ \A n \in keep : HashOf(t, n) = HashOf(tab, n)
  BY RehashedFacts
<1>2. /\ DOMAIN t = DOMAIN tab /\ IsFiniteSet(DOMAIN tab)
      /\ DOMAIN tab = 0..(Size(tab) - 1) /\ Size(tab) \in Nat /\ Size(tab) >= 3
      /\ \A n \in DOMAIN tab : n \in Nat
      /\ Used(tab) \subseteq DOMAIN tab /\ \A n \in Used(tab) : n \in Nat /\ n >= 2
      /\ IsFiniteSet(keep) /\ IsFiniteSet(Free(t))
  BY <1>1, ArrayFacts
<1>3. \A h \in DOMAIN tab : Members(t, h) = chain(h)
  BY <1>1 DEF Members
<1>4. Free(t) = rest
  BY <1>1, <1>2 DEF Free
<1>5. /\ \A n \in DOMAIN tab : t[n].hash = NextIn(chain(n), 0)
      /\ \A n \in DOMAIN tab : n >= 2 /\ n \in keep => t[n].next = NextIn(chain(HashOf(tab, n)), n)
      /\ \A n \in DOMAIN tab : n >= 2 /\ n \notin keep => t[n].next = NextIn(rest, n)
  <2>1. ASSUME NEW n \in DOMAIN tab
        PROVE  /\ t[n].hash = NextIn(chain(n), 0)
               /\ n >= 2 /\ n \in keep => t[n].next = NextIn(chain(HashOf(tab, n)), n)
               /\ n >= 2 /\ n \notin keep => t[n].next = NextIn(rest, n)
    <3> DEFINE a == NextIn(chain(n), 0)
               b == IF n < 2 \/ n \in keep THEN tab[n].low ELSE -1
               c == IF n < 2 THEN tab[n].next
                    ELSE IF n \in keep THEN NextIn(chain(HashOf(tab, n)), n) ELSE NextIn(rest, n)
    <3>1. t[n] = [tab[n] EXCEPT !.hash = a, !.low = b, !.next = c]
      BY DEF Rehashed
    <3>2. tab[n] \in NodeRecords /\ n \in Nat
      BY ArrayFacts
    <3> HIDE DEF a, b, c
    <3>3. t[n].hash = a /\ t[n].next = c
      BY <3>1, <3>2 DEF NodeRecords
    <3>4. n >= 2 => ~(n < 2)
      BY <3>2
    <3> QED
      BY <3>3, <3>4 DEF a, c
  <2> QED
    BY <2>1
<1>6. ASSUME NEW h \in DOMAIN tab PROVE ListOf(t, Members(t, h), t[h].hash)
  <2> DEFINE S == chain(h)
  <2>1. S \in SUBSET keep /\ \A m \in S : m \in DOMAIN tab /\ m >= 2 /\ HashOf(tab, m) = h
    BY <1>2
  <2>2. IsFiniteSet(S)
    <3> HIDE DEF S
    <3> QED BY <1>2, <2>1, FS_Subset
  <2>3. \A m \in S : m \in Nat /\ m # 0
    BY <1>2
  <2>4. t[h].hash = NextIn(S, 0) /\ \A m \in S : t[m].next = NextIn(S, m)
    BY <1>5, <2>1
  <2> HIDE DEF S
  <2>5. ListOf(t, S, t[h].hash)
    BY <2>2, <2>3, <2>4, OrderedList
  <2> QED
    BY <1>3, <2>5 DEF S
<1>7. ListOf(t, Free(t), FirstFree(t, Used(t)))
  <2>1. FirstFree(t, Used(t)) = NextIn(rest, 0)
    BY <1>1, <1>2 DEF FirstFree
  <2>2. \A m \in rest : m \in Nat /\ m # 0 /\ m >= 2 /\ m \in DOMAIN tab /\ m \notin keep
    BY <1>2
  <2>3. \A m \in rest : t[m].next = NextIn(rest, m)
    BY <1>5, <2>2
  <2>4. IsFiniteSet(rest)
    BY <1>2, <1>4
  <2> HIDE DEF rest
  <2>5. ListOf(t, rest, FirstFree(t, Used(t)))
    BY <2>1, <2>2, <2>3, <2>4, OrderedList
  <2> QED
    BY <1>4, <2>5
<1>8. FreeCount(t, Used(t)) = Cardinality(Free(t))
  <2>1. Cardinality(keep \cup {0, 1}) = Cardinality(keep) + 2 /\ IsFiniteSet(keep \cup {0, 1})
    <3>1. 0 \notin keep /\ 1 \notin keep /\ 1 \notin keep \cup {0}
      BY <1>2
    <3>2. IsFiniteSet(keep \cup {0}) /\ Cardinality(keep \cup {0}) = Cardinality(keep) + 1
      BY <1>2, <3>1, FS_AddElement
    <3>3. /\ IsFiniteSet((keep \cup {0}) \cup {1})
          /\ Cardinality((keep \cup {0}) \cup {1}) = Cardinality(keep \cup {0}) + 1
      BY <3>1, <3>2, FS_AddElement
    <3>4. (keep \cup {0}) \cup {1} = keep \cup {0, 1}
      OBVIOUS
    <3>5. Cardinality(keep) \in Nat
      BY <1>2, FS_CardinalityType
    <3> QED
      BY <3>2, <3>3, <3>4, <3>5
  <2>2. DOMAIN tab \cap (keep \cup {0, 1}) = keep \cup {0, 1}
    <3>1. 0 \in DOMAIN tab /\ 1 \in DOMAIN tab
      BY <1>2
    <3> QED
      BY <1>2, <3>1
  <2>3. Cardinality(rest) = Cardinality(DOMAIN tab) - Cardinality(keep \cup {0, 1})
    <3>1. Cardinality(DOMAIN tab \ (keep \cup {0, 1}))
            = Cardinality(DOMAIN tab) - Cardinality(DOMAIN tab \cap (keep \cup {0, 1}))
      BY <1>2, FS_Difference
    <3> QED
      BY <2>2, <3>1
  <2>4. FreeCount(t, Used(t)) = Cardinality(DOMAIN tab) - 2 - Cardinality(keep)
    BY <1>1, <1>2 DEF FreeCount, Size
  <2>5. Cardinality(DOMAIN tab) \in Nat /\ Cardinality(keep) \in Nat
    BY <1>2, FS_CardinalityType
  <2> HIDE DEF rest
  <2> QED
    BY <1>4, <2>1, <2>3, <2>4, <2>5
<1> QED
  BY <1>2, <1>6, <1>7, <1>8 DEF Listed

\* What the collector makes of a table, whatever it keeps.
LEMMA RehashedRight ==
    ASSUME NEW tab, Array(tab), NEW keep, keep \subseteq Used(tab), NEW t, t = Rehashed(tab, keep),
           \A n \in keep : {tab[n].low, tab[n].high} \subseteq keep \cup {0, 1},
           \A m, n \in keep : Equal(tab, m, n) => m = n
    PROVE  /\ Array(t) /\ Reduced(t) /\ Listed(t, FirstFree(t, Used(t)), FreeCount(t, Used(t)))
           /\ Size(t) = Size(tab) /\ Used(t) = keep /\ SameNodes(tab, t, keep \cup {0, 1})
<1>1. /\ Array(t) /\ Size(t) = Size(tab) /\ Used(t) = keep /\ SameNodes(tab, t, keep \cup {0, 1})
  BY RehashedFacts
<1>2. Reduced(t)
  BY <1>1 DEF Reduced, SameNodes, Equal
<1> QED
  BY <1>1, <1>2, RehashedListed

-----------------------------------------------------------------------------
(* What bdd_mark reaches.                                                  *)

LEMMA ReachFacts ==
    ASSUME NEW tab, Array(tab), Reduced(tab), NEW S, S \subseteq Used(tab)
    PROVE  /\ S \subseteq Reach(tab, S) /\ Reach(tab, S) \subseteq Used(tab)
           /\ \A n \in Reach(tab, S) : {tab[n].low, tab[n].high} \subseteq Reach(tab, S) \cup {0, 1}
           /\ \A C : /\ S \subseteq C
                     /\ \A n \in C \cap Used(tab) : {tab[n].low, tab[n].high} \subseteq C \cup {0, 1}
                     => Reach(tab, S) \subseteq C
<1> DEFINE s == Size(tab)
           U == Used(tab)
           M(f) == f = [k \in 0..s |-> IF k = 0 THEN S ELSE WithChildren(tab, f[k - 1])]
           marked == CHOOSE f : M(f)
           Closed(X) == \A n \in X : {tab[n].low, tab[n].high} \subseteq X \cup {0, 1}
           F == [X \in SUBSET U |-> WithChildren(tab, X)]
<1>1. s \in Nat /\ s >= 3 /\ IsFiniteSet(U) /\ DOMAIN tab = 0..(s - 1) /\ U \subseteq 2..(s - 1)
  <2>1. \A n \in U : n \in 0..(s - 1) /\ n >= 2
    BY ArrayFacts
  <2> QED
    BY <2>1, ArrayFacts
<1>2. \A n \in U : {tab[n].low, tab[n].high} \subseteq U \cup {0, 1}
  BY DEF Reduced
<1>3. ASSUME NEW X, X \subseteq U
      PROVE  X \subseteq WithChildren(tab, X) /\ WithChildren(tab, X) \subseteq U
  BY <1>2, <1>3 DEF WithChildren
<1>4. F \in [SUBSET U -> SUBSET U] /\ S \in SUBSET U
  BY <1>3
<1>5. PICK r : Repeats(r, SUBSET U, S, s, F)
  <2> HIDE DEF F, s, U
  <2> QED BY <1>1, <1>4, RecursiveFunction
<1>6. M(r)
  <2>1. r \in [0..s -> SUBSET U] /\ r[0] = S /\ \A k \in 1..s : r[k] = F[r[k - 1]]
    BY <1>5 DEF Repeats
  <2>2. \A k \in 1..s : k - 1 \in 0..s /\ r[k - 1] \in SUBSET U
    BY <1>1, <2>1
  <2>3. \A k \in 1..s : r[k] = WithChildren(tab, r[k - 1])
    BY <2>1, <2>2
  <2> HIDE DEF s, U, F
  <2>4. \A k \in 0..s : r[k] = IF k = 0 THEN S ELSE WithChildren(tab, r[k - 1])
    BY <1>1, <2>1, <2>3
  <2>5. r = [k \in 0..s |-> r[k]]
    BY <2>1
  <2> QED
    BY <2>4, <2>5
<1>7. M(marked)
  <2> HIDE DEF M
  <2> QED BY <1>6
<1>8. Reach(tab, S) = marked[s]
  BY DEF Reach
<1> HIDE DEF marked, s, F
<1>9. marked[0] = S /\ \A k \in 1..s : marked[k] = WithChildren(tab, marked[k - 1])
  BY <1>1, <1>7
\* Each step reaches more, or all has been reached.
<1> DEFINE At(k) == /\ S \subseteq marked[k] /\ marked[k] \subseteq U
                    /\ Closed(marked[k]) \/ Cardinality(marked[k]) >= k
           P == {k \in 0..s : At(k)}
<1>10. 0 \in P
  <2>1. IsFiniteSet(S)
    BY <1>1, FS_Subset
  <2>2. Cardinality(S) \in Nat
    BY <2>1, FS_CardinalityType
  <2> QED
    BY <1>1, <1>9, <2>2
<1>11. ASSUME NEW k \in 1..s, k - 1 \in P PROVE k \in P
  <2> DEFINE X == marked[k - 1]
             Y == WithChildren(tab, X)
  <2>1. S \subseteq X /\ X \subseteq U /\ (Closed(X) \/ Cardinality(X) >= k - 1) /\ marked[k] = Y
    BY <1>9, <1>11
  <2> HIDE DEF X, Y
  <2>2. X \subseteq Y /\ Y \subseteq U
    BY <1>3, <2>1 DEF Y
  <2>3. CASE Closed(X)
    <3>1. Y = X
      BY <2>3 DEF Y, WithChildren
    <3> QED
      BY <1>1, <2>1, <2>3, <3>1
  <2>4. CASE ~Closed(X)
    <3>1. Y # X
      BY <2>4 DEF Y, WithChildren
    <3>2. IsFiniteSet(X) /\ IsFiniteSet(Y) /\ Cardinality(X) <= Cardinality(Y) /\ Cardinality(X) # Cardinality(Y)
      <4>1. IsFiniteSet(Y)
        BY <1>1, <2>2, FS_Subset
      <4> QED
        BY <2>2, <3>1, <4>1, FS_Subset
    <3>3. Cardinality(X) \in Nat /\ Cardinality(Y) \in Nat
      BY <3>2, FS_CardinalityType
    <3>4. Cardinality(Y) >= k
      BY <1>1, <2>1, <2>4, <3>2, <3>3
    <3> QED
      BY <1>1, <2>1, <2>2, <3>4
  <2> QED
    BY <2>3, <2>4
<1> HIDE DEF P
<1>12. \A k \in 0..s : k \in P
  BY <1>1, <1>10, <1>11, UpTo
<1>13. S \subseteq marked[s] /\ marked[s] \subseteq U /\ Closed(marked[s])
  <2>1. At(s)
    BY <1>1, <1>12 DEF P
  <2>2. ~(Cardinality(marked[s]) >= s)
    <3>1. IsFiniteSet(2..(s - 1)) /\ Cardinality(2..(s - 1)) = IF 2 > s - 1 THEN 0 ELSE (s - 1) - 2 + 1
      <4>1. 2 \in Int /\ s - 1 \in Int
        BY <1>1
      <4> QED
        BY <4>1, FS_Interval
    <3>2. marked[s] \subseteq 2..(s - 1)
      BY <1>1, <2>1
    <3>3. Cardinality(marked[s]) <= Cardinality(2..(s - 1)) /\ IsFiniteSet(marked[s])
      BY <3>1, <3>2, FS_Subset
    <3> DEFINE a == Cardinality(marked[s])
               b == Cardinality(2..(s - 1))
    <3>4. a \in Nat /\ b \in Nat /\ b < s /\ a <= b
      BY <1>1, <3>1, <3>3, FS_CardinalityType
    <3> HIDE DEF a, b
    <3>5. ~(a >= s)
      BY <1>1, <3>4
    <3> QED
      BY <3>5 DEF a
  <2> QED
    BY <2>1, <2>2
<1>14. ASSUME NEW C, S \subseteq C,
              \A n \in C \cap U : {tab[n].low, tab[n].high} \subseteq C \cup {0, 1}
       PROVE  marked[s] \subseteq C
  <2> DEFINE Q == {k \in 0..s : marked[k] \subseteq C}
  <2>1. 0 \in Q
    BY <1>1, <1>9, <1>14
  <2>2. ASSUME NEW k \in 1..s, k - 1 \in Q PROVE k \in Q
    <3> DEFINE X == marked[k - 1]
    <3>1. k - 1 \in 0..s /\ X \subseteq C /\ marked[k] = WithChildren(tab, X)
      BY <1>9, <2>2
    <3>2. X \subseteq U
      BY <1>12, <3>1 DEF P
    <3> HIDE DEF X
    <3>3. WithChildren(tab, X) \subseteq C
      BY <1>14, <3>1, <3>2 DEF WithChildren
    <3> QED
      BY <1>1, <3>1, <3>3
  <2> HIDE DEF Q
  <2>3. \A k \in 0..s : k \in Q
    BY <1>1, <2>1, <2>2, UpTo
  <2> QED
    BY <1>1, <2>3 DEF Q
<1> QED
  BY <1>8, <1>13, <1>14

LEMMA RootsUsed ==
    ASSUME NEW tab, NEW stack, stack \subseteq Used(tab) \cup {0, 1}
    PROVE  Roots(tab, stack) \subseteq Used(tab)
BY DEF Roots

-----------------------------------------------------------------------------
(* Room in the table.                                                      *)

LEMMA SmallerPrime ==
    ASSUME NEW n \in Nat, NEW p \in Nat, IsPrime(p), p <= n
    PROVE  PrimeLte(n) \in Nat /\ IsPrime(PrimeLte(n)) /\ p <= PrimeLte(n) /\ PrimeLte(n) <= n
<1> DEFINE S == {q \in 3..n : IsPrime(q)}
           R == {n - q : q \in S}
<1>1. p \in S
  BY DEF IsPrime
<1>2. R \in SUBSET Nat /\ R # {} /\ \A q \in S : q \in Nat /\ q <= n /\ IsPrime(q) /\ n - q \in R
  <2>1. \A q \in S : q \in Nat /\ q <= n /\ n - q \in Nat /\ IsPrime(q)
    OBVIOUS
  <2> HIDE DEF S
  <2> QED BY <1>1, <2>1
<1>3. PICK x \in R : \A y \in R : x <= y
  <2> HIDE DEF R
  <2> QED BY <1>2, LeastNumber
<1>4. PICK q \in S : x = n - q
  BY <1>3
<1> HIDE DEF S
<1>5. ASSUME NEW y \in S PROVE q >= y
  <2>1. y \in Nat /\ q \in Nat /\ n - y \in R
    BY <1>2, <1>4
  <2> HIDE DEF R
  <2>2. n - q <= n - y
    BY <1>3, <1>4, <2>1
  <2> QED
    BY <2>1, <2>2
<1>6. PrimeLte(n) = CHOOSE y \in S : \A z \in S : y >= z
  BY DEF PrimeLte, Max, S
<1>7. PrimeLte(n) \in S /\ \A z \in S : PrimeLte(n) >= z
  BY <1>4, <1>5, <1>6
<1> QED
  BY <1>1, <1>2, <1>7

LEMMA NewSizeFacts ==
    ASSUME NEW s \in Nat, IsPrime(s), bddmaxnodesize \in Nat
    PROVE  NewSize(s) \in Nat /\ IsPrime(NewSize(s)) /\ s <= NewSize(s)
<1> DEFINE two == IF 2 * s > s + MaxIncrease THEN s + MaxIncrease ELSE 2 * s
           top == IF two > bddmaxnodesize /\ bddmaxnodesize > 0 THEN bddmaxnodesize ELSE two
<1>1. two \in Nat /\ s <= two
  BY NodeTableAssumption
<1>2. CASE s >= bddmaxnodesize /\ bddmaxnodesize > 0
  BY <1>2 DEF NewSize
<1>3. CASE ~(s >= bddmaxnodesize /\ bddmaxnodesize > 0)
  <2>1. top \in Nat /\ s <= top
    BY <1>1, <1>3
  <2>2. NewSize(s) = PrimeLte(top)
    BY <1>3 DEF NewSize
  <2> HIDE DEF top
  <2> QED
    BY <2>1, <2>2, SmallerPrime
<1> QED
  BY <1>2, <1>3

LEMMA EnlargedRight ==
    ASSUME NEW tab, Array(tab), Reduced(tab), NEW size \in Nat, IsPrime(size), Size(tab) <= size,
           NEW t, t = Enlarged(tab, size)
    PROVE  /\ Array(t) /\ Reduced(t) /\ Listed(t, FirstFree(t, Used(t)), FreeCount(t, Used(t)))
           /\ Size(t) = size /\ Used(t) = Used(tab) /\ SameNodes(tab, t, Used(tab) \cup {0, 1})
<1> DEFINE big == [n \in 0..(size - 1) |-> IF n \in DOMAIN tab THEN tab[n] ELSE Empty]
<1>1. /\ Size(tab) \in Nat /\ Size(tab) >= 3 /\ DOMAIN tab = 0..(Size(tab) - 1)
      /\ 0 \in DOMAIN tab /\ 1 \in DOMAIN tab
      /\ \A n \in DOMAIN tab : tab[n] \in NodeRecords
      /\ Used(tab) \subseteq DOMAIN tab
  BY ArrayFacts
<1>2. Empty \in NodeRecords /\ Empty.low = -1
  BY NodeTableAssumption DEF Empty, NodeRecords
<1>3. \A n \in DOMAIN tab : n \in 0..(size - 1)
  BY <1>1
<1>4. DOMAIN big = 0..(size - 1) /\ Size(big) = size
  <2>1. DOMAIN big = 0..(size - 1)
    OBVIOUS
  <2> HIDE DEF big
  <2> QED BY <2>1, SizeIs
<1>5. \A n \in 0..(size - 1) : big[n] \in NodeRecords /\ (n \in DOMAIN tab => big[n] = tab[n])
                               /\ (n \notin DOMAIN tab => big[n].low = -1)
  <2> HIDE DEF Empty
  <2> QED BY <1>1, <1>2
<1>6. Array(big)
  <2>1. big \in [0..(size - 1) -> NodeRecords]
    <3>1. big = [n \in 0..(size - 1) |-> big[n]]
      OBVIOUS
    <3> HIDE DEF big
    <3> QED BY <1>5, <3>1
  <2> QED
    BY <1>4, <2>1 DEF Array
<1> HIDE DEF big
<1>7. Used(big) = Used(tab)
  BY <1>3, <1>4, <1>5 DEF Used
<1>8. /\ \A n \in Used(tab) : {big[n].low, big[n].high} \subseteq Used(big) \cup {0, 1}
      /\ \A m, n \in Used(tab) : Equal(big, m, n) => m = n
      /\ \A n \in Used(tab) \cup {0, 1} : big[n] = tab[n]
  <2>1. \A n \in Used(tab) \cup {0, 1} : big[n] = tab[n]
    BY <1>1, <1>3, <1>5
  <2> QED
    BY <1>7, <2>1 DEF Reduced, Equal
<1>9. t = Rehashed(big, Used(big))
  BY DEF Enlarged, big
<1>10. /\ Array(t) /\ Reduced(t) /\ Listed(t, FirstFree(t, Used(t)), FreeCount(t, Used(t)))
       /\ Size(t) = size /\ Used(t) = Used(big) /\ SameNodes(big, t, Used(big) \cup {0, 1})
  BY <1>4, <1>6, <1>7, <1>8, <1>9, RehashedRight
<1> QED
  BY <1>7, <1>8, <1>10 DEF SameNodes

\* bdd_gbc keeps what it marks, as it is.
LEMMA GbcRight ==
    ASSUME NEW tab, Array(tab), Reduced(tab), NEW stack, stack \subseteq Used(tab) \cup {0, 1},
           NEW keep, keep = Reach(tab, Roots(tab, stack)), NEW t, t = AfterGbc(tab, stack)
    PROVE  /\ Array(t) /\ Reduced(t) /\ Listed(t, FirstFree(t, Used(t)), FreeCount(t, Used(t)))
           /\ Size(t) = Size(tab) /\ Used(t) = keep /\ SameNodes(tab, t, keep \cup {0, 1})
           /\ keep \subseteq Used(tab) /\ stack \subseteq keep \cup {0, 1}
<1>1. Roots(tab, stack) \subseteq Used(tab)
  BY RootsUsed
<1>2. /\ keep \subseteq Used(tab) /\ Roots(tab, stack) \subseteq keep
      /\ \A n \in keep : {tab[n].low, tab[n].high} \subseteq keep \cup {0, 1}
  BY <1>1, ReachFacts
<1>3. \A m, n \in keep : Equal(tab, m, n) => m = n
  BY <1>2 DEF Reduced
<1>4. t = Rehashed(tab, keep)
  BY DEF AfterGbc
<1>5. stack \subseteq keep \cup {0, 1}
  BY <1>2 DEF Roots
<1> QED
  BY <1>2, <1>3, <1>4, <1>5, RehashedRight

LEMMA MadeRoomRight ==
    ASSUME NEW tab, Array(tab), Reduced(tab), NEW stack, stack \subseteq Used(tab) \cup {0, 1},
           NEW keep, keep = Reach(tab, Roots(tab, stack)), NEW t, t = MadeRoom(tab, stack),
           bddmaxnodesize \in Nat
    PROVE  /\ Array(t) /\ Reduced(t) /\ Listed(t, FirstFree(t, Used(t)), FreeCount(t, Used(t)))
           /\ Size(tab) <= Size(t) /\ Used(t) = keep /\ SameNodes(tab, t, keep \cup {0, 1})
           /\ Free(t) = {} => NewSize(Size(t)) = Size(t) /\ keep = 2..(Size(t) - 1)
<1> DEFINE g == AfterGbc(tab, stack)
           s == Size(tab)
           size == NewSize(s)
<1>1. /\ Array(g) /\ Reduced(g) /\ Listed(g, FirstFree(g, Used(g)), FreeCount(g, Used(g)))
      /\ Size(g) = s /\ Used(g) = keep /\ SameNodes(tab, g, keep \cup {0, 1})
  BY GbcRight
<1>2. t = IF (FreeCount(g, Used(g)) * 100) \div s <= MinFree THEN Enlarged(g, size) ELSE g
  BY <1>1 DEF MadeRoom, GrownIfShort
<1> HIDE DEF g
<1>3. /\ s \in Nat /\ s >= 3 /\ IsPrime(s)
      /\ DOMAIN g = 0..(s - 1) /\ Used(g) \subseteq DOMAIN g
  BY <1>1, ArrayFacts DEF Array
<1> HIDE DEF s
<1>4. size \in Nat /\ IsPrime(size) /\ s <= size
  BY <1>3, NewSizeFacts
<1> HIDE DEF size
<1>5. CASE (FreeCount(g, Used(g)) * 100) \div s <= MinFree
  <2>1. t = Enlarged(g, size)
    BY <1>2, <1>5
  <2>2. /\ Array(t) /\ Reduced(t) /\ Listed(t, FirstFree(t, Used(t)), FreeCount(t, Used(t)))
        /\ Size(t) = size /\ Used(t) = Used(g) /\ SameNodes(g, t, Used(g) \cup {0, 1})
    BY <1>1, <1>4, <2>1, EnlargedRight
  <2>3. SameNodes(tab, t, keep \cup {0, 1})
    BY <1>1, <2>2 DEF SameNodes
  <2>4. ASSUME Free(t) = {} PROVE NewSize(Size(t)) = Size(t) /\ keep = 2..(Size(t) - 1)
    <3>1. DOMAIN t = 0..(size - 1) /\ \A n \in Used(t) : n \in Nat /\ n >= 2
      BY <2>2, ArrayFacts
    <3>2. DOMAIN t = keep \cup {0, 1}
      <4>1. 0 \in DOMAIN t /\ 1 \in DOMAIN t /\ Used(t) \subseteq DOMAIN t
        BY <2>2, ArrayFacts
      <4> QED
        BY <1>1, <2>2, <2>4, <4>1 DEF Free
    <3>3. size = s
      <4>1. size - 1 \in DOMAIN t
        <5>1. size - 1 \in 0..(size - 1)
          BY <1>3, <1>4
        <5> QED
          BY <3>1, <5>1
      <4>2. size - 1 < s
        <5>1. size - 1 \in Used(g) \cup {0, 1}
          BY <1>1, <3>2, <4>1
        <5> QED
          BY <1>3, <1>4, <5>1
      <4> QED
        BY <1>3, <1>4, <4>2
    <3>4. keep = 2..(size - 1)
      <4>1. \A n \in keep : n \in 2..(size - 1)
        <5>1. \A n \in keep : n \in 0..(size - 1) /\ n >= 2
          BY <1>1, <2>2, <3>1, <3>2
        <5> QED
          BY <1>4, <5>1
      <4>2. \A n \in 2..(size - 1) : n \in keep
        <5>1. \A n \in 2..(size - 1) : n \in 0..(size - 1) /\ n # 0 /\ n # 1
          BY <1>4
        <5>2. \A n \in 2..(size - 1) : n \in DOMAIN t
          BY <3>1, <5>1, Zenon
        <5> QED
          BY <3>2, <5>1, <5>2
      <4> QED
        BY <4>1, <4>2
    <3> QED
      BY <2>2, <3>3, <3>4 DEF size
  <2> QED
    BY <1>1, <1>4, <2>2, <2>3, <2>4 DEF s
<1>6. CASE ~((FreeCount(g, Used(g)) * 100) \div s <= MinFree)
  <2>1. t = g
    BY <1>2, <1>6
  <2>2. Free(t) # {}
    <3>1. SUFFICES ASSUME Free(g) = {} PROVE FALSE
      BY <2>1
    <3>2. FreeCount(g, Used(g)) = 0
      BY <1>1, <3>1, FS_EmptySet DEF Listed
    <3>3. (0 * 100) \div s <= MinFree
      BY <1>3, NodeTableAssumption
    <3> QED
      BY <1>6, <3>2, <3>3
  <2> QED
    BY <1>1, <1>3, <2>1, <2>2 DEF s
<1> QED
  BY <1>5, <1>6

-----------------------------------------------------------------------------
(* bdd_makenode.                                                           *)

LEMMA ChainRight ==
    ASSUME NEW tab, Array(tab), NEW h \in DOMAIN tab, ListOf(tab, Members(tab, h), tab[h].hash)
    PROVE  Chain(tab, h) = Members(tab, h)
<1> DEFINE s == Size(tab)
           at == CHOOSE f : Walk(tab, tab[h].hash, s, f)
           S == Members(tab, h)
<1>1. s \in Nat /\ IsFiniteSet(S) /\ 0 \notin S /\ Cardinality(S) <= s
  <2>1. S \subseteq DOMAIN tab /\ IsFiniteSet(DOMAIN tab) /\ \A n \in S : n >= 2
    BY ArrayFacts DEF Members
  <2>2. IsFiniteSet(S) /\ Cardinality(S) <= Cardinality(DOMAIN tab)
    <3> HIDE DEF S
    <3> QED BY <2>1, FS_Subset
  <2> QED
    BY <2>1, <2>2, ArrayFacts DEF Size
<1>2. Walk(tab, tab[h].hash, s, at)
  <2>1. \E f : Walk(tab, tab[h].hash, s, f)
    BY <1>1, WalkExists
  <2> QED
    BY <2>1
<1>3. Chain(tab, h) = Visited(at, s) \ {0}
  BY DEF Chain, Walk, Visited
<1> HIDE DEF at, s, S
<1>4. Visited(at, s) = S \cup {0}
  <2>1. ListOf(tab, S, tab[h].hash)
    BY DEF S
  <2> QED
    BY <1>1, <1>2, <2>1, WalkReads
<1> QED
  BY <1>1, <1>3, <1>4 DEF S

LEMMA ListSame ==
    ASSUME NEW tab, NEW t, NEW S, NEW head, ListOf(tab, S, head), \A n \in S : t[n].next = tab[n].next
    PROVE  ListOf(t, S, head)
<1>1. PICK rank : Ranked(tab, S, head, rank)
  BY DEF ListOf
<1>2. Ranked(t, S, head, rank)
  BY <1>1 DEF Ranked
<1> QED
  BY <1>2 DEF ListOf

IsMem(m) == m = Made(m.tab, m.freepos, m.freenum, m.produced, m.err, m.res)

\* No node is of this form.
NoneSuch(tab, l, lo, hi) ==
    \A n \in Used(tab) : ~(tab[n].level = l /\ tab[n].low = lo /\ tab[n].high = hi)

\* The first free entry becomes a node.
Insertable(tab, fp, fn, l, lo, hi) ==
    /\ Array(tab) /\ Reduced(tab) /\ Listed(tab, fp, fn) /\ fp # 0
    /\ l \in Nat /\ lo \in Used(tab) \cup {0, 1} /\ hi \in Used(tab) \cup {0, 1}
    /\ NoneSuch(tab, l, lo, hi)
Inserted(tab, fp, fn, l, lo, hi, t) ==
    /\ Array(t) /\ Reduced(t) /\ Listed(t, tab[fp].next, fn - 1) /\ Size(t) = Size(tab)
    /\ Used(t) = Used(tab) \cup {fp} /\ fp \notin Used(tab)
    /\ SameNodes(tab, t, Used(tab) \cup {0, 1})
LEMMA LinkedRight ==
    ASSUME NEW tab, NEW fp, NEW fn, NEW l, NEW lo, NEW hi, Insertable(tab, fp, fn, l, lo, hi),
           NEW t, t = LinkIn(tab, fp, l, lo, hi, NODEHASH(tab, l, lo, hi))
    PROVE  Inserted(tab, fp, fn, l, lo, hi, t)
<1> DEFINE h == NODEHASH(tab, l, lo, hi)
<1>0. /\ Array(tab) /\ Reduced(tab) /\ Listed(tab, fp, fn) /\ fp # 0
      /\ l \in Nat /\ lo \in Used(tab) \cup {0, 1} /\ hi \in Used(tab) \cup {0, 1}
      /\ NoneSuch(tab, l, lo, hi) /\ h = NODEHASH(tab, l, lo, hi)
      /\ t = LinkIn(tab, fp, l, lo, hi, h)
  BY DEF Insertable
<1> HIDE DEF h
<1> USE <1>0
<1>1. /\ Size(tab) \in Nat /\ Size(tab) >= 3 /\ DOMAIN tab = 0..(Size(tab) - 1)
      /\ 0 \in DOMAIN tab /\ 1 \in DOMAIN tab
      /\ \A n \in DOMAIN tab : n \in Nat /\ tab[n] \in NodeRecords
      /\ Used(tab) \subseteq DOMAIN tab /\ \A n \in Used(tab) : n \in Nat /\ n >= 2
      /\ IsFiniteSet(Used(tab)) /\ IsFiniteSet(Free(tab)) /\ 0 \notin Free(tab)
      /\ Free(tab) \subseteq DOMAIN tab /\ \A n \in Free(tab) : n >= 2 /\ n \notin Used(tab)
  BY ArrayFacts
<1>2. /\ ListOf(tab, Free(tab), fp) /\ fn = Cardinality(Free(tab))
      /\ \A k \in DOMAIN tab : ListOf(tab, Members(tab, k), tab[k].hash)
  BY DEF Listed
<1>3. lo \in Nat /\ hi \in Nat
  BY <1>1
<1>4. h \in DOMAIN tab
  BY <1>3, HashFacts
<1>5. fp \in Free(tab)
  BY <1>2 DEF ListOf, Ranked
<1>6. fp \in DOMAIN tab /\ fp \in Nat /\ fp >= 2 /\ fp \notin Used(tab)
  BY <1>1, <1>5
<1>7. /\ DOMAIN t = DOMAIN tab
      /\ \A n \in DOMAIN tab :
           /\ t[n] \in NodeRecords /\ t[n].ref = tab[n].ref
           /\ t[n].level = IF n = fp THEN l ELSE tab[n].level
           /\ t[n].low = IF n = fp THEN lo ELSE tab[n].low
           /\ t[n].high = IF n = fp THEN hi ELSE tab[n].high
           /\ t[n].next = IF n = fp THEN tab[h].hash ELSE tab[n].next
           /\ t[n].hash = IF n = h THEN fp ELSE tab[n].hash
  <2> DEFINE a == [tab[fp] EXCEPT !.level = l, !.low = lo, !.high = hi, !.next = tab[h].hash]
             u == [tab EXCEPT ![fp] = a]
  <2>1. tab[fp] \in NodeRecords /\ tab[h].hash \in Nat
    BY <1>1, <1>4, <1>6, Fields
  <2>2. /\ a \in NodeRecords /\ a.level = l /\ a.low = lo /\ a.high = hi /\ a.next = tab[h].hash
        /\ a.hash = tab[fp].hash /\ a.ref = tab[fp].ref
    BY <1>3, <2>1 DEF NodeRecords
  <2>3. t = [u EXCEPT ![h].hash = fp]
    BY <1>4, <1>6 DEF LinkIn
  <2> HIDE DEF a
  <2>4. /\ DOMAIN u = DOMAIN tab /\ u[fp] = a
        /\ \A n \in DOMAIN tab : n # fp => u[n] = tab[n]
    BY <1>6
  <2> HIDE DEF u
  <2> DEFINE b == [u[h] EXCEPT !.hash = fp]
  <2>5. u[h] \in NodeRecords
    BY <1>1, <1>4, <2>2, <2>4
  <2>6. /\ b \in NodeRecords /\ b.level = u[h].level /\ b.low = u[h].low /\ b.high = u[h].high
        /\ b.next = u[h].next /\ b.hash = fp /\ b.ref = u[h].ref
    BY <1>6, <2>5 DEF NodeRecords
  <2>7. t = [u EXCEPT ![h] = b]
    BY <2>3
  <2> HIDE DEF b
  <2>8. DOMAIN t = DOMAIN tab /\ t[h] = b /\ \A n \in DOMAIN tab : n # h => t[n] = u[n]
    BY <1>4, <2>4, <2>7
  <2>9. ASSUME NEW n \in DOMAIN tab
        PROVE  /\ t[n] \in NodeRecords /\ t[n].ref = tab[n].ref
               /\ t[n].level = IF n = fp THEN l ELSE tab[n].level
               /\ t[n].low = IF n = fp THEN lo ELSE tab[n].low
               /\ t[n].high = IF n = fp THEN hi ELSE tab[n].high
               /\ t[n].next = IF n = fp THEN tab[h].hash ELSE tab[n].next
               /\ t[n].hash = IF n = h THEN fp ELSE tab[n].hash
    <3>1. tab[n] \in NodeRecords
      BY <1>1
    <3>2. CASE n = h
      BY <2>2, <2>4, <2>6, <2>8, <3>1, <3>2
    <3>3. CASE n # h
      BY <2>2, <2>4, <2>8, <3>1, <3>3
    <3> QED
      BY <3>2, <3>3
  <2> QED
    BY <2>8, <2>9
<1>8. Size(t) = Size(tab)
  BY <1>7 DEF Size
<1>9. Array(t)
  <2>1. t = [n \in DOMAIN tab |-> t[n]]
    BY <1>7 DEF LinkIn
  <2>2. t \in [DOMAIN tab -> NodeRecords]
    BY <1>7, <2>1
  <2> QED
    BY <1>1, <1>8, <2>2 DEF Array
<1>10. Used(t) = Used(tab) \cup {fp}
  <2>1. \A n \in DOMAIN tab : n >= 2 /\ t[n].low # -1 <=> n \in Used(tab) \/ n = fp
    BY <1>3, <1>6, <1>7 DEF Used
  <2> QED
    BY <1>1, <1>6, <1>7, <2>1 DEF Used
<1>11. Free(t) = Free(tab) \ {fp}
  BY <1>7, <1>10 DEF Free
<1>12. SameNodes(tab, t, Used(tab) \cup {0, 1})
  <2>1. \A n \in Used(tab) \cup {0, 1} : n \in DOMAIN tab /\ n # fp
    BY <1>1, <1>6
  <2> QED
    BY <1>7, <2>1 DEF SameNodes
<1>13. HashOf(t, fp) = h /\ \A n \in Used(tab) : HashOf(t, n) = HashOf(tab, n)
  <2>1. HashOf(t, fp) = h
    BY <1>6, <1>7, <1>8 DEF HashOf, NODEHASH
  <2>2. ASSUME NEW n \in Used(tab) PROVE HashOf(t, n) = HashOf(tab, n)
    <3>1. t[n].level = tab[n].level /\ t[n].low = tab[n].low /\ t[n].high = tab[n].high
      BY <1>12 DEF SameNodes
    <3> QED
      BY <1>8, <3>1 DEF HashOf, NODEHASH
  <2> QED
    BY <2>1, <2>2
<1>14. Reduced(t)
  <2>1. \A n \in Used(t) : {t[n].low, t[n].high} \subseteq Used(t) \cup {0, 1}
    BY <1>6, <1>7, <1>10, <1>12 DEF Reduced, SameNodes
  <2>2. \A m, n \in Used(t) : Equal(t, m, n) => m = n
    <3>1. t[fp].level = l /\ t[fp].low = lo /\ t[fp].high = hi
      BY <1>6, <1>7
    <3>2. \A n \in Used(tab) : /\ t[n].level = tab[n].level /\ t[n].low = tab[n].low
                               /\ t[n].high = tab[n].high
      BY <1>12 DEF SameNodes
    <3> QED
      BY <1>10, <3>1, <3>2 DEF Equal, Reduced, NoneSuch
  <2> QED
    BY <2>1, <2>2 DEF Reduced
<1>15. ASSUME NEW k \in DOMAIN t PROVE ListOf(t, Members(t, k), t[k].hash)
  <2> DEFINE S == Members(tab, k)
  <2>1. S \subseteq Used(tab) /\ \A n \in S : n \in DOMAIN tab /\ n # fp /\ n # 0
    BY <1>1, <1>6 DEF Members
  <2>2. IsFiniteSet(S) /\ 0 \notin S /\ fp \notin S
    <3> HIDE DEF S
    <3> QED BY <1>1, <2>1, FS_Subset
  <2>3. ListOf(tab, S, tab[k].hash) /\ \A n \in S : t[n].next = tab[n].next
    BY <1>2, <1>7, <2>1
  <2>4. CASE k = h
    <3>1. Members(t, k) = S \cup {fp} /\ t[k].hash = fp /\ t[fp].next = tab[k].hash
      BY <1>4, <1>6, <1>7, <1>10, <1>13, <2>4 DEF Members
    <3> HIDE DEF S
    <3>2. ListOf(t, S \cup {fp}, fp)
      BY <1>6, <2>2, <2>3, <3>1, ListPush
    <3> QED
      BY <3>1, <3>2
  <2>5. CASE k # h
    <3>1. Members(t, k) = S /\ t[k].hash = tab[k].hash
      BY <1>6, <1>7, <1>10, <1>13, <2>5 DEF Members
    <3> HIDE DEF S
    <3> QED
      BY <2>3, <3>1, ListSame
  <2> QED
    BY <2>4, <2>5
<1>16. ListOf(t, Free(t), tab[fp].next)
  <2>1. \A n \in Free(tab) \ {fp} : t[n].next = tab[n].next
    BY <1>1, <1>7
  <2> DEFINE S == Free(tab)
  <2>2. ListOf(t, S \ {fp}, tab[fp].next)
    <3>1. IsFiniteSet(S) /\ 0 \notin S /\ ListOf(tab, S, fp) /\ \A n \in S \ {fp} : t[n].next = tab[n].next
      BY <1>1, <1>2, <2>1
    <3> HIDE DEF S
    <3> QED
      BY <3>1, ListPop
  <2> QED
    BY <1>11, <2>2
<1>17. fn - 1 = Cardinality(Free(t))
  BY <1>1, <1>2, <1>5, <1>11, FS_RemoveElement
<1>18. Listed(t, tab[fp].next, fn - 1)
  BY <1>15, <1>16, <1>17 DEF Listed
<1> QED
  BY <1>6, <1>8, <1>9, <1>10, <1>12, <1>14, <1>18 DEF Inserted

LEMMA MadeFields ==
    ASSUME NEW m, NEW t, NEW fp, NEW fn, NEW p, NEW e, NEW q, m = Made(t, fp, fn, p, e, q)
    PROVE  /\ IsMem(m) /\ m.tab = t /\ m.freepos = fp /\ m.freenum = fn
           /\ m.produced = p /\ m.err = e /\ m.res = q
BY DEF IsMem, Made

\* A field of the record changed.
LEMMA ResultSet ==
    ASSUME NEW m, IsMem(m), NEW q, NEW r, r = [m EXCEPT !.res = q]
    PROVE  /\ IsMem(r) /\ r.tab = m.tab /\ r.freepos = m.freepos /\ r.freenum = m.freenum
           /\ r.produced = m.produced /\ r.err = m.err /\ r.res = q
<1>1. r = Made(m.tab, m.freepos, m.freenum, m.produced, m.err, q)
  BY DEF IsMem, Made
<1> QED
  BY <1>1, MadeFields

LEMMA TableSet ==
    ASSUME NEW m, IsMem(m), NEW t, NEW r, r = [m EXCEPT !.tab = t]
    PROVE  /\ IsMem(r) /\ r.tab = t /\ r.freepos = m.freepos /\ r.freenum = m.freenum
           /\ r.produced = m.produced /\ r.err = m.err /\ r.res = m.res
<1>1. r = Made(t, m.freepos, m.freenum, m.produced, m.err, m.res)
  BY DEF IsMem, Made
<1> QED
  BY <1>1, MadeFields

LEMMA WithTableIs ==
    ASSUME NEW m, IsMem(m), NEW t, NEW r, r = WithTable(m, t)
    PROVE  /\ IsMem(r) /\ r.tab = t /\ r.freepos = FirstFree(t, Used(t))
           /\ r.freenum = FreeCount(t, Used(t)) /\ r.produced = m.produced /\ r.err = m.err
<1> DEFINE x == FirstFree(t, Used(t))
           y == FreeCount(t, Used(t))
<1>1. r = [m EXCEPT !.tab = t, !.freepos = x, !.freenum = y]
  BY DEF WithTable
<1> HIDE DEF x, y
<1>2. r = Made(t, x, y, m.produced, m.err, m.res)
  BY <1>1 DEF IsMem, Made
<1>3. /\ IsMem(r) /\ r.tab = t /\ r.freepos = x /\ r.freenum = y
      /\ r.produced = m.produced /\ r.err = m.err
  BY <1>2, MadeFields
<1> QED
  BY <1>3 DEF x, y

\* What a call leaves: the nodes of keep are as they were, and a call that is
\* refused for want of room has found nothing to collect and no way to grow.
Grew(tab, r, keep) ==
    /\ IsMem(r) /\ Sound(r)
    /\ r.err \in {"none", "BDD_ILLBDD", "BDD_NODENUM"} /\ r.res \in Used(r.tab) \cup {0, 1}
    /\ keep \subseteq Used(r.tab) /\ SameNodes(tab, r.tab, keep \cup {0, 1})
    /\ r.err = "BDD_NODENUM" =>
           /\ Used(r.tab) = keep /\ keep = 2..(Size(r.tab) - 1)
           /\ NewSize(Size(r.tab)) = Size(r.tab)

LEMMA NewNodeRight ==
    ASSUME NEW m, IsMem(m), Sound(m), m.err = "none", NEW keep, keep \subseteq Used(m.tab),
           NEW l \in Nat, NEW lo \in Used(m.tab) \cup {0, 1}, NEW hi \in Used(m.tab) \cup {0, 1},
           NoneSuch(m.tab, l, lo, hi),
           Free(m.tab) = {} => /\ Used(m.tab) = keep /\ keep = 2..(Size(m.tab) - 1)
                               /\ NewSize(Size(m.tab)) = Size(m.tab),
           NEW r, r = NewNode(m, l, lo, hi), NEW tab, tab = m.tab
    PROVE  Grew(tab, r, keep)
<1> DEFINE fp == m.freepos
           h == NODEHASH(tab, l, lo, hi)
<1>1. Array(tab) /\ Reduced(tab) /\ Listed(tab, fp, m.freenum)
  BY DEF Sound
<1>2. SameNodes(tab, tab, keep \cup {0, 1})
  BY DEF SameNodes
<1>3. CASE fp = 0
  <2>1. r = Refused(m, "BDD_NODENUM")
    BY <1>3 DEF NewNode, Linked
  <2>2. IsMem(r) /\ r.tab = tab /\ r.freepos = fp /\ r.freenum = m.freenum /\ r.err = "BDD_NODENUM" /\ r.res = 0
    BY <2>1, MadeFields DEF Refused
  <2>3. Free(tab) = {}
    <3>1. 0 \notin Free(tab)
      BY <1>1, ArrayFacts
    <3> QED
      BY <1>1, <1>3, <3>1 DEF Listed, ListOf, Ranked
  <2>4. Sound(r)
    BY <1>1, <2>2 DEF Sound
  <2> QED
    BY <1>2, <2>2, <2>3, <2>4 DEF Grew
<1>4. CASE fp # 0
  <2> DEFINE t == LinkIn(tab, fp, l, lo, hi, h)
  <2>1. r = Made(t, tab[fp].next, m.freenum - 1, m.produced + 1, m.err, fp)
    <3>1. r = Linked(m, fp, l, lo, hi, h)
      BY DEF NewNode
    <3> HIDE DEF h, fp
    <3> QED
      BY <1>4, <3>1 DEF Linked
  <2>2. /\ Array(t) /\ Reduced(t) /\ Listed(t, tab[fp].next, m.freenum - 1)
        /\ Used(t) = Used(tab) \cup {fp} /\ SameNodes(tab, t, Used(tab) \cup {0, 1})
    <3> DEFINE fn == m.freenum
    <3>1. Insertable(tab, fp, fn, l, lo, hi)
      BY <1>1, <1>4 DEF Insertable
    <3> HIDE DEF h, fp, fn
    <3>2. t = LinkIn(tab, fp, l, lo, hi, NODEHASH(tab, l, lo, hi))
      BY DEF h
    <3> HIDE DEF t
    <3>3. Inserted(tab, fp, fn, l, lo, hi, t)
      BY <3>1, <3>2, LinkedRight
    <3> QED
      BY <3>3 DEF Inserted, fn
  <2> HIDE DEF t
  <2>3. IsMem(r) /\ r.tab = t /\ r.freepos = tab[fp].next /\ r.freenum = m.freenum - 1 /\ r.err = "none" /\ r.res = fp
    BY <2>1, MadeFields
  <2>4. Sound(r)
    BY <2>2, <2>3 DEF Sound
  <2>5. SameNodes(tab, t, keep \cup {0, 1})
    BY <2>2 DEF SameNodes
  <2> QED
    BY <2>2, <2>3, <2>4, <2>5 DEF Grew
<1> QED
  BY <1>3, <1>4

LEMMA MakenodeRight ==
    ASSUME NEW m, IsMem(m), Sound(m), m.err = "none", bddmaxnodesize \in Nat,
           NEW stack, stack \subseteq Used(m.tab) \cup {0, 1},
           NEW tab, tab = m.tab, NEW keep, keep = Reach(tab, Roots(tab, stack)),
           NEW l \in Nat, NEW lo \in keep \cup {0, 1}, NEW hi \in keep \cup {0, 1},
           NEW r, r = makenode(m, l, lo, hi, stack)
    PROVE  Grew(tab, r, keep)
<1> DEFINE h == NODEHASH(tab, l, lo, hi)
           found == {n \in Chain(tab, h) : tab[n].level = l /\ tab[n].low = lo /\ tab[n].high = hi}
<1>1. Array(tab) /\ Reduced(tab) /\ Listed(tab, m.freepos, m.freenum)
  BY DEF Sound
<1>2. keep \subseteq Used(tab) /\ lo \in Used(tab) \cup {0, 1} /\ hi \in Used(tab) \cup {0, 1}
  <2>1. keep \subseteq Used(tab)
    BY <1>1, RootsUsed, ReachFacts
  <2> QED
    BY <2>1
<1>3. lo \in Nat /\ hi \in Nat
  <2>1. \A n \in Used(tab) : n \in Nat
    BY <1>1, ArrayFacts
  <2> QED
    BY <1>2, <2>1
<1>4. h \in DOMAIN tab
  BY <1>1, <1>3, HashFacts
<1>5. SameNodes(tab, tab, keep \cup {0, 1})
  BY DEF SameNodes
<1>6. Chain(tab, h) = {n \in Used(tab) : HashOf(tab, n) = h}
  <2> HIDE DEF h
  <2>1. ListOf(tab, Members(tab, h), tab[h].hash)
    BY <1>1, <1>4 DEF Listed
  <2>2. Chain(tab, h) = Members(tab, h)
    BY <1>1, <1>4, <2>1, ChainRight
  <2> QED
    BY <2>2 DEF Members
<1>7. ASSUME NEW q \in Used(tab) \cup {0, 1}, r = [m EXCEPT !.res = q] PROVE Grew(tab, r, keep)
  <2>1. IsMem(r) /\ r.tab = tab /\ r.freepos = m.freepos /\ r.freenum = m.freenum /\ r.err = "none" /\ r.res = q
    BY <1>7, ResultSet
  <2>2. Sound(r)
    BY <1>1, <2>1 DEF Sound
  <2> QED
    BY <1>2, <1>5, <2>1, <2>2 DEF Grew
<1>8. CASE lo = hi
  <2>1. r = [m EXCEPT !.res = lo]
    BY <1>8 DEF makenode
  <2> QED
    BY <1>2, <1>7, <2>1
<1>9. CASE lo # hi /\ found # {}
  <2> DEFINE q == CHOOSE n \in found : TRUE
  <2>1. q \in Used(tab) \cup {0, 1}
    BY <1>6, <1>9
  <2>2. r = [m EXCEPT !.res = q]
    BY <1>9 DEF makenode
  <2> HIDE DEF q
  <2> QED
    BY <1>7, <2>1, <2>2
<1>10. CASE lo # hi /\ found = {} /\ (l >= tab[lo].level \/ l >= tab[hi].level)
  <2>1. r = Refused(m, "BDD_ILLBDD")
    BY <1>10 DEF makenode
  <2>2. IsMem(r) /\ r.tab = tab /\ r.freepos = m.freepos /\ r.freenum = m.freenum /\ r.err = "BDD_ILLBDD" /\ r.res = 0
    BY <2>1, MadeFields DEF Refused
  <2>3. Sound(r)
    BY <1>1, <2>2 DEF Sound
  <2> QED
    BY <1>2, <1>5, <2>2, <2>3 DEF Grew
<1>11. CASE lo # hi /\ found = {} /\ ~(l >= tab[lo].level \/ l >= tab[hi].level)
  <2> DEFINE m1 == IF m.freepos # 0 THEN m ELSE WithTable(m, MadeRoom(tab, stack))
  <2>1. r = NewNode(m1, l, lo, hi)
    BY <1>11 DEF makenode
  <2>2. NoneSuch(tab, l, lo, hi)
    <3>1. SUFFICES ASSUME NEW n \in Used(tab), tab[n].level = l, tab[n].low = lo, tab[n].high = hi
                   PROVE  FALSE
      BY DEF NoneSuch
    <3>2. HashOf(tab, n) = h
      BY <3>1 DEF HashOf
    <3> HIDE DEF h
    <3>3. n \in found
      BY <1>6, <3>1, <3>2
    <3> QED
      BY <1>11, <3>3
  <2> HIDE DEF h, found
  <2>3. CASE m.freepos # 0
    <3>1. m1 = m
      BY <2>3
    <3>2. Free(tab) # {}
      BY <1>1, <2>3 DEF Listed, ListOf, Ranked
    <3>3. r = NewNode(m, l, lo, hi)
      BY <2>1, <3>1
    <3> HIDE DEF m1
    <3> QED
      BY <1>2, <2>2, <3>2, <3>3, NewNodeRight
  <2>4. CASE m.freepos = 0
    <3> DEFINE t == MadeRoom(tab, stack)
    <3>1. m1 = WithTable(m, t)
      BY <2>4
    <3> HIDE DEF m1
    <3>2. /\ Array(t) /\ Reduced(t) /\ Listed(t, FirstFree(t, Used(t)), FreeCount(t, Used(t)))
          /\ Used(t) = keep /\ SameNodes(tab, t, keep \cup {0, 1})
          /\ Free(t) = {} => NewSize(Size(t)) = Size(t) /\ keep = 2..(Size(t) - 1)
      BY <1>1, MadeRoomRight
    <3> HIDE DEF t
    <3>3. /\ IsMem(m1) /\ m1.tab = t /\ m1.err = "none"
          /\ m1.freepos = FirstFree(t, Used(t)) /\ m1.freenum = FreeCount(t, Used(t))
      BY <3>1, WithTableIs
    <3>4. Sound(m1)
      BY <3>2, <3>3 DEF Sound
    <3>5. NoneSuch(t, l, lo, hi)
      BY <1>2, <2>2, <3>2 DEF SameNodes, NoneSuch
    <3>7. Grew(t, r, keep)
      BY <2>1, <3>2, <3>3, <3>4, <3>5, NewNodeRight
    <3>8. SameNodes(tab, r.tab, keep \cup {0, 1})
      BY <3>2, <3>7 DEF Grew, SameNodes
    <3> QED
      BY <3>7, <3>8 DEF Grew
  <2> QED
    BY <2>3, <2>4
<1> QED
  BY <1>8, <1>9, <1>10, <1>11

-----------------------------------------------------------------------------
(* Counts, and the level of the constants.                                 *)

Recounted(tab, t) ==
    /\ DOMAIN t = DOMAIN tab
    /\ \A n \in DOMAIN tab :
         /\ t[n] \in NodeRecords /\ t[n].low = tab[n].low /\ t[n].high = tab[n].high
         /\ t[n].hash = tab[n].hash /\ t[n].next = tab[n].next
         /\ n >= 2 => t[n].level = tab[n].level

LEMMA RecountedRight ==
    ASSUME NEW tab, NEW fp, NEW fn, Array(tab), Reduced(tab), Listed(tab, fp, fn),
           NEW t, Recounted(tab, t), t = [n \in DOMAIN t |-> t[n]]
    PROVE  Array(t) /\ Reduced(t) /\ Listed(t, fp, fn) /\ Size(t) = Size(tab) /\ Used(t) = Used(tab)
<1>1. Size(t) = Size(tab)
  BY DEF Recounted, Size
<1>2. Array(t)
  <2>1. t \in [DOMAIN tab -> NodeRecords]
    BY DEF Recounted
  <2> QED
    BY <1>1, <2>1, ArrayFacts DEF Array
<1>3. Used(t) = Used(tab) /\ Free(t) = Free(tab)
  BY DEF Recounted, Used, Free
<1>4. \A n \in Used(tab) : /\ n \in DOMAIN tab /\ t[n].level = tab[n].level /\ t[n].low = tab[n].low
                           /\ t[n].high = tab[n].high
  <2>1. \A n \in Used(tab) : n \in DOMAIN tab /\ n >= 2
    BY ArrayFacts
  <2> QED
    BY <2>1 DEF Recounted
<1>5. Reduced(t)
  BY <1>3, <1>4 DEF Reduced, Equal
<1>6. \A n \in Used(tab) : HashOf(t, n) = HashOf(tab, n)
  BY <1>1, <1>4 DEF HashOf, NODEHASH
<1>7. \A h : Members(t, h) = Members(tab, h)
  BY <1>3, <1>6 DEF Members
<1>8. ASSUME NEW h \in DOMAIN t PROVE ListOf(t, Members(t, h), t[h].hash)
  <2> DEFINE S == Members(tab, h)
  <2>1. /\ ListOf(tab, S, tab[h].hash) /\ t[h].hash = tab[h].hash
        /\ \A n \in S : t[n].next = tab[n].next
    BY <1>4 DEF Listed, Recounted, Members
  <2> HIDE DEF S
  <2>2. ListOf(t, S, t[h].hash)
    BY <2>1, ListSame
  <2> QED
    BY <1>7, <2>2 DEF S
<1>9. ListOf(t, Free(t), fp)
  <2> DEFINE S == Free(tab)
  <2>1. ListOf(tab, S, fp) /\ \A n \in S : t[n].next = tab[n].next
    BY ArrayFacts DEF Listed, Recounted
  <2> HIDE DEF S
  <2>2. ListOf(t, S, fp)
    BY <2>1, ListSame
  <2> QED
    BY <1>3, <2>2 DEF S
<1>10. fn = Cardinality(Free(t))
  BY <1>3 DEF Listed
<1> QED
  BY <1>1, <1>2, <1>3, <1>5, <1>8, <1>9, <1>10 DEF Listed

LEMMA CountSet ==
    ASSUME NEW tab, Array(tab), NEW n, NEW c \in 0..MAXREF, NEW t, t = [tab EXCEPT ![n].ref = c]
    PROVE  Recounted(tab, t) /\ t = [m \in DOMAIN t |-> t[m]]
<1> DEFINE a == [tab[n] EXCEPT !.ref = c]
<1>1. \A m \in DOMAIN tab : tab[m] \in NodeRecords
  BY ArrayFacts
<1>2. n \in DOMAIN tab =>
        /\ a \in NodeRecords /\ a.low = tab[n].low /\ a.high = tab[n].high
        /\ a.hash = tab[n].hash /\ a.next = tab[n].next /\ a.level = tab[n].level
  BY <1>1 DEF NodeRecords
<1>3. t = [tab EXCEPT ![n] = a]
  OBVIOUS
<1> HIDE DEF a
<1>4. DOMAIN t = DOMAIN tab /\ \A m \in DOMAIN tab : t[m] = IF m = n THEN a ELSE tab[m]
  BY <1>3
<1>5. Recounted(tab, t)
  BY <1>1, <1>2, <1>4 DEF Recounted
<1> QED
  BY <1>3, <1>5

LEMMA LevelSet ==
    ASSUME NEW tab, Array(tab), NEW num \in Nat,
           NEW t, t = [tab EXCEPT ![0].level = num, ![1].level = num]
    PROVE  Recounted(tab, t) /\ t = [m \in DOMAIN t |-> t[m]]
<1> DEFINE a == [tab[0] EXCEPT !.level = num]
           b == [tab[1] EXCEPT !.level = num]
<1>1. 0 \in DOMAIN tab /\ 1 \in DOMAIN tab /\ \A m \in DOMAIN tab : m \in Nat /\ tab[m] \in NodeRecords
  BY ArrayFacts
<1>2. /\ a \in NodeRecords /\ a.low = tab[0].low /\ a.high = tab[0].high
      /\ a.hash = tab[0].hash /\ a.next = tab[0].next
      /\ b \in NodeRecords /\ b.low = tab[1].low /\ b.high = tab[1].high
      /\ b.hash = tab[1].hash /\ b.next = tab[1].next
  BY <1>1 DEF NodeRecords
<1> DEFINE u == [tab EXCEPT ![0] = a]
<1>3. t = [u EXCEPT ![1] = b]
  BY <1>1
<1> HIDE DEF a, b
<1>4. DOMAIN u = DOMAIN tab /\ u[0] = a /\ \A m \in DOMAIN tab : m # 0 => u[m] = tab[m]
  BY <1>1
<1> HIDE DEF u
<1>5. DOMAIN t = DOMAIN tab /\ t[0] = a /\ t[1] = b /\ \A m \in DOMAIN tab : m \notin {0, 1} => t[m] = tab[m]
  BY <1>1, <1>3, <1>4
<1>6. ASSUME NEW m \in DOMAIN tab
      PROVE  /\ t[m] \in NodeRecords /\ t[m].low = tab[m].low /\ t[m].high = tab[m].high
             /\ t[m].hash = tab[m].hash /\ t[m].next = tab[m].next
             /\ m >= 2 => t[m].level = tab[m].level
  <2>1. CASE m = 0
    BY <1>2, <1>5, <2>1
  <2>2. CASE m = 1
    BY <1>2, <1>5, <2>2
  <2>3. CASE m \notin {0, 1}
    BY <1>1, <1>5, <2>3
  <2> QED
    BY <2>1, <2>2, <2>3
<1>7. Recounted(tab, t)
  BY <1>5, <1>6 DEF Recounted
<1> QED
  BY <1>3, <1>7

-----------------------------------------------------------------------------
(* bdd_setvarnum.                                                          *)

Errors == {"none", "BDD_ILLBDD", "BDD_NODENUM"}
Usable(m) == IsMem(m) /\ Sound(m) /\ m.err \in Errors

LEMMA PinnedRight ==
    ASSUME NEW m, Usable(m), NEW n, NEW r, r = Pinned(m, n)
    PROVE  Usable(r)
<1> DEFINE t == [m.tab EXCEPT ![n].ref = MAXREF]
           u == [t EXCEPT ![m.res].ref = MAXREF]
<1>1. Array(m.tab) /\ Reduced(m.tab) /\ Listed(m.tab, m.freepos, m.freenum) /\ MAXREF \in 0..MAXREF
  BY NodeTableAssumption DEF Usable, Sound
<1>2. Recounted(m.tab, t) /\ t = [k \in DOMAIN t |-> t[k]]
  BY <1>1, CountSet
<1>3. Array(t) /\ Reduced(t) /\ Listed(t, m.freepos, m.freenum)
  <2> HIDE DEF t
  <2> QED BY <1>1, <1>2, RecountedRight
<1>4. Recounted(t, u) /\ u = [k \in DOMAIN u |-> u[k]]
  <2> HIDE DEF t
  <2> QED BY <1>1, <1>3, CountSet
<1>5. Array(u) /\ Reduced(u) /\ Listed(u, m.freepos, m.freenum)
  <2> HIDE DEF t, u
  <2> QED BY <1>3, <1>4, RecountedRight
<1>6. r = [m EXCEPT !.tab = u]
  BY DEF Pinned
<1> HIDE DEF t, u
<1>7. IsMem(r) /\ r.tab = u /\ r.freepos = m.freepos /\ r.freenum = m.freenum /\ r.err = m.err
  BY <1>6, TableSet DEF Usable
<1> QED
  BY <1>5, <1>7 DEF Usable, Sound

LEMMA NodesOfRight ==
    ASSUME NEW m, Usable(m), NEW v \in Nat, bddmaxnodesize \in Nat
    PROVE  Usable(NodesOf(m, v))
<1>1. CASE m.err # "none"
  BY <1>1 DEF NodesOf
<1>2. CASE m.err = "none"
  <2> DEFINE p == makenode(m, v, 0, 1, {})
             keep == Reach(m.tab, Roots(m.tab, {}))
  <2>1. Grew(m.tab, p, keep)
    BY <1>2, MakenodeRight DEF Usable
  <2> HIDE DEF p, keep
  <2>2. Usable(p) /\ p.res \in Used(p.tab) \cup {0, 1}
    BY <2>1 DEF Grew, Usable, Errors
  <2>3. NodesOf(m, v) = NegatedToo(p, v)
    BY <1>2 DEF NodesOf, p
  <2>4. CASE p.err # "none"
    BY <2>2, <2>3, <2>4 DEF NegatedToo
  <2>5. CASE p.err = "none"
    <3> DEFINE q == makenode(p, v, 1, 0, {p.res})
               held == Reach(p.tab, Roots(p.tab, {p.res}))
    <3>1. Grew(p.tab, q, held)
      <4>1. {p.res} \subseteq Used(p.tab) \cup {0, 1}
        BY <2>2
      <4> QED
        BY <2>2, <2>5, <4>1, MakenodeRight DEF Usable
    <3> HIDE DEF q, held
    <3>2. Usable(q)
      BY <3>1 DEF Grew, Usable, Errors
    <3>3. NegatedToo(p, v) = IF q.err # "none" THEN q ELSE Pinned(q, p.res)
      BY <2>5 DEF NegatedToo, q
    <3>4. Usable(Pinned(q, p.res))
      BY <3>2, PinnedRight
    <3> QED
      BY <2>3, <3>2, <3>3, <3>4
  <2> QED
    BY <2>4, <2>5
<1> QED
  BY <1>1, <1>2

Declared(f, n) == f = [v \in 0..n |-> IF v = 0 THEN Now ELSE NodesOf(f[v - 1], v - 1)]

LEMMA DeclaredExists ==
    ASSUME NEW num \in Nat
    PROVE  \E f : Declared(f, num)
<1> DEFINE P == {n \in 0..num : \E f : Declared(f, n)}
<1>1. 0 \in P
  <2> DEFINE f == [v \in 0..0 |-> Now]
  <2>1. DOMAIN f = {0} /\ f[0] = Now /\ f = [v \in 0..0 |-> f[v]]
    OBVIOUS
  <2> HIDE DEF f
  <2>2. Declared(f, 0)
    BY <2>1 DEF Declared
  <2> QED
    BY <2>2
<1>2. ASSUME NEW n \in 1..num, n - 1 \in P PROVE n \in P
  <2>1. PICK f : Declared(f, n - 1)
    BY <1>2
  <2> DEFINE last == NodesOf(f[n - 1], n - 1)
             g == [v \in 0..n |-> IF v = n THEN last ELSE f[v]]
  <2>2. /\ DOMAIN f = 0..(n - 1)
        /\ \A v \in 0..(n - 1) : f[v] = IF v = 0 THEN Now ELSE NodesOf(f[v - 1], v - 1)
    BY <2>1 DEF Declared
  <2>3. g = [v \in 0..n |-> g[v]] /\ g[n] = last /\ \A v \in 0..(n - 1) : g[v] = f[v]
    OBVIOUS
  <2>4. last = NodesOf(g[n - 1], n - 1)
    <3>1. n - 1 \in 0..(n - 1)
      OBVIOUS
    <3>2. g[n - 1] = f[n - 1]
      BY <2>3, <3>1
    <3> QED
      BY <3>2
  <2> HIDE DEF g, last
  <2>5. \A v \in 0..n : g[v] = IF v = 0 THEN Now ELSE NodesOf(g[v - 1], v - 1)
    <3>1. ASSUME NEW v \in 0..n PROVE g[v] = IF v = 0 THEN Now ELSE NodesOf(g[v - 1], v - 1)
      <4>1. CASE v = n
        BY <2>3, <2>4, <4>1
      <4>2. CASE v # n /\ v = 0
        <5>1. v \in 0..(n - 1)
          BY <4>2
        <5> QED
          BY <2>2, <2>3, <4>2, <5>1
      <4>3. CASE v # n /\ v # 0
        <5>1. v \in 0..(n - 1) /\ v - 1 \in 0..(n - 1)
          BY <4>3
        <5>2. g[v] = f[v] /\ g[v - 1] = f[v - 1] /\ f[v] = NodesOf(f[v - 1], v - 1)
          BY <2>2, <2>3, <4>3, <5>1
        <5> QED
          BY <4>3, <5>2
      <4> QED
        BY <4>1, <4>2, <4>3
    <3> QED
      BY <3>1
  <2>6. Declared(g, n)
    BY <2>3, <2>5 DEF Declared
  <2> QED
    BY <2>6
<1> HIDE DEF P
<1>3. \A k \in 0..num : k \in P
  BY <1>1, <1>2, UpTo
<1> QED
  BY <1>3 DEF P

LEMMA WithVarsRight ==
    ASSUME varnum = 0, Usable(Now), bddmaxnodesize \in Nat, NEW num \in Nat
    PROVE  Usable(WithVars(num))
<1> DEFINE f == CHOOSE g : Declared(g, num)
<1>1. Declared(f, num)
  <2>1. \E g : Declared(g, num)
    BY DeclaredExists
  <2> QED
    BY <2>1
<1>2. WithVars(num) = f[num]
  BY DEF WithVars, Declared
<1> HIDE DEF f
<1>3. /\ f[0] = Now
      /\ \A v \in 1..num : f[v] = NodesOf(f[v - 1], v - 1)
  BY <1>1 DEF Declared
<1> DEFINE P == {v \in 0..num : Usable(f[v])}
<1>4. 0 \in P
  BY <1>3
<1>5. ASSUME NEW v \in 1..num, v - 1 \in P PROVE v \in P
  <2>1. Usable(f[v - 1]) /\ v - 1 \in Nat
    BY <1>5
  <2>2. Usable(NodesOf(f[v - 1], v - 1))
    BY <2>1, NodesOfRight
  <2> QED
    BY <1>3, <2>2
<1> HIDE DEF P
<1>6. \A v \in 0..num : v \in P
  BY <1>4, <1>5, UpTo
<1> QED
  BY <1>2, <1>6 DEF P

-----------------------------------------------------------------------------
(* The invariant.                                                          *)

TableInv ==
    /\ Usable(Now) /\ bddmaxnodesize \in Nat /\ varnum \in Nat
    /\ kept \subseteq Used(node)
    /\ varnum = 0 /\ err = "none" => Used(node) = {}
    /\ FullMeansFull

LEMMA NowIs ==
    /\ IsMem(Now) /\ Now.tab = node /\ Now.freepos = freepos /\ Now.freenum = freenum
    /\ Now.produced = produced /\ Now.err = err
BY MadeFields DEF Now

LEMMA InvIs ==
    /\ Usable(Now) <=> /\ Array(node) /\ Reduced(node) /\ Listed(node, freepos, freenum)
                       /\ err \in Errors
    /\ Usable(Now)' <=> /\ Array(node') /\ Reduced(node') /\ Listed(node', freepos', freenum')
                        /\ err' \in Errors
<1>1. Usable(Now) <=> Array(node) /\ Reduced(node) /\ Listed(node, freepos, freenum) /\ err \in Errors
  BY NowIs DEF Usable, Sound
<1>2. \A t, fp, fn, p, e : Usable(Made(t, fp, fn, p, e, 0)) <=> Array(t) /\ Reduced(t) /\ Listed(t, fp, fn) /\ e \in Errors
  <2> TAKE t, fp, fn, p, e
  <2> DEFINE m == Made(t, fp, fn, p, e, 0)
  <2>1. IsMem(m) /\ m.tab = t /\ m.freepos = fp /\ m.freenum = fn /\ m.err = e
    BY MadeFields
  <2> HIDE DEF m
  <2>2. Usable(m) <=> Array(t) /\ Reduced(t) /\ Listed(t, fp, fn) /\ e \in Errors
    BY <2>1 DEF Usable, Sound
  <2> QED
    BY <2>2 DEF m
<1>3. Usable(Now)' <=> Usable(Made(node', freepos', freenum', produced', err', 0))
  BY DEF Now
<1> QED
  BY <1>1, <1>2, <1>3

LEMMA FirstPrime ==
    PrimeGte(InitSize) \in Nat /\ IsPrime(PrimeGte(InitSize))
<1> DEFINE S == {p \in InitSize..(2 * InitSize) : IsPrime(p)}
<1>1. S # {} /\ S \in SUBSET Nat
  BY PrimeAssumption, NodeTableAssumption
<1>2. \A p \in S : IsPrime(p)
  OBVIOUS
<1>3. PrimeGte(InitSize) = CHOOSE x \in S : \A y \in S : x <= y
  BY DEF PrimeGte, Min
<1> HIDE DEF S
<1>4. \E x \in S : \A y \in S : x <= y
  BY <1>1, LeastNumber
<1>5. PrimeGte(InitSize) \in S
  BY <1>3, <1>4
<1> QED
  BY <1>1, <1>2, <1>5

LEMMA InitInv == TableInit => TableInv
<1> SUFFICES ASSUME TableInit PROVE TableInv
  OBVIOUS
<1> DEFINE size == PrimeGte(InitSize)
<1>1. size \in Nat /\ IsPrime(size) /\ size >= 3
  BY FirstPrime DEF IsPrime
<1> DEFINE constant(n) == [Empty EXCEPT !.level = MAXVAR, !.low = n, !.high = n, !.ref = MAXREF, !.next = n + 1]
           free(n) == [Empty EXCEPT !.next = IF n = size - 1 THEN 0 ELSE n + 1]
<1>2. /\ node = [n \in 0..(size - 1) |-> IF n < 2 THEN constant(n) ELSE free(n)]
      /\ freepos = 2 /\ freenum = size - 2 /\ varnum = 0 /\ kept = {} /\ err = "none"
      /\ bddmaxnodesize \in Nat
  <2>1. node = [n \in 0..(size - 1) |-> IF n < 2 THEN constant(n) ELSE free(n)]
    BY Zenon DEF TableInit
  <2>2. /\ freepos = 2 /\ freenum = size - 2 /\ varnum = 0 /\ kept = {} /\ err = "none"
        /\ bddmaxnodesize \in MaxSizes
    BY Zenon DEF TableInit
  <2> QED
    BY <2>1, <2>2, NodeTableAssumption, Zenon
<1>3. ASSUME NEW n \in Nat
      PROVE  /\ constant(n) \in NodeRecords /\ constant(n).hash = 0
             /\ free(n) \in NodeRecords /\ free(n).low = -1 /\ free(n).hash = 0
             /\ free(n).next = IF n = size - 1 THEN 0 ELSE n + 1
  <2> DEFINE next == IF n = size - 1 THEN 0 ELSE n + 1
  <2>1. next \in Nat /\ MAXVAR \in Nat /\ MAXREF \in 0..MAXREF /\ 0 \in 0..MAXREF /\ n + 1 \in Nat
    BY NodeTableAssumption DEF MAXVAR
  <2> HIDE DEF next
  <2>2. constant(n) \in NodeRecords /\ constant(n).hash = 0
    BY <2>1 DEF Empty, NodeRecords
  <2>3. /\ [Empty EXCEPT !.next = next] \in NodeRecords
        /\ [Empty EXCEPT !.next = next].low = -1 /\ [Empty EXCEPT !.next = next].hash = 0
        /\ [Empty EXCEPT !.next = next].next = next
    BY <2>1 DEF Empty, NodeRecords
  <2> QED
    BY <2>2, <2>3 DEF next
<1> HIDE DEF constant, free
<1>4. /\ DOMAIN node = 0..(size - 1)
      /\ \A n \in 0..(size - 1) :
           /\ n \in Nat /\ node[n] \in NodeRecords /\ node[n].hash = 0
           /\ n >= 2 => node[n].low = -1 /\ node[n].next = IF n = size - 1 THEN 0 ELSE n + 1
  <2> HIDE DEF size
  <2>1. DOMAIN node = 0..(size - 1) /\ \A n \in 0..(size - 1) : n \in Nat /\ node[n] = IF n < 2 THEN constant(n) ELSE free(n)
    BY <1>1, <1>2
  <2>2. ASSUME NEW n \in 0..(size - 1)
        PROVE  /\ n \in Nat /\ node[n] \in NodeRecords /\ node[n].hash = 0
               /\ n >= 2 => node[n].low = -1 /\ node[n].next = IF n = size - 1 THEN 0 ELSE n + 1
    <3>1. CASE n < 2
      BY <1>3, <2>1, <3>1
    <3>2. CASE ~(n < 2)
      BY <1>3, <2>1, <3>2 DEF size
    <3> QED
      BY <3>1, <3>2
  <2> QED
    BY <2>1, <2>2 DEF size
<1> HIDE DEF size
<1>5. Size(node) = size /\ IsFiniteSet(DOMAIN node)
  BY <1>1, <1>4, SizeIs
<1>6. Array(node)
  <2>1. node = [n \in 0..(size - 1) |-> node[n]]
    BY <1>2
  <2>2. node \in [0..(size - 1) -> NodeRecords]
    BY <1>4, <2>1
  <2> QED
    BY <1>1, <1>5, <2>2 DEF Array
<1>7. Used(node) = {}
  BY <1>4 DEF Used
<1>8. Free(node) = 2..(size - 1) /\ IsFiniteSet(Free(node))
  <2>1. \A n : n \in 0..(size - 1) /\ n # 0 /\ n # 1 <=> n \in 2..(size - 1)
    BY <1>1
  <2>2. Free(node) = 2..(size - 1)
    BY <1>4, <1>7, <2>1 DEF Free
  <2> QED
    BY <1>6, <2>2, ArrayFacts
<1>9. \A h \in DOMAIN node : ListOf(node, Members(node, h), node[h].hash)
  <2>1. ListOf(node, {}, 0)
    <3> DEFINE rank == [n \in {} |-> 0]
    <3>1. Ranked(node, {}, 0, rank)
      BY DEF Ranked
    <3> QED
      BY <3>1 DEF ListOf
  <2>2. \A h : Members(node, h) = {}
    BY <1>7 DEF Members
  <2> QED
    BY <1>4, <2>1, <2>2
<1>10. ListOf(node, Free(node), freepos)
  <2> DEFINE S == Free(node)
  <2>1. \A m : m \in S <=> m \in Int /\ 2 <= m /\ m <= size - 1
    BY <1>1, <1>8
  <2>2. \A m \in S : m \in Nat /\ m # 0
    BY <2>1
  <2> HIDE DEF S
  <2>3. freepos = NextIn(S, 0)
    <3>1. \/ NextIn(S, 0) = 0 /\ \A m \in S : m <= 0
          \/ NextIn(S, 0) \in S /\ NextIn(S, 0) > 0 /\ \A m \in S : m > 0 => NextIn(S, 0) <= m
      <4>1. 0 \in Nat
        OBVIOUS
      <4> QED
        BY <2>2, <4>1, NextFacts
    <3>2. 2 \in S
      BY <1>1, <2>1
    <3>3. NextIn(S, 0) \in S /\ NextIn(S, 0) <= 2
      BY <3>1, <3>2
    <3> QED
      BY <1>2, <2>1, <3>3
  <2>4. ASSUME NEW n \in S PROVE node[n].next = NextIn(S, n)
    <3>1. n \in Nat /\ n >= 2 /\ n \in 0..(size - 1)
      BY <1>1, <2>1
    <3>2. node[n].next = IF n = size - 1 THEN 0 ELSE n + 1
      BY <1>4, <3>1
    <3>3. \/ NextIn(S, n) = 0 /\ \A m \in S : m <= n
          \/ NextIn(S, n) \in S /\ NextIn(S, n) > n /\ \A m \in S : m > n => NextIn(S, n) <= m
      BY <2>2, <3>1, NextFacts
    <3>4. CASE n = size - 1
      <4>1. ~(NextIn(S, n) \in S /\ NextIn(S, n) > n)
        BY <1>1, <2>1, <3>4
      <4> QED
        BY <3>2, <3>3, <3>4, <4>1
    <3>5. CASE n # size - 1
      <4>1. n + 1 \in S /\ n + 1 > n /\ ~(n + 1 <= n)
        BY <1>1, <2>1, <3>1, <3>5
      <4>2. NextIn(S, n) \in S /\ NextIn(S, n) > n /\ NextIn(S, n) <= n + 1
        BY <3>3, <4>1
      <4>3. NextIn(S, n) = n + 1
        BY <2>1, <3>1, <4>2
      <4> QED
        BY <3>2, <3>5, <4>3
    <3> QED
      BY <3>4, <3>5
  <2>5. ListOf(node, S, freepos)
    BY <1>8, <2>2, <2>3, <2>4, OrderedList DEF S
  <2> QED
    BY <2>5 DEF S
<1>11. freenum = Cardinality(Free(node))
  <2>1. Cardinality(2..(size - 1)) = IF 2 > size - 1 THEN 0 ELSE (size - 1) - 2 + 1
    <3>1. 2 \in Int /\ size - 1 \in Int
      BY <1>1
    <3> QED
      BY <3>1, FS_Interval
  <2> QED
    BY <1>1, <1>2, <1>8, <2>1 DEF size
<1>12. Reduced(node)
  BY <1>7 DEF Reduced
<1>13. Usable(Now)
  BY <1>2, <1>6, <1>9, <1>10, <1>11, <1>12, InvIs DEF Listed, Errors
<1> QED
  BY <1>2, <1>7, <1>13 DEF TableInv, FullMeansFull

\* A step keeps what can be reached, with its level and children.
SameForm(tab, t, keep) ==
    \A n \in keep : tab[n].level = t[n].level /\ tab[n].low = t[n].low /\ tab[n].high = t[n].high
StepKeeps == Reach(node, Wanted) \subseteq Used(node') /\ SameForm(node, node', Reach(node, Wanted))

LEMMA WantedIs == Wanted = Roots(node, kept) /\ Wanted' = Roots(node', kept')
BY DEF Wanted, Roots

LEMMA InvFacts ==
    ASSUME TableInv
    PROVE  /\ Array(node) /\ Reduced(node) /\ Listed(node, freepos, freenum) /\ err \in Errors
           /\ Usable(Now) /\ Sound(Now) /\ IsMem(Now) /\ kept \subseteq Used(node) \cup {0, 1}
           /\ Roots(node, kept) \subseteq Used(node)
           /\ kept \subseteq Reach(node, Roots(node, kept))
           /\ Reach(node, Roots(node, kept)) \subseteq Used(node)
<1>1. /\ Array(node) /\ Reduced(node) /\ Listed(node, freepos, freenum) /\ err \in Errors
      /\ Usable(Now) /\ kept \subseteq Used(node)
  BY InvIs DEF TableInv
<1>2. Roots(node, kept) \subseteq Used(node)
  BY <1>1, RootsUsed
<1>3. Roots(node, kept) \subseteq Reach(node, Roots(node, kept)) /\ Reach(node, Roots(node, kept)) \subseteq Used(node)
  BY <1>1, <1>2, ReachFacts
<1>4. kept \subseteq Roots(node, kept)
  <2>1. \A n \in kept : n # 0 /\ n # 1
    BY <1>1, ArrayFacts
  <2> QED
    BY <2>1 DEF Roots
<1> QED
  BY <1>1, <1>2, <1>3, <1>4 DEF Usable

\* A table that only counts anew.
LEMMA CountStep ==
    ASSUME TableInv, err = "none", NEW n, NEW c \in 0..MAXREF,
           node' = [node EXCEPT ![n].ref = c],
           UNCHANGED <<bddmaxnodesize, freepos, freenum, produced, varnum, kept, err>>
    PROVE  TableInv' /\ StepKeeps
<1> DEFINE t == [node EXCEPT ![n].ref = c]
<1>1. Array(node) /\ Reduced(node) /\ Listed(node, freepos, freenum) /\ Reach(node, Wanted) \subseteq Used(node)
  BY InvFacts, WantedIs
<1>2. Recounted(node, t) /\ t = [m \in DOMAIN t |-> t[m]]
  BY <1>1, CountSet
<1> HIDE DEF t
<1>3. Array(t) /\ Reduced(t) /\ Listed(t, freepos, freenum) /\ Used(t) = Used(node)
  BY <1>1, <1>2, RecountedRight
<1>4. node' = t
  BY DEF t
<1>5. Usable(Now)'
  BY <1>3, <1>4, InvIs DEF Errors
<1>6. TableInv'
  BY <1>3, <1>4, <1>5 DEF TableInv, FullMeansFull
<1>7. SameForm(node, t, Used(node))
  <2>1. \A m \in Used(node) : m \in DOMAIN node /\ m >= 2
    BY <1>1, ArrayFacts
  <2> QED
    BY <1>2, <2>1 DEF Recounted, SameForm
<1>8. StepKeeps
  BY <1>1, <1>3, <1>4, <1>7 DEF StepKeeps, SameForm
<1> QED
  BY <1>6, <1>8

LEMMA AddrefStep ==
    ASSUME TableInv, UNCHANGED bddmaxnodesize, NEW n \in kept, addref(n)
    PROVE  TableInv' /\ StepKeeps
<1> DEFINE c == IF node[n].ref < MAXREF THEN node[n].ref + 1 ELSE node[n].ref
<1>1. node[n].ref \in 0..MAXREF
  BY InvFacts, ArrayFacts, Fields DEF TableInv
<1>2. c \in 0..MAXREF
  BY <1>1, NodeTableAssumption
<1>3. node' = [node EXCEPT ![n].ref = c]
  BY DEF addref
<1> HIDE DEF c
<1> QED
  BY <1>2, <1>3, CountStep DEF addref

LEMMA DelrefStep ==
    ASSUME TableInv, UNCHANGED bddmaxnodesize, NEW n \in Nameable \ {0, 1}, delref(n)
    PROVE  TableInv' /\ StepKeeps
<1> DEFINE c == IF node[n].ref < MAXREF THEN node[n].ref - 1 ELSE node[n].ref
<1>1. node[n].ref \in 0..MAXREF /\ node[n].ref > 0
  <2>1. n \in DOMAIN node
    BY InvFacts, ArrayFacts DEF Nameable
  <2> QED
    BY <2>1, InvFacts, ArrayFacts, Fields DEF delref
<1>2. c \in 0..MAXREF
  BY <1>1, NodeTableAssumption
<1>3. node' = [node EXCEPT ![n].ref = c]
  BY DEF delref
<1> HIDE DEF c
<1> QED
  BY <1>2, <1>3, CountStep DEF delref

LEMMA DropStep ==
    ASSUME TableInv, UNCHANGED bddmaxnodesize, NEW n \in kept, Drop(n)
    PROVE  TableInv' /\ StepKeeps
<1>1. /\ node' = node /\ freepos' = freepos /\ freenum' = freenum /\ produced' = produced
      /\ varnum' = varnum /\ err' = err /\ kept' \subseteq kept /\ err = "none"
  BY DEF Drop
<1>2. Usable(Now)'
  BY <1>1, InvFacts, InvIs
<1>3. TableInv'
  BY <1>1, <1>2 DEF TableInv, FullMeansFull
<1>4. StepKeeps
  BY <1>1, InvFacts, WantedIs DEF StepKeeps, SameForm
<1> QED
  BY <1>3, <1>4

LEMMA GbcStep ==
    ASSUME TableInv, UNCHANGED bddmaxnodesize, gbc
    PROVE  TableInv' /\ StepKeeps
<1> DEFINE keep == Reach(node, Roots(node, kept))
           t == AfterGbc(node, kept)
           m == WithTable(Now, t)
<1>0. err = "none" /\ varnum' = varnum /\ kept' = kept /\ Keeps(m)
  BY DEF gbc
<1>1. /\ Array(t) /\ Reduced(t) /\ Listed(t, FirstFree(t, Used(t)), FreeCount(t, Used(t)))
      /\ Used(t) = keep /\ SameNodes(node, t, keep \cup {0, 1}) /\ keep \subseteq Used(node)
  BY InvFacts, GbcRight
<1> HIDE DEF t
<1>2. /\ m.tab = t /\ m.freepos = FirstFree(t, Used(t)) /\ m.freenum = FreeCount(t, Used(t)) /\ m.err = err
  BY NowIs, WithTableIs
<1> HIDE DEF m
<1>3. /\ node' = t /\ freepos' = FirstFree(t, Used(t)) /\ freenum' = FreeCount(t, Used(t)) /\ err' = err
  BY <1>0, <1>2 DEF Keeps
<1>4. Usable(Now)'
  BY <1>1, <1>3, InvFacts, InvIs
<1>5. kept \subseteq keep
  BY InvFacts
<1> HIDE DEF keep
<1>6. TableInv'
  BY <1>0, <1>1, <1>3, <1>4, <1>5 DEF TableInv, FullMeansFull
<1>7. StepKeeps
  <2>1. SameForm(node, t, keep)
    BY <1>1 DEF SameNodes, SameForm
  <2> QED
    BY <1>1, <1>3, <2>1, WantedIs DEF StepKeeps, keep
<1> QED
  BY <1>6, <1>7

\* A call that is refused for want of room leaves nothing that is not wanted.
LEMMA FullLeft ==
    ASSUME Array(node), Reduced(node), Roots(node, kept) \subseteq Used(node),
           NEW t, Array(t), Reduced(t), NEW keep, keep = Reach(node, Roots(node, kept)),
           Used(t) = keep, SameNodes(node, t, keep \cup {0, 1}),
           NEW R, R = Roots(t, kept)
    PROVE  Reach(t, R) = keep
<1>1. /\ Roots(node, kept) \subseteq keep /\ keep \subseteq Used(node)
      /\ \A n \in keep : {node[n].low, node[n].high} \subseteq keep \cup {0, 1}
  BY ReachFacts
<1>2. R = Roots(node, kept)
  <2>1. \A n \in keep : t[n].ref = node[n].ref
    BY DEF SameNodes
  <2> QED
    BY <1>1, <2>1 DEF Roots
<1>3. R \subseteq Used(t)
  BY <1>1, <1>2
<1> DEFINE C == Reach(t, R)
<1>4. R \subseteq C /\ C \subseteq keep /\ \A n \in C : {t[n].low, t[n].high} \subseteq C \cup {0, 1}
  BY <1>3, ReachFacts
<1> HIDE DEF C
<1>5. \A n \in C \cap Used(node) : {node[n].low, node[n].high} \subseteq C \cup {0, 1}
  <2>1. \A n \in C : t[n].low = node[n].low /\ t[n].high = node[n].high
    BY <1>4 DEF SameNodes
  <2> QED
    BY <1>4, <2>1
<1>6. keep \subseteq C
  BY <1>2, <1>4, <1>5, ReachFacts
<1> QED
  BY <1>4, <1>6 DEF C

LEMMA MakeStep ==
    ASSUME TableInv, UNCHANGED bddmaxnodesize, NEW lo \in Nameable, NEW hi \in Nameable,
           NEW l \in 0..(varnum - 1), Make(l, lo, hi)
    PROVE  TableInv' /\ StepKeeps
<1> DEFINE keep == Reach(node, Roots(node, kept))
           r == makenode(Now, l, lo, hi, kept)
<1>0. /\ err = "none" /\ varnum > 0 /\ varnum' = varnum /\ Keeps(r)
      /\ kept' = IF r.err # "none" \/ r.res < 2 THEN kept ELSE kept \cup {r.res}
      /\ l \in Nat
  BY DEF Make, Returned, TableInv
<1>1. Grew(node, r, keep)
  <2>1. Now.err = "none" /\ node = Now.tab /\ bddmaxnodesize \in Nat /\ kept \subseteq Used(Now.tab) \cup {0, 1}
    BY <1>0, NowIs, InvFacts DEF TableInv
  <2>2. lo \in keep \cup {0, 1} /\ hi \in keep \cup {0, 1}
    BY DEF Nameable
  <2> HIDE DEF keep
  <2>3. keep = Reach(node, Roots(node, kept))
    BY DEF keep
  <2> QED
    BY <1>0, <2>1, <2>2, <2>3, InvFacts, MakenodeRight
<1> HIDE DEF r
<1>2. /\ node' = r.tab /\ freepos' = r.freepos /\ freenum' = r.freenum /\ err' = r.err
  BY <1>0 DEF Keeps
<1>3. /\ Array(node') /\ Reduced(node') /\ Listed(node', freepos', freenum') /\ err' \in Errors
  BY <1>1, <1>2 DEF Grew, Sound, Errors
<1>4. Usable(Now)'
  BY <1>3, InvIs
<1>5. keep \subseteq Used(node') /\ SameNodes(node, node', keep \cup {0, 1}) /\ kept \subseteq keep
  BY <1>1, <1>2, InvFacts DEF Grew
<1>6. kept' \subseteq Used(node')
  <2>1. CASE r.err # "none" \/ r.res < 2
    BY <1>0, <1>5, <2>1
  <2>2. CASE ~(r.err # "none" \/ r.res < 2)
    <3>1. r.res \in Used(node') \cup {0, 1} /\ r.res # 0 /\ r.res # 1
      BY <1>1, <1>2, <2>2 DEF Grew
    <3> QED
      BY <1>0, <1>5, <2>2, <3>1
  <2> QED
    BY <2>1, <2>2
<1>7. FullMeansFull'
  <2>1. SUFFICES ASSUME err' = "BDD_NODENUM"
                 PROVE  /\ Reach(node', Wanted') = 2..(Size(node') - 1)
                        /\ NewSize(Size(node))' = Size(node')
    BY DEF FullMeansFull
  <2>2. Used(node') = keep /\ keep = 2..(Size(node') - 1) /\ NewSize(Size(node')) = Size(node')
    BY <1>1, <1>2, <2>1 DEF Grew
  <2>3. kept' = kept
    BY <1>0, <1>2, <2>1
  <2>4. Wanted' = Roots(node', kept)
    BY <2>3, WantedIs
  <2> DEFINE t == node'
  <2>5. Reach(t, Wanted') = keep
    <3>1. /\ Array(t) /\ Reduced(t) /\ Used(t) = keep /\ SameNodes(node, t, keep \cup {0, 1})
      BY <1>3, <1>5, <2>2
    <3> HIDE DEF t, keep
    <3>2. keep = Reach(node, Roots(node, kept)) /\ Wanted' = Roots(t, kept)
      BY <2>4 DEF keep, t
    <3> QED
      BY <3>1, <3>2, InvFacts, FullLeft
  <2>6. NewSize(Size(node))' = NewSize(Size(node'))
    BY DEF NewSize
  <2> QED
    BY <2>2, <2>5, <2>6
<1>8. TableInv'
  BY <1>0, <1>4, <1>6, <1>7 DEF TableInv
<1>9. StepKeeps
  <2>1. SameForm(node, node', keep)
    BY <1>5 DEF SameNodes, SameForm
  <2> QED
    BY <1>5, <2>1, WantedIs DEF StepKeeps, keep
<1> QED
  BY <1>8, <1>9

LEMMA VarsStep ==
    ASSUME TableInv, UNCHANGED bddmaxnodesize, varnum = 0, NEW num \in 1..MaxVarnum, setvarnum(num)
    PROVE  TableInv' /\ StepKeeps
<1> DEFINE m == WithVars(num)
           t == [m.tab EXCEPT ![0].level = num, ![1].level = num]
<1>0. err = "none" /\ kept' = {} /\ VarsAdded(m, num) /\ num \in Nat /\ num # 0 /\ Used(node) = {}
  BY NodeTableAssumption DEF setvarnum, TableInv
<1>1. Usable(m)
  BY <1>0, InvFacts, WithVarsRight DEF TableInv
<1> HIDE DEF m
<1>2. /\ Array(m.tab) /\ Reduced(m.tab) /\ Listed(m.tab, m.freepos, m.freenum)
      /\ m.err \in Errors /\ IsMem(m)
  BY <1>1 DEF Usable, Sound
<1>3. Reach(node, Wanted) = {}
  BY <1>0, WantedIs, InvFacts
<1>4. StepKeeps
  BY <1>3 DEF StepKeeps, SameForm
<1>5. CASE m.err # "none"
  <2>1. /\ node' = m.tab /\ freepos' = m.freepos /\ freenum' = m.freenum /\ err' = m.err /\ varnum' = varnum
    BY <1>0, <1>5 DEF VarsAdded, Keeps
  <2>2. Usable(Now)'
    BY <1>2, <2>1, InvIs
  <2>3. TableInv'
    BY <1>0, <1>5, <2>1, <2>2 DEF TableInv, FullMeansFull
  <2> QED
    BY <1>4, <2>3
<1>6. CASE m.err = "none"
  <2>1. Keeps([m EXCEPT !.tab = t]) /\ varnum' = num
    BY <1>0, <1>6 DEF VarsAdded
  <2>2. Recounted(m.tab, t) /\ t = [k \in DOMAIN t |-> t[k]]
    BY <1>0, <1>2, LevelSet
  <2> HIDE DEF t
  <2>3. Array(t) /\ Reduced(t) /\ Listed(t, m.freepos, m.freenum)
    BY <1>2, <2>2, RecountedRight
  <2> DEFINE q == [m EXCEPT !.tab = t]
  <2>4. q.tab = t /\ q.freepos = m.freepos /\ q.freenum = m.freenum /\ q.err = m.err
    BY <1>2, TableSet
  <2> HIDE DEF q
  <2>5. node' = t /\ freepos' = m.freepos /\ freenum' = m.freenum /\ err' = "none" /\ varnum' = num
    <3>1. Keeps(q)
      BY <2>1 DEF q
    <3> QED
      BY <1>6, <2>1, <2>4, <3>1 DEF Keeps
  <2>6. Usable(Now)'
    BY <2>3, <2>5, InvIs DEF Errors
  <2>7. TableInv'
    BY <1>0, <2>5, <2>6 DEF TableInv, FullMeansFull
  <2> QED
    BY <1>4, <2>7
<1> QED
  BY <1>5, <1>6

LEMMA NextStep ==
    ASSUME TableInv, TableNext
    PROVE  TableInv' /\ StepKeeps
<1>1. CASE varnum = 0 /\ \E num \in 1..MaxVarnum : setvarnum(num)
  BY <1>1, VarsStep DEF TableNext
<1>2. CASE \E lo, hi \in Nameable : \E l \in 0..(varnum - 1) : Make(l, lo, hi)
  BY <1>2, MakeStep DEF TableNext
<1>3. CASE \E n \in kept : Drop(n) \/ addref(n)
  BY <1>3, DropStep, AddrefStep DEF TableNext
<1>4. CASE \E n \in Nameable \ {0, 1} : delref(n)
  BY <1>4, DelrefStep DEF TableNext
<1>5. CASE gbc
  BY <1>5, GbcStep DEF TableNext
<1> QED
  BY <1>1, <1>2, <1>3, <1>4, <1>5 DEF TableNext

LEMMA StutterInv ==
    ASSUME TableInv, UNCHANGED tableVars
    PROVE  TableInv'
BY DEF TableInv, tableVars, Usable, IsMem, Sound, Now, Made, FullMeansFull, Wanted, NewSize

\* In every state the array holds sound nodes, every node is in the chain of its
\* hash, every other entry in the free list, and whoever was refused a node for want
\* of room held all of them: bdd_makenode, bdd_gbc and bdd_noderesize, for every size.
THEOREM TableInvariant == TableSpec => []TableInv
<1>1. TableInv /\ [TableNext]_tableVars => TableInv'
  BY NextStep, StutterInv
<1> QED
  BY InitInv, <1>1, PTL DEF TableSpec

LEMMA ExactNow ==
    ASSUME TableInv
    PROVE  TableExact
<1>1. Array(node) /\ Listed(node, freepos, freenum)
  BY InvFacts
<1>2. \A h \in DOMAIN node : Chain(node, h) = {n \in Used(node) : HashOf(node, n) = h}
  <2>1. ASSUME NEW h \in DOMAIN node PROVE Chain(node, h) = Members(node, h)
    BY <1>1, ChainRight DEF Listed
  <2> QED
    BY <2>1 DEF Members
<1> DEFINE s == Size(node)
           S == Free(node)
           at == CHOOSE f : Walk(node, freepos, s, f)
<1>3. /\ s \in Nat /\ IsFiniteSet(S) /\ 0 \notin S /\ Cardinality(S) <= s
      /\ ListOf(node, S, freepos) /\ freenum = Cardinality(S)
  <2>1. S \subseteq DOMAIN node /\ IsFiniteSet(DOMAIN node) /\ IsFiniteSet(S) /\ 0 \notin S /\ s \in Nat
    BY <1>1, ArrayFacts
  <2>2. ListOf(node, S, freepos) /\ freenum = Cardinality(S)
    BY <1>1 DEF Listed
  <2> HIDE DEF S
  <2> QED
    BY <2>1, <2>2, FS_Subset DEF Size
<1>4. Walk(node, freepos, s, at)
  <2>1. \E f : Walk(node, freepos, s, f)
    <3> HIDE DEF s, S
    <3> QED BY <1>3, WalkExists
  <2> QED
    BY <2>1
<1>5. FreeList = Visited(at, s)
  BY DEF FreeList, Walk, Visited
<1> HIDE DEF at, s, S
<1>6. FreeList = S \cup {0}
  BY <1>3, <1>4, <1>5, WalkReads
<1>7. freenum = Cardinality(FreeList) - 1
  <2>1. Cardinality(S \cup {0}) = Cardinality(S) + 1 /\ Cardinality(S) \in Nat
    BY <1>3, FS_AddElement, FS_CardinalityType
  <2> QED
    BY <1>3, <1>6, <2>1
<1>8. ChainsExact
  BY <1>2, <1>6, <1>7 DEF ChainsExact, S, Free
<1> QED
  BY <1>8 DEF TableExact, TableInv

\* In every state each chain holds the nodes of its hash, the free list the entries
\* in no chain, and freenum its length; and a node is refused only when every entry
\* is wanted and the table may not grow: what bdd_makenode relies on.
THEOREM TableStaysExact == TableSpec => []TableExact
<1>1. TableInv => TableExact
  BY ExactNow
<1> QED
  BY <1>1, TableInvariant, PTL

-----------------------------------------------------------------------------
(* The abstract table.                                                     *)

nodesNow == [n \in Used(node) |-> <<node[n].level, node[n].low, node[n].high>>]

LEMMA SameCardinality ==
    ASSUME NEW S
    PROVE  Table!Cardinality(S) = Cardinality(S)
BY DEF Table!Cardinality, Cardinality

\* What the abstract table reaches, the collector marks.
LEMMA ReachedIs ==
    ASSUME TableInv
    PROVE  Table!Reached \subseteq Reach(node, Wanted)
<1> DEFINE U == Used(node)
           c == Table!Cardinality(DOMAIN nodesNow)
           C == Reach(node, Wanted)
           S == Wanted \cap DOMAIN nodesNow
           step(X) == Table!WithNext(X)
           F == [X \in SUBSET U |-> step(X)]
           M(f) == f = [k \in 0..c |-> IF k = 0 THEN S ELSE step(f[k - 1])]
           r == CHOOSE f : M(f)
<1>0. \A X : step(X) = X \cup UNION {{nodesNow[n][2], nodesNow[n][3]} \cap DOMAIN nodesNow : n \in X}
  BY DEF Table!WithNext, nodesNow
<1>1. DOMAIN nodesNow = U /\ \A n \in U : nodesNow[n][2] = node[n].low /\ nodesNow[n][3] = node[n].high
  BY DEF nodesNow
<1>2. /\ Wanted \subseteq C /\ C \subseteq U
      /\ \A n \in C : {node[n].low, node[n].high} \subseteq C \cup {0, 1}
      /\ c \in Nat /\ \A n \in U : n # 0 /\ n # 1
  <2>1. Wanted \subseteq Used(node) /\ Array(node) /\ Reduced(node)
    BY WantedIs, InvFacts
  <2>2. /\ Wanted \subseteq C /\ C \subseteq U
        /\ \A n \in C : {node[n].low, node[n].high} \subseteq C \cup {0, 1}
    BY <2>1, ReachFacts
  <2>3. IsFiniteSet(Used(node)) /\ \A n \in Used(node) : n # 0 /\ n # 1
    BY <2>1, ArrayFacts
  <2>4. c \in Nat
    BY <1>1, <2>3, FS_CardinalityType, SameCardinality
  <2> QED
    BY <2>2, <2>3, <2>4
<1>3. ASSUME NEW X, X \subseteq U PROVE step(X) \subseteq U
  BY <1>1, <1>3, <1>0
<1>4. F \in [SUBSET U -> SUBSET U] /\ S \in SUBSET U
  <2>1. S \in SUBSET U
    BY <1>1
  <2> HIDE DEF step
  <2> QED
    BY <1>3, <2>1
<1>5. PICK f : Repeats(f, SUBSET U, S, c, F)
  <2> HIDE DEF F, c, U, S
  <2> QED BY <1>2, <1>4, RecursiveFunction
<1> HIDE DEF step
<1>6. M(f)
  <2>1. f \in [0..c -> SUBSET U] /\ f[0] = S /\ \A k \in 1..c : f[k] = F[f[k - 1]]
    BY <1>5 DEF Repeats
  <2> HIDE DEF c, U, S
  <2>2. \A k \in 1..c : k - 1 \in 0..c /\ f[k - 1] \in SUBSET U
    BY <1>2, <2>1
  <2>3. \A k \in 1..c : f[k] = step(f[k - 1])
    BY <2>1, <2>2
  <2> HIDE DEF F
  <2>4. \A k \in 0..c : f[k] = IF k = 0 THEN S ELSE step(f[k - 1])
    BY <1>2, <2>1, <2>3
  <2>5. f = [k \in 0..c |-> f[k]]
    BY <2>1
  <2> QED
    BY <2>4, <2>5
<1>7. M(r)
  <2> HIDE DEF M
  <2> QED BY <1>6
<1>8. Table!Reached = r[c]
  BY DEF Table!Reached, nodesNow, step
<1> HIDE DEF r, F, c, C
<1>9. r[0] = S /\ \A k \in 1..c : r[k] = step(r[k - 1])
  <2> HIDE DEF S
  <2> QED BY <1>2, <1>7
<1> DEFINE P == {k \in 0..c : r[k] \subseteq C}
<1>10. 0 \in P
  BY <1>2, <1>9
<1>11. ASSUME NEW k \in 1..c, k - 1 \in P PROVE k \in P
  <2> DEFINE X == r[k - 1]
  <2>1. X \subseteq C /\ r[k] = step(X)
    BY <1>9, <1>11
  <2> HIDE DEF X
  <2>2. step(X) \subseteq C
    BY <1>0, <1>1, <1>2, <2>1
  <2> QED
    BY <1>2, <2>1, <2>2
<1> HIDE DEF P
<1>12. \A k \in 0..c : k \in P
  BY <1>2, <1>10, <1>11, UpTo
<1>13. r[c] \subseteq C
  BY <1>2, <1>12 DEF P
<1> QED
  BY <1>8, <1>13 DEF C

LEMMA TableStep ==
    ASSUME TableInv, TableInv', StepKeeps
    PROVE  Table!Next
<1>1. \A i \in Table!Reached : i \in DOMAIN nodesNow' /\ nodesNow'[i] = nodesNow[i]
  <2>1. SUFFICES ASSUME NEW i \in Reach(node, Wanted)
                 PROVE  i \in DOMAIN nodesNow' /\ nodesNow'[i] = nodesNow[i]
    BY ReachedIs
  <2>2. i \in Used(node)
    BY WantedIs, InvFacts
  <2> QED
    BY <2>1, <2>2 DEF StepKeeps, SameForm, nodesNow
<1>2. Table!Injective(nodesNow')
  <2>1. Reduced(node')
    BY InvIs DEF TableInv
  <2> QED
    BY <2>1 DEF Table!Injective, nodesNow, Reduced, Equal
<1>3. Wanted' \subseteq DOMAIN nodesNow'
  <2>1. kept' \subseteq Used(node')
    BY DEF TableInv
  <2> QED
    BY <2>1 DEF Wanted, nodesNow
<1> QED
  BY <1>1, <1>2, <1>3 DEF Table!Next, nodesNow

\* A node that somebody holds, and all below it, keep their ids, levels and children
\* through every call, collection and growth, and no two ids ever stand for the
\* same node: the table implements UniqueTable.
THEOREM TableKeepsNodes == TableSpec => KeepsNodes
<1>1. TableInit => Table!Init
  <2>1. SUFFICES ASSUME TableInit PROVE nodesNow = <<>> /\ Wanted = {}
    BY DEF Table!Init, nodesNow
  <2>2. Used(node) = {} /\ kept = {}
    <3>1. varnum = 0 /\ err = "none" /\ kept = {}
      BY <2>1, Zenon DEF TableInit
    <3>2. TableInv
      BY <2>1, InitInv
    <3> QED
      BY <3>1, <3>2 DEF TableInv
  <2> QED
    BY <2>2 DEF nodesNow, Wanted
<1>2. TableInv /\ TableInv' /\ [TableNext]_tableVars
        => [Table!Next]_<<[n \in Used(node) |-> <<node[n].level, node[n].low, node[n].high>>], Wanted>>
  <2>1. ASSUME TableInv, TableInv', TableNext PROVE Table!Next
    BY <2>1, NextStep, TableStep
  <2>2. UNCHANGED tableVars => UNCHANGED <<[n \in Used(node) |-> <<node[n].level, node[n].low, node[n].high>>], Wanted>>
    BY DEF tableVars, Wanted
  <2> QED
    BY <2>1, <2>2
<1> QED
  BY <1>1, <1>2, TableInvariant, PTL DEF KeepsNodes, Table!Spec, TableSpec
=============================================================================
