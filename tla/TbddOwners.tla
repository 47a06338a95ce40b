----------------------------- MODULE TbddOwners -----------------------------
(***************************************************************************)
(* Proofs about the proof file: what generate_clause and delete_clauses    *)
(* leave in it, the defining clauses of a node, the lines of               *)
(* justify_apply; that every clause has exactly one owner, the clauses of  *)
(* what is held stay there, and a reader of the file can follow each step. *)
(* The theorems are about the runs in which the ids stay below INT_MAX     *)
(* (IdsFit).                                                               *)
(***************************************************************************)
EXTENDS TbddProofs

-----------------------------------------------------------------------------
(* The lines of a step.                                                    *)

\* The lines of one step, and what they add of one kind.
Rising(add) == \A j, k \in DOMAIN add : j < k => add[j].id < add[k].id
Above(add, c) == \A k \in DOMAIN add : add[k].id \in Nat /\ c < add[k].id
AddedOf(add, x) == {add[k].id : k \in {k \in DOMAIN add : add[k].kind = x}}

\* While the proof goes on, the file is replayed as it was written.
LEMMA EmitGoing ==
    ASSUME NEW add, NEW del, Emit(add, del), emptyId' = TAUTOLOGY,
           \A k \in DOMAIN add : add[k].id # TAUTOLOGY
    PROVE  /\ emptyId = TAUTOLOGY /\ db' = LogSpec!Replay(db, add, del)
           /\ \A k \in DOMAIN add : add[k].lits # {}
<1> DEFINE empty == {k \in DOMAIN add : add[k].lits = {}}
<1>1. emptyId = TAUTOLOGY
  BY DEF Emit
<1>2. empty = {}
  <2>1. emptyId' = IF empty = {} THEN TAUTOLOGY ELSE add[CHOOSE k \in empty : TRUE].id
    BY <1>1 DEF Emit
  <2>2. empty # {} => (CHOOSE k \in empty : TRUE) \in DOMAIN add
    OBVIOUS
  <2> QED
    BY <2>1, <2>2
<1>3. db' = LogSpec!Replay(db, add, del)
  BY <1>1, <1>2 DEF Emit
<1> QED
  BY <1>1, <1>2, <1>3

\* The clauses of the file after the lines of one step.
LEMMA ReplayFacts ==
    ASSUME NEW add, NEW del, DOMAIN add \subseteq Int, db' = LogSpec!Replay(db, add, del),
           \A k \in DOMAIN add : add[k].id \notin DOMAIN db /\ add[k].id \in Int, Rising(add)
    PROVE  /\ db' = [i \in DOMAIN db' |-> db'[i]]
           /\ DOMAIN db' = (DOMAIN db \cup LogSpec!AddedIds(add)) \ del
           /\ \A i \in DOMAIN db \ del : db'[i] = db[i]
           /\ \A k \in DOMAIN add : add[k].id \notin del =>
                 db'[add[k].id] = [lits |-> add[k].lits, kind |-> add[k].kind]
<1> DEFINE ids == (DOMAIN db \cup LogSpec!AddedIds(add)) \ del
           at(i) == CHOOSE k \in DOMAIN add : add[k].id = i
           new(i) == IF i \in DOMAIN db THEN db[i]
                     ELSE [lits |-> add[at(i)].lits, kind |-> add[at(i)].kind]
<1>1. db' = [i \in ids |-> new(i)]
  BY DEF LogSpec!Replay
<1>2. ASSUME NEW k \in DOMAIN add PROVE at(add[k].id) = k /\ add[k].id \in LogSpec!AddedIds(add)
  <2>1. add[k].id \in LogSpec!AddedIds(add)
    BY DEF LogSpec!AddedIds
  <2>2. at(add[k].id) \in DOMAIN add /\ add[at(add[k].id)].id = add[k].id
    OBVIOUS
  <2>3. \A j \in DOMAIN add : add[j].id = add[k].id => j = k
    BY DEF Rising
  <2> HIDE DEF at
  <2> QED
    BY <2>1, <2>2, <2>3
<1>3. \A k \in DOMAIN add : add[k].id \notin del =>
         new(add[k].id) = [lits |-> add[k].lits, kind |-> add[k].kind]
  BY <1>2
<1> HIDE DEF new, at
<1>4. DOMAIN db' = ids /\ \A i \in ids : db'[i] = new(i)
  BY <1>1
<1>5. \A i \in DOMAIN db : new(i) = db[i]
  BY DEF new
<1> QED
  BY <1>1, <1>2, <1>3, <1>4, <1>5

\* The file after a step that writes add and deletes del, when the proof goes on.
FileAfter(add, del) ==
    /\ emptyId = TAUTOLOGY /\ db' = [i \in DOMAIN db' |-> db'[i]]
    /\ DOMAIN db' = (DOMAIN db \cup LogSpec!AddedIds(add)) \ del
    /\ \A i \in DOMAIN db \ del : db'[i] = db[i]
    /\ \A k \in DOMAIN add : add[k].lits # {}
    /\ \A k \in DOMAIN add : add[k].id \notin del =>
          db'[add[k].id] = [lits |-> add[k].lits, kind |-> add[k].kind]
    /\ \A x : KindOf(x)' = (KindOf(x) \cup AddedOf(add, x)) \ del

\* The steps make it so when their ids are new.
LEMMA FileStep ==
    ASSUME NEW add, NEW del, Emit(add, del), emptyId' = TAUTOLOGY, counter \in Nat,
           DOMAIN add \subseteq Int, DOMAIN db \subseteq 1..counter, Rising(add), Above(add, counter),
           \A k \in DOMAIN add : add[k].id # TAUTOLOGY
    PROVE  FileAfter(add, del)
<1>1. /\ emptyId = TAUTOLOGY /\ db' = LogSpec!Replay(db, add, del)
      /\ \A k \in DOMAIN add : add[k].lits # {}
  BY EmitGoing
<1>2. \A k \in DOMAIN add : add[k].id \notin DOMAIN db /\ add[k].id \in Int
  BY DEF Above
<1>3. /\ db' = [i \in DOMAIN db' |-> db'[i]]
      /\ DOMAIN db' = (DOMAIN db \cup LogSpec!AddedIds(add)) \ del
      /\ \A i \in DOMAIN db \ del : db'[i] = db[i]
      /\ \A k \in DOMAIN add : add[k].id \notin del =>
            db'[add[k].id] = [lits |-> add[k].lits, kind |-> add[k].kind]
  BY <1>1, <1>2, ReplayFacts
<1>4. ASSUME NEW x PROVE KindOf(x)' = (KindOf(x) \cup AddedOf(add, x)) \ del
  <2>1. \A i \in DOMAIN db \ del : i \in KindOf(x)' <=> i \in KindOf(x)
    BY <1>3 DEF KindOf
  <2>2. \A k \in DOMAIN add : add[k].id \notin del => db'[add[k].id].kind = add[k].kind
    <3>1. ASSUME NEW k \in DOMAIN add, add[k].id \notin del PROVE db'[add[k].id].kind = add[k].kind
      <4>1. db'[add[k].id] = [lits |-> add[k].lits, kind |-> add[k].kind]
        BY <1>3, <3>1
      <4> QED
        BY <4>1
    <3> QED
      BY <3>1
  <2>3. ASSUME NEW k \in DOMAIN add, add[k].id \notin del
        PROVE  add[k].id \in KindOf(x)' <=> add[k].id \in AddedOf(add, x)
    <3>1. add[k].id \in DOMAIN db'
      BY <1>3, <2>3 DEF LogSpec!AddedIds
    <3>2. \A j \in DOMAIN add : add[j].id = add[k].id => j = k
      BY <1>2 DEF Rising
    <3>3. add[k].id \in AddedOf(add, x) <=> add[k].kind = x
      BY <3>2 DEF AddedOf
    <3>4. add[k].id \in KindOf(x)' <=> db'[add[k].id].kind = x
      BY <3>1 DEF KindOf
    <3> QED
      BY <2>2, <2>3, <3>3, <3>4
  <2>4. KindOf(x) \subseteq DOMAIN db /\ AddedOf(add, x) \subseteq LogSpec!AddedIds(add)
    BY DEF KindOf, AddedOf, LogSpec!AddedIds
  <2>5. KindOf(x)' \subseteq DOMAIN db'
    BY DEF KindOf
  <2>6. \A i \in LogSpec!AddedIds(add) : i \notin DOMAIN db /\ \E k \in DOMAIN add : add[k].id = i
    BY <1>2 DEF LogSpec!AddedIds
  <2>7. ASSUME NEW i PROVE i \in KindOf(x)' <=> i \in (KindOf(x) \cup AddedOf(add, x)) \ del
    <3>1. CASE i \in DOMAIN db \ del
      BY <2>1, <2>4, <2>6, <3>1
    <3>2. CASE i \in LogSpec!AddedIds(add) \ del
      BY <2>3, <2>4, <2>6, <3>2
    <3>3. CASE i \notin DOMAIN db'
      BY <1>3, <2>4, <2>5, <3>3
    <3> QED
      BY <1>3, <3>1, <3>2, <3>3
  <2> QED
    BY <2>7
<1> QED
  BY <1>1, <1>3, <1>4 DEF FileAfter

\* Nothing written, nothing changed.
LEMMA ReplayNothing == LogSpec!Replay(db, <<>>, {}) = [i \in DOMAIN db |-> db[i]]
BY DEF LogSpec!Replay, LogSpec!AddedIds

\* A reader of the file can follow the lines of one step.
LEMMA ExtendStep ==
    ASSUME NEW add, NEW del, Emit(add, del), counter \in Nat, DOMAIN add \subseteq Int,
           db = [i \in DOMAIN db |-> db[i]], DOMAIN db \subseteq 1..counter,
           Rising(add), Above(add, counter),
           emptyId = TAUTOLOGY =>
              /\ del \subseteq DOMAIN db \cup LogSpec!AddedIds(add)
              /\ \A k \in DOMAIN add : \A c \in LogSpec!Cited(add[k]) :
                    c \in DOMAIN db \/ (c \in LogSpec!AddedIds(add) /\ c < add[k].id)
    PROVE  LogSpec!Extend
<1> DEFINE empty == {k \in DOMAIN add : add[k].lits = {}}
           dels  == IF empty = {} THEN del ELSE {}
<1>1. CASE emptyId # TAUTOLOGY
  <2>1. log' = LogSpec!Nothing /\ db' = db
    BY <1>1 DEF Emit
  <2>2. log'.add = <<>> /\ log'.del = {}
    BY <2>1 DEF LogSpec!Nothing
  <2>3. LogSpec!Replay(db, <<>>, {}) = [i \in DOMAIN db |-> db[i]]
    BY ReplayNothing
  <2> QED
    BY <2>1, <2>2, <2>3 DEF LogSpec!Extend, LogSpec!AddsAreFresh, LogSpec!HintsAreLive,
       LogSpec!DeletesAreLive
<1>2. CASE emptyId = TAUTOLOGY
  <2>1. log' = [add |-> add, del |-> dels] /\ db' = LogSpec!Replay(db, add, dels)
    BY <1>2 DEF Emit
  <2>2. log'.add = add /\ log'.del = dels
    BY <2>1
  <2>3. LogSpec!AddsAreFresh(add)
    BY DEF LogSpec!AddsAreFresh, Rising, Above
  <2>4. ASSUME NEW k \in DOMAIN add, NEW c \in LogSpec!Cited(add[k])
        PROVE  c \in DOMAIN db \/ \E j \in DOMAIN add : j < k /\ add[j].id = c
    <3>1. ASSUME NEW j \in DOMAIN add, add[j].id = c, c < add[k].id PROVE j < k
      <4>1. ~(k < j) /\ j # k /\ j \in Int /\ k \in Int
        BY <3>1 DEF Rising, Above
      <4> QED
        BY <4>1
    <3> QED
      BY <1>2, <3>1 DEF LogSpec!AddedIds
  <2>5. LogSpec!HintsAreLive(add)
    BY <2>4 DEF LogSpec!HintsAreLive
  <2>6. LogSpec!DeletesAreLive(add, dels)
    BY <1>2 DEF LogSpec!DeletesAreLive
  <2> QED
    BY <2>1, <2>2, <2>3, <2>5, <2>6 DEF LogSpec!Extend
<1> QED
  BY <1>1, <1>2

\* A step that writes nothing.
LEMMA ExtendQuiet ==
    ASSUME db = [i \in DOMAIN db |-> db[i]], log' = LogSpec!Nothing, UNCHANGED db
    PROVE  LogSpec!Extend
<1>1. log'.add = <<>> /\ log'.del = {}
  BY DEF LogSpec!Nothing
<1>2. LogSpec!Replay(db, <<>>, {}) = [i \in DOMAIN db |-> db[i]]
  BY ReplayNothing
<1> QED
  BY <1>1, <1>2 DEF LogSpec!Extend, LogSpec!AddsAreFresh, LogSpec!HintsAreLive, LogSpec!DeletesAreLive

-----------------------------------------------------------------------------
(* The lines of generate_clause *)

\* One clause gives one line or, for a tautology, none.
LEMMA GenFacts ==
    ASSUME NEW lits, NEW hints, NEW kind, NEW k \in Nat, counter \in Nat
    PROVE  LET g == Gen(lits, hints, kind, k)
           IN  /\ DOMAIN g \subseteq Int /\ Rising(g)
               /\ \A i \in DOMAIN g : g[i] = Line(counter + k, CleanClause(lits), hints, kind)
               /\ \A i \in DOMAIN g : g[i].id = counter + k
               /\ CleanClause(lits) = TautClause => g = <<>> /\ DOMAIN g = {}
               /\ CleanClause(lits) # TautClause => DOMAIN g = {1}
<1> DEFINE g == Gen(lits, hints, kind, k)
           line == Line(counter + k, CleanClause(lits), hints, kind)
<1>1. CASE CleanClause(lits) = TautClause
  BY <1>1 DEF Gen, Rising
<1>2. CASE CleanClause(lits) # TautClause
  <2>1. g = <<line>>
    BY <1>2 DEF Gen
  <2>2. line.id = counter + k
    BY DEF Line
  <2> HIDE DEF g, line
  <2>3. DOMAIN g = {1} /\ g[1] = line
    BY <2>1
  <2>4. /\ DOMAIN g \subseteq Int /\ Rising(g) /\ \A i \in DOMAIN g : g[i] = line
        /\ \A i \in DOMAIN g : g[i].id = counter + k
    BY <2>2, <2>3 DEF Rising
  <2> QED
    BY <1>2, <2>3, <2>4 DEF g, line
<1> QED
  BY <1>1, <1>2

\* Lines s that are those of a and of b, and the range of their ids.
Joined(a, b, s) ==
    /\ \A i \in DOMAIN s : (\E j \in DOMAIN a : s[i] = a[j]) \/ (\E j \in DOMAIN b : s[i] = b[j])
    /\ \A j \in DOMAIN a : \E i \in DOMAIN s : s[i] = a[j]
    /\ \A j \in DOMAIN b : \E i \in DOMAIN s : s[i] = b[j]
IdsUpTo(a, c) == \A i \in DOMAIN a : a[i].id <= c
IdsBeyond(a, c) == \A i \in DOMAIN a : c < a[i].id
WithIds(S) == \A x \in S : x.id \in Int

\* A line after others, with later ids.
LEMMA RisingConcat ==
    ASSUME NEW S, NEW a \in Seq(S), NEW b \in Seq(S), NEW c \in Int, NEW s, s = a \o b,
           Rising(a), Rising(b), WithIds(S), IdsUpTo(a, c), IdsBeyond(b, c)
    PROVE  s \in Seq(S) /\ Rising(s) /\ DOMAIN s \subseteq Int /\ Joined(a, b, s)
<1> USE DEF WithIds, IdsUpTo, IdsBeyond
<1> DEFINE m == Len(a)
           n == Len(b)
<1>1. /\ s \in Seq(S) /\ Len(s) = m + n /\ m \in Nat /\ n \in Nat
      /\ \A i \in 1..Len(s) : s[i] = IF i <= m THEN a[i] ELSE b[i - m]
  BY ConcatProperties
<1>2. DOMAIN a = 1..m /\ DOMAIN b = 1..n /\ DOMAIN s = 1..(m + n)
  BY <1>1
<1> HIDE DEF m, n
<1>3. \A i \in 1..m : i \in DOMAIN s /\ s[i] = a[i]
  BY <1>1, <1>2
<1>4. \A i \in 1..n : i + m \in DOMAIN s /\ s[i + m] = b[i]
  <2>1. ASSUME NEW i \in 1..n PROVE i + m \in 1..(m + n) /\ ~(i + m <= m) /\ i + m - m = i
    BY <1>1
  <2> QED
    BY <1>1, <1>2, <2>1
<1>5. \A i \in DOMAIN s : i \in 1..m \/ \E j \in 1..n : i = j + m
  <2>1. ASSUME NEW i \in DOMAIN s, i \notin 1..m PROVE i - m \in 1..n /\ i = (i - m) + m
    BY <1>1, <1>2, <2>1
  <2> QED
    BY <2>1
<1>6. \A i \in DOMAIN a : a[i].id \in Int
  BY <1>2, ElementOfSeq DEF m
<1>7. \A i \in DOMAIN b : b[i].id \in Int
  BY <1>2, ElementOfSeq DEF n
<1>8. ASSUME NEW i \in DOMAIN s, NEW j \in DOMAIN s, i < j PROVE s[i].id < s[j].id
  <2>1. CASE i \in 1..m /\ j \in 1..m
    BY <1>2, <1>3, <1>8, <2>1 DEF Rising
  <2>2. CASE i \in 1..m /\ j \notin 1..m
    <3>1. PICK k \in 1..n : j = k + m
      BY <1>5, <2>2
    <3>2. s[i].id <= c /\ c < s[j].id /\ s[i].id \in Int /\ s[j].id \in Int
      BY <1>2, <1>3, <1>4, <1>6, <1>7, <2>2, <3>1
    <3> QED
      BY <3>2, SMTT(40)
  <2>3. CASE i \notin 1..m
    <3>1. PICK k \in 1..n : i = k + m
      BY <1>5, <2>3
    <3>2. j \notin 1..m
      BY <1>1, <1>8, <3>1, <1>2
    <3>3. PICK l \in 1..n : j = l + m
      BY <1>5, <3>2
    <3>4. k < l
      BY <1>1, <1>8, <3>1, <3>3
    <3> QED
      BY <1>2, <1>4, <3>1, <3>3, <3>4 DEF Rising
  <2> QED
    BY <2>1, <2>2, <2>3
<1>9. Rising(s)
  BY <1>8 DEF Rising
<1>10. \A i \in DOMAIN s : (\E j \in DOMAIN a : s[i] = a[j]) \/ (\E j \in DOMAIN b : s[i] = b[j])
  <2>1. ASSUME NEW i \in DOMAIN s
        PROVE  (\E j \in DOMAIN a : s[i] = a[j]) \/ (\E j \in DOMAIN b : s[i] = b[j])
    <3>1. CASE i \in 1..m
      BY <1>2, <1>3, <3>1
    <3>2. CASE \E j \in 1..n : i = j + m
      BY <1>2, <1>4, <3>2
    <3> QED
      BY <1>5, <3>1, <3>2
  <2> QED
    BY <2>1
<1>11. /\ \A j \in DOMAIN a : \E i \in DOMAIN s : s[i] = a[j]
       /\ \A j \in DOMAIN b : \E i \in DOMAIN s : s[i] = b[j]
  BY <1>2, <1>3, <1>4
<1>12. s \in Seq(S) /\ DOMAIN s \subseteq Int
  BY <1>1, <1>2
<1> QED
  BY <1>9, <1>10, <1>11, <1>12, Zenon DEF Joined

-----------------------------------------------------------------------------
(* The defining clauses of a node *)

DTypes == {"HU", "LU", "HD", "LD"}

\* Their order in the file.
LEMMA DefOffsets ==
    /\ DefOffset("HU") = 0 /\ DefOffset("LU") = 1 /\ DefOffset("HD") = 2 /\ DefOffset("LD") = 3
    /\ RangeOf(DefTypes) = DTypes
<1>1. /\ DefTypes[0 + 1] = "HU" /\ DefTypes[1 + 1] = "LU" /\ DefTypes[2 + 1] = "HD"
      /\ DefTypes[3 + 1] = "LD" /\ DOMAIN DefTypes = {1, 2, 3, 4}
  BY DEF DefTypes
<1>2. 0..3 = {0, 1, 2, 3}
  OBVIOUS
<1>3. ASSUME NEW d \in DTypes, NEW k \in 0..3, DefTypes[k + 1] = d,
             \A j \in 0..3 : DefTypes[j + 1] = d => j = k
      PROVE  DefOffset(d) = k
  BY <1>3 DEF DefOffset
<1>4. DefOffset("HU") = 0
  BY <1>1, <1>2, <1>3 DEF DTypes
<1>5. DefOffset("LU") = 1
  BY <1>1, <1>2, <1>3 DEF DTypes
<1>6. DefOffset("HD") = 2
  BY <1>1, <1>2, <1>3 DEF DTypes
<1>7. DefOffset("LD") = 3
  BY <1>1, <1>2, <1>3 DEF DTypes
<1>8. RangeOf(DefTypes) = DTypes
  <2> HIDE DEF DefTypes
  <2>1. DefTypes[1] = "HU" /\ DefTypes[2] = "LU" /\ DefTypes[3] = "HD" /\ DefTypes[4] = "LD"
    BY <1>1
  <2> QED
    BY <1>1, <2>1 DEF RangeOf, DTypes
<1> QED
  BY <1>4, <1>5, <1>6, <1>7, <1>8

\* When a defining clause is a tautology, and what it is otherwise.
LEMMA CleanDef ==
    ASSUME NEW nid \in Int, NEW vid \in 1..NumVars, NEW hid \in Int, NEW lid \in Int,
           NumVars < nid, nid < TAUTOLOGY,
           hid \in {TAUTOLOGY, -TAUTOLOGY} \/ (NumVars < hid /\ hid < nid),
           lid \in {TAUTOLOGY, -TAUTOLOGY} \/ (NumVars < lid /\ lid < nid), NEW d \in DTypes
    PROVE  CleanClause(DefiningClause(d, nid, vid, hid, lid)) = TautClause
              <=> \/ d = "HU" /\ hid = -TAUTOLOGY
                  \/ d = "LU" /\ lid = -TAUTOLOGY
                  \/ d = "HD" /\ hid = TAUTOLOGY
                  \/ d = "LD" /\ lid = TAUTOLOGY
<1>0. TAUTOLOGY \in Int /\ NumVars \in Nat
  BY TautologyAssumption, SizeAssumption
<1>1. ASSUME NEW c, TAUTOLOGY \notin c, \A x \in c : -x \notin c PROVE CleanClause(c) # TautClause
  BY <1>1 DEF CleanClause, TautClause
<1>2. ASSUME NEW c, TAUTOLOGY \in c PROVE CleanClause(c) = TautClause
  BY <1>2 DEF CleanClause
<1> DEFINE clause == DefiningClause(d, nid, vid, hid, lid)
<1>3. CASE d = "HU"
  <2>1. clause = {nid, -vid, -hid}
    BY <1>3 DEF DefiningClause
  <2>2. CASE hid = -TAUTOLOGY
    <3>1. TAUTOLOGY \in clause
      BY <1>0, <2>1, <2>2
    <3> QED
      BY <1>2, <1>3, <2>2, <3>1
  <2>3. CASE hid # -TAUTOLOGY
    <3>1. TAUTOLOGY \notin clause /\ \A x \in clause : -x \notin clause
      BY <1>0, <2>1, <2>3
    <3> QED
      BY <1>1, <1>3, <2>3, <3>1
  <2> QED
    BY <2>2, <2>3
<1>4. CASE d = "LU"
  <2>1. clause = {nid, vid, -lid}
    BY <1>4 DEF DefiningClause
  <2>2. CASE lid = -TAUTOLOGY
    <3>1. TAUTOLOGY \in clause
      BY <1>0, <2>1, <2>2
    <3> QED
      BY <1>2, <1>4, <2>2, <3>1
  <2>3. CASE lid # -TAUTOLOGY
    <3>1. TAUTOLOGY \notin clause /\ \A x \in clause : -x \notin clause
      BY <1>0, <2>1, <2>3
    <3> QED
      BY <1>1, <1>4, <2>3, <3>1
  <2> QED
    BY <2>2, <2>3
<1>5. CASE d = "HD"
  <2>1. clause = {-nid, -vid, hid}
    BY <1>5 DEF DefiningClause
  <2>2. CASE hid = TAUTOLOGY
    <3>1. TAUTOLOGY \in clause
      BY <1>0, <2>1, <2>2
    <3> QED
      BY <1>2, <1>5, <2>2, <3>1
  <2>3. CASE hid # TAUTOLOGY
    <3>1. TAUTOLOGY \notin clause /\ \A x \in clause : -x \notin clause
      BY <1>0, <2>1, <2>3
    <3> QED
      BY <1>1, <1>5, <2>3, <3>1
  <2> QED
    BY <2>2, <2>3
<1>6. CASE d = "LD"
  <2>1. clause = {-nid, vid, lid}
    BY <1>6 DEF DefiningClause
  <2>2. CASE lid = TAUTOLOGY
    <3>1. TAUTOLOGY \in clause
      BY <1>0, <2>1, <2>2
    <3> QED
      BY <1>2, <1>6, <2>2, <3>1
  <2>3. CASE lid # TAUTOLOGY
    <3>1. TAUTOLOGY \notin clause /\ \A x \in clause : -x \notin clause
      BY <1>0, <2>1, <2>3
    <3> QED
      BY <1>1, <1>6, <2>3, <3>1
  <2> QED
    BY <2>2, <2>3
<1> QED
  BY <1>3, <1>4, <1>5, <1>6 DEF DTypes

\* The extension variables tell constants and inner nodes apart.
LEMMA XvarFacts ==
    ASSUME TypeOK, TableInv, XvarInv, IdsFit
    PROVE  /\ NumVars \in Nat /\ varcounter \in Nat /\ counter \in Nat /\ TAUTOLOGY \in Nat
           /\ NumVars <= varcounter /\ varcounter < TAUTOLOGY /\ counter < TAUTOLOGY
           /\ node[0].xvar = -TAUTOLOGY /\ node[1].xvar = TAUTOLOGY
           /\ \A n \in Used : /\ node[n].xvar \in Int /\ NumVars < node[n].xvar
                              /\ node[n].xvar <= varcounter
           /\ \A n \in Live : /\ node[n].xvar = TAUTOLOGY <=> n = 1
                              /\ node[n].xvar = -TAUTOLOGY <=> n = 0
                              /\ node[n].xvar \in Int
<1>1. /\ NumVars \in Nat /\ varcounter \in Nat /\ counter \in Nat /\ TAUTOLOGY \in Nat
      /\ NumVars <= varcounter /\ varcounter < TAUTOLOGY /\ counter < TAUTOLOGY
  BY SizeAssumption, TautologyAssumption DEF TypeOK, XvarInv, IdsFit
<1>2. node[0] = Terminal(0) /\ node[1] = Terminal(1)
  BY DEF TableInv, Terminals
<1>3. Terminal(0).xvar = -TAUTOLOGY /\ Terminal(1).xvar = TAUTOLOGY
  BY DEF Terminal
<1>4. \A n \in Used : node[n].xvar \in Int /\ NumVars < node[n].xvar /\ node[n].xvar <= varcounter
  BY <1>1 DEF XvarInv
<1>5. 0 \notin Used /\ 1 \notin Used
  BY NodeIdFacts DEF Terminals
<1> QED
  BY <1>1, <1>2, <1>3, <1>4, <1>5 DEF Live, Terminals

\* The lines of bdd_makenode.
FreshClause(d) == DefiningClause(d, varcounter + 1, mk.level, node[mk.high].xvar, node[mk.low].xvar)
FreshTaut(d) == CleanClause(FreshClause(d)) = TautClause
FreshUp == <<-GenId(FreshClause("HU"), 1), -GenId(FreshClause("LU"), 2)>>
FreshLine(d) == Line(counter + 1 + DefOffset(d), CleanClause(FreshClause(d)),
                     IF d \in {"HU", "LU"} THEN <<>> ELSE FreshUp, "def")
FreshGen(d) == Gen(FreshClause(d), IF d \in {"HU", "LU"} THEN <<>> ELSE FreshUp, "def",
                   1 + DefOffset(d))
FreshAdd == FreshGen("HU") \o FreshGen("LU") \o FreshGen("HD") \o FreshGen("LD")

\* bdd_makenode writes these lines.
LEMMA FreshEmits ==
    ASSUME MakeFresh
    PROVE  Emit(FreshAdd, {})
<1>1. /\ FreshGen("HU") = Gen(FreshClause("HU"), <<>>, "def", 1)
      /\ FreshGen("LU") = Gen(FreshClause("LU"), <<>>, "def", 2)
      /\ FreshGen("HD") = Gen(FreshClause("HD"), FreshUp, "def", 3)
      /\ FreshGen("LD") = Gen(FreshClause("LD"), FreshUp, "def", 4)
  BY DefOffsets DEF FreshGen
<1> QED
  BY <1>1 DEF MakeFresh, FreshAdd, FreshUp, FreshClause

\* One of them for each defining clause that is not a tautology, in order.
LEMMA FreshAddFacts ==
    ASSUME counter \in Nat
    PROVE  /\ Rising(FreshAdd) /\ DOMAIN FreshAdd \subseteq Int
           /\ \A k \in DOMAIN FreshAdd : \E d \in DTypes : FreshAdd[k] = FreshLine(d) /\ ~FreshTaut(d)
           /\ \A d \in DTypes : ~FreshTaut(d) => \E k \in DOMAIN FreshAdd : FreshAdd[k] = FreshLine(d)
<1> DEFINE S == {FreshLine(d) : d \in DTypes}
           id(d) == counter + 1 + DefOffset(d)
<1>1. \A d \in DTypes : DefOffset(d) \in Nat /\ id(d) \in Int /\ FreshLine(d).id = id(d)
  BY DefOffsets DEF FreshLine, Line, DTypes
<1>2. WithIds(S)
  BY <1>1 DEF WithIds
<1>3. ASSUME NEW d \in DTypes
      PROVE  LET g == FreshGen(d)
             IN  /\ g \in Seq(S) /\ Rising(g)
                 /\ \A i \in DOMAIN g : g[i] = FreshLine(d) /\ g[i].id = id(d) /\ ~FreshTaut(d)
                 /\ ~FreshTaut(d) => 1 \in DOMAIN g
  <2> DEFINE g == FreshGen(d)
             hints == IF d \in {"HU", "LU"} THEN <<>> ELSE FreshUp
             line == Line(counter + (1 + DefOffset(d)), CleanClause(FreshClause(d)), hints, "def")
  <2>1. 1 + DefOffset(d) \in Nat /\ counter + (1 + DefOffset(d)) = id(d)
    BY <1>1
  <2>2. line = FreshLine(d)
    BY <2>1 DEF FreshLine
  <2>3. g = Gen(FreshClause(d), hints, "def", 1 + DefOffset(d))
    BY DEF FreshGen
  <2>4. /\ Rising(g) /\ \A i \in DOMAIN g : g[i] = line
        /\ FreshTaut(d) => DOMAIN g = {}
        /\ ~FreshTaut(d) => DOMAIN g = {1}
    BY <2>1, <2>3, GenFacts DEF FreshTaut
  <2>5. g \in Seq(S)
    <3>1. line \in S
      BY <2>2
    <3> QED
      BY <2>3, <3>1, GenSeq
  <2> HIDE DEF g, line
  <2> QED
    BY <1>1, <2>2, <2>4, <2>5 DEF g
<1> DEFINE a == FreshGen("HU")
           b == FreshGen("LU")
           c == FreshGen("HD")
           e == FreshGen("LD")
<1>4. /\ a \in Seq(S) /\ b \in Seq(S) /\ c \in Seq(S) /\ e \in Seq(S)
      /\ Rising(a) /\ Rising(b) /\ Rising(c) /\ Rising(e)
      /\ \A i \in DOMAIN a : a[i].id = counter + 1
      /\ \A i \in DOMAIN b : b[i].id = counter + 2
      /\ \A i \in DOMAIN c : c[i].id = counter + 3
      /\ \A i \in DOMAIN e : e[i].id = counter + 4
  <2>1. /\ id("HU") = counter + 1 /\ id("LU") = counter + 2 /\ id("HD") = counter + 3
        /\ id("LD") = counter + 4
    BY DefOffsets
  <2> HIDE DEF id, S
  <2> QED
    BY <1>3, <2>1 DEF DTypes
<1> HIDE DEF S, a, b, c, e, id
<1>5. PICK ab : ab = a \o b
  OBVIOUS
<1>6. PICK abc : abc = ab \o c
  OBVIOUS
<1>7. PICK abce : abce = abc \o e
  OBVIOUS
<1>8. ab \in Seq(S) /\ Rising(ab) /\ IdsUpTo(ab, counter + 2) /\ Joined(a, b, ab)
  <2>1. counter + 1 \in Int /\ IdsUpTo(a, counter + 1) /\ IdsBeyond(b, counter + 1)
    BY <1>4 DEF IdsUpTo, IdsBeyond
  <2>2. ab \in Seq(S) /\ Rising(ab) /\ Joined(a, b, ab)
    BY <1>2, <1>4, <1>5, <2>1, RisingConcat
  <2>3. ASSUME NEW i \in DOMAIN ab PROVE ab[i].id <= counter + 2
    <3>1. CASE \E j \in DOMAIN a : ab[i] = a[j]
      <4>1. PICK j \in DOMAIN a : ab[i] = a[j]
        BY <3>1
      <4>2. a[j].id \in Int
        BY <1>2, <1>4, ElementOfSeq DEF WithIds
      <4> QED
        BY <2>1, <4>1, <4>2 DEF IdsUpTo
    <3>2. CASE \E j \in DOMAIN b : ab[i] = b[j]
      BY <1>4, <3>2
    <3> QED
      BY <2>2, <3>1, <3>2 DEF Joined
  <2> QED
    BY <2>2, <2>3 DEF IdsUpTo
<1>9. abc \in Seq(S) /\ Rising(abc) /\ IdsUpTo(abc, counter + 3) /\ Joined(ab, c, abc)
  <2>1. counter + 2 \in Int /\ IdsUpTo(ab, counter + 2) /\ IdsBeyond(c, counter + 2)
    BY <1>4, <1>8 DEF IdsUpTo, IdsBeyond
  <2>2. abc \in Seq(S) /\ Rising(abc) /\ Joined(ab, c, abc)
    <3>1. c \in Seq(S) /\ Rising(c) /\ ab \in Seq(S) /\ Rising(ab)
      BY <1>4, <1>8
    <3> QED
      BY <1>2, <1>6, <2>1, <3>1, RisingConcat, Zenon
  <2>3. ASSUME NEW i \in DOMAIN abc PROVE abc[i].id <= counter + 3
    <3>1. CASE \E j \in DOMAIN ab : abc[i] = ab[j]
      <4>1. PICK j \in DOMAIN ab : abc[i] = ab[j]
        BY <3>1
      <4>2. ab[j].id \in Int
        BY <1>2, <1>4, <1>8, ElementOfSeq DEF WithIds
      <4> QED
        BY <2>1, <4>1, <4>2 DEF IdsUpTo
    <3>2. CASE \E j \in DOMAIN c : abc[i] = c[j]
      BY <1>4, <3>2
    <3> QED
      BY <2>2, <3>1, <3>2 DEF Joined
  <2> QED
    BY <2>2, <2>3 DEF IdsUpTo
<1>10. Rising(abce) /\ DOMAIN abce \subseteq Int /\ Joined(abc, e, abce)
  <2>1. counter + 3 \in Int /\ IdsUpTo(abc, counter + 3) /\ IdsBeyond(e, counter + 3)
    BY <1>4, <1>9 DEF IdsBeyond
  <2> QED
    <3>1. e \in Seq(S) /\ Rising(e) /\ abc \in Seq(S) /\ Rising(abc)
      BY <1>4, <1>9
    <3> QED
      BY <1>2, <1>7, <2>1, <3>1, RisingConcat, ZenonT(60)
<1>11. FreshAdd = abce
  BY <1>5, <1>6, <1>7 DEF FreshAdd, a, b, c, e
<1> HIDE <1>5, <1>6, <1>7
<1>13. \A k \in DOMAIN abce : \/ \E j \in DOMAIN a : abce[k] = a[j]
                              \/ \E j \in DOMAIN b : abce[k] = b[j]
                              \/ \E j \in DOMAIN c : abce[k] = c[j]
                              \/ \E j \in DOMAIN e : abce[k] = e[j]
  <2>1. ASSUME NEW k \in DOMAIN abce
        PROVE  \/ \E j \in DOMAIN a : abce[k] = a[j]
               \/ \E j \in DOMAIN b : abce[k] = b[j]
               \/ \E j \in DOMAIN c : abce[k] = c[j]
               \/ \E j \in DOMAIN e : abce[k] = e[j]
    <3>1. \A j \in DOMAIN ab : abce[k] = ab[j] =>
             (\E i \in DOMAIN a : abce[k] = a[i]) \/ (\E i \in DOMAIN b : abce[k] = b[i])
      BY <1>8 DEF Joined
    <3>2. \A j \in DOMAIN abc : abce[k] = abc[j] =>
             (\E i \in DOMAIN ab : abce[k] = ab[i]) \/ (\E i \in DOMAIN c : abce[k] = c[i])
      BY <1>9 DEF Joined
    <3>3. (\E j \in DOMAIN abc : abce[k] = abc[j]) \/ (\E j \in DOMAIN e : abce[k] = e[j])
      BY <1>10 DEF Joined
    <3> QED
      BY <3>1, <3>2, <3>3, Zenon
  <2> QED
    BY <2>1
<1>14. /\ \A j \in DOMAIN a : \E k \in DOMAIN abce : abce[k] = a[j]
       /\ \A j \in DOMAIN b : \E k \in DOMAIN abce : abce[k] = b[j]
       /\ \A j \in DOMAIN c : \E k \in DOMAIN abce : abce[k] = c[j]
       /\ \A j \in DOMAIN e : \E k \in DOMAIN abce : abce[k] = e[j]
  BY <1>8, <1>9, <1>10 DEF Joined
<1>15. \A d \in DTypes : /\ \A j \in DOMAIN FreshGen(d) : FreshGen(d)[j] = FreshLine(d) /\ ~FreshTaut(d)
                         /\ ~FreshTaut(d) => 1 \in DOMAIN FreshGen(d)
  BY <1>3
<1>16. \A k \in DOMAIN abce : \E d \in DTypes : abce[k] = FreshLine(d) /\ ~FreshTaut(d)
  <2>1. \A k \in DOMAIN abce : \E d \in DTypes : \E j \in DOMAIN FreshGen(d) : abce[k] = FreshGen(d)[j]
    BY <1>13 DEF a, b, c, e, DTypes
  <2> QED
    BY <1>15, <2>1
<1>17. \A d \in DTypes : ~FreshTaut(d) => \E k \in DOMAIN abce : abce[k] = FreshLine(d)
  <2>1. \A d \in DTypes : \A j \in DOMAIN FreshGen(d) : \E k \in DOMAIN abce : abce[k] = FreshGen(d)[j]
    BY <1>14 DEF a, b, c, e, DTypes
  <2> QED
    BY <1>15, <2>1
<1> QED
  BY <1>10, <1>11, <1>16, <1>17

-----------------------------------------------------------------------------
(* One clause, and deletions *)

\* A step that writes the clauses new of one kind and deletes the clauses del.
Filed(kind, new, del) ==
    /\ db' = [i \in DOMAIN db' |-> db'[i]]
    /\ DOMAIN db' = (DOMAIN db \ del) \cup new
    /\ \A i \in DOMAIN db \ del : db'[i] = db[i]
    /\ new \cap DOMAIN db = {}
    /\ \A x : KindOf(x)' = (KindOf(x) \ del) \cup IF x = kind THEN new ELSE {}

\* What generate_clause and delete_clauses leave in the file when the proof goes
\* on: the clause is not written if it is a tautology.
LEMMA OneClause ==
    ASSUME NEW lits, NEW hints, NEW kind, NEW del, Emit(Gen(lits, hints, kind, 1), del),
           emptyId' = TAUTOLOGY, counter \in Nat, counter + 1 < TAUTOLOGY, TAUTOLOGY \in Nat,
           DOMAIN db \subseteq 1..counter, del \subseteq DOMAIN db
    PROVE  LET new == IF CleanClause(lits) = TautClause THEN {} ELSE {counter + 1}
           IN  /\ emptyId = TAUTOLOGY /\ Filed(kind, new, del)
               /\ \A i \in new : /\ db'[i] = [lits |-> CleanClause(lits), kind |-> kind]
                                 /\ CleanClause(lits) # {}
<1> DEFINE g == Gen(lits, hints, kind, 1)
           new == IF CleanClause(lits) = TautClause THEN {} ELSE {counter + 1}
           line == Line(counter + 1, CleanClause(lits), hints, kind)
<1>1. /\ DOMAIN g \subseteq Int /\ Rising(g) /\ \A i \in DOMAIN g : g[i] = line /\ g[i].id = counter + 1
      /\ CleanClause(lits) = TautClause => DOMAIN g = {}
      /\ CleanClause(lits) # TautClause => DOMAIN g = {1}
  BY GenFacts
<1>2. line.lits = CleanClause(lits) /\ line.kind = kind /\ line.id = counter + 1
  BY DEF Line
<1>3. Emit(g, del)
  OBVIOUS
<1> HIDE DEF g, line
<1>4. /\ LogSpec!AddedIds(g) = new /\ \A x : AddedOf(g, x) = IF x = kind THEN new ELSE {}
  <2>1. CASE CleanClause(lits) = TautClause
    BY <1>1, <2>1 DEF LogSpec!AddedIds, AddedOf
  <2>2. CASE CleanClause(lits) # TautClause
    <3>1. DOMAIN g = {1} /\ g[1].id = counter + 1 /\ g[1].kind = kind
      BY <1>1, <1>2, <2>2
    <3>2. {k \in DOMAIN g : g[k].kind = kind} = {1}
          /\ \A x : x # kind => {k \in DOMAIN g : g[k].kind = x} = {}
      BY <3>1
    <3> QED
      BY <2>2, <3>1, <3>2 DEF LogSpec!AddedIds, AddedOf
  <2> QED
    BY <2>1, <2>2
<1>5. Above(g, counter) /\ \A k \in DOMAIN g : g[k].id # TAUTOLOGY
  BY <1>1 DEF Above
<1>6. /\ emptyId = TAUTOLOGY /\ db' = [i \in DOMAIN db' |-> db'[i]]
      /\ DOMAIN db' = (DOMAIN db \cup LogSpec!AddedIds(g)) \ del
      /\ \A i \in DOMAIN db \ del : db'[i] = db[i]
      /\ \A k \in DOMAIN g : g[k].lits # {}
      /\ \A k \in DOMAIN g : g[k].id \notin del =>
            db'[g[k].id] = [lits |-> g[k].lits, kind |-> g[k].kind]
      /\ \A x : KindOf(x)' = (KindOf(x) \cup AddedOf(g, x)) \ del
  <2>1. FileAfter(g, del)
    BY <1>1, <1>3, <1>5, FileStep
  <2> QED
    BY <2>1, Zenon DEF FileAfter
<1>7. counter + 1 \notin del
  OBVIOUS
<1>8. \A i \in new : /\ db'[i] = [lits |-> CleanClause(lits), kind |-> kind]
                     /\ CleanClause(lits) # {}
  <2>1. CASE CleanClause(lits) # TautClause
    <3>1. 1 \in DOMAIN g /\ g[1].id = counter + 1 /\ g[1].kind = kind /\ g[1].lits = CleanClause(lits)
      BY <1>1, <1>2, <2>1
    <3> QED
      BY <1>6, <1>7, <2>1, <3>1
  <2> QED
    BY <2>1
<1>9. \A x : KindOf(x)' = (KindOf(x) \ del) \cup IF x = kind THEN new ELSE {}
  BY <1>4, <1>6, <1>7
<1>10. DOMAIN db' = (DOMAIN db \ del) \cup new
  BY <1>4, <1>6, <1>7
<1>11. new \cap DOMAIN db = {}
  <2>1. counter + 1 \notin DOMAIN db
    OBVIOUS
  <2> QED
    BY <2>1
<1>12. Filed(kind, new, del)
  <2> HIDE DEF new
  <2> QED
    BY <1>6, <1>9, <1>10, <1>11, Zenon DEF Filed
<1> QED
  BY <1>6, <1>8, <1>12

\* Deletions alone.
LEMMA Deletions ==
    ASSUME NEW kind, NEW del, Emit(<<>>, del), emptyId' = TAUTOLOGY, counter \in Nat,
           DOMAIN db \subseteq 1..counter
    PROVE  emptyId = TAUTOLOGY /\ Filed(kind, {}, del)
<1>1. /\ DOMAIN <<>> \subseteq Int /\ Rising(<<>>) /\ Above(<<>>, counter)
      /\ \A k \in DOMAIN <<>> : <<>>[k].id # TAUTOLOGY
  BY DEF Rising, Above
<1>2. LogSpec!AddedIds(<<>>) = {} /\ \A x : AddedOf(<<>>, x) = {}
  BY DEF LogSpec!AddedIds, AddedOf
<1>3. FileAfter(<<>>, del)
  BY <1>1, FileStep
<1> QED
  BY <1>2, <1>3 DEF FileAfter, Filed

\* A clause that cites clauses of the file, and deletes clauses of the file.
Citable(hints) == \A i \in DOMAIN hints : hints[i] \in DOMAIN db \cup {TAUTOLOGY}

LEMMA OneClauseExtends ==
    ASSUME NEW lits, NEW hints, NEW kind, NEW del, Emit(Gen(lits, hints, kind, 1), del),
           counter \in Nat, TAUTOLOGY \in Nat, db = [i \in DOMAIN db |-> db[i]],
           DOMAIN db \subseteq 1..counter,
           emptyId = TAUTOLOGY => del \subseteq DOMAIN db /\ Citable(hints)
    PROVE  LogSpec!Extend
<1> DEFINE g == Gen(lits, hints, kind, 1)
           line == Line(counter + 1, CleanClause(lits), hints, kind)
<1>1. DOMAIN g \subseteq Int /\ Rising(g) /\ \A i \in DOMAIN g : g[i] = line /\ g[i].id = counter + 1
  BY GenFacts
<1>2. line.hints = hints
  BY DEF Line
<1>3. Emit(g, del)
  OBVIOUS
<1> HIDE DEF g, line
<1>4. Above(g, counter)
  BY <1>1 DEF Above
<1>5. ASSUME emptyId = TAUTOLOGY, NEW k \in DOMAIN g, NEW c \in LogSpec!Cited(g[k])
      PROVE  c \in DOMAIN db
  <2>1. g[k].hints = hints
    BY <1>1, <1>2
  <2>2. PICK i \in DOMAIN hints : c = IF hints[i] < 0 THEN -hints[i] ELSE hints[i]
    BY <1>5, <2>1 DEF LogSpec!Cited
  <2>3. c # TAUTOLOGY
    BY <1>5 DEF LogSpec!Cited
  <2>4. hints[i] \in DOMAIN db \cup {TAUTOLOGY} /\ hints[i] \in Nat
    BY <1>5, <2>2 DEF Citable
  <2> QED
    BY <2>2, <2>3, <2>4
<1> QED
  BY <1>1, <1>3, <1>4, <1>5, ExtendStep

LEMMA DeletionsExtend ==
    ASSUME NEW del, Emit(<<>>, del), counter \in Nat, db = [i \in DOMAIN db |-> db[i]],
           DOMAIN db \subseteq 1..counter, emptyId = TAUTOLOGY => del \subseteq DOMAIN db
    PROVE  LogSpec!Extend
<1>1. DOMAIN <<>> \subseteq Int /\ Rising(<<>>) /\ Above(<<>>, counter)
  BY DEF Rising, Above
<1> QED
  BY <1>1, ExtendStep

-----------------------------------------------------------------------------
(* Owners.                                                                 *)

USE DEF Quiet, kernelVars

\* The steps that write clauses or delete them; those that do not leave every
\* owner with what it has, or make a second reference to a trusted BDD.
Writes ==
    \/ MakeFresh \/ (MakeGbc /\ Ordered) \/ (JustifyStep /\ pc' = "ret")
    \/ FinishApply \/ ClauseWalked \/ CheckWalked
    \/ (\E h \in Owned : Delref(h)) \/ Done
SameOwners ==
    /\ UNCHANGED <<db, emptyId, cache, deferred, varcounter, counter>>
    /\ log' = LogSpec!Nothing /\ pc' # "done" /\ SameNodes
    /\ DOMAIN rc' = DOMAIN rc
    /\ \A g \in Held' : \E h \in Held : handle'[g] = handle[h]

LEMMA HandleCopied ==
    ASSUME TypeOK, NEW dest \in Holders, NEW h \in Held, handle' = [handle EXCEPT ![dest] = handle[h]]
    PROVE  \A g \in Held' : \E k \in Held : handle'[g] = handle[k]
<1>1. \A g \in Holders : handle'[g] = IF g = dest THEN handle[h] ELSE handle[g]
  BY DEF TypeOK
<1> QED
  BY <1>1 DEF Held

LEMMA QuietSteps ==
    ASSUME IInv, Internal \/ Client, ~Writes
    PROVE  SameOwners
<1>1. Running /\ TypeOK /\ RcInv /\ DestInv /\ TopPre /\ ~MakeFresh
  BY StillRunning DEF IInv, TopPre, Writes
<1>2. ASSUME UNCHANGED handle PROVE \A g \in Held' : \E h \in Held : handle'[g] = handle[h]
  BY <1>2 DEF Held
<1>3. ASSUME NEW dest \in Open, NEW h \in Owned, Duplicate(dest, handle[h])
      PROVE  /\ DOMAIN rc' = DOMAIN rc
             /\ \A g \in Held' : \E k \in Held : handle'[g] = handle[k]
  <2>1. dest \in Handles /\ dest \in Holders /\ h \in Held
    BY TmpFree DEF Open, Owned
  <2>2. DOMAIN rc' = DOMAIN rc
    BY <1>1, <1>3, <2>1, DuplicateType
  <2>3. handle' = [handle EXCEPT ![dest] = handle[h]]
    BY <1>3 DEF Duplicate
  <2> QED
    BY <1>1, <2>1, <2>2, <2>3, HandleCopied
<1>4. CASE MakeGbc
  <2>1. ~Ordered
    BY <1>4 DEF Writes
  <2>2. /\ UNCHANGED <<node, db, emptyId, cache, deferred, varcounter, counter, handle, rc>>
        /\ log' = LogSpec!Nothing /\ pc' # "done"
    BY <1>4, <2>1 DEF MakeGbc
  <2> QED
    BY <1>1, <1>2, <2>2, SameIfUnchanged DEF SameOwners
<1>5. ASSUME ~MakeGbc PROVE SameNodes
  BY <1>1, <1>5, ShapeKept
<1>6. CASE \/ SetVar \/ VarMade \/ MakeFound \/ Grow
           \/ EnterLeaf \/ EnterDegenerate \/ EnterRefuted \/ EnterMiss
           \/ ReturnLow \/ ReturnHigh
           \/ BuildLiteral \/ LiteralMade \/ ClauseBuilt \/ CheckBuilt \/ Walk
  <2>1. /\ UNCHANGED <<db, emptyId, cache, deferred, varcounter, counter, handle, rc>>
        /\ log' = LogSpec!Nothing /\ pc' # "done"
    <3>1. ASSUME SetVar \/ VarMade \/ MakeFound \/ Grow
          PROVE  /\ UNCHANGED <<db, emptyId, cache, deferred, varcounter, counter, handle, rc>>
                 /\ log' = LogSpec!Nothing /\ pc' # "done"
      BY <3>1 DEF SetVar, VarMade, MakeFound, Grow, AfterGrow
    <3>2. ASSUME EnterLeaf \/ EnterDegenerate \/ EnterRefuted \/ EnterMiss \/ ReturnLow \/ ReturnHigh
          PROVE  /\ UNCHANGED <<db, emptyId, cache, deferred, varcounter, counter, handle, rc>>
                 /\ log' = LogSpec!Nothing /\ pc' # "done"
      BY <3>2 DEF EnterLeaf, EnterDegenerate, EnterRefuted, EnterMiss, ReturnLow, ReturnHigh
    <3>3. ASSUME BuildLiteral \/ LiteralMade \/ ClauseBuilt \/ CheckBuilt \/ Walk
          PROVE  /\ UNCHANGED <<db, emptyId, cache, deferred, varcounter, counter, handle, rc>>
                 /\ log' = LogSpec!Nothing /\ pc' # "done"
      BY <3>3 DEF BuildLiteral, LiteralMade, ClauseBuilt, CheckBuilt, Walk, StartApply
    <3> QED
      BY <1>6, <3>1, <3>2, <3>3
  <2>2. ~MakeGbc
    BY <1>6 DEF MakeGbc, MustBuild, SetVar, VarMade, MakeFound, Grow, EnterLeaf, EnterDegenerate,
       EnterRefuted, EnterMiss, ReturnLow, ReturnHigh, BuildLiteral, LiteralMade, ClauseBuilt,
       CheckBuilt, Walk
  <2> QED
    BY <1>2, <1>5, <2>1, <2>2 DEF SameOwners
<1>7. CASE JustifyStep
  <2>1. pc' # "ret" /\ ~MakeGbc
    BY <1>7 DEF Writes, JustifyStep, MakeGbc, MustBuild
  <2>2. /\ UNCHANGED <<db, emptyId, cache, deferred, varcounter, counter, handle, rc>>
        /\ log' = LogSpec!Nothing /\ pc' # "done"
    BY <1>7, <2>1 DEF JustifyStep
  <2> QED
    BY <1>2, <1>5, <2>1, <2>2 DEF SameOwners
<1>8. CASE Client
  <2>0. pc = "client" /\ ~MakeGbc
    BY <1>8, Zenon DEF Client, FromClause, Addref, Validate, And, ValidateWithAnd, Delref,
       ValidateClause, Done, MayStart, MakeGbc, MustBuild
  <2>1. ASSUME NEW h \in Open, NEW id \in DOMAIN InputClauses, FromClause(h, id) PROVE SameOwners
    BY <1>2, <1>5, <2>0, <2>1 DEF FromClause, StartBuild, SameOwners
  <2>2. ASSUME NEW h \in Open, NEW h1 \in Owned, Addref(h, h1) PROVE SameOwners
    BY <1>3, <1>5, <2>0, <2>2 DEF Addref, SameOwners
  <2>3. ASSUME NEW h \in Open, NEW h1 \in Owned, NEW r \in Nameable, Validate(h, r, h1) PROVE SameOwners
    <3>1. /\ UNCHANGED <<db, emptyId, cache, deferred, varcounter, counter>>
          /\ log' = LogSpec!Nothing /\ pc' # "done"
          /\ Duplicate(h, handle[h1]) \/ UNCHANGED <<handle, rc>>
      BY <2>0, <2>3 DEF Validate, StartApply
    <3> QED
      BY <1>2, <1>3, <1>5, <2>0, <3>1 DEF SameOwners
  <2>4. ASSUME NEW h \in Open, NEW h1 \in Owned, NEW h2 \in Owned, And(h, h1, h2) PROVE SameOwners
    <3>1. /\ UNCHANGED <<db, emptyId, cache, deferred, varcounter, counter>>
          /\ log' = LogSpec!Nothing /\ pc' # "done"
          /\ \/ Duplicate(h, handle[h1]) \/ Duplicate(h, handle[h2])
             \/ UNCHANGED <<handle, rc>>
      BY <2>0, <2>4 DEF And, StartApply
    <3> QED
      BY <1>2, <1>3, <1>5, <2>0, <3>1 DEF SameOwners
  <2>5. ASSUME NEW h \in Open, NEW h1 \in Owned, NEW h2 \in Owned, NEW r \in Nameable,
               ValidateWithAnd(h, r, h1, h2)
        PROVE  SameOwners
    BY <1>2, <1>5, <2>0, <2>5 DEF ValidateWithAnd, StartApply, SameOwners
  <2>6. ASSUME NEW h1 \in Owned, NEW lits \in ClientClauses, ValidateClause(lits, h1) PROVE SameOwners
    BY <1>2, <1>5, <2>0, <2>6 DEF ValidateClause, StartBuild, SameOwners
  <2> QED
    BY <1>8, <2>1, <2>2, <2>3, <2>4, <2>5, <2>6 DEF Client, Writes
<1> QED
  BY <1>4, <1>6, <1>7, <1>8 DEF Internal, Writes

\* The file stays a map from ids to clauses.
LEMMA EmitMap ==
    ASSUME NEW add, NEW del, Emit(add, del), db = [i \in DOMAIN db |-> db[i]]
    PROVE  db' = [i \in DOMAIN db' |-> db'[i]]
BY DEF Emit, LogSpec!Replay

\* The nodes of the table after a step that neither makes a node nor collects.
LEMMA WritesSame ==
    ASSUME IInv, Internal \/ Client, ~MakeFresh, ~MakeGbc
    PROVE  SameNodes /\ UNCHANGED varcounter
<1>1. SameNodes
  BY ShapeKept, StillRunning DEF IInv, TopPre
<1>2. ASSUME Writes PROVE UNCHANGED varcounter
  BY <1>2 DEF Writes, JustifyStep, FinishApply, ClauseWalked, CheckWalked, Delref, Done
<1> QED
  BY <1>1, <1>2, QuietSteps DEF SameOwners

\* The extension variable of a new node is beyond all others.
LEMMA XvarStep ==
    ASSUME IInv, XvarInv, Internal \/ Client
    PROVE  XvarInv'
<1>1. Running /\ TypeOK /\ TableInv /\ ControlInv /\ RootsInv /\ NumVars \in Nat /\ varcounter \in Nat
  BY StillRunning, SizeAssumption DEF IInv, TypeOK
<1>2. CASE MakeFresh
  <2>1. /\ Used' = Used \cup {ret'.root} /\ ret'.root \notin Used
        /\ node'[ret'.root].xvar = varcounter + 1 /\ \A m \in NodeIds : m # ret'.root => node'[m] = node[m]
    BY <1>1, <1>2, FreshFacts
  <2>2. varcounter' = varcounter + 1
    BY <1>2 DEF MakeFresh
  <2>3. ASSUME NEW n \in Used PROVE node'[n].xvar \in (NumVars + 1)..varcounter'
    <3>1. n \in NodeIds /\ n # ret'.root
      BY <2>1, NodeIdFacts
    <3> QED
      BY <1>1, <2>1, <2>2, <3>1 DEF XvarInv
  <2>4. node'[ret'.root].xvar \in (NumVars + 1)..varcounter'
    BY <1>1, <2>1, <2>2 DEF XvarInv
  <2> QED
    BY <1>1, <2>1, <2>2, <2>3, <2>4 DEF XvarInv
<1>3. CASE MakeGbc
  <2>1. varcounter' = varcounter /\ (Collect \/ UNCHANGED node)
    BY <1>3 DEF MakeGbc
  <2>2. CASE Collect
    <3>1. Used' \subseteq Used /\ \A n \in Used' : node'[n] = node[n]
      BY <1>1, <2>2, CollectFacts DEF Live
    <3> QED
      BY <2>1, <3>1 DEF XvarInv
  <2> QED
    BY <2>1, <2>2, TableUnchanged DEF XvarInv
<1>4. CASE ~MakeFresh /\ ~MakeGbc
  <2>1. SameNodes /\ UNCHANGED varcounter
    BY <1>4, WritesSame
  <2>2. Used' = Used
    BY <1>1, <2>1, SameTable
  <2>3. \A n \in Used : node'[n].xvar = node[n].xvar
    BY <2>1, NodeIdFacts DEF SameNodes
  <2> QED
    BY <2>1, <2>2, <2>3 DEF XvarInv
<1> QED
  BY <1>2, <1>3, <1>4

\* What tbdd_validate_clause is at: nothing that the cases of BuildInv do not see.
LEMMA BuildKept ==
    ASSUME handle'[Tmp].root # 1,
           job'.kind \in BuildKinds =>
              /\ job'.r # 1
              /\ stack' = <<>> => pc' \notin MakePcs
    PROVE  BuildInv'
BY DEF BuildInv, MakePcs

LEMMA BuildStep ==
    ASSUME IInv, BuildInv, Internal \/ Client, Running'
    PROVE  BuildInv'
<1>1. Running /\ TypeOK /\ ControlInv /\ DestInv /\ RootsInv /\ TableInv /\ job \in Jobs /\ mk.low \in NodeIds
  BY StillRunning DEF IInv, TypeOK
<1>2. Tmp \notin Handles /\ Tmp \in Holders
  BY TmpFree
<1>3. ASSUME NEW dest \in Handles, NEW new, handle' = [handle EXCEPT ![dest] = new]
      PROVE  handle'[Tmp].root # 1
  BY <1>1, <1>2, <1>3 DEF BuildInv, TypeOK
<1>4. ASSUME UNCHANGED handle PROVE handle'[Tmp].root # 1
  BY <1>4 DEF BuildInv
<1>5. CASE SetVar \/ VarMade
  <2>1. UNCHANGED handle /\ job.kind = "none" /\ (UNCHANGED job \/ job' = NoJob \/ job' = [job EXCEPT !.id = @ + 1])
    BY <1>1, <1>5 DEF SetVar, VarMade, ControlInv
  <2>2. job'.kind = "none"
    BY <1>1, <2>1 DEF Jobs, NoJob
  <2> QED
    BY <1>4, <2>1, <2>2, BuildKept DEF BuildKinds
<1>6. CASE MakeFound
  <2>1. /\ UNCHANGED <<handle, job, stack, mk>> /\ pc = "makenode" /\ pc' = "made"
        /\ mk.low = mk.high \/ \E n \in Matching : ret' = [NoRet EXCEPT !.root = n]
    BY <1>6 DEF MakeFound
  <2>2. ASSUME NEW n \in Matching, ret' = [NoRet EXCEPT !.root = n] PROVE ret'.root # 1
    <3>1. n # 1 /\ ret'.root = n
      BY <2>2, NodeIdFacts DEF Matching, NoRet, Terminals
    <3> QED
      BY <3>1
  <2> QED
    BY <2>1, <2>2 DEF BuildInv
<1>7. CASE MakeFresh
  <2>1. /\ UNCHANGED <<handle, job, stack, mk>> /\ pc' = "made"
    BY <1>7 DEF MakeFresh
  <2>2. ret'.root # 1
    BY <1>1, <1>7, FreshFacts, NodeIdFacts DEF Terminals
  <2> QED
    BY <2>1, <2>2 DEF BuildInv
<1>8. CASE MakeGbc \/ Grow
  <2>1. /\ UNCHANGED <<handle, job, stack, mk>> /\ pc \in {"makenode", "grow"} /\ pc' \in {"makenode", "grow", "exit"}
    BY <1>8 DEF MakeGbc, Grow, MustBuild, AfterGrow
  <2> QED
    BY <2>1 DEF BuildInv
<1>9. CASE EnterLeaf \/ EnterDegenerate \/ EnterRefuted \/ EnterMiss \/ ReturnLow
  <2>1. UNCHANGED <<handle, job>> /\ pc' \notin MakePcs
    BY <1>9 DEF EnterLeaf, EnterDegenerate, EnterRefuted, EnterMiss, ReturnLow, MakePcs
  <2> QED
    BY <2>1, BuildKept DEF BuildInv
<1>10. CASE ReturnHigh
  <2>1. UNCHANGED <<handle, job>> /\ stack # <<>> /\ stack' = [stack EXCEPT ![Len(stack)].high = ret]
    BY <1>10 DEF ReturnHigh
  <2>2. stack' # <<>>
    <3>1. DOMAIN stack' = DOMAIN stack /\ Len(stack) \in DOMAIN stack
      BY <1>1, <2>1, TopFrame
    <3> QED
      BY <3>1
  <2> QED
    BY <2>1, <2>2, BuildKept DEF BuildInv
<1>11. CASE JustifyStep
  <2>1. UNCHANGED <<handle, job>> /\ pc' \notin MakePcs
    BY <1>11 DEF JustifyStep, MakePcs
  <2> QED
    BY <2>1, BuildKept DEF BuildInv
<1>12. CASE FinishApply
  <2>1. CASE job.kind = "check"
    <3>1. /\ pc' = "walk" /\ job'.r = job.r
          /\ \E cid : handle' = [handle EXCEPT ![job.dest] = [root |-> job.r, cid |-> cid]]
      BY <1>1, <1>12, <2>1 DEF FinishApply, Jobs
    <3>2. job.dest = Tmp /\ job.r # 1
      BY <1>1, <2>1 DEF DestInv, BuildInv, BuildKinds
    <3>3. handle'[Tmp].root # 1
      <4>1. PICK cid : handle' = [handle EXCEPT ![job.dest] = [root |-> job.r, cid |-> cid]]
        BY <3>1
      <4>2. handle'[Tmp] = [root |-> job.r, cid |-> cid]
        BY <1>1, <1>2, <3>2, <4>1 DEF TypeOK
      <4> QED
        BY <3>2, <4>2
    <3> QED
      BY <3>1, <3>2, <3>3, BuildKept DEF MakePcs
  <2>2. CASE job.kind # "check"
    <3>1. Return /\ \E new : handle' = [handle EXCEPT ![job.dest] = new]
      BY <1>12, <2>2 DEF FinishApply
    <3>2. job.dest \in Handles
      BY <1>1, <1>12, <2>2 DEF FinishApply, ControlInv, DestInv, ApplyKinds
    <3>3. job'.kind = "none"
      BY <3>1 DEF Return, NoJob
    <3> QED
      BY <1>3, <3>1, <3>2, <3>3, BuildKept DEF BuildKinds
  <2> QED
    BY <2>1, <2>2
<1>13. CASE BuildLiteral
  <2>1. /\ UNCHANGED <<handle, job, stack>> /\ pc' = "makenode" /\ mk' = LiteralNode(MaxOf(job.todo))
        /\ job.kind \in BuildKinds /\ pc = "build"
    BY <1>1, <1>13 DEF BuildLiteral, ControlInv
  <2>2. mk'.low # mk'.high
    BY <2>1 DEF LiteralNode, BuildInv
  <2> QED
    BY <2>1, <2>2 DEF BuildInv
<1>14. CASE LiteralMade
  <2>1. /\ UNCHANGED <<handle, stack>> /\ pc' = "build" /\ stack = <<>> /\ pc = "made"
        /\ job.kind \in BuildKinds /\ job'.r = ret.root
    BY <1>1, <1>14 DEF LiteralMade, BuildKinds, Jobs
  <2> QED
    BY <1>4, <2>1, BuildKept DEF BuildInv, MakePcs
<1>15. CASE ClauseBuilt \/ CheckBuilt \/ Walk
  <2>1. UNCHANGED handle /\ pc' \notin MakePcs /\ job.kind \in BuildKinds \cup {"path"}
    BY <1>1, <1>15 DEF ClauseBuilt, CheckBuilt, Walk, MakePcs, StartApply, BuildKinds, ControlInv
  <2>2. job'.r = job.r /\ (job'.kind \in BuildKinds => job.kind \in BuildKinds)
    <3>1. CASE ClauseBuilt
      BY <1>1, <3>1 DEF ClauseBuilt, Jobs
    <3>2. CASE CheckBuilt
      BY <1>1, <3>2 DEF CheckBuilt, StartApply, Jobs, BuildKinds
    <3>3. CASE Walk
      BY <1>1, <3>3 DEF Walk, Jobs
    <3> QED
      BY <1>15, <3>1, <3>2, <3>3
  <2> QED
    BY <1>4, <2>1, <2>2, BuildKept DEF BuildInv
<1>16. CASE ClauseWalked \/ CheckWalked
  <2>1. job'.kind = "none"
    BY <1>16 DEF ClauseWalked, CheckWalked, Return, NoJob
  <2>2. handle'[Tmp].root # 1
    <3>1. CASE ClauseWalked
      <4>1. job.dest \in Handles /\ \E new : handle' = [handle EXCEPT ![job.dest] = new]
        BY <1>1, <3>1 DEF ClauseWalked, DestInv
      <4> QED
        BY <1>3, <4>1
    <3>2. CASE CheckWalked
      <4>1. UNCHANGED handle \/ handle' = [handle EXCEPT ![Tmp] = NoTbdd]
        BY <3>2 DEF CheckWalked
      <4>2. NoTbdd.root # 1
        BY DEF NoTbdd
      <4> QED
        BY <1>1, <1>2, <1>4, <4>1, <4>2 DEF TypeOK
    <3> QED
      BY <1>16, <3>1, <3>2
  <2> QED
    BY <2>1, <2>2, BuildKept DEF BuildKinds
<1>17. CASE Client
  <2>1. job = NoJob /\ pc = "client" /\ stack = <<>>
    <3>1. pc = "client"
      BY <1>17, Zenon DEF Client, FromClause, Addref, Validate, And, ValidateWithAnd, Delref,
         ValidateClause, Done, MayStart
    <3> QED
      BY <1>1, <3>1 DEF ControlInv, ApplyPcs, MakePcs
  <2>2. ASSUME NEW dest \in Open, NEW t, Duplicate(dest, t) PROVE handle'[Tmp].root # 1
    BY <1>3, <2>2 DEF Duplicate, Open
  <2>3. NoJob.r # 1 /\ NoJob.kind \notin BuildKinds /\ pc \notin MakePcs
    BY <2>1 DEF NoJob, BuildKinds, MakePcs
  <2>4. ASSUME NEW h \in Open, NEW id \in DOMAIN InputClauses, FromClause(h, id) PROVE BuildInv'
    <3>1. job'.r = 0 /\ pc' = "build" /\ UNCHANGED handle
      BY <2>4 DEF FromClause, StartBuild, NoJob
    <3> QED
      BY <1>4, <3>1, BuildKept DEF MakePcs
  <2>5. ASSUME NEW h \in Open, NEW h1 \in Owned, Addref(h, h1) PROVE BuildInv'
    BY <2>1, <2>2, <2>3, <2>5, BuildKept DEF Addref
  <2>6. ASSUME UNCHANGED <<handle, stack>>, NEW kind \in {"validate", "and", "validateand"}, job'.kind = kind
        PROVE BuildInv'
    BY <1>4, <2>6, BuildKept DEF BuildKinds
  <2>7. ASSUME NEW kind, NEW dest, NEW args, NEW op, NEW r, StartApply(kind, dest, args, op, r)
        PROVE  job'.kind = kind
    BY <1>1, <2>7 DEF StartApply, Jobs
  <2>8. ASSUME NEW h \in Open, NEW h1 \in Owned, NEW r \in Nameable, Validate(h, r, h1) PROVE BuildInv'
    <3>1. \/ Duplicate(h, handle[h1]) /\ UNCHANGED <<pc, job, stack>>
          \/ StartApply("validate", h, <<h1>>, "imp", r) /\ UNCHANGED <<handle, stack>>
      BY <2>8 DEF Validate
    <3>2. CASE Duplicate(h, handle[h1]) /\ UNCHANGED <<pc, job, stack>>
      BY <2>1, <2>2, <2>3, <3>2, BuildKept
    <3>3. CASE StartApply("validate", h, <<h1>>, "imp", r) /\ UNCHANGED <<handle, stack>>
      BY <2>6, <2>7, <3>3
    <3> QED
      BY <3>1, <3>2, <3>3
  <2>9. ASSUME NEW h \in Open, NEW h1 \in Owned, NEW h2 \in Owned, And(h, h1, h2) PROVE BuildInv'
    <3>1. \/ \E t : Duplicate(h, t) /\ UNCHANGED <<pc, job, stack>>
          \/ StartApply("and", h, <<h1, h2>>, "and", 0) /\ UNCHANGED <<handle, stack>>
      BY <2>9 DEF And
    <3>2. ASSUME NEW t, Duplicate(h, t), UNCHANGED <<pc, job, stack>> PROVE BuildInv'
      BY <2>1, <2>2, <2>3, <3>2, BuildKept
    <3>3. CASE StartApply("and", h, <<h1, h2>>, "and", 0) /\ UNCHANGED <<handle, stack>>
      BY <2>6, <2>7, <3>3
    <3> QED
      BY <3>1, <3>2, <3>3
  <2>10. ASSUME NEW h \in Open, NEW h1 \in Owned, NEW h2 \in Owned, NEW r \in Nameable,
                ValidateWithAnd(h, r, h1, h2)
         PROVE  BuildInv'
    BY <2>6, <2>7, <2>10 DEF ValidateWithAnd
  <2>11. ASSUME NEW h \in Owned, Delref(h) PROVE BuildInv'
    <3>1. h \in Handles /\ handle' = [handle EXCEPT ![h] = NoTbdd] /\ UNCHANGED job
      BY <1>1, <2>11, OwnedFacts DEF Delref
    <3> QED
      BY <1>3, <2>1, <2>3, <3>1, BuildKept
  <2>12. ASSUME NEW lits, NEW h1 \in Owned, ValidateClause(lits, h1) PROVE BuildInv'
    <3>1. job'.r = 0 /\ pc' \in {"build", "walk"} /\ UNCHANGED handle
      BY <2>12 DEF ValidateClause, StartBuild, NoJob
    <3> QED
      BY <1>4, <3>1, BuildKept DEF MakePcs
  <2>13. ~Done
    BY DEF Done, Running
  <2> QED
    BY <1>17, <2>4, <2>5, <2>8, <2>9, <2>10, <2>11, <2>12, <2>13 DEF Client
<1> QED
  BY <1>5, <1>6, <1>7, <1>8, <1>9, <1>10, <1>11, <1>12, <1>13, <1>14, <1>15, <1>16, <1>17 DEF Internal

-----------------------------------------------------------------------------
(* What the owners own is in the file *)

\* The proof does not go on after it has ended.
LEMMA GoingBefore ==
    ASSUME IInv, Internal \/ Client, emptyId' = TAUTOLOGY
    PROVE  Going
<1>1. Running /\ pc # "done"
  BY StillRunning DEF Running
<1>2. ASSUME NEW add, NEW del, Emit(add, del) PROVE emptyId = TAUTOLOGY
  BY <1>2 DEF Emit
<1>3. CASE ~Writes
  BY <1>1, <1>3, QuietSteps DEF SameOwners, Going
<1>4. CASE Writes
  <2>1. CASE MakeFresh
    BY <1>1, <1>2, <2>1, FreshEmits DEF Going
  <2>2. CASE MakeGbc /\ Ordered
    BY <1>1, <1>2, <2>2 DEF Going, MakeGbc, Collect
  <2>3. CASE JustifyStep /\ pc' = "ret"
    BY <1>1, <1>2, <2>3 DEF Going, JustifyStep
  <2>4. CASE FinishApply
    BY <1>1, <1>2, <2>4 DEF Going, FinishApply
  <2>5. CASE ClauseWalked
    BY <1>1, <1>2, <2>5 DEF Going, ClauseWalked
  <2>6. CASE CheckWalked
    BY <1>1, <1>2, <2>6 DEF Going, CheckWalked
  <2>7. CASE \E h \in Owned : Delref(h)
    BY <1>1, <1>2, <2>7 DEF Going, Delref
  <2>8. CASE Done
    BY <1>1, <1>2, <2>8 DEF Going, Done
  <2> QED
    BY <1>4, <2>1, <2>2, <2>3, <2>4, <2>5, <2>6, <2>7, <2>8 DEF Writes
<1> QED
  BY <1>3, <1>4

\* An id that the package may cite or delete is that of a clause in the file.
LEMMA OwnedIds ==
    ASSUME IInv, OwnerInv, Running, Going
    PROVE  /\ \A n \in Live, d \in DTypes : Dclause(node, n, d) \in DOMAIN db \cup {TAUTOLOGY}
           /\ Justified \subseteq DOMAIN db \cup {TAUTOLOGY}
           /\ \A h \in Holders : handle[h].cid \in DOMAIN db \cup {TAUTOLOGY}
           /\ DOMAIN rc \subseteq DOMAIN db
<1>1. \A x : KindOf(x) \subseteq DOMAIN db
  BY DEF KindOf
<1>2. /\ KindOf("def") = UNION {Dclauses(node, n) : n \in Used} /\ KindOf("unit") = DOMAIN rc
      /\ KindOf("just") = CachedClauses \cup deferred
  BY DEF OwnerInv, OneOwner, Going
<1>3. ASSUME NEW n \in Live, NEW d \in DTypes
      PROVE  Dclause(node, n, d) \in DOMAIN db \cup {TAUTOLOGY}
  <2>1. CASE n \in Used
    <3>1. Dclause(node, n, d) \in Dclauses(node, n) \cup {TAUTOLOGY}
      BY DEF Dclauses, DTypes
    <3> QED
      BY <1>1, <1>2, <2>1, <3>1
  <2>2. CASE n \in Terminals
    BY <2>2 DEF Terminals, Dclause
  <2> QED
    BY <2>1, <2>2 DEF Live
<1>4. \A h \in Holders : handle[h].cid \in DOMAIN rc \cup {TAUTOLOGY}
  BY DEF IInv, RcInv
<1> QED
  BY <1>1, <1>2, <1>3, <1>4 DEF Justified

\* A justification that a cache entry holds.
LEMMA EntryJustified ==
    ASSUME NEW s \in Slots
    PROVE  cache[s].cid \in Justified
BY DEF Justified, CachedClauses

\* The justifications stay when neither the cache nor the list changes, when a
\* collection moves them to the list, and when an entry is evicted.
LEMMA JustifiedSame ==
    ASSUME UNCHANGED <<cache, deferred>>
    PROVE  Justified \subseteq Justified'
BY DEF Justified, CachedClauses

LEMMA JustifiedCollect ==
    ASSUME Collect
    PROVE  Justified \subseteq Justified'
BY DEF Collect, Justified, CachedClauses

LEMMA JustifiedEvict ==
    ASSUME TypeOK, NEW s \in Slots, NEW e, cache' = [cache EXCEPT ![s] = e],
           deferred' = deferred \cup Evicted(s)
    PROVE  Justified \subseteq Justified' /\ e.cid \in Justified'
<1>1. /\ \A u \in Slots : cache'[u] = IF u = s THEN e ELSE cache[u]
  BY DEF TypeOK
<1>2. CachedClauses \subseteq CachedClauses' \cup Evicted(s)
  BY <1>1 DEF CachedClauses, Evicted
<1> QED
  BY <1>1, <1>2 DEF Justified, CachedClauses

\* What justify_apply makes of the frame on top, and where its result is cached.
JustOf == Justify(node, IF Top.op = "imp" THEN "imp" ELSE "and", Top.l, Top.r, Top.level, Top.low, Top.high,
                  IF Top.op = "aij" THEN Top.t ELSE ret.root, counter)
TopSlot == Slot(Top.op, Top.l, Top.r, Top.t)
TopEntry == [a |-> Top.l, b |-> Top.r, c |-> IF Top.op = "aij" THEN Top.t ELSE -1,
             op |-> Top.op, root |-> ret.root, cid |-> JustOf.jid]

LEMMA JustifyFacts ==
    ASSUME JustifyStep
    PROVE  /\ stack # <<>> /\ pc = "made" /\ pc' \in {"exit", "ret"}
           /\ pc' = "ret" =>
                 /\ Emit(JustOf.add, JustOf.del) /\ counter' = counter + Len(JustOf.add)
                 /\ deferred' = deferred \cup Evicted(TopSlot)
                 /\ cache' = [cache EXCEPT ![TopSlot] = TopEntry]
                 /\ stack' = SubSeq(stack, 1, Len(stack) - 1)
                 /\ ret' = [ret EXCEPT !.cid = JustOf.jid]
                 /\ UNCHANGED <<node, handle, rc, job>>
BY DEF JustifyStep, JustOf, TopSlot, TopEntry

\* The justifications of pending results.
PendingResults ==
    /\ pc = "ret" => ret.cid \in Justified
    /\ \A i \in DOMAIN stack : {stack[i].low.cid, stack[i].high.cid} \subseteq Justified
PendingJob ==
    /\ RangeOf(job.ants) \subseteq DOMAIN db \cup {TAUTOLOGY}
    /\ pc # "walk" => job.ants = <<>>
    /\ job.kind = "clause" => job.id \in DOMAIN InputClauses

LEMMA ResultsStep ==
    ASSUME IInv, PendingResults, Internal \/ Client, Running'
    PROVE  PendingResults'
<1>1. Running /\ TypeOK /\ ControlInv /\ ret \in Pcbdd /\ stack \in Seq(Frames) /\ call \in Calls
  BY StillRunning DEF IInv, TypeOK
<1>2. ASSUME UNCHANGED stack, pc' # "ret", stack = <<>> \/ Justified \subseteq Justified'
      PROVE  PendingResults'
  BY <1>2 DEF PendingResults
<1>3. CASE MakeFound \/ MakeFresh \/ Grow \/ EnterDegenerate \/ EnterRefuted
  <2>1. UNCHANGED <<cache, deferred, stack>> /\ pc' # "ret"
    BY <1>3 DEF MakeFound, MakeFresh, Grow, AfterGrow, EnterDegenerate, EnterRefuted
  <2> QED
    BY <1>2, <2>1, JustifiedSame
<1>4. CASE MakeGbc
  <2>1. UNCHANGED stack /\ pc' # "ret" /\ (Collect \/ UNCHANGED <<cache, deferred>>)
    BY <1>4 DEF MakeGbc
  <2> QED
    BY <1>2, <2>1, JustifiedSame, JustifiedCollect
<1>5. CASE EnterLeaf
  <2>1. UNCHANGED <<cache, deferred, stack>> /\ ret'.cid \in {TAUTOLOGY, Entry.cid}
    BY <1>5 DEF EnterLeaf
  <2>2. Entry.cid \in Justified
    BY <1>1, SlotType, EntryJustified DEF Entry, Calls
  <2>3. TAUTOLOGY \in Justified
    BY DEF Justified
  <2> QED
    BY <2>1, <2>2, <2>3, JustifiedSame DEF PendingResults
<1>6. CASE EnterMiss
  <2> DEFINE f == Frame(call)
  <2>1. UNCHANGED <<cache, deferred, pc>> /\ pc = "call" /\ Splits(call) /\ stack' = Append(stack, f)
    BY <1>6 DEF EnterMiss
  <2>2. f \in Frames /\ f.low = NoRet /\ f.high = NoRet
    <3>1. TableInv /\ {call.l, call.r, call.t} \subseteq Safe
      BY <1>1, <2>1 DEF IInv, RootsInv, ApplyPcs
    <3> QED
      BY <1>1, <2>1, <3>1, FrameType DEF Frame
  <2> HIDE DEF f
  <2>3. \A i \in DOMAIN stack' : (i \in DOMAIN stack /\ stack'[i] = stack[i]) \/ stack'[i] = f
    BY <1>1, <2>1, <2>2
  <2>4. f.low.cid \in Justified /\ f.high.cid \in Justified
    BY <2>2 DEF NoRet, Justified
  <2> QED
    BY <2>1, <2>3, <2>4, JustifiedSame DEF PendingResults
<1>7. CASE ReturnLow
  <2> DEFINE t == [Top EXCEPT !.half = "high", !.low = ret]
  <2>1. /\ UNCHANGED <<cache, deferred>> /\ pc = "ret" /\ pc' = "call" /\ stack # <<>>
        /\ stack' = [stack EXCEPT ![Len(stack)] = t]
    BY <1>7 DEF ReturnLow, Top
  <2>2. Top \in Frames /\ Len(stack) \in DOMAIN stack
    BY <1>1, <2>1, TopFrame
  <2>3. t \in Frames /\ t.low = ret /\ t.high = Top.high
    BY <1>1, <2>2 DEF Frames
  <2> HIDE DEF t
  <2>4. DOMAIN stack' = DOMAIN stack /\ \A i \in DOMAIN stack : stack'[i] = IF i = Len(stack) THEN t ELSE stack[i]
    BY <1>1, <2>1, <2>2, <2>3, ExceptSeq
  <2>5. ret.cid \in Justified /\ Top.high.cid \in Justified
    BY <2>1, <2>2 DEF PendingResults, Top
  <2> QED
    BY <2>1, <2>3, <2>4, <2>5, JustifiedSame DEF PendingResults
<1>8. CASE ReturnHigh
  <2> DEFINE t == [Top EXCEPT !.high = ret]
  <2>1. /\ UNCHANGED <<cache, deferred>> /\ pc = "ret" /\ pc' # "ret" /\ stack # <<>>
        /\ stack' = [stack EXCEPT ![Len(stack)] = t]
    BY <1>8 DEF ReturnHigh, Top
  <2>2. Top \in Frames /\ Len(stack) \in DOMAIN stack
    BY <1>1, <2>1, TopFrame
  <2>3. t \in Frames /\ t.high = ret /\ t.low = Top.low
    BY <1>1, <2>2 DEF Frames
  <2> HIDE DEF t
  <2>4. DOMAIN stack' = DOMAIN stack /\ \A i \in DOMAIN stack : stack'[i] = IF i = Len(stack) THEN t ELSE stack[i]
    BY <1>1, <2>1, <2>2, <2>3, ExceptSeq
  <2>5. ret.cid \in Justified /\ Top.low.cid \in Justified
    BY <2>1, <2>2 DEF PendingResults, Top
  <2> QED
    BY <2>1, <2>3, <2>4, <2>5, JustifiedSame DEF PendingResults
<1>9. CASE JustifyStep
  <2>1. pc' = "ret" /\ stack # <<>>
    BY <1>9, JustifyFacts DEF Running
  <2>2. /\ ret' = [ret EXCEPT !.cid = JustOf.jid] /\ deferred' = deferred \cup Evicted(TopSlot)
        /\ cache' = [cache EXCEPT ![TopSlot] = TopEntry] /\ stack' = SubSeq(stack, 1, Len(stack) - 1)
    BY <1>9, <2>1, JustifyFacts
  <2>3. TopSlot \in Slots /\ TopEntry.cid = JustOf.jid
    BY <1>1, <2>1, TopFrame, SlotType DEF Frames, TopSlot, TopEntry
  <2>4. Justified \subseteq Justified' /\ JustOf.jid \in Justified'
    BY <1>1, <2>2, <2>3, JustifiedEvict
  <2>5. ret'.cid = JustOf.jid
    BY <1>1, <2>2 DEF Pcbdd
  <2>6. DOMAIN stack' \subseteq DOMAIN stack /\ \A i \in DOMAIN stack' : stack'[i] = stack[i]
    <3> DEFINE s == SubSeq(stack, 1, Len(stack) - 1)
    <3>1. DOMAIN stack = 1..Len(stack) /\ DOMAIN s = 1..(Len(stack) - 1) /\ Len(stack) \in Nat
          /\ \A i \in 1..(Len(stack) - 1) : s[i] = stack[i]
      BY <1>1, <2>1, ShorterStack
    <3> HIDE DEF s
    <3>2. stack' = s
      BY <2>2 DEF s
    <3> QED
      BY <3>1, <3>2
  <2> QED
    BY <2>4, <2>5, <2>6 DEF PendingResults
<1>10. CASE FinishApply
  <2>1. UNCHANGED stack /\ stack = <<>> /\ pc' # "ret"
    BY <1>10 DEF FinishApply, Return
  <2> QED
    BY <1>2, <2>1
<1>11. CASE \/ SetVar \/ VarMade \/ BuildLiteral \/ LiteralMade \/ ClauseBuilt \/ CheckBuilt
            \/ Walk \/ ClauseWalked \/ CheckWalked
  <2>1. stack = <<>> /\ UNCHANGED stack
    BY <1>1, <1>11 DEF ControlInv, ApplyPcs, MakePcs, SetVar, VarMade, BuildLiteral, LiteralMade,
       ClauseBuilt, CheckBuilt, Walk, ClauseWalked, CheckWalked
  <2>2. pc' # "ret"
    BY <1>11 DEF SetVar, VarMade, BuildLiteral, LiteralMade, ClauseBuilt, CheckBuilt, StartApply,
       Walk, ClauseWalked, CheckWalked, Return
  <2> QED
    BY <1>2, <2>1, <2>2
<1>12. CASE Client
  <2>1. pc = "client" /\ UNCHANGED stack
    BY <1>12, ZenonT(60) DEF Client, FromClause, Addref, Validate, And, ValidateWithAnd, Delref,
       ValidateClause, Done, MayStart
  <2>2. stack = <<>>
    BY <1>1, <2>1 DEF ControlInv, ApplyPcs, MakePcs
  <2>3. pc' # "ret"
    <3>1. ASSUME Client, pc = "client" PROVE pc' # "ret"
      <4>1. ASSUME NEW h \in Open, NEW h1 \in Owned, NEW h2 \in Owned, NEW r \in Nameable,
                   Addref(h, h1) \/ Validate(h, r, h1) \/ And(h, h1, h2) \/ ValidateWithAnd(h, r, h1, h2)
            PROVE  pc' # "ret"
        BY <3>1, <4>1 DEF Addref, Validate, And, ValidateWithAnd, StartApply
      <4>2. ASSUME NEW h, NEW id, FromClause(h, id) PROVE pc' # "ret"
        BY <4>2 DEF FromClause, StartBuild
      <4>3. ASSUME NEW h, NEW lits, Delref(h) \/ ValidateClause(lits, h) \/ Done PROVE pc' # "ret"
        BY <4>3 DEF Delref, ValidateClause, StartBuild, Done
      <4> QED
        BY <3>1, <4>1, <4>2, <4>3 DEF Client, Nameable
    <3> QED
      BY <1>12, <2>1, <3>1
  <2> QED
    BY <1>2, <2>1, <2>2, <2>3
<1> QED
  BY <1>3, <1>4, <1>5, <1>6, <1>7, <1>8, <1>9, <1>10, <1>11, <1>12 DEF Internal

\* Sequences of ids.
LEMMA RangeConcat ==
    ASSUME NEW S, NEW a \in Seq(S), NEW b \in Seq(S), NEW T, RangeOf(a) \subseteq T, RangeOf(b) \subseteq T
    PROVE  RangeOf(a \o b) \subseteq T
<1> DEFINE s == a \o b
           m == Len(a)
           n == Len(b)
<1>1. /\ Len(s) = m + n /\ m \in Nat /\ n \in Nat /\ DOMAIN a = 1..m /\ DOMAIN b = 1..n
      /\ DOMAIN s = 1..(m + n)
      /\ \A i \in 1..(m + n) : s[i] = IF i <= m THEN a[i] ELSE b[i - m]
  BY ConcatProperties
<1> HIDE DEF s, m, n
<1>2. ASSUME NEW i \in DOMAIN s PROVE s[i] \in T
  <2>1. CASE i <= m
    BY <1>1, <2>1 DEF RangeOf
  <2>2. CASE ~(i <= m)
    <3>1. i - m \in 1..n
      BY <1>1, <2>2
    <3> QED
      BY <1>1, <2>2, <3>1 DEF RangeOf
  <2> QED
    BY <2>1, <2>2
<1>3. RangeOf(s) \subseteq T
  BY <1>2 DEF RangeOf
<1> QED
  BY <1>3 DEF s

\* Until it walks down a path an operation has gathered no clauses.
LEMMA JobEmpty ==
    ASSUME job'.ants = <<>>, job'.kind = "clause" => job'.id \in DOMAIN InputClauses
    PROVE  PendingJob'
BY DEF PendingJob, RangeOf

LEMMA JobStep ==
    ASSUME IInv, OwnerInv, PendingJob, IdsFit', Internal \/ Client, Running', emptyId' = TAUTOLOGY
    PROVE  PendingJob'
<1>1. /\ Running /\ Going /\ TypeOK /\ ControlInv /\ DestInv /\ RootsInv /\ job \in Jobs /\ job.ants \in Seq(Nat)
      /\ job.at \in Live /\ node \in [NodeIds -> Nodes] /\ DOMAIN db \subseteq 1..counter
      /\ counter \in Nat /\ TAUTOLOGY \in Nat
  BY GoingBefore, StillRunning, TautologyAssumption DEF IInv, TypeOK, IdsInv, Jobs, RootsInv
<1>2. /\ \A n \in Live, d \in DTypes : Dclause(node, n, d) \in DOMAIN db \cup {TAUTOLOGY}
      /\ Justified \subseteq DOMAIN db \cup {TAUTOLOGY}
      /\ \A h \in Holders : handle[h].cid \in DOMAIN db \cup {TAUTOLOGY}
  BY <1>1, OwnedIds
<1>3. job.kind = "clause" => job.id \in DOMAIN InputClauses
  BY DEF PendingJob
<1>4. ASSUME UNCHANGED job, pc # "walk" PROVE PendingJob'
  BY <1>4, JobEmpty DEF PendingJob
<1>5. NoJob.ants = <<>> /\ NoJob.kind = "none"
  BY DEF NoJob
<1>6. CASE SetVar \/ VarMade
  <2>1. job.kind = "none" /\ pc # "walk" /\ (UNCHANGED job \/ job' = NoJob \/ job' = [job EXCEPT !.id = @ + 1])
    BY <1>1, <1>6 DEF SetVar, VarMade, ControlInv
  <2>2. job'.kind = "none" /\ job'.ants = <<>>
    BY <1>1, <1>5, <2>1 DEF Jobs, PendingJob
  <2> QED
    BY <2>2, JobEmpty
<1>7. CASE \/ MakeFound \/ MakeFresh \/ MakeGbc \/ Grow
           \/ EnterLeaf \/ EnterDegenerate \/ EnterRefuted \/ EnterMiss
           \/ ReturnLow \/ ReturnHigh \/ JustifyStep \/ BuildLiteral
  <2>1. UNCHANGED job /\ pc # "walk"
    <3>1. ASSUME MakeFound \/ MakeFresh \/ MakeGbc \/ Grow \/ JustifyStep \/ BuildLiteral
          PROVE  UNCHANGED job /\ pc # "walk"
      BY <3>1 DEF MakeFound, MakeFresh, MakeGbc, MustBuild, Grow, JustifyStep, BuildLiteral
    <3>2. ASSUME EnterLeaf \/ EnterDegenerate \/ EnterRefuted \/ EnterMiss \/ ReturnLow \/ ReturnHigh
          PROVE  UNCHANGED job /\ pc # "walk"
      BY <3>2 DEF EnterLeaf, EnterDegenerate, EnterRefuted, EnterMiss, ReturnLow, ReturnHigh
    <3> QED
      BY <1>7, <3>1, <3>2
  <2> QED
    BY <1>4, <2>1
<1>8. CASE LiteralMade \/ ClauseBuilt \/ CheckBuilt
  <2>1. pc # "walk" /\ job'.ants = job.ants /\ job'.id = job.id /\ (job'.kind = "clause" => job.kind = "clause")
    <3>1. CASE LiteralMade
      BY <1>1, <3>1 DEF LiteralMade, Jobs
    <3>2. CASE ClauseBuilt
      BY <1>1, <3>2 DEF ClauseBuilt, Jobs
    <3>3. CASE CheckBuilt
      BY <1>1, <3>3 DEF CheckBuilt, StartApply, Jobs
    <3> QED
      BY <1>8, <3>1, <3>2, <3>3
  <2> QED
    BY <1>3, <2>1, JobEmpty DEF PendingJob
<1>9. CASE FinishApply
  <2>1. CASE job.kind # "check"
    <3>1. job' = NoJob
      BY <1>9, <2>1 DEF FinishApply, Return
    <3> QED
      BY <1>5, <3>1, JobEmpty
  <2>2. CASE job.kind = "check"
    <3> DEFINE lits == {node[job.r].xvar}
               cid == GenId(lits, 1)
               units == [i \in DOMAIN job.args |-> handle[job.args[i]].cid]
               late  == deferred \cup IF resized THEN CachedClauses ELSE {}
    <3>1. /\ Emit(Gen(lits, UnitHints(units), "unit", 1), late) /\ counter' = counter + 1 /\ pc' = "walk"
          /\ job' = [job EXCEPT !.at = job.r, !.ants = <<cid>>, !.todo = {VarOf(x) : x \in job.lits}]
      BY <1>9, <2>2 DEF FinishApply
    <3>2. job'.ants = <<cid>> /\ job'.kind = "check"
      BY <1>1, <2>2, <3>1 DEF Jobs
    <3>3. late \subseteq DOMAIN db
      <4>1. TAUTOLOGY \notin deferred
        <5>1. KindOf("just") = CachedClauses \cup deferred
          BY <1>1 DEF Going, OwnerInv, OneOwner
        <5>2. KindOf("just") \subseteq 1..counter
          BY <1>1 DEF KindOf
        <5>3. counter < TAUTOLOGY
          BY <1>1, <3>1 DEF IdsFit
        <5> QED
          BY <1>1, <5>1, <5>2, <5>3
      <4> QED
        BY <1>2, <4>1 DEF Justified, CachedClauses
    <3>4. counter + 1 < TAUTOLOGY
      BY <3>1 DEF IdsFit
    <3> HIDE DEF lits, late
    <3>5. DOMAIN db' = (DOMAIN db \ late) \cup IF CleanClause(lits) = TautClause THEN {} ELSE {counter + 1}
      BY <1>1, <3>1, <3>3, <3>4, OneClause DEF Filed
    <3>6. cid \in DOMAIN db' \cup {TAUTOLOGY}
      BY <3>5 DEF GenId
    <3> HIDE DEF cid
    <3>7. RangeOf(job'.ants) = {cid}
      BY <3>2 DEF RangeOf
    <3> QED
      BY <3>1, <3>2, <3>6, <3>7 DEF PendingJob
  <2> QED
    BY <2>1, <2>2
<1>10. CASE Walk
  <2> DEFINE v == LeastOf(job.todo)
             n == job.at
             pos == v \in job.lits
             ups == IF pos THEN <<Dclause(node, n, "HU"), Dclause(node, n, "LU")>>
                           ELSE <<Dclause(node, n, "LU"), Dclause(node, n, "HU")>>
             down == <<Dclause(node, n, IF pos THEN "LD" ELSE "HD")>>
             ids == DOMAIN db \cup {TAUTOLOGY}
  <2>1. /\ UNCHANGED <<db, pc>> /\ pc = "walk"
        /\ \/ job.kind = "clause" /\ \E todo, at : job' = [job EXCEPT !.todo = todo, !.at = at, !.ants = @ \o ups]
           \/ job.kind # "clause" /\ \E todo : job' = [job EXCEPT !.todo = todo]
           \/ job.kind # "clause" /\ \E id, todo : job' = [job EXCEPT !.todo = todo, !.id = id]
           \/ job.kind # "clause" /\ \E todo, at : job' = [job EXCEPT !.todo = todo, !.at = at, !.ants = @ \o down]
    BY <1>10 DEF Walk
  <2>2. job.ants \in Seq(Nat) /\ RangeOf(job.ants) \subseteq ids /\ ids \subseteq Nat
    BY <1>1 DEF PendingJob
  <2>3. PICK hu, lu, hd, ld \in ids : /\ hu = Dclause(node, n, "HU") /\ lu = Dclause(node, n, "LU")
                                      /\ hd = Dclause(node, n, "HD") /\ ld = Dclause(node, n, "LD")
    BY <1>1, <1>2 DEF DTypes
  <2>4. ups \in Seq(Nat) /\ down \in Seq(Nat) /\ RangeOf(ups) \subseteq ids /\ RangeOf(down) \subseteq ids
    <3>1. (ups = <<hu, lu>> \/ ups = <<lu, hu>>) /\ (down = <<ld>> \/ down = <<hd>>)
      BY <2>3
    <3> HIDE DEF ups, down, ids
    <3>2. ASSUME NEW x \in ids, NEW y \in ids
          PROVE  /\ <<x>> \in Seq(Nat) /\ <<x, y>> \in Seq(Nat)
                 /\ RangeOf(<<x>>) \subseteq ids /\ RangeOf(<<x, y>>) \subseteq ids
      <4>1. x \in Nat /\ y \in Nat
        BY <2>2
      <4>2. <<x>> \in Seq(Nat) /\ <<x, y>> \in Seq(Nat)
        BY <4>1
      <4>3. RangeOf(<<x>>) = {x} /\ RangeOf(<<x, y>>) = {x, y}
        BY DEF RangeOf
      <4> QED
        BY <4>2, <4>3
    <3>3. /\ <<hu, lu>> \in Seq(Nat) /\ RangeOf(<<hu, lu>>) \subseteq ids
          /\ <<lu, hu>> \in Seq(Nat) /\ RangeOf(<<lu, hu>>) \subseteq ids
          /\ <<ld>> \in Seq(Nat) /\ RangeOf(<<ld>>) \subseteq ids
          /\ <<hd>> \in Seq(Nat) /\ RangeOf(<<hd>>) \subseteq ids
      BY <3>2
    <3> QED
      BY <3>1, <3>3, Zenon
  <2> HIDE DEF ups, down, ids
  <2>5. RangeOf(job.ants \o ups) \subseteq ids /\ RangeOf(job.ants \o down) \subseteq ids
    BY <2>2, <2>4, RangeConcat
  <2>6. /\ job'.ants = job.ants \/ job'.ants = job.ants \o ups \/ job'.ants = job.ants \o down
        /\ job'.kind = job.kind /\ (job.kind = "clause" => job'.id = job.id)
    <3>1. ASSUME NEW todo, NEW at, job' = [job EXCEPT !.todo = todo, !.at = at, !.ants = @ \o ups]
          PROVE  job'.ants = job.ants \o ups /\ job'.kind = job.kind /\ job'.id = job.id
      BY <1>1, <3>1 DEF Jobs
    <3>2. ASSUME NEW todo, NEW at, job' = [job EXCEPT !.todo = todo, !.at = at, !.ants = @ \o down]
          PROVE  job'.ants = job.ants \o down /\ job'.kind = job.kind
      BY <1>1, <3>2 DEF Jobs
    <3>3. ASSUME NEW todo, NEW id, \/ job' = [job EXCEPT !.todo = todo]
                                   \/ job' = [job EXCEPT !.todo = todo, !.id = id]
          PROVE  job'.ants = job.ants /\ job'.kind = job.kind
      BY <1>1, <3>3 DEF Jobs
    <3> QED
      BY <2>1, <3>1, <3>2, <3>3
  <2>7. RangeOf(job'.ants) \subseteq ids
    BY <2>2, <2>5, <2>6
  <2> QED
    BY <1>3, <2>1, <2>6, <2>7 DEF PendingJob, ids
<1>11. CASE ClauseWalked \/ CheckWalked
  <2>1. job' = NoJob
    BY <1>11 DEF ClauseWalked, CheckWalked, Return
  <2> QED
    BY <1>5, <2>1, JobEmpty
<1>12. CASE Client
  <2>1. job = NoJob /\ pc = "client"
    <3>1. pc = "client"
      BY <1>12, Zenon DEF Client, FromClause, Addref, Validate, And, ValidateWithAnd, Delref,
         ValidateClause, Done, MayStart
    <3> QED
      BY <1>1, <3>1 DEF ControlInv
  <2>2. ASSUME NEW kind \in {"validate", "and", "validateand"}, NEW dest, NEW args, NEW op, NEW r,
               StartApply(kind, dest, args, op, r)
        PROVE  PendingJob'
    <3>1. job'.kind = kind /\ job'.ants = <<>>
      BY <1>1, <1>5, <2>1, <2>2 DEF StartApply, Jobs
    <3> QED
      BY <3>1, JobEmpty
  <2>3. ASSUME NEW h \in Open, NEW id \in DOMAIN InputClauses, FromClause(h, id) PROVE PendingJob'
    <3>1. job'.ants = <<>> /\ job'.id = id
      BY <2>3 DEF FromClause, StartBuild, NoJob
    <3> QED
      BY <3>1, JobEmpty
  <2>4. ASSUME NEW h1 \in Owned, NEW lits, ValidateClause(lits, h1) PROVE PendingJob'
    <3>1. CASE pc' = "walk"
      <4>1. /\ UNCHANGED db
            /\ job' = [NoJob EXCEPT !.kind = "path", !.args = <<h1>>, !.lits = lits,
                                    !.todo = {VarOf(x) : x \in lits}, !.at = handle[h1].root,
                                    !.ants = <<handle[h1].cid>>]
        BY <2>4, <3>1 DEF ValidateClause, StartBuild
      <4>2. job'.ants = <<handle[h1].cid>> /\ job'.kind = "path"
        BY <4>1 DEF NoJob
      <4>3. handle[h1].cid \in DOMAIN db \cup {TAUTOLOGY}
        BY <1>1, <1>2, OwnedFacts
      <4> QED
        BY <3>1, <4>1, <4>2, <4>3 DEF PendingJob, RangeOf
    <3>2. CASE pc' # "walk"
      <4>1. job'.ants = <<>> /\ job'.kind = "check"
        BY <2>4, <3>2 DEF ValidateClause, StartBuild, NoJob
      <4> QED
        BY <4>1, JobEmpty
    <3> QED
      BY <3>1, <3>2
  <2>5. ASSUME NEW h \in Open, NEW h1 \in Owned, NEW h2 \in Owned, NEW r \in Nameable,
               Addref(h, h1) \/ Validate(h, r, h1) \/ And(h, h1, h2) \/ ValidateWithAnd(h, r, h1, h2)
        PROVE  PendingJob'
    <3>1. \/ UNCHANGED job
          \/ StartApply("validate", h, <<h1>>, "imp", r)
          \/ StartApply("and", h, <<h1, h2>>, "and", 0)
          \/ StartApply("validateand", h, <<h1, h2>>, "aij", r)
      BY <2>5 DEF Addref, Validate, And, ValidateWithAnd
    <3> QED
      BY <1>4, <2>1, <2>2, <3>1
  <2>6. ASSUME NEW h \in Owned, Delref(h) \/ Done PROVE PendingJob'
    <3>1. UNCHANGED job
      BY <2>6 DEF Delref, Done
    <3> QED
      BY <1>4, <2>1, <3>1
  <2>7. ~Done
    BY DEF Done, Running
  <2>8. 0 \in Nameable
    BY DEF Nameable
  <2>9. ASSUME NEW h \in Open, NEW h1 \in Owned, Addref(h, h1) PROVE PendingJob'
    BY <2>5, <2>8, <2>9
  <2>10. ASSUME NEW h \in Open, NEW h1 \in Owned, NEW h2 \in Owned, And(h, h1, h2) PROVE PendingJob'
    BY <2>5, <2>8, <2>10
  <2> QED
    BY <1>12, <2>3, <2>4, <2>5, <2>6, <2>7, <2>9, <2>10 DEF Client
<1> QED
  BY <1>6, <1>7, <1>8, <1>9, <1>10, <1>11, <1>12 DEF Internal

-----------------------------------------------------------------------------
(* The file after a step, from what is written and deleted *)

\* The nodes of K are the same, and so are the literals of their children.
KeptNodes(K) ==
    \A n \in K : /\ node'[n].level = node[n].level /\ node'[n].dclause = node[n].dclause
                 /\ node'[n].low = node[n].low /\ node'[n].high = node[n].high
                 /\ node'[n].xvar = node[n].xvar
                 /\ node'[node[n].low].xvar = node[node[n].low].xvar
                 /\ node'[node[n].high].xvar = node[node[n].high].xvar

LEMMA DclausesKept ==
    ASSUME NEW K, KeptNodes(K), NEW n \in K
    PROVE  /\ \A d : Dclause(node', n, d) = Dclause(node, n, d)
           /\ Dclauses(node', n) = Dclauses(node, n)
<1>1. /\ node'[n].low = node[n].low /\ node'[n].high = node[n].high
      /\ node'[n].dclause = node[n].dclause
  BY DEF KeptNodes
<1>2. ASSUME NEW d PROVE Dclause(node', n, d) = Dclause(node, n, d)
  BY <1>1 DEF Dclause
<1> QED
  BY <1>2 DEF Dclauses

LEMMA KindsApart == \A x, y : x # y => KindOf(x) \cap KindOf(y) = {}
BY DEF KindOf

\* The clauses that define the nodes that stay.
DefLive(n, d) ==
    Dclause(node, n, d) # TAUTOLOGY =>
       /\ Dclause(node, n, d) \in DOMAIN db
       /\ db[Dclause(node, n, d)].lits =
             CleanClause(DefiningClause(d, node[n].xvar, node[n].level,
                           node[node[n].high].xvar, node[node[n].low].xvar))
UnitLive(h) ==
    handle[h].root # 1 =>
       handle[h].cid \in DOMAIN db /\ db[handle[h].cid].lits = {node[handle[h].root].xvar}

LEMMA DefsKept ==
    ASSUME NEW K, KeptNodes(K), NEW n \in K, NEW d \in DTypes, DefLive(n, d),
           Dclauses(node, n) \subseteq DOMAIN db', \A i \in DOMAIN db \cap DOMAIN db' : db'[i] = db[i]
    PROVE  DefLive(n, d)'
<1>1. /\ node'[n].xvar = node[n].xvar /\ node'[n].level = node[n].level
      /\ node'[n].low = node[n].low /\ node'[n].high = node[n].high
      /\ node'[node'[n].low].xvar = node[node[n].low].xvar
      /\ node'[node'[n].high].xvar = node[node[n].high].xvar
  BY DEF KeptNodes
<1>2. Dclause(node', n, d) = Dclause(node, n, d)
  BY DclausesKept
<1>3. ASSUME Dclause(node, n, d) # TAUTOLOGY
      PROVE  Dclause(node, n, d) \in DOMAIN db' /\ db'[Dclause(node, n, d)] = db[Dclause(node, n, d)]
  <2>1. Dclause(node, n, d) \in Dclauses(node, n)
    BY <1>3 DEF Dclauses, DTypes
  <2> QED
    BY <1>3, <2>1 DEF DefLive
<1> QED
  BY <1>1, <1>2, <1>3 DEF DefLive

\* The unit clause of a trusted BDD that stays or is another reference to one.
LEMMA UnitsKept ==
    ASSUME IInv, IdsFit, RcInv', NEW h \in Held, NEW g \in Held', UnitLive(h), handle'[g] = handle[h],
           node'[handle[h].root].xvar = node[handle[h].root].xvar,
           DOMAIN rc' \subseteq DOMAIN db', \A i \in DOMAIN db \cap DOMAIN db' : db'[i] = db[i]
    PROVE  UnitLive(g)'
<1>1. DOMAIN db \subseteq 1..counter /\ counter \in Nat /\ counter < TAUTOLOGY /\ TAUTOLOGY \in Nat
  BY TautologyAssumption DEF IInv, TypeOK, IdsInv, IdsFit
<1>2. ASSUME handle[h].root # 1
      PROVE  handle[h].cid \in DOMAIN db' /\ db'[handle[h].cid] = db[handle[h].cid]
  <2>1. handle[h].cid \in DOMAIN db /\ handle[h].cid # TAUTOLOGY
    BY <1>1, <1>2 DEF UnitLive
  <2>2. handle'[g].cid \in DOMAIN rc' \cup {TAUTOLOGY}
    BY DEF RcInv, Held
  <2> QED
    BY <2>1, <2>2
<1> QED
  BY <1>2 DEF UnitLive

FileInv == KindsInv /\ OneOwner /\ UnitsLive

LEMMA UnitsLiveParts ==
    UnitsLive <=> (Going => /\ \A h \in Held : UnitLive(h)
                            /\ \A n \in Used, d \in DTypes : DefLive(n, d))
BY DefOffsets DEF UnitsLive, Going, UnitLive, DefLive
LEMMA UnitsLiveNext ==
    (UnitsLive <=> (Going => /\ \A h \in Held : UnitLive(h)
                             /\ \A n \in Used, d \in DTypes : DefLive(n, d)))'
BY UnitsLiveParts, PTL

\* Every clause has its owner, and every owner its clauses, after a step that
\* makes no node.
CacheDistinct == \A s, u \in Slots : s # u /\ cache[s].cid = cache[u].cid => cache[s].cid = TAUTOLOGY
LEMMA FileNext ==
    ASSUME IInv, FileInv, IdsFit, Going, IInv',
           NEW kind \in {"def", "unit", "just", "client"}, NEW new, NEW del,
           Filed(kind, new, del), del \cap KindOf("input") = {},
           Used' \subseteq Used, KeptNodes(Used'),
           KindOf("def")' = UNION {Dclauses(node, n) : n \in Used'},
           KindOf("unit")' = DOMAIN rc',
           KindOf("just")' = CachedClauses' \cup deferred', CachedClauses' \cap deferred' = {},
           CacheDistinct',
           \A h \in Held : node'[handle[h].root].xvar = node[handle[h].root].xvar,
           \A g \in Held' : (\E h \in Held : handle'[g] = handle[h]) \/ (UnitLive(g)' /\ handle'[g].root # 0)
    PROVE  FileInv'
<1>1. /\ KindOf("input") = DOMAIN InputClauses /\ \A i \in DOMAIN db : db[i].kind \in Kinds
      /\ \A m, n \in Used : m # n => Dclauses(node, m) \cap Dclauses(node, n) = {}
      /\ \A h \in Held : handle[h].root # 0
      /\ \A h \in Held : UnitLive(h)
      /\ \A n \in Used, d \in DTypes : DefLive(n, d)
  BY UnitsLiveParts DEF FileInv, KindsInv, Going
<1>2. \A n \in Used' : Dclauses(node', n) = Dclauses(node, n) /\ n \in Used
  BY DclausesKept
<1>3. KindOf("input")' = DOMAIN InputClauses
  <2>1. KindOf("input")' = KindOf("input") \ del
    BY DEF Filed
  <2> QED
    BY <1>1, <2>1
<1>4. \A i \in DOMAIN db' : db'[i].kind \in Kinds
  <2>1. ASSUME NEW i \in DOMAIN db' PROVE db'[i].kind \in Kinds
    <3>1. CASE i \in DOMAIN db \ del
      BY <1>1, <3>1 DEF Filed
    <3>2. CASE i \in new
      <4>1. i \in KindOf(kind)'
        BY <3>2 DEF Filed
      <4> QED
        BY <4>1 DEF KindOf, Kinds
    <3> QED
      BY <3>1, <3>2 DEF Filed
  <2> QED
    BY <2>1
<1>5. \A m, n \in Used' : m # n => Dclauses(node', m) \cap Dclauses(node', n) = {}
  BY <1>1, <1>2
<1>6. \A h \in Held' : handle'[h].root # 0
  BY <1>1
<1>7. KindsInv'
  BY <1>3, <1>4, <1>5, <1>6 DEF KindsInv, Filed
<1>8. KindOf("def")' = UNION {Dclauses(node', n) : n \in Used'}
  BY <1>2
<1>9. OneOwner'
  BY <1>8 DEF OneOwner, CacheDistinct
<1>10. \A x : KindOf(x)' \subseteq DOMAIN db'
  BY DEF KindOf
<1>11. \A i \in DOMAIN db \cap DOMAIN db' : db'[i] = db[i]
  BY DEF Filed
<1>12. ASSUME NEW n \in Used', NEW d \in DTypes PROVE DefLive(n, d)'
  <2>1. Dclauses(node, n) \subseteq DOMAIN db'
    BY <1>10
  <2> QED
    BY <1>1, <1>2, <1>11, <2>1, DefsKept
<1>13. ASSUME NEW g \in Held' PROVE UnitLive(g)'
  <2>1. DOMAIN rc' \subseteq DOMAIN db' /\ RcInv'
    BY <1>10 DEF IInv
  <2>2. ASSUME NEW h \in Held, handle'[g] = handle[h] PROVE UnitLive(g)'
    BY <1>1, <1>11, <2>1, <2>2, UnitsKept
  <2> QED
    BY <2>2
<1>14. UnitsLive'
  BY <1>12, <1>13, UnitsLiveNext
<1> QED
  BY <1>7, <1>9, <1>14 DEF FileInv


\* A step that changes reference counts only keeps every node.
LEMMA SameKept ==
    ASSUME TableInv, SameNodes, \A h \in Held : handle[h].root \in Live
    PROVE  /\ Used' = Used /\ KeptNodes(Used')
           /\ \A h \in Held : node'[handle[h].root].xvar = node[handle[h].root].xvar
<1>1. Used' = Used
  BY SameTable
<1>2. \A m \in Live : /\ node'[m].low = node[m].low /\ node'[m].high = node[m].high
                      /\ node'[m].level = node[m].level /\ node'[m].xvar = node[m].xvar
                      /\ node'[m].dclause = node[m].dclause
  BY SafeTypes DEF SameNodes
<1>3. KeptNodes(Used)
  BY <1>2 DEF KeptNodes, TableInv, Live
<1> QED
  BY <1>1, <1>2, <1>3

LEMMA FileSame ==
    ASSUME IInv, Running, FileInv, IdsFit, Going, IInv', SameNodes,
           NEW kind \in {"unit", "just", "client"}, NEW new, NEW del,
           Filed(kind, new, del), del \subseteq KindOf("unit") \cup KindOf("just"),
           KindOf("unit")' = DOMAIN rc',
           KindOf("just")' = CachedClauses' \cup deferred', CachedClauses' \cap deferred' = {},
           CacheDistinct',
           \A g \in Held' : (\E h \in Held : handle'[g] = handle[h]) \/ (UnitLive(g)' /\ handle'[g].root # 0)
    PROVE  FileInv'
<1>1. TableInv /\ RootsInv /\ \A h \in Held : handle[h].root \in Live
  BY DEF IInv, RootsInv
<1>2. /\ Used' = Used /\ Used' \subseteq Used /\ KeptNodes(Used')
      /\ \A h \in Held : node'[handle[h].root].xvar = node[handle[h].root].xvar
  BY <1>1, SameKept
<1>3. /\ KindOf("unit") \cap KindOf("input") = {} /\ KindOf("just") \cap KindOf("input") = {}
      /\ KindOf("unit") \cap KindOf("def") = {} /\ KindOf("just") \cap KindOf("def") = {}
  BY KindsApart
<1>4. del \cap KindOf("input") = {} /\ del \cap KindOf("def") = {}
  BY <1>3
<1>5. KindOf("def")' = KindOf("def")
  <2>1. KindOf("def")' = KindOf("def") \ del
    BY DEF Filed
  <2> QED
    BY <1>4, <2>1
<1>6. KindOf("def")' = UNION {Dclauses(node, n) : n \in Used'}
  BY <1>2, <1>5 DEF FileInv, OneOwner, Going
<1> QED
  BY <1>2, <1>4, <1>6, FileNext

LEMMA OwnersParts ==
    ASSUME FileInv, Going
    PROVE  /\ KindOf("def") = UNION {Dclauses(node, n) : n \in Used}
           /\ KindOf("unit") = DOMAIN rc
           /\ KindOf("just") = CachedClauses \cup deferred /\ CachedClauses \cap deferred = {}
           /\ CacheDistinct
BY DEF FileInv, OneOwner, Going, CacheDistinct

\* What is known of the file while the proof goes on.
LEMMA FileFacts ==
    ASSUME IInv, FileInv, IdsFit
    PROVE  /\ db = [i \in DOMAIN db |-> db[i]] /\ DOMAIN db \subseteq 1..counter
           /\ counter \in Nat /\ TAUTOLOGY \in Nat /\ counter < TAUTOLOGY
           /\ TAUTOLOGY \notin DOMAIN db /\ counter + 1 \notin DOMAIN db
           /\ \A x : KindOf(x) \subseteq DOMAIN db
<1>1. DOMAIN db \subseteq 1..counter /\ counter \in Nat /\ TAUTOLOGY \in Nat /\ counter < TAUTOLOGY
  BY TautologyAssumption DEF IInv, TypeOK, IdsInv, IdsFit
<1>2. db = [i \in DOMAIN db |-> db[i]]
  BY DEF FileInv, KindsInv
<1>3. \A x : KindOf(x) \subseteq DOMAIN db
  BY DEF KindOf
<1> QED
  BY <1>1, <1>2, <1>3

\* Once the proof has ended there is nothing to own.
LEMMA FileEnded ==
    ASSUME ~Going', db' = [i \in DOMAIN db' |-> db'[i]]
    PROVE  FileInv'
<1>1. ~(pc' # "done" /\ emptyId' = TAUTOLOGY)
  BY DEF Going
<1>2. KindsInv'
  BY DEF KindsInv
<1>3. OneOwner' /\ UnitsLive'
  BY <1>1 DEF OneOwner, UnitsLive
<1> QED
  BY <1>2, <1>3 DEF FileInv

\* A step that leaves the owners alone.
LEMMA QuietFile ==
    ASSUME IInv, Running, FileInv, IdsFit, IInv', SameOwners
    PROVE  FileInv' /\ LogSpec!Extend
<1>1. /\ UNCHANGED <<db, emptyId, cache, deferred>> /\ log' = LogSpec!Nothing /\ pc' # "done"
      /\ SameNodes /\ DOMAIN rc' = DOMAIN rc /\ \A g \in Held' : \E h \in Held : handle'[g] = handle[h]
  BY DEF SameOwners
<1>2. db = [i \in DOMAIN db |-> db[i]]
  BY FileFacts
<1>3. LogSpec!Extend
  BY <1>1, <1>2, ExtendQuiet
<1>4. CASE ~Going
  <2>1. ~Going'
    BY <1>1, <1>4 DEF Going, Running
  <2> QED
    BY <1>1, <1>2, <1>3, <2>1, FileEnded
<1>5. CASE Going
  <2>1. \A x : KindOf(x)' = KindOf(x)
    BY <1>1 DEF KindOf
  <2>2. Filed("client", {}, {})
    BY <1>1, <1>2, <2>1 DEF Filed
  <2>3. CachedClauses' = CachedClauses
    BY <1>1 DEF CachedClauses
  <2>4. KindOf("unit")' = DOMAIN rc'
    BY <1>1, <1>5, <2>1, OwnersParts
  <2>5. KindOf("just")' = CachedClauses' \cup deferred' /\ CachedClauses' \cap deferred' = {}
    BY <1>1, <1>5, <2>1, <2>3, OwnersParts
  <2>6. CacheDistinct'
    <3>1. CacheDistinct
      BY <1>5, OwnersParts
    <3> QED
      BY <1>1, <3>1 DEF CacheDistinct
  <2> QED
    BY <1>1, <1>3, <1>5, <2>2, <2>4, <2>5, <2>6, FileSame
<1> QED
  BY <1>3, <1>4, <1>5


\* bdd_gbc deletes the clauses of the nodes it frees, and only those.
LEMMA CollectFile ==
    ASSUME IInv, Running, FileInv, IdsFit, IInv', MakeGbc, Ordered
    PROVE  FileInv' /\ LogSpec!Extend
<1> DEFINE del == UNION {Dclauses(node, n) : n \in Dead}
<1>1. Collect /\ pc' = "grow" /\ UNCHANGED <<counter, handle, rc>>
  BY DEF MakeGbc
<1>2. /\ Emit(<<>>, del) /\ deferred' = deferred \cup CachedClauses
      /\ cache' = [s \in Slots |-> NoEntry]
  BY <1>1 DEF Collect
<1>3. Dead \subseteq Used
  BY DEF Dead
<1>4. emptyId = TAUTOLOGY => Going /\ del \subseteq KindOf("def")
  <2>1. ASSUME Going PROVE del \subseteq KindOf("def")
    BY <1>3, <2>1, OwnersParts
  <2> QED
    BY <2>1 DEF Going, Running
<1> HIDE DEF del
<1>5. /\ db = [i \in DOMAIN db |-> db[i]] /\ DOMAIN db \subseteq 1..counter /\ counter \in Nat
      /\ \A x : KindOf(x) \subseteq DOMAIN db
  BY FileFacts
<1>6. LogSpec!Extend
  BY <1>2, <1>4, <1>5, DeletionsExtend
<1>7. CASE emptyId' # TAUTOLOGY
  <2>1. db' = [i \in DOMAIN db' |-> db'[i]]
    BY <1>2, <1>5, EmitMap
  <2>2. ~Going'
    BY <1>7 DEF Going
  <2> QED
    BY <1>6, <2>1, <2>2, FileEnded
<1>8. CASE emptyId' = TAUTOLOGY
  <2>1. Filed("client", {}, del) /\ Going /\ del \subseteq KindOf("def")
    BY <1>2, <1>4, <1>5, <1>8, Deletions
  <2>2. /\ Used' = Reach(GcRoots) /\ Live' = Terminals \cup Used' /\ Used' \subseteq Used
        /\ \A n \in Live' : node'[n] = node[n]
        /\ Dead = Used \ Used'
    BY <1>1, CollectFacts DEF IInv, Dead
  <2>3. TableInv' /\ \A h \in Held : handle[h].root \in Live'
    <3>1. Running'
      BY <1>1 DEF Running
    <3> QED
      BY <1>1, <3>1 DEF IInv, RootsInv, Held
  <2>4. KeptNodes(Used')
    <3>1. ASSUME NEW n \in Used'
          PROVE  node'[n] = node[n] /\ node[n].low \in Live' /\ node[n].high \in Live'
      BY <2>2, <2>3 DEF TableInv
    <3> QED
      BY <2>2, <3>1 DEF KeptNodes
  <2>5. \A x : KindOf(x)' = KindOf(x) \ del
    BY <2>1 DEF Filed
  <2>6. \A x : x # "def" => KindOf(x)' = KindOf(x)
    BY <2>1, <2>5, KindsApart
  <2>7. KindOf("def")' = UNION {Dclauses(node, n) : n \in Used'}
    <3>1. KindOf("def") = UNION {Dclauses(node, n) : n \in Used}
      BY <2>1, OwnersParts
    <3>2. \A m, n \in Used : m # n => Dclauses(node, m) \cap Dclauses(node, n) = {}
      BY <2>1 DEF FileInv, KindsInv
    <3> QED
      BY <2>2, <2>5, <3>1, <3>2 DEF del
  <2>8. KindOf("unit")' = DOMAIN rc' /\ KindOf("just") = CachedClauses \cup deferred
    BY <1>1, <2>1, <2>6, OwnersParts
  <2>9. \A s \in Slots : cache'[s].cid = TAUTOLOGY
    BY <1>2 DEF NoEntry
  <2>10. CachedClauses' = {} /\ CacheDistinct'
    BY <2>9 DEF CachedClauses, CacheDistinct
  <2>11. KindOf("just")' = CachedClauses' \cup deferred' /\ CachedClauses' \cap deferred' = {}
    BY <1>2, <2>6, <2>8, <2>10
  <2>12. \A h \in Held : node'[handle[h].root].xvar = node[handle[h].root].xvar
    BY <2>2, <2>3
  <2>13. \A g \in Held' : \E h \in Held : handle'[g] = handle[h]
    BY <1>1 DEF Held
  <2>14. del \cap KindOf("input") = {}
    BY <2>1, KindsApart
  <2> QED
    BY <1>6, <2>1, <2>2, <2>4, <2>7, <2>8, <2>10, <2>11, <2>12, <2>13, <2>14, FileNext
<1> QED
  BY <1>7, <1>8


\* The unit clause of a trusted BDD: that of 1 is a tautology, that of 0 the
\* empty clause.
LEMMA UnitClause ==
    ASSUME TypeOK, TableInv, XvarInv, IdsFit, NEW r \in Live
    PROVE  LET c == CleanClause({node[r].xvar})
           IN  /\ r = 1 => c = TautClause
               /\ r = 0 => c = {}
               /\ r # 1 /\ r # 0 => c = {node[r].xvar}
               /\ c = TautClause => r = 1
<1>1. /\ TAUTOLOGY \in Nat \ {0} /\ varcounter < TAUTOLOGY /\ varcounter \in Nat
      /\ node[0].xvar = -TAUTOLOGY /\ node[1].xvar = TAUTOLOGY
      /\ \A n \in Used : node[n].xvar \in 1..varcounter
  BY XvarFacts, TautologyAssumption
<1>2. CASE r = 1
  BY <1>1, <1>2 DEF CleanClause
<1>3. CASE r = 0
  <2>1. CleanClause({-TAUTOLOGY}) = {}
    BY <1>1 DEF CleanClause
  <2>2. node[r].xvar = -TAUTOLOGY /\ TautClause # {}
    BY <1>1, <1>3 DEF TautClause
  <2>3. CleanClause({node[r].xvar}) = {}
    BY <2>1, <2>2
  <2> QED
    BY <1>3, <2>2, <2>3
<1>4. CASE r # 1 /\ r # 0
  <2>1. r \in Used
    BY <1>4 DEF Live, Terminals
  <2>2. PICK x \in 1..varcounter : node[r].xvar = x
    BY <1>1, <2>1
  <2>3. x # TAUTOLOGY /\ x # -TAUTOLOGY /\ x # -x /\ -x # x
    BY <1>1
  <2>4. CleanClause({x}) = {x} /\ {x} # TautClause
    BY <2>3 DEF CleanClause, TautClause
  <2> QED
    BY <1>4, <2>2, <2>4
<1> QED
  BY <1>2, <1>3, <1>4

\* tbdd_create: a unit clause and the table entry that owns it.
LEMMA CreateFile ==
    ASSUME IInv, Running, FileInv, XvarInv, IdsFit, IInv', IdsFit', SameNodes, counter' = counter + 1,
           NEW r \in Live, NEW hints, NEW late, NEW dest \in Holders,
           Emit(Gen({node[r].xvar}, hints, "unit", 1), late),
           rc' = NewRc(GenId({node[r].xvar}, 1)),
           handle' = [handle EXCEPT ![dest] = [root |-> r, cid |-> GenId({node[r].xvar}, 1)]],
           Going => /\ Citable(hints) /\ late \subseteq KindOf("just")
                    /\ CachedClauses' \cup deferred' = (CachedClauses \cup deferred) \ late
                    /\ CachedClauses' \cap deferred' = {} /\ CacheDistinct'
    PROVE  FileInv' /\ LogSpec!Extend
<1> DEFINE lits == {node[r].xvar}
           cid == GenId(lits, 1)
           new == IF CleanClause(lits) = TautClause THEN {} ELSE {counter + 1}
<1>1. /\ TypeOK /\ TableInv /\ \A x : KindOf(x) \subseteq DOMAIN db
      /\ db = [i \in DOMAIN db |-> db[i]] /\ DOMAIN db \subseteq 1..counter
      /\ counter \in Nat /\ TAUTOLOGY \in Nat /\ counter + 1 < TAUTOLOGY
  <2>1. counter + 1 < TAUTOLOGY
    BY DEF IdsFit
  <2> QED
    BY <2>1, FileFacts DEF IInv
<1>2. /\ r = 1 => CleanClause(lits) = TautClause
      /\ r = 0 => CleanClause(lits) = {}
      /\ r # 1 /\ r # 0 => CleanClause(lits) = lits
      /\ CleanClause(lits) = TautClause => r = 1
  BY <1>1, UnitClause
<1>3. node'[r].xvar = node[r].xvar
  BY SafeTypes DEF SameNodes
<1>4. Emit(Gen(lits, hints, "unit", 1), late)
  OBVIOUS
<1>5. rc' = NewRc(cid) /\ handle' = [handle EXCEPT ![dest] = [root |-> r, cid |-> cid]]
  OBVIOUS
<1>6. emptyId = TAUTOLOGY => Going
  BY DEF Going, Running
<1>7. node'[r].xvar = node[r].xvar /\ lits = {node[r].xvar}
  BY <1>3
<1> HIDE DEF lits
<1>8. /\ cid \in Nat /\ ({cid} \ {TAUTOLOGY}) = new /\ (new # {} => cid = counter + 1 /\ new = {counter + 1})
      /\ (r # 1 => new # {})
  <2>1. CASE CleanClause(lits) = TautClause
    <3>1. cid = TAUTOLOGY /\ new = {} /\ r = 1
      BY <1>2, <2>1 DEF GenId
    <3> QED
      BY <1>1, <3>1
  <2>2. CASE CleanClause(lits) # TautClause
    <3>1. cid = counter + 1 /\ new = {counter + 1}
      BY <2>2 DEF GenId
    <3> QED
      BY <1>1, <3>1
  <2> QED
    BY <2>1, <2>2
<1> HIDE DEF cid
<1>9. LogSpec!Extend
  BY <1>1, <1>4, <1>6, OneClauseExtends
<1>10. CASE emptyId' # TAUTOLOGY
  <2>1. db' = [i \in DOMAIN db' |-> db'[i]]
    BY <1>1, <1>4, EmitMap
  <2>2. ~Going'
    BY <1>10 DEF Going
  <2> QED
    BY <1>9, <2>1, <2>2, FileEnded
<1>11. CASE emptyId' = TAUTOLOGY
  <2>1. emptyId = TAUTOLOGY
    BY <1>4, <1>11 DEF Emit
  <2>2. Going /\ late \subseteq KindOf("just") /\ late \subseteq DOMAIN db
    BY <1>1, <1>6, <2>1
  <2>3. /\ Filed("unit", new, late)
        /\ \A i \in new : db'[i] = [lits |-> CleanClause(lits), kind |-> "unit"] /\ CleanClause(lits) # {}
    BY <1>1, <1>4, <1>11, <2>2, OneClause
  <2> HIDE DEF new
  <2>4. /\ DOMAIN rc' = DOMAIN rc \cup new
    BY <1>1, <1>5, <1>8, NewRcType
  <2>5. /\ KindOf("unit")' = (KindOf("unit") \ late) \cup new /\ KindOf("just")' = KindOf("just") \ late
        /\ new \subseteq DOMAIN db'
    BY <2>3 DEF Filed
  <2>6. KindOf("unit") \cap KindOf("just") = {}
    BY KindsApart
  <2>7. KindOf("unit")' = DOMAIN rc' /\ KindOf("just")' = CachedClauses' \cup deferred'
    <3>1. KindOf("unit") = DOMAIN rc /\ KindOf("just") = CachedClauses \cup deferred
      BY <2>2, OwnersParts
    <3> QED
      BY <2>2, <2>4, <2>5, <2>6, <3>1
  <2>8. r # 0
    <3>1. ASSUME r = 0 PROVE FALSE
      <4>1. new # {} /\ CleanClause(lits) = {}
        BY <1>2, <1>8, <3>1
      <4> QED
        BY <2>3, <4>1
    <3> QED
      BY <3>1
  <2>9. \A g \in Holders : handle'[g] = IF g = dest THEN [root |-> r, cid |-> cid] ELSE handle[g]
    BY <1>1, <1>5 DEF TypeOK
  <2>10. UnitLive(dest)'
    <3>0. handle'[dest] = [root |-> r, cid |-> cid]
      BY <2>9
    <3>1. handle'[dest].root = r /\ handle'[dest].cid = cid
      BY <3>0
    <3>2. ASSUME r # 1 PROVE cid \in DOMAIN db' /\ db'[cid].lits = {node[r].xvar}
      <4>1. cid \in new /\ CleanClause(lits) = {node[r].xvar}
        BY <1>2, <1>7, <1>8, <2>8, <3>2
      <4>2. db'[cid] = [lits |-> CleanClause(lits), kind |-> "unit"]
        BY <2>3, <4>1
      <4> QED
        BY <2>5, <4>1, <4>2
    <3> QED
      BY <1>7, <3>1, <3>2 DEF UnitLive
  <2>11. ASSUME NEW g \in Held'
         PROVE  (\E h \in Held : handle'[g] = handle[h]) \/ (UnitLive(g)' /\ handle'[g].root # 0)
    <3>1. CASE g = dest
      BY <2>8, <2>9, <2>10, <3>1
    <3>2. CASE g # dest
      BY <2>9, <3>2 DEF Held
    <3> QED
      BY <3>1, <3>2
  <2> QED
    BY <1>9, <2>2, <2>3, <2>7, <2>11, FileSame
<1> QED
  BY <1>10, <1>11


LEMMA OwnerParts ==
    ASSUME OwnerInv
    PROVE  FileInv /\ XvarInv /\ (Running /\ Going => PendingJob /\ PendingResults)
BY DEF OwnerInv, FileInv, PendingInv, PendingJob, PendingResults

LEMMA CitableRange ==
    ASSUME NEW hints, RangeOf(hints) \subseteq DOMAIN db \cup {TAUTOLOGY}
    PROVE  Citable(hints)
BY DEF Citable, RangeOf

\* The BDD of an input clause: its unit clause cites the defining clauses along
\* the path that falsifies the clause, and the clause.
LEMMA ClauseWalkedFile ==
    ASSUME IInv, Running, OwnerInv, IdsFit, IInv', IdsFit', ClauseWalked
    PROVE  FileInv' /\ LogSpec!Extend
<1>1. FileInv /\ XvarInv /\ (Going => PendingJob)
  BY OwnerParts
<1>2. /\ TypeOK /\ job \in Jobs /\ job.dest \in Holders /\ job.r \in Live /\ job.r \in NodeIds
      /\ job.ants \in Seq(Nat)
  BY DEF IInv, RootsInv, TypeOK, Jobs
<1>3. pc = "walk" /\ job.kind = "clause" /\ node' = IncRef(node, job.r) /\ counter' = counter + 1
      /\ UNCHANGED <<cache, deferred>>
      /\ Emit(Gen({node[job.r].xvar}, Append(job.ants, job.id), "unit", 1), {})
      /\ rc' = NewRc(GenId({node[job.r].xvar}, 1))
      /\ handle' = [handle EXCEPT ![job.dest] = [root |-> job.r, cid |-> GenId({node[job.r].xvar}, 1)]]
  BY DEF ClauseWalked
<1>4. SameNodes
  BY <1>2, <1>3, IncRefSame
<1>5. ASSUME Going PROVE Citable(Append(job.ants, job.id))
  <2>1. RangeOf(job.ants) \subseteq DOMAIN db \cup {TAUTOLOGY} /\ job.id \in DOMAIN InputClauses
    BY <1>1, <1>3, <1>5 DEF PendingJob
  <2>2. DOMAIN InputClauses \subseteq DOMAIN db
    <3>1. DOMAIN InputClauses = KindOf("input")
      BY <1>1, <1>5 DEF FileInv, KindsInv
    <3> QED
      BY <3>1 DEF KindOf
  <2>3. job.id \in Nat
    BY <2>1, InputTypes
  <2>4. RangeOf(Append(job.ants, job.id)) = RangeOf(job.ants) \cup {job.id}
    BY <1>2, <2>3, AppendRange
  <2> QED
    BY <2>1, <2>2, <2>4, CitableRange
<1>6. CachedClauses' = CachedClauses
  BY <1>3 DEF CachedClauses
<1>7. Going => /\ CachedClauses' \cup deferred' = (CachedClauses \cup deferred) \ {}
               /\ CachedClauses' \cap deferred' = {} /\ CacheDistinct'
  <2>1. ASSUME Going PROVE CachedClauses \cap deferred = {} /\ CacheDistinct
    BY <1>1, <2>1, OwnersParts
  <2>2. ASSUME CacheDistinct PROVE CacheDistinct'
    BY <1>3, <2>2 DEF CacheDistinct
  <2> QED
    BY <1>3, <1>6, <2>1, <2>2
<1> QED
  BY <1>1, <1>2, <1>3, <1>4, <1>5, <1>7, CreateFile

LEMMA UnitHintsCitable ==
    ASSUME TypeOK, NEW T, ret.cid \in T, \A h \in Holders : handle[h].cid \in T
    PROVE  RangeOf(UnitHints([i \in DOMAIN job.args |-> handle[job.args[i]].cid])) \subseteq T
<1> DEFINE units == [i \in DOMAIN job.args |-> handle[job.args[i]].cid]
           one == <<ret.cid>>
<1>1. job.args \in Seq(Handles) /\ Handles \subseteq Holders /\ ret.cid \in Nat
      /\ \A h \in Holders : handle[h].cid \in Nat
  BY TmpFree DEF TypeOK, Jobs, Pcbdd, Tbdds
<1>2. Len(job.args) \in Nat /\ DOMAIN job.args = 1..Len(job.args)
      /\ \A i \in DOMAIN job.args : job.args[i] \in Handles
  BY <1>1
<1>3. units \in Seq(Nat) /\ RangeOf(units) \subseteq T
  <2>1. \A i \in DOMAIN job.args : handle[job.args[i]].cid \in Nat \cap T
    BY <1>1, <1>2
  <2>2. DOMAIN units = 1..Len(job.args) /\ \A i \in DOMAIN units : units[i] \in Nat \cap T
    BY <1>2, <2>1
  <2>3. units = [i \in DOMAIN units |-> units[i]]
    OBVIOUS
  <2> HIDE DEF units
  <2>4. units \in [1..Len(job.args) -> Nat]
    BY <2>2, <2>3
  <2>5. units \in Seq(Nat)
    BY <1>2, <2>4, SeqDef
  <2>6. RangeOf(units) \subseteq T
    BY <2>2 DEF RangeOf
  <2> QED
    BY <2>5, <2>6
<1>4. one \in Seq(Nat) /\ RangeOf(one) \subseteq T
  BY <1>1 DEF RangeOf
<1> HIDE DEF units, one
<1>5. RangeOf(Append(units, ret.cid)) \subseteq T
  BY <1>1, <1>3, AppendRange
<1>6. RangeOf(one \o units) \subseteq T
  BY <1>3, <1>4, RangeConcat
<1>7. RangeOf(UnitHints(units)) \subseteq T
  BY <1>5, <1>6 DEF UnitHints, one
<1> QED
  BY <1>7 DEF units

\* checkresize and process_deferred_deletions: the clauses that go are those of
\* the cache and of the list, and what stays has its owner.
LEMMA LateClauses ==
    ASSUME FileInv, Going, TypeOK, deferred' = {},
           cache' = IF resized THEN [s \in Slots |-> NoEntry] ELSE cache
    PROVE  LET late == deferred \cup IF resized THEN CachedClauses ELSE {}
           IN  /\ late \subseteq KindOf("just")
               /\ CachedClauses' \cup deferred' = (CachedClauses \cup deferred) \ late
               /\ CachedClauses' \cap deferred' = {} /\ CacheDistinct'
<1>1. KindOf("just") = CachedClauses \cup deferred /\ CachedClauses \cap deferred = {} /\ CacheDistinct
  BY OwnersParts
<1>2. CASE resized
  <2>1. CachedClauses' = {}
    BY <1>2 DEF CachedClauses, NoEntry
  <2>2. CacheDistinct'
    BY <1>2 DEF CacheDistinct, NoEntry
  <2> QED
    BY <1>1, <1>2, <2>1, <2>2
<1>3. CASE ~resized
  <2>1. CachedClauses' = CachedClauses
    BY <1>3 DEF CachedClauses
  <2>2. CacheDistinct'
    BY <1>1, <1>3 DEF CacheDistinct
  <2> QED
    BY <1>1, <1>3, <2>1, <2>2
<1> QED
  BY <1>2, <1>3

\* The end of an apply operation: its unit clause cites those of the arguments
\* and the justification of the result.
LEMMA FinishApplyFile ==
    ASSUME IInv, Running, OwnerInv, IdsFit, IInv', IdsFit', FinishApply
    PROVE  FileInv' /\ LogSpec!Extend
<1> DEFINE r == IF job.kind = "and" THEN ret.root ELSE job.r
           cid == GenId({node[r].xvar}, 1)
           units == [i \in DOMAIN job.args |-> handle[job.args[i]].cid]
           late == deferred \cup IF resized THEN CachedClauses ELSE {}
<1>1. FileInv /\ XvarInv /\ TypeOK /\ TopPre /\ (Going => PendingResults)
  BY OwnerParts DEF IInv, TopPre
<1>2. /\ r \in NodeIds /\ r \in Live /\ job.dest \in Holders
      /\ rc' = NewRc(cid) /\ handle' = [handle EXCEPT ![job.dest] = [root |-> r, cid |-> cid]]
      /\ job.kind = "check" => node' = DecRef(IncRef(node, r), r)
      /\ job.kind # "check" => node' = IncRef(node, r)
  BY <1>1, FinishFacts
<1>3. /\ pc = "ret" /\ Emit(Gen({node[r].xvar}, UnitHints(units), "unit", 1), late)
      /\ counter' = counter + 1 /\ deferred' = {}
      /\ cache' = IF resized THEN [s \in Slots |-> NoEntry] ELSE cache
  BY DEF FinishApply
<1> HIDE DEF r
<1>4. SameNodes
  <2>1. ~MakeFresh /\ ~MakeGbc
    BY <1>3 DEF MakeFresh, MakeGbc, MustBuild
  <2> QED
    BY <2>1, WritesSame DEF Internal
<1>5. ASSUME Going PROVE Citable(UnitHints(units))
  <2> DEFINE T == DOMAIN db \cup {TAUTOLOGY}
  <2>1. Justified \subseteq T /\ \A h \in Holders : handle[h].cid \in T
    BY <1>5, OwnedIds
  <2>2. ret.cid \in T
    BY <1>1, <1>3, <1>5, <2>1 DEF PendingResults
  <2> HIDE DEF T
  <2>3. RangeOf(UnitHints(units)) \subseteq T
    BY <1>1, <2>1, <2>2, UnitHintsCitable
  <2> QED
    BY <2>3, CitableRange DEF T
<1> HIDE DEF units
<1>6. Going => /\ late \subseteq KindOf("just")
               /\ CachedClauses' \cup deferred' = (CachedClauses \cup deferred) \ late
               /\ CachedClauses' \cap deferred' = {} /\ CacheDistinct'
  BY <1>1, <1>3, LateClauses
<1> HIDE DEF late
<1> QED
  BY <1>1, <1>2, <1>3, <1>4, <1>5, <1>6, CreateFile

\* What the end of a trusted BDD leaves: its unit clause goes with the last
\* reference.
LEMMA ReleasedFacts ==
    ASSUME IInv, IdsFit, FileInv, Going, NEW h \in Held,
           handle[h].root # 1 \/ handle[h].cid # TAUTOLOGY
    PROVE  LET t == handle[h]
           IN  /\ t.cid \in DOMAIN rc /\ Released(t) \subseteq KindOf("unit")
               /\ DOMAIN RcAfter(t.cid) = DOMAIN rc \ Released(t)
<1> DEFINE t == handle[h]
<1>1. /\ TypeOK /\ RcInv /\ TAUTOLOGY \notin DOMAIN db /\ KindOf("unit") = DOMAIN rc
      /\ t.root # 0 /\ UnitLive(h)
  BY FileFacts, OwnersParts, UnitsLiveParts DEF IInv, FileInv, KindsInv
<1>2. t.cid \in DOMAIN rc
  <2>1. t.cid # TAUTOLOGY
    BY <1>1 DEF UnitLive
  <2>2. t.cid \in DOMAIN rc \cup {TAUTOLOGY}
    BY <1>1 DEF RcInv, Held
  <2> QED
    BY <1>1, <2>1, <2>2
<1>3. DOMAIN RcAfter(t.cid) = IF t.cid \in DOMAIN rc /\ rc[t.cid] = 1 THEN DOMAIN rc \ {t.cid}
                              ELSE DOMAIN rc
  BY <1>1, <1>2, RcAfterType
<1>4. Released(t) = IF rc[t.cid] = 1 THEN {t.cid} ELSE {}
  BY <1>1 DEF Released
<1> QED
  BY <1>1, <1>2, <1>3, <1>4

\* A step that gives back unit clauses, and may write a clause of the client.
LEMMA UnitsGo ==
    ASSUME IInv, Running, FileInv, IdsFit, Going, IInv', SameNodes, UNCHANGED <<cache, deferred>>,
           NEW new, NEW del, Filed("client", new, del), del \subseteq KindOf("unit"),
           DOMAIN rc' = DOMAIN rc \ del, \A g \in Held' : \E h \in Held : handle'[g] = handle[h]
    PROVE  FileInv'
<1>1. /\ KindOf("unit") = DOMAIN rc /\ KindOf("just") = CachedClauses \cup deferred
      /\ CachedClauses \cap deferred = {} /\ CacheDistinct
  BY OwnersParts
<1>2. KindOf("unit") \cap KindOf("just") = {}
  BY KindsApart
<1>3. KindOf("unit")' = KindOf("unit") \ del /\ KindOf("just")' = KindOf("just") \ del
  <2>1. KindOf("unit")' = (KindOf("unit") \ del) \cup {}
    BY DEF Filed
  <2>2. KindOf("just")' = (KindOf("just") \ del) \cup {}
    BY DEF Filed
  <2> QED
    BY <2>1, <2>2
<1>4. CachedClauses' = CachedClauses /\ CacheDistinct'
  BY <1>1 DEF CachedClauses, CacheDistinct
<1>5. KindOf("just")' = CachedClauses' \cup deferred' /\ CachedClauses' \cap deferred' = {}
  BY <1>1, <1>2, <1>3, <1>4
<1> QED
  BY <1>1, <1>3, <1>4, <1>5, FileSame

LEMMA HandleDropped ==
    ASSUME TypeOK, NEW h \in Holders, handle' = [handle EXCEPT ![h] = NoTbdd]
    PROVE  \A g \in Held' : \E k \in Held : handle'[g] = handle[k]
<1>1. \A g \in Holders : handle'[g] = IF g = h THEN NoTbdd ELSE handle[g]
  BY DEF TypeOK
<1> QED
  BY <1>1 DEF Held, NoTbdd

\* The end of tbdd_delref.
LEMMA DelrefFile ==
    ASSUME IInv, Running, OwnerInv, IdsFit, IInv', IdsFit', NEW h \in Owned, Delref(h)
    PROVE  FileInv' /\ LogSpec!Extend
<1> DEFINE t == handle[h]
           del == IF t.cid = TAUTOLOGY THEN {} ELSE Released(t)
<1>1. /\ FileInv /\ TypeOK /\ DestInv /\ h \in Held /\ h \in Holders /\ t.root \in NodeIds
      /\ db = [i \in DOMAIN db |-> db[i]] /\ DOMAIN db \subseteq 1..counter /\ counter \in Nat
      /\ \A x : KindOf(x) \subseteq DOMAIN db
  BY OwnerParts, OwnedFacts, FileFacts DEF IInv, Owned
<1>2. /\ node' = DecRef(node, t.root) /\ handle' = [handle EXCEPT ![h] = NoTbdd]
      /\ Emit(<<>>, del) /\ UNCHANGED <<cache, deferred>>
      /\ t.cid = TAUTOLOGY => UNCHANGED rc
      /\ t.cid # TAUTOLOGY => rc' = RcAfter(t.cid)
  BY DEF Delref
<1>3. SameNodes
  BY <1>1, <1>2, DecRefSame
<1>4. emptyId = TAUTOLOGY => Going
  BY DEF Going, Running
<1>5. ASSUME Going PROVE del \subseteq KindOf("unit") /\ DOMAIN rc' = DOMAIN rc \ del
  <2>1. CASE t.cid = TAUTOLOGY
    BY <1>2, <2>1
  <2>2. CASE t.cid # TAUTOLOGY
    BY <1>1, <1>2, <1>5, <2>2, ReleasedFacts
  <2> QED
    BY <2>1, <2>2
<1> HIDE DEF del
<1>6. LogSpec!Extend
  <2>1. emptyId = TAUTOLOGY => del \subseteq DOMAIN db
    BY <1>1, <1>4, <1>5
  <2> QED
    BY <1>1, <1>2, <2>1, DeletionsExtend
<1>7. CASE emptyId' # TAUTOLOGY
  <2>1. db' = [i \in DOMAIN db' |-> db'[i]]
    BY <1>1, <1>2, EmitMap
  <2>2. ~Going'
    BY <1>7 DEF Going
  <2> QED
    BY <1>6, <2>1, <2>2, FileEnded
<1>8. CASE emptyId' = TAUTOLOGY
  <2>1. emptyId = TAUTOLOGY /\ Filed("client", {}, del)
    BY <1>1, <1>2, <1>8, Deletions
  <2>2. Going
    BY <1>4, <2>1
  <2>3. \A g \in Held' : \E k \in Held : handle'[g] = handle[k]
    BY <1>1, <1>2, HandleDropped
  <2> QED
    BY <1>1, <1>2, <1>3, <1>5, <1>6, <2>1, <2>2, <2>3, UnitsGo
<1> QED
  BY <1>7, <1>8

\* The end of tbdd_validate_clause: the clause of the client cites the clauses
\* along the path, and the intermediate BDD goes.
LEMMA CheckWalkedFile ==
    ASSUME IInv, Running, OwnerInv, IdsFit, IInv', IdsFit', CheckWalked
    PROVE  FileInv' /\ LogSpec!Extend
<1> DEFINE t == handle[Tmp]
           del == IF t.root = -1 THEN {} ELSE Released(t)
           new == IF job.id = -1 \/ CleanClause(job.lits) = TautClause THEN {} ELSE {counter + 1}
<1>1. /\ FileInv /\ TypeOK /\ Tmp \in Holders /\ (Going => PendingJob) /\ t.root # 1
      /\ db = [i \in DOMAIN db |-> db[i]] /\ DOMAIN db \subseteq 1..counter /\ counter \in Nat
      /\ TAUTOLOGY \in Nat /\ \A x : KindOf(x) \subseteq DOMAIN db
  BY OwnerParts, FileFacts, TmpFree DEF IInv, OwnerInv, BuildInv
<1>2. /\ pc = "walk" /\ UNCHANGED <<cache, deferred>>
      /\ t.root = -1 => UNCHANGED <<node, handle, rc>>
      /\ t.root # -1 => /\ node' = DecRef(node, t.root) /\ rc' = RcAfter(t.cid)
                        /\ handle' = [handle EXCEPT ![Tmp] = NoTbdd]
      /\ job.id = -1 => Emit(<<>>, del) /\ counter' = counter
      /\ job.id # -1 => Emit(Gen(job.lits, job.ants, "client", 1), del) /\ counter' = counter + 1
  BY DEF CheckWalked
<1>3. SameNodes
  <2>1. ~MakeFresh /\ ~MakeGbc
    BY <1>2 DEF MakeFresh, MakeGbc, MustBuild
  <2> QED
    BY <2>1, WritesSame DEF Internal
<1>4. emptyId = TAUTOLOGY => Going
  BY DEF Going, Running
<1>5. ASSUME Going PROVE del \subseteq KindOf("unit") /\ DOMAIN rc' = DOMAIN rc \ del
  <2>1. CASE t.root = -1
    BY <1>2, <2>1
  <2>2. CASE t.root # -1
    <3>1. Tmp \in Held
      BY <1>1, <2>2 DEF Held
    <3> QED
      BY <1>1, <1>2, <1>5, <2>2, <3>1, ReleasedFacts
  <2> QED
    BY <2>1, <2>2
<1>6. ASSUME Going PROVE Citable(job.ants)
  BY <1>1, <1>6, CitableRange DEF PendingJob
<1>7. \A g \in Held' : \E k \in Held : handle'[g] = handle[k]
  <2>1. CASE t.root = -1
    BY <1>2, <2>1 DEF Held
  <2>2. CASE t.root # -1
    BY <1>1, <1>2, <2>2, HandleDropped
  <2> QED
    BY <2>1, <2>2
<1> HIDE DEF del
<1>8. emptyId = TAUTOLOGY => del \subseteq DOMAIN db
  BY <1>1, <1>4, <1>5
<1>9. LogSpec!Extend
  <2>1. CASE job.id = -1
    BY <1>1, <1>2, <1>8, <2>1, DeletionsExtend
  <2>2. CASE job.id # -1
    BY <1>1, <1>2, <1>4, <1>6, <1>8, <2>2, OneClauseExtends
  <2> QED
    BY <2>1, <2>2
<1>10. CASE emptyId' # TAUTOLOGY
  <2>1. db' = [i \in DOMAIN db' |-> db'[i]]
    BY <1>1, <1>2, EmitMap
  <2>2. ~Going'
    BY <1>10 DEF Going
  <2> QED
    BY <1>9, <2>1, <2>2, FileEnded
<1>11. CASE emptyId' = TAUTOLOGY
  <2>1. emptyId = TAUTOLOGY
    BY <1>2, <1>11 DEF Emit
  <2>2. Going
    BY <1>4, <2>1
  <2>3. Filed("client", new, del)
    <3>1. CASE job.id = -1
      BY <1>1, <1>2, <1>11, <3>1, Deletions
    <3>2. CASE job.id # -1
      <4>1. counter + 1 < TAUTOLOGY
        BY <1>2, <3>2 DEF IdsFit
      <4> QED
        BY <1>1, <1>2, <1>8, <1>11, <2>1, <3>2, <4>1, OneClause
    <3> QED
      BY <3>1, <3>2
  <2> QED
    BY <1>1, <1>2, <1>3, <1>5, <1>7, <1>9, <2>2, <2>3, UnitsGo
<1> QED
  BY <1>10, <1>11

\* tbdd_done deletes what is still owned, which is all that is not the input's
\* or the client's.
LEMMA DoneFile ==
    ASSUME IInv, Running, OwnerInv, IdsFit, Done
    PROVE  FileInv' /\ NothingLeaks' /\ LogSpec!Extend
<1>1. /\ FileInv /\ db = [i \in DOMAIN db |-> db[i]] /\ DOMAIN db \subseteq 1..counter
      /\ counter \in Nat /\ \A x : KindOf(x) \subseteq DOMAIN db
  BY OwnerParts, FileFacts
<1>2. Emit(<<>>, Outstanding) /\ pc' = "done"
  BY DEF Done
<1>3. emptyId = TAUTOLOGY => Going
  BY DEF Going, Running
<1>4. ASSUME Going PROVE Outstanding = KindOf("def") \cup KindOf("unit") \cup KindOf("just")
  BY <1>1, <1>4, OwnersParts DEF Outstanding
<1>5. LogSpec!Extend
  <2>1. emptyId = TAUTOLOGY => Outstanding \subseteq DOMAIN db
    BY <1>1, <1>3, <1>4
  <2> QED
    BY <1>1, <1>2, <2>1, DeletionsExtend
<1>6. FileInv'
  <2>1. db' = [i \in DOMAIN db' |-> db'[i]]
    BY <1>1, <1>2, EmitMap
  <2>2. ~Going'
    BY <1>2 DEF Going
  <2> QED
    BY <2>1, <2>2, FileEnded
<1>7. ASSUME emptyId' = TAUTOLOGY PROVE DOMAIN db' = DOMAIN InputClauses \cup KindOf("client")'
  <2>1. emptyId = TAUTOLOGY /\ Filed("client", {}, Outstanding)
    BY <1>1, <1>2, <1>7, Deletions
  <2>2. Going
    BY <1>3, <2>1
  <2>3. Outstanding = KindOf("def") \cup KindOf("unit") \cup KindOf("just")
    BY <1>4, <2>2
  <2>4. DOMAIN db' = DOMAIN db \ Outstanding /\ KindOf("client")' = KindOf("client") \ Outstanding
    <3>1. DOMAIN db' = (DOMAIN db \ Outstanding) \cup {}
      BY <2>1 DEF Filed
    <3>2. KindOf("client")' = (KindOf("client") \ Outstanding) \cup {}
      BY <2>1 DEF Filed
    <3> QED
      BY <3>1, <3>2
  <2>5. /\ KindOf("client") \cap Outstanding = {} /\ KindOf("input") \cap Outstanding = {}
    <3>1. /\ KindOf("client") \cap KindOf("def") = {} /\ KindOf("client") \cap KindOf("unit") = {}
          /\ KindOf("client") \cap KindOf("just") = {}
          /\ KindOf("input") \cap KindOf("def") = {} /\ KindOf("input") \cap KindOf("unit") = {}
          /\ KindOf("input") \cap KindOf("just") = {}
      BY KindsApart
    <3> QED
      BY <2>3, <3>1
  <2>6. /\ KindOf("input") = DOMAIN InputClauses
        /\ DOMAIN db = KindOf("input") \cup KindOf("client") \cup (KindOf("def") \cup KindOf("unit")
                                                                  \cup KindOf("just"))
    <3>1. KindOf("input") = DOMAIN InputClauses /\ \A i \in DOMAIN db : db[i].kind \in Kinds
      BY <1>1, <2>2 DEF FileInv, KindsInv
    <3>2. ASSUME NEW i \in DOMAIN db
          PROVE  i \in KindOf("input") \cup KindOf("client") \cup (KindOf("def") \cup KindOf("unit")
                                                                  \cup KindOf("just"))
      BY <3>1 DEF KindOf, Kinds
    <3> QED
      BY <1>1, <3>1, <3>2
  <2> QED
    BY <2>3, <2>4, <2>5, <2>6
<1>8. NothingLeaks'
  BY <1>7 DEF NothingLeaks
<1> QED
  BY <1>5, <1>6, <1>8

-----------------------------------------------------------------------------
(* The lines of justify_apply *)

HintsIn(hints, T) == \A i \in DOMAIN hints : hints[i] \in T

LEMMA HintOrders ==
    /\ HintHL \in Seq(HintTags) /\ HintLH \in Seq(HintTags)
    /\ HintH \in Seq(HintTags) /\ HintL \in Seq(HintTags)
<1>1. /\ "RESHU" \in HintTags /\ "ARG1HD" \in HintTags /\ "ARG2HD" \in HintTags /\ "OPH" \in HintTags
      /\ "RESLU" \in HintTags /\ "ARG1LD" \in HintTags /\ "ARG2LD" \in HintTags /\ "OPL" \in HintTags
      /\ "EXTRA" \in HintTags
  BY DEF HintTags
<1>2. HintH \in Seq(HintTags) /\ HintL \in Seq(HintTags)
  BY <1>1 DEF HintH, HintL
<1>3. HintHL \in Seq(HintTags)
  BY <1>1 DEF HintHL
<1>4. HintLH \in Seq(HintTags)
  BY <1>1 DEF HintLH
<1> QED
  BY <1>2, <1>3, <1>4

\* The antecedents of a line are among its candidates.
LEMMA AntecedentsIn ==
    ASSUME NEW order \in Seq(HintTags), NEW hint, NEW used, NEW T, TAUTOLOGY \in T,
           \A h \in HintTags : hint[h].id \in T
    PROVE  HintsIn(Antecedents(order, hint, used), T)
<1>1. ASSUME NEW i \in 1..Len(order) PROVE order[i] \in HintTags
  BY ElementOfSeq
<1> QED
  BY <1>1 DEF HintsIn, Antecedents

\* The clauses of one step of the recursion: none for a tautology, one, or a
\* second one that cites the first and replaces it.
NoLines(j) == j.add = <<>> /\ j.del = {} /\ j.jid = TAUTOLOGY
OneLineOf(j, last, T) ==
    \E lits, hints : /\ j.add = <<Line(last + 1, lits, hints, "just")>> /\ HintsIn(hints, T)
                     /\ j.del = {} /\ j.jid = last + 1
TwoLinesOf(j, last, T) ==
    \E c1, h1, c2, h2 : /\ j.add = <<Line(last + 1, c1, h1, "just"), Line(last + 2, c2, h2, "just")>>
                        /\ HintsIn(h1, T) /\ HintsIn(h2, T \cup {last + 1})
                        /\ j.del = {last + 1} /\ j.jid = last + 2

LEMMA JustifyLines ==
    ASSUME NEW nd, NEW op, NEW l, NEW r, NEW level, NEW tresl, NEW tresh, NEW res, NEW last \in Nat,
           NEW T, TAUTOLOGY \in T,
           \A h \in HintTags : Candidates(nd, op, l, r, level, tresl, tresh, res)[h].id \in T
    PROVE  LET j == Justify(nd, op, l, r, level, tresl, tresh, res, last)
           IN  NoLines(j) \/ OneLineOf(j, last, T) \/ TwoLinesOf(j, last, T)
<1> DEFINE j == Justify(nd, op, l, r, level, tresl, tresh, res, last)
           targ  == JustTarget(nd, op, l, r, res)
           hint  == Candidates(nd, op, l, r, level, tresl, tresh, res)
           hl    == RupCheck(targ, HintHL, hint)
           lh    == RupCheck(targ, HintLH, hint)
           itarg == CleanClause(targ \cup {-level})
           extra == [hint EXCEPT !["EXTRA"] = [id |-> last + 1, lits |-> itarg]]
           first == RupCheck(itarg, HintH, hint)
           secnd == RupCheck(targ, HintL, extra)
           One(order, used) ==
               [ok |-> TRUE, jid |-> last + 1, del |-> {},
                add |-> <<Line(last + 1, targ, Antecedents(order, hint, used), "just")>>]
           none == [ok |-> TRUE, jid |-> TAUTOLOGY, del |-> {}, add |-> <<>>]
           two == [ok |-> first.ok /\ secnd.ok, jid |-> last + 2, del |-> {last + 1},
                   add |-> <<Line(last + 1, itarg, Antecedents(HintH, hint, first.used), "just"),
                             Line(last + 2, targ, Antecedents(HintL, extra, secnd.used), "just")>>]
<1> SUFFICES NoLines(j) \/ OneLineOf(j, last, T) \/ TwoLinesOf(j, last, T)
  OBVIOUS
<1>1. \/ j = none \/ j = One(HintHL, hl.used) \/ j = One(HintLH, lh.used) \/ j = two
  BY DEF Justify
<1>2. /\ HintHL \in Seq(HintTags) /\ HintLH \in Seq(HintTags)
      /\ HintH \in Seq(HintTags) /\ HintL \in Seq(HintTags)
  BY HintOrders
<1>3. DOMAIN hint = HintTags /\ \A h \in HintTags : hint[h].id \in T
  BY DEF Candidates
<1> HIDE DEF j, targ, hint, hl, lh, itarg, first, secnd
<1>4. \A h \in HintTags : extra[h].id \in T \cup {last + 1}
  <2>1. ASSUME NEW h \in HintTags
        PROVE  extra[h] = IF h = "EXTRA" THEN [id |-> last + 1, lits |-> itarg] ELSE hint[h]
    BY <1>3
  <2> HIDE DEF extra
  <2> QED
    BY <1>3, <2>1
<1> HIDE DEF extra
<1>5. CASE j = none
  BY <1>5 DEF NoLines
<1>6. ASSUME NEW order \in Seq(HintTags), NEW used, j = One(order, used)
      PROVE  OneLineOf(j, last, T)
  <2>1. HintsIn(Antecedents(order, hint, used), T)
    BY <1>3, AntecedentsIn
  <2> QED
    BY <1>6, <2>1 DEF OneLineOf
<1>7. CASE j = two
  <2>1. HintsIn(Antecedents(HintH, hint, first.used), T)
    BY <1>2, <1>3, AntecedentsIn
  <2>2. HintsIn(Antecedents(HintL, extra, secnd.used), T \cup {last + 1})
    BY <1>2, <1>4, AntecedentsIn
  <2> QED
    BY <1>7, <2>1, <2>2 DEF TwoLinesOf
<1> QED
  BY <1>1, <1>2, <1>5, <1>6, <1>7

\* The candidates are clauses of the nodes at hand and the justifications of the
\* two halves.
LEMMA CandidateIds ==
    ASSUME NEW op, NEW l, NEW r, NEW level, NEW tresl, NEW tresh, NEW res, NEW T, TAUTOLOGY \in T,
           tresl.cid \in T, tresh.cid \in T,
           \A n \in {l, r, res}, d \in DTypes : Dclause(node, n, d) \in T
    PROVE  \A h \in HintTags : Candidates(node, op, l, r, level, tresl, tresh, res)[h].id \in T
<1>1. \A id, lits : id \in T => Hint(id, lits).id \in T
  BY DEF Hint, NoHint
<1>2. NoHint.id \in T
  BY DEF NoHint
<1>3. \A n \in {l, r, res}, d \in DTypes : DefHint(node, n, level, d).id \in T
  BY <1>1, <1>2 DEF DefHint
<1> DEFINE s == IF op = "imp" THEN r ELSE res
           Arg2(dtype) == IF op = "imp" THEN NoHint ELSE DefHint(node, r, level, dtype)
           Op(tres, b) ==
               LET cl == Cofactor(node, l, level, b)
                   cr == Cofactor(node, r, level, b)
                   cs == Cofactor(node, s, level, b)
               IN  Hint(tres.cid, IF op = "imp" THEN TargetImply(node, cl, cr)
                                                ELSE TargetAnd(node, cl, cr, cs))
           cand == Candidates(node, op, l, r, level, tresl, tresh, res)
<1>4. \A d \in DTypes : Arg2(d).id \in T /\ DefHint(node, s, level, d).id \in T
                        /\ DefHint(node, l, level, d).id \in T
  BY <1>2, <1>3
<1>5. Op(tresh, 1).id \in T /\ Op(tresl, 0).id \in T
  BY <1>1
<1>6. /\ cand["RESHU"] = DefHint(node, s, level, "HU") /\ cand["RESLU"] = DefHint(node, s, level, "LU")
      /\ cand["ARG1HD"] = DefHint(node, l, level, "HD") /\ cand["ARG1LD"] = DefHint(node, l, level, "LD")
      /\ cand["ARG2HD"] = Arg2("HD") /\ cand["ARG2LD"] = Arg2("LD")
      /\ cand["OPH"] = Op(tresh, 1) /\ cand["OPL"] = Op(tresl, 0) /\ cand["EXTRA"] = NoHint
  BY DEF Candidates, HintTags
<1>7. {"HU", "LU", "HD", "LD"} \subseteq DTypes
  BY DEF DTypes
<1> HIDE DEF s, Arg2, Op, cand
<1>8. \A h \in HintTags : cand[h].id \in T
  BY <1>2, <1>4, <1>5, <1>6, <1>7 DEF HintTags
<1> QED
  BY <1>8 DEF cand

\* A step that writes the lines of justify_apply adds one justification, under
\* the id it returns.
LEMMA JustifyExtends ==
    ASSUME NEW j, Emit(j.add, j.del), counter \in Nat, TAUTOLOGY \in Nat,
           db = [i \in DOMAIN db |-> db[i]], DOMAIN db \subseteq 1..counter,
           NoLines(j) \/ OneLineOf(j, counter, DOMAIN db \cup {TAUTOLOGY})
                      \/ TwoLinesOf(j, counter, DOMAIN db \cup {TAUTOLOGY})
    PROVE  LogSpec!Extend
<1> DEFINE T == DOMAIN db \cup {TAUTOLOGY}
<1>1. CASE NoLines(j)
  BY <1>1, DeletionsExtend DEF NoLines
<1>2. CASE OneLineOf(j, counter, T)
  <2>1. PICK lits, hints : /\ j.add = <<Line(counter + 1, lits, hints, "just")>> /\ HintsIn(hints, T)
                           /\ j.del = {} /\ j.jid = counter + 1
    BY <1>2 DEF OneLineOf
  <2> DEFINE line == Line(counter + 1, lits, hints, "just")
             add == <<line>>
  <2>2. DOMAIN add = {1} /\ add[1] = line /\ line.id = counter + 1 /\ line.hints = hints
    BY DEF Line
  <2>3. Emit(add, {})
    BY <2>1
  <2> HIDE DEF add, line
  <2>4. DOMAIN add \subseteq Int /\ Rising(add) /\ Above(add, counter)
    BY <2>2 DEF Rising, Above
  <2>5. ASSUME NEW k \in DOMAIN add, NEW c \in LogSpec!Cited(add[k]) PROVE c \in DOMAIN db
    <3>1. PICK i \in DOMAIN hints : c = IF hints[i] < 0 THEN -hints[i] ELSE hints[i]
      BY <2>2, <2>5 DEF LogSpec!Cited
    <3>2. c # TAUTOLOGY
      BY <2>5 DEF LogSpec!Cited
    <3>3. hints[i] \in DOMAIN db \cup {TAUTOLOGY} /\ hints[i] \in Nat
      BY <2>1 DEF HintsIn
    <3> QED
      BY <3>1, <3>2, <3>3
  <2> QED
    BY <2>3, <2>4, <2>5, ExtendStep
<1>3. CASE TwoLinesOf(j, counter, T)
  <2>1. PICK c1, h1, c2, h2 :
           /\ j.add = <<Line(counter + 1, c1, h1, "just"), Line(counter + 2, c2, h2, "just")>>
           /\ HintsIn(h1, T) /\ HintsIn(h2, T \cup {counter + 1})
           /\ j.del = {counter + 1} /\ j.jid = counter + 2
    BY <1>3 DEF TwoLinesOf
  <2> DEFINE line1 == Line(counter + 1, c1, h1, "just")
             line2 == Line(counter + 2, c2, h2, "just")
             add == <<line1, line2>>
  <2>2. /\ DOMAIN add = {1, 2} /\ add[1] = line1 /\ add[2] = line2
        /\ line1.id = counter + 1 /\ line1.hints = h1 /\ line2.id = counter + 2 /\ line2.hints = h2
    BY DEF Line
  <2>3. Emit(add, {counter + 1})
    BY <2>1
  <2> HIDE DEF add, line1, line2
  <2>4. DOMAIN add \subseteq Int /\ Rising(add) /\ Above(add, counter)
    BY <2>2 DEF Rising, Above
  <2>5. counter + 1 \in LogSpec!AddedIds(add)
    BY <2>2 DEF LogSpec!AddedIds
  <2>6. ASSUME NEW k \in DOMAIN add, NEW c \in LogSpec!Cited(add[k])
        PROVE  c \in DOMAIN db \/ (c \in LogSpec!AddedIds(add) /\ c < add[k].id)
    <3>1. CASE k = 1
      <4>1. PICK i \in DOMAIN h1 : c = IF h1[i] < 0 THEN -h1[i] ELSE h1[i]
        BY <2>2, <2>6, <3>1 DEF LogSpec!Cited
      <4>2. c # TAUTOLOGY
        BY <2>6 DEF LogSpec!Cited
      <4>3. h1[i] \in DOMAIN db \cup {TAUTOLOGY} /\ h1[i] \in Nat
        BY <2>1 DEF HintsIn
      <4> QED
        BY <4>1, <4>2, <4>3
    <3>2. CASE k = 2
      <4>1. PICK i \in DOMAIN h2 : c = IF h2[i] < 0 THEN -h2[i] ELSE h2[i]
        BY <2>2, <2>6, <3>2 DEF LogSpec!Cited
      <4>2. c # TAUTOLOGY
        BY <2>6 DEF LogSpec!Cited
      <4>3. h2[i] \in DOMAIN db \cup {TAUTOLOGY, counter + 1} /\ h2[i] \in Nat
        BY <2>1 DEF HintsIn
      <4>4. c = h2[i]
        BY <4>1, <4>3
      <4>5. c \in DOMAIN db \/ c = counter + 1
        BY <4>2, <4>3, <4>4
      <4> QED
        BY <2>2, <2>5, <3>2, <4>5
    <3> QED
      BY <2>2, <3>1, <3>2
  <2> QED
    BY <2>3, <2>4, <2>5, <2>6, ExtendStep
<1> QED
  BY <1>1, <1>2, <1>3

LEMMA JustifyFiled ==
    ASSUME NEW j, Emit(j.add, j.del), emptyId' = TAUTOLOGY, counter \in Nat, TAUTOLOGY \in Nat,
           DOMAIN db \subseteq 1..counter, counter + Len(j.add) < TAUTOLOGY, NEW T,
           NoLines(j) \/ OneLineOf(j, counter, T) \/ TwoLinesOf(j, counter, T)
    PROVE  /\ emptyId = TAUTOLOGY /\ Filed("just", {j.jid} \ {TAUTOLOGY}, {})
           /\ j.jid = TAUTOLOGY \/ (j.jid \in Nat /\ counter < j.jid)
<1>1. CASE NoLines(j)
  <2>1. j.add = <<>> /\ j.del = {} /\ {j.jid} \ {TAUTOLOGY} = {} /\ j.jid = TAUTOLOGY
    BY <1>1 DEF NoLines
  <2>2. Emit(<<>>, {})
    BY <2>1
  <2>3. emptyId = TAUTOLOGY /\ Filed("just", {}, {})
    BY <2>2, Deletions
  <2> QED
    BY <2>1, <2>3
<1>2. CASE OneLineOf(j, counter, T)
  <2>1. PICK lits, hints : /\ j.add = <<Line(counter + 1, lits, hints, "just")>>
                           /\ j.del = {} /\ j.jid = counter + 1
    BY <1>2 DEF OneLineOf
  <2> DEFINE line == Line(counter + 1, lits, hints, "just")
             add == <<line>>
  <2>2. DOMAIN add = {1} /\ add[1] = line /\ line.id = counter + 1 /\ line.kind = "just" /\ Len(add) = 1
    BY DEF Line
  <2>3. Emit(add, {}) /\ counter + Len(add) < TAUTOLOGY
    BY <2>1
  <2> HIDE DEF add, line
  <2>4. DOMAIN add \subseteq Int /\ Rising(add) /\ Above(add, counter)
    BY <2>2 DEF Rising, Above
  <2>5. \A k \in DOMAIN add : add[k].id # TAUTOLOGY
    BY <2>2, <2>3
  <2>6. FileAfter(add, {})
    BY <2>3, <2>4, <2>5, FileStep
  <2>7. /\ LogSpec!AddedIds(add) = {counter + 1}
        /\ AddedOf(add, "just") = {counter + 1} /\ \A x : x # "just" => AddedOf(add, x) = {}
    BY <2>2 DEF LogSpec!AddedIds, AddedOf
  <2>8. {j.jid} \ {TAUTOLOGY} = {counter + 1}
    BY <2>1, <2>2, <2>3
  <2>9. Filed("just", {counter + 1}, {})
    BY <2>6, <2>7 DEF FileAfter, Filed
  <2>10. emptyId = TAUTOLOGY
    BY <2>6 DEF FileAfter
  <2>11. Filed("just", {j.jid} \ {TAUTOLOGY}, {})
    BY <2>8, <2>9, Zenon
  <2> QED
    BY <2>1, <2>10, <2>11
<1>3. CASE TwoLinesOf(j, counter, T)
  <2>1. PICK c1, h1, c2, h2 :
           /\ j.add = <<Line(counter + 1, c1, h1, "just"), Line(counter + 2, c2, h2, "just")>>
           /\ j.del = {counter + 1} /\ j.jid = counter + 2
    BY <1>3 DEF TwoLinesOf
  <2> DEFINE line1 == Line(counter + 1, c1, h1, "just")
             line2 == Line(counter + 2, c2, h2, "just")
             add == <<line1, line2>>
  <2>2. /\ DOMAIN add = {1, 2} /\ add[1] = line1 /\ add[2] = line2 /\ Len(add) = 2
        /\ line1.id = counter + 1 /\ line1.kind = "just" /\ line2.id = counter + 2 /\ line2.kind = "just"
    BY DEF Line
  <2>3. Emit(add, {counter + 1}) /\ counter + Len(add) < TAUTOLOGY
    BY <2>1
  <2> HIDE DEF add, line1, line2
  <2>4. DOMAIN add \subseteq Int /\ Rising(add) /\ Above(add, counter)
    BY <2>2 DEF Rising, Above
  <2>5. \A k \in DOMAIN add : add[k].id # TAUTOLOGY
    BY <2>2, <2>3
  <2>6. FileAfter(add, {counter + 1})
    BY <2>3, <2>4, <2>5, FileStep
  <2>7. /\ LogSpec!AddedIds(add) = {counter + 1, counter + 2}
        /\ AddedOf(add, "just") = {counter + 1, counter + 2} /\ \A x : x # "just" => AddedOf(add, x) = {}
    BY <2>2 DEF LogSpec!AddedIds, AddedOf
  <2>8. {j.jid} \ {TAUTOLOGY} = {counter + 2}
    BY <2>1, <2>2, <2>3
  <2>9. counter + 1 \notin DOMAIN db /\ counter + 2 \notin DOMAIN db
    OBVIOUS
  <2>10. \A x : KindOf(x) \subseteq DOMAIN db
    BY DEF KindOf
  <2>11. Filed("just", {counter + 2}, {})
    BY <2>6, <2>7, <2>9, <2>10 DEF FileAfter, Filed
  <2>12. emptyId = TAUTOLOGY
    BY <2>6 DEF FileAfter
  <2>13. Filed("just", {j.jid} \ {TAUTOLOGY}, {})
    BY <2>8, <2>11, Zenon
  <2> QED
    BY <2>1, <2>12, <2>13
<1> QED
  BY <1>1, <1>2, <1>3

\* A justification gets an owner, the cache entry, and the clause of the entry
\* it replaces is deferred.
LEMMA CacheOwns ==
    ASSUME TypeOK, FileInv, Going, DOMAIN db \subseteq 1..counter, NEW s \in Slots, NEW e,
           cache' = [cache EXCEPT ![s] = e], deferred' = deferred \cup Evicted(s),
           e.cid = TAUTOLOGY \/ (e.cid \in Nat /\ counter < e.cid)
    PROVE  /\ CachedClauses' \cup deferred' = CachedClauses \cup deferred \cup ({e.cid} \ {TAUTOLOGY})
           /\ CachedClauses' \cap deferred' = {} /\ CacheDistinct'
<1>1. /\ KindOf("just") = CachedClauses \cup deferred /\ CachedClauses \cap deferred = {} /\ CacheDistinct
      /\ KindOf("just") \subseteq DOMAIN db
  BY OwnersParts DEF KindOf
<1>2. \A u \in Slots : cache'[u] = IF u = s THEN e ELSE cache[u]
  BY DEF TypeOK
<1>3. \A u \in Slots : cache[u].cid # TAUTOLOGY => cache[u].cid \in CachedClauses
  BY DEF CachedClauses
<1>4. e.cid # TAUTOLOGY => e.cid \notin CachedClauses \cup deferred
  BY <1>1 DEF TypeOK
<1>5. Evicted(s) = {cache[s].cid} \ {TAUTOLOGY}
  BY DEF Evicted
<1>6. ASSUME NEW c PROVE c \in CachedClauses' <=> c # TAUTOLOGY /\ (c = e.cid \/ \E u \in Slots : u # s /\ c = cache[u].cid)
  BY <1>2 DEF CachedClauses
<1>7. ASSUME NEW c PROVE c \in CachedClauses <=> c # TAUTOLOGY /\ \E u \in Slots : c = cache[u].cid
  BY DEF CachedClauses
<1>8. ASSUME NEW c
      PROVE  c \in CachedClauses' \cup deferred' <=> c \in CachedClauses \cup deferred \cup ({e.cid} \ {TAUTOLOGY})
  BY <1>5, <1>6, <1>7
<1>9. ASSUME NEW c \in CachedClauses' PROVE c \notin deferred'
  <2>1. CASE c = e.cid
    BY <1>3, <1>4, <1>5, <1>6, <1>9, <2>1
  <2>2. ASSUME NEW u \in Slots, u # s, c = cache[u].cid PROVE c \notin deferred'
    <3>1. c # TAUTOLOGY /\ c \in CachedClauses
      BY <1>3, <1>6, <1>9, <2>2
    <3>2. c # cache[s].cid
      BY <1>1, <2>2, <3>1 DEF CacheDistinct
    <3> QED
      BY <1>1, <1>5, <3>1, <3>2
  <2> QED
    BY <1>6, <1>9, <2>1, <2>2
<1>10. CacheDistinct'
  <2>1. ASSUME NEW u \in Slots, NEW v \in Slots, u # v, cache'[u].cid = cache'[v].cid
        PROVE  cache'[u].cid = TAUTOLOGY
    <3>1. CASE u # s /\ v # s
      BY <1>1, <1>2, <2>1, <3>1 DEF CacheDistinct
    <3>2. CASE u = s
      BY <1>2, <1>3, <1>4, <2>1, <3>2
    <3>3. CASE v = s
      BY <1>2, <1>3, <1>4, <2>1, <3>3
    <3> QED
      BY <3>1, <3>2, <3>3
  <2> QED
    BY <2>1 DEF CacheDistinct
<1> QED
  BY <1>8, <1>9, <1>10

\* A step of the recursion: what it writes is cited from the nodes at hand and
\* from the pending results, and the justification is the cache entry's.
LEMMA JustifyFile ==
    ASSUME IInv, Running, OwnerInv, IdsFit, IInv', IdsFit', JustifyStep, pc' = "ret"
    PROVE  FileInv' /\ LogSpec!Extend
<1> DEFINE T == DOMAIN db \cup {TAUTOLOGY}
           j == JustOf
           new == {j.jid} \ {TAUTOLOGY}
<1>1. /\ FileInv /\ TypeOK /\ TableInv /\ ControlInv /\ RootsInv /\ (Going => PendingResults)
      /\ db = [i \in DOMAIN db |-> db[i]] /\ DOMAIN db \subseteq 1..counter /\ counter \in Nat
      /\ TAUTOLOGY \in Nat
  BY OwnerParts, FileFacts DEF IInv
<1>2. /\ stack # <<>> /\ pc = "made"
      /\ Emit(j.add, j.del) /\ counter' = counter + Len(j.add)
      /\ deferred' = deferred \cup Evicted(TopSlot)
      /\ cache' = [cache EXCEPT ![TopSlot] = TopEntry] /\ TopEntry.cid = j.jid
      /\ UNCHANGED <<node, handle, rc, job>>
  BY JustifyFacts DEF TopEntry
<1>3. Top \in Frames /\ Len(stack) \in DOMAIN stack /\ TopSlot \in Slots
  BY <1>1, <1>2, TopFrame, SlotType DEF TopSlot, Frames
<1>4. {Top.l, Top.r, Top.t} \subseteq Live /\ ret.root \in Live
  BY <1>1, <1>2, <1>3, SafeLive DEF RootsInv, Top
<1>5. emptyId = TAUTOLOGY => Going
  BY DEF Going, Running
<1>6. ASSUME Going PROVE NoLines(j) \/ OneLineOf(j, counter, T) \/ TwoLinesOf(j, counter, T)
  <2> DEFINE op == IF Top.op = "imp" THEN "imp" ELSE "and"
             res == IF Top.op = "aij" THEN Top.t ELSE ret.root
  <2>1. Justified \subseteq T /\ \A n \in Live, d \in DTypes : Dclause(node, n, d) \in T
    BY <1>6, OwnedIds
  <2>2. Top.low.cid \in T /\ Top.high.cid \in T
    BY <1>1, <1>3, <1>6, <2>1 DEF PendingResults, Top
  <2>3. \A n \in {Top.l, Top.r, res}, d \in DTypes : Dclause(node, n, d) \in T
    BY <1>4, <2>1
  <2>4. TAUTOLOGY \in T
    OBVIOUS
  <2> HIDE DEF T, op, res
  <2>5. \A h \in HintTags : Candidates(node, op, Top.l, Top.r, Top.level, Top.low, Top.high, res)[h].id \in T
    BY <2>2, <2>3, <2>4, CandidateIds
  <2>6. j = Justify(node, op, Top.l, Top.r, Top.level, Top.low, Top.high, res, counter)
    BY DEF JustOf, op, res
  <2> QED
    BY <1>1, <2>4, <2>5, <2>6, JustifyLines
<1> HIDE DEF j, new
<1>7. LogSpec!Extend
  <2>1. CASE emptyId = TAUTOLOGY
    BY <1>1, <1>2, <1>5, <1>6, <2>1, JustifyExtends
  <2>2. CASE emptyId # TAUTOLOGY
    <3>1. log' = LogSpec!Nothing /\ UNCHANGED db
      BY <1>2, <2>2 DEF Emit
    <3> QED
      BY <1>1, <3>1, ExtendQuiet
  <2> QED
    BY <2>1, <2>2
<1>8. CASE emptyId' # TAUTOLOGY
  <2>1. db' = [i \in DOMAIN db' |-> db'[i]]
    BY <1>1, <1>2, EmitMap
  <2>2. ~Going'
    BY <1>8 DEF Going
  <2> QED
    BY <1>7, <2>1, <2>2, FileEnded
<1>9. CASE emptyId' = TAUTOLOGY
  <2>1. emptyId = TAUTOLOGY
    BY <1>2, <1>9 DEF Emit
  <2>2. Going
    BY <1>5, <2>1
  <2>3. counter + Len(j.add) < TAUTOLOGY
    BY <1>2 DEF IdsFit
  <2>4. Filed("just", {j.jid} \ {TAUTOLOGY}, {}) /\ (j.jid = TAUTOLOGY \/ (j.jid \in Nat /\ counter < j.jid))
    BY <1>1, <1>2, <1>6, <1>9, <2>2, <2>3, JustifyFiled
  <2>5. Filed("just", new, {})
    BY <2>4 DEF new
  <2>6. /\ CachedClauses' \cup deferred' = CachedClauses \cup deferred \cup new
        /\ CachedClauses' \cap deferred' = {} /\ CacheDistinct'
    BY <1>1, <1>2, <1>3, <2>2, <2>4, CacheOwns DEF new
  <2>7. KindOf("unit") = DOMAIN rc /\ KindOf("just") = CachedClauses \cup deferred
    BY <1>1, <2>2, OwnersParts
  <2>8. KindOf("unit")' = DOMAIN rc' /\ KindOf("just")' = CachedClauses' \cup deferred'
    <3>1. KindOf("unit")' = (KindOf("unit") \ {}) \cup {} /\ KindOf("just")' = (KindOf("just") \ {}) \cup new
      BY <2>5 DEF Filed
    <3> QED
      BY <1>2, <2>6, <2>7, <3>1
  <2>9. SameNodes /\ \A g \in Held' : \E h \in Held : handle'[g] = handle[h]
    BY <1>1, <1>2, SameIfUnchanged DEF Held
  <2>10. {} \subseteq KindOf("unit") \cup KindOf("just")
    OBVIOUS
  <2> QED
    BY <1>1, <1>7, <2>2, <2>5, <2>6, <2>8, <2>9, <2>10, FileSame
<1> QED
  BY <1>8, <1>9

-----------------------------------------------------------------------------
(* A new node *)

\* The ids of its defining clauses.
LEMMA FreshDclause ==
    ASSUME IInv, Running, XvarInv, IdsFit, IdsFit', MakeFresh, NEW d \in DTypes
    PROVE  Dclause(node', ret'.root, d) = IF FreshTaut(d) THEN TAUTOLOGY ELSE counter + 1 + DefOffset(d)
<1> DEFINE n == ret'.root
           hid == node[mk.high].xvar
           lid == node[mk.low].xvar
<1>1. TypeOK /\ TableInv /\ RootsInv /\ ControlInv /\ pc = "makenode" /\ varcounter' = varcounter + 1
  BY DEF IInv, MakeFresh, MustBuild
<1>2. /\ n \in Inner /\ node'[n].low = mk.low /\ node'[n].high = mk.high /\ node'[n].dclause = counter + 1
  <2>1. node'[n] = [level |-> mk.level, low |-> mk.low, high |-> mk.high,
                    xvar |-> varcounter + 1, dclause |-> counter + 1, ref |-> 0] /\ n \in Inner
    BY <1>1, FreshFacts
  <2> QED
    BY <2>1
<1>3. mk.low \in Live /\ mk.high \in Live /\ mk.level \in 1..NumVars /\ ~(n < 2)
  BY <1>1, <1>2, NodeIdFacts DEF RootsInv, ControlInv
<1>4. /\ NumVars \in Nat /\ varcounter \in Nat /\ counter \in Nat /\ TAUTOLOGY \in Nat
      /\ NumVars <= varcounter /\ varcounter + 1 < TAUTOLOGY
      /\ node[0].xvar = -TAUTOLOGY /\ node[1].xvar = TAUTOLOGY
      /\ \A m \in Used : node[m].xvar \in Int /\ NumVars < node[m].xvar /\ node[m].xvar <= varcounter
      /\ \A m \in Live : /\ node[m].xvar = TAUTOLOGY <=> m = 1
                         /\ node[m].xvar = -TAUTOLOGY <=> m = 0
                         /\ node[m].xvar \in Int
  <2>1. varcounter + 1 < TAUTOLOGY
    BY <1>1 DEF IdsFit
  <2> QED
    BY <1>1, <2>1, XvarFacts
<1>5. ASSUME NEW m \in Live
      PROVE  node[m].xvar \in {TAUTOLOGY, -TAUTOLOGY} \/ (NumVars < node[m].xvar /\ node[m].xvar < varcounter + 1)
  <2>1. CASE m \in Used
    BY <1>4, <2>1
  <2>2. CASE m \in Terminals
    BY <1>4, <2>2 DEF Terminals
  <2> QED
    BY <2>1, <2>2 DEF Live
<1>6. /\ hid \in Int /\ (hid \in {TAUTOLOGY, -TAUTOLOGY} \/ (NumVars < hid /\ hid < varcounter + 1))
      /\ lid \in Int /\ (lid \in {TAUTOLOGY, -TAUTOLOGY} \/ (NumVars < lid /\ lid < varcounter + 1))
      /\ hid = TAUTOLOGY <=> mk.high = 1
      /\ hid = -TAUTOLOGY <=> mk.high = 0
      /\ lid = TAUTOLOGY <=> mk.low = 1
      /\ lid = -TAUTOLOGY <=> mk.low = 0
  BY <1>3, <1>4, <1>5
<1> HIDE DEF hid, lid
<1>7. CleanClause(DefiningClause(d, varcounter + 1, mk.level, hid, lid)) = TautClause
         <=> \/ d = "HU" /\ hid = -TAUTOLOGY
             \/ d = "LU" /\ lid = -TAUTOLOGY
             \/ d = "HD" /\ hid = TAUTOLOGY
             \/ d = "LD" /\ lid = TAUTOLOGY
  BY <1>3, <1>4, <1>6, CleanDef
<1>8. FreshTaut(d) <=> \/ d = "HU" /\ mk.high = 0
                       \/ d = "LU" /\ mk.low = 0
                       \/ d = "HD" /\ mk.high = 1
                       \/ d = "LD" /\ mk.low = 1
  BY <1>6, <1>7 DEF FreshTaut, FreshClause, hid, lid
<1>9. CASE FreshTaut(d)
  BY <1>2, <1>8, <1>9 DEF Dclause
<1>10. CASE ~FreshTaut(d)
  BY <1>2, <1>3, <1>8, <1>10 DEF Dclause
<1> QED
  BY <1>9, <1>10

\* The nodes that were there stay as they were.
LEMMA FreshKept ==
    ASSUME IInv, Running, MakeFresh
    PROVE  /\ KeptNodes(Used) /\ Used' = Used \cup {ret'.root} /\ ret'.root \notin Live
           /\ \A m \in Live : node'[m] = node[m]
<1>1. TypeOK /\ TableInv /\ RootsInv /\ ControlInv
  BY DEF IInv
<1>2. /\ Used' = Used \cup {ret'.root} /\ ret'.root \in Inner /\ ret'.root \notin Used
      /\ \A m \in NodeIds : m # ret'.root => node'[m] = node[m]
  BY <1>1, FreshFacts
<1>3. ret'.root \notin Live
  BY <1>2 DEF Live, Inner
<1>4. \A m \in Live : node'[m] = node[m]
  BY <1>2, <1>3, NodeIdFacts
<1>5. KeptNodes(Used)
  <2>1. ASSUME NEW n \in Used
        PROVE  n \in Live /\ node[n].low \in Live /\ node[n].high \in Live
    BY <1>1 DEF TableInv, Live
  <2> QED
    BY <1>4, <2>1 DEF KeptNodes
<1> QED
  BY <1>2, <1>3, <1>4, <1>5

\* The lines that define it cite the ones before them.
LEMMA FreshExtends ==
    ASSUME IInv, Running, FileInv, IdsFit, MakeFresh
    PROVE  LogSpec!Extend
<1>1. /\ db = [i \in DOMAIN db |-> db[i]] /\ DOMAIN db \subseteq 1..counter
      /\ counter \in Nat /\ TAUTOLOGY \in Nat
  BY FileFacts
<1>2. Emit(FreshAdd, {})
  BY FreshEmits
<1>3. /\ Rising(FreshAdd) /\ DOMAIN FreshAdd \subseteq Int
      /\ \A k \in DOMAIN FreshAdd : \E d \in DTypes : FreshAdd[k] = FreshLine(d) /\ ~FreshTaut(d)
      /\ \A d \in DTypes : ~FreshTaut(d) => \E k \in DOMAIN FreshAdd : FreshAdd[k] = FreshLine(d)
  BY <1>1, FreshAddFacts
<1>4. \A d \in DTypes : FreshLine(d).id = counter + 1 + DefOffset(d) /\ DefOffset(d) \in 0..3
  BY DefOffsets DEF FreshLine, Line, DTypes
<1>5. Above(FreshAdd, counter)
  <2>1. ASSUME NEW k \in DOMAIN FreshAdd PROVE FreshAdd[k].id \in Nat /\ counter < FreshAdd[k].id
    BY <1>1, <1>3, <1>4
  <2> QED
    BY <2>1 DEF Above
<1>6. ASSUME NEW k \in DOMAIN FreshAdd, NEW c \in LogSpec!Cited(FreshAdd[k])
      PROVE  c \in LogSpec!AddedIds(FreshAdd) /\ c < FreshAdd[k].id
  <2>1. PICK d \in DTypes : FreshAdd[k] = FreshLine(d)
    BY <1>3
  <2>2. PICK i \in DOMAIN FreshLine(d).hints :
           c = IF FreshLine(d).hints[i] < 0 THEN -FreshLine(d).hints[i] ELSE FreshLine(d).hints[i]
    BY <1>6, <2>1 DEF LogSpec!Cited
  <2>3. c # TAUTOLOGY
    BY <1>6 DEF LogSpec!Cited
  <2>4. FreshLine(d).hints = IF d \in {"HU", "LU"} THEN <<>> ELSE FreshUp
    BY DEF FreshLine, Line
  <2>5. d \in {"HD", "LD"} /\ FreshLine(d).hints = FreshUp
    BY <2>2, <2>4 DEF DTypes
  <2>6. GenId(FreshClause("HU"), 1) \in Nat /\ GenId(FreshClause("LU"), 2) \in Nat
    BY <1>1, GenIdType
  <2>7. c = GenId(FreshClause("HU"), 1) \/ c = GenId(FreshClause("LU"), 2)
    <3> DEFINE a == GenId(FreshClause("HU"), 1)
               b == GenId(FreshClause("LU"), 2)
               hints == FreshLine(d).hints
    <3>1. hints = <<-a, -b>>
      BY <2>5 DEF FreshUp
    <3>2. a \in Nat /\ b \in Nat /\ i \in DOMAIN hints /\ c = IF hints[i] < 0 THEN -hints[i] ELSE hints[i]
      BY <2>2, <2>6
    <3> HIDE DEF a, b, hints
    <3>3. (i = 1 /\ hints[i] = -a) \/ (i = 2 /\ hints[i] = -b)
      BY <3>1, <3>2
    <3>4. c = a \/ c = b
      BY <3>2, <3>3
    <3> QED
      BY <3>4 DEF a, b
  <2>8. \/ ~FreshTaut("HU") /\ c = counter + 1 + DefOffset("HU")
        \/ ~FreshTaut("LU") /\ c = counter + 1 + DefOffset("LU")
    BY <1>1, <2>3, <2>7, DefOffsets DEF GenId, FreshTaut
  <2>9. c \in LogSpec!AddedIds(FreshAdd)
    <3>1. ASSUME NEW e \in DTypes, ~FreshTaut(e), c = counter + 1 + DefOffset(e)
          PROVE  c \in LogSpec!AddedIds(FreshAdd)
      BY <1>3, <1>4, <3>1 DEF LogSpec!AddedIds
    <3>2. "HU" \in DTypes /\ "LU" \in DTypes
      BY DEF DTypes
    <3> QED
      BY <2>8, <3>1, <3>2
  <2>10. c < FreshAdd[k].id
    BY <1>1, <1>4, <2>1, <2>5, <2>8, DefOffsets DEF DTypes
  <2> QED
    BY <2>9, <2>10
<1> QED
  BY <1>1, <1>2, <1>3, <1>5, <1>6, ExtendStep

\* Its clauses are in the file, under ids that no other clause has.
FreshDefs == Dclauses(node', ret'.root)
LEMMA FreshFiled ==
    ASSUME IInv, Running, FileInv, XvarInv, IdsFit, IdsFit', MakeFresh, emptyId' = TAUTOLOGY
    PROVE  /\ emptyId = TAUTOLOGY /\ Filed("def", FreshDefs, {})
           /\ \A d \in DTypes : ~FreshTaut(d) =>
                 /\ counter + 1 + DefOffset(d) \in DOMAIN db'
                 /\ db'[counter + 1 + DefOffset(d)].lits = CleanClause(FreshClause(d))
<1>1. /\ db = [i \in DOMAIN db |-> db[i]] /\ DOMAIN db \subseteq 1..counter
      /\ counter \in Nat /\ TAUTOLOGY \in Nat
  BY FileFacts
<1>2. Emit(FreshAdd, {})
  BY FreshEmits
<1>3. /\ Rising(FreshAdd) /\ DOMAIN FreshAdd \subseteq Int
      /\ \A k \in DOMAIN FreshAdd : \E d \in DTypes : FreshAdd[k] = FreshLine(d) /\ ~FreshTaut(d)
      /\ \A d \in DTypes : ~FreshTaut(d) => \E k \in DOMAIN FreshAdd : FreshAdd[k] = FreshLine(d)
  BY <1>1, FreshAddFacts
<1>4. \A d \in DTypes : /\ FreshLine(d).id = counter + 1 + DefOffset(d) /\ DefOffset(d) \in 0..3
                        /\ FreshLine(d).kind = "def" /\ FreshLine(d).lits = CleanClause(FreshClause(d))
  BY DefOffsets DEF FreshLine, Line, DTypes
<1>5. counter + 4 < TAUTOLOGY
  BY DEF MakeFresh, IdsFit
<1>6. \A k \in DOMAIN FreshAdd : /\ FreshAdd[k].id \in (counter + 1)..(counter + 4) /\ FreshAdd[k].kind = "def"
                                 /\ FreshAdd[k].id # TAUTOLOGY
  BY <1>1, <1>3, <1>4, <1>5
<1>7. Above(FreshAdd, counter)
  BY <1>1, <1>6 DEF Above
<1>8. FileAfter(FreshAdd, {})
  BY <1>1, <1>2, <1>3, <1>6, <1>7, FileStep
<1>9. LogSpec!AddedIds(FreshAdd) = FreshDefs
  <2>1. ASSUME NEW c \in LogSpec!AddedIds(FreshAdd) PROVE c \in FreshDefs
    <3>1. PICK k \in DOMAIN FreshAdd : FreshAdd[k].id = c
      BY <2>1 DEF LogSpec!AddedIds
    <3>2. PICK d \in DTypes : FreshAdd[k] = FreshLine(d) /\ ~FreshTaut(d)
      BY <1>3
    <3>3. c = Dclause(node', ret'.root, d) /\ c # TAUTOLOGY
      BY <1>4, <1>6, <3>1, <3>2, FreshDclause
    <3> QED
      BY <3>3 DEF FreshDefs, Dclauses, DTypes
  <2>2. ASSUME NEW c \in FreshDefs PROVE c \in LogSpec!AddedIds(FreshAdd)
    <3>1. PICK d \in DTypes : c = Dclause(node', ret'.root, d) /\ c # TAUTOLOGY
      BY <2>2 DEF FreshDefs, Dclauses, DTypes
    <3>2. ~FreshTaut(d) /\ c = counter + 1 + DefOffset(d)
      BY <3>1, FreshDclause
    <3>3. PICK k \in DOMAIN FreshAdd : FreshAdd[k] = FreshLine(d)
      BY <1>3, <3>2
    <3> QED
      BY <1>4, <3>2, <3>3 DEF LogSpec!AddedIds
  <2> QED
    BY <2>1, <2>2
<1>10. AddedOf(FreshAdd, "def") = FreshDefs /\ \A x : x # "def" => AddedOf(FreshAdd, x) = {}
  BY <1>6, <1>9 DEF AddedOf, LogSpec!AddedIds
<1>11. FreshDefs \cap DOMAIN db = {}
  BY <1>1, <1>6, <1>9 DEF LogSpec!AddedIds
<1> HIDE DEF FreshDefs
<1>12. Filed("def", FreshDefs, {})
  BY <1>8, <1>9, <1>10, <1>11 DEF FileAfter, Filed
<1>13. ASSUME NEW d \in DTypes, ~FreshTaut(d)
       PROVE  /\ counter + 1 + DefOffset(d) \in DOMAIN db'
              /\ db'[counter + 1 + DefOffset(d)].lits = CleanClause(FreshClause(d))
  <2>1. PICK k \in DOMAIN FreshAdd : FreshAdd[k] = FreshLine(d)
    BY <1>3, <1>13
  <2>2. /\ FreshAdd[k].id \in DOMAIN db'
        /\ db'[FreshAdd[k].id] = [lits |-> FreshAdd[k].lits, kind |-> FreshAdd[k].kind]
    BY <1>8 DEF FileAfter, LogSpec!AddedIds
  <2> QED
    BY <1>4, <2>1, <2>2
<1> QED
  BY <1>8, <1>12, <1>13 DEF FileAfter

LEMMA FreshDefLive ==
    ASSUME IInv, Running, FileInv, XvarInv, IdsFit, IdsFit', MakeFresh, emptyId' = TAUTOLOGY,
           NEW n, n = ret'.root, NEW d \in DTypes
    PROVE  DefLive(n, d)'
<1>1. TypeOK /\ TableInv /\ RootsInv /\ ControlInv /\ pc = "makenode"
  BY DEF IInv, MakeFresh, MustBuild
<1>2. node'[n] = [level |-> mk.level, low |-> mk.low, high |-> mk.high,
                  xvar |-> varcounter + 1, dclause |-> counter + 1, ref |-> 0]
  BY <1>1, FreshFacts
<1>3. mk.low \in Live /\ mk.high \in Live
  BY <1>1 DEF RootsInv
<1>4. /\ node'[n].level = mk.level /\ node'[n].xvar = varcounter + 1
      /\ node'[node'[n].low] = node[mk.low] /\ node'[node'[n].high] = node[mk.high]
  BY <1>2, <1>3, FreshKept
<1>5. CleanClause(DefiningClause(d, node'[n].xvar, node'[n].level, node'[node'[n].high].xvar,
                                 node'[node'[n].low].xvar)) = CleanClause(FreshClause(d))
  BY <1>4 DEF FreshClause
<1>6. Dclause(node', n, d) = IF FreshTaut(d) THEN TAUTOLOGY ELSE counter + 1 + DefOffset(d)
  BY FreshDclause
<1>7. ~FreshTaut(d) => /\ counter + 1 + DefOffset(d) \in DOMAIN db'
                       /\ db'[counter + 1 + DefOffset(d)].lits = CleanClause(FreshClause(d))
  BY FreshFiled
<1>8. Dclause(node', n, d) # TAUTOLOGY =>
         /\ Dclause(node', n, d) \in DOMAIN db'
         /\ db'[Dclause(node', n, d)].lits =
              CleanClause(DefiningClause(d, node'[n].xvar, node'[n].level,
                            node'[node'[n].high].xvar, node'[node'[n].low].xvar))
  BY <1>5, <1>6, <1>7
<1> QED
  BY <1>8 DEF DefLive

\* A new node owns its defining clauses, and no other clause changes hands.
LEMMA MakeFreshFile ==
    ASSUME IInv, Running, OwnerInv, IdsFit, IInv', IdsFit', MakeFresh
    PROVE  FileInv' /\ LogSpec!Extend
<1> DEFINE new == ret'.root
<1>1. /\ FileInv /\ XvarInv /\ TypeOK /\ RootsInv /\ db = [i \in DOMAIN db |-> db[i]]
      /\ \A x : KindOf(x) \subseteq DOMAIN db
  BY OwnerParts, FileFacts DEF IInv
<1>2. /\ Emit(FreshAdd, {}) /\ UNCHANGED <<cache, deferred, handle, rc>> /\ LogSpec!Extend
  BY <1>1, FreshEmits, FreshExtends DEF MakeFresh
<1>3. CASE emptyId' # TAUTOLOGY
  <2>1. db' = [i \in DOMAIN db' |-> db'[i]]
    BY <1>1, <1>2, EmitMap
  <2>2. ~Going'
    BY <1>3 DEF Going
  <2> QED
    BY <1>2, <2>1, <2>2, FileEnded
<1>4. CASE emptyId' = TAUTOLOGY
  <2>1. emptyId = TAUTOLOGY /\ Filed("def", FreshDefs, {})
    BY <1>1, <1>4, FreshFiled
  <2>2. Going
    BY <2>1 DEF Going, Running
  <2>3. /\ db' = [i \in DOMAIN db' |-> db'[i]] /\ DOMAIN db' = DOMAIN db \cup FreshDefs
        /\ \A i \in DOMAIN db : db'[i] = db[i]
        /\ FreshDefs \cap DOMAIN db = {}
        /\ KindOf("def")' = KindOf("def") \cup FreshDefs
        /\ \A x : x # "def" => KindOf(x)' = KindOf(x)
    BY <2>1 DEF Filed
  <2>4. /\ KeptNodes(Used) /\ Used' = Used \cup {new} /\ new \notin Live
        /\ \A m \in Live : node'[m] = node[m]
    BY FreshKept
  <2>5. /\ KindOf("input") = DOMAIN InputClauses /\ \A i \in DOMAIN db : db[i].kind \in Kinds
        /\ \A k, m \in Used : k # m => Dclauses(node, k) \cap Dclauses(node, m) = {}
        /\ \A h \in Held : handle[h].root # 0
        /\ \A h \in Held : UnitLive(h)
        /\ \A m \in Used, d \in DTypes : DefLive(m, d)
        /\ KindOf("def") = UNION {Dclauses(node, m) : m \in Used}
        /\ KindOf("unit") = DOMAIN rc
        /\ KindOf("just") = CachedClauses \cup deferred /\ CachedClauses \cap deferred = {}
        /\ CacheDistinct
    BY <1>1, <2>2, UnitsLiveParts, OwnersParts DEF FileInv, KindsInv, Going
  <2>6. \A m \in Used : Dclauses(node', m) = Dclauses(node, m) /\ Dclauses(node, m) \subseteq DOMAIN db
    <3>1. \A m \in Used : Dclauses(node', m) = Dclauses(node, m)
      BY <2>4, DclausesKept
    <3> QED
      BY <1>1, <2>5, <3>1
  <2>7. Dclauses(node', new) = FreshDefs
    BY DEF FreshDefs
  <2> HIDE DEF new, FreshDefs
  <2>8. KindsInv'
    <3>1. \A i \in DOMAIN db' : db'[i].kind \in Kinds
      <4>1. ASSUME NEW i \in FreshDefs PROVE db'[i].kind \in Kinds
        <5>1. i \in KindOf("def")'
          BY <2>3
        <5> QED
          BY <5>1 DEF KindOf, Kinds
      <4> QED
        BY <2>3, <2>5, <4>1
    <3>2. ASSUME NEW k \in Used', NEW m \in Used', k # m
          PROVE  Dclauses(node', k) \cap Dclauses(node', m) = {}
      <4>1. CASE k \in Used /\ m \in Used
        BY <2>5, <2>6, <3>2, <4>1
      <4>2. CASE k = new /\ m \in Used
        BY <2>3, <2>6, <2>7, <4>2
      <4>3. CASE k \in Used /\ m = new
        BY <2>3, <2>6, <2>7, <4>3
      <4> QED
        BY <2>4, <3>2, <4>1, <4>2, <4>3
    <3>3. KindOf("input")' = DOMAIN InputClauses
      BY <2>3, <2>5
    <3>4. \A h \in Held' : handle'[h].root # 0
      BY <1>2, <2>5 DEF Held
    <3> QED
      BY <2>3, <3>1, <3>2, <3>3, <3>4 DEF KindsInv
  <2>9. OneOwner'
    <3>1. KindOf("def")' = UNION {Dclauses(node', m) : m \in Used'}
      BY <2>3, <2>4, <2>5, <2>6, <2>7
    <3>2. KindOf("unit")' = DOMAIN rc' /\ KindOf("just")' = CachedClauses \cup deferred
      BY <1>2, <2>3, <2>5
    <3>3. CachedClauses' = CachedClauses /\ CacheDistinct'
      BY <1>2, <2>5 DEF CachedClauses, CacheDistinct
    <3> QED
      BY <1>2, <2>5, <3>1, <3>2, <3>3 DEF OneOwner, CacheDistinct
  <2>10. UnitsLive'
    <3>1. \A i \in DOMAIN db \cap DOMAIN db' : db'[i] = db[i]
      BY <2>3
    <3>2. ASSUME NEW h \in Held' PROVE UnitLive(h)'
      <4>1. h \in Held /\ handle'[h] = handle[h] /\ UnitLive(h)
        BY <1>2, <2>5 DEF Held
      <4>2. node'[handle[h].root].xvar = node[handle[h].root].xvar
        BY <1>1, <2>4, <4>1 DEF RootsInv
      <4>3. RcInv' /\ DOMAIN rc' \subseteq DOMAIN db'
        BY <1>1, <1>2, <2>3, <2>5 DEF IInv
      <4> QED
        BY <3>1, <4>1, <4>2, <4>3, UnitsKept
    <3>3. ASSUME NEW m \in Used', NEW d \in DTypes PROVE DefLive(m, d)'
      <4>1. CASE m \in Used
        <5>1. Dclauses(node, m) \subseteq DOMAIN db' /\ DefLive(m, d)
          BY <2>3, <2>5, <2>6, <4>1
        <5> QED
          BY <2>4, <3>1, <4>1, <5>1, DefsKept
      <4>2. CASE m = new
        BY <1>1, <1>4, <4>2, FreshDefLive DEF new
      <4> QED
        BY <2>4, <4>1, <4>2
    <3> QED
      BY <3>2, <3>3, UnitsLiveNext
  <2> QED
    BY <1>2, <2>8, <2>9, <2>10 DEF FileInv
<1> QED
  BY <1>3, <1>4

-----------------------------------------------------------------------------
(* Every step *)

LEMMA OnlyDone ==
    ASSUME IInv, Internal \/ Client, ~Done
    PROVE  pc' # "done"
<1>1. CASE ~Writes
  BY <1>1, QuietSteps DEF SameOwners
<1>2. CASE MakeFresh
  BY <1>2 DEF MakeFresh
<1>3. CASE MakeGbc
  BY <1>3 DEF MakeGbc
<1>4. CASE JustifyStep /\ pc' = "ret"
  BY <1>4
<1>5. CASE FinishApply
  BY <1>5 DEF FinishApply, Return
<1>6. CASE ClauseWalked
  BY <1>6 DEF ClauseWalked, Return
<1>7. CASE CheckWalked
  BY <1>7 DEF CheckWalked, Return
<1>8. ASSUME NEW h \in Owned, Delref(h) PROVE pc' # "done"
  BY <1>8 DEF Delref
<1> QED
  BY <1>1, <1>2, <1>3, <1>4, <1>5, <1>6, <1>7, <1>8 DEF Writes

LEMMA EveryFile ==
    ASSUME IInv, OwnerInv, IdsFit, IInv', IdsFit', Internal \/ Client
    PROVE  FileInv' /\ NothingLeaks' /\ LogSpec!Extend
<1>1. Running /\ FileInv
  BY StillRunning, OwnerParts
<1>2. CASE Done
  BY <1>1, <1>2, DoneFile
<1>3. CASE ~Done
  <2>1. NothingLeaks'
    BY <1>3, OnlyDone DEF NothingLeaks
  <2>2. FileInv' /\ LogSpec!Extend
    <3>1. CASE ~Writes
      BY <1>1, <3>1, QuietSteps, QuietFile
    <3>2. CASE MakeFresh
      BY <1>1, <3>2, MakeFreshFile
    <3>3. CASE MakeGbc /\ Ordered
      BY <1>1, <3>3, CollectFile
    <3>4. CASE JustifyStep /\ pc' = "ret"
      BY <1>1, <3>4, JustifyFile
    <3>5. CASE FinishApply
      BY <1>1, <3>5, FinishApplyFile
    <3>6. CASE ClauseWalked
      BY <1>1, <3>6, ClauseWalkedFile
    <3>7. CASE CheckWalked
      BY <1>1, <3>7, CheckWalkedFile
    <3>8. ASSUME NEW h \in Owned, Delref(h) PROVE FileInv' /\ LogSpec!Extend
      BY <1>1, <3>8, DelrefFile
    <3> QED
      BY <1>3, <3>1, <3>2, <3>3, <3>4, <3>5, <3>6, <3>7, <3>8 DEF Writes
  <2> QED
    BY <2>1, <2>2
<1> QED
  BY <1>2, <1>3

LEMMA OwnerStep ==
    ASSUME IInv, OwnerInv, IdsFit, IInv', IdsFit', Internal \/ Client
    PROVE  OwnerInv' /\ LogSpec!Extend
<1>1. /\ Running /\ XvarInv /\ BuildInv /\ (Going => PendingJob /\ PendingResults)
  BY StillRunning, OwnerParts DEF OwnerInv
<1>2. FileInv' /\ NothingLeaks' /\ LogSpec!Extend
  BY EveryFile
<1>3. XvarInv'
  BY <1>1, XvarStep
<1>4. Running' => BuildInv'
  BY <1>1, BuildStep
<1>5. ASSUME Running' PROVE PendingInv'
  <2>1. ASSUME Going' PROVE PendingJob' /\ PendingResults'
    <3>1. emptyId' = TAUTOLOGY
      BY <2>1 DEF Going
    <3>2. Going
      BY <3>1, GoingBefore
    <3> QED
      BY <1>1, <1>5, <3>1, <3>2, ResultsStep, JobStep
  <2> QED
    BY <2>1 DEF PendingInv, PendingJob, PendingResults
<1> QED
  BY <1>2, <1>3, <1>4, <1>5 DEF OwnerInv, FileInv

LEMMA OwnerStutter ==
    ASSUME OwnerInv, UNCHANGED vars
    PROVE  OwnerInv'
<1>1. UNCHANGED <<node, cache, deferred, counter, varcounter, emptyId, db, handle, rc, pc, job, mk,
                  ret, stack>>
  BY DEF vars
<1>2. Used' = Used /\ Held' = Held /\ Going' = Going /\ Running' = Running /\ CachedClauses' = CachedClauses
      /\ Justified' = Justified /\ \A x : KindOf(x)' = KindOf(x)
  BY <1>1 DEF Used, Held, Going, Running, CachedClauses, Justified, KindOf
<1>3. XvarInv' /\ KindsInv'
  BY <1>1, <1>2 DEF OwnerInv, XvarInv, KindsInv
<1>4. OneOwner' /\ NothingLeaks'
  BY <1>1, <1>2 DEF OwnerInv, OneOwner, NothingLeaks
<1>5. UnitsLive'
  BY <1>1, <1>2 DEF OwnerInv, UnitsLive
<1>6. Running' => BuildInv' /\ PendingInv'
  BY <1>1, <1>2 DEF OwnerInv, BuildInv, PendingInv
<1> QED
  BY <1>3, <1>4, <1>5, <1>6 DEF OwnerInv

LEMMA OwnerInit ==
    ASSUME Init
    PROVE  OwnerInv /\ LogSpec!Init
<1>1. Used = {} /\ Held = {}
  BY NodeIdFacts DEF Init, Used, Inner, Terminals, FreeNode, Held, NoTbdd
<1>2. /\ varcounter = NumVars /\ NumVars \in Nat /\ deferred = {} /\ DOMAIN rc = {} /\ pc = "setvarnum"
      /\ job = NoJob /\ stack = <<>> /\ handle[Tmp].root = -1
  BY SizeAssumption, TmpFree DEF Init, NoTbdd
<1>3. /\ DOMAIN db = DOMAIN InputClauses /\ db = [i \in DOMAIN db |-> db[i]]
      /\ \A i \in DOMAIN db : db[i].kind = "input"
  BY DEF Init, LogSpec!Init
<1>4. KindOf("input") = DOMAIN InputClauses /\ KindOf("def") = {} /\ KindOf("unit") = {} /\ KindOf("just") = {}
  BY <1>3 DEF KindOf
<1>5. CachedClauses = {} /\ \A s \in Slots : cache[s].cid = TAUTOLOGY
  BY DEF Init, NoEntry, CachedClauses
<1>6. XvarInv /\ KindsInv
  BY <1>1, <1>2, <1>3, <1>4 DEF XvarInv, KindsInv, Kinds
<1>7. OneOwner
  BY <1>1, <1>2, <1>4, <1>5 DEF OneOwner
<1>8. NothingLeaks /\ UnitsLive
  BY <1>1, <1>2 DEF NothingLeaks, UnitsLive
<1>9. BuildInv /\ PendingInv
  BY <1>2 DEF BuildInv, BuildKinds, PendingInv, NoJob, RangeOf
<1>10. LogSpec!Init
  BY DEF Init
<1> QED
  BY <1>6, <1>7, <1>8, <1>9, <1>10 DEF OwnerInv

-----------------------------------------------------------------------------
(* The theorems *)

\* As long as the ids fit, every clause of the proof file has one owner, and
\* what an operation is going to cite or to delete is there.
THEOREM OwnersKept == Spec /\ []IdsFit => []OwnerInv
<1>1. Init => OwnerInv
  BY OwnerInit
<1>2. IInv /\ IInv' /\ IdsFit /\ IdsFit' /\ OwnerInv /\ [Next]_vars => OwnerInv'
  <2>1. ASSUME IInv, IInv', IdsFit, IdsFit', OwnerInv, Internal \/ Client PROVE OwnerInv'
    BY <2>1, OwnerStep
  <2>2. ASSUME OwnerInv, Stopped \/ UNCHANGED vars PROVE OwnerInv'
    BY <2>2, OwnerStutter DEF Stopped
  <2> QED
    BY <2>1, <2>2 DEF Next
<1> QED
  BY <1>1, <1>2, Inductive, PTL DEF Spec

\* Every clause of the file is deleted once, by its one owner.
THEOREM ClausesOwned == Spec /\ []IdsFit => []OneOwner
<1>1. OwnerInv => OneOwner
  BY DEF OwnerInv
<1> QED
  BY <1>1, OwnersKept, PTL

\* tbdd_done leaves the clauses of the input and of the client, and no other.
THEOREM NothingIsLeaked == Spec /\ []IdsFit => []NothingLeaks
<1>1. OwnerInv => NothingLeaks
  BY DEF OwnerInv
<1> QED
  BY <1>1, OwnersKept, PTL

\* What the client holds has its unit clause and its defining clauses.
THEOREM UnitsAreLive == Spec /\ []IdsFit => []UnitsLive
<1>1. OwnerInv => UnitsLive
  BY DEF OwnerInv
<1> QED
  BY <1>1, OwnersKept, PTL

\* The package writes a file that a reader of LRAT can follow: every step of
\* TbddKernel adds clauses with new ids, which cite clauses that are there, and
\* deletes clauses that are there, so that it implements ProofLog.
THEOREM FileReadsAsProof == Spec /\ []IdsFit => ReadsAsProof
<1>1. Init => LogSpec!Init
  BY OwnerInit
<1>2. IInv /\ IInv' /\ IdsFit /\ IdsFit' /\ OwnerInv /\ [Next]_vars => [LogSpec!Extend]_<<db, log>>
  <2>1. ASSUME IInv, IInv', IdsFit, IdsFit', OwnerInv, Internal \/ Client PROVE LogSpec!Extend
    BY <2>1, OwnerStep
  <2>2. ASSUME Stopped \/ UNCHANGED vars PROVE UNCHANGED <<db, log>>
    BY <2>2 DEF Stopped, vars
  <2> QED
    BY <2>1, <2>2 DEF Next
<1> QED
  BY <1>1, <1>2, Inductive, OwnersKept, PTL DEF Spec, ReadsAsProof, LogSpec!Spec
=============================================================================
