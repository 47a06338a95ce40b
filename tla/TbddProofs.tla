----------------------------- MODULE TbddProofs -----------------------------
(***************************************************************************)
(* The inductive invariant IInv holds of every run.  Every step keeps      *)
(* RootsInv (what is going to be read is in the table, and what is read    *)
(* after a call of bdd_makenode is kept by every collection) and the       *)
(* reference counts of the nodes.  Then the unique table stays reduced,    *)
(* ordered and free of duplicates, and the recursion of the apply          *)
(* operations never outgrows bddrefstack.                                  *)
(***************************************************************************)
EXTENDS TbddTypes

USE DEF Quiet, kernelVars

\* The parts of RootsInv.
HeldPart  == \A h \in Held : handle[h].root \in Live
CachePart == \A s \in Slots : cache[s].a # -1 => {cache[s].a, cache[s].b, cache[s].root} \subseteq Live
LocalPart == /\ {call.l, call.r, call.t, mk.low, mk.high, job.r, job.at} \subseteq Live
             /\ pc \in {"made", "ret"} => ret.root \in Live
SafePart  == /\ pc \in ApplyPcs => {call.l, call.r, call.t, job.r} \subseteq Safe
             /\ \A i \in DOMAIN stack : {stack[i].l, stack[i].r, stack[i].t} \subseteq Safe
ChildPart == pc \in {"makenode", "grow"} =>
                {mk.low, mk.high} \subseteq Terminals \cup RangeOf(refstack) \cup Referenced

\* The parts of RootsInv, one by one.
LEMMA RootsParts ==
    RootsInv <=> /\ HeldPart /\ CachePart /\ RangeOf(refstack) \subseteq Live
                 /\ LocalPart /\ SafePart /\ ChildPart
BY DEF RootsInv, HeldPart, CachePart, LocalPart, SafePart, ChildPart

\* INCREF makes nothing unsafe, and its node safe.
LEMMA IncRefGrows ==
    ASSUME TypeOK, TableInv, NEW n \in NodeIds, node' = IncRef(node, n)
    PROVE  /\ Used' = Used /\ Live' = Live /\ Safe \subseteq Safe' /\ Referenced \subseteq Referenced'
           /\ n \in Live => n \in Terminals \cup Referenced' /\ n \in Safe'
<1>1. SameNodes /\ MaxRef \in Nat \ {0} /\ node \in [NodeIds -> Nodes]
  BY IncRefSame, SizeAssumption DEF TypeOK
<1>2. Used' = Used /\ Live' = Live
  BY <1>1, SameTable
<1>3. /\ \A m \in NodeIds : m # n \/ m < 2 => node'[m] = node[m]
      /\ n \in Inner => node'[n].ref = IF node[n].ref = MaxRef THEN MaxRef ELSE node[n].ref + 1
  BY <1>1, IncRefProps
<1>4. node[n].ref \in Nat
  BY <1>1 DEF Nodes
<1>5. n \in Used => n \in Referenced'
  BY <1>1, <1>2, <1>3, <1>4, NodeIdFacts DEF Referenced
<1>6. Referenced \subseteq Referenced'
  BY <1>2, <1>3, <1>5, NodeIdFacts DEF Referenced
<1>7. Safe \subseteq Safe'
  BY <1>1, <1>6, SameShape DEF SameNodes
<1>8. Terminals \cup Referenced' \subseteq Safe'
  <2>1. (Referenced \cap Used \subseteq Reach(Referenced))' /\ Referenced' \subseteq Used'
    BY DEF Reach, Referenced
  <2> QED
    BY <2>1 DEF Safe
<1> QED
  BY <1>2, <1>5, <1>6, <1>7, <1>8 DEF Live

\* Pinning the node of a variable makes nothing unsafe.
LEMMA PinGrows ==
    ASSUME TypeOK, TableInv, VarMade
    PROVE  Used' = Used /\ Live' = Live /\ Safe \subseteq Safe' /\ Referenced \subseteq Referenced'
<1>1. /\ SameNodes /\ (ret.root \in Inner => node'[ret.root].ref = MaxRef)
      /\ \A m \in NodeIds : m # ret.root => node'[m] = node[m]
      /\ MaxRef \in Nat \ {0}
  BY PinSame, SizeAssumption
<1>2. Used' = Used /\ Live' = Live
  BY <1>1, SameTable
<1>3. ASSUME NEW m \in Referenced PROVE m \in Referenced'
  <2>1. m \in Used /\ m \in Inner /\ m \in NodeIds /\ node[m].ref > 0
    BY NodeIdFacts DEF Referenced
  <2>2. node'[m].ref > 0
    BY <1>1, <2>1
  <2> QED
    BY <1>2, <2>1, <2>2 DEF Referenced
<1>4. Safe \subseteq Safe'
  BY <1>1, <1>3, SameShape DEF SameNodes
<1> QED
  BY <1>2, <1>3, <1>4

\* The node of a trusted BDD has a reference, so it survives.
LEMMA HeldSafe ==
    ASSUME TypeOK, RefsInv, HeldPart, NEW h \in Held
    PROVE  handle[h].root \in Terminals \cup Referenced /\ handle[h].root \in Safe
<1> DEFINE n == handle[h].root
           S == {g \in Holders : handle[g].root = n}
<1>1. n \in Live /\ MaxRef \in Nat \ {0} /\ h \in Holders
  BY SizeAssumption DEF HeldPart, Held
<1>2. CASE n \in Used
  <2>1. h \in S /\ IsFiniteSet(S)
    BY <1>1, HoldersFinite
  <2>2. Cardinality(S) \in Nat /\ Cardinality(S) # 0
    BY <2>1, FS_CardinalityType, FS_EmptySet
  <2>3. RefsOf(n) = Cardinality(S) + IF Pinned(n) THEN 1 ELSE 0
    BY DEF RefsOf
  <2> HIDE DEF S, n
  <2>4. RefsOf(n) > 0
    BY <2>2, <2>3
  <2>5. node[n].ref > 0
    BY <1>1, <1>2, <2>4 DEF RefsInv
  <2> QED
    BY <1>2, <2>5, SafeLive DEF Referenced, n
<1>3. CASE n \in Terminals
  BY <1>3, SafeLive
<1> QED
  BY <1>1, <1>2, <1>3 DEF Live

\* A BDD that the client can name is kept by every collection.
LEMMA NameableSafe ==
    ASSUME TypeOK, RefsInv, HeldPart
    PROVE  Nameable \subseteq Safe
<1>1. MaxRef \in Nat \ {0}
  BY SizeAssumption
<1>2. {n \in Used : node[n].ref = MaxRef} \subseteq Referenced
  BY <1>1 DEF Referenced
<1> QED
  BY <1>2, HeldSafe, SafeLive DEF Nameable, Terminals

\* Steps that leave the recursion, its results and the cache alone.
LEMMA RootsKept ==
    ASSUME RootsInv, UNCHANGED <<cache, refstack, call, mk, stack>>, Live \subseteq Live', HeldPart',
           job'.r \in Live', job'.at \in Live',
           pc' \in {"made", "ret"} => ret'.root \in Live',
           pc' \in ApplyPcs => pc \in ApplyPcs /\ job'.r = job.r,
           stack # <<>> \/ pc' \in ApplyPcs => Safe \subseteq Safe',
           pc' \in {"makenode", "grow"} => pc \in {"makenode", "grow"} /\ Referenced \subseteq Referenced'
    PROVE  RootsInv'
<1>1. CachePart' /\ RangeOf(refstack') \subseteq Live'
  BY DEF RootsInv, CachePart
<1>2. LocalPart'
  BY DEF RootsInv, LocalPart
<1>3. DOMAIN stack # {} => stack # <<>>
  OBVIOUS
<1>4. SafePart'
  BY <1>3 DEF RootsInv, SafePart
<1>5. ChildPart'
  BY DEF RootsInv, ChildPart
<1> QED
  BY <1>1, <1>2, <1>4, <1>5 DEF RootsInv, HeldPart, CachePart, LocalPart, SafePart, ChildPart

\* An operation that returns leaves nothing that is going to be read.
LEMMA RootsReturn ==
    ASSUME RootsInv, UNCHANGED <<refstack, stack>>, Live \subseteq Live', HeldPart', stack = <<>>,
           \A s \in Slots : cache'[s] = cache[s] \/ cache'[s] = NoEntry, Return
    PROVE  RootsInv'
<1>1. CachePart' /\ RangeOf(refstack') \subseteq Live'
  BY DEF RootsInv, CachePart, NoEntry
<1>2. 0 \in Live'
  BY DEF Live, Terminals
<1>3. LocalPart'
  BY <1>2 DEF LocalPart, Return, NoCall, NoJob, NoMk
<1>4. SafePart'
  BY DEF SafePart, Return, ApplyPcs, MakePcs
<1>5. ChildPart'
  BY DEF ChildPart, Return
<1> QED
  BY <1>1, <1>3, <1>4, <1>5 DEF RootsInv, HeldPart, CachePart, LocalPart, SafePart, ChildPart

-----------------------------------------------------------------------------

\* bdd_makenode and the collector keep what is going to be read.
LEMMA RootsMake ==
    ASSUME TopPre, Running, Running', RefsInv, MakeFound \/ MakeFresh \/ MakeGbc \/ Grow
    PROVE  RootsInv'
<1>0. TypeOK /\ TableInv /\ RootsInv /\ ControlInv /\ HeldPart /\ CachePart /\ LocalPart /\ SafePart
      /\ ChildPart
  BY RootsParts DEF TopPre
<1>1. pc \in MakePcs /\ UNCHANGED <<job, call, handle, stack, refstack, mk>> /\ pc # "walk"
  BY DEF MakeFound, MakeFresh, MakeGbc, Grow, MustBuild, MakePcs
<1>2. CASE MakeFound
  <2>1. UNCHANGED <<node, cache>> /\ pc' = "made"
    BY <1>2 DEF MakeFound
  <2>2. \/ ret'.root = mk.low
        \/ ret'.root \in Matching
    BY <1>2 DEF MakeFound, NoRet
  <2>3. ret'.root \in Live
    BY <1>0, <2>2 DEF LocalPart, Matching, Live
  <2> QED
    BY <1>0, <1>1, <2>1, <2>3, TableUnchanged, RootsKept DEF ApplyPcs, HeldPart, LocalPart, Held
<1>3. CASE MakeFresh
  <2>1. /\ Live' = Live \cup {ret'.root} /\ Safe \subseteq Safe' /\ Referenced' = Referenced
    BY <1>0, <1>3, FreshFacts
  <2>2. pc' = "made" /\ UNCHANGED cache
    BY <1>3 DEF MakeFresh
  <2> QED
    BY <1>0, <1>1, <2>1, <2>2, RootsKept DEF ApplyPcs, HeldPart, LocalPart, Held
<1>4. CASE Grow
  <2>1. UNCHANGED <<node, cache>> /\ pc' = "makenode" /\ pc = "grow"
    BY <1>4 DEF Grow, AfterGrow, Running
  <2> QED
    BY <1>0, <1>1, <2>1, TableUnchanged, RootsKept DEF ApplyPcs, HeldPart, LocalPart, Held
<1>5. CASE MakeGbc
  <2>1. Collect /\ pc' = "grow" /\ pc = "makenode" /\ UNCHANGED ret
    BY <1>5 DEF MakeGbc, MustBuild, Running
  <2>2. /\ Live' = Terminals \cup Reach(GcRoots) /\ Referenced' = Referenced /\ Safe \subseteq Safe'
    BY <1>0, <2>1, CollectFacts
  <2>3. Safe \subseteq Live'
    BY <2>2, ReachMonotone DEF Safe, GcRoots
  <2>4. HeldPart'
    BY <1>0, <1>1, <2>3, HeldSafe DEF HeldPart, Held
  <2>5. CachePart'
    BY <2>1 DEF Collect, CachePart, NoEntry
  <2>6. RangeOf(refstack) \subseteq Live'
    <3>1. RangeOf(refstack) \subseteq Live
      BY <1>0 DEF RootsInv
    <3>2. RangeOf(refstack) \cap Used \subseteq Reach(GcRoots)
      BY ReachRoots DEF GcRoots
    <3> QED
      BY <2>2, <3>1, <3>2 DEF Live
  <2>7. {call.l, call.r, call.t, job.r} \subseteq Safe
    BY <1>0, <2>1 DEF SafePart, ApplyPcs, MakePcs
  <2>8. {mk.low, mk.high} \subseteq Live'
    <3>1. {mk.low, mk.high} \subseteq Terminals \cup RangeOf(refstack) \cup Referenced
      BY <1>0, <2>1 DEF ChildPart
    <3>2. Terminals \cup Referenced \subseteq Live'
      BY <2>3, SafeLive
    <3> QED
      BY <2>6, <3>1, <3>2
  <2>9. job.at \in Live'
    <3>1. job.at = 0
      BY <1>0, <1>1 DEF ControlInv
    <3> QED
      BY <2>2, <3>1 DEF Terminals
  <2>10. LocalPart'
    BY <1>1, <2>1, <2>3, <2>7, <2>8, <2>9 DEF LocalPart
  <2>11. SafePart'
    BY <1>0, <1>1, <2>2, <2>7 DEF SafePart
  <2>12. ChildPart'
    BY <1>0, <1>1, <2>1, <2>2 DEF ChildPart
  <2>13. RangeOf(refstack') \subseteq Live'
    BY <1>1, <2>6
  <2> QED
    BY <2>4, <2>5, <2>10, <2>11, <2>12, <2>13
       DEF RootsInv, HeldPart, CachePart, LocalPart, SafePart, ChildPart
<1> QED
  BY <1>2, <1>3, <1>4, <1>5

\* PUSHREF adds one pending result.
LEMMA AppendRange ==
    ASSUME NEW S, NEW s \in Seq(S), NEW e \in S
    PROVE  /\ RangeOf(Append(s, e)) = RangeOf(s) \cup {e}
           /\ \A i \in DOMAIN s : Append(s, e)[i] = s[i]
           /\ DOMAIN Append(s, e) = DOMAIN s \cup {Len(s) + 1} /\ Append(s, e)[Len(s) + 1] = e
<1>1. /\ Len(s) \in Nat /\ DOMAIN s = 1..Len(s) /\ Append(s, e) \in Seq(S)
      /\ Len(Append(s, e)) = Len(s) + 1
      /\ \A i \in 1..Len(s) : Append(s, e)[i] = s[i]
      /\ Append(s, e)[Len(s) + 1] = e
  BY LenProperties, AppendProperties
<1>2. DOMAIN Append(s, e) = 1..(Len(s) + 1)
  BY <1>1, LenProperties
<1>3. DOMAIN Append(s, e) = DOMAIN s \cup {Len(s) + 1}
  BY <1>1, <1>2
<1> QED
  BY <1>1, <1>3 DEF RangeOf

\* The apply functions call with safe arguments and return live results.
LEMMA RootsApply ==
    ASSUME TopPre, Running, Running', RefsInv,
           \/ EnterLeaf \/ EnterDegenerate \/ EnterRefuted \/ EnterMiss
           \/ ReturnLow \/ ReturnHigh \/ JustifyStep
    PROVE  RootsInv'
<1>0. TypeOK /\ TableInv /\ RootsInv /\ ControlInv /\ StackInv /\ HeldPart /\ CachePart /\ LocalPart
      /\ SafePart /\ ChildPart /\ call \in Calls /\ stack \in Seq(Frames) /\ refstack \in Seq(NodeIds)
      /\ ret.root \in NodeIds
  BY RootsParts DEF TopPre, TypeOK, Pcbdd
<1>1. UNCHANGED <<node, job, handle>> /\ pc \in {"call", "ret", "made"}
  BY DEF EnterLeaf, EnterDegenerate, EnterRefuted, EnterMiss, ReturnLow, ReturnHigh, JustifyStep
<1>2. Used' = Used /\ Live' = Live /\ Referenced' = Referenced /\ Safe' = Safe /\ HeldPart'
  BY <1>0, <1>1, TableUnchanged DEF HeldPart, Held
<1>3. {call.l, call.r, call.t, job.r} \subseteq Safe /\ {call.l, call.r, call.t, job.r} \subseteq Live
      /\ 0 \in Live /\ 1 \in Live
  BY <1>0, <1>1, SafeLive DEF SafePart, ApplyPcs, MakePcs, Live, Terminals
<1>4. CASE EnterLeaf
  <2>1. UNCHANGED <<cache, refstack, call, mk, stack>> /\ pc = "call" /\ pc' = "ret"
    BY <1>4 DEF EnterLeaf
  <2>2. AndRoot(call) \in Live
    BY <1>3 DEF AndRoot
  <2>3. ASSUME Splits(call), Hits PROVE Entry.root \in Live
    <3>1. call.op \in Ops /\ call.l \in NodeIds /\ call.r \in NodeIds /\ call.t \in NodeIds
      BY <1>0 DEF Calls
    <3>2. Slot(call.op, call.l, call.r, call.t) \in Slots
      BY <3>1, SlotType
    <3>3. Entry.a # -1
      BY <2>3, <3>1, NodeIdFacts DEF Hits
    <3> QED
      BY <1>0, <3>2, <3>3 DEF CachePart, Entry
  <2>4. ret'.root \in Live
    BY <1>3, <1>4, <2>2, <2>3 DEF EnterLeaf
  <2> QED
    BY <1>0, <1>1, <1>2, <2>1, <2>4, RootsKept DEF LocalPart, ApplyPcs
<1>5. CASE EnterDegenerate
  <2>1. UNCHANGED <<cache, refstack, pc, mk, stack, ret>> /\ pc = "call" /\ call' = Weaker(call)
    BY <1>5 DEF EnterDegenerate
  <2>2. {call'.l, call'.r, call'.t} \subseteq Safe
    BY <1>0, <1>3, <2>1, WeakerSafe
  <2> QED
    BY <1>0, <1>1, <1>2, <1>3, <2>1, <2>2, SafeLive
       DEF RootsInv, HeldPart, LocalPart, SafePart, ChildPart, CachePart, ApplyPcs
<1>6. CASE EnterRefuted
  BY <1>6 DEF EnterRefuted, Running
<1>7. CASE EnterMiss
  <2>1. /\ UNCHANGED <<cache, refstack, pc, mk, ret>> /\ pc = "call"
        /\ stack' = Append(stack, Frame(call))
        /\ call' = SubCall(node, Frame(call), Frame(call).level, 0)
    BY <1>7 DEF EnterMiss, CallCofactor
  <2>2. /\ Frame(call) \in Frames /\ Frame(call).op = call.op
        /\ {Frame(call).l, Frame(call).r, Frame(call).t} \subseteq Safe
    BY <1>0, <1>3, <1>7, FrameType DEF EnterMiss
  <2>3. {call'.l, call'.r, call'.t} \subseteq Safe
    BY <1>0, <2>1, <2>2, SubCallSafe DEF Calls
  <2>4. \A i \in DOMAIN stack' : stack'[i] = Frame(call) \/ (i \in DOMAIN stack /\ stack'[i] = stack[i])
    BY <1>0, <2>1, <2>2, AppendRange
  <2>5. SafePart'
    BY <1>0, <1>1, <1>2, <1>3, <2>2, <2>3, <2>4 DEF SafePart
  <2> QED
    BY <1>0, <1>1, <1>2, <1>3, <2>1, <2>3, <2>5, SafeLive
       DEF RootsInv, HeldPart, LocalPart, SafePart, ChildPart, CachePart
<1>8. ASSUME stack # <<>>
      PROVE  /\ Top \in Frames /\ {Top.l, Top.r, Top.t} \subseteq Safe /\ Len(stack) \in DOMAIN stack
             /\ stack[Len(stack)] = Top
  BY <1>0, <1>8, TopFrame DEF SafePart, Top
<1>9. CASE ReturnLow
  <2>1. /\ UNCHANGED <<cache, mk, ret>> /\ pc = "ret" /\ pc' = "call" /\ stack # <<>>
        /\ refstack' = Append(refstack, ret.root)
        /\ stack' = [stack EXCEPT ![Len(stack)].half = "high", ![Len(stack)].low = ret]
        /\ call' = SubCall(node, Top, Top.level, 1)
    BY <1>9 DEF ReturnLow, CallCofactor
  <2>2. {call'.l, call'.r, call'.t} \subseteq Safe
    <3>1. Top.op \in Ops /\ {Top.l, Top.r, Top.t} \subseteq Safe
      BY <1>8, <2>1 DEF Frames
    <3> QED
      BY <1>0, <2>1, <3>1, SubCallSafe
  <2>3. /\ DOMAIN stack' = DOMAIN stack
        /\ \A i \in DOMAIN stack : /\ stack'[i].l = stack[i].l /\ stack'[i].r = stack[i].r
                                   /\ stack'[i].t = stack[i].t
    BY <1>8, <2>1 DEF Frames
  <2>4. SafePart'
    BY <1>0, <1>1, <1>2, <1>3, <2>2, <2>3 DEF SafePart
  <2>5. RangeOf(refstack') \subseteq Live'
    BY <1>0, <1>2, <2>1, AppendRange DEF RootsInv, LocalPart
  <2> QED
    BY <1>0, <1>1, <1>2, <1>3, <2>1, <2>2, <2>4, <2>5, SafeLive
       DEF RootsInv, HeldPart, LocalPart, SafePart, ChildPart, CachePart
<1>10. CASE ReturnHigh
  <2>1. /\ UNCHANGED <<cache, call>> /\ pc = "ret" /\ pc' \in {"makenode", "made"} /\ stack # <<>>
        /\ refstack' = Append(refstack, ret.root) /\ Top.half = "high"
        /\ stack' = [stack EXCEPT ![Len(stack)].high = ret]
    BY <1>10 DEF ReturnHigh
  <2>2. \/ UNCHANGED mk /\ pc' = "made" /\ ret'.root \in {0, 1}
        \/ mk'.low = refstack[Len(refstack)] /\ mk'.high = ret.root /\ UNCHANGED ret
    BY <1>10 DEF ReturnHigh
  <2>3. /\ DOMAIN stack' = DOMAIN stack
        /\ \A i \in DOMAIN stack : /\ stack'[i].l = stack[i].l /\ stack'[i].r = stack[i].r
                                   /\ stack'[i].t = stack[i].t
    BY <1>8, <2>1 DEF Frames
  <2>4. SafePart'
    BY <1>0, <1>1, <1>2, <1>3, <2>1, <2>3 DEF SafePart
  <2>5. RangeOf(refstack') = RangeOf(refstack) \cup {ret.root} /\ RangeOf(refstack') \subseteq Live'
    BY <1>0, <1>2, <2>1, AppendRange DEF RootsInv, LocalPart
  <2>6. refstack[Len(refstack)] \in RangeOf(refstack)
    BY <1>0, <2>1, PendingLow
  <2>7. LocalPart'
    BY <1>0, <1>1, <1>2, <1>3, <2>1, <2>2, <2>5, <2>6 DEF LocalPart
  <2>8. ChildPart'
    BY <1>0, <2>1, <2>2, <2>5, <2>6 DEF ChildPart
  <2> QED
    BY <1>0, <1>2, <2>1, <2>4, <2>5, <2>7, <2>8
       DEF RootsInv, HeldPart, LocalPart, SafePart, ChildPart, CachePart
<1>11. CASE JustifyStep
  <2> DEFINE s == Slot(Top.op, Top.l, Top.r, Top.t)
  <2>1. /\ refstack' = Popped /\ stack' = SubSeq(stack, 1, Len(stack) - 1) /\ pc' = "ret"
        /\ pc = "made" /\ stack # <<>> /\ UNCHANGED <<call, mk>> /\ ret'.root = ret.root
        /\ \E e : /\ e.a = Top.l /\ e.b = Top.r /\ e.root = ret.root
                  /\ cache' = [cache EXCEPT ![s] = e]
    <3> DEFINE j == Justify(node, IF Top.op = "imp" THEN "imp" ELSE "and", Top.l, Top.r, Top.level,
                            Top.low, Top.high, IF Top.op = "aij" THEN Top.t ELSE ret.root, counter)
               e == [a |-> Top.l, b |-> Top.r, c |-> IF Top.op = "aij" THEN Top.t ELSE -1,
                     op |-> Top.op, root |-> ret.root, cid |-> j.jid]
    <3>1. pc' # "exit"
      BY DEF Running
    <3>2. /\ refstack' = Popped /\ stack' = SubSeq(stack, 1, Len(stack) - 1) /\ pc' = "ret"
          /\ pc = "made" /\ stack # <<>> /\ UNCHANGED <<call, mk>> /\ ret' = [ret EXCEPT !.cid = j.jid]
          /\ cache' = [cache EXCEPT ![s] = e]
      BY <1>11, <3>1, Zenon DEF JustifyStep
    <3> HIDE DEF j, s
    <3>3. ret'.root = ret.root
      BY <1>0, <3>2 DEF TypeOK, Pcbdd
    <3>4. e.a = Top.l /\ e.b = Top.r /\ e.root = ret.root
      OBVIOUS
    <3> HIDE DEF e
    <3> QED
      BY <3>2, <3>3, <3>4
  <2>2. PICK e : /\ e.a = Top.l /\ e.b = Top.r /\ e.root = ret.root
                 /\ cache' = [cache EXCEPT ![s] = e]
    BY <2>1
  <2>3. ret.root \in Live
    BY <1>0, <2>1 DEF LocalPart
  <2>4. CachePart'
    <3>1. \A u \in Slots : cache'[u] = e \/ cache'[u] = cache[u]
      BY <1>0, <2>2 DEF TypeOK
    <3> QED
      BY <1>0, <1>2, <1>8, <2>1, <2>2, <2>3, <3>1, SafeLive DEF CachePart
  <2>5. RangeOf(refstack') \subseteq Live'
    BY <1>0, <1>2, <2>1, PoppedProps DEF RootsInv
  <2>6. SafePart'
    <3>1. /\ DOMAIN stack' = 1..(Len(stack) - 1) /\ DOMAIN stack = 1..Len(stack) /\ Len(stack) \in Nat
          /\ \A i \in 1..(Len(stack) - 1) : stack'[i] = stack[i]
      BY <1>0, <2>1, ShorterStack, LenProperties
    <3>2. \A i \in DOMAIN stack' : i \in DOMAIN stack /\ stack'[i] = stack[i]
      BY <3>1
    <3> QED
      BY <1>0, <1>1, <1>2, <1>3, <2>1, <3>2 DEF SafePart
  <2> QED
    BY <1>0, <1>1, <1>2, <1>3, <2>1, <2>3, <2>4, <2>5, <2>6
       DEF RootsInv, HeldPart, LocalPart, SafePart, ChildPart, CachePart
<1> QED
  BY <1>4, <1>5, <1>6, <1>7, <1>9, <1>10, <1>11

-----------------------------------------------------------------------------

\* A top-level operation calls an apply function with safe arguments.
LEMMA RootsStart ==
    ASSUME RootsInv, job \in Jobs, NEW kind, NEW dest, NEW args, NEW op, NEW r,
           StartApply(kind, dest, args, op, r), r \in Safe', handle[args[1]].root \in Safe',
           op # "imp" => handle[args[2]].root \in Safe',
           UNCHANGED <<mk, cache, stack>>, Live \subseteq Live', Safe \subseteq Safe',
           Safe' \subseteq Live', HeldPart'
    PROVE  RootsInv'
<1>1. /\ job'.r = r /\ job'.at = job.at /\ refstack' = <<>> /\ pc' = "call"
      /\ call' = IF op = "imp" THEN [op |-> op, l |-> handle[args[1]].root, r |-> r, t |-> 0]
                 ELSE [op |-> op, l |-> handle[args[1]].root, r |-> handle[args[2]].root, t |-> r]
  BY DEF StartApply, Jobs
<1>2. 0 \in Safe'
  BY DEF Safe, Terminals
<1>3. {call'.l, call'.r, call'.t} \subseteq Safe'
  BY <1>1, <1>2
<1>4. RangeOf(refstack') = {}
  BY <1>1 DEF RangeOf
<1> QED
  BY <1>1, <1>3, <1>4 DEF RootsInv, HeldPart, LocalPart, SafePart, ChildPart, CachePart

\* What every collection keeps is in the table, after a step as before.
LEMMA SafeLiveNext == (Safe \subseteq Live /\ Terminals \subseteq Safe /\ Referenced \subseteq Safe)'
<1>1. /\ Reach(Referenced)' \subseteq Used' /\ (Referenced \cap Used)' \subseteq Reach(Referenced)'
      /\ Referenced' \subseteq Used'
  BY DEF Reach, Referenced
<1> QED
  BY <1>1 DEF Safe, Live

\* A new trusted BDD, or one less.
LEMMA HeldAssigned ==
    ASSUME TypeOK, HeldPart, Live \subseteq Live', NEW h \in Holders, NEW new,
           handle' = [handle EXCEPT ![h] = new], new.root = -1 \/ new.root \in Live
    PROVE  HeldPart'
BY DEF HeldPart, Held, TypeOK

\* BDD_build_clause keeps what is going to be read.
LEMMA RootsBuild ==
    ASSUME TopPre, Running, Running', RefsInv,
           SetVar \/ VarMade \/ BuildLiteral \/ LiteralMade \/ ClauseBuilt \/ CheckBuilt \/ Walk
    PROVE  RootsInv'
<1>0. /\ TypeOK /\ TableInv /\ RootsInv /\ ControlInv /\ DestInv /\ HeldPart /\ LocalPart /\ ChildPart
      /\ job \in Jobs /\ job.r \in NodeIds /\ job.r \in Live /\ 0 \in Live /\ 1 \in Live
  BY RootsParts DEF TopPre, TypeOK, Jobs, LocalPart, Live, Terminals
<1>1. stack = <<>> /\ UNCHANGED <<stack, cache, handle>>
  BY <1>0 DEF SetVar, VarMade, BuildLiteral, LiteralMade, ClauseBuilt, CheckBuilt, Walk, ControlInv,
              ApplyPcs, MakePcs
<1>2. CASE SetVar
  <2>1. UNCHANGED <<node, call, refstack, ret>> /\ pc = "setvarnum" /\ pc' \in {"makenode", "client"}
    BY <1>2 DEF SetVar
  <2>2. call = NoCall /\ job.r = 0 /\ job.at = 0
    BY <1>0, <2>1 DEF ControlInv
  <2>3. job'.r = 0 /\ job'.at = 0
    BY <1>2, <2>2 DEF SetVar, NoJob
  <2>4. {mk'.low, mk'.high} \subseteq Terminals \/ (UNCHANGED mk /\ pc' = "client")
    <3>1. CASE job.id < 2 * NumVars
      <4>1. mk'.low = job.id % 2 /\ mk'.high = 1 - (job.id % 2)
        BY <1>2, <3>1 DEF SetVar
      <4>2. job.id % 2 \in {0, 1}
        BY <1>0, <2>1 DEF ControlInv
      <4> QED
        BY <4>1, <4>2 DEF Terminals
    <3>2. CASE ~(job.id < 2 * NumVars)
      BY <1>2, <3>2 DEF SetVar
    <3> QED
      BY <3>1, <3>2
  <2>5. Terminals \subseteq Live /\ Terminals \subseteq Safe
    BY SafeLive DEF Live
  <2>6. Used' = Used /\ Live' = Live /\ Referenced' = Referenced /\ Safe' = Safe
    BY <2>1, TableUnchanged
  <2>7. LocalPart' /\ SafePart' /\ ChildPart'
    BY <1>0, <1>1, <2>1, <2>2, <2>3, <2>4, <2>5, <2>6
       DEF LocalPart, SafePart, ChildPart, NoCall, Terminals
  <2> QED
    BY <1>0, <1>1, <2>1, <2>6, <2>7
       DEF RootsInv, HeldPart, Held, LocalPart, SafePart, ChildPart, CachePart
<1>3. CASE VarMade
  <2>1. UNCHANGED <<cache, refstack, call, mk, stack, handle>> /\ pc' = "setvarnum"
        /\ job'.r = job.r /\ job'.at = job.at
    BY <1>0, <1>3 DEF VarMade, Jobs
  <2>2. Live' = Live
    BY <1>0, <1>3, PinGrows
  <2> QED
    BY <1>0, <1>1, <2>1, <2>2, RootsKept DEF HeldPart, Held, LocalPart, ApplyPcs, MakePcs
<1>4. CASE BuildLiteral
  <2>1. /\ UNCHANGED <<refstack, call, ret, job>> /\ pc = "build" /\ pc' = "makenode"
        /\ node' = IncRef(node, job.r) /\ {mk'.low, mk'.high} \subseteq {1, job.r}
    BY <1>4 DEF BuildLiteral, LiteralNode
  <2>2. /\ Live' = Live /\ Safe \subseteq Safe' /\ Referenced \subseteq Referenced'
        /\ job.r \in Terminals \cup Referenced' /\ job.r \in Safe'
    BY <1>0, <2>1, IncRefGrows
  <2>3. call = NoCall
    BY <1>0, <2>1 DEF ControlInv
  <2>4. 0 \in Safe'
    BY SafeLiveNext DEF Terminals
  <2>5. LocalPart' /\ SafePart' /\ ChildPart'
    BY <1>0, <1>1, <2>1, <2>2, <2>3, <2>4 DEF LocalPart, SafePart, ChildPart, NoCall, Terminals
  <2> QED
    BY <1>0, <1>1, <2>1, <2>2, <2>5
       DEF RootsInv, HeldPart, Held, LocalPart, SafePart, ChildPart, CachePart
<1>5. CASE LiteralMade
  <2>1. /\ UNCHANGED <<cache, refstack, call, mk, stack, handle>> /\ pc' = "build" /\ pc = "made"
        /\ job'.r = ret.root /\ job'.at = job.at /\ node' = DecRef(node, job.r)
    BY <1>0, <1>5 DEF LiteralMade, Jobs
  <2>2. Live' = Live
    BY <1>0, <2>1, DecRefSame, SameTable
  <2> QED
    BY <1>0, <1>1, <2>1, <2>2, RootsKept DEF HeldPart, Held, LocalPart, ApplyPcs, MakePcs
<1>6. CASE ClauseBuilt
  <2>1. /\ UNCHANGED <<node, refstack, call, mk, handle>> /\ pc' = "walk"
        /\ job'.r = job.r /\ job'.at = job.r
    BY <1>0, <1>6 DEF ClauseBuilt, Jobs
  <2> QED
    BY <1>0, <1>1, <2>1, TableUnchanged, RootsKept DEF HeldPart, Held, LocalPart, ApplyPcs, MakePcs
<1>7. CASE CheckBuilt
  <2>1. /\ StartApply("check", Tmp, job.args, "imp", job.r) /\ UNCHANGED <<cache, handle, mk, ret, stack>>
        /\ node' = IncRef(node, job.r) /\ job.kind = "check"
    BY <1>7 DEF CheckBuilt
  <2>2. /\ Live' = Live /\ Safe \subseteq Safe' /\ job.r \in Safe'
    BY <1>0, <2>1, IncRefGrows
  <2>3. handle[job.args[1]].root \in Safe'
    <3>1. job.args \in Seq(Handles) /\ Len(job.args) = 1 /\ handle[job.args[1]].root # -1
      BY <1>0, <2>1 DEF DestInv, Jobs
    <3>2. job.args[1] \in Held
      BY <3>1, LenProperties, ElementOfSeq DEF Held, Holders
    <3> QED
      BY <1>0, <2>2, <3>2, HeldSafe
  <2>4. HeldPart'
    BY <1>0, <2>1, <2>2 DEF HeldPart, Held
  <2> QED
    BY <1>0, <2>1, <2>2, <2>3, <2>4, SafeLiveNext, RootsStart
<1>8. CASE Walk
  <2>1. /\ UNCHANGED <<node, refstack, call, mk, handle, pc, ret>> /\ pc = "walk"
    BY <1>8 DEF Walk
  <2>2. job'.r = job.r /\ job'.at \in Live
    BY <1>0, <1>8, WalkFacts DEF Jobs
  <2> QED
    BY <1>0, <1>1, <2>1, <2>2, TableUnchanged, RootsKept DEF HeldPart, Held, LocalPart, ApplyPcs, MakePcs
<1> QED
  BY <1>2, <1>3, <1>4, <1>5, <1>6, <1>7, <1>8

\* The end of an operation keeps what is going to be read.
LEMMA RootsFinish ==
    ASSUME TopPre, Running, Running', RefsInv, FinishApply \/ ClauseWalked \/ CheckWalked
    PROVE  RootsInv'
<1>0. /\ TypeOK /\ TableInv /\ RootsInv /\ ControlInv /\ DestInv /\ HeldPart /\ LocalPart
      /\ job \in Jobs /\ job.r \in NodeIds /\ job.r \in Live
  BY RootsParts DEF TopPre, TypeOK, Jobs, LocalPart
<1>1. stack = <<>> /\ UNCHANGED <<stack, refstack>>
  BY <1>0 DEF FinishApply, ClauseWalked, CheckWalked, ControlInv, ApplyPcs, MakePcs
<1>2. Live' = Live
  <2>1. ~MakeFresh /\ ~MakeGbc
    BY DEF FinishApply, ClauseWalked, CheckWalked, MakeFresh, MakeGbc, MustBuild
  <2> QED
    BY <1>0, <2>1, ShapeKept, SameTable DEF Internal
<1>3. CASE FinishApply
  <2> DEFINE r == IF job.kind = "and" THEN ret.root ELSE job.r
             cid == GenId({node[r].xvar}, 1)
  <2>1. /\ r \in Live /\ job.dest \in Holders
        /\ handle' = [handle EXCEPT ![job.dest] = [root |-> r, cid |-> cid]]
        /\ job.kind # "check" => Return
        /\ job.kind = "check" => /\ pc' = "walk" /\ UNCHANGED <<mk, call, ret>>
                                 /\ job'.r = job.r /\ job'.at = r
    BY <1>0, <1>3, FinishFacts DEF Jobs
  <2>2. cache' = IF resized THEN [s \in Slots |-> NoEntry] ELSE cache
    BY <1>3 DEF FinishApply
  <2> HIDE DEF r, cid
  <2>3. HeldPart'
    BY <1>0, <1>2, <2>1, HeldAssigned
  <2>4. \A s \in Slots : cache'[s] = cache[s] \/ cache'[s] = NoEntry
    BY <2>2
  <2>5. CASE job.kind # "check"
    BY <1>0, <1>1, <1>2, <2>1, <2>3, <2>4, <2>5, RootsReturn
  <2>6. CASE job.kind = "check"
    <3>1. CachePart'
      BY <1>0, <1>2, <2>4, RootsParts DEF CachePart, NoEntry
    <3>2. LocalPart' /\ SafePart' /\ ChildPart'
      BY <1>0, <1>1, <1>2, <2>1, <2>6 DEF LocalPart, SafePart, ChildPart, ApplyPcs, MakePcs
    <3>3. RangeOf(refstack') \subseteq Live'
      BY <1>0, <1>1, <1>2 DEF RootsInv
    <3> QED
      BY <2>3, <3>1, <3>2, <3>3 DEF RootsInv, HeldPart, LocalPart, SafePart, ChildPart, CachePart
  <2> QED
    BY <2>5, <2>6
<1>4. CASE ClauseWalked
  <2>1. /\ handle' = [handle EXCEPT ![job.dest] =
                         [root |-> job.r, cid |-> GenId({node[job.r].xvar}, 1)]]
        /\ Return /\ UNCHANGED cache /\ job.dest \in Holders
    BY <1>0, <1>4 DEF ClauseWalked, Jobs
  <2>2. HeldPart'
    BY <1>0, <1>2, <2>1, HeldAssigned
  <2> QED
    BY <1>0, <1>1, <1>2, <2>1, <2>2, RootsReturn
<1>5. CASE CheckWalked
  <2>1. Return /\ UNCHANGED cache /\ (UNCHANGED handle \/ handle' = [handle EXCEPT ![Tmp] = NoTbdd])
    BY <1>5 DEF CheckWalked
  <2>2. HeldPart'
    <3>1. NoTbdd.root = -1 /\ Tmp \in Holders
      BY TmpFree DEF NoTbdd
    <3>2. CASE UNCHANGED handle
      BY <1>0, <1>2, <3>2 DEF HeldPart, Held
    <3>3. CASE handle' = [handle EXCEPT ![Tmp] = NoTbdd]
      BY <1>0, <1>2, <3>1, <3>3, HeldAssigned
    <3> QED
      BY <2>1, <3>2, <3>3
  <2> QED
    BY <1>0, <1>1, <1>2, <2>1, <2>2, RootsReturn
<1> QED
  BY <1>3, <1>4, <1>5

\* The start of an operation keeps what is going to be read.
LEMMA RootsClient ==
    ASSUME TopPre, Running, Running', RefsInv, Client
    PROVE  RootsInv'
<1>0. /\ TypeOK /\ TableInv /\ RootsInv /\ ControlInv /\ DestInv /\ HeldPart /\ LocalPart
      /\ job \in Jobs /\ Nameable \subseteq Safe /\ 0 \in Safe /\ 0 \in Live
      /\ \A h \in Owned : h \in Holders /\ handle[h].root \in Safe /\ handle[h].root \in Live
      /\ Open \subseteq Holders
  <2>1. TypeOK /\ HeldPart
    BY RootsParts DEF TopPre
  <2> QED
    BY <2>1, RootsParts, NameableSafe, HeldSafe, SafeLive
       DEF TopPre, TypeOK, Owned, Held, Open, Holders, Terminals, HeldPart
<1>1. ASSUME pc = "client" PROVE stack = <<>> /\ job = NoJob /\ job.r = 0 /\ job.at = 0
  BY <1>0, <1>1 DEF ControlInv, ApplyPcs, MakePcs, NoJob
<1>2. ~MakeFresh /\ ~MakeGbc
  <2>1. pc = "client"
    <3>1. ASSUME NEW h, NEW g, NEW k, NEW r, NEW lits, NEW id,
                 \/ FromClause(h, id) \/ Addref(h, g) \/ Validate(h, r, g) \/ ValidateClause(lits, h)
                 \/ And(h, g, k) \/ ValidateWithAnd(h, r, g, k) \/ Delref(h) \/ Done
          PROVE  pc = "client"
      BY <3>1 DEF FromClause, Addref, Validate, And, ValidateWithAnd, ValidateClause, Delref, Done,
             MayStart
    <3> QED
      BY <3>1, Zenon DEF Client
  <2> QED
    BY <2>1 DEF MakeFresh, MakeGbc, MustBuild
<1>3. Live' = Live
  BY <1>0, <1>2, ShapeKept, SameTable
<1>4. ASSUME UNCHANGED <<node, handle>> PROVE Safe' = Safe /\ HeldPart' /\ Safe' \subseteq Live'
  BY <1>0, <1>4, TableUnchanged, SafeLive DEF HeldPart, Held
<1>5. ASSUME NEW dest \in Open, NEW h \in Owned, Duplicate(dest, handle[h]), pc = "client",
             UNCHANGED <<pc, job, refstack, call, cache, mk, stack>>
      PROVE  RootsInv'
  <2>1. handle' = [handle EXCEPT ![dest] = handle[h]]
    BY <1>5 DEF Duplicate
  <2>2. HeldPart'
    BY <1>0, <1>3, <1>5, <2>1, HeldAssigned
  <2> QED
    BY <1>0, <1>1, <1>3, <1>5, <2>2, RootsKept DEF LocalPart, ApplyPcs, MakePcs
<1>6. ASSUME NEW h, NEW id, FromClause(h, id) PROVE RootsInv'
  <2>1. /\ pc = "client" /\ pc' = "build" /\ job'.r = 0 /\ job'.at = 0
        /\ UNCHANGED <<node, handle, cache, refstack, call, mk, stack>>
    BY <1>6 DEF FromClause, StartBuild, NoJob, MayStart
  <2> QED
    BY <1>0, <1>1, <1>3, <1>4, <2>1, RootsKept DEF ApplyPcs, MakePcs
<1>7. ASSUME NEW h \in Owned, NEW lits, ValidateClause(lits, h) PROVE RootsInv'
  <2>1. /\ pc = "client" /\ pc' \in {"walk", "build"} /\ job'.r = 0
        /\ job'.at \in {0, handle[h].root}
        /\ UNCHANGED <<node, handle, cache, refstack, call, mk, stack>>
    BY <1>7 DEF ValidateClause, StartBuild, NoJob, MayStart
  <2>2. job'.r \in Live' /\ job'.at \in Live'
    BY <1>0, <1>3, <2>1
  <2> QED
    BY <1>0, <1>1, <1>3, <1>4, <2>1, <2>2, RootsKept DEF ApplyPcs, MakePcs
<1>8. ASSUME NEW h \in Owned, Delref(h) PROVE RootsInv'
  <2>1. /\ pc = "client" /\ pc' = "client" /\ handle' = [handle EXCEPT ![h] = NoTbdd]
        /\ UNCHANGED <<cache, refstack, job, call, mk, ret, stack>> /\ NoTbdd.root = -1
    BY <1>8 DEF Delref, Running, NoTbdd
  <2>2. HeldPart'
    BY <1>0, <1>3, <2>1, HeldAssigned
  <2> QED
    BY <1>0, <1>1, <1>3, <2>1, <2>2, RootsKept DEF LocalPart, ApplyPcs, MakePcs
<1>9. ASSUME NEW kind, NEW dest, NEW args, NEW op, NEW r \in Safe, StartApply(kind, dest, args, op, r),
             handle[args[1]].root \in Safe, op # "imp" => handle[args[2]].root \in Safe,
             UNCHANGED <<node, handle, cache, mk, stack>>
      PROVE  RootsInv'
  BY <1>0, <1>3, <1>4, <1>9, RootsStart
<1>10. ASSUME NEW h \in Open, NEW g \in Owned, NEW r \in Nameable, Validate(h, r, g) PROVE RootsInv'
  <2>1. <<g>>[1] = g /\ r \in Safe /\ handle[g].root \in Safe
    BY <1>0
  <2>2. pc = "client" /\ UNCHANGED <<cache, mk, stack>>
    BY <1>10 DEF Validate, MayStart
  <2>3. \/ Duplicate(h, handle[g]) /\ UNCHANGED <<pc, job, refstack, call>>
        \/ StartApply("validate", h, <<g>>, "imp", r) /\ UNCHANGED <<node, handle>>
    BY <1>10 DEF Validate
  <2>4. ASSUME StartApply("validate", h, <<g>>, "imp", r), UNCHANGED <<node, handle>> PROVE RootsInv'
    BY <1>9, <2>1, <2>2, <2>4
  <2> QED
    BY <1>5, <2>2, <2>3, <2>4
<1>11. ASSUME NEW h \in Open, NEW g \in Owned, NEW k \in Owned, And(h, g, k) PROVE RootsInv'
  <2>1. <<g, k>>[1] = g /\ <<g, k>>[2] = k /\ handle[g].root \in Safe /\ handle[k].root \in Safe
    BY <1>0
  <2>2. pc = "client" /\ UNCHANGED <<cache, mk, stack>>
    BY <1>11 DEF And, MayStart
  <2>3. \/ \E d \in Owned : Duplicate(h, handle[d]) /\ UNCHANGED <<pc, job, refstack, call>>
        \/ StartApply("and", h, <<g, k>>, "and", 0) /\ UNCHANGED <<node, handle>>
    BY <1>11 DEF And
  <2>4. ASSUME StartApply("and", h, <<g, k>>, "and", 0), UNCHANGED <<node, handle>> PROVE RootsInv'
    BY <1>0, <1>9, <2>1, <2>2, <2>4
  <2> QED
    BY <1>5, <2>2, <2>3, <2>4
<1>12. ASSUME NEW h \in Open, NEW g \in Owned, NEW k \in Owned, NEW r \in Nameable,
              ValidateWithAnd(h, r, g, k)
       PROVE  RootsInv'
  <2>1. <<g, k>>[1] = g /\ <<g, k>>[2] = k /\ handle[g].root \in Safe /\ handle[k].root \in Safe
        /\ r \in Safe
    BY <1>0
  <2>2. StartApply("validateand", h, <<g, k>>, "aij", r) /\ UNCHANGED <<node, handle, cache, mk, stack>>
    BY <1>12 DEF ValidateWithAnd
  <2> QED
    BY <1>9, <2>1, <2>2
<1>13. ASSUME NEW h \in Open, NEW g \in Owned, Addref(h, g) PROVE RootsInv'
  BY <1>5, <1>13 DEF Addref, MayStart
<1>14. CASE Done
  BY <1>14 DEF Done, Running
<1> QED
  BY <1>6, <1>7, <1>8, <1>10, <1>11, <1>12, <1>13, <1>14 DEF Client

\* Every step keeps all that is going to be read in the table.
LEMMA RootsStep ==
    ASSUME TopPre, Running, Running', RefsInv, Internal \/ Client
    PROVE  RootsInv'
BY RootsMake, RootsApply, RootsBuild, RootsFinish, RootsClient, Zenon DEF Internal

-----------------------------------------------------------------------------
(* The reference counts of the nodes stay exact; the inductive invariant holds *)
(* of every run, and so do the properties it implies.                          *)


\* The variables that hold a node.
Holding(n) == {h \in Holders : handle[h].root = n}
Pin(n) == IF Pinned(n) THEN 1 ELSE 0

\* The references to a node can be counted.
LEMMA HoldingFinite ==
    ASSUME NEW n
    PROVE  /\ IsFiniteSet(Holding(n)) /\ Cardinality(Holding(n)) \in Nat
           /\ RefsOf(n) = Cardinality(Holding(n)) + Pin(n) /\ RefsOf(n) \in Nat
<1>1. IsFiniteSet(Holding(n)) /\ Cardinality(Holding(n)) \in Nat
  BY HoldersFinite, FS_CardinalityType DEF Holding
<1>2. RefsOf(n) = Cardinality(Holding(n)) + Pin(n)
  BY DEF RefsOf, Holding, Pin
<1> QED
  BY <1>1, <1>2 DEF Pin

\* So can they after a step.
LEMMA HoldingFiniteNext ==
    ASSUME NEW n
    PROVE  /\ IsFiniteSet(Holding(n)') /\ Cardinality(Holding(n)') \in Nat
           /\ RefsOf(n)' = Cardinality(Holding(n)') + Pin(n)' /\ RefsOf(n)' \in Nat
<1>1. IsFiniteSet(Holding(n)') /\ Cardinality(Holding(n)') \in Nat
  BY HoldersFinite, FS_CardinalityType DEF Holding
<1>2. RefsOf(n)' = Cardinality(Holding(n)') + Pin(n)'
  BY DEF RefsOf, Holding, Pin
<1> QED
  BY <1>1, <1>2 DEF Pin

\* An assignment to an empty variable is one holder more for its new root.
LEMMA HoldingMore ==
    ASSUME TypeOK, NEW dest \in Holders, handle[dest].root = -1, NEW new, NEW n \in NodeIds,
           handle' = [handle EXCEPT ![dest] = new]
    PROVE  Cardinality(Holding(n)') = Cardinality(Holding(n)) + IF new.root = n THEN 1 ELSE 0
<1>0. handle \in [Holders -> Tbdds] /\ n # -1 /\ dest \notin Holding(n)
      /\ IsFiniteSet(Holding(n)) /\ Cardinality(Holding(n)) \in Nat
  BY NodeIdFacts, HoldingFinite DEF TypeOK, Holding
<1>1. CASE new.root = n
  <2>1. Holding(n)' = Holding(n) \cup {dest}
    BY <1>0, <1>1 DEF Holding
  <2> QED
    BY <1>0, <1>1, <2>1, FS_AddElement
<1>2. CASE new.root # n
  <2>1. Holding(n)' = Holding(n)
    BY <1>0, <1>2 DEF Holding
  <2> QED
    BY <1>0, <1>2, <2>1
<1> QED
  BY <1>1, <1>2

\* An assignment of no trusted BDD is one holder less for the old root.
LEMMA HoldingLess ==
    ASSUME TypeOK, NEW h \in Holders, NEW n \in NodeIds, handle' = [handle EXCEPT ![h] = NoTbdd]
    PROVE  Cardinality(Holding(n)) = Cardinality(Holding(n)') + IF handle[h].root = n THEN 1 ELSE 0
<1>0. handle \in [Holders -> Tbdds] /\ n # -1 /\ NoTbdd.root = -1
      /\ IsFiniteSet(Holding(n)) /\ Cardinality(Holding(n)) \in Nat
  BY NodeIdFacts, HoldingFinite DEF TypeOK, NoTbdd
<1>1. CASE handle[h].root = n
  <2>1. Holding(n)' = Holding(n) \ {h} /\ h \in Holding(n)
    BY <1>0, <1>1 DEF Holding
  <2>2. Cardinality(Holding(n)') = Cardinality(Holding(n)) - 1
    BY <1>0, <2>1, FS_RemoveElement
  <2> QED
    BY <1>0, <1>1, <2>2
<1>2. CASE handle[h].root # n
  <2>1. Holding(n)' = Holding(n)
    BY <1>0, <1>2 DEF Holding
  <2> QED
    BY <1>0, <1>2, <2>1
<1> QED
  BY <1>1, <1>2

-----------------------------------------------------------------------------

\* A step that changes neither holders nor counts keeps the counts exact.
LEMMA RefsSame ==
    ASSUME RefsInv, UNCHANGED handle, Used' \subseteq Used, \A n \in Used' : node'[n].ref = node[n].ref,
           \A n \in Used' : Pinned(n)' <=> Pinned(n)
    PROVE  RefsInv'
BY DEF RefsInv, RefsOf

\* One more reference with INCREF keeps the counts exact.
LEMMA RefsMore ==
    ASSUME TypeOK, RefsInv, Used' = Used, NEW n \in NodeIds, node' = IncRef(node, n),
           \A m \in Used : RefsOf(m)' = RefsOf(m) + IF m = n THEN 1 ELSE 0
    PROVE  RefsInv'
<1>1. /\ node \in [NodeIds -> Nodes] /\ Used \subseteq Inner /\ Inner \subseteq NodeIds
      /\ MaxRef \in Nat /\ \A m \in NodeIds : m \in Inner <=> ~(m < 2)
  BY NodeIdFacts, SizeAssumption DEF TypeOK
<1>2. ASSUME NEW m \in Used
      PROVE  node'[m].ref = MaxRef \/ node'[m].ref = RefsOf(m)'
  <2>1. /\ RefsOf(m) \in Nat /\ (node[m].ref = MaxRef \/ node[m].ref = RefsOf(m)) /\ m \in NodeIds
        /\ m \in Inner /\ RefsOf(m)' = RefsOf(m) + IF m = n THEN 1 ELSE 0
    BY <1>1, HoldingFinite DEF RefsInv
  <2>2. CASE m = n
    <3>1. node'[m].ref = IF node[m].ref = MaxRef THEN MaxRef ELSE node[m].ref + 1
      BY <1>1, <2>1, <2>2, IncRefProps
    <3> QED
      BY <2>1, <2>2, <3>1
  <2>3. CASE m # n
    <3>1. node'[m] = node[m]
      BY <1>1, <2>1, <2>3, IncRefProps
    <3> QED
      BY <2>1, <2>3, <3>1
  <2> QED
    BY <2>2, <2>3
<1> QED
  BY <1>2 DEF RefsInv

\* One reference less with DECREF keeps the counts exact.
LEMMA RefsLess ==
    ASSUME TypeOK, RefsInv, Used' = Used, NEW n \in NodeIds, node' = DecRef(node, n),
           \A m \in Used : RefsOf(m) = RefsOf(m)' + IF m = n THEN 1 ELSE 0
    PROVE  RefsInv'
<1>1. /\ node \in [NodeIds -> Nodes] /\ Used \subseteq Inner /\ Inner \subseteq NodeIds
      /\ MaxRef \in Nat /\ \A m \in NodeIds : m \in Inner <=> ~(m < 2)
  BY NodeIdFacts, SizeAssumption DEF TypeOK
<1>2. ASSUME NEW m \in Used
      PROVE  node'[m].ref = MaxRef \/ node'[m].ref = RefsOf(m)'
  <2>1. /\ RefsOf(m)' \in Nat /\ (node[m].ref = MaxRef \/ node[m].ref = RefsOf(m)) /\ m \in NodeIds
        /\ m \in Inner /\ RefsOf(m) = RefsOf(m)' + IF m = n THEN 1 ELSE 0
    BY <1>1, HoldingFiniteNext DEF RefsInv
  <2>2. CASE m = n
    <3>1. node'[m].ref = IF node[m].ref = MaxRef \/ node[m].ref = 0 THEN node[m].ref
                         ELSE node[m].ref - 1
      BY <1>1, <2>1, <2>2, DecRefProps
    <3> QED
      BY <2>1, <2>2, <3>1
  <2>3. CASE m # n
    <3>1. node'[m] = node[m]
      BY <1>1, <2>1, <2>3, DecRefProps
    <3> QED
      BY <2>1, <2>3, <3>1
  <2> QED
    BY <2>2, <2>3
<1> QED
  BY <1>2 DEF RefsInv

\* A step in which no operation holds a reference of its own, before or after.
NoPins == \A n \in Used : ~Pinned(n) /\ ~Pinned(n)'

\* tbdd_create and tbdd_addref keep the counts exact.
LEMMA RefsHeld ==
    ASSUME TypeOK, RefsInv, Used' = Used, NoPins, NEW dest \in Holders, handle[dest].root = -1, NEW new,
           new.root \in NodeIds, handle' = [handle EXCEPT ![dest] = new],
           node' = IncRef(node, new.root)
    PROVE  RefsInv'
<1>1. ASSUME NEW m \in Used
      PROVE  RefsOf(m)' = RefsOf(m) + IF m = new.root THEN 1 ELSE 0
  <2>1. Pin(m) = 0 /\ Pin(m)' = 0 /\ m \in NodeIds
    BY NodeIdFacts DEF NoPins, Pin
  <2>2. Cardinality(Holding(m)') = Cardinality(Holding(m)) + IF new.root = m THEN 1 ELSE 0
    BY <2>1, HoldingMore
  <2>3. /\ Cardinality(Holding(m)) \in Nat
        /\ RefsOf(m) = Cardinality(Holding(m)) + Pin(m) /\ RefsOf(m)' = Cardinality(Holding(m)') + Pin(m)'
    BY HoldingFinite, HoldingFiniteNext
  <2> QED
    BY <2>1, <2>2, <2>3
<1> QED
  BY <1>1, RefsMore

\* tbdd_delref keeps the counts exact.
LEMMA RefsDropped ==
    ASSUME TypeOK, RefsInv, Used' = Used, NoPins, NEW h \in Holders, handle[h].root \in NodeIds,
           handle' = [handle EXCEPT ![h] = NoTbdd], node' = DecRef(node, handle[h].root)
    PROVE  RefsInv'
<1>1. ASSUME NEW m \in Used
      PROVE  RefsOf(m) = RefsOf(m)' + IF m = handle[h].root THEN 1 ELSE 0
  <2>1. Pin(m) = 0 /\ Pin(m)' = 0 /\ m \in NodeIds
    BY NodeIdFacts DEF NoPins, Pin
  <2>2. Cardinality(Holding(m)) = Cardinality(Holding(m)') + IF handle[h].root = m THEN 1 ELSE 0
    BY <2>1, HoldingLess
  <2>3. /\ Cardinality(Holding(m)') \in Nat
        /\ RefsOf(m) = Cardinality(Holding(m)) + Pin(m) /\ RefsOf(m)' = Cardinality(Holding(m)') + Pin(m)'
    BY HoldingFinite, HoldingFiniteNext
  <2> QED
    BY <2>1, <2>2, <2>3
<1> QED
  BY <1>1, RefsLess

-----------------------------------------------------------------------------

\* bdd_makenode and the collector keep the counts exact: a new node has no holder yet.
LEMMA RefsMake ==
    ASSUME TopPre, Running, Running', RefsInv,
           SetVar \/ VarMade \/ MakeFound \/ MakeFresh \/ MakeGbc \/ Grow
    PROVE  RefsInv'
<1>0. /\ TypeOK /\ TableInv /\ RootsInv /\ ControlInv /\ HeldPart /\ job \in Jobs
      /\ Used \subseteq NodeIds /\ job.r \in Live /\ node \in [NodeIds -> Nodes]
  BY RootsParts, NodeIdFacts DEF TopPre, TypeOK, LocalPart
<1>1. CASE SetVar
  <2>1. UNCHANGED <<node, handle>> /\ pc = "setvarnum" /\ job.kind = "none" /\ job'.kind = "none"
    BY <1>0, <1>1 DEF SetVar, ControlInv, NoJob
  <2>2. Used' = Used
    BY <2>1, TableUnchanged
  <2> QED
    BY <2>1, <2>2, RefsSame DEF Pinned
<1>2. CASE VarMade
  <2>1. /\ UNCHANGED handle /\ job.kind = "none" /\ job'.kind = "none"
    BY <1>0, <1>2 DEF VarMade, Jobs
  <2>2. /\ Used' = Used /\ (ret.root \in Inner => node'[ret.root].ref = MaxRef)
        /\ \A m \in NodeIds : m # ret.root => node'[m] = node[m]
    BY <1>0, <1>2, PinSame, PinGrows
  <2>3. ASSUME NEW m \in Used
        PROVE  node'[m].ref = MaxRef \/ node'[m].ref = RefsOf(m)'
    <3>1. RefsOf(m)' = RefsOf(m)
      BY <2>1 DEF RefsOf, Pinned
    <3>2. m \in NodeIds /\ m \in Inner
      BY NodeIdFacts
    <3> QED
      BY <2>2, <3>1, <3>2 DEF RefsInv
  <2> QED
    BY <2>2, <2>3 DEF RefsInv
<1>3. CASE MakeFound
  <2>1. UNCHANGED <<node, handle, job>> /\ pc = "makenode" /\ pc' = "made"
    BY <1>3 DEF MakeFound
  <2> QED
    BY <2>1, TableUnchanged, RefsSame DEF Pinned
<1>4. CASE MakeFresh
  <2>1. PICK n \in Inner :
           /\ Used' = Used \cup {n} /\ n \notin Used /\ node'[n].ref = 0
           /\ \A m \in NodeIds : m # n => node'[m] = node[m]
    BY <1>0, <1>4, FreshFacts
  <2>2. UNCHANGED <<handle, job>> /\ pc = "makenode" /\ pc' = "made"
    BY <1>4 DEF MakeFresh, MustBuild
  <2>3. \A m \in Used : node'[m] = node[m]
    BY <1>0, <2>1
  <2>4. RefsOf(n)' = 0
    <3>1. n \notin Live /\ n # -1
      BY <2>1, NodeIdFacts DEF Live, Inner
    <3>2. \A h \in Holders : handle[h].root # n
      BY <1>0, <3>1 DEF HeldPart, Held
    <3>3. Holding(n)' = {}
      BY <2>2, <3>2 DEF Holding
    <3>4. ~Pinned(n)'
      BY <1>0, <2>2, <3>1 DEF Pinned
    <3>5. RefsOf(n)' = Cardinality(Holding(n)') + Pin(n)' /\ Pin(n)' = 0
      BY <3>4, HoldingFiniteNext DEF Pin
    <3>6. Cardinality({}) = 0
      BY FS_EmptySet
    <3> QED
      BY <3>3, <3>5, <3>6
  <2>5. ASSUME NEW m \in Used
        PROVE  node'[m].ref = MaxRef \/ node'[m].ref = RefsOf(m)'
    <3>1. RefsOf(m)' = RefsOf(m)
      BY <2>2 DEF RefsOf, Pinned
    <3> QED
      BY <2>3, <3>1 DEF RefsInv
  <2> QED
    BY <2>1, <2>4, <2>5 DEF RefsInv
<1>5. CASE MakeGbc
  <2>1. UNCHANGED <<handle, job>> /\ pc = "makenode" /\ pc' = "grow" /\ Collect
    BY <1>5 DEF MakeGbc, MustBuild, Running
  <2>2. Used' \subseteq Used /\ \A n \in Used' : node'[n] = node[n]
    BY <1>0, <2>1, CollectFacts DEF Live
  <2> QED
    BY <2>1, <2>2, RefsSame DEF Pinned
<1>6. CASE Grow
  <2>1. UNCHANGED <<node, handle, job>> /\ pc = "grow" /\ pc' = "makenode"
    BY <1>6 DEF Grow, AfterGrow, Running
  <2> QED
    BY <2>1, TableUnchanged, RefsSame DEF Pinned
<1> QED
  BY <1>1, <1>2, <1>3, <1>4, <1>5, <1>6

\* The apply functions keep the counts exact.
LEMMA RefsApply ==
    ASSUME TopPre, Running, Running', RefsInv,
           \/ EnterLeaf \/ EnterDegenerate \/ EnterRefuted \/ EnterMiss
           \/ ReturnLow \/ ReturnHigh \/ JustifyStep
    PROVE  RefsInv'
<1>0. TypeOK /\ ControlInv
  BY DEF TopPre
<1>1. UNCHANGED <<node, handle, job>>
  BY DEF EnterLeaf, EnterDegenerate, EnterRefuted, EnterMiss, ReturnLow, ReturnHigh, JustifyStep
<1>2. /\ pc \in {"call", "ret", "made"} /\ pc' \in {"call", "ret", "made", "makenode"}
      /\ pc = "made" => stack # <<>>
  BY DEF EnterLeaf, EnterDegenerate, EnterRefuted, EnterMiss, ReturnLow, ReturnHigh, JustifyStep, Running
<1>3. job.kind \in ApplyKinds
  BY <1>0, <1>2 DEF ControlInv
<1> QED
  BY <1>1, <1>2, <1>3, TableUnchanged, RefsSame DEF Pinned, ApplyKinds

\* BDD_build_clause moves its own reference from one intermediate BDD to the next.
LEMMA RefsBuild ==
    ASSUME TopPre, Running, Running', RefsInv,
           BuildLiteral \/ LiteralMade \/ ClauseBuilt \/ CheckBuilt \/ Walk
    PROVE  RefsInv'
<1>0. /\ TypeOK /\ TableInv /\ ControlInv /\ job \in Jobs /\ job.r \in NodeIds
      /\ Used \subseteq NodeIds
  BY NodeIdFacts DEF TopPre, TypeOK, Jobs
<1>1. Used' = Used
  <2>1. ~MakeFresh /\ ~MakeGbc
    BY DEF BuildLiteral, LiteralMade, ClauseBuilt, CheckBuilt, Walk, MakeFresh, MakeGbc, MustBuild
  <2> QED
    BY <1>0, <2>1, ShapeKept, SameTable DEF Internal
<1>2. UNCHANGED handle
  BY DEF BuildLiteral, LiteralMade, ClauseBuilt, CheckBuilt, Walk
<1>3. \A m : Holding(m)' = Holding(m)
  BY <1>2 DEF Holding
<1>4. \A m : /\ RefsOf(m) = Cardinality(Holding(m)) + Pin(m)
             /\ RefsOf(m)' = Cardinality(Holding(m)) + Pin(m)'
             /\ Cardinality(Holding(m)) \in Nat
  BY <1>3, HoldingFinite, HoldingFiniteNext
<1>5. ASSUME BuildLiteral \/ CheckBuilt PROVE RefsInv'
  <2>1. node' = IncRef(node, job.r) /\ pc = "build" /\ job'.r = job.r
    BY <1>0, <1>5 DEF BuildLiteral, CheckBuilt, StartApply, Jobs
  <2>2. \/ pc' = "makenode" /\ job'.kind = job.kind
        \/ pc' = "call" /\ job'.kind = "check"
    BY <1>0, <1>5 DEF BuildLiteral, CheckBuilt, StartApply, Jobs
  <2>3. job.kind \in {"clause", "check"}
    BY <1>0, <2>1 DEF ControlInv, BuildKinds
  <2>4. \A m : Pin(m) = 0 /\ Pin(m)' = IF m = job.r THEN 1 ELSE 0
    BY <2>1, <2>2, <2>3 DEF Pin, Pinned
  <2>5. \A m \in Used : RefsOf(m)' = RefsOf(m) + IF m = job.r THEN 1 ELSE 0
    BY <1>4, <2>4
  <2> QED
    BY <1>0, <1>1, <2>1, <2>5, RefsMore
<1>6. CASE LiteralMade
  <2>1. /\ node' = DecRef(node, job.r) /\ pc = "made" /\ pc' = "build"
        /\ job.kind \in {"clause", "check"}
    BY <1>6 DEF LiteralMade
  <2>2. \A m : Pin(m)' = 0 /\ Pin(m) = IF m = job.r THEN 1 ELSE 0
    BY <2>1 DEF Pin, Pinned
  <2>3. \A m \in Used : RefsOf(m) = RefsOf(m)' + IF m = job.r THEN 1 ELSE 0
    BY <1>4, <2>2
  <2> QED
    BY <1>0, <1>1, <2>1, <2>3, RefsLess
<1>7. CASE ClauseBuilt \/ Walk
  <2>1. UNCHANGED node /\ pc \in {"build", "walk"} /\ pc' = "walk"
    BY <1>7 DEF ClauseBuilt, Walk
  <2> QED
    BY <1>1, <1>2, <2>1, RefsSame DEF Pinned
<1> QED
  BY <1>5, <1>6, <1>7

\* The end of an operation keeps the counts exact.
LEMMA RefsFinish ==
    ASSUME TopPre, Running, Running', RefsInv, FinishApply \/ ClauseWalked \/ CheckWalked
    PROVE  RefsInv'
<1>0. /\ TypeOK /\ TableInv /\ ControlInv /\ DestInv /\ job \in Jobs /\ job.r \in NodeIds
      /\ Used \subseteq NodeIds /\ node \in [NodeIds -> Nodes] /\ handle \in [Holders -> Tbdds]
      /\ job.dest \in Holders
  BY NodeIdFacts DEF TopPre, TypeOK, Jobs
<1>1. Used' = Used
  <2>1. ~MakeFresh /\ ~MakeGbc
    BY DEF FinishApply, ClauseWalked, CheckWalked, MakeFresh, MakeGbc, MustBuild
  <2> QED
    BY <1>0, <2>1, ShapeKept, SameTable DEF Internal
<1>2. CASE FinishApply
  <2> DEFINE r == IF job.kind = "and" THEN ret.root ELSE job.r
             new == [root |-> r, cid |-> GenId({node[r].xvar}, 1)]
  <2>1. /\ r \in NodeIds /\ handle' = [handle EXCEPT ![job.dest] = new] /\ pc = "ret"
        /\ job.kind # "check" => node' = IncRef(node, r) /\ Return
        /\ job.kind = "check" => node' = DecRef(IncRef(node, r), r) /\ pc' = "walk"
    <3>1. pc = "ret"
      BY <1>2 DEF FinishApply
    <3> QED
      BY <1>0, <1>2, <3>1, FinishFacts
  <2>2. new.root = r /\ job.kind \in ApplyKinds
    BY <1>0, <2>1 DEF ControlInv
  <2>3. handle[job.dest].root = -1
    BY <1>0, <2>1, <2>2 DEF DestInv, ApplyKinds
  <2>4. CASE job.kind # "check"
    <3>1. NoPins
      BY <2>1, <2>2, <2>4 DEF NoPins, Pinned, Return, ApplyKinds
    <3> HIDE DEF r, new
    <3> QED
      BY <1>0, <1>1, <2>1, <2>2, <2>3, <2>4, <3>1, RefsHeld
  <2>5. CASE job.kind = "check"
    <3>1. r = job.r
      BY <2>5
    <3>2. \A m : Pin(m)' = 0 /\ Pin(m) = IF m = r THEN 1 ELSE 0
      BY <2>1, <2>5 DEF Pin, Pinned
    <3> HIDE DEF r, new
    <3>3. ASSUME NEW m \in Used
          PROVE  node'[m].ref = MaxRef \/ node'[m].ref = RefsOf(m)'
      <4>1. m \in NodeIds /\ m \in Inner
        BY NodeIdFacts
      <4>2. Cardinality(Holding(m)') = Cardinality(Holding(m)) + IF new.root = m THEN 1 ELSE 0
        BY <1>0, <2>1, <2>3, <4>1, HoldingMore
      <4>3. /\ Cardinality(Holding(m)) \in Nat
            /\ RefsOf(m) = Cardinality(Holding(m)) + Pin(m)
            /\ RefsOf(m)' = Cardinality(Holding(m)') + Pin(m)'
        BY HoldingFinite, HoldingFiniteNext
      <4>4. RefsOf(m)' = RefsOf(m)
        BY <2>2, <3>2, <4>2, <4>3
      <4>5. node[m].ref = MaxRef \/ node[m].ref = RefsOf(m)
        BY DEF RefsInv
      <4>6. node'[m].ref = node[m].ref \/ node'[m].ref = MaxRef
        <5>1. node' = DecRef(IncRef(node, r), r)
          BY <2>1, <2>5
        <5>2. /\ m # r => node'[m] = node[m]
              /\ m = r => node'[m].ref = IF node[m].ref = MaxRef \/ node[m].ref + 1 = MaxRef
                                         THEN MaxRef ELSE node[m].ref
          BY <1>0, <2>1, <4>1, <5>1, IncDec
        <5> QED
          BY <5>2
      <4> QED
        BY <4>4, <4>5, <4>6
    <3> QED
      BY <1>1, <3>3 DEF RefsInv
  <2> QED
    BY <2>4, <2>5
<1>3. CASE ClauseWalked
  <2> DEFINE new == [root |-> job.r, cid |-> GenId({node[job.r].xvar}, 1)]
  <2>1. /\ handle' = [handle EXCEPT ![job.dest] = new] /\ node' = IncRef(node, job.r)
        /\ pc = "walk" /\ pc' = "client" /\ job.kind = "clause" /\ new.root = job.r
    BY <1>3 DEF ClauseWalked, Return
  <2>2. handle[job.dest].root = -1 /\ NoPins
    BY <1>0, <2>1 DEF DestInv, NoPins, Pinned
  <2> HIDE DEF new
  <2> QED
    BY <1>0, <1>1, <2>1, <2>2, RefsHeld
<1>4. CASE CheckWalked
  <2>1. pc = "walk" /\ pc' = "client" /\ Tmp \in Holders
    BY <1>4, TmpFree DEF CheckWalked, Return
  <2>2. NoPins
    BY <2>1 DEF NoPins, Pinned
  <2>3. \/ UNCHANGED <<node, handle>>
        \/ /\ handle[Tmp].root # -1 /\ node' = DecRef(node, handle[Tmp].root)
           /\ handle' = [handle EXCEPT ![Tmp] = NoTbdd]
    BY <1>4 DEF CheckWalked
  <2>4. CASE UNCHANGED <<node, handle>>
    BY <1>1, <2>2, <2>4, RefsSame DEF NoPins
  <2>5. CASE /\ handle[Tmp].root # -1 /\ node' = DecRef(node, handle[Tmp].root)
             /\ handle' = [handle EXCEPT ![Tmp] = NoTbdd]
    <3>1. handle[Tmp].root \in NodeIds
      BY <1>0, <2>1, <2>5 DEF Tbdds
    <3> QED
      BY <1>0, <1>1, <2>1, <2>2, <2>5, <3>1, RefsDropped
  <2> QED
    BY <2>3, <2>4, <2>5
<1> QED
  BY <1>2, <1>3, <1>4

-----------------------------------------------------------------------------

\* The start of an operation keeps the counts exact.
LEMMA RefsClient ==
    ASSUME TopPre, Running, Running', RefsInv, Client
    PROVE  RefsInv'
<1>0. /\ TypeOK /\ TableInv /\ ControlInv /\ DestInv /\ HeldPart
      /\ \A h \in Owned : h \in Holders /\ handle[h].root \in NodeIds
      /\ \A h \in Open : h \in Holders /\ handle[h].root = -1
  <2>1. TypeOK /\ TableInv /\ ControlInv /\ DestInv /\ HeldPart /\ Live \subseteq NodeIds
    BY RootsParts, NodeIdFacts DEF TopPre
  <2> QED
    BY <2>1 DEF HeldPart, Owned, Held, Open, Holders
<1>1. pc = "client"
  <2>1. ASSUME NEW h, NEW g, NEW k, NEW r, NEW lits, NEW id,
               \/ FromClause(h, id) \/ Addref(h, g) \/ Validate(h, r, g) \/ ValidateClause(lits, h)
               \/ And(h, g, k) \/ ValidateWithAnd(h, r, g, k) \/ Delref(h) \/ Done
        PROVE  pc = "client"
    BY <2>1 DEF FromClause, Addref, Validate, And, ValidateWithAnd, ValidateClause, Delref, Done,
           MayStart
  <2> QED
    BY <2>1, Zenon DEF Client
<1>2. Used' = Used
  <2>1. ~MakeFresh /\ ~MakeGbc
    BY <1>1 DEF MakeFresh, MakeGbc, MustBuild
  <2> QED
    BY <1>0, <2>1, ShapeKept, SameTable
<1>3. ASSUME NEW dest \in Open, NEW h \in Owned, Duplicate(dest, handle[h]), pc' = pc
      PROVE  RefsInv'
  <2>1. NoPins
    BY <1>1, <1>3 DEF NoPins, Pinned
  <2>2. /\ handle' = [handle EXCEPT ![dest] = handle[h]] /\ node' = IncRef(node, handle[h].root)
        /\ handle[h].root \in NodeIds /\ dest \in Holders /\ handle[dest].root = -1
    BY <1>0, <1>3 DEF Duplicate
  <2> QED
    BY <1>0, <1>2, <2>1, <2>2, RefsHeld
<1>4. ASSUME UNCHANGED <<node, handle>>, \/ pc' \in {"build", "walk"}
                                         \/ pc' = "call" /\ job'.kind # "check"
      PROVE  RefsInv'
  <2>1. NoPins
    BY <1>1, <1>4 DEF NoPins, Pinned
  <2> QED
    BY <1>2, <1>4, <2>1, RefsSame DEF NoPins
<1>5. ASSUME NEW kind, NEW dest, NEW args, NEW op, NEW r, StartApply(kind, dest, args, op, r),
             kind # "check", UNCHANGED <<node, handle>>
      PROVE  RefsInv'
  <2>1. pc' = "call" /\ job'.kind = kind
    BY <1>0, <1>5 DEF StartApply, TypeOK, Jobs
  <2> QED
    BY <1>4, <1>5, <2>1
<1>6. ASSUME NEW h, NEW id, FromClause(h, id) PROVE RefsInv'
  <2>1. pc' = "build" /\ UNCHANGED <<node, handle>>
    BY <1>6 DEF FromClause, StartBuild
  <2> QED
    BY <1>4, <2>1
<1>7. ASSUME NEW h, NEW lits, ValidateClause(lits, h) PROVE RefsInv'
  <2>1. pc' \in {"build", "walk"} /\ UNCHANGED <<node, handle>>
    BY <1>7 DEF ValidateClause, StartBuild
  <2> QED
    BY <1>4, <2>1
<1>8. ASSUME NEW h \in Open, NEW g \in Owned, Addref(h, g) PROVE RefsInv'
  BY <1>3, <1>8 DEF Addref
<1>9. ASSUME NEW h \in Open, NEW g \in Owned, NEW r, Validate(h, r, g) PROVE RefsInv'
  BY <1>3, <1>5, <1>9 DEF Validate
<1>10. ASSUME NEW h \in Open, NEW g \in Owned, NEW k \in Owned, And(h, g, k) PROVE RefsInv'
  <2>1. \/ \E d \in Owned : Duplicate(h, handle[d]) /\ UNCHANGED pc
        \/ StartApply("and", h, <<g, k>>, "and", 0) /\ UNCHANGED <<node, handle>>
    BY <1>10 DEF And
  <2> QED
    BY <1>3, <1>5, <2>1
<1>11. ASSUME NEW h, NEW g, NEW k, NEW r, ValidateWithAnd(h, r, g, k) PROVE RefsInv'
  BY <1>5, <1>11 DEF ValidateWithAnd
<1>12. ASSUME NEW h \in Owned, Delref(h) PROVE RefsInv'
  <2>1. /\ pc' = "client" /\ handle' = [handle EXCEPT ![h] = NoTbdd]
        /\ node' = DecRef(node, handle[h].root)
    BY <1>12 DEF Delref, Running
  <2>2. NoPins
    BY <1>1, <2>1 DEF NoPins, Pinned
  <2> QED
    BY <1>0, <1>2, <2>1, <2>2, RefsDropped
<1>13. CASE Done
  BY <1>13 DEF Done, Running
<1> QED
  BY <1>6, <1>7, <1>8, <1>9, <1>10, <1>11, <1>12, <1>13 DEF Client

\* Every step keeps the reference counts of the nodes exact.
LEMMA RefsStep ==
    ASSUME TopPre, Running, Running', RefsInv, Internal \/ Client
    PROVE  RefsInv'
BY RefsMake, RefsApply, RefsBuild, RefsFinish, RefsClient, Zenon DEF Internal

-----------------------------------------------------------------------------

\* A program that takes a step has not ended.
LEMMA StillRunning ==
    ASSUME Internal \/ Client
    PROVE  Running
<1>1. CASE Internal
  BY <1>1 DEF Internal, SetVar, VarMade, MakeFound, MakeFresh, MakeGbc, MustBuild, Grow,
         EnterLeaf, EnterDegenerate, EnterRefuted, EnterMiss, ReturnLow, ReturnHigh, JustifyStep,
         FinishApply, BuildLiteral, LiteralMade, ClauseBuilt, CheckBuilt, Walk, ClauseWalked,
         CheckWalked, Running
<1>2. CASE Client
  <2>1. ASSUME NEW h, NEW g, NEW k, NEW r, NEW lits, NEW id,
               \/ FromClause(h, id) \/ Addref(h, g) \/ Validate(h, r, g) \/ ValidateClause(lits, h)
               \/ And(h, g, k) \/ ValidateWithAnd(h, r, g, k) \/ Delref(h) \/ Done
        PROVE  Running
    BY <2>1 DEF FromClause, Addref, Validate, And, ValidateWithAnd, ValidateClause, Delref, Done,
           MayStart, Running
  <2> QED
    BY <1>2, <2>1, Zenon DEF Client
<1> QED
  BY <1>1, <1>2

\* Every step keeps the types.
LEMMA TypeStep ==
    ASSUME TopPre, Internal \/ Client
    PROVE  TypeOK'
BY TypeMake, TypeApply, TypeFinish, TypeBuild, TypeWalk, TypeClient, Zenon DEF Internal, TopPre

\* Every step of the program keeps the inductive invariant.
LEMMA InvStep ==
    ASSUME IInv, Internal \/ Client
    PROVE  IInv'
<1>1. TopPre /\ Running /\ RefsInv
  BY StillRunning DEF IInv, TopPre
<1>2. TypeOK'
  BY <1>1, TypeStep
<1>3. counter' \in Nat
  BY <1>2 DEF TypeOK
<1>4. IdsInv' /\ RcInv'
  BY <1>1, <1>3, IdsStep, RcStep
<1>5. ASSUME Running'
      PROVE  TableInv' /\ ControlInv' /\ DestInv' /\ RootsInv' /\ StackInv' /\ RefsInv'
  BY <1>1, <1>5, TableStep, ControlStep, DestStep, RootsStep, StackStep, RefsStep
<1> QED
  BY <1>2, <1>4, <1>5 DEF IInv

\* The program starts in the inductive invariant, after bdd_init and tbdd_init.
LEMMA InvInit ==
    ASSUME Init
    PROVE  IInv
<1>0. /\ NumVars \in Nat /\ MaxRef \in Nat \ {0} /\ MaxNodes \in Nat /\ InitNodes \in Nat
      /\ InitNodes >= 2 /\ InitNodes <= MaxNodes /\ TAUTOLOGY \in Nat \ {0}
  BY SizeAssumption, GrowthAssumption, TautologyAssumption
<1>1. /\ Used = {} /\ Live = Terminals /\ \A n \in Terminals : node[n] = Terminal(n)
      /\ \A h \in Holders : handle[h] = NoTbdd
  BY NodeIdFacts DEF Init, Used, Live, FreeNode
<1>2. TypeOK
  <2>1. node \in [NodeIds -> Nodes]
    <3>1. \A n \in Terminals : Terminal(n) \in Nodes
      BY <1>0, NodeIdFacts DEF Terminals, Terminal, Nodes
    <3>2. FreeNode \in Nodes
      BY <1>0, NodeIdFacts DEF FreeNode, Nodes
    <3> QED
      BY <3>1, <3>2 DEF Init
  <2>2. /\ nodesize \in InitNodes..MaxNodes /\ resized \in BOOLEAN /\ refstack \in Seq(NodeIds)
        /\ cache \in [Slots -> Entries] /\ deferred \subseteq Nat /\ handle \in [Holders -> Tbdds]
    <3>1. /\ nodesize = InitNodes /\ resized = FALSE /\ refstack = <<>> /\ deferred = {}
          /\ cache = [s \in Slots |-> NoEntry] /\ handle = [h \in Holders |-> NoTbdd]
      BY DEF Init
    <3>2. NoTbdd \in Tbdds
      BY <1>0 DEF NoTbdd, Tbdds
    <3>3. cache \in [Slots -> Entries] /\ handle \in [Holders -> Tbdds]
      BY <3>1, <3>2, EntryTypes
    <3>4. nodesize \in InitNodes..MaxNodes
      BY <1>0, <3>1
    <3>5. resized \in BOOLEAN
      BY <3>1, Zenon
    <3>6. refstack \in Seq(NodeIds) /\ deferred \subseteq Nat
      BY <3>1
    <3> QED
      BY <3>3, <3>4, <3>5, <3>6
  <2>3. counter \in Nat /\ varcounter \in Nat /\ emptyId \in Nat /\ DOMAIN db \subseteq 1..counter
    <3>1. Len(InputClauses) \in Nat
      BY InputAssumption
    <3> QED
      BY <1>0, <3>1 DEF Init, LogSpec!Init
  <2>4. rc = <<>> /\ DOMAIN rc = {} /\ rc \in [DOMAIN rc -> Nat \ {0}]
    BY DEF Init
  <2>5. NoJob \in Jobs
    BY <1>0, NodeIdFacts DEF NoJob, Jobs, Holders
  <2>6. NoCall \in Calls /\ NoRet \in Pcbdd
        /\ NoMk \in [level : 0..NumVars, low : NodeIds, high : NodeIds]
    BY <1>0, NodeIdFacts DEF NoCall, Calls, Ops, NoRet, Pcbdd, NoMk
  <2> QED
    BY <2>1, <2>2, <2>3, <2>4, <2>5, <2>6 DEF Init, TypeOK
<1>3. IdsInv
  BY DEF IdsInv, Init, LogSpec!Init
<1>4. RcInv
  BY <1>1 DEF RcInv, Init, NoTbdd
<1>5. TableInv
  BY <1>1 DEF TableInv
<1>6. ControlInv
  BY DEF Init, ControlInv, NoJob, NoCall, MakePcs
<1>7. DestInv
  BY <1>1 DEF Init, DestInv, NoJob, NoTbdd, Holders
<1>8. RootsInv
  BY <1>1 DEF Init, RootsInv, NoTbdd, NoEntry, NoJob, NoCall, NoMk, Held, Terminals, ApplyPcs, MakePcs,
     RangeOf
<1>9. StackInv
  <2>1. HighHalves = {}
    BY DEF Init, HighHalves
  <2> QED
    BY <2>1, FS_EmptySet DEF Init, StackInv, Combining
<1>10. RefsInv
  BY <1>1 DEF RefsInv
<1> QED
  BY <1>2, <1>3, <1>4, <1>5, <1>6, <1>7, <1>8, <1>9, <1>10 DEF IInv

\* A step that changes nothing keeps it.
LEMMA InvStutter ==
    ASSUME IInv, UNCHANGED vars
    PROVE  IInv'
<1>1. TypeOK' /\ RcInv' /\ IdsInv' /\ (Running' <=> Running)
  BY DEF IInv, vars, TypeOK, RcInv, IdsInv, Running
<1>2. ASSUME Running
      PROVE  TableInv' /\ ControlInv' /\ DestInv' /\ RootsInv' /\ StackInv' /\ RefsInv'
  <2>1. UNCHANGED node /\ TableInv /\ ControlInv /\ DestInv /\ RootsInv /\ StackInv /\ RefsInv
    BY <1>2 DEF IInv, vars
  <2>2. Used' = Used /\ Live' = Live /\ Referenced' = Referenced /\ Safe' = Safe
    BY <2>1, TableUnchanged
  <2>3. TableInv' /\ ControlInv' /\ DestInv'
    BY <2>1, <2>2 DEF vars, TableInv, ControlInv, DestInv
  <2>4. RootsInv'
    BY <2>1, <2>2 DEF vars, RootsInv, Held
  <2>5. StackInv'
    BY <2>1 DEF vars, StackInv, HighHalves, Combining, Top
  <2>6. RefsInv'
    BY <2>1, <2>2 DEF vars, RefsInv, RefsOf, Pinned
  <2> QED
    BY <2>3, <2>4, <2>5, <2>6
<1> QED
  BY <1>1, <1>2 DEF IInv

\* The inductive invariant holds of every run, for any number of variables, any
\* input clauses, table sizes, cache and client.
THEOREM Inductive == Spec => []IInv
<1>1. Init => IInv
  BY InvInit
<1>2. IInv /\ [Next]_vars => IInv'
  BY InvStep, InvStutter DEF Next, Stopped
<1> QED
  BY <1>1, <1>2, PTL DEF Spec

\* Types: bdd_makenode never hands out an id beyond the node table, no id in the
\* proof is negative, and the counts of unit clauses are positive.
THEOREM TypesHold == Spec => []TypeOK
<1>1. IInv => TypeOK
  BY DEF IInv
<1> QED
  BY <1>1, Inductive, PTL

\* bdd_gbc marks from bddrefstack and from referenced nodes only, and yet never
\* frees a node that a child pointer, a pending recursive call, a cached operation,
\* a trusted BDD or the operation at hand is still going to read.
THEOREM NothingDangles == Spec => []NoDangling
<1>1. IInv => NoDangling
  <2>1. ASSUME TableInv, RootsInv
        PROVE  \A i \in DOMAIN stack : {stack[i].l, stack[i].r, stack[i].t} \subseteq Live
    BY <2>1, SafeLive DEF RootsInv
  <2>2. ASSUME TableInv
        PROVE  \A n \in Used : node[n].low \in Live /\ node[n].high \in Live
    BY <2>2 DEF TableInv
  <2> QED
    BY <2>1, <2>2 DEF IInv, NoDangling, RootsInv
<1> QED
  BY <1>1, Inductive, PTL

\* INCREF and DECREF (kernel.c) and rc_increment and rc_decrement (tbdd.c) count
\* the holders exactly, but for counts saturated at MAXREF.
THEOREM CountsAreExact == Spec => []CountsExact
<1>1. IInv => CountsExact
  BY DEF IInv, CountsExact, RcInv, RefsInv, Held
<1> QED
  BY <1>1, Inductive, PTL

-----------------------------------------------------------------------------
HIDE DEF Quiet, kernelVars

(* Canonical *)

\* Steps that change reference counts only leave the order alone.
LEMMA CanonicalSame ==
    ASSUME SameNodes, TableInv, Canonical
    PROVE  Canonical'
<1>1. Used' = Used
  BY SameTable
<1>2. \A n \in Used : n \in NodeIds /\ node[n].low \in NodeIds /\ node[n].high \in NodeIds
  BY NodeIdFacts DEF TableInv
<1>3. \A m \in NodeIds : /\ node'[m].low = node[m].low /\ node'[m].high = node[m].high
                         /\ node'[m].level = node[m].level
  BY DEF SameNodes
<1>4. ASSUME NEW n \in Used
      PROVE  /\ node'[n].low # node'[n].high
             /\ node'[n].level < node'[node'[n].low].level
             /\ node'[n].level < node'[node'[n].high].level
  BY <1>2, <1>3 DEF Canonical
<1>5. ASSUME NEW n \in Used, NEW m \in Used, node'[m].level = node'[n].level,
             node'[m].low = node'[n].low, node'[m].high = node'[n].high
      PROVE  m = n
  BY <1>2, <1>3, <1>5 DEF Canonical
<1> QED
  BY <1>1, <1>4, <1>5 DEF Canonical

\* bdd_makenode builds a node that the table does not have, above its children.
LEMMA CanonicalFresh ==
    ASSUME TypeOK, TableInv, RootsInv, ControlInv, Canonical, MakeFresh
    PROVE  Canonical'
<1> DEFINE n == ret'.root
<1>1. /\ Used' = Used \cup {n} /\ n \notin Used /\ n \notin Live
      /\ node'[n].level = mk.level /\ node'[n].low = mk.low /\ node'[n].high = mk.high
      /\ \A m \in NodeIds : m # n => node'[m] = node[m]
  <2>1. /\ Used' = Used \cup {n} /\ n \in Inner /\ n \notin Used
        /\ node'[n] = [level |-> mk.level, low |-> mk.low, high |-> mk.high,
                       xvar |-> varcounter + 1, dclause |-> counter + 1, ref |-> 0]
        /\ \A m \in NodeIds : m # n => node'[m] = node[m]
    BY FreshFacts
  <2> QED
    BY <2>1 DEF Live, Inner
<1>2. /\ mk.low # mk.high /\ Matching = {} /\ mk.low \in Live /\ mk.high \in Live
      /\ mk.level < node[mk.low].level /\ mk.level < node[mk.high].level
  BY DEF MakeFresh, MustBuild, Ordered, RootsInv
<1> HIDE DEF n
<1>3. \A m \in Live : m \in NodeIds /\ m # n /\ node'[m] = node[m]
  BY <1>1, NodeIdFacts
<1>4. \A m \in Used : m \in Live /\ node[m].low \in Live /\ node[m].high \in Live
  BY DEF TableInv, Live
<1>5. ASSUME NEW m \in Used'
      PROVE  /\ node'[m].low # node'[m].high
             /\ node'[m].level < node'[node'[m].low].level
             /\ node'[m].level < node'[node'[m].high].level
  <2>1. CASE m = n
    BY <1>1, <1>2, <1>3, <2>1
  <2>2. CASE m \in Used
    <3>1. /\ node'[m] = node[m] /\ node'[node[m].low] = node[node[m].low]
          /\ node'[node[m].high] = node[node[m].high]
      BY <1>3, <1>4, <2>2
    <3> QED
      BY <2>2, <3>1 DEF Canonical
  <2> QED
    BY <1>1, <2>1, <2>2
<1>6. ASSUME NEW m \in Used', NEW k \in Used', node'[m].level = node'[k].level,
             node'[m].low = node'[k].low, node'[m].high = node'[k].high
      PROVE  m = k
  <2>1. CASE m \in Used /\ k \in Used
    BY <1>3, <1>4, <1>6, <2>1 DEF Canonical
  <2>2. \A j \in Used : ~(/\ node'[j].level = node'[n].level /\ node'[j].low = node'[n].low
                          /\ node'[j].high = node'[n].high)
    BY <1>1, <1>2, <1>3, <1>4 DEF Matching
  <2> QED
    BY <1>1, <1>6, <2>1, <2>2
<1> QED
  BY <1>5, <1>6 DEF Canonical

\* A collection leaves the nodes it keeps as they are.
LEMMA CanonicalCollect ==
    ASSUME TypeOK, TableInv, Canonical, Collect
    PROVE  Canonical'
<1>1. Used' \subseteq Used /\ TableInv' /\ \A n \in Live' : node'[n] = node[n]
  BY CollectFacts
<1>2. \A n \in Used' : n \in Live' /\ node'[n].low \in Live' /\ node'[n].high \in Live'
  BY <1>1 DEF TableInv, Live
<1>3. ASSUME NEW n \in Used'
      PROVE  /\ node'[n].low # node'[n].high
             /\ node'[n].level < node'[node'[n].low].level
             /\ node'[n].level < node'[node'[n].high].level
  <2>1. /\ n \in Used /\ node'[n] = node[n] /\ node'[node'[n].low] = node[node'[n].low]
        /\ node'[node'[n].high] = node[node'[n].high]
    BY <1>1, <1>2
  <2> QED
    BY <2>1 DEF Canonical
<1>4. ASSUME NEW n \in Used', NEW m \in Used', node'[m].level = node'[n].level,
             node'[m].low = node'[n].low, node'[m].high = node'[n].high
      PROVE  m = n
  <2>1. m \in Used /\ n \in Used /\ node'[m] = node[m] /\ node'[n] = node[n]
    BY <1>1, <1>2
  <2> QED
    BY <1>4, <2>1 DEF Canonical
<1> QED
  BY <1>3, <1>4 DEF Canonical

\* Every step keeps the table canonical.
LEMMA CanonicalStep ==
    ASSUME IInv, Canonical, Internal \/ Client
    PROVE  Canonical'
<1>1. Running /\ TopPre /\ TypeOK /\ TableInv /\ RootsInv /\ ControlInv
  BY StillRunning DEF IInv, TopPre
<1>2. CASE ~MakeFresh /\ ~MakeGbc
  BY <1>1, <1>2, ShapeKept, CanonicalSame
<1>3. CASE MakeFresh
  BY <1>1, <1>3, CanonicalFresh
<1>4. CASE MakeGbc
  <2>1. Collect \/ UNCHANGED node
    BY <1>4 DEF MakeGbc
  <2>2. CASE UNCHANGED node
    BY <1>1, <2>2, SameIfUnchanged, CanonicalSame
  <2> QED
    BY <1>1, <2>1, <2>2, CanonicalCollect
<1> QED
  BY <1>2, <1>3, <1>4

-----------------------------------------------------------------------------
(* Levels along the recursion *)

USE DEF Quiet, kernelVars

\* What is split is at the least of the levels of the arguments.
LEMMA SplitBelow ==
    ASSUME TableInv, NEW c \in Calls, {c.l, c.r, c.t} \subseteq Live
    PROVE  /\ \A n \in Arguments(c) : SplitLevel(node, c) <= node[n].level
           /\ \E n \in Arguments(c) : SplitLevel(node, c) = node[n].level
<1> DEFINE lev == {node[n].level : n \in Arguments(c)}
<1>1. Arguments(c) \subseteq Live /\ c.l \in Arguments(c)
  BY DEF Arguments
<1>2. lev \in SUBSET Nat /\ lev # {}
  BY <1>1, InnerLevel, SizeAssumption
<1>3. PICK x \in lev : \A y \in lev : x <= y
  BY <1>2, LeastNumber
<1>4. \A n \in Arguments(c) : x <= node[n].level
  BY <1>3
<1>5. SplitLevel(node, c) = CHOOSE v \in lev : \A n \in Arguments(c) : v <= node[n].level
  BY DEF SplitLevel, Arguments
<1>6. SplitLevel(node, c) \in lev /\ \A n \in Arguments(c) : SplitLevel(node, c) <= node[n].level
  <2> HIDE DEF lev
  <2> QED BY <1>3, <1>4, <1>5
<1> QED
  BY <1>6

\* The cofactors of a node lie below the level it is split at.
LEMMA CofactorBelow ==
    ASSUME TableInv, Canonical, NEW n \in Live, NEW lev \in 1..NumVars, lev <= node[n].level, NEW b
    PROVE  lev < node[Cofactor(node, n, lev, b)].level
<1>1. node[n].level \in 1..(NumVars + 1) /\ NumVars \in Nat
  BY InnerLevel, SizeAssumption
<1>2. CASE node[n].level # lev
  BY <1>1, <1>2 DEF Cofactor
<1>3. CASE node[n].level = lev
  <2>1. n \notin Terminals
    <3>1. n \in Terminals => node[n] = Terminal(n)
      BY DEF TableInv
    <3>2. Terminal(n).level = NumVars + 1
      BY DEF Terminal
    <3> QED
      BY <1>1, <1>3, <3>1, <3>2
  <2>2. lev < node[node[n].low].level /\ lev < node[node[n].high].level
    BY <1>3, <2>1 DEF Live, Canonical
  <2> QED
    BY <1>3, <2>2 DEF Cofactor
<1> QED
  BY <1>2, <1>3

\* So do the arguments of the recursive calls.
LEMMA SubCallBelow ==
    ASSUME TableInv, Canonical, NEW c, {c.l, c.r, c.t} \subseteq Live, NEW lev \in 1..NumVars,
           \A n \in Arguments(c) : lev <= node[n].level, NEW b
    PROVE  \A n \in Arguments(SubCall(node, c, lev, b)) : lev < node[n].level
<1> DEFINE s == SubCall(node, c, lev, b)
<1>1. /\ s.op = c.op /\ s.l = Cofactor(node, c.l, lev, b) /\ s.r = Cofactor(node, c.r, lev, b)
      /\ c.op = "aij" => s.t = Cofactor(node, c.t, lev, b)
  BY DEF SubCall
<1>2. c.l \in Live /\ c.l \in Arguments(c) /\ c.r \in Live /\ c.r \in Arguments(c)
      /\ (c.op = "aij" => c.t \in Live /\ c.t \in Arguments(c))
  BY DEF Arguments
<1> HIDE DEF s
<1>3. lev < node[s.l].level /\ lev < node[s.r].level /\ (c.op = "aij" => lev < node[s.t].level)
  BY <1>1, <1>2, CofactorBelow
<1>4. \A n \in Arguments(s) : lev < node[n].level
  BY <1>1, <1>3 DEF Arguments
<1> QED
  BY <1>4 DEF s

\* No step moves what every collection keeps to another level.
LEMMA SafeLevels ==
    ASSUME IInv, Internal \/ Client
    PROVE  \A n \in Safe : node'[n].level = node[n].level
<1>1. Running /\ TopPre /\ TypeOK /\ TableInv /\ RootsInv /\ ControlInv
  BY StillRunning DEF IInv, TopPre
<1>2. \A n \in Safe : n \in Live /\ n \in NodeIds
  BY SafeLive, NodeIdFacts
<1>3. CASE ~MakeFresh /\ ~MakeGbc
  BY <1>1, <1>2, <1>3, ShapeKept DEF SameNodes
<1>4. CASE MakeFresh
  <2>1. \A n \in Live : node'[n] = node[n]
    BY <1>1, <1>4, FreshFacts, NodeIdFacts DEF Live, Inner
  <2> QED
    BY <1>2, <2>1
<1>5. CASE MakeGbc
  <2>1. Collect \/ UNCHANGED node
    BY <1>5 DEF MakeGbc
  <2>2. ASSUME Collect PROVE \A n \in Safe : node'[n] = node[n]
    BY <1>1, <2>2, CollectFacts, SafeLiveNext
  <2> QED
    BY <2>1, <2>2
<1> QED
  BY <1>3, <1>4, <1>5

\* The levels stay as they are when no call is made.
LEMMA LevelsKept ==
    ASSUME RootsInv, LevelsInv, UNCHANGED stack, \A n \in Safe : node'[n].level = node[n].level,
           pc' # "call" \/ stack = <<>> \/ (pc = "call" /\ UNCHANGED call /\ call.l \in Safe
                                            /\ call.r \in Safe /\ call.t \in Safe)
    PROVE  LevelsInv'
<1>1. \A i \in DOMAIN stack : Arguments(stack[i]) \subseteq Safe
  BY DEF RootsInv, Arguments
<1>2. UNCHANGED call => Arguments(call') = Arguments(call)
  BY DEF Arguments
<1>3. \A i \in DOMAIN stack : \A n \in Arguments(stack'[i]) : stack'[i].level <= node'[n].level
  BY <1>1 DEF LevelsInv, Arguments
<1>4. \A i, j \in DOMAIN stack : i < j => stack[i].level < stack[j].level
  BY DEF LevelsInv
<1>5. ASSUME pc' = "call", stack # <<>>, NEW n \in Arguments(call') PROVE Top'.level < node'[n].level
  <2>1. n \in Safe /\ n \in Arguments(call) /\ pc = "call"
    BY <1>5, <1>2 DEF Arguments
  <2>2. Top' = Top
    BY DEF Top
  <2> QED
    BY <1>5, <2>1, <2>2 DEF LevelsInv
<1> QED
  BY <1>3, <1>4, <1>5 DEF LevelsInv, Arguments

\* Every step of a run that goes on keeps the levels along the recursion.
LEMMA LevelsStep ==
    ASSUME IInv, Canonical, LevelsInv, Running', Internal \/ Client
    PROVE  LevelsInv'
<1>1. Running /\ TypeOK /\ TableInv /\ RootsInv /\ ControlInv
  BY StillRunning DEF IInv
<1>2. /\ \A n \in Safe : node'[n].level = node[n].level
      /\ \A n \in Safe : n \in Live
  BY SafeLevels, SafeLive
<1>3. /\ call \in Calls /\ stack \in Seq(Frames)
      /\ pc = "call" => {call.l, call.r, call.t} \subseteq Safe
      /\ \A i \in DOMAIN stack : {stack[i].l, stack[i].r, stack[i].t} \subseteq Safe
  BY <1>1 DEF TypeOK, RootsInv, ApplyPcs
<1>4. ASSUME UNCHANGED stack, pc' # "call" \/ stack = <<>>
      PROVE  LevelsInv'
  BY <1>1, <1>2, <1>4, LevelsKept
<1>5. CASE EnterDegenerate
  <2>1. /\ UNCHANGED <<stack, node, pc>> /\ pc = "call" /\ call' = Weaker(call) /\ call.op = "aij"
    BY <1>5 DEF EnterDegenerate, Degenerate
  <2>2. Arguments(call') \subseteq Arguments(call)
    BY <2>1 DEF Arguments, Weaker
  <2> QED
    BY <2>1, <2>2 DEF LevelsInv, Top, Arguments
<1>6. CASE EnterMiss
  <2> DEFINE f == Frame(call)
  <2>1. /\ stack' = Append(stack, f) /\ UNCHANGED <<node, pc>> /\ pc = "call" /\ Splits(call)
        /\ call' = SubCall(node, f, f.level, 0)
    BY <1>6 DEF EnterMiss, CallCofactor
  <2>2. /\ f \in Frames /\ {f.l, f.r, f.t} \subseteq Live
        /\ Arguments(f) = Arguments(call) /\ f.level = SplitLevel(node, call)
    <3>1. f \in Frames /\ {f.l, f.r, f.t} \subseteq Live
      BY <1>1, <1>2, <1>3, <2>1, FrameType
    <3> QED
      BY <3>1 DEF Frame, Arguments
  <2>3. /\ \A n \in Arguments(f) : f.level <= node[n].level
        /\ \E n \in Arguments(f) : f.level = node[n].level
    BY <1>1, <1>2, <1>3, <2>1, <2>2, SplitBelow
  <2>4. f.level \in 1..NumVars
    BY <2>2 DEF Frames
  <2> HIDE DEF f
  <2>5. \A n \in Arguments(call') : f.level < node[n].level
    BY <1>1, <2>1, <2>2, <2>3, <2>4, SubCallBelow
  <2>6. /\ DOMAIN stack = 1..Len(stack) /\ Len(stack) \in Nat
        /\ DOMAIN stack' = 1..(Len(stack) + 1) /\ Len(stack') = Len(stack) + 1
        /\ \A i \in 1..Len(stack) : stack'[i] = stack[i]
        /\ stack'[Len(stack) + 1] = f /\ Top' = f
    BY <1>3, <2>1, <2>2 DEF Top
  <2>7. ASSUME NEW i \in DOMAIN stack PROVE stack[i].level < f.level
    <3>1. i <= Len(stack) /\ stack # <<>> /\ Len(stack) \in DOMAIN stack
      BY <1>3, <2>6
    <3>2. stack[i] \in Frames /\ stack[Len(stack)] \in Frames
      BY <1>3, <3>1
    <3>3. stack[i].level \in Int /\ Top.level \in Int
      BY <3>2, SizeAssumption DEF Frames, Top
    <3>4. Top.level < f.level
      BY <2>1, <2>2, <2>3, <3>1 DEF LevelsInv
    <3>5. stack[i].level <= Top.level
      BY <2>6, <3>1, <3>3 DEF LevelsInv, Top
    <3>6. f.level \in Int
      BY <2>4
    <3> QED
      BY <3>4, <3>5, <3>6, <3>3
  <2>8. \A i \in DOMAIN stack' : \A n \in Arguments(stack'[i]) : stack'[i].level <= node'[n].level
    <3>1. \A i \in 1..Len(stack) : \A n \in Arguments(stack[i]) : stack[i].level <= node[n].level
      BY <2>6 DEF LevelsInv
    <3>2. \A i \in DOMAIN stack' : i \in 1..Len(stack) \/ i = Len(stack) + 1
      BY <2>6
    <3> QED
      BY <2>1, <2>3, <2>6, <3>1, <3>2
  <2>9. \A i, j \in DOMAIN stack' : i < j => stack'[i].level < stack'[j].level
    <3>1. ASSUME NEW i \in DOMAIN stack', NEW j \in DOMAIN stack', i < j
          PROVE  stack'[i].level < stack'[j].level
      <4>1. i \in DOMAIN stack /\ (j \in DOMAIN stack \/ j = Len(stack) + 1)
        BY <2>6, <3>1
      <4> QED
        BY <2>6, <2>7, <3>1, <4>1 DEF LevelsInv
    <3> QED
      BY <3>1
  <2>10. \A n \in Arguments(call') : Top'.level < node'[n].level
    BY <2>1, <2>5, <2>6
  <2> QED
    BY <2>8, <2>9, <2>10 DEF LevelsInv, Arguments
<1>7. ASSUME stack # <<>>, Len(stack') = Len(stack), stack' \in Seq(Frames), UNCHANGED node,
             \A i \in DOMAIN stack : /\ stack'[i].level = stack[i].level
                                     /\ Arguments(stack'[i]) = Arguments(stack[i]),
             pc' = "call" => \A n \in Arguments(call') : Top.level < node[n].level
      PROVE  LevelsInv'
  <2>1. DOMAIN stack' = DOMAIN stack /\ Len(stack) \in DOMAIN stack /\ Top'.level = Top.level
    BY <1>3, <1>7, TopFrame, <1>1 DEF Top
  <2> QED
    BY <1>7, <2>1 DEF LevelsInv, Arguments
<1>8. CASE ReturnLow
  <2> DEFINE t == [Top EXCEPT !.half = "high", !.low = ret]
  <2>1. /\ stack # <<>> /\ UNCHANGED node /\ call' = SubCall(node, Top, Top.level, 1)
        /\ stack' = [stack EXCEPT ![Len(stack)] = t]
    BY <1>8 DEF ReturnLow, CallCofactor, Top
  <2>2. Top \in Frames /\ Len(stack) \in DOMAIN stack /\ ret \in Pcbdd
    BY <1>1, <2>1, TopFrame DEF TypeOK
  <2>3. t \in Frames /\ t.level = Top.level /\ t.op = Top.op /\ t.l = Top.l /\ t.r = Top.r /\ t.t = Top.t
    BY <2>2 DEF Frames
  <2>4. Arguments(t) = Arguments(Top)
    BY <2>3 DEF Arguments
  <2> HIDE DEF t
  <2>5. stack' \in Seq(Frames) /\ Len(stack') = Len(stack)
        /\ \A i \in DOMAIN stack : stack'[i] = IF i = Len(stack) THEN t ELSE stack[i]
    BY <1>3, <2>1, <2>2, <2>3, ExceptSeq
  <2>6. \A i \in DOMAIN stack : /\ stack'[i].level = stack[i].level
                                /\ Arguments(stack'[i]) = Arguments(stack[i])
    BY <2>2, <2>3, <2>4, <2>5 DEF Top
  <2>7. Top.level \in 1..NumVars /\ {Top.l, Top.r, Top.t} \subseteq Live
        /\ \A n \in Arguments(Top) : Top.level <= node[n].level
    BY <1>2, <1>3, <2>2 DEF Frames, Top, LevelsInv
  <2>8. \A n \in Arguments(call') : Top.level < node[n].level
    BY <1>1, <2>1, <2>7, SubCallBelow
  <2> QED
    BY <1>7, <2>1, <2>5, <2>6, <2>8
<1>9. CASE ReturnHigh
  <2> DEFINE t == [Top EXCEPT !.high = ret]
  <2>1. /\ stack # <<>> /\ UNCHANGED node /\ pc' # "call" /\ stack' = [stack EXCEPT ![Len(stack)] = t]
    BY <1>9 DEF ReturnHigh, Top
  <2>2. Top \in Frames /\ Len(stack) \in DOMAIN stack /\ ret \in Pcbdd
    BY <1>1, <2>1, TopFrame DEF TypeOK
  <2>3. t \in Frames /\ t.level = Top.level /\ t.op = Top.op /\ t.l = Top.l /\ t.r = Top.r /\ t.t = Top.t
    BY <2>2 DEF Frames
  <2>4. Arguments(t) = Arguments(Top)
    BY <2>3 DEF Arguments
  <2> HIDE DEF t
  <2>5. stack' \in Seq(Frames) /\ Len(stack') = Len(stack)
        /\ \A i \in DOMAIN stack : stack'[i] = IF i = Len(stack) THEN t ELSE stack[i]
    BY <1>3, <2>1, <2>2, <2>3, ExceptSeq
  <2>6. \A i \in DOMAIN stack : /\ stack'[i].level = stack[i].level
                                /\ Arguments(stack'[i]) = Arguments(stack[i])
    BY <2>2, <2>3, <2>4, <2>5 DEF Top
  <2> QED
    BY <1>7, <2>1, <2>5, <2>6
<1>10. CASE JustifyStep
  <2>1. /\ stack # <<>> /\ UNCHANGED node /\ pc' # "call"
        /\ UNCHANGED stack \/ stack' = SubSeq(stack, 1, Len(stack) - 1)
    BY <1>10 DEF JustifyStep
  <2>2. ASSUME stack' = SubSeq(stack, 1, Len(stack) - 1)
        PROVE  LevelsInv'
    <3>1. DOMAIN stack' \subseteq DOMAIN stack /\ \A i \in DOMAIN stack' : stack'[i] = stack[i]
      BY <1>1, <1>3, <2>1, <2>2, ShorterStack
    <3>2. \A i \in DOMAIN stack' : \A n \in Arguments(stack'[i]) : stack'[i].level <= node'[n].level
      BY <2>1, <3>1 DEF LevelsInv
    <3> QED
      BY <2>1, <3>1, <3>2 DEF LevelsInv, Arguments
  <2> QED
    BY <1>4, <2>1, <2>2
<1>11. CASE EnterLeaf \/ EnterRefuted
  BY <1>4, <1>11 DEF EnterLeaf, EnterRefuted
<1>12. CASE MakeFound \/ MakeFresh \/ MakeGbc \/ Grow
  <2>1. UNCHANGED stack /\ pc' # "call"
    BY <1>12 DEF MakeFound, MakeFresh, MakeGbc, Grow, AfterGrow
  <2> QED
    BY <1>4, <2>1
<1>13. CASE \/ SetVar \/ VarMade \/ BuildLiteral \/ LiteralMade \/ ClauseBuilt \/ CheckBuilt
            \/ Walk \/ ClauseWalked \/ CheckWalked \/ FinishApply
  <2>1. stack = <<>> /\ UNCHANGED stack
    BY <1>1, <1>13 DEF ControlInv, ApplyPcs, MakePcs, SetVar, VarMade, BuildLiteral, LiteralMade,
       ClauseBuilt, CheckBuilt, Walk, ClauseWalked, CheckWalked, FinishApply
  <2> QED
    BY <1>4, <2>1
<1>14. CASE Client
  <2>1. pc = "client" /\ UNCHANGED stack
    BY <1>14, ZenonT(60) DEF Client, FromClause, Addref, Validate, And, ValidateWithAnd, Delref,
       ValidateClause, Done, MayStart
  <2>2. stack = <<>>
    BY <1>1, <2>1 DEF ControlInv, ApplyPcs, MakePcs
  <2> QED
    BY <1>4, <2>1, <2>2
<1> QED
  BY <1>5, <1>6, <1>8, <1>9, <1>10, <1>11, <1>12, <1>13, <1>14 DEF Internal

-----------------------------------------------------------------------------
(* The depth of the recursion *)

\* There are no more frames than levels, and so no more pending results.
LEMMA DepthBound ==
    ASSUME TypeOK, LevelsInv, StackInv
    PROVE  Len(refstack) <= NumVars + 1
<1> DEFINE f == [i \in DOMAIN stack |-> stack[i].level]
<1>1. NumVars \in Nat /\ Len(stack) \in Nat /\ DOMAIN stack = 1..Len(stack)
  BY SizeAssumption DEF TypeOK
<1>2. \A i \in DOMAIN stack : stack[i].level \in 1..NumVars
  <2>1. \A i \in DOMAIN stack : stack[i] \in Frames
    BY <1>1, ElementOfSeq DEF TypeOK
  <2> QED
    BY <2>1 DEF Frames
<1>3. f \in [DOMAIN stack -> 1..NumVars]
  BY <1>2
<1>4. ASSUME NEW i \in DOMAIN stack, NEW j \in DOMAIN stack, f[i] = f[j] PROVE i = j
  <2>1. i \in Int /\ j \in Int /\ stack[i].level \in Int /\ stack[i].level = stack[j].level
    BY <1>1, <1>2, <1>4
  <2> QED
    BY <1>4, <2>1 DEF LevelsInv
<1>5. f \in Injection(DOMAIN stack, 1..NumVars)
  BY <1>3, <1>4 DEF Injection, IsInjective
<1>6. IsFiniteSet(1..NumVars) /\ Cardinality(1..NumVars) = NumVars
  BY <1>1, FS_Interval
<1>7. IsFiniteSet(DOMAIN stack) /\ Cardinality(DOMAIN stack) <= NumVars
  BY <1>5, <1>6, FS_Injection
<1>8. HighHalves \subseteq DOMAIN stack
  BY DEF HighHalves
<1>9. Cardinality(HighHalves) <= Cardinality(DOMAIN stack)
      /\ Cardinality(HighHalves) \in Nat /\ Cardinality(DOMAIN stack) \in Nat
  BY <1>7, <1>8, FS_Subset, FS_CardinalityType
<1> QED
  BY <1>1, <1>7, <1>9 DEF StackInv

\* The program ends with bddrefstack as it was.
LEMMA RefstackKept ==
    ASSUME IInv, Internal \/ Client, ~Running'
    PROVE  UNCHANGED refstack
<1>1. pc' \in {"exit", "done"}
  BY DEF Running
<1>2. CASE Internal
  BY <1>1, <1>2 DEF Internal, SetVar, VarMade, MakeFound, MakeFresh, MakeGbc, Grow, EnterLeaf,
     EnterDegenerate, EnterRefuted, EnterMiss, ReturnLow, ReturnHigh, JustifyStep, FinishApply,
     BuildLiteral, LiteralMade, ClauseBuilt, CheckBuilt, StartApply, Walk, ClauseWalked, CheckWalked,
     Return
<1>3. CASE Client
  <2>1. ASSUME NEW h \in Open, NEW g \in Owned, NEW k \in Owned, NEW r \in Nameable,
               Addref(h, g) \/ Validate(h, r, g) \/ And(h, g, k) \/ ValidateWithAnd(h, r, g, k)
        PROVE  FALSE
    BY <1>1, <2>1 DEF Addref, Validate, And, ValidateWithAnd, StartApply, MayStart
  <2>2. ASSUME NEW h \in Open, NEW id \in DOMAIN InputClauses, FromClause(h, id) PROVE FALSE
    BY <1>1, <2>2 DEF FromClause, StartBuild
  <2>3. ASSUME NEW h \in Owned, NEW lits \in ClientClauses, ValidateClause(lits, h) PROVE FALSE
    BY <1>1, <2>3 DEF ValidateClause, StartBuild
  <2>4. ASSUME NEW h \in Owned, Delref(h) PROVE UNCHANGED refstack
    BY <2>4 DEF Delref
  <2>5. Done => UNCHANGED refstack
    BY DEF Done
  <2>6. 0 \in Nameable
    BY DEF Nameable
  <2> QED
    BY <1>3, <2>1, <2>2, <2>3, <2>4, <2>5, <2>6 DEF Client
<1> QED
  BY <1>2, <1>3

\* The three parts of the order go together.
LEMMA OrderStep ==
    ASSUME IInv, OrderInv, IInv', Internal \/ Client
    PROVE  OrderInv'
<1>1. Canonical'
  BY CanonicalStep DEF OrderInv
<1>2. ASSUME Running' PROVE LevelsInv' /\ RefstackExact'
  <2>1. LevelsInv'
    BY <1>2, LevelsStep, StillRunning DEF OrderInv
  <2>2. (TypeOK /\ StackInv)'
    BY <1>2 DEF IInv
  <2>3. (Len(refstack) <= NumVars + 1)'
    BY <2>1, <2>2, DepthBound, PTL
  <2> QED
    BY <2>1, <2>2, <2>3 DEF RefstackExact, StackInv, HighHalves
<1>3. ASSUME ~Running' PROVE RefstackExact'
  BY <1>3, RefstackKept DEF OrderInv, RefstackExact
<1> QED
  BY <1>1, <1>2, <1>3 DEF OrderInv

\* The order of the table and the depth of the recursion hold of every run.
THEOREM OrderKept == Spec => []OrderInv
<1>1. Init => OrderInv
  <2>1. ASSUME Init PROVE Used = {} /\ stack = <<>> /\ refstack = <<>> /\ pc = "setvarnum"
    BY <2>1, NodeIdFacts DEF Init, Used, FreeNode
  <2>2. ASSUME Init PROVE HighHalves = {} /\ Len(refstack) = 0 /\ ~Combining
    BY <2>1, <2>2 DEF HighHalves, Combining
  <2>3. ASSUME Init PROVE RefstackExact
    <3>1. Cardinality(HighHalves) = 0
      BY <2>2, <2>3, FS_EmptySet
    <3>2. Len(refstack) = 0 /\ ~Combining /\ 0 <= NumVars + 1
      BY <2>2, <2>3, SizeAssumption
    <3>3. Len(refstack) = Cardinality(HighHalves) + IF Combining THEN 1 ELSE 0
      BY <3>1, <3>2
    <3> QED
      BY <3>2, <3>3 DEF RefstackExact, HighHalves
  <2> QED
    BY <2>1, <2>3 DEF OrderInv, Canonical, LevelsInv
<1>2. IInv /\ IInv' /\ OrderInv /\ [Next]_vars => OrderInv'
  <2>1. ASSUME OrderInv, UNCHANGED vars PROVE OrderInv'
    <3>1. UNCHANGED node
      BY <2>1 DEF vars
    <3> QED
      BY <2>1, <3>1, TableUnchanged DEF OrderInv, Canonical, RefstackExact, LevelsInv, Running,
         Combining, Top, Arguments, vars
  <2> QED
    BY <2>1, OrderStep DEF Next, Stopped
<1> QED
  BY <1>1, <1>2, Inductive, PTL DEF Spec

\* tbdd_validate and the terminal cases of the recursive functions compare roots:
\* bdd_makenode and bdd_gbc keep the unique table such that equal functions have
\* equal roots, whatever is collected and reused.
THEOREM TableIsCanonical == Spec => []Canonical
<1>1. OrderInv => Canonical
  BY DEF OrderInv
<1> QED
  BY <1>1, OrderKept, PTL

\* bddrefstack, which bdd_setvarnum allocates once for all, never overflows, and it
\* holds exactly the results of the recursive calls that are still to be combined.
THEOREM RefstackIsExact == Spec => []RefstackExact
<1>1. OrderInv => RefstackExact
  BY DEF OrderInv
<1> QED
  BY <1>1, OrderKept, PTL
=============================================================================
