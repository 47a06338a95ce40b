----------------------------- MODULE TbddKernel -----------------------------
(***************************************************************************)
(* The trusted BDD package: the unique table with its reference counts and *)
(* garbage collector (kernel.c), the proof-generating apply operations and  *)
(* their cache (bddop.c, cache.c), trusted BDDs with their own reference    *)
(* counts (tbdd.c), and the proof file they write (prover.c, LRAT).         *)
(*                                                                          *)
(* The package runs in one thread.  Its C stack is modelled by stack (the   *)
(* frames of applyj_rec and apply_aij_rec), job (the top-level operation)   *)
(* and pc; an action is one piece of the code between two calls.  The       *)
(* client is free to call any operation whenever none is running.           *)
(***************************************************************************)
EXTENDS ApplyProof, LratRules

CONSTANTS
    NumVars,        \* input variables, numbered and ordered 1..NumVars
    InputClauses,   \* sequence of the clauses of the CNF file
    InitNodes,      \* bddnodesize after bdd_init
    MaxNodes,       \* bddmaxnodesize
    MaxIncrease,    \* bddmaxnodeincrease
    MinFree,        \* minfreenodes, in percent
    MaxRef,         \* MAXREF: a reference count that gets there stays there
    Slots,          \* slots of the operation cache
    SlotOf(_, _, _),\* APPLYHASH modulo the size of the cache
    Handles,        \* variables of the client that hold a trusted BDD
    ClientOps,      \* the operations this client uses, of AllOps
    ClientClauses,  \* clauses the client asks tbdd_validate_clause for
    MaxClause       \* bound: no operation starts once the counter is beyond it

Tmp == "tcr"        \* the local variable of tbdd_validate_clause
Holders == Handles \cup {Tmp}

VARIABLES
    node, nodesize, resized,     \* kernel.c
    refstack,                    \* bddrefstack
    cache,                       \* opcache
    deferred,                    \* deferred_deletion_list
    counter, varcounter,         \* *clause_id_counter, *variable_counter
    emptyId,                     \* empty_clause_id
    db, log,                     \* the proof file, as ProofLog reads it
    handle,                      \* TBDD structs held by the client
    rc,                          \* rc_table: unit clause id -> count
    pc, job, mk, call, ret, stack

kernelVars == <<node, nodesize, resized>>
proofVars  == <<counter, emptyId, db, log>>
vars == <<node, nodesize, resized, refstack, cache, deferred, counter, varcounter,
          emptyId, db, log, handle, rc, pc, job, mk, call, ret, stack>>

LogSpec == INSTANCE ProofLog

-----------------------------------------------------------------------------
(* The unique table *)

Terminals == {0, 1}
NodeIds   == 0..(MaxNodes - 1)
Inner     == NodeIds \ Terminals
Used      == {n \in Inner : node[n].low # -1}
Free      == {n \in Inner : n < nodesize /\ node[n].low = -1}

FreeNode  == [level |-> 0, low |-> -1, high |-> -1, xvar |-> 0, dclause |-> 0, ref |-> 0]
Terminal(n) == [level |-> NumVars + 1, low |-> n, high |-> n, dclause |-> 0, ref |-> MaxRef,
                xvar |-> IF n = 1 THEN TAUTOLOGY ELSE -TAUTOLOGY]

IncRef(nd, n) ==
    IF n < 2 \/ nd[n].ref = MaxRef THEN nd ELSE [nd EXCEPT ![n].ref = @ + 1]
DecRef(nd, n) ==
    IF n < 2 \/ nd[n].ref = MaxRef \/ nd[n].ref = 0 THEN nd ELSE [nd EXCEPT ![n].ref = @ - 1]

\* bdd_mark from every root: the used nodes in every closed set around them.
ClosedUnder(S) == \A n \in S : {node[n].low, node[n].high} \cap Used \subseteq S
Reach(roots) ==
    LET closed == {S \in SUBSET Used : roots \cap Used \subseteq S /\ ClosedUnder(S)}
    IN  {n \in Used : \A S \in closed : n \in S}

Referenced == {n \in Used : node[n].ref > 0}

\* bdd_prime_lte
PrimeLte(x) ==
    CHOOSE p \in 2..x : /\ \A d \in 2..(p - 1) : p % d # 0
                        /\ \A q \in (p + 1)..x : \E d \in 2..(q - 1) : q % d = 0
MinOf(a, b) == IF a < b THEN a ELSE b
NewSize(size) == PrimeLte(MinOf(MinOf(2 * size, size + MaxIncrease), MaxNodes))

\* bdd_noderesize threads the new nodes from oldsize on: the table must grow.
ASSUME GrowthAssumption ==
    /\ InitNodes \in Nat /\ InitNodes >= 2 /\ InitNodes <= MaxNodes
    /\ MaxNodes \in Nat /\ MaxIncrease \in Nat /\ MinFree \in Nat
    /\ \A size \in InitNodes..(MaxNodes - 1) : NewSize(size) \in (size + 1)..MaxNodes
ASSUME SizeAssumption ==
    NumVars \in Nat /\ MaxRef \in Nat \ {0} /\ MaxClause \in Nat
ASSUME SlotAssumption ==
    \A a, b \in NodeIds, c \in NodeIds \cup {18, 19} : SlotOf(a, b, c) \in Slots
ASSUME ClientAssumption == IsFiniteSet(Handles) /\ Tmp \notin Handles
Literals == (-NumVars..NumVars) \ {0}
ASSUME InputAssumption ==
    /\ InputClauses \in Seq(SUBSET Literals) /\ ClientClauses \subseteq SUBSET Literals
    /\ \A c \in {InputClauses[i] : i \in DOMAIN InputClauses} \cup ClientClauses :
          c # {} /\ \A x \in c : -x \notin c

-----------------------------------------------------------------------------
(* The proof file: generate_clause and delete_clauses *)

\* generate_clause on each line of add, then delete_clauses on del.  Nothing
\* is written once the empty clause has been generated.
Emit(add, del) ==
    LET empty == {k \in DOMAIN add : add[k].lits = {}}
        out   == [add |-> add, del |-> IF empty = {} THEN del ELSE {}]
    IN  IF emptyId = TAUTOLOGY
        THEN /\ log' = out
             /\ db' = LogSpec!Replay(db, out.add, out.del)
             /\ emptyId' = IF empty = {} THEN TAUTOLOGY ELSE add[CHOOSE k \in empty : TRUE].id
        ELSE /\ log' = LogSpec!Nothing
             /\ UNCHANGED <<db, emptyId>>

Quiet == log' = LogSpec!Nothing /\ UNCHANGED <<counter, emptyId, db>>

\* A clause costs an id even when it is a tautology and is not written; its
\* id is then TAUTOLOGY.
GenId(lits, k) == IF CleanClause(lits) = TautClause THEN TAUTOLOGY ELSE counter + k
Gen(lits, hints, kind, k) ==
    IF CleanClause(lits) = TautClause THEN <<>>
    ELSE <<Line(counter + k, CleanClause(lits), hints, kind)>>

-----------------------------------------------------------------------------
(* The operation cache *)

NoEntry == [a |-> -1, b |-> -1, c |-> -1, op |-> "none", root |-> 0, cid |-> TAUTOLOGY]

OpCode(op) == CASE op = "and" -> 18 [] op = "imp" -> 19   \* bddop_andj, bddop_imptstj
Slot(op, l, r, t) == SlotOf(l, r, IF op = "aij" THEN t ELSE OpCode(op))

\* BddCache_clear_clauses: what evicting every entry defers.
CachedClauses == {cache[s].cid : s \in Slots} \ {TAUTOLOGY}

-----------------------------------------------------------------------------
(* Trusted BDDs *)

NoTbdd == [root |-> -1, cid |-> TAUTOLOGY]
NoJob  == [kind |-> "none", dest |-> Tmp, args |-> <<>>, lits |-> {}, todo |-> {},
           r |-> 0, id |-> 0, at |-> 0, ants |-> <<>>]
NoCall == [op |-> "and", l |-> 0, r |-> 0, t |-> 0]
NoMk   == [level |-> 0, low |-> 0, high |-> 0]
NoRet  == [root |-> 0, cid |-> TAUTOLOGY]

Held == {h \in Holders : handle[h].root # -1}
Open == {h \in Handles : handle[h].root = -1}

\* tbdd_delref: the count of its unit clause, and the clause that goes with it.
\* Mutants: the entry is not disposed of; the clause goes with the first reference.
RcKept(cid) == [rc EXCEPT ![cid] = @ - 1]
ReleasedAtOnce(t) == IF t.root # 0 THEN {t.cid} ELSE {}
RcAfter(cid) == IF rc[cid] = 1 THEN [c \in DOMAIN rc \ {cid} |-> rc[c]]
                ELSE [rc EXCEPT ![cid] = @ - 1]
Released(t) == IF rc[t.cid] = 1 /\ t.root # 0 THEN {t.cid} ELSE {}

\* The client keeps its TBDDs until the empty clause ends the proof.
AllOps == {"FromClause", "And", "Validate", "ValidateWithAnd", "ValidateClause", "Addref"}
MayStart(op) == pc = "client" /\ op \in ClientOps /\ emptyId = TAUTOLOGY /\ counter < MaxClause

\* The locals of an operation are gone when it returns.
Return ==
    /\ pc' = "client"
    /\ job' = NoJob /\ mk' = NoMk /\ call' = NoCall /\ ret' = NoRet

-----------------------------------------------------------------------------
Init ==
    /\ node = [n \in NodeIds |-> IF n \in Terminals THEN Terminal(n) ELSE FreeNode]
    /\ nodesize = InitNodes /\ resized = FALSE
    /\ refstack = <<>>
    /\ cache = [s \in Slots |-> NoEntry]
    /\ deferred = {}
    /\ counter = Len(InputClauses) /\ varcounter = NumVars /\ emptyId = TAUTOLOGY
    /\ LogSpec!Init
    /\ handle = [h \in Holders |-> NoTbdd]
    /\ rc = <<>>
    /\ pc = "setvarnum" /\ job = NoJob
    /\ mk = NoMk /\ call = NoCall /\ ret = NoRet /\ stack = <<>>

-----------------------------------------------------------------------------
(* bdd_setvarnum_ordered: the two nodes of every variable, pinned *)

SetVar ==
    /\ pc = "setvarnum"
    /\ IF job.id < 2 * NumVars
       THEN /\ mk' = [level |-> 1 + (job.id \div 2), low |-> job.id % 2, high |-> 1 - (job.id % 2)]
            /\ pc' = "makenode"
            /\ UNCHANGED job
       ELSE pc' = "client" /\ job' = NoJob /\ UNCHANGED mk
    /\ Quiet
    /\ UNCHANGED <<kernelVars, refstack, cache, deferred, varcounter, handle, rc, call, ret, stack>>

VarMade ==
    /\ pc = "made" /\ stack = <<>> /\ job.kind = "none"
    /\ node' = [node EXCEPT ![ret.root].ref = MaxRef]
    /\ job' = [job EXCEPT !.id = @ + 1]
    /\ pc' = "setvarnum"
    /\ Quiet
    /\ UNCHANGED <<nodesize, resized, refstack, cache, deferred, varcounter, handle, rc,
                   mk, call, ret, stack>>

-----------------------------------------------------------------------------
(* bdd_makenode and bdd_gbc *)

\* Mutants: an index that only finds nodes with references.
MatchingReferenced == {n \in Referenced : node[n].level = mk.level /\ node[n].low = mk.low
                                          /\ node[n].high = mk.high}
Matching == {n \in Used : node[n].level = mk.level /\ node[n].low = mk.low /\ node[n].high = mk.high}

MakeFound ==
    /\ pc = "makenode"
    /\ \/ mk.low = mk.high /\ ret' = [NoRet EXCEPT !.root = mk.low]
       \/ mk.low # mk.high /\ \E n \in Matching : ret' = [NoRet EXCEPT !.root = n]
    /\ pc' = "made"
    /\ Quiet
    /\ UNCHANGED <<kernelVars, refstack, cache, deferred, varcounter, handle, rc,
                   job, mk, call, stack>>

MustBuild == pc = "makenode" /\ mk.low # mk.high /\ Matching = {}
Ordered   == mk.level < node[mk.low].level /\ mk.level < node[mk.high].level

MakeFresh ==
    /\ MustBuild /\ Ordered /\ Free # {}
    /\ LET n    == CHOOSE n \in Free : \A m \in Free : n <= m
           nid  == varcounter + 1
           Def(d) == DefiningClause(d, nid, mk.level, node[mk.high].xvar, node[mk.low].xvar)
           up   == <<-GenId(Def("HU"), 1), -GenId(Def("LU"), 2)>>
       IN  /\ node' = [node EXCEPT ![n] =
                         [level |-> mk.level, low |-> mk.low, high |-> mk.high,
                          xvar |-> nid, dclause |-> counter + 1, ref |-> 0]]
           /\ Emit(Gen(Def("HU"), <<>>, "def", 1) \o Gen(Def("LU"), <<>>, "def", 2)
                   \o Gen(Def("HD"), up, "def", 3) \o Gen(Def("LD"), up, "def", 4), {})
           /\ ret' = [NoRet EXCEPT !.root = n]
    /\ varcounter' = varcounter + 1
    /\ counter' = counter + 4
    /\ pc' = "made"
    /\ UNCHANGED <<nodesize, resized, refstack, cache, deferred, handle, rc, job, mk, call, stack>>

\* bdd_gbc: the clauses of the nodes it frees are deleted at once, those of
\* the cached operations are deferred.
\* Mutants: marking forgets the pending results.
RootsWithoutStack == Referenced
GcRoots == RangeOf(refstack) \cup Referenced

Dead == Used \ Reach(GcRoots)

\* Mutants: the justifications are deleted at once; the cache is kept.
CollectAtOnce ==
    /\ node' = [n \in NodeIds |-> IF n \in Dead THEN FreeNode ELSE node[n]]
    /\ Emit(<<>>, (UNION {Dclauses(node, n) : n \in Dead}) \cup CachedClauses)
    /\ cache' = [s \in Slots |-> NoEntry]
    /\ UNCHANGED deferred
CollectWithCache ==
    /\ node' = [n \in NodeIds |-> IF n \in Dead THEN FreeNode ELSE node[n]]
    /\ Emit(<<>>, UNION {Dclauses(node, n) : n \in Dead})
    /\ UNCHANGED <<cache, deferred>>
Collect ==
    /\ node' = [n \in NodeIds |-> IF n \in Dead THEN FreeNode ELSE node[n]]
    /\ Emit(<<>>, UNION {Dclauses(node, n) : n \in Dead})
    /\ deferred' = deferred \cup CachedClauses
    /\ cache' = [s \in Slots |-> NoEntry]

\* A node out of order is an error that ends the program.
MakeGbc ==
    /\ MustBuild /\ (Free = {} \/ ~Ordered)
    /\ IF Ordered
       THEN Collect /\ pc' = "grow"
       ELSE pc' = "exit" /\ log' = LogSpec!Nothing /\ UNCHANGED <<node, db, emptyId, deferred, cache>>
    /\ UNCHANGED <<counter, nodesize, resized, refstack, varcounter, handle, rc,
                   job, mk, call, ret, stack>>

\* The table grows when the collection freed too little; bdd_error(BDD_NODENUM)
\* ends the program when there is still no free node.
\* Mutants: no end when the table is full.
Grows == (Cardinality(Free) * 100) \div nodesize <= MinFree /\ nodesize < MaxNodes
AfterGrowAlways == "makenode"
AfterGrow == IF Free = {} /\ ~Grows THEN "exit" ELSE "makenode"
Grow ==
    /\ pc = "grow"
    /\ nodesize' = IF Grows THEN NewSize(nodesize) ELSE nodesize
    /\ resized' = (resized \/ Grows)
    /\ pc' = AfterGrow
    /\ Quiet
    /\ UNCHANGED <<node, refstack, cache, deferred, varcounter, handle, rc,
                   job, mk, call, ret, stack>>

-----------------------------------------------------------------------------
(* applyj_rec and apply_aij_rec *)

Entry == cache[Slot(call.op, call.l, call.r, call.t)]
Hits  == /\ Entry.a = call.l /\ Entry.b = call.r /\ Entry.op = call.op
         /\ call.op = "aij" => Entry.c = call.t

Frame(c) ==
    [op |-> c.op, l |-> c.l, r |-> c.r, t |-> c.t, level |-> SplitLevel(node, c),
     half |-> "low", low |-> NoRet, high |-> NoRet]

Top == stack[Len(stack)]

CallCofactor(f, b) == call' = SubCall(node, f, f.level, b)

EnterLeaf ==
    /\ pc = "call"
    /\ \/ Sat(call) /\ ret' = [root |-> 1, cid |-> TAUTOLOGY]
       \/ AndLeaf(call) /\ ret' = [root |-> AndRoot(call), cid |-> TAUTOLOGY]
       \/ Splits(call) /\ Hits /\ ret' = [root |-> Entry.root, cid |-> Entry.cid]
    /\ pc' = "ret"
    /\ Quiet
    /\ UNCHANGED <<kernelVars, refstack, cache, deferred, varcounter, handle, rc,
                   job, mk, call, stack>>

\* apply_aij_rec falls back on an implication test.
EnterDegenerate ==
    /\ pc = "call" /\ Degenerate(call)
    /\ call' = Weaker(call)
    /\ Quiet
    /\ UNCHANGED <<kernelVars, refstack, cache, deferred, varcounter, handle, rc,
                   pc, job, mk, ret, stack>>

\* bdd_error(TBDD_PROOF): the default handler ends the program.
EnterRefuted ==
    /\ pc = "call" /\ Refuted(call)
    /\ pc' = "exit"
    /\ Quiet
    /\ UNCHANGED <<kernelVars, refstack, cache, deferred, varcounter, handle, rc,
                   job, mk, call, ret, stack>>

EnterMiss ==
    /\ pc = "call" /\ Splits(call) /\ ~Hits
    /\ stack' = Append(stack, Frame(call))
    /\ CallCofactor(Frame(call), 0)
    /\ Quiet
    /\ UNCHANGED <<kernelVars, refstack, cache, deferred, varcounter, handle, rc,
                   pc, job, mk, ret>>

ReturnLow ==
    /\ pc = "ret" /\ stack # <<>> /\ Top.half = "low"
    /\ refstack' = Append(refstack, ret.root)
    /\ stack' = [stack EXCEPT ![Len(stack)].half = "high", ![Len(stack)].low = ret]
    /\ CallCofactor(Top, 1)
    /\ pc' = "call"
    /\ Quiet
    /\ UNCHANGED <<kernelVars, cache, deferred, varcounter, handle, rc, job, mk, ret>>

ReturnHigh ==
    /\ pc = "ret" /\ stack # <<>> /\ Top.half = "high"
    /\ refstack' = Append(refstack, ret.root)
    /\ stack' = [stack EXCEPT ![Len(stack)].high = ret]
    /\ IF Top.op = "and"
       THEN /\ mk' = [level |-> Top.level, low |-> refstack[Len(refstack)], high |-> ret.root]
            /\ pc' = "makenode"
            /\ UNCHANGED ret
       ELSE /\ ret' = [root |-> IF Top.low.root = 1 /\ ret.root = 1 THEN 1 ELSE 0,
                       cid |-> TAUTOLOGY]
            /\ pc' = "made"
            /\ UNCHANGED mk
    /\ Quiet
    /\ UNCHANGED <<kernelVars, cache, deferred, varcounter, handle, rc, job, call>>

\* Mutants: a result that is not popped, an entry that is overwritten.
PopOne  == SubSeq(refstack, 1, Len(refstack) - 1)
Popped  == SubSeq(refstack, 1, Len(refstack) - 2)
EvictNothing(s) == {}
Evicted(s) == {cache[s].cid} \ {TAUTOLOGY}

\* justify_apply, POPREF(2), BddCache_clause_evict and the new cache entry.
JustifyStep ==
    /\ pc = "made" /\ stack # <<>>
    /\ LET f == Top
           s == Slot(f.op, f.l, f.r, f.t)
           j == Justify(node, IF f.op = "imp" THEN "imp" ELSE "and", f.l, f.r, f.level, f.low, f.high,
                        IF f.op = "aij" THEN f.t ELSE ret.root, counter)
       IN  IF ~j.ok
           THEN /\ pc' = "exit" /\ Quiet
                /\ UNCHANGED <<refstack, cache, deferred, ret, stack>>
           ELSE /\ Emit(j.add, j.del)
                /\ counter' = counter + Len(j.add)
                /\ deferred' = deferred \cup Evicted(s)
                /\ cache' = [cache EXCEPT ![s] =
                               [a |-> f.l, b |-> f.r, c |-> IF f.op = "aij" THEN f.t ELSE -1,
                                op |-> f.op, root |-> ret.root, cid |-> j.jid]]
                /\ refstack' = Popped
                /\ stack' = SubSeq(stack, 1, Len(stack) - 1)
                /\ ret' = [ret EXCEPT !.cid = j.jid]
                /\ pc' = "ret"
    /\ UNCHANGED <<kernelVars, varcounter, handle, rc, job, mk, call>>

-----------------------------------------------------------------------------
(* The top-level operations *)

\* tbdd_create, with the unit clause cid (TAUTOLOGY for the constant 1).
NewRc(cid) == [c \in DOMAIN rc \cup ({cid} \ {TAUTOLOGY}) |-> IF c = cid THEN 1 ELSE rc[c]]

\* tbdd_addref: dest becomes another reference to the same trusted BDD.
\* Mutants: the count of the unit clause is forgotten.
DuplicateBdd(dest, t) ==
    /\ node' = IncRef(node, t.root)
    /\ handle' = [handle EXCEPT ![dest] = t]
    /\ UNCHANGED rc
Duplicate(dest, t) ==
    /\ node' = IncRef(node, t.root)
    /\ rc' = IF t.cid = TAUTOLOGY THEN rc ELSE [rc EXCEPT ![t.cid] = @ + 1]
    /\ handle' = [handle EXCEPT ![dest] = t]

\* INITREF and the call of the recursive function.
StartApply(kind, dest, args, op, r) ==
    /\ job' = [job EXCEPT !.kind = kind, !.dest = dest, !.args = args, !.r = r]
    /\ refstack' = <<>>
    /\ call' = IF op = "imp" THEN [op |-> op, l |-> handle[args[1]].root, r |-> r, t |-> 0]
               ELSE [op |-> op, l |-> handle[args[1]].root, r |-> handle[args[2]].root, t |-> r]
    /\ pc' = "call"

\* The antecedents of the unit clause: the justification comes after the unit
\* clauses of the arguments of a conjunction, before that of an implication.
\* Mutants: always before.
UnitHintsFirst(units) == <<ret.cid>> \o units
UnitHints(units) == IF job.kind \in {"and", "validateand"} THEN Append(units, ret.cid)
                                                           ELSE <<ret.cid>> \o units

\* The end of tbdd_and, tbdd_validate and tbdd_validate_with_and: checkresize,
\* the unit clause, process_deferred_deletions and tbdd_create.
FinishApply ==
    /\ pc = "ret" /\ stack = <<>>
    /\ LET r     == IF job.kind = "and" THEN ret.root ELSE job.r
           cid   == GenId({node[r].xvar}, 1)
           units == [i \in DOMAIN job.args |-> handle[job.args[i]].cid]
           late  == deferred \cup IF resized THEN CachedClauses ELSE {}
       IN  /\ Emit(Gen({node[r].xvar}, UnitHints(units), "unit", 1), late)
           /\ rc' = NewRc(cid)
           /\ handle' = [handle EXCEPT ![job.dest] = [root |-> r, cid |-> cid]]
           /\ IF job.kind = "check"      \* bdd_delref(cr), and on to the path
              THEN /\ node' = DecRef(IncRef(node, r), r)
                   /\ pc' = "walk"
                   /\ job' = [job EXCEPT !.at = r, !.ants = <<cid>>,
                                         !.todo = {VarOf(x) : x \in job.lits}]
                   /\ UNCHANGED <<mk, call, ret>>
              ELSE node' = IncRef(node, r) /\ Return
    /\ cache' = IF resized THEN [s \in Slots |-> NoEntry] ELSE cache
    /\ counter' = counter + 1
    /\ deferred' = {} /\ resized' = FALSE
    /\ UNCHANGED <<nodesize, refstack, varcounter, stack>>

And(h, h1, h2) ==
    /\ MayStart("And")
    /\ \/ /\ handle[h1].root # 1 /\ handle[h2].root # 1
          /\ StartApply("and", h, <<h1, h2>>, "and", 0)
          /\ UNCHANGED <<node, handle, rc>>
       \/ /\ handle[h1].root = 1 \/ handle[h2].root = 1
          /\ Duplicate(h, handle[IF handle[h1].root = 1 THEN h2 ELSE h1])
          /\ UNCHANGED <<pc, job, refstack, call>>
    /\ Quiet
    /\ UNCHANGED <<nodesize, resized, cache, deferred, varcounter, mk, ret, stack>>

\* The BDDs a client can name: roots it holds, variables, and the constants.
Nameable == {0, 1} \cup {handle[h].root : h \in Held} \cup {n \in Used : node[n].ref = MaxRef}

\* tbdd_validate
Validate(h, r, h1) ==
    /\ MayStart("Validate")
    /\ \/ /\ r = handle[h1].root
          /\ Duplicate(h, handle[h1])
          /\ UNCHANGED <<pc, job, refstack, call>>
       \/ /\ r # handle[h1].root
          /\ StartApply("validate", h, <<h1>>, "imp", r)
          /\ UNCHANGED <<node, handle, rc>>
    /\ Quiet
    /\ UNCHANGED <<nodesize, resized, cache, deferred, varcounter, mk, ret, stack>>

\* tbdd_validate_with_and; with a constant argument it is tbdd_validate.
ValidateWithAnd(h, r, h1, h2) ==
    /\ MayStart("ValidateWithAnd")
    /\ handle[h1].root # 1 /\ handle[h2].root # 1
    /\ StartApply("validateand", h, <<h1, h2>>, "aij", r)
    /\ Quiet
    /\ UNCHANGED <<kernelVars, cache, deferred, varcounter, handle, rc, mk, ret, stack>>

-----------------------------------------------------------------------------
(* BDD_build_clause *)

StartBuild(kind, dest, args, lits, id) ==
    /\ job' = [NoJob EXCEPT !.kind = kind, !.dest = dest, !.args = args, !.lits = lits,
                            !.todo = {VarOf(x) : x \in lits}, !.id = id]
    /\ pc' = "build"

MaxOf(S) == CHOOSE v \in S : \A w \in S : w <= v
LeastOf(S) == CHOOSE v \in S : \A w \in S : v <= w

\* Mutants: the polarity is the wrong way around.
LiteralSwapped(v) == [level |-> v, low  |-> IF v \in job.lits THEN 1 ELSE job.r,
                                   high |-> IF v \in job.lits THEN job.r ELSE 1]
LiteralNode(v) == [level |-> v, low  |-> IF v \in job.lits THEN job.r ELSE 1,
                                high |-> IF v \in job.lits THEN 1 ELSE job.r]

BuildLiteral ==
    /\ pc = "build" /\ job.todo # {}
    /\ mk' = LiteralNode(MaxOf(job.todo))
    /\ node' = IncRef(node, job.r)
    /\ pc' = "makenode"
    /\ Quiet
    /\ UNCHANGED <<nodesize, resized, refstack, cache, deferred, varcounter, handle, rc,
                   job, call, ret, stack>>

LiteralMade ==
    /\ pc = "made" /\ stack = <<>> /\ job.kind \in {"clause", "check"}
    /\ node' = DecRef(node, job.r)
    /\ job' = [job EXCEPT !.r = ret.root, !.todo = @ \ {MaxOf(job.todo)}]
    /\ pc' = "build"
    /\ Quiet
    /\ UNCHANGED <<nodesize, resized, refstack, cache, deferred, varcounter, handle, rc,
                   mk, call, ret, stack>>

\* tbdd_from_clause_with_id goes down the path that falsifies the clause.
ClauseBuilt ==
    /\ pc = "build" /\ job.todo = {} /\ job.kind = "clause"
    /\ job' = [job EXCEPT !.at = job.r, !.todo = {VarOf(x) : x \in job.lits}]
    /\ pc' = "walk"
    /\ Quiet
    /\ UNCHANGED <<kernelVars, refstack, cache, deferred, varcounter, handle, rc,
                   mk, call, ret, stack>>

\* tbdd_validate_clause: the clause's own BDD is validated first.
CheckBuilt ==
    /\ pc = "build" /\ job.todo = {} /\ job.kind = "check"
    /\ node' = IncRef(node, job.r)
    /\ StartApply("check", Tmp, job.args, "imp", job.r)
    /\ Quiet
    /\ UNCHANGED <<nodesize, resized, cache, deferred, varcounter, handle, rc, mk, ret, stack>>

-----------------------------------------------------------------------------
(* The path that falsifies a clause *)

\* The variables in the order of their levels.  For an input clause (kind
\* "clause") every one of them is on the path; for the client's the function
\* may not depend on it.
Walk ==
    /\ pc = "walk" /\ job.todo # {}
    /\ LET v    == LeastOf(job.todo)
           n    == job.at
           pos  == v \in job.lits
           Id(dtype) == Dclause(node, n, dtype)
           ups  == IF pos THEN <<Id("HU"), Id("LU")>> ELSE <<Id("LU"), Id("HU")>>
           down == <<Id(IF pos THEN "LD" ELSE "HD")>>
           next == IF pos THEN node[n].low ELSE node[n].high
       IN  job' = IF job.kind = "clause"
                  THEN [job EXCEPT !.todo = @ \ {v}, !.at = next, !.ants = @ \o ups]
                  ELSE IF node[n].level > v THEN [job EXCEPT !.todo = @ \ {v}]
                  ELSE IF node[n].level < v THEN [job EXCEPT !.todo = {}, !.id = -1]
                  ELSE [job EXCEPT !.todo = @ \ {v}, !.at = next, !.ants = @ \o down]
    /\ Quiet
    /\ UNCHANGED <<kernelVars, refstack, cache, deferred, varcounter, handle, rc,
                   pc, mk, call, ret, stack>>

\* The unit clause of the BDD of an input clause, and tbdd_create.
ClauseWalked ==
    /\ pc = "walk" /\ job.todo = {} /\ job.kind = "clause"
    /\ LET cid == GenId({node[job.r].xvar}, 1)
       IN  /\ Emit(Gen({node[job.r].xvar}, Append(job.ants, job.id), "unit", 1), {})
           /\ rc' = NewRc(cid)
           /\ handle' = [handle EXCEPT ![job.dest] = [root |-> job.r, cid |-> cid]]
    /\ node' = IncRef(node, job.r)
    /\ counter' = counter + 1
    /\ Return
    /\ UNCHANGED <<nodesize, resized, refstack, cache, deferred, varcounter, stack>>

\* The client's clause, then tbdd_delref of the intermediate TBDD if there is one.
CheckWalked ==
    /\ pc = "walk" /\ job.todo = {} /\ job.kind \in {"check", "path"}
    /\ LET t == handle[Tmp]
           claim == IF job.id = -1 THEN <<>> ELSE Gen(job.lits, job.ants, "client", 1)
       IN  IF t.root = -1
           THEN Emit(claim, {}) /\ UNCHANGED <<node, handle, rc>>
           ELSE /\ Emit(claim, Released(t))
                /\ node' = DecRef(node, t.root)
                /\ rc' = RcAfter(t.cid)
                /\ handle' = [handle EXCEPT ![Tmp] = NoTbdd]
    /\ counter' = IF job.id = -1 THEN counter ELSE counter + 1
    /\ Return
    /\ UNCHANGED <<nodesize, resized, refstack, cache, deferred, varcounter, stack>>

FromClause(h, id) ==
    /\ MayStart("FromClause")
    /\ StartBuild("clause", h, <<>>, InputClauses[id], id)
    /\ Quiet
    /\ UNCHANGED <<kernelVars, refstack, cache, deferred, varcounter, handle, rc,
                   mk, call, ret, stack>>

\* Mutants: a variable the clause does not mention is skipped.
FalsifyingSkip(lits, root) ==
    LET at[v \in 0..NumVars] ==
            IF v = 0 THEN root
            ELSE LET n == at[v - 1]
                 IN  IF node[n].level # v THEN n
                     ELSE IF v \in lits THEN node[n].low ELSE node[n].high
    IN  at[NumVars] = 0

\* test_validation_path: the clause falsifies the function along one path.
FalsifyingPath(lits, root) ==
    LET at[v \in 0..NumVars] ==
            IF v = 0 THEN root
            ELSE LET n == at[v - 1]
                 IN  IF n = -1 \/ {v, -v} \cap lits = {} \/ node[n].level > v THEN n
                     ELSE IF node[n].level < v THEN -1
                     ELSE IF v \in lits THEN node[n].low ELSE node[n].high
    IN  at[NumVars] = 0

ValidateClause(lits, h1) ==
    /\ MayStart("ValidateClause")
    /\ \/ /\ FalsifyingPath(lits, handle[h1].root)
          /\ job' = [NoJob EXCEPT !.kind = "path", !.args = <<h1>>, !.lits = lits,
                                  !.todo = {VarOf(x) : x \in lits}, !.at = handle[h1].root,
                                  !.ants = <<handle[h1].cid>>]
          /\ pc' = "walk"
       \/ /\ ~FalsifyingPath(lits, handle[h1].root)
          /\ StartBuild("check", Tmp, <<h1>>, lits, 0)
    /\ Quiet
    /\ UNCHANGED <<kernelVars, refstack, cache, deferred, varcounter, handle, rc,
                   mk, call, ret, stack>>

-----------------------------------------------------------------------------
(* References of the client, and the end *)

Addref(h, h1) ==
    /\ MayStart("Addref")
    /\ Duplicate(h, handle[h1])
    /\ Quiet
    /\ UNCHANGED <<nodesize, resized, refstack, cache, deferred, varcounter,
                   pc, job, mk, call, ret, stack>>

\* bdd_delref on a node without references is an error that ends the program.
Delref(h) ==
    /\ pc = "client"
    /\ LET t == handle[h]
       IN  /\ pc' = IF t.root > 1 /\ node[t.root].ref = 0 THEN "exit" ELSE "client"
           /\ node' = DecRef(node, t.root)
           /\ handle' = [handle EXCEPT ![h] = NoTbdd]
           /\ IF t.cid = TAUTOLOGY
              THEN Emit(<<>>, {}) /\ UNCHANGED rc
              ELSE Emit(<<>>, Released(t)) /\ rc' = RcAfter(t.cid)
    /\ UNCHANGED <<counter, nodesize, resized, refstack, cache, deferred, varcounter,
                   job, mk, call, ret, stack>>

\* tbdd_done: the unit clauses that are left, the defining clauses of every
\* node, and what the operation cache still owes.  The memory is freed.
\* Mutants: the operation cache is freed with its justifications.
OutstandingUncached == DOMAIN rc \cup (UNION {Dclauses(node, n) : n \in Used}) \cup deferred
Outstanding ==
    DOMAIN rc \cup (UNION {Dclauses(node, n) : n \in Used}) \cup CachedClauses \cup deferred
Done ==
    /\ pc = "client"
    /\ Emit(<<>>, Outstanding)
    /\ cache' = [s \in Slots |-> NoEntry] /\ deferred' = {}
    /\ pc' = "done"
    /\ UNCHANGED <<counter, kernelVars, refstack, varcounter, handle, rc,
                   job, mk, call, ret, stack>>

Stopped == pc \in {"exit", "done"} /\ UNCHANGED vars

-----------------------------------------------------------------------------
\* The pieces of a running operation, which follow each other without a choice.
Internal ==
    \/ SetVar \/ VarMade \/ MakeFound \/ MakeFresh \/ MakeGbc \/ Grow
    \/ EnterLeaf \/ EnterDegenerate \/ EnterRefuted \/ EnterMiss
    \/ ReturnLow \/ ReturnHigh \/ JustifyStep \/ FinishApply
    \/ BuildLiteral \/ LiteralMade \/ ClauseBuilt \/ CheckBuilt
    \/ Walk \/ ClauseWalked \/ CheckWalked

Owned == Held \ {Tmp}

Client ==
    \/ \E h \in Open :
          \/ \E id \in DOMAIN InputClauses : FromClause(h, id)
          \/ \E h1 \in Owned :
                \/ Addref(h, h1)
                \/ \E r \in Nameable : Validate(h, r, h1)
                \/ \E h2 \in Owned : And(h, h1, h2)
                \/ \E h2 \in Owned, r \in Nameable : ValidateWithAnd(h, r, h1, h2)
    \/ \E h1 \in Owned :
          \/ Delref(h1)
          \/ \E lits \in ClientClauses : ValidateClause(lits, h1)
    \/ Done

Next == Internal \/ Client \/ Stopped

Spec == Init /\ [][Next]_vars

\* One thread: an operation that has begun runs on.
FairSpec == Spec /\ WF_vars(Internal)

-----------------------------------------------------------------------------
(* Types *)

Nodes  == [level : 0..(NumVars + 1), low : NodeIds \cup {-1}, high : NodeIds \cup {-1},
           xvar : Int, dclause : Nat, ref : 0..MaxRef]
Pcbdd  == [root : NodeIds, cid : Nat]
Tbdds  == [root : NodeIds \cup {-1}, cid : Nat]
Ops    == {"and", "imp", "aij"}
Calls  == [op : Ops, l : NodeIds, r : NodeIds, t : NodeIds]
Frames == [op : Ops, l : NodeIds, r : NodeIds, t : NodeIds, level : 1..NumVars,
           half : {"low", "high"}, low : Pcbdd, high : Pcbdd]
Entries == [a : NodeIds \cup {-1}, b : NodeIds \cup {-1}, c : NodeIds \cup {-1},
            op : Ops \cup {"none"}, root : NodeIds, cid : Nat]
Jobs   == [kind : {"none", "clause", "check", "path", "and", "validate", "validateand"},
           dest : Holders, args : Seq(Handles), lits : SUBSET Literals, todo : SUBSET (1..NumVars),
           r : NodeIds, id : Int, at : NodeIds, ants : Seq(Nat)]

\* Every variable keeps its type: a node id is always an index of the node
\* table and an id in the proof a positive number or TAUTOLOGY.
TypeOK ==
    /\ node \in [NodeIds -> Nodes]
    /\ nodesize \in InitNodes..MaxNodes /\ resized \in BOOLEAN
    /\ refstack \in Seq(NodeIds)
    /\ cache \in [Slots -> Entries]
    /\ deferred \subseteq Nat
    /\ counter \in Nat /\ varcounter \in Nat /\ emptyId \in Nat
    /\ DOMAIN db \subseteq Nat
    /\ handle \in [Holders -> Tbdds]
    /\ DOMAIN rc \subseteq Nat /\ rc \in [DOMAIN rc -> Nat \ {0}]
    /\ pc \in {"setvarnum", "client", "build", "makenode", "grow", "made", "call", "ret",
               "walk", "done", "exit"}
    /\ job \in Jobs
    /\ mk \in [level : 0..NumVars, low : NodeIds, high : NodeIds]
    /\ call \in Calls
    /\ ret \in Pcbdd
    /\ stack \in Seq(Frames)

-----------------------------------------------------------------------------
(* Safety: the node table *)

Live == Terminals \cup Used
Running == pc \notin {"done", "exit"}

\* The garbage collector never takes a node that is still going to be read:
\* children, arguments and results of the pending recursive calls, cached
\* operations, the roots of trusted BDDs.  (bdd_gbc marks from bddrefstack and
\* from the nodes with a reference count, and from nothing else.)
NoDangling ==
    Running =>
      /\ \A n \in Used : node[n].low \in Live /\ node[n].high \in Live
      /\ \A h \in Held : handle[h].root \in Live
      /\ \A s \in Slots : cache[s].a # -1 => {cache[s].a, cache[s].b, cache[s].root} \subseteq Live
      /\ RangeOf(refstack) \subseteq Live
      /\ {call.l, call.r, call.t, mk.low, mk.high, job.r, job.at} \subseteq Live
      /\ \A i \in DOMAIN stack : {stack[i].l, stack[i].r, stack[i].t} \subseteq Live

\* The unique table is reduced, ordered and free of duplicates, so that equal
\* functions have equal roots: tbdd_validate and the terminal cases of the
\* recursive functions compare roots.
Canonical ==
    \A n \in Used :
        /\ node[n].low # node[n].high
        /\ node[n].level < node[node[n].low].level /\ node[n].level < node[node[n].high].level
        /\ \A m \in Used : node[m].level = node[n].level /\ node[m].low = node[n].low
                           /\ node[m].high = node[n].high => m = n

\* BDD_build_clause and tbdd_validate_clause hold a reference of their own.
Pinned(n) ==
    /\ n = job.r
    /\ \/ job.kind = "clause" /\ pc \in {"makenode", "grow", "made"}
       \/ job.kind = "check" /\ pc \in {"makenode", "grow", "made", "call", "ret"}
RefsOf(n) == Cardinality({h \in Holders : handle[h].root = n}) + IF Pinned(n) THEN 1 ELSE 0

\* Both reference counts tell how many holders there are: that of a node,
\* unless it is saturated, and that of a unit clause.
CountsExact ==
    /\ Running => \A n \in Used : node[n].ref = MaxRef \/ node[n].ref = RefsOf(n)
    /\ \A c \in DOMAIN rc : rc[c] = Cardinality({h \in Holders : handle[h].cid = c})
    /\ \A h \in Held : handle[h].cid \in DOMAIN rc \cup {TAUTOLOGY}

\* bddrefstack holds one pending result for each frame that computes its high
\* half, and two for the frame that combines them; so it never outgrows the
\* array that bdd_setvarnum allocates once for all.
Combining == stack # <<>> /\ pc \in {"makenode", "grow", "made"}
RefstackExact ==
    /\ Running => Len(refstack) = Cardinality({i \in DOMAIN stack : stack[i].half = "high"})
                                  + IF Combining THEN 1 ELSE 0
    /\ Len(refstack) <= NumVars + 1

-----------------------------------------------------------------------------
(* Safety: what the BDDs mean *)

Assignments == [1..NumVars -> BOOLEAN]
SatClause(lits, a) == \E x \in lits : IF x < 0 THEN ~a[-x] ELSE a[x]
Models == {a \in Assignments : \A i \in DOMAIN InputClauses : SatClause(InputClauses[i], a)}

\* The value of the function with root n in a table nd whose used nodes are used.
ValueIn(nd, used, n, a) ==
    LET val[m \in NodeIds] == IF m \notin used THEN m = 1
                              ELSE IF a[nd[m].level] THEN val[nd[m].high] ELSE val[nd[m].low]
    IN  val[n]
Value(n, a) == ValueIn(node, Used, n, a)

\* A trusted BDD is implied by the input clauses, a clause handed out by
\* tbdd_validate_clause too, and the empty clause is only derived from
\* unsatisfiable input.
TrustedSound ==
    /\ \A h \in Held : \A a \in Models : pc = "done" \/ Value(handle[h].root, a)
    /\ \A i \in DOMAIN db : db[i].kind = "client" => \A a \in Models : SatClause(db[i].lits, a)
    /\ emptyId # TAUTOLOGY => Models = {}

\* A cached operation still means what it meant when it was stored, although
\* node ids are reused, and its clause says so.
CacheRight ==
    \A s \in Slots :
        LET e == cache[s]
        IN  e.a # -1 /\ Running =>
              /\ \A x \in Assignments :
                    CASE e.op = "and" -> Value(e.root, x) = (Value(e.a, x) /\ Value(e.b, x))
                      [] e.op = "imp" -> Value(e.a, x) => Value(e.b, x)
                      [] e.op = "aij" -> Value(e.a, x) /\ Value(e.b, x) => Value(e.c, x)
              /\ e.cid # TAUTOLOGY /\ emptyId = TAUTOLOGY =>
                    /\ e.cid \in DOMAIN db
                    /\ db[e.cid].lits = IF e.op = "imp" THEN JustTarget(node, "imp", e.a, e.b, 1)
                                        ELSE JustTarget(node, "and", e.a, e.b,
                                                        IF e.op = "and" THEN e.root ELSE e.c)

\* The program gives up only when it must: the implication it was asked to
\* prove is false, or the table is full of nodes that are all needed.  (The
\* exception is the call that ApplySteps finds: justify_apply fails on arguments
\* that have a cofactor in common.)
Shares(f) == f.op = "aij" /\ \E b \in {0, 1} :
                Cofactor(node, f.l, f.level, b) = Cofactor(node, f.r, f.level, b)
ExitJustified ==
    pc = "exit" =>
        \/ stack # <<>> /\ Top.half = "high" /\ Shares(Top)
        \/ nodesize = MaxNodes /\ Free = {} /\ Used = Reach(RangeOf(refstack) \cup Referenced)
        \/ /\ job.kind \in {"validate", "validateand", "check"}
           /\ \E a \in Assignments :
                 /\ \A i \in DOMAIN job.args : Value(handle[job.args[i]].root, a)
                 /\ ~Value(job.r, a)

\* test_validation_path and tbdd_validate_clause_path agree: a clause that is
\* implied is always claimed.
ClaimsSucceed == job.id # -1

-----------------------------------------------------------------------------
(* Safety: the proof file *)

\* The file is a proof an LRAT reader can follow: fresh ids, antecedents and
\* deleted clauses that are still there.
ReadsAsProof == LogSpec!Spec

KindOf(k) == {i \in DOMAIN db : db[i].kind = k}

\* Every clause of the file has exactly one owner that will delete it, once:
\* a node its defining clauses, a trusted BDD its unit clause, and a cache
\* entry or the list of deferred deletions a justification.
OneOwner ==
    pc # "done" /\ emptyId = TAUTOLOGY =>
        /\ KindOf("def") = UNION {Dclauses(node, n) : n \in Used}
        /\ KindOf("unit") = DOMAIN rc
        /\ KindOf("just") = CachedClauses \cup deferred
        /\ CachedClauses \cap deferred = {}
        /\ \A s, u \in Slots : s # u /\ cache[s].cid = cache[u].cid => cache[s].cid = TAUTOLOGY

\* After tbdd_done only clauses that are not the package's own are left.
NothingLeaks ==
    pc = "done" /\ emptyId = TAUTOLOGY =>
        DOMAIN db = DOMAIN InputClauses \cup KindOf("client")

\* The clause of a trusted BDD, and the clauses that define its nodes, stay in
\* the file for as long as the client holds it.
UnitsLive ==
    pc # "done" /\ emptyId = TAUTOLOGY =>
        /\ \A h \in Held : handle[h].root # 1 =>
              /\ handle[h].cid \in DOMAIN db
              /\ db[handle[h].cid].lits = {node[handle[h].root].xvar}
        /\ \A n \in Used : \A d \in RangeOf(DefTypes) :
              Dclause(node, n, d) # TAUTOLOGY =>
                 /\ Dclause(node, n, d) \in DOMAIN db
                 /\ db[Dclause(node, n, d)].lits =
                       CleanClause(DefiningClause(d, node[n].xvar, node[n].level,
                                     node[node[n].high].xvar, node[node[n].low].xvar))

\* Every line the prover writes is accepted by the checker, with exactly the
\* hints it has and without a search.
LinesCheck ==
    [][LET add == log'.add
           known(k) == [i \in DOMAIN db \cup {add[j].id : j \in 1..(k - 1)} |->
                          IF i \in DOMAIN db THEN db[i].lits
                          ELSE add[CHOOSE j \in 1..(k - 1) : add[j].id = i].lits]
           hints(k) == SelectSeq(add[k].hints, LAMBDA h : h # TAUTOLOGY)
       IN  \A k \in DOMAIN add :
              IF add[k].kind = "def" THEN RatLine(known(k), add[k].lits, hints(k))
                                     ELSE RupLine(known(k), add[k].lits, hints(k))]_vars

-----------------------------------------------------------------------------
(* Liveness *)

\* An operation that has begun returns, or ends the program.
Returns == (pc # "client" /\ Running) ~> (pc = "client" \/ ~Running)
=============================================================================
