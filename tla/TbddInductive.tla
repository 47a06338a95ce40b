--------------------------- MODULE TbddInductive ---------------------------
(***************************************************************************)
(* The inductive invariant of TbddKernel.  What the runs check does not     *)
(* imply its own preservation, since it says nothing of what the program is *)
(* going to do with the nodes and clauses it holds.  IInv is about nodes    *)
(* and counts, OrderInv about the order of the variables, OwnerInv about    *)
(* the clauses in the file.                                                 *)
(***************************************************************************)
EXTENDS TbddKernel

\* The nodes that every collection keeps, whatever is on bddrefstack.
Safe == Terminals \cup Reach(Referenced)

ApplyKinds == {"and", "validate", "validateand", "check"}
BuildKinds == {"clause", "check"}
MakePcs    == {"makenode", "grow", "made"}
ApplyPcs   == MakePcs \cup {"call", "ret"}

\* The node table: two constants, and inner nodes whose children are there.
TableInv ==
    /\ \A n \in Terminals : node[n] = Terminal(n)
    /\ \A n \in Used : /\ node[n].level \in 1..NumVars
                       /\ node[n].low \in Live /\ node[n].high \in Live

\* Where the program is, by pc and stack, and what it is at.
ControlInv ==
    /\ stack # <<>> => pc \in ApplyPcs /\ job.kind \in ApplyKinds
    /\ pc \in {"call", "ret"} => job.kind \in ApplyKinds
    /\ pc \in MakePcs /\ stack = <<>> => job.kind \in BuildKinds \cup {"none"} /\ call = NoCall
    /\ pc = "build" => job.kind \in BuildKinds /\ call = NoCall
    /\ pc = "walk" => job.kind \in BuildKinds \cup {"path"}
    /\ pc = "setvarnum" => job.kind = "none" /\ call = NoCall
    /\ job.kind = "none" => job.r = 0 /\ job.id \in Nat
    /\ pc = "client" => job = NoJob /\ call = NoCall
    /\ pc \in {"makenode", "grow"} => mk.level \in 1..NumVars
    /\ pc # "walk" => job.at = 0
    /\ job.kind = "and" => job.r = 0

\* The variable an operation is going to assign holds nothing yet, the one a
\* clause is validated with still does.
DestInv ==
    /\ \A h \in Holders : handle[h].root = -1 => handle[h].cid = TAUTOLOGY
    /\ handle[Tmp].root # -1 => job.kind = "check" /\ pc = "walk"
    /\ job.kind = "check" => /\ job.dest = Tmp
                             /\ Len(job.args) = 1 /\ handle[job.args[1]].root # -1
    /\ job.kind \in {"clause", "and", "validate", "validateand"} =>
          job.dest \in Handles /\ handle[job.dest].root = -1

\* What is read later is there, and what is read after a call of bdd_makenode
\* is there whether or not the collector runs.
RootsInv ==
    /\ \A h \in Held : handle[h].root \in Live
    /\ \A s \in Slots : cache[s].a # -1 => {cache[s].a, cache[s].b, cache[s].root} \subseteq Live
    /\ RangeOf(refstack) \subseteq Live
    /\ {call.l, call.r, call.t, mk.low, mk.high, job.r, job.at} \subseteq Live
    /\ pc \in {"made", "ret"} => ret.root \in Live
    /\ pc \in ApplyPcs => {call.l, call.r, call.t, job.r} \subseteq Safe
    /\ \A i \in DOMAIN stack : {stack[i].l, stack[i].r, stack[i].t} \subseteq Safe
    /\ pc \in {"makenode", "grow"} =>
          {mk.low, mk.high} \subseteq Terminals \cup RangeOf(refstack) \cup Referenced

\* Pending results and reference counts.
HighHalves == {i \in DOMAIN stack : stack[i].half = "high"}
StackInv ==
    /\ Len(refstack) = Cardinality(HighHalves) + IF Combining THEN 1 ELSE 0
    /\ Combining => Top.half = "high"

RefsInv == \A n \in Used : node[n].ref = MaxRef \/ node[n].ref = RefsOf(n)

RcInv ==
    /\ \A c \in DOMAIN rc : rc[c] = Cardinality({h \in Holders : handle[h].cid = c})
    /\ \A h \in Holders : handle[h].cid \in DOMAIN rc \cup {TAUTOLOGY}
    /\ DOMAIN rc \subseteq 1..counter /\ TAUTOLOGY \notin DOMAIN rc

\* The ids of the clauses in the file are those the counter has given out.
IdsInv == DOMAIN db \subseteq 1..counter

\* The inductive invariant.
IInv ==
    /\ TypeOK /\ RcInv /\ IdsInv
    /\ Running => TableInv /\ ControlInv /\ DestInv /\ RootsInv /\ StackInv /\ RefsInv

-----------------------------------------------------------------------------
(* Order *)

\* The frames of the recursion split at lower and lower levels of the order,
\* and what is still to be computed for one lies below it: so there are never
\* more of them than variables.
Arguments(c) == {c.l, c.r} \cup IF c.op = "aij" THEN {c.t} ELSE {}
LevelsInv ==
    /\ \A i \in DOMAIN stack : \A n \in Arguments(stack[i]) : stack[i].level <= node[n].level
    /\ \A i, j \in DOMAIN stack : i < j => stack[i].level < stack[j].level
    /\ pc = "call" /\ stack # <<>> => \A n \in Arguments(call) : Top.level < node[n].level

OrderInv == Canonical /\ RefstackExact /\ (Running => LevelsInv)

-----------------------------------------------------------------------------
(* Ownership of the clauses in the file *)

\* The ids stay below INT_MAX, which stands for no clause and no variable: the
\* code tests for an overflow of the clause counter only beyond it, and never for
\* one of the variable counter.
IdsFit == counter < TAUTOLOGY /\ varcounter < TAUTOLOGY

\* The proof goes on: no empty clause yet, and tbdd_done has not been called.
Going == pc # "done" /\ emptyId = TAUTOLOGY

\* Extension variables are not input variables.
XvarInv == varcounter >= NumVars /\ \A n \in Used : node[n].xvar \in (NumVars + 1)..varcounter

\* BDD_build_clause never makes the constant 1: tbdd_validate_clause always has
\* a unit clause to give back.
BuildInv ==
    /\ job.kind \in BuildKinds =>
          /\ job.r # 1
          /\ stack = <<>> /\ pc \in {"makenode", "grow"} => mk.low # mk.high
          /\ stack = <<>> /\ pc = "made" => ret.root # 1
    /\ handle[Tmp].root # 1

\* The file holds nothing else than the input and what the package wrote, no two
\* nodes share a defining clause, and a trusted BDD is not 0 until the proof ends.
Kinds == {"input", "def", "unit", "just", "client"}
KindsInv ==
    /\ db = [i \in DOMAIN db |-> db[i]]
    /\ Going => /\ KindOf("input") = DOMAIN InputClauses
                /\ \A i \in DOMAIN db : db[i].kind \in Kinds
                /\ \A m, n \in Used : m # n => Dclauses(node, m) \cap Dclauses(node, n) = {}
                /\ \A h \in Held : handle[h].root # 0

\* What an operation is going to cite stays until then: the justifications of
\* pending results, and the clauses gathered along a path.
Justified == CachedClauses \cup deferred \cup {TAUTOLOGY}
PendingInv ==
    Going =>
        /\ pc = "ret" => ret.cid \in Justified
        /\ \A i \in DOMAIN stack : {stack[i].low.cid, stack[i].high.cid} \subseteq Justified
        /\ RangeOf(job.ants) \subseteq DOMAIN db \cup {TAUTOLOGY}
        /\ pc # "walk" => job.ants = <<>>
        /\ job.kind = "clause" => job.id \in DOMAIN InputClauses

OwnerInv ==
    /\ XvarInv /\ KindsInv /\ OneOwner /\ NothingLeaks /\ UnitsLive
    /\ Running => BuildInv /\ PendingInv

-----------------------------------------------------------------------------
(* Meaning *)

\* What the caller of an apply function relies on when it gets a root.
Answers(c, root) ==
    \A a \in Assignments :
        /\ c.op = "and" => Value(root, a) = (Value(c.l, a) /\ Value(c.r, a))
        /\ c.op = "imp" => (Value(c.l, a) => Value(c.r, a))
        /\ c.op = "aij" => (Value(c.l, a) /\ Value(c.r, a) => Value(c.t, a))

\* Every entry of the cache answers its operation, and its clause says so.
EntryClause(e) ==
    IF e.op = "imp" THEN JustTarget(node, "imp", e.a, e.b, 1)
                    ELSE JustTarget(node, "and", e.a, e.b, IF e.op = "and" THEN e.root ELSE e.c)
CacheInv ==
    \A s \in Slots :
        LET e == cache[s]
        IN  e.a # -1 =>
              /\ e.op \in Ops /\ (e.op = "aij" => e.c \in Live)
              /\ Answers([op |-> e.op, l |-> e.a, r |-> e.b, t |-> e.c], e.root)
              /\ e.cid # TAUTOLOGY /\ emptyId = TAUTOLOGY => db[e.cid].lits = EntryClause(e)

\* The call that the top-level operation makes, and those of the frames.
JobCall ==
    LET arg(i) == handle[job.args[i]].root
    IN  CASE job.kind = "and"         -> [op |-> "and", l |-> arg(1), r |-> arg(2), t |-> 0]
          [] job.kind = "validateand" -> [op |-> "aij", l |-> arg(1), r |-> arg(2), t |-> job.r]
          [] OTHER                    -> [op |-> "imp", l |-> arg(1), r |-> job.r, t |-> 0]
HalfCall(f, b) == SubCall(node, f, f.level, b)
Asked(i) == IF i = 0 THEN JobCall
            ELSE HalfCall(stack[i], IF stack[i].half = "low" THEN 0 ELSE 1)

\* A degenerate call is served by the implication test it falls back on.
Request(f) == [op |-> f.op, l |-> f.l, r |-> f.r, t |-> f.t]
Serves(c, d) == c = d \/ (Degenerate(d) /\ c = Weaker(d))

\* The pending result of the low half of a frame.
LowResult(i) == refstack[Cardinality({j \in HighHalves : j <= i})]

\* Each frame is of a call that splits, each call serves the one that asked for
\* it, and what a call returns, what is pending on bddrefstack and what is being
\* combined are the answers.
CallsInv ==
    /\ \A i \in DOMAIN stack : Splits(Request(stack[i])) /\ Serves(Request(stack[i]), Asked(i - 1))
    /\ pc = "call" => Serves(call, Asked(Len(stack)))
    /\ pc = "ret" => Answers(Asked(Len(stack)), ret.root)
    /\ \A i \in HighHalves : Answers(HalfCall(stack[i], 0), LowResult(i))
    /\ Combining /\ pc # "made" =>
          /\ Top.op = "and" /\ mk.level = Top.level
          /\ Answers(HalfCall(Top, 0), mk.low) /\ Answers(HalfCall(Top, 1), mk.high)
    /\ Combining /\ pc = "made" => Answers(Request(Top), ret.root)

\* BDD_build_clause has the disjunction of the literals it is done with.
Implied(lits) == \A a \in Models : SatClause(lits, a)
Disjunction(root, todo) ==
    \A a \in Assignments : Value(root, a) = SatClause({x \in job.lits : VarOf(x) \notin todo}, a)
BuildsInv ==
    /\ pc = "build" => Disjunction(job.r, job.todo)
    /\ pc \in {"makenode", "grow"} /\ stack = <<>> =>
          job.todo # {} /\ mk = LiteralNode(MaxOf(job.todo)) /\ Disjunction(job.r, job.todo)
    /\ pc = "made" /\ stack = <<>> =>
          job.todo # {} /\ Disjunction(ret.root, job.todo \ {MaxOf(job.todo)})
    /\ pc \in {"call", "ret"} \/ stack # <<>> => Disjunction(job.r, {})
    /\ pc = "walk" => IF job.kind = "clause" THEN Disjunction(job.r, {}) ELSE Implied(job.lits)

\* The arguments of an operation are still held, and its clause is one of those given.
JobInv ==
    /\ job.kind \in {"and", "validate", "validateand"} =>
          /\ Len(job.args) = IF job.kind = "validate" THEN 1 ELSE 2
          /\ \A i \in DOMAIN job.args : handle[job.args[i]].root # -1
    /\ job.kind = "clause" => job.id \in DOMAIN InputClauses /\ job.lits = InputClauses[job.id]
    /\ job.kind \in {"check", "path"} => job.lits \in ClientClauses
    /\ job.kind \in BuildKinds => job.todo \subseteq {VarOf(x) : x \in job.lits} /\ BuildsInv
    /\ job.kind = "path" => Implied(job.lits)

MeaningInv == TrustedSound /\ (Running => CacheInv /\ CallsInv /\ JobInv)

\* All of it.
FullInv == IInv /\ OrderInv /\ OwnerInv /\ MeaningInv
=============================================================================
