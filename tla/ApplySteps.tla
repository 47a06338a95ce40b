----------------------------- MODULE ApplySteps -----------------------------
(***************************************************************************)
(* One step of an apply operation after another, on a table that holds      *)
(* every function of three variables: the calls applyj_rec and              *)
(* apply_aij_rec make from any arguments, without the cache and the         *)
(* collector, and the lines justify_apply writes for each of them.          *)
(*                                                                          *)
(* A function is its truth table, read as a number below 256; the top half  *)
(* of the bits is its cofactor for variable 1.                              *)
(***************************************************************************)
EXTENDS ApplyProof, LratRules

CONSTANTS
    Pairs,     \* the functions that are arguments of "and" and "imp" calls
    Triples    \* the functions that are arguments of "aij" calls
ASSUME ArgumentAssumption == Pairs \subseteq 1..254 /\ Triples \subseteq 1..254

\* The node of a function.
Id(f)    == CASE f = 0 -> 0 [] f = 255 -> 1 [] OTHER -> f + 1
Table(n) == IF n < 2 THEN 255 * n ELSE n - 1
NodeIds == 0..255

\* The level a function is decided at, and its cofactors there.
Level(f) == IF f \div 16 # f % 16 THEN 1
            ELSE IF (f % 16) \div 4 # f % 4 THEN 2 ELSE 3
High(f) == CASE Level(f) = 1 -> 17 * (f \div 16)
             [] Level(f) = 2 -> 85 * ((f % 16) \div 4)
             [] Level(f) = 3 -> 255 * ((f % 4) \div 2)
Low(f)  == CASE Level(f) = 1 -> 17 * (f % 16)
             [] Level(f) = 2 -> 85 * (f % 4)
             [] Level(f) = 3 -> 255 * (f % 2)

node == [n \in NodeIds |->
           IF n < 2
           THEN [level |-> 4, low |-> n, high |-> n, dclause |-> 0,
                 xvar |-> IF n = 1 THEN TAUTOLOGY ELSE -TAUTOLOGY]
           ELSE [level |-> Level(n - 1), low |-> Id(Low(n - 1)), high |-> Id(High(n - 1)),
                 dclause |-> 4 * n, xvar |-> 10 + n]]

Both(l, r) ==
    Id(FoldLeft(LAMBDA acc, w : acc + w * ((Table(l) \div w) % 2) * ((Table(r) \div w) % 2),
                0, <<1, 2, 4, 8, 16, 32, 64, 128>>))
Implies(l, r) == Both(l, r) = l

-----------------------------------------------------------------------------
VARIABLE call

Init ==
    \/ \E op \in {"and", "imp"}, f, g \in Pairs : call = [op |-> op, l |-> Id(f), r |-> Id(g), t |-> 0]
    \/ \E f, g, h \in Triples : call = [op |-> "aij", l |-> Id(f), r |-> Id(g), t |-> Id(h)]

Sub(b) == SubCall(node, call, SplitLevel(node, call), b)

Descend == Splits(call) /\ \E b \in {0, 1} : call' = Sub(b)

FallBack ==
    /\ Degenerate(call)
    /\ call' = Weaker(call)

Leaf == (Sat(call) \/ Refuted(call) \/ AndLeaf(call)) /\ UNCHANGED call

Next == Descend \/ FallBack \/ Leaf
Spec == Init /\ [][Next]_call

-----------------------------------------------------------------------------
(* The answer of a call: the root, and the clause that justifies it. *)

Holds(c) == CASE c.op = "and" -> TRUE
              [] c.op = "imp" -> Implies(c.l, c.r)
              [] c.op = "aij" -> Implies(Both(c.l, c.r), c.t)

Root(c)   == IF c.op = "and" THEN Both(c.l, c.r) ELSE 1
Resolved(c)   == IF Degenerate(c) THEN Weaker(c) ELSE c
Reason(c) == JustTarget(node, IF c.op = "imp" THEN "imp" ELSE "and", c.l, c.r,
                        IF c.op = "aij" THEN c.t ELSE Root(c))

LowId  == 5000
HighId == 5001
Answer(c, id) ==
    [root |-> Root(c),
     cid  |-> IF Splits(Resolved(c)) /\ Reason(Resolved(c)) # TautClause THEN id ELSE TAUTOLOGY]

Step == Justify(node, IF call.op = "imp" THEN "imp" ELSE "and", call.l, call.r,
                SplitLevel(node, call), Answer(Sub(0), LowId), Answer(Sub(1), HighId),
                IF call.op = "aij" THEN call.t ELSE Root(call), 6000)

\* The clauses in the file: those that define the nodes at hand and those of
\* the two recursive answers.
Definitions ==
    UNION {{Dclause(node, n, d) : d \in RangeOf(DefTypes)} : n \in {call.l, call.r, call.t, Root(call)}}
    \ {TAUTOLOGY}
Answers == {Answer(Sub(0), LowId).cid, Answer(Sub(1), HighId).cid} \ {TAUTOLOGY}
ClauseOf(i) ==
    CASE i = LowId  -> Reason(Resolved(Sub(0)))
      [] i = HighId -> Reason(Resolved(Sub(1)))
      [] OTHER -> LET n == i \div 4
                  IN  CleanClause(DefiningClause(DefTypes[1 + (i % 4)], node[n].xvar, node[n].level,
                                                 node[node[n].high].xvar, node[node[n].low].xvar))

-----------------------------------------------------------------------------
(* Properties *)

\* The terminal cases of applyj_rec and apply_aij_rec answer as the whole
\* truth tables do, and a call that splits holds when both of its halves do.
LeavesRight ==
    /\ Sat(call) => Holds(call)
    /\ Refuted(call) => ~Holds(call)
    /\ Degenerate(call) => (Holds(call) <=> Holds(Weaker(call)))
    /\ AndLeaf(call) => AndRoot(call) = Both(call.l, call.r)
    /\ Splits(call) => (Holds(call) <=> Holds(Sub(0)) /\ Holds(Sub(1)))

\* tbdd_validate_with_and validates the BDD of every function that the
\* conjunction of its arguments implies, the other operations likewise:
\* justify_apply, where a call that holds splits, does not give up.
EveryStepJustified == Splits(call) /\ Holds(call) => Step.ok

\* It does not but for an "aij" call whose arguments have a cofactor in common:
\* one of the orders of its eight candidates, or the proof in two halves,
\* derives the target.
Shares == call.op = "aij" /\ \E b \in {0, 1} : Sub(b).l = Sub(b).r
JustifySucceeds == Splits(call) /\ Holds(call) /\ ~Shares => Step.ok

\* A checker that does not search accepts each of its lines, from clauses that
\* are in the file, and the last of them is the clause the cache will cite.
StepsCheck ==
    Splits(call) /\ Holds(call) /\ Step.ok =>
        LET add == Step.add
            known(k) == [i \in Definitions \cup Answers \cup {add[j].id : j \in 1..(k - 1)} |->
                           IF i > 6000 THEN add[i - 6000].lits ELSE ClauseOf(i)]
            hints(k) == SelectSeq(add[k].hints, LAMBDA h : h # TAUTOLOGY)
        IN  /\ \A k \in DOMAIN add :
                  RangeOf(hints(k)) \subseteq DOMAIN known(k) /\ RupLine(known(k), add[k].lits, hints(k))
            /\ IF add = <<>> THEN Step.jid = TAUTOLOGY /\ Reason(call) = TautClause
               ELSE Step.jid = add[Len(add)].id /\ add[Len(add)].lits = Reason(call)

\* A step that holds is justified, by lines that check.
StepsRight == JustifySucceeds /\ StepsCheck

-----------------------------------------------------------------------------
\* Instances: functions that split at variable 1 into two functions of variables
\* 2 and 3, the constants, literals, the conjunction, the disjunction and the parity.
FromHalves(S) == {16 * h + k : h, k \in S} \ {0, 255}
ManyTables == FromHalves({0, 15, 12, 3, 10, 8, 14, 6})
SomeTables == FromHalves({0, 15, 12, 10, 8})
=============================================================================
