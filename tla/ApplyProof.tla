----------------------------- MODULE ApplyProof -----------------------------
(***************************************************************************)
(* Clauses, hints and the justification of one recursive step of an apply  *)
(* operation: tools/tbuddy/src/buddy/prover.c, with the node accessors of   *)
(* kernel.c it reads.                                                       *)
(*                                                                          *)
(* A clause is the set of its literals: nothing below depends on the order  *)
(* of literals inside a clause.  The clause that clean_clause reports as    *)
(* tautological (TAUTOLOGY_CLAUSE) is TautClause.  The operators take the    *)
(* node table as the parameter nd, so that they can be checked on their own *)
(* (ApplySteps) and used by the state machine of the kernel (TbddKernel). *)
(***************************************************************************)
EXTENDS Integers, Sequences, FiniteSets, SequencesExt

CONSTANT TAUTOLOGY   \* INT_MAX: the literal "true" and the id of no clause

ASSUME TautologyAssumption == TAUTOLOGY \in Nat \ {0}

-----------------------------------------------------------------------------
(* Clauses *)

TautClause == {TAUTOLOGY}

CleanClause(lits) ==
    IF TAUTOLOGY \in lits \/ \E x \in lits : -x \in lits
    THEN TautClause
    ELSE lits \ {-TAUTOLOGY}

\* The four clauses that define the extension variable nid of a node that
\* tests variable vid and has the children hid and lid.
DefTypes == <<"HU", "LU", "HD", "LD">>

DefiningClause(dtype, nid, vid, hid, lid) ==
    CASE dtype = "HU" -> { nid, -vid, -hid}
      [] dtype = "LU" -> { nid,  vid, -lid}
      [] dtype = "HD" -> {-nid, -vid,  hid}
      [] dtype = "LD" -> {-nid,  vid,  lid}

DefOffset(dtype) == CHOOSE k \in 0..3 : DefTypes[k + 1] = dtype

\* The id of a defining clause, TAUTOLOGY when the clause is a tautology.
Dclause(nd, n, dtype) ==
    IF \/ n < 2
       \/ dtype = "HU" /\ nd[n].high = 0
       \/ dtype = "LU" /\ nd[n].low  = 0
       \/ dtype = "HD" /\ nd[n].high = 1
       \/ dtype = "LD" /\ nd[n].low  = 1
    THEN TAUTOLOGY
    ELSE nd[n].dclause + DefOffset(dtype)

\* Mutants: ids of tautologies, which are not in the file.
DclausesAll(nd, n) == {nd[n].dclause + k : k \in 0..3}
Dclauses(nd, n) ==
    {Dclause(nd, n, d) : d \in {"HU", "LU", "HD", "LD"}} \ {TAUTOLOGY}

TargetAnd(nd, l, r, s) == {-nd[l].xvar, -nd[r].xvar, nd[s].xvar}
TargetImply(nd, l, r)  == {-nd[l].xvar, nd[r].xvar}

-----------------------------------------------------------------------------
(* Hints *)

HintTags == {"RESHU", "ARG1HD", "ARG2HD", "OPH",
             "RESLU", "ARG1LD", "ARG2LD", "OPL", "EXTRA"}

HintHL == <<"RESHU", "ARG1HD", "ARG2HD", "OPH", "RESLU", "ARG1LD", "ARG2LD", "OPL">>
HintLH == <<"RESLU", "ARG1LD", "ARG2LD", "OPL", "RESHU", "ARG1HD", "ARG2HD", "OPH">>
HintH  == <<"RESHU", "ARG1HD", "ARG2HD", "OPH">>
\* Mutants: the second half of a split proof does not cite the first.
HintLAlone == <<"RESLU", "ARG1LD", "ARG2LD", "OPL">>
HintL  == <<"EXTRA", "RESLU", "ARG1LD", "ARG2LD", "OPL">>

\* An absent hint, and complete_hints on a candidate: the clause is cleaned,
\* and a tautology is as good as no hint.
NoHint == [id |-> TAUTOLOGY, lits |-> TautClause]
Hint(id, lits) ==
    IF id = TAUTOLOGY \/ CleanClause(lits) = TautClause THEN NoHint
    ELSE [id |-> id, lits |-> CleanClause(lits)]

\* The child of n on branch b when n tests the level that is being split.
Cofactor(nd, n, level, b) ==
    IF nd[n].level # level THEN n
    ELSE IF b = 1 THEN nd[n].high ELSE nd[n].low

\* bdd_level2var is the identity here: the variable order is the default one.
DefHint(nd, n, level, dtype) ==
    IF nd[n].level # level THEN NoHint
    ELSE Hint(Dclause(nd, n, dtype),
              DefiningClause(dtype, nd[n].xvar, level,
                             nd[nd[n].high].xvar, nd[nd[n].low].xvar))

\* The candidates of justify_apply.  In an implication test (op = "imp") the
\* right argument plays the part of the result.
Candidates(nd, op, l, r, level, tresl, tresh, res) ==
    LET s == IF op = "imp" THEN r ELSE res
        Arg2(dtype) == IF op = "imp" THEN NoHint ELSE DefHint(nd, r, level, dtype)
        Op(tres, b) ==
            LET cl == Cofactor(nd, l, level, b)
                cr == Cofactor(nd, r, level, b)
                cs == Cofactor(nd, s, level, b)
            IN  Hint(tres.cid, IF op = "imp" THEN TargetImply(nd, cl, cr)
                                             ELSE TargetAnd(nd, cl, cr, cs))
    IN  [h \in HintTags |->
          CASE h = "RESHU"  -> DefHint(nd, s, level, "HU")
            [] h = "RESLU"  -> DefHint(nd, s, level, "LU")
            [] h = "ARG1HD" -> DefHint(nd, l, level, "HD")
            [] h = "ARG1LD" -> DefHint(nd, l, level, "LD")
            [] h = "ARG2HD" -> Arg2("HD")
            [] h = "ARG2LD" -> Arg2("LD")
            [] h = "OPH"    -> Op(tresh, 1)
            [] h = "OPL"    -> Op(tresl, 0)
            [] h = "EXTRA"  -> NoHint]

-----------------------------------------------------------------------------
(* The recursion of applyj_rec and apply_aij_rec.  A call c asks for the       *)
(* conjunction of c.l and c.r ("and"), whether c.l implies c.r ("imp"), or     *)
(* whether the conjunction of c.l and c.r implies c.t ("aij").                 *)

Sat(c) == \/ c.op = "imp" /\ (c.l = c.r \/ c.l = 0 \/ c.r = 1)
          \/ c.op = "aij" /\ (c.l = 0 \/ c.r = 0)
          \/ c.op = "aij" /\ c.l # 1 /\ c.r # 1 /\ c.l # c.r /\ c.t = 1
\* Mutants: the failures are tested before the terminal cases that hold.
RefutedEarly(c) == c.op = "imp" /\ (c.l = 1 \/ c.r = 0)
Refuted(c)    == c.op = "imp" /\ ~Sat(c) /\ (c.l = 1 \/ c.r = 0)
Degenerate(c) == c.op = "aij" /\ ~Sat(c) /\ (c.l = 1 \/ c.r = 1 \/ c.l = c.r)

\* apply_aij_rec falls back on an implication test.
Weaker(c) == [op |-> "imp", l |-> IF c.l = 1 THEN c.r ELSE c.l, r |-> c.t, t |-> 0]

AndLeaf(c)    == c.op = "and" /\ (c.l = c.r \/ c.l < 2 \/ c.r < 2)
AndRoot(c)    == IF c.l = c.r THEN c.l
                 ELSE IF c.l = 0 \/ c.r = 0 THEN 0
                 ELSE IF c.l = 1 THEN c.r ELSE c.l
Splits(c)     == ~(Sat(c) \/ Refuted(c) \/ Degenerate(c) \/ AndLeaf(c))

SplitLevel(nd, c) ==
    LET args == {c.l, c.r} \cup IF c.op = "aij" THEN {c.t} ELSE {}
    IN  CHOOSE v \in {nd[n].level : n \in args} : \A n \in args : v <= nd[n].level

SubCall(nd, c, level, b) ==
    [op |-> c.op, l |-> Cofactor(nd, c.l, level, b), r |-> Cofactor(nd, c.r, level, b),
     t |-> IF c.op = "aij" THEN Cofactor(nd, c.t, level, b) ELSE c.t]

-----------------------------------------------------------------------------
(* Reverse unit propagation over a list of hints *)

RupStep(acc, hint, h) ==
    LET lits == hint[h].lits
        rest == {x \in lits : -x \notin acc.units}
    IN  IF hint[h].id = TAUTOLOGY \/ acc.state # "open" THEN acc
        ELSE IF lits \cap acc.units # {} THEN [acc EXCEPT !.state = "fail"]
        ELSE IF rest = {} /\ lits # {}
             THEN [acc EXCEPT !.state = "conflict", !.used = @ \cup {h}]
        ELSE IF Cardinality(rest) = 1
             THEN [acc EXCEPT !.units = @ \cup rest, !.used = @ \cup {h}]
        ELSE acc

\* The outcome of rup_check: does the list derive the target, with which hints.
RupCheck(target, order, hint) ==
    LET end == FoldLeft(LAMBDA acc, h : RupStep(acc, hint, h),
                        [units |-> {-x : x \in target}, used |-> {}, state |-> "open"],
                        order)
    IN  [ok |-> end.state = "conflict", used |-> end.used]

\* The antecedents that go with a clause, in the order of the hints.  An entry
\* that is not used is TAUTOLOGY: clean_hints drops it.
\* Mutants: every candidate is cited.
AntecedentsAll(order, hint, used) == [i \in 1..Len(order) |-> hint[order[i]].id]
Antecedents(order, hint, used) ==
    [i \in 1..Len(order) |-> IF order[i] \in used THEN hint[order[i]].id ELSE TAUTOLOGY]

-----------------------------------------------------------------------------
(* The justification of one step *)

JustTarget(nd, op, l, r, res) ==
    CleanClause(IF op = "imp" THEN TargetImply(nd, l, r) ELSE TargetAnd(nd, l, r, res))

Line(id, lits, hints, kind) == [id |-> id, lits |-> lits, hints |-> hints, kind |-> kind]

\* What justify_apply does when the last id given to a clause is last: the
\* clauses it generates, the ids it deletes, and the id it returns.
Justify(nd, op, l, r, level, tresl, tresh, res, last) ==
    LET targ  == JustTarget(nd, op, l, r, res)
        hint  == Candidates(nd, op, l, r, level, tresl, tresh, res)
        hl    == RupCheck(targ, HintHL, hint)
        lh    == RupCheck(targ, HintLH, hint)
        itarg == CleanClause(targ \cup {-level})
        extra == [hint EXCEPT !["EXTRA"] = [id |-> last + 1, lits |-> itarg]]
        first == RupCheck(itarg, HintH, hint)
        secnd == RupCheck(targ, HintL, extra)
        One(order, used) ==
            [ok |-> TRUE, jid |-> last + 1, del |-> {},
             add |-> <<Line(last + 1, targ, Antecedents(order, hint, used), "just")>>]
    IN  IF targ = TautClause
        THEN [ok |-> TRUE, jid |-> TAUTOLOGY, del |-> {}, add |-> <<>>]
        ELSE IF hint["OPH"].id = TAUTOLOGY /\ hl.ok THEN One(HintHL, hl.used)
        ELSE IF hint["OPL"].id = TAUTOLOGY /\ lh.ok THEN One(HintLH, lh.used)
        ELSE [ok |-> first.ok /\ secnd.ok, jid |-> last + 2, del |-> {last + 1},
              add |-> <<Line(last + 1, itarg, Antecedents(HintH, hint, first.used), "just"),
                        Line(last + 2, targ, Antecedents(HintL, extra, secnd.used), "just")>>]
=============================================================================
