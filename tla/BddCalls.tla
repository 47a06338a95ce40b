------------------------------ MODULE BddCalls ------------------------------
(***************************************************************************)
(* A program that calls the operations of bddop.c one after another.  A    *)
(* call may once be interrupted by a reordering, which drops the cache and *)
(* starts the call again, and an entry of the cache may be overwritten at  *)
(* any time, its slot being shared.                                        *)
(***************************************************************************)
EXTENDS BddOps

CONSTANT Calls          \* the calls [op, opr, f, g, h, var], by the number of variables

\* Bound: calls over all variables are made alone and not interrupted.
OneCall == bddvarnum = MaxVars

VARIABLES
  job,          \* the call under way
  env,          \* the tables and levels the call was set up with
  phase,        \* "idle", "again" before a reordering, "last" after it, "done"
  res           \* the result of the call

callsVars == <<level2var, opcache, job, env, phase, res>>

----------------------------------------------------------------------------
(* The calls.                                                              *)

Last(levels) == CHOOSE l \in levels : \A k \in levels : k <= l

\* What a call computes from its arguments before it recurs, and again after
\* a reordering.
NoEnv == [id |-> <<>>, last |-> -1]
QuantEnv(j, n, join) ==
  LET levels == varset2vartable(j.h)
  IN  [id |-> <<n, j.h>>, levels |-> levels, last |-> Last(levels), join |-> join]
AppEnv(j, n, bit, join) ==
  LET levels == varset2vartable(j.h)
      appid  == <<j.h, j.opr, bit>>
  IN  [id |-> <<n, appid>>, appexid |-> appid, op |-> j.opr, join |-> join,
       levels |-> levels, last |-> Last(levels)]
RestrictEnv(j) ==
  [id |-> j.h, fixed |-> varset2svartable(j.h), last |-> bddvarnum]
ComposeEnv(j) == [id |-> <<>>, last |-> bddvar2level(j.var)]

AppExist(j) == AppEnv(j, 3, 0, "or")
AppAll(j)   == AppEnv(j, 4, 1, "and")
AppUnique(j) == AppEnv(j, 5, 1, "xor")

Prepare(j) ==
  CASE j.op \in {"restrict", "exist", "forall", "unique", "appex", "appall", "appuni"}
         /\ ISCONST(j.h)       -> NoEnv
    [] j.op = "restrict"       -> RestrictEnv(j)
    [] j.op = "exist"          -> QuantEnv(j, 0, "or")
    [] j.op = "forall"         -> QuantEnv(j, 1, "and")
    [] j.op = "unique"         -> QuantEnv(j, 2, "xor")
    [] j.op = "appex"          -> AppExist(j)
    [] j.op = "appall"         -> AppAll(j)
    [] j.op = "appuni"         -> AppUnique(j)
    [] j.op = "compose"        -> ComposeEnv(j)
    [] OTHER                   -> NoEnv

\* bdd_buildcube: the bits of a number taken from the last variable back.
RECURSIVE bdd_buildcube(_, _, _)
bdd_buildcube(value, literals, result) ==
  IF literals = <<>> THEN result
  ELSE LET n == Len(literals)
           b == literals[n]
           v == IF value % 2 = 1 THEN b ELSE not_rec(b)
       IN  bdd_buildcube(value \div 2, SubSeq(literals, 1, n - 1), apply_rec("and", result, v))

EvaluateCall(j, e) ==
  CASE j.op = "not"       -> not_rec(j.f)
    [] j.op = "apply"     -> apply_rec(j.opr, j.f, j.g)
    [] j.op = "ite"       -> ite_rec(j.f, j.g, j.h)
    [] j.op = "constrain" -> constrain_rec(j.f, j.g)
    [] j.op = "simplify"  -> simplify_rec(j.f, j.g)
    [] j.op = "compose"   -> compose_rec(j.f, j.g, e.last)
    [] j.op = "cube"      -> bdd_buildcube(j.var, <<j.f, j.g, j.h>>, BDDONE)
    [] j.op = "restrict"  -> IF ISCONST(j.h) THEN j.f ELSE restrict_rec(j.f, e)
    [] j.op \in {"exist", "forall", "unique"} ->
         IF ISCONST(j.h) THEN j.f ELSE quant_rec(j.f, e)
    [] OTHER ->
         IF ISCONST(j.h) THEN apply_rec(j.opr, j.f, j.g) ELSE appquant_rec(j.f, j.g, e)

\* The key under which the call leaves its result; <<>> when it leaves none.
KeyOf(j, e) ==
  CASE j.op = "not"       -> NotKey(j.f)
    [] j.op = "apply"     -> ApplyKey(j.opr, j.f, j.g)
    [] j.op = "ite"       -> IteKey(j.f, j.g, j.h)
    [] j.op = "constrain" -> ConstrainKey(j.f, j.g)
    [] j.op = "simplify"  -> SimplifyKey(j.f, j.g)
    [] j.op = "compose"   -> ComposeKey(e.last, j.f, j.g)
    [] j.op = "cube"      -> <<>>
    [] ISCONST(j.h)       -> <<>>
    [] j.op = "restrict"  -> RestrictKey(e.id, j.f)
    [] j.op \in {"exist", "forall", "unique"} -> QuantKey(e.id, j.f)
    [] OTHER              -> AppexKey(e.appexid, j.f, j.g)

----------------------------------------------------------------------------
(* Every call sets up its tables and recurs; a reordering in the middle    *)
(* comes back to setjmp, and the second attempt runs with reordering off.  *)

NoCall == [op |-> "none"]

CallsInit ==
  /\ \E n \in DOMAIN Calls : level2var = [i \in 1 .. n |-> i - 1]
  /\ opcache = {}
  /\ job = NoCall /\ env = NoEnv /\ phase = "idle" /\ res = BDDZERO

Begin ==
  /\ phase = "idle"
  /\ \E j \in Calls[bddvarnum] :
       /\ job' = j
       /\ env' = Prepare(j)
  /\ phase' = "again"
  /\ UNCHANGED <<level2var, opcache, res>>

\* bdd_checkreorder and goto again.
Interrupted ==
  /\ ~OneCall
  /\ phase = "again"
  /\ UNCHANGED <<job, res>>
  /\ level2var' \in Orders(0 .. bddvarnum - 1)
  /\ opcache' = {}
  /\ env' = Prepare(job)'
  /\ phase' = "last"

Finish ==
  /\ phase \in {"again", "last"}
  /\ res' = EvaluateCall(job, env)
  /\ LET key == KeyOf(job, env)
     IN  IF key = <<>> \/ OneCall THEN UNCHANGED opcache ELSE opcache' \in Stores(key, res')
  /\ phase' = "done"
  /\ UNCHANGED <<level2var, job, env>>

EndCall ==
  /\ phase = "done"
  /\ job' = NoCall /\ env' = NoEnv /\ phase' = "idle" /\ res' = BDDZERO
  /\ UNCHANGED <<level2var, opcache>>

CallsNext == Begin \/ Interrupted \/ Finish \/ EndCall

CallsSpec == CallsInit /\ [][CallsNext]_callsVars

----------------------------------------------------------------------------
(* What the operations promise, stated on assignments.                     *)

Meaning(op, a, b) ==
  CASE op = "and" -> a /\ b      [] op = "or"   -> a \/ b
    [] op = "xor" -> a # b       [] op = "nand" -> ~(a /\ b)
    [] op = "nor" -> ~(a \/ b)   [] op = "imp"  -> a => b
    [] op = "biimp" -> a = b     [] op = "diff" -> a /\ ~b
    [] op = "less" -> ~a /\ b    [] op = "invimp" -> b => a
Combined(op, f, g) == {a \in Assignments : Meaning(op, a \in f, a \in g)}

\* The assignments that agree with a outside V.
Around(a, V) == {(a \ V) \cup S : S \in SUBSET V}
Exists(f, V) == {a \in Assignments : \E b \in Around(a, V) : b \in f}
ForAll(f, V) == {a \in Assignments : \A b \in Around(a, V) : b \in f}

\* A literal of a cube fixes its variable.
FixedBy(a, c) == (a \ Support(c)) \cup {v \in Support(c) : c \subseteq BDD_ithvar(v)}

\* The point of c nearest to a, the variables of the higher levels counting more.
Distance(a, b) ==
  LET weight == [v \in Variables |-> IF \E l \in Levels : VarAt(l) = v
                                     THEN 2 ^ (MaxVars - bddvar2level(v)) ELSE 1]
      differ == (a \ b) \cup (b \ a)
      sum[V \in SUBSET Variables] ==
        IF V = {} THEN 0 ELSE LET v == CHOOSE v \in V : TRUE IN weight[v] + sum[V \ {v}]
  IN  sum[differ]
Nearest(a, c) == CHOOSE b \in c : \A x \in c : Distance(a, b) <= Distance(a, x)

Done(ops) == phase = "done" /\ job.op \in ops

\* bdd_apply, bdd_not and bdd_ite compute the Boolean functions they are named
\* for, under every order and whatever the cache holds.
ApplyRight ==
  Done({"not", "apply", "ite"}) =>
    res = (CASE job.op = "not"   -> Assignments \ job.f
             [] job.op = "apply" -> Combined(job.opr, job.f, job.g)
             [] job.op = "ite"   -> {a \in Assignments :
                                       IF a \in job.f THEN a \in job.g ELSE a \in job.h})

\* bdd_restrict fixes the variables of the cube at their polarity;
\* bdd_constrain maps every point to the nearest one of the care set.
CofactorRight ==
  /\ Done({"restrict"}) => res = {a \in Assignments : FixedBy(a, job.h) \in job.f}
  /\ Done({"constrain"}) /\ job.g # BDDZERO =>
       res = {a \in Assignments : Nearest(a, job.g) \in job.f}

\* bdd_simplify agrees with f on the domain and brings in no new variable.
SimplifyRight ==
  Done({"simplify"}) => /\ res \cap job.g = job.f \cap job.g
                        /\ res \in BDDs
                        /\ Support(res) \subseteq Support(job.f)

\* bdd_exist and bdd_forall quantify, and bdd_appex and bdd_appall compute
\* the quantification of the combination without building it.
QuantRight ==
  Done({"exist", "forall", "appex", "appall"}) =>
    LET V == Support(job.h)
        f == IF job.op \in {"appex", "appall"} THEN Combined(job.opr, job.f, job.g) ELSE job.f
    IN  res = IF job.op \in {"exist", "appex"} THEN Exists(f, V) ELSE ForAll(f, V)

\* bdd_compose puts a function, which may depend on any variable, in the
\* place of a variable; bdd_buildcube makes the conjunction of its literals.
ComposeRight ==
  /\ Done({"compose"}) =>
       res = {a \in Assignments : (IF a \in job.g THEN a \cup {job.var}
                                                  ELSE a \ {job.var}) \in job.f}
  /\ Done({"cube"}) =>
       res = {a \in Assignments : /\ (a \in job.f) = ((job.var \div 4) % 2 = 1)
                                  /\ (a \in job.g) = ((job.var \div 2) % 2 = 1)
                                  /\ (a \in job.h) = (job.var % 2 = 1)}

\* Every operation answers as the function it is named for, whatever an earlier
\* call left in the cache.
CallsRight == ApplyRight /\ CofactorRight /\ SimplifyRight /\ QuantRight /\ ComposeRight
=============================================================================
