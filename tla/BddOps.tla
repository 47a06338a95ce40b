------------------------------- MODULE BddOps -------------------------------
(***************************************************************************)
(* The operations of bddop.c on diagrams without a proof.  The recursive   *)
(* functions are translated case by case, except that the three cases of a *)
(* step (the first operand starts above the second, below it, or with it)  *)
(* are one: AtLow and AtHigh step down the operands that start at the      *)
(* level of the step.  Every function first looks into the operation       *)
(* cache, under the fields of an entry that the code compares.             *)
(***************************************************************************)
EXTENDS BddFunctions

CONSTANT CacheSize      \* bound: entries in the cache at once

ASSUME CacheSizeNat == CacheSize \in Nat

VARIABLE opcache        \* pairs of a key, operation first, and a result

Hit(key)    == \E e \in opcache : e[1] = key
Cached(key) == (CHOOSE e \in opcache : e[1] = key)[2]

\* The cache after a result was stored and entries that share a slot were
\* overwritten.
Stores(key, r) ==
  {s \in SUBSET ({e \in opcache : e[1] # key} \cup {<<key, r>>}) :
     Cardinality(s) <= CacheSize}

----------------------------------------------------------------------------
(* Negation, the binary operators and if-then-else.                        *)

NotKey(f) == <<"not", f>>

RECURSIVE not_rec(_)
not_rec(f) ==
  IF ISCONST(f) THEN BDDONE \ f
  ELSE IF Hit(NotKey(f)) THEN Cached(NotKey(f))
  ELSE bdd_makenode(LEVEL(f), not_rec(LOW(f)), not_rec(HIGH(f)))

\* The results for FALSE FALSE, FALSE TRUE, TRUE FALSE and TRUE TRUE.
oprres == [and    |-> <<FALSE, FALSE, FALSE, TRUE>>,
           xor    |-> <<FALSE, TRUE,  TRUE,  FALSE>>,
           or     |-> <<FALSE, TRUE,  TRUE,  TRUE>>,
           nand   |-> <<TRUE,  TRUE,  TRUE,  FALSE>>,
           nor    |-> <<TRUE,  FALSE, FALSE, FALSE>>,
           imp    |-> <<TRUE,  TRUE,  FALSE, TRUE>>,
           biimp  |-> <<TRUE,  FALSE, FALSE, TRUE>>,
           diff   |-> <<FALSE, FALSE, TRUE,  FALSE>>,
           less   |-> <<FALSE, TRUE,  FALSE, FALSE>>,
           invimp |-> <<TRUE,  FALSE, TRUE,  TRUE>>]

BDDof(b) == IF b THEN BDDONE ELSE BDDZERO
ConstResult(op, l, r) ==
  BDDof(oprres[op][(IF l = BDDONE THEN 2 ELSE 0) + (IF r = BDDONE THEN 1 ELSE 0) + 1])

\* The operands on which an operator answers without recursion, with the answer.
ApplyShort(op, l, r) ==
  CASE op = "and" ->
         (IF l = r THEN {l} ELSE {})
         \cup (IF BDDZERO \in {l, r} THEN {BDDZERO} ELSE {})
         \cup (IF l = BDDONE THEN {r} ELSE {}) \cup (IF r = BDDONE THEN {l} ELSE {})
    [] op = "or" ->
         (IF l = r THEN {l} ELSE {})
         \cup (IF BDDONE \in {l, r} THEN {BDDONE} ELSE {})
         \cup (IF l = BDDZERO THEN {r} ELSE {}) \cup (IF r = BDDZERO THEN {l} ELSE {})
    [] op = "xor" ->
         (IF l = r THEN {BDDZERO} ELSE {})
         \cup (IF l = BDDZERO THEN {r} ELSE {}) \cup (IF r = BDDZERO THEN {l} ELSE {})
    [] op = "nand" -> IF BDDZERO \in {l, r} THEN {BDDONE} ELSE {}
    [] op = "nor"  -> IF BDDONE \in {l, r} THEN {BDDZERO} ELSE {}
    [] op = "imp"  ->
         (IF l = BDDZERO \/ r = BDDONE THEN {BDDONE} ELSE {})
         \cup (IF l = BDDONE THEN {r} ELSE {})
    [] OTHER -> {}

ApplyKey(op, l, r) == <<op, l, r>>

RECURSIVE apply_rec(_, _, _)
apply_rec(op, l, r) ==
  LET short == ApplyShort(op, l, r)
      v     == Top({l, r})
  IN  IF short # {} THEN CHOOSE x \in short : TRUE
      ELSE IF ISCONST(l) /\ ISCONST(r) THEN ConstResult(op, l, r)
      ELSE IF Hit(ApplyKey(op, l, r)) THEN Cached(ApplyKey(op, l, r))
      ELSE bdd_makenode(v, apply_rec(op, AtLow(v, l), AtLow(v, r)),
                           apply_rec(op, AtHigh(v, l), AtHigh(v, r)))

\* Mutant: the key of if-then-else forgets its third operand.
IteKeyShort(f, g, h) == <<"ite", f, g>>

IteKey(f, g, h) == <<"ite", f, g, h>>

RECURSIVE ite_rec(_, _, _)
ite_rec(f, g, h) ==
  LET v == Top({f, g, h})
  IN  IF f = BDDONE THEN g
      ELSE IF f = BDDZERO THEN h
      ELSE IF g = h THEN g
      ELSE IF g = BDDONE /\ h = BDDZERO THEN f
      ELSE IF g = BDDZERO /\ h = BDDONE THEN not_rec(f)
      ELSE IF Hit(IteKey(f, g, h)) THEN Cached(IteKey(f, g, h))
      ELSE bdd_makenode(v, ite_rec(AtLow(v, f), AtLow(v, g), AtLow(v, h)),
                           ite_rec(AtHigh(v, f), AtHigh(v, g), AtHigh(v, h)))

----------------------------------------------------------------------------
(* Cofactors: by a cube, generalized, and by a domain.                     *)

\* varset2svartable: the levels that a cube fixes, with the value.
RECURSIVE varset2svartable(_)
varset2svartable(n) ==
  IF ISCONST(n) THEN {}
  ELSE IF LOW(n) = BDDZERO
       THEN {<<LEVEL(n), TRUE>>} \cup varset2svartable(HIGH(n))
       ELSE {<<LEVEL(n), FALSE>>} \cup varset2svartable(LOW(n))

\* Mutant: the key of a restriction forgets the cube.
RestrictKeyShort(id, f) == <<"misc", <<1>>, f>>

RestrictKey(id, f) == <<"misc", <<1, id>>, f>>

RECURSIVE restrict_rec(_, _)
restrict_rec(f, e) ==
  IF ISCONST(f) \/ LEVEL(f) > e.last THEN f
  ELSE IF Hit(RestrictKey(e.id, f)) THEN Cached(RestrictKey(e.id, f))
  ELSE IF <<LEVEL(f), TRUE>> \in e.fixed THEN restrict_rec(HIGH(f), e)
  ELSE IF <<LEVEL(f), FALSE>> \in e.fixed THEN restrict_rec(LOW(f), e)
  ELSE bdd_makenode(LEVEL(f), restrict_rec(LOW(f), e), restrict_rec(HIGH(f), e))

ConstrainKey(f, c) == <<"misc", <<0>>, f, c>>

RECURSIVE constrain_rec(_, _)
constrain_rec(f, c) ==
  LET v == Top({f, c})
  IN  IF c = BDDONE \/ ISCONST(f) THEN f
      ELSE IF c = f THEN BDDONE
      ELSE IF c = BDDZERO THEN BDDZERO
      ELSE IF Hit(ConstrainKey(f, c)) THEN Cached(ConstrainKey(f, c))
      ELSE IF LEVEL(c) = v /\ LOW(c) = BDDZERO
           THEN constrain_rec(AtHigh(v, f), HIGH(c))
      ELSE IF LEVEL(c) = v /\ HIGH(c) = BDDZERO
           THEN constrain_rec(AtLow(v, f), LOW(c))
      ELSE bdd_makenode(v, constrain_rec(AtLow(v, f), AtLow(v, c)),
                           constrain_rec(AtHigh(v, f), AtHigh(v, c)))

SimplifyKey(f, d) == <<"simplify", f, d>>

RECURSIVE simplify_rec(_, _)
\* Mutant: the generalized cofactor instead.
SimplifyAsConstrain(f, d) == constrain_rec(f, d)

simplify_rec(f, d) ==
  IF d = BDDONE \/ ISCONST(f) THEN f
  ELSE IF d = f THEN BDDONE
  ELSE IF d = BDDZERO THEN BDDZERO
  ELSE IF Hit(SimplifyKey(f, d)) THEN Cached(SimplifyKey(f, d))
  ELSE IF LEVEL(d) < LEVEL(f)
       THEN simplify_rec(f, apply_rec("or", LOW(d), HIGH(d)))
  ELSE IF LEVEL(f) = LEVEL(d) /\ LOW(d) = BDDZERO
       THEN simplify_rec(HIGH(f), HIGH(d))
  ELSE IF LEVEL(f) = LEVEL(d) /\ HIGH(d) = BDDZERO
       THEN simplify_rec(LOW(f), LOW(d))
  ELSE LET v == LEVEL(f)
       IN  bdd_makenode(v, simplify_rec(LOW(f), AtLow(v, d)),
                           simplify_rec(HIGH(f), AtHigh(v, d)))

----------------------------------------------------------------------------
(* Quantification, alone or with a binary operator.                        *)

\* varset2vartable: the levels of a variable set.
RECURSIVE varset2vartable(_)
varset2vartable(n) ==
  IF ISCONST(n) THEN {} ELSE {LEVEL(n)} \cup varset2vartable(HIGH(n))

\* Mutant: the key of a quantification forgets kind and variables.
QuantKeyShort(id, f) == <<"quant", f>>

QuantKey(id, f) == <<"quant", id, f>>

\* A level of the set is joined with e.join, any other keeps its node.
Quantified(v, low, high, e) ==
  IF v \in e.levels THEN apply_rec(e.join, low, high) ELSE bdd_makenode(v, low, high)

RECURSIVE quant_rec(_, _)
quant_rec(f, e) ==
  IF ISCONST(f) \/ LEVEL(f) > e.last THEN f
  ELSE IF Hit(QuantKey(e.id, f)) THEN Cached(QuantKey(e.id, f))
  ELSE Quantified(LEVEL(f), quant_rec(LOW(f), e), quant_rec(HIGH(f), e), e)

AppexKey(id, l, r) == <<"appex", id, l, r>>

\* The operands on which appquant_rec answers with a constant, or goes on
\* with the quantification of one operand.
AppConst(op, l, r) ==
  CASE op = "and"  -> IF BDDZERO \in {l, r} THEN {BDDZERO} ELSE {}
    [] op = "or"   -> IF BDDONE \in {l, r} THEN {BDDONE} ELSE {}
    [] op = "xor"  -> IF l = r THEN {BDDZERO} ELSE {}
    [] op = "nand" -> IF BDDZERO \in {l, r} THEN {BDDONE} ELSE {}
    [] op = "nor"  -> IF BDDONE \in {l, r} THEN {BDDZERO} ELSE {}
    [] OTHER -> {}
AppOne(op, l, r) ==
  LET unit == IF op = "and" THEN BDDONE ELSE BDDZERO
  IN  IF op \notin {"and", "or", "xor"} THEN {}
      ELSE (IF l = r \/ r = unit THEN {l} ELSE {}) \cup (IF l = unit THEN {r} ELSE {})

RECURSIVE appquant_rec(_, _, _)
appquant_rec(l, r, e) ==
  LET v == Top({l, r})
  IN  IF AppConst(e.op, l, r) # {} THEN CHOOSE x \in AppConst(e.op, l, r) : TRUE
      ELSE IF AppOne(e.op, l, r) # {}
           THEN quant_rec(CHOOSE x \in AppOne(e.op, l, r) : TRUE, e)
      ELSE IF ISCONST(l) /\ ISCONST(r) THEN ConstResult(e.op, l, r)
      ELSE IF v > e.last THEN apply_rec(e.op, l, r)
      ELSE IF Hit(AppexKey(e.appexid, l, r)) THEN Cached(AppexKey(e.appexid, l, r))
      ELSE Quantified(v, appquant_rec(AtLow(v, l), AtLow(v, r), e),
                         appquant_rec(AtHigh(v, l), AtHigh(v, r), e), e)

----------------------------------------------------------------------------
(* Substitution.                                                           *)

\* Mutant: the key of a composition forgets the variable.
ComposeKeyShort(level, f, g) == <<"replace", <<1>>, f, g>>

ComposeKey(level, f, g) == <<"replace", <<1, level>>, f, g>>

RECURSIVE compose_rec(_, _, _)
compose_rec(f, g, level) ==
  LET v == Top({f, g})
  IN  IF LEVEL(f) > level THEN f
      ELSE IF Hit(ComposeKey(level, f, g)) THEN Cached(ComposeKey(level, f, g))
      ELSE IF LEVEL(f) = level THEN ite_rec(g, HIGH(f), LOW(f))
      ELSE bdd_makenode(v, compose_rec(AtLow(v, f), AtLow(v, g), level),
                           compose_rec(AtHigh(v, f), AtHigh(v, g), level))

\* The result of a replacement put at its level; Malformed stands for the
\* error that the new variable occurs below already.
RECURSIVE bdd_correctify(_, _, _)
bdd_correctify(level, l, r) ==
  LET v == Top({l, r})
  IN  IF level < v THEN bdd_makenode(level, l, r)
      ELSE IF level \in {LEVEL(l), LEVEL(r)} THEN Malformed
      ELSE bdd_makenode(v, bdd_correctify(level, AtLow(v, l), AtLow(v, r)),
                           bdd_correctify(level, AtHigh(v, l), AtHigh(v, r)))

\* Mutant: the key of a replacement forgets the table.
ReplaceKeyShort(id, f) == <<"replace", <<0>>, f>>

ReplaceKey(id, f) == <<"replace", <<0, id>>, f>>

\* p is a bddPair: [id, last, result], result a BDD for each level.
RECURSIVE replace_rec(_, _)
replace_rec(f, p) ==
  IF ISCONST(f) \/ LEVEL(f) > p.last THEN f
  ELSE IF Hit(ReplaceKey(p.id, f)) THEN Cached(ReplaceKey(p.id, f))
  ELSE bdd_correctify(LEVEL(p.result[LEVEL(f)]),
                      replace_rec(LOW(f), p), replace_rec(HIGH(f), p))

VecKey(id, f) == <<"replace", <<2, id>>, f>>

RECURSIVE veccompose_rec(_, _)
veccompose_rec(f, p) ==
  IF LEVEL(f) > p.last THEN f
  ELSE IF Hit(VecKey(p.id, f)) THEN Cached(VecKey(p.id, f))
  ELSE ite_rec(p.result[LEVEL(f)], veccompose_rec(HIGH(f), p), veccompose_rec(LOW(f), p))
=============================================================================
