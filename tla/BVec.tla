-------------------------------- MODULE BVec --------------------------------
(***************************************************************************)
(* The arithmetic of bvec.c on vectors of diagrams, least significant bit  *)
(* first, and what it does to reference counts.  The operations on single  *)
(* diagrams are those of BddOps, here by their meaning.  An operation      *)
(* returns its vector and a net account of the references it took and      *)
(* gave back; temporaries referenced and released within one step are      *)
(* left out of it.                                                         *)
(***************************************************************************)
EXTENDS BddFunctions

CONSTANT Jobs           \* the calls: [op, l, r, n, b]

VARIABLES job, res

vars == <<level2var, job, res>>

Not(f)       == BDDONE \ f
Xor(f, g)    == (f \ g) \cup (g \ f)
Biimp(f, g)  == BDDONE \ Xor(f, g)
Less(f, g)   == g \ f
Ite(f, g, h) == (f \cap g) \cup (h \ f)

MinOf(a, b) == IF a < b THEN a ELSE b
Idx(n)     == 0 .. n - 1
bitnum(v)  == Cardinality(DOMAIN v)
IsTrue(f)  == f = BDDONE

----------------------------------------------------------------------------
(* Accounts: how often each diagram is referenced more than before.        *)

NoRefs == [f \in {} |-> 0]
At(m, f) == IF f \in DOMAIN m THEN m[f] ELSE 0
Plus(m, k)  == [f \in DOMAIN m \cup DOMAIN k |-> At(m, f) + At(k, f)]
Minus(m, k) == [f \in DOMAIN m \cup DOMAIN k |-> At(m, f) - At(k, f)]

\* Constants are not counted.
Refs(v) == [f \in {v[i] : i \in DOMAIN v} \ {BDDZERO, BDDONE} |->
              Cardinality({i \in DOMAIN v : v[i] = f})]
Ref(f)  == Refs([i \in {0} |-> f])
SameRefs(m, k) == \A f \in DOMAIN m \cup DOMAIN k : At(m, f) = At(k, f)

\* The result of an operation that references the bits of its vector.
Counted(v) == [vec |-> v, refs |-> Refs(v)]

----------------------------------------------------------------------------
(* Construction and comparison.                                            *)

bvec_build(n, b) == [i \in Idx(n) |-> IF b THEN BDDONE ELSE BDDZERO]
bvec_con(n, val) == [i \in Idx(n) |-> IF (val \div 2 ^ i) % 2 = 1 THEN BDDONE ELSE BDDZERO]
bvec_var(n, offset, step) == [i \in Idx(n) |-> BDD_ithvar(offset + i * step)]
bvec_varvec(vars_) == [i \in Idx(Len(vars_)) |-> BDD_ithvar(vars_[i + 1])]
bvec_coerce(n, v) == [i \in Idx(n) |-> IF i < bitnum(v) THEN v[i] ELSE BDDZERO]
bvec_isconst(v)   == \A i \in DOMAIN v : ISCONST(v[i])

\* 0 when a bit is not constant.
bvec_val(v) ==
  LET sum[i \in 0 .. bitnum(v)] ==
        IF i = 0 THEN 0 ELSE sum[i - 1] + (IF IsTrue(v[i - 1]) THEN 2 ^ (i - 1) ELSE 0)
  IN  IF bvec_isconst(v) THEN sum[bitnum(v)] ELSE 0

\* Less than when first is FALSE, less than or equal when it is TRUE.
Ordered(l, r, first) ==
  LET p[i \in 0 .. bitnum(l)] ==
        IF i = 0 THEN (IF first THEN BDDONE ELSE BDDZERO)
        ELSE Less(l[i - 1], r[i - 1]) \cup (Biimp(l[i - 1], r[i - 1]) \cap p[i - 1])
  IN  IF bitnum(l) = 0 THEN BDDZERO ELSE p[bitnum(l)]
bvec_lth(l, r) == Ordered(l, r, FALSE)
bvec_lte(l, r) == Ordered(l, r, TRUE)
bvec_gth(l, r) == Not(bvec_lte(l, r))
\* Mutant: the strict order.
GteStrict(l, r) == Not(bvec_lte(l, r))

bvec_gte(l, r) == Not(bvec_lth(l, r))
bvec_equ(l, r) == {a \in Assignments : \A i \in DOMAIN l : a \in Biimp(l[i], r[i])}
bvec_neq(l, r) == Not(bvec_equ(l, r))

\* A function applied bit by bit, a vector without bits when the widths differ.
BitOp(f, a, b) == CASE f = "and" -> a \cap b [] f = "or" -> a \cup b [] f = "xor" -> Xor(a, b)
bvec_map2(v, w, f) ==
  Counted(IF bitnum(v) = bitnum(w) THEN [i \in DOMAIN v |-> BitOp(f, v[i], w[i])]
          ELSE bvec_build(0, FALSE))

bvec_ite(f, v, w) == Counted([i \in DOMAIN v |-> Ite(f, v[i], w[i])])

----------------------------------------------------------------------------
(* Shifts.                                                                 *)

bvec_shlfixed(v, pos, c) ==
  [i \in DOMAIN v |-> IF i < MinOf(bitnum(v), pos) THEN c ELSE v[i - pos]]

bvec_shrfixed(v, pos, c) ==
  [i \in DOMAIN v |-> IF i + pos < bitnum(v) THEN v[i + pos] ELSE c]

\* Mutant: the amount that shifts out the whole vector is forgotten.
CollectedShort(l, r, c, bit) ==
  LET larger == bvec_gth(r, bvec_con(bitnum(r), bitnum(l)))
  IN  Counted([m \in DOMAIN l |->
                 UNION ({bvec_equ(r, bvec_con(bitnum(r), n)) \cap bit[m, n] :
                           n \in 0 .. bitnum(l) - 1} \cup {larger \cap c})])

\* The m-th bit collected over the shift amounts n, each under r = n, and c
\* for larger amounts.  At the end the diagram of "larger" is released, which
\* was never referenced.
Collected(l, r, c, bit) ==
  LET larger == bvec_gth(r, bvec_con(bitnum(r), bitnum(l)))
      result == [m \in DOMAIN l |->
                   UNION ({bvec_equ(r, bvec_con(bitnum(r), n)) \cap bit[m, n] :
                             n \in 0 .. bitnum(l)} \cup {larger \cap c})]
  IN  [vec |-> result, refs |-> Minus(Refs(result), Ref(larger))]

bvec_shl(l, r, c) ==
  LET bit[m \in DOMAIN l, n \in 0 .. bitnum(l)] == IF m - n >= 0 THEN l[m - n] ELSE c
  IN  Collected(l, r, c, bit)

\* The bound is 2 whatever the width; beyond the vector the bit is read from
\* outside the array, here as FALSE.
bvec_shr(l, r, c) ==
  LET bit[m \in DOMAIN l, n \in 0 .. bitnum(l)] ==
        IF m + n <= 2 THEN (IF m + n < bitnum(l) THEN l[m + n] ELSE BDDZERO) ELSE c
  IN  Collected(l, r, c, bit)

----------------------------------------------------------------------------
(* Addition, subtraction and multiplication.                               *)

\* Mutant: the borrow of equal bits is lost.
BorrowLost(l, r, c) == Less(l, r \cup c)

CarryOf(l, r, c)  == (l \cap r) \cup (c \cap (l \cup r))
BorrowOf(l, r, c) == (l \cap r \cap c) \cup Less(l, r \cup c)

Rippled(l, r, carry(_, _, _)) ==
  LET c[i \in 0 .. bitnum(l)] ==
        IF i = 0 THEN BDDZERO ELSE LET p == c[i - 1] IN carry(l[i - 1], r[i - 1], p)
  IN  Counted([i \in DOMAIN l |-> Xor(Xor(l[i], r[i]), c[i])])
bvec_add(l, r) == Rippled(l, r, CarryOf)
bvec_sub(l, r) == Rippled(l, r, BorrowOf)

\* The shifted vector of a step is not referenced but released with the rest.
RECURSIVE bvec_mulfixed(_, _)
bvec_mulfixed(e, c) ==
  IF c = 0 THEN Counted(bvec_build(bitnum(e), FALSE))
  ELSE LET next == bvec_shlfixed(e, 1, BDDZERO)
           rest == bvec_mulfixed(next, c \div 2)
           sum  == bvec_add(e, rest.vec)
           done == IF c % 2 = 1
                   THEN [vec |-> sum.vec,
                         refs |-> Minus(Plus(rest.refs, sum.refs), Refs(rest.vec))]
                   ELSE rest
       IN  [done EXCEPT !.refs = Minus(@, Refs(next))]

\* Mutant: the shifted operand is not released.
RECURSIVE MulStep(_, _, _, _, _)
ShiftedKept(res0, left, right, n, refs) ==
  IF n = bitnum(right)
  THEN [vec |-> res0, refs |-> refs]
  ELSE LET added == bvec_add(res0, left).vec
           next  == [m \in DOMAIN res0 |-> Ite(right[n], added[m], res0[m])]
       IN  MulStep(next, bvec_shlfixed(left, 1, BDDZERO), right, n + 1,
                   Minus(Plus(refs, Minus(Refs(next), Refs(res0))), Ref(left[bitnum(left) - 1])))

\* One step per bit of the right operand: res is kept or added to, the left
\* operand shifted and its last bit released.
MulStep(res0, left, right, n, refs) ==
  IF n = bitnum(right)
  THEN [vec |-> res0, refs |-> Minus(refs, Refs(left))]
  ELSE LET added == bvec_add(res0, left).vec
           next  == [m \in DOMAIN res0 |-> Ite(right[n], added[m], res0[m])]
           step  == Minus(Plus(Refs(next), Refs(added)), Plus(Refs(res0), Refs(added)))
       IN  MulStep(next, bvec_shlfixed(left, 1, BDDZERO), right, n + 1,
                   Minus(Plus(refs, step), Ref(left[bitnum(left) - 1])))
bvec_mul(l, r) ==
  LET left == bvec_coerce(bitnum(l) + bitnum(r), l)
  IN  MulStep(bvec_build(bitnum(l) + bitnum(r), FALSE), left, r, 0, Refs(left))

----------------------------------------------------------------------------
(* Division: the remainder is shifted in from the dividend bit by bit.     *)

RECURSIVE bvec_div_rec(_, _, _, _)
bvec_div_rec(divisor, remainder, result, step) ==
  LET n == bitnum(divisor)
      isSmaller == bvec_lte(divisor, remainder)
      newResult == bvec_shlfixed(result, 1, isSmaller)
      sub == [i \in DOMAIN divisor |-> isSmaller \cap divisor[i]]
      tmp == bvec_sub(remainder, sub).vec
      newRemainder == bvec_shlfixed(tmp, 1, result[n - 1])
      taken == Plus(Refs(newResult), Refs(newRemainder))
      given == Plus(Refs(sub), Plus(Refs(remainder), Refs(result)))
      rest  == IF step > 1 THEN bvec_div_rec(divisor, newRemainder, newResult, step - 1)
               ELSE [quo |-> newResult, rem |-> newRemainder, refs |-> NoRefs]
  IN  [rest EXCEPT !.refs = Minus(Plus(@, taken), given)]

bvec_divfixed(e, c) ==
  LET n == bitnum(e)
      remainder == bvec_shlfixed(bvec_build(n, FALSE), 1, e[n - 1])
      result    == bvec_shlfixed(e, 1, BDDZERO)
      d         == bvec_div_rec(bvec_con(n, c), remainder, result, n)
      rem       == bvec_shrfixed(d.rem, 1, BDDZERO)
  IN  [vec |-> d.quo, rem |-> rem,
       refs |-> Minus(Plus(Plus(Refs(remainder), Refs(result)), Plus(d.refs, Refs(rem))),
                      Refs(d.rem))]

\* Mutant: the divisor is shifted before it is compared.
RECURSIVE DivStep(_, _, _, _, _)
ShiftsFirst(rem, div, quo, n, k) ==
  IF n > k THEN [vec |-> quo, rem |-> bvec_coerce(k, rem), refs |-> NoRefs]
  ELSE LET down == bvec_shrfixed(div, 1, BDDZERO)
           fits == bvec_lte(down, rem)
           less == bvec_sub(rem, down).vec
       IN  DivStep([m \in DOMAIN rem |-> Ite(fits, less[m], rem[m])], down,
                   IF n = 0 THEN quo ELSE [quo EXCEPT ![k - n] = fits], n + 1, k)

\* One step per position of the divisor, from the left of the dividend to its
\* last bit; the first one can only fit when the divisor is zero.
DivStep(rem, div, quo, n, k) ==
  IF n > k THEN [vec |-> quo, rem |-> bvec_coerce(k, rem), refs |-> NoRefs]
  ELSE LET fits == bvec_lte(div, rem)
           less == bvec_sub(rem, div).vec
       IN  DivStep([m \in DOMAIN rem |-> Ite(fits, less[m], rem[m])],
                   bvec_shrfixed(div, 1, BDDZERO),
                   IF n = 0 THEN quo ELSE [quo EXCEPT ![k - n] = fits], n + 1, k)

bvec_div(l, r) ==
  LET n == bitnum(l) + bitnum(r)
  IN  DivStep(bvec_coerce(n, l), bvec_shlfixed(bvec_coerce(n, r), bitnum(l), BDDZERO),
              bvec_build(bitnum(r), FALSE), 0, bitnum(r))

----------------------------------------------------------------------------

NoJob == [op |-> "none"]

Init ==
  /\ level2var = [i \in 1 .. MaxVars |-> i - 1]
  /\ job = NoJob /\ res = <<>>

Comparison(op, l, r) ==
  CASE op = "lth" -> bvec_lth(l, r) [] op = "lte" -> bvec_lte(l, r)
    [] op = "gth" -> bvec_gth(l, r) [] op = "gte" -> bvec_gte(l, r)
    [] op = "equ" -> bvec_equ(l, r) [] op = "neq" -> bvec_neq(l, r)
Comparisons == {"lth", "lte", "gth", "gte", "equ", "neq"}

Evaluate(j) ==
  CASE j.op = "add"      -> bvec_add(j.l, j.r)
    [] j.op = "sub"      -> bvec_sub(j.l, j.r)
    [] j.op = "mul"      -> bvec_mul(j.l, j.r)
    [] j.op = "mulfixed" -> bvec_mulfixed(j.l, j.n)
    [] j.op = "div"      -> bvec_div(j.l, j.r)
    [] j.op = "divfixed" -> bvec_divfixed(j.l, j.n)
    [] j.op = "ite"      -> bvec_ite(j.b, j.l, j.r)
    [] j.op = "map2"     -> bvec_map2(j.l, j.r, "xor")
    [] j.op = "coerce"   -> Counted(bvec_coerce(j.n, j.l))
    [] j.op = "con"      -> Counted(bvec_con(j.n, bvec_val(j.l)))
    [] j.op = "shlfixed" -> Counted(bvec_shlfixed(j.l, j.n, j.b))
    [] j.op = "shrfixed" -> Counted(bvec_shrfixed(j.l, j.n, j.b))
    [] j.op = "shl"      -> bvec_shl(j.l, j.r, j.b)
    [] j.op = "shr"      -> bvec_shr(j.l, j.r, j.b)
    [] OTHER             -> [vec |-> Comparison(j.op, j.l, j.r), refs |-> NoRefs]

Call ==
  /\ job = NoJob
  /\ job' \in Jobs
  /\ UNCHANGED <<level2var, res>>

Compute ==
  /\ job # NoJob /\ res = <<>>
  /\ res' = <<Evaluate(job)>>
  /\ UNCHANGED <<level2var, job>>

Return ==
  /\ res # <<>>
  /\ job' = NoJob /\ res' = <<>>
  /\ UNCHANGED level2var

Next == Call \/ Compute \/ Return

Spec == Init /\ [][Next]_vars

----------------------------------------------------------------------------
(* What the vectors mean: a number for each assignment.                    *)

Value(v, a) ==
  LET sum[i \in 0 .. bitnum(v)] ==
        IF i = 0 THEN 0 ELSE sum[i - 1] + (IF a \in v[i - 1] THEN 2 ^ (i - 1) ELSE 0)
  IN  sum[bitnum(v)]

Computed(ops) == res # <<>> /\ job.op \in ops
Vec == res[1].vec
Range(v) == 2 ^ bitnum(v)

\* Sums, differences and products modulo the range of the result; the product
\* of two vectors has the sum of their widths and never overflows.
ArithmeticRight ==
  /\ Computed({"add"}) =>
       \A a \in Assignments : Value(Vec, a) = (Value(job.l, a) + Value(job.r, a)) % Range(Vec)
  /\ Computed({"sub"}) =>
       \A a \in Assignments :
         Value(Vec, a) = (Value(job.l, a) - Value(job.r, a) + Range(Vec)) % Range(Vec)
  /\ Computed({"mulfixed"}) =>
       \A a \in Assignments : Value(Vec, a) = (Value(job.l, a) * job.n) % Range(Vec)
  /\ Computed({"mul"}) =>
       \A a \in Assignments : Value(Vec, a) = Value(job.l, a) * Value(job.r, a)

\* The comparisons are those of the numbers.
ComparisonRight ==
  Computed(Comparisons) =>
    \A a \in Assignments :
      LET x == Value(job.l, a)
          y == Value(job.r, a)
      IN  a \in Vec <=>
            CASE job.op = "lth" -> x < y  [] job.op = "lte" -> x <= y
              [] job.op = "gth" -> x > y  [] job.op = "gte" -> x >= y
              [] job.op = "equ" -> x = y  [] job.op = "neq" -> x # y

\* Quotient and remainder, except where a divisor is zero.
DivisionRight ==
  /\ Computed({"div"}) =>
       \A a \in Assignments :
         LET y == Value(job.r, a)
         IN  y # 0 => /\ Value(Vec, a) = Value(job.l, a) \div y
                      /\ Value(res[1].rem, a) = Value(job.l, a) % y
  /\ Computed({"divfixed"}) =>
       \A a \in Assignments : /\ Value(Vec, a) = Value(job.l, a) \div job.n
                              /\ Value(res[1].rem, a) = Value(job.l, a) % job.n

\* A vector shifted by a number or by a vector, with one bit shifted in.
ShiftedBy(k, left, c) ==
  [i \in DOMAIN job.l |->
     LET from == IF left THEN i - k ELSE i + k
     IN  IF from \in DOMAIN job.l THEN job.l[from] ELSE c]
ShiftRight ==
  /\ Computed({"shlfixed", "shrfixed"}) =>
       Vec = ShiftedBy(job.n, job.op = "shlfixed", job.b)
  /\ Computed({"shl", "shr"}) =>
       \A a \in Assignments :
         Value(Vec, a) = Value(ShiftedBy(Value(job.r, a), job.op = "shl", job.b), a)

\* An operation takes one reference for each bit of its result, gives back
\* every other one it took, and none of its arguments'.  (Not so for mulfixed,
\* shl and shr, which release diagrams that they never referenced.)
RefsRight ==
  Computed({"add", "sub", "mul", "ite", "map2", "shlfixed", "shrfixed"}) =>
    SameRefs(res[1].refs, Refs(Vec))

\* Every operation on vectors is the one on numbers, and keeps no diagram that
\* the caller cannot release.
BVecRight ==
    /\ ArithmeticRight
    /\ ComparisonRight
    /\ DivisionRight
    /\ ShiftRight
    /\ RefsRight

----------------------------------------------------------------------------
(* An instance for TLC: the bits of L and R are variables, interleaved.     *)
W == MaxVars \div 2
L == bvec_var(W, 0, 2)
R == bvec_var(W, 1, 2)
\* A vector whose bits share nodes, and one of constants and functions.
Twice == bvec_varvec(<<0, 0, 0>>)
Mixed == [i \in Idx(W) |-> IF i = 0 THEN BDDONE ELSE BDD_ithvar(1) \cap BDD_ithvar(2)]
Constants == {bvec_con(W, k) : k \in 0 .. 2 ^ W - 1}
Vectors == {L, R, Twice, Mixed} \cup Constants

Job(op, l, r, n, b) == [op |-> op, l |-> l, r |-> r, n |-> n, b |-> b]
Empty == [i \in {} |-> BDDZERO]

Balanced ==
  {Job(o, l, r, 0, BDDZERO) : o \in {"add", "sub", "mul", "map2"} \cup Comparisons,
                              l \in {L, Mixed, bvec_con(W, 1)}, r \in Vectors}
  \cup {Job("ite", L, r, 0, BDD_ithvar(1)) : r \in Vectors}
  \cup {Job(o, l, Empty, n, b) : o \in {"shlfixed", "shrfixed"}, l \in {L, Mixed},
                                 n \in 0 .. W + 1, b \in {BDDZERO, BDDONE, BDD_ithvar(1)}}
  \cup {Job("coerce", L, Empty, n, BDDZERO) : n \in 1 .. 2 * W}
  \cup {Job("con", l, Empty, W, BDDZERO) : l \in Vectors}
Dividing ==
  {Job("div", l, r, 0, BDDZERO) : l \in Vectors, r \in Vectors}
  \cup {Job("divfixed", l, Empty, n, BDDZERO) : l \in Vectors, n \in 1 .. 2 ^ (W - 1)}
  \cup {Job("mulfixed", l, Empty, n, BDDZERO) : l \in Vectors, n \in 0 .. 2 ^ W}
\* At three bits the fixed bound of bvec_shr is the right one.
Shifting ==
  {Job(o, l, r, 0, b) : o \in {"shl", "shr"}, l \in {L, Mixed, bvec_con(W, 5)},
                        r \in {R, Twice} \cup Constants, b \in {BDDZERO, BDDONE, BDD_ithvar(1)}}

AllJobs == Balanced \cup Dividing \cup Shifting
=============================================================================
