----------------------------- MODULE VarBlocks ------------------------------
(***************************************************************************)
(* Blocks of variables and the reordering methods (reorder.c, tree.c): a   *)
(* tree of ranges that stay together, and windows, sifting and random      *)
(* swaps of neighbouring blocks.  How many nodes an order needs is a       *)
(* function of the order, since the table is collected after every swap.   *)
(* A block is a record, a list of blocks a sequence, NULL is <<>>.  The    *)
(* limit on the number of nodes is not set.                                *)
(***************************************************************************)
EXTENDS BddFunctions, SequencesExt

CONSTANTS Varnums,         \* how many variables there may be
          Ranges,          \* the ranges <<first, last>> that blocks are made of;
          Methods,         \* this and the following by the number of variables
          Sizes,           \* functions from orders to numbers of nodes
          MaxCalls,        \* bound: calls
          MaxBlocks        \* bound: blocks

VARIABLES vartree, blockid,
          answer,          \* what the last call returned
          lastCall,        \* the last call: [op, ...]
          called           \* how many there were

blocksVars == <<level2var, vartree, blockid, answer, lastCall, called>>

VARBLK == -14
FREE == 0
FIXED == 1

Level(o, v) == (CHOOSE i \in DOMAIN o : o[i] = v) - 1

----------------------------------------------------------------------------
(* The tree of blocks.                                                     *)

\* The positions are distances to the first level: variables that are apart
\* are written behind the end of the array.
update_seq(o, first, end) ==
  LET top == CHOOSE v \in first .. end : \A w \in first .. end : Level(o, v) <= Level(o, w)
      at(v) == Level(o, v) - Level(o, top) + 1
  IN  [i \in {at(v) : v \in first .. end} |-> CHOOSE v \in first .. end : at(v) = i]

NewBlock(o, r, fixed, id, sub) ==
  [first |-> r[1], last |-> r[2], fixed |-> fixed, id |-> id,
   seq |-> update_seq(o, r[1], r[2]), sub |-> sub]

\* A range that covers some of the blocks, but none of them in part.
Covered(t, r) ==
  LET stop == CHOOSE k \in DOMAIN t :
                /\ (r[2] >= t[k].first /\ r[2] < t[k].last)
                   \/ k = Len(t) \/ r[2] < t[k + 1].first
                /\ \A j \in 1 .. k - 1 : ~ ((r[2] >= t[j].first /\ r[2] < t[j].last)
                                            \/ r[2] < t[j + 1].first)
  IN  IF r[2] >= t[stop].first /\ r[2] < t[stop].last THEN 0 ELSE stop

RECURSIVE addrange(_, _, _, _, _)

\* Mutant: a range that covers blocks is put before them.
AddBeside(o, t, r, fixed, id) ==
  IF t = <<>> THEN <<NewBlock(o, r, fixed, id, <<>>)>>
  ELSE IF r[1] <= t[1].first THEN <<NewBlock(o, r, fixed, id, <<>>)>> \o t
  ELSE <<t[1]>> \o addrange(o, Tail(t), r, fixed, id)

\* NULL, the empty list, is also the answer for a range that overlaps.
addrange(o, t, r, fixed, id) ==
  IF r[2] < r[1] THEN <<>>
  ELSE IF t = <<>> THEN <<NewBlock(o, r, fixed, id, <<>>)>>
  ELSE IF r = <<t[1].first, t[1].last>> THEN t
  ELSE IF r[2] < t[1].first THEN <<NewBlock(o, r, fixed, id, <<>>)>> \o t
  ELSE IF r[1] > t[1].last THEN <<t[1]>> \o addrange(o, Tail(t), r, fixed, id)
  ELSE IF r[1] >= t[1].first /\ r[2] <= t[1].last
       THEN <<[t[1] EXCEPT !.sub = addrange(o, @, r, fixed, id)]>> \o Tail(t)
  ELSE IF r[1] <= t[1].first /\ Covered(t, r) # 0
       THEN LET k == Covered(t, r)
            IN  <<NewBlock(o, r, fixed, id, SubSeq(t, 1, k))>> \o SubSeq(t, k + 1, Len(t))
  ELSE <<>>

----------------------------------------------------------------------------
(* Swaps.  A state of a method is the order, the list of blocks at hand    *)
(* and the block that the code takes for the first one.                    *)

Swapped(o, i) == [o EXCEPT ![i] = o[i + 1], ![i + 1] = o[i]]
vardown(o, v) == LET l == Level(o, v) IN IF l >= bddvarnum - 1 THEN o ELSE Swapped(o, l + 1)
varup(o, v) == LET l == Level(o, v) IN IF l = 0 THEN o ELSE Swapped(o, l)

\* One pass over the left block: variables that have room below move down.
LeftPass(o, l, r) ==
  FoldLeft(LAMBDA q, i : IF /\ i = Len(l) \/ Level(q, l[i]) + 1 # Level(q, l[i + 1])
                            /\ Level(q, l[i]) < Level(q, r[Len(r)])
                         THEN vardown(q, l[i]) ELSE q,
           o, [i \in DOMAIN l |-> i])
RightPass(o, r, start) ==
  FoldRight(LAMBDA i, q : IF /\ i = 1 \/ Level(q, r[i]) - 1 # Level(q, r[i - 1])
                             /\ Level(q, r[i]) > start
                          THEN varup(q, r[i]) ELSE q,
            [i \in DOMAIN r |-> i], o)

RECURSIVE LeftDown(_, _, _), RightUp(_, _, _)
LeftDown(o, l, r) ==
  IF Level(o, l[1]) < Level(o, r[Len(r)]) THEN LeftDown(LeftPass(o, l, r), l, r) ELSE o
RightUp(o, r, start) ==
  IF Level(o, r[1]) > start THEN RightUp(RightPass(o, r, start), r, start) ELSE o

\* Block i and the next one change places.
blockdown(s, i) ==
  LET l == s.blocks[i].seq
      r == s.blocks[i + 1].seq
  IN  [s EXCEPT !.order = RightUp(LeftDown(@, l, r), r, Level(@, l[1])),
                !.blocks = Swapped(@, i)]

PosOf(s, b) == CHOOSE i \in DOMAIN s.blocks : s.blocks[i].id = b

----------------------------------------------------------------------------
(* Windows of two and three blocks.                                        *)

RECURSIVE Win2From(_, _, _), Win2Ite(_, _, _), Win3From(_, _, _, _), Win3Ite(_, _)

\* Mutant: the first block stays the first one.
Win2Headless(s, i, size) ==
  IF i >= Len(s.blocks) THEN s
  ELSE LET down == blockdown(s, i)
       IN  Win2From(IF size[s.order] < size[down.order] THEN blockdown(down, i) ELSE down, i + 1, size)

\* Neighbours change places unless that takes more nodes.
Win2From(s, i, size) ==
  IF i >= Len(s.blocks) THEN s
  ELSE LET down == blockdown(s, i)
           this == s.blocks[i].id
       IN  IF size[s.order] < size[down.order] THEN Win2From(blockdown(down, i), i + 1, size)
           ELSE Win2From(IF s.head = this THEN [down EXCEPT !.head = down.blocks[i].id] ELSE down,
                         i + 1, size)

\* Every round starts from the block that was the first one at the beginning.
Win2Ite(s, t, size) ==
  LET n == Win2From(s, PosOf(s, t), size)
  IN  IF size[n.order] = size[s.order] THEN n ELSE Win2Ite(n, t, size)

\* The swaps that run through the orders of three blocks.
Window == <<0, 1, 0, 1, 0>>

\* How many swaps were made since the fewest nodes were seen.
WindowState(s, i, size) ==
  FoldLeft(LAMBDA w, k : LET d == blockdown(w.s, i + k)
                         IN  IF w.best > size[d.order]
                             THEN [s |-> d, pos |-> 0, best |-> size[d.order]]
                             ELSE [w EXCEPT !.s = d, !.pos = @ + 1],
           [s |-> s, pos |-> 0, best |-> size[s.order]], Window)

\* Mutant: a swap too few is taken back.
BackTooFew(w, i) ==
  FoldLeft(LAMBDA q, k : blockdown(q, i + k), w.s, SubSeq(Window, 1, IF w.pos > 0 THEN w.pos - 1 ELSE 0))
Back(w, i) == FoldLeft(LAMBDA q, k : blockdown(q, i + k), w.s, SubSeq(Window, 1, w.pos))

\* The window returns to the best order; the next one starts a block later.
swapwin3(s, i, size) ==
  IF i + 2 > Len(s.blocks)
  THEN LET d == blockdown(s, i)
       IN  IF size[s.order] < size[d.order] THEN [s |-> blockdown(d, i), next |-> i + 1]
           ELSE [s |-> IF i = 1 THEN [d EXCEPT !.head = d.blocks[i].id] ELSE d, next |-> i + 1]
  ELSE LET w == WindowState(s, i, size)
           b == Back(w, i)
       IN  IF w.pos = 0 THEN [s |-> b, next |-> i]
           ELSE [s |-> IF i = 1 THEN [b EXCEPT !.head = b.blocks[i].id] ELSE b, next |-> i + 1]

\* rest is how many blocks must follow.
Win3From(s, i, rest, size) ==
  IF i + rest > Len(s.blocks) THEN s
  ELSE LET w == swapwin3(s, i, size) IN Win3From(w.s, w.next, rest, size)

Win3Ite(s, size) ==
  LET n == Win3From(s, PosOf(s, s.head), 2, size)
  IN  IF size[n.order] = size[s.order] THEN n ELSE Win3Ite(n, size)

----------------------------------------------------------------------------
(* Sifting and random swaps.                                               *)

Allowed(best) == best \div 5 + best

\* One direction: the block moves on while the order does not take a fifth
\* more nodes than the best one; bestpos counts the moves since that.
RECURSIVE SiftWay(_, _, _, _, _)
SiftWay(c, b, up, first, size) ==
  LET i == PosOf(c.s, b)
  IN  IF \/ IF up THEN i = 1 ELSE i = Len(c.s.blocks)
         \/ size[c.s.order] > Allowed(c.best) /\ ~ first
      THEN c
      ELSE LET d == blockdown(c.s, IF up THEN i - 1 ELSE i)
               n == size[d.order]
           IN  SiftWay(IF n < c.best THEN [s |-> d, best |-> n, bestpos |-> 0]
                       ELSE [c EXCEPT !.s = d, !.bestpos = @ + (IF up THEN -1 ELSE 1)],
                       b, up, FALSE, size)

RECURSIVE Moved(_, _, _)
Moved(s, b, bestpos) ==
  IF bestpos = 0 THEN s
  ELSE IF bestpos < 0 THEN Moved(blockdown(s, PosOf(s, b)), b, bestpos + 1)
  ELSE Moved(blockdown(s, PosOf(s, b) - 1), b, bestpos - 1)

sift_bestpos(s, b, middle, size) ==
  LET up == PosOf(s, b) - 1 <= middle
      c == [s |-> s, best |-> size[s.order], bestpos |-> 0]
      d == SiftWay(SiftWay(c, b, up, TRUE, size), b, ~ up, TRUE, size)
  IN  Moved(d.s, b, d.bestpos)

\* The blocks are sifted in any sequence; the code takes those with most
\* nodes first.  The first block is looked for at the end.
Sifted(s, size) ==
  LET ids == {s.blocks[i].id : i \in DOMAIN s.blocks}
      seqs == SetToSeqs(ids)
      done(q) == FoldLeft(LAMBDA r, b : sift_bestpos(r, b, Len(s.blocks) \div 2, size), s, q)
  IN  {[done(q) EXCEPT !.head = done(q).blocks[1].id] : q \in seqs}

RECURSIVE SiftIte(_, _)
SiftIte(s, size) ==
  UNION {IF size[n.order] = size[s.order] THEN {n} ELSE SiftIte(n, size) : n \in Sifted(s, size)}

\* The states that n random choices of a block can lead to.
RECURSIVE Shuffled(_, _)
Shuffled(S, n) ==
  IF n = 0 THEN {[s EXCEPT !.head = s.blocks[1].id] : s \in S}
  ELSE Shuffled(UNION {{IF i = Len(s.blocks) THEN s ELSE blockdown(s, i) : i \in DOMAIN s.blocks}
                       : s \in S}, n - 1)

----------------------------------------------------------------------------
(* Reordering of the tree.                                                 *)

Result(m, s, size) ==
  CASE m = "win2" -> {Win2From(s, 1, size)}
    [] m = "win2ite" -> {Win2Ite(s, s.head, size)}
    [] m = "win3" -> {Win3From(s, 1, 1, size)}
    [] m = "win3ite" -> {Win3Ite(s, size)}
    [] m = "sift" -> Sifted(s, size)
    [] m = "siftite" -> SiftIte(s, size)
    [] m = "random" -> Shuffled({s}, 4 * Len(s.blocks))

\* The list goes on from the block that is taken for the first one.
FromHead(s) == [order |-> s.order, blocks |-> SubSeq(s.blocks, PosOf(s, s.head), Len(s.blocks))]

\* Mutant: sub-blocks are moved whether their block is fixed or not.
MovedAlways(o, b, m, size) ==
  IF b.sub # <<>>
  THEN {FromHead(s) : s \in Result(m, [order |-> o, blocks |-> b.sub, head |-> b.sub[1].id], size)}
  ELSE {[order |-> o, blocks |-> b.sub]}

SubMoved(o, b, m, size) ==
  IF b.fixed = FREE /\ b.sub # <<>>
  THEN {FromHead(s) : s \in Result(m, [order |-> o, blocks |-> b.sub, head |-> b.sub[1].id], size)}
  ELSE {[order |-> o, blocks |-> b.sub]}

\* Mutant: the sequence of a block is left as it was.
Unsorted(o, seq) == seq
ByLevel(o, seq) == SortSeq(seq, LAMBDA v, w : Level(o, v) < Level(o, w))

RECURSIVE reorder_block(_, _, _, _), ReorderList(_, _, _, _)
\* The sub-blocks are moved, then each of them is reordered, then the
\* sequence of the block is sorted.
reorder_block(o, b, m, size) ==
  {[order |-> r.order, block |-> [b EXCEPT !.sub = r.blocks, !.seq = ByLevel(r.order, @)]]
     : r \in UNION {ReorderList(s.order, s.blocks, m, size) : s \in SubMoved(o, b, m, size)}}
ReorderList(o, t, m, size) ==
  IF t = <<>> THEN {[order |-> o, blocks |-> <<>>]}
  ELSE UNION {{[order |-> r.order, blocks |-> <<h.block>> \o r.blocks]
                 : r \in ReorderList(h.order, Tail(t), m, size)}
              : h \in reorder_block(o, t[1], m, size)}

----------------------------------------------------------------------------
(* The interface.                                                          *)

Numbered(n) == [i \in 1 .. n |-> i - 1]

BlocksInit ==
  /\ \E n \in Varnums : level2var = Numbered(n)
  /\ vartree = <<>> /\ blockid = 0
  /\ answer = 0 /\ lastCall = [op |-> "init"] /\ called = 0

RECURSIVE Flat(_)
Flat(t) == UNION {{t[i]} \cup Flat(t[i].sub) : i \in DOMAIN t}

Proper(b) == DOMAIN b.seq = 1 .. b.last - b.first + 1
\* Nothing is said of what follows a write behind the end of an array.
Defined == \A b \in Flat(vartree) : Proper(b)

\* bdd_intaddvarblock; bdd_addvarblock finds the range of a set first.  A
\* program is right to add blocks under the first order only: nothing makes
\* the variables of a range neighbours.
AddBlock(r, fixed) ==
  /\ Defined /\ blockid < MaxBlocks
  /\ level2var = Numbered(bddvarnum)
  /\ LET t == addrange(level2var, vartree, r, fixed, blockid)
     IN  IF t = <<>> THEN answer' = VARBLK /\ UNCHANGED <<vartree, blockid>>
         ELSE answer' = blockid /\ vartree' = t /\ blockid' = blockid + 1
  /\ lastCall' = [op |-> "add", range |-> r]
  /\ UNCHANGED level2var

\* bdd_varblockall: a fixed block for every variable.
RECURSIVE AllBlocks(_, _, _)
AllBlocks(t, id, v) ==
  IF v = bddvarnum THEN [tree |-> t, id |-> id]
  ELSE LET n == addrange(level2var, t, <<v, v>>, FIXED, id)
       IN  IF n = <<>> THEN AllBlocks(t, id, v + 1) ELSE AllBlocks(n, id + 1, v + 1)

VarBlockAll ==
  /\ Defined /\ blockid + bddvarnum <= MaxBlocks
  /\ level2var = Numbered(bddvarnum)
  /\ LET r == AllBlocks(vartree, blockid, 0) IN vartree' = r.tree /\ blockid' = r.id
  /\ answer' = 0 /\ lastCall' = [op |-> "all"]
  /\ UNCHANGED level2var

\* Blocks that may change places have no variables between them.
RECURSIVE Gapless(_)
Gapless(t) ==
  \A i \in DOMAIN t :
    /\ i < Len(t) =>
         \E b, c \in {t[i], t[i + 1]} :
           Level(level2var, c.seq[1]) = Level(level2var, b.seq[Len(b.seq)]) + 1
    /\ t[i].fixed = FREE => Gapless(t[i].sub)

\* bdd_reorder: the list of blocks belongs to a free block of its own.
Reorder(m) ==
  /\ Defined /\ vartree # <<>>
  /\ Gapless(vartree)
  /\ \E size \in Sizes[bddvarnum] :
       LET top == [first |-> 0, last |-> bddvarnum - 1, fixed |-> FREE, id |-> -1,
                   seq |-> <<>>, sub |-> vartree]
       IN  \E r \in reorder_block(level2var, top, m, size) :
             /\ level2var' = r.order
             /\ vartree' = r.block.sub
             /\ lastCall' = [op |-> "reorder", method |-> m, before |-> size[level2var],
                         after |-> size[r.order]]
  /\ answer' = 0 /\ UNCHANGED blockid

ClrVarBlocks ==
  /\ Defined
  /\ vartree' = <<>> /\ blockid' = 0
  /\ answer' = 0 /\ lastCall' = [op |-> "clear"]
  /\ UNCHANGED level2var

RECURSIVE DownTo(_, _, _), UpTo(_, _, _)
DownTo(o, v, l) == IF Level(o, v) < l THEN DownTo(vardown(o, v), v, l) ELSE o
UpTo(o, v, l) == IF Level(o, v) > l THEN UpTo(varup(o, v), v, l) ELSE o

\* Mutant: the second variable moves to where the first one is.
SwapHalf(o, v, w) == UpTo(DownTo(o, v, Level(o, w)), w, Level(o, w))

\* The upper variable moves down, then the lower one up.
SwapVars(o, v, w) == UpTo(DownTo(o, v, Level(o, w)), w, Level(o, v))

SwapVar(v, w) ==
  /\ IF vartree # <<>> THEN answer' = VARBLK /\ UNCHANGED level2var
     ELSE /\ answer' = 0
          /\ level2var' = IF v = w THEN level2var
                             ELSE IF Level(level2var, v) > Level(level2var, w)
                                  THEN SwapVars(level2var, w, v)
                                  ELSE SwapVars(level2var, v, w)
  /\ lastCall' = [op |-> "swap", v |-> v, w |-> w]
  /\ UNCHANGED <<vartree, blockid>>

SetVarOrder(o) ==
  /\ vartree = <<>>
  /\ level2var' = FoldLeft(LAMBDA q, i : UpTo(q, o[i], i - 1), level2var, [i \in DOMAIN o |-> i])
  /\ answer' = 0 /\ lastCall' = [op |-> "set", order |-> o]
  /\ UNCHANGED <<vartree, blockid>>

BlocksNext ==
  /\ called < MaxCalls[bddvarnum] /\ called' = called + 1
  /\ \/ \E r \in Ranges[bddvarnum], fixed \in {FREE, FIXED} : AddBlock(r, fixed)
     \/ VarBlockAll
     \/ \E m \in Methods[bddvarnum] : Reorder(m)
     \/ ClrVarBlocks
     \/ \E v, w \in Declared : SwapVar(v, w)
     \/ \E o \in Orders(Declared) : SetVarOrder(o)

BlocksSpec == BlocksInit /\ [][BlocksNext]_blocksVars

----------------------------------------------------------------------------

RECURSIVE NestedIn(_, _, _)
NestedIn(t, first, end) ==
  \A i \in DOMAIN t :
    /\ first <= t[i].first /\ t[i].first <= t[i].last /\ t[i].last <= end
    /\ \A j \in DOMAIN t : i # j => t[i].last < t[j].first \/ t[j].last < t[i].first
    /\ NestedIn(t[i].sub, t[i].first, t[i].last)

\* Blocks are nested or apart, and no two have the same number.
Nested ==
  /\ NestedIn(vartree, 0, bddvarnum - 1)
  /\ \A b, c \in Flat(vartree) : b.id = c.id => b = c

\* The variables of a block stay on neighbouring levels, and the block
\* knows their order.
Contiguous ==
  \A b \in Flat(vartree) : b.seq = update_seq(level2var, b.first, b.last) /\ Proper(b)

\* A method that looks for a better order does not end with a worse one.
NeverWorse == lastCall.op = "reorder" /\ lastCall.method # "random" => lastCall.after <= lastCall.before

\* Blocks stay whole under every method, and the order gets no worse.
BlocksRight == Nested /\ Contiguous /\ NeverWorse

Shape(b) == [id |-> b.id, first |-> b.first, last |-> b.last, fixed |-> b.fixed,
             sub |-> {c.id : c \in Flat(b.sub)}]
BlocksKept == {Shape(b) : b \in Flat(vartree')} = {Shape(b) : b \in Flat(vartree)}
FixedKept ==
  \A b \in Flat(vartree), c \in Flat(vartree') :
    b.id = c.id /\ b.fixed = FIXED =>
      [i \in DOMAIN b.sub |-> b.sub[i].id] = [i \in DOMAIN c.sub |-> c.sub[i].id]
Exchanged(v, w) ==
  \A i \in 1 .. bddvarnum :
    level2var'[i] = CASE level2var[i] = v -> w [] level2var[i] = w -> v [] OTHER -> level2var[i]

\* Reordering loses no block and leaves each one where it was in the tree, and
\* the sub-blocks of a fixed block in their order; a swap exchanges two
\* variables and leaves the others; a whole order is taken as it is given.
ReordersRight ==
  [][/\ lastCall'.op = "reorder" => BlocksKept /\ FixedKept
     /\ lastCall'.op = "swap" /\ vartree = <<>> => Exchanged(lastCall'.v, lastCall'.w)
     /\ lastCall'.op = "set" => level2var' = lastCall'.order]_blocksVars
=============================================================================
