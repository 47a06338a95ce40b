---------------------------- MODULE MCReordering ----------------------------
(***************************************************************************)
(* The node table and the reordering of its variables, for TLC: the array  *)
(* with its chains and its collector, swaps of levels in it, and the       *)
(* methods that choose the swaps of blocks.                                *)
(***************************************************************************)
EXTENDS NodeTable, LevelSwap, VarBlocks, TLC

VARIABLE part           \* what runs: "table", "swaps" or "blocks"

----------------------------------------------------------------------------
(* Node tables over three variables: nodes 2 to 7 are the literals.        *)

B(l, lo, hi) == [op |-> "build", level |-> l, low |-> lo, high |-> hi]
D(n) == [op |-> "delref", node |-> n]
Leaves == {0, 1, 6, 7}
TwoOf(S) == {p \in S \X S : p[1] # p[2] /\ p # <<0, 1>> /\ p # <<1, 0>>}

\* Two nodes of the middle variable and one of the first; some are given up.
ThreeNodes ==
  UNION {{<<B(1, p[1], p[2]), B(1, q[1], q[2]), B(0, r[1], r[2])>> \o s :
            s \in {<<>>, <<D(8)>>, <<D(8), D(9)>>, <<D(10)>>}} :
         p \in TwoOf(Leaves), q \in TwoOf({0, 6, 7}), r \in TwoOf({1, 5, 7, 8, 9})}
FewNodes ==
  {<<B(1, p[1], p[2]), B(1, p[2], p[1]), B(0, r[1], r[2]), D(8)>> :
     p \in TwoOf(Leaves), r \in TwoOf({1, 8, 9})}
\* The slot of a node that was collected is used again.
Collects == {<<B(1, 0, 6), D(8), [op |-> "gbc"], B(1, lo, 7), B(0, 0, 8)>> : lo \in {0, 6}}
mcPrograms == {[slots |-> 13, ops |-> p] : p \in ThreeNodes \cup Collects}
              \cup {[slots |-> 11, ops |-> p] : p \in FewNodes}

----------------------------------------------------------------------------
(* Blocks of four variables, and every method on three.                    *)

mcRanges   == (3 :> {})
              @@ (4 :> {<<0, 1>>, <<2, 3>>, <<0, 3>>, <<1, 2>>, <<1, 1>>, <<0, 0>>, <<3, 3>>, <<2, 2>>})
mcMethods  == (3 :> {"win2", "win2ite", "win3", "win3ite", "sift", "siftite", "random"})
              @@ (4 :> {"win2", "win3", "sift"})
mcMaxCalls == (3 :> 2) @@ (4 :> 4)

\* With three variables, every ranking of the orders by five, six or seven
\* nodes: six is the most that sifting allows when five is the best.  With
\* four, sizes that prefer some variables on top, or some of them together.
Weight(o, w) == 5 + ((Level(o, 0) * w[1] + Level(o, 1) * w[2] + Level(o, 2) * w[3]) % w[4])
mcSizes == (3 :> [Orders(0 .. 2) -> 5 .. 7])
           @@ (4 :> {[o \in Orders(0 .. 3) |-> Weight(o, w)] :
                       w \in {<<1, 2, 5, 7>>, <<3, 1, 4, 5>>, <<0, 1, 0, 3>>}})

----------------------------------------------------------------------------

vars == <<tableVars, level2var, swapVars, blocksVars, part>>

TableIdle  == node = <<>> /\ freepos = 0 /\ freenum = 0 /\ produced = 0 /\ varnum = 0
              /\ kept = {} /\ err = "none" /\ bddmaxnodesize = 0
SwapIdle   == bddnodes = <<>> /\ bddfreenum = 0 /\ chains = <<>> /\ nodenum = <<>>
              /\ iactmtx = {} /\ extroots = {} /\ phase = "user" /\ var0 = -1
              /\ toBeProcessed = {} /\ resizedInMakenode = FALSE /\ held = <<>>
              /\ program = <<>> /\ sessions = 0
BlocksIdle == vartree = <<>> /\ blockid = 0 /\ answer = 0
              /\ lastCall = [op |-> "init"] /\ called = 0

Init ==
  \/ part = "table"  /\ TableInit /\ level2var = <<>> /\ SwapIdle /\ BlocksIdle
  \/ part = "swaps"  /\ SwapInit /\ TableIdle /\ BlocksIdle
  \/ part = "blocks" /\ BlocksInit /\ TableIdle /\ SwapIdle

Next ==
  /\ UNCHANGED part
  /\ \/ /\ part = "table" /\ TableNext
        /\ UNCHANGED <<swapVars, blocksVars>>
     \/ /\ part = "swaps" /\ SwapNext
        /\ UNCHANGED <<tableVars, vartree, blockid, answer, lastCall, called>>
     \/ /\ part = "blocks" /\ BlocksNext
        /\ UNCHANGED <<tableVars, bddnodes, bddfreenum, tables, phase, var0, toBeProcessed,
                       resizedInMakenode, user>>

Spec == Init /\ [][Next]_vars
=============================================================================
