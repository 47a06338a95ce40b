---------------------------- MODULE MCTbddKernel ----------------------------
(* Instances of TbddKernel for TLC. *)
EXTENDS TbddInductive, TLC

\* Two variables: an unsatisfiable formula.
Clash == <<{1}, {-1}, {1, 2}>>

\* Two variables: two clauses whose nodes do not fit a table of seven.
Full == <<{1}, {1, 2}, {-1, 2}>>

\* Two variables: two clauses whose conjunction is a variable, and a third
\* whose node is only free again when theirs are collected.
Reuse == <<{1, 2}, {-1, 2}, {1, -2}>>

\* Three variables: the conjunction needs a node for {2, 3} on the way.
Fork == <<{1, 2}, {1, 3}>>

Hash(a, b, c) == (a + 3 * b + 5 * c) % 3
OneSlot(a, b, c) == 0

Symm == Permutations(Handles)
=============================================================================
