---------------------------- MODULE ClauseStore ----------------------------
(***************************************************************************)
(* What a proof checker asks of its clause storage: a clause is found under *)
(* the index it was added with, until it is deleted.                        *)
(***************************************************************************)
EXTENDS Integers, Sequences

CONSTANTS Indices, Clauses

VARIABLE store

Init == store = <<>>

Add(i, c) ==
    /\ i \notin DOMAIN store
    /\ store' = [j \in DOMAIN store \cup {i} |-> IF j = i THEN c ELSE store[j]]

Delete(i) == store' = [j \in DOMAIN store \ {i} |-> store[j]]

Next == \E i \in Indices : Delete(i) \/ \E c \in Clauses : Add(i, c)

Spec == Init /\ [][Next]_store
=============================================================================
