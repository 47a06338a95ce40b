------------------------------ MODULE ProofLog ------------------------------
(***************************************************************************)
(* What a reader of the proof file relies on, whatever wrote the file: the *)
(* clause database that an LRAT checker builds from the lines, and the     *)
(* discipline of the lines.  A clause gets an id that no clause of the      *)
(* database has, its antecedents are clauses of the database when the line  *)
(* is read, and a deletion names clauses of the database.                   *)
(*                                                                          *)
(* db maps an id to its clause, log holds the lines written by the last     *)
(* step: first the additions, in order, then the deletions.                 *)
(***************************************************************************)
EXTENDS Integers, Sequences

CONSTANTS TAUTOLOGY, InputClauses   \* the ids 1, 2, ... of the CNF clauses

VARIABLES db, log

Nothing == [add |-> <<>>, del |-> {}]

AddedIds(add) == {add[k].id : k \in DOMAIN add}

\* The ids a line names as antecedents; a RAT hint is a negated id.
Cited(line) == {IF h < 0 THEN -h ELSE h : h \in {line.hints[i] : i \in DOMAIN line.hints}}
               \ {TAUTOLOGY}

AddsAreFresh(add) ==
    \A k \in DOMAIN add :
        /\ add[k].id \notin DOMAIN db
        /\ \A j \in DOMAIN add : j < k => add[j].id # add[k].id

HintsAreLive(add) ==
    \A k \in DOMAIN add :
        \A c \in Cited(add[k]) :
            c \in DOMAIN db \/ \E j \in DOMAIN add : j < k /\ add[j].id = c

DeletesAreLive(add, del) == del \subseteq DOMAIN db \cup AddedIds(add)

\* The database after the lines of one step.
Replay(base, add, del) ==
    [i \in (DOMAIN base \cup AddedIds(add)) \ del |->
        IF i \in DOMAIN base THEN base[i]
        ELSE LET k == CHOOSE k \in DOMAIN add : add[k].id = i
             IN  [lits |-> add[k].lits, kind |-> add[k].kind]]

Init ==
    /\ db = [i \in DOMAIN InputClauses |-> [lits |-> InputClauses[i], kind |-> "input"]]
    /\ log = Nothing

Extend ==
    /\ AddsAreFresh(log'.add)
    /\ HintsAreLive(log'.add)
    /\ DeletesAreLive(log'.add, log'.del)
    /\ db' = Replay(db, log'.add, log'.del)

Spec == Init /\ [][Extend]_<<db, log>>
=============================================================================
