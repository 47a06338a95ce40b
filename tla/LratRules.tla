----------------------------- MODULE LratRules -----------------------------
(***************************************************************************)
(* When a line of an LRAT file is right: the reference by which the lines   *)
(* that prover.c writes are judged.  known maps the id of every clause in   *)
(* the file so far to its literals.                                         *)
(***************************************************************************)
EXTENDS Integers, Sequences, FiniteSets, SequencesExt

RangeOf(s) == {s[i] : i \in DOMAIN s}
VarOf(x) == IF x < 0 THEN -x ELSE x

\* Unit propagation along the hints: a hint must be unit or falsified, since a
\* checker does not search.
Follow(known, acc, h) ==
    LET rest == {x \in known[h] : -x \notin acc.units}
    IN  IF acc.state # "open" THEN acc
        ELSE IF rest = {} THEN [acc EXCEPT !.state = "conflict"]
        ELSE IF Cardinality(rest) = 1 THEN [acc EXCEPT !.units = @ \cup rest]
        ELSE [acc EXCEPT !.state = "fail"]
RupLine(known, lits, hints) ==
    LET run[k \in 0..Len(hints)] ==
            IF k = 0 THEN [units |-> {-x : x \in lits}, state |-> "open"]
            ELSE Follow(known, run[k - 1], hints[k])
    IN  run[Len(hints)].state = "conflict"

\* A clause with a new variable p: every clause with the opposite literal is
\* named by a negative hint, and its resolvent with the new one is a tautology.
RatLine(known, lits, hints) ==
    \E p \in lits :
        /\ \A x \in lits : VarOf(x) <= VarOf(p)
        /\ \A i \in DOMAIN known : -p \in known[i] =>
              /\ -i \in RangeOf(hints)
              /\ \E x \in known[i] \ {-p} : -x \in lits
=============================================================================
