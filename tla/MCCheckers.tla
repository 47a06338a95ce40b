----------------------------- MODULE MCCheckers -----------------------------
(***************************************************************************)
(* The proof checkers for TLC: drat-trim, lrat-check and the clause        *)
(* storage of lrat-check, each on inputs of its own.                       *)
(***************************************************************************)
EXTENDS DratTrim, LratCheck, LratTable

VARIABLE part           \* what runs: "drat", "lrat" or "table"

----------------------------------------------------------------------------
(* drat-trim.                                                              *)

Line(l) == [del |-> FALSE, lits |-> l]
Deletion(l) == [del |-> TRUE, lits |-> l]

\* Every assignment of 1 and 2 is excluded, with 3 in between.
Contradiction == <<<<1, 2>>, <<1, -2>>, <<-1, 3>>, <<-1, -3>>>>
\* A RAT lemma on 3 helps: 3 defines the conjunction of 1 and 2.
Parity == <<<<1, 2, 3>>, <<1, -2, -3>>, <<-1, 2, -3>>, <<-1, -2, 3>>, <<1, 2, -3>>, <<-1, -2, -3>>, <<1, -2, 3>>, <<-1, 2, 3>>>>
Possible == <<<<1, 2>>, <<-1, 2, 3>>, <<-2, -3>>>>
Propagates == <<<<1>>, <<-1, 2>>, <<-2, 3>>, <<-3, -1>>>>
Clashing == <<<<1, 2>>, <<1>>, <<-2>>, <<-1>>>>

SmallLines == {Line(<<1>>), Line(<<-1, 3>>), Line(<<2, 1>>), Line(<<-2, 3, 1>>), Line(<<-3>>), Line(<<>>),
               Line(<<3, -1, 2>>), Deletion(<<2, 1>>), Deletion(<<-1, 3>>), Deletion(<<1, -2, -3>>), Deletion(<<1>>)}

\* Unsatisfiable, with units that are RAT and not RUP.
Defining == <<<<3, -2>>, <<4, 3>>, <<2, 1>>, <<-2, -3, 1>>, <<4, -1, -2>>, <<-2, -4>>, <<3, -4>>, <<-4, 3>>, <<-1, 2>>, <<3, 1, -2>>>>
Pure == <<<<-2, 4>>, <<-3, 2, 1>>, <<-2, -1, 4>>, <<4, -1, -2>>, <<-1, 4>>, <<-1, -3, -4>>, <<-2, -4, -1>>, <<-2, -4>>,
          <<3, -2, 4>>, <<3, 1>>, <<-1, -4, 3>>>>
Chain == <<<<3, 1, 2>>, <<-1, -2>>, <<-1, -3, 4>>, <<1, 4, -3>>, <<3, 4>>, <<1, -4>>, <<-1, -3, -4>>, <<4, -1, 2>>, <<-4, 3>>>>
LratLines == {Line(<<4>>), Line(<<-4>>), Line(<<-3>>), Line(<<-2, -3>>), Line(<<3, -4>>), Line(<<3, 1, 2>>), Line(<<1, -3>>),
              Deletion(<<-4, 3>>), Deletion(<<-1, 4>>), Deletion(<<-2, -3, 1>>), Deletion(<<2, 1>>)}

\* One clause short of a contradiction: only a wrong check verifies it.
AlmostRefuted == {Tail(Parity), Tail(Contradiction), <<<<1, 2>>, <<-1, -2>>, <<1, -3>>, <<-1, 3>>>>,
                  <<<<1>>, <<-1, 2, 3>>, <<-3, -1, 2>>>>}
MoreLines == SmallLines \cup {Line(<<2>>), Line(<<-2>>), Line(<<-1>>), Deletion(<<-2, -3>>), Deletion(<<-1, 2, 3>>)}

Run(f, mode, lrat, lines, n) == [formula |-> f, mode |-> mode, lratFile |-> lrat, lines |-> lines, max |-> n]
mcChecks ==
    {Run(f, "backward", FALSE, SmallLines, 3) : f \in {Contradiction, Parity, Possible, Clashing}}
    \cup {Run(f, "backward", FALSE, MoreLines, 3) : f \in AlmostRefuted}
    \cup {Run(f, "forward", FALSE, SmallLines, 3) :
             f \in {Contradiction, Tail(Contradiction), Parity, Possible, Clashing}}
    \cup {Run(f, "backward", TRUE, LratLines, 4) : f \in {Defining, Pure, Chain, Clashing}}
    \cup {Run(Propagates, "backward", TRUE, SmallLines, 1),
          Run(<<<<1, 2>>, <<>>>>, "backward", FALSE, SmallLines, 1)}

----------------------------------------------------------------------------
(* lrat-check: with 3 defined as 1 /\ 2, the new variable first, as in     *)
(* prover.c.                                                               *)

mcVars == {1, 2, 3}
mcCnf == <<<<1, 2>>, <<-1, 2>>>>
mcLemmas == {<<>>, <<2>>, <<3, -1, -2>>, <<-3, 1>>, <<-3, 2>>, <<-2, 1>>, <<-2, -1>>}
Ids == 1..5
mcHints == {<<>>} \cup [1..1 -> Ids \cup {-i : i \in Ids}] \cup [1..2 -> Ids \cup {-i : i \in Ids}]

\* The storage.
mcClauses == {<<1>>, <<-1, 2>>}
mcIndices == 1..6

----------------------------------------------------------------------------

DratIdle  == input = <<>> /\ phase = "idle" /\ live = <<>> /\ proof = <<>> /\ step = 1 /\ s = <<>>
             /\ verdict = "none" /\ sts = ERROR
LratIdle  == db = <<>> /\ intro = <<>> /\ mask = <<>> /\ now = 0 /\ clsLast = 0
             /\ verified = FALSE /\ status = "idle"

MCInit == /\ part \in {"drat", "lrat", "table"}
          /\ IF part = "drat" THEN TrimInit ELSE DratIdle
          /\ IF part = "lrat" THEN CheckInit ELSE LratIdle
          /\ StorageInit

MCNext ==
    \/ part = "drat" /\ TrimNext /\ UNCHANGED <<checkVars, storageVars, part>>
    \/ part = "lrat" /\ CheckNext /\ UNCHANGED <<trimVars, storageVars, part>>
    \/ part = "table" /\ StorageNext /\ UNCHANGED <<trimVars, checkVars, part>>

MCSpec == MCInit /\ [][MCNext]_<<trimVars, checkVars, storageVars, part>>
=============================================================================
