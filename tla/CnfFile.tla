------------------------------ MODULE CnfFile -------------------------------
(***************************************************************************)
(* clause.cpp: clauses in canonical form and the reader of DIMACS files.   *)
(* A file is a header and the tokens behind it: literals, the zeros that   *)
(* end clauses, and comment lines.                                         *)
(***************************************************************************)
EXTENDS Integers, Sequences, FiniteSets

VARIABLES file,           \* [header, max, count, tokens]
          rpc, pos,
          clauses,        \* the clauses added so far
          maxVar

readerVars == <<file, rpc, pos, clauses, maxVar>>

\* A token is a sequence of one number; the comment has none.
Comment == <<>>
IsComment(tok) == tok = Comment
Abs(x) == IF x < 0 THEN 0 - x ELSE x
LitsOf(s) == {s[i] : i \in DOMAIN s}

----------------------------------------------------------------------------
(* Clauses.                                                                *)

\* What std::sort may make of the literals: those of one variable in any order.
Sorted(lits) ==
  {[i \in DOMAIN lits |-> lits[p[i]]] :
     p \in {q \in [DOMAIN lits -> DOMAIN lits] :
              /\ \A i, j \in DOMAIN lits : q[i] = q[j] => i = j
              /\ \A i, j \in DOMAIN lits : i < j => Abs(lits[q[i]]) >= Abs(lits[q[j]])}}

\* Mutant: repeated literals are kept.
RECURSIVE Scan(_, _, _)
ScanDoubles(lits, last_lit, written) ==
  IF lits = <<>> THEN [contents |-> written, tautology |-> FALSE]
  ELSE IF lits[1] = 0 - last_lit
  THEN [contents |-> <<Abs(last_lit), 0 - Abs(last_lit)>>, tautology |-> TRUE]
  ELSE Scan(Tail(lits), lits[1], Append(written, lits[1]))

\* Repeated literals are skipped, opposite ones end the scan.
Scan(lits, last_lit, written) ==
  IF lits = <<>> THEN [contents |-> written, tautology |-> FALSE]
  ELSE IF Abs(lits[1]) # Abs(last_lit) THEN Scan(Tail(lits), lits[1], Append(written, lits[1]))
  ELSE IF lits[1] # last_lit
  THEN [contents |-> <<Abs(last_lit), 0 - Abs(last_lit)>>, tautology |-> TRUE]
  ELSE Scan(Tail(lits), lits[1], written)

canonize(lits) == {Scan(s, 0, <<>>) : s \in Sorted(lits)}

length(clause) == IF clause.tautology THEN 0 ELSE Len(clause.contents)
max_variable(clause) ==
  IF clause.tautology \/ clause.contents = <<>> THEN 0
  ELSE CHOOSE m \in {Abs(l) : l \in LitsOf(clause.contents)} :
         \A l \in LitsOf(clause.contents) : Abs(l) <= m

\* An assignment is the set of variables that are true.
LitTrue(l, a) == IF l > 0 THEN l \in a ELSE (0 - l) \notin a
satisfied(clause, a) == clause.tautology \/ \E l \in LitsOf(clause.contents) : LitTrue(l, a)
\* The first clause that an assignment falsifies, 0 when there is none.
first_falsified(cs, a) ==
  LET bad == {i \in DOMAIN cs : ~ satisfied(cs[i], a)}
  IN  IF bad = {} THEN 0 ELSE CHOOSE i \in bad : \A j \in bad : i <= j

----------------------------------------------------------------------------
(* The reader.                                                             *)

\* Comments before a clause are skipped, then numbers are read up to a zero,
\* a comment or the end of the file.
ClauseStart(p) ==
  CHOOSE q \in p .. Len(file.tokens) + 1 :
    /\ \A k \in p .. q - 1 : IsComment(file.tokens[k])
    /\ q <= Len(file.tokens) => ~ IsComment(file.tokens[q])
ClauseEnd(p) ==
  CHOOSE q \in p .. Len(file.tokens) + 1 :
    /\ \A k \in p .. q - 1 : file.tokens[k] # <<0>> /\ ~ IsComment(file.tokens[k])
    /\ q <= Len(file.tokens) => file.tokens[q] = <<0>> \/ IsComment(file.tokens[q])
\* A zero is read, a comment is left.
After(q) == IF q <= Len(file.tokens) /\ file.tokens[q] = <<0>> THEN q + 1 ELSE q

ReaderInit(f) ==
  /\ file = f
  /\ rpc = "header" /\ pos = 1
  /\ clauses = <<>> /\ maxVar = 0

\* Without a header line everything is skipped up to the end of the file.
ReadHeader ==
  /\ rpc = "header"
  /\ rpc' = IF file.header = "other" THEN "failed" ELSE "clauses"
  /\ pos' = IF file.header = "none" THEN Len(file.tokens) + 1 ELSE pos
  /\ UNCHANGED <<file, clauses, maxVar>>

\* A clause of length 0 ends the file.
ReadClause ==
  /\ rpc = "clauses"
  /\ LET start == ClauseStart(pos)
         end == ClauseEnd(start)
     IN  \E clause \in canonize([i \in 1 .. end - start |-> file.tokens[start + i - 1][1]]) :
           /\ pos' = After(end)
           /\ IF length(clause) = 0
              THEN rpc' = "checks" /\ UNCHANGED <<clauses, maxVar>>
              ELSE /\ clauses' = Append(clauses, clause)
                   /\ maxVar' = IF max_variable(clause) > maxVar THEN max_variable(clause) ELSE maxVar
                   /\ rpc' = rpc
  /\ UNCHANGED file

\* Mutant: fewer clauses than announced are accepted.
TooFew == maxVar <= file.max /\ Len(clauses) <= file.count

\* The numbers of a file without a header count as 0.
Agrees == IF file.header = "cnf" THEN maxVar <= file.max /\ Len(clauses) = file.count
          ELSE clauses = <<>>

Check ==
  /\ rpc = "checks"
  /\ rpc' = IF Agrees THEN "accepted" ELSE "failed"
  /\ UNCHANGED <<file, pos, clauses, maxVar>>

ReaderNext == ReadHeader \/ ReadClause \/ Check

----------------------------------------------------------------------------

\* The clauses that are written in the file: the literals between zeros, and
\* those after the last one.
Numbers == SelectSeq(file.tokens, LAMBDA tok : ~ IsComment(tok))
Zeros == LET nums == Numbers IN {i \in DOMAIN nums : nums[i] = <<0>>}
Ends == Zeros \cup (IF Numbers # <<>> /\ Len(Numbers) \notin Zeros THEN {Len(Numbers) + 1} ELSE {})
Written ==
  LET nums  == Numbers
      zeros == Zeros
  IN  {{nums[i][1] : i \in {k \in 1 .. e - 1 : \A z \in zeros : z < e => z < k}} : e \in Ends}
FileAssignments == SUBSET (1 .. file.max)
ValidHeader ==
  /\ file.header = "cnf" /\ Cardinality(Ends) = file.count
  /\ \A i \in DOMAIN Numbers : Abs(Numbers[i][1]) <= file.max

\* No clause is empty or holds a variable in both phases: such a clause has no
\* length and is taken for the end of the file.
HaveLength == \A C \in Written : C # {} /\ \A l \in C : (0 - l) \notin C

\* A file with a right header that is accepted has the models of its clauses,
\* and an assignment that falsifies one is told so; and it is accepted unless
\* a clause in it is empty or tautological.
AcceptedRight ==
  /\ rpc = "accepted" /\ ValidHeader =>
       LET written == Written
       IN  \A a \in FileAssignments :
             (first_falsified(clauses, a) = 0) <=> \A C \in written : \E l \in C : LitTrue(l, a)
  /\ rpc = "failed" => ~ (ValidHeader /\ HaveLength)

\* Clauses are kept without repetition, in descending order of variables.
Canonical ==
  \A i \in DOMAIN clauses :
    LET c == clauses[i].contents
    IN  \A j, k \in DOMAIN c : j < k => Abs(c[j]) > Abs(c[k])
=============================================================================
