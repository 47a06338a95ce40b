------------------------------ MODULE MCTbSat -------------------------------
(***************************************************************************)
(* tbsat for TLC: files, formulas and schedules for the whole program, and *)
(* the summation and elimination of equations on their own, on inputs that *)
(* its schedules do not reach.                                             *)
(***************************************************************************)
EXTENDS TbSat, XorGauss, SumGraph

VARIABLE part           \* what runs: "tbsat", "gauss" or "sum"

----------------------------------------------------------------------------
(* Files.                                                                  *)

Toks(s) == [i \in DOMAIN s |-> <<s[i]>>]
File(m, n, toks) == [header |-> "cnf", max |-> m, count |-> n, tokens |-> toks]
Lits == {-2, -1, 1, 2}

\* Two clauses of up to two literals, with comments around them or a zero
\* after the last; clauses of four literals that repeat; a larger variable than
\* announced, another header.
Bodies == {<<>>} \cup {<<l>> : l \in Lits} \cup {<<l, m>> : l, m \in Lits}
Seconds == {b \in Bodies : Len(b) = 2 => b[1] = -1}
Around == {<<<<Comment>>, <<>>>>, <<<<>>, <<<<0>>>>>>}
Plain ==
  {File(2, n, c[1] \o Toks(a) \o <<<<0>>>> \o c[1] \o Toks(b) \o c[2]) :
     n \in 1 .. 2, a \in Bodies, b \in Seconds, c \in Around}
  \cup {File(3, 1, Toks(<<a, b, c, d>>)) : a \in {3, -3}, b \in Lits, c \in Lits, d \in Lits \cup {3}}
  \cup {[File(1, 1, Toks(<<2, 0>>)) EXCEPT !.header = h] : h \in {"cnf", "other"}}

\* The file of a formula given by sequences of literals.
RECURSIVE Joined(_)
Joined(cs) == IF cs = <<>> THEN <<>> ELSE Toks(cs[1]) \o <<<<0>>>> \o Joined(Tail(cs))
FileOf(cs) == File(3, Len(cs), <<Comment>> \o Joined(cs))

----------------------------------------------------------------------------
(* Formulas and schedules.                                                 *)

\* Levels and variables are the same.
IdentityOrder == <<1, 2, 3>>
Problem(cs, mode, sched) ==
  [file |-> FileOf(cs), order |-> IdentityOrder, mode |-> mode, sched |-> sched]

Formulas ==
  {<<<<1, 2, 3>>, <<-1, 2>>>>, <<<<2, 3>>>>, <<<<1, -2>>, <<2, -3>>, <<3, -1>>>>, <<<<1>>, <<-1>>>>,
   <<<<1, 2>>, <<1, -2>>, <<-1, 2>>, <<-1, -2>>>>, <<<<1, 3>>, <<-1, 3>>, <<2, -3>>>>,
   <<<<-3>>, <<1, 2>>, <<3, -1>>>>, <<<<2>>, <<1, 3>>, <<-1, -3>>>>,
   <<<<1, 2>>, <<-2, 3>>, <<-1, -3>>, <<2, 3>>>>, <<>>}

C(s) == [cmd |-> "c", nums |-> s]
A(n) == [cmd |-> "a", nums |-> <<n>>]
Q(s) == [cmd |-> "q", nums |-> s]
E(s, c) == [cmd |-> "=", nums |-> s, constant |-> c]
G(s) == [cmd |-> "g", nums |-> s]

\* x1 + x2 = p and x2 + x3 = 1, each as two clauses.
Parities(p) == IF p = 1 THEN <<<<1, 2>>, <<-1, -2>>, <<2, 3>>, <<-2, -3>>>>
               ELSE <<<<1, -2>>, <<-1, 2>>, <<2, 3>>, <<-2, -3>>>>
Cycle(p) == Parities(p) \o <<<<1, 3>>, <<-1, -3>>>>
Equations(p) == <<C(<<1, 2>>), A(1), E(<<1, 2>>, p), C(<<3, 4>>), A(1), E(<<2, 3>>, 1)>>

Scheduled ==
  {Problem(<<<<1, 2, 3>>, <<-1, 2>>>>, "schedule", s) :
     s \in {<<C(<<1, 2>>), A(1), Q(<<1>>), Q(<<2, 3>>)>>, <<C(<<1, 2>>)>>,
            <<C(<<2, 1>>), A(1), Q(<<3, 1, 2>>)>>}}
  \cup {Problem(<<<<1>>, <<-1>>>>, "schedule", <<C(<<1, 2>>), A(1)>>)}
  \cup {Problem(Parities(1), "schedule", Equations(1) \o s) :
          s \in {<<G(<<2, 1, 2, 3>>)>>, <<G(<<2>>)>>, <<G(<<2, 2>>), Q(<<1, 3>>)>>}}
  \cup {Problem(Cycle(1), "schedule",
                Equations(1) \o <<C(<<5, 6>>), A(1), E(<<1, 3>>, 1), G(<<3, 2>>)>>)}
  \cup {Problem(Parities(0), "schedule", Equations(0))}

mcInputs == {[file |-> f, order |-> IdentityOrder, mode |-> "none", sched |-> <<>>] : f \in Plain}
            \cup {Problem(f, m, <<>>) : f \in Formulas, m \in {"tree", "bucket"}}
            \cup Scheduled

----------------------------------------------------------------------------
(* Systems of equations.                                                   *)

Xor(S, p) == xor_constraint(CHOOSE s \in [1 .. Cardinality(S) -> S] :
                              \A i, j \in DOMAIN s : i < j => s[i] < s[j], p)
NonEmpty == SUBSET (1 .. MaxEqnVar) \ {{}}
System(eqs, internal) == [eqs |-> eqs, internal |-> internal]

\* Three equations over four variables.
Three == {System(<<Xor({1, 2, 3}, 1), Xor(T, 0), Xor(U, p)>>, {1, 3}) :
            T \in NonEmpty, U \in {S \in NonEmpty : Cardinality(S) > 1}, p \in {0, 1}}
\* Four equations, some of them dependent.
Four == {System(<<Xor({1, 2, 3}, 1), Xor({2, 3, 4}, 1), Xor(S, 0), Xor(T, 1)>>, I) :
           S, T \in {S \in NonEmpty : Cardinality(S) > 1}, I \in {{}, {1, 4}}}
\* A tautology is left out when it is added.
mcSystems == Three \cup Four \cup {System(<<Xor({1, 2}, 1), EmptyConstraint, Xor({2, 3}, 0)>>, {2})}

----------------------------------------------------------------------------
(* Lists of constraints.                                                   *)

Triples == {S \in SUBSET (1 .. 5) : Cardinality(S) \in {2, 3}}
Short == {<<>>, <<Xor({1, 2}, 1)>>} \cup
         {<<Xor(S, 1), Xor(T, 0), Xor({2, 4}, 1), Xor(S, 0)>> : S, T \in Triples}
\* Five independent constraints, and five with one that stands alone.
Five  == {<<Xor({1, 2, 3}, 1), Xor(S, 0), Xor(T, 1), Xor({3, 4, 5}, 1), Xor({6}, 1)>> :
            S \in Triples, T \in {U \in Triples : Cardinality(U) = 3}}
Six   == {l \o <<Xor({5, 6, 7}, 0)>> : l \in Five}
\* Two equal constraints and three others.
Repeated == {<<Xor({1, 2}, 1), Xor({1, 2}, 1), Xor({4, 5}, 0), Xor({5, 6}, 1), Xor(S, 0)>> : S \in Triples}
\* Equal constraints that nothing else touches cancel.
Apart    == {<<Xor({6, 7}, 1), Xor({6, 7}, 1), Xor({1, 2}, 0), Xor({2, 3}, 1), Xor(S, 0)>> :
              S \in {{1, 4}, {3, 4}, {3, 5}, {2, 5}}}
mcLists == {l \in Five \cup Six : Independent(l)} \cup Short \cup Repeated \cup Apart

----------------------------------------------------------------------------

GaussIdle == system = [eqs |-> <<>>, internal |-> {}] /\ gpc = "idle" /\ g = <<>>
SumIdle   == xlist = <<>> /\ spc = "idle" /\ nodes = <<>> /\ edges = <<>> /\ neighbors = <<>>
             /\ sum = EmptyConstraint
TbSatIdle == /\ SolverIdle /\ pc = "idle" /\ input = [mode |-> "none"]
             /\ ReaderInit(FileOf(<<>>))

MCInit ==
  \/ part = "tbsat" /\ Init /\ GaussIdle /\ SumIdle
  \/ part = "gauss" /\ GaussInit /\ TbSatIdle /\ SumIdle
  \/ part = "sum"   /\ SumInit /\ TbSatIdle /\ GaussIdle

TbSatStep == part = "tbsat" /\ Next /\ UNCHANGED <<gaussVars, sumVars, part>>

MCNext ==
  \/ TbSatStep
  \/ part = "gauss" /\ GaussNext /\ UNCHANGED <<vars, sumVars, part>>
  \/ part = "sum"   /\ SumNext /\ UNCHANGED <<vars, gaussVars, part>>

MCSpec == MCInit /\ [][MCNext]_<<vars, gaussVars, sumVars, part>> /\ WF_vars(TbSatStep)
=============================================================================
