------------------------------ MODULE BddInfo -------------------------------
(***************************************************************************)
(* What bddop.c tells about a diagram: its support, satisfying             *)
(* assignments, counts of assignments, nodes and paths.  Several of the    *)
(* walks mark the nodes they have visited in the level field of the node   *)
(* itself, and must leave no mark behind.                                  *)
(***************************************************************************)
EXTENDS BddFunctions

CONSTANT Questions      \* the questions [op, f, g, pol] asked: a function of f, and
                        \* a second diagram or variable set g, and a polarity

VARIABLES
  marked,       \* the nodes with MARKON in their level
  question,     \* the question asked
  answer        \* the answer to it, with the name of the function

infoVars == <<level2var, marked, question, answer>>

\* A level between two others is left out by the edge from one to the other.
Skipped(low, high) == 2 ^ (high - low - 1)

----------------------------------------------------------------------------
(* Counting assignments and paths.                                         *)

\* Mutant: the levels that an edge leaves out are not counted.
RECURSIVE satcount_rec(_)
NoSkips(f) ==
  IF ISCONST(f) THEN (IF f = BDDONE THEN 1 ELSE 0)
  ELSE satcount_rec(LOW(f)) + satcount_rec(HIGH(f))

satcount_rec(f) ==
  IF ISCONST(f) THEN (IF f = BDDONE THEN 1 ELSE 0)
  ELSE Skipped(LEVEL(f), LEVEL(LOW(f))) * satcount_rec(LOW(f))
       + Skipped(LEVEL(f), LEVEL(HIGH(f))) * satcount_rec(HIGH(f))

bdd_satcount(f) == 2 ^ LEVEL(f) * satcount_rec(f)

\* The length of the chain of a variable set.
RECURSIVE ChainLength(_)
ChainLength(n) == IF ISCONST(n) THEN 0 ELSE 1 + ChainLength(HIGH(n))

\* At least one, as the code has it.
bdd_satcountset(f, varset) ==
  IF ISCONST(varset) \/ f = BDDZERO THEN 0
  ELSE LET n == bdd_satcount(f) \div 2 ^ (bddvarnum - ChainLength(varset))
       IN  IF n >= 1 THEN n ELSE 1

\* The logarithm of a count is represented by the count; 0 stands for -1.0.
RECURSIVE satcountln_rec(_)
satcountln_rec(f) ==
  IF f = BDDZERO THEN 0
  ELSE IF f = BDDONE THEN 1
  ELSE LET shifted(c) == LET s == satcountln_rec(c)
                         IN  IF s = 0 THEN 0 ELSE Skipped(LEVEL(f), LEVEL(c)) * s
           s1 == shifted(LOW(f))
           s2 == shifted(HIGH(f))
       IN  IF s1 = 0 THEN s2 ELSE IF s2 = 0 THEN s1 ELSE s1 + s2
bdd_satcountln(f) ==
  LET s == satcountln_rec(f) IN IF s = 0 THEN 0 ELSE 2 ^ LEVEL(f) * s

RECURSIVE bdd_pathcount_rec(_)
bdd_pathcount_rec(f) ==
  IF f = BDDZERO THEN 0
  ELSE IF f = BDDONE THEN 1
  ELSE bdd_pathcount_rec(LOW(f)) + bdd_pathcount_rec(HIGH(f))

----------------------------------------------------------------------------
(* Satisfying assignments.                                                 *)

RECURSIVE satone_rec(_)
satone_rec(f) ==
  IF ISCONST(f) THEN f
  ELSE IF LOW(f) = BDDZERO THEN bdd_makenode(LEVEL(f), BDDZERO, satone_rec(HIGH(f)))
  ELSE bdd_makenode(LEVEL(f), satone_rec(LOW(f)), BDDZERO)

\* Mutant: the variables of the set that f does not branch on are not mentioned.
RECURSIVE satoneset_rec(_, _, _)
SetLeftOut(f, var, pol) ==
  IF ISCONST(f) \/ ISCONST(var) THEN satone_rec(f)
  ELSE IF LEVEL(var) < LEVEL(f) THEN satoneset_rec(f, HIGH(var), pol)
  ELSE LET rest == IF LEVEL(f) = LEVEL(var) THEN HIGH(var) ELSE var
       IN  IF LOW(f) = BDDZERO
           THEN bdd_makenode(LEVEL(f), BDDZERO, satoneset_rec(HIGH(f), rest, pol))
           ELSE bdd_makenode(LEVEL(f), satoneset_rec(LOW(f), rest, pol), BDDZERO)

satoneset_rec(f, var, pol) ==
  IF ISCONST(f) /\ ISCONST(var) THEN f
  ELSE IF LEVEL(var) < LEVEL(f)
       THEN LET rest == satoneset_rec(f, HIGH(var), pol)
            IN  IF pol = BDDONE THEN bdd_makenode(LEVEL(var), BDDZERO, rest)
                                ELSE bdd_makenode(LEVEL(var), rest, BDDZERO)
  ELSE LET rest == IF LEVEL(f) = LEVEL(var) THEN HIGH(var) ELSE var
       IN  IF LOW(f) = BDDZERO
           THEN bdd_makenode(LEVEL(f), BDDZERO, satoneset_rec(HIGH(f), rest, pol))
           ELSE bdd_makenode(LEVEL(f), satoneset_rec(LOW(f), rest, pol), BDDZERO)

bdd_satoneset(f, var, pol) ==
  IF f = BDDZERO THEN f ELSE satoneset_rec(f, var, pol)

\* The levels from high down to low, put on top of f in negative form.
RECURSIVE Negatives(_, _, _)
Negatives(f, high, low) ==
  IF high < low THEN f ELSE Negatives(bdd_makenode(high, f, BDDZERO), high - 1, low)

RECURSIVE fullsatone_rec(_)
fullsatone_rec(f) ==
  LET below(c) == Negatives(fullsatone_rec(c), LEVEL(c) - 1, LEVEL(f) + 1)
  IN  IF ISCONST(f) THEN f
      ELSE IF LOW(f) # BDDZERO THEN bdd_makenode(LEVEL(f), below(LOW(f)), BDDZERO)
      ELSE bdd_makenode(LEVEL(f), BDDZERO, below(HIGH(f)))

bdd_fullsatone(f) ==
  IF f = BDDZERO THEN f ELSE Negatives(fullsatone_rec(f), LEVEL(f) - 1, 0)

\* The profile of bdd_allsat: 0, 1, or -1 for a variable that does not
\* matter; 2 where nothing was written.  One array serves all the paths.
Unwritten == [v \in Variables |-> 2]
\* Mutant: what a deeper node wrote stays in the array.
EntriesStay(p, low, high) == [v \in Variables |-> IF p[v] = 2 THEN -1 ELSE p[v]]

DontCares(p, low, high) ==
  [v \in Variables |-> IF bddvar2level(v) > low /\ bddvar2level(v) < high THEN -1 ELSE p[v]]

\* One branch of allsat_rec: the entry of the variable, and the levels that
\* the edge leaves out.
Branch(f, child, value, p) ==
  DontCares([p EXCEPT ![VarAt(LEVEL(f))] = value], LEVEL(f), LEVEL(child))

\* The profiles handed to the handler, and the array afterwards.
RECURSIVE allsat_rec(_, _)
allsat_rec(f, p) ==
  IF f = BDDONE THEN [given |-> <<p>>, array |-> p]
  ELSE IF f = BDDZERO THEN [given |-> <<>>, array |-> p]
  ELSE LET low  == IF LOW(f) = BDDZERO THEN [given |-> <<>>, array |-> p]
                   ELSE allsat_rec(LOW(f), Branch(f, LOW(f), 0, p))
           high == IF HIGH(f) = BDDZERO THEN [low EXCEPT !.given = <<>>]
                   ELSE allsat_rec(HIGH(f), Branch(f, HIGH(f), 1, low.array))
       IN  [given |-> low.given \o high.given, array |-> high.array]

bdd_allsat(f) == allsat_rec(f, DontCares(Unwritten, -1, LEVEL(f))).given

----------------------------------------------------------------------------
(* Walks that mark the nodes they have seen: m is the set of marked nodes. *)

RECURSIVE Mark(_, _)
Mark(f, m) ==
  IF ISCONST(f) \/ f \in m THEN m ELSE Mark(HIGH(f), Mark(LOW(f), m \cup {f}))

\* Mutant: only the low side is unmarked.
RECURSIVE bdd_unmark(_, _)
UnmarkLow(f, m) == IF ISCONST(f) \/ f \notin m THEN m ELSE bdd_unmark(LOW(f), m \ {f})

bdd_unmark(f, m) ==
  IF ISCONST(f) \/ f \notin m THEN m ELSE bdd_unmark(HIGH(f), bdd_unmark(LOW(f), m \ {f}))

\* The nodes a walk visits first, that is the ones it counts.
Visited(f, m) == Mark(f, m) \ m

bdd_nodecount(f) == Cardinality(Visited(f, marked))
bdd_anodecount(f, g) == Cardinality(Visited(f, marked)) + Cardinality(Visited(g, Mark(f, marked)))

bdd_varprofile(f) ==
  [v \in Variables |-> Cardinality({n \in Visited(f, marked) : VarAt(LEVEL(n)) = v})]

\* The levels found, put on top of each other from the last to the first.
bdd_support(f) ==
  LET found == {LEVEL(n) : n \in Visited(f, marked)}
      RECURSIVE Chain(_, _)
      Chain(n, r) == IF n < LEVEL(f) THEN r
                     ELSE Chain(n - 1, IF n \in found THEN bdd_makenode(n, BDDZERO, r) ELSE r)
  IN  IF ISCONST(f) THEN BDDZERO ELSE Chain(bddvarnum - 1, BDDONE)

\* BDD_makeset of the variables that bdd_scanset reads off a set.
RECURSIVE bdd_scanset(_)
bdd_scanset(n) == IF ISCONST(n) THEN <<>> ELSE <<VarAt(LEVEL(n))>> \o bdd_scanset(HIGH(n))
BDD_makeset(varset) ==
  {a \in Assignments : \A i \in DOMAIN varset : a \in BDD_ithvar(varset[i])}

----------------------------------------------------------------------------

NoQuestion == [op |-> "none"]

InfoInit ==
  /\ level2var \in Orders(Variables)
  /\ marked = {} /\ question = NoQuestion /\ answer = <<>>

Ask ==
  /\ question = NoQuestion
  /\ question' \in Questions
  /\ UNCHANGED <<level2var, marked, answer>>

Result(c) ==
  CASE c.op = "satcount"    -> bdd_satcount(c.f)
    [] c.op = "satcountset" -> bdd_satcountset(c.f, c.g)
    [] c.op = "satcountln"  -> bdd_satcountln(c.f)
    [] c.op = "pathcount"   -> bdd_pathcount_rec(c.f)
    [] c.op = "satone"      -> satone_rec(c.f)
    [] c.op = "satoneset"   -> bdd_satoneset(c.f, c.g, c.pol)
    [] c.op = "fullsatone"  -> bdd_fullsatone(c.f)
    [] c.op = "allsat"      -> bdd_allsat(c.f)
    [] c.op = "nodecount"   -> bdd_nodecount(c.f)
    [] c.op = "anodecount"  -> bdd_anodecount(c.f, c.g)
    [] c.op = "varprofile"  -> bdd_varprofile(c.f)
    [] c.op = "support"     -> bdd_support(c.f)
    [] c.op = "makeset"     -> BDD_makeset(bdd_scanset(c.g))

\* The marks after the roots in turn were marked and unmarked again.
MarksAfter(c) ==
  CASE c.op \in {"nodecount", "varprofile", "support"} -> bdd_unmark(c.f, Mark(c.f, marked))
    [] c.op = "anodecount" ->
         bdd_unmark(c.g, bdd_unmark(c.f, Mark(c.g, Mark(c.f, marked))))
    [] OTHER -> marked

Answer ==
  /\ question # NoQuestion /\ answer = <<>>
  /\ answer' = <<question.op, Result(question)>>
  /\ marked' = MarksAfter(question)
  /\ UNCHANGED <<level2var, question>>

EndAnswer ==
  /\ answer # <<>>
  /\ question' = NoQuestion /\ answer' = <<>>
  /\ UNCHANGED <<level2var, marked>>

InfoNext == Ask \/ Answer \/ EndAnswer

InfoSpec == InfoInit /\ [][InfoNext]_infoVars

----------------------------------------------------------------------------

Answered(ops) == answer # <<>> /\ question.op \in ops
Got == answer[2]

\* The nodes of f are its cofactors by the variables of the first levels.
NodesOf(f) ==
  UNION {{{a \in Assignments : (a \ above) \cup S \in f} : S \in SUBSET above} :
           above \in {{VarAt(k) : k \in 0 .. l - 1} : l \in 0 .. bddvarnum}} \ {BDDZERO, BDDONE}

\* No walk leaves a mark in a level, and every one visits each node once.
MarksRight ==
  /\ question = NoQuestion \/ answer # <<>> => marked = {}
  /\ Answered({"nodecount"}) => Got = Cardinality(NodesOf(question.f))
  /\ Answered({"anodecount"}) => Got = Cardinality(NodesOf(question.f) \cup NodesOf(question.g))
  /\ Answered({"varprofile"}) =>
       \A v \in Variables :
         Got[v] = Cardinality({n \in NodesOf(question.f) : VarAt(LEVEL(n)) = v})
  /\ Answered({"support"}) /\ ~ISCONST(question.f) => Got = SetOf(Support(question.f))
  /\ Answered({"makeset"}) => Got = question.g

\* The counts count the assignments of all variables or of those in a set
\* that holds the support; a path stands for the assignments along it.
CountsRight ==
  /\ Answered({"satcount", "satcountln"}) => Got = Cardinality(question.f)
  /\ /\ Answered({"satcountset"})
     /\ question.g # BDDONE
     /\ Support(question.f) \subseteq Support(question.g)
     => Got = Cardinality({a \cap Support(question.g) : a \in question.f})
  /\ Answered({"pathcount"}) => Got = Len(bdd_allsat(question.f))

IsMinterm(c, V) == \E p \in [V -> BOOLEAN] : c = CubeOf(p)

\* The assignment found implies the function and is false only if it is:
\* over some variables, over those of the set with the polarity given to the
\* ones that do not occur, or over all of them.
SatoneRight ==
  /\ Answered({"satone", "satoneset", "fullsatone"}) =>
       /\ Got \subseteq question.f
       /\ Got = BDDZERO <=> question.f = BDDZERO
       /\ question.f # BDDZERO => IsMinterm(Got, Support(Got))
  /\ Answered({"satoneset"}) /\ question.f # BDDZERO =>
       /\ Support(question.g) \subseteq Support(Got)
       /\ \A v \in Support(question.g) \ Support(question.f) :
            Got \subseteq (IF question.pol = BDDONE THEN BDD_ithvar(v) ELSE BDD_nithvar(v))
  /\ Answered({"fullsatone"}) /\ question.f # BDDZERO => Support(Got) = Variables

ProfileSet(p) == {a \in Assignments : \A v \in Variables : p[v] # -1 => (v \in a) = (p[v] = 1)}

\* bdd_allsat hands out every satisfying assignment exactly once, and no
\* entry of the array that was not written on the way.
AllsatRight ==
  Answered({"allsat"}) =>
    /\ \A i \in DOMAIN Got : \A v \in Variables : Got[i][v] \in {-1, 0, 1}
    /\ UNION {ProfileSet(Got[i]) : i \in DOMAIN Got} = question.f
    /\ \A i, j \in DOMAIN Got : i # j => ProfileSet(Got[i]) \cap ProfileSet(Got[j]) = {}

\* Every question about a diagram is answered right, and leaves it as it was.
AnswersRight == MarksRight /\ CountsRight /\ SatoneRight /\ AllsatRight
=============================================================================
