------------------------------- MODULE TbSat --------------------------------
(***************************************************************************)
(* tbsat: a formula is read from a file and solved as in teval.cpp: terms  *)
(* are conjoined in a tree, in buckets by their top variable, or as a      *)
(* schedule says; every quantification is remembered, so that solutions    *)
(* can be built backwards.  A term stands for its function, the set of     *)
(* assignments (sets of true variables) that satisfy it: TBDDs keep the    *)
(* promise that it follows from the clauses.  Node counts, which only      *)
(* decide when garbage is collected, are left out.                         *)
(***************************************************************************)
EXTENDS CnfFile, XorElimination

CONSTANTS Inputs,         \* [file, order, mode, sched]; in mode "none" the file is only read
          MaxVar,
          max_solutions

VARIABLES input,
          pc,             \* "read" while the file is read
          pool,           \* all terms ever made: [fun, active, eqn]
          terms,          \* the numbered terms, members of the pool
          term_stack,
          line,           \* the next line of the schedule
          buckets, blevel, next_idx,
          eliminated_variables,
          qsteps,         \* what was quantified, first to last: [vars, fun]
          constraint_function,
          verdict,
          solution, constraint, qi, vi, \* the solution being made
          printed

termVars  == <<pool, terms, term_stack, line>>
bucketVars == <<buckets, blevel, next_idx>>
solveVars == <<solution, constraint, qi, vi, printed>>
solverVars == <<input, pc, termVars, bucketVars, eliminated_variables, qsteps,
                constraint_function, verdict, solveVars>>
vars == <<readerVars, solverVars>>

Vars == 1 .. MaxVar
Assignments == SUBSET Vars
TRUE_ == Assignments
FALSE_ == {}
NoEqn == [vars |-> <<0>>, phase |-> 0]

ClauseFun(c) == {a \in Assignments : \E l \in c : LitTrue(l, a)}
Exist(f, V) == {a \in Assignments : \E b \in f : a \ V = b \ V}
DependsOn(f, v) == \E a \in f : (a \ {v}) \notin f \/ (a \cup {v}) \notin f

level2var(l) == input.order[l]
TopLevel(f) == CHOOSE l \in Vars : /\ DependsOn(f, level2var(l))
                                   /\ \A k \in 1 .. l - 1 : ~ DependsOn(f, level2var(k))

----------------------------------------------------------------------------
(* Terms.                                                                  *)

Term(f) == [fun |-> f, active |-> TRUE, eqn |-> NoEqn]
\* tbdd_null() has the root FALSE.
Dead == [fun |-> FALSE_, active |-> FALSE, eqn |-> NoEqn]
Deactivated(p, ids) == [i \in DOMAIN p |-> IF i \in ids THEN Dead ELSE p[i]]

\* Mutant: the second operand is lost.
FirstOperand(p, i, j) == Append(Deactivated(p, {i, j}), Term(p[i].fun))

\* The pool after a conjunction or a quantification; the result comes last.
Conjoined(p, i, j) ==
  Append(Deactivated(p, {i, j}), Term(p[i].fun \cap p[j].fun))
Quantified(p, i, V) ==
  Append(Deactivated(p, {i}), Term(Exist(p[i].fun, V)))
Step(V, f) == [vars |-> V, fun |-> f]

\* The clauses that were read, as sets of literals.
cnf == [i \in DOMAIN clauses |-> LitsOf(clauses[i].contents)]

SolverIdle ==
  /\ pool = <<>> /\ terms = <<>> /\ term_stack = <<>> /\ line = 1
  /\ buckets = [l \in Vars |-> <<>>] /\ blevel = 0 /\ next_idx = 0
  /\ eliminated_variables = {} /\ qsteps = <<>>
  /\ constraint_function = TRUE_ /\ verdict = "none"
  /\ solution = {} /\ constraint = TRUE_ /\ qi = 0 /\ vi = 0 /\ printed = {}

Init ==
  /\ input \in Inputs /\ pc = "read"
  /\ ReaderInit(input.file)
  /\ SolverIdle

\* The clauses of an accepted file become terms.
MakeTerms ==
  /\ pc = "read" /\ rpc = "accepted" /\ input.mode # "none"
  /\ pc' = input.mode
  /\ pool' = [i \in DOMAIN cnf |-> Term(ClauseFun(cnf[i]))]
  /\ terms' = [i \in DOMAIN cnf |-> i]
  /\ UNCHANGED <<input, term_stack, line, bucketVars, eliminated_variables, qsteps,
                 constraint_function, verdict, solveVars>>

\* The reduction ends with this function.
Result(f) ==
  /\ verdict' = IF f = FALSE_ THEN "UNSATISFIABLE" ELSE "SATISFIABLE"
  /\ constraint_function' = f
  /\ pc' = IF f = FALSE_ THEN "done" ELSE "next"

NoResult == UNCHANGED <<verdict, constraint_function>>

----------------------------------------------------------------------------
(* Tree reduction.                                                         *)

ActiveTerms == {i \in DOMAIN terms : pool[terms[i]].active}

\* The two oldest active terms are conjoined; one that is left is the result.
\* A result that can be satisfied becomes the only step of the solver.
TreeConjunct ==
  /\ pc = "tree" /\ Cardinality(ActiveTerms) > 1
  /\ LET i == SetMin(ActiveTerms)
         j == SetMin(ActiveTerms \ {i})
         p == Conjoined(pool, terms[i], terms[j])
     IN  /\ pool' = p
         /\ terms' = Append(terms, Len(p))
         /\ IF p[Len(p)].fun = FALSE_ THEN Result(FALSE_) ELSE NoResult /\ pc' = pc
  /\ UNCHANGED <<input, term_stack, line, bucketVars, eliminated_variables, qsteps, solveVars>>

TreeEnd ==
  /\ pc = "tree" /\ Cardinality(ActiveTerms) <= 1
  /\ LET f == IF ActiveTerms = {} THEN TRUE_ ELSE pool[terms[SetMin(ActiveTerms)]].fun
     IN  IF f = FALSE_ THEN Result(f) /\ UNCHANGED qsteps
         ELSE Result(TRUE_) /\ qsteps' = <<Step([v \in Vars |-> v], f)>>
  /\ pool' = [i \in DOMAIN pool |-> Dead]
  /\ UNCHANGED <<input, terms, term_stack, line, bucketVars, eliminated_variables, solveVars>>

----------------------------------------------------------------------------
(* Bucket elimination.                                                     *)

\* Active terms that are not TRUE go to the bucket of their top level; a term
\* that is FALSE ends the reduction.
PlaceTerms ==
  /\ pc = "bucket"
  /\ LET live == {i \in DOMAIN terms : pool[terms[i]].active}
         placed == SelectSeq([i \in DOMAIN terms |-> i],
                             LAMBDA i : i \in live /\ pool[terms[i]].fun # TRUE_)
         at(l) == SelectSeq(placed, LAMBDA i : TopLevel(pool[terms[i]].fun) = l)
     IN  IF \E i \in live : pool[terms[i]].fun = FALSE_
         THEN Result(FALSE_) /\ UNCHANGED bucketVars
         ELSE /\ buckets' = [l \in Vars |-> at(l)]
              /\ blevel' = 1 /\ next_idx' = 1
              /\ pc' = "eliminate" /\ NoResult
  /\ UNCHANGED <<input, termVars, eliminated_variables, qsteps, solveVars>>

Bucket == buckets[blevel]
NextBucket == blevel' = blevel + 1 /\ next_idx' = 1

\* The solver is to choose a value for a variable that no bucket holds; the
\* code looks for the level where it keeps variables.
EmptyBucket ==
  /\ pc = "eliminate" /\ blevel <= MaxVar /\ Bucket = <<>>
  /\ qsteps' = IF blevel \in eliminated_variables THEN qsteps
               ELSE Append(qsteps, Step(<<level2var(blevel)>>, TRUE_))
  /\ NextBucket /\ NoResult
  /\ UNCHANGED <<input, pc, termVars, buckets, eliminated_variables, solveVars>>

\* Two terms of the bucket are conjoined.
BucketConjunct ==
  /\ pc = "eliminate" /\ blevel <= MaxVar /\ next_idx < Len(Bucket)
  /\ LET p == Conjoined(pool, terms[Bucket[next_idx]], terms[Bucket[next_idx + 1]])
         f == p[Len(p)].fun
     IN  /\ pool' = p
         /\ terms' = Append(terms, Len(p))
         /\ IF f = FALSE_ THEN Result(FALSE_) /\ UNCHANGED bucketVars
            ELSE /\ buckets' = [buckets EXCEPT ![TopLevel(f)] = Append(@, Len(terms'))]
                 /\ next_idx' = next_idx + 2
                 /\ UNCHANGED <<pc, blevel>> /\ NoResult
  /\ UNCHANGED <<input, term_stack, line, eliminated_variables, qsteps, solveVars>>

\* Mutant: the solver remembers the term without its variable.
RememberedAfter(f, v) == Step(<<v>>, Exist(f, {v}))

\* The solver needs the function before the quantification.
Remembered(f, v) == Step(<<v>>, f)

\* The last term of the bucket has the variable quantified.
BucketQuantify ==
  /\ pc = "eliminate" /\ blevel <= MaxVar /\ next_idx = Len(Bucket)
  /\ LET id == terms[Bucket[next_idx]]
         v == level2var(blevel)
         p == Quantified(pool, id, {v})
         f == p[Len(p)].fun
     IN  /\ pool' = p
         /\ terms' = Append(terms, Len(p))
         /\ eliminated_variables' = eliminated_variables \cup {v}
         /\ qsteps' = Append(qsteps, Remembered(pool[id].fun, v))
         /\ buckets' = IF f = TRUE_ THEN buckets
                       ELSE [buckets EXCEPT ![TopLevel(f)] = Append(@, Len(terms'))]
         /\ NextBucket
  /\ NoResult
  /\ UNCHANGED <<input, pc, term_stack, line, solveVars>>

\* All terms of the bucket went elsewhere: the variable is free.
BucketCleared ==
  /\ pc = "eliminate" /\ blevel <= MaxVar /\ Bucket # <<>> /\ next_idx > Len(Bucket)
  /\ qsteps' = Append(qsteps, Step(<<level2var(blevel)>>, TRUE_))
  /\ NextBucket /\ NoResult
  /\ UNCHANGED <<input, pc, termVars, buckets, eliminated_variables, solveVars>>

BucketEnd ==
  /\ pc = "eliminate" /\ blevel > MaxVar
  /\ Result(TRUE_)
  /\ UNCHANGED <<input, termVars, bucketVars, eliminated_variables, qsteps, solveVars>>

----------------------------------------------------------------------------
(* The schedule: a program for a stack of terms.                           *)

Command == input.sched[line]
At(cmd) == pc = "schedule" /\ line <= Len(input.sched) /\ Command.cmd = cmd
Depth == Len(term_stack)
Top(k) == term_stack[Depth - k]
Below(k) == SubSeq(term_stack, 1, Depth - k)
Fail == /\ pc' = "error" /\ NoResult
        /\ UNCHANGED <<termVars, eliminated_variables, qsteps>>

\* c: the terms of the clauses are pushed.
PushClauses ==
  /\ At("c")
  /\ IF \A i \in DOMAIN Command.nums : Command.nums[i] \in DOMAIN cnf
     THEN /\ term_stack' = term_stack \o [i \in DOMAIN Command.nums |-> terms[Command.nums[i]]]
          /\ line' = line + 1 /\ pc' = pc /\ NoResult
          /\ UNCHANGED <<pool, terms, eliminated_variables, qsteps>>
     ELSE Fail
  /\ UNCHANGED <<input, bucketVars, solveVars>>

\* The conjunctions of an a command, from the top of the stack: how many of
\* them were made, and whether a term was found that is not active any more.
RECURSIVE Product(_, _, _, _)
Product(p, ts, top, k) ==
  IF k > Command.nums[1] \/ p[top].fun = FALSE_
  THEN [pool |-> p, terms |-> ts, top |-> top, reused |-> FALSE]
  ELSE IF ~ p[Top(k)].active THEN [pool |-> p, terms |-> ts, top |-> top, reused |-> TRUE]
  ELSE LET q == Conjoined(p, top, Top(k)) IN Product(q, Append(ts, Len(q)), Len(q), k + 1)

\* a: terms are conjoined; one that is FALSE is the result.
AndTerms ==
  /\ At("a")
  /\ IF Command.nums[1] \notin 1 .. Depth - 1 \/ ~ pool[Top(0)].active THEN Fail
     ELSE LET r == Product(pool, terms, Top(0), 1)
          IN  IF r.reused THEN Fail
              ELSE /\ pool' = r.pool /\ terms' = r.terms
                   /\ term_stack' = Append(Below(Command.nums[1] + 1), r.top)
                   /\ line' = line + 1
                   /\ IF r.pool[r.top].fun = FALSE_ THEN Result(FALSE_) ELSE pc' = pc /\ NoResult
                   /\ UNCHANGED <<eliminated_variables, qsteps>>
  /\ UNCHANGED <<input, bucketVars, solveVars>>

StepsAfter(vs, f) == Append(qsteps, Step(vs, f))

\* q: variables of the top term are quantified, whether it is active or not.
QuantifyTop ==
  /\ At("q")
  /\ IF Depth < 1 \/ \E i \in DOMAIN Command.nums : Command.nums[i] \notin Vars THEN Fail
     ELSE LET p == Quantified(pool, Top(0), Elements(Command.nums))
          IN  /\ pool' = p /\ terms' = Append(terms, Len(p))
              /\ term_stack' = Append(Below(1), Len(p))
              /\ eliminated_variables' = eliminated_variables \cup Elements(Command.nums)
              /\ qsteps' = StepsAfter(Command.nums, pool[Top(0)].fun)
              /\ line' = line + 1 /\ pc' = pc /\ NoResult
  /\ UNCHANGED <<input, bucketVars, solveVars>>

\* =: the top term is replaced by an equation that follows from it.
EquationTop ==
  /\ At("=")
  /\ LET eq == xor_constraint(Command.nums, Command.constant)
         f == Solutions(Vars, {eq})
         p == Append(Deactivated(pool, {Top(0)}), [Term(f) EXCEPT !.eqn = eq])
     IN  IF Depth < 1 THEN Fail
         ELSE IF ~ (pool[Top(0)].fun \subseteq f) THEN Fail
         ELSE /\ pool' = p /\ terms' = Append(terms, Len(p))
              /\ term_stack' = Append(Below(1), Len(p))
              /\ line' = line + 1 /\ pc' = pc /\ NoResult
              /\ UNCHANGED <<eliminated_variables, qsteps>>
  /\ UNCHANGED <<input, bucketVars, solveVars>>

\* g: the equations on top are solved for the given internal variables; what
\* is left about the others replaces them.
GaussTop ==
  /\ At("g")
  /\ LET n == Command.nums[1]
         eqs == SelectSeq([i \in 1 .. n |-> pool[Top(i - 1)].eqn],
                          LAMBDA eq : ~ is_degenerate(eq))
         internal == Elements(Tail(Command.nums))
     IN  IF n \notin 1 .. Depth \/ \E i \in 1 .. n : pool[Top(i - 1)].eqn = NoEqn THEN Fail
         ELSE \E r \in gauss_jordan(eqs, internal, MaxVar) :
                LET dead == Deactivated(pool, {Top(i - 1) : i \in 1 .. n})
                    new == [i \in DOMAIN r.eset |-> Term(Solutions(Vars, {r.eset[i]}))]
                IN  /\ line' = line + 1
                    /\ IF r.infeasible
                       THEN Result(FALSE_) /\ UNCHANGED <<pool, term_stack, qsteps, eliminated_variables>>
                       ELSE /\ pool' = dead \o new
                            /\ term_stack' = Below(n) \o [i \in DOMAIN new |-> Len(pool) + i]
                            /\ qsteps' = qsteps \o
                                 [i \in DOMAIN r.iset |->
                                    Step(<<r.pivots[i]>>, Solutions(Vars, {r.iset[i]}))]
                            /\ eliminated_variables' = eliminated_variables \cup
                                 {r.pivots[i] : i \in DOMAIN r.iset}
                            /\ pc' = pc /\ NoResult
                    /\ UNCHANGED terms
  /\ UNCHANGED <<input, bucketVars, solveVars>>

\* A single term is the result; otherwise the terms on the stack go to the
\* buckets, the dead ones as well.
EndOfSchedule ==
  /\ pc = "schedule" /\ line > Len(input.sched)
  /\ IF Depth = 1 THEN Result(pool[Top(0)].fun) /\ UNCHANGED <<pool, terms>>
     ELSE /\ pool' = pool \o [i \in 1 .. Depth |-> Term(pool[term_stack[i]].fun)]
          /\ terms' = [i \in 1 .. Depth |-> Len(pool) + i]
          /\ pc' = "bucket" /\ NoResult
  /\ UNCHANGED <<input, term_stack, line, bucketVars, eliminated_variables, qsteps, solveVars>>

----------------------------------------------------------------------------
(* Solutions.  The cube FALSE is {0}; other cubes are sets of literals.    *)

NoCube == {0}
AndLit(c, l) == IF c = NoCube \/ (0 - l) \in c THEN NoCube ELSE c \cup {l}
CubeFun(c) == IF c = NoCube THEN FALSE_ ELSE {a \in Assignments : \A l \in c : LitTrue(l, a)}
\* A constant cube restricts nothing.
Restrict(f, c) ==
  IF c = NoCube THEN f
  ELSE LET trues  == {l \in c : l > 0}
           falses == {0 - l : l \in {k \in c : k < 0}}
       IN  {a \in Assignments : ((a \ falses) \cup trues) \in f}

\* Mutant: one solution more than was asked for.
OneMore == Cardinality(printed) > max_solutions
Enough == Cardinality(printed) >= max_solutions

\* Another solution is begun, from the last step.
StartSolution ==
  /\ pc = "next"
  /\ IF constraint_function = FALSE_ \/ Enough
     THEN pc' = "done" /\ UNCHANGED <<solution, constraint, qi, vi>>
     ELSE /\ pc' = "solve"
          /\ solution' = {} /\ qi' = Len(qsteps)
          /\ IF qsteps = <<>> THEN UNCHANGED <<constraint, vi>>
             ELSE constraint' = qsteps[Len(qsteps)].fun /\ vi' = Len(qsteps[Len(qsteps)].vars)
  /\ UNCHANGED <<input, termVars, bucketVars, eliminated_variables, qsteps,
                 constraint_function, verdict, printed>>

\* Mutant: the first phase is taken whether it can be satisfied or not.
FirstPhase(c, l) == l
Phase(c, l) == IF Restrict(c, {l}) = FALSE_ THEN 0 - l ELSE l

\* A phase is chosen at random, the other one when that falsifies the step.
AssignVariable ==
  /\ pc = "solve" /\ qi > 0 /\ vi > 0
  /\ \E s \in {-1, 1} :
       LET l == Phase(constraint, s * qsteps[qi].vars[vi])
       IN  /\ constraint' = Restrict(constraint, {l})
           /\ solution' = AndLit(solution, l)
  /\ vi' = vi - 1
  /\ UNCHANGED <<input, pc, termVars, bucketVars, eliminated_variables, qsteps,
                 constraint_function, verdict, qi, printed>>

PreviousStep ==
  /\ pc = "solve" /\ qi > 0 /\ vi = 0
  /\ qi' = qi - 1
  /\ IF qi > 1 THEN /\ constraint' = Restrict(qsteps[qi - 1].fun, solution)
                    /\ vi' = Len(qsteps[qi - 1].vars)
     ELSE UNCHANGED <<constraint, vi>>
  /\ UNCHANGED <<input, pc, termVars, bucketVars, eliminated_variables, qsteps,
                 constraint_function, verdict, solution, printed>>

RECURSIVE Excluded(_, _, _)
\* A constraint is imposed on the steps from the first one; what it says
\* about the variables quantified later is passed on, until it says nothing.
Excluded(steps, i, upper) ==
  IF i > Len(steps) THEN [steps |-> steps, upper |-> upper]
  ELSE LET f == steps[i].fun \cap upper
       IN  IF f = steps[i].fun THEN [steps |-> steps, upper |-> TRUE_]
           ELSE LET down == Exist(f, Elements(steps[i].vars))
                    new == [steps EXCEPT ![i].fun = f]
                IN  IF down = TRUE_ THEN [steps |-> new, upper |-> TRUE_]
                    ELSE Excluded(new, i + 1, down)

\* A contradiction ends the enumeration; a solution is printed and excluded.
PrintSolution ==
  /\ pc = "solve" /\ qi = 0
  /\ IF solution = NoCube THEN pc' = "done" /\ UNCHANGED <<printed, qsteps, constraint_function>>
     ELSE LET e == Excluded(qsteps, 1, TRUE_ \ CubeFun(solution))
          IN  /\ pc' = "next"
              /\ printed' = printed \cup {solution}
              /\ qsteps' = e.steps
              /\ constraint_function' = constraint_function \cap e.upper
  /\ UNCHANGED <<input, termVars, bucketVars, eliminated_variables, verdict,
                 solution, constraint, qi, vi>>

SolverNext ==
  \/ MakeTerms
  \/ TreeConjunct \/ TreeEnd
  \/ PlaceTerms \/ EmptyBucket \/ BucketConjunct \/ BucketQuantify \/ BucketCleared \/ BucketEnd
  \/ PushClauses \/ AndTerms \/ QuantifyTop \/ EquationTop \/ GaussTop \/ EndOfSchedule
  \/ StartSolution \/ AssignVariable \/ PreviousStep \/ PrintSolution

Next ==
  \/ ReaderNext /\ UNCHANGED solverVars
  \/ SolverNext /\ UNCHANGED readerVars

\* The program runs until it has printed what it was asked for.
Spec == Init /\ [][Next]_vars /\ WF_vars(Next)

----------------------------------------------------------------------------

\* The models of the clauses that are written in the file.
Models == LET funs == {ClauseFun(C) : C \in Written}
          IN  {a \in Assignments : \A f \in funs : a \in f}
\* There is no verdict when the file is refused, or only read.
NoVerdict == rpc = "failed" \/ input.mode = "none"
\* A cube that mentions every variable is an assignment, another one is not.
AssignmentOf(c) == IF {IF l > 0 THEN l ELSE 0 - l : l \in c} = Vars THEN {l \in c : l > 0} ELSE c

Promise == INSTANCE SolutionEnumerator WITH
  models <- Models, printed <- {AssignmentOf(c) : c \in printed},
  verdict <- IF NoVerdict THEN "no verdict" ELSE verdict

\* tbsat keeps the promise for the formula in the file: a right verdict, and
\* different solutions until there are no more or enough of them.
Promised == Promise!Spec

\* The verdict is right.
VerdictRight ==
  /\ verdict = "UNSATISFIABLE" => Models = {}
  /\ verdict = "SATISFIABLE" => Models # {}

\* What is printed satisfies the formula, whatever values the variables that
\* are missing have.
SolutionsRight == \A c \in printed : CubeFun(c) \subseteq Models

\* While buckets are eliminated, the active terms and the remembered steps
\* have together the models of the formula.
NothingLost ==
  pc \in {"tree", "eliminate"} =>
    {a \in Assignments : /\ \A i \in DOMAIN pool : pool[i].active => a \in pool[i].fun
                         /\ \A i \in DOMAIN qsteps : a \in qsteps[i].fun} = Models

\* A run of tbsat: the formula read is that of the file, nothing of it is lost
\* while it is solved, and what is told of it is right.
RunRight == AcceptedRight /\ Canonical /\ VerdictRight /\ SolutionsRight /\ NothingLost
=============================================================================
