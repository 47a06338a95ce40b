------------------------------- MODULE MCBuddy -------------------------------
(***************************************************************************)
(* Programs that use BuDDy without proofs, for TLC: one makes calls, one    *)
(* asks questions about diagrams, one keeps tables of variable pairs.       *)
(***************************************************************************)
EXTENDS BddCalls, BddInfo, ReplacePairs, TLC

VARIABLE program        \* what the program does: "calls", "questions" or "pairs"

\* The constants.  Functions of three variables with and without levels left out.
X == BDD_ithvar(0)
Y == BDD_ithvar(1)
Z == BDD_ithvar(2)
N(f) == BDDONE \ f
Xor(f, g) == (f \ g) \cup (g \ f)
VarSets == {SetOf(V) : V \in SUBSET Variables}

Some == {BDDZERO, BDDONE, X, N(X), Y, Z, N(Z), X \cap Y, X \cap Z, N(Y) \cap Z, X \cup Z,
         Xor(X, Y), Xor(X, Z), N(Xor(Y, Z)), Xor(X, Xor(Y, Z)), X \cap Y \cap Z,
         (X \cap Y) \cup (N(X) \cap Z), (X \cap Y) \cup (Y \cap Z) \cup (X \cap Z),
         (X \cap Z) \cup (N(Z) \cap Y), N(X) \cap N(Y) \cap Z, (Y \cup Z) \cap X}
Few  == {BDDONE, X, Z, Xor(Y, Z), (X \cap Y) \cup (N(X) \cap Z)}
Cubes == UNION {{CubeOf(p) : p \in [V -> BOOLEAN]} : V \in SUBSET Variables}

Job(op, opr, f, g, h, var) ==
  [op |-> op, opr |-> opr, f |-> f, g |-> g, h |-> h, var |-> var]

Single ==
  {Job("not", "", f, {}, {}, 0) : f \in Some}
  \cup {Job("apply", o, f, g, {}, 0) : o \in DOMAIN oprres, f \in Some, g \in Some}
  \cup {Job("ite", "", f, g, h, 0) : f \in Some, g \in Few, h \in Few}
  \cup {Job("restrict", "", f, {}, c, 0) : f \in Some, c \in Cubes}
  \cup {Job(o, "", f, g, {}, 0) : o \in {"constrain", "simplify"}, f \in Some, g \in Some}
  \cup {Job(o, "", f, {}, V, 0) : o \in {"exist", "forall"}, f \in Some, V \in VarSets}
  \cup {Job(o, p, f, g, V, 0) : o \in {"appex", "appall"},
          p \in {"and", "or", "xor", "nand", "nor", "imp"}, f \in Few, g \in Some, V \in VarSets}
  \cup {Job("compose", "", f, g, {}, v) : f \in Some, g \in Some, v \in Variables}
  \cup {Job("cube", "", X, Y, Z, n) : n \in 0 .. 7}

\* Two variables, every pair of calls.
Pairs2 == {X, Y, X \cap Y, Xor(X, Y)}
Paired ==
  {Job("not", "", f, {}, {}, 0) : f \in Pairs2}
  \cup {Job("apply", o, f, g, {}, 0) : o \in {"and", "xor"}, f \in Pairs2, g \in Pairs2}
  \cup {Job("ite", "", Y, X, f, 0) : f \in Pairs2}
  \cup {Job(o, "", f, {}, V, 0) : o \in {"exist", "forall", "unique", "restrict"},
                                  f \in Pairs2, V \in {X, Y}}
  \cup {Job(o, "", f, g, {}, 0) : o \in {"constrain", "simplify"}, f \in Pairs2, g \in {X, Y}}
  \cup {Job(o, p, X, f, V, 0) : o \in {"appex", "appall"}, p \in {"and", "xor"},
                                f \in Pairs2, V \in {X, Y}}
  \cup {Job("compose", "", f, Y, {}, v) : f \in Pairs2, v \in {0, 1}}

mcCalls == (2 :> Paired) @@ (3 :> Single)

Unary == {"satcount", "satcountln", "pathcount", "satone", "fullsatone", "allsat",
          "nodecount", "varprofile", "support"}
Binary == {"satcountset", "satoneset", "anodecount", "makeset"}
Symmetric == {{a \in Assignments : Cardinality(a) \in S} : S \in SUBSET (0 .. MaxVars)}
mcQuestions ==
  {[op |-> o, f |-> f, g |-> BDDONE, pol |-> BDDONE] : o \in Unary, f \in BDDs}
  \cup {[op |-> o, f |-> f, g |-> V, pol |-> p] :
          o \in Binary, f \in Symmetric \cup {X \ Z, N(Y), Z}, V \in VarSets, p \in {BDDZERO, BDDONE}}

mcTables    == (2 :> {1, 2}) @@ (3 :> {1})
mcImages    == (2 :> {Y, Xor(X, Y)}) @@ (3 :> {X, Y, Z})
mcArguments == (2 :> {X \ Y}) @@ (3 :> {(X \cap Y) \cup (Z \ X)})

----------------------------------------------------------------------------

vars == <<level2var, opcache, job, env, phase, res, marked, question, answer,
          pairs, pair, pairsid, view, substitution, program>>

CallsIdle == job = NoCall /\ env = NoEnv /\ phase = "idle" /\ res = BDDZERO
InfoIdle  == marked = {} /\ question = NoQuestion /\ answer = <<>>
PairsIdle == pairs = <<>> /\ pairsid = 0 /\ substitution = NoSubstitution
             /\ pair = [h \in Handles |-> NoPair] /\ view = [h \in Handles |-> <<>>]

Init ==
  \/ program = "calls"     /\ CallsInit /\ InfoIdle /\ PairsIdle
  \/ program = "questions" /\ InfoInit /\ opcache = {} /\ CallsIdle /\ PairsIdle
  \/ program = "pairs"     /\ PairsInit /\ CallsIdle /\ InfoIdle

Next ==
  /\ UNCHANGED program
  /\ \/ /\ program = "calls" /\ CallsNext
        /\ UNCHANGED <<marked, question, answer, pairs, pair, pairsid, view, substitution>>
     \/ /\ program = "questions" /\ InfoNext
        /\ UNCHANGED <<opcache, job, env, phase, res, pairs, pair, pairsid, view, substitution>>
     \/ /\ program = "pairs" /\ PairsNext
        /\ UNCHANGED <<job, env, phase, res, marked, question, answer>>

Spec == Init /\ [][Next]_vars
=============================================================================
