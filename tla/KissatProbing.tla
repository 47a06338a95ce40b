--------------------------- MODULE KissatProbing ---------------------------
(***************************************************************************)
(* The probing techniques of kissat: backbone of the binary clauses, hyper *)
(* ternary resolution, transitive reduction, failed literals, vivification *)
(* and sweeping.  They run on the formula of KissatInprocessing, in any    *)
(* order and mixed with the search, and never touch the models of the      *)
(* irredundant clauses.  Effort limits may stop each of them anywhere.     *)
(***************************************************************************)
EXTENDS KissatInprocessing

CONSTANT MaxProbes      \* bound: how many literals a round probes

Clauses(s) == s.irr \cup s.red
BinaryClauses(s) == {c \in Clauses(s) : Cardinality(c) = 2}

AddRedundant(s, C) == [s EXCEPT !.red = @ \cup (C \ s.irr)]
AddIrredundant(s, c) == [s EXCEPT !.irr = @ \cup {c}, !.red = @ \ {c}]
Removed(s, C) == [s EXCEPT !.irr = @ \ C, !.red = @ \ C]

LearnUnits(s, lits) == Simplified(FoldSet(LAMBDA l, a : kissat_learned_unit(a, l), s, lits))

\* The literals a round gets to, in the order in which it probes them.
ProbeOrders(candidates) ==
    UNION {SetToSeqs(P) : P \in {Q \in SUBSET candidates : Cardinality(Q) \in 1 .. MaxProbes}}

(***************************************************************************)
(* Backbone of the binary clauses.  The probes stay on the trail, one      *)
(* decision above the other; a probe that fails is replaced by the         *)
(* negation of the dominator of the conflict.                              *)
(***************************************************************************)
BackboneProbe(s, a, probe) ==
    LET p   == PropagatedTrail(s, BinaryClauses(s), Append(a.trail, Decision(probe)))
        uip == Dominator(s, p.trail, Negations(p.conflict))
        f   == PropagatedTrail(s, BinaryClauses(s),
                               Append(a.trail, [lit |-> -uip, reason |-> {-uip}]))
    IN  IF a.clash \/ {probe, -probe} \cap Values(s, a.trail) # {} THEN a
        ELSE IF p.conflict = {} THEN [a EXCEPT !.trail = p.trail]
        ELSE [trail |-> f.trail, units |-> a.units \cup {-uip}, clash |-> f.conflict # {}]

compute_backbone(s, order) ==
    LET a == FoldLeft(LAMBDA b, probe : BackboneProbe(s, b, probe),
                      [trail |-> <<>>, units |-> {}, clash |-> FALSE], order)
    IN  IF a.clash THEN [s EXCEPT !.inconsistent = TRUE] ELSE LearnUnits(s, a.units)

(***************************************************************************)
(* Hyper ternary resolution on a literal.  A resolvent of three literals   *)
(* is redundant, one of two replaces both antecedents.                     *)
(***************************************************************************)
Ternaries(s, l) == {c \in Clauses(s) : Cardinality(c) = 3 /\ l \in c}

ternary_resolution(s, lit, a, c, d) ==
    LET r == (c \ {lit}) \cup (d \ {-lit})
    IN  IF {c, d} \cap a.garbage # {} \/ Tautology(r) \/ Cardinality(r) > 3 THEN a
        ELSE [tags |-> Append(a.tags, [clause |-> r,
                     redundant |-> Cardinality(r) = 3 \/ {c, d} \subseteq s.red]),
              garbage |-> IF Cardinality(r) = 3 THEN a.garbage ELSE a.garbage \cup {c, d}]

BinaryFound(s, c, irredundant) == c \in IF irredundant THEN s.irr ELSE Clauses(s)
TernaryFound(s, c) == \E d \in Clauses(s) : Cardinality(d) \in 2 .. 3 /\ d \subseteq c

add_ternary_resolvent(tag, s) ==
    IF Cardinality(tag.clause) = 2
    THEN IF BinaryFound(s, tag.clause, ~tag.redundant) THEN s
         ELSE IF tag.redundant THEN AddRedundant(s, {tag.clause}) ELSE AddIrredundant(s, tag.clause)
    ELSE IF TernaryFound(s, tag.clause) THEN s ELSE AddRedundant(s, {tag.clause})

resolve_ternary_clauses(s, lit, positive, negative) ==
    LET a == FoldLeft(LAMBDA b, c : FoldLeft(LAMBDA e, d : ternary_resolution(s, lit, e, c, d),
                                             b, negative),
                      [tags |-> <<>>, garbage |-> {}], positive)
    IN  Removed(FoldRight(add_ternary_resolvent, a.tags, s), a.garbage)

(***************************************************************************)
(* Transitive reduction: a binary clause goes when others lead from the    *)
(* negation of one literal to the other one, irredundant ones if it is     *)
(* irredundant.  A literal and its negation reached fail the first one.    *)
(***************************************************************************)
RECURSIVE ReachedBy(_, _)
ReachedBy(B, lits) ==
    LET next == lits \cup UNION {c \ Negations(lits) : c \in {d \in B : d \cap Negations(lits) # {}}}
    IN  IF next = lits THEN lits ELSE ReachedBy(B, next)

\* Mutant: redundant clauses justify removing an irredundant one.
AnyPathClauses(s, c) == BinaryClauses(s) \ {c}

PathClauses(s, c) == (IF c \in s.irr THEN BinaryClauses(s) \cap s.irr ELSE BinaryClauses(s)) \ {c}

transitive_reduce(s, src, dst) ==
    LET reached == ReachedBy(PathClauses(s, {src, dst}), {-src})
        failed  == \E l \in reached : -l \in reached
    IN  (IF dst \in reached THEN {Removed(s, {{src, dst}})} ELSE {})
        \cup (IF failed THEN {LearnUnits(s, {src})} ELSE {})

(***************************************************************************)
(* Failed literals: the roots of the binary implication graph are probed.  *)
(* From a conflict every literal through which all of it runs is learned   *)
(* negated.  Literals implied since the last failure are not probed.       *)
(***************************************************************************)
Roots(s) == LET occurring == UNION BinaryClauses(s)
            IN  {l \in ActiveLits(s) : -l \in occurring /\ l \notin occurring}

\* Mutant: every literal the conflict rests on fails.
EveryLiteralFails(s, t, conflict, probe) ==
    {-probe} \cup {-l : l \in NeededFor(t, Negations(NonFalse(s, conflict)))}

analyze_failed_literal(s, t, conflict, probe) ==
    LET Step(e, a) ==
            IF e.lit \notin a.open \/ probe \in a.open THEN a
            ELSE [units |-> IF a.open = {e.lit} THEN a.units \cup {-e.lit} ELSE a.units,
                  open  |-> (a.open \ {e.lit}) \cup Predecessors(s, e)]
    IN  {-probe} \cup FoldRight(Step, t, [units |-> {}, open |-> Negations(NonFalse(s, conflict))]).units

FailedProbe(a, probe) ==
    LET p == kissat_hyper_propagate(a.s, Clauses(a.s), <<Decision(probe)>>, {})
        s == AddRedundant(a.s, p.resolvents)
    IN  IF a.s.inconsistent \/ {probe, -probe} \cap a.s.units # {} \/ probe \in a.stamped THEN a
        ELSE IF p.conflict = {} THEN [s |-> s, stamped |-> a.stamped \cup TrailLits(p.trail)]
        ELSE [s |-> LearnUnits(s, analyze_failed_literal(a.s, p.trail, p.conflict, probe)),
              stamped |-> {}]

probe_round(s, order) == FoldLeft(FailedProbe, [s |-> s, stamped |-> {}], order).s

(***************************************************************************)
(* Vivification: the negations of the literals of a clause are assumed one *)
(* by one and propagated over the other clauses.                           *)
(***************************************************************************)
VivifyLiteral(s, C, a, lit) ==
    LET t == Append(a.trail, Decision(-lit))
        p == IF a.trail = <<>> THEN kissat_hyper_propagate(s, C, t, {})
             ELSE PropagatedTrail(s, C \cup a.resolvents, t)
    IN  IF a.conflict # {} \/ a.implied # {} \/ -lit \in Values(s, a.trail) THEN a
        ELSE IF lit \in Values(s, a.trail) THEN [a EXCEPT !.implied = {lit}]
        ELSE [a EXCEPT !.trail = p.trail, !.conflict = p.conflict,
                       !.resolvents = IF a.trail = <<>> THEN p.resolvents ELSE @]

Reason(t, l) == (CHOOSE e \in ToSet(t) : e.lit = l).reason

\* What the conflict, or the reason of the implied literal, rests on.
vivify_analyze(s, a, c) ==
    LET conflict  == IF a.implied = {} THEN a.conflict
                     ELSE Reason(a.trail, CHOOSE l \in a.implied : TRUE)
        needed    == NeededFor(a.trail, Negations(conflict \ a.implied))
        entries   == {e \in ToSet(a.trail) : e.lit \in needed}
        used      == {conflict} \cup ({e.reason : e \in entries} \ {{}})
        learned   == a.implied \cup {-e.lit : e \in {d \in entries : d.reason = {}}}
    IN  [learned     |-> learned,
         irredundant |-> used \subseteq s.irr,
         subsumed    |-> Cardinality(learned) > 1
                         /\ \E d \in used : NonFalse(s, d) \subseteq c /\ (c \in s.red \/ d \in s.irr)]

\* Mutant: an irredundant clause goes though redundant ones imply it.
ImpliedByRedundant(s, c, learned, irredundant) ==
    IF Cardinality(learned) < Cardinality(c) THEN s ELSE Removed(s, {c})

vivify_learn(s, c, learned, irredundant) ==
    IF Cardinality(learned) = 1 THEN LearnUnits(Removed(s, {c}), learned)
    ELSE IF Cardinality(learned) < Cardinality(c)
         THEN IF c \in s.irr THEN AddIrredundant(Removed(s, {c}), learned)
              ELSE AddRedundant(Removed(s, {c}), {learned})
    ELSE IF irredundant /\ c \in s.irr THEN Removed(s, {c})
    ELSE s

vivify_clause(s, c, sorted) ==
    LET a  == FoldLeft(LAMBDA b, lit : VivifyLiteral(s, Clauses(s) \ {c}, b, lit),
                       [trail |-> <<>>, conflict |-> {}, implied |-> {}, resolvents |-> {}], sorted)
        r  == AddRedundant(s, a.resolvents)
        an == vivify_analyze(s, a, c)
        decisions == {l \in c : Decision(-l) \in ToSet(a.trail)}
    IN  IF a.implied # {} /\ c \in s.red THEN Removed(r, {c})
        ELSE IF a.implied # {} \/ a.conflict # {}
             THEN IF an.subsumed THEN Removed(r, {c})
                  ELSE vivify_learn(r, c, an.learned, an.irredundant)
        ELSE IF decisions # c THEN vivify_learn(r, c, decisions, FALSE)
        ELSE r

(***************************************************************************)
(* Sweeping: the clauses around a variable are copied to a small solver.   *)
(* Literals it implies become units, equivalent ones get binary clauses.   *)
(***************************************************************************)
RECURSIVE Environment(_, _, _)
Environment(s, V, depth) ==
    LET E == {c \in s.irr \cup BinaryClauses(s) : VarsOf({c}) \cap V # {}}
    IN  IF depth = 1 THEN E ELSE Environment(s, V \cup VarsOf(E), depth - 1)

Chain(class) == LET q == SetToSeq(class) IN {{q[i], q[i + 1]} : i \in 1 .. Len(q) - 1}

Both(pairs) == UNION {{{-l, k}, {l, -k}} : <<l, k>> \in {<<l, k>> \in UNION {p \X p : p \in pairs} : l < k}}

sweep_variable(s, x, depth) ==
    LET E       == Environment(s, {x}, depth)
        models  == Models(E)
        lits    == {l \in ActiveLits(s) : Var(l) \in {x} \cup VarsOf(E)}
        implied == {l \in lits : \A a \in models : l \in a}
        Class(l) == {k \in lits \ UNION {{m, -m} : m \in implied} : \A a \in models : (l \in a) <=> (k \in a)}
        first   == CHOOSE a \in models : TRUE
        classes == {Class(l) : l \in (lits \cap first) \ implied}
    IN  IF models = {} THEN [s EXCEPT !.inconsistent = TRUE]
        ELSE LearnUnits(AddRedundant(s, Both(UNION {Chain(k) : k \in classes})), implied)

(***************************************************************************)
(* The actions.                                                            *)
(***************************************************************************)
Probing(technique) ==
    /\ technique \in input.techniques
    /\ mode = "sparse" /\ ~solver.inconsistent
    /\ UNCHANGED <<input, mode>>

Bounded == Cardinality(solver'.red) <= input.maxRedundant

kissat_binary_clauses_backbone ==
    /\ Probing("backbone")
    /\ \E order \in ProbeOrders(ActiveLits(solver)) : solver' = compute_backbone(solver, order)

kissat_ternary ==
    /\ Probing("ternary")
    /\ \E lit \in Active(solver) :
         \E p \in SetToSeqs(Ternaries(solver, lit)), n \in SetToSeqs(Ternaries(solver, -lit)) :
            solver' = resolve_ternary_clauses(solver, lit, p, n)
    /\ Bounded

kissat_transitive_reduction ==
    /\ Probing("transitive")
    /\ \E src \in ActiveLits(solver), dst \in ActiveLits(solver) :
         /\ {src, dst} \in BinaryClauses(solver)
         /\ solver' \in transitive_reduce(solver, src, dst)

kissat_failed_literal_computation ==
    /\ Probing("failed")
    /\ \E order \in ProbeOrders(Roots(solver)) : solver' = probe_round(solver, order)
    /\ Bounded

kissat_vivify ==
    /\ Probing("vivify")
    /\ \E c \in Clauses(solver) \ BinaryClauses(solver) :
         \E sorted \in SetToSeqs(c) : solver' = vivify_clause(solver, c, sorted)
    /\ Bounded

kissat_sweep ==
    /\ Probing("sweep")
    /\ \E x \in Active(solver), depth \in 1 .. 2 : solver' = sweep_variable(solver, x, depth)
    /\ Bounded

ProbingNext ==
    \/ Next
    \/ kissat_binary_clauses_backbone
    \/ kissat_ternary
    \/ kissat_transitive_reduction
    \/ kissat_failed_literal_computation
    \/ kissat_vivify
    \/ kissat_sweep

ProbingSpec == Init /\ [][ProbingNext]_vars

=============================================================================
