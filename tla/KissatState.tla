---------------------------- MODULE KissatState ----------------------------
(***************************************************************************)
(* The formula kissat works on between two searches, at decision level     *)
(* zero: the irredundant and the redundant clauses, the root-level units,  *)
(* the extension stack of removed clauses with their witness literals and  *)
(* the eliminated variables in the order in which they went.  A literal    *)
(* is a non-zero integer and a clause a set of literals.                   *)
(*                                                                         *)
(* The operators take and return a state of the solver as a record; the    *)
(* modules of the single techniques build their steps from them.           *)
(***************************************************************************)
EXTENDS Integers, Sequences, FiniteSets, FiniteSetsExt, SequencesExt

CONSTANT Vars        \* the variables of the original formula

ASSUME VarsAssumption == Vars \subseteq Nat \ {0} /\ IsFiniteSet(Vars)

Lits == Vars \cup {-v : v \in Vars}

Var(l) == IF l < 0 THEN -l ELSE l
VarsOf(C) == {Var(l) : l \in UNION C}
Tautology(c) == \E l \in c : -l \in c

(***************************************************************************)
(* Assignments and the meaning of clauses: the reference the properties    *)
(* are stated with.                                                        *)
(***************************************************************************)
Assignments == {{IF v \in T THEN v ELSE -v : v \in Vars} : T \in SUBSET Vars}
Models(C) == {a \in Assignments : \A c \in C : c \cap a # {}}

(***************************************************************************)
(* Values of literals at the root.                                         *)
(***************************************************************************)
NonFalse(s, c) == {l \in c : -l \notin s.units}
Satisfied(s, c) == c \cap s.units # {}
Assigned(s) == {Var(l) : l \in s.units}
Eliminated(s) == ToSet(s.eliminated)
Active(s) == Vars \ (Assigned(s) \cup Eliminated(s))
Occurrences(s, l) == {c \in s.irr : l \in c}

kissat_learned_unit(s, l) ==
    IF -l \in s.units THEN [s EXCEPT !.inconsistent = TRUE]
    ELSE [s EXCEPT !.units = @ \cup {l}]

(***************************************************************************)
(* Unit propagation over a set of clauses, one unit at a time.             *)
(***************************************************************************)
RECURSIVE Propagated(_, _)
Propagated(s, C) ==
    LET open  == {c \in C : ~Satisfied(s, c)}
        units == {c \in open : Cardinality(NonFalse(s, c)) = 1}
    IN  IF \E c \in open : NonFalse(s, c) = {} THEN [s EXCEPT !.inconsistent = TRUE]
        ELSE IF units = {} THEN s
        ELSE Propagated([s EXCEPT !.units = @ \cup NonFalse(s, CHOOSE c \in units : TRUE)], open)

\* Satisfied clauses are collected and false literals dropped.
Reduced(s, C) == {NonFalse(s, c) : c \in {d \in C : ~Satisfied(s, d)}}

\* While all irredundant clauses are connected (the dense mode) only they propagate.
kissat_flush_units_while_connected(s) ==
    LET p == Propagated(s, s.irr)
    IN  IF p.inconsistent THEN p ELSE [p EXCEPT !.irr = Reduced(p, @)]

\* Back in the sparse mode: redundant clauses of eliminated variables go, the others propagate too.
kissat_resume_sparse_mode(s) ==
    LET kept == {c \in s.red : VarsOf({c}) \cap Eliminated(s) = {}}
        p    == Propagated([s EXCEPT !.red = kept], s.irr \cup kept)
    IN  IF s.inconsistent \/ p.inconsistent THEN [s EXCEPT !.inconsistent = TRUE]
        ELSE [p EXCEPT !.irr = Reduced(p, @), !.red = Reduced(p, @) \ Reduced(p, p.irr)]

(***************************************************************************)
(* The extension stack.  Literals false at the root are not pushed.        *)
(***************************************************************************)
\* Mutant: the witness is left out of the clause.
WeakenWithoutWitness(s, lit, c) ==
    [s EXCEPT !.extend = Append(@, [witness |-> lit, clause |-> NonFalse(s, c) \ {lit}])]

kissat_weaken_clause(s, lit, c) ==
    [s EXCEPT !.extend = Append(@, [witness |-> lit, clause |-> {lit} \cup NonFalse(s, c)])]

kissat_weaken_unit(s, lit) == [s EXCEPT !.extend = Append(@, [witness |-> lit, clause |-> {lit}])]

kissat_mark_eliminated_variable(s, x) == [s EXCEPT !.eliminated = Append(@, x)]

(***************************************************************************)
(* An assignment of the remaining variables is extended to the eliminated  *)
(* ones, the stack read from its top.  A clause that is not satisfied yet  *)
(* gets the unassigned literal eliminated last, its witness if that is the *)
(* one or if all its eliminated literals have a value.                     *)
(***************************************************************************)
Position(s, l) == CHOOSE i \in DOMAIN s.eliminated : s.eliminated[i] = Var(l)

ExtendedBy(s, values, e) ==
    LET free == {l \in e.clause : Var(l) \in Eliminated(s) /\ {l, -l} \cap values = {}}
        last == CHOOSE l \in free : \A k \in free : Position(s, k) <= Position(s, l)
        set  == IF free # {} /\ last # e.witness THEN last ELSE e.witness
    IN  IF e.clause \cap values # {} THEN values ELSE (values \ {-set}) \cup {set}

kissat_extend(s, values) ==
    FoldRight(LAMBDA e, a : ExtendedBy(s, a, e), s.extend, values)

\* A variable left without a value is printed as true.
Printed(values) == values \cup {v \in Vars : -v \notin values}

-----------------------------------------------------------------------------
(***************************************************************************)
(* Propagation of assumptions above the root: the trail is a sequence of   *)
(* literals with their reasons, the clause that forced the literal or, for *)
(* a decision, the empty set.  What the probing techniques learn they read *)
(* off the reasons.                                                        *)
(***************************************************************************)
Decision(l) == [lit |-> l, reason |-> {}]

TrailLits(t) == {t[i].lit : i \in DOMAIN t}
Values(s, t) == s.units \cup TrailLits(t)

Falsified(s, t, c) == c \cap Values(s, t) = {} /\ \A l \in c : -l \in Values(s, t)
Open(s, t, c) == {l \in c : -l \notin Values(s, t)}
Forcing(s, t, C) == {c \in C : c \cap Values(s, t) = {} /\ Cardinality(Open(s, t, c)) = 1}
Forced(s, t, c, reason) == [lit |-> CHOOSE l \in Open(s, t, c) : TRUE, reason |-> reason]

RECURSIVE PropagatedTrail(_, _, _)
PropagatedTrail(s, C, t) ==
    LET conflicts == {c \in C : Falsified(s, t, c)}
        forcing   == Forcing(s, t, C)
        c         == CHOOSE c \in forcing : TRUE
    IN  IF conflicts # {} THEN [trail |-> t, conflict |-> CHOOSE k \in conflicts : TRUE]
        ELSE IF forcing = {} THEN [trail |-> t, conflict |-> {}]
        ELSE PropagatedTrail(s, C, Append(t, Forced(s, t, c, c)))

(***************************************************************************)
(* The literals of the trail that clause k needed, through the reasons.    *)
(***************************************************************************)
Negations(c) == {-l : l \in c}

NeededFor(t, true) ==
    FoldRight(LAMBDA e, needed : IF e.lit \in needed THEN needed \cup Negations(e.reason \ {e.lit})
                                 ELSE needed, t, true)

(***************************************************************************)
(* Where every literal has one predecessor (binary reasons, disregarding   *)
(* literals false at the root), the trail is a forest, and the dominator   *)
(* of some literals is their last common ancestor.                         *)
(***************************************************************************)
Predecessors(s, e) == Negations(NonFalse(s, e.reason) \ {e.lit})

Ancestors(s, t) ==
    FoldLeft(LAMBDA f, e : [l \in DOMAIN f \cup {e.lit} |->
                               IF l # e.lit THEN f[l]
                               ELSE {l} \cup UNION {f[k] : k \in Predecessors(s, e)}],
             [l \in {} |-> {}], t)

Dominator(s, t, lits) ==
    LET f      == Ancestors(s, t)
        common == {d \in TrailLits(t) : \A l \in lits : d \in f[l]}
    IN  CHOOSE d \in common : common \subseteq f[d]

(***************************************************************************)
(* Propagation at level one with hyper binary resolution: binary clauses   *)
(* come first, and a literal forced by a larger clause gets the binary     *)
(* clause with the dominator of the other literals, learned for it.        *)
(***************************************************************************)
HyperReason(s, t, c) ==
    LET false == Negations(NonFalse(s, c) \ Open(s, t, c))
    IN  IF Cardinality(false) < 2 THEN c ELSE {-Dominator(s, t, false)} \cup Open(s, t, c)

RECURSIVE kissat_hyper_propagate(_, _, _, _)
kissat_hyper_propagate(s, C, t, resolvents) ==
    LET conflicts == {c \in C : Falsified(s, t, c)}
        forcing   == Forcing(s, t, C)
        binary    == {c \in forcing : Cardinality(NonFalse(s, c)) = 2}
        c         == IF binary # {} THEN CHOOSE c \in binary : TRUE ELSE CHOOSE c \in forcing : TRUE
        reason    == HyperReason(s, t, c)
    IN  IF conflicts # {}
        THEN [trail |-> t, conflict |-> CHOOSE k \in conflicts : TRUE, resolvents |-> resolvents]
        ELSE IF forcing = {} THEN [trail |-> t, conflict |-> {}, resolvents |-> resolvents]
        ELSE kissat_hyper_propagate(s, C, Append(t, Forced(s, t, c, reason)),
                                    IF reason = c THEN resolvents ELSE resolvents \cup {reason})

=============================================================================
