-------------------------- MODULE KissatEliminate --------------------------
(***************************************************************************)
(* Bounded variable elimination, with the subsumption that goes with it,   *)
(* and the substitution of equivalent literals.                            *)
(* A variable is replaced by the resolvents of its clauses (of its gate    *)
(* clauses with the others if it has a gate) when they are few and short   *)
(* enough; its clauses go to the extension stack.  Root units found in the *)
(* middle take effect at once on the values, and on the clauses when the   *)
(* units are flushed at the end.                                           *)
(***************************************************************************)
EXTENDS KissatState

CONSTANTS OccurrenceLimit,      \* bounds.eliminate.occurrences
          ClauseSizeLimit,      \* bounds.eliminate.clause_size
          AdditionalClauses,    \* bounds.eliminate.additional_clauses
          GatesUsed,            \* the option "extract"
          XorClauseLimit        \* the size limit of the base clause of an XOR (at most xorsclslim)

(***************************************************************************)
(* Gate extraction: before the variable of lit is eliminated kissat looks  *)
(* for clauses that define it.  A gate is a record of the gate clauses     *)
(* with lit and with its negation, of whether they have to be resolved     *)
(* with each other too, and of a unit that was found on the way (0: none). *)
(* The search stops at a limit of steps, and which of several gates of a   *)
(* kind is found depends on the order of the watches: an operator gives    *)
(* the set of those that can be.  The clauses have neither false nor       *)
(* satisfied literals when the search starts.                              *)
(***************************************************************************)
Gate(zero, one, resolve) == [zero |-> zero, one |-> one, resolve |-> resolve, unit |-> 0]
Swapped(gates) == {[g EXCEPT !.zero = g.one, !.one = g.zero] : g \in gates}
Large(C) == {c \in C : Cardinality(c) > 2}

kissat_find_equivalence_gate(s, lit) ==
    {Gate({{lit, -r}}, {{-lit, r}}, FALSE) :
        r \in {o \in Lits : {lit, -o} \in s.irr /\ {-lit, o} \in s.irr /\ Var(o) # Var(lit)}}

kissat_find_and_gate(s, lit) ==
    LET sides(base) == {{lit, -o} : o \in base \ {-lit}}
    IN  {Gate(sides(base), {base}, FALSE) :
            base \in {c \in Large(Occurrences(s, -lit)) : sides(c) \subseteq s.irr}}

\* A shorter clause stands for a gate clause too, but then the gate clauses do not suffice alone.
MatchingClauses(s, lit, c) == {d \in Occurrences(s, lit) : d \subseteq c}

kissat_find_if_then_else_gate(s, lit) ==
    LET ternary == {c \in Occurrences(s, lit) : Cardinality(c) = 3}
    IN  UNION {LET c1 == CHOOSE l \in w1 \ {lit, b} : TRUE
                   c2 == CHOOSE l \in w2 \ {lit, -b} : TRUE
                   w3 == {-lit, b, -c1}
                   w4 == {-lit, -b, -c2}
               IN  IF Var(c1) = Var(c2) THEN {}
                   ELSE {Gate({w1, w2}, {m3, m4}, m3 # w3 \/ m4 # w4) :
                            m3 \in MatchingClauses(s, -lit, w3),
                            m4 \in MatchingClauses(s, -lit, w4)} :
               <<w1, w2, b>> \in {t \in ternary \X ternary \X Lits :
                                    /\ t[3] \in t[1] \ {lit}
                                    /\ -t[3] \in t[2] \ {lit}}}

\* The clauses of the XOR of a base clause: those with an even number of literals negated.
XorClauses(c) == {(c \ F) \cup {-l : l \in F} : F \in {G \in SUBSET c : Cardinality(G) % 2 = 0}}

kissat_find_xor_gate(s, lit) ==
    LET match(d) == CHOOSE m \in s.irr : m \subseteq d /\ {lit, -lit} \cap m # {}
        found(c) == \A d \in XorClauses(c) \ {c} :
                        \E m \in s.irr : m \subseteq d /\ {lit, -lit} \cap m # {}
        used(c)  == {c} \cup {match(d) : d \in XorClauses(c) \ {c}}
    IN  IF Cardinality(Large(Occurrences(s, lit))) < 2
            \/ Cardinality(Large(Occurrences(s, -lit))) < 2 THEN {}
        ELSE {Gate({m \in used(c) : lit \in m}, {m \in used(c) : -lit \in m},
                   used(c) # XorClauses(c)) :
                c \in {b \in Occurrences(s, lit) :
                        Cardinality(b) \in 3 .. XorClauseLimit /\ found(b)}}

(***************************************************************************)
(* The sub-solver kitten gets the clauses of the variable without it: a    *)
(* core of a contradiction defines the variable.  A core on one side is a  *)
(* unit.  Any core that cannot be shrunk stands for what kitten returns.   *)
(***************************************************************************)
Contradicts(lit, C) == Models({c \ {lit, -lit} : c \in C}) = {}

kissat_find_definition(s, lit) ==
    LET all   == Occurrences(s, lit) \cup Occurrences(s, -lit)
        cores == {C \in SUBSET all : /\ Contradicts(lit, C)
                                     /\ \A c \in C : ~Contradicts(lit, C \ {c})}
    IN  IF ~Contradicts(lit, all) THEN {}
        ELSE {LET zero == {c \in C : lit \in c} one == {c \in C : -lit \in c}
              IN  [Gate(zero, one, TRUE) EXCEPT
                        !.unit = IF zero = {} THEN -lit ELSE IF one = {} THEN lit ELSE 0] :
                C \in cores}

\* The first kind of gate that is found is taken.
OrElse(first, second) == IF first # {} THEN first ELSE second

kissat_find_gates(s, lit) ==
    IF Occurrences(s, -lit) = {} THEN {}
    ELSE OrElse(kissat_find_equivalence_gate(s, lit),
         OrElse(kissat_find_and_gate(s, lit),
         OrElse(Swapped(kissat_find_and_gate(s, -lit)),
         OrElse(kissat_find_if_then_else_gate(s, lit),
         OrElse(Swapped(kissat_find_if_then_else_gate(s, -lit)),
         OrElse(kissat_find_xor_gate(s, lit),
         OrElse(Swapped(kissat_find_xor_gate(s, -lit)),
                kissat_find_definition(s, lit))))))))

-----------------------------------------------------------------------------
(***************************************************************************)
(* Resolving every clause of C on lit with every clause of D.              *)
(***************************************************************************)
Resolve(r, lit, c, d, limit) ==
    LET rest == (c \ {lit}) \cup (d \ {-lit})
        res  == NonFalse(r.s, rest)
    IN  IF r.failed \/ Satisfied(r.s, rest) \/ Tautology(rest) THEN r
        ELSE IF r.resolved + 1 > limit THEN [r EXCEPT !.failed = TRUE]
        ELSE IF res = {} THEN [r EXCEPT !.s.inconsistent = TRUE, !.failed = TRUE]
        ELSE IF Cardinality(res) = 1
             THEN [r EXCEPT !.resolved = @ + 1, !.s = kissat_learned_unit(@, CHOOSE l \in res : TRUE)]
        ELSE IF Cardinality(res) > ClauseSizeLimit THEN [r EXCEPT !.failed = TRUE]
        ELSE [r EXCEPT !.resolved = @ + 1, !.resolvents = Append(@, res)]

generate_resolvents(r0, lit, C, D, limit) ==
    FoldSet(LAMBDA c, r : FoldSet(LAMBDA d, q : Resolve(q, lit, c, d, limit), r, D), r0, C)

\* A literal in a clause that is too long counts as having too many occurrences.
occurrences_literal(s, l) ==
    IF \E c \in Occurrences(s, l) : Cardinality(c) > ClauseSizeLimit THEN OccurrenceLimit + 1
    ELSE Cardinality(Occurrences(s, l))

\* The literal whose clauses will be weakened is the one with fewer of them.
PickLiteral(s, x) == IF occurrences_literal(s, x) > occurrences_literal(s, -x) THEN -x ELSE x

\* Mutant: gate clauses are never resolved with each other.
GatesNeverResolved(s, lit, limit, gates) ==
    LET start == [s |-> s, resolvents |-> <<>>, resolved |-> 0, failed |-> FALSE]
        With(g) == generate_resolvents(
                        generate_resolvents(start, lit, g.zero, Occurrences(s, -lit) \ g.one, limit),
                        -lit, g.one, Occurrences(s, lit) \ g.zero, limit)
    IN  IF gates = {}
        THEN {generate_resolvents(start, lit, Occurrences(s, lit), Occurrences(s, -lit), limit)}
        ELSE {With(g) : g \in gates}

\* What resolving with one of the gates, or without a gate, gives.
ResolveWith(s, lit, limit, gates) ==
    LET start == [s |-> s, resolvents |-> <<>>, resolved |-> 0, failed |-> FALSE]
        pos == Occurrences(s, lit)
        neg == Occurrences(s, -lit)
        With(g) ==
            LET one == generate_resolvents(start, lit, g.zero, neg \ g.one, limit)
                two == generate_resolvents(one, -lit, g.one, pos \ g.zero, limit)
            IN  IF g.unit # 0
                THEN [start EXCEPT !.s = kissat_learned_unit(@, g.unit), !.failed = TRUE]
                ELSE IF g.resolve THEN generate_resolvents(two, lit, g.zero, g.one, limit)
                ELSE two
    IN  IF gates = {} THEN {generate_resolvents(start, lit, pos, neg, limit)}
        ELSE {With(g) : g \in gates}

kissat_generate_resolvents(s, lit) ==
    LET pos == occurrences_literal(s, lit)
        neg == occurrences_literal(s, -lit)
        none == [s |-> s, resolvents |-> <<>>, resolved |-> 0, failed |-> FALSE]
    IN  IF pos = 0 THEN {none}
        ELSE IF neg > OccurrenceLimit THEN {[none EXCEPT !.failed = TRUE]}
        ELSE ResolveWith(s, lit, pos + neg + AdditionalClauses,
                         IF GatesUsed THEN kissat_find_gates(s, lit) ELSE {})

(***************************************************************************)
(* A clause is subsumed by d, or d removes the literal l from it.          *)
(***************************************************************************)
Subsumes(s, d, c) == ~Satisfied(s, d) /\ NonFalse(s, d) \subseteq c
Strengthens(s, d, c, l) ==
    /\ ~Satisfied(s, d) /\ l \in c /\ -l \in d
    /\ NonFalse(s, d) \ {-l} # {} /\ NonFalse(s, d) \ {-l} \subseteq c \ {l}

\* An irredundant clause subsumes or shortens the resolvent.
kissat_forward_subsume_temporary(s, c) ==
    LET removable == {l \in c : \E d \in s.irr : Strengthens(s, d, c, l)}
    IN  IF Cardinality(c) < 2 THEN [subsumed |-> FALSE, clause |-> c]
        ELSE IF \E d \in s.irr : Subsumes(s, d, c) THEN [subsumed |-> TRUE, clause |-> c]
        ELSE [subsumed |-> FALSE,
              clause |-> IF removable = {} THEN c ELSE c \ {CHOOSE l \in removable : TRUE}]

(***************************************************************************)
(* A new resolvent removes and shortens the clauses of its literal with    *)
(* the fewest occurrences.  Shortening a binary clause gives a unit.       *)
(***************************************************************************)
Shortened(s, d, c) ==
    IF \E l \in c : Strengthens(s, d, c, l)
    THEN LET l == CHOOSE k \in c : Strengthens(s, d, c, k) IN NonFalse(s, c) \ {l} ELSE c

kissat_backward_subsume_temporary(s, d) ==
    LET Count(l) == Cardinality(Occurrences(s, l))
        min   == CHOOSE l \in d : \A k \in d : Count(l) <= Count(k)
        touch == {c \in Occurrences(s, min) \ {d} : ~Satisfied(s, c)}
        short == {Shortened(s, d, c) : c \in {b \in touch : ~Subsumes(s, d, b)}}
        units == {c \in short : Cardinality(c) = 1}
    IN  IF units # {} THEN kissat_learned_unit(s, min)
        ELSE [s EXCEPT !.irr = (@ \ touch) \cup short]

(***************************************************************************)
(* The resolvents are added one by one.                                    *)
(***************************************************************************)
ConnectResolvent(s, res) ==
    LET f == kissat_forward_subsume_temporary(s, NonFalse(s, res))
        c == f.clause
    IN  IF s.inconsistent \/ Satisfied(s, res) \/ f.subsumed THEN s
        ELSE IF c = {} THEN [s EXCEPT !.inconsistent = TRUE]
        ELSE IF Cardinality(c) = 1 THEN kissat_learned_unit(s, CHOOSE l \in c : TRUE)
        ELSE kissat_backward_subsume_temporary([s EXCEPT !.irr = @ \cup {c}], c)

connect_resolvents(s, resolvents) == FoldLeft(ConnectResolvent, s, resolvents)

(***************************************************************************)
(* The clauses of lit go to the extension stack.  For those of the other   *)
(* literal a unit is enough: the variable gets that value unless a clause  *)
(* of lit, further down the stack, needs the other one.                    *)
(***************************************************************************)
weaken_clauses(s, lit) ==
    LET pushed == FoldSet(LAMBDA c, q : IF Satisfied(q, c) THEN q
                                        ELSE kissat_weaken_clause(q, lit, c),
                          s, Occurrences(s, lit))
        negated == IF Occurrences(s, -lit) = {} THEN pushed ELSE kissat_weaken_unit(pushed, -lit)
    IN  kissat_flush_units_while_connected(
            [negated EXCEPT !.irr = @ \ (Occurrences(s, lit) \cup Occurrences(s, -lit))])

(***************************************************************************)
(* One attempt to eliminate a variable: the states it can end in.          *)
(***************************************************************************)
eliminate_variable(s, x) ==
    LET lit == PickLiteral(s, x)
        Finish(r) ==
            LET t == connect_resolvents(r.s, r.resolvents)
            IN  IF r.s.inconsistent THEN r.s
                ELSE IF r.failed THEN kissat_flush_units_while_connected(r.s)
                ELSE kissat_mark_eliminated_variable(
                        IF t.inconsistent THEN t ELSE weaken_clauses(t, lit), x)
    IN  {Finish(r) : r \in kissat_generate_resolvents(s, lit)}


-----------------------------------------------------------------------------
(***************************************************************************)
(* Substitution of equivalent literals: the strongly connected components  *)
(* of the implications in the binary clauses, redundant ones included.     *)
(* Every literal is replaced by the smallest of its component and its      *)
(* variable eliminated.  The pass works in rounds, and autarkies below are *)
(* found from an assignment of phases.                                     *)
(***************************************************************************)
Binaries(s) == {c \in s.irr \cup s.red : Cardinality(c) = 2}
Order(l) == 2 * Var(l) + (IF l < 0 THEN 1 ELSE 0)      \* the number of the literal in the code
Smallest(L) == CHOOSE l \in L : \A k \in L : Order(l) <= Order(k)

ActiveLits(s) == {l \in Lits : Var(l) \in Active(s)}

(***************************************************************************)
(* The literals that follow from l by the binary clauses.                  *)
(***************************************************************************)
RECURSIVE Reaches(_, _)
Reaches(s, L) ==
    LET next == L \cup {m \in ActiveLits(s) : \E l \in L : {-l, m} \in Binaries(s)}
    IN  IF next = L THEN L ELSE Reaches(s, next)

Implied(s) == [l \in ActiveLits(s) |-> Reaches(s, {l})]

\* Reaching both a literal and its negation makes the negated root a unit.
FailedRoots(implied) == {l \in DOMAIN implied : \E m \in implied[l] : -m \in implied[l]}
Clashing(implied) == {l \in DOMAIN implied : -l \in implied[l] /\ l \in implied[-l]}

Representatives(implied) ==
    [l \in Lits |-> IF l \in DOMAIN implied
                    THEN Smallest({m \in implied[l] : l \in implied[m]}) ELSE l]

\* The units are assigned and propagated one after the other.
assign_and_propagate_units(s, units, C) ==
    FoldSet(LAMBDA u, q : IF q.inconsistent \/ u \in q.units THEN q
                          ELSE IF -u \in q.units THEN [q EXCEPT !.inconsistent = TRUE]
                          ELSE Propagated(kissat_learned_unit(q, u), C),
            s, units)

(***************************************************************************)
(* Binary clauses: the image of a clause keeps its redundancy, a           *)
(* tautology goes, a repeated literal is a unit.                           *)
(***************************************************************************)
Image(repr, c) == {repr[l] : l \in c}

substitute_binaries(s, repr) ==
    LET two == Binaries(s)
        New(C) == {Image(repr, c) : c \in {d \in C \cap two : ~Tautology(Image(repr, d))}}
        units == {d \in New(two) : Cardinality(d) = 1}
        t == [s EXCEPT !.irr = (@ \ two) \cup (New(@) \ units),
                       !.red = (@ \ two) \cup (New(@) \ units)]
    IN  IF s.inconsistent THEN s
        ELSE assign_and_propagate_units(t, UNION units, Binaries(t))

(***************************************************************************)
(* Large clauses: a literal whose own value or whose representative's is   *)
(* false is dropped.                                                       *)
(***************************************************************************)
substitute_clauses(s, repr) ==
    LET large == (s.irr \cup s.red) \ Binaries(s)
        Kept(c) == {repr[l] : l \in {k \in NonFalse(s, c) : -repr[k] \notin s.units}}
        gone == {c \in large : Satisfied(s, c) \/ Satisfied(s, Image(repr, c)) \/ Tautology(Kept(c))}
        New(C) == {Kept(c) : c \in (C \cap large) \ gone}
        short == {d \in New(large) : Cardinality(d) < 2}
        t == [s EXCEPT !.irr = (@ \ large) \cup (New(@) \ short),
                       !.red = (@ \ large) \cup (New(@) \ short)]
    IN  IF s.inconsistent THEN s
        ELSE IF {} \in short THEN [s EXCEPT !.inconsistent = TRUE]
        ELSE assign_and_propagate_units(t, UNION short, Binaries(t))

(***************************************************************************)
(* The variables that have another representative are eliminated.  Both    *)
(* directions of the equivalence go to the stack, or one of them if the    *)
(* representative has got a value meanwhile; without a value the second    *)
(* is replaced by a unit.                                                  *)
(***************************************************************************)
RemoveEquivalence(s, repr, x) ==
    LET other == repr[x]
        t == kissat_mark_eliminated_variable(s, x)
    IN  IF other \in s.units THEN kissat_weaken_clause(t, x, {x, -other})
        ELSE IF -other \in s.units THEN kissat_weaken_clause(t, -x, {-x, other})
        ELSE kissat_weaken_unit(kissat_weaken_clause(t, -x, {-x, other}), x)

remove_representative_equivalences(s, repr, eliminate) ==
    IF s.inconsistent THEN s
    ELSE FoldLeft(LAMBDA q, x : RemoveEquivalence(q, repr, x), s,
                  SetToSortSeq(eliminate, LAMBDA a, b : a < b))

(***************************************************************************)
(* A round.  In the first one (watched) the large clauses propagate too.   *)
(* Which failed roots are met depends on the order of the search.          *)
(***************************************************************************)
SubstituteWith(s, failed, implied, watched) ==
    LET repr  == Representatives(implied)
        units == {-l : l \in failed} \cup (IF Clashing(implied) = {} THEN {}
                              ELSE {Smallest(Clashing(implied))})
        one   == assign_and_propagate_units(s, units, IF watched THEN s.irr \cup s.red ELSE Binaries(s))
        eliminate == {x \in Active(one) : repr[x] # x}
        two   == substitute_binaries(one, repr)
        three == substitute_clauses(two, repr)
    IN  IF one.inconsistent THEN one
        ELSE remove_representative_equivalences(three, repr, eliminate)

substitute_round(s, watched) ==
    LET implied == Implied(s)
    IN  {SubstituteWith(s, F, implied, watched) : F \in SUBSET FailedRoots(implied)}

\* After the last round all clauses are watched and propagated.
FinishSubstitute(s) ==
    LET p == Propagated(s, s.irr \cup s.red)
    IN  IF p.inconsistent THEN p
        ELSE [p EXCEPT !.irr = Reduced(p, @), !.red = Reduced(p, @)]

(***************************************************************************)
(* Autarkies: from the saved phases the variables of clauses that are      *)
(* touched but not satisfied are unassigned, until there is none.          *)
(***************************************************************************)
RECURSIVE determine_autarky(_, _)
determine_autarky(s, phases) ==
    LET open == {c \in s.irr : c \cap phases = {} /\ \E l \in c : -l \in phases}
        next == phases \ {-l : l \in UNION open}
    IN  IF open = {} THEN phases ELSE determine_autarky(s, next)

AutarkyLiteral(s, l) == kissat_weaken_unit(kissat_mark_eliminated_variable(s, Var(l)), l)

apply_autarky(s, autarky) ==
    [FoldSet(LAMBDA l, q : AutarkyLiteral(q, l), s, autarky)
        EXCEPT !.irr = {c \in @ : VarsOf({c}) \cap VarsOf({autarky}) = {}}]

=============================================================================
