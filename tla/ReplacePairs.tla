---------------------------- MODULE ReplacePairs ----------------------------
(***************************************************************************)
(* The tables of variable pairs of pairs.c, used by bdd_replace and        *)
(* bdd_veccompose.  A table holds one result for each level, moved along   *)
(* when a reordering exchanges two levels, and an id that goes into the    *)
(* operation cache in place of the table, so that every change of a table  *)
(* needs a fresh id.  The ids run up to MaxPairId, INT_MAX >> 2 in the     *)
(* code, and are then dealt out again.                                     *)
(***************************************************************************)
EXTENDS BddOps

CONSTANTS Handles,      \* the tables a program may have
          Tables,       \* bound: those it has, by the number of variables
          Images,       \* the BDDs it puts in the place of variables
          Arguments,    \* the BDDs it substitutes in
          MaxPairId     \* bound: INT_MAX >> 2

ASSUME MaxPairIdRange == MaxPairId \in Nat /\ MaxPairId > Cardinality(Handles)
ASSUME SameNumbers == DOMAIN Tables = DOMAIN Images /\ DOMAIN Images = DOMAIN Arguments

VARIABLES
  pairs,        \* the registered tables, newest first
  pair,         \* [id, last, result] of each of them
  pairsid,      \* the last id given out
  view,         \* what the program asked for: an image for each variable
  substitution          \* the last substitution: [h, f, vec, res]

pairsVars == <<level2var, opcache, pairs, pair, pairsid, view, substitution>>

Live == {pairs[i] : i \in DOMAIN pairs}

Identity == [l \in Levels |-> BDD_ithvar(VarAt(l))]
NoPair   == [id |-> 0, last |-> -1, result |-> <<>>]
NoSubstitution   == [h |-> 0, f |-> BDDZERO, vec |-> FALSE, res |-> BDDZERO]

PairsInit ==
  /\ \E n \in DOMAIN Tables : level2var = [i \in 1 .. n |-> i - 1]
  /\ opcache = {}
  /\ pairs = <<>> /\ pairsid = 0 /\ substitution = NoSubstitution
  /\ pair = [h \in Handles |-> NoPair]
  /\ view = [h \in Handles |-> <<>>]

\* Mutant: the ids start again without a reset of the cache.
KeepsIds(h, t) ==
  /\ pairsid' = (pairsid + 1) % MaxPairId
  /\ pair' = [pair EXCEPT ![h] = [t EXCEPT !.id = pairsid']]
  /\ UNCHANGED opcache

\* Mutant: the ids never run out.
NeverRenumbers(h, t) ==
  /\ pairsid' = pairsid + 1
  /\ pair' = [pair EXCEPT ![h] = [t EXCEPT !.id = pairsid']]
  /\ UNCHANGED opcache

\* update_pairsid, and the table t stored under h with the id it returns.
\* When the ids run out every registered table gets a new one and the cache
\* is dropped.
update_pairsid(h, t) ==
  IF pairsid + 1 = MaxPairId
  THEN LET place(g) == CHOOSE i \in DOMAIN pairs : pairs[i] = g
       IN  /\ pairsid' = Len(pairs)
           /\ pair' = [g \in Handles |->
                         IF g = h THEN [t EXCEPT !.id = Len(pairs)]
                         ELSE IF g \in Live THEN [pair[g] EXCEPT !.id = place(g) - 1]
                         ELSE pair[g]]
           /\ opcache' = {}
  ELSE /\ pairsid' = pairsid + 1
       /\ pair' = [pair EXCEPT ![h] = [t EXCEPT !.id = pairsid + 1]]
       /\ UNCHANGED opcache

bdd_newpair(h) ==
  /\ h \notin Live
  /\ update_pairsid(h, [id |-> 0, last |-> -1, result |-> Identity])
  /\ pairs' = <<h>> \o pairs
  /\ view' = [view EXCEPT ![h] = [v \in Variables |-> BDD_ithvar(v)]]
  /\ substitution' = NoSubstitution
  /\ UNCHANGED level2var

\* bdd_setpair and bdd_setbddpair: the last level is never lowered.
bdd_setbddpair(h, old, image) ==
  /\ h \in Live
  /\ LET level == bddvar2level(old)
         t     == pair[h]
     IN  update_pairsid(h, [t EXCEPT !.result[level] = image,
                                     !.last = IF level > @ THEN level ELSE @])
  /\ view' = [view EXCEPT ![h][old] = image]
  /\ substitution' = NoSubstitution
  /\ UNCHANGED <<level2var, pairs>>

bdd_freepair(h) ==
  /\ h \in Live
  /\ pairs' = SelectSeq(pairs, LAMBDA g : g # h)
  /\ pair' = [pair EXCEPT ![h] = NoPair]
  /\ view' = [view EXCEPT ![h] = <<>>]
  /\ substitution' = NoSubstitution
  /\ UNCHANGED <<level2var, opcache, pairsid>>

\* The id stays, and the results are put by variable rather than by level: a
\* program is right to reset a table under the first order only, and when the
\* cache has no result of the table.
ResetHarmless(h) ==
  /\ level2var = [l \in DOMAIN level2var |-> l - 1]
  /\ \A f \in Arguments[bddvarnum] : ~Hit(ReplaceKey(pair[h].id, f)) /\ ~Hit(VecKey(pair[h].id, f))

bdd_resetpair(h) ==
  /\ h \in Live
  /\ ResetHarmless(h)
  /\ pair' = [pair EXCEPT ![h].result = [n \in Levels |-> BDD_ithvar(n)],
                          ![h].last = 0]
  /\ view' = [view EXCEPT ![h] = [v \in Variables |-> BDD_ithvar(v)]]
  /\ substitution' = NoSubstitution
  /\ UNCHANGED <<level2var, opcache, pairs, pairsid>>

\* Mutant: the last level does not follow its variable.
LastStays(t, level) ==
  [t EXCEPT !.result[level] = t.result[level + 1], !.result[level + 1] = t.result[level]]

\* The two results of a table exchanged with their levels.
VarDown(t, level) ==
  [t EXCEPT !.result[level] = t.result[level + 1],
            !.result[level + 1] = t.result[level],
            !.last = IF @ = level THEN level + 1 ELSE @]

\* reorder_vardown exchanges two levels in every registered table; the
\* reordering drops the operation cache.
bdd_pairs_vardown(level) ==
  /\ level + 1 \in Levels
  /\ level2var' = [level2var EXCEPT ![level + 1] = VarAt(level + 1),
                                    ![level + 2] = VarAt(level)]
  /\ pair' = [h \in Handles |-> IF h \in Live THEN VarDown(pair[h], level) ELSE pair[h]]
  /\ opcache' = {}
  /\ substitution' = NoSubstitution
  /\ UNCHANGED <<pairs, pairsid, view>>

IsRenaming(h) == \A v \in Variables : \E w \in Variables : view[h][v] = BDD_ithvar(w)

bdd_replace(h, f) ==
  /\ h \in Live
  /\ IsRenaming(h)
  /\ substitution' = [h |-> h, f |-> f, vec |-> FALSE, res |-> replace_rec(f, pair[h])]
  /\ opcache' \in Stores(ReplaceKey(pair[h].id, f), substitution'.res)
  /\ UNCHANGED <<level2var, pairs, pair, pairsid, view>>

bdd_veccompose(h, f) ==
  /\ h \in Live
  /\ substitution' = [h |-> h, f |-> f, vec |-> TRUE, res |-> veccompose_rec(f, pair[h])]
  /\ opcache' \in Stores(VecKey(pair[h].id, f), substitution'.res)
  /\ UNCHANGED <<level2var, pairs, pair, pairsid, view>>

PairsNext ==
  \/ \E h \in Tables[bddvarnum] :
                        \/ bdd_newpair(h) \/ bdd_freepair(h) \/ bdd_resetpair(h)
                        \/ \E v \in Declared, g \in Images[bddvarnum] : bdd_setbddpair(h, v, g)
                        \/ \E f \in Arguments[bddvarnum] : bdd_replace(h, f) \/ bdd_veccompose(h, f)
  \/ \E level \in Levels : bdd_pairs_vardown(level)

PairsSpec == PairsInit /\ [][PairsNext]_pairsVars

----------------------------------------------------------------------------

PairsTypeOK ==
  /\ level2var \in Orders(Declared)
  /\ pairsid \in 0 .. MaxPairId - 1
  /\ \A h \in Live : pair[h].result \in [Levels -> BDDs]

Substituted(f, h) ==
  {a \in Assignments : {v \in Variables : a \in view[h][v]} \in f}
\* bdd_replace and bdd_veccompose substitute all variables at once as the
\* program set them, whatever was cached, reordered or renumbered since, and
\* a replacement fails only when two variables of its argument get one name.
SubstitutionRight ==
  substitution.h \in Live =>
    IF substitution.res = Malformed
    THEN ~substitution.vec /\ \E v, w \in Support(substitution.f) : v # w /\ view[substitution.h][v] = view[substitution.h][w]
    ELSE substitution.res = Substituted(substitution.f, substitution.h)

\* Each table follows the order: at the level of a variable is its image, and
\* no variable below the last level has another image than itself.
TablesFollow ==
  \A h \in Live, v \in Declared :
    /\ pair[h].result[bddvar2level(v)] = view[h][v]
    /\ view[h][v] # BDD_ithvar(v) => bddvar2level(v) <= pair[h].last

\* Two registered tables never share an id.
IdsDistinct == \A g, h \in Live : g # h => pair[g].id # pair[h].id

\* Tables survive reordering, renumbering and release, and so does what they
\* substitute.
PairsRight == PairsTypeOK /\ SubstitutionRight /\ TablesFollow /\ IdsDistinct
=============================================================================
