---------------------------- MODULE UniqueTable ----------------------------
(***************************************************************************)
(* What the BDD operations ask of the node table: a node keeps its id and    *)
(* its children as long as somebody can reach it, and no two nodes are equal.*)
(***************************************************************************)
EXTENDS Integers, FiniteSets

VARIABLES
    nodes,   \* the nodes in use: id -> <<level, low, high>>
    roots    \* the ids that somebody holds

Init == nodes = <<>> /\ roots = {}

\* The nodes that can be reached from the roots.
WithNext(S) == S \cup UNION {{nodes[n][2], nodes[n][3]} \cap DOMAIN nodes : n \in S}
Reached ==
    LET r[k \in 0..Cardinality(DOMAIN nodes)] ==
            IF k = 0 THEN roots \cap DOMAIN nodes ELSE WithNext(r[k - 1])
    IN  r[Cardinality(DOMAIN nodes)]

Injective(f) == \A i, j \in DOMAIN f : f[i] = f[j] => i = j

\* What is reached keeps its id and children; other ids are free for new nodes.
Next ==
    /\ \A i \in Reached : i \in DOMAIN nodes' /\ nodes'[i] = nodes[i]
    /\ Injective(nodes')
    /\ roots' \subseteq DOMAIN nodes'

Spec == Init /\ [][Next]_<<nodes, roots>>
=============================================================================
