---------------------------- MODULE MCNodeGateway ----------------------------
(* Two connections of one paired node, and others that register for        *)
(* themselves.                                                             *)
EXTENDS NodeGateway, TLC

CONSTANTS c1, c2, paired

OnePaired == [c \in Connection |-> IF c \in {c1, c2} THEN paired ELSE None]

(* The connections of the paired node are alike, the others are, and so    *)
(* are the ids that are given out.                                         *)
Alike == Permutations({c1, c2})
    \cup Permutations(Connection \ {c1, c2})
    \cup Permutations(Node \ {paired})
=============================================================================
