------------------------- MODULE MCGraphReplacement -------------------------
(***************************************************************************)
(* Two replacements, and one call that adds to the graph or plans it.      *)
(***************************************************************************)
EXTENDS GraphReplacement, TLC

CONSTANTS a, b, x, first

Calls == [w \in Writer |-> IF w = x THEN {"add", "plan"} ELSE {"replace"}]

Alike == Permutations({a, b})
=============================================================================
