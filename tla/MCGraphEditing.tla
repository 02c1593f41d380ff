--------------------------- MODULE MCGraphEditing ---------------------------
(***************************************************************************)
(* Small graphs and sets of edits for GraphEditing.                        *)
(***************************************************************************)
EXTENDS GraphEditing, TLC

Tags == {"approved", "rejected"}

Pairs == {p \in Step \X Step : p[1] # p[2]}

AllLinks == {Plain(p[1], p[2]) : p \in Pairs} \cup
    {[from |-> p[1], to |-> p[2], conditional |-> TRUE, accepts |-> {"approved"}] :
        p \in Pairs}

(* Steps are told apart only by Init, which says which exist; editors are  *)
(* not.                                                                    *)
Alike == Permutations(Step) \cup Permutations(Editor)
=============================================================================
