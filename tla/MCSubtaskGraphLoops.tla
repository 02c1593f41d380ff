------------------------ MODULE MCSubtaskGraphLoops ------------------------
(***************************************************************************)
(* Instances for TLC, of three steps, one of them a gate.  The cascade     *)
(* runs on every graph with plain and conditional edges and every mix of   *)
(* statuses; resolveSubtask on the edges into any one step; the searches,  *)
(* which see neither conditions nor rows, on every graph of plain edges.   *)
(***************************************************************************)
EXTENDS SubtaskGraphLoops

Tags == {"approved", "rejected"}

Pairs == {p \in Step \X Step : p[1] # p[2]}

When(p) == [from |-> p[1], to |-> p[2], conditional |-> TRUE, accepts |-> {"approved"}]

(* Between two steps: no edge, a plain one or a conditional one.           *)
GraphsOf(pairs) ==
    {{Plain(p[1], p[2]) : p \in {q \in pairs : draw[q] = "plain"}}
        \cup {When(p) : p \in {q \in pairs : draw[q] = "conditional"}} :
     draw \in [pairs -> {"none", "plain", "conditional"}]}

Ended(status, result, decision) ==
    [FreshRow EXCEPT !.status = status, !.result = result, !.decision = decision]

(* An agent step whose result the condition matches, or not; a gate whose  *)
(* decision is its result; a failed and a skipped step; one in progress.   *)
RowsOf(s) ==
    {FreshRow, Ended("failed", NoOutcome, "none"), Ended("skipped", NoOutcome, "none"),
     Ended("in_progress", NoOutcome, "none")}
    \cup IF s \in Gate THEN {Ended("completed", d, d) : d \in Tags}
         ELSE {Ended("completed", r, "none") : r \in {"approved", NoOutcome}}

Tables == {rows \in [Step -> UNION {RowsOf(s) : s \in Step}] :
              \A s \in Step : rows[s] \in RowsOf(s)}

Case(calls, graphs, tables) == [call : calls, edges : graphs, rows : tables]

AllCases ==
    Case({"advanceLocked"}, GraphsOf(Pairs), Tables)
    \cup Case({"resolveSubtask"},
              UNION {GraphsOf({p \in Pairs : p[2] = s}) : s \in Step}, Tables)
    \cup Case(Call \ {"advanceLocked", "resolveSubtask"},
              {{Plain(p[1], p[2]) : p \in pairs} : pairs \in SUBSET Pairs},
              {[s \in Step |-> FreshRow]})
=============================================================================
