---------------------------- MODULE SubtaskGraph ----------------------------
(***************************************************************************)
(* The pure part of the workflow engine (subtask-graph.ts): what happens   *)
(* to a pending step, given the steps it depends on, and reachability in   *)
(* the graph of a task's steps.  Nothing here is RECURSIVE: the loops of   *)
(* the source are stated as least closed sets, so that the modules above   *)
(* can be reasoned about by the proof system; SubtaskGraphLoops spells     *)
(* the loops out, and TLC compares the two.                                *)
(***************************************************************************)
EXTENDS Naturals, FiniteSets

CONSTANTS
    Step,      \* the steps (subtask rows) of one task
    Gate,      \* the steps of kind approval_gate; the others are agent steps
    Outcome    \* what a result says, as far as conditions can tell

NoOutcome == "none"     \* a result no condition matches, or no result

(* An edge: `to' depends on `from'; a conditional edge carries the set of  *)
(* outcomes its condition (equals, contains, matches_regex) accepts.       *)
EdgeType == [from : Step, to : Step, conditional : BOOLEAN,
             accepts : SUBSET Outcome]

Plain(from, to) == [from |-> from, to |-> to, conditional |-> FALSE, accepts |-> {}]

ASSUME GraphAssumption ==
    /\ IsFiniteSet(Step)
    /\ Gate \subseteq Step
    /\ {"approved", "rejected"} \subseteq Outcome
    /\ NoOutcome \notin Outcome

Status == {"pending", "in_progress", "completed", "failed", "skipped"}
Decision == {"none", "approved", "rejected"}

(* The columns of a subtask row the engine's control depends on.           *)
Row == [status     : Status,
        result     : Outcome \cup {NoOutcome},
        awaiting   : BOOLEAN,           \* awaitingApprovalSince is not null
        decision   : Decision,          \* approvalDecision
        retryCount : Nat,
        loopCount  : Nat]               \* loopIterationCount

(* Mutant of FreshRow: the status that assigning an agent once set.        *)
FreshRowAssigned ==
    [status |-> "assigned", result |-> NoOutcome, awaiting |-> FALSE,
     decision |-> "none", retryCount |-> 0, loopCount |-> 0]

FreshRow == [status |-> "pending", result |-> NoOutcome, awaiting |-> FALSE,
             decision |-> "none", retryCount |-> 0, loopCount |-> 0]

IsTerminal(row) == row.status \in {"completed", "failed", "skipped"}

Incoming(edges, s) == {e \in edges : e.to = s}

-----------------------------------------------------------------------------
(* resolveSubtask: wait, skip or run.  rows is a function [Step -> Row],   *)
(* edges a set of EdgeType.                                                *)

(* Mutant of Waits: a step that has not started yet is not waited for.     *)
WaitsForRunning(rows, edges, s) ==
    \E e \in Incoming(edges, s) : rows[e.from].status = "in_progress"

Waits(rows, edges, s) == \E e \in Incoming(edges, s) : ~IsTerminal(rows[e.from])

(* The upstream step ran, and its edge does not let the run through.       *)
Refuses(rows, e) ==
    LET dep == rows[e.from] IN
    \/ dep.status = "failed"
    \/ /\ dep.status = "completed"
       /\ IF e.conditional
          THEN dep.result \notin e.accepts
          ELSE e.from \in Gate /\ dep.decision = "rejected"

(* Mutant of MustSkip: only skipped upstream steps are looked at.          *)
MustSkipAfterSkips(rows, edges, s) ==
    /\ Incoming(edges, s) # {}
    /\ \A e \in Incoming(edges, s) : rows[e.from].status = "skipped"

MustSkip(rows, edges, s) ==
    /\ Incoming(edges, s) # {}
    /\ ~Waits(rows, edges, s)
    /\ \/ \E e \in Incoming(edges, s) : Refuses(rows, e)
       \/ \A e \in Incoming(edges, s) : rows[e.from].status = "skipped"

MayRun(rows, edges, s) == ~Waits(rows, edges, s) /\ ~MustSkip(rows, edges, s)

-----------------------------------------------------------------------------
(* The skip cascade at the head of advanceLocked: skip every pending step  *)
(* that resolves to skip, and again until nothing changes.                 *)

Pending(rows) == {s \in Step : rows[s].status = "pending"}

(* skipSubtask on every step of K.                                         *)
Skipping(rows, K) ==
    [s \in Step |-> IF s \in K
                    THEN [rows[s] EXCEPT !.status = "skipped",
                                         !.result = NoOutcome]
                    ELSE rows[s]]

SkipClosed(rows, edges, K) ==
    \A s \in Pending(rows) : MustSkip(Skipping(rows, K), edges, s) => s \in K

Skippable(rows, edges) ==
    {s \in Pending(rows) :
        \A K \in SUBSET Pending(rows) : SkipClosed(rows, edges, K) => s \in K}

SkipCascade(rows, edges) == Skipping(rows, Skippable(rows, edges))

Ready(rows, edges) == {s \in Pending(rows) : MayRun(rows, edges, s)}

-----------------------------------------------------------------------------
(* getDownstreamSubtaskIds, wouldCreateCycle.                              *)

ForwardClosed(edges, K) == \A e \in edges : e.from \in K => e.to \in K

(* The step and everything reachable from it along the edges.              *)
Reach(edges, s) ==
    {t \in Step : \A K \in SUBSET Step :
                     s \in K /\ ForwardClosed(edges, K) => t \in K}

Downstream(edges, s) == Reach(edges, s) \ {s}

(* Adding "to depends on from" closes a cycle iff `to' already reaches     *)
(* `from' forward.                                                         *)
WouldCreateCycle(edges, e) == e.from \in Reach(edges, e.to)

Acyclic(edges) == \A e \in edges : e.from \notin Reach(edges, e.to)
=============================================================================
