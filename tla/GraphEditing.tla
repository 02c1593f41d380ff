---------------------------- MODULE GraphEditing ----------------------------
(***************************************************************************)
(* Edits of a workflow's graph (subtask-operations.ts): steps and edges    *)
(* are created, changed and deleted by several editors at once (people in  *)
(* the canvas, agents through their tools), each edit a chain of awaits:   *)
(* look, ask whether a run is going, check the graph, write, and put       *)
(* results that no longer match back to pending.  None of them holds the   *)
(* engine's task lock.                                                     *)
(*                                                                         *)
(* The engine is here only as far as edits can tell: runs start, claim     *)
(* steps, finish and are stopped.  A step's result is known by what it was *)
(* made of: the step's instructions and the results it was given.          *)
(***************************************************************************)
EXTENDS SubtaskGraph

CONSTANTS
    Editor,     \* the requests and tool calls that edit at the same time
    Links,      \* the edges that may be drawn
    Born,       \* the steps that exist at first
    Kinds,      \* the kinds of edit that are made
    AgentSays,  \* what agents may say, as far as conditions can tell
    MaxActs     \* bound for TLC: edits and runs begun

ASSUME EditingAssumption ==
    /\ Links \subseteq {e \in EdgeType : e.from # e.to}
    /\ Born \subseteq Step
    /\ Kinds \subseteq {"link", "relink", "unlink", "rewrite", "create", "delete"}
    /\ AgentSays \subseteq Outcome \cup {NoOutcome}
    /\ MaxActs \in Nat

VARIABLES
    edges,     \* the rows of subtask_edges
    rows,      \* the rows of subtasks, or Unborn, or Deleted
    text,      \* how often each step's instructions were changed
    going,     \* a run of the task is running
    attempts,  \* per step: how often it was handed to an agent
    pipes,     \* the agents at work: the step, the attempt, what it was given
    made,      \* per completed step: what its result was made of
    count,     \* per step: how many results it has had
    ed,        \* the editors
    acts,      \* edits and runs begun
    \* history, which no action reads:
    raced,     \* edges were added under an editor whose check they undid
    hasty,     \* since all steps were last put back, a run was started under an
               \* edit that had found none going
    overtaken  \* the steps whose last result is that of an earlier attempt

engineVars == <<going, attempts, pipes, made, count, hasty, overtaken>>
vars == <<edges, rows, text, engineVars, ed, acts, raced>>

-----------------------------------------------------------------------------
Unborn  == [FreshRow EXCEPT !.status = "unborn"]
Deleted == [FreshRow EXCEPT !.status = "deleted"]

Exists(s) == rows[s] \notin {Unborn, Deleted}

SamePair(d, e) == d.from = e.from /\ d.to = e.to

(* The edits that may be asked for.                                        *)
Edit ==
    [kind : {"link", "relink", "unlink"} \cap Kinds, edge : Links]
    \cup [kind : {"rewrite", "delete"} \cap Kinds, step : Step]
    \cup {op \in [kind : {"create"} \cap Kinds, step : Step, after : SUBSET Step] :
              op.step \notin op.after}

(* Where an edit is: the next thing it does, after the await before it.    *)
(* Checking the content of an edge or of a step, which the graph does not  *)
(* depend on, is not a stage.                                              *)
After(kind, stage) ==
    CASE stage = "guard"   -> IF kind \in {"link", "create"} THEN "check"
                              ELSE IF kind = "rewrite" THEN "find"
                              ELSE "write"
      [] stage = "check"   -> "write"
      [] stage = "write"   -> IF kind \in {"link", "relink", "unlink"} THEN "find"
                              ELSE IF kind = "create" THEN "connect"
                              ELSE "idle"
      [] stage = "find"    -> "read"
      [] stage = "read"    -> "reset"
      [] stage = "reset"   -> IF kind = "rewrite" THEN "write" ELSE "idle"
      [] stage = "connect" -> "idle"

Idle == [at |-> "idle"]

Busy(x) == ed[x] # Idle
Quiet == \A x \in Editor : ~Busy(x)

At(x, stage) == ed[x].at = stage

(* The editor after this stage.                                            *)
Done(x) ==
    LET next == After(ed[x].op.kind, ed[x].at) IN
    IF next = "idle" THEN Idle ELSE [ed[x] EXCEPT !.at = next]

(* The step whose result the edit puts in doubt.                           *)
Target(op) == IF op.kind = "rewrite" THEN op.step ELSE op.edge.to

(* What a step is run on: its instructions, and the results of the steps   *)
(* before it that completed.                                               *)
Inputs(rws, cnt, s) ==
    [text  |-> text[s],
     given |-> {<<e, cnt[e.from]>> :
                   e \in {d \in Incoming(edges, s) : rws[d.from].status = "completed"}}]

-----------------------------------------------------------------------------
Init ==
    /\ edges \in {E \in SUBSET Links :
                    /\ Acyclic(E)
                    /\ \A d, e \in E : SamePair(d, e) => d = e
                    /\ \A e \in E : {e.from, e.to} \subseteq Born}
    /\ rows = [s \in Step |-> IF s \in Born THEN FreshRow ELSE Unborn]
    /\ text = [s \in Step |-> 0]
    /\ going = FALSE
    /\ attempts = [s \in Step |-> 0]
    /\ pipes = {}
    /\ made = [s \in Step |-> [text |-> 0, given |-> {}]]
    /\ count = [s \in Step |-> 0]
    /\ ed = [x \in Editor |-> Idle]
    /\ acts = 0
    /\ raced = FALSE
    /\ hasty = FALSE
    /\ overtaken = {}

-----------------------------------------------------------------------------
(* The first reads of an edit.  An edit refused here changes nothing and   *)
(* is left out.                                                            *)

Begins(op) ==
    \/ /\ op.kind = "link"
       /\ Exists(op.edge.from) /\ Exists(op.edge.to)
       /\ ~WouldCreateCycle(edges, op.edge)
    \/ /\ op.kind = "relink"
       /\ \E d \in edges : SamePair(d, op.edge)
    \/ /\ op.kind = "unlink"
       /\ op.edge \in edges
    \/ /\ op.kind \in {"rewrite", "delete"}
       /\ Exists(op.step)
    \/ /\ op.kind = "create"
       /\ rows[op.step] = Unborn
       /\ \A x \in Editor : Busy(x) => ~(ed[x].op.kind = "create" /\ ed[x].op.step = op.step)

Begin(x, op) ==
    /\ ~Busy(x)
    /\ acts < MaxActs
    /\ Begins(op)
    /\ ed' = [ed EXCEPT ![x] = [at |-> "guard", op |-> op, reset |-> {}]]
    /\ acts' = acts + 1
    /\ UNCHANGED <<edges, rows, text, engineVars, raced>>

(* guardEdit: is a run going right now?                                    *)
Guard(x) ==
    /\ At(x, "guard")
    /\ ed' = [ed EXCEPT ![x] = IF going THEN Idle ELSE Done(x)]
    /\ UNCHANGED <<edges, rows, text, engineVars, acts, raced>>

(* checkEdit: would the graph, as it is now, have an error it has not?  Of *)
(* a graph that has a cycle already, a further one may be reported or not. *)
Introduces(op) ==
    IF op.kind = "create" THEN \E s \in op.after : ~Exists(s)
    ELSE \/ ~Exists(op.edge.from) \/ ~Exists(op.edge.to)
         \/ \E d \in edges : SamePair(d, op.edge)
         \/ Acyclic(edges) /\ ~Acyclic(edges \cup {op.edge})

Check(x) ==
    /\ At(x, "check")
    /\ \/ ~Introduces(ed[x].op) /\ ed' = [ed EXCEPT ![x] = Done(x)]
       \/ /\ Introduces(ed[x].op) \/ (ed[x].op.kind = "link" /\ ~Acyclic(edges))
          /\ ed' = [ed EXCEPT ![x] = Idle]
    /\ UNCHANGED <<edges, rows, text, engineVars, acts, raced>>

-----------------------------------------------------------------------------
(* The writes.                                                             *)

(* x adds edges (to steps not connected so) while another editor, who has  *)
(* checked the graph, is about to add its own.                             *)
Undoes(x) ==
    /\ \E e \in edges' : \A d \in edges : ~SamePair(d, e)
    /\ \E y \in Editor \ {x} : \/ At(y, "write") /\ ed[y].op.kind = "link"
                              \/ At(y, "connect")

(* Mutant of Link: the ends of the edge are swapped.                       *)
LinkReversed(x) ==
    LET e == Plain(ed[x].op.edge.to, ed[x].op.edge.from) IN
    /\ ed[x].op.kind = "link"
    /\ edges' = edges \cup {e}
    /\ ed' = [ed EXCEPT ![x] = Done(x)]
    /\ UNCHANGED <<rows, text>>

(* addEdge, unless the unique index or a foreign key refuses.              *)
Link(x) ==
    LET e == ed[x].op.edge
        accepted == Exists(e.from) /\ Exists(e.to) /\ ~\E d \in edges : SamePair(d, e) IN
    /\ ed[x].op.kind = "link"
    /\ edges' = IF accepted THEN edges \cup {e} ELSE edges
    /\ ed' = [ed EXCEPT ![x] = IF accepted THEN Done(x) ELSE Idle]
    /\ UNCHANGED <<rows, text>>

(* updateEdge, of the edge with that id.                                   *)
Relink(x) ==
    LET e == ed[x].op.edge IN
    /\ ed[x].op.kind = "relink"
    /\ edges' = {d \in edges : ~SamePair(d, e)} \cup {e}
    /\ ed' = [ed EXCEPT ![x] = Done(x)]
    /\ UNCHANGED <<rows, text>>

(* An edge is known by its id.  Whoever was about to change or delete one  *)
(* that is deleted will not find it, and does nothing more.                *)
WithoutHolders(removed) ==
    [y \in Editor |->
        IF /\ Busy(y)
           /\ ed[y].op.kind \in {"relink", "unlink"}
           /\ ed[y].at \in {"guard", "write"}
           /\ \E e \in removed : SamePair(e, ed[y].op.edge)
        THEN Idle ELSE ed[y]]

Unlink(x) ==
    LET removed == {d \in edges : SamePair(d, ed[x].op.edge)} IN
    /\ ed[x].op.kind = "unlink"
    /\ edges' = edges \ removed
    /\ ed' = [WithoutHolders(removed) EXCEPT ![x] = Done(x)]
    /\ UNCHANGED <<rows, text>>

Rewrite(x) ==
    /\ ed[x].op.kind = "rewrite"
    /\ text' = IF Exists(ed[x].op.step) THEN [text EXCEPT ![ed[x].op.step] = @ + 1] ELSE text
    /\ ed' = [ed EXCEPT ![x] = Done(x)]
    /\ UNCHANGED <<edges, rows>>

Create(x) ==
    /\ ed[x].op.kind = "create"
    /\ rows' = [rows EXCEPT ![ed[x].op.step] = FreshRow]
    /\ ed' = [ed EXCEPT ![x] = Done(x)]
    /\ UNCHANGED <<edges, text>>

(* The database deletes a step's edges with it.                            *)
Delete(x) ==
    LET s == ed[x].op.step
        removed == {d \in edges : s \in {d.from, d.to}} IN
    /\ ed[x].op.kind = "delete"
    /\ rows' = [rows EXCEPT ![s] = Deleted]
    /\ edges' = edges \ removed
    /\ ed' = [WithoutHolders(removed) EXCEPT ![x] = Done(x)]
    /\ UNCHANGED text

Write(x) ==
    /\ At(x, "write")
    /\ Link(x) \/ Relink(x) \/ Unlink(x) \/ Rewrite(x) \/ Create(x) \/ Delete(x)
    /\ raced' = (raced \/ Undoes(x))
    /\ UNCHANGED <<engineVars, acts>>

(* addEdges after createSubtask: all of them, or an error.                 *)
Connect(x) ==
    LET op == ed[x].op
        new == {Plain(s, op.step) : s \in op.after} IN
    /\ At(x, "connect")
    /\ edges' = IF /\ \A s \in op.after \cup {op.step} : Exists(s)
                   /\ ~\E d \in edges, e \in new : SamePair(d, e)
                THEN edges \cup new
                ELSE edges
    /\ ed' = [ed EXCEPT ![x] = Done(x)]
    /\ raced' = (raced \/ Undoes(x))
    /\ UNCHANGED <<rows, text, engineVars, acts>>

-----------------------------------------------------------------------------
(* invalidateFrom                                                          *)

(* Only a completed step is put back; the rest of the edit goes on.        *)
Find(x) ==
    /\ At(x, "find")
    /\ ed' = [ed EXCEPT ![x] =
                IF rows[Target(ed[x].op)].status = "completed" THEN Done(x)
                ELSE IF ed[x].op.kind = "rewrite" THEN [ed[x] EXCEPT !.at = "write"]
                ELSE Idle]
    /\ UNCHANGED <<edges, rows, text, engineVars, acts, raced>>

(* Mutant of Stale: what comes after the step is left alone.               *)
StaleStepOnly(s) == {s}

(* The edited step and everything downstream, as far as it has ended.      *)
Stale(s) == {t \in {s} \cup Downstream(edges, s) : IsTerminal(rows[t])}

Read(x) ==
    /\ At(x, "read")
    /\ ed' = [ed EXCEPT ![x] = [Done(x) EXCEPT !.reset = Stale(Target(ed[x].op))]]
    /\ UNCHANGED <<edges, rows, text, engineVars, acts, raced>>

(* resetOne, on whatever has become of the row, one await after the other. *)
Reset(x) ==
    /\ At(x, "reset")
    /\ \/ /\ ed[x].reset = {}
          /\ ed' = [ed EXCEPT ![x] = Done(x)]
          /\ UNCHANGED rows
       \/ \E s \in ed[x].reset :
            /\ rows' = IF Exists(s) THEN [rows EXCEPT ![s] = FreshRow] ELSE rows
            /\ ed' = [ed EXCEPT ![x].reset = @ \ {s}]
    /\ UNCHANGED <<edges, text, engineVars, acts, raced>>

-----------------------------------------------------------------------------
(* The engine, every action under the task lock.                           *)

(* advanceLocked: skip, claim and dispatch what is ready, end the run if   *)
(* nothing is in progress.  kept are the agents already at work.           *)
Advance(rws, cnt, kept) ==
    \E skipped \in {SkipCascade(rws, edges)} : \E ready \in {Ready(skipped, edges)} :
    /\ rows' = [s \in Step |-> IF s \in ready
                              THEN [skipped[s] EXCEPT !.status = "in_progress"]
                              ELSE skipped[s]]
    /\ going' = (ready # {} \/ \E s \in Step : rws[s].status = "in_progress")
    /\ attempts' = [s \in Step |-> IF s \in ready THEN attempts[s] + 1 ELSE attempts[s]]
    /\ pipes' = kept \cup {[step |-> s, attempt |-> attempts'[s],
                           of |-> Inputs(skipped, cnt, s)] : s \in ready}

(* No edit has passed guardEdit and is not over.                           *)
NoneInside == \A x \in Editor : Busy(x) => At(x, "guard")

(* Someone starts a run, whatever edits are under way.                     *)
MayStart ==
    /\ acts < MaxActs
    /\ acts' = acts + 1
    /\ UNCHANGED <<edges, text, made, count, ed, raced, overtaken>>

(* startRun, after putting every step back or, from executeSubtasks, not.  *)
StartRun(reset) ==
    /\ ~going
    /\ \E s \in Step : Exists(s)
    /\ Advance(IF reset THEN [s \in Step |-> IF Exists(s) THEN FreshRow ELSE rows[s]]
               ELSE rows, count, pipes)
    /\ hasty' = (~NoneInside \/ (hasty /\ ~reset))
    /\ MayStart

(* retrySubtask, of a step that failed or was skipped.  It puts back what  *)
(* comes after the step as well, even what agents are at work on.          *)
RetrySubtask(s) ==
    /\ rows[s].status \in {"failed", "skipped"}
    /\ Advance([t \in Step |-> IF t \in Reach(edges, s) THEN FreshRow ELSE rows[t]],
               count, pipes)
    /\ hasty' = (hasty \/ ~NoneInside)
    /\ MayStart

(* cancelRun: the steps at work fail, and their agents are told to stop.   *)
(* They still say something in the end.                                    *)
CancelRun ==
    /\ going
    /\ going' = FALSE
    /\ rows' = [s \in Step |-> IF rows[s].status = "in_progress"
                               THEN [rows[s] EXCEPT !.status = "failed"]
                               ELSE rows[s]]
    /\ UNCHANGED <<edges, text, attempts, pipes, made, count, ed, acts,
                   raced, hasty, overtaken>>

(* An agent has finished, or failed.  What it says counts if its step is   *)
(* in progress and a run is going: also if that is a later attempt.        *)
PipeEnds(p, status, result) ==
    LET counts == rows[p.step].status = "in_progress" /\ going
        done   == counts /\ status = "completed"
        cnt    == [count EXCEPT ![p.step] = IF done THEN @ + 1 ELSE @] IN
    /\ IF counts
       THEN Advance([rows EXCEPT ![p.step].status = status, ![p.step].result = result],
                    cnt, pipes \ {p})
       ELSE pipes' = pipes \ {p} /\ UNCHANGED <<rows, going, attempts>>
    /\ count' = cnt
    /\ made' = [made EXCEPT ![p.step] = IF done THEN p.of ELSE @]
    /\ overtaken' = IF ~done THEN overtaken
                    ELSE IF p.attempt = attempts[p.step] THEN overtaken \ {p.step}
                    ELSE overtaken \cup {p.step}
    /\ UNCHANGED <<edges, text, ed, acts, raced, hasty>>

-----------------------------------------------------------------------------
EditNext ==
    \/ \E x \in Editor, op \in Edit : Begin(x, op)
    \/ \E x \in Editor : \/ Guard(x) \/ Check(x) \/ Write(x) \/ Connect(x)
                         \/ Find(x) \/ Read(x) \/ Reset(x)

RunNext ==
    \/ \E reset \in BOOLEAN : StartRun(reset)
    \/ \E s \in Step : RetrySubtask(s)
    \/ CancelRun
    \/ \E p \in pipes : \/ \E r \in AgentSays : PipeEnds(p, "completed", r)
                        \/ PipeEnds(p, "failed", NoOutcome)

Next == EditNext \/ RunNext

Spec == Init /\ [][Next]_vars

-----------------------------------------------------------------------------
(* Properties                                                              *)

TypeOK ==
    /\ edges \subseteq EdgeType
    /\ \A e \in edges : e.from # e.to /\ Exists(e.from) /\ Exists(e.to)
    /\ \A d, e \in edges : SamePair(d, e) => d = e
    /\ rows \in [Step -> Row \cup {Unborn, Deleted}]
    /\ text \in [Step -> Nat]
    /\ going \in BOOLEAN
    /\ attempts \in [Step -> Nat]
    /\ \A p \in pipes : p.step \in Step /\ p.attempt \in 1..attempts[p.step]
    /\ count \in [Step -> Nat]
    /\ raced \in BOOLEAN /\ hasty \in BOOLEAN
    /\ overtaken \subseteq Step
    /\ \A x \in Editor : Busy(x) => ed[x].op \in Edit /\ ed[x].reset \subseteq Step

(* The graph has no cycle, whose steps would wait for each other           *)
(* (schema/tasks.ts leaves this to the application), unless one editor     *)
(* added edges between another's check (checkEdit) and the write it was    *)
(* made for.  Two editors who have both checked, and then both write, do   *)
(* close one.                                                              *)
CycleNeedsRace == raced \/ Acyclic(edges)

(* Of what a result was made from, the part that is still there.           *)
Remaining(inputs) == [inputs EXCEPT !.given = {g \in @ : Exists(g[1].from)}]

(* Once all edits are over, every completed step's result was made from    *)
(* the step's instructions as they are, and from the results, of the steps *)
(* before it, that are there (invalidateFrom); what came from a step       *)
(* deleted since is left out.  Not so of a step whose last result was that *)
(* of an earlier attempt, nor if a run was started under an edit, until a  *)
(* run puts all steps back.                                                *)
ResultsMatch ==
    Quiet /\ ~hasty => \A s \in Step \ overtaken :
        rows[s].status = "completed" => Remaining(made[s]) = Inputs(rows, count, s)
=============================================================================
