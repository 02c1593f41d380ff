-------------------------- MODULE SubtaskGraphLoops --------------------------
(***************************************************************************)
(* The loops behind the definitions of SubtaskGraph, as the source writes  *)
(* them: the two passes over the edges in resolveSubtask, the for(;;) of   *)
(* the skip cascade, the breadth-first search downstream, the stack of     *)
(* wouldCreateCycle and the recursion of findCycle.                        *)
(*                                                                         *)
(* The machine makes one call, on some graph and some rows, and goes       *)
(* through the iterations of its loops.  The order in which the database   *)
(* lists rows and edges is left open.  What is still to be looked at is a  *)
(* set, of edges or of steps: a `for' takes the members one by one.        *)
(***************************************************************************)
EXTENDS SubtaskGraph, SequencesExt

CONSTANT Cases     \* what is called, on which edges and which rows

Call == {"resolveSubtask", "advanceLocked", "getDownstreamSubtaskIds",
         "wouldCreateCycle", "findCycle"}

ASSUME LoopsAssumption ==
    Cases \subseteq [call : Call, edges : SUBSET EdgeType, rows : [Step -> Row]]

VARIABLES
    drawn,     \* the edges
    table,     \* the rows of the steps
    job        \* the call at work: its arguments and local variables

loopVars == <<drawn, table, job>>

AtWork(call) == job.call = call /\ job.answer = "none"

Answering(answer) == [job EXCEPT !.answer = answer]

-----------------------------------------------------------------------------
(* resolveSubtask: the edges into the step twice over, first for one that  *)
(* is not terminal yet, then for one that refuses; the satisfied ones are  *)
(* counted.                                                                *)

Resolving(s) ==
    [call |-> "resolveSubtask", step |-> s, pass |-> 1,
     left |-> Incoming(drawn, s), satisfied |-> 0,
     answer |-> IF Incoming(drawn, s) = {} THEN "run" ELSE "none"]

FirstPass(e) ==
    /\ AtWork("resolveSubtask") /\ job.pass = 1 /\ e \in job.left
    /\ job' = IF IsTerminal(table[e.from]) THEN [job EXCEPT !.left = @ \ {e}]
              ELSE Answering("wait")
    /\ UNCHANGED <<drawn, table>>

AgainFromTheFirst ==
    /\ AtWork("resolveSubtask") /\ job.pass = 1 /\ job.left = {}
    /\ job' = [job EXCEPT !.pass = 2, !.left = Incoming(drawn, job.step)]
    /\ UNCHANGED <<drawn, table>>

(* A skipped step before this one neither refuses nor counts.              *)
SecondPass(e) ==
    /\ AtWork("resolveSubtask") /\ job.pass = 2 /\ e \in job.left
    /\ job' = IF Refuses(table, e) THEN Answering("skip")
              ELSE IF table[e.from].status = "skipped"
              THEN [job EXCEPT !.left = @ \ {e}]
              ELSE [job EXCEPT !.left = @ \ {e}, !.satisfied = @ + 1]
    /\ UNCHANGED <<drawn, table>>

CountSatisfied ==
    /\ AtWork("resolveSubtask") /\ job.pass = 2 /\ job.left = {}
    /\ job' = Answering(IF job.satisfied > 0 THEN "run" ELSE "skip")
    /\ UNCHANGED <<drawn, table>>

-----------------------------------------------------------------------------
(* The head of advanceLocked: each pass decides on the rows as they were   *)
(* listed, while it skips one step after the other, and another pass lists *)
(* them again.  What resolveSubtask says of a step is MustSkip here.       *)

Cascading ==
    [call |-> "advanceLocked", before |-> table, listed |-> table,
     left |-> Pending(table), skippedAny |-> FALSE, answer |-> "none"]

Decide(s) ==
    /\ AtWork("advanceLocked") /\ s \in job.left
    /\ IF MustSkip(job.listed, drawn, s)
       THEN /\ table' = Skipping(table, {s})
            /\ job' = [job EXCEPT !.left = @ \ {s}, !.skippedAny = TRUE]
       ELSE /\ job' = [job EXCEPT !.left = @ \ {s}]
            /\ UNCHANGED table
    /\ UNCHANGED drawn

(* Mutant of PassOver: one pass is enough.                                 *)
OnePass ==
    /\ AtWork("advanceLocked") /\ job.left = {}
    /\ job' = Answering("over")
    /\ UNCHANGED <<drawn, table>>

PassOver ==
    /\ AtWork("advanceLocked") /\ job.left = {}
    /\ job' = IF job.skippedAny
              THEN [job EXCEPT !.listed = table, !.left = Pending(table),
                               !.skippedAny = FALSE]
              ELSE Answering("over")
    /\ UNCHANGED <<drawn, table>>

-----------------------------------------------------------------------------
(* getDownstreamSubtaskIds: the edges out of the oldest step in the queue. *)

Descending(s) ==
    [call |-> "getDownstreamSubtaskIds", step |-> s, queue |-> <<s>>,
     seen |-> {s}, order |-> <<>>, left |-> drawn, answer |-> "none"]

Look(e) ==
    /\ AtWork("getDownstreamSubtaskIds") /\ job.queue # <<>>
    /\ e \in job.left /\ e.from = Head(job.queue)
    /\ job' = IF e.to \in job.seen THEN [job EXCEPT !.left = @ \ {e}]
              ELSE [job EXCEPT !.left = @ \ {e}, !.seen = @ \cup {e.to},
                               !.order = Append(@, e.to), !.queue = Append(@, e.to)]
    /\ UNCHANGED <<drawn, table>>

Shift ==
    /\ AtWork("getDownstreamSubtaskIds") /\ job.queue # <<>>
    /\ \A e \in job.left : e.from # Head(job.queue)
    /\ job' = [job EXCEPT !.queue = Tail(@)]
    /\ UNCHANGED <<drawn, table>>

QueueEmpty ==
    /\ AtWork("getDownstreamSubtaskIds") /\ job.queue = <<>>
    /\ job' = Answering("over")
    /\ UNCHANGED <<drawn, table>>

-----------------------------------------------------------------------------
(* wouldCreateCycle, for a new edge: from the step that would depend       *)
(* forward to the one it would depend on, with a stack.                    *)

(* Mutant of Checking: searching from the other end of the new edge, as    *)
(* the comment in the source words it.                                     *)
CheckingBackwards(e) ==
    [call |-> "wouldCreateCycle", new |-> e, goal |-> e.to, stack |-> <<e.from>>,
     seen |-> {}, left |-> drawn, answer |-> "none"]

Checking(e) ==
    [call |-> "wouldCreateCycle", new |-> e, goal |-> e.from, stack |-> <<e.to>>,
     seen |-> {}, left |-> drawn, answer |-> "none"]

(* The edges out of the step just seen are all pushed before the next one  *)
(* is popped.                                                              *)
Push(e) ==
    /\ AtWork("wouldCreateCycle")
    /\ e \in job.left /\ e.from \in job.seen
    /\ job' = [job EXCEPT !.left = @ \ {e}, !.stack = Append(@, e.to)]
    /\ UNCHANGED <<drawn, table>>

Pop ==
    /\ AtWork("wouldCreateCycle") /\ job.stack # <<>>
    /\ \A e \in job.left : e.from \notin job.seen
    /\ job' = IF Last(job.stack) = job.goal THEN Answering("true")
              ELSE [job EXCEPT !.stack = Front(@), !.seen = @ \cup {Last(job.stack)}]
    /\ UNCHANGED <<drawn, table>>

StackEmpty ==
    /\ AtWork("wouldCreateCycle") /\ job.stack = <<>>
    /\ \A e \in job.left : e.from \notin job.seen
    /\ job' = Answering("false")
    /\ UNCHANGED <<drawn, table>>

-----------------------------------------------------------------------------
(* findCycle: depth first.  The stack holds the steps whose visit is under *)
(* way; one of them met again closes a cycle, which the stack from there   *)
(* on spells out.                                                          *)

Finding ==
    [call |-> "findCycle", state |-> [s \in Step |-> "new"], stack |-> <<>>,
     left |-> drawn, cycle |-> <<>>, answer |-> "none"]

Visiting(s) == [job EXCEPT !.state[s] = "visiting", !.stack = Append(@, s)]

(* The outer loop, once the visits begun there are over.                   *)
VisitKey(s) ==
    /\ AtWork("findCycle") /\ job.stack = <<>> /\ job.state[s] = "new"
    /\ job' = Visiting(s)
    /\ UNCHANGED <<drawn, table>>

(* An edge out of the step on top; the step at its other end is visited.   *)
Following(e) ==
    /\ AtWork("findCycle") /\ job.stack # <<>>
    /\ e \in job.left /\ e.from = Last(job.stack)

Enter(e) ==
    /\ Following(e) /\ job.state[e.to] = "new"
    /\ job' = [Visiting(e.to) EXCEPT !.left = @ \ {e}]
    /\ UNCHANGED <<drawn, table>>

PassBy(e) ==
    /\ Following(e) /\ job.state[e.to] = "done"
    /\ job' = [job EXCEPT !.left = @ \ {e}]
    /\ UNCHANGED <<drawn, table>>

Close(e) ==
    /\ Following(e) /\ job.state[e.to] = "visiting"
    /\ \E i \in 1..Len(job.stack) :
          /\ job.stack[i] = e.to
          /\ job' = [job EXCEPT !.cycle = SubSeq(job.stack, i, Len(job.stack)) \o <<e.to>>,
                                !.answer = "cycle"]
    /\ UNCHANGED <<drawn, table>>

Leave ==
    /\ AtWork("findCycle") /\ job.stack # <<>>
    /\ \A e \in job.left : e.from # Last(job.stack)
    /\ job' = [job EXCEPT !.state[Last(job.stack)] = "done", !.stack = Front(@)]
    /\ UNCHANGED <<drawn, table>>

AllVisited ==
    /\ AtWork("findCycle") /\ job.stack = <<>>
    /\ \A s \in Step : job.state[s] # "new"
    /\ job' = Answering("null")
    /\ UNCHANGED <<drawn, table>>

-----------------------------------------------------------------------------
LoopInit ==
    \E c \in Cases :
        /\ drawn = c.edges
        /\ table = c.rows
        /\ \/ /\ c.call = "resolveSubtask"
              /\ \E s \in Step : job = Resolving(s)
           \/ /\ c.call = "advanceLocked"
              /\ job = Cascading
           \/ /\ c.call = "getDownstreamSubtaskIds"
              /\ \E s \in Step : job = Descending(s)
           \/ /\ c.call = "wouldCreateCycle"
              /\ \E from, to \in Step : job = Checking(Plain(from, to))
           \/ /\ c.call = "findCycle"
              /\ job = Finding

Resolve == \/ AgainFromTheFirst \/ CountSatisfied
           \/ \E e \in drawn : FirstPass(e) \/ SecondPass(e)

Cascade == PassOver \/ \E s \in Step : Decide(s)

Descend == Shift \/ QueueEmpty \/ \E e \in drawn : Look(e)

CheckEdge == Pop \/ StackEmpty \/ \E e \in drawn : Push(e)

FindCycle == \/ Leave \/ AllVisited
             \/ \E s \in Step : VisitKey(s)
             \/ \E e \in drawn : Enter(e) \/ PassBy(e) \/ Close(e)

LoopNext == Resolve \/ Cascade \/ Descend \/ CheckEdge \/ FindCycle

LoopSpec == LoopInit /\ [][LoopNext]_loopVars

-----------------------------------------------------------------------------
(* Properties                                                              *)

Answered(call) == job.call = call /\ job.answer # "none"

(* Whatever the order of the edges, resolveSubtask waits, skips and runs   *)
(* exactly when the definitions say.                                       *)
ResolutionAgrees ==
    Answered("resolveSubtask") =>
        job.answer = IF Waits(table, drawn, job.step) THEN "wait"
                     ELSE IF MustSkip(table, drawn, job.step) THEN "skip"
                     ELSE "run"

(* The passes of the skip cascade end with the least closed set skipped,   *)
(* and leave nothing pending that could be skipped.                        *)
CascadeAgrees ==
    Answered("advanceLocked") =>
        /\ table = SkipCascade(job.before, drawn)
        /\ \A s \in Pending(table) : ~MustSkip(table, drawn, s)

(* The search downstream returns every step after the given one once, and  *)
(* not that one, cycles or not.                                            *)
DownstreamAgrees ==
    Answered("getDownstreamSubtaskIds") =>
        /\ ToSet(job.order) = Downstream(drawn, job.step)
        /\ IsInjective(job.order)

(* The check of a new edge searches right, and in a graph without cycles   *)
(* refuses it exactly if it would close one.                               *)
CycleCheckExact ==
    Answered("wouldCreateCycle") =>
        LET refused == job.answer = "true" IN
        /\ refused <=> WouldCreateCycle(drawn, job.new)
        /\ Acyclic(drawn) => (refused <=> ~Acyclic(drawn \cup {job.new}))

(* cycle walks along edges back to where it began, without repetition.     *)
IsCycle(cycle) ==
    /\ Len(cycle) > 1 /\ cycle[1] = cycle[Len(cycle)]
    /\ IsInjective(Tail(cycle))
    /\ \A i \in 1..(Len(cycle) - 1) :
          \E e \in drawn : e.from = cycle[i] /\ e.to = cycle[i + 1]

(* findCycle finds a cycle exactly if there is one, and what it returns is *)
(* one.                                                                    *)
FindCycleExact ==
    Answered("findCycle") =>
        /\ job.answer = "null" <=> Acyclic(drawn)
        /\ job.answer = "cycle" => IsCycle(job.cycle)

(* The loops of the source compute what SubtaskGraph defines without them, *)
(* on any graph, from any mix of statuses, in any order of the rows.       *)
LoopsAgree == ResolutionAgrees /\ CascadeAgrees /\ DownstreamAgrees

(* Both cycle checks are exact: the one for a new edge and the one for a   *)
(* whole graph, neither of which looks at the graph as the other does.     *)
CyclesFound == CycleCheckExact /\ FindCycleExact
=============================================================================
