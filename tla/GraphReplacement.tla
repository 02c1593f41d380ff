--------------------------- MODULE GraphReplacement ---------------------------
(***************************************************************************)
(* Writers of a whole graph of steps: setGraph and templates that replace  *)
(* it (workflow-graph-operations, replaceGraph), templates that add to it, *)
(* and the planner, which wipes it and writes its own (planning/service).  *)
(*                                                                         *)
(* A writer is a chain of awaits: nothing keeps two of them, or a run and  *)
(* a writer, apart but a look at the runs before the first of them.  Each  *)
(* writes a chain of Size steps; an edge goes with the steps it joins.     *)
(***************************************************************************)
EXTENDS Naturals, FiniteSets

CONSTANTS
    Writer,      \* calls of setWorkflowGraph, applyWorkflowTemplate, planTask
    First,       \* who wrote the graph that is there at first
    MayDo,       \* what a writer may do: replace, add, plan
    Size,        \* the steps of a graph
    MaxRuns,     \* bound: runs
    MaxFaults    \* bound: calls that throw, crashes

Kind == {"replace", "add", "plan"}

ASSUME ReplacementAssumption ==
    /\ First \notin Writer
    /\ MayDo \in [Writer -> SUBSET Kind]
    /\ Size \in Nat \ {0}
    /\ MaxRuns \in Nat /\ MaxFaults \in Nat

VARIABLES
    steps,       \* the subtasks rows: <<writer, number>>
    edges,       \* the subtask_edges rows: pairs of steps
    writer,      \* where each writer is
    running,     \* a run of the task is going
    runs,        \* bound: what MaxRuns counts
    faults,      \* bound: what MaxFaults counts
    last,        \* history: the last to list or wipe the graph
    disturbed,   \* history: replacements that another wrote in between
    robbed       \* history: a rollback deleted steps of the last

rows    == <<steps, edges>>
history == <<last, disturbed, robbed>>
vars    == <<rows, writer, running, runs, faults, history>>

Author   == Writer \cup {First}
StepId   == Author \X (1 .. Size)

(* The first steps and edges of a writer's graph, and all of it.           *)
FirstSteps(w, n) == {<<w, k>> : k \in 1 .. n}
FirstEdges(w, n) == {<<<<w, k>>, <<w, k + 1>>>> : k \in 1 .. n}
StepsOf(w) == FirstSteps(w, Size)
EdgesOf(w) == FirstEdges(w, Size - 1)

(* unchanged, broken: how the caller of a replacement hears it failed, with *)
(* "nothing was changed" or with an error that says nothing of the graph.  *)
Phase == {"idle", "listing", "building", "clearing", "undoing", "removing",
          "done", "unchanged", "broken"}

(* known: the steps it found (oldIds); left: those it still has to delete; *)
(* made, tied: how many of its steps and edges it has written.             *)
Progress == [at : Phase, kind : Kind, known : SUBSET StepId, left : SUBSET StepId,
             made : 0 .. Size, tied : 0 .. Size]

TypeOK ==
    /\ steps \subseteq StepId
    /\ edges \subseteq StepId \X StepId
    /\ writer \in [Author -> Progress]
    /\ running \in BOOLEAN
    /\ runs \in Nat /\ faults \in Nat
    /\ last \in Author
    /\ disturbed \subseteq Author
    /\ robbed \in BOOLEAN

Init ==
    /\ steps = StepsOf(First)
    /\ edges = EdgesOf(First)
    /\ writer = [w \in Author |->
                   [at |-> IF w = First THEN "done" ELSE "idle",
                    kind |-> "replace",
                    known |-> {}, left |-> {},
                    made |-> IF w = First THEN Size ELSE 0,
                    tied |-> IF w = First THEN Size - 1 ELSE 0]]
    /\ running = FALSE
    /\ runs = 0 /\ faults = 0
    /\ last = First
    /\ disturbed = {}
    /\ robbed = FALSE

At(w, phase) == writer[w].at = phase
Does(w, kind) == writer[w].kind = kind
Over == {"done", "unchanged", "broken"}
Live(w) == writer[w].at \notin Over \cup {"idle"}

(* A writer moves on; its locals go with its end.                          *)
Settled(p) == IF p.at \in Over THEN [p EXCEPT !.known = {}, !.left = {}] ELSE p
Goes(w, p) == writer' = [writer EXCEPT ![w] = Settled(p)]

(* Replacements between their list of the graph and their end.             *)
Replacing == {w \in Writer : Does(w, "replace") /\ Live(w) /\ ~At(w, "listing")}

Faulty == faults < MaxFaults /\ faults' = faults + 1

(* A deleted step takes its edges along (ON DELETE CASCADE).               *)
Deletes(gone) ==
    /\ steps' = steps \ gone
    /\ edges' = {e \in edges : e[1] \notin gone /\ e[2] \notin gone}

Disturbs(w) ==
    disturbed' = IF rows' = rows THEN disturbed ELSE disturbed \cup (Replacing \ {w})

-----------------------------------------------------------------------------
(* A writer begins                                                         *)

(* refuseWhileRunning lets it pass.                                        *)
Free == ~running

(* The planner does not ask.                                               *)
Begin(w, kind) ==
    /\ At(w, "idle")
    /\ kind = "plan" \/ Free
    /\ Goes(w, [writer[w] EXCEPT !.kind = kind,
                                 !.at = IF kind = "add" THEN "building" ELSE "listing"])
    /\ UNCHANGED <<rows, running, runs, faults, history>>

(* replaceGraph lists the steps there are; planTask deletes them all       *)
(* (deleteByTask), once the model has answered.                            *)
List(w) ==
    /\ At(w, "listing")
    /\ IF Does(w, "plan")
       THEN /\ Deletes(steps)
            /\ Goes(w, [writer[w] EXCEPT !.at = "building"])
       ELSE /\ UNCHANGED rows
            /\ Goes(w, [writer[w] EXCEPT !.at = "building", !.known = steps])
    /\ last' = w /\ robbed' = FALSE
    /\ Disturbs(w)
    /\ UNCHANGED <<running, runs, faults>>

-----------------------------------------------------------------------------
(* It builds its graph beside what is there                                *)

(* Mutant of Obsolete: whatever is not its own.                            *)
NotOwn(w) == steps \ StepsOf(w)

(* The old steps, as it found them.                                        *)
Obsolete(w) == writer[w].known

(* Once it is written, a replacement deletes the old steps.                *)
Onwards(w, p) ==
    IF p.made < Size \/ p.tied < Size - 1 THEN p
    ELSE IF Does(w, "replace") /\ Obsolete(w) # {}
         THEN [p EXCEPT !.at = "clearing", !.left = Obsolete(w)]
         ELSE [p EXCEPT !.at = "done"]

Create(w) ==
    /\ At(w, "building") /\ writer[w].made < Size
    /\ LET n == writer[w].made + 1 IN
          /\ steps' = steps \cup {<<w, n>>}
          /\ Goes(w, Onwards(w, [writer[w] EXCEPT !.made = n]))
    /\ UNCHANGED edges
    /\ Disturbs(w)
    /\ UNCHANGED <<running, runs, faults, last, robbed>>

(* The next edge of w.                                                     *)
Edge(w) == LET k == writer[w].tied + 1 IN <<<<w, k>>, <<w, k + 1>>>>

Ties(w) == At(w, "building") /\ writer[w].made = Size /\ writer[w].tied < Size - 1

Tie(w) ==
    /\ Ties(w)
    /\ Edge(w)[1] \in steps /\ Edge(w)[2] \in steps
    /\ edges' = edges \cup {Edge(w)}
    /\ Goes(w, Onwards(w, [writer[w] EXCEPT !.tied = @ + 1]))
    /\ UNCHANGED steps
    /\ Disturbs(w)
    /\ UNCHANGED <<running, runs, faults, last, robbed>>

(* A call throws, an edge finds one of its steps deleted, or the template  *)
(* is refused.  Only a replacement rolls back.                             *)
Fail(w) ==
    /\ At(w, "building")
    /\ \/ Faulty
       \/ /\ \/ Ties(w) /\ ~(Edge(w)[1] \in steps /\ Edge(w)[2] \in steps)
             \/ writer[w].made = 0 /\ ~Does(w, "plan")
          /\ UNCHANGED faults
    /\ Goes(w, [writer[w] EXCEPT !.at = IF Does(w, "replace") THEN "undoing" ELSE "broken"])
    /\ UNCHANGED <<rows, running, runs, history>>

-----------------------------------------------------------------------------
(* It deletes the old steps, or those it takes for its own                 *)

(* Mutant of Doomed: the old steps.                                        *)
DoomedOld(w) == writer[w].known

(* The rollback takes what it did not find for what it made.               *)
Doomed(w) == steps \ writer[w].known

Undo(w) ==
    /\ At(w, "undoing")
    /\ Goes(w, IF Doomed(w) = {} THEN [writer[w] EXCEPT !.at = "unchanged"]
               ELSE [writer[w] EXCEPT !.at = "removing", !.left = Doomed(w)])
    /\ UNCHANGED <<rows, running, runs, faults, history>>

(* One after the other, in the order of their numbers (orderIndex).        *)
Ending(w) == IF At(w, "clearing") THEN "done" ELSE "unchanged"

Delete(w, s) ==
    /\ writer[w].at \in {"clearing", "removing"}
    /\ \A t \in writer[w].left : s[2] <= t[2]
    /\ Deletes({s})
    /\ Goes(w, [writer[w] EXCEPT !.left = @ \ {s},
                                 !.at = IF writer[w].left = {s} THEN Ending(w) ELSE @])
    /\ robbed' = (robbed \/ (At(w, "removing") /\ s[1] = last))
    /\ Disturbs(w)
    /\ UNCHANGED <<running, runs, faults, last>>

(* A call throws outside the try: what is done is done.                    *)
Break(w) ==
    /\ writer[w].at \in {"listing", "clearing", "undoing", "removing"}
    /\ Faulty
    /\ Goes(w, [writer[w] EXCEPT !.at = "broken"])
    /\ UNCHANGED <<rows, running, runs, history>>

-----------------------------------------------------------------------------
(* Runs, and the end of the process                                        *)

StartRun ==
    /\ ~running /\ runs < MaxRuns
    /\ running' = TRUE
    /\ runs' = runs + 1
    /\ UNCHANGED <<rows, writer, faults, history>>

EndRun ==
    /\ running
    /\ running' = FALSE
    /\ UNCHANGED <<rows, writer, runs, faults, history>>

(* What a writer knew is lost; the run goes on or not.                     *)
Crash ==
    /\ Faulty
    /\ writer' = [w \in Author |->
                    IF Live(w) THEN Settled([writer[w] EXCEPT !.at = "broken"])
                    ELSE writer[w]]
    /\ running' \in {running, FALSE}
    /\ UNCHANGED <<rows, runs, history>>

Next ==
    \/ \E w \in Writer : \E kind \in MayDo[w] : Begin(w, kind)
    \/ \E w \in Writer : \/ List(w) \/ Create(w) \/ Tie(w)
                         \/ Fail(w) \/ Undo(w) \/ Break(w)
    \/ \E w \in Writer : \E s \in writer[w].left : Delete(w, s)
    \/ StartRun \/ EndRun \/ Crash

Spec == Init /\ [][Next]_vars

-----------------------------------------------------------------------------
(* Properties                                                              *)

(* A replacement that succeeds leaves none of the steps it found, and one  *)
(* that reports that "nothing was changed" none of its own; when nobody    *)
(* wrote in between, the graph is the new one, or the old one.             *)
ReplacedOrUnchanged ==
    [][\A w \in Writer : Does(w, "replace") /\ Live(w) =>
          /\ writer'[w].at = "done" =>
                /\ writer[w].known \cap steps' = {}
                /\ w \notin disturbed' => steps' = StepsOf(w) /\ edges' = EdgesOf(w)
          /\ writer'[w].at = "unchanged" =>
                /\ StepsOf(w) \cap steps' = {}
                /\ w \notin disturbed' => steps' = writer[w].known]_vars

(* Of writers that overlap, the last to list or wipe the graph stands:     *)
(* none of what it has written is lost, unless a rollback (its own, or one *)
(* that takes its steps for its own) deletes it.                           *)
LastStands ==
    ~robbed => /\ FirstSteps(last, writer[last].made) \subseteq steps
               /\ FirstEdges(last, writer[last].tied) \subseteq edges

(* The inductive invariant, part by part.  Nobody has written what is not  *)
(* counted, which holds of what is remembered too;                         *)
Written(s) == s[2] <= writer[s[1]].made

NothingAhead ==
    /\ \A s \in steps : Written(s)
    /\ \A w \in Author : \A s \in writer[w].known : Written(s)
    /\ \A w \in Author : writer[w].at \in {"idle", "listing"} =>
          writer[w].made = 0 /\ writer[w].tied = 0
    /\ \A w \in Author : writer[w].tied > 0 => writer[w].made = Size
    /\ \A w \in Author : writer[w].tied < Size

(* edges join steps of one writer that are there, and that it has tied;    *)
EdgesFit ==
    \A e \in edges : /\ e[1] \in steps /\ e[2] \in steps
                     /\ e \in FirstEdges(e[1][1], writer[e[1][1]].tied)

(* who lists the graph knows nothing of its own steps, nor of those of the *)
(* last, who came later;                                                   *)
KnownIsOld ==
    \A w \in Author : /\ writer[w].known \cap StepsOf(w) = {}
                      /\ writer[w].known \cap StepsOf(last) = {}

(* what is left to delete;                                                 *)
LeftIsRest ==
    \A w \in Author :
        /\ writer[w].at \notin {"clearing", "removing"} => writer[w].left = {}
        /\ At(w, "clearing") => /\ writer[w].left \subseteq writer[w].known
                                /\ writer[w].known \cap steps \subseteq writer[w].left
                                /\ writer[w].made = Size /\ writer[w].tied = Size - 1
        /\ At(w, "removing") => StepsOf(w) \cap steps \subseteq writer[w].left

(* and what the graph is while nobody else writes.                         *)
AloneIsExact ==
    \A w \in Replacing \ disturbed :
        /\ At(w, "building") \/ At(w, "undoing") =>
              steps = writer[w].known \cup FirstSteps(w, writer[w].made)
        /\ At(w, "building") => FirstEdges(w, writer[w].tied) \subseteq edges
        /\ At(w, "clearing") => /\ steps = writer[w].left \cup StepsOf(w)
                                /\ EdgesOf(w) \subseteq edges
        /\ At(w, "removing") => /\ steps = writer[w].known \cup writer[w].left
                                /\ writer[w].known \cap writer[w].left = {}

ReplacementInv ==
    /\ TypeOK
    /\ NothingAhead
    /\ EdgesFit
    /\ KnownIsOld
    /\ LeftIsRest
    /\ AloneIsExact
    /\ LastStands
=============================================================================
