---------------------------- MODULE ScheduledTask ----------------------------
(***************************************************************************)
(* A task with a schedule: the executor of TaskSchedules prepares and      *)
(* starts the runs of WorkflowEngine.  Preparing resets the steps and puts *)
(* the task in progress without the engine's lock; startRun may then       *)
(* refuse, because a run is going or because the graph does not check.     *)
(* Each execution has a row in task_execution_history, which the run it    *)
(* started settles (finishRun).                                            *)
(***************************************************************************)
EXTENDS WorkflowEngine

CONSTANTS Schedule, MaxExecutions, DbFails, MaxActs    \* of TaskSchedules

ASSUME TimetableAssumption ==
    /\ MaxExecutions \in [Schedule -> Nat \ {0}]
    /\ DbFails \in BOOLEAN
    /\ MaxActs \in Nat

VARIABLES
    schedules, due, ticking, triggered, edits, acts, finished, lost, revived,
    history,      \* the task_execution_history rows: their status
    rowOf,        \* per execution (by its nr), its history row
    runHistory,   \* per run, workflow_runs.historyId, 0 when null
    stranded      \* history: since the last run, an execution came to nothing

S == INSTANCE TaskSchedules WITH serving <- up

timetable == <<schedules, due, ticking, triggered, edits, acts, finished, lost,
               revived>>
records   == <<history, rowOf, runHistory>>
taskVars  == <<vars, timetable, records, stranded>>

HistoryStatus == {"planned", "executing", "completed", "failed", "gone"}

ScheduledInit ==
    /\ Init
    /\ S!ScheduleInit
    /\ history = <<>>
    /\ rowOf = [n \in 0..MaxActs |-> 0]
    /\ runHistory = <<>>
    /\ stranded = FALSE

(* The tick's execution and the triggers'.                                 *)
Executions == ticking \cup triggered

(* The bound on runs, those that an execution may still start counted.     *)
RoomForRun ==
    Len(runs) + Cardinality({x \in Executions : x.phase # "reschedule"}) < MaxRuns

-----------------------------------------------------------------------------
(* The history rows                                                        *)

(* Mutant of RowOf: the task's latest history row, whosever it is.         *)
LatestRow(x) == Len(history)

RowOf(x) == rowOf[x.nr]

(* UPDATE ... WHERE id: the rows of a removed schedule are gone.           *)
Marked(h, status) ==
    [k \in DOMAIN history |-> IF k = h /\ history[k] # "gone" THEN status
                              ELSE history[k]]

NewRow(x) ==
    /\ history' = Append(history, "planned")
    /\ rowOf' = [rowOf EXCEPT ![x.nr] = Len(history) + 1]

(* A run created in this step carries the history row given.               *)
RunsCarry(row) ==
    runHistory' = IF Len(runs') > Len(runs) THEN Append(runHistory, row)
                  ELSE runHistory

SettledBy(i) == IF runs'[i] = "completed" THEN "completed" ELSE "failed"

(* The next run to be created makes up for what failed executions left.    *)
RunMends ==
    stranded' = IF Len(runs') > Len(runs) THEN FALSE ELSE stranded

(* finishRun, the end of it: the row of a run that ends is settled.        *)
HistoryFollows(given) ==
    history' = [h \in DOMAIN given |->
                  IF given[h] # "gone" /\ \E i \in EndedNow : runHistory'[i] = h
                  THEN SettledBy(CHOOSE i \in EndedNow : runHistory'[i] = h)
                  ELSE given[h]]

-----------------------------------------------------------------------------
(* The executor                                                            *)

Tick ==
    /\ up
    /\ ticking = {}
    /\ RoomForRun
    /\ \E s \in Schedule : S!Claim(s)
    /\ UNCHANGED <<vars, records, stranded>>

TriggerNow(s) ==
    /\ RoomForRun
    /\ S!TriggerNow(s)
    /\ NewRow([nr |-> acts + 1])
    /\ UNCHANGED <<vars, runHistory, stranded>>

Begin(x) ==
    /\ S!Begin(x)
    /\ IF S!Present(x.schedule) THEN NewRow(x) ELSE UNCHANGED <<history, rowOf>>
    /\ UNCHANGED <<vars, runHistory, stranded>>

(* execute, up to the run: whatever the task and its steps are doing.      *)
Prepare(x) ==
    /\ S!Prepare(x)
    /\ subtasks' = Resetting(subtasks, Step)
    /\ taskStatus' = "in_progress"
    /\ history' = Marked(RowOf(x), "executing")
    /\ UNCHANGED <<runs, memory, attempts, ops, rowOf, runHistory, stranded>>

(* One of its calls throws: some of it is done, and the row has failed.    *)
PrepareFails(x) ==
    /\ DbFails
    /\ x.phase = "prepare"
    /\ S!Fail(x)
    /\ \/ UNCHANGED <<subtasks, taskStatus>>
       \/ /\ subtasks' = Resetting(subtasks, Step)
          /\ taskStatus' \in {taskStatus, "todo", "in_progress"}
    /\ history' = Marked(RowOf(x), "failed")
    /\ stranded' = TRUE
    /\ UNCHANGED <<runs, memory, attempts, ops, rowOf, runHistory>>

(* When the dispatch of a step throws, startRun does, and the run goes on. *)
Start(x) ==
    /\ S!Start(x)
    /\ RunStarts(FALSE)
    /\ RunsCarry(RowOf(x))
    /\ HistoryFollows(IF StartThrew THEN Marked(RowOf(x), "failed") ELSE history)
    /\ RunMends
    /\ UNCHANGED <<ops, rowOf>>

(* refuseInvalidGraph: planning is enabled and the graph has an error (no  *)
(* steps, an agent that is gone).  Both are the owner's to change, so any  *)
(* start may be refused; the task stays in progress.                       *)
GraphRefused(x) ==
    /\ x.phase = "start"
    /\ S!Fail(x)
    /\ history' = Marked(RowOf(x), "failed")
    /\ stranded' = TRUE
    /\ UNCHANGED <<vars, rowOf, runHistory>>

(* Mutant of Refused: a run that is over counts as going.                  *)
RefusedAfterRun(x) ==
    /\ x.phase = "start"
    /\ runs # <<>>
    /\ S!Fail(x)
    /\ history' = Marked(RowOf(x), "failed")
    /\ UNCHANGED <<vars, rowOf, runHistory, stranded>>

(* workflow.already_running.                                               *)
Refused(x) ==
    /\ x.phase = "start"
    /\ IsRunning(runs)
    /\ S!Fail(x)
    /\ history' = Marked(RowOf(x), "failed")
    /\ UNCHANGED <<vars, rowOf, runHistory, stranded>>

Reschedule(x) == S!Reschedule(x) /\ UNCHANGED <<vars, records, stranded>>

ExecutionGoesOn ==
    /\ up
    /\ \E x \in Executions :
          \/ Begin(x) \/ Prepare(x) \/ Start(x) \/ Reschedule(x)
          \/ GraphRefused(x) \/ Refused(x)

-----------------------------------------------------------------------------
(* Everything else that happens to the task                                *)

EngineGoesOn ==
    /\ Next
    /\ up' = up           \* Crash and Recover are below
    /\ DbFails \/ ~\E p \in pipes : PipeDies(p) /\ ~CheckStep(p)
                                    /\ ~TurnAgain(p) /\ ~SettleStep(p)
    /\ Len(runs') > Len(runs) => RoomForRun
    /\ RunsCarry(0)
    /\ HistoryFollows(history)
    /\ RunMends
    /\ UNCHANGED <<timetable, rowOf>>

OwnerActs ==
    /\ S!OwnerActs
    /\ history' = [h \in DOMAIN history |->
                     IF \A s \in Schedule : schedules'[s].status = S!Absent
                     THEN "gone" ELSE history[h]]
    /\ UNCHANGED <<vars, rowOf, runHistory, stranded>>

ClockTicks == S!ClockSteps /\ UNCHANGED <<vars, records, stranded>>

CrashAll ==
    /\ Crash
    /\ S!DropExecutions
    /\ stranded' = (stranded \/ \E x \in Executions : x.phase = "start")
    /\ UNCHANGED <<acts, records>>

Restart ==
    /\ Recover
    /\ S!RecoverStuck
    /\ RunsCarry(0)
    /\ HistoryFollows(history)
    /\ RunMends
    /\ UNCHANGED rowOf

ScheduledNext ==
    \/ Tick
    \/ \E s \in Schedule : TriggerNow(s)
    \/ ExecutionGoesOn
    \/ \E x \in Executions : PrepareFails(x)
    \/ EngineGoesOn \/ OwnerActs \/ ClockTicks \/ CrashAll \/ Restart

ScheduledSpec == ScheduledInit /\ [][ScheduledNext]_taskVars

-----------------------------------------------------------------------------
(* Properties                                                              *)

(* The history tells how its run ended: the row of a run that is over says *)
(* completed if the run is and failed otherwise, whatever other executions *)
(* of the same task prepare, start, or are refused meanwhile.              *)
HistoryMatches ==
    \A i \in DOMAIN runs :
        runs[i] # "running" /\ runHistory[i] # 0
          => history[runHistory[i]] \in
                {IF runs[i] = "completed" THEN "completed" ELSE "failed", "gone"}

(* A task in progress has a run, or an execution about to start one: the   *)
(* executor puts it in progress before startRun may refuse for a run that  *)
(* is going, and that run is gone when nothing else is left.  Nothing      *)
(* undoes it, so two kinds of execution do leave the task in progress      *)
(* alone until the next run is created: one that an error or a crash cuts  *)
(* short, and one whose graph startRun refuses.                            *)
TaskHasRun ==
    taskStatus = "in_progress" =>
        \/ IsRunning(runs)
        \/ \E x \in Executions : x.phase = "start"
        \/ stranded

(* What makes both inductive.  An execution of a tick has no number, each  *)
(* trigger its own;                                                        *)
ExecutionsApart ==
    /\ \A x \in ticking : x.nr = 0
    /\ \A x, y \in ticking : x = y
    /\ \A x \in triggered : x.nr \in 1..acts /\ x.phase \in {"prepare", "start"}
    /\ \A x, y \in triggered : x.nr = y.nr => x = y

(* the row of an execution that has not started its run is in nobody       *)
(* else's hands, and no row is that of two runs;                           *)
HasRow(x) == x.phase \in {"prepare", "start"}

RowsApart ==
    /\ \A x \in Executions : HasRow(x) =>
          /\ RowOf(x) \in DOMAIN history
          /\ \A i \in DOMAIN runs : runHistory[i] # RowOf(x)
          /\ \A y \in Executions : HasRow(y) /\ RowOf(y) = RowOf(x) => y = x
    /\ \A i, j \in DOMAIN runs :
          runHistory[i] = runHistory[j] /\ runHistory[i] # 0 => i = j

(* and of the types, those that this rests on.                             *)
ScheduledTypes ==
    /\ TypeOK
    /\ schedules \in [Schedule -> S!ScheduleRow]
    /\ ticking \subseteq S!Execution /\ triggered \subseteq S!Execution
    /\ edits \subseteq Schedule \X S!Change
    /\ acts \in 0..MaxActs
    /\ history \in Seq(HistoryStatus)
    /\ rowOf \in [0..MaxActs -> 0..Len(history)]
    /\ runHistory \in [DOMAIN runs -> 0..Len(history)]

ScheduledInv ==
    /\ ScheduledTypes
    /\ OneRunning
    /\ ExecutionsApart
    /\ RowsApart
    /\ HistoryMatches
    /\ TaskHasRun
=============================================================================
