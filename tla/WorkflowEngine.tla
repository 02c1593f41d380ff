--------------------------- MODULE WorkflowEngine ---------------------------
(***************************************************************************)
(* TaskExecution (tasks/execution/task-execution.ts): the engine that runs *)
(* the step graph of one task.                                             *)
(*                                                                         *)
(* Every transition of a task runs under its per-task lock (withLock), so  *)
(* a locked section is one action.  What is NOT under the lock is split at *)
(* its awaits: a step's pipeline (agent turn, re-read, retry count,        *)
(* verification, settling) and the status check of retrySubtask.  The rows *)
(* survive a crash, pipelines and cancel keys do not.                      *)
(***************************************************************************)
EXTENDS SubtaskGraph, Sequences

CONSTANTS
    Edge,        \* the dependency edges between the steps
    LoopMax,     \* per step, loopMaxIterations, 0 when it is null
    LoopUntil,   \* per step, the outcomes its loop condition accepts; {} when
                 \* the loop has no condition to check
    MaxRetries,  \* execution config: verification attempts per step
    AgentSays,   \* what agent turns reply in this instance: outcomes
    ByHand,      \* the steps the complete and fail routes are exercised on
    SessionsFail, \* whether creating the session of a step may throw
    MaxOps,      \* bound: operations of users and crashes in a behaviour
    MaxRuns      \* bound: run rows of the task

ASSUME EngineAssumption ==
    /\ Edge \subseteq EdgeType
    /\ LoopMax \in [Step -> Nat]
    /\ LoopUntil \in [Step -> SUBSET Outcome]
    /\ \A g \in Gate : LoopMax[g] = 0
    /\ MaxRetries \in Nat
    /\ AgentSays \subseteq Outcome \cup {NoOutcome}
    /\ ByHand \subseteq Step
    /\ SessionsFail \in BOOLEAN
    /\ MaxOps \in Nat
    /\ MaxRuns \in Nat

VARIABLES
    \* rows in the database
    subtasks,     \* the step rows
    runs,         \* the workflow_runs rows of the task: status, oldest first
    taskStatus,   \* tasks.status
    \* memory of the server process
    up,           \* the process is serving (recovery is over)
    pipes,        \* the pipelines: one record per runStepTurn chain
    cancelKeys,   \* per step, the attempt whose turn its cancel key stops
    verifyQueue,  \* pipelines waiting for, or in, their verifier turn
    described,    \* runs of a task without steps whose turn is in flight
    retrying,     \* retrySubtask calls past their status check, per step
    \* bookkeeping
    attempts,     \* per step, how often it was dispatched (names attempts)
    ops           \* operations of users and crashes so far

database == <<subtasks, runs, taskStatus>>
memory   == <<up, pipes, cancelKeys, verifyQueue, described, retrying>>
vars     == <<database, memory, attempts, ops>>

RunStatus  == {"running", "completed", "failed", "cancelled"}
TaskStatus == {"todo", "in_progress", "review", "done"}  \* done: also backlog
                                                         \* and cancelled

Failure == "failure"      \* the turn ended with an error

(* A pipeline between two awaits: "submit" (the cancel key is stored, the  *)
(* session service has not registered the turn yet), "turn" (registered),  *)
(* "check" and "count" (onStepTurnFinished re-reads the row, then counts   *)
(* the attempt), "verify" (in the verification queue), "again" (re-read    *)
(* before another turn), "settle" (waiting for the lock with an outcome).  *)
Phase == {"submit", "turn", "check", "count", "verify", "again", "settle"}

Pipe == [step    : Step,
         attempt : Nat,
         phase   : Phase,
         aborted : BOOLEAN,     \* its AbortController fired
         result  : Outcome \cup {NoOutcome, Failure},
         tries   : Nat]         \* retryCount as this pipeline read it

TypeOK ==
    /\ subtasks \in [Step -> Row]
    /\ runs \in Seq(RunStatus)
    /\ taskStatus \in TaskStatus
    /\ up \in BOOLEAN
    /\ pipes \subseteq Pipe
    /\ cancelKeys \in [Step -> Nat]
    /\ verifyQueue \in Seq(Step \X Nat)
    /\ described \subseteq Nat
    /\ retrying \in [Step -> Nat]
    /\ attempts \in [Step -> Nat]
    /\ ops \in Nat

Init ==
    /\ subtasks = [s \in Step |-> FreshRow]
    /\ runs = <<>>
    /\ taskStatus = "todo"
    /\ up = TRUE
    /\ pipes = {}
    /\ cancelKeys = [s \in Step |-> 0]
    /\ verifyQueue = <<>>
    /\ described = {}
    /\ retrying = [s \in Step |-> 0]
    /\ attempts = [s \in Step |-> 0]
    /\ ops = 0

-----------------------------------------------------------------------------
(* Rows                                                                    *)

Running(rs)  == {i \in DOMAIN rs : rs[i] = "running"}
IsRunning(rs) == Running(rs) # {}
InProgress(rows) == {s \in Step : rows[s].status = "in_progress"}

Completed(row, result) == [row EXCEPT !.status = "completed", !.result = result]
Failed(row) == [row EXCEPT !.status = "failed", !.result = NoOutcome]

(* failSubtask on every step of K.                                         *)
Failing(rows, K) ==
    [s \in Step |-> IF s \in K THEN Failed(rows[s]) ELSE rows[s]]

Resetting(rows, K) ==
    [s \in Step |-> IF s \in K THEN FreshRow ELSE rows[s]]

(* completeOrLoop: complete, fail, or back to pending for one more round.  *)
CompleteOrLoop(row, s, result) ==
    CASE LoopMax[s] = 0 \/ (LoopUntil[s] # {} /\ result \in LoopUntil[s]) ->
           Completed(row, result)
      [] LoopMax[s] # 0 /\ LoopUntil[s] = {} -> Failed(row)
      [] OTHER ->
           IF row.loopCount + 1 >= LoopMax[s]
           THEN Failed(row)
           ELSE [row EXCEPT !.status = "pending", !.retryCount = 0,
                            !.loopCount = row.loopCount + 1]

(* runs.finish: its WHERE clause only matches a row still running.         *)
Finish(rs, i, status) ==
    [rs EXCEPT ![i] = IF @ = "running" THEN status ELSE @]

(* Mutant of TaskAfter: a stopped run puts its task up for review.         *)
TaskAfterAnyEnd(rs, i, status, task) ==
    IF rs[i] # "running" THEN task
    ELSE IF status = "failed" THEN "todo" ELSE "review"

(* finishRun: the task follows the run, unless the run had finished.       *)
TaskAfter(rs, i, status, task) ==
    IF rs[i] # "running" THEN task
    ELSE IF status = "completed" THEN "review" ELSE "todo"

-----------------------------------------------------------------------------
(* advanceLocked and dispatch                                              *)

NewPipe(s, n) == [step |-> s, attempt |-> n, phase |-> "submit",
                  aborted |-> FALSE, result |-> NoOutcome, tries |-> 0]

(* claimPending then dispatch, for every step of K: a gate waits for a     *)
(* person, an agent step gets a pipeline, whose turn stores a cancel key   *)
(* (but for the steps of lost, whose session could not be created).        *)
Claiming(rows, K) ==
    [s \in Step |-> IF s \in K
                    THEN [rows[s] EXCEPT !.status = "in_progress",
                                         !.awaiting = (s \in Gate) \/ @]
                    ELSE rows[s]]

Dispatching(ps, keys, K, lost) ==
    /\ attempts' = [s \in Step |-> IF s \in K THEN attempts[s] + 1
                                              ELSE attempts[s]]
    /\ pipes' = ps \cup {NewPipe(s, attempts[s] + 1) : s \in K \ (Gate \cup lost)}
    /\ cancelKeys' = [s \in Step |-> IF s \in K \ (Gate \cup lost)
                                    THEN attempts[s] + 1 ELSE keys[s]]

(* The steps of K whose dispatch may throw, after they were claimed.       *)
MayLose(K) == IF SessionsFail THEN K \ Gate ELSE {}

(* finishIfDone: nothing while a step is in progress; otherwise what is    *)
(* still pending waits on itself and is skipped, and the run finishes.     *)
RunOutcome(rows) ==
    IF Pending(rows) = {} /\ \A s \in Step : rows[s].status # "failed"
    THEN "completed" ELSE "failed"

(* Mutant of FinishIfDone: steps that wait on each other are waited for.    *)
FinishUnlessWaiting(rows, rs, task) ==
    IF InProgress(rows) # {} \/ Pending(rows) # {}
    THEN /\ subtasks' = rows
         /\ runs' = rs
         /\ taskStatus' = task
    ELSE \E i \in Running(rs) :
         /\ subtasks' = rows
         /\ runs' = Finish(rs, i, RunOutcome(rows))
         /\ taskStatus' = TaskAfter(rs, i, RunOutcome(rows), task)

FinishIfDone(rows, rs, task) ==
    IF InProgress(rows) # {}
    THEN /\ subtasks' = rows
         /\ runs' = rs
         /\ taskStatus' = task
    ELSE \E i \in Running(rs) :
         /\ subtasks' = Skipping(rows, Pending(rows))
         /\ runs' = Finish(rs, i, RunOutcome(rows))
         /\ taskStatus' = TaskAfter(rs, i, RunOutcome(rows), task)

(* advanceLocked, after a locked section left the rows, the runs, the task *)
(* status, the pipelines and the cancel keys as given.                     *)
AdvanceRunning(rows, rs, task, ps, keys) ==
    \E skipped \in {SkipCascade(rows, Edge)} : \E ready \in {Ready(skipped, Edge)} :
        \/ /\ Dispatching(ps, keys, ready, {})
           /\ \E claimed \in {Claiming(skipped, ready)} :
                 FinishIfDone(claimed, rs, task)
        \/ \E K \in SUBSET ready, s \in MayLose(ready) :  \* thrown at s, after K
              /\ s \notin K
              /\ Dispatching(ps, keys, K \cup {s}, {s})
              /\ subtasks' = Claiming(skipped, K \cup {s})
              /\ runs' = rs
              /\ taskStatus' = task

Advance(rows, rs, task, ps, keys) ==
    IF IsRunning(rs)
    THEN \E given \in {rows} : AdvanceRunning(given, rs, task, ps, keys)
    ELSE /\ subtasks' = rows
         /\ runs' = rs
         /\ taskStatus' = task
         /\ Dispatching(ps, keys, {}, {})

-----------------------------------------------------------------------------
(* Operations of users, agents' tools, triggers and schedules              *)

Operation == up /\ ops < MaxOps /\ ops' = ops + 1

(* startRun.  reset is FALSE for callers that prepared the steps already.  *)
RunStarts(reset) ==
    /\ ~IsRunning(runs)
    /\ Len(runs) < MaxRuns
    /\ LET rows == IF reset THEN Resetting(subtasks, Step) ELSE subtasks
           rs   == Append(runs, "running") IN
       IF Step = {}
       THEN /\ described' = described \cup {Len(rs)}
            /\ runs' = rs
            /\ taskStatus' = "in_progress"
            /\ UNCHANGED <<subtasks, pipes, cancelKeys, attempts>>
       ELSE /\ Advance(rows, rs, "in_progress", pipes, cancelKeys)
            /\ UNCHANGED described
    /\ UNCHANGED <<up, verifyQueue, retrying>>

StartRun(reset) == Operation /\ RunStarts(reset)

(* sessionService.cancelRun on the cancel keys of the steps in K: only a   *)
(* turn the session service has registered is aborted.                     *)
Aborting(K) ==
    {IF p.step \in K /\ p.phase = "turn" /\ p.attempt = cancelKeys[p.step]
     THEN [p EXCEPT !.aborted = TRUE] ELSE p : p \in pipes}

(* Mutant of CancelRun: waiting gates are left alone.                      *)
CancelTurnsOnly ==
    /\ Operation
    /\ \E i \in Running(runs) :
          /\ runs' = Finish(runs, i, "cancelled")
          /\ taskStatus' = TaskAfter(runs, i, "cancelled", taskStatus)
    /\ subtasks' = Failing(subtasks, InProgress(subtasks) \ Gate)
    /\ pipes' = Aborting(InProgress(subtasks))
    /\ UNCHANGED <<up, cancelKeys, verifyQueue, described, retrying, attempts>>

(* cancelRun: abort and fail every step in progress, clear waiting gates.  *)
CancelRun ==
    /\ Operation
    /\ \E i \in Running(runs) :
          /\ runs' = Finish(runs, i, "cancelled")
          /\ taskStatus' = TaskAfter(runs, i, "cancelled", taskStatus)
    /\ subtasks' = [s \in Step |-> IF s \in InProgress(subtasks)
                                   THEN [Failed(subtasks[s]) EXCEPT !.awaiting = FALSE]
                                   ELSE subtasks[s]]
    /\ pipes' = Aborting(InProgress(subtasks))
    /\ UNCHANGED <<up, cancelKeys, verifyQueue, described, retrying, attempts>>

(* retrySubtask looks at the status first, and queues for the lock after.  *)
RetryCheck(s) ==
    /\ Operation
    /\ subtasks[s].status \in {"failed", "skipped"}
    /\ retrying' = [retrying EXCEPT ![s] = @ + 1]
    /\ UNCHANGED <<database, up, pipes, cancelKeys, verifyQueue, described,
                   attempts>>

(* Mutant of Reopened: a retry creates a run without looking for one.      *)
AlwaysANewRun(rs) == Append(rs, "running")

(* Continue the latest run, or create one.                                 *)
Reopened(rs) ==
    CASE IsRunning(rs) -> rs
      [] rs = <<>>     -> <<"running">>
      [] OTHER         -> [rs EXCEPT ![Len(rs)] = "running"]

(* The locked part: reset the step and all downstream of it and move on.   *)
RetryLocked(s) ==
    /\ up
    /\ retrying[s] > 0
    /\ retrying' = [retrying EXCEPT ![s] = @ - 1]
    /\ Advance(Resetting(subtasks, {s} \cup Downstream(Edge, s)), Reopened(runs),
               "in_progress", pipes, cancelKeys)
    /\ UNCHANGED <<up, verifyQueue, described, ops>>

(* executeSubtask: start one ready step, with a run if none is going.      *)
ExecuteSubtask(s) ==
    /\ Operation
    /\ subtasks[s].status = "pending"
    /\ MayRun(subtasks, Edge, s)
    /\ IsRunning(runs) \/ Len(runs) < MaxRuns
    /\ runs' = IF IsRunning(runs) THEN runs ELSE Append(runs, "running")
    /\ taskStatus' = IF IsRunning(runs) THEN taskStatus ELSE "in_progress"
    /\ subtasks' = Claiming(subtasks, {s})
    /\ \E lost \in {{}} \cup {{t} : t \in MayLose({s})} :
          Dispatching(pipes, cancelKeys, {s}, lost)
    /\ UNCHANGED <<up, verifyQueue, described, retrying>>

(* executeSubtasks while a run is going; otherwise it is StartRun(FALSE).  *)
ExecuteSubtasks ==
    /\ Operation
    /\ IsRunning(runs)
    /\ Advance(subtasks, runs, taskStatus, pipes, cancelKeys)
    /\ UNCHANGED <<up, verifyQueue, described, retrying>>

(* updateTaskStatus: the board moves the task, whatever its run does.      *)
MoveTask(status) ==
    /\ Operation
    /\ taskStatus' = status
    /\ UNCHANGED <<subtasks, runs, memory, attempts>>

(* completeSubtask and failSubtask (API): whatever state the step is in.   *)
CompleteSubtask(s, result) ==
    /\ Operation
    /\ Advance([subtasks EXCEPT ![s] = Completed(@, result)], runs, taskStatus,
               pipes, cancelKeys)
    /\ UNCHANGED <<up, verifyQueue, described, retrying>>

FailSubtask(s) ==
    /\ Operation
    /\ Advance([subtasks EXCEPT ![s] = Failed(@)], runs, taskStatus,
               Aborting({s}), cancelKeys)
    /\ UNCHANGED <<up, verifyQueue, described, retrying>>

(* Mutant of ResolveApproval: neither the status nor the sentinel is       *)
(* checked, so an answered gate can be answered again.                     *)
ResolveAnyGate(g, decision) ==
    /\ up
    /\ subtasks[g].status # "pending"
    /\ Advance([subtasks EXCEPT ![g] =
                  [Completed(@, decision) EXCEPT !.awaiting = FALSE,
                                                 !.decision = decision]],
               runs, taskStatus, pipes, cancelKeys)
    /\ UNCHANGED <<up, verifyQueue, described, retrying, ops>>

(* resolveApproval: the gate must still be in progress and waiting.        *)
ResolveApproval(g, decision) ==
    /\ up
    /\ subtasks[g].status = "in_progress"
    /\ subtasks[g].awaiting
    /\ Advance([subtasks EXCEPT ![g] =
                  [Completed(@, decision) EXCEPT !.awaiting = FALSE,
                                                 !.decision = decision]],
               runs, taskStatus, pipes, cancelKeys)
    /\ UNCHANGED <<up, verifyQueue, described, retrying, ops>>

-----------------------------------------------------------------------------
(* The pipeline of a step, one action per await                            *)

Moved(p, q) == (pipes \ {p}) \cup {q}

(* A turn of p starts: its cancel key replaces whatever key is there.      *)
KeyOf(p)   == [cancelKeys EXCEPT ![p.step] = p.attempt]
(* The turn is over: its key goes, unless another turn replaced it.        *)
DropKey(p) == [cancelKeys EXCEPT ![p.step] = IF @ = p.attempt THEN 0 ELSE @]

(* The session service reaches inflightRuns.set: the turn can be aborted.  *)
TurnRegisters(p) ==
    /\ p.phase = "submit"
    /\ pipes' = Moved(p, [p EXCEPT !.phase = "turn"])
    /\ UNCHANGED <<database, up, cancelKeys, verifyQueue, described, retrying,
                   attempts, ops>>

(* submitMessageStreaming returns: a reply, or an error (an aborted turn   *)
(* usually reports one).                                                   *)
TurnEnds(p, result) ==
    /\ \/ p.phase = "turn"
       \/ p.phase = "submit" /\ result = Failure
    /\ pipes' = Moved(p, [p EXCEPT !.phase = "check", !.aborted = FALSE,
                                   !.result = result])
    /\ cancelKeys' = DropKey(p)
    /\ UNCHANGED <<database, up, verifyQueue, described, retrying, attempts, ops>>

(* onStepTurnFinished reads the row: the step must still be in progress.   *)
CheckStep(p) ==
    /\ p.phase = "check"
    /\ pipes' = IF subtasks[p.step].status # "in_progress" THEN pipes \ {p}
                ELSE Moved(p, [p EXCEPT !.phase = IF p.result = Failure
                                                  THEN "settle" ELSE "count"])
    /\ UNCHANGED <<database, up, cancelKeys, verifyQueue, described, retrying,
                   attempts, ops>>

(* incrementRetryCount, then the queue for the task's verifier.            *)
CountAttempt(p) ==
    /\ p.phase = "count"
    /\ subtasks' = [subtasks EXCEPT ![p.step].retryCount = @ + 1]
    /\ pipes' = Moved(p, [p EXCEPT !.phase = "verify",
                                   !.tries = subtasks[p.step].retryCount + 1])
    /\ verifyQueue' = Append(verifyQueue, <<p.step, p.attempt>>)
    /\ UNCHANGED <<runs, taskStatus, up, cancelKeys, described, retrying,
                   attempts, ops>>

(* The verifier's turn is over.  accepted: complete, no verdict, or a      *)
(* reply with concrete artifacts.                                          *)
VerifyEnds(p, accepted) ==
    /\ p.phase = "verify"
    /\ verifyQueue # <<>>
    /\ Head(verifyQueue) = <<p.step, p.attempt>>
    /\ verifyQueue' = Tail(verifyQueue)
    /\ pipes' = Moved(p,
          CASE accepted -> [p EXCEPT !.phase = "settle"]
            [] ~accepted /\ p.tries >= MaxRetries ->
                 [p EXCEPT !.phase = "settle", !.result = Failure]
            [] OTHER -> [p EXCEPT !.phase = "again"])
    /\ UNCHANGED <<database, up, cancelKeys, described, retrying, attempts, ops>>

(* Another turn in the same session, if the step and a run are still on.   *)
TurnAgain(p) ==
    /\ p.phase = "again"
    /\ IF subtasks[p.step].status = "in_progress" /\ IsRunning(runs)
       THEN /\ pipes' = Moved(p, NewPipe(p.step, p.attempt))
            /\ cancelKeys' = KeyOf(p)
       ELSE /\ pipes' = pipes \ {p}
            /\ UNCHANGED cancelKeys
    /\ UNCHANGED <<database, up, verifyQueue, described, retrying, attempts, ops>>

(* Mutant of SettleStep: the outcome is stored and the graph not moved on. *)
SettleWithoutAdvance(p) ==
    /\ p.phase = "settle"
    /\ subtasks' = IF subtasks[p.step].status = "in_progress" /\ IsRunning(runs)
                   THEN [subtasks EXCEPT ![p.step] =
                           IF p.result = Failure THEN Failed(@)
                           ELSE CompleteOrLoop(@, p.step, p.result)]
                   ELSE subtasks
    /\ pipes' = pipes \ {p}
    /\ UNCHANGED <<runs, taskStatus, cancelKeys, attempts, up, verifyQueue,
                   described, retrying, ops>>

(* settleStep: apply the outcome if the step and a run are still on.       *)
SettleStep(p) ==
    /\ p.phase = "settle"
    /\ IF subtasks[p.step].status = "in_progress" /\ IsRunning(runs)
       THEN Advance([subtasks EXCEPT ![p.step] =
                       IF p.result = Failure THEN Failed(@)
                       ELSE CompleteOrLoop(@, p.step, p.result)],
                    runs, taskStatus, pipes \ {p}, cancelKeys)
       ELSE /\ pipes' = pipes \ {p}
            /\ UNCHANGED <<database, cancelKeys, attempts>>
    /\ UNCHANGED <<up, verifyQueue, described, retrying, ops>>

(* A database call of the pipeline throws: the error is logged, the step   *)
(* stays in progress with nobody working on it.                            *)
PipeDies(p) ==
    /\ p.phase \in {"check", "count", "verify", "again", "settle"}
    /\ p.phase = "verify" =>
          verifyQueue # <<>> /\ Head(verifyQueue) = <<p.step, p.attempt>>
    /\ verifyQueue' = IF p.phase = "verify" THEN Tail(verifyQueue) ELSE verifyQueue
    /\ pipes' = pipes \ {p}
    /\ UNCHANGED <<database, up, cancelKeys, described, retrying, attempts, ops>>

PipeSteps(p) ==
    /\ up
    /\ \/ TurnRegisters(p)
       \/ \E result \in AgentSays \cup {Failure} : TurnEnds(p, result)
       \/ CheckStep(p)
       \/ CountAttempt(p)
       \/ \E accepted \in BOOLEAN : VerifyEnds(p, accepted)
       \/ TurnAgain(p)
       \/ SettleStep(p)

(* runDescription, for a task without steps.                               *)
DescriptionEnds(i, status) ==
    /\ up
    /\ described' = described \ {i}
    /\ runs' = Finish(runs, i, status)
    /\ taskStatus' = TaskAfter(runs, i, status, taskStatus)
    /\ UNCHANGED <<subtasks, up, pipes, cancelKeys, verifyQueue, retrying,
                   attempts, ops>>

-----------------------------------------------------------------------------
(* Crash, recovery and the periodic safety net                             *)

Busy(s) == \E p \in pipes : p.step = s

Crash ==
    /\ Operation
    /\ up' = FALSE
    /\ pipes' = {}
    /\ cancelKeys' = [s \in Step |-> 0]
    /\ verifyQueue' = <<>>
    /\ described' = {}
    /\ retrying' = [s \in Step |-> 0]
    /\ UNCHANGED <<database, attempts>>

(* recoverInterruptedRuns, before the server answers requests: fail what   *)
(* was in progress (waiting gates keep waiting) and move the run on.       *)
Recover ==
    /\ ~up
    /\ up' = TRUE
    /\ IF Step = {}
       THEN /\ runs' = [i \in DOMAIN runs |-> IF runs[i] = "running" THEN "failed"
                                              ELSE runs[i]]
            /\ taskStatus' = IF IsRunning(runs) THEN "todo" ELSE taskStatus
            /\ UNCHANGED <<subtasks, pipes, cancelKeys, attempts>>
       ELSE Advance(IF IsRunning(runs)
                    THEN Failing(subtasks, {s \in InProgress(subtasks) :
                                              ~subtasks[s].awaiting})
                    ELSE subtasks,
                    runs, taskStatus, pipes, cancelKeys)
    /\ UNCHANGED <<verifyQueue, described, retrying, ops>>

(* checkStuckSubtasks, for one step old enough.                            *)
CheckStuck(s) ==
    /\ up
    /\ subtasks[s].status = "in_progress"
    /\ ~subtasks[s].awaiting
    /\ ~Busy(s)
    /\ Advance(Failing(subtasks, {s}), runs,
               IF IsRunning(runs) THEN taskStatus ELSE "todo",
               pipes, cancelKeys)
    /\ UNCHANGED <<up, verifyQueue, described, retrying, ops>>

(* What happens to a task with steps.                                      *)
StepsNext ==
    \/ \E reset \in BOOLEAN : StartRun(reset)
    \/ CancelRun
    \/ \E s \in Step : RetryCheck(s)
    \/ \E s \in Step : RetryLocked(s)
    \/ \E s \in Step : ExecuteSubtask(s)
    \/ ExecuteSubtasks
    \/ \E status \in {"todo", "done"} : MoveTask(status)
    \/ \E s \in ByHand, result \in AgentSays : CompleteSubtask(s, result)
    \/ \E s \in ByHand : FailSubtask(s)
    \/ \E g \in Gate, d \in {"approved", "rejected"} : ResolveApproval(g, d)
    \/ \E p \in pipes : PipeSteps(p)
    \/ \E p \in pipes : up /\ PipeDies(p)
    \/ Crash
    \/ Recover
    \/ \E s \in Step : CheckStuck(s)

(* A task without steps has the turn of its description besides.           *)
DescriptionNext ==
    \E i \in described, status \in {"completed", "failed"} :
        DescriptionEnds(i, status)

Next == StepsNext \/ DescriptionNext

Spec == Init /\ [][Next]_vars

(* For what is composed with the engine: a retry in this step, a dispatch  *)
(* that threw after its step was claimed, and the runs that finishRun ends *)
(* (a retry may reopen a run only to end it again).                        *)
RetriesNow == up' /\ \E s \in Step : retrying'[s] < retrying[s]

StartThrew ==
    \E s \in Step \ Gate : attempts'[s] > attempts[s]
                           /\ \A p \in pipes' : p.attempt # attempts'[s] \/ p.step # s

EndedNow ==
    {i \in DOMAIN runs' : /\ runs'[i] # "running"
                          /\ \/ i \notin DOMAIN runs
                             \/ runs[i] = "running"
                             \/ RetriesNow /\ ~IsRunning(runs) /\ i = Len(runs)}

(* Agent and verifier turns return (providers and tools have timeouts),    *)
(* promise continuations and lock queues are served, the safety-net timer  *)
(* fires, and a crashed server is started again.  Nothing is assumed of    *)
(* people: gates may wait for ever.                                        *)
Fairness ==
    /\ WF_vars(\E p \in pipes : PipeSteps(p))
    /\ WF_vars(DescriptionNext)
    /\ WF_vars(\E s \in Step : RetryLocked(s))
    /\ WF_vars(\E s \in Step : CheckStuck(s))
    /\ WF_vars(Recover)

FairSpec == Spec /\ Fairness

(* The same for a task with steps, which never has a description turn.     *)
FairStepsSpec == Init /\ [][StepsNext]_vars /\ Fairness

-----------------------------------------------------------------------------
(* Properties                                                              *)

(* "Only one run per task is ever running, so this run owns the task"      *)
(* (finishRun): start, retry and single-step execution race for it, and    *)
(* retries reopen finished runs.                                           *)
OneRunning == \A i, j \in Running(runs) : i = j

(* No wakeup is lost: a run that is going has a step in progress, whose    *)
(* end will move it on; a task without steps has its turn in flight.       *)
RunHasWork ==
    IsRunning(runs) =>
      IF Step = {} THEN up => Running(runs) \cap described # {}
                   ELSE InProgress(subtasks) # {}

(* A run does not finish under a step: once no run is going, no step is    *)
(* in progress, whichever of stop, failure, crash or completion ended it.  *)
IdleIsQuiet == ~IsRunning(runs) => InProgress(subtasks) = {}

(* The task follows its run: it is in progress when a run begins, in review *)
(* or to do when it ends, and no pipeline, verdict or description that     *)
(* comes too late moves it (only people do, on the board).                 *)
TaskFollowsRun ==
    [][/\ ~IsRunning(runs) /\ IsRunning(runs') => taskStatus' = "in_progress"
       /\ IsRunning(runs) /\ ~IsRunning(runs') =>
             taskStatus' = IF \E i \in Running(runs) : runs'[i] = "completed"
                           THEN "review" ELSE "todo"
       /\ runs' = runs /\ ops' = ops /\ retrying' = retrying =>
             taskStatus' = taskStatus]_vars

(* A step in progress never has an upstream step that is still to run: a   *)
(* retry or a restart resets everything downstream of what it re-runs.     *)
UpstreamSettled ==
    \A s \in InProgress(subtasks) : ~Waits(subtasks, Edge, s)

(* A step in progress is on a branch that was taken: no step before it     *)
(* failed, was rejected, or came out otherwise than its edge asks (steps   *)
(* marked by hand excepted).                                               *)
BranchTaken ==
    \A s \in InProgress(subtasks) : \A e \in Incoming(Edge, s) :
        e.from \in ByHand \/ ~Refuses(subtasks, e)

(* What makes them inductive: pipelines belong to agent steps, a gate with *)
(* a decision is over, and only a task without steps sends its description.*)
AgentPipes    == \A p \in pipes : p.step \notin Gate
DecidedIsOver == \A g \in Gate : subtasks[g].decision # "none" => IsTerminal(subtasks[g])
NoDescription == Step # {} => described = {}

(* What holds even when somebody resets the steps of a run that is going:  *)
(* types, one run, no step in progress without it, and every step in       *)
(* progress on a branch that was taken.                                    *)
OrderInv ==
    /\ TypeOK
    /\ OneRunning
    /\ IdleIsQuiet
    /\ UpstreamSettled
    /\ BranchTaken
    /\ AgentPipes
    /\ DecidedIsOver
    /\ NoDescription

(* The inductive invariant of the engine: there is work for the run too.   *)
EngineInv == OrderInv /\ RunHasWork

(* A gate's decision is final: a second answer, a late click or a hand     *)
(* mark never changes it; only a reset for another round clears it.        *)
DecisionIsFinal ==
    [][\A g \in Gate : subtasks[g].decision # "none" =>
         subtasks'[g].decision \in {"none", subtasks[g].decision}]_vars

(* The first finisher of a run wins: a run that ended keeps its status,    *)
(* "so a cancellation can't be overwritten by a late completion"           *)
(* (WorkflowRunsRepository.finish); only a retry changes it, by reopening  *)
(* the latest run when none is going.                                      *)
FinishedStays ==
    [][\A i \in DOMAIN runs :
         runs[i] # "running" /\ runs'[i] # runs[i]
           => /\ i = Len(runs) /\ ~IsRunning(runs)
              /\ \E s \in Step : retrying'[s] < retrying[s]]_vars

(* For a task with steps the engine implements WorkflowRun: pipelines,     *)
(* keys, queues, retries and crashes come down to one run at a time with   *)
(* somebody at work in it.                                                 *)
Abstract == INSTANCE WorkflowRun WITH working <- InProgress(subtasks)

ImplementsRun == Abstract!Spec

(* Every run comes to an end, unless it waits for a person at a gate.      *)
GateWaits == \E g \in Gate : /\ subtasks[g].status = "in_progress"
                             /\ subtasks[g].awaiting
RunSettles == IsRunning(runs) ~> (~IsRunning(runs) \/ GateWaits)

-----------------------------------------------------------------------------
(* What comments of the source say, and the code does not do               *)

(* settleStep: the outcome is "Ignored if the step is no longer running    *)
(* (stopped, reset or edited)": an outcome is only applied to the attempt  *)
(* it came from.                                                           *)
OwnOutcomeOnly ==
    [][\A p \in {q \in pipes \ pipes' : q.phase = "settle"} :
         subtasks'[p.step] # subtasks[p.step]
           => p.attempt = attempts[p.step]]_vars
=============================================================================
