# A verification model of OpenAidy

OpenAidy runs AI agents: a server keeps sessions, tasks and their workflows in
a database, sends turns to model providers, and lets people, schedules and
messages from outside start the work. This directory holds TLA+ models of the
parts where order, interruption and restart matter, the TLC configurations
that check them, and proofs checked by TLAPS.

Paths below are relative to `apps/server/src` unless they begin with
`packages/`.

## Inventory

| Part | State | Operations | Correct when |
| --- | --- | --- | --- |
| Step graph (`tasks/execution/subtask-graph.ts`) | none | resolve a pending step, reach downstream, cycle check | each step runs, waits or is skipped as its edges say |
| Workflow engine (`tasks/execution/task-execution.ts`) | step rows, run rows, task status; in memory a lock queue per task, a verification queue, busy counts, cancel keys | start, stop, retry, execute, mark by hand, answer a gate, settle, recover, find orphans | one run at a time, every run ends, nothing runs out of order or after its run |
| Graph editing (`tasks/operations/`) | edges, steps | create, change and delete steps and edges, replace the graph, apply a template | acyclic, locked while a run goes, stale results reset, replaced whole or not at all |
| Graph validation (`packages/workflow-templates`) | none | validate, find a cycle | refuses what cannot run |
| Planning (`planning/`) | planning status, steps | plan, replace steps | the plan is what runs |
| Task schedules (`tasks/execution/task-schedule-executor.ts`, `recurring/`) | schedule rows, history rows | claim, execute, reschedule, trigger, pause, resume, recover | fires once when due, keeps its cap, its history tells what happened |
| Scheduler and pulses (`scheduler/`, `pulses/`) | job rows, job run rows, one tick at a time | claim, execute, retry with backoff | no job starves, none runs twice for one due time |
| Triggers (`tasks/triggers/`) | trigger rows, reply targets, run listeners | match a message, start a run, answer when it ends | each accepted message starts one run and gets its own answer |
| Sessions (`sessions/service.ts`) | session, run and message rows; turns in flight | submit, stream, run tools, cancel, reap | a turn ends once and everyone who follows it hears so; the transcript can be sent again |
| Transcript repair (`providers/history-repair.ts`) | none | repair | a provider accepts the result; nothing said is lost |
| Gateway (`websocket/`) | connections, nodes, invocations, subscriptions, stream buffers | request, answer, time out, sweep, resume | an invocation ends once, a resumed stream misses nothing |
| Dispatch (`dispatch/`) | dispatch records, events | start, follow and cancel a sub-agent | a dispatch ends once and its parent hears of it |
| Pairing (`websocket/pairing-service.ts`) | requests, devices | request, approve, reject, expire | one decision per request |
| Backups, update, channels, MCP, tools, addons, files, front ends | files, processes, connections | I/O | see Not modelled |

How they interact. People, agents' tools, chat messages and schedules call the
engine. The engine calls the session service for turns and hears only that a
turn returned; when a run ends, it settles the schedule's history row and calls
listeners, one of which answers the chat that asked. The gateway starts turns
for clients, forwards the events of runs to the connections that watch them,
and keeps a buffer for those who come back. The scheduler's tick drives pulses
and task schedules. Planner, templates and tools write whole graphs. Rows
survive a crash. Lock queues, pipelines, cancel keys, buffers, invocations and
the executions of the tick do not, so the server recovers before it answers.

What makes this hard: turns last minutes and are under no lock; a stop, a
retry, an edit or a restart may come between any two awaits; rows are written
from copies read minutes before; a run can be reopened after it ended; one
failure is reported by several layers; and everything may be lost at any moment
but the rows.

## Modules

| Module | Models | Proofs |
| --- | --- | --- |
| `SubtaskGraph` | the pure part of the engine, stated without loops: what happens to a pending step, the skip cascade, what lies downstream, the cycle check | used by the proofs below |
| `SubtaskGraphLoops` | the same functions, and `findCycle`, as the source computes them: one call of one of them, on any graph and any mix of statuses, with its loops, queues and stacks, one action per iteration | `GraphEditing_proofs` |
| `WorkflowEngine` | the life of one task's runs: `TaskExecution` | `WorkflowEngine_proofs` |
| `WorkflowRun` | what the engine promises its callers, without pipelines, queues or keys | `WorkflowEngine_proofs` |
| `TaskTriggers` | `WorkflowEngine` composed with the chat messages that start runs and are told how they end | `TaskTriggers_proofs` |
| `ScheduledTask` | `WorkflowEngine` composed with a task schedule and its history rows | `ScheduledTask_proofs` |
| `GraphEditing` | edits of single steps and edges by several editors at once, and as much of the engine as an edit can notice | `GraphEditing_proofs` |
| `GraphReplacement` | writers of a whole graph, their rollback, and runs | `GraphReplacement_proofs` |
| `TaskSchedules` | schedule rows, their owners, the executor | |
| `Pulses` | pulse rows, job run rows, their owners, the executor | |
| `Timetable` | the scheduler's tick over `TaskSchedules` and `Pulses` | `Timetable_proofs` |
| `NodeGateway` | connections, the registry of nodes, invocations of nodes, sweeps | `NodeGateway_proofs` |
| `HistoryRepair`, `RepairScan` | `repairProviderHistory`, and the machine that reads every transcript | `SessionTurns_proofs` |
| `RunStream` | the events of a session's runs: emitter, forwarding, buffer, resuming | `SessionTurns_proofs` |
| `SessionTurns` | `RunStream` and `HistoryRepair` composed with the turns of one session | `SessionTurns_proofs` |
| `MC*` | graphs, values and symmetries for TLC | |

### How the state corresponds to the code

**Engine.** In `WorkflowEngine`, `subtasks`, `runs` and `taskStatus` are the
rows of the database and survive a crash. `pipes`, `cancelKeys`, `verifyQueue`,
`described` and `retrying` stand for what only the process knows: the chains of
awaits that follow a dispatched step, the keys a stop aborts turns by, the
queue that lets one verifier of a task work at a time, the turn of a task
without steps, and calls of `retrySubtask` that wait for the lock. `attempts`
numbers the dispatches of a step so that a property can tell one attempt's
result from another's; the code keeps no such number, and the model reads it
only to tell pipelines apart: in the verification queue, and by their cancel
keys (in the code, by session). A result is abstracted to what conditions can
tell of it: an edge carries the set of outcomes its condition accepts, and a
loop those that end it.

What runs under the task lock (`withLock`) is one action. What does not is
split at its awaits:

| Action | Code |
| --- | --- |
| `StartRun`, `CancelRun` | `startRun`, `cancelRun` |
| `RetryCheck`, `RetryLocked` | `retrySubtask` before and under the lock |
| `ExecuteSubtask`, `ExecuteSubtasks` | the calls of the same names |
| `CompleteSubtask`, `FailSubtask`, `ResolveApproval`, `MoveTask` | marking by hand, answering a gate, moving the card |
| `TurnRegisters`, `TurnEnds` | the session service registers the turn; it returns |
| `CheckStep`, `CountAttempt`, `VerifyEnds`, `TurnAgain`, `SettleStep` | `onStepTurnFinished` after each of its awaits, up to `settleStep` |
| `PipeDies` | a database call of the pipeline throws |
| `DescriptionEnds` | `runDescription` comes back |
| `Crash`, `Recover` | the process ends; `recoverInterruptedRuns` at the next start |
| `CheckStuck` | the periodic `checkStuckSubtasks` |

Every locked section ends in `Advance` (`advanceLocked`): skip what cannot run,
claim and dispatch what can, and finish the run if nothing is in progress. A
dispatch may throw after the claim (`SessionsFail`).

**Triggers.** `asked` is how far the handler of a chat message has come,
`replyTo` the reply target in the run's row, `news` the endings that listeners
of `finishRun` are about to tell (nobody waits for them), `told` what the chat
was told.

**Editing.** An edit is a chain of stages, one per await: the first reads
(`Begin`), `Guard` (is a run going?), `Check` (does the new graph have new
errors?), `Write`, and `Find`, `Read`, `Reset` (`invalidateFrom`: is the step
completed, what lies downstream of it, put one after the other back to
pending). The engine is reduced to actions under the lock, which may come
between any two stages; the agents of a stopped run answer in the end, as they
do in `WorkflowEngine`. What a result was
made of is recorded when the step starts (`made`: its instructions, and which
results it was given), which is how properties know a stale result.

**Replacing.** A writer of `GraphReplacement` has asked whether a run goes
(the planner has not), lists or wipes the old steps, builds its own (a chain of
`Size` steps, a step or an edge per call), deletes the old ones in their order,
or, if building fails, lists the steps again and deletes all it did not find at
first. Steps are pairs of their writer and a number, so a property can say
whose steps are left.

**Schedules and pulses.** An execution of `TaskSchedules` is a record with the
row as it was claimed and a phase: begin, prepare (reset the steps, put the
task in progress), start, reschedule. Time is only the order in which
`nextRunAt`s come up (`due`, `pulsesDue`) and the one fact recovery looks at:
whether a row was last written more than five minutes ago (`aged`). `Pulses`
is built alike, with the audit rows of `job_runs`; a claim of a pulse writes
nothing. `ticking` and `beating` are the execution of the tick,
`tickInProgress` is that one of them is there. `ScheduledTask` replaces the
phases that prepare and start by the engine's own actions, and adds `history`
(`task_execution_history`), `rowOf` (the row an execution made) and
`runHistory` (`workflow_runs.historyId`).

**Gateway.** `known` and `heard` are the connection manager, `nodes` the
registry and `nodeOf` its index, `byCaller` and `byNode` the indexes of the
invocation manager. Handlers are synchronous between messages, so each is one
action. What has not been heard of for long is a choice, bounded by `MaxQuiet`.

**Sessions.** A turn of `SessionTurns` is at one of the awaits of
`handleStreamingMessage`, `executeStreamingRun` and `submitMessageStreaming`.
`net` is the shared state of the listeners in `RunStream`: who watches which
run, the buffer of the session's active run, what each client shows.
`log` is the table of messages in the order of their sequence, `row` that of
runs, `inflight` and `stopped` the map of abort controllers.

Variables called history in the modules (`finished`, `lost`, `revived`,
`successes`, `reopened`, `unaudited`, `stranded`, `said`, `muddled`, `unsent`,
`last`, `disturbed`, `robbed`, `raced`, `hasty`, `overtaken`) exist for
properties only: no guard reads them. The exceptions that properties make are
among them (that of `PendingHasParties` is a condition on the registry), so an
exception is a reachable event of the model and not a state left out.

## Runs

Every run is exhaustive within its bounds. Sizes are distinct states.

| Run | Instance | Shows |
| --- | --- | --- |
| `engine_fork` (275 thousand) | a gate, a step behind it that repeats at most twice, the step where both answers meet, and two steps that wait on each other; sessions fail, one step may be marked by hand; a verifier may send a step back once; 3 operations, 2 runs | `TypeOK`, `RunHasWork`, `IdleIsQuiet`, `UpstreamSettled`, `BranchTaken`, `DecisionIsFinal`, `TaskFollowsRun`, `ImplementsRun` (refinement of `WorkflowRun`), `RunSettles` (liveness) |
| `triggers` (80 thousand) | two messages, one task with one step, 1 operation beside them, 2 runs, calls and sessions fail | `ToldTheEnd`, `EveryoneIsTold` (liveness) |
| `scheduled_empty` (2.4 million) | one schedule on a task without steps, 2 edits, triggers or removals, 1 operation, 3 runs, database calls fail, starts may be refused for the graph | `HistoryMatches`, `TaskHasRun` |
| `timetable` (136 thousand) | one pulse, one schedule with a cap of 2, 1 retry, 1 act, 2 job runs, calls fail | `OneClaim`, `CountIsExact`, `RunningIsExecuted`, `CapHolds`, `OneShotOnce`, `RunningJobsRun`, `PulseServed`, `ScheduleServed` (liveness) |
| `loops` (479 thousand) | three steps, one a gate, every order of visiting edges and steps: the cascade on every graph of plain and conditional edges and every mix of statuses, the resolution of a step on every set of edges into it, the searches on every graph | `LoopsAgree`: every call returns what the definitions of `SubtaskGraph` say; `CyclesFound`: both cycle checks are exact |
| `edits` (674 thousand) | two editors, both of whom draw; every kind of edit; three steps, two of which exist at first; 3 edits and starts, at any time | `TypeOK`, `CycleNeedsRace`, `ResultsMatch` |
| `replacing` (887 thousand) | two replacements, and a template or the planner; graphs of two steps, 1 run, 1 failing call or crash | `LastStands`, `ReplacedOrUnchanged` |
| `gateway` (261 thousand) | three connections under a limit of two, two of them of one paired node, 2 invocations, one party not heard of | `IndexesAgree`, `PendingHasParties`, `EndsForAReason` |
| `history` (300 thousand) | every transcript of up to six messages over two calls | `ProviderReady`, `HealthyIsKept`, `NothingSaidIsLost` |
| `turns` (534 thousand) | two turns of one session that may overlap, one client that leaves and resumes, 2 rounds of up to 2 calls, 1 retry of an empty turn, 1 delta a round, 1 failure or restart | `OneEnding`, `WatchedIsWhole`, `EndIsTold`, `LogIsReady` |
| `engine_stale_outcome`, `turn_stop` | small instances that disagree with a comment | one property each, violated: see Findings |

**Why the bounds are enough.** An operation of the engine is what a person, a
tool, a trigger or a crash does; all that follows from it is unbounded, and
answers to gates and the locked halves of retries are not counted. Three are
start, stop (or crash), start again: every hazard found for the engine needs no
more. Two runs let a start follow a stop; a third would meet the same guards,
since nothing reads a finished run but the reopening of the latest. The graph
of `engine_fork` has each rule of `resolveSubtask` at once: an unconditional
and a conditional edge from a gate, a join of exclusive branches, a cycle, a
loop. `MaxRetries` is 2 there: at 1 no verifier ever sends a step back.
`scheduled_empty` allows three runs so that the owner's run can precede and
follow the schedule's, and two acts so that an execution by hand can overlap
the tick's while the owner edits or removes the schedule. In `edits`, edits and
starts of runs share one bound (`MaxActs`): two edits and a run, one edit and
two runs (or a retry), or three edits are what an answer, a stop and a reset
need to cross; stops and answers are not counted. In `timetable` one item of
each kind is the smallest instance in which one may hold up the other; more of
a kind share no state but the tick. `gateway` needs three connections for a node to reconnect while its
caller stays, and a limit of two for the third to be refused. Six messages are
two complete groups of a call and two results, or one group broken in each
place. In `turns`, two runs are the smallest overlap; with two clients the run
passes too (2.6 million states) but adds no case, since clients share only what
they watch. Larger instances are what the proofs are for.

**Symmetry and views.** `edits` uses the symmetry of the editors and of the
steps: only `Init` tells steps apart. `replacing` exchanges the two writers that
replace, `turns` the two messages with their runs, and `gateway` the connections
of the paired node, the others, and the ids that are given out. These runs check
no liveness. `turns` has a view that forgets the transcript once it is muddled
(turns overlapped, a choice had sibling calls, or a fault): no step reads the
transcript, and `LogIsReady` claims nothing of it from then on.

Deadlock is not checked, because each system really may stop: a task whose run
has ended or whose gate is never answered, a schedule that expired, a session
nobody writes to.

### Fairness

Weak fairness is assumed only of what the process does by itself:

- engine: the pipelines as a whole (turns return: each provider adapter gives
  up after 60 or 120 seconds and commands after 30 by default; promise
  continuations and lock queues are served in order; an external tool that
  never answers is outside this assumption), the description turn, the locked
  halves of retries, the safety net (an interval timer), and the recovery (a
  crashed server is started again);
- `TaskTriggers`: the same, and that handlers and listeners go on;
- `Timetable`: the poll for each of its runnables, executions and beats,
  restart. Pulses are asked first at each tick, so `ScheduleServed` is claimed
  where pulses are not claimable for ever.

That an invocation ends at its time-out is not stated: timers are not modelled,
and assuming that they fire would say just that. Nor is that the history row of
a schedule settles: with steps it need not (see Findings), and without them it
is `RunSettles` again.

A turn that may be aborted or not, answer or fail, is not assumed to do either.
A pipeline may die at any await and need not. Nothing is assumed of people: a
run may wait at a gate for ever, and `RunSettles` says so.

## Findings

Two runs check what a comment says and the code does not do.

- `engine_stale_outcome`: a run is stopped before the turn of its step is
  registered, so that nothing is aborted, and the workflow is started again: the
  old turn's outcome settles the new attempt
  (`tasks/execution/task-execution.ts:1051`; the comment at line 1041 says that
  it is ignored).
- `turn_stop`: a stop while the provider streams ends in an error event, so the
  run's row says failed and the client hears a stream error; the comment of
  `cancelRun` says the run is marked cancelled (`sessions/service.ts:433`). A
  stop during a tool ends the same way.

Below is what else the code does that a reader should know. Where a model
reaches it, the properties name it as an exception or claim nothing of it; a
crash inside a locked section, `planningStatus` and colliding sequence numbers
are outside the models.

Engine
- A stop between storing the cancel key and the registration of the turn
  aborts nothing; the agent works on, and its outcome is dropped, unless the
  step is in progress again by then.
- Two retries of one step both pass the check before the lock; the second
  resets the attempt that the first one started.
- A crash between the end of a run in the database and the update of its task
  (`tasks/execution/task-execution.ts:743`) leaves the task in progress; the
  model has no crash inside a locked section.

Graph
- Two edges drawn at once by two editors each pass the check and close a cycle
  (`tasks/operations/subtask-operations.ts:331`), which the schema leaves to the
  application to prevent (`packages/db/src/schema/tasks.ts:219`). `edits` has
  two who draw; `CycleNeedsRace` names the race (`raced`).
- A run started between `guardEdit` and the write has its graph changed under
  it, although edits are to be refused while a run is going
  (`tasks/operations/subtask-operations.ts:37`); `ResultsMatch` names such runs
  (`hasty`). So do templates and replacements, which ask once and then write and
  delete step by step (`tasks/service.ts:391`, `docs/tasks.md:178`): in
  `GraphReplacement` a run may start under a writer, and no property says that
  it keeps its graph.
- A stop, or a retry of a step further up, leaves agents at work; what such an
  agent says is then taken for the next attempt's, although it was given what
  was there before (`overtaken`). If the step's instructions or inputs have
  changed in between, the result does not match them.
- Deleting a step does not invalidate the steps after it, as deleting its edges
  would.
- A replacement whose deletions fail, or that a crash interrupts, leaves parts
  of both graphs, although the comment of `setGraph` says the task never ends
  up with half a graph (`tasks/operations/workflow-graph-operations.ts:160`).
  Of two that overlap, the rollback of one deletes steps the other created, and
  if both succeed both graphs may stay.
- `planTask` asks nobody whether a run goes, does not roll back, and does not
  check for cycles; a crash leaves `planningStatus` in progress.

Schedules and pulses
- The executor writes the status from the row as claimed: a pause made while
  the run goes is overwritten with active. An edit that read the row before it
  expired revives it (`revived`).
- A call that throws after the claim, or a crash and a restart within five
  minutes, leaves a schedule running with nobody at work (`lost`) until a
  restart more than five minutes later (`recurring/service.ts:86`).
- An execution cut short between preparing and starting, or whose start is
  refused because planning is enabled and the graph is empty or invalid
  (`tasks/service.ts:403`), leaves the task in progress with no run
  (`stranded`).
- On a task with steps, an execution that comes due while the run of an earlier
  one goes resets that run's steps before its own start is refused
  (`tasks/execution/task-schedule-executor.ts:276`). The turn at work then
  counts for nothing, nothing moves the run on, and its history row says
  executing, where `docs/task-schedules.md:43` calls runs fully independent.
  `OnlyPreparingTakesWork` proves that this is the only way a run loses its
  work.
- A crash between the two writes of a job run leaves it queued for ever.

Triggers
- The final message reads the steps after the run ended, so a run started
  meanwhile may empty or replace the results. The endings of a retried run may
  arrive in either order. A message whose start threw after the run had begun
  is answered by the chat agent as well.

Gateway
- Only registering stamps `lastSeen`, so the sweep unregisters nodes in use; a
  swept connection stays open and is no longer counted; a node stays registered
  after its connection closed; a connection that registers twice leaves its
  first node out of the index. The invocations of a closing connection are
  ended, where the comment at `websocket/invocation-manager.ts:384` lets them
  complete.
- A call to a node that was unregistered, swept or registered again elsewhere,
  whose connection then closes, stays pending until its time-out
  (`websocket/index.ts:962`), where `websocket/invocation-manager.ts:422` says
  that all pending invocations fail. `PendingHasParties` excepts just these: the
  registry no longer leads from the connection to the node that was asked.

Sessions
- A user's message that came in while a call was out is put after the groups
  that follow at once too, not right after its own
  (`providers/history-repair.ts:125`; the comments at lines 58 and 152).
  `NothingSaidIsLost` says how far it moves.
- Rows of runs have no status guard: the reaper and the turn may overwrite each
  other, a failure after the success turns it into a failure, a stop between
  the answer and the success is lost.
- A failure between the registration of a turn and the try around it leaves the
  entry in flight and its timer.
- `present_choices` ends the turn twice over; calls of the same round get no
  result.
- Two turns may run in one session, whose buffer keeps one of them; the
  sequence of a message is read before it is inserted, so two may collide.

## Proofs

TLAPS proves the following for every value of the constants, assuming only
what the `ASSUME`s of the modules say of them. `PROJECT.json` lists the
theorems; here is the argument of each module.

**`WorkflowEngine_proofs`**: for every graph (cyclic ones too), every loop
limit and every bound: types (`TypeCorrect`); never two runs going
(`NeverTwoRuns`); a run that is going always has somebody to move it on
(`NoLostWakeup`); nothing is in progress under no run (`QuietWhenIdle`); no
step runs before what it depends on (`InDependencyOrder`) or on a branch not
taken (`OnlyTakenBranches`); decisions of gates are final
(`DecisionsAreFinal`); the first finisher of a run wins (`FirstFinisherWins`);
the task goes where its run goes (`TaskFollowsItsRun`).

None of the invariants is inductive alone. That a run has work
(`RunHasWork`) needs that a step in progress keeps a run (`IdleIsQuiet`), which
needs that there is one run to keep (`OneRunning`): finishing one of two would
leave steps under the other. `BranchTaken` needs `UpstreamSettled`: an edge
cannot turn against a step in progress because the step it comes from has ended
and does not change, unless a reset takes both back. A retry resets the step and
all that lies downstream, and that set is closed under edges
(`DownstreamClosed`), so nothing behind it is left running. Gates add that they
have no pipeline (`AgentPipes`) and that a decided one is over
(`DecidedIsOver`). The conjunction is `EngineInv`; all of it but `RunHasWork` is
`OrderInv`, inductive by itself. Two lemmas carry the proof:
what `Advance` does to rows it is given, whatever they are (`AdvanceEffect`),
and that it keeps the invariant if they satisfied the part that is about rows
(`AdvanceSteady`). `TaskFollowsItsRun` adds that the description being turned
is that of a run there is (`DescribedExist`).

What each step does to the runs and to the task is stated once, whatever the
rows are (`MovesRuns`): it creates a run when none goes, ends the one that
goes, reopens one when none goes, or leaves the runs alone. `NeverTwoRuns`,
`FirstFinisherWins` and `TaskFollowsItsRun` follow from that, and so does what
the modules that compose the engine with others need of it. From it and
`EngineInv` comes the refinement, `EngineImplementsRun`: with the steps in
progress as the abstract `working`, every initial state of the engine is one of
`WorkflowRun` and every step a step of it or a stutter, for any graph with a
step in it.

**`GraphEditing_proofs`**: however many editors draw, and whatever else is
edited and run meanwhile, the graph gets a cycle only if edges are added between
another editor's check and its write (`OnlyRacesCloseCycles`). The invariant
(`Drawn`) says that the graph has no cycle and that an editor who is about to
write an edge closes none with it in the graph as it is *now* (`Trusts`). Steps
of the others keep that unless they add an edge between steps that had none:
they connect nothing that was not connected (`ReachBelow`), and those that do
add one are the race that `raced` records. An edge that passed the check
(`AcyclicAdd`), and the edges into a step no edge touches yet (`AcyclicInto`),
close no cycle. The check itself is exact: without cycles it refuses an edge if
and only if the edge closes one (`EdgeCheckIsExact`).

The second half proves that no completed step keeps a result of another graph
than the one there is (`ResultsStayMatched`), for any number of editors who
draw, cyclic graphs included, and any number of runs, started, stopped and
retried at any time. Two exceptions are named: a step whose last result is that
of an earlier attempt (`overtaken`), and, until a run puts all steps back, runs
started under an edit (`hasty`); both are in the model, and no action reads
them. `FitInv` says it of the states between: the result of a
completed step fits what is there, or is *in doubt*, because some edit at its
current stage has yet to look at that step or to put it back. A row is taken
out of doubt only by being reset. The hard half is that doubt spreads: when the
engine completes a step whose predecessor is about to be reset, the new result
must itself be in doubt, which is why an edit that has still to look owes all
that lies downstream *then*, and not the set it found when it began.

The last part proves of the loops of the source, for any graph and in whatever
order the database lists edges and steps, that they return what `SubtaskGraph`
defines without them (`LoopsAlwaysAgree`) and that `findCycle` and
`wouldCreateCycle` answer truly (`CyclesAlwaysFound`). Each call is a machine in
`SubtaskGraphLoops`, one step per iteration, so that the loop invariant
(`LoopsInv`) does the induction. The skip cascade is defined as a least closed
set; that set leaves nothing pending that must be skipped and contains nothing
that need not be (`CascadeSettles`). A pass of the loop never leaves it, since a
step that must be skipped still must when more is (`MoreIsSkipped`), so a pass
that skips nothing has found it all (`CascadeInv`). Of the searches, `DescendInv`
and `CheckInv` say that all they have met is reachable, and that every edge out
of it which they have not followed is still ahead of them. Of `findCycle`, that
the stack is a path of the steps under way (`StackInv`), and that a step which is
done lies on no cycle and leads only to steps that are done (`DoneInv`): so an
edge to a step on the stack closes the cycle that is cut out of it
(`ClosedInv`), and when all steps are done there is none.

**`GraphReplacement_proofs`**: for any writers, graphs of any size and any
number of faults: the last to list or wipe loses nothing it has written,
rollbacks apart (`LastWriterStands`); a replacement that succeeds leaves none of the old steps, one that reports a
failure of building none of its own, and undisturbed leaves exactly one of the
two graphs (`ReplacementsEndWell`). `ReplacementInv` says, at each phase, that
nothing is written ahead of the writer's counts, that edges join steps that
exist, that what a writer knows was there before it, that what it has left to
delete is all that remains of that, and that alone it has changed nothing else.

**`Timetable_proofs`**: one claim in flight (`TickClaimsOne`), counts
(`CountsAreExact`), statuses (`RunningRowsAreExecuted`), caps (`CapsHold`),
one-shots (`OneShotsRunOnce`) and the jobs of the pulses (`RunningJobsAreRun`),
for any schedules, pulses, caps and retry limits. `TimetableInv` says that the
copy an execution works from still agrees with the row in what matters
(`ClaimIsFresh`, `BeatIsFresh`) although others write in between, that a
schedule that can fire has room under its cap (`LiveHasRoom`), and that
executions by hand write no count. `JobsInv` adds, for the jobs, that no two
executions work on the same one (`RunsApart`) and that an execution which has
only its pulse left to reschedule has settled its job, or could not
(`RunSettled`).

**`ScheduledTask_proofs`**: the engine under a schedule. The row of the history
tells how its run ended (`HistoryTellsTheRun`), and a task in progress has a run
that goes or an execution that is about to start one (`InProgressHasRun`),
unless since the last run an execution came to nothing: cut short by an error or
a crash, or refused for its graph (`stranded`).
`ScheduledInv` adds that executions hold distinct runs and distinct rows
(`ExecutionsApart`, `RowsApart`). `EngineInv` is not available here: an
execution that prepares the task resets its steps while a run may still go, and
takes the work of that run away. The second half says that this is all the harm
it does: `OrderInv` survives any number of executions (`InOrderWhenScheduled`),
so that no step runs out of order or under no run; only preparing takes the work
of a run away (`OnlyPreparingTakesWork`); a task without steps has none to take,
and keeps `EngineInv` (`EmptyTasksAreSound`); finished runs and decisions of
gates stay what they are (`FirstFinisherWinsWhenScheduled`,
`DecisionsAreFinalWhenScheduled`).

**`TaskTriggers_proofs`**: `TheEndIsTold`: whoever's message started a run is
told once how it ended, and truly. `TriggerInv` says that no two runs answer the
same message (`ChatsApart`), that a message a run answers is past the point where
it could start another, and that one no run answers is told nothing
(`AnsweredAsk`). A run that a message starts is no operation of `WorkflowEngine`
(it is not counted as one), so what is proved of the engine alone is proved
again of the two together: `EngineInv` (`SoundWithMessages`), the action
properties (`FirstFinisherWinsWithMessages`, `DecisionsAreFinalWithMessages`,
`TaskFollowsItsRunWithMessages`) and the refinement of `WorkflowRun`
(`MessagesImplementRun`), from the same lemmas about what starting a run does.

**`NodeGateway_proofs`**: the indexes agree (`IndexesAlwaysAgree`), the caller
of a pending invocation is connected, and so is its target as long as the
registry leads from it to the node that was asked (`WaitedForAreThere`), and a
closing connection ends only what it should (`ClosingEndsForAReason`), for any
connections, nodes and limits. The first two need each other: the invocations
of a closing connection are found through the indexes, so a party that went
unindexed would be waited for until the time-out.

**`SessionTurns_proofs`**: a client hears one ending (`OneEndingIsHeard`),
shows all of a run it watches (`NothingIsMissed`) and hears of the end
(`EndsAreTold`), for any runs, clients and bounds. `TurnInv` says that a
buffered run goes on, that its snapshot is what it has said, that nobody heard
it end, and that who watches a run watches a buffered one or heard its end. The
log a turn sends to the model is well formed whenever it sends one
(`LogsAreReady`): `LogInv` says which calls are still without a result at each
point of a round (`MidRound`).

The same module proves the repair of transcripts, of any length and shape. Each
result follows its call and each call is answered in what is sent
(`AlwaysReady`): `ScanInv` says so of the part already accepted, and of the open
group that its results answer distinct calls of its own. A well-formed
transcript is sent as it is (`HealthyTranscriptsAreKept`): `KeptInv` says that
of such a transcript nothing is put off, and that a group that still waits at
the end of any transcript is the group the scan holds open (`GroupAt`). Nothing
but tool results is dropped, nothing is sent twice, and only a user's message
moves, from within a group backwards past the rest of it and past the groups
that follow at once (`NobodyIsSilenced`): `TellsInv` says that of all the scan
has in hand, the group unsettled. Every state of `RepairScan` is the end of some transcript, so
the invariants do the induction over sequences that the provers cannot.

**Only model-checked.** All liveness (`RunSettles`, `EveryoneIsTold`,
`PulseServed`, `ScheduleServed`): its fairness uses ENABLED, which the provers do not handle. That the loops of
`SubtaskGraphLoops` come to an end is not stated: what is proved is that an
answer, when there is one, is right.

## Not modelled

- Components that are I/O around a library, an external process or static
  data: channels, backups, update, MCP, model providers' wire formats, tools,
  addons, files, access tokens, prompts, front ends. They are most of the
  repository's lines (the front ends and route handlers alone are well over
  half), and what they do that can go wrong in order is in the components they
  call; so the models stand for a small share of the lines.
- Pairing: `approveRequest` awaits the token between its check and its writes
  (`websocket/pairing-service.ts:302`), so a rejection or an expiry may fall in
  between. Dispatch of sub-agents. Both are next in the plan.
- Engine: prompts, deliverables, `triggerSubtaskRetry` (only its tests call
  it), and a crash inside a locked section. Whether sessions can fail is a
  constant; the age a step must have before the safety net fails it is ignored,
  since a step somebody works on is never old.
- Editing: the two reads of `invalidateFrom` are one; rows are reset in any
  order; rows keep no retry or loop counts, and gates are not
  answered. `Introduces` may report a further error of a graph that has a cycle
  already, or not. A failure between the writes of a new step and its edges.
- Replacing: graphs are chains; agents, positions, deliverables, dry runs and
  drafting from a prompt are left out.
- Schedules: planning anew before each run, changing a cap, cron arithmetic.
  Pulses: backoff lengths, delivery of replies, switching the scheduler off.
- Triggers: editing them, matching rules, webhooks, messages about waiting
  approvals. In the model messages wait for the recovery; in `app.ts` channels
  connect shortly before it.
- Gateway: subscriptions, presence, rate limits, authentication.
- Sessions: turns without a run id, private chats, compaction of the context,
  stopping one tool, the liveness signal of a running turn.

## Plan

Done: step graph, engine and its abstract specification, editing, replacing,
timetable, a scheduled task, triggers, gateway, session turns, transcripts.
Next, in this order:

1. Pairing: one decision per request, against expiry and rejection.
2. Dispatch: a sub-agent's turn on top of `SessionTurns`, ended once, cancelled
   with its parent.

Where a component has several properties they share one run, so that each run
keeps one instance and one question. Type invariants that no run lists
(`Timetable`, `NodeGateway`, `SessionTurns`) are theorems.
