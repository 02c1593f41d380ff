---------------------------- MODULE TaskSchedules ----------------------------
(***************************************************************************)
(* Recurring tasks: the task_schedules rows (packages/db, task-schedules), *)
(* the edits of their owners (schedule-service), and the executor that the *)
(* scheduler's tick and "trigger now" drive (task-schedule-executor).      *)
(*                                                                         *)
(* An execution is a chain of awaits, one action each, that works from the *)
(* row as it was claimed; edits, removals and triggers fall in between.    *)
(* The clock is the order in which next-run times come up (due), and the   *)
(* one fact recovery reads: whether a row is older than five minutes.      *)
(* Schedules keep their plan (replanPolicy never).                         *)
(***************************************************************************)
EXTENDS Naturals, Sequences, SequencesExt

CONSTANTS
    Schedule,       \* ids of task_schedules rows, one per task
    MaxExecutions,  \* per schedule, its cap
    DbFails,        \* whether a database call of an execution may throw
    MaxActs         \* bound: edits, triggers, removals, crashes

ASSUME ScheduleAssumption ==
    /\ MaxExecutions \in [Schedule -> Nat \ {0}]
    /\ DbFails \in BOOLEAN
    /\ MaxActs \in Nat

VARIABLES
    schedules,   \* the rows
    due,         \* schedules whose nextRunAt has come, earliest first
    ticking,     \* the claimed execution (tickInProgress): a set of at most one
    triggered,   \* executions started by "trigger now"
    edits,       \* updateSchedule calls between their read and their write
    serving,     \* the process is up
    acts,        \* bound: what MaxActs counts
    finished,    \* history: per schedule, executions that were rescheduled
    lost,        \* history: schedules whose claim a crash or a failed call lost
    revived      \* history: schedules an edit brought back from expired

sRows == <<schedules, due>>
sMemory == <<ticking, triggered, edits, serving>>
sHistory == <<finished, lost, revived>>
sVars == <<sRows, sMemory, acts, sHistory>>

Absent == "absent"           \* not created yet, or removed
RowStatus == {"active", "running", "paused", "expired"}

ScheduleRow == [status : RowStatus \cup {Absent},
                cron   : BOOLEAN,           \* else one-shot
                count  : Nat,               \* executionCount
                aged   : BOOLEAN]           \* updatedAt is over 5 minutes ago

(* An execution carries the row as it was claimed (count, cron); nr tells  *)
(* triggers apart, and is 0 for the execution of a tick.                   *)
Execution == [schedule : Schedule, count : Nat, cron : BOOLEAN, nr : Nat,
              phase : {"begin", "prepare", "start", "reschedule"}]

Change == {"pause", "resume", "recron", "reshot"}

ScheduleTypeOK ==
    /\ schedules \in [Schedule -> ScheduleRow]
    /\ due \in Seq(Schedule)
    /\ ticking \subseteq Execution
    /\ triggered \subseteq Execution
    /\ edits \subseteq Schedule \X Change
    /\ serving \in BOOLEAN
    /\ acts \in Nat
    /\ finished \in [Schedule -> Nat]
    /\ lost \subseteq Schedule
    /\ revived \subseteq Schedule

ScheduleInit ==
    /\ \E cron \in [Schedule -> BOOLEAN] :
          schedules = [s \in Schedule |-> [status |-> "active", cron |-> cron[s],
                                           count |-> 0, aged |-> FALSE]]
    /\ due = <<>>
    /\ ticking = {}
    /\ triggered = {}
    /\ edits = {}
    /\ serving = TRUE
    /\ acts = 0
    /\ finished = [s \in Schedule |-> 0]
    /\ lost = {}
    /\ revived = {}

Present(s) == schedules[s].status # Absent
IsDue(s)   == \E i \in DOMAIN due : due[i] = s

(* A queue of due times holds nobody twice.                                *)
NotDue(queue, s) ==
    IF \E i \in DOMAIN queue : queue[i] = s
    THEN RemoveAt(queue, CHOOSE i \in DOMAIN queue : queue[i] = s)
    ELSE queue

DueAgain(queue, s) == Append(NotDue(queue, s), s)

(* UPDATE ... WHERE id: nothing happens to a row that is gone; any write   *)
(* stamps updatedAt.                                                       *)
Write(s, row) ==
    schedules' = IF Present(s) THEN [schedules EXCEPT ![s] = [row EXCEPT !.aged = FALSE]]
                 ELSE schedules

-----------------------------------------------------------------------------
(* The clock                                                               *)

TimeComes(s) ==
    /\ Present(s)
    /\ ~IsDue(s)
    /\ due' = Append(due, s)
    /\ UNCHANGED <<schedules, sMemory, acts, sHistory>>

FiveMinutesPass(s) ==
    /\ schedules[s].status = "running"
    /\ ~schedules[s].aged
    /\ schedules' = [schedules EXCEPT ![s].aged = TRUE]
    /\ UNCHANGED <<due, sMemory, acts, sHistory>>

-----------------------------------------------------------------------------
(* A tick: claim, execute, reschedule                                      *)

Claimed(s) == [schedule |-> s, count |-> schedules[s].count,
               cron |-> schedules[s].cron, nr |-> 0,
               phase |-> "begin"]

Claimable == {i \in DOMAIN due : schedules[due[i]].status = "active"}

(* claimNextDue: the earliest due active row becomes running, in one       *)
(* statement.                                                              *)
Claim(s) ==
    /\ \E i \in Claimable : due[i] = s /\ \A j \in Claimable : i <= j
    /\ Write(s, [schedules[s] EXCEPT !.status = "running"])
    /\ ticking' = ticking \cup {Claimed(s)}
    /\ UNCHANGED <<due, triggered, edits, serving, acts, sHistory>>

(* The executions of a tick and of triggers move on alike.                 *)
Moves(x, y) ==
    /\ ticking' = IF x \in ticking THEN (ticking \ {x}) \cup y ELSE ticking
    /\ triggered' = IF x \in triggered THEN (triggered \ {x}) \cup y ELSE triggered

(* Mutant of Begin: a task that is gone leaves the tick waiting.           *)
BeginForPresent(x) ==
    /\ x.phase = "begin"
    /\ Present(x.schedule)
    /\ Moves(x, {[x EXCEPT !.phase = "prepare"]})
    /\ UNCHANGED <<sRows, edits, serving, acts, sHistory>>

(* The rest of claimNextDue (a task that is gone took its schedule with    *)
(* it), then the history row.                                              *)
Begin(x) ==
    /\ x.phase = "begin"
    /\ Moves(x, IF Present(x.schedule) THEN {[x EXCEPT !.phase = "prepare"]} ELSE {})
    /\ UNCHANGED <<sRows, edits, serving, acts, sHistory>>

(* One of the reads of claimNextDue throws: the tick is over.              *)
BeginFails(x) ==
    /\ x.phase = "begin"
    /\ Moves(x, {})
    /\ lost' = lost \cup {x.schedule}
    /\ UNCHANGED <<sRows, edits, serving, acts, finished, revived>>

(* The steps are reset, the task gets a new session and is in progress,    *)
(* the history row executing.                                              *)
Prepare(x) ==
    /\ x.phase = "prepare"
    /\ Moves(x, {[x EXCEPT !.phase = "start"]})
    /\ UNCHANGED <<sRows, edits, serving, acts, sHistory>>

(* What follows execute: a tick reschedules, a trigger is done.            *)
AfterExecute(x) ==
    IF x \in ticking THEN {[x EXCEPT !.phase = "reschedule"]} ELSE {}

(* startRun accepted the run.                                              *)
Start(x) ==
    /\ x.phase = "start"
    /\ Moves(x, AfterExecute(x))
    /\ UNCHANGED <<sRows, edits, serving, acts, sHistory>>

(* Mutant of Fail: a failed execution is not rescheduled.                  *)
FailForGood(x) ==
    /\ x.phase = "start"
    /\ Moves(x, {})
    /\ UNCHANGED <<sRows, edits, serving, acts, sHistory>>

(* execute returns a failure: startRun refused the run, or (always         *)
(* possible under DbFails) one of its calls threw.                         *)
Fail(x) ==
    /\ x.phase \in {"begin", "prepare", "start"}
    /\ Moves(x, AfterExecute(x))
    /\ UNCHANGED <<sRows, edits, serving, acts, sHistory>>

(* Mutant of Terminal: the cap is compared before this run is counted.     *)
TerminalLate(x) == ~x.cron \/ x.count >= MaxExecutions[x.schedule]

(* A one-shot fires once; a recurring one up to its cap, failures counted. *)
Terminal(x) == ~x.cron \/ x.count + 1 >= MaxExecutions[x.schedule]

(* reschedule: everything from the row as it was claimed.                  *)
Reschedule(x) ==
    /\ x.phase = "reschedule"
    /\ Write(x.schedule,
             [schedules[x.schedule] EXCEPT
                !.status = IF Terminal(x) THEN "expired" ELSE "active",
                !.count = x.count + 1])
    /\ due' = IF ~Present(x.schedule) THEN due
              ELSE IF Terminal(x) THEN DueAgain(due, x.schedule)
                                  ELSE NotDue(due, x.schedule)
    /\ Moves(x, {})
    /\ finished' = IF Present(x.schedule)
                   THEN [finished EXCEPT ![x.schedule] = @ + 1] ELSE finished
    /\ UNCHANGED <<edits, serving, acts, lost, revived>>

RescheduleFails(x) ==
    /\ x.phase = "reschedule"
    /\ Moves(x, {})
    /\ lost' = lost \cup {x.schedule}
    /\ UNCHANGED <<sRows, edits, serving, acts, finished, revived>>

-----------------------------------------------------------------------------
(* Owners                                                                  *)

Act == serving /\ acts < MaxActs /\ acts' = acts + 1

(* triggerNow: an execution of its own beside whatever the tick does.      *)
TriggerNow(s) ==
    /\ Act
    /\ Present(s)
    /\ triggered' = triggered \cup
          {[Claimed(s) EXCEPT !.phase = "prepare", !.nr = acts + 1]}
    /\ UNCHANGED <<schedules, due, ticking, edits, serving, sHistory>>

(* updateSchedule reads the row; a status cannot leave expired.            *)
ReadForEdit(s, change) ==
    /\ Act
    /\ Present(s)
    /\ change \in {"pause", "resume"} => schedules[s].status # "expired"
    /\ edits' = edits \cup {<<s, change>>}
    /\ UNCHANGED <<sRows, ticking, triggered, serving, sHistory>>

(* Mutant of WriteEdit: the rewritten schedule starts counting afresh.     *)
WriteEditFresh(s, change) ==
    /\ edits' = edits \ {<<s, change>>}
    /\ Write(s, [schedules[s] EXCEPT !.count = 0])
    /\ UNCHANGED <<due, ticking, triggered, serving, acts, sHistory>>

(* and then writes what the edit changes; a new time lies ahead.           *)
WriteEdit(s, change) ==
    /\ edits' = edits \ {<<s, change>>}
    /\ Write(s, CASE change = "pause"  -> [schedules[s] EXCEPT !.status = "paused"]
                  [] change = "resume" -> [schedules[s] EXCEPT !.status = "active"]
                  [] OTHER -> [schedules[s] EXCEPT !.cron = (change = "recron")])
    /\ due' = IF change \in {"recron", "reshot"} THEN NotDue(due, s) ELSE due
    /\ revived' = IF change \in {"pause", "resume"} /\ schedules[s].status = "expired"
                  THEN revived \cup {s} ELSE revived
    /\ UNCHANGED <<ticking, triggered, serving, acts, finished, lost>>

(* removeSchedule, or the deletion of its task.                            *)
RemoveSchedule(s) ==
    /\ Act
    /\ Present(s)
    /\ schedules' = [schedules EXCEPT ![s].status = Absent]
    /\ due' = NotDue(due, s)
    /\ UNCHANGED <<sMemory, sHistory>>

-----------------------------------------------------------------------------
(* Crash and restart                                                       *)

DropExecutions ==
    /\ lost' = lost \cup {x.schedule : x \in ticking}
    /\ ticking' = {}
    /\ triggered' = {}
    /\ edits' = {}
    /\ serving' = FALSE
    /\ UNCHANGED <<sRows, finished, revived>>

(* recoverStuckSchedules at the start: claimed more than 5 minutes ago.    *)
RecoverStuck ==
    /\ schedules' = [s \in Schedule |->
          IF schedules[s].status = "running" /\ schedules[s].aged
          THEN [schedules[s] EXCEPT !.status = "active", !.aged = FALSE]
          ELSE schedules[s]]
    /\ serving' = TRUE
    /\ UNCHANGED <<due, ticking, triggered, edits, acts, sHistory>>

ExecutionSteps(x) ==
    \/ Begin(x) \/ Prepare(x) \/ Start(x) \/ Reschedule(x)
    \/ x.phase = "start" /\ Fail(x)

CallFails(x) == DbFails /\ (BeginFails(x) \/ RescheduleFails(x) \/ Fail(x))

OwnerActs ==
    \/ \E s \in Schedule : RemoveSchedule(s)
    \/ \E s \in Schedule, change \in Change : ReadForEdit(s, change)
    \/ \E e \in edits : WriteEdit(e[1], e[2])

ClockSteps == \E s \in Schedule : TimeComes(s) \/ FiveMinutesPass(s)
=============================================================================
