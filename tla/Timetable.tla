------------------------------ MODULE Timetable ------------------------------
(***************************************************************************)
(* The scheduler (scheduler/service.ts): one poll drives pulses and task   *)
(* schedules.  A tick asks the runnables in the order they were registered *)
(* (pulses, then task schedules); the first that claims something runs it, *)
(* and no other tick begins before it is rescheduled (tickInProgress).     *)
(***************************************************************************)
EXTENDS TaskSchedules, Pulses

vars == <<sVars, pVars>>

Init == ScheduleInit /\ PulseInit

(* Mutant of NothingClaimed: the poll fires whether or not a tick is in    *)
(* progress.                                                               *)
AnyTime == TRUE

(* tickInProgress is FALSE.                                                *)
NothingClaimed == ticking = {} /\ beating = {}

TickPulse ==
    /\ serving
    /\ NothingClaimed
    /\ \E p \in Pulse : ClaimPulse(p)
    /\ UNCHANGED sVars

TickSchedule ==
    /\ serving
    /\ NothingClaimed
    /\ ClaimablePulses = {}
    /\ \E s \in Schedule : Claim(s)
    /\ UNCHANGED pVars

ExecutionGoesOn ==
    /\ \E x \in ticking \cup triggered : ExecutionSteps(x)
    /\ UNCHANGED pVars

ExecutionCallFails ==
    /\ \E x \in ticking \cup triggered : CallFails(x)
    /\ UNCHANGED pVars

BeatGoesOn ==
    /\ \E b \in beating \cup manual : BeatSteps(b)
    /\ UNCHANGED sVars

BeatFails ==
    /\ \E b \in beating : ReschedulePulseFails(b)
    /\ UNCHANGED sVars

ClockTicks ==
    \/ ClockSteps /\ UNCHANGED pVars
    \/ \E p \in Pulse : PulseTimeComes(p) /\ UNCHANGED sVars

Owners ==
    \/ OwnerActs /\ UNCHANGED pVars
    \/ Act /\ PulseOwnerActs(acts + 1) /\ UNCHANGED <<sRows, sMemory, sHistory>>

Crash == Act /\ DropExecutions /\ DropBeats

(* recurring.start and scheduler.recoverStuckJobs come before the first    *)
(* tick.                                                                   *)
Restart == ~serving /\ RecoverStuck /\ RecoverStuckJobs

Next ==
    \/ TickPulse \/ TickSchedule
    \/ ExecutionGoesOn \/ ExecutionCallFails \/ BeatGoesOn \/ BeatFails
    \/ ClockTicks \/ Owners \/ Crash \/ Restart

Spec == Init /\ [][Next]_vars

(* The poll interval fires, and claimed work goes on: agent turns have     *)
(* timeouts, and a rescheduling call that throws ends the tick as well.    *)
Fairness ==
    /\ WF_vars(TickPulse)
    /\ WF_vars(TickSchedule)
    /\ WF_vars(ExecutionGoesOn)
    /\ WF_vars(BeatGoesOn)
    /\ WF_vars(Restart)

FairSpec == Spec /\ Fairness

-----------------------------------------------------------------------------
(* Properties                                                              *)

TypeOK == ScheduleTypeOK /\ PulseTypeOK

(* One thing at a time: the poll never runs two claimed items at once,     *)
(* whichever runnable they come from ("a tick can execute AT MOST ONE      *)
(* runnable's claimed item"), although an owner may have set a row whose   *)
(* execution is still in flight back to active.                            *)
OneClaim ==
    /\ ticking = {} \/ beating = {}
    /\ \A x, y \in ticking : x = y
    /\ \A b, c \in beating : b = c

(* executionCount is the number of executions that were rescheduled: the   *)
(* stale row it is computed from never swallows or repeats one.            *)
CountIsExact ==
    \A s \in Schedule : Present(s) => schedules[s].count = finished[s]

(* A row in state running is being executed, unless a crash or a failed    *)
(* database call lost its execution: no path out of an execution forgets   *)
(* the row ("we must always transition it out of that state").             *)
RunningIsExecuted ==
    \A s \in Schedule : schedules[s].status = "running" =>
        s \in lost \/ \E x \in ticking : x.schedule = s

(* A schedule fires no more often than its cap (a one-shot once), unless   *)
(* an edit read it before it expired and revived it after.                 *)
CapHolds ==
    \A s \in Schedule : schedules[s].count <= MaxExecutions[s] \/ s \in revived

(* A one-shot pulse that succeeded does not run again, unless its owner    *)
(* reactivates it, or a crash or a failed write hid that it ran.           *)
OneShotOnce ==
    \A p \in Pulse : pulses[p].oneShot => successes[p] <= 1 + reopened[p]

(* A job run that says running is running: the sweep at the start leaves   *)
(* none behind (a failed write of the audit trail excepted).               *)
RunningJobsRun ==
    serving => \A i \in DOMAIN jobRuns : jobRuns[i].status = "running" =>
        i \in unaudited \/ \E b \in beating \cup manual : b.run = i

(* What makes them inductive.  The claimed row is fresh where it counts:   *)
(* while an execution goes on, nobody else changes the count.              *)
ClaimIsFresh ==
    \A x \in ticking : Present(x.schedule) =>
        /\ x.count = schedules[x.schedule].count
        /\ x.count < MaxExecutions[x.schedule] \/ x.schedule \in revived

LiveHasRoom ==
    \A s \in Schedule : schedules[s].status \in {"active", "running", "paused"} =>
        schedules[s].count < MaxExecutions[s] \/ s \in revived

BeatIsFresh ==
    \A b \in beating : /\ b.oneShot = pulses[b.pulse].oneShot
                       /\ b.phase # "reschedule" => ~b.ok

ManualApart ==
    /\ \A b \in beating : b.nr = 0
    /\ \A b \in manual : b.nr > 0 /\ b.phase # "reschedule"

(* A one-shot pulse may yet succeed: its execution goes on and has not, or *)
(* it is there to be claimed.                                              *)
MaySucceed(p) ==
    IF \E b \in beating : b.pulse = p
    THEN \E b \in beating : b.pulse = p /\ ~b.ok
    ELSE pulses[p].status = "active"

NotSpent ==
    \A p \in Pulse : pulses[p].oneShot =>
        successes[p] + (IF MaySucceed(p) THEN 1 ELSE 0) <= 1 + reopened[p]

(* The inductive invariant (triggers of schedules are in ScheduledTask).   *)
TimetableInv ==
    /\ TypeOK
    /\ triggered = {}
    /\ OneClaim
    /\ CountIsExact
    /\ RunningIsExecuted
    /\ ClaimIsFresh
    /\ LiveHasRoom
    /\ CapHolds
    /\ BeatIsFresh
    /\ ManualApart
    /\ NotSpent

(* What makes RunningJobsRun inductive.  An execution has a job run of its *)
(* own from the moment it is queued, and one that only has to reschedule   *)
(* has settled its run, or failed to.                                      *)
RunsApart ==
    \A b \in beating \cup manual :
        /\ IF b.phase = "queue" THEN b.run = 0 ELSE b.run \in DOMAIN jobRuns
        /\ \A c \in beating \cup manual : c.run = b.run /\ b.run # 0 => c = b

RunSettled ==
    \A b \in beating : b.phase = "reschedule" =>
        jobRuns[b.run].status # "running" \/ b.run \in unaudited

JobsInv ==
    /\ RunsApart
    /\ RunSettled
    /\ RunningJobsRun

(* A due pulse is served: it comes to be run, or its owner changes it (or  *)
(* the instance has no more job runs to give).                             *)
PulseServed ==
    \A p \in Pulse :
        (IsPulseDue(p) /\ pulses[p].status = "active")
          ~> (~IsPulseDue(p) \/ pulses[p].status # "active"
              \/ (\E b \in beating : b.pulse = p) \/ ~RoomForRun)

(* Once no pulse is claimable for good, every due schedule is served: none *)
(* starves behind another, behind a failed tick or behind a crash.         *)
ScheduleServed ==
    <>[](ClaimablePulses = {}) =>
        \A s \in Schedule :
            (IsDue(s) /\ schedules[s].status = "active")
              ~> (~IsDue(s) \/ schedules[s].status # "active")
=============================================================================
