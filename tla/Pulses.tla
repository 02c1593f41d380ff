------------------------------- MODULE Pulses -------------------------------
(***************************************************************************)
(* Pulses: the scheduled_jobs and job_runs rows, the executions that the   *)
(* scheduler's tick (scheduler/service, pulse-runnable-adapter) and "run   *)
(* now" make of them, and what their owners change meanwhile               *)
(* (pulses/service).                                                       *)
(*                                                                         *)
(* A claim of a pulse writes nothing: only the tick's own flag keeps it    *)
(* from being claimed again.  What is written after the agent's turn comes *)
(* from the row as it was claimed, minutes before.                         *)
(***************************************************************************)
EXTENDS Naturals, FiniteSets, Sequences, SequencesExt

CONSTANTS
    Pulse,        \* ids of scheduled_jobs rows
    MaxRetries,   \* maxRetries of a pulse
    CallsFail,    \* whether a database call after the turn may throw
    MaxJobRuns    \* bound: job_runs rows

ASSUME PulseAssumption ==
    /\ MaxRetries \in Nat
    /\ CallsFail \in BOOLEAN
    /\ MaxJobRuns \in Nat

VARIABLES
    pulses,       \* the rows
    pulsesDue,    \* pulses whose nextRunAt has come, earliest first
    jobRuns,      \* job_runs rows: their pulse and status
    beating,      \* the execution of the tick: a set of at most one
    manual,       \* executions of triggerPulseNow
    successes,    \* history: per pulse, turns of the tick that succeeded
    reopened,     \* history: per pulse, reasons to run again (owner, lost write)
    unaudited     \* history: job runs whose last write failed

pRows    == <<pulses, pulsesDue, jobRuns>>
pMemory  == <<beating, manual>>
pHistory == <<successes, reopened, unaudited>>
pVars    == <<pRows, pMemory, pHistory>>

Deleted == "deleted"
PulseStatus == {"active", "paused", "completed", "failed"}
JobRunStatus == {"queued", "running", "succeeded", "failed", "gone"}

PulseRow == [status  : PulseStatus \cup {Deleted},
             oneShot : BOOLEAN,               \* type; else cron
             retries : Nat]                   \* retryCount

(* An execution carries the row as claimed; run is its job_runs row; nr    *)
(* tells those started by hand apart, and is 0 for that of the tick.       *)
Beat == [pulse : Pulse, oneShot : BOOLEAN, retries : Nat, run : Nat,
         nr : Nat, ok : BOOLEAN, phase : {"queue", "queued", "turn", "reschedule"}]

PulseTypeOK ==
    /\ pulses \in [Pulse -> PulseRow]
    /\ pulsesDue \in Seq(Pulse)
    /\ jobRuns \in Seq([pulse : Pulse, status : JobRunStatus])
    /\ beating \subseteq Beat
    /\ manual \subseteq Beat
    /\ successes \in [Pulse -> Nat]
    /\ reopened \in [Pulse -> Nat]
    /\ unaudited \subseteq Nat

PulseInit ==
    /\ \E oneShot \in [Pulse -> BOOLEAN] :
          pulses = [p \in Pulse |-> [status |-> "active", oneShot |-> oneShot[p],
                                     retries |-> 0]]
    /\ pulsesDue = <<>>
    /\ jobRuns = <<>>
    /\ beating = {}
    /\ manual = {}
    /\ successes = [p \in Pulse |-> 0]
    /\ reopened = [p \in Pulse |-> 0]
    /\ unaudited = {}

Exists(p) == pulses[p].status # Deleted
IsPulseDue(p) == \E i \in DOMAIN pulsesDue : pulsesDue[i] = p

WithoutPulse(queue, p) ==
    IF \E i \in DOMAIN queue : queue[i] = p
    THEN RemoveAt(queue, CHOOSE i \in DOMAIN queue : queue[i] = p)
    ELSE queue

(* UPDATE ... WHERE id.                                                    *)
WritePulse(p, row) ==
    pulses' = IF Exists(p) THEN [pulses EXCEPT ![p] = row] ELSE pulses

(* jobRuns.updateStatus.                                                   *)
MarkRun(i, status) ==
    jobRuns' = IF jobRuns[i].status # "gone"
               THEN [jobRuns EXCEPT ![i].status = status] ELSE jobRuns

PulseTimeComes(p) ==
    /\ Exists(p)
    /\ ~IsPulseDue(p)
    /\ pulsesDue' = Append(pulsesDue, p)
    /\ UNCHANGED <<pulses, jobRuns, pMemory, pHistory>>

-----------------------------------------------------------------------------
(* One execution                                                           *)

NewBeat(p, nr) == [pulse |-> p, oneShot |-> pulses[p].oneShot,
                   retries |-> pulses[p].retries, run |-> 0, nr |-> nr,
                   ok |-> FALSE, phase |-> "queue"]

(* The bound on job runs, those that are claimed and not yet there counted. *)
RoomForRun ==
    Len(jobRuns) + Cardinality({b \in beating \cup manual : b.phase = "queue"})
      < MaxJobRuns

ClaimablePulses == {i \in DOMAIN pulsesDue : pulses[pulsesDue[i]].status = "active"}

(* claimNextDueJob: the earliest due active pulse, as it is.               *)
ClaimPulse(p) ==
    /\ RoomForRun
    /\ \E i \in ClaimablePulses :
          pulsesDue[i] = p /\ \A j \in ClaimablePulses : i <= j
    /\ beating' = beating \cup {NewBeat(p, 0)}
    /\ UNCHANGED <<pRows, manual, pHistory>>

Continues(b, next) ==
    /\ beating' = IF b \in beating THEN (beating \ {b}) \cup next ELSE beating
    /\ manual' = IF b \in manual THEN (manual \ {b}) \cup next ELSE manual

(* Mutant of Queue: a deleted pulse leaves the tick waiting.               *)
QueueForPresent(b) ==
    /\ b.phase = "queue"
    /\ Exists(b.pulse)
    /\ jobRuns' = Append(jobRuns, [pulse |-> b.pulse, status |-> "queued"])
    /\ Continues(b, {[b EXCEPT !.phase = "queued", !.run = Len(jobRuns) + 1]})
    /\ UNCHANGED <<pulses, pulsesDue, pHistory>>

(* The job_runs row, unless the pulse was deleted (it throws: all over).   *)
Queue(b) ==
    /\ b.phase = "queue"
    /\ IF Exists(b.pulse)
       THEN /\ jobRuns' = Append(jobRuns, [pulse |-> b.pulse, status |-> "queued"])
            /\ Continues(b, {[b EXCEPT !.phase = "queued", !.run = Len(jobRuns) + 1]})
       ELSE /\ Continues(b, {})
            /\ UNCHANGED jobRuns
    /\ UNCHANGED <<pulses, pulsesDue, pHistory>>

BeginJob(b) ==
    /\ b.phase = "queued"
    /\ MarkRun(b.run, "running")
    /\ Continues(b, {[b EXCEPT !.phase = "turn"]})
    /\ UNCHANGED <<pulses, pulsesDue, pHistory>>

(* execute: the message, the agent's turn, the delivery (whose failure is  *)
(* no failure of the run), and the run's last status, which may not be     *)
(* written ("the audit trail is best-effort").  A manual execution is over *)
(* with it.                                                                *)
Turn(b, ok, audited) ==
    /\ b.phase = "turn"
    /\ audited \/ CallsFail
    /\ Continues(b, IF b \in beating
                    THEN {[b EXCEPT !.phase = "reschedule", !.ok = ok]} ELSE {})
    /\ IF audited THEN MarkRun(b.run, IF ok THEN "succeeded" ELSE "failed")
                  ELSE UNCHANGED jobRuns
    /\ unaudited' = IF audited THEN unaudited ELSE unaudited \cup {b.run}
    /\ successes' = IF ok /\ b \in beating
                    THEN [successes EXCEPT ![b.pulse] = @ + 1] ELSE successes
    /\ UNCHANGED <<pulses, pulsesDue, reopened>>

(* Whether the pulse is done for good: a one-shot that succeeded.          *)
Completes(b) == b.ok /\ b.oneShot
GivesUp(b)   == ~b.ok /\ b.retries + 1 > MaxRetries

(* Mutant of RescheduledRow: a one-shot keeps its own time, which is past. *)
OneShotKept(b) ==
    LET row == pulses[b.pulse] IN
    CASE GivesUp(b) -> [row EXCEPT !.status = "failed"]
      [] b.ok       -> row
      [] OTHER      -> [row EXCEPT !.retries = b.retries + 1]

RescheduledRow(b) ==
    LET row == pulses[b.pulse] IN
    CASE Completes(b)           -> [row EXCEPT !.status = "completed"]
      [] b.ok /\ ~Completes(b)  -> row
      [] GivesUp(b)             -> [row EXCEPT !.status = "failed"]
      [] OTHER                  -> [row EXCEPT !.retries = b.retries + 1]

ReschedulePulse(b) ==
    /\ b.phase = "reschedule"
    /\ WritePulse(b.pulse, RescheduledRow(b))
    /\ pulsesDue' = CASE ~Exists(b.pulse) \/ GivesUp(b) -> pulsesDue
                      [] Exists(b.pulse) /\ Completes(b) ->
                           Append(WithoutPulse(pulsesDue, b.pulse), b.pulse)
                      [] OTHER -> WithoutPulse(pulsesDue, b.pulse)
    /\ Continues(b, {})
    /\ UNCHANGED <<jobRuns, pHistory>>

(* The update throws: logged, the pulse stays as due as it was.            *)
ReschedulePulseFails(b) ==
    /\ CallsFail
    /\ b.phase = "reschedule"
    /\ Continues(b, {})
    /\ reopened' = [reopened EXCEPT ![b.pulse] = @ + 1]
    /\ UNCHANGED <<pRows, successes, unaudited>>

-----------------------------------------------------------------------------
(* Owners                                                                  *)

(* updatePulse, the status: any, from any.                                 *)
SetStatus(p, status) ==
    /\ Exists(p)
    /\ WritePulse(p, [pulses[p] EXCEPT !.status = status])
    /\ reopened' = IF status = "active" /\ pulses[p].status # "active"
                   THEN [reopened EXCEPT ![p] = @ + 1] ELSE reopened
    /\ UNCHANGED <<pulsesDue, jobRuns, pMemory, successes, unaudited>>

(* updatePulse, the time: it lies ahead; the type stays what it was.       *)
SetTime(p) ==
    /\ Exists(p)
    /\ pulsesDue' = WithoutPulse(pulsesDue, p)
    /\ UNCHANGED <<pulses, jobRuns, pMemory, pHistory>>

DeletePulse(p) ==
    /\ Exists(p)
    /\ WritePulse(p, [pulses[p] EXCEPT !.status = Deleted])
    /\ pulsesDue' = WithoutPulse(pulsesDue, p)
    /\ jobRuns' = [i \in DOMAIN jobRuns |->
                     IF jobRuns[i].pulse = p
                     THEN [jobRuns[i] EXCEPT !.status = "gone"] ELSE jobRuns[i]]
    /\ UNCHANGED <<pMemory, pHistory>>

(* triggerPulseNow: an execution that leaves the row alone.                *)
TriggerPulse(p, nr) ==
    /\ RoomForRun
    /\ Exists(p)
    /\ manual' = manual \cup {NewBeat(p, nr)}
    /\ UNCHANGED <<pRows, beating, pHistory>>

-----------------------------------------------------------------------------
(* Crash and restart                                                       *)

DropBeats ==
    /\ beating' = {}
    /\ manual' = {}
    /\ reopened' = [p \in Pulse |-> IF \E b \in beating : b.pulse = p
                                    THEN reopened[p] + 1 ELSE reopened[p]]
    /\ UNCHANGED <<pRows, successes, unaudited>>

(* Mutant of RecoverStuckJobs: the sweep looks for queued rows.            *)
RecoverQueuedJobs ==
    /\ jobRuns' = [i \in DOMAIN jobRuns |->
                     IF jobRuns[i].status = "queued"
                     THEN [jobRuns[i] EXCEPT !.status = "failed"] ELSE jobRuns[i]]
    /\ UNCHANGED <<pulses, pulsesDue, pMemory, pHistory>>

(* recoverStuckJobs, before the scheduler starts.                          *)
RecoverStuckJobs ==
    /\ jobRuns' = [i \in DOMAIN jobRuns |->
                     IF jobRuns[i].status = "running"
                     THEN [jobRuns[i] EXCEPT !.status = "failed"] ELSE jobRuns[i]]
    /\ UNCHANGED <<pulses, pulsesDue, pMemory, pHistory>>

BeatSteps(b) ==
    \/ Queue(b) \/ BeginJob(b) \/ ReschedulePulse(b)
    \/ \E ok, audited \in BOOLEAN : Turn(b, ok, audited)

PulseOwnerActs(nr) ==
    \/ \E p \in Pulse, status \in PulseStatus : SetStatus(p, status)
    \/ \E p \in Pulse : SetTime(p) \/ DeletePulse(p) \/ TriggerPulse(p, nr)
=============================================================================
