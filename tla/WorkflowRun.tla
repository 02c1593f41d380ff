----------------------------- MODULE WorkflowRun -----------------------------
(***************************************************************************)
(* What the engine promises of the runs of a task with steps, whatever     *)
(* pipelines, retries, decisions, stops and crashes it takes: one run at a *)
(* time, which ends once and for all unless a retry reopens the latest,    *)
(* and steps at work exactly while a run is going.                         *)
(***************************************************************************)
EXTENDS Naturals, Sequences

CONSTANT Step

VARIABLES
    runs,      \* the workflow_runs rows of the task: status, oldest first
    working    \* the steps in progress

Status == {"running", "completed", "failed", "cancelled"}

Going == {i \in DOMAIN runs : runs[i] = "running"}

Init == runs = <<>> /\ working = {}

(* runs.create.  The run may be over within the step that creates it.      *)
Create ==
    /\ Going = {}
    /\ \E status \in Status \ {"cancelled"} : runs' = Append(runs, status)

(* runs.reopen.                                                            *)
Reopen ==
    /\ Going = {}
    /\ runs # <<>>
    /\ \E status \in Status \ {"cancelled"} :
          runs' = [runs EXCEPT ![Len(runs)] = status]

(* runs.finish.                                                            *)
End ==
    \E i \in Going : \E status \in Status \ {"running"} :
        runs' = [runs EXCEPT ![i] = status]

(* Steps begin, end, loop or are reset while the run goes on.              *)
Work == Going # {} /\ UNCHANGED runs

(* After every step somebody is at work if, and only if, a run is going.   *)
Next ==
    /\ Create \/ Reopen \/ End \/ Work
    /\ working' \subseteq Step
    /\ working' = {} <=> Going' = {}

Spec == Init /\ [][Next]_<<runs, working>>
=============================================================================
