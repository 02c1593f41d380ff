----------------------- MODULE WorkflowEngine_proofs -----------------------
(***************************************************************************)
(* What holds of the workflow engine for every graph of steps and every    *)
(* value of the constants.                                                 *)
(***************************************************************************)
EXTENDS WorkflowEngine, SequenceTheorems, TLAPS

-----------------------------------------------------------------------------
(* Rows keep their type.                                                   *)

LEMMA RowTypes ==
    ASSUME NEW row \in Row, NEW result \in Outcome \cup {NoOutcome},
           NEW s \in Step
    PROVE  /\ FreshRow \in Row
           /\ Completed(row, result) \in Row
           /\ Failed(row) \in Row
           /\ CompleteOrLoop(row, s, result) \in Row
<1>1. FreshRow \in Row
  BY DEF FreshRow, Row, Status, Decision
<1>2. Completed(row, result) \in Row
  BY DEF Completed, Row, Status
<1>3. Failed(row) \in Row
  BY DEF Failed, Row, Status
<1>4. [row EXCEPT !.status = "pending", !.retryCount = 0,
                  !.loopCount = row.loopCount + 1] \in Row
  <2>1. row.loopCount + 1 \in Nat
    BY DEF Row
  <2> QED  BY <2>1 DEF Row, Status
<1>5. CompleteOrLoop(row, s, result) \in
         {Completed(row, result), Failed(row),
          [row EXCEPT !.status = "pending", !.retryCount = 0,
                      !.loopCount = row.loopCount + 1]}
  BY DEF CompleteOrLoop
<1> QED  BY <1>1, <1>2, <1>3, <1>4, <1>5

LEMMA RowsTypes ==
    ASSUME NEW rows \in [Step -> Row], NEW K
    PROVE  /\ Skipping(rows, K) \in [Step -> Row]
           /\ Claiming(rows, K) \in [Step -> Row]
           /\ Failing(rows, K) \in [Step -> Row]
           /\ Resetting(rows, K) \in [Step -> Row]
<1> SUFFICES ASSUME NEW s \in Step
             PROVE  /\ [rows[s] EXCEPT !.status = "skipped",
                                       !.result = NoOutcome] \in Row
                    /\ [rows[s] EXCEPT !.status = "in_progress",
                                       !.awaiting = (s \in Gate) \/ @] \in Row
                    /\ Failed(rows[s]) \in Row
                    /\ FreshRow \in Row
  BY DEF Skipping, Claiming, Failing, Resetting
<1>1. rows[s] \in Row
  OBVIOUS
<1>2. ((s \in Gate) \/ rows[s].awaiting) \in BOOLEAN
  OBVIOUS
<1>3. [rows[s] EXCEPT !.status = "skipped", !.result = NoOutcome] \in Row
  BY <1>1 DEF Row, Status
<1>4. [rows[s] EXCEPT !.status = "in_progress",
                      !.awaiting = (s \in Gate) \/ @] \in Row
  BY <1>1, <1>2 DEF Row, Status
<1>5. FreshRow \in Row
  BY DEF FreshRow, Row, Status, Decision
<1>6. Failed(rows[s]) \in Row
  BY <1>1 DEF Failed, Row, Status
<1> QED  BY <1>1, <1>3, <1>4, <1>5, <1>6

-----------------------------------------------------------------------------
(* What moving the graph on does to the rows: only pending rows change,    *)
(* and a step that starts has every step before it settled and agreeing.   *)

Agrees(rows, s) ==
    \A e \in Incoming(Edge, s) : IsTerminal(rows[e.from]) /\ ~Refuses(rows, e)

Evolves(old, new) ==
    \A s \in Step :
        /\ old[s].status # "pending" => new[s] = old[s]
        /\ old[s].status = "pending" =>
              /\ new[s].decision = old[s].decision
              /\ new[s].status \in {"pending", "in_progress", "skipped"}
              /\ new[s].status = "in_progress" => Agrees(new, s)

LEMMA ClaimingEvolves ==
    ASSUME NEW rows \in [Step -> Row], NEW skips \in SUBSET Pending(rows),
           NEW K \in SUBSET Ready(Skipping(rows, skips), Edge)
    PROVE  Evolves(rows, Claiming(Skipping(rows, skips), K))
<1> DEFINE skipped == Skipping(rows, skips)
           claimed == Claiming(skipped, K)
<1> USE EngineAssumption
<1>1. /\ skipped \in [Step -> Row]
      /\ claimed \in [Step -> Row]
  BY RowsTypes
<1>2. \A s \in Step : /\ s \notin skips => skipped[s] = rows[s]
                      /\ s \in skips => /\ rows[s].status = "pending"
                                        /\ skipped[s].status = "skipped"
                                        /\ skipped[s].decision = rows[s].decision
  BY DEF Skipping, Pending, Row
<1>3. \A s \in K : /\ s \in Step
                   /\ skipped[s].status = "pending"
                   /\ MayRun(skipped, Edge, s)
  BY DEF Ready, Pending
<1>4. \A s \in Step : /\ s \notin K => claimed[s] = skipped[s]
                      /\ s \in K => /\ claimed[s].status = "in_progress"
                                    /\ claimed[s].decision = skipped[s].decision
  BY <1>1 DEF Claiming, Row
<1>5. \A s \in K : Agrees(claimed, s)
  <2> SUFFICES ASSUME NEW s \in K, NEW e \in Incoming(Edge, s)
               PROVE  IsTerminal(claimed[e.from]) /\ ~Refuses(claimed, e)
    BY DEF Agrees
  <2>1. IsTerminal(skipped[e.from]) /\ ~Refuses(skipped, e)
    BY <1>3 DEF MayRun, MustSkip, Waits
  <2>2. e.from \in Step /\ e.from \notin K
    BY <2>1, <1>3 DEF Incoming, EdgeType, IsTerminal
  <2>3. claimed[e.from] = skipped[e.from]
    BY <2>2, <1>4
  <2> QED  BY <2>1, <2>3 DEF Refuses
<1> HIDE DEF skipped, claimed
<1>6. Evolves(rows, claimed)
  <2> SUFFICES ASSUME NEW s \in Step
               PROVE  /\ rows[s].status # "pending" => claimed[s] = rows[s]
                      /\ rows[s].status = "pending" =>
                            /\ claimed[s].decision = rows[s].decision
                            /\ claimed[s].status \in {"pending", "in_progress", "skipped"}
                            /\ claimed[s].status = "in_progress" => Agrees(claimed, s)
    BY DEF Evolves
  <2>1. CASE s \in K
    BY <2>1, <1>2, <1>3, <1>4, <1>5
  <2>2. CASE s \notin K
    BY <2>2, <1>2, <1>4
  <2> QED  BY <2>1, <2>2
<1> QED  BY <1>6 DEF skipped, claimed

LEMMA SkippingEvolves ==
    ASSUME NEW rows \in [Step -> Row], NEW new \in [Step -> Row],
           Evolves(rows, new), InProgress(new) = {}
    PROVE  /\ Evolves(rows, Skipping(new, Pending(new)))
           /\ InProgress(Skipping(new, Pending(new))) = {}
<1> DEFINE final == Skipping(new, Pending(new))
<1>1. \A s \in Step : /\ new[s].status # "pending" => final[s] = new[s]
                      /\ new[s].status = "pending" =>
                            /\ final[s].status = "skipped"
                            /\ final[s].decision = new[s].decision
  BY DEF Skipping, Pending, Row
<1>2. \A s \in Step : final[s].status # "in_progress"
  BY <1>1 DEF InProgress
<1> HIDE DEF final
<1>3. Evolves(rows, final)
  BY <1>1, <1>2 DEF Evolves
<1>4. InProgress(final) = {}
  BY <1>2 DEF InProgress
<1> QED  BY <1>3, <1>4 DEF final

(* A run that is moved on either keeps going, with a step in progress, or  *)
(* finishes with none, and the task with it.                               *)
MovesOn(rs, task) ==
    \/ /\ runs' = rs
       /\ taskStatus' = task
       /\ InProgress(subtasks') # {}
    \/ /\ InProgress(subtasks') = {}
       /\ \E i \in Running(rs), status \in {"completed", "failed"} :
             /\ runs' = Finish(rs, i, status)
             /\ taskStatus' = TaskAfter(rs, i, status, task)

LEMMA AdvanceRunningEffect ==
    ASSUME NEW rows \in [Step -> Row], NEW rs, NEW task, NEW ps, NEW keys,
           AdvanceRunning(rows, rs, task, ps, keys)
    PROVE  /\ subtasks' \in [Step -> Row]
           /\ Evolves(rows, subtasks')
           /\ MovesOn(rs, task)
           /\ \E K \in SUBSET Step : \E lost \in SUBSET K :
                 Dispatching(ps, keys, K, lost)
<1> DEFINE skips   == Skippable(rows, Edge)
           skipped == Skipping(rows, skips)
           ready   == Ready(skipped, Edge)
<1>1. /\ skips \in SUBSET Pending(rows)
      /\ ready \in SUBSET Step
  BY DEF Skippable, Ready, Pending
<1>2. skipped \in [Step -> Row]
  BY RowsTypes
<1>3. \/ /\ Dispatching(ps, keys, ready, {})
         /\ FinishIfDone(Claiming(skipped, ready), rs, task)
      \/ \E K \in SUBSET ready, s \in MayLose(ready) :
            /\ Dispatching(ps, keys, K \cup {s}, {s})
            /\ subtasks' = Claiming(skipped, K \cup {s})
            /\ runs' = rs
            /\ taskStatus' = task
  BY DEF AdvanceRunning, SkipCascade
<1> HIDE DEF skips, skipped, ready
<1>4. \A K \in SUBSET ready : /\ Claiming(skipped, K) \in [Step -> Row]
                              /\ Evolves(rows, Claiming(skipped, K))
  BY <1>1, <1>2, RowsTypes, ClaimingEvolves DEF skipped, ready
<1>5. CASE /\ Dispatching(ps, keys, ready, {})
           /\ FinishIfDone(Claiming(skipped, ready), rs, task)
  <2> DEFINE claimed == Claiming(skipped, ready)
  <2>1. claimed \in [Step -> Row] /\ Evolves(rows, claimed)
    BY <1>4
  <2> HIDE DEF claimed
  <2>2. CASE InProgress(claimed) # {}
    BY <1>1, <1>5, <2>1, <2>2 DEF FinishIfDone, MovesOn, claimed
  <2>3. CASE InProgress(claimed) = {}
    <3>1. PICK i \in Running(rs) :
             /\ subtasks' = Skipping(claimed, Pending(claimed))
             /\ runs' = Finish(rs, i, RunOutcome(claimed))
             /\ taskStatus' = TaskAfter(rs, i, RunOutcome(claimed), task)
      BY <1>5, <2>3 DEF FinishIfDone, claimed
    <3>2. RunOutcome(claimed) \in {"completed", "failed"}
      BY DEF RunOutcome
    <3>3. /\ Evolves(rows, subtasks')
          /\ InProgress(subtasks') = {}
      BY <2>1, <2>3, <3>1, SkippingEvolves
    <3>4. subtasks' \in [Step -> Row]
      BY <2>1, <3>1, RowsTypes
    <3> QED  BY <1>1, <1>5, <3>1, <3>2, <3>3, <3>4 DEF MovesOn
  <2> QED  BY <2>2, <2>3
<1>6. CASE \E K \in SUBSET ready, s \in MayLose(ready) :
              /\ Dispatching(ps, keys, K \cup {s}, {s})
              /\ subtasks' = Claiming(skipped, K \cup {s})
              /\ runs' = rs
              /\ taskStatus' = task
  <2>1. PICK K \in SUBSET ready, s \in MayLose(ready) :
              /\ Dispatching(ps, keys, K \cup {s}, {s})
              /\ subtasks' = Claiming(skipped, K \cup {s})
              /\ runs' = rs
              /\ taskStatus' = task
    BY <1>6
  <2>2. s \in ready /\ s \in Step /\ K \cup {s} \in SUBSET ready
    BY <1>1 DEF MayLose
  <2>3. subtasks'[s].status = "in_progress"
    BY <1>2, <2>1, <2>2 DEF Claiming, Row
  <2>4. InProgress(subtasks') # {}
    BY <2>2, <2>3 DEF InProgress
  <2> QED  BY <1>1, <1>4, <2>1, <2>2, <2>4 DEF MovesOn
<1> QED  BY <1>3, <1>5, <1>6

LEMMA AdvanceEffect ==
    ASSUME NEW rows \in [Step -> Row], NEW rs, NEW task, NEW ps, NEW keys,
           Advance(rows, rs, task, ps, keys)
    PROVE  /\ subtasks' \in [Step -> Row]
           /\ Evolves(rows, subtasks')
           /\ \/ ~IsRunning(rs) /\ subtasks' = rows /\ runs' = rs /\ taskStatus' = task
              \/ IsRunning(rs) /\ MovesOn(rs, task)
           /\ \E K \in SUBSET Step : \E lost \in SUBSET K :
                 Dispatching(ps, keys, K, lost)
<1>1. CASE IsRunning(rs)
  <2>1. AdvanceRunning(rows, rs, task, ps, keys)
    BY <1>1 DEF Advance
  <2> QED  BY <1>1, <2>1, AdvanceRunningEffect
<1>2. CASE ~IsRunning(rs)
  <2>1. /\ subtasks' = rows
        /\ runs' = rs
        /\ taskStatus' = task
        /\ Dispatching(ps, keys, {}, {})
    BY <1>2 DEF Advance
  <2>2. \A s \in Step : rows[s].status = "in_progress" => rows[s].status # "pending"
    OBVIOUS
  <2>3. Evolves(rows, rows)
    BY <2>2 DEF Evolves
  <2> QED  BY <1>2, <2>1, <2>3
<1> QED  BY <1>1, <1>2

-----------------------------------------------------------------------------
(* Runs and pipelines keep their type.                                     *)

LEMMA RunsTypes ==
    ASSUME NEW rs \in Seq(RunStatus), NEW i, NEW status \in RunStatus
    PROVE  /\ Finish(rs, i, status) \in Seq(RunStatus)
           /\ DOMAIN Finish(rs, i, status) = DOMAIN rs
           /\ Append(rs, status) \in Seq(RunStatus)
           /\ Reopened(rs) \in Seq(RunStatus)
<1>1. Finish(rs, i, status) \in Seq(RunStatus)
  <2> DEFINE rt == [rs EXCEPT ![i] = IF @ = "running" THEN status ELSE @]
  <2>1. Len(rs) \in Nat /\ rs \in [1 .. Len(rs) -> RunStatus]
    OBVIOUS
  <2>2. rt \in [1 .. Len(rs) -> RunStatus]
    BY <2>1
  <2> QED  BY <2>1, <2>2, SeqDef DEF Finish
<1>2. DOMAIN Finish(rs, i, status) = DOMAIN rs
  BY DEF Finish
<1>3. "running" \in RunStatus
  BY DEF RunStatus
<1>4. Append(rs, status) \in Seq(RunStatus)
  OBVIOUS
<1>5. Reopened(rs) \in Seq(RunStatus)
  BY <1>3 DEF Reopened
<1> QED  BY <1>1, <1>2, <1>4, <1>5

LEMMA DispatchingTypes ==
    ASSUME NEW ps \in SUBSET Pipe, NEW keys \in [Step -> Nat],
           NEW K \in SUBSET Step, NEW lost,
           attempts \in [Step -> Nat], Dispatching(ps, keys, K, lost)
    PROVE  /\ attempts' \in [Step -> Nat]
           /\ pipes' \in SUBSET Pipe
           /\ cancelKeys' \in [Step -> Nat]
<1>1. ASSUME NEW s \in Step  PROVE  attempts[s] \in Nat /\ attempts[s] + 1 \in Nat
  OBVIOUS
<1>2. ASSUME NEW s \in Step, NEW n \in Nat  PROVE  NewPipe(s, n) \in Pipe
  BY DEF NewPipe, Pipe, Phase
<1>3. \A p \in pipes' : p \in ps \/ \E s \in Step : p = NewPipe(s, attempts[s] + 1)
  BY DEF Dispatching
<1>4. pipes' \in SUBSET Pipe
  BY <1>1, <1>2, <1>3
<1> QED  BY <1>1, <1>4 DEF Dispatching

LEMMA AdvanceTypes ==
    ASSUME NEW rows \in [Step -> Row], NEW rs \in Seq(RunStatus),
           NEW task \in TaskStatus, NEW ps \in SUBSET Pipe,
           NEW keys \in [Step -> Nat], attempts \in [Step -> Nat],
           Advance(rows, rs, task, ps, keys)
    PROVE  /\ subtasks' \in [Step -> Row]
           /\ runs' \in Seq(RunStatus)
           /\ taskStatus' \in TaskStatus
           /\ attempts' \in [Step -> Nat]
           /\ pipes' \in SUBSET Pipe
           /\ cancelKeys' \in [Step -> Nat]
<1>1. /\ subtasks' \in [Step -> Row]
      /\ \/ ~IsRunning(rs) /\ subtasks' = rows /\ runs' = rs /\ taskStatus' = task
         \/ IsRunning(rs) /\ MovesOn(rs, task)
      /\ \E K \in SUBSET Step : \E lost \in SUBSET K :
            Dispatching(ps, keys, K, lost)
  BY AdvanceEffect
<1>2. \A i, status : TaskAfter(rs, i, status, task) \in TaskStatus
  BY DEF TaskAfter, TaskStatus
<1>3. \A i : \A status \in {"completed", "failed"} : Finish(rs, i, status) \in Seq(RunStatus)
  BY RunsTypes DEF RunStatus
<1>4. runs' \in Seq(RunStatus) /\ taskStatus' \in TaskStatus
  BY <1>1, <1>2, <1>3 DEF MovesOn
<1>5. /\ attempts' \in [Step -> Nat]
      /\ pipes' \in SUBSET Pipe
      /\ cancelKeys' \in [Step -> Nat]
  BY <1>1, DispatchingTypes
<1> QED  BY <1>1, <1>4, <1>5

-----------------------------------------------------------------------------
(* Type correctness.                                                       *)

LEMMA InitTypeOK == Init => TypeOK
BY RowTypes, EmptySeq DEF Init, TypeOK, TaskStatus, FreshRow, Row, Status, Decision

LEMMA MovedTypes ==
    ASSUME TypeOK, NEW p \in pipes, NEW K
    PROVE  /\ p \in Pipe /\ p.step \in Step /\ p.attempt \in Nat
           /\ \A phase \in Phase : [p EXCEPT !.phase = phase] \in Pipe
           /\ \A q \in Pipe : Moved(p, q) \in SUBSET Pipe
           /\ pipes \ {p} \in SUBSET Pipe
           /\ KeyOf(p) \in [Step -> Nat]
           /\ DropKey(p) \in [Step -> Nat]
           /\ Aborting(K) \in SUBSET Pipe
<1>1. p \in Pipe /\ p.step \in Step /\ p.attempt \in Nat
  BY DEF TypeOK, Pipe
<1>2. \A phase \in Phase : [p EXCEPT !.phase = phase] \in Pipe
  BY <1>1 DEF Pipe
<1>3. KeyOf(p) \in [Step -> Nat] /\ DropKey(p) \in [Step -> Nat]
  BY <1>1 DEF KeyOf, DropKey, TypeOK
<1>4. \A q \in pipes : q \in Pipe /\ [q EXCEPT !.aborted = TRUE] \in Pipe
  BY DEF TypeOK, Pipe
<1>5. Aborting(K) \in SUBSET Pipe
  BY <1>4 DEF Aborting
<1> QED  BY <1>1, <1>2, <1>3, <1>5 DEF Moved, TypeOK

(* A run that starts, for a user or for what is composed with the engine.  *)
LEMMA RunStartsTypeOK ==
    ASSUME TypeOK, NEW reset \in BOOLEAN, RunStarts(reset), ops' \in Nat
    PROVE  TypeOK'
<1> DEFINE rows == IF reset THEN Resetting(subtasks, Step) ELSE subtasks
<1>0. /\ subtasks \in [Step -> Row] /\ runs \in Seq(RunStatus)
      /\ taskStatus \in TaskStatus /\ pipes \in SUBSET Pipe
      /\ cancelKeys \in [Step -> Nat] /\ attempts \in [Step -> Nat]
      /\ Append(runs, "running") \in Seq(RunStatus) /\ "in_progress" \in TaskStatus
  BY RunsTypes DEF TypeOK, RunStatus, TaskStatus
<1>1. rows \in [Step -> Row]
  BY <1>0, RowsTypes
<1>2. UNCHANGED <<up, verifyQueue, retrying>>
  BY DEF RunStarts
<1>3. CASE Step = {}
  <2>1. /\ described' = described \cup {Len(Append(runs, "running"))}
        /\ runs' = Append(runs, "running")
        /\ taskStatus' = "in_progress"
        /\ UNCHANGED <<subtasks, pipes, cancelKeys, attempts>>
    BY <1>3 DEF RunStarts
  <2>2. Len(Append(runs, "running")) \in Nat
    BY <1>0
  <2> QED  BY <1>0, <1>2, <2>1, <2>2 DEF TypeOK
<1>4. CASE Step # {}
  <2>1. /\ Advance(rows, Append(runs, "running"), "in_progress", pipes, cancelKeys)
        /\ UNCHANGED described
    BY <1>4 DEF RunStarts
  <2> HIDE DEF rows
  <2> QED  BY <1>0, <1>1, <1>2, <2>1, AdvanceTypes DEF TypeOK
<1> QED  BY <1>3, <1>4

LEMMA UserStepsTypeOK ==
    ASSUME TypeOK,
           \/ \E reset \in BOOLEAN : StartRun(reset)
           \/ CancelRun
           \/ \E s \in Step : RetryCheck(s) \/ RetryLocked(s) \/ ExecuteSubtask(s)
           \/ ExecuteSubtasks
           \/ \E status \in {"todo", "done"} : MoveTask(status)
           \/ \E s \in ByHand, result \in AgentSays : CompleteSubtask(s, result)
           \/ \E s \in ByHand : FailSubtask(s)
           \/ \E g \in Gate, d \in {"approved", "rejected"} : ResolveApproval(g, d)
    PROVE  TypeOK'
<1> USE GraphAssumption, EngineAssumption
<1>0. /\ subtasks \in [Step -> Row] /\ runs \in Seq(RunStatus)
      /\ taskStatus \in TaskStatus /\ pipes \in SUBSET Pipe
      /\ cancelKeys \in [Step -> Nat] /\ attempts \in [Step -> Nat]
      /\ Append(runs, "running") \in Seq(RunStatus) /\ "in_progress" \in TaskStatus
  BY RunsTypes DEF TypeOK, RunStatus, TaskStatus
<1>1. ASSUME NEW reset \in BOOLEAN, StartRun(reset)  PROVE TypeOK'
  <2>1. RunStarts(reset) /\ ops' \in Nat
    BY <1>1 DEF StartRun, Operation, TypeOK
  <2> QED  BY <2>1, RunStartsTypeOK
<1>2. ASSUME CancelRun  PROVE TypeOK'
  <2>1. subtasks' \in [Step -> Row]
    <3>1. \A s \in Step : Failed(subtasks[s]) \in Row
      BY <1>0, RowTypes
    <3>2. \A s \in Step : [Failed(subtasks[s]) EXCEPT !.awaiting = FALSE] \in Row
      BY <3>1 DEF Row
    <3> QED  BY <1>0, <1>2, <3>2 DEF CancelRun
  <2>2. runs' \in Seq(RunStatus) /\ taskStatus' \in TaskStatus
    BY <1>0, <1>2, RunsTypes DEF CancelRun, TaskAfter, TaskStatus, RunStatus
  <2>3. pipes' \in SUBSET Pipe
    <3>1. \A q \in pipes : q \in Pipe /\ [q EXCEPT !.aborted = TRUE] \in Pipe
      BY <1>0 DEF Pipe
    <3> QED  BY <1>2, <3>1 DEF CancelRun, Aborting
  <2>4. ops' \in Nat
    BY <1>2 DEF CancelRun, Operation, TypeOK
  <2> QED  BY <1>2, <2>1, <2>2, <2>3, <2>4 DEF CancelRun, TypeOK
<1>3. ASSUME NEW s \in Step, RetryCheck(s)  PROVE TypeOK'
  BY <1>3 DEF RetryCheck, Operation, TypeOK, database
<1>4. ASSUME NEW s \in Step, RetryLocked(s)  PROVE TypeOK'
  <2>1. Resetting(subtasks, {s} \cup Downstream(Edge, s)) \in [Step -> Row]
    BY <1>0, RowsTypes
  <2>2. Reopened(runs) \in Seq(RunStatus)
    BY <1>0, RunsTypes DEF RunStatus
  <2>3. retrying' \in [Step -> Nat]
    BY <1>4 DEF RetryLocked, TypeOK
  <2>4. Advance(Resetting(subtasks, {s} \cup Downstream(Edge, s)), Reopened(runs),
                "in_progress", pipes, cancelKeys)
    BY <1>4 DEF RetryLocked
  <2>5. UNCHANGED <<up, verifyQueue, described, ops>>
    BY <1>4 DEF RetryLocked
  <2> QED  BY <1>0, <2>1, <2>2, <2>3, <2>4, <2>5, AdvanceTypes DEF TypeOK
<1>5. ASSUME NEW s \in Step, ExecuteSubtask(s)  PROVE TypeOK'
  <2>1. subtasks' \in [Step -> Row]
    BY <1>0, <1>5, RowsTypes DEF ExecuteSubtask
  <2>2. attempts' \in [Step -> Nat] /\ pipes' \in SUBSET Pipe /\ cancelKeys' \in [Step -> Nat]
    <3>1. PICK lost : Dispatching(pipes, cancelKeys, {s}, lost)
      BY <1>5 DEF ExecuteSubtask
    <3> QED  BY <1>0, <3>1, DispatchingTypes
  <2>3. runs' \in Seq(RunStatus) /\ taskStatus' \in TaskStatus
    BY <1>0, <1>5 DEF ExecuteSubtask
  <2>4. ops' \in Nat /\ UNCHANGED <<up, verifyQueue, described, retrying>>
    BY <1>5 DEF ExecuteSubtask, Operation, TypeOK
  <2> QED  BY <2>1, <2>2, <2>3, <2>4 DEF TypeOK
<1>6. ASSUME ExecuteSubtasks  PROVE TypeOK'
  <2>1. ops' \in Nat /\ UNCHANGED <<up, verifyQueue, described, retrying>>
    BY <1>6 DEF ExecuteSubtasks, Operation, TypeOK
  <2>2. Advance(subtasks, runs, taskStatus, pipes, cancelKeys)
    BY <1>6 DEF ExecuteSubtasks
  <2> QED  BY <1>0, <2>1, <2>2, AdvanceTypes DEF TypeOK
<1>7. ASSUME NEW status \in {"todo", "done"}, MoveTask(status)  PROVE TypeOK'
  <2>1. /\ ops' \in Nat /\ taskStatus' \in TaskStatus
        /\ UNCHANGED <<subtasks, runs, up, pipes, cancelKeys, verifyQueue, described,
                       retrying, attempts>>
    BY <1>7 DEF MoveTask, Operation, TypeOK, TaskStatus, memory
  <2> QED  BY <2>1 DEF TypeOK
<1>8. ASSUME NEW s \in ByHand, NEW result \in AgentSays, CompleteSubtask(s, result)
      PROVE  TypeOK'
  <2>1. s \in Step /\ Completed(subtasks[s], result) \in Row
    BY <1>0, RowTypes
  <2>2. [subtasks EXCEPT ![s] = Completed(@, result)] \in [Step -> Row]
    BY <1>0, <2>1
  <2>3. Advance([subtasks EXCEPT ![s] = Completed(@, result)], runs, taskStatus,
                pipes, cancelKeys)
    BY <1>8 DEF CompleteSubtask
  <2>4. ops' \in Nat /\ UNCHANGED <<up, verifyQueue, described, retrying>>
    BY <1>8 DEF CompleteSubtask, Operation, TypeOK
  <2> QED  BY <1>0, <2>2, <2>3, <2>4, AdvanceTypes DEF TypeOK
<1>9. ASSUME NEW s \in ByHand, FailSubtask(s)  PROVE TypeOK'
  <2>1. s \in Step /\ Failed(subtasks[s]) \in Row
    BY <1>0, RowTypes
  <2>2. [subtasks EXCEPT ![s] = Failed(@)] \in [Step -> Row]
    BY <1>0, <2>1
  <2>3. Aborting({s}) \in SUBSET Pipe
    <3>1. \A q \in pipes : q \in Pipe /\ [q EXCEPT !.aborted = TRUE] \in Pipe
      BY <1>0 DEF Pipe
    <3> QED  BY <3>1 DEF Aborting
  <2>4. Advance([subtasks EXCEPT ![s] = Failed(@)], runs, taskStatus,
                Aborting({s}), cancelKeys)
    BY <1>9 DEF FailSubtask
  <2>5. ops' \in Nat /\ UNCHANGED <<up, verifyQueue, described, retrying>>
    BY <1>9 DEF FailSubtask, Operation, TypeOK
  <2> QED  BY <1>0, <2>2, <2>3, <2>4, <2>5, AdvanceTypes DEF TypeOK
<1>10. ASSUME NEW g \in Gate, NEW d \in {"approved", "rejected"}, ResolveApproval(g, d)
       PROVE  TypeOK'
  <2> DEFINE rows == [subtasks EXCEPT ![g] =
                        [Completed(@, d) EXCEPT !.awaiting = FALSE, !.decision = d]]
  <2>1. g \in Step /\ Completed(subtasks[g], d) \in Row
    BY <1>0, RowTypes
  <2>2. [Completed(subtasks[g], d) EXCEPT !.awaiting = FALSE, !.decision = d] \in Row
    BY <2>1 DEF Row, Decision
  <2>3. rows \in [Step -> Row]
    BY <1>0, <2>1, <2>2
  <2>4. Advance(rows, runs, taskStatus, pipes, cancelKeys)
    BY <1>10 DEF ResolveApproval
  <2>5. UNCHANGED <<up, verifyQueue, described, retrying, ops>>
    BY <1>10 DEF ResolveApproval
  <2> HIDE DEF rows
  <2> QED  BY <1>0, <2>3, <2>4, <2>5, AdvanceTypes DEF TypeOK
<1> QED  BY <1>1, <1>2, <1>3, <1>4, <1>5, <1>6, <1>7, <1>8, <1>9, <1>10

(* What a pipeline is once its turn came back, was counted, was given up.  *)
LEMMA TurnedType ==
    ASSUME NEW p \in Pipe, NEW result \in Outcome \cup {NoOutcome, Failure}
    PROVE  [p EXCEPT !.phase = "check", !.aborted = FALSE, !.result = result] \in Pipe
  BY DEF Pipe, Phase

LEMMA CountedType ==
    ASSUME NEW p \in Pipe, NEW n \in Nat
    PROVE  [p EXCEPT !.phase = "verify", !.tries = n] \in Pipe
  BY DEF Pipe, Phase

LEMMA GivenUpType ==
    ASSUME NEW p \in Pipe
    PROVE  [p EXCEPT !.phase = "settle", !.result = Failure] \in Pipe
  BY DEF Pipe, Phase

LEMMA PipeStepsTypeOK ==
    ASSUME TypeOK, NEW p \in pipes, PipeSteps(p) \/ PipeDies(p)
    PROVE  TypeOK'
<1> USE GraphAssumption, EngineAssumption
<1>0. /\ subtasks \in [Step -> Row] /\ runs \in Seq(RunStatus)
      /\ taskStatus \in TaskStatus /\ pipes \in SUBSET Pipe
      /\ cancelKeys \in [Step -> Nat] /\ attempts \in [Step -> Nat]
      /\ verifyQueue \in Seq(Step \X Nat)
      /\ verifyQueue # <<>> => Tail(verifyQueue) \in Seq(Step \X Nat)
  BY DEF TypeOK
<1>1. /\ p \in Pipe /\ p.step \in Step /\ p.attempt \in Nat
      /\ \A phase \in Phase : [p EXCEPT !.phase = phase] \in Pipe
      /\ \A q \in Pipe : Moved(p, q) \in SUBSET Pipe
      /\ pipes \ {p} \in SUBSET Pipe
      /\ KeyOf(p) \in [Step -> Nat]
      /\ DropKey(p) \in [Step -> Nat]
  BY MovedTypes
<1>2. ASSUME TurnRegisters(p)  PROVE TypeOK'
  <2>1. [p EXCEPT !.phase = "turn"] \in Pipe
    BY <1>1 DEF Phase
  <2>2. pipes' \in SUBSET Pipe
    BY <1>1, <1>2, <2>1 DEF TurnRegisters
  <2>3. UNCHANGED <<subtasks, runs, taskStatus, up, cancelKeys, verifyQueue,
                    described, retrying, attempts, ops>>
    BY <1>2 DEF TurnRegisters, database
  <2> QED  BY <2>2, <2>3 DEF TypeOK
<1>3. ASSUME NEW result \in AgentSays \cup {Failure}, TurnEnds(p, result)
      PROVE TypeOK'
  <2>1. [p EXCEPT !.phase = "check", !.aborted = FALSE, !.result = result] \in Pipe
    <3>1. result \in Outcome \cup {NoOutcome, Failure}
      OBVIOUS
    <3> QED  BY <1>1, <3>1, TurnedType
  <2>2. pipes' \in SUBSET Pipe /\ cancelKeys' \in [Step -> Nat]
    BY <1>1, <1>3, <2>1 DEF TurnEnds
  <2>3. UNCHANGED <<subtasks, runs, taskStatus, up, verifyQueue, described,
                    retrying, attempts, ops>>
    BY <1>3 DEF TurnEnds, database
  <2> QED  BY <2>2, <2>3 DEF TypeOK
<1>4. ASSUME CheckStep(p)  PROVE TypeOK'
  <2>1. [p EXCEPT !.phase = IF p.result = Failure THEN "settle" ELSE "count"] \in Pipe
    BY <1>1 DEF Phase
  <2>2. pipes' \in SUBSET Pipe
    BY <1>1, <1>4, <2>1 DEF CheckStep
  <2>3. UNCHANGED <<subtasks, runs, taskStatus, up, cancelKeys, verifyQueue,
                    described, retrying, attempts, ops>>
    BY <1>4 DEF CheckStep, database
  <2> QED  BY <2>2, <2>3 DEF TypeOK
<1>5. ASSUME CountAttempt(p)  PROVE TypeOK'
  <2>1. subtasks[p.step] \in Row /\ subtasks[p.step].retryCount + 1 \in Nat
    BY <1>0, <1>1 DEF Row
  <2>2. [subtasks[p.step] EXCEPT !.retryCount = @ + 1] \in Row
    BY <2>1 DEF Row
  <2>3. subtasks' \in [Step -> Row]
    BY <1>0, <1>1, <1>5, <2>2 DEF CountAttempt
  <2>4. [p EXCEPT !.phase = "verify", !.tries = subtasks[p.step].retryCount + 1] \in Pipe
    BY <1>1, <2>1, CountedType
  <2>5. pipes' \in SUBSET Pipe
    BY <1>1, <1>5, <2>4 DEF CountAttempt
  <2>6. verifyQueue' \in Seq(Step \X Nat)
    BY <1>0, <1>1, <1>5 DEF CountAttempt
  <2>7. UNCHANGED <<runs, taskStatus, up, cancelKeys, described, retrying, attempts, ops>>
    BY <1>5 DEF CountAttempt
  <2> QED  BY <2>3, <2>5, <2>6, <2>7 DEF TypeOK
<1>6. ASSUME NEW accepted \in BOOLEAN, VerifyEnds(p, accepted)  PROVE TypeOK'
  <2>1. /\ [p EXCEPT !.phase = "settle"] \in Pipe
        /\ [p EXCEPT !.phase = "again"] \in Pipe
        /\ [p EXCEPT !.phase = "settle", !.result = Failure] \in Pipe
    BY <1>1, GivenUpType DEF Phase
  <2>2. pipes' \in SUBSET Pipe
    BY <1>1, <1>6, <2>1 DEF VerifyEnds
  <2>3. verifyQueue' \in Seq(Step \X Nat)
    BY <1>0, <1>6 DEF VerifyEnds
  <2>4. UNCHANGED <<subtasks, runs, taskStatus, up, cancelKeys, described,
                    retrying, attempts, ops>>
    BY <1>6 DEF VerifyEnds, database
  <2> QED  BY <2>2, <2>3, <2>4 DEF TypeOK
<1>7. ASSUME TurnAgain(p)  PROVE TypeOK'
  <2>1. NewPipe(p.step, p.attempt) \in Pipe
    BY <1>1 DEF NewPipe, Pipe, Phase
  <2>2. pipes' \in SUBSET Pipe /\ cancelKeys' \in [Step -> Nat]
    BY <1>0, <1>1, <1>7, <2>1 DEF TurnAgain
  <2>3. UNCHANGED <<subtasks, runs, taskStatus, up, verifyQueue, described,
                    retrying, attempts, ops>>
    BY <1>7 DEF TurnAgain, database
  <2> QED  BY <2>2, <2>3 DEF TypeOK
<1>8. ASSUME SettleStep(p)  PROVE TypeOK'
  <2> DEFINE row  == IF p.result = Failure THEN Failed(subtasks[p.step])
                     ELSE CompleteOrLoop(subtasks[p.step], p.step, p.result)
             rows == [subtasks EXCEPT ![p.step] = row]
  <2>1. UNCHANGED <<up, verifyQueue, described, retrying, ops>>
    BY <1>8 DEF SettleStep
  <2>2. CASE Advance(rows, runs, taskStatus, pipes \ {p}, cancelKeys)
    <3>1. p.result # Failure => p.result \in Outcome \cup {NoOutcome}
      BY <1>1 DEF Pipe
    <3>2. row \in Row
      BY <1>0, <1>1, <3>1, RowTypes
    <3> HIDE DEF row
    <3>3. rows \in [Step -> Row]
      BY <1>0, <1>1, <3>2
    <3> HIDE DEF rows
    <3> QED  BY <1>0, <1>1, <2>1, <2>2, <3>3, AdvanceTypes DEF TypeOK
  <2>3. CASE pipes' = pipes \ {p} /\ UNCHANGED <<database, cancelKeys, attempts>>
    <3>1. UNCHANGED <<subtasks, runs, taskStatus, cancelKeys, attempts>>
      BY <2>3 DEF database
    <3> QED  BY <1>1, <2>1, <2>3, <3>1 DEF TypeOK
  <2> QED  BY <1>8, <2>2, <2>3 DEF SettleStep
<1>9. ASSUME PipeDies(p)  PROVE TypeOK'
  <2>1. pipes' \in SUBSET Pipe /\ verifyQueue' \in Seq(Step \X Nat)
    BY <1>0, <1>1, <1>9 DEF PipeDies
  <2>2. UNCHANGED <<subtasks, runs, taskStatus, up, cancelKeys, described,
                    retrying, attempts, ops>>
    BY <1>9 DEF PipeDies, database
  <2> QED  BY <2>1, <2>2 DEF TypeOK
<1> QED  BY <1>2, <1>3, <1>4, <1>5, <1>6, <1>7, <1>8, <1>9 DEF PipeSteps

LEMMA ServerStepsTypeOK ==
    ASSUME TypeOK,
           \/ \E i \in described, status \in {"completed", "failed"} :
                 DescriptionEnds(i, status)
           \/ Crash \/ Recover
           \/ \E s \in Step : CheckStuck(s)
    PROVE  TypeOK'
<1>0. /\ subtasks \in [Step -> Row] /\ runs \in Seq(RunStatus)
      /\ taskStatus \in TaskStatus /\ pipes \in SUBSET Pipe
      /\ cancelKeys \in [Step -> Nat] /\ attempts \in [Step -> Nat]
      /\ "todo" \in TaskStatus
  BY DEF TypeOK, TaskStatus
<1>1. ASSUME NEW i \in described, NEW status \in {"completed", "failed"},
             DescriptionEnds(i, status)
      PROVE  TypeOK'
  <2>1. described' \subseteq Nat
    BY <1>1 DEF DescriptionEnds, TypeOK
  <2>2. runs' \in Seq(RunStatus) /\ taskStatus' \in TaskStatus
    BY <1>0, <1>1, RunsTypes DEF DescriptionEnds, TaskAfter, TaskStatus, RunStatus
  <2>3. UNCHANGED <<subtasks, up, pipes, cancelKeys, verifyQueue, retrying, attempts, ops>>
    BY <1>1 DEF DescriptionEnds
  <2> QED  BY <2>1, <2>2, <2>3 DEF TypeOK
<1>2. ASSUME Crash  PROVE TypeOK'
  <2>1. ops' \in Nat /\ up' \in BOOLEAN
    <3>1. ops' \in Nat
      BY <1>2 DEF Crash, Operation, TypeOK
    <3>2. up' \in BOOLEAN
      BY <1>2, Zenon DEF Crash
    <3> QED  BY <3>1, <3>2
  <2>2. /\ pipes' \in SUBSET Pipe /\ described' \in SUBSET Nat
        /\ verifyQueue' \in Seq(Step \X Nat)
    BY <1>2, EmptySeq DEF Crash
  <2>3. cancelKeys' \in [Step -> Nat] /\ retrying' \in [Step -> Nat]
    BY <1>2 DEF Crash
  <2>4. UNCHANGED <<subtasks, runs, taskStatus, attempts>>
    BY <1>2 DEF Crash, database
  <2> QED  BY <2>1, <2>2, <2>3, <2>4 DEF TypeOK
<1>3. ASSUME Recover  PROVE TypeOK'
  <2>1. up' \in BOOLEAN /\ UNCHANGED <<verifyQueue, described, retrying, ops>>
    BY <1>3 DEF Recover
  <2>2. CASE Step = {}
    <3> DEFINE rs == [i \in DOMAIN runs |-> IF runs[i] = "running" THEN "failed" ELSE runs[i]]
    <3>1. Len(runs) \in Nat /\ rs \in [1 .. Len(runs) -> RunStatus]
      BY <1>0 DEF RunStatus
    <3>2. rs \in Seq(RunStatus)
      BY <3>1, SeqDef
    <3>3. taskStatus' \in TaskStatus /\ runs' = rs
          /\ UNCHANGED <<subtasks, pipes, cancelKeys, attempts>>
      BY <1>0, <1>3, <2>2 DEF Recover
    <3> HIDE DEF rs
    <3> QED  BY <2>1, <3>2, <3>3 DEF TypeOK
  <2>3. CASE Step # {}
    <3> DEFINE rows == IF IsRunning(runs)
                       THEN Failing(subtasks, {s \in InProgress(subtasks) :
                                                 ~subtasks[s].awaiting})
                       ELSE subtasks
    <3>1. rows \in [Step -> Row]
      BY <1>0, RowsTypes
    <3>2. Advance(rows, runs, taskStatus, pipes, cancelKeys)
      BY <1>3, <2>3 DEF Recover
    <3> HIDE DEF rows
    <3> QED  BY <1>0, <2>1, <3>1, <3>2, AdvanceTypes DEF TypeOK
  <2> QED  BY <2>2, <2>3
<1>4. ASSUME NEW s \in Step, CheckStuck(s)  PROVE TypeOK'
  <2> DEFINE task == IF IsRunning(runs) THEN taskStatus ELSE "todo"
  <2>1. Failing(subtasks, {s}) \in [Step -> Row] /\ task \in TaskStatus
    BY <1>0, RowsTypes
  <2>2. /\ Advance(Failing(subtasks, {s}), runs, task, pipes, cancelKeys)
        /\ UNCHANGED <<up, verifyQueue, described, retrying, ops>>
    BY <1>4 DEF CheckStuck
  <2> HIDE DEF task
  <2> QED  BY <1>0, <2>1, <2>2, AdvanceTypes DEF TypeOK
<1> QED  BY <1>1, <1>2, <1>3, <1>4

LEMMA NextTypeOK == TypeOK /\ Next => TypeOK'
BY UserStepsTypeOK, PipeStepsTypeOK, ServerStepsTypeOK DEF Next, StepsNext, DescriptionNext

(* Every variable keeps its type: rows, runs, pipelines and queues stay    *)
(* well formed whatever users, agents, timers and crashes do.              *)
THEOREM TypeCorrect == Spec => []TypeOK
<1>1. TypeOK /\ UNCHANGED vars => TypeOK'
  BY DEF TypeOK, vars, database, memory
<1> QED  BY InitTypeOK, NextTypeOK, <1>1, PTL DEF Spec

-----------------------------------------------------------------------------
(* The inductive invariant, stated of rows and runs before the graph moves *)
(* on, and carried over by the move.                                       *)

OnlyOne(rs) == \A i, j \in Running(rs) : i = j

Sound(rows) ==
    \A s \in InProgress(rows) : \A e \in Incoming(Edge, s) :
        IsTerminal(rows[e.from]) /\ (e.from \in ByHand \/ ~Refuses(rows, e))

Decided(rows) == \A g \in Gate : rows[g].decision # "none" => IsTerminal(rows[g])

(* A run per task, and steps in progress only while it goes.               *)
Steady(rows, rs) ==
    /\ OnlyOne(rs)
    /\ ~IsRunning(rs) => InProgress(rows) = {}
    /\ Sound(rows)
    /\ Decided(rows)

LEMMA SoundIsBranchTaken ==
    ASSUME TypeOK
    PROVE  /\ Sound(subtasks) <=> UpstreamSettled /\ BranchTaken
           /\ OnlyOne(runs) <=> OneRunning
           /\ Decided(subtasks) <=> DecidedIsOver
BY DEF Sound, UpstreamSettled, BranchTaken, Waits, OnlyOne, OneRunning, Decided,
       DecidedIsOver

LEMMA FinishEnds ==
    ASSUME NEW rs \in Seq(RunStatus), OnlyOne(rs), NEW i \in Running(rs),
           NEW status \in {"completed", "failed", "cancelled"}
    PROVE  Running(Finish(rs, i, status)) = {}
<1>1. i \in DOMAIN rs /\ rs[i] = "running"
  BY DEF Running
<1>2. ASSUME NEW j \in DOMAIN rs  PROVE Finish(rs, i, status)[j] # "running"
  BY <1>1 DEF Finish, OnlyOne, Running
<1> QED  BY <1>2, RunsTypes DEF Running, RunStatus

LEMMA BeginsOne ==
    ASSUME NEW rs \in Seq(RunStatus)
    PROVE  /\ ~IsRunning(rs) => OnlyOne(Append(rs, "running"))
           /\ IsRunning(Append(rs, "running"))
           /\ OnlyOne(rs) => OnlyOne(Reopened(rs))
           /\ IsRunning(Reopened(rs))
<1>1. /\ Len(rs) \in Nat
      /\ DOMAIN rs = 1 .. Len(rs)
      /\ DOMAIN Append(rs, "running") = 1 .. Len(rs) + 1
      /\ Append(rs, "running")[Len(rs) + 1] = "running"
      /\ \A i \in 1 .. Len(rs) : Append(rs, "running")[i] = rs[i]
  OBVIOUS
<1>2. Len(rs) + 1 \in Running(Append(rs, "running"))
  BY <1>1 DEF Running
<1>3. IsRunning(Append(rs, "running"))
  BY <1>2 DEF IsRunning
<1>4. ASSUME ~IsRunning(rs)  PROVE OnlyOne(Append(rs, "running"))
  <2>1. \A i \in 1 .. Len(rs) : rs[i] # "running"
    BY <1>1, <1>4 DEF IsRunning, Running
  <2>2. \A i \in Running(Append(rs, "running")) : i = Len(rs) + 1
    BY <1>1, <2>1 DEF Running
  <2> QED  BY <2>2 DEF OnlyOne
<1>5. ASSUME IsRunning(rs)  PROVE Reopened(rs) = rs
  <2>1. rs # <<>>
    BY <1>1, <1>5 DEF IsRunning, Running
  <2> QED  BY <1>5, <2>1 DEF Reopened
<1>6. ASSUME ~IsRunning(rs), rs = <<>>
      PROVE  OnlyOne(Reopened(rs)) /\ IsRunning(Reopened(rs))
  <2>1. Reopened(rs) = <<"running">>
    BY <1>6 DEF Reopened
  <2>2. Running(<<"running">>) = {1}
    BY DEF Running
  <2> QED  BY <2>1, <2>2 DEF OnlyOne, IsRunning
<1>7. ASSUME ~IsRunning(rs), rs # <<>>
      PROVE  OnlyOne(Reopened(rs)) /\ IsRunning(Reopened(rs))
  <2> DEFINE again == [rs EXCEPT ![Len(rs)] = "running"]
  <2>1. Reopened(rs) = again
    BY <1>7 DEF Reopened
  <2>2. Len(rs) \in DOMAIN rs /\ DOMAIN again = DOMAIN rs
    BY <1>1, <1>7, EmptySeq
  <2>3. \A i \in DOMAIN rs : rs[i] # "running"
    BY <1>7 DEF IsRunning, Running
  <2>4. \A i \in DOMAIN rs : again[i] = "running" <=> i = Len(rs)
    BY <2>2, <2>3
  <2>5. Running(again) = {Len(rs)}
    BY <2>2, <2>4 DEF Running
  <2> HIDE DEF again
  <2>6. Running(Reopened(rs)) = {Len(rs)}
    BY <2>1, <2>5
  <2> QED  BY <2>6 DEF OnlyOne, IsRunning
<1> QED  BY <1>3, <1>4, <1>5, <1>6, <1>7

LEMMA EvolvesSteady ==
    ASSUME NEW rows \in [Step -> Row], NEW new \in [Step -> Row], Evolves(rows, new)
    PROVE  /\ Sound(rows) => Sound(new)
           /\ Decided(rows) => Decided(new)
           /\ \A s \in Step : new[s].decision = rows[s].decision
<1> USE GraphAssumption, EngineAssumption
<1>1. \A s \in Step : new[s].decision = rows[s].decision
  BY DEF Evolves
<1>2. ASSUME Decided(rows)  PROVE Decided(new)
  BY <1>2 DEF Decided, Evolves, IsTerminal
<1>3. ASSUME Sound(rows)  PROVE Sound(new)
  <2> SUFFICES ASSUME NEW s \in InProgress(new), NEW e \in Incoming(Edge, s)
               PROVE  IsTerminal(new[e.from]) /\ (e.from \in ByHand \/ ~Refuses(new, e))
    BY DEF Sound
  <2>1. s \in Step /\ e.from \in Step /\ new[s].status = "in_progress"
    BY DEF InProgress, Incoming, EdgeType
  <2>2. CASE rows[s].status = "pending"
    BY <2>1, <2>2 DEF Evolves, Agrees
  <2>3. CASE rows[s].status # "pending"
    <3>1. s \in InProgress(rows)
      BY <2>1, <2>3 DEF Evolves, InProgress
    <3>2. IsTerminal(rows[e.from]) /\ (e.from \in ByHand \/ ~Refuses(rows, e))
      BY <1>3, <3>1 DEF Sound
    <3>3. new[e.from] = rows[e.from]
      BY <2>1, <3>2 DEF Evolves, IsTerminal
    <3> QED  BY <3>2, <3>3 DEF Refuses
  <2> QED  BY <2>2, <2>3
<1> QED  BY <1>1, <1>2, <1>3

(* Moving the graph on keeps what it is given, and leaves no run without a *)
(* step in progress.                                                       *)
LEMMA AdvanceSteady ==
    ASSUME NEW rows \in [Step -> Row], NEW rs \in Seq(RunStatus), NEW task,
           NEW ps, NEW keys, Steady(rows, rs), \A p \in ps : p.step \notin Gate,
           Advance(rows, rs, task, ps, keys)
    PROVE  /\ Steady(subtasks', runs')
           /\ AgentPipes'
           /\ IsRunning(runs') => InProgress(subtasks') # {}
           /\ \A s \in Step : subtasks'[s].decision = rows[s].decision
<1>1. /\ subtasks' \in [Step -> Row]
      /\ Evolves(rows, subtasks')
      /\ \/ ~IsRunning(rs) /\ subtasks' = rows /\ runs' = rs
         \/ IsRunning(rs) /\ MovesOn(rs, task)
      /\ \E K \in SUBSET Step : \E lost \in SUBSET K :
            Dispatching(ps, keys, K, lost)
  BY AdvanceEffect
<1>2. /\ Sound(subtasks') /\ Decided(subtasks')
      /\ \A s \in Step : subtasks'[s].decision = rows[s].decision
  BY <1>1, EvolvesSteady DEF Steady
<1>3. AgentPipes'
  <2>1. PICK K \in SUBSET Step : \E lost \in SUBSET K : Dispatching(ps, keys, K, lost)
    BY <1>1
  <2>2. \A p \in pipes' : p \in ps \/ \E s \in Step \ Gate : p = NewPipe(s, attempts[s] + 1)
    BY <2>1 DEF Dispatching
  <2>3. \A s, n : NewPipe(s, n).step = s
    BY DEF NewPipe
  <2> QED  BY <2>2, <2>3 DEF AgentPipes
<1>4. CASE ~IsRunning(rs) /\ subtasks' = rows /\ runs' = rs
  BY <1>2, <1>3, <1>4 DEF Steady
<1>5. CASE IsRunning(rs) /\ runs' = rs /\ InProgress(subtasks') # {}
  BY <1>2, <1>3, <1>5 DEF Steady
<1>6. CASE /\ InProgress(subtasks') = {}
           /\ \E i \in Running(rs), status \in {"completed", "failed"} :
                 runs' = Finish(rs, i, status)
  <2>1. Running(runs') = {}
    BY <1>6, FinishEnds DEF Steady
  <2> QED  BY <1>2, <1>3, <1>6, <2>1 DEF Steady, OnlyOne, IsRunning
<1> QED  BY <1>1, <1>4, <1>5, <1>6 DEF MovesOn

(* What the operations do to the rows before the graph moves on.           *)

LEMMA ResettingSound ==
    ASSUME NEW rows \in [Step -> Row], NEW K, ForwardClosed(Edge, K), Sound(rows),
           Decided(rows)
    PROVE  /\ Sound(Resetting(rows, K))
           /\ Decided(Resetting(rows, K))
           /\ InProgress(Resetting(rows, K)) \subseteq InProgress(rows)
           /\ \A s \in Step : Resetting(rows, K)[s].decision \in {"none", rows[s].decision}
<1> USE GraphAssumption, EngineAssumption
<1> DEFINE new == Resetting(rows, K)
<1>1. \A s \in Step : /\ s \in K => new[s] = FreshRow
                      /\ s \notin K => new[s] = rows[s]
  BY DEF Resetting
<1>2. FreshRow.status = "pending" /\ FreshRow.decision = "none"
  BY DEF FreshRow
<1> HIDE DEF new
<1>3. \A s \in InProgress(new) : s \in Step /\ s \notin K /\ s \in InProgress(rows)
  BY <1>1, <1>2 DEF InProgress
<1>4. Sound(new)
  <2> SUFFICES ASSUME NEW s \in InProgress(new), NEW e \in Incoming(Edge, s)
               PROVE  IsTerminal(new[e.from]) /\ (e.from \in ByHand \/ ~Refuses(new, e))
    BY DEF Sound
  <2>1. e \in Edge /\ e.to = s /\ e.from \in Step
    BY DEF Incoming, EdgeType
  <2>2. e.from \notin K
    BY <1>3, <2>1 DEF ForwardClosed
  <2>3. new[e.from] = rows[e.from]
    BY <1>1, <2>1, <2>2
  <2> QED  BY <1>3, <2>3 DEF Sound, Refuses
<1>5. Decided(new)
  BY <1>1, <1>2 DEF Decided
<1> QED  BY <1>1, <1>2, <1>3, <1>4, <1>5 DEF new

(* The reset of a retry takes everything after the step with it.           *)
LEMMA DownstreamClosed ==
    ASSUME NEW s \in Step
    PROVE  ForwardClosed(Edge, {s} \cup Downstream(Edge, s))
<1> USE EngineAssumption
<1>1. s \in Reach(Edge, s)
  BY DEF Reach
<1>2. ASSUME NEW e \in Edge, e.from \in Reach(Edge, s)  PROVE e.to \in Reach(Edge, s)
  <2>1. e.to \in Step
    BY DEF EdgeType
  <2>2. ASSUME NEW K \in SUBSET Step, s \in K, ForwardClosed(Edge, K)
        PROVE  e.to \in K
    BY <1>2, <2>2 DEF Reach, ForwardClosed
  <2> QED  BY <2>1, <2>2 DEF Reach
<1>3. {s} \cup Downstream(Edge, s) = Reach(Edge, s)
  BY <1>1 DEF Downstream
<1> QED  BY <1>2, <1>3 DEF ForwardClosed

(* Ending steps in progress, or marking steps by hand.                     *)
LEMMA EndingSound ==
    ASSUME NEW rows \in [Step -> Row], NEW new \in [Step -> Row],
           \A s \in Step : \/ new[s] = rows[s]
                           \/ /\ new[s].status # "in_progress"
                              /\ rows[s].status = "in_progress"
                           \/ s \in ByHand /\ IsTerminal(new[s]),
           Sound(rows)
    PROVE  /\ Sound(new)
           /\ InProgress(new) \subseteq InProgress(rows)
<1> USE GraphAssumption, EngineAssumption
<1>1. \A s \in InProgress(new) : s \in InProgress(rows)
  BY DEF InProgress, IsTerminal
<1>2. Sound(new)
  <2> SUFFICES ASSUME NEW s \in InProgress(new), NEW e \in Incoming(Edge, s)
               PROVE  IsTerminal(new[e.from]) /\ (e.from \in ByHand \/ ~Refuses(new, e))
    BY DEF Sound
  <2>1. e.from \in Step
    BY DEF Incoming, EdgeType
  <2>2. IsTerminal(rows[e.from]) /\ (e.from \in ByHand \/ ~Refuses(rows, e))
    BY <1>1 DEF Sound
  <2>3. CASE e.from \in ByHand /\ IsTerminal(new[e.from])
    BY <2>3
  <2>4. CASE new[e.from] = rows[e.from]
    BY <2>2, <2>4 DEF Refuses
  <2> QED  BY <2>1, <2>2, <2>3, <2>4 DEF IsTerminal
<1> QED  BY <1>1, <1>2

(* What is left to show of the invariant once types are settled.           *)
Kept ==
    /\ Steady(subtasks', runs')
    /\ AgentPipes'
    /\ RunHasWork => RunHasWork'
    /\ NoDescription'

LEMMA KeptByAdvance ==
    ASSUME OrderInv, NEW rows \in [Step -> Row], NEW rs \in Seq(RunStatus), NEW task,
           NEW ps, NEW keys, Steady(rows, rs), \A p \in ps : p.step \notin Gate,
           Advance(rows, rs, task, ps, keys), described' = described
    PROVE  Kept
<1>1. /\ Steady(subtasks', runs')
      /\ AgentPipes'
      /\ IsRunning(runs') => InProgress(subtasks') # {}
  BY AdvanceSteady
<1>2. InProgress(subtasks') \subseteq Step
  BY DEF InProgress
<1>3. RunHasWork'
  BY <1>1, <1>2 DEF RunHasWork
<1>4. NoDescription'
  BY DEF NoDescription, OrderInv
<1> QED  BY <1>1, <1>3, <1>4 DEF Kept

LEMMA KeptByRowsAlone ==
    ASSUME OrderInv,
           UNCHANGED <<subtasks, runs>>, \A p \in pipes' : p.step \notin Gate,
           up' => up, described' = described
    PROVE  Kept
BY DEF OrderInv, Kept, Steady, OnlyOne, OneRunning, IdleIsQuiet, IsRunning, Running,
       Sound, UpstreamSettled, BranchTaken, Waits, Decided, DecidedIsOver, AgentPipes,
       RunHasWork, NoDescription, InProgress

LEMMA InvSteady ==
    ASSUME OrderInv
    PROVE  /\ subtasks \in [Step -> Row] /\ runs \in Seq(RunStatus)
           /\ Steady(subtasks, runs)
           /\ Sound(subtasks) /\ Decided(subtasks) /\ OnlyOne(runs)
           /\ \A p \in pipes : p.step \notin Gate
           /\ \A K : \A p \in Aborting(K) : p.step \notin Gate
<1>1. TypeOK /\ subtasks \in [Step -> Row] /\ runs \in Seq(RunStatus)
  BY DEF OrderInv, TypeOK
<1>2. Sound(subtasks) /\ Decided(subtasks) /\ OnlyOne(runs)
  BY <1>1, SoundIsBranchTaken DEF OrderInv
<1>3. \A p \in pipes : p \in Pipe /\ p.step \notin Gate
  BY <1>1 DEF OrderInv, AgentPipes, TypeOK
<1>4. \A p \in pipes : [p EXCEPT !.aborted = TRUE].step = p.step
  BY <1>3 DEF Pipe
<1>5. \A K : \A p \in Aborting(K) : p.step \notin Gate
  BY <1>3, <1>4 DEF Aborting
<1> QED  BY <1>1, <1>2, <1>3, <1>5 DEF Steady, OrderInv, IdleIsQuiet

(* A run that starts, for a user or for what is composed with the engine.  *)
LEMMA RunStartsKept ==
    ASSUME OrderInv, NEW reset \in BOOLEAN, RunStarts(reset)
    PROVE  Kept
<1> USE GraphAssumption, EngineAssumption
<1>0. /\ subtasks \in [Step -> Row] /\ runs \in Seq(RunStatus)
      /\ Steady(subtasks, runs)
      /\ Sound(subtasks) /\ Decided(subtasks) /\ OnlyOne(runs)
      /\ \A p \in pipes : p.step \notin Gate
      /\ \A K : \A p \in Aborting(K) : p.step \notin Gate
  BY InvSteady
<1> DEFINE rows == IF reset THEN Resetting(subtasks, Step) ELSE subtasks
           rs   == Append(runs, "running")
<1>1. ~IsRunning(runs) /\ rs \in Seq(RunStatus)
  BY <1>0, RunsTypes DEF RunStarts, RunStatus
<1>2. OnlyOne(rs) /\ IsRunning(rs)
  BY <1>0, <1>1, BeginsOne
<1>3. ForwardClosed(Edge, Step)
  BY DEF ForwardClosed, EdgeType
<1>4. rows \in [Step -> Row] /\ Sound(rows) /\ Decided(rows)
  BY <1>0, <1>3, ResettingSound, RowsTypes
<1>5. Steady(rows, rs)
  BY <1>2, <1>4 DEF Steady
<1>6. CASE Step # {}
  <2>1. /\ Advance(rows, rs, "in_progress", pipes, cancelKeys)
        /\ described' = described
    BY <1>6 DEF RunStarts
  <2> HIDE DEF rows, rs
  <2> QED  BY <1>0, <1>1, <1>4, <1>5, <2>1, KeptByAdvance
<1>7. CASE Step = {}
  <2>1. /\ runs' = rs /\ described' = described \cup {Len(rs)}
        /\ subtasks' = subtasks /\ pipes' = pipes
    BY <1>7 DEF RunStarts
  <2>2. rs[Len(rs)] = "running" /\ Len(rs) \in DOMAIN rs
    BY <1>0
  <2>3. Len(rs) \in Running(rs)
    BY <2>2 DEF Running
  <2> HIDE DEF rs
  <2>4. RunHasWork'
    BY <1>7, <2>1, <2>3 DEF RunHasWork
  <2>5. Steady(subtasks', runs')
    BY <1>0, <1>2, <2>1 DEF Steady
  <2> QED  BY <1>0, <1>7, <2>1, <2>4, <2>5 DEF Kept, AgentPipes, NoDescription
<1> QED  BY <1>6, <1>7

LEMMA RunStepsKept ==
    ASSUME OrderInv,
           \/ \E reset \in BOOLEAN : StartRun(reset)
           \/ CancelRun
           \/ \E s \in Step : RetryCheck(s) \/ RetryLocked(s) \/ ExecuteSubtask(s)
           \/ ExecuteSubtasks
           \/ \E status \in {"todo", "done"} : MoveTask(status)
    PROVE  Kept
<1> USE GraphAssumption, EngineAssumption
<1>0. /\ subtasks \in [Step -> Row] /\ runs \in Seq(RunStatus)
      /\ Steady(subtasks, runs)
      /\ Sound(subtasks) /\ Decided(subtasks) /\ OnlyOne(runs)
      /\ \A p \in pipes : p.step \notin Gate
      /\ \A K : \A p \in Aborting(K) : p.step \notin Gate
  BY InvSteady
<1>1. ASSUME NEW reset \in BOOLEAN, StartRun(reset)  PROVE Kept
  BY <1>1, RunStartsKept DEF StartRun
<1>2. ASSUME CancelRun  PROVE Kept
  <2>1. PICK i \in Running(runs) : runs' = Finish(runs, i, "cancelled")
    BY <1>2 DEF CancelRun
  <2>2. Running(runs') = {}
    BY <1>0, <2>1, FinishEnds
  <2>3. \A s \in Step : /\ s \in InProgress(subtasks) =>
                              /\ subtasks'[s].status = "failed"
                              /\ subtasks'[s].decision = subtasks[s].decision
                        /\ s \notin InProgress(subtasks) => subtasks'[s] = subtasks[s]
    BY <1>0, <1>2 DEF CancelRun, Failed, Row
  <2>4. subtasks' \in [Step -> Row]
    BY <1>2, UserStepsTypeOK DEF OrderInv, TypeOK
  <2>5. Sound(subtasks')
    BY <1>0, <2>3, <2>4, EndingSound DEF InProgress
  <2>6. Decided(subtasks') /\ InProgress(subtasks') = {}
    BY <1>0, <2>3 DEF Decided, InProgress, IsTerminal
  <2>7. pipes' = Aborting(InProgress(subtasks)) /\ described' = described
    BY <1>2 DEF CancelRun
  <2> QED  BY <1>0, <2>2, <2>5, <2>6, <2>7
           DEF Kept, Steady, OnlyOne, AgentPipes, RunHasWork, IsRunning, NoDescription, OrderInv
<1>3. ASSUME NEW s \in Step, RetryCheck(s)  PROVE Kept
  BY <1>0, <1>3, KeptByRowsAlone DEF RetryCheck, database
<1>4. ASSUME NEW s \in Step, RetryLocked(s)  PROVE Kept
  <2> DEFINE rows == Resetting(subtasks, {s} \cup Downstream(Edge, s))
             rs   == Reopened(runs)
  <2>1. rs \in Seq(RunStatus) /\ OnlyOne(rs) /\ IsRunning(rs)
    BY <1>0, BeginsOne, RunsTypes DEF RunStatus
  <2>2. rows \in [Step -> Row] /\ Sound(rows) /\ Decided(rows)
    BY <1>0, DownstreamClosed, ResettingSound, RowsTypes
  <2>3. Steady(rows, rs)
    BY <2>1, <2>2 DEF Steady
  <2>4. Advance(rows, rs, "in_progress", pipes, cancelKeys) /\ described' = described
    BY <1>4 DEF RetryLocked
  <2> HIDE DEF rows, rs
  <2> QED  BY <1>0, <2>1, <2>2, <2>3, <2>4, KeptByAdvance
<1>5. ASSUME NEW s \in Step, ExecuteSubtask(s)  PROVE Kept
  <2>1. /\ subtasks' = Claiming(subtasks, {s})
        /\ runs' = IF IsRunning(runs) THEN runs ELSE Append(runs, "running")
        /\ subtasks[s].status = "pending" /\ MayRun(subtasks, Edge, s)
        /\ described' = described
    BY <1>5 DEF ExecuteSubtask
  <2>2. Skipping(subtasks, {}) = subtasks
    BY <1>0 DEF Skipping
  <2>3. {s} \in SUBSET Ready(subtasks, Edge)
    BY <2>1 DEF Ready, Pending
  <2>4. subtasks' \in [Step -> Row] /\ Evolves(subtasks, subtasks')
    BY <1>0, <2>1, <2>2, <2>3, ClaimingEvolves, RowsTypes
  <2>5. Sound(subtasks') /\ Decided(subtasks')
    BY <1>0, <2>4, EvolvesSteady
  <2>6. OnlyOne(runs') /\ IsRunning(runs')
    BY <1>0, <2>1, BeginsOne
  <2>7. s \in InProgress(subtasks')
    BY <1>0, <2>1 DEF InProgress, Claiming, Row
  <2>8. AgentPipes'
    <3>1. PICK lost : Dispatching(pipes, cancelKeys, {s}, lost)
      BY <1>5 DEF ExecuteSubtask
    <3>2. \A p \in pipes' : p \in pipes \/ \E u \in Step \ Gate : p = NewPipe(u, attempts[u] + 1)
      BY <3>1 DEF Dispatching
    <3>3. \A u, n : NewPipe(u, n).step = u
      BY DEF NewPipe
    <3> QED  BY <1>0, <3>2, <3>3 DEF AgentPipes
  <2> QED  BY <2>1, <2>5, <2>6, <2>7, <2>8
           DEF Kept, Steady, RunHasWork, NoDescription, OrderInv
<1>6. ASSUME ExecuteSubtasks  PROVE Kept
  <2>1. Advance(subtasks, runs, taskStatus, pipes, cancelKeys) /\ described' = described
    BY <1>6 DEF ExecuteSubtasks
  <2> QED  BY <1>0, <2>1, KeptByAdvance
<1>7. ASSUME NEW status \in {"todo", "done"}, MoveTask(status)  PROVE Kept
  BY <1>0, <1>7, KeptByRowsAlone DEF MoveTask, memory
<1> QED  BY <1>1, <1>2, <1>3, <1>4, <1>5, <1>6, <1>7

LEMMA StepResultsKept ==
    ASSUME OrderInv,
           \/ \E s \in ByHand, result \in AgentSays : CompleteSubtask(s, result)
           \/ \E s \in ByHand : FailSubtask(s)
           \/ \E g \in Gate, d \in {"approved", "rejected"} : ResolveApproval(g, d)
    PROVE  Kept
<1> USE GraphAssumption, EngineAssumption
<1>0. /\ subtasks \in [Step -> Row] /\ runs \in Seq(RunStatus)
      /\ Steady(subtasks, runs)
      /\ Sound(subtasks) /\ Decided(subtasks) /\ OnlyOne(runs)
      /\ \A p \in pipes : p.step \notin Gate
      /\ \A K : \A p \in Aborting(K) : p.step \notin Gate
  BY InvSteady
<1>1. ASSUME NEW s \in Step, NEW row \in Row, IsTerminal(row),
             \/ s \in ByHand
             \/ subtasks[s].status = "in_progress"
      PROVE  /\ [subtasks EXCEPT ![s] = row] \in [Step -> Row]
             /\ Steady([subtasks EXCEPT ![s] = row], runs)
  <2> DEFINE new == [subtasks EXCEPT ![s] = row]
  <2>1. new \in [Step -> Row]
    BY <1>0
  <2>2. \A u \in Step : \/ new[u] = subtasks[u]
                        \/ new[u].status # "in_progress" /\ subtasks[u].status = "in_progress"
                        \/ u \in ByHand /\ IsTerminal(new[u])
    BY <1>0, <1>1 DEF IsTerminal
  <2>3. Decided(new)
    BY <1>0, <1>1 DEF Decided
  <2> HIDE DEF new
  <2>4. Sound(new) /\ InProgress(new) \subseteq InProgress(subtasks)
    BY <1>0, <2>1, <2>2, EndingSound
  <2>5. Steady(new, runs)
    BY <1>0, <2>3, <2>4 DEF Steady
  <2> QED  BY <2>1, <2>5 DEF new
<1>2. ASSUME NEW s \in ByHand, NEW result \in AgentSays, CompleteSubtask(s, result)
      PROVE  Kept
  <2> DEFINE row == Completed(subtasks[s], result)
  <2>1. s \in Step /\ row \in Row
    BY <1>0, RowTypes
  <2>2. IsTerminal(row)
    BY <1>0, <2>1 DEF Completed, IsTerminal, Row
  <2>3. /\ Advance([subtasks EXCEPT ![s] = row], runs, taskStatus, pipes, cancelKeys)
        /\ described' = described
    BY <1>2 DEF CompleteSubtask
  <2> HIDE DEF row
  <2>4. /\ [subtasks EXCEPT ![s] = row] \in [Step -> Row]
        /\ Steady([subtasks EXCEPT ![s] = row], runs)
    BY <1>1, <2>1, <2>2
  <2> QED  BY <1>0, <2>3, <2>4, KeptByAdvance
<1>3. ASSUME NEW s \in ByHand, FailSubtask(s)  PROVE Kept
  <2> DEFINE row == Failed(subtasks[s])
  <2>1. s \in Step /\ row \in Row
    BY <1>0, RowTypes
  <2>2. IsTerminal(row)
    BY <1>0, <2>1 DEF Failed, IsTerminal, Row
  <2>3. /\ Advance([subtasks EXCEPT ![s] = row], runs, taskStatus, Aborting({s}), cancelKeys)
        /\ described' = described
    BY <1>3 DEF FailSubtask
  <2> HIDE DEF row
  <2>4. /\ [subtasks EXCEPT ![s] = row] \in [Step -> Row]
        /\ Steady([subtasks EXCEPT ![s] = row], runs)
    BY <1>1, <2>1, <2>2
  <2> QED  BY <1>0, <2>3, <2>4, KeptByAdvance
<1>4. ASSUME NEW g \in Gate, NEW d \in {"approved", "rejected"}, ResolveApproval(g, d)
      PROVE  Kept
  <2> DEFINE row == [Completed(subtasks[g], d) EXCEPT !.awaiting = FALSE, !.decision = d]
  <2>1. g \in Step /\ Completed(subtasks[g], d) \in Row
    BY <1>0, RowTypes
  <2>2. row \in Row
    BY <2>1 DEF Row, Decision
  <2>3. IsTerminal(row)
    BY <1>0, <2>1 DEF Completed, IsTerminal, Row
  <2>4. /\ Advance([subtasks EXCEPT ![g] = row], runs, taskStatus, pipes, cancelKeys)
        /\ described' = described
        /\ subtasks[g].status = "in_progress"
    BY <1>4 DEF ResolveApproval
  <2> HIDE DEF row
  <2>5. /\ [subtasks EXCEPT ![g] = row] \in [Step -> Row]
        /\ Steady([subtasks EXCEPT ![g] = row], runs)
    BY <1>1, <2>1, <2>2, <2>3, <2>4
  <2> QED  BY <1>0, <2>4, <2>5, KeptByAdvance
<1> QED  BY <1>2, <1>3, <1>4

LEMMA PipeStepsKept ==
    ASSUME OrderInv, NEW p \in pipes, (up /\ PipeSteps(p)) \/ PipeDies(p)
    PROVE  Kept
<1> USE GraphAssumption, EngineAssumption
<1>0. /\ subtasks \in [Step -> Row] /\ runs \in Seq(RunStatus)
      /\ Steady(subtasks, runs)
      /\ Sound(subtasks) /\ Decided(subtasks) /\ OnlyOne(runs)
      /\ \A q \in pipes : q.step \notin Gate
  BY InvSteady
<1>1. p \in Pipe /\ p.step \in Step /\ p.step \notin Gate
  BY <1>0 DEF OrderInv, TypeOK, Pipe
<1>2. ASSUME NEW q \in Pipe, q.step = p.step, pipes' \subseteq Moved(p, q),
             UNCHANGED <<subtasks, runs, up, described>>
      PROVE  Kept
  <2>1. \A r \in pipes' : r.step \notin Gate
    BY <1>0, <1>1, <1>2 DEF Moved
  <2> QED  BY <1>2, <2>1, KeptByRowsAlone
<1>3. /\ \A phase \in Phase : /\ [p EXCEPT !.phase = phase] \in Pipe
                              /\ [p EXCEPT !.phase = phase].step = p.step
      /\ pipes \ {p} \subseteq Moved(p, p)
  BY <1>1 DEF Pipe, Moved
<1>4. ASSUME TurnRegisters(p)  PROVE Kept
  <2>1. "turn" \in Phase
    BY DEF Phase
  <2>2. /\ pipes' = Moved(p, [p EXCEPT !.phase = "turn"])
        /\ UNCHANGED <<subtasks, runs, up, described>>
    BY <1>4 DEF TurnRegisters, database
  <2> QED  BY <1>2, <1>3, <2>1, <2>2
<1>5. ASSUME NEW result \in AgentSays \cup {Failure}, TurnEnds(p, result)  PROVE Kept
  <2> DEFINE q == [p EXCEPT !.phase = "check", !.aborted = FALSE, !.result = result]
  <2>1. result \in Outcome \cup {NoOutcome, Failure}
    OBVIOUS
  <2>2. q \in Pipe /\ q.step = p.step
    BY <1>1, <2>1 DEF Pipe, Phase
  <2>3. pipes' = Moved(p, q) /\ UNCHANGED <<subtasks, runs, up, described>>
    BY <1>5 DEF TurnEnds, database
  <2> HIDE DEF q
  <2> QED  BY <1>2, <2>2, <2>3
<1>6. ASSUME CheckStep(p)  PROVE Kept
  <2> DEFINE q == [p EXCEPT !.phase = IF p.result = Failure THEN "settle" ELSE "count"]
  <2>1. q \in Pipe /\ q.step = p.step
    BY <1>1 DEF Pipe, Phase
  <2>2. pipes' \subseteq Moved(p, q) /\ UNCHANGED <<subtasks, runs, up, described>>
    BY <1>6 DEF CheckStep, database, Moved
  <2> HIDE DEF q
  <2> QED  BY <1>2, <2>1, <2>2
<1>7. ASSUME CountAttempt(p)  PROVE Kept
  <2>1. /\ subtasks' \in [Step -> Row]
        /\ \A s \in Step : /\ subtasks'[s].status = subtasks[s].status
                           /\ subtasks'[s].result = subtasks[s].result
                           /\ subtasks'[s].decision = subtasks[s].decision
    <3>1. \A s \in Step : subtasks[s] \in Row
      BY <1>0
    <3>2. subtasks' = [subtasks EXCEPT ![p.step].retryCount = @ + 1]
      BY <1>7 DEF CountAttempt
    <3>3. TypeOK'
      <4>1. PipeSteps(p) \/ PipeDies(p)
        OBVIOUS
      <4> QED  BY <4>1, PipeStepsTypeOK DEF OrderInv
    <3>4. subtasks' \in [Step -> Row]
      BY <3>3 DEF TypeOK
    <3>5. \A s \in Step : subtasks'[s] = IF s = p.step
                            THEN [subtasks[s] EXCEPT !.retryCount = @ + 1]
                            ELSE subtasks[s]
      BY <1>0, <1>1, <3>2
    <3>6. \A row \in Row : LET r == [row EXCEPT !.retryCount = @ + 1] IN
             r.status = row.status /\ r.result = row.result /\ r.decision = row.decision
      BY DEF Row
    <3> QED  BY <3>1, <3>4, <3>5, <3>6
  <2>2. InProgress(subtasks') = InProgress(subtasks)
    BY <2>1 DEF InProgress
  <2>3. \A e \in Edge : /\ IsTerminal(subtasks'[e.from]) <=> IsTerminal(subtasks[e.from])
                        /\ Refuses(subtasks', e) <=> Refuses(subtasks, e)
    BY <2>1 DEF IsTerminal, Refuses, EdgeType
  <2>4. Sound(subtasks')
    BY <1>0, <2>2, <2>3 DEF Sound, Incoming
  <2>5. Decided(subtasks')
    BY <1>0, <2>1 DEF Decided, IsTerminal
  <2>6. AgentPipes'
    <3> DEFINE q == [p EXCEPT !.phase = "verify", !.tries = subtasks[p.step].retryCount + 1]
    <3>1. q.step = p.step
      BY <1>1 DEF Pipe
    <3>2. pipes' = Moved(p, q)
      BY <1>7 DEF CountAttempt
    <3> HIDE DEF q
    <3> QED  BY <1>0, <1>1, <3>1, <3>2 DEF AgentPipes, Moved
  <2>7. UNCHANGED <<runs, up, described>>
    BY <1>7 DEF CountAttempt
  <2> QED  BY <1>0, <2>2, <2>4, <2>5, <2>6, <2>7
           DEF Kept, Steady, OrderInv, RunHasWork, NoDescription, IsRunning, Running, OnlyOne
<1>8. ASSUME NEW accepted \in BOOLEAN, VerifyEnds(p, accepted)  PROVE Kept
  <2>1. PICK q \in {[p EXCEPT !.phase = "settle"], [p EXCEPT !.phase = "again"],
                    [p EXCEPT !.phase = "settle", !.result = Failure]} :
              pipes' = Moved(p, q)
    BY <1>8 DEF VerifyEnds
  <2>2. q \in Pipe /\ q.step = p.step
    BY <1>1 DEF Pipe, Phase
  <2>3. UNCHANGED <<subtasks, runs, up, described>>
    BY <1>8 DEF VerifyEnds, database
  <2> QED  BY <1>2, <2>1, <2>2, <2>3
<1>9. ASSUME TurnAgain(p)  PROVE Kept
  <2> DEFINE q == NewPipe(p.step, p.attempt)
  <2>1. q \in Pipe /\ q.step = p.step
    BY <1>1 DEF NewPipe, Pipe, Phase
  <2>2. pipes' \subseteq Moved(p, q) /\ UNCHANGED <<subtasks, runs, up, described>>
    BY <1>9 DEF TurnAgain, database, Moved
  <2> HIDE DEF q
  <2> QED  BY <1>2, <2>1, <2>2
<1>10. ASSUME SettleStep(p)  PROVE Kept
  <2>1. described' = described
    BY <1>10 DEF SettleStep
  <2>2. CASE subtasks[p.step].status = "in_progress" /\ IsRunning(runs)
    <3> DEFINE row  == IF p.result = Failure THEN Failed(subtasks[p.step])
                       ELSE CompleteOrLoop(subtasks[p.step], p.step, p.result)
               rows == [subtasks EXCEPT ![p.step] = row]
    <3>1. Advance(rows, runs, taskStatus, pipes \ {p}, cancelKeys)
      BY <1>10, <2>2 DEF SettleStep
    <3>2. p.result # Failure => p.result \in Outcome \cup {NoOutcome}
      BY <1>1 DEF Pipe
    <3>3. row \in Row
      BY <1>0, <1>1, <3>2, RowTypes
    <3>4. row.status # "in_progress"
      BY <1>0, <1>1 DEF Failed, CompleteOrLoop, Completed, Row
    <3> HIDE DEF row
    <3>5. /\ rows \in [Step -> Row]
          /\ \A s \in Step : \/ rows[s] = subtasks[s]
                             \/ /\ rows[s].status # "in_progress"
                                /\ subtasks[s].status = "in_progress"
          /\ \A g \in Gate : rows[g] = subtasks[g]
      BY <1>0, <1>1, <2>2, <3>3, <3>4
    <3> HIDE DEF rows
    <3>6. Sound(rows) /\ InProgress(rows) \subseteq InProgress(subtasks)
      BY <1>0, <3>5, EndingSound
    <3>7. Steady(rows, runs)
      BY <1>0, <3>5, <3>6 DEF Steady, Decided
    <3> QED  BY <1>0, <2>1, <3>1, <3>5, <3>7, KeptByAdvance
  <2>3. CASE ~(subtasks[p.step].status = "in_progress" /\ IsRunning(runs))
    <3>1. pipes' = pipes \ {p} /\ UNCHANGED <<subtasks, runs, up>>
      BY <1>10, <2>3 DEF SettleStep, database
    <3> QED  BY <1>1, <1>2, <1>3, <2>1, <3>1
  <2> QED  BY <2>2, <2>3
<1>11. ASSUME PipeDies(p)  PROVE Kept
  <2>1. pipes' = pipes \ {p} /\ UNCHANGED <<subtasks, runs, up, described>>
    BY <1>11 DEF PipeDies, database
  <2> QED  BY <1>1, <1>2, <1>3, <2>1
<1> QED  BY <1>4, <1>5, <1>6, <1>7, <1>8, <1>9, <1>10, <1>11 DEF PipeSteps

LEMMA ServerStepsKept ==
    ASSUME OrderInv,
           \/ \E i \in described, status \in {"completed", "failed"} :
                 DescriptionEnds(i, status)
           \/ Crash \/ Recover
           \/ \E s \in Step : CheckStuck(s)
    PROVE  Kept
<1> USE GraphAssumption, EngineAssumption
<1>0. /\ subtasks \in [Step -> Row] /\ runs \in Seq(RunStatus)
      /\ Steady(subtasks, runs)
      /\ Sound(subtasks) /\ Decided(subtasks) /\ OnlyOne(runs)
      /\ \A q \in pipes : q.step \notin Gate
  BY InvSteady
<1>1. ASSUME NEW K \in SUBSET InProgress(subtasks)
      PROVE  /\ Failing(subtasks, K) \in [Step -> Row]
             /\ Steady(Failing(subtasks, K), runs)
  <2> DEFINE new == Failing(subtasks, K)
  <2>1. new \in [Step -> Row]
    BY <1>0, RowsTypes
  <2>2. \A s \in Step : /\ s \notin K => new[s] = subtasks[s]
                        /\ s \in K => /\ new[s].status = "failed"
                                      /\ new[s].decision = subtasks[s].decision
                                      /\ subtasks[s].status = "in_progress"
    BY <1>0 DEF Failing, Failed, Row, InProgress
  <2> HIDE DEF new
  <2>3. Sound(new) /\ InProgress(new) \subseteq InProgress(subtasks)
    BY <1>0, <2>1, <2>2, EndingSound
  <2>4. Decided(new)
    BY <1>0, <2>2 DEF Decided, IsTerminal
  <2>5. Steady(new, runs)
    BY <1>0, <2>3, <2>4 DEF Steady
  <2> QED  BY <2>1, <2>5 DEF new
<1>2. ASSUME NEW i \in described, NEW status \in {"completed", "failed"},
             DescriptionEnds(i, status)
      PROVE  Kept
  <2>1. /\ runs' = Finish(runs, i, status) /\ described' = described \ {i}
        /\ UNCHANGED <<subtasks, up, pipes>>
    BY <1>2 DEF DescriptionEnds
  <2>2. Step = {}
    BY <1>2 DEF OrderInv, NoDescription
  <2>3. Running(runs') = Running(runs) \ {i}
    BY <1>0, <2>1, RunsTypes DEF Running, Finish, RunStatus
  <2>4. OnlyOne(runs')
    BY <1>0, <2>3 DEF OnlyOne
  <2>5. InProgress(subtasks') = {}
    BY <2>2 DEF InProgress
  <2>6. Steady(subtasks', runs')
    BY <1>0, <2>1, <2>4, <2>5 DEF Steady
  <2>7. ASSUME RunHasWork  PROVE RunHasWork'
    <3>1. ASSUME up', Running(runs') # {}  PROVE Running(runs') \cap described' # {}
      <4>1. PICK j \in Running(runs') : j \in Running(runs) /\ j # i
        BY <2>3, <3>1
      <4>2. up
        BY <2>1, <3>1
      <4>3. Running(runs) \cap described # {}
        BY <2>2, <2>7, <4>1, <4>2 DEF RunHasWork, IsRunning
      <4>4. j \in described
        BY <1>0, <4>1, <4>3 DEF OnlyOne
      <4> QED  BY <2>1, <4>1, <4>4
    <3> QED  BY <2>2, <3>1 DEF RunHasWork, IsRunning
  <2> QED  BY <1>0, <2>1, <2>2, <2>6, <2>7 DEF Kept, AgentPipes, NoDescription
<1>3. ASSUME Crash  PROVE Kept
  <2>1. /\ UNCHANGED <<subtasks, runs>> /\ pipes' = {} /\ described' = {}
        /\ ~up'
    BY <1>3 DEF Crash, database
  <2>2. RunHasWork => RunHasWork'
    BY <2>1 DEF RunHasWork, IsRunning, Running, InProgress
  <2> QED  BY <1>0, <2>1, <2>2 DEF Kept, AgentPipes, NoDescription
<1>4. ASSUME Recover  PROVE Kept
  <2>1. described' = described
    BY <1>4 DEF Recover
  <2>2. CASE Step = {}
    <3>1. /\ runs' = [i \in DOMAIN runs |-> IF runs[i] = "running" THEN "failed" ELSE runs[i]]
          /\ UNCHANGED <<subtasks, pipes>>
      BY <1>4, <2>2 DEF Recover
    <3>2. Running(runs') = {}
      BY <1>0, <3>1 DEF Running
    <3>3. InProgress(subtasks') = {}
      BY <2>2 DEF InProgress
    <3> QED  BY <1>0, <2>1, <2>2, <3>1, <3>2, <3>3
             DEF Kept, Steady, OnlyOne, IsRunning, RunHasWork, AgentPipes, NoDescription
  <2>3. CASE Step # {}
    <3> DEFINE rows == IF IsRunning(runs)
                       THEN Failing(subtasks, {s \in InProgress(subtasks) :
                                                 ~subtasks[s].awaiting})
                       ELSE subtasks
    <3>1. rows \in [Step -> Row] /\ Steady(rows, runs)
      BY <1>0, <1>1
    <3>2. Advance(rows, runs, taskStatus, pipes, cancelKeys)
      BY <1>4, <2>3 DEF Recover
    <3> HIDE DEF rows
    <3> QED  BY <1>0, <2>1, <3>1, <3>2, KeptByAdvance
  <2> QED  BY <2>2, <2>3
<1>5. ASSUME NEW s \in Step, CheckStuck(s)  PROVE Kept
  <2> DEFINE task == IF IsRunning(runs) THEN taskStatus ELSE "todo"
  <2>1. /\ Advance(Failing(subtasks, {s}), runs, task, pipes, cancelKeys)
        /\ described' = described
        /\ subtasks[s].status = "in_progress"
    BY <1>5 DEF CheckStuck
  <2>2. {s} \in SUBSET InProgress(subtasks)
    BY <2>1 DEF InProgress
  <2>3. /\ Failing(subtasks, {s}) \in [Step -> Row]
        /\ Steady(Failing(subtasks, {s}), runs)
    BY <1>1, <2>2
  <2> HIDE DEF task
  <2> QED  BY <1>0, <2>1, <2>3, KeptByAdvance
<1> QED  BY <1>2, <1>3, <1>4, <1>5

-----------------------------------------------------------------------------
(* The theorems.                                                           *)

LEMMA InitInv == Init => EngineInv
<1> SUFFICES ASSUME Init  PROVE EngineInv
  OBVIOUS
<1>1. TypeOK
  BY InitTypeOK
<1>2. \A s \in Step : subtasks[s] = FreshRow /\ FreshRow.status = "pending"
                      /\ FreshRow.decision = "none"
  BY DEF Init, FreshRow
<1>3. InProgress(subtasks) = {} /\ Running(runs) = {}
  BY <1>2 DEF Init, InProgress, Running
<1>4. DecidedIsOver /\ AgentPipes /\ NoDescription
  BY <1>2, GraphAssumption DEF Init, DecidedIsOver, AgentPipes, NoDescription
<1> QED  BY <1>1, <1>3, <1>4 DEF EngineInv, OrderInv, OneRunning, RunHasWork, IdleIsQuiet,
                               UpstreamSettled, BranchTaken, IsRunning

LEMMA StepInv ==
    ASSUME TypeOK', Kept
    PROVE  OrderInv' /\ (RunHasWork => RunHasWork')
<1>1. (UpstreamSettled /\ BranchTaken)' /\ DecidedIsOver' /\ OneRunning' /\ IdleIsQuiet'
  BY DEF Kept, Steady, Sound, UpstreamSettled, BranchTaken, Waits, OnlyOne,
         OneRunning, Decided, DecidedIsOver, IdleIsQuiet
<1> QED  BY <1>1 DEF Kept, OrderInv

LEMMA NextOrder ==
    ASSUME OrderInv, [Next]_vars
    PROVE  OrderInv' /\ (RunHasWork => RunHasWork')
<1>1. TypeOK
  BY DEF OrderInv
<1>2. TypeOK'
  <2>1. CASE Next
    BY <1>1, <2>1, UserStepsTypeOK, PipeStepsTypeOK, ServerStepsTypeOK DEF Next, StepsNext, DescriptionNext
  <2>2. CASE UNCHANGED vars
    BY <1>1, <2>2 DEF TypeOK, vars, database, memory
  <2> QED  BY <2>1, <2>2
<1>3. Kept
  <2>1. CASE Next
    <3>1. ASSUME NEW p \in pipes, PipeSteps(p)  PROVE up /\ PipeSteps(p)
      BY <3>1 DEF PipeSteps
    <3> QED  BY <2>1, <3>1, RunStepsKept, StepResultsKept, PipeStepsKept, ServerStepsKept
             DEF Next, StepsNext, DescriptionNext
  <2>2. CASE UNCHANGED vars
    <3>1. UNCHANGED <<subtasks, runs, pipes, up, described>>
      BY <2>2 DEF vars, database, memory
    <3> QED  BY <3>1, InvSteady, KeptByRowsAlone
  <2> QED  BY <2>1, <2>2
<1> QED  BY <1>2, <1>3, StepInv

LEMMA NextInv ==
    ASSUME EngineInv, [Next]_vars
    PROVE  EngineInv'
BY NextOrder DEF EngineInv

(* The invariant that carries the others: at most one run of a task, a     *)
(* step in progress exactly while it goes, every such step on a branch     *)
(* that was taken, for every graph of steps.                               *)
THEOREM EngineIsSound == Spec => []EngineInv
BY InitInv, NextInv, PTL DEF Spec

(* Start, retry, single-step execution and recovery never leave two runs   *)
(* of a task going.                                                        *)
THEOREM NeverTwoRuns == Spec => []OneRunning
<1>1. EngineInv => OneRunning
  BY DEF EngineInv, OrderInv
<1> QED  BY <1>1, EngineIsSound, PTL

(* No wakeup is lost: a run that is going always has a step in progress    *)
(* whose end moves it on, in every graph, cyclic ones included.            *)
THEOREM NoLostWakeup == Spec => []RunHasWork
<1>1. EngineInv => RunHasWork
  BY DEF EngineInv, OrderInv
<1> QED  BY <1>1, EngineIsSound, PTL

(* No step is left in progress once no run is going, however it ended.     *)
THEOREM QuietWhenIdle == Spec => []IdleIsQuiet
<1>1. EngineInv => IdleIsQuiet
  BY DEF EngineInv, OrderInv
<1> QED  BY <1>1, EngineIsSound, PTL

(* No step runs before the steps it depends on have settled, across        *)
(* retries, restarts, loops and hand marks.                                *)
THEOREM InDependencyOrder == Spec => []UpstreamSettled
<1>1. EngineInv => UpstreamSettled
  BY DEF EngineInv, OrderInv
<1> QED  BY <1>1, EngineIsSound, PTL

(* No step runs on a branch that failed, was rejected, or whose condition  *)
(* was not met.                                                            *)
THEOREM OnlyTakenBranches == Spec => []BranchTaken
<1>1. EngineInv => BranchTaken
  BY DEF EngineInv, OrderInv
<1> QED  BY <1>1, EngineIsSound, PTL

-----------------------------------------------------------------------------
(* Action properties.                                                      *)

LEMMA AdvanceKeeps ==
    ASSUME NEW rows \in [Step -> Row], NEW rs \in Seq(RunStatus), NEW task,
           NEW ps, NEW keys, Advance(rows, rs, task, ps, keys)
    PROVE  /\ \A s \in Step : subtasks'[s].decision = rows[s].decision
           /\ \A i \in DOMAIN rs : rs[i] # "running" => runs'[i] = rs[i]
<1>1. /\ subtasks' \in [Step -> Row]
      /\ Evolves(rows, subtasks')
      /\ runs' = rs \/ MovesOn(rs, task)
  BY AdvanceEffect
<1>2. \A i, j, status : j \in DOMAIN rs /\ rs[j] # "running" => Finish(rs, i, status)[j] = rs[j]
  BY DEF Finish
<1>3. \A i \in DOMAIN rs : rs[i] # "running" => runs'[i] = rs[i]
  BY <1>1, <1>2 DEF MovesOn
<1> QED  BY <1>1, <1>3, EvolvesSteady

LEMMA DecisionStep ==
    ASSUME OrderInv, Next \/ \E reset \in BOOLEAN : RunStarts(reset), NEW g \in Gate, subtasks[g].decision # "none"
    PROVE  subtasks'[g].decision \in {"none", subtasks[g].decision}
<1> USE GraphAssumption, EngineAssumption
<1> DEFINE Goal == subtasks'[g].decision \in {"none", subtasks[g].decision}
<1>0. /\ subtasks \in [Step -> Row] /\ runs \in Seq(RunStatus)
      /\ Append(runs, "running") \in Seq(RunStatus) /\ Reopened(runs) \in Seq(RunStatus)
      /\ g \in Step /\ IsTerminal(subtasks[g])
      /\ \A p \in pipes : p \in Pipe /\ p.step \in Step /\ p.step \notin Gate
  BY RunsTypes DEF OrderInv, TypeOK, DecidedIsOver, AgentPipes, Pipe, RunStatus
<1>1. ASSUME NEW rows \in [Step -> Row], NEW rs \in Seq(RunStatus), NEW task, NEW ps,
             NEW keys, Advance(rows, rs, task, ps, keys),
             rows[g].decision \in {"none", subtasks[g].decision}
      PROVE  Goal
  BY <1>0, <1>1, AdvanceKeeps
<1>2. ASSUME NEW K
      PROVE  /\ Resetting(subtasks, K) \in [Step -> Row]
             /\ Failing(subtasks, K) \in [Step -> Row]
             /\ Resetting(subtasks, K)[g].decision \in {"none", subtasks[g].decision}
             /\ Failing(subtasks, K)[g].decision = subtasks[g].decision
  <2>1. FreshRow.decision = "none"
    BY DEF FreshRow
  <2>2. Failed(subtasks[g]).decision = subtasks[g].decision
    BY <1>0 DEF Failed, Row
  <2>3. Resetting(subtasks, K)[g].decision \in {"none", subtasks[g].decision}
    BY <1>0, <2>1 DEF Resetting
  <2>4. Failing(subtasks, K)[g].decision = subtasks[g].decision
    BY <1>0, <2>2 DEF Failing
  <2> QED  BY <1>0, <2>3, <2>4, RowsTypes
<1>3. ASSUME NEW s \in Step, NEW row \in Row,
             s = g => row.decision = subtasks[g].decision
      PROVE  /\ [subtasks EXCEPT ![s] = row] \in [Step -> Row]
             /\ [subtasks EXCEPT ![s] = row][g].decision = subtasks[g].decision
  BY <1>0, <1>3
<1>4. ASSUME NEW row \in Row, NEW result \in Outcome \cup {NoOutcome}
      PROVE  /\ Completed(row, result) \in Row /\ Failed(row) \in Row
             /\ Completed(row, result).decision = row.decision
             /\ Failed(row).decision = row.decision
  BY RowTypes DEF Completed, Failed, Row
<1>5. ASSUME NEW reset \in BOOLEAN, RunStarts(reset)  PROVE Goal
  <2> DEFINE rows == IF reset THEN Resetting(subtasks, Step) ELSE subtasks
  <2>1. rows \in [Step -> Row] /\ rows[g].decision \in {"none", subtasks[g].decision}
    BY <1>0, <1>2
  <2>2. Advance(rows, Append(runs, "running"), "in_progress", pipes, cancelKeys)
    BY <1>0, <1>5 DEF RunStarts
  <2> HIDE DEF rows
  <2> QED  BY <1>0, <1>1, <2>1, <2>2
<1>6. ASSUME CancelRun  PROVE Goal
  <2>1. g \notin InProgress(subtasks)
    BY <1>0 DEF IsTerminal, InProgress
  <2> QED  BY <1>0, <1>6, <2>1 DEF CancelRun
<1>7. ASSUME NEW s \in Step, RetryCheck(s)  PROVE Goal
  BY <1>7 DEF RetryCheck, database
<1>8. ASSUME NEW s \in Step, RetryLocked(s)  PROVE Goal
  <2>1. Advance(Resetting(subtasks, {s} \cup Downstream(Edge, s)), Reopened(runs),
                "in_progress", pipes, cancelKeys)
    BY <1>8 DEF RetryLocked
  <2> QED  BY <1>0, <1>1, <1>2, <2>1
<1>9. ASSUME NEW s \in Step, ExecuteSubtask(s)  PROVE Goal
  <2>1. subtasks' = Claiming(subtasks, {s}) /\ s # g
    BY <1>0, <1>9 DEF ExecuteSubtask, IsTerminal
  <2> QED  BY <1>0, <2>1 DEF Claiming
<1>10. ASSUME ExecuteSubtasks  PROVE Goal
  BY <1>0, <1>1, <1>10 DEF ExecuteSubtasks
<1>11. ASSUME NEW status \in {"todo", "done"}, MoveTask(status)  PROVE Goal
  BY <1>11 DEF MoveTask
<1>12. ASSUME NEW s \in ByHand, NEW result \in AgentSays, CompleteSubtask(s, result)
       PROVE  Goal
  <2> DEFINE row == Completed(subtasks[s], result)
  <2>1. s \in Step /\ row \in Row /\ row.decision = subtasks[s].decision
    BY <1>0, <1>4
  <2>2. Advance([subtasks EXCEPT ![s] = row], runs, taskStatus, pipes, cancelKeys)
    BY <1>12 DEF CompleteSubtask
  <2> HIDE DEF row
  <2> QED  BY <1>0, <1>1, <1>3, <2>1, <2>2
<1>13. ASSUME NEW s \in ByHand, FailSubtask(s)  PROVE Goal
  <2> DEFINE row == Failed(subtasks[s])
  <2>1. s \in Step /\ row \in Row /\ row.decision = subtasks[s].decision
    BY <1>0, <1>4
  <2>2. Advance([subtasks EXCEPT ![s] = row], runs, taskStatus, Aborting({s}), cancelKeys)
    BY <1>13 DEF FailSubtask
  <2> HIDE DEF row
  <2> QED  BY <1>0, <1>1, <1>3, <2>1, <2>2
<1>14. ASSUME NEW h \in Gate, NEW d \in {"approved", "rejected"}, ResolveApproval(h, d)
       PROVE  Goal
  <2> DEFINE row == [Completed(subtasks[h], d) EXCEPT !.awaiting = FALSE, !.decision = d]
  <2>1. h \in Step /\ Completed(subtasks[h], d) \in Row
    BY <1>0, <1>4
  <2>2. row \in Row
    BY <2>1 DEF Row, Decision
  <2>3. h # g
    BY <1>0, <1>14 DEF ResolveApproval, IsTerminal
  <2>4. Advance([subtasks EXCEPT ![h] = row], runs, taskStatus, pipes, cancelKeys)
    BY <1>14 DEF ResolveApproval
  <2> HIDE DEF row
  <2> QED  BY <1>0, <1>1, <1>3, <2>1, <2>2, <2>3, <2>4
<1>15. ASSUME NEW p \in pipes, SettleStep(p)  PROVE Goal
  <2>1. CASE subtasks[p.step].status = "in_progress" /\ IsRunning(runs)
    <3> DEFINE row == IF p.result = Failure THEN Failed(subtasks[p.step])
                      ELSE CompleteOrLoop(subtasks[p.step], p.step, p.result)
    <3>1. p.result # Failure => p.result \in Outcome \cup {NoOutcome}
      BY <1>0 DEF Pipe
    <3>2. row \in Row /\ p.step # g
      BY <1>0, <3>1, RowTypes
    <3>3. Advance([subtasks EXCEPT ![p.step] = row], runs, taskStatus, pipes \ {p}, cancelKeys)
      BY <1>15, <2>1 DEF SettleStep
    <3> HIDE DEF row
    <3> QED  BY <1>0, <1>1, <1>3, <3>2, <3>3
  <2>2. CASE ~(subtasks[p.step].status = "in_progress" /\ IsRunning(runs))
    BY <1>15, <2>2 DEF SettleStep, database
  <2> QED  BY <2>1, <2>2
<1>16. ASSUME NEW p \in pipes, CountAttempt(p)  PROVE Goal
  <2>1. g # p.step
    BY <1>0
  <2> QED  BY <1>0, <1>16, <2>1 DEF CountAttempt
<1>17. ASSUME NEW p \in pipes, PipeSteps(p) \/ PipeDies(p)  PROVE Goal
  BY <1>15, <1>16, <1>17 DEF PipeSteps, PipeDies, TurnRegisters, TurnEnds, CheckStep,
                             VerifyEnds, TurnAgain, database
<1>18. ASSUME NEW i \in described, NEW status \in {"completed", "failed"},
              DescriptionEnds(i, status)
       PROVE  Goal
  BY <1>18 DEF DescriptionEnds
<1>19. ASSUME Crash  PROVE Goal
  BY <1>19 DEF Crash, database
<1>20. ASSUME Recover  PROVE Goal
  <2> DEFINE rows == IF IsRunning(runs)
                     THEN Failing(subtasks, {s \in InProgress(subtasks) :
                                               ~subtasks[s].awaiting})
                     ELSE subtasks
  <2>1. rows \in [Step -> Row] /\ rows[g].decision \in {"none", subtasks[g].decision}
    BY <1>0, <1>2
  <2>2. Advance(rows, runs, taskStatus, pipes, cancelKeys)
    BY <1>0, <1>20 DEF Recover
  <2> HIDE DEF rows
  <2> QED  BY <1>0, <1>1, <2>1, <2>2
<1>21. ASSUME NEW s \in Step, CheckStuck(s)  PROVE Goal
  <2>1. Advance(Failing(subtasks, {s}), runs,
                IF IsRunning(runs) THEN taskStatus ELSE "todo", pipes, cancelKeys)
    BY <1>21 DEF CheckStuck
  <2> QED  BY <1>0, <1>1, <1>2, <2>1
<1> QED  BY <1>5, <1>6, <1>7, <1>8, <1>9, <1>10, <1>11, <1>12, <1>13, <1>14, <1>17, <1>18,
            <1>19, <1>20, <1>21 DEF Next, StepsNext, DescriptionNext, StartRun

(* A gate's decision is final: no second answer, late click or hand mark   *)
(* changes it; a reset clears it.                                          *)
THEOREM DecisionsAreFinal == Spec => DecisionIsFinal
<1> DEFINE Step1 == \A g \in Gate : subtasks[g].decision # "none" =>
                      subtasks'[g].decision \in {"none", subtasks[g].decision}
<1>1. EngineInv /\ [Next]_vars => [Step1]_vars
  BY DecisionStep DEF EngineInv
<1> QED  BY <1>1, EngineIsSound, PTL DEF Spec, DecisionIsFinal

-----------------------------------------------------------------------------
(* How a step moves the runs and the task: no run begins or ends, a new    *)
(* run begins, a retry reopens the latest one, or the run that goes ends.  *)
(* A run that begins may end in the same step, and takes the task along.   *)

RunsStay ==
    /\ runs' = runs
    /\ taskStatus' = "in_progress" => taskStatus = "in_progress" \/ IsRunning(runs)

NewRun ==
    /\ ~IsRunning(runs)
    /\ \E status \in {"running", "completed", "failed"} :
          /\ runs' = Append(runs, status)
          /\ taskStatus' = "in_progress" => status = "running"

OldRun ==
    /\ ~IsRunning(runs) /\ runs # <<>> /\ RetriesNow
    /\ \E status \in {"running", "completed", "failed"} :
          /\ runs' = [runs EXCEPT ![Len(runs)] = status]
          /\ taskStatus' = "in_progress" => status = "running"

RunEnds ==
    \E i \in Running(runs), status \in {"completed", "failed", "cancelled"} :
        /\ runs' = [runs EXCEPT ![i] = status]
        /\ taskStatus' # "in_progress"

MovesRuns == RunsStay \/ NewRun \/ OldRun \/ RunEnds

LEMMA FinishIs ==
    ASSUME NEW rs, NEW i \in Running(rs), NEW status, NEW task
    PROVE  /\ Finish(rs, i, status) = [rs EXCEPT ![i] = status]
           /\ TaskAfter(rs, i, status, task) \in {"review", "todo"}
BY DEF Finish, Running, TaskAfter

LEMMA AdvanceRuns ==
    ASSUME NEW rows \in [Step -> Row], NEW rs, NEW task, NEW ps, NEW keys,
           Advance(rows, rs, task, ps, keys)
    PROVE  \/ runs' = rs /\ taskStatus' = task
           \/ /\ taskStatus' # "in_progress"
              /\ \E i \in Running(rs) : \E status \in {"completed", "failed"} :
                    runs' = [rs EXCEPT ![i] = status]
<1>1. (runs' = rs /\ taskStatus' = task) \/ MovesOn(rs, task)
  BY AdvanceEffect
<1>2. ASSUME NEW i \in Running(rs), NEW status \in {"completed", "failed"},
             runs' = Finish(rs, i, status), taskStatus' = TaskAfter(rs, i, status, task)
      PROVE  taskStatus' # "in_progress" /\ runs' = [rs EXCEPT ![i] = status]
  BY <1>2, FinishIs
<1> QED  BY <1>1, <1>2 DEF MovesOn

(* Of runs none of which goes: a new one is the only one that does.        *)
LEMMA NewRunAlone ==
    ASSUME runs \in Seq(RunStatus), ~IsRunning(runs)
    PROVE  /\ Running(Append(runs, "running")) = {Len(runs) + 1}
           /\ \A status \in RunStatus :
                 [Append(runs, "running") EXCEPT ![Len(runs) + 1] = status]
                   = Append(runs, status)
<1>0. Len(runs) \in Nat /\ DOMAIN runs = 1 .. Len(runs)
  BY LenProperties
<1>1. Running(Append(runs, "running")) = {Len(runs) + 1}
  BY <1>0 DEF IsRunning, Running
<1>2. ASSUME NEW status \in RunStatus
      PROVE  [Append(runs, "running") EXCEPT ![Len(runs) + 1] = status]
               = Append(runs, status)
  <2> DEFINE new == Append(runs, "running")
             end == [new EXCEPT ![Len(runs) + 1] = status]
  <2>1. "running" \in RunStatus
    BY DEF RunStatus
  <2>2. /\ new \in Seq(RunStatus) /\ Len(new) = Len(runs) + 1
        /\ \A i \in 1 .. Len(runs) : new[i] = runs[i]
    BY <1>0, <2>1, AppendProperties
  <2>3. /\ Append(runs, status) \in Seq(RunStatus)
        /\ Len(Append(runs, status)) = Len(runs) + 1
        /\ \A i \in 1 .. Len(runs) : Append(runs, status)[i] = runs[i]
        /\ Append(runs, status)[Len(runs) + 1] = status
    BY <1>0, AppendProperties
  <2> HIDE DEF new
  <2>4. Len(runs) + 1 \in 1 .. Len(new)
    BY <1>0, <2>2
  <2>5. /\ end \in Seq(RunStatus) /\ Len(end) = Len(new)
        /\ \A j \in 1 .. Len(new) :
              end[j] = IF j = Len(runs) + 1 THEN status ELSE new[j]
    BY <2>2, <2>4, ExceptSeq
  <2> HIDE DEF end
  <2>6. \A i \in 1 .. Len(end) : end[i] = Append(runs, status)[i]
    BY <1>0, <2>2, <2>3, <2>5
  <2>7. end = Append(runs, status)
    BY <2>2, <2>3, <2>5, <2>6, SeqEqual
  <2> QED  BY <2>7 DEF end, new
<1> QED  BY <1>1, <1>2

(* A run that is begun, or that is going, with the graph moved on.         *)
LEMMA BegunMoves ==
    ASSUME runs \in Seq(RunStatus), ~IsRunning(runs), NEW rows \in [Step -> Row],
           NEW ps, NEW keys,
           Advance(rows, Append(runs, "running"), "in_progress", ps, keys)
    PROVE  NewRun
<1>1. CASE runs' = Append(runs, "running")
  BY <1>1 DEF NewRun
<1>2. ASSUME NEW i \in Running(Append(runs, "running")), NEW status \in {"completed", "failed"},
             runs' = [Append(runs, "running") EXCEPT ![i] = status],
             taskStatus' # "in_progress"
      PROVE  NewRun
  <2>1. i = Len(runs) + 1 /\ status \in RunStatus
    BY NewRunAlone DEF RunStatus
  <2>2. runs' = Append(runs, status)
    BY <1>2, <2>1, NewRunAlone
  <2> QED  BY <1>2, <2>2 DEF NewRun
<1> QED  BY <1>1, <1>2, AdvanceRuns

LEMMA GoingMoves ==
    ASSUME NEW rows \in [Step -> Row], NEW task, NEW ps, NEW keys,
           task = taskStatus \/ task # "in_progress",
           Advance(rows, runs, task, ps, keys)
    PROVE  RunsStay \/ RunEnds
BY AdvanceRuns DEF RunsStay, RunEnds

LEMMA RunStartsMoves ==
    ASSUME TypeOK, NEW reset \in BOOLEAN, RunStarts(reset)
    PROVE  NewRun
<1> DEFINE rows == IF reset THEN Resetting(subtasks, Step) ELSE subtasks
<1>1. rows \in [Step -> Row] /\ runs \in Seq(RunStatus)
  BY RowsTypes DEF TypeOK
<1>2. ~IsRunning(runs)
  BY DEF RunStarts
<1>3. CASE Step = {}
  BY <1>2, <1>3 DEF RunStarts, NewRun
<1>4. CASE Step # {}
  <2>1. Advance(rows, Append(runs, "running"), "in_progress", pipes, cancelKeys)
    BY <1>4 DEF RunStarts
  <2> HIDE DEF rows
  <2> QED  BY <1>1, <1>2, <2>1, BegunMoves
<1> QED  BY <1>3, <1>4

LEMMA RetryMoves ==
    ASSUME TypeOK, OneRunning, NEW s \in Step, RetryLocked(s)
    PROVE  MovesRuns
<1> DEFINE rows == Resetting(subtasks, {s} \cup Downstream(Edge, s))
<1>0. /\ subtasks \in [Step -> Row] /\ runs \in Seq(RunStatus)
      /\ Len(runs) \in Nat /\ DOMAIN runs = 1 .. Len(runs)
  BY LenProperties DEF TypeOK
<1>1. rows \in [Step -> Row] /\ Advance(rows, Reopened(runs), "in_progress", pipes, cancelKeys)
  BY <1>0, RowsTypes DEF RetryLocked
<1>2. RetriesNow
  <2>1. up' /\ retrying[s] \in Nat /\ retrying'[s] = retrying[s] - 1
    BY DEF RetryLocked, TypeOK
  <2> QED  BY <2>1 DEF RetriesNow
<1> HIDE DEF rows
<1>3. CASE IsRunning(runs)
  <2>1. runs # <<>>
    BY <1>0, <1>3 DEF IsRunning, Running
  <2>2. Reopened(runs) = runs
    BY <1>3, <2>1 DEF Reopened
  <2>3. runs' = runs \/ RunEnds
    BY <1>1, <2>2, AdvanceRuns DEF RunEnds
  <2> QED  BY <1>3, <2>3 DEF MovesRuns, RunsStay
<1>4. CASE ~IsRunning(runs) /\ runs = <<>>
  <2>1. Reopened(runs) = <<"running">>
    BY <1>4 DEF Reopened
  <2>2. Append(<<>>, "running") = <<"running">>
    OBVIOUS
  <2>3. Reopened(runs) = Append(runs, "running")
    BY <1>4, <2>1, <2>2
  <2> QED  BY <1>0, <1>1, <1>4, <2>3, BegunMoves DEF MovesRuns
<1>5. CASE ~IsRunning(runs) /\ runs # <<>>
  <2>1. Reopened(runs) = [runs EXCEPT ![Len(runs)] = "running"]
    BY <1>5 DEF Reopened
  <2>2. Running(Reopened(runs)) \subseteq {Len(runs)}
    BY <1>0, <1>5, <2>1 DEF IsRunning, Running
  <2>3. CASE runs' = Reopened(runs)
    BY <1>2, <1>5, <2>1, <2>3 DEF OldRun, MovesRuns
  <2>4. ASSUME NEW i \in Running(Reopened(runs)), NEW status \in {"completed", "failed"},
               runs' = [Reopened(runs) EXCEPT ![i] = status],
               taskStatus' # "in_progress"
        PROVE  MovesRuns
    <3>1. runs' = [runs EXCEPT ![Len(runs)] = status]
      BY <1>0, <2>1, <2>2, <2>4
    <3> QED  BY <1>2, <1>5, <2>4, <3>1 DEF OldRun, MovesRuns
  <2> QED  BY <1>1, <2>3, <2>4, AdvanceRuns
<1> QED  BY <1>3, <1>4, <1>5

LEMMA RunsMove ==
    ASSUME TypeOK, OneRunning, Next
    PROVE  MovesRuns
<1> USE GraphAssumption, EngineAssumption
<1>0. /\ subtasks \in [Step -> Row] /\ runs \in Seq(RunStatus)
      /\ Len(runs) \in Nat /\ DOMAIN runs = 1 .. Len(runs)
  BY LenProperties DEF TypeOK
<1>1. ASSUME NEW rows \in [Step -> Row], NEW task, NEW ps, NEW keys,
             task = taskStatus \/ task # "in_progress",
             Advance(rows, runs, task, ps, keys)
      PROVE  MovesRuns
  BY <1>1, GoingMoves DEF MovesRuns
<1>2. ASSUME NEW i \in Running(runs), NEW status \in {"completed", "failed", "cancelled"},
             runs' = Finish(runs, i, status),
             taskStatus' = TaskAfter(runs, i, status, taskStatus)
      PROVE  MovesRuns
  <2>1. /\ runs' = [runs EXCEPT ![i] = status]
        /\ taskStatus' \in {"review", "todo"}
    BY <1>2, FinishIs
  <2> QED  BY <2>1 DEF MovesRuns, RunEnds
<1>3. ASSUME NEW reset \in BOOLEAN, StartRun(reset)  PROVE MovesRuns
  BY <1>3, RunStartsMoves DEF StartRun, MovesRuns
<1>4. ASSUME CancelRun  PROVE MovesRuns
  BY <1>2, <1>4 DEF CancelRun
<1>5. ASSUME NEW s \in Step, ExecuteSubtask(s)  PROVE MovesRuns
  <2>1. CASE IsRunning(runs)
    BY <1>5, <2>1 DEF ExecuteSubtask, MovesRuns, RunsStay
  <2>2. CASE ~IsRunning(runs)
    BY <1>5, <2>2 DEF ExecuteSubtask, MovesRuns, NewRun
  <2> QED  BY <2>1, <2>2
<1>6. ASSUME ExecuteSubtasks  PROVE MovesRuns
  BY <1>0, <1>1, <1>6 DEF ExecuteSubtasks
<1>7. ASSUME NEW s \in Step, NEW row \in Row
      PROVE  [subtasks EXCEPT ![s] = row] \in [Step -> Row]
  BY <1>0
<1>8. ASSUME NEW s \in ByHand, NEW result \in AgentSays, CompleteSubtask(s, result)
      PROVE  MovesRuns
  <2>1. s \in Step /\ Completed(subtasks[s], result) \in Row
    BY <1>0, RowTypes
  <2>2. Advance([subtasks EXCEPT ![s] = Completed(subtasks[s], result)], runs, taskStatus,
                pipes, cancelKeys)
    BY <1>8 DEF CompleteSubtask
  <2> QED  BY <1>1, <1>7, <2>1, <2>2
<1>9. ASSUME NEW s \in ByHand, FailSubtask(s)  PROVE MovesRuns
  <2>1. s \in Step /\ Failed(subtasks[s]) \in Row
    BY <1>0, RowTypes
  <2>2. Advance([subtasks EXCEPT ![s] = Failed(subtasks[s])], runs, taskStatus,
                Aborting({s}), cancelKeys)
    BY <1>9 DEF FailSubtask
  <2> QED  BY <1>1, <1>7, <2>1, <2>2
<1>10. ASSUME NEW g \in Gate, NEW d \in {"approved", "rejected"}, ResolveApproval(g, d)
       PROVE  MovesRuns
  <2> DEFINE row == [Completed(subtasks[g], d) EXCEPT !.awaiting = FALSE, !.decision = d]
  <2>1. g \in Step /\ Completed(subtasks[g], d) \in Row
    BY <1>0, RowTypes
  <2>2. row \in Row
    BY <2>1 DEF Row, Decision
  <2>3. Advance([subtasks EXCEPT ![g] = row], runs, taskStatus, pipes, cancelKeys)
    BY <1>10 DEF ResolveApproval
  <2> HIDE DEF row
  <2> QED  BY <1>1, <1>7, <2>1, <2>2, <2>3
<1>11. ASSUME NEW p \in pipes, SettleStep(p)  PROVE MovesRuns
  <2>1. CASE subtasks[p.step].status = "in_progress" /\ IsRunning(runs)
    <3> DEFINE row == IF p.result = Failure THEN Failed(subtasks[p.step])
                      ELSE CompleteOrLoop(subtasks[p.step], p.step, p.result)
    <3>1. p \in Pipe /\ p.step \in Step
      BY DEF TypeOK, Pipe
    <3>2. p.result # Failure => p.result \in Outcome \cup {NoOutcome}
      BY <3>1 DEF Pipe
    <3>3. row \in Row
      BY <1>0, <3>1, <3>2, RowTypes
    <3>4. Advance([subtasks EXCEPT ![p.step] = row], runs, taskStatus, pipes \ {p}, cancelKeys)
      BY <1>11, <2>1 DEF SettleStep
    <3> HIDE DEF row
    <3> QED  BY <1>1, <1>7, <3>1, <3>3, <3>4
  <2>2. CASE ~(subtasks[p.step].status = "in_progress" /\ IsRunning(runs))
    BY <1>11, <2>2 DEF SettleStep, database, MovesRuns, RunsStay
  <2> QED  BY <2>1, <2>2
<1>12. ASSUME NEW p \in pipes, PipeSteps(p) \/ PipeDies(p)  PROVE MovesRuns
  BY <1>11, <1>12 DEF PipeSteps, PipeDies, TurnRegisters, TurnEnds, CheckStep, CountAttempt,
                      VerifyEnds, TurnAgain, database, MovesRuns, RunsStay
<1>13. ASSUME NEW i \in described, NEW status \in {"completed", "failed"},
              DescriptionEnds(i, status)
       PROVE  MovesRuns
  <2>1. CASE i \in Running(runs)
    BY <1>2, <1>13, <2>1 DEF DescriptionEnds
  <2>2. CASE i \notin Running(runs)
    <3>1. Finish(runs, i, status) = runs
      BY <1>0, <2>2 DEF Finish, Running
    <3>2. taskStatus' = "in_progress" => taskStatus = "in_progress"
      BY <1>13 DEF DescriptionEnds, TaskAfter
    <3> QED  BY <1>13, <3>1, <3>2 DEF DescriptionEnds, MovesRuns, RunsStay
  <2> QED  BY <2>1, <2>2
<1>14. ASSUME Recover  PROVE MovesRuns
  <2>1. CASE Step # {}
    <3> DEFINE rows == IF IsRunning(runs)
                       THEN Failing(subtasks, {s \in InProgress(subtasks) :
                                                 ~subtasks[s].awaiting})
                       ELSE subtasks
    <3>1. rows \in [Step -> Row]
      BY <1>0, RowsTypes
    <3>2. Advance(rows, runs, taskStatus, pipes, cancelKeys)
      BY <1>14, <2>1 DEF Recover
    <3> HIDE DEF rows
    <3> QED  BY <1>1, <3>1, <3>2
  <2>2. CASE Step = {} /\ ~IsRunning(runs)
    <3>1. [i \in DOMAIN runs |-> IF runs[i] = "running" THEN "failed" ELSE runs[i]] = runs
      BY <1>0, <2>2 DEF IsRunning, Running
    <3> QED  BY <1>14, <2>2, <3>1 DEF Recover, MovesRuns, RunsStay
  <2>3. CASE Step = {} /\ IsRunning(runs)
    <3>1. PICK i \in Running(runs) : TRUE
      BY <2>3 DEF IsRunning
    <3>2. \A j \in DOMAIN runs : runs[j] = "running" => j = i
      BY <3>1 DEF OneRunning, Running
    <3>3. [j \in DOMAIN runs |-> IF runs[j] = "running" THEN "failed" ELSE runs[j]]
             = [runs EXCEPT ![i] = "failed"]
      BY <1>0, <3>1, <3>2 DEF Running
    <3> QED  BY <1>14, <2>3, <3>3 DEF Recover, MovesRuns, RunEnds
  <2> QED  BY <2>1, <2>2, <2>3
<1>15. ASSUME NEW s \in Step, CheckStuck(s)  PROVE MovesRuns
  <2> DEFINE task == IF IsRunning(runs) THEN taskStatus ELSE "todo"
  <2>1. Advance(Failing(subtasks, {s}), runs, task, pipes, cancelKeys)
    BY <1>15 DEF CheckStuck
  <2>2. Failing(subtasks, {s}) \in [Step -> Row] /\ (task = taskStatus \/ task # "in_progress")
    BY <1>0, RowsTypes
  <2> HIDE DEF task
  <2> QED  BY <1>1, <2>1, <2>2
<1>16. ASSUME \/ Crash
              \/ \E s \in Step : RetryCheck(s)
              \/ \E status \in {"todo", "done"} : MoveTask(status)
       PROVE  MovesRuns
  BY <1>16 DEF Crash, RetryCheck, MoveTask, database, MovesRuns, RunsStay
<1> QED  BY <1>3, <1>4, RetryMoves, <1>5, <1>6, <1>8, <1>9, <1>10, <1>12, <1>13, <1>14,
            <1>15, <1>16 DEF Next, StepsNext, DescriptionNext

(* However the runs move, there is never a second one that goes.           *)
LEMMA OneRunStays ==
    ASSUME runs \in Seq(RunStatus), OneRunning, MovesRuns
    PROVE  OneRunning'
<1>0. Len(runs) \in Nat /\ DOMAIN runs = 1 .. Len(runs)
  BY LenProperties
<1>1. CASE RunsStay
  BY <1>1 DEF RunsStay, OneRunning, Running
<1>2. CASE NewRun
  <2>1. PICK status \in RunStatus : runs' = Append(runs, status)
    BY <1>2 DEF NewRun, RunStatus
  <2>2. /\ DOMAIN runs' = 1 .. Len(runs) + 1
        /\ \A i \in 1 .. Len(runs) : runs'[i] = runs[i]
    BY <1>0, <2>1
  <2>3. \A i \in Running(runs') : i = Len(runs) + 1
    BY <1>0, <1>2, <2>2 DEF NewRun, IsRunning, Running
  <2> QED  BY <2>3 DEF OneRunning
<1>3. CASE OldRun
  <2>1. PICK status : runs' = [runs EXCEPT ![Len(runs)] = status]
    BY <1>3 DEF OldRun
  <2>2. \A i \in Running(runs') : i = Len(runs)
    BY <1>0, <1>3, <2>1 DEF OldRun, IsRunning, Running
  <2> QED  BY <2>2 DEF OneRunning
<1>4. CASE RunEnds
  <2>1. PICK i \in Running(runs), status \in {"completed", "failed", "cancelled"} :
           runs' = [runs EXCEPT ![i] = status]
    BY <1>4 DEF RunEnds
  <2>2. Running(runs') \subseteq Running(runs)
    BY <2>1 DEF Running
  <2> QED  BY <2>2 DEF OneRunning
<1> QED  BY <1>1, <1>2, <1>3, <1>4 DEF MovesRuns

LEMMA FinishedStep ==
    ASSUME TypeOK, MovesRuns, NEW i \in DOMAIN runs, runs[i] # "running",
           runs'[i] # runs[i]
    PROVE  /\ i = Len(runs) /\ ~IsRunning(runs)
           /\ RetriesNow
<1>0. /\ runs \in Seq(RunStatus) /\ Len(runs) \in Nat /\ DOMAIN runs = 1 .. Len(runs)
  BY LenProperties DEF TypeOK
<1>1. ~RunsStay
  BY DEF RunsStay
<1>2. ~NewRun
  <2>1. \A status \in RunStatus : Append(runs, status)[i] = runs[i]
    BY <1>0
  <2> QED  BY <2>1 DEF NewRun, RunStatus
<1>3. CASE OldRun
  BY <1>0, <1>3 DEF OldRun
<1>4. ~RunEnds
  BY <1>0 DEF RunEnds, Running
<1> QED  BY <1>1, <1>2, <1>3, <1>4 DEF MovesRuns

(* A step begins one run at most.                                          *)
LEMMA RunsLength ==
    ASSUME TypeOK, MovesRuns
    PROVE  /\ DOMAIN runs = 1 .. Len(runs) /\ Len(runs) \in Nat
           /\ \/ Len(runs') = Len(runs) /\ DOMAIN runs' = DOMAIN runs
              \/ /\ NewRun
                 /\ Len(runs') = Len(runs) + 1 /\ DOMAIN runs' = 1 .. Len(runs) + 1
<1>1. runs \in Seq(RunStatus) /\ Len(runs) \in Nat /\ DOMAIN runs = 1 .. Len(runs)
  BY LenProperties DEF TypeOK
<1>2. ASSUME NEW i, NEW status \in RunStatus
      PROVE  /\ Len([runs EXCEPT ![i] = status]) = Len(runs)
             /\ DOMAIN [runs EXCEPT ![i] = status] = DOMAIN runs
  BY <1>1
<1>3. CASE RunsStay
  BY <1>1, <1>3 DEF RunsStay
<1>4. CASE NewRun
  <2>1. PICK status \in RunStatus : runs' = Append(runs, status)
    BY <1>4 DEF NewRun, RunStatus
  <2> QED  BY <1>1, <1>4, <2>1
<1>5. CASE OldRun
  BY <1>1, <1>2, <1>5 DEF OldRun, RunStatus
<1>6. CASE RunEnds
  BY <1>1, <1>2, <1>6 DEF RunEnds, RunStatus
<1> QED  BY <1>3, <1>4, <1>5, <1>6 DEF MovesRuns

(* What becomes of a run in a step, as those composed with the engine see  *)
(* it: it ends, stays as it was, or goes on because it is new or reopened. *)
LEMMA EachRun ==
    ASSUME TypeOK, MovesRuns, NEW i \in DOMAIN runs'
    PROVE  \/ i \in EndedNow /\ runs'[i] # "running"
           \/ i \notin EndedNow /\ i \in DOMAIN runs /\ runs'[i] = runs[i]
           \/ /\ i \notin EndedNow /\ runs'[i] = "running"
              /\ i \in DOMAIN runs =>
                    RetriesNow /\ ~IsRunning(runs) /\ i = Len(runs)
<1>1. CASE i \in EndedNow
  BY <1>1 DEF EndedNow
<1>2. CASE i \notin EndedNow /\ runs'[i] = "running"
  <2>1. CASE i \in DOMAIN runs /\ runs[i] # "running"
    BY <1>2, <2>1, FinishedStep
  <2> QED  BY <1>2, <2>1
<1>3. CASE i \notin EndedNow /\ runs'[i] # "running"
  <2>1. i \in DOMAIN runs /\ runs[i] # "running"
    BY <1>3 DEF EndedNow
  <2>2. runs'[i] = runs[i]
    BY <1>3, <2>1, FinishedStep DEF EndedNow
  <2> QED  BY <1>3, <2>1, <2>2
<1> QED  BY <1>1, <1>2, <1>3

(* A run that ended keeps its status: only a retry changes it, by          *)
(* reopening the latest run of a task that has none going.                 *)
THEOREM FirstFinisherWins == Spec => FinishedStays
<1> DEFINE Stays == \A i \in DOMAIN runs :
                      runs[i] # "running" /\ runs'[i] # runs[i]
                        => /\ i = Len(runs) /\ ~IsRunning(runs)
                           /\ \E s \in Step : retrying'[s] < retrying[s]
<1>1. EngineInv /\ [Next]_vars => [Stays]_vars
  BY RunsMove, FinishedStep DEF EngineInv, OrderInv, RetriesNow
<1> QED  BY <1>1, EngineIsSound, PTL DEF Spec, FinishedStays

-----------------------------------------------------------------------------
(* The task follows its run.                                               *)

Follows ==
    /\ ~IsRunning(runs) /\ IsRunning(runs') => taskStatus' = "in_progress"
    /\ IsRunning(runs) /\ ~IsRunning(runs') =>
          taskStatus' = IF \E i \in Running(runs) : runs'[i] = "completed"
                        THEN "review" ELSE "todo"
    /\ runs' = runs /\ ops' = ops /\ retrying' = retrying =>
          taskStatus' = taskStatus

LEMMA OneRuns == OrderInv => OnlyOne(runs) /\ runs \in Seq(RunStatus)
BY DEF OrderInv, TypeOK, OneRunning, OnlyOne

(* A run that finishes takes the task along.                               *)
LEMMA FinishFollows ==
    ASSUME OrderInv, NEW i \in Running(runs), NEW status \in {"completed", "failed", "cancelled"},
           runs' = Finish(runs, i, status), taskStatus' = TaskAfter(runs, i, status, taskStatus)
    PROVE  Follows
<1>1. i \in DOMAIN runs /\ runs[i] = "running" /\ IsRunning(runs)
  BY DEF Running, IsRunning
<1>2. runs'[i] = status /\ runs' # runs
  BY <1>1, OneRuns DEF Finish
<1>3. Running(runs) = {i}
  BY OneRuns DEF OnlyOne
<1>4. ~IsRunning(runs')
  BY OneRuns, FinishEnds DEF IsRunning
<1>5. taskStatus' = IF status = "completed" THEN "review" ELSE "todo"
  BY <1>1 DEF TaskAfter
<1> QED  BY <1>1, <1>2, <1>3, <1>4, <1>5 DEF Follows

(* So does a graph that is moved on,                                       *)
LEMMA AdvanceFollows ==
    ASSUME OrderInv, NEW rows \in [Step -> Row], NEW ps, NEW keys,
           Advance(rows, runs, taskStatus, ps, keys)
    PROVE  Follows
<1>1. (runs' = runs /\ taskStatus' = taskStatus) \/ MovesOn(runs, taskStatus)
  BY AdvanceEffect
<1>2. CASE runs' = runs /\ taskStatus' = taskStatus
  BY <1>2 DEF Follows
<1>3. CASE \E i \in Running(runs), status \in {"completed", "failed"} :
              /\ runs' = Finish(runs, i, status)
              /\ taskStatus' = TaskAfter(runs, i, status, taskStatus)
  BY <1>3, FinishFollows
<1> QED  BY <1>1, <1>2, <1>3 DEF MovesOn

(* and one that a run begins on, which may end in the same section.        *)
LEMMA BeginFollows ==
    ASSUME OrderInv, NEW rows \in [Step -> Row], NEW ps, NEW keys,
           NEW rs \in Seq(RunStatus), OnlyOne(rs), IsRunning(rs),
           IsRunning(runs) => rs = runs,
           ops' # ops \/ retrying' # retrying \/ DOMAIN rs # DOMAIN runs,
           Advance(rows, rs, "in_progress", ps, keys)
    PROVE  Follows
<1>1. MovesOn(rs, "in_progress")
  BY AdvanceEffect
<1>2. CASE runs' = rs /\ taskStatus' = "in_progress"
  BY <1>2 DEF Follows
<1>3. ASSUME NEW i \in Running(rs), NEW status \in {"completed", "failed"},
             runs' = Finish(rs, i, status),
             taskStatus' = TaskAfter(rs, i, status, "in_progress")
      PROVE  Follows
  <2>1. i \in DOMAIN rs /\ rs[i] = "running"
    BY DEF Running
  <2>2. runs'[i] = status
    BY <1>3, <2>1 DEF Finish
  <2>3. Running(rs) = {i}
    BY <1>3 DEF OnlyOne
  <2>4. ~IsRunning(runs')
    BY <1>3, FinishEnds DEF IsRunning
  <2>5. taskStatus' = IF status = "completed" THEN "review" ELSE "todo"
    BY <1>3, <2>1 DEF TaskAfter
  <2>6. DOMAIN runs' = DOMAIN rs
    BY <1>3 DEF Finish
  <2> QED  BY <2>2, <2>3, <2>4, <2>5, <2>6 DEF Follows
<1> QED  BY <1>1, <1>2, <1>3 DEF MovesOn

(* The description that is being turned is that of a run there is.         *)
DescribedExist == described \subseteq DOMAIN runs

LEMMA AdvanceDomain ==
    ASSUME NEW rows \in [Step -> Row], NEW rs \in Seq(RunStatus), NEW task, NEW ps,
           NEW keys, Advance(rows, rs, task, ps, keys)
    PROVE  DOMAIN runs' = DOMAIN rs
<1>1. runs' = rs \/ MovesOn(rs, task)
  BY AdvanceEffect
<1>2. \A i, status : DOMAIN Finish(rs, i, status) = DOMAIN rs
  BY DEF Finish
<1> QED  BY <1>1, <1>2 DEF MovesOn

LEMMA FollowStep ==
    ASSUME OrderInv, DescribedExist, Next \/ \E reset \in BOOLEAN : RunStarts(reset)
    PROVE  Follows /\ DescribedExist'
<1> USE GraphAssumption, EngineAssumption
<1> DEFINE Goal == Follows /\ DescribedExist'
<1>0. /\ subtasks \in [Step -> Row] /\ runs \in Seq(RunStatus) /\ OnlyOne(runs)
      /\ retrying \in [Step -> Nat] /\ ops \in Nat /\ Len(runs) \in Nat
      /\ Append(runs, "running") \in Seq(RunStatus) /\ Reopened(runs) \in Seq(RunStatus)
      /\ \A p \in pipes : p \in Pipe /\ p.step \in Step
  <2>1. /\ subtasks \in [Step -> Row] /\ retrying \in [Step -> Nat] /\ ops \in Nat
        /\ pipes \subseteq Pipe
    BY DEF OrderInv, TypeOK
  <2>2. \A p \in pipes : p \in Pipe /\ p.step \in Step
    BY <2>1 DEF Pipe
  <2>3. runs \in Seq(RunStatus) /\ OnlyOne(runs) /\ "running" \in RunStatus
    BY OneRuns DEF RunStatus
  <2>4. Append(runs, "running") \in Seq(RunStatus) /\ Reopened(runs) \in Seq(RunStatus)
    BY <2>3, RunsTypes
  <2>5. Len(runs) \in Nat
    BY <2>3
  <2> QED  BY <2>1, <2>2, <2>3, <2>4, <2>5
<1>1. /\ DOMAIN runs = 1 .. Len(runs)
      /\ DOMAIN Append(runs, "running") = 1 .. Len(runs) + 1
      /\ Len(Append(runs, "running")) = Len(runs) + 1
      /\ DOMAIN runs \subseteq DOMAIN Append(runs, "running")
  BY <1>0
<1>2. DOMAIN runs \subseteq DOMAIN Reopened(runs)
  BY <1>0 DEF Reopened
<1>3. /\ ~IsRunning(runs) => OnlyOne(Append(runs, "running")) /\ IsRunning(Append(runs, "running"))
      /\ OnlyOne(Reopened(runs)) /\ IsRunning(Reopened(runs))
  BY <1>0, BeginsOne
<1>4. ASSUME IsRunning(runs)  PROVE Reopened(runs) = runs
  <2>1. runs # <<>>
    BY <1>1, <1>4, EmptySeq DEF IsRunning, Running
  <2> QED  BY <1>4, <2>1 DEF Reopened
<1>5. ASSUME NEW rows \in [Step -> Row], NEW ps, NEW keys,
             Advance(rows, runs, taskStatus, ps, keys), described' = described
      PROVE  Goal
  BY <1>0, <1>5, AdvanceFollows, AdvanceDomain DEF DescribedExist
<1>6. ASSUME NEW s \in Step, NEW row \in Row
      PROVE  [subtasks EXCEPT ![s] = row] \in [Step -> Row]
  BY <1>0
<1>7. ASSUME UNCHANGED <<runs, taskStatus>>, described' \subseteq described
      PROVE  Goal
  BY <1>7 DEF Follows, DescribedExist
<1>8. ASSUME Operation  PROVE ops' # ops
  BY <1>0, <1>8 DEF Operation
<1>9. ASSUME NEW reset \in BOOLEAN, RunStarts(reset)  PROVE Goal
  <2> DEFINE rows == IF reset THEN Resetting(subtasks, Step) ELSE subtasks
             rs   == Append(runs, "running")
  <2>1. rows \in [Step -> Row]
    BY <1>0, RowsTypes
  <2>2. ~IsRunning(runs) /\ DOMAIN rs # DOMAIN runs
    <3>1. Len(runs) + 1 \in DOMAIN rs /\ Len(runs) + 1 \notin DOMAIN runs
      BY <1>0, <1>1
    <3> QED  BY <1>9, <3>1 DEF RunStarts
  <2>3. CASE Step = {}
    <3>1. runs' = rs /\ taskStatus' = "in_progress" /\ described' = described \cup {Len(rs)}
      BY <1>9, <2>3 DEF RunStarts
    <3>2. IsRunning(rs) /\ DOMAIN rs = 1 .. Len(runs) + 1 /\ Len(rs) = Len(runs) + 1
      BY <1>0, <1>1, <1>3, <2>2
    <3>3. Len(rs) \in DOMAIN rs /\ DOMAIN runs \subseteq DOMAIN rs
      BY <1>0, <1>1, <3>2
    <3> HIDE DEF rs
    <3>4. Follows
      BY <2>2, <3>1, <3>2 DEF Follows
    <3>5. described' \subseteq DOMAIN runs'
      BY <3>1, <3>3 DEF DescribedExist
    <3> QED  BY <3>4, <3>5 DEF DescribedExist
  <2>4. CASE Step # {}
    <3>1. Advance(rows, rs, "in_progress", pipes, cancelKeys) /\ described' = described
      BY <1>9, <2>4 DEF RunStarts
    <3> HIDE DEF rows
    <3>2. Follows
      BY <1>0, <1>3, <2>1, <2>2, <3>1, BeginFollows
    <3>3. DOMAIN runs' = DOMAIN rs
      BY <1>0, <2>1, <3>1, AdvanceDomain
    <3> QED  BY <1>1, <3>1, <3>2, <3>3 DEF DescribedExist
  <2> QED  BY <2>3, <2>4
<1>10. ASSUME CancelRun  PROVE Goal
  <2>1. PICK i \in Running(runs) : /\ runs' = Finish(runs, i, "cancelled")
                                   /\ taskStatus' = TaskAfter(runs, i, "cancelled", taskStatus)
    BY <1>10 DEF CancelRun
  <2>2. described' = described /\ DOMAIN runs' = DOMAIN runs
    BY <1>10, <2>1 DEF CancelRun, Finish
  <2> QED  BY <2>1, <2>2, FinishFollows DEF DescribedExist
<1>11. ASSUME NEW s \in Step, RetryLocked(s)  PROVE Goal
  <2>1. /\ retrying[s] \in Nat /\ retrying'[s] = retrying[s] - 1 /\ described' = described
        /\ Advance(Resetting(subtasks, {s} \cup Downstream(Edge, s)), Reopened(runs),
                   "in_progress", pipes, cancelKeys)
    BY <1>0, <1>11 DEF RetryLocked
  <2>2. Resetting(subtasks, {s} \cup Downstream(Edge, s)) \in [Step -> Row]
    BY <1>0, RowsTypes
  <2>3. retrying'[s] # retrying[s]
    BY <2>1
  <2>4. Follows
    BY <1>0, <1>3, <1>4, <2>1, <2>2, <2>3, BeginFollows
  <2> QED  BY <1>0, <1>2, <2>1, <2>2, <2>4, AdvanceDomain DEF DescribedExist
<1>12. ASSUME NEW s \in Step, ExecuteSubtask(s)  PROVE Goal
  <2>1. /\ runs' = IF IsRunning(runs) THEN runs ELSE Append(runs, "running")
        /\ taskStatus' = IF IsRunning(runs) THEN taskStatus ELSE "in_progress"
        /\ described' = described /\ ops' # ops
    BY <1>8, <1>12 DEF ExecuteSubtask
  <2> QED  BY <1>1, <2>1 DEF Follows, DescribedExist
<1>13. ASSUME ExecuteSubtasks  PROVE Goal
  BY <1>0, <1>5, <1>13 DEF ExecuteSubtasks
<1>14. ASSUME NEW status \in {"todo", "done"}, MoveTask(status)  PROVE Goal
  <2>1. runs' = runs /\ described' = described /\ ops' # ops
    BY <1>8, <1>14 DEF MoveTask, memory
  <2> QED  BY <2>1 DEF Follows, DescribedExist
<1>15. ASSUME NEW s \in ByHand, NEW result \in AgentSays, CompleteSubtask(s, result)
       PROVE  Goal
  <2>1. s \in Step /\ Completed(subtasks[s], result) \in Row
    BY <1>0, RowTypes
  <2>2. /\ Advance([subtasks EXCEPT ![s] = Completed(subtasks[s], result)], runs, taskStatus,
                   pipes, cancelKeys)
        /\ described' = described
    BY <1>15 DEF CompleteSubtask
  <2> QED  BY <1>5, <1>6, <2>1, <2>2
<1>16. ASSUME NEW s \in ByHand, FailSubtask(s)  PROVE Goal
  <2>1. s \in Step /\ Failed(subtasks[s]) \in Row
    BY <1>0, RowTypes
  <2>2. /\ Advance([subtasks EXCEPT ![s] = Failed(subtasks[s])], runs, taskStatus,
                   Aborting({s}), cancelKeys)
        /\ described' = described
    BY <1>16 DEF FailSubtask
  <2> QED  BY <1>5, <1>6, <2>1, <2>2
<1>17. ASSUME NEW g \in Gate, NEW d \in {"approved", "rejected"}, ResolveApproval(g, d)
       PROVE  Goal
  <2> DEFINE row == [Completed(subtasks[g], d) EXCEPT !.awaiting = FALSE, !.decision = d]
  <2>1. g \in Step /\ Completed(subtasks[g], d) \in Row
    BY <1>0, RowTypes
  <2>2. row \in Row
    BY <2>1 DEF Row, Decision
  <2>3. /\ Advance([subtasks EXCEPT ![g] = row], runs, taskStatus, pipes, cancelKeys)
        /\ described' = described
    BY <1>17 DEF ResolveApproval
  <2> HIDE DEF row
  <2> QED  BY <1>5, <1>6, <2>1, <2>2, <2>3
<1>18. ASSUME NEW p \in pipes, SettleStep(p)  PROVE Goal
  <2>1. CASE subtasks[p.step].status = "in_progress" /\ IsRunning(runs)
    <3> DEFINE row == IF p.result = Failure THEN Failed(subtasks[p.step])
                      ELSE CompleteOrLoop(subtasks[p.step], p.step, p.result)
    <3>1. p \in Pipe /\ p.step \in Step
      BY <1>0
    <3>2. p.result # Failure => p.result \in Outcome \cup {NoOutcome}
      BY <3>1 DEF Pipe
    <3>3. row \in Row
      BY <1>0, <3>1, <3>2, RowTypes
    <3>4. /\ Advance([subtasks EXCEPT ![p.step] = row], runs, taskStatus, pipes \ {p}, cancelKeys)
          /\ described' = described
      BY <1>18, <2>1 DEF SettleStep
    <3> HIDE DEF row
    <3> QED  BY <1>5, <1>6, <3>1, <3>3, <3>4
  <2>2. CASE ~(subtasks[p.step].status = "in_progress" /\ IsRunning(runs))
    BY <1>7, <1>18, <2>2 DEF SettleStep, database
  <2> QED  BY <2>1, <2>2
<1>19. ASSUME NEW p \in pipes, PipeSteps(p) \/ PipeDies(p)  PROVE Goal
  BY <1>7, <1>18, <1>19 DEF PipeSteps, PipeDies, TurnRegisters, TurnEnds, CheckStep, CountAttempt,
                            VerifyEnds, TurnAgain, database
<1>20. ASSUME NEW i \in described, NEW status \in {"completed", "failed"},
              DescriptionEnds(i, status)
       PROVE  Goal
  <2>1. /\ runs' = Finish(runs, i, status) /\ taskStatus' = TaskAfter(runs, i, status, taskStatus)
        /\ described' \subseteq described /\ i \in DOMAIN runs
    BY <1>20 DEF DescriptionEnds, DescribedExist
  <2>2. DOMAIN runs' = DOMAIN runs
    BY <2>1 DEF Finish
  <2>3. CASE runs[i] = "running"
    BY <2>1, <2>2, <2>3, FinishFollows DEF Running, DescribedExist
  <2>4. CASE runs[i] # "running"
    <3>1. runs' = runs /\ taskStatus' = taskStatus
      BY <1>0, <2>1, <2>4 DEF Finish, TaskAfter
    <3> QED  BY <1>7, <2>1, <3>1
  <2> QED  BY <2>3, <2>4
<1>21. ASSUME Recover  PROVE Goal
  <2>1. CASE Step = {}
    <3>1. /\ runs' = [i \in DOMAIN runs |-> IF runs[i] = "running" THEN "failed" ELSE runs[i]]
          /\ taskStatus' = IF IsRunning(runs) THEN "todo" ELSE taskStatus
          /\ described' = described
      BY <1>21, <2>1 DEF Recover
    <3>2. ~IsRunning(runs') /\ DOMAIN runs' = DOMAIN runs
      BY <3>1 DEF IsRunning, Running
    <3>3. \A i \in Running(runs) : runs'[i] = "failed" /\ runs[i] = "running"
      BY <3>1 DEF Running
    <3>4. IsRunning(runs) => runs' # runs
      BY <3>3 DEF IsRunning
    <3> QED  BY <3>1, <3>2, <3>3, <3>4 DEF Follows, DescribedExist
  <2>2. CASE Step # {}
    <3> DEFINE rows == IF IsRunning(runs)
                       THEN Failing(subtasks, {s \in InProgress(subtasks) :
                                                 ~subtasks[s].awaiting})
                       ELSE subtasks
    <3>1. rows \in [Step -> Row]
      BY <1>0, RowsTypes
    <3>2. Advance(rows, runs, taskStatus, pipes, cancelKeys) /\ described' = described
      BY <1>21, <2>2 DEF Recover
    <3> HIDE DEF rows
    <3> QED  BY <1>5, <3>1, <3>2
  <2> QED  BY <2>1, <2>2
<1>22. ASSUME NEW s \in Step, CheckStuck(s)  PROVE Goal
  <2>1. IsRunning(runs)
    BY <1>22 DEF CheckStuck, OrderInv, IdleIsQuiet, InProgress
  <2>2. Advance(Failing(subtasks, {s}), runs, taskStatus, pipes, cancelKeys) /\ described' = described
    BY <1>22, <2>1 DEF CheckStuck
  <2>3. Failing(subtasks, {s}) \in [Step -> Row]
    BY <1>0, RowsTypes
  <2> QED  BY <1>5, <2>2, <2>3
<1>23. ASSUME Crash \/ \E s \in Step : RetryCheck(s)  PROVE Goal
  BY <1>7, <1>23 DEF Crash, RetryCheck, database
<1> QED  BY <1>9, <1>10, <1>11, <1>12, <1>13, <1>14, <1>15, <1>16, <1>17, <1>19, <1>20, <1>21,
            <1>22, <1>23 DEF Next, StepsNext, DescriptionNext, StartRun

(* The task goes where its run goes: in progress when one begins, up for   *)
(* review or back to do when it ends, and no pipeline, description turn or *)
(* safety net that comes too late moves it.                                *)
THEOREM TaskFollowsItsRun == Spec => TaskFollowsRun
<1>1. Init => DescribedExist
  BY DEF Init, DescribedExist
<1>2. EngineInv /\ DescribedExist /\ [Next]_vars => DescribedExist'
  BY FollowStep DEF EngineInv, DescribedExist, vars, database, memory
<1>3. EngineInv /\ DescribedExist /\ [Next]_vars =>
        [/\ ~IsRunning(runs) /\ IsRunning(runs') => taskStatus' = "in_progress"
         /\ IsRunning(runs) /\ ~IsRunning(runs') =>
               taskStatus' = IF \E i \in Running(runs) : runs'[i] = "completed"
                             THEN "review" ELSE "todo"
         /\ runs' = runs /\ ops' = ops /\ retrying' = retrying =>
               taskStatus' = taskStatus]_vars
  BY FollowStep DEF EngineInv, Follows
<1> QED  BY <1>1, <1>2, <1>3, EngineIsSound, PTL DEF Spec, TaskFollowsRun

-----------------------------------------------------------------------------
(* The engine implements WorkflowRun.                                      *)

(* Somebody is at work exactly while a run is going.                       *)
LEMMA WorkMeansRun ==
    ASSUME EngineInv, Step # {}
    PROVE  InProgress(subtasks) = {} <=> Running(runs) = {}
  BY DEF EngineInv, OrderInv, RunHasWork, IdleIsQuiet, IsRunning

LEMMA RunsImplement ==
    ASSUME EngineInv, EngineInv', MovesRuns \/ runs' = runs, Step # {}
    PROVE  [Abstract!Next]_<<runs, InProgress(subtasks)>>
<1>1. InProgress(subtasks') \subseteq Step
  BY DEF InProgress
<1>2. InProgress(subtasks) = {} <=> Running(runs) = {}
  BY WorkMeansRun
<1>3. InProgress(subtasks') = {} <=> Running(runs') = {}
  BY DEF EngineInv, OrderInv, RunHasWork, IdleIsQuiet, IsRunning
<1>4. CASE runs' = runs
  BY <1>1, <1>2, <1>3, <1>4 DEF Abstract!Next, Abstract!Work, Abstract!Going, Running
<1>5. CASE MovesRuns /\ runs' # runs
  <2>1. NewRun \/ OldRun \/ RunEnds
    BY <1>5 DEF MovesRuns, RunsStay
  <2>2. Abstract!Create \/ Abstract!Reopen \/ Abstract!End
    BY <2>1 DEF NewRun, OldRun, RunEnds, IsRunning, Running, Abstract!Create,
                Abstract!Reopen, Abstract!End, Abstract!Going, Abstract!Status
  <2> QED  BY <1>1, <1>3, <2>2 DEF Abstract!Next, Abstract!Going, Running
<1> QED  BY <1>4, <1>5

LEMMA StepImplements ==
    ASSUME EngineInv, EngineInv', [Next]_vars, Step # {}
    PROVE  [Abstract!Next]_<<runs, InProgress(subtasks)>>
<1>1. CASE Next
  BY <1>1, RunsMove, RunsImplement DEF EngineInv, OrderInv
<1>2. CASE UNCHANGED vars
  BY <1>2, RunsImplement DEF vars, database
<1> QED  BY <1>1, <1>2

(* For every graph with steps, the engine implements WorkflowRun: one run  *)
(* at a time, over once and for all unless reopened, and somebody at work  *)
(* exactly while it is going.                                              *)
THEOREM EngineImplementsRun ==
    ASSUME Step # {}
    PROVE  Spec => ImplementsRun
<1>1. Init => Abstract!Init
  BY DEF Init, Abstract!Init, InProgress, FreshRow
<1>2. EngineInv /\ EngineInv' /\ [Next]_vars
        => [Abstract!Next]_<<runs, InProgress(subtasks)>>
  BY StepImplements
<1> QED  BY <1>1, <1>2, EngineIsSound, PTL DEF Spec, ImplementsRun, Abstract!Spec
=============================================================================
