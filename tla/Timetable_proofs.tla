--------------------------- MODULE Timetable_proofs ---------------------------
(***************************************************************************)
(* What holds of the timetable for any schedules, pulses, caps and bounds: *)
(* one claim at a time, exact counts, no schedule forgotten in running,    *)
(* caps kept, one-shot pulses that run once.                               *)
(***************************************************************************)
EXTENDS Timetable, SequenceTheorems, TLAPS

-----------------------------------------------------------------------------
(* Queues of due times                                                     *)

LEMMA RemoveAtType ==
    ASSUME NEW S, NEW queue \in Seq(S), NEW s, \E i \in DOMAIN queue : queue[i] = s
    PROVE  RemoveAt(queue, CHOOSE i \in DOMAIN queue : queue[i] = s) \in Seq(S)
<1> DEFINE i == CHOOSE j \in DOMAIN queue : queue[j] = s
<1>1. i \in 1 .. Len(queue) /\ Len(queue) \in Nat
  OBVIOUS
<1> HIDE DEF i
<1>2. /\ SubSeq(queue, 1, i - 1) \in Seq(S)
      /\ SubSeq(queue, i + 1, Len(queue)) \in Seq(S)
  BY <1>1
<1>3. RemoveAt(queue, i) \in Seq(S)
  BY <1>2 DEF RemoveAt
<1> QED  BY <1>3 DEF i

LEMMA QueueTypes ==
    ASSUME NEW S, NEW queue \in Seq(S), NEW s \in S
    PROVE  /\ NotDue(queue, s) \in Seq(S)
           /\ DueAgain(queue, s) \in Seq(S)
           /\ WithoutPulse(queue, s) \in Seq(S)
           /\ Append(queue, s) \in Seq(S)
           /\ Append(WithoutPulse(queue, s), s) \in Seq(S)
<1>1. NotDue(queue, s) \in Seq(S) /\ WithoutPulse(queue, s) \in Seq(S)
  BY RemoveAtType DEF NotDue, WithoutPulse
<1> QED  BY <1>1 DEF DueAgain

-----------------------------------------------------------------------------
(* The invariant, schedule part                                            *)

ScheduleInv ==
    /\ ScheduleTypeOK
    /\ triggered = {}
    /\ \A x, y \in ticking : x = y
    /\ CountIsExact
    /\ RunningIsExecuted
    /\ ClaimIsFresh
    /\ LiveHasRoom
    /\ CapHolds

LEMMA WriteType ==
    ASSUME ScheduleTypeOK, NEW s \in Schedule, NEW row \in ScheduleRow, Write(s, row)
    PROVE  /\ schedules' \in [Schedule -> ScheduleRow]
           /\ \A t \in Schedule : t # s => schedules'[t] = schedules[t]
           /\ IF Present(s) THEN schedules'[s] = [row EXCEPT !.aged = FALSE]
                            ELSE schedules'[s] = schedules[s]
<1>1. [row EXCEPT !.aged = FALSE] \in ScheduleRow
  BY DEF ScheduleRow
<1> QED  BY <1>1 DEF Write, ScheduleTypeOK

LEMMA ScheduleInitInv == ScheduleInit => ScheduleInv
<1> SUFFICES ASSUME ScheduleInit  PROVE ScheduleInv
  OBVIOUS
<1>1. PICK cron \in [Schedule -> BOOLEAN] :
         schedules = [s \in Schedule |-> [status |-> "active", cron |-> cron[s],
                                          count |-> 0, aged |-> FALSE]]
  BY DEF ScheduleInit
<1>2. \A s \in Schedule : /\ schedules[s] \in ScheduleRow
                          /\ schedules[s].status = "active" /\ schedules[s].count = 0
  BY <1>1 DEF ScheduleRow, RowStatus
<1>3. ScheduleTypeOK
  BY <1>1, <1>2, ScheduleAssumption DEF ScheduleInit, ScheduleTypeOK
<1> QED
  BY <1>2, <1>3, ScheduleAssumption
  DEF ScheduleInit, ScheduleInv, CountIsExact, RunningIsExecuted, ClaimIsFresh,
      LiveHasRoom, CapHolds

(* The rows, what was lost and revived, and the counts stay: only the      *)
(* queue, the edits or the bounds change.                                  *)
LEMMA ScheduleInvSame ==
    ASSUME ScheduleInv, UNCHANGED <<schedules, ticking, triggered, finished, lost, revived>>,
           due' \in Seq(Schedule), edits' \subseteq Schedule \X Change,
           serving' \in BOOLEAN, acts' \in Nat
    PROVE  ScheduleInv'
  BY DEF ScheduleInv, ScheduleTypeOK, CountIsExact, RunningIsExecuted, ClaimIsFresh,
         LiveHasRoom, CapHolds, Present

LEMMA ClockKeeps ==
    ASSUME ScheduleInv, ClockSteps
    PROVE  ScheduleInv'
<1>1. PICK s \in Schedule : TimeComes(s) \/ FiveMinutesPass(s)
  BY DEF ClockSteps
<1>2. CASE TimeComes(s)
  <2>1. due' \in Seq(Schedule)
    BY <1>2, QueueTypes DEF TimeComes, ScheduleInv, ScheduleTypeOK
  <2> QED  BY <1>2, <2>1, ScheduleInvSame
           DEF TimeComes, ScheduleInv, ScheduleTypeOK, sMemory, sHistory
<1>3. CASE FiveMinutesPass(s)
  <2>1. /\ schedules' \in [Schedule -> ScheduleRow]
        /\ \A t \in Schedule : /\ schedules'[t].status = schedules[t].status
                               /\ schedules'[t].count = schedules[t].count
    BY <1>3 DEF FiveMinutesPass, ScheduleInv, ScheduleTypeOK, ScheduleRow
  <2> QED  BY <1>3, <2>1 DEF FiveMinutesPass, ScheduleInv, ScheduleTypeOK, CountIsExact,
              RunningIsExecuted, ClaimIsFresh, LiveHasRoom, CapHolds, Present,
              sMemory, sHistory, Execution
<1> QED  BY <1>1, <1>2, <1>3

LEMMA ClaimKeeps ==
    ASSUME ScheduleInv, ticking = {}, NEW s \in Schedule, Claim(s)
    PROVE  ScheduleInv'
<1> DEFINE x == Claimed(s)
<1>1. schedules \in [Schedule -> ScheduleRow] /\ schedules[s].status = "active"
  BY DEF Claim, Claimable, ScheduleInv, ScheduleTypeOK
<1>2. x \in Execution /\ x.schedule = s /\ x.count = schedules[s].count
  BY <1>1 DEF Claimed, Execution, ScheduleRow
<1>3. [schedules[s] EXCEPT !.status = "running"] \in ScheduleRow
  BY <1>1 DEF ScheduleRow, RowStatus
<1>4. /\ schedules' \in [Schedule -> ScheduleRow]
      /\ \A t \in Schedule : t # s => schedules'[t] = schedules[t]
      /\ schedules'[s].status = "running" /\ schedules'[s].count = schedules[s].count
  <2>1. Present(s)
    BY <1>1 DEF Present, Absent
  <2> DEFINE row == [schedules[s] EXCEPT !.status = "running"]
  <2>2. /\ row.status = "running" /\ row.count = schedules[s].count
        /\ [row EXCEPT !.aged = FALSE].status = row.status
        /\ [row EXCEPT !.aged = FALSE].count = row.count
    BY <1>1 DEF ScheduleRow
  <2>3. row \in ScheduleRow /\ Write(s, row)
    BY <1>3 DEF Claim
  <2> HIDE DEF row
  <2> QED  BY <2>1, <2>2, <2>3, WriteType DEF ScheduleInv
<1>5. ticking' = {x}
  BY DEF Claim
<1> HIDE DEF x
<1>6. ScheduleTypeOK'
  BY <1>2, <1>4, <1>5 DEF Claim, ScheduleInv, ScheduleTypeOK, sHistory
<1>7. CountIsExact' /\ LiveHasRoom' /\ CapHolds' /\ ClaimIsFresh' /\ RunningIsExecuted'
  BY <1>1, <1>2, <1>4, <1>5
  DEF Claim, ScheduleInv, CountIsExact, LiveHasRoom, CapHolds, ClaimIsFresh,
      RunningIsExecuted, Present, Absent, sHistory
<1> QED  BY <1>5, <1>6, <1>7 DEF Claim, ScheduleInv

(* With one execution in the tick and no trigger, its move is the tick's.  *)
LEMMA MovesTick ==
    ASSUME ScheduleInv, NEW x \in ticking, NEW y, Moves(x, y)
    PROVE  ticking = {x} /\ ticking' = y /\ triggered' = {}
  BY DEF ScheduleInv, Moves

(* An execution that goes on leaves the rows alone.                        *)
LEMMA OnwardKeeps ==
    ASSUME ScheduleInv, NEW x \in ticking, NEW y \in Execution,
           y.schedule = x.schedule, y.count = x.count, Moves(x, {y}),
           UNCHANGED <<sRows, edits, serving, acts, sHistory>>
    PROVE  ScheduleInv'
<1>1. ticking = {x} /\ ticking' = {y} /\ triggered' = {}
  BY MovesTick
<1> QED  BY <1>1 DEF ScheduleInv, ScheduleTypeOK, CountIsExact, RunningIsExecuted,
            ClaimIsFresh, LiveHasRoom, CapHolds, Present, sRows, sHistory

(* An execution that is given up is lost, unless its row is gone.          *)
LEMMA GivenUpKeeps ==
    ASSUME ScheduleInv, NEW x \in ticking, Moves(x, {}),
           UNCHANGED <<sRows, edits, serving, acts, finished, revived>>,
           lost' \in SUBSET Schedule, lost \subseteq lost',
           Present(x.schedule) => x.schedule \in lost'
    PROVE  ScheduleInv'
<1>1. ticking = {x} /\ ticking' = {} /\ triggered' = {}
  BY MovesTick
<1> QED  BY <1>1 DEF ScheduleInv, ScheduleTypeOK, CountIsExact, RunningIsExecuted,
            ClaimIsFresh, LiveHasRoom, CapHolds, Present, Absent, sRows

(* Every step of an execution of the tick.                                 *)
LEMMA ExecutionKeeps ==
    ASSUME ScheduleInv, NEW x \in ticking, ExecutionSteps(x) \/ CallFails(x)
    PROVE  ScheduleInv'
<1>0. x \in Execution /\ x.schedule \in Schedule
  BY DEF ScheduleInv, ScheduleTypeOK, Execution
<1>1. ASSUME NEW p \in {"prepare", "start", "reschedule"}
      PROVE  /\ [x EXCEPT !.phase = p] \in Execution
             /\ [x EXCEPT !.phase = p].schedule = x.schedule
             /\ [x EXCEPT !.phase = p].count = x.count
  BY <1>0 DEF Execution
<1>2. AfterExecute(x) = {[x EXCEPT !.phase = "reschedule"]}
  BY DEF AfterExecute
<1>3. CASE Begin(x)
  <2>1. CASE Present(x.schedule)
    BY <1>1, <1>3, <2>1, OnwardKeeps DEF Begin
  <2>2. CASE ~Present(x.schedule)
    BY <1>3, <2>2, GivenUpKeeps DEF Begin, ScheduleInv, ScheduleTypeOK, sHistory
  <2> QED  BY <2>1, <2>2
<1>4. CASE Prepare(x)
  BY <1>1, <1>4, OnwardKeeps DEF Prepare
<1>5. CASE Start(x)
  BY <1>1, <1>2, <1>5, OnwardKeeps DEF Start
<1>6. CASE Fail(x)
  BY <1>1, <1>2, <1>6, OnwardKeeps DEF Fail
<1>7. CASE BeginFails(x)
  <2>1. lost' \in SUBSET Schedule /\ lost \subseteq lost' /\ x.schedule \in lost'
    BY <1>0, <1>7 DEF BeginFails, ScheduleInv, ScheduleTypeOK
  <2> QED  BY <1>7, <2>1, GivenUpKeeps DEF BeginFails
<1>8. CASE RescheduleFails(x)
  <2>1. lost' \in SUBSET Schedule /\ lost \subseteq lost' /\ x.schedule \in lost'
    BY <1>0, <1>8 DEF RescheduleFails, ScheduleInv, ScheduleTypeOK
  <2> QED  BY <1>8, <2>1, GivenUpKeeps DEF RescheduleFails
<1>9. CASE Reschedule(x)
  <2> DEFINE s   == x.schedule
             row == [schedules[s] EXCEPT
                       !.status = IF Terminal(x) THEN "expired" ELSE "active",
                       !.count = x.count + 1]
  <2>1. /\ ticking = {x} /\ ticking' = {} /\ triggered' = {}
        /\ UNCHANGED <<edits, serving, acts, lost, revived>>
        /\ Write(s, row)
    BY <1>9, MovesTick DEF Reschedule
  <2>2. /\ schedules \in [Schedule -> ScheduleRow] /\ s \in Schedule
        /\ x.count \in Nat /\ finished \in [Schedule -> Nat]
        /\ MaxExecutions[s] \in Nat \ {0}
    BY <1>0, ScheduleAssumption DEF ScheduleInv, ScheduleTypeOK, Execution
  <2>3. row \in ScheduleRow
    <3> DEFINE st == IF Terminal(x) THEN "expired" ELSE "active"
               n  == x.count + 1
    <3>1. st \in RowStatus /\ n \in Nat
      BY <2>2 DEF RowStatus
    <3> HIDE DEF st, n
    <3>2. [schedules[s] EXCEPT !.status = st, !.count = n] \in ScheduleRow
      BY <2>2, <3>1 DEF ScheduleRow
    <3> QED  BY <3>2 DEF st, n
  <2>4. /\ [row EXCEPT !.aged = FALSE].status = row.status
        /\ [row EXCEPT !.aged = FALSE].count = x.count + 1
        /\ row.status = IF Terminal(x) THEN "expired" ELSE "active"
    BY <2>2 DEF ScheduleRow
  <2> HIDE DEF row
  <2>5. /\ schedules' \in [Schedule -> ScheduleRow]
        /\ \A t \in Schedule : t # s => schedules'[t] = schedules[t]
        /\ Present(s) => /\ schedules'[s].status = IF Terminal(x) THEN "expired" ELSE "active"
                         /\ schedules'[s].count = x.count + 1
        /\ ~Present(s) => schedules'[s] = schedules[s]
    BY <2>1, <2>2, <2>3, <2>4, WriteType DEF ScheduleInv
  <2>6. due' \in Seq(Schedule)
    BY <1>9, <2>2, QueueTypes DEF Reschedule, ScheduleInv, ScheduleTypeOK
  <2>7. /\ finished' \in [Schedule -> Nat]
        /\ \A t \in Schedule : t # s => finished'[t] = finished[t]
        /\ Present(s) => finished'[s] = finished[s] + 1
        /\ ~Present(s) => finished' = finished
    BY <1>9, <2>2 DEF Reschedule
  <2>8. /\ Present(s) => x.count = finished[s]
        /\ Present(s) => x.count < MaxExecutions[s] \/ s \in revived
    BY <2>2 DEF ScheduleInv, CountIsExact, ClaimIsFresh
  <2>9. Present(s) /\ ~Terminal(x) => x.count + 1 < MaxExecutions[s]
    BY <2>2 DEF Terminal
  <2>10. \A t \in Schedule : Present(t)' <=> Present(t)
    BY <2>5 DEF Present, Absent
  <2>11. ScheduleTypeOK'
    BY <2>1, <2>5, <2>6, <2>7 DEF ScheduleInv, ScheduleTypeOK
  <2>12. CountIsExact' /\ RunningIsExecuted' /\ ClaimIsFresh'
    BY <2>1, <2>5, <2>7, <2>8, <2>10
    DEF ScheduleInv, CountIsExact, RunningIsExecuted, ClaimIsFresh, Present, Absent
  <2>13. LiveHasRoom' /\ CapHolds'
    BY <2>1, <2>2, <2>5, <2>8, <2>9, <2>10
    DEF ScheduleInv, LiveHasRoom, CapHolds, Present, Absent
  <2> QED  BY <2>1, <2>11, <2>12, <2>13 DEF ScheduleInv
<1> QED  BY <1>3, <1>4, <1>5, <1>6, <1>7, <1>8, <1>9 DEF ExecutionSteps, CallFails

-----------------------------------------------------------------------------
(* Owners, crash and restart                                               *)

LEMMA OwnersKeep ==
    ASSUME ScheduleInv, OwnerActs
    PROVE  ScheduleInv'
<1>0. /\ schedules \in [Schedule -> ScheduleRow] /\ due \in Seq(Schedule)
      /\ edits \subseteq Schedule \X Change /\ acts \in Nat
  BY DEF ScheduleInv, ScheduleTypeOK
<1>1. ASSUME NEW s \in Schedule, RemoveSchedule(s)  PROVE ScheduleInv'
  <2>1. /\ schedules' \in [Schedule -> ScheduleRow]
        /\ \A t \in Schedule : t # s => schedules'[t] = schedules[t]
        /\ schedules'[s].status = Absent /\ schedules'[s].count = schedules[s].count
    BY <1>0, <1>1 DEF RemoveSchedule, ScheduleRow
  <2>2. due' \in Seq(Schedule) /\ acts' \in Nat
    <3>1. NotDue(due, s) \in Seq(Schedule)
      BY <1>0, QueueTypes
    <3> QED  BY <1>0, <1>1, <3>1 DEF RemoveSchedule, Act
  <2>3. UNCHANGED <<ticking, triggered, edits, serving, finished, lost, revived>>
    BY <1>1 DEF RemoveSchedule, sMemory, sHistory
  <2>4. ScheduleTypeOK'
    BY <2>1, <2>2, <2>3 DEF ScheduleInv, ScheduleTypeOK
  <2>5. \A t \in Schedule : /\ schedules'[t].count = schedules[t].count
                            /\ Present(t)' => schedules'[t] = schedules[t]
    BY <2>1 DEF Present
  <2>6. CountIsExact' /\ ClaimIsFresh' /\ CapHolds'
    <3>1. \A x \in ticking : x.schedule \in Schedule
      BY DEF ScheduleInv, ScheduleTypeOK, Execution
    <3> QED  BY <2>3, <2>5, <3>1
             DEF ScheduleInv, CountIsExact, ClaimIsFresh, CapHolds, Present
  <2>7. \A t \in Schedule : schedules'[t].status # Absent => schedules'[t] = schedules[t]
    BY <2>1
  <2>8. RunningIsExecuted' /\ LiveHasRoom'
    BY <2>3, <2>7 DEF ScheduleInv, RunningIsExecuted, LiveHasRoom, Absent
  <2> QED  BY <2>3, <2>4, <2>6, <2>8 DEF ScheduleInv
<1>2. ASSUME NEW s \in Schedule, NEW change \in Change, ReadForEdit(s, change)
      PROVE  ScheduleInv'
  <2>1. edits' \subseteq Schedule \X Change /\ acts' \in Nat
    BY <1>0, <1>2 DEF ReadForEdit, Act
  <2> QED  BY <1>0, <1>2, <2>1, ScheduleInvSame
           DEF ReadForEdit, ScheduleInv, ScheduleTypeOK, sRows, sHistory
<1>3. ASSUME NEW s \in Schedule, NEW change \in Change, WriteEdit(s, change)
      PROVE  ScheduleInv'
  <2> DEFINE row == CASE change = "pause"  -> [schedules[s] EXCEPT !.status = "paused"]
                      [] change = "resume" -> [schedules[s] EXCEPT !.status = "active"]
                      [] OTHER -> [schedules[s] EXCEPT !.cron = (change = "recron")]
  <2>1. /\ row \in ScheduleRow
        /\ row.count = schedules[s].count
        /\ change \in {"pause", "resume"} => row.status \in {"paused", "active"}
        /\ change \notin {"pause", "resume"} => row.status = schedules[s].status
        /\ [row EXCEPT !.aged = FALSE].count = row.count
        /\ [row EXCEPT !.aged = FALSE].status = row.status
    <3>1. CASE change = "pause"
      BY <1>0, <3>1 DEF ScheduleRow, RowStatus
    <3>2. CASE change = "resume"
      BY <1>0, <3>2 DEF ScheduleRow, RowStatus
    <3>3. CASE change \notin {"pause", "resume"}
      <4>1. row = [schedules[s] EXCEPT !.cron = (change = "recron")]
        BY <3>3
      <4> HIDE DEF row
      <4>2. (change = "recron") \in BOOLEAN
        OBVIOUS
      <4> QED  BY <1>0, <3>3, <4>1, <4>2 DEF ScheduleRow
    <3> QED  BY <3>1, <3>2, <3>3
  <2>2. Write(s, row)
    BY <1>3 DEF WriteEdit
  <2> HIDE DEF row
  <2>3. /\ schedules' \in [Schedule -> ScheduleRow]
        /\ \A t \in Schedule : t # s => schedules'[t] = schedules[t]
        /\ schedules'[s].count = schedules[s].count
        /\ Present(s) /\ change \in {"pause", "resume"} =>
              schedules'[s].status \in {"paused", "active"}
        /\ ~Present(s) \/ change \notin {"pause", "resume"} =>
              schedules'[s].status = schedules[s].status
    BY <2>1, <2>2, WriteType DEF ScheduleInv
  <2>4. /\ due' \in Seq(Schedule) /\ edits' \subseteq Schedule \X Change
        /\ UNCHANGED <<ticking, triggered, serving, acts, finished, lost>>
        /\ revived' \subseteq Schedule /\ revived \subseteq revived'
        /\ schedules[s].status = "expired" /\ change \in {"pause", "resume"} =>
              s \in revived'
    BY <1>0, <1>3, QueueTypes DEF WriteEdit, ScheduleInv, ScheduleTypeOK
  <2>5. \A t \in Schedule : Present(t)' <=> Present(t)
    BY <1>0, <2>3 DEF Present, Absent
  <2>6. schedules[s].status \in {"active", "running", "paused", "expired", "absent"}
    BY <1>0 DEF ScheduleRow, RowStatus, Absent
  <2>7. ScheduleTypeOK'
    BY <2>3, <2>4 DEF ScheduleInv, ScheduleTypeOK
  <2>8. CountIsExact' /\ RunningIsExecuted' /\ ClaimIsFresh' /\ CapHolds'
    <3>1. \A t \in Schedule : /\ schedules'[t].count = schedules[t].count
                              /\ schedules'[t].status = "running" =>
                                    schedules[t].status = "running"
      BY <2>3
    <3>2. \A x \in ticking : x.schedule \in Schedule
      BY DEF ScheduleInv, ScheduleTypeOK, Execution
    <3>3. CountIsExact' /\ CapHolds'
      BY <2>4, <2>5, <3>1 DEF ScheduleInv, CountIsExact, CapHolds
    <3>4. RunningIsExecuted' /\ ClaimIsFresh'
      BY <2>4, <2>5, <3>1, <3>2 DEF ScheduleInv, RunningIsExecuted, ClaimIsFresh
    <3> QED  BY <3>3, <3>4
  <2>9. LiveHasRoom'
    BY <2>3, <2>4, <2>5, <2>6 DEF ScheduleInv, LiveHasRoom, Present, Absent
  <2> QED  BY <2>4, <2>7, <2>8, <2>9 DEF ScheduleInv
<1>4. \A e \in edits : e[1] \in Schedule /\ e[2] \in Change
  BY <1>0
<1> QED  BY <1>1, <1>2, <1>3, <1>4 DEF OwnerActs

LEMMA DropKeeps ==
    ASSUME ScheduleInv, DropExecutions, acts' \in Nat
    PROVE  ScheduleInv'
<1>1. /\ lost' \subseteq Schedule /\ lost \subseteq lost'
      /\ \A x \in ticking : x.schedule \in lost'
      /\ UNCHANGED <<schedules, due, finished, revived>>
      /\ ticking' = {} /\ triggered' = {} /\ edits' = {} /\ serving' = FALSE
  BY DEF DropExecutions, ScheduleInv, ScheduleTypeOK, Execution, sRows
<1> QED  BY <1>1 DEF ScheduleInv, ScheduleTypeOK, CountIsExact, RunningIsExecuted,
            ClaimIsFresh, LiveHasRoom, CapHolds, Present

LEMMA RecoverKeeps ==
    ASSUME ScheduleInv, RecoverStuck
    PROVE  ScheduleInv'
<1>1. /\ schedules \in [Schedule -> ScheduleRow]
      /\ UNCHANGED <<due, ticking, triggered, edits, acts, finished, lost, revived>>
      /\ serving' = TRUE
  BY DEF RecoverStuck, ScheduleInv, ScheduleTypeOK, sHistory
<1>2. /\ schedules' \in [Schedule -> ScheduleRow]
      /\ \A s \in Schedule :
            /\ schedules'[s].count = schedules[s].count
            /\ \/ schedules'[s] = schedules[s]
               \/ schedules[s].status = "running" /\ schedules'[s].status = "active"
  BY <1>1 DEF RecoverStuck, ScheduleRow, RowStatus
<1>3. ScheduleTypeOK'
  BY <1>1, <1>2 DEF ScheduleInv, ScheduleTypeOK
<1>4. \A s \in Schedule : Present(s)' <=> Present(s)
  BY <1>2 DEF Present, Absent
<1> QED  BY <1>1, <1>2, <1>3, <1>4
         DEF ScheduleInv, ScheduleTypeOK, CountIsExact, RunningIsExecuted, ClaimIsFresh,
             LiveHasRoom, CapHolds, Execution, Present

-----------------------------------------------------------------------------
(* The invariant, pulse part                                               *)

JobRun == [pulse : Pulse, status : JobRunStatus]

PulseInv ==
    /\ PulseTypeOK
    /\ \A b, c \in beating : b = c
    /\ BeatIsFresh
    /\ ManualApart
    /\ NotSpent

LEMMA PulseInitInv == PulseInit => PulseInv
<1> SUFFICES ASSUME PulseInit  PROVE PulseInv
  OBVIOUS
<1>1. PICK oneShot \in [Pulse -> BOOLEAN] :
         pulses = [p \in Pulse |-> [status |-> "active", oneShot |-> oneShot[p],
                                   retries |-> 0]]
  BY DEF PulseInit
<1>2. pulses \in [Pulse -> PulseRow]
  BY <1>1 DEF PulseRow, PulseStatus
<1>3. PulseTypeOK
  BY <1>2 DEF PulseInit, PulseTypeOK
<1>4. NotSpent
  BY DEF PulseInit, NotSpent, MaySucceed
<1> QED  BY <1>3, <1>4 DEF PulseInit, PulseInv, BeatIsFresh, ManualApart

(* What BeatIsFresh, ManualApart and NotSpent read stays.                  *)
LEMMA PulseInvSame ==
    ASSUME PulseInv, UNCHANGED <<pulses, beating, successes, reopened>>,
           PulseTypeOK', ManualApart'
    PROVE  PulseInv'
  BY DEF PulseInv, BeatIsFresh, NotSpent, MaySucceed

LEMMA BeatFacts ==
    ASSUME PulseInv, NEW b \in beating \cup manual
    PROVE  /\ b \in Beat /\ b.pulse \in Pulse
           /\ pulses[b.pulse] \in PulseRow
           /\ b \in beating => beating = {b} /\ b \notin manual
  BY DEF PulseInv, PulseTypeOK, ManualApart, Beat

LEMMA MarkRunType ==
    ASSUME jobRuns \in Seq(JobRun), NEW i, NEW status \in JobRunStatus, MarkRun(i, status)
    PROVE  jobRuns' \in Seq(JobRun)
<1>1. Len(jobRuns) \in Nat /\ jobRuns \in [1 .. Len(jobRuns) -> JobRun]
  OBVIOUS
<1>2. \A r \in JobRun : [r EXCEPT !.status = status] \in JobRun
  BY DEF JobRun
<1>3. [jobRuns EXCEPT ![i].status = status] \in [1 .. Len(jobRuns) -> JobRun]
  BY <1>1, <1>2
<1>4. [jobRuns EXCEPT ![i].status = status] \in Seq(JobRun)
  BY <1>1, <1>3, SeqDef
<1> QED  BY <1>4 DEF MarkRun

(* An execution that goes on, with the same claim, leaves the rows alone.  *)
LEMMA BeatOnward ==
    ASSUME PulseInv, NEW b \in beating \cup manual, NEW c \in Beat,
           c.pulse = b.pulse, c.oneShot = b.oneShot, c.nr = b.nr, c.ok = b.ok,
           b.phase # "reschedule", c.phase # "reschedule",
           Continues(b, {c}), jobRuns' \in Seq(JobRun),
           UNCHANGED <<pulses, pulsesDue, pHistory>>
    PROVE  PulseInv'
<1>1. PulseTypeOK'
  BY DEF PulseInv, PulseTypeOK, Continues, pHistory, JobRun
<1>2. ManualApart'
  BY DEF PulseInv, ManualApart, Continues, Beat
<1>3. CASE b \in beating
  <2>1. beating = {b} /\ beating' = {c}
    BY <1>3, BeatFacts DEF Continues
  <2>2. BeatIsFresh'
    BY <2>1 DEF PulseInv, BeatIsFresh
  <2>3. \A p \in Pulse : MaySucceed(p)' <=> MaySucceed(p)
    BY <2>1 DEF MaySucceed
  <2>4. NotSpent'
    BY <2>3 DEF PulseInv, NotSpent, pHistory
  <2> QED  BY <1>1, <1>2, <2>1, <2>2, <2>4 DEF PulseInv
<1>4. CASE b \notin beating
  BY <1>1, <1>2, <1>4, PulseInvSame DEF Continues, pHistory
<1> QED  BY <1>3, <1>4

(* NotSpent is kept where each success uses up the chance of it, and a new *)
(* chance is accounted for.                                                *)
LEMMA NotSpentStep ==
    ASSUME PulseInv, successes' \in [Pulse -> Nat], reopened' \in [Pulse -> Nat],
           \A p \in Pulse : pulses'[p].oneShot => pulses[p].oneShot,
           \A p \in Pulse :
              \/ /\ successes'[p] = successes[p] /\ reopened'[p] = reopened[p]
                 /\ pulses'[p].oneShot /\ MaySucceed(p)' => MaySucceed(p)
              \/ /\ successes'[p] = successes[p] + 1 /\ reopened'[p] = reopened[p]
                 /\ MaySucceed(p) /\ ~MaySucceed(p)'
              \/ successes'[p] = successes[p] /\ reopened'[p] = reopened[p] + 1
    PROVE  NotSpent'
<1> SUFFICES ASSUME NEW p \in Pulse, pulses'[p].oneShot
             PROVE  successes'[p] + (IF MaySucceed(p)' THEN 1 ELSE 0) <= 1 + reopened'[p]
  BY DEF NotSpent
<1>1. /\ successes[p] \in Nat /\ reopened[p] \in Nat
      /\ successes[p] + (IF MaySucceed(p) THEN 1 ELSE 0) <= 1 + reopened[p]
  BY DEF PulseInv, PulseTypeOK, NotSpent
<1>2. CASE /\ successes'[p] = successes[p] /\ reopened'[p] = reopened[p]
           /\ pulses'[p].oneShot /\ MaySucceed(p)' => MaySucceed(p)
  <2>1. CASE MaySucceed(p)'
    BY <1>1, <1>2, <2>1
  <2>2. CASE ~MaySucceed(p)'
    BY <1>1, <1>2, <2>2
  <2> QED  BY <2>1, <2>2
<1>3. CASE /\ successes'[p] = successes[p] + 1 /\ reopened'[p] = reopened[p]
           /\ MaySucceed(p) /\ ~MaySucceed(p)'
  BY <1>1, <1>3
<1>4. CASE successes'[p] = successes[p] /\ reopened'[p] = reopened[p] + 1
  BY <1>1, <1>4
<1> QED  BY <1>2, <1>3, <1>4

LEMMA BeatKeeps ==
    ASSUME PulseInv, NEW b \in beating \cup manual, BeatSteps(b)
    PROVE  PulseInv'
<1>0. /\ b \in Beat /\ b.pulse \in Pulse /\ pulses[b.pulse] \in PulseRow
      /\ pulses \in [Pulse -> PulseRow] /\ pulsesDue \in Seq(Pulse)
      /\ jobRuns \in Seq(JobRun) /\ Len(jobRuns) \in Nat
  BY BeatFacts DEF PulseInv, PulseTypeOK, JobRun
<1>1. CASE Queue(b)
  <2>1. CASE Exists(b.pulse)
    <3> DEFINE n == Len(jobRuns) + 1
               c == [b EXCEPT !.phase = "queued", !.run = n]
    <3>0. n \in Nat
      BY <1>0
    <3> HIDE DEF n
    <3>1. /\ c \in Beat /\ c.pulse = b.pulse /\ c.oneShot = b.oneShot
          /\ c.nr = b.nr /\ c.ok = b.ok /\ c.phase = "queued"
      BY <1>0, <3>0 DEF Beat
    <3>2. [pulse |-> b.pulse, status |-> "queued"] \in JobRun
      BY <1>0 DEF JobRun, JobRunStatus
    <3>3. jobRuns' \in Seq(JobRun)
      BY <1>0, <1>1, <2>1, <3>2 DEF Queue
    <3>4. /\ Continues(b, {c}) /\ b.phase = "queue"
          /\ UNCHANGED <<pulses, pulsesDue, pHistory>>
      BY <1>1, <2>1 DEF Queue, n
    <3> HIDE DEF c
    <3> QED  BY <3>1, <3>3, <3>4, BeatOnward
  <2>2. CASE ~Exists(b.pulse)
    <3>1. UNCHANGED <<pulses, pulsesDue, jobRuns, pHistory>> /\ Continues(b, {})
      BY <1>1, <2>2 DEF Queue
    <3>2. beating' \subseteq beating /\ manual' \subseteq manual
      BY <3>1 DEF Continues
    <3>3. PulseTypeOK' /\ BeatIsFresh' /\ ManualApart'
      BY <3>1, <3>2 DEF PulseInv, PulseTypeOK, BeatIsFresh, ManualApart, pHistory
    <3>4. ASSUME NEW p \in Pulse, MaySucceed(p)'  PROVE MaySucceed(p)
      <4>1. p # b.pulse \/ b \notin beating
        BY <2>2, <3>1, <3>4, BeatFacts DEF Exists, Deleted, MaySucceed, Continues
      <4> QED  BY <3>1, <3>4, <4>1, BeatFacts DEF MaySucceed, Continues
    <3>5. NotSpent'
      BY <3>1, <3>4 DEF PulseInv, PulseTypeOK, NotSpent, pHistory
    <3> QED  BY <3>2, <3>3, <3>5 DEF PulseInv
  <2> QED  BY <2>1, <2>2
<1>2. CASE BeginJob(b)
  <2> DEFINE c == [b EXCEPT !.phase = "turn"]
  <2>1. /\ c \in Beat /\ c.pulse = b.pulse /\ c.oneShot = b.oneShot
        /\ c.nr = b.nr /\ c.ok = b.ok /\ c.phase = "turn"
    BY <1>0 DEF Beat
  <2>2. jobRuns' \in Seq(JobRun)
    BY <1>0, <1>2, MarkRunType DEF BeginJob, JobRunStatus
  <2>3. /\ Continues(b, {c}) /\ b.phase = "queued"
        /\ UNCHANGED <<pulses, pulsesDue, pHistory>>
    BY <1>2 DEF BeginJob
  <2> HIDE DEF c
  <2> QED  BY <2>1, <2>2, <2>3, BeatOnward
<1>3. ASSUME NEW ok \in BOOLEAN, NEW audited \in BOOLEAN, Turn(b, ok, audited)
      PROVE  PulseInv'
  <2>1. /\ b.phase = "turn" /\ b.run \in Nat
        /\ UNCHANGED <<pulses, pulsesDue, reopened>>
        /\ unaudited' \subseteq Nat
    BY <1>0, <1>3 DEF Turn, Beat, PulseInv, PulseTypeOK
  <2>2. jobRuns' \in Seq(JobRun)
    BY <1>0, <1>3, MarkRunType DEF Turn, JobRunStatus
  <2>3. CASE b \in beating
    <3> DEFINE c == [b EXCEPT !.phase = "reschedule", !.ok = ok]
    <3>1. /\ c \in Beat /\ c.pulse = b.pulse /\ c.oneShot = b.oneShot
          /\ c.nr = b.nr /\ c.ok = ok /\ c.phase = "reschedule"
      BY <1>0 DEF Beat
    <3>2. beating = {b} /\ beating' = {c} /\ manual' = manual /\ ~b.ok
      BY <1>3, <2>1, <2>3, BeatFacts DEF Turn, Continues, PulseInv, BeatIsFresh
    <3>3. /\ successes' \in [Pulse -> Nat]
          /\ \A p \in Pulse : successes'[p] = IF ok /\ p = b.pulse
                                               THEN successes[p] + 1 ELSE successes[p]
      BY <1>0, <1>3, <2>3 DEF Turn, PulseInv, PulseTypeOK
    <3> HIDE DEF c
    <3>4. PulseTypeOK' /\ BeatIsFresh' /\ ManualApart'
      BY <2>1, <2>2, <3>1, <3>2, <3>3
      DEF PulseInv, PulseTypeOK, BeatIsFresh, ManualApart, JobRun
    <3>5. \A p \in Pulse : /\ p = b.pulse => MaySucceed(p) /\ (MaySucceed(p)' <=> ~ok)
                           /\ p # b.pulse => (MaySucceed(p)' <=> MaySucceed(p))
      BY <2>1, <3>1, <3>2 DEF MaySucceed
    <3>6. NotSpent'
      <4>1. reopened' \in [Pulse -> Nat]
        BY <2>1 DEF PulseInv, PulseTypeOK
      <4>2. \A q \in Pulse :
               /\ pulses'[q].oneShot => pulses[q].oneShot
               /\ reopened'[q] = reopened[q]
               /\ \/ successes'[q] = successes[q] /\ (MaySucceed(q)' => MaySucceed(q))
                  \/ /\ successes'[q] = successes[q] + 1
                     /\ MaySucceed(q) /\ ~MaySucceed(q)'
        BY <2>1, <3>3, <3>5
      <4> QED  BY <3>3, <4>1, <4>2, NotSpentStep
    <3> QED  BY <3>2, <3>4, <3>6 DEF PulseInv
  <2>4. CASE b \notin beating
    <3>1. beating' = beating /\ manual' \subseteq manual /\ successes' = successes
      BY <1>3, <2>4 DEF Turn, Continues
    <3>2. PulseTypeOK' /\ ManualApart'
      BY <2>1, <2>2, <3>1 DEF PulseInv, PulseTypeOK, ManualApart, JobRun
    <3> QED  BY <2>1, <3>1, <3>2, PulseInvSame
  <2> QED  BY <2>3, <2>4
<1>4. CASE ReschedulePulse(b)
  <2> DEFINE p   == b.pulse
             row == RescheduledRow(b)
  <2>1. /\ b \in beating /\ beating = {b} /\ beating' = {} /\ manual' = manual
        /\ UNCHANGED <<jobRuns, successes, reopened, unaudited>>
        /\ WritePulse(p, row)
    BY <1>4, BeatFacts DEF ReschedulePulse, Continues, PulseInv, ManualApart, pHistory
  <2>2. /\ row \in PulseRow /\ row.oneShot = pulses[p].oneShot
        /\ b.ok /\ b.oneShot => row.status = "completed"
    <3> DEFINE n == b.retries + 1
    <3>1. n \in Nat
      BY <1>0 DEF Beat
    <3>2. CASE Completes(b)
      <4>1. row = [pulses[p] EXCEPT !.status = "completed"]
        BY <3>2 DEF RescheduledRow, Completes, GivesUp
      <4> HIDE DEF row
      <4> QED  BY <1>0, <4>1 DEF PulseRow, PulseStatus
    <3>3. CASE b.ok /\ ~Completes(b)
      <4>1. row = pulses[p]
        BY <3>3 DEF RescheduledRow, Completes, GivesUp
      <4> HIDE DEF row
      <4> QED  BY <1>0, <3>3, <4>1 DEF Completes
    <3>4. CASE ~b.ok /\ GivesUp(b)
      <4>1. row = [pulses[p] EXCEPT !.status = "failed"]
        BY <3>4 DEF RescheduledRow, Completes, GivesUp
      <4> HIDE DEF row
      <4> QED  BY <1>0, <3>4, <4>1 DEF PulseRow, PulseStatus
    <3>5. CASE ~b.ok /\ ~GivesUp(b)
      <4>1. row = [pulses[p] EXCEPT !.retries = n]
        BY <3>5 DEF RescheduledRow, Completes, GivesUp
      <4> HIDE DEF row, n
      <4> QED  BY <1>0, <3>1, <3>5, <4>1 DEF PulseRow
    <3> QED  BY <3>2, <3>3, <3>4, <3>5
  <2> HIDE DEF row
  <2>3. /\ pulses' \in [Pulse -> PulseRow]
        /\ \A q \in Pulse : /\ pulses'[q].oneShot = pulses[q].oneShot
                            /\ q # p => pulses'[q] = pulses[q]
        /\ pulses'[p] = IF Exists(p) THEN row ELSE pulses[p]
    BY <1>0, <2>1, <2>2 DEF WritePulse
  <2>4. pulsesDue' \in Seq(Pulse)
    <3>1. /\ WithoutPulse(pulsesDue, p) \in Seq(Pulse)
          /\ Append(WithoutPulse(pulsesDue, p), p) \in Seq(Pulse)
      BY <1>0, QueueTypes
    <3>2. pulsesDue' \in {pulsesDue, WithoutPulse(pulsesDue, p),
                         Append(WithoutPulse(pulsesDue, p), p)}
      BY <1>4 DEF ReschedulePulse
    <3> QED  BY <1>0, <3>1, <3>2
  <2>5. PulseTypeOK' /\ BeatIsFresh' /\ ManualApart'
    BY <2>1, <2>3, <2>4 DEF PulseInv, PulseTypeOK, BeatIsFresh, ManualApart
  <2>6. ASSUME NEW q \in Pulse, pulses'[q].oneShot, MaySucceed(q)'  PROVE MaySucceed(q)
    <3>1. pulses'[q].status = "active"
      BY <2>1, <2>6 DEF MaySucceed
    <3>2. CASE q # p
      <4>1. pulses'[q] = pulses[q]
        BY <2>3, <3>2
      <4>2. pulses[q].status = "active"
        BY <3>1, <4>1
      <4>3. \A d \in beating : d.pulse # q
        BY <2>1, <3>2
      <4> QED  BY <4>2, <4>3 DEF MaySucceed
    <3>3. CASE q = p
      <4>1. b.oneShot = pulses[p].oneShot /\ Exists(p)
        BY <1>0, <2>1, <2>3, <3>1, <3>3
        DEF PulseInv, BeatIsFresh, Exists, Deleted
      <4>2. ~b.ok
        BY <2>2, <2>3, <2>6, <3>1, <3>3, <4>1
      <4> QED  BY <2>1, <3>3, <4>2 DEF MaySucceed
    <3> QED  BY <3>2, <3>3
  <2>7. NotSpent'
    <3>1. successes' \in [Pulse -> Nat] /\ reopened' \in [Pulse -> Nat]
      BY <2>1 DEF PulseInv, PulseTypeOK
    <3>2. \A q \in Pulse : /\ successes'[q] = successes[q] /\ reopened'[q] = reopened[q]
                           /\ pulses'[q].oneShot => pulses[q].oneShot
                           /\ pulses'[q].oneShot /\ MaySucceed(q)' => MaySucceed(q)
      BY <2>1, <2>3, <2>6
    <3> QED  BY <3>1, <3>2, NotSpentStep
  <2> QED  BY <2>1, <2>5, <2>7 DEF PulseInv
<1> QED  BY <1>1, <1>2, <1>3, <1>4 DEF BeatSteps

LEMMA ClaimPulseKeeps ==
    ASSUME PulseInv, beating = {}, NEW p \in Pulse, ClaimPulse(p)
    PROVE  PulseInv'
<1> DEFINE b == NewBeat(p, 0)
<1>1. /\ pulses[p] \in PulseRow /\ pulses[p].status = "active"
      /\ UNCHANGED <<pulses, pulsesDue, jobRuns, manual, pHistory>>
  BY DEF ClaimPulse, ClaimablePulses, PulseInv, PulseTypeOK, pRows
<1>2. /\ b \in Beat /\ b.pulse = p /\ b.nr = 0 /\ ~b.ok
      /\ b.oneShot = pulses[p].oneShot
  BY <1>1 DEF NewBeat, Beat, PulseRow
<1>3. beating' = {b}
  BY DEF ClaimPulse
<1> HIDE DEF b
<1>4. PulseTypeOK' /\ BeatIsFresh' /\ ManualApart'
  BY <1>1, <1>2, <1>3 DEF PulseInv, PulseTypeOK, BeatIsFresh, ManualApart, pHistory
<1>5. \A q \in Pulse : MaySucceed(q)' => MaySucceed(q)
  BY <1>1, <1>2, <1>3 DEF MaySucceed
<1>6. NotSpent'
  <2>1. successes' \in [Pulse -> Nat] /\ reopened' \in [Pulse -> Nat]
    BY <1>4 DEF PulseTypeOK
  <2> QED  BY <1>1, <1>5, <2>1, NotSpentStep DEF pHistory
<1> QED  BY <1>3, <1>4, <1>6 DEF PulseInv

LEMMA BeatFailsKeeps ==
    ASSUME PulseInv, NEW b \in beating, ReschedulePulseFails(b)
    PROVE  PulseInv'
<1>1. /\ beating = {b} /\ beating' = {} /\ manual' = manual /\ b.pulse \in Pulse
      /\ UNCHANGED <<pulses, pulsesDue, jobRuns, successes, unaudited>>
  BY BeatFacts DEF ReschedulePulseFails, Continues, pRows
<1>2. /\ reopened' \in [Pulse -> Nat]
      /\ \A q \in Pulse : reopened'[q] = IF q = b.pulse THEN reopened[q] + 1 ELSE reopened[q]
  BY <1>1 DEF ReschedulePulseFails, PulseInv, PulseTypeOK
<1>3. PulseTypeOK' /\ BeatIsFresh' /\ ManualApart'
  BY <1>1, <1>2 DEF PulseInv, PulseTypeOK, BeatIsFresh, ManualApart
<1>4. \A q \in Pulse : q # b.pulse => (MaySucceed(q)' <=> MaySucceed(q))
  BY <1>1 DEF MaySucceed
<1>5. NotSpent'
  <2>1. successes' \in [Pulse -> Nat]
    BY <1>3 DEF PulseTypeOK
  <2> QED  BY <1>1, <1>2, <1>4, <2>1, NotSpentStep
<1> QED  BY <1>1, <1>3, <1>5 DEF PulseInv

LEMMA PulseOwnersKeep ==
    ASSUME PulseInv, NEW nr \in Nat \ {0}, PulseOwnerActs(nr)
    PROVE  PulseInv'
<1>0. /\ pulses \in [Pulse -> PulseRow] /\ pulsesDue \in Seq(Pulse)
      /\ jobRuns \in Seq(JobRun)
      /\ successes \in [Pulse -> Nat] /\ reopened \in [Pulse -> Nat]
  BY DEF PulseInv, PulseTypeOK, JobRun
<1>1. ASSUME NEW p \in Pulse, NEW status \in PulseStatus, SetStatus(p, status)
      PROVE  PulseInv'
  <2>1. /\ pulses' = [pulses EXCEPT ![p] = [pulses[p] EXCEPT !.status = status]]
        /\ UNCHANGED <<pulsesDue, jobRuns, beating, manual, successes, unaudited>>
    BY <1>1 DEF SetStatus, WritePulse, pMemory
  <2>2. /\ pulses' \in [Pulse -> PulseRow]
        /\ \A q \in Pulse : /\ pulses'[q].oneShot = pulses[q].oneShot
                            /\ q # p => pulses'[q] = pulses[q]
        /\ pulses'[p].status = status
    BY <1>0, <2>1 DEF PulseRow
  <2>3. /\ reopened' \in [Pulse -> Nat]
        /\ \A q \in Pulse : reopened'[q] =
              IF q = p /\ status = "active" /\ pulses[p].status # "active"
              THEN reopened[q] + 1 ELSE reopened[q]
    BY <1>0, <1>1 DEF SetStatus
  <2>4. PulseTypeOK' /\ BeatIsFresh' /\ ManualApart'
    <3>1. \A b \in beating : b.pulse \in Pulse
      BY DEF PulseInv, PulseTypeOK, Beat
    <3> QED  BY <2>1, <2>2, <2>3, <3>1
             DEF PulseInv, PulseTypeOK, BeatIsFresh, ManualApart
  <2>5. \A q \in Pulse : MaySucceed(q)' =>
           MaySucceed(q) \/ (q = p /\ status = "active" /\ pulses[p].status # "active")
    BY <2>1, <2>2 DEF MaySucceed
  <2>6. NotSpent'
    BY <1>0, <2>1, <2>2, <2>3, <2>5, NotSpentStep
  <2> QED  BY <2>1, <2>4, <2>6 DEF PulseInv
<1>2. ASSUME NEW p \in Pulse, SetTime(p)  PROVE PulseInv'
  <2>1. WithoutPulse(pulsesDue, p) \in Seq(Pulse)
    BY <1>0, QueueTypes
  <2>2. PulseTypeOK' /\ ManualApart'
    BY <1>2, <2>1 DEF SetTime, PulseInv, PulseTypeOK, ManualApart, pMemory, pHistory
  <2> QED  BY <1>2, <2>2, PulseInvSame DEF SetTime, pMemory, pHistory
<1>3. ASSUME NEW p \in Pulse, DeletePulse(p)  PROVE PulseInv'
  <2>1. /\ pulses' = [pulses EXCEPT ![p] = [pulses[p] EXCEPT !.status = Deleted]]
        /\ UNCHANGED <<beating, manual, successes, reopened, unaudited>>
    BY <1>3 DEF DeletePulse, WritePulse, pMemory, pHistory
  <2>2. /\ pulses' \in [Pulse -> PulseRow]
        /\ \A q \in Pulse : /\ pulses'[q].oneShot = pulses[q].oneShot
                            /\ q # p => pulses'[q] = pulses[q]
        /\ pulses'[p].status # "active"
    BY <1>0, <2>1 DEF PulseRow, Deleted
  <2>3. pulsesDue' \in Seq(Pulse)
    <3>1. WithoutPulse(pulsesDue, p) \in Seq(Pulse)
      BY <1>0, QueueTypes
    <3> QED  BY <1>3, <3>1 DEF DeletePulse
  <2>4. jobRuns' \in Seq(JobRun)
    <3>1. Len(jobRuns) \in Nat /\ DOMAIN jobRuns = 1 .. Len(jobRuns)
      BY <1>0
    <3>2. \A i \in 1 .. Len(jobRuns) :
             /\ jobRuns[i] \in JobRun
             /\ [jobRuns[i] EXCEPT !.status = "gone"] \in JobRun
      <4>1. \A i \in 1 .. Len(jobRuns) : jobRuns[i] \in JobRun
        BY <1>0
      <4>2. \A r \in JobRun : [r EXCEPT !.status = "gone"] \in JobRun
        BY DEF JobRun, JobRunStatus
      <4> QED  BY <4>1, <4>2
    <3>3. jobRuns' \in [1 .. Len(jobRuns) -> JobRun]
      BY <1>3, <3>1, <3>2 DEF DeletePulse
    <3> QED  BY <3>1, <3>3, SeqDef
  <2>5. PulseTypeOK' /\ BeatIsFresh' /\ ManualApart'
    <3>1. \A b \in beating : b.pulse \in Pulse
      BY DEF PulseInv, PulseTypeOK, Beat
    <3>2. manual' = manual
      BY <1>3 DEF DeletePulse, pMemory
    <3> QED  BY <2>1, <2>2, <2>3, <2>4, <3>1, <3>2
             DEF PulseInv, PulseTypeOK, BeatIsFresh, ManualApart, JobRun
  <2>6. \A q \in Pulse : MaySucceed(q)' => MaySucceed(q)
    BY <2>1, <2>2 DEF MaySucceed
  <2>7. NotSpent'
    BY <1>0, <2>1, <2>2, <2>6, NotSpentStep
  <2> QED  BY <2>1, <2>5, <2>7 DEF PulseInv
<1>4. ASSUME NEW p \in Pulse, TriggerPulse(p, nr)  PROVE PulseInv'
  <2>1. NewBeat(p, nr) \in Beat /\ NewBeat(p, nr).nr = nr /\ NewBeat(p, nr).phase = "queue"
    <3>1. pulses[p] \in PulseRow
      BY <1>0
    <3> QED  BY <3>1 DEF NewBeat, Beat, PulseRow
  <2>2. /\ manual' = manual \cup {NewBeat(p, nr)}
        /\ UNCHANGED <<pulses, pulsesDue, jobRuns, beating, pHistory>>
    BY <1>4 DEF TriggerPulse, pRows
  <2>3. PulseTypeOK' /\ ManualApart'
    BY <2>1, <2>2 DEF PulseInv, PulseTypeOK, ManualApart, pHistory
  <2> QED  BY <2>2, <2>3, PulseInvSame DEF pHistory
<1> QED  BY <1>1, <1>2, <1>3, <1>4 DEF PulseOwnerActs

LEMMA PulseTimeKeeps ==
    ASSUME PulseInv, NEW p \in Pulse, PulseTimeComes(p)
    PROVE  PulseInv'
<1>1. pulsesDue' \in Seq(Pulse)
  BY DEF PulseInv, PulseTypeOK, PulseTimeComes
<1>2. PulseTypeOK' /\ ManualApart'
  BY <1>1 DEF PulseTimeComes, PulseInv, PulseTypeOK, ManualApart, pMemory, pHistory
<1> QED  BY <1>2, PulseInvSame DEF PulseTimeComes, pMemory, pHistory

LEMMA DropBeatsKeeps ==
    ASSUME PulseInv, DropBeats
    PROVE  PulseInv'
<1>1. /\ beating' = {} /\ manual' = {}
      /\ UNCHANGED <<pulses, pulsesDue, jobRuns, successes, unaudited>>
  BY DEF DropBeats, pRows
<1>2. /\ reopened' \in [Pulse -> Nat]
      /\ \A q \in Pulse : reopened'[q] = IF \E b \in beating : b.pulse = q
                                         THEN reopened[q] + 1 ELSE reopened[q]
  BY DEF DropBeats, PulseInv, PulseTypeOK
<1>3. PulseTypeOK' /\ BeatIsFresh' /\ ManualApart'
  BY <1>1, <1>2 DEF PulseInv, PulseTypeOK, BeatIsFresh, ManualApart
<1>4. \A q \in Pulse : ~(\E b \in beating : b.pulse = q) =>
                        (MaySucceed(q)' <=> MaySucceed(q))
  BY <1>1 DEF MaySucceed
<1>5. NotSpent'
  <2>1. successes' \in [Pulse -> Nat]
    BY <1>3 DEF PulseTypeOK
  <2> QED  BY <1>1, <1>2, <1>4, <2>1, NotSpentStep
<1> QED  BY <1>1, <1>3, <1>5 DEF PulseInv

LEMMA RecoverJobsKeeps ==
    ASSUME PulseInv, RecoverStuckJobs
    PROVE  PulseInv'
<1>1. Len(jobRuns) \in Nat /\ DOMAIN jobRuns = 1 .. Len(jobRuns)
  BY DEF PulseInv, PulseTypeOK
<1>2. \A i \in 1 .. Len(jobRuns) :
         /\ jobRuns[i] \in JobRun
         /\ [jobRuns[i] EXCEPT !.status = "failed"] \in JobRun
  <2>0. jobRuns \in Seq(JobRun)
    BY DEF PulseInv, PulseTypeOK, JobRun
  <2>1. \A i \in 1 .. Len(jobRuns) : jobRuns[i] \in JobRun
    BY <2>0
  <2>2. \A r \in JobRun : [r EXCEPT !.status = "failed"] \in JobRun
    BY DEF JobRun, JobRunStatus
  <2> QED  BY <2>1, <2>2
<1>3. jobRuns' \in [1 .. Len(jobRuns) -> JobRun]
  BY <1>1, <1>2 DEF RecoverStuckJobs
<1>4. jobRuns' \in Seq(JobRun)
  BY <1>1, <1>3, SeqDef
<1>5. PulseTypeOK' /\ ManualApart'
  BY <1>4 DEF RecoverStuckJobs, PulseInv, PulseTypeOK, ManualApart, JobRun, pMemory, pHistory
<1> QED  BY <1>5, PulseInvSame DEF RecoverStuckJobs, pMemory, pHistory

-----------------------------------------------------------------------------
(* The timetable                                                           *)

(* What the schedules' half reads.                                         *)
LEMMA ScheduleStutters ==
    ASSUME ScheduleInv, UNCHANGED sVars
    PROVE  ScheduleInv'
<1>1. UNCHANGED <<schedules, due, ticking, triggered, edits, serving, acts, finished,
                  lost, revived>>
  BY DEF sVars, sRows, sMemory, sHistory
<1> QED  BY <1>1, ScheduleInvSame DEF ScheduleInv, ScheduleTypeOK

LEMMA PulseStutters ==
    ASSUME PulseInv, UNCHANGED pVars
    PROVE  PulseInv'
<1>1. UNCHANGED <<pulses, pulsesDue, jobRuns, beating, manual, successes, reopened,
                  unaudited>>
  BY DEF pVars, pRows, pMemory, pHistory
<1>2. PulseTypeOK' /\ ManualApart'
  BY <1>1 DEF PulseInv, PulseTypeOK, ManualApart
<1> QED  BY <1>1, <1>2, PulseInvSame

LEMMA TimetableParts ==
    TimetableInv <=> ScheduleInv /\ PulseInv /\ (ticking = {} \/ beating = {})
  BY DEF TimetableInv, ScheduleInv, PulseInv, OneClaim, TypeOK

LEMMA InitInv == Init => TimetableInv
  BY ScheduleInitInv, PulseInitInv, TimetableParts
  DEF Init, ScheduleInit

(* An execution never claims another.                                      *)
LEMMA NoOtherClaim ==
    ASSUME ScheduleInv
    PROVE  /\ OwnerActs \/ ClockSteps => ticking' = ticking
           /\ DropExecutions => ticking' = {}
           /\ RecoverStuck => ticking' = ticking
  BY DEF OwnerActs, RemoveSchedule, ReadForEdit, WriteEdit, ClockSteps, TimeComes,
         FiveMinutesPass, DropExecutions, RecoverStuck, sMemory

LEMMA NoOtherBeat ==
    /\ \A nr : PulseOwnerActs(nr) => beating' = beating
    /\ \A p : PulseTimeComes(p) => beating' = beating
    /\ \A b : BeatSteps(b) /\ beating = {} => beating' = {}
    /\ DropBeats => beating' = {}
    /\ RecoverStuckJobs => beating' = beating
  BY DEF PulseOwnerActs, SetStatus, SetTime, DeletePulse, TriggerPulse, PulseTimeComes,
         BeatSteps, Queue, BeginJob, Turn, ReschedulePulse, Continues, DropBeats,
         RecoverStuckJobs, pMemory

LEMMA NextInv ==
    ASSUME TimetableInv, [Next]_vars
    PROVE  TimetableInv'
<1>0. /\ ScheduleInv /\ PulseInv /\ (ticking = {} \/ beating = {})
      /\ triggered = {} /\ acts \in Nat
  BY TimetableParts DEF ScheduleInv, ScheduleTypeOK
<1> SUFFICES ScheduleInv' /\ PulseInv' /\ (ticking' = {} \/ beating' = {})
  BY DEF TimetableInv, ScheduleInv, PulseInv, OneClaim, TypeOK
<1>1. CASE TickPulse
  <2>1. ScheduleInv' /\ ticking' = {}
    BY <1>0, <1>1, ScheduleStutters DEF TickPulse, NothingClaimed, sVars, sMemory
  <2>2. PulseInv'
    BY <1>0, <1>1, ClaimPulseKeeps DEF TickPulse, NothingClaimed
  <2> QED  BY <2>1, <2>2
<1>2. CASE TickSchedule
  <2>1. PulseInv' /\ beating' = {}
    BY <1>0, <1>2, PulseStutters DEF TickSchedule, NothingClaimed, pVars, pMemory
  <2>2. ScheduleInv'
    BY <1>0, <1>2, ClaimKeeps DEF TickSchedule, NothingClaimed
  <2> QED  BY <2>1, <2>2
<1>3. CASE ExecutionGoesOn \/ ExecutionCallFails
  <2>1. PICK x \in ticking : ExecutionSteps(x) \/ CallFails(x)
    BY <1>0, <1>3 DEF ExecutionGoesOn, ExecutionCallFails
  <2>2. PulseInv' /\ beating' = {}
    BY <1>0, <1>3, <2>1, PulseStutters
    DEF ExecutionGoesOn, ExecutionCallFails, pVars, pMemory
  <2>3. ScheduleInv'
    BY <1>0, <2>1, ExecutionKeeps
  <2> QED  BY <2>2, <2>3
<1>4. CASE BeatGoesOn
  <2>1. PICK b \in beating \cup manual : BeatSteps(b)
    BY <1>4 DEF BeatGoesOn
  <2>2. ScheduleInv' /\ ticking' = ticking
    BY <1>0, <1>4, ScheduleStutters DEF BeatGoesOn, sVars, sMemory
  <2>3. PulseInv'
    BY <1>0, <2>1, BeatKeeps
  <2> QED  BY <1>0, <2>1, <2>2, <2>3, NoOtherBeat
<1>5. CASE BeatFails
  <2>1. PICK b \in beating : ReschedulePulseFails(b)
    BY <1>5 DEF BeatFails
  <2>2. ScheduleInv' /\ ticking' = {}
    BY <1>0, <1>5, <2>1, ScheduleStutters DEF BeatFails, sVars, sMemory
  <2>3. PulseInv'
    BY <1>0, <2>1, BeatFailsKeeps
  <2> QED  BY <2>2, <2>3
<1>6. CASE ClockTicks
  <2>1. CASE ClockSteps /\ UNCHANGED pVars
    <3>1. ticking' = ticking /\ beating' = beating
      BY <1>0, <2>1, NoOtherClaim DEF pVars, pMemory
    <3> QED  BY <1>0, <2>1, <3>1, ClockKeeps, PulseStutters
  <2>2. CASE \E p \in Pulse : PulseTimeComes(p) /\ UNCHANGED sVars
    <3>1. ticking' = ticking /\ beating' = beating
      BY <2>2, NoOtherBeat DEF sVars, sMemory
    <3> QED  BY <1>0, <2>2, <3>1, PulseTimeKeeps, ScheduleStutters
  <2> QED  BY <1>6, <2>1, <2>2 DEF ClockTicks
<1>7. CASE Owners
  <2>1. CASE OwnerActs /\ UNCHANGED pVars
    <3>1. ticking' = ticking /\ beating' = beating
      BY <1>0, <2>1, NoOtherClaim DEF pVars, pMemory
    <3> QED  BY <1>0, <2>1, <3>1, OwnersKeep, PulseStutters
  <2>2. CASE /\ Act /\ PulseOwnerActs(acts + 1)
             /\ UNCHANGED <<sRows, sMemory, sHistory>>
    <3>1. /\ UNCHANGED <<schedules, due, ticking, triggered, edits, serving, finished,
                         lost, revived>>
          /\ acts' \in Nat /\ acts + 1 \in Nat \ {0}
      BY <1>0, <2>2 DEF Act, sRows, sMemory, sHistory
    <3>2. ScheduleInv'
      BY <1>0, <3>1, ScheduleInvSame DEF ScheduleInv, ScheduleTypeOK
    <3>3. PulseInv' /\ beating' = beating
      BY <1>0, <2>2, <3>1, PulseOwnersKeep, NoOtherBeat
    <3> QED  BY <1>0, <3>1, <3>2, <3>3
  <2> QED  BY <1>7, <2>1, <2>2 DEF Owners
<1>8. CASE Crash
  <2>1. acts' \in Nat
    BY <1>0, <1>8 DEF Crash, Act
  <2> QED  BY <1>0, <1>8, <2>1, DropKeeps, DropBeatsKeeps, NoOtherBeat DEF Crash
<1>9. CASE Restart
  <2>1. ticking' = ticking /\ beating' = beating
    BY <1>0, <1>9, NoOtherClaim, NoOtherBeat DEF Restart
  <2> QED  BY <1>0, <1>9, <2>1, RecoverKeeps, RecoverJobsKeeps DEF Restart
<1>10. CASE UNCHANGED vars
  <2>1. UNCHANGED sVars /\ UNCHANGED pVars /\ ticking' = ticking /\ beating' = beating
    BY <1>10 DEF vars, sVars, pVars, sMemory, pMemory
  <2> QED  BY <1>0, <2>1, ScheduleStutters, PulseStutters
<1> QED
  BY <1>1, <1>2, <1>3, <1>4, <1>5, <1>6, <1>7, <1>8, <1>9, <1>10 DEF Next

-----------------------------------------------------------------------------
(* Job runs                                                                *)

Beats == beating \cup manual

LEMMA Continued ==
    ASSUME PulseInv, NEW b \in Beats, NEW next, Continues(b, next)
    PROVE  /\ Beats' = (Beats \ {b}) \cup next
           /\ b \notin beating /\ next = {} => beating' = beating
           /\ b \in beating => beating' = (beating \ {b}) \cup next
           /\ b \notin beating => beating' = beating
<1>1. beating \cap manual = {}
  BY DEF PulseInv, ManualApart
<1> QED  BY <1>1 DEF Continues, Beats

LEMMA MarkRunEffect ==
    ASSUME jobRuns \in Seq(JobRun), NEW i \in DOMAIN jobRuns, NEW status \in JobRunStatus,
           MarkRun(i, status)
    PROVE  /\ DOMAIN jobRuns' = DOMAIN jobRuns
           /\ \A j \in DOMAIN jobRuns : j # i => jobRuns'[j] = jobRuns[j]
           /\ jobRuns'[i].status \in {status, "gone"}
  BY DEF MarkRun, JobRun

(* A step that leaves the beats and what they noted alone, and starts no   *)
(* run, keeps the runs in order.                                           *)
LEMMA JobsInvSame ==
    ASSUME JobsInv, UNCHANGED <<beating, manual, unaudited>>,
           DOMAIN jobRuns' = DOMAIN jobRuns,
           \A i \in DOMAIN jobRuns :
              jobRuns'[i].status = "running" => jobRuns[i].status = "running",
           serving' => serving \/ \A i \in DOMAIN jobRuns : jobRuns'[i].status # "running"
    PROVE  JobsInv'
  BY DEF JobsInv, RunsApart, RunSettled, RunningJobsRun

(* An execution that is not queued yet has no run of its own.              *)
LEMMA NewBeatKeepsJobs ==
    ASSUME JobsInv, NEW b, b.run = 0, b.phase = "queue",
           Beats' = Beats \cup {b}, beating' \subseteq beating \cup {b},
           UNCHANGED <<jobRuns, unaudited, serving>>
    PROVE  JobsInv'
<1>1. RunsApart'
  BY DEF JobsInv, RunsApart, Beats
<1>2. RunSettled'
  BY DEF JobsInv, RunSettled
<1>3. RunningJobsRun'
  BY DEF JobsInv, RunningJobsRun, Beats
<1> QED  BY <1>1, <1>2, <1>3 DEF JobsInv

(* Once rescheduled, an execution leaves a settled run behind.             *)
LEMMA RescheduledKeepsJobs ==
    ASSUME PulseInv, JobsInv, NEW b \in Beats, b.phase = "reschedule",
           Continues(b, {}), UNCHANGED <<jobRuns, unaudited, serving>>
    PROVE  JobsInv'
<1>1. b \in beating
  BY DEF PulseInv, ManualApart, Beats
<1>2. Beats' = Beats \ {b} /\ beating' \subseteq beating
  BY Continued
<1>3. jobRuns[b.run].status # "running" \/ b.run \in unaudited
  BY <1>1 DEF JobsInv, RunSettled
<1>4. RunsApart' /\ RunSettled'
  BY <1>2 DEF JobsInv, RunsApart, RunSettled, Beats
<1>5. RunningJobsRun'
  BY <1>2, <1>3 DEF JobsInv, RunningJobsRun, Beats
<1> QED  BY <1>4, <1>5 DEF JobsInv

LEMMA BeatKeepsJobs ==
    ASSUME PulseInv, JobsInv, UNCHANGED serving, NEW b \in Beats, BeatSteps(b)
    PROVE  JobsInv'
<1>0. /\ b \in Beat /\ jobRuns \in Seq(JobRun) /\ Len(jobRuns) \in Nat
      /\ DOMAIN jobRuns = 1 .. Len(jobRuns)
      /\ \A c \in Beats : c.run \in Nat
  BY DEF Beats, Beat, PulseInv, PulseTypeOK, JobRun
<1>1. CASE Queue(b)
  <2>1. CASE Exists(b.pulse)
    <3> DEFINE n == Len(jobRuns) + 1
               c == [b EXCEPT !.phase = "queued", !.run = n]
    <3>1. c.run = n /\ c.phase = "queued"
      BY <1>0 DEF Beat
    <3>2. Continues(b, {c}) /\ b.phase = "queue" /\ unaudited' = unaudited
      BY <1>1, <2>1 DEF Queue, pHistory
    <3>3. /\ DOMAIN jobRuns' = DOMAIN jobRuns \cup {n}
          /\ n \notin DOMAIN jobRuns /\ n # 0 /\ 0 \notin DOMAIN jobRuns
          /\ \A j \in DOMAIN jobRuns : jobRuns'[j] = jobRuns[j]
          /\ jobRuns'[n].status = "queued"
      BY <1>0, <1>1, <2>1, AppendProperties DEF Queue
    <3> HIDE DEF n, c
    <3>4. Beats' = (Beats \ {b}) \cup {c} /\ beating' \subseteq (beating \ {b}) \cup {c}
      BY <3>2, Continued
    <3>5. RunsApart'
      BY <3>1, <3>3, <3>4 DEF JobsInv, RunsApart, Beats
    <3>6. RunSettled'
      <4> SUFFICES ASSUME NEW d \in beating', d.phase = "reschedule"
                   PROVE  jobRuns'[d.run].status # "running" \/ d.run \in unaudited'
        BY DEF RunSettled
      <4>1. d \in beating
        BY <3>1, <3>4
      <4>2. d.run \in DOMAIN jobRuns
        BY <4>1 DEF JobsInv, RunsApart
      <4> QED  BY <3>2, <3>3, <4>1, <4>2 DEF JobsInv, RunSettled
    <3>7. RunningJobsRun'
      <4> SUFFICES ASSUME serving, NEW i \in DOMAIN jobRuns', jobRuns'[i].status = "running"
                   PROVE  i \in unaudited' \/ \E d \in Beats' : d.run = i
        BY DEF RunningJobsRun, Beats
      <4>1. i \in DOMAIN jobRuns /\ jobRuns[i].status = "running" /\ i # 0
        BY <3>3
      <4>2. CASE i \in unaudited
        BY <3>2, <4>2
      <4>3. CASE \E d \in Beats : d.run = i
        <5>1. PICK d \in Beats : d.run = i
          BY <4>3
        <5>2. d # b
          BY <3>2, <4>1, <5>1 DEF JobsInv, RunsApart, Beats
        <5> QED  BY <3>4, <5>1, <5>2
      <4> QED  BY <4>1, <4>2, <4>3 DEF JobsInv, RunningJobsRun, Beats
    <3> QED  BY <3>5, <3>6, <3>7 DEF JobsInv
  <2>2. CASE ~Exists(b.pulse)
    <3>1. /\ Continues(b, {}) /\ b.phase = "queue"
          /\ UNCHANGED <<jobRuns, unaudited>>
      BY <1>1, <2>2 DEF Queue, pHistory
    <3>2. Beats' = Beats \ {b} /\ beating' \subseteq beating
      BY <3>1, Continued
    <3>3. b.run = 0 /\ 0 \notin DOMAIN jobRuns
      BY <1>0, <3>1 DEF JobsInv, RunsApart, Beats
    <3>4. RunsApart' /\ RunSettled'
      BY <3>1, <3>2 DEF JobsInv, RunsApart, RunSettled, Beats
    <3>5. RunningJobsRun'
      BY <3>1, <3>2, <3>3 DEF JobsInv, RunningJobsRun, Beats
    <3> QED  BY <3>4, <3>5 DEF JobsInv
  <2> QED  BY <2>1, <2>2
<1>2. CASE BeginJob(b)
  <2> DEFINE c == [b EXCEPT !.phase = "turn"]
  <2>1. c.run = b.run /\ c.phase = "turn"
    BY <1>0 DEF Beat
  <2>2. /\ Continues(b, {c}) /\ b.phase = "queued" /\ unaudited' = unaudited
        /\ MarkRun(b.run, "running")
    BY <1>2 DEF BeginJob, pHistory
  <2> HIDE DEF c
  <2>3. b.run \in DOMAIN jobRuns /\ b.run # 0
    BY <1>0, <2>2 DEF JobsInv, RunsApart, Beats
  <2>4. /\ DOMAIN jobRuns' = DOMAIN jobRuns
        /\ \A j \in DOMAIN jobRuns : j # b.run => jobRuns'[j] = jobRuns[j]
    BY <1>0, <2>2, <2>3, MarkRunEffect DEF JobRunStatus
  <2>5. Beats' = (Beats \ {b}) \cup {c} /\ beating' \subseteq (beating \ {b}) \cup {c}
    BY <2>2, Continued
  <2>6. RunsApart'
    BY <2>1, <2>2, <2>3, <2>4, <2>5 DEF JobsInv, RunsApart, Beats
  <2>7. RunSettled'
    <3> SUFFICES ASSUME NEW d \in beating', d.phase = "reschedule"
                 PROVE  jobRuns'[d.run].status # "running" \/ d.run \in unaudited'
      BY DEF RunSettled
    <3>1. d \in beating /\ d # b
      BY <2>1, <2>5
    <3>2. d.run \in DOMAIN jobRuns /\ d.run # b.run
      BY <2>3, <3>1 DEF JobsInv, RunsApart, Beats
    <3> QED  BY <2>2, <2>4, <3>1, <3>2 DEF JobsInv, RunSettled
  <2>8. RunningJobsRun'
    BY <2>1, <2>2, <2>4, <2>5 DEF JobsInv, RunningJobsRun, Beats
  <2> QED  BY <2>6, <2>7, <2>8 DEF JobsInv
<1>3. ASSUME NEW ok \in BOOLEAN, NEW audited \in BOOLEAN, Turn(b, ok, audited)
      PROVE  JobsInv'
  <2>1. b.run \in DOMAIN jobRuns /\ b.run # 0
    BY <1>0, <1>3 DEF Turn, JobsInv, RunsApart, Beats
  <2>2. /\ DOMAIN jobRuns' = DOMAIN jobRuns
        /\ \A j \in DOMAIN jobRuns : j # b.run => jobRuns'[j] = jobRuns[j]
        /\ jobRuns'[b.run].status # "running" \/ b.run \in unaudited'
        /\ unaudited \subseteq unaudited'
    <3>1. CASE audited
      <4>1. MarkRun(b.run, IF ok THEN "succeeded" ELSE "failed") /\ unaudited' = unaudited
        BY <1>3, <3>1 DEF Turn
      <4>2. (IF ok THEN "succeeded" ELSE "failed") \in JobRunStatus \ {"running", "gone"}
        BY DEF JobRunStatus
      <4> QED  BY <1>0, <2>1, <4>1, <4>2, MarkRunEffect
    <3>2. CASE ~audited
      BY <1>3, <3>2 DEF Turn
    <3> QED  BY <3>1, <3>2
  <2>3. \A next : Continues(b, next) => Beats' = (Beats \ {b}) \cup next
    BY Continued
  <2>4. CASE b \in beating
    <3> DEFINE c == [b EXCEPT !.phase = "reschedule", !.ok = ok]
    <3>1. c.run = b.run /\ c.phase = "reschedule"
      BY <1>0 DEF Beat
    <3>2. Continues(b, {c})
      BY <1>3, <2>4 DEF Turn
    <3> HIDE DEF c
    <3>3. Beats' = (Beats \ {b}) \cup {c} /\ beating' = (beating \ {b}) \cup {c}
      BY <2>4, <3>2, Continued
    <3>4. RunsApart'
      BY <1>3, <2>1, <2>2, <3>1, <3>3 DEF Turn, JobsInv, RunsApart, Beats
    <3>5. RunSettled'
      <4> SUFFICES ASSUME NEW d \in beating', d.phase = "reschedule"
                   PROVE  jobRuns'[d.run].status # "running" \/ d.run \in unaudited'
        BY DEF RunSettled
      <4>1. CASE d = c
        BY <2>2, <3>1, <4>1
      <4>2. CASE d # c
        <5>1. d \in beating /\ d # b
          BY <3>3, <4>2
        <5>2. d.run \in DOMAIN jobRuns /\ d.run # b.run
          BY <2>1, <2>4, <5>1 DEF JobsInv, RunsApart, Beats
        <5> QED  BY <2>2, <5>1, <5>2 DEF JobsInv, RunSettled
      <4> QED  BY <4>1, <4>2
    <3>6. RunningJobsRun'
      BY <2>2, <3>1, <3>3 DEF JobsInv, RunningJobsRun, Beats
    <3> QED  BY <3>4, <3>5, <3>6 DEF JobsInv
  <2>5. CASE b \notin beating
    <3>1. Continues(b, {})
      BY <1>3, <2>5 DEF Turn
    <3>2. Beats' = Beats \ {b} /\ beating' = beating
      BY <2>5, <3>1, Continued
    <3>3. RunsApart'
      BY <2>2, <3>2 DEF JobsInv, RunsApart, Beats
    <3>4. RunSettled'
      <4> SUFFICES ASSUME NEW d \in beating, d.phase = "reschedule"
                   PROVE  jobRuns'[d.run].status # "running" \/ d.run \in unaudited'
        BY <3>2 DEF RunSettled
      <4>1. d.run \in DOMAIN jobRuns /\ d.run # b.run
        BY <2>1, <2>5 DEF JobsInv, RunsApart, Beats
      <4> QED  BY <2>2, <4>1 DEF JobsInv, RunSettled
    <3>5. RunningJobsRun'
      BY <2>2, <3>2 DEF JobsInv, RunningJobsRun, Beats
    <3> QED  BY <3>3, <3>4, <3>5 DEF JobsInv
  <2> QED  BY <2>4, <2>5
<1>4. CASE ReschedulePulse(b)
  <2>1. /\ Continues(b, {}) /\ b.phase = "reschedule"
        /\ UNCHANGED <<jobRuns, unaudited>>
    BY <1>4 DEF ReschedulePulse, pHistory
  <2> QED  BY <2>1, RescheduledKeepsJobs
<1> QED  BY <1>1, <1>2, <1>3, <1>4 DEF BeatSteps

LEMMA OwnersKeepJobs ==
    ASSUME PulseInv, JobsInv, UNCHANGED serving, NEW nr, PulseOwnerActs(nr)
    PROVE  JobsInv'
<1>1. ASSUME NEW p \in Pulse, NEW status \in PulseStatus, SetStatus(p, status)
      PROVE  JobsInv'
  BY <1>1, JobsInvSame DEF SetStatus, pMemory
<1>2. ASSUME NEW p \in Pulse, SetTime(p)  PROVE JobsInv'
  BY <1>2, JobsInvSame DEF SetTime, pMemory, pHistory
<1>3. ASSUME NEW p \in Pulse, DeletePulse(p)  PROVE JobsInv'
  <2>1. /\ DOMAIN jobRuns' = DOMAIN jobRuns
        /\ \A i \in DOMAIN jobRuns :
              jobRuns'[i].status = "running" => jobRuns[i].status = "running"
    <3>1. jobRuns \in Seq(JobRun)
      BY DEF PulseInv, PulseTypeOK, JobRun
    <3>2. \A i \in DOMAIN jobRuns : [jobRuns[i] EXCEPT !.status = "gone"].status = "gone"
      BY <3>1 DEF JobRun
    <3> QED  BY <1>3, <3>2 DEF DeletePulse
  <2> QED  BY <1>3, <2>1, JobsInvSame DEF DeletePulse, pMemory, pHistory
<1>4. ASSUME NEW p \in Pulse, TriggerPulse(p, nr)  PROVE JobsInv'
  <2> DEFINE b == NewBeat(p, nr)
  <2>1. b.run = 0 /\ b.phase = "queue"
    BY DEF NewBeat
  <2>2. /\ Beats' = Beats \cup {b} /\ beating' = beating
        /\ UNCHANGED <<jobRuns, unaudited>>
    BY <1>4 DEF TriggerPulse, Beats, pRows, pHistory
  <2> HIDE DEF b
  <2> QED  BY <2>1, <2>2, NewBeatKeepsJobs
<1> QED  BY <1>1, <1>2, <1>3, <1>4 DEF PulseOwnerActs

LEMMA NextJobs ==
    ASSUME TimetableInv, JobsInv, [Next]_vars
    PROVE  JobsInv'
<1>0. PulseInv /\ ScheduleInv /\ triggered = {}
  BY TimetableParts DEF ScheduleInv
<1>1. CASE TickPulse
  <2>1. PICK p \in Pulse : ClaimPulse(p)
    BY <1>1 DEF TickPulse
  <2> DEFINE b == NewBeat(p, 0)
  <2>2. b.run = 0 /\ b.phase = "queue"
    BY DEF NewBeat
  <2>3. /\ Beats' = Beats \cup {b} /\ beating' \subseteq beating \cup {b}
        /\ UNCHANGED <<jobRuns, unaudited, serving>>
    BY <1>1, <2>1 DEF TickPulse, ClaimPulse, Beats, pRows, pHistory, sVars, sMemory
  <2> HIDE DEF b
  <2> QED  BY <2>2, <2>3, NewBeatKeepsJobs
<1>2. CASE TickSchedule \/ ExecutionGoesOn \/ ExecutionCallFails
  <2>1. UNCHANGED pVars
    BY <1>2 DEF TickSchedule, ExecutionGoesOn, ExecutionCallFails
  <2>2. serving' = serving
    <3>1. ASSUME NEW s \in Schedule, Claim(s)  PROVE serving' = serving
      BY <3>1 DEF Claim
    <3>2. ASSUME NEW x, ExecutionSteps(x) \/ CallFails(x)  PROVE serving' = serving
      BY <3>2 DEF ExecutionSteps, CallFails, Begin, Prepare, Start, Fail, Reschedule,
                  BeginFails, RescheduleFails
    <3> QED  BY <1>2, <3>1, <3>2 DEF TickSchedule, ExecutionGoesOn, ExecutionCallFails
  <2> QED  BY <2>1, <2>2, JobsInvSame DEF pVars, pRows, pMemory, pHistory
<1>3. CASE BeatGoesOn
  BY <1>0, <1>3, BeatKeepsJobs DEF BeatGoesOn, Beats, sVars, sMemory
<1>4. CASE BeatFails
  <2>1. PICK b \in beating : ReschedulePulseFails(b)
    BY <1>4 DEF BeatFails
  <2>2. /\ b \in Beats /\ b.phase = "reschedule" /\ Continues(b, {})
        /\ UNCHANGED <<jobRuns, unaudited, serving>>
    BY <1>4, <2>1 DEF BeatFails, ReschedulePulseFails, Beats, pRows, sVars, sMemory
  <2> QED  BY <1>0, <2>2, RescheduledKeepsJobs
<1>5. CASE ClockTicks
  <2>1. CASE ClockSteps /\ UNCHANGED pVars
    <3>1. serving' = serving
      BY <2>1 DEF ClockSteps, TimeComes, FiveMinutesPass, sMemory
    <3> QED  BY <2>1, <3>1, JobsInvSame DEF pVars, pRows, pMemory, pHistory
  <2>2. CASE \E p \in Pulse : PulseTimeComes(p) /\ UNCHANGED sVars
    BY <2>2, JobsInvSame DEF PulseTimeComes, pMemory, pHistory, sVars, sMemory
  <2> QED  BY <1>5, <2>1, <2>2 DEF ClockTicks
<1>6. CASE Owners
  <2>1. CASE OwnerActs /\ UNCHANGED pVars
    <3>1. serving' = serving
      BY <2>1 DEF OwnerActs, RemoveSchedule, ReadForEdit, WriteEdit, sMemory
    <3> QED  BY <2>1, <3>1, JobsInvSame DEF pVars, pRows, pMemory, pHistory
  <2>2. CASE /\ Act /\ PulseOwnerActs(acts + 1)
             /\ UNCHANGED <<sRows, sMemory, sHistory>>
    BY <1>0, <2>2, OwnersKeepJobs DEF sMemory
  <2> QED  BY <1>6, <2>1, <2>2 DEF Owners
<1>7. CASE Crash
  <2>1. ~serving' /\ beating' = {} /\ manual' = {}
    BY <1>7 DEF Crash, DropExecutions, DropBeats
  <2> QED  BY <2>1 DEF JobsInv, RunsApart, RunSettled, RunningJobsRun
<1>8. CASE Restart
  <2>1. /\ DOMAIN jobRuns' = DOMAIN jobRuns
        /\ \A i \in DOMAIN jobRuns : jobRuns'[i].status # "running"
        /\ UNCHANGED <<beating, manual, unaudited>>
    <3>1. jobRuns \in Seq(JobRun)
      BY <1>0 DEF PulseInv, PulseTypeOK, JobRun
    <3>2. \A i \in DOMAIN jobRuns :
             [jobRuns[i] EXCEPT !.status = "failed"].status = "failed"
      BY <3>1 DEF JobRun
    <3> QED  BY <1>8, <3>2 DEF Restart, RecoverStuckJobs, pMemory, pHistory
  <2> QED  BY <2>1, JobsInvSame
<1>9. CASE UNCHANGED vars
  <2>1. UNCHANGED <<jobRuns, beating, manual, unaudited, serving>>
    BY <1>9 DEF vars, pVars, pRows, pMemory, pHistory, sVars, sMemory
  <2> QED  BY <2>1, JobsInvSame
<1> QED
  BY <1>1, <1>2, <1>3, <1>4, <1>5, <1>6, <1>7, <1>8, <1>9 DEF Next

(* The tick that claims, executes and reschedules (scheduler/service,      *)
(* tick) keeps the timetable sound whatever owners, failing calls, crashes *)
(* and restarts do meanwhile.                                              *)
THEOREM TimetableIsSound == Spec => []TimetableInv
<1>1. TimetableInv /\ [Next]_vars => TimetableInv'
  BY NextInv
<1> QED  BY InitInv, <1>1, PTL DEF Spec

(* Rows, executions and job runs keep their types.                         *)
THEOREM TimetableTypeCorrect == Spec => []TypeOK
<1>1. TimetableInv => TypeOK
  BY DEF TimetableInv
<1> QED  BY TimetableIsSound, <1>1, PTL

(* "A tick can execute AT MOST ONE runnable's claimed item."               *)
THEOREM TickClaimsOne == Spec => []OneClaim
<1>1. TimetableInv => OneClaim
  BY DEF TimetableInv
<1> QED  BY TimetableIsSound, <1>1, PTL

(* executionCount, computed from the row as it was claimed, is exact.      *)
THEOREM CountsAreExact == Spec => []CountIsExact
<1>1. TimetableInv => CountIsExact
  BY DEF TimetableInv
<1> QED  BY TimetableIsSound, <1>1, PTL

(* Every path out of an execution takes its row out of running, crashes    *)
(* and failed calls excepted.                                              *)
THEOREM RunningRowsAreExecuted == Spec => []RunningIsExecuted
<1>1. TimetableInv => RunningIsExecuted
  BY DEF TimetableInv
<1> QED  BY TimetableIsSound, <1>1, PTL

(* No schedule outruns its cap, an edit that revives it excepted.          *)
THEOREM CapsHold == Spec => []CapHolds
<1>1. TimetableInv => CapHolds
  BY DEF TimetableInv
<1> QED  BY TimetableIsSound, <1>1, PTL

(* A one-shot pulse that succeeded runs again only for a reason: its owner *)
(* reactivated it, or a crash or a failed write hid that it ran.           *)
THEOREM OneShotsRunOnce == Spec => []OneShotOnce
<1>1. TimetableInv => OneShotOnce
  <2> SUFFICES ASSUME TimetableInv, NEW p \in Pulse, pulses[p].oneShot
               PROVE  successes[p] <= 1 + reopened[p]
    BY DEF OneShotOnce
  <2>1. /\ successes[p] \in Nat /\ reopened[p] \in Nat
        /\ successes[p] + (IF MaySucceed(p) THEN 1 ELSE 0) <= 1 + reopened[p]
    BY DEF TimetableInv, TypeOK, PulseTypeOK, NotSpent
  <2>2. CASE MaySucceed(p)
    BY <2>1, <2>2
  <2>3. CASE ~MaySucceed(p)
    BY <2>1, <2>3
  <2> QED  BY <2>2, <2>3
<1> QED  BY TimetableIsSound, <1>1, PTL

(* A job run left in running is that of an execution that goes on: queued  *)
(* runs are told apart, an execution settles its run before it is          *)
(* rescheduled, and the sweep of a start leaves none behind (a failed      *)
(* write of the audit trail excepted).                                     *)
THEOREM RunningJobsAreRun == Spec => []RunningJobsRun
<1>1. Init => JobsInv
  BY DEF Init, PulseInit, JobsInv, RunsApart, RunSettled, RunningJobsRun
<1>2. TimetableInv /\ JobsInv /\ [Next]_vars => JobsInv'
  BY NextJobs
<1>3. JobsInv => RunningJobsRun
  BY DEF JobsInv
<1> QED  BY TimetableIsSound, <1>1, <1>2, <1>3, PTL DEF Spec
=============================================================================
