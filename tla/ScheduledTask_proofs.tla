------------------------ MODULE ScheduledTask_proofs ------------------------
(***************************************************************************)
(* The history of a task's executions is that of its runs, for every graph *)
(* of steps and any number of schedules, triggers and runs.  The engine    *)
(* moves the runs (MovesRuns in WorkflowEngine_proofs); here is what the   *)
(* executor makes of them, whose preparing interferes with the engine, and *)
(* what of the engine survives that.                                       *)
(***************************************************************************)
EXTENDS ScheduledTask, WorkflowEngine_proofs

-----------------------------------------------------------------------------
(* Schedules and executions                                                *)

LEMMA WriteTypes ==
    ASSUME schedules \in [Schedule -> S!ScheduleRow],
           NEW s \in Schedule, NEW row \in S!ScheduleRow, S!Write(s, row)
    PROVE  schedules' \in [Schedule -> S!ScheduleRow]
<1>1. [row EXCEPT !.aged = FALSE] \in S!ScheduleRow
  BY DEF S!ScheduleRow
<1> QED  BY <1>1 DEF S!Write

LEMMA RowTypesKept ==
    ASSUME NEW row \in S!ScheduleRow
    PROVE  /\ \A status \in S!RowStatus : [row EXCEPT !.status = status] \in S!ScheduleRow
           /\ [row EXCEPT !.status = S!Absent] \in S!ScheduleRow
           /\ \A cron \in BOOLEAN : [row EXCEPT !.cron = cron] \in S!ScheduleRow
           /\ \A aged \in BOOLEAN : [row EXCEPT !.aged = aged] \in S!ScheduleRow
           /\ [row EXCEPT !.status = "active", !.aged = FALSE] \in S!ScheduleRow
           /\ \A status \in S!RowStatus, n \in Nat :
                 [row EXCEPT !.status = status, !.count = n] \in S!ScheduleRow
BY DEF S!ScheduleRow, S!RowStatus, S!Absent

(* Executions are told apart by their numbers.                             *)
LEMMA NumbersApart ==
    ASSUME ScheduledTypes, ExecutionsApart
    PROVE  /\ \A x, y \in Executions : x.nr = y.nr => x = y
           /\ \A x \in Executions : x.nr \in 0..acts /\ x.nr \in 0..MaxActs
           /\ \A x \in ticking : x \notin triggered
<1>1. \A x \in ticking : x.nr = 0
  BY DEF ExecutionsApart
<1>2. \A x \in triggered : x.nr \in 1..acts
  BY DEF ExecutionsApart
<1>3. acts \in 0..MaxActs /\ MaxActs \in Nat
  BY TimetableAssumption DEF ScheduledTypes
<1>4. \A x \in Executions : x.nr \in 0..acts /\ x.nr \in 0..MaxActs
  BY <1>1, <1>2, <1>3 DEF Executions
<1>5. \A x \in ticking : \A y \in triggered : x.nr # y.nr
  BY <1>1, <1>2, <1>3
<1> QED  BY <1>4, <1>5 DEF ExecutionsApart, Executions

(* An execution that moves on keeps its number, or is over.                *)
LEMMA ExecutionMoves ==
    ASSUME ScheduledTypes, ExecutionsApart, NEW x \in Executions, NEW Y,
           S!Moves(x, Y), acts' = acts,
           \/ Y = {}
           \/ \E phase \in {"prepare", "start", "reschedule"} :
                 /\ Y = {[x EXCEPT !.phase = phase]}
                 /\ x \in triggered => phase \in {"prepare", "start"}
    PROVE  /\ ticking' \subseteq S!Execution /\ triggered' \subseteq S!Execution
           /\ ExecutionsApart'
           /\ Executions' = (Executions \ {x}) \cup Y
           /\ \A y \in Y : y.nr = x.nr /\ y \in Executions'
           /\ \A phase : Y = {[x EXCEPT !.phase = phase]} => \A y \in Y : y.phase = phase
<1>1. /\ x \in S!Execution
      /\ \A y \in ticking \cup triggered : y \in S!Execution
      /\ x \in ticking => x \notin triggered
  BY NumbersApart DEF ScheduledTypes, Executions
<1>2. /\ ticking' = IF x \in ticking THEN (ticking \ {x}) \cup Y ELSE ticking
      /\ triggered' = IF x \in triggered THEN (triggered \ {x}) \cup Y ELSE triggered
  BY DEF S!Moves
<1>3. \A phase \in {"prepare", "start", "reschedule"} :
         /\ [x EXCEPT !.phase = phase] \in S!Execution
         /\ [x EXCEPT !.phase = phase].nr = x.nr
         /\ [x EXCEPT !.phase = phase].phase = phase
  BY <1>1 DEF S!Execution
<1>4. \A y \in Y : /\ y \in S!Execution /\ y.nr = x.nr
                  /\ \A z \in Y : z = y
                  /\ x \in triggered => y.phase \in {"prepare", "start"}
  BY <1>3
<1>5. ticking' \subseteq S!Execution /\ triggered' \subseteq S!Execution
  BY <1>1, <1>2, <1>4
<1>6. Executions' = (Executions \ {x}) \cup Y
  BY <1>1, <1>2 DEF Executions
<1>7. \A phase : Y = {[x EXCEPT !.phase = phase]} => \A y \in Y : y.phase = phase
  BY <1>1 DEF S!Execution
<1>8. CASE x \in ticking
  <2>1. triggered' = triggered /\ ticking' = (ticking \ {x}) \cup Y
    BY <1>1, <1>2, <1>8
  <2>2. ticking' = Y
    BY <1>8, <2>1 DEF ExecutionsApart
  <2>3. x.nr = 0
    BY <1>8 DEF ExecutionsApart
  <2>4. ExecutionsApart'
    BY <1>4, <2>1, <2>2, <2>3 DEF ExecutionsApart
  <2> QED  BY <1>4, <1>5, <1>6, <1>7, <2>4
<1>9. CASE x \in triggered
  <2>1. ticking' = ticking /\ triggered' = (triggered \ {x}) \cup Y
    BY <1>1, <1>2, <1>9
  <2>2. x.nr \in 1..acts
    BY <1>9 DEF ExecutionsApart
  <2>3. \A y \in triggered \ {x} : y.nr # x.nr
    BY <1>9 DEF ExecutionsApart
  <2>4. ExecutionsApart'
    BY <1>4, <1>9, <2>1, <2>2, <2>3 DEF ExecutionsApart
  <2> QED  BY <1>4, <1>5, <1>6, <1>7, <2>4
<1> QED  BY <1>8, <1>9 DEF Executions

-----------------------------------------------------------------------------
(* History rows                                                            *)

LEMMA RestatedHistory ==
    ASSUME NEW g \in Seq(HistoryStatus), NEW f \in [DOMAIN g -> HistoryStatus]
    PROVE  f \in Seq(HistoryStatus) /\ Len(f) = Len(g) /\ DOMAIN f = DOMAIN g
<1>1. DOMAIN g = 1..Len(g) /\ Len(g) \in Nat
  BY LenProperties
<1>2. f \in Seq(HistoryStatus)
  BY <1>1, SeqDef
<1> QED  BY <1>1, <1>2, LenProperties

LEMMA MarkedHistory ==
    ASSUME history \in Seq(HistoryStatus), NEW h, NEW status \in HistoryStatus
    PROVE  /\ Marked(h, status) \in Seq(HistoryStatus)
           /\ Len(Marked(h, status)) = Len(history)
           /\ DOMAIN Marked(h, status) = DOMAIN history
           /\ \A k \in DOMAIN history : k # h => Marked(h, status)[k] = history[k]
<1>1. \A k \in DOMAIN history : history[k] \in HistoryStatus
  BY ElementOfSeq, LenProperties
<1>2. Marked(h, status) \in [DOMAIN history -> HistoryStatus]
  BY <1>1 DEF Marked
<1>3. \A k \in DOMAIN history : k # h => Marked(h, status)[k] = history[k]
  BY DEF Marked
<1> HIDE DEF Marked
<1> QED  BY <1>2, <1>3, RestatedHistory

(* An execution's new row is nobody else's.                                *)
LEMMA NewRowTypes ==
    ASSUME ScheduledTypes, NEW x, x.nr \in 0..MaxActs, NewRow(x)
    PROVE  /\ history' \in Seq(HistoryStatus) /\ Len(history') = Len(history) + 1
           /\ \A k \in DOMAIN history : history'[k] = history[k]
           /\ DOMAIN history = 1..Len(history) /\ DOMAIN history' = 1..Len(history) + 1
           /\ rowOf' \in [0..MaxActs -> 0..Len(history')]
           /\ rowOf'[x.nr] = Len(history) + 1
           /\ \A n \in 0..MaxActs : n # x.nr => rowOf'[n] = rowOf[n]
<1>1. history \in Seq(HistoryStatus) /\ "planned" \in HistoryStatus
  BY DEF ScheduledTypes, HistoryStatus
<1>2. /\ history' \in Seq(HistoryStatus) /\ Len(history') = Len(history) + 1
      /\ Len(history) \in Nat
      /\ \A k \in 1..Len(history) : history'[k] = history[k]
  BY <1>1, AppendProperties, LenProperties DEF NewRow
<1>3. DOMAIN history = 1..Len(history) /\ DOMAIN history' = 1..Len(history) + 1
  BY <1>1, <1>2, LenProperties
<1>4. /\ rowOf \in [0..MaxActs -> 0..Len(history)]
      /\ rowOf' = [rowOf EXCEPT ![x.nr] = Len(history) + 1]
  BY DEF ScheduledTypes, NewRow
<1>5. \A n \in 0..Len(history) : n \in 0..Len(history')
  BY <1>2
<1>6. Len(history) + 1 \in 0..Len(history')
  BY <1>2
<1> QED  BY <1>2, <1>3, <1>4, <1>5, <1>6

-----------------------------------------------------------------------------
(* Rows of executions and runs                                             *)

LEMMA Distinct ==
    ASSUME NEW T, NEW G, NEW n \in Nat,
           \A x \in T : x.nr = 0, \A x, y \in T : x = y,
           \A x \in G : x.nr \in 1..n, \A x, y \in G : x.nr = y.nr => x = y
    PROVE  \A x, y \in T \cup G : x.nr = y.nr => x = y
<1>1. \A x \in T : \A y \in G : x.nr # y.nr
  OBVIOUS
<1> QED  BY <1>1

(* The engine rests: executions keep their rows, and what is written to    *)
(* the history is in the row of one whose run has not started.             *)
LEMMA EngineRests ==
    ASSUME ScheduledInv, runs' = runs, runHistory' = runHistory, rowOf' = rowOf,
           ScheduledTypes', ExecutionsApart', TaskHasRun',
           DOMAIN history \subseteq DOMAIN history',
           \A k \in DOMAIN history : \/ history'[k] \in {history[k], "gone"}
                                     \/ \A i \in DOMAIN runs : runHistory[i] # k,
           \A z \in Executions' : HasRow(z) =>
              \E y \in Executions : HasRow(y) /\ y.nr = z.nr
    PROVE  ScheduledInv'
<1>1. OneRunning'
  BY DEF ScheduledInv, OneRunning, Running
<1>2. acts' \in Nat
  BY TimetableAssumption DEF ScheduledTypes
<1>3. \A x, y \in Executions' : x.nr = y.nr => x = y
  BY <1>2, Distinct DEF ExecutionsApart, Executions
<1>4. /\ \A x \in Executions : HasRow(x) =>
            /\ RowOf(x) \in DOMAIN history
            /\ \A i \in DOMAIN runs : runHistory[i] # RowOf(x)
            /\ \A y \in Executions : HasRow(y) /\ RowOf(y) = RowOf(x) => y = x
      /\ \A i, j \in DOMAIN runs :
            runHistory[i] = runHistory[j] /\ runHistory[i] # 0 => i = j
  BY DEF ScheduledInv, RowsApart
<1>5. RowsApart'
  <2>1. ASSUME NEW z \in Executions', HasRow(z)
        PROVE  /\ rowOf[z.nr] \in DOMAIN history'
               /\ \A i \in DOMAIN runs : runHistory[i] # rowOf[z.nr]
               /\ \A y \in Executions' : HasRow(y) /\ rowOf[y.nr] = rowOf[z.nr] => y = z
    <3>1. PICK z0 \in Executions : HasRow(z0) /\ z0.nr = z.nr
      BY <2>1
    <3>2. ASSUME NEW y \in Executions', HasRow(y), rowOf[y.nr] = rowOf[z.nr]
          PROVE  y = z
      <4>1. PICK y0 \in Executions : HasRow(y0) /\ y0.nr = y.nr
        BY <3>2
      <4>2. y0 = z0
        BY <1>4, <3>1, <3>2, <4>1 DEF RowOf
      <4> QED  BY <1>3, <3>1, <4>1, <4>2
    <3> QED  BY <1>4, <3>1, <3>2 DEF RowOf
  <2> QED  BY <1>4, <2>1 DEF RowsApart, RowOf, HasRow
<1>6. HistoryMatches'
  <2>1. ASSUME NEW i \in DOMAIN runs, runs[i] # "running", runHistory[i] # 0
        PROVE  history'[runHistory[i]] \in {history[runHistory[i]], "gone"}
    <3>1. runHistory[i] \in 1..Len(history)
      <4>1. runHistory[i] \in 0..Len(history) /\ Len(history) \in Nat
        BY LenProperties DEF ScheduledInv, ScheduledTypes
      <4> QED  BY <2>1, <4>1
    <3>2. runHistory[i] \in DOMAIN history
      BY <3>1, LenProperties DEF ScheduledInv, ScheduledTypes
    <3> QED  BY <3>2
  <2> QED  BY <2>1 DEF HistoryMatches, ScheduledInv
<1> QED  BY <1>1, <1>5, <1>6 DEF ScheduledInv

(* An execution gets its row, which is new.                                *)
LEMMA RowAdded ==
    ASSUME ScheduledInv, runs' = runs, runHistory' = runHistory,
           NEW x, x.nr \in 0..MaxActs, NewRow(x),
           ScheduledTypes', ExecutionsApart', TaskHasRun',
           \A z \in Executions' : HasRow(z) =>
              \/ z.nr = x.nr
              \/ \E y \in Executions : HasRow(y) /\ y.nr = z.nr
    PROVE  ScheduledInv'
<1>1. OneRunning'
  BY DEF ScheduledInv, OneRunning, Running
<1>2. acts' \in Nat /\ acts' \in 0..MaxActs
  BY TimetableAssumption DEF ScheduledTypes
<1>3. /\ \A z, y \in Executions' : z.nr = y.nr => z = y
      /\ \A z \in Executions' : z.nr \in 0..MaxActs
  <2>1. \A z, y \in Executions' : z.nr = y.nr => z = y
    BY <1>2, Distinct DEF ExecutionsApart, Executions
  <2>2. \A z \in Executions' : z.nr \in 0..MaxActs
    BY <1>2, TimetableAssumption DEF ExecutionsApart, Executions
  <2> QED  BY <2>1, <2>2
<1>4. /\ \A z \in Executions : HasRow(z) =>
            /\ RowOf(z) \in DOMAIN history
            /\ \A i \in DOMAIN runs : runHistory[i] # RowOf(z)
            /\ \A y \in Executions : HasRow(y) /\ RowOf(y) = RowOf(z) => y = z
      /\ \A i, j \in DOMAIN runs :
            runHistory[i] = runHistory[j] /\ runHistory[i] # 0 => i = j
  BY DEF ScheduledInv, RowsApart
<1>5. /\ \A k \in DOMAIN history : history'[k] = history[k]
      /\ DOMAIN history = 1..Len(history) /\ DOMAIN history' = 1..Len(history) + 1
      /\ rowOf'[x.nr] = Len(history) + 1
      /\ \A n \in 0..MaxActs : n # x.nr => rowOf'[n] = rowOf[n]
      /\ Len(history) \in Nat
  BY NewRowTypes, LenProperties DEF ScheduledInv, ScheduledTypes
<1>6. \A i \in DOMAIN runs : runHistory[i] \in 0..Len(history)
  BY DEF ScheduledInv, ScheduledTypes
<1>7. ASSUME NEW z \in Executions', HasRow(z), z.nr # x.nr
      PROVE  \E y \in Executions : HasRow(y) /\ y.nr = z.nr /\ rowOf'[z.nr] = RowOf(y)
  BY <1>3, <1>5, <1>7 DEF RowOf
<1>8. RowsApart'
  <2>1. ASSUME NEW z \in Executions', HasRow(z)
        PROVE  /\ rowOf'[z.nr] \in DOMAIN history'
               /\ \A i \in DOMAIN runs : runHistory[i] # rowOf'[z.nr]
    <3>1. CASE z.nr = x.nr
      BY <1>5, <1>6, <3>1
    <3>2. CASE z.nr # x.nr
      <4>1. DOMAIN history \subseteq DOMAIN history'
        BY <1>5
      <4> QED  BY <1>4, <1>7, <2>1, <3>2, <4>1
    <3> QED  BY <3>1, <3>2
  <2>2. ASSUME NEW z \in Executions', HasRow(z), NEW y \in Executions', HasRow(y),
               rowOf'[y.nr] = rowOf'[z.nr]
        PROVE  y = z
    <3>1. \A w \in Executions' : HasRow(w) /\ w.nr # x.nr => rowOf'[w.nr] # rowOf'[x.nr]
      <4>1. \A w \in Executions' : HasRow(w) /\ w.nr # x.nr => rowOf'[w.nr] \in DOMAIN history
        BY <1>4, <1>7
      <4> QED  BY <1>5, <4>1
    <3>2. CASE z.nr = x.nr \/ y.nr = x.nr
      BY <1>3, <2>2, <3>1, <3>2
    <3>3. CASE z.nr # x.nr /\ y.nr # x.nr
      <4>1. PICK z0 \in Executions : HasRow(z0) /\ z0.nr = z.nr /\ rowOf'[z.nr] = RowOf(z0)
        BY <1>7, <2>2, <3>3
      <4>2. PICK y0 \in Executions : HasRow(y0) /\ y0.nr = y.nr /\ rowOf'[y.nr] = RowOf(y0)
        BY <1>7, <2>2, <3>3
      <4>3. y0 = z0
        BY <1>4, <2>2, <4>1, <4>2
      <4> QED  BY <1>3, <4>1, <4>2, <4>3
    <3> QED  BY <3>2, <3>3
  <2> QED  BY <1>4, <2>1, <2>2 DEF RowsApart, RowOf, HasRow
<1>9. HistoryMatches'
  <2>1. ASSUME NEW i \in DOMAIN runs, runHistory[i] # 0
        PROVE  history'[runHistory[i]] = history[runHistory[i]]
    BY <1>5, <1>6, <2>1
  <2> QED  BY <2>1 DEF HistoryMatches, ScheduledInv
<1> QED  BY <1>1, <1>8, <1>9 DEF ScheduledInv

-----------------------------------------------------------------------------
(* The engine moves: a run may begin, with a row or without, be reopened,  *)
(* or end and settle its row.                                              *)

LEMMA CarriedRows ==
    ASSUME ScheduledTypes, MovesRuns, NEW row \in 0..Len(history), RunsCarry(row)
    PROVE  /\ DOMAIN runs \subseteq DOMAIN runs'
           /\ runHistory' \in [DOMAIN runs' -> 0..Len(history)]
           /\ \A i \in DOMAIN runs : runHistory'[i] = runHistory[i]
           /\ \A i \in DOMAIN runs' \ DOMAIN runs :
                 i = Len(runs) + 1 /\ runHistory'[i] = row
<1> DEFINE Row0 == 0..Len(history)
           n == Len(runs)
           m == Len(runs')
<1>1. TypeOK /\ runHistory \in [DOMAIN runs -> Row0] /\ row \in Row0
  BY DEF ScheduledTypes
<1>2. /\ DOMAIN runs = 1..n /\ n \in Nat
      /\ \/ m = n /\ DOMAIN runs' = DOMAIN runs
         \/ m = n + 1 /\ DOMAIN runs' = 1..n + 1
  BY <1>1, RunsLength
<1>3. runHistory' = IF m > n THEN Append(runHistory, row) ELSE runHistory
  BY DEF RunsCarry
<1> HIDE DEF Row0, n, m
<1>4. CASE m = n /\ DOMAIN runs' = DOMAIN runs
  <2>1. ~(m > n)
    BY ONLY <1>2, <1>4
  <2>2. runHistory' = runHistory
    BY <1>3, <2>1
  <2> QED  BY <1>1, <1>4, <2>2 DEF Row0
<1>5. CASE m = n + 1 /\ DOMAIN runs' = 1..n + 1
  <2>1. m > n
    BY ONLY <1>2, <1>5
  <2>2. runHistory' = Append(runHistory, row)
    BY <1>3, <2>1
  <2>3. runHistory \in Seq(Row0) /\ Len(runHistory) = n
    BY <1>1, <1>2, SeqDef, LenProperties
  <2>4. /\ runHistory' \in Seq(Row0)
        /\ Len(runHistory') = n + 1
        /\ \A i \in 1..n : runHistory'[i] = runHistory[i]
        /\ runHistory'[n + 1] = row
    BY <1>1, <2>2, <2>3, AppendProperties
  <2>5. runHistory' \in [1..n + 1 -> Row0]
    BY <2>4, LenProperties, ElementOfSeq
  <2>6. 1..n \subseteq 1..n + 1 /\ \A i \in (1..n + 1) \ (1..n) : i = n + 1
    BY ONLY <1>2
  <2> QED  BY <1>2, <1>5, <2>4, <2>5, <2>6 DEF Row0, n
<1> QED  BY <1>2, <1>4, <1>5

(* The row of a run that ends says how, the others what they were given.   *)
LEMMA SettledRows ==
    ASSUME NEW given, HistoryFollows(given), NEW h \in DOMAIN given,
           \A i, j \in EndedNow : runHistory'[i] = h /\ runHistory'[j] = h => i = j
    PROVE  /\ \A i \in EndedNow :
                 runHistory'[i] = h => history'[h] \in {SettledBy(i), "gone"}
           /\ (\A i \in EndedNow : runHistory'[i] # h) => history'[h] = given[h]
<1>1. history'[h] = IF given[h] # "gone" /\ \E i \in EndedNow : runHistory'[i] = h
                    THEN SettledBy(CHOOSE i \in EndedNow : runHistory'[i] = h)
                    ELSE given[h]
  BY DEF HistoryFollows
<1>2. ASSUME NEW i \in EndedNow, runHistory'[i] = h
      PROVE  history'[h] \in {SettledBy(i), "gone"}
  <2> DEFINE j == CHOOSE j \in EndedNow : runHistory'[j] = h
  <2>1. j \in EndedNow /\ runHistory'[j] = h
    BY <1>2
  <2>2. j = i
    <3> HIDE DEF j
    <3> QED  BY <1>2, <2>1
  <2>3. history'[h] = SettledBy(j) \/ history'[h] = "gone"
    BY <1>1, <1>2
  <2> HIDE DEF j
  <2> QED  BY <2>2, <2>3
<1> QED  BY <1>1, <1>2

LEMMA EngineMoves ==
    ASSUME ScheduledInv, TypeOK', MovesRuns,
           NEW row \in 0..Len(history), RunsCarry(row),
           row # 0 => \A i \in DOMAIN runs : runHistory[i] # row,
           NEW given \in Seq(HistoryStatus), DOMAIN given = DOMAIN history,
           Len(given) = Len(history), HistoryFollows(given),
           \A k \in DOMAIN history : \/ given[k] = history[k]
                                     \/ \A i \in DOMAIN runs : runHistory[i] # k,
           rowOf' = rowOf, acts' = acts,
           schedules' \in [Schedule -> S!ScheduleRow], edits' \subseteq edits,
           ticking' \subseteq S!Execution, triggered' \subseteq S!Execution,
           ExecutionsApart', TaskHasRun',
           \A z \in Executions' : HasRow(z) => z \in Executions /\ RowOf(z) # row
    PROVE  ScheduledInv'
<1>1. /\ ScheduledTypes /\ OneRunning
      /\ runs \in Seq(RunStatus) /\ runs' \in Seq(RunStatus)
      /\ history \in Seq(HistoryStatus)
      /\ DOMAIN history = 1..Len(history) /\ Len(history) \in Nat
  BY LenProperties DEF ScheduledInv, ScheduledTypes, TypeOK
<1>2. OneRunning'
  BY <1>1, OneRunStays
<1>3. /\ DOMAIN runs \subseteq DOMAIN runs'
      /\ runHistory' \in [DOMAIN runs' -> 0..Len(history)]
      /\ \A i \in DOMAIN runs : runHistory'[i] = runHistory[i]
      /\ \A i \in DOMAIN runs' \ DOMAIN runs :
            i = Len(runs) + 1 /\ runHistory'[i] = row
  BY <1>1, CarriedRows
<1>4. history' \in Seq(HistoryStatus) /\ Len(history') = Len(history)
      /\ DOMAIN history' = DOMAIN history
  <2>1. \A k \in DOMAIN given : given[k] \in HistoryStatus
    BY ElementOfSeq, LenProperties
  <2>2. \A i : SettledBy(i) \in HistoryStatus
    BY DEF SettledBy, HistoryStatus
  <2>3. history' \in [DOMAIN given -> HistoryStatus]
    BY <2>1, <2>2 DEF HistoryFollows
  <2> QED  BY <2>3, RestatedHistory
<1>5. ScheduledTypes'
  <2>1. rowOf' \in [0..MaxActs -> 0..Len(history')]
    BY <1>1, <1>4 DEF ScheduledTypes
  <2>2. runHistory' \in [DOMAIN runs' -> 0..Len(history')]
    BY <1>3, <1>4
  <2>3. edits' \subseteq Schedule \X S!Change /\ acts' \in 0..MaxActs
    BY <1>1 DEF ScheduledTypes
  <2> QED  BY <1>4, <2>1, <2>2, <2>3 DEF ScheduledTypes
<1>6. \A i, j \in DOMAIN runs' :
         runHistory'[i] = runHistory'[j] /\ runHistory'[i] # 0 => i = j
  <2>1. \A i, j \in DOMAIN runs :
           runHistory[i] = runHistory[j] /\ runHistory[i] # 0 => i = j
    BY DEF ScheduledInv, RowsApart
  <2> QED  BY <1>3, <2>1
<1>7. RowsApart'
  <2>1. ASSUME NEW z \in Executions', HasRow(z)
        PROVE  /\ RowOf(z) \in DOMAIN history
               /\ \A i \in DOMAIN runs' : runHistory'[i] # RowOf(z)
               /\ \A y \in Executions' : HasRow(y) /\ RowOf(y) = RowOf(z) => y = z
    <3>1. /\ z \in Executions /\ RowOf(z) # row
          /\ \A y \in Executions' : HasRow(y) => y \in Executions
      BY <2>1
    <3>2. /\ RowOf(z) \in DOMAIN history
          /\ \A i \in DOMAIN runs : runHistory[i] # RowOf(z)
          /\ \A y \in Executions : HasRow(y) /\ RowOf(y) = RowOf(z) => y = z
      BY <2>1, <3>1 DEF ScheduledInv, RowsApart
    <3>3. \A i \in DOMAIN runs' : runHistory'[i] # RowOf(z)
      BY <1>3, <3>1, <3>2
    <3> QED  BY <3>1, <3>2, <3>3
  <2>2. \A z : RowOf(z)' = RowOf(z) /\ (HasRow(z)' <=> HasRow(z))
    BY DEF RowOf, HasRow
  <2> QED  BY <1>4, <1>6, <2>1, <2>2 DEF RowsApart
<1>8. HistoryMatches'
  <2> SUFFICES ASSUME NEW i \in DOMAIN runs', runs'[i] # "running", runHistory'[i] # 0
               PROVE  history'[runHistory'[i]] \in
                        {IF runs'[i] = "completed" THEN "completed" ELSE "failed", "gone"}
    BY DEF HistoryMatches
  <2> DEFINE h == runHistory'[i]
  <2>1. h \in DOMAIN given
    BY <1>1, <1>3
  <2>2. \A j, k \in EndedNow : runHistory'[j] = h /\ runHistory'[k] = h => j = k
    BY <1>6 DEF EndedNow
  <2>3. /\ \A j \in EndedNow :
              runHistory'[j] = h => history'[h] \in {SettledBy(j), "gone"}
        /\ (\A j \in EndedNow : runHistory'[j] # h) => history'[h] = given[h]
    <3> HIDE DEF h
    <3> QED  BY <2>1, <2>2, SettledRows
  <2>4. CASE i \in EndedNow
    BY <2>3, <2>4 DEF SettledBy
  <2>5. CASE i \notin EndedNow /\ i \in DOMAIN runs /\ runs'[i] = runs[i]
    <3>1. \A j \in EndedNow : runHistory'[j] # h
      BY <1>6, <2>5 DEF EndedNow
    <3>2. runHistory[i] = h
      BY <1>3, <2>5
    <3>3. history'[h] = history[h]
      BY <2>1, <2>3, <2>5, <3>1, <3>2
    <3>4. history[h] \in {IF runs[i] = "completed" THEN "completed" ELSE "failed", "gone"}
      BY <2>5, <3>2 DEF ScheduledInv, HistoryMatches
    <3> QED  BY <2>5, <3>3, <3>4
  <2>6. i \in EndedNow \/ (i \notin EndedNow /\ i \in DOMAIN runs /\ runs'[i] = runs[i])
    BY <1>1, EachRun DEF ScheduledTypes
  <2> QED  BY <2>4, <2>5, <2>6
<1> QED  BY <1>2, <1>5, <1>7, <1>8 DEF ScheduledInv

(* What the engine makes of the task: if it is in progress, a run goes, or *)
(* it was before and nothing happened to the runs.                         *)
LEMMA TaskMoves ==
    ASSUME TypeOK, MovesRuns, taskStatus' = "in_progress"
    PROVE  IsRunning(runs') \/ (taskStatus = "in_progress" /\ runs' = runs)
<1>0. runs \in Seq(RunStatus) /\ Len(runs) \in Nat /\ DOMAIN runs = 1 .. Len(runs)
  BY LenProperties DEF TypeOK
<1>1. CASE RunsStay
  BY <1>1 DEF RunsStay
<1>2. CASE NewRun
  <2>1. runs' = Append(runs, "running")
    BY <1>2 DEF NewRun
  <2>2. Len(runs) + 1 \in Running(runs')
    BY <1>0, <2>1 DEF Running
  <2> QED  BY <2>2 DEF IsRunning
<1>3. CASE OldRun
  <2>1. runs' = [runs EXCEPT ![Len(runs)] = "running"] /\ runs # <<>>
    BY <1>3 DEF OldRun
  <2>2. Len(runs) \in DOMAIN runs
    <3>1. Len(runs) # 0
      BY <1>0, <2>1, EmptySeq
    <3> QED  BY <1>0, <3>1
  <2>3. Len(runs) \in Running(runs')
    BY <2>1, <2>2 DEF Running
  <2> QED  BY <2>3 DEF IsRunning
<1>4. ~RunEnds
  BY DEF RunEnds
<1> QED  BY <1>1, <1>2, <1>3, <1>4 DEF MovesRuns

-----------------------------------------------------------------------------
(* The initial state, and the steps that leave the engine alone            *)

LEMMA InitScheduled == ScheduledInit => ScheduledInv
<1> SUFFICES ASSUME ScheduledInit  PROVE ScheduledInv
  OBVIOUS
<1> USE TimetableAssumption
<1>1. TypeOK /\ runs = <<>> /\ taskStatus = "todo"
  BY InitTypeOK DEF ScheduledInit, Init
<1>2. schedules \in [Schedule -> S!ScheduleRow]
  BY DEF ScheduledInit, S!ScheduleInit, S!ScheduleRow, S!RowStatus
<1>3. ticking = {} /\ triggered = {} /\ edits = {} /\ acts = 0
  BY DEF ScheduledInit, S!ScheduleInit
<1>4. /\ history = <<>> /\ runHistory = <<>>
      /\ rowOf = [n \in 0..MaxActs |-> 0]
  BY DEF ScheduledInit
<1>5. history \in Seq(HistoryStatus) /\ Len(history) = 0
  BY <1>4, EmptySeq
<1>6. runHistory \in [DOMAIN runs -> 0..Len(history)] /\ DOMAIN runs = {}
  <2>1. DOMAIN runs = {} /\ DOMAIN runHistory = {} /\ runHistory = [i \in {} |-> 0]
    BY <1>1, <1>4
  <2> QED  BY <2>1
<1>7. ScheduledTypes
  BY <1>1, <1>2, <1>3, <1>4, <1>5, <1>6 DEF ScheduledTypes
<1>8. OneRunning
  BY <1>6 DEF OneRunning, Running
<1>9. ExecutionsApart /\ RowsApart /\ HistoryMatches /\ TaskHasRun
  BY <1>1, <1>3, <1>6 DEF ExecutionsApart, RowsApart, HistoryMatches, TaskHasRun, Executions
<1> QED  BY <1>7, <1>8, <1>9 DEF ScheduledInv

LEMMA TaskStays ==
    ASSUME TaskHasRun, runs' = runs,
           taskStatus' = "in_progress" => taskStatus = "in_progress",
           stranded => stranded',
           \/ IsRunning(runs)
           \/ stranded'
           \/ \A x \in Executions : x.phase = "start" => x \in Executions'
    PROVE  TaskHasRun'
BY DEF TaskHasRun

(* No run moves, and no row is added.                                      *)
LEMMA ScheduleMoves ==
    ASSUME ScheduledInv, TypeOK', runs' = runs, runHistory' = runHistory, rowOf' = rowOf,
           history' \in Seq(HistoryStatus), DOMAIN history' = DOMAIN history,
           Len(history') = Len(history),
           \A k \in DOMAIN history : \/ history'[k] \in {history[k], "gone"}
                                     \/ \A i \in DOMAIN runs : runHistory[i] # k,
           schedules' \in [Schedule -> S!ScheduleRow],
           edits' \subseteq Schedule \X S!Change, acts' \in 0..MaxActs,
           ticking' \subseteq S!Execution, triggered' \subseteq S!Execution,
           ExecutionsApart', TaskHasRun',
           \A z \in Executions' : HasRow(z) =>
              \E y \in Executions : HasRow(y) /\ y.nr = z.nr
    PROVE  ScheduledInv'
<1>1. ScheduledTypes'
  BY DEF ScheduledInv, ScheduledTypes
<1> QED  BY <1>1, EngineRests

(* What the engine's types rest on does not change with the timetable.     *)
LEMMA EngineAlone ==
    ASSUME ScheduledInv, UNCHANGED vars
    PROVE  TypeOK' /\ runs' = runs /\ taskStatus' = taskStatus
BY DEF ScheduledInv, ScheduledTypes, TypeOK, vars, database, memory

LEMMA TickKept ==
    ASSUME ScheduledInv, Tick
    PROVE  ScheduledInv'
<1>1. /\ UNCHANGED <<vars, history, rowOf, runHistory, stranded>>
      /\ ticking = {}
  BY DEF Tick, records
<1>2. PICK s \in Schedule : S!Claim(s)
  BY DEF Tick
<1>3. /\ schedules \in [Schedule -> S!ScheduleRow]
      /\ schedules[s] \in S!ScheduleRow
      /\ history \in Seq(HistoryStatus)
      /\ ticking \subseteq S!Execution /\ triggered \subseteq S!Execution
      /\ edits \subseteq Schedule \X S!Change /\ acts \in 0..MaxActs
  BY DEF ScheduledInv, ScheduledTypes
<1>4. schedules' \in [Schedule -> S!ScheduleRow]
  <2>1. [schedules[s] EXCEPT !.status = "running"] \in S!ScheduleRow
    BY <1>3, RowTypesKept DEF S!RowStatus
  <2> QED  BY <1>2, <1>3, <2>1, WriteTypes DEF S!Claim
<1>5. S!Claimed(s) \in S!Execution /\ S!Claimed(s).nr = 0 /\ S!Claimed(s).phase = "begin"
  BY <1>3 DEF S!Claimed, S!Execution, S!ScheduleRow
<1>6. /\ ticking' = {S!Claimed(s)} /\ triggered' = triggered
      /\ edits' = edits /\ acts' = acts
  BY <1>1, <1>2 DEF S!Claim
<1>7. ticking' \subseteq S!Execution
  BY <1>5, <1>6
<1>8. ExecutionsApart'
  BY <1>5, <1>6 DEF ScheduledInv, ExecutionsApart
<1>9. /\ \A z \in Executions' : HasRow(z) => z \in Executions
      /\ \A z \in Executions : z \in Executions'
  BY <1>1, <1>5, <1>6 DEF Executions, HasRow
<1>10. TaskHasRun'
  BY <1>1, <1>9, EngineAlone, TaskStays DEF ScheduledInv
<1> QED  BY <1>1, <1>3, <1>4, <1>6, <1>7, <1>8, <1>9, <1>10, EngineAlone, ScheduleMoves

LEMMA TriggerKept ==
    ASSUME ScheduledInv, NEW s \in Schedule, TriggerNow(s)
    PROVE  ScheduledInv'
<1> DEFINE e == [S!Claimed(s) EXCEPT !.phase = "prepare", !.nr = acts + 1]
           x == [nr |-> acts + 1]
<1>1. UNCHANGED <<vars, runHistory, stranded>> /\ NewRow(x)
  BY DEF TriggerNow
<1>2. /\ schedules \in [Schedule -> S!ScheduleRow]
      /\ schedules[s] \in S!ScheduleRow
      /\ ticking \subseteq S!Execution /\ triggered \subseteq S!Execution
      /\ acts \in 0..MaxActs /\ MaxActs \in Nat
      /\ ScheduledTypes
  BY TimetableAssumption DEF ScheduledInv, ScheduledTypes
<1>3. /\ acts < MaxActs /\ acts' = acts + 1
      /\ triggered' = triggered \cup {e}
      /\ UNCHANGED <<schedules, ticking, edits>>
  BY DEF TriggerNow, S!TriggerNow, S!Act
<1>4. acts \in Nat /\ acts + 1 \in 1..MaxActs /\ x.nr = acts + 1
  BY <1>2, <1>3
<1>5. e \in S!Execution /\ e.nr = acts + 1 /\ e.phase = "prepare"
  <2>1. schedules[s].count \in Nat /\ schedules[s].cron \in BOOLEAN
    BY <1>2 DEF S!ScheduleRow
  <2>2. S!Claimed(s) \in S!Execution
    BY <2>1 DEF S!Claimed, S!Execution
  <2>3. \A c \in S!Execution, n \in Nat :
           /\ [c EXCEPT !.phase = "prepare", !.nr = n] \in S!Execution
           /\ [c EXCEPT !.phase = "prepare", !.nr = n].nr = n
           /\ [c EXCEPT !.phase = "prepare", !.nr = n].phase = "prepare"
    BY DEF S!Execution
  <2>4. PICK c \in S!Execution : c = S!Claimed(s)
    BY <2>2
  <2>5. e = [c EXCEPT !.phase = "prepare", !.nr = acts + 1] /\ acts + 1 \in Nat
    BY <1>4, <2>4
  <2> HIDE DEF e
  <2> QED  BY <2>3, <2>5
<1> HIDE DEF e, x
<1>6. triggered' \subseteq S!Execution
  BY <1>2, <1>3, <1>5
<1>7. ExecutionsApart'
  <2>1. \A y \in triggered : y.nr \in 1..acts /\ y.phase \in {"prepare", "start"}
    BY DEF ScheduledInv, ExecutionsApart
  <2>2. \A y \in triggered : y.nr \in 1..acts + 1 /\ y.nr # acts + 1
    BY <1>4, <2>1
  <2>3. acts + 1 \in 1..acts + 1
    BY <1>4
  <2> QED  BY <1>3, <1>5, <2>1, <2>2, <2>3 DEF ScheduledInv, ExecutionsApart
<1>8. /\ \A z \in Executions' : z = e \/ z \in Executions
      /\ \A z \in Executions : z \in Executions'
  BY <1>3 DEF Executions
<1>9. TaskHasRun'
  BY <1>1, <1>8, EngineAlone, TaskStays DEF ScheduledInv
<1>10. x.nr \in 0..MaxActs
  BY <1>4
<1>11. ScheduledTypes'
  <2>1. /\ history' \in Seq(HistoryStatus) /\ Len(history') = Len(history) + 1
        /\ rowOf' \in [0..MaxActs -> 0..Len(history')]
    BY <1>1, <1>2, <1>10, NewRowTypes
  <2>2. runHistory' \in [DOMAIN runs' -> 0..Len(history')]
    <3>1. /\ runHistory \in [DOMAIN runs -> 0..Len(history)]
          /\ Len(history) \in Nat
      BY <1>2, LenProperties DEF ScheduledTypes
    <3>2. 0..Len(history) \subseteq 0..Len(history')
      BY <2>1, <3>1
    <3> QED  BY <1>1, <3>1, <3>2, EngineAlone
  <2>3. acts' \in 0..MaxActs /\ edits' \subseteq Schedule \X S!Change
    BY <1>2, <1>3, <1>4 DEF ScheduledTypes
  <2> QED  BY <1>1, <1>2, <1>3, <1>6, <2>1, <2>2, <2>3, EngineAlone DEF ScheduledTypes
<1>12. \A z \in Executions' : HasRow(z) =>
          \/ z.nr = x.nr
          \/ \E y \in Executions : HasRow(y) /\ y.nr = z.nr
  BY <1>4, <1>5, <1>8
<1> QED  BY <1>1, <1>7, <1>9, <1>10, <1>11, <1>12, EngineAlone, RowAdded

-----------------------------------------------------------------------------
(* The executor                                                            *)

LEMMA BeginKept ==
    ASSUME ScheduledInv, NEW x \in Executions, Begin(x)
    PROVE  ScheduledInv'
<1> DEFINE Y == IF S!Present(x.schedule) THEN {[x EXCEPT !.phase = "prepare"]} ELSE {}
<1>1. /\ UNCHANGED <<vars, runHistory, stranded, schedules, edits, acts>>
      /\ S!Moves(x, Y) /\ x.phase = "begin"
  BY DEF Begin, S!Begin, S!sRows
<1>2. ScheduledTypes /\ ExecutionsApart /\ TaskHasRun
  BY DEF ScheduledInv
<1>3. Y = {} \/ Y = {[x EXCEPT !.phase = "prepare"]}
  OBVIOUS
<1>4. S!Present(x.schedule) => NewRow(x)
  BY DEF Begin
<1>5. ~S!Present(x.schedule) => Y = {} /\ UNCHANGED <<history, rowOf>>
  BY DEF Begin
<1> HIDE DEF Y
<1>6. /\ ticking' \subseteq S!Execution /\ triggered' \subseteq S!Execution
      /\ ExecutionsApart'
      /\ Executions' = (Executions \ {x}) \cup Y
      /\ \A y \in Y : y.nr = x.nr /\ y \in Executions'
  BY <1>1, <1>2, <1>3, ExecutionMoves
<1>7. TaskHasRun'
  BY <1>1, <1>2, <1>6, EngineAlone, TaskStays
<1>8. CASE ~S!Present(x.schedule)
  <2>1. \A z \in Executions' : HasRow(z) => z \in Executions
    BY <1>5, <1>6, <1>8
  <2>2. /\ schedules' \in [Schedule -> S!ScheduleRow]
        /\ edits' \subseteq Schedule \X S!Change /\ acts' \in 0..MaxActs
        /\ history' \in Seq(HistoryStatus)
    BY <1>1, <1>2, <1>5, <1>8 DEF ScheduledTypes
  <2> QED  BY <1>1, <1>5, <1>6, <1>7, <1>8, <2>1, <2>2, EngineAlone, ScheduleMoves
<1>9. CASE S!Present(x.schedule)
  <2>1. x.nr \in 0..MaxActs
    BY <1>2, NumbersApart
  <2>2. /\ history' \in Seq(HistoryStatus) /\ Len(history') = Len(history) + 1
        /\ rowOf' \in [0..MaxActs -> 0..Len(history')]
    BY <1>2, <1>4, <1>9, <2>1, NewRowTypes
  <2>3. runHistory' \in [DOMAIN runs' -> 0..Len(history')]
    <3>1. /\ runHistory \in [DOMAIN runs -> 0..Len(history)]
          /\ Len(history) \in Nat
      BY <1>2, LenProperties DEF ScheduledTypes
    <3>2. 0..Len(history) \subseteq 0..Len(history')
      BY <2>2, <3>1
    <3> QED  BY <1>1, <3>1, <3>2, EngineAlone
  <2>4. ScheduledTypes'
    BY <1>1, <1>2, <1>6, <2>2, <2>3, EngineAlone DEF ScheduledTypes
  <2>5. \A z \in Executions' : HasRow(z) =>
           \/ z.nr = x.nr
           \/ \E y \in Executions : HasRow(y) /\ y.nr = z.nr
    BY <1>6
  <2> QED  BY <1>1, <1>4, <1>6, <1>7, <1>9, <2>1, <2>4, <2>5, EngineAlone, RowAdded
<1> QED  BY <1>8, <1>9

(* An execution that has a row moves on, or is over, and marks its row.    *)
LEMMA MarkKept ==
    ASSUME ScheduledInv, NEW x \in Executions, HasRow(x), NEW Y, S!Moves(x, Y),
           \/ Y = {}
           \/ Y = {[x EXCEPT !.phase = "start"]}
           \/ x \in ticking /\ Y = {[x EXCEPT !.phase = "reschedule"]},
           NEW status \in HistoryStatus, history' = Marked(RowOf(x), status),
           UNCHANGED <<schedules, edits, acts, runs, rowOf, runHistory>>,
           TypeOK', TaskHasRun'
    PROVE  ScheduledInv'
<1>1. ScheduledTypes /\ ExecutionsApart /\ history \in Seq(HistoryStatus)
  BY DEF ScheduledInv, ScheduledTypes
<1>2. x \in ticking => x \notin triggered
  BY <1>1, NumbersApart
<1>3. /\ ticking' \subseteq S!Execution /\ triggered' \subseteq S!Execution
      /\ ExecutionsApart'
      /\ Executions' = (Executions \ {x}) \cup Y
      /\ \A y \in Y : y.nr = x.nr
  BY <1>1, <1>2, ExecutionMoves
<1>4. /\ history' \in Seq(HistoryStatus) /\ Len(history') = Len(history)
      /\ DOMAIN history' = DOMAIN history
      /\ \A k \in DOMAIN history : k # RowOf(x) => history'[k] = history[k]
  BY <1>1, MarkedHistory
<1>5. \A i \in DOMAIN runs : runHistory[i] # RowOf(x)
  BY DEF ScheduledInv, RowsApart
<1>6. \A k \in DOMAIN history : \/ history'[k] \in {history[k], "gone"}
                                \/ \A i \in DOMAIN runs : runHistory[i] # k
  BY <1>4, <1>5
<1>7. \A z \in Executions' : HasRow(z) => \E y \in Executions : HasRow(y) /\ y.nr = z.nr
  BY <1>3
<1>8. /\ schedules' \in [Schedule -> S!ScheduleRow]
      /\ edits' \subseteq Schedule \X S!Change /\ acts' \in 0..MaxActs
  BY <1>1 DEF ScheduledTypes
<1> QED  BY <1>3, <1>4, <1>6, <1>7, <1>8, ScheduleMoves

(* What follows execute takes an execution out of the start phase.         *)
LEMMA AfterExecuteIs ==
    ASSUME ScheduledInv, NEW x \in Executions
    PROVE  /\ \/ S!AfterExecute(x) = {}
              \/ x \in ticking /\ S!AfterExecute(x) = {[x EXCEPT !.phase = "reschedule"]}
           /\ \A y \in S!AfterExecute(x) : y.phase = "reschedule"
<1>1. x \in S!Execution
  BY DEF ScheduledInv, ScheduledTypes, Executions
<1>2. [x EXCEPT !.phase = "reschedule"].phase = "reschedule"
  BY <1>1 DEF S!Execution
<1> QED  BY <1>2 DEF S!AfterExecute

(* Resetting the steps leaves the engine's state well formed.              *)
LEMMA ResetTypes ==
    ASSUME TypeOK, UNCHANGED <<runs, memory, attempts, ops>>,
           subtasks' \in {subtasks, Resetting(subtasks, Step)}, taskStatus' \in TaskStatus
    PROVE  TypeOK'
<1>1. subtasks \in [Step -> Row]
  BY DEF TypeOK
<1>2. subtasks' \in [Step -> Row]
  BY <1>1, RowsTypes
<1> QED  BY <1>2 DEF TypeOK, memory

LEMMA PrepareKept ==
    ASSUME ScheduledInv, NEW x \in Executions, Prepare(x)
    PROVE  ScheduledInv'
<1> DEFINE y == [x EXCEPT !.phase = "start"]
<1>1. /\ S!Moves(x, {y}) /\ x.phase = "prepare"
      /\ UNCHANGED <<schedules, edits, acts, runs, memory, attempts, ops,
                     rowOf, runHistory, stranded>>
      /\ subtasks' = Resetting(subtasks, Step) /\ taskStatus' = "in_progress"
      /\ history' = Marked(RowOf(x), "executing")
  BY DEF Prepare, S!Prepare, S!sRows
<1>2. TypeOK /\ ScheduledTypes /\ ExecutionsApart
  BY DEF ScheduledInv, ScheduledTypes
<1>3. TypeOK'
  BY <1>1, <1>2, ResetTypes DEF TaskStatus
<1>4. y \in Executions' /\ y.phase = "start"
  <2>1. x \in S!Execution
    BY <1>2 DEF ScheduledTypes, Executions
  <2>2. y.phase = "start"
    BY <2>1 DEF S!Execution
  <2> HIDE DEF y
  <2>3. y \in Executions'
    BY <1>1 DEF S!Moves, Executions
  <2> QED  BY <2>2, <2>3
<1>5. TaskHasRun'
  BY <1>4 DEF TaskHasRun
<1>6. HasRow(x) /\ "executing" \in HistoryStatus
  BY <1>1 DEF HasRow, HistoryStatus
<1> QED  BY <1>1, <1>3, <1>5, <1>6, MarkKept

LEMMA PrepareFailsKept ==
    ASSUME ScheduledInv, NEW x \in Executions, PrepareFails(x)
    PROVE  ScheduledInv'
<1>1. /\ S!Moves(x, S!AfterExecute(x)) /\ x.phase = "prepare"
      /\ UNCHANGED <<schedules, edits, acts, runs, memory, attempts, ops,
                     rowOf, runHistory>>
      /\ subtasks' \in {subtasks, Resetting(subtasks, Step)}
      /\ taskStatus' \in {taskStatus, "todo", "in_progress"}
      /\ history' = Marked(RowOf(x), "failed") /\ stranded' = TRUE
  BY DEF PrepareFails, S!Fail, S!sRows
<1>2. TypeOK /\ taskStatus \in TaskStatus
  BY DEF ScheduledInv, ScheduledTypes, TypeOK
<1>3. TypeOK'
  BY <1>1, <1>2, ResetTypes DEF TaskStatus
<1>4. TaskHasRun'
  BY <1>1 DEF TaskHasRun
<1>5. HasRow(x) /\ "failed" \in HistoryStatus
  BY <1>1 DEF HasRow, HistoryStatus
<1> QED  BY <1>1, <1>3, <1>4, <1>5, AfterExecuteIs, MarkKept

LEMMA RefusedKept ==
    ASSUME ScheduledInv, NEW x \in Executions, Refused(x)
    PROVE  ScheduledInv'
<1>1. /\ S!Moves(x, S!AfterExecute(x)) /\ x.phase = "start" /\ IsRunning(runs)
      /\ UNCHANGED <<schedules, edits, acts, vars, rowOf, runHistory, stranded>>
      /\ history' = Marked(RowOf(x), "failed")
  BY DEF Refused, S!Fail, S!sRows
<1>2. TypeOK' /\ runs' = runs /\ taskStatus' = taskStatus
  BY <1>1, EngineAlone
<1>3. TaskHasRun'
  BY <1>1, <1>2, TaskStays DEF ScheduledInv
<1>4. HasRow(x) /\ "failed" \in HistoryStatus
  BY <1>1 DEF HasRow, HistoryStatus
<1> QED  BY <1>1, <1>2, <1>3, <1>4, AfterExecuteIs, MarkKept

LEMMA GraphRefusedKept ==
    ASSUME ScheduledInv, NEW x \in Executions, GraphRefused(x)
    PROVE  ScheduledInv'
<1>1. /\ S!Moves(x, S!AfterExecute(x)) /\ x.phase = "start" /\ stranded'
      /\ UNCHANGED <<schedules, edits, acts, vars, rowOf, runHistory>>
      /\ history' = Marked(RowOf(x), "failed")
  BY DEF GraphRefused, S!Fail, S!sRows
<1>2. TypeOK' /\ runs' = runs
  BY <1>1, EngineAlone
<1>3. TaskHasRun'
  BY <1>1 DEF TaskHasRun
<1>4. HasRow(x) /\ "failed" \in HistoryStatus
  BY <1>1 DEF HasRow, HistoryStatus
<1> QED  BY <1>1, <1>2, <1>3, <1>4, AfterExecuteIs, MarkKept

LEMMA RescheduleKept ==
    ASSUME ScheduledInv, NEW x \in Executions, Reschedule(x)
    PROVE  ScheduledInv'
<1> DEFINE s == x.schedule
           row == [schedules[s] EXCEPT
                     !.status = IF S!Terminal(x) THEN "expired" ELSE "active",
                     !.count = x.count + 1]
<1>1. /\ S!Moves(x, {}) /\ x.phase = "reschedule" /\ S!Write(s, row)
      /\ UNCHANGED <<edits, acts, vars, history, rowOf, runHistory, stranded>>
  BY DEF Reschedule, S!Reschedule, records
<1>2. TypeOK' /\ runs' = runs /\ taskStatus' = taskStatus
  BY <1>1, EngineAlone
<1>3. /\ ScheduledTypes /\ ExecutionsApart /\ TaskHasRun
      /\ schedules \in [Schedule -> S!ScheduleRow] /\ history \in Seq(HistoryStatus)
  BY DEF ScheduledInv, ScheduledTypes
<1>4. x \in S!Execution /\ s \in Schedule /\ x.count + 1 \in Nat
  BY DEF ScheduledInv, ScheduledTypes, Executions, S!Execution
<1>5. row \in S!ScheduleRow
  <2>1. \A status \in S!RowStatus, n \in Nat :
           [schedules[s] EXCEPT !.status = status, !.count = n] \in S!ScheduleRow
    BY <1>3, <1>4, RowTypesKept
  <2>2. (IF S!Terminal(x) THEN "expired" ELSE "active") \in S!RowStatus
    BY DEF S!RowStatus
  <2> QED  BY <1>4, <2>1, <2>2
<1> HIDE DEF row
<1>6. schedules' \in [Schedule -> S!ScheduleRow]
  BY <1>1, <1>3, <1>4, <1>5, WriteTypes
<1>7. /\ ticking' \subseteq S!Execution /\ triggered' \subseteq S!Execution
      /\ ExecutionsApart'
      /\ Executions' = Executions \ {x}
  <2>1. Executions' = (Executions \ {x}) \cup {}
    BY <1>1, <1>3, ExecutionMoves
  <2> QED  BY <1>1, <1>3, <2>1, ExecutionMoves
<1>8. TaskHasRun'
  BY <1>1, <1>2, <1>3, <1>7, TaskStays
<1>9. \A z \in Executions' : HasRow(z) => z \in Executions
  BY <1>7
<1>10. edits' \subseteq Schedule \X S!Change /\ acts' \in 0..MaxActs
  BY <1>1, <1>3 DEF ScheduledTypes
<1> QED  BY <1>1, <1>2, <1>3, <1>6, <1>7, <1>8, <1>9, <1>10, ScheduleMoves

LEMMA StartKept ==
    ASSUME ScheduledInv, NEW x \in Executions, Start(x)
    PROVE  ScheduledInv'
<1> DEFINE row == RowOf(x)
           given == IF StartThrew THEN Marked(row, "failed") ELSE history
           Y == S!AfterExecute(x)
<1>1. /\ S!Moves(x, Y) /\ x.phase = "start" /\ RunStarts(FALSE)
      /\ RunsCarry(row) /\ HistoryFollows(given)
      /\ UNCHANGED <<schedules, edits, acts, ops, rowOf>>
  BY DEF Start, S!Start, S!sRows
<1>2. /\ TypeOK /\ ScheduledTypes /\ ExecutionsApart
      /\ runs \in Seq(RunStatus) /\ history \in Seq(HistoryStatus) /\ ops \in Nat
      /\ Len(runs) \in Nat /\ DOMAIN runs = 1 .. Len(runs)
      /\ schedules \in [Schedule -> S!ScheduleRow]
  BY LenProperties DEF ScheduledInv, ScheduledTypes, TypeOK
<1>3. NewRun /\ MovesRuns /\ TypeOK'
  BY <1>1, <1>2, RunStartsMoves, RunStartsTypeOK DEF MovesRuns
<1>4. HasRow(x)
  BY <1>1 DEF HasRow
<1>5. /\ row \in DOMAIN history
      /\ \A i \in DOMAIN runs : runHistory[i] # row
      /\ \A y \in Executions : HasRow(y) /\ RowOf(y) = row => y = x
  BY <1>4 DEF ScheduledInv, RowsApart
<1>6. row \in 0..Len(history)
  <2>1. x.nr \in 0..MaxActs
    BY <1>2, NumbersApart
  <2> QED  BY <1>2, <2>1 DEF RowOf, ScheduledTypes
<1>7. /\ given \in Seq(HistoryStatus) /\ DOMAIN given = DOMAIN history
      /\ Len(given) = Len(history)
      /\ \A k \in DOMAIN history : k # row => given[k] = history[k]
  BY <1>2, MarkedHistory DEF HistoryStatus
<1> HIDE DEF row, given, Y
<1>8. \A k \in DOMAIN history : \/ given[k] = history[k]
                                \/ \A i \in DOMAIN runs : runHistory[i] # k
  BY <1>5, <1>7
<1>9. /\ \/ Y = {}
         \/ x \in ticking /\ Y = {[x EXCEPT !.phase = "reschedule"]}
      /\ \A y \in Y : y.phase = "reschedule"
  BY AfterExecuteIs DEF Y
<1>10. /\ ticking' \subseteq S!Execution /\ triggered' \subseteq S!Execution
       /\ ExecutionsApart'
       /\ Executions' = (Executions \ {x}) \cup Y
  <2>1. x \in ticking => x \notin triggered
    BY <1>2, NumbersApart
  <2> QED  BY <1>1, <1>2, <1>9, <2>1, ExecutionMoves
<1>11. \A z \in Executions' : HasRow(z) => z \in Executions /\ RowOf(z) # row
  <2>1. \A y \in Y : ~HasRow(y)
    BY <1>9 DEF HasRow
  <2> QED  BY <1>5, <1>10, <2>1
<1>12. TaskHasRun'
  <2>1. ASSUME taskStatus' = "in_progress"  PROVE IsRunning(runs')
    <3>1. runs' = Append(runs, "running")
      BY <1>3, <2>1 DEF NewRun
    <3>2. Len(runs) + 1 \in Running(runs')
      BY <1>2, <3>1 DEF Running
    <3> QED  BY <3>2 DEF IsRunning
  <2> QED  BY <2>1 DEF TaskHasRun
<1> QED  BY <1>1, <1>2, <1>3, <1>5, <1>6, <1>7, <1>8, <1>10, <1>11, <1>12, EngineMoves

LEMMA ExecutorKept == ScheduledInv /\ ExecutionGoesOn => ScheduledInv'
BY BeginKept, PrepareKept, StartKept, GraphRefusedKept, RefusedKept, RescheduleKept
   DEF ExecutionGoesOn

-----------------------------------------------------------------------------
(* The engine, its restart, the owners and the clock                       *)

(* The engine moves on by itself: new runs have no history row.            *)
LEMMA EngineByItself ==
    ASSUME ScheduledInv, Next, RunsCarry(0), HistoryFollows(history), RunMends,
           UNCHANGED <<ticking, triggered, edits, acts, rowOf>>,
           schedules' \in [Schedule -> S!ScheduleRow]
    PROVE  ScheduledInv'
<1>1. /\ TypeOK /\ OneRunning /\ ExecutionsApart /\ ScheduledTypes
      /\ history \in Seq(HistoryStatus) /\ Len(history) \in Nat
      /\ ticking \subseteq S!Execution /\ triggered \subseteq S!Execution
  BY LenProperties DEF ScheduledInv, ScheduledTypes
<1>2. TypeOK' /\ MovesRuns
  BY <1>1, NextTypeOK, RunsMove
<1>3. ExecutionsApart' /\ Executions' = Executions
  BY <1>1 DEF ExecutionsApart, Executions
<1>4. \A z \in Executions' : HasRow(z) => z \in Executions /\ RowOf(z) # 0
  <2>1. \A z \in Executions : HasRow(z) => RowOf(z) \in DOMAIN history
    BY DEF ScheduledInv, RowsApart
  <2>2. DOMAIN history = 1..Len(history)
    BY <1>1, LenProperties
  <2> QED  BY <1>1, <1>3, <2>1, <2>2
<1>5. TaskHasRun'
  <2>1. ASSUME taskStatus' = "in_progress", ~IsRunning(runs')
        PROVE  (\E x \in Executions' : x.phase = "start") \/ stranded'
    <3>1. taskStatus = "in_progress" /\ runs' = runs
      BY <1>1, <1>2, <2>1, TaskMoves
    <3>2. Len(runs') = Len(runs) /\ Len(runs) \in Nat
      BY <1>1, <3>1, LenProperties DEF TypeOK
    <3>3. stranded' = stranded
      <4>1. ~(Len(runs') > Len(runs))
        BY <3>2
      <4> QED  BY <4>1 DEF RunMends
    <3>4. ~IsRunning(runs) /\ TaskHasRun
      BY <2>1, <3>1 DEF ScheduledInv
    <3> QED  BY <1>3, <3>1, <3>3, <3>4 DEF TaskHasRun
  <2> QED  BY <2>1 DEF TaskHasRun
<1>6. 0 \in 0..Len(history)
  BY <1>1
<1> QED  BY <1>1, <1>2, <1>3, <1>4, <1>5, <1>6, EngineMoves

LEMMA EngineKept == ScheduledInv /\ EngineGoesOn => ScheduledInv'
<1> SUFFICES ASSUME ScheduledInv, EngineGoesOn  PROVE ScheduledInv'
  OBVIOUS
<1>1. /\ Next /\ RunsCarry(0) /\ HistoryFollows(history) /\ RunMends
      /\ UNCHANGED <<schedules, ticking, triggered, edits, acts, rowOf>>
  BY DEF EngineGoesOn, timetable
<1>2. schedules' \in [Schedule -> S!ScheduleRow]
  BY <1>1 DEF ScheduledInv, ScheduledTypes
<1> QED  BY <1>1, <1>2, EngineByItself

LEMMA RestartKept == ScheduledInv /\ Restart => ScheduledInv'
<1> SUFFICES ASSUME ScheduledInv, Restart  PROVE ScheduledInv'
  OBVIOUS
<1>1. /\ Recover /\ RunsCarry(0) /\ HistoryFollows(history) /\ RunMends
      /\ UNCHANGED <<ticking, triggered, edits, acts, rowOf>>
  BY DEF Restart, S!RecoverStuck
<1>2. schedules' \in [Schedule -> S!ScheduleRow]
  <2>1. schedules \in [Schedule -> S!ScheduleRow]
    BY DEF ScheduledInv, ScheduledTypes
  <2>2. \A s \in Schedule :
           [schedules[s] EXCEPT !.status = "active", !.aged = FALSE] \in S!ScheduleRow
    BY <2>1, RowTypesKept
  <2> QED  BY <2>1, <2>2 DEF Restart, S!RecoverStuck
<1>3. Next
  BY <1>1 DEF Next, StepsNext
<1> QED  BY <1>1, <1>2, <1>3, EngineByItself

LEMMA CrashKept == ScheduledInv /\ CrashAll => ScheduledInv'
<1> SUFFICES ASSUME ScheduledInv, CrashAll  PROVE ScheduledInv'
  OBVIOUS
<1>1. /\ Crash /\ UNCHANGED <<acts, history, rowOf, runHistory, schedules>>
      /\ ticking' = {} /\ triggered' = {} /\ edits' = {}
      /\ stranded' = (stranded \/ \E x \in Executions : x.phase = "start")
  BY DEF CrashAll, S!DropExecutions, records, S!sRows
<1>2. /\ TypeOK /\ history \in Seq(HistoryStatus)
      /\ schedules \in [Schedule -> S!ScheduleRow] /\ acts \in 0..MaxActs
  BY DEF ScheduledInv, ScheduledTypes
<1>3. runs' = runs /\ taskStatus' = taskStatus
  BY <1>1 DEF Crash, database
<1>4. TypeOK'
  <2>1. Next
    BY <1>1 DEF Next, StepsNext
  <2> QED  BY <1>2, <2>1, NextTypeOK
<1>5. ExecutionsApart' /\ Executions' = {}
  BY <1>1 DEF ExecutionsApart, Executions
<1>6. TaskHasRun'
  BY <1>1, <1>3 DEF ScheduledInv, TaskHasRun
<1>7. /\ ticking' \subseteq S!Execution /\ triggered' \subseteq S!Execution
      /\ edits' \subseteq Schedule \X S!Change
  BY <1>1
<1> QED  BY <1>1, <1>2, <1>3, <1>4, <1>5, <1>6, <1>7, ScheduleMoves

LEMMA OwnersKept == ScheduledInv /\ OwnerActs => ScheduledInv'
<1> SUFFICES ASSUME ScheduledInv, OwnerActs  PROVE ScheduledInv'
  OBVIOUS
<1>1. S!OwnerActs /\ UNCHANGED <<vars, rowOf, runHistory, stranded>>
  BY DEF OwnerActs
<1>2. /\ ExecutionsApart /\ TaskHasRun /\ history \in Seq(HistoryStatus)
      /\ schedules \in [Schedule -> S!ScheduleRow]
      /\ ticking \subseteq S!Execution /\ triggered \subseteq S!Execution
      /\ edits \subseteq Schedule \X S!Change
      /\ acts \in 0..MaxActs /\ MaxActs \in Nat /\ acts \in Nat
  BY TimetableAssumption DEF ScheduledInv, ScheduledTypes
<1>3. S!Act => acts' = acts + 1 /\ acts' \in 0..MaxActs
  BY <1>2 DEF S!Act
<1> DEFINE Typed == /\ schedules' \in [Schedule -> S!ScheduleRow]
                    /\ edits' \subseteq Schedule \X S!Change
                    /\ acts' \in {acts, acts + 1} /\ acts' \in 0..MaxActs
                    /\ UNCHANGED <<ticking, triggered>>
<1>4. Typed
  <2>1. ASSUME NEW s \in Schedule, S!RemoveSchedule(s)
        PROVE  Typed
    <3>1. [schedules[s] EXCEPT !.status = S!Absent] \in S!ScheduleRow
      BY <1>2, RowTypesKept
    <3>2. schedules' \in [Schedule -> S!ScheduleRow]
      BY <1>2, <2>1, <3>1 DEF S!RemoveSchedule
    <3> QED  BY <1>2, <1>3, <2>1, <3>2 DEF S!RemoveSchedule, S!sMemory
  <2>2. ASSUME NEW s \in Schedule, NEW change \in S!Change, S!ReadForEdit(s, change)
        PROVE  Typed
    BY <1>2, <1>3, <2>2 DEF S!ReadForEdit, S!sRows
  <2>3. ASSUME NEW e \in edits, S!WriteEdit(e[1], e[2])
        PROVE  Typed
    <3> DEFINE s == e[1]
               row == CASE e[2] = "pause"  -> [schedules[s] EXCEPT !.status = "paused"]
                        [] e[2] = "resume" -> [schedules[s] EXCEPT !.status = "active"]
                        [] OTHER -> [schedules[s] EXCEPT !.cron = (e[2] = "recron")]
    <3>1. s \in Schedule /\ schedules[s] \in S!ScheduleRow
      BY <1>2
    <3>2. row \in S!ScheduleRow
      <4>1. /\ [schedules[s] EXCEPT !.status = "paused"] \in S!ScheduleRow
            /\ [schedules[s] EXCEPT !.status = "active"] \in S!ScheduleRow
            /\ \A cron \in BOOLEAN : [schedules[s] EXCEPT !.cron = cron] \in S!ScheduleRow
        BY <3>1, RowTypesKept DEF S!RowStatus
      <4>2. (e[2] = "recron") \in BOOLEAN
        OBVIOUS
      <4> QED  BY <4>1, <4>2
    <3>3. S!Write(s, row) /\ UNCHANGED <<ticking, triggered, acts>> /\ edits' \subseteq edits
      BY <2>3 DEF S!WriteEdit
    <3> HIDE DEF s, row
    <3>4. schedules' \in [Schedule -> S!ScheduleRow]
      BY <1>2, <3>1, <3>2, <3>3, WriteTypes
    <3> QED  BY <1>2, <3>3, <3>4
  <2> QED  BY <1>1, <2>1, <2>2, <2>3 DEF S!OwnerActs
<1>5. /\ \A h \in DOMAIN history : history'[h] \in {history[h], "gone"}
      /\ history' \in Seq(HistoryStatus) /\ Len(history') = Len(history)
      /\ DOMAIN history' = DOMAIN history
  <2> DEFINE gone == \A s \in Schedule : schedules'[s].status = S!Absent
  <2>1. \A h \in DOMAIN history : history[h] \in HistoryStatus
    BY <1>2, ElementOfSeq, LenProperties
  <2>2. history' = [h \in DOMAIN history |-> IF gone THEN "gone" ELSE history[h]]
    BY DEF OwnerActs
  <2> HIDE DEF gone
  <2>3. history' \in [DOMAIN history -> HistoryStatus]
    BY <2>1, <2>2 DEF HistoryStatus
  <2> QED  BY <1>2, <2>2, <2>3, RestatedHistory
<1>6. ExecutionsApart' /\ Executions' = Executions
  <2>1. 1..acts \subseteq 1..acts'
    BY <1>2, <1>4
  <2> QED  BY <1>2, <1>4, <2>1 DEF ExecutionsApart, Executions
<1>7. TypeOK' /\ runs' = runs /\ taskStatus' = taskStatus
  BY <1>1, EngineAlone
<1>8. TaskHasRun'
  BY <1>1, <1>2, <1>6, <1>7, TaskStays
<1>9. ticking' \subseteq S!Execution /\ triggered' \subseteq S!Execution
  BY <1>2, <1>4
<1> QED  BY <1>1, <1>4, <1>5, <1>6, <1>7, <1>8, <1>9, ScheduleMoves

LEMMA ClockKept == ScheduledInv /\ ClockTicks => ScheduledInv'
<1> SUFFICES ASSUME ScheduledInv, ClockTicks  PROVE ScheduledInv'
  OBVIOUS
<1>1. UNCHANGED <<vars, history, rowOf, runHistory, stranded>>
  BY DEF ClockTicks, records
<1>2. PICK s \in Schedule : S!TimeComes(s) \/ S!FiveMinutesPass(s)
  BY DEF ClockTicks, S!ClockSteps
<1>3. /\ ExecutionsApart /\ TaskHasRun /\ history \in Seq(HistoryStatus)
      /\ schedules \in [Schedule -> S!ScheduleRow]
      /\ ticking \subseteq S!Execution /\ triggered \subseteq S!Execution
      /\ edits \subseteq Schedule \X S!Change /\ acts \in 0..MaxActs
  BY DEF ScheduledInv, ScheduledTypes
<1>4. [schedules[s] EXCEPT !.aged = TRUE] \in S!ScheduleRow
  BY <1>3, RowTypesKept
<1>5. /\ schedules' \in [Schedule -> S!ScheduleRow]
      /\ UNCHANGED <<ticking, triggered, edits, acts>>
  BY <1>2, <1>3, <1>4 DEF S!TimeComes, S!FiveMinutesPass, S!sMemory
<1>6. TypeOK' /\ runs' = runs /\ taskStatus' = taskStatus
  BY <1>1, EngineAlone
<1>7. ExecutionsApart' /\ Executions' = Executions
  BY <1>3, <1>5 DEF ExecutionsApart, Executions
<1>8. TaskHasRun'
  BY <1>1, <1>3, <1>6, <1>7, TaskStays
<1> QED  BY <1>1, <1>3, <1>5, <1>6, <1>7, <1>8, ScheduleMoves

-----------------------------------------------------------------------------
(* The theorems                                                            *)

LEMMA NextScheduled == ScheduledInv /\ [ScheduledNext]_taskVars => ScheduledInv'
<1> SUFFICES ASSUME ScheduledInv, [ScheduledNext]_taskVars  PROVE ScheduledInv'
  OBVIOUS
<1>1. CASE UNCHANGED taskVars
  <2>1. /\ UNCHANGED <<vars, schedules, ticking, triggered, edits, acts, history, rowOf,
                       runHistory, stranded>>
    BY <1>1 DEF taskVars, timetable, records
  <2>2. TypeOK' /\ runs' = runs /\ taskStatus' = taskStatus
    BY <2>1, EngineAlone
  <2>3. ExecutionsApart' /\ Executions' = Executions
    BY <2>1 DEF ScheduledInv, ExecutionsApart, Executions
  <2>4. TaskHasRun'
    BY <2>1, <2>2, <2>3, TaskStays DEF ScheduledInv
  <2> QED  BY <2>1, <2>2, <2>3, <2>4, ScheduleMoves DEF ScheduledInv, ScheduledTypes
<1>2. CASE ScheduledNext
  BY <1>2, TickKept, TriggerKept, ExecutorKept, PrepareFailsKept, EngineKept, OwnersKept,
     ClockKept, CrashKept, RestartKept DEF ScheduledNext
<1> QED  BY <1>1, <1>2

(* However executions, people, retries, crashes and the engine interleave, *)
(* rows belong to one execution or one run, and the task's state is known. *)
THEOREM ScheduledTaskIsSound == ScheduledSpec => []ScheduledInv
BY InitScheduled, NextScheduled, PTL DEF ScheduledSpec

(* The row of a run that is over says how it ended: executions of the task *)
(* that prepare, start or are refused meanwhile write other rows.          *)
THEOREM HistoryTellsTheRun == ScheduledSpec => []HistoryMatches
<1>1. ScheduledInv => HistoryMatches
  BY DEF ScheduledInv
<1> QED  BY <1>1, ScheduledTaskIsSound, PTL

(* A task in progress has a run, or an execution about to ask for one:     *)
(* only an execution that an error or a crash cut short, or whose graph    *)
(* startRun refused, leaves it without, until the next run is created.     *)
THEOREM InProgressHasRun == ScheduledSpec => []TaskHasRun
<1>1. ScheduledInv => TaskHasRun
  BY DEF ScheduledInv
<1> QED  BY <1>1, ScheduledTaskIsSound, PTL

-----------------------------------------------------------------------------
(* The engine under the executor: preparing takes the steps of a run away  *)
(* that is going, and with them the work of that run (RunHasWork); nothing *)
(* else that is proved of the engine alone is lost.                        *)

StepsPrepared ==
    /\ subtasks' \in {subtasks, Resetting(subtasks, Step)}
    /\ taskStatus' \in TaskStatus
    /\ UNCHANGED <<runs, memory, attempts, ops>>

LEMMA EngineStep ==
    ASSUME TypeOK, [ScheduledNext]_taskVars
    PROVE  \/ [Next]_vars
           \/ RunStarts(FALSE) /\ ops' = ops
           \/ /\ StepsPrepared
              /\ \E x \in Executions : Prepare(x) \/ PrepareFails(x)
<1>0. {taskStatus, "todo", "in_progress"} \subseteq TaskStatus
  BY DEF TypeOK, TaskStatus
<1>1. ASSUME \/ Tick \/ OwnerActs \/ ClockTicks
             \/ \E s \in Schedule : TriggerNow(s)
             \/ \E x \in Executions : Begin(x) \/ Reschedule(x)
             \/ \E x \in Executions : GraphRefused(x) \/ Refused(x)
      PROVE  UNCHANGED vars
  BY <1>1 DEF Tick, OwnerActs, ClockTicks, TriggerNow, Begin, GraphRefused, Refused,
              Reschedule
<1>2. ASSUME NEW x \in Executions, Prepare(x)  PROVE StepsPrepared
  BY <1>0, <1>2 DEF Prepare, StepsPrepared
<1>3. ASSUME NEW x \in Executions, PrepareFails(x)  PROVE StepsPrepared
  BY <1>0, <1>3 DEF PrepareFails, StepsPrepared
<1>4. ASSUME NEW x \in Executions, Start(x)  PROVE RunStarts(FALSE) /\ ops' = ops
  BY <1>4 DEF Start
<1>5. ASSUME EngineGoesOn \/ CrashAll \/ Restart  PROVE Next
  BY <1>5 DEF EngineGoesOn, CrashAll, Restart, Next, StepsNext
<1>6. CASE UNCHANGED taskVars
  BY <1>6 DEF taskVars
<1> QED  BY <1>1, <1>2, <1>3, <1>4, <1>5, <1>6 DEF ScheduledNext, ExecutionGoesOn

LEMMA PreparedInOrder ==
    ASSUME OrderInv, StepsPrepared
    PROVE  OrderInv'
<1>1. /\ TypeOK /\ subtasks \in [Step -> Row] /\ Sound(subtasks) /\ Decided(subtasks)
  BY InvSteady DEF OrderInv
<1>2. ForwardClosed(Edge, Step)
  BY EngineAssumption DEF ForwardClosed, EdgeType
<1>3. /\ subtasks' \in [Step -> Row] /\ Sound(subtasks') /\ Decided(subtasks')
  BY <1>1, <1>2, ResettingSound, RowsTypes DEF StepsPrepared
<1>4. InProgress(subtasks') \subseteq InProgress(subtasks)
  <2>1. FreshRow.status = "pending"
    BY DEF FreshRow
  <2> QED  BY <2>1 DEF StepsPrepared, Resetting, InProgress
<1>5. UNCHANGED <<runs, up, pipes, cancelKeys, verifyQueue, described, retrying, attempts, ops>>
  BY DEF StepsPrepared, memory
<1>6. TypeOK'
  BY <1>1, <1>3, <1>5 DEF StepsPrepared, TypeOK
<1>7. OneRunning' /\ IdleIsQuiet' /\ AgentPipes' /\ NoDescription'
  BY <1>4, <1>5 DEF OrderInv, OneRunning, IdleIsQuiet, IsRunning, Running, AgentPipes,
                    NoDescription
<1>8. (UpstreamSettled /\ BranchTaken)' /\ DecidedIsOver'
  BY <1>3 DEF Sound, UpstreamSettled, BranchTaken, Waits, Decided, DecidedIsOver
<1> QED  BY <1>6, <1>7, <1>8 DEF OrderInv

LEMMA OrderStep ==
    ASSUME OrderInv, [ScheduledNext]_taskVars
    PROVE  /\ OrderInv'
           /\ MovesRuns \/ runs' = runs
           /\ \/ RunHasWork => RunHasWork'
              \/ \E x \in Executions : Prepare(x) \/ PrepareFails(x)
           /\ Step = {} => (RunHasWork => RunHasWork')
<1>1. TypeOK /\ OneRunning
  BY DEF OrderInv
<1>2. CASE [Next]_vars
  BY <1>1, <1>2, NextOrder, RunsMove DEF vars, database
<1>3. CASE RunStarts(FALSE) /\ ops' = ops
  <2>1. ops' \in Nat
    BY <1>1, <1>3 DEF TypeOK
  <2>2. TypeOK' /\ Kept /\ NewRun
    BY <1>1, <1>3, <2>1, RunStartsTypeOK, RunStartsKept, RunStartsMoves
  <2> QED  BY <2>2, StepInv DEF MovesRuns
<1>4. CASE StepsPrepared /\ \E x \in Executions : Prepare(x) \/ PrepareFails(x)
  <2>1. OrderInv' /\ UNCHANGED <<runs, up, described>>
    BY <1>4, PreparedInOrder DEF StepsPrepared, memory
  <2>2. ASSUME Step = {}, RunHasWork  PROVE RunHasWork'
    BY <2>1, <2>2 DEF RunHasWork, IsRunning, Running
  <2> QED  BY <1>4, <2>1, <2>2
<1> QED  BY <1>1, <1>2, <1>3, <1>4, EngineStep

(* However often executions reset the steps under a run that is going, and *)
(* late turns of it come back: one run at most, no step in progress        *)
(* without it, every step in progress on a branch that was taken.          *)
THEOREM InOrderWhenScheduled == ScheduledSpec => []OrderInv
<1>1. ScheduledInit => OrderInv
  BY InitInv DEF ScheduledInit, EngineInv
<1>2. OrderInv /\ [ScheduledNext]_taskVars => OrderInv'
  BY OrderStep
<1> QED  BY <1>1, <1>2, PTL DEF ScheduledSpec

(* A run that has somebody to move it on keeps somebody, unless an         *)
(* execution prepares the task under it: that is all it can do to a run,   *)
THEOREM OnlyPreparingTakesWork ==
    ScheduledSpec => [][RunHasWork /\ ~RunHasWork' =>
                          \E x \in Executions : Prepare(x) \/ PrepareFails(x)]_taskVars
<1>1. OrderInv /\ [ScheduledNext]_taskVars =>
        [RunHasWork /\ ~RunHasWork' =>
           \E x \in Executions : Prepare(x) \/ PrepareFails(x)]_taskVars
  BY OrderStep
<1> QED  BY <1>1, InOrderWhenScheduled, PTL DEF ScheduledSpec

(* and nothing it can do to the run of a task without steps: there the     *)
(* engine under a schedule is as sound as it is alone.                     *)
THEOREM EmptyTasksAreSound ==
    ASSUME Step = {}
    PROVE  ScheduledSpec => []EngineInv
<1>1. ScheduledInit => EngineInv
  BY InitInv DEF ScheduledInit
<1>2. EngineInv /\ [ScheduledNext]_taskVars => EngineInv'
  BY OrderStep DEF EngineInv
<1> QED  BY <1>1, <1>2, PTL DEF ScheduledSpec

(* A run that ended keeps its status, whatever executions do: only a retry *)
(* changes it, by reopening the latest run when none is going.             *)
THEOREM FirstFinisherWinsWhenScheduled == ScheduledSpec => FinishedStays
<1> DEFINE Stays == \A i \in DOMAIN runs :
                      runs[i] # "running" /\ runs'[i] # runs[i]
                        => /\ i = Len(runs) /\ ~IsRunning(runs)
                           /\ \E s \in Step : retrying'[s] < retrying[s]
<1>1. OrderInv /\ [ScheduledNext]_taskVars => [Stays]_vars
  <2> SUFFICES ASSUME OrderInv, [ScheduledNext]_taskVars  PROVE Stays
    OBVIOUS
  <2>1. CASE MovesRuns
    BY <2>1, FinishedStep DEF OrderInv, RetriesNow
  <2>2. CASE runs' = runs
    BY <2>2
  <2> QED  BY <2>1, <2>2, OrderStep
<1> QED  BY <1>1, InOrderWhenScheduled, PTL DEF ScheduledSpec, FinishedStays

(* A gate's decision is final: an execution clears it with the step, and   *)
(* nothing turns it into another.                                          *)
THEOREM DecisionsAreFinalWhenScheduled == ScheduledSpec => DecisionIsFinal
<1> DEFINE Final == \A g \in Gate : subtasks[g].decision # "none" =>
                      subtasks'[g].decision \in {"none", subtasks[g].decision}
<1>1. OrderInv /\ [ScheduledNext]_taskVars => [Final]_vars
  <2> SUFFICES ASSUME OrderInv, [ScheduledNext]_taskVars, NEW g \in Gate,
                      subtasks[g].decision # "none"
               PROVE  \/ subtasks'[g].decision \in {"none", subtasks[g].decision}
                      \/ UNCHANGED vars
    OBVIOUS
  <2>1. CASE [Next]_vars
    BY <2>1, DecisionStep
  <2>2. CASE RunStarts(FALSE)
    BY <2>2, DecisionStep
  <2>3. CASE StepsPrepared
    <3>1. g \in Step /\ FreshRow.decision = "none"
      BY GraphAssumption DEF FreshRow
    <3> QED  BY <2>3, <3>1 DEF StepsPrepared, Resetting
  <2> QED  BY <2>1, <2>2, <2>3, EngineStep DEF OrderInv
<1> QED  BY <1>1, InOrderWhenScheduled, PTL DEF ScheduledSpec, DecisionIsFinal
=============================================================================
