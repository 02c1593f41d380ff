---------------------------- MODULE SessionTurns ----------------------------
(***************************************************************************)
(* The turns of one chat session.  A client's message starts a run in the  *)
(* gateway (handleStreamingMessage, executeStreamingRun) and in the        *)
(* session service (submitMessageStreaming): the user's message is stored, *)
(* a run row created, and the model asked until it answers without calling *)
(* a tool.  Between two awaits other turns of the session go on (nothing   *)
(* keeps a second message from starting a second turn), clients stop runs, *)
(* leave and come back, the database fails, the process restarts and the   *)
(* reaper fails the rows of runs it takes for stuck.                       *)
(***************************************************************************)
EXTENDS HistoryRepair, RunStream, FiniteSets

CONSTANTS
    MaxRounds,      \* maxToolRounds
    MaxRetries,     \* MAX_EMPTY_TURN_RETRIES
    MaxCalls,       \* the bound on the calls of one assistant turn
    MaxDeltas,      \* the bound on the deltas of a run
    MaxFaults       \* the bound on failures and restarts

ASSUME TurnAssumption ==
    /\ MaxRounds \in Nat \ {0}
    /\ {MaxRetries, MaxCalls, MaxDeltas, MaxFaults} \subseteq Nat
    /\ Run \X (0..(MaxRounds - 1)) \X (1..MaxCalls) \subseteq CallId
    /\ Run \subseteq Origin

VARIABLES
    net,        \* the session's events, see RunStream
    log,        \* the session_messages, in the order of their sequence
    row,        \* the session_runs: their status
    turn,       \* where each run's turn is, and its loop counters
    inflight,   \* inflightRuns
    stopped,    \* the runs whose AbortController was aborted
    said,       \* history: the deltas each run emitted
    muddled,    \* history: turns overlapped, a choice had siblings, or a fault
    faults

turnVars == <<net, log, row, turn, inflight, stopped, said, muddled, faults>>

RowStatus == {"none", "queued", "running", "succeeded", "failed", "cancelled"}

(* The awaits of a turn: where it goes on when the next one settles.       *)
Phase == {"none", "posting", "creating", "starting", "building", "asking",
          "tools", "suspending", "parking", "answering", "answered", "closing",
          "cancelling", "failing", "over"}

Turn == [at      : Phase,
         round   : Nat,
         left    : Nat,       \* the calls of this round still to execute
         retries : Nat]       \* emptyTurnRetries

TypeOK ==
    /\ net \in Net
    /\ log \in Seq(Message)
    /\ row \in [Run -> RowStatus]
    /\ turn \in [Run -> Turn]
    /\ inflight \subseteq Run /\ stopped \subseteq Run
    /\ said \in [Run -> Nat]
    /\ muddled \in BOOLEAN /\ faults \in 0..MaxFaults

(* A turn outside the loop: the counters are of no use.                    *)
Outside(phase) == [at |-> phase, round |-> 0, left |-> 0, retries |-> 0]

Live(r) == turn[r].at \notin {"none", "over"}

Init ==
    /\ net = QuietNet
    /\ log = <<>>
    /\ row = [r \in Run |-> "none"]
    /\ turn = [r \in Run |-> Outside("none")]
    /\ inflight = {} /\ stopped = {}
    /\ said = [r \in Run |-> 0]
    /\ muddled = FALSE /\ faults = 0

-----------------------------------------------------------------------------
(* What the steps share                                                    *)

At(r, phase)   == turn[r].at = phase
Goes(r, phase) == turn' = [turn EXCEPT ![r].at = phase]
Exits(r, phase) == turn' = [turn EXCEPT ![r] = Outside(phase)]
Marks(r, status) == row' = [row EXCEPT ![r] = status]
Emits(r, event)  == net' = Emit(net, r, event)
Appends(r, role, ids) ==
    log' = Append(log, [role |-> role, ids |-> ids, from |-> r])

Faulty == faults < MaxFaults /\ faults' = faults + 1 /\ muddled' = TRUE
Sound  == UNCHANGED <<faults, muddled>>

(* submitMessageStreaming throws: executeStreamingRun and its caller both  *)
(* report it.                                                              *)
Reports(r) == net' = Emit(Emit(net, r, "failed"), r, "failed")

(* The end of the handler: the turn's locals are gone, its AbortController *)
(* with them.                                                              *)
Leaves(r) ==
    /\ Exits(r, "over")
    /\ stopped' = stopped \ {r}

(* With the finally of submitMessageStreaming before it.                   *)
Over(r) == Leaves(r) /\ inflight' = inflight \ {r}

(* The calls of the round the turn is in.                                  *)
Calls(r, n) == {<<r, turn[r].round, k>> : k \in 1..n}

-----------------------------------------------------------------------------
(* A message starts a turn                                                 *)

Submit(c, r) ==
    /\ At(r, "none")
    /\ net' = Emit(SubscribeToRun(net, c, r), r, "started")
    /\ Goes(r, "posting")
    /\ muddled' = (muddled \/ \E q \in Run : Live(q))
    /\ UNCHANGED <<log, row, inflight, stopped, said, faults>>

PostMessage(r) ==
    /\ At(r, "posting") /\ Goes(r, "creating")
    /\ Appends(r, "user", {})
    /\ Sound /\ UNCHANGED <<net, row, inflight, stopped, said>>

CreateRun(r) ==
    /\ At(r, "creating") /\ Goes(r, "starting")
    /\ Marks(r, "queued")
    /\ Sound /\ UNCHANGED <<net, log, inflight, stopped, said>>

(* markRunRunning, and the turn can be stopped from here on.               *)
StartRun(r) ==
    /\ At(r, "starting") /\ Goes(r, "building")
    /\ Marks(r, "running")
    /\ inflight' = inflight \cup {r}
    /\ Sound /\ UNCHANGED <<net, log, stopped, said>>

(* The history of the session and the prompt are read.                     *)
BuildHistory(r) ==
    /\ At(r, "building") /\ Goes(r, "asking")
    /\ Sound /\ UNCHANGED <<net, log, row, inflight, stopped, said>>

(* A call of the database fails before the try: the handler reports it,    *)
(* the row keeps its status, and a run already registered stays so.        *)
FailEarly(r) ==
    /\ turn[r].at \in {"posting", "creating", "starting", "building"}
    /\ Faulty
    /\ Reports(r) /\ Leaves(r)
    /\ UNCHANGED <<log, row, inflight, said>>

-----------------------------------------------------------------------------
(* The agentic loop                                                        *)

Delta(r) ==
    /\ At(r, "asking") /\ said[r] < MaxDeltas
    /\ Emits(r, "delta")
    /\ said' = [said EXCEPT ![r] = @ + 1]
    /\ Sound /\ UNCHANGED <<log, row, turn, inflight, stopped>>

(* The provider's stream ends with an error; a stop makes it end so too.   *)
(* The client is told at once, the row after the finally.                  *)
ModelFails(r) ==
    /\ At(r, "asking") /\ Exits(r, "failing")
    /\ Emits(r, "failed")
    /\ inflight' = inflight \ {r}
    /\ Sound /\ UNCHANGED <<log, row, stopped, said>>

(* The model signals calls and sends none.                                 *)
RetryEmptyTurn(r) ==
    /\ At(r, "asking") /\ turn[r].retries < MaxRetries
    /\ turn' = [turn EXCEPT ![r].retries = @ + 1]
    /\ Sound /\ UNCHANGED <<net, log, row, inflight, stopped, said>>

ModelCalls(r, n) ==
    /\ At(r, "asking")
    /\ turn' = [turn EXCEPT ![r].at = "tools", ![r].left = n]
    /\ Appends(r, "assistant", Calls(r, n))
    /\ Sound /\ UNCHANGED <<net, row, inflight, stopped, said>>

(* After the loop a stopped run answers no more.                           *)
AfterLoop(r) == IF r \in stopped THEN "cancelling" ELSE "answering"

NextRound(r) ==
    IF turn[r].round + 1 < MaxRounds
    THEN [turn[r] EXCEPT !.at = "asking", !.left = 0, !.round = @ + 1]
    ELSE Outside(AfterLoop(r))

(* Mutant of AfterCall: a stop skips the calls that are left.              *)
AfterCallUnlessStopped(r) ==
    IF turn[r].left > 1 /\ r \notin stopped THEN [turn[r] EXCEPT !.left = @ - 1]
    ELSE NextRound(r)

(* The next call of the round, also in a stopped run, or the next round.   *)
AfterCall(r) ==
    IF turn[r].left > 1 THEN [turn[r] EXCEPT !.left = @ - 1] ELSE NextRound(r)

(* A tool settles (a stopped one with an error) and its result is stored.  *)
ToolEnds(r) ==
    /\ At(r, "tools")
    /\ turn' = [turn EXCEPT ![r] = AfterCall(r)]
    /\ Appends(r, "tool", {<<r, turn[r].round, turn[r].left>>})
    /\ Sound /\ UNCHANGED <<net, row, inflight, stopped, said>>

(* No calls: the model has answered.                                       *)
ModelAnswers(r) ==
    /\ At(r, "asking") /\ Exits(r, AfterLoop(r))
    /\ Sound /\ UNCHANGED <<net, log, row, inflight, stopped, said>>

-----------------------------------------------------------------------------
(* present_choices suspends the run: the client is shown the choices, the  *)
(* row becomes succeeded and the call gets a result; the calls after it    *)
(* get none.  The run handed to the handler was read before the metadata   *)
(* says `suspended', so it emits a completion and, having no answer to     *)
(* name, two failures.                                                     *)

PresentChoices(r) ==
    /\ At(r, "tools") /\ Goes(r, "suspending")
    /\ Emits(r, "choices")
    /\ muddled' = (muddled \/ turn[r].left > 1)
    /\ UNCHANGED <<log, row, inflight, stopped, said, faults>>

Suspend(r) ==
    /\ At(r, "suspending") /\ Goes(r, "parking")
    /\ \/ Marks(r, "succeeded") /\ Sound
       \/ Faulty /\ UNCHANGED row
    /\ UNCHANGED <<net, log, inflight, stopped, said>>

Park(r) ==
    /\ At(r, "parking") /\ Over(r)
    /\ \/ Appends(r, "tool", {<<r, turn[r].round, turn[r].left>>}) /\ Sound
       \/ Faulty /\ UNCHANGED log
    /\ net' = Emit(Emit(Emit(net, r, "completed"), r, "failed"), r, "failed")
    /\ UNCHANGED <<row, said>>

-----------------------------------------------------------------------------
(* The end of a turn                                                       *)

StoreAnswer(r) ==
    /\ At(r, "answering") /\ Goes(r, "answered")
    /\ Appends(r, "assistant", {})
    /\ Sound /\ UNCHANGED <<net, row, inflight, stopped, said>>

Succeed(r) ==
    /\ At(r, "answered") /\ Goes(r, "closing")
    /\ Marks(r, "succeeded")
    /\ Sound /\ UNCHANGED <<net, log, inflight, stopped, said>>

(* updateSessionAgentId, and the handler's completion.                     *)
Close(r) ==
    /\ At(r, "closing") /\ Over(r)
    /\ Emits(r, "completed")
    /\ Sound /\ UNCHANGED <<log, row, said>>

(* An await of the try throws: a stopped run is cancelled, another fails.  *)
Caught(r) ==
    /\ turn[r].at \in {"asking", "tools", "answering", "answered", "closing"}
    /\ Faulty
    /\ IF r \in stopped THEN Exits(r, "cancelling") /\ UNCHANGED inflight
       ELSE Exits(r, "failing") /\ inflight' = inflight \ {r}
    /\ UNCHANGED <<net, log, row, stopped, said>>

(* Mutant of CancelRun: the client is not told.                            *)
CancelQuietly(r) ==
    /\ At(r, "cancelling") /\ Over(r)
    /\ Marks(r, "cancelled")
    /\ Sound /\ UNCHANGED <<net, log, said>>

CancelRun(r) ==
    /\ At(r, "cancelling") /\ Over(r)
    /\ Marks(r, "cancelled") /\ Emits(r, "cancelled")
    /\ Sound /\ UNCHANGED <<log, said>>

FailRun(r) ==
    /\ At(r, "failing") /\ Leaves(r)
    /\ Marks(r, "failed") /\ Emits(r, "failed")
    /\ Sound /\ UNCHANGED <<log, inflight, said>>

(* The last write of the row fails, which nothing catches but the handler. *)
FailLate(r) ==
    /\ turn[r].at \in {"cancelling", "failing"} /\ Over(r)
    /\ Faulty
    /\ Reports(r)
    /\ UNCHANGED <<log, row, said>>

-----------------------------------------------------------------------------
(* Clients, restarts and the reaper                                        *)

(* cancelRun: a turn that is not registered yet cannot be stopped (and one *)
(* that failed early is not there to be).                                  *)
Stop(r) ==
    /\ r \in inflight /\ Live(r)
    /\ stopped' = stopped \cup {r}
    /\ Sound /\ UNCHANGED <<net, log, row, turn, inflight, said>>

Resume(c) ==
    /\ net' = ResumeStream(net, c)
    /\ Sound /\ UNCHANGED <<log, row, turn, inflight, stopped, said>>

Leave(c) ==
    /\ net' = Disconnect(net, c)
    /\ Sound /\ UNCHANGED <<log, row, turn, inflight, stopped, said>>

(* The reaper fails a row that has been running for half an hour.          *)
Reap(r) ==
    /\ row[r] = "running" /\ Marks(r, "failed")
    /\ Sound /\ UNCHANGED <<net, log, turn, inflight, stopped, said>>

(* The memory is gone; the reaper's first pass fails what was running.     *)
Restart ==
    /\ Faulty
    /\ net' = QuietNet /\ inflight' = {} /\ stopped' = {}
    /\ turn' = [r \in Run |-> IF Live(r) THEN Outside("over") ELSE turn[r]]
    /\ row' = [r \in Run |-> IF row[r] = "running" THEN "failed" ELSE row[r]]
    /\ UNCHANGED <<log, said>>

-----------------------------------------------------------------------------
(* What a turn does on its own.                                            *)
Proceeds(r) ==
    \/ PostMessage(r)
    \/ CreateRun(r)
    \/ StartRun(r)
    \/ BuildHistory(r)
    \/ Delta(r)
    \/ ModelFails(r)
    \/ RetryEmptyTurn(r)
    \/ \E n \in 1..MaxCalls : ModelCalls(r, n)
    \/ ToolEnds(r)
    \/ ModelAnswers(r)
    \/ PresentChoices(r)
    \/ Suspend(r)
    \/ Park(r)
    \/ StoreAnswer(r)
    \/ Succeed(r)
    \/ Close(r)
    \/ CancelRun(r)
    \/ FailRun(r)

Next ==
    \/ \E r \in Run : Proceeds(r)
    \/ \E r \in Run : FailEarly(r) \/ Caught(r) \/ FailLate(r)
    \/ \E r \in Run : Stop(r) \/ Reap(r)
    \/ \E c \in Client, r \in Run : Submit(c, r)
    \/ \E c \in Client : Resume(c) \/ Leave(c)
    \/ Restart

Spec == Init /\ [][Next]_turnVars

-----------------------------------------------------------------------------
(* Properties                                                              *)

(* A client hears one ending of a run, however many the server emits: a    *)
(* provider's error is reported twice and a suspended run also says that   *)
(* it is completed and that it failed.                                     *)
OneEnding == \A w \in Client \X Run : Len(net.heard[w]) <= 1

(* A client that watches a run shows all it has said, whenever it came     *)
(* ("no delta can interleave": handleResumeStream).                        *)
WatchedIsWhole == \A w \in net.watch : net.shown[w] = said[w[2]]

(* A turn that is over has told those who watch how it ended, whichever    *)
(* call of the provider or the database failed on the way.                 *)
EndIsTold ==
    \A w \in net.watch : At(w[2], "over") => net.heard[w] # <<>>

(* Once its turns are over a session leaves a transcript that needs no     *)
(* repair, stopped and failed runs included: only overlapping turns, calls *)
(* beside a choice and faults leave one that does.                         *)
LogIsReady == ~muddled /\ (\A r \in Run : ~Live(r)) => WellFormed(log)

(* What makes LogIsReady inductive: as long as nothing muddles the log one *)
(* turn goes on at a time, and the log ends in the group of calls the turn *)
(* still executes, or needs nothing more; a choice is the last of them.    *)
MidRound(r) == turn[r].at \in {"tools", "suspending", "parking"}

LogInv == ~muddled =>
    /\ \A q, r \in Run : Live(q) /\ Live(r) => q = r
    /\ \A r \in Run : MidRound(r) =>
          /\ \E i \in 1..Len(log) : /\ GroupAt(log, i)
                                   /\ Missing(From(log, i)) = Calls(r, turn[r].left)
          /\ At(r, "tools") \/ turn[r].left = 1
    /\ (\A r \in Run : ~MidRound(r)) => WellFormed(log)

(* The inductive invariant behind the first three, part by part: the       *)
(* counters of a turn stay within their bounds,                            *)
CountersFit ==
    \A r \in Run :
        /\ turn[r].round < MaxRounds
        /\ turn[r].at \in {"tools", "suspending", "parking"} =>
              turn[r].left \in 1..MaxCalls

(* nothing is known of a run that has not started,                         *)
Unstarted ==
    \A r \in Run : At(r, "none") =>
        /\ r \notin net.buffered /\ said[r] = 0
        /\ \A w \in Client \X Run : w[2] = r =>
               w \notin net.watch /\ net.shown[w] = 0 /\ net.heard[w] = <<>>

(* the phases before a turn's first ending is emitted,                     *)
Unended == {"posting", "creating", "starting", "building", "asking", "tools",
            "answering", "answered", "closing", "cancelling"}

(* in which the run is buffered,                                           *)
UnendedIsBuffered == \A r \in Run : turn[r].at \in Unended => r \in net.buffered

(* a buffered run goes on, its snapshot is what it said, and nobody has    *)
(* heard it end,                                                           *)
BufferIsFresh ==
    \A r \in net.buffered :
        /\ Live(r) /\ net.content[r] = said[r]
        /\ \A w \in Client \X Run : w[2] = r => net.heard[w] = <<>>

(* and who watches a run watches one that is buffered, or heard it end.    *)
WatchEnds ==
    \A w \in net.watch :
        w[2] \in net.buffered \/ (At(w[2], "over") /\ net.heard[w] # <<>>)

TurnInv == /\ TypeOK /\ CountersFit /\ Unstarted /\ UnendedIsBuffered
           /\ BufferIsFresh /\ WatchEnds /\ OneEnding /\ WatchedIsWhole

(* "The streaming loop marks the run `cancelled'" (cancelRun): a stopped   *)
(* run is not failed by its own turn.                                      *)
StopCancels ==
    [][\A r \in stopped : At(r, "failing") => row'[r] # "failed"]_turnVars
=============================================================================
