------------------------------ MODULE RunStream ------------------------------
(***************************************************************************)
(* The events of the runs of one session on their way to the clients: the  *)
(* emitter of dispatch/events, the StreamManager that forwards a run's     *)
(* events to the connections watching it, and the RunStreamBuffer that     *)
(* keeps what a run has streamed for a client that comes back.  Listeners  *)
(* are called synchronously, so an event reaches all of them in the step   *)
(* that emits it; a net is the state they share.                           *)
(***************************************************************************)
EXTENDS Integers, Sequences

CONSTANTS
    Run,        \* the runs, by the id the gateway gives them
    Client,     \* the connections
    NoRun       \* no run of the session is buffered

ASSUME RunAssumption == NoRun \notin Run

(* The terminal events; run.started, run.delta and run.tool_call are the   *)
(* others that matter here.                                                *)
Ending == {"completed", "failed", "cancelled", "choices"}

Net == [watch    : SUBSET (Client \X Run),      \* StreamManager.subscriptions
        buffered : SUBSET Run,                  \* RunStreamBuffer.runs
        content  : [Run -> Nat],                \* the deltas in each snapshot
        active   : Run \cup {NoRun},            \* sessionToRun
        shown    : [Client \X Run -> Nat],      \* the deltas a client shows
        heard    : [Client \X Run -> Seq(Ending)]]

QuietNet == [watch    |-> {},
             buffered |-> {},
             content  |-> [r \in Run |-> 0],
             active   |-> NoRun,
             shown    |-> [w \in Client \X Run |-> 0],
             heard    |-> [w \in Client \X Run |-> <<>>]]

Watching(net, r) == {w \in net.watch : w[2] = r}

(* Mutant of EndsWatch: only a completion ends a subscription.             *)
EndsAtCompletion == {"completed"}

(* The events after which handleRunEvent unsubscribes: a cancellation is   *)
(* not among them.                                                         *)
EndsWatch == {"completed", "failed", "choices"}

Forward(net, r, event) ==
    [net EXCEPT
       !.shown = [w \in DOMAIN @ |-> IF event = "delta" /\ w \in Watching(net, r)
                                     THEN @[w] + 1 ELSE @[w]],
       !.heard = [w \in DOMAIN @ |-> IF event \in Ending /\ w \in Watching(net, r)
                                     THEN Append(@[w], event) ELSE @[w]],
       !.watch = IF event \in EndsWatch THEN @ \ Watching(net, r) ELSE @]

(* RunStreamBuffer.handle                                                  *)
Remember(net, r, event) ==
    CASE event = "started" ->
           [net EXCEPT !.buffered = @ \cup {r}, !.content[r] = 0, !.active = r]
      [] event = "delta" /\ r \in net.buffered ->
           [net EXCEPT !.content[r] = @ + 1]
      [] event \in Ending ->
           [net EXCEPT !.buffered = @ \ {r},
                       !.active = IF @ = r THEN NoRun ELSE @]
      [] OTHER -> net

(* emit: the run's own channel first, then the listeners of all runs.      *)
Emit(net, r, event) == Remember(Forward(net, r, event), r, event)

SubscribeToRun(net, c, r) == [net EXCEPT !.watch = @ \cup {<<c, r>>}]

(* Mutant of ResumeStream: the client goes on with what it had.            *)
ResumeWithoutSnapshot(net, c) ==
    IF net.active \in net.buffered THEN SubscribeToRun(net, c, net.active) ELSE net

(* session.stream.resume: subscribe, and replace what the client shows by  *)
(* the snapshot, in one synchronous block.                                 *)
ResumeStream(net, c) ==
    IF net.active \in net.buffered
    THEN [SubscribeToRun(net, c, net.active) EXCEPT
            !.shown[<<c, net.active>>] = net.content[net.active]]
    ELSE net

(* The socket closes; the client that reconnects has another connection.   *)
Disconnect(net, c) ==
    [net EXCEPT !.watch = {w \in @ : w[1] # c},
                !.shown = [w \in DOMAIN @ |-> IF w[1] = c THEN 0 ELSE @[w]],
                !.heard = [w \in DOMAIN @ |-> IF w[1] = c THEN <<>> ELSE @[w]]]
=============================================================================
