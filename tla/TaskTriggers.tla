---------------------------- MODULE TaskTriggers ----------------------------
(***************************************************************************)
(* Chat messages that start a task (tasks/triggers/service.ts, called by   *)
(* channels/message-handler.ts), composed with the engine.  A message that *)
(* matches the task's trigger starts a run with the chat as its reply      *)
(* target, is told that one is going already, or goes on to the chat agent *)
(* when something throws.  A run that ends tells the chat: the engine's    *)
(* listener is not waited for, so its calls interleave with everything     *)
(* else, retries that reopen the run included.                             *)
(***************************************************************************)
EXTENDS WorkflowEngine

CONSTANTS
    Message,     \* the messages that match the trigger
    NoMessage,   \* a run that no chat asked for
    CallsFail    \* whether the calls of the handlers may throw

ASSUME TriggerAssumption == NoMessage \notin Message /\ CallsFail \in BOOLEAN

VARIABLES
    asked,      \* how far the handler of each message has come
    replyTo,    \* per run, workflow_runs.replyTarget
    news,       \* per message, the endings its listeners are about to tell
    told,       \* per message, the endings its chat was told, in that order
    unsent,     \* history: messages that a channel or a crash left untold
    reopened    \* history: runs that a retry made go on

chats       == <<asked, replyTo, news, told, unsent, reopened>>
triggerVars == <<vars, chats>>

(* accepted, busy: the chat is told that its run began, or that another    *)
(* was going.  chat: the agent answers.  lost: the process went away.      *)
Asked == {"new", "matched", "started", "accepted", "busy", "chat", "lost"}

Endings == RunStatus \ {"running"}

TriggerTypeOK ==
    /\ TypeOK
    /\ asked \in [Message -> Asked]
    /\ replyTo \in [DOMAIN runs -> Message \cup {NoMessage}]
    /\ news \in [Message -> Seq(Endings)]
    /\ told \in [Message -> Seq(Endings)]
    /\ unsent \subseteq Message
    /\ reopened \subseteq DOMAIN runs

TriggerInit ==
    /\ Init
    /\ asked = [m \in Message |-> "new"]
    /\ replyTo = <<>>
    /\ news = [m \in Message |-> <<>>]
    /\ told = [m \in Message |-> <<>>]
    /\ unsent = {} /\ reopened = {}

-----------------------------------------------------------------------------
(* Runs and their chats                                                    *)

Asks(m, phase) == asked' = [asked EXCEPT ![m] = phase]

(* A run created in this step replies to the chat given.                   *)
RunsReply(m) ==
    replyTo' = IF Len(runs') > Len(runs) THEN Append(replyTo, m) ELSE replyTo

(* Mutant of Posted: a run that a stop ended says nothing.                 *)
PostedUnlessStopped(i) == IF runs'[i] # "cancelled" THEN <<runs'[i]>> ELSE <<>>

(* run.finished                                                            *)
Posted(i) == <<runs'[i]>>

(* The listener of a run with a reply target goes to work.                 *)
NewsFollows ==
    news' = [m \in Message |->
               IF \E i \in EndedNow : replyTo'[i] = m
               THEN news[m] \o Posted(CHOOSE i \in EndedNow : replyTo'[i] = m)
               ELSE news[m]]

(* The bound on runs, those that messages may still start counted.         *)
RoomForRun ==
    Len(runs) + Cardinality({m \in Message : asked[m] = "matched"}) < MaxRuns

-----------------------------------------------------------------------------
(* A message                                                               *)

Match(m) ==
    /\ up /\ asked[m] = "new" /\ RoomForRun
    /\ Asks(m, "matched")
    /\ UNCHANGED <<vars, replyTo, news, told, unsent, reopened>>

(* startRun under the lock; when the dispatch of a step throws, the run    *)
(* goes on and the message is answered as chat too.                        *)
StartFromMessage(m) ==
    /\ up /\ asked[m] = "matched"
    /\ RunStarts(TRUE)
    /\ RunsReply(m)
    /\ Asks(m, IF StartThrew THEN "chat" ELSE "started")
    /\ NewsFollows
    /\ UNCHANGED <<ops, told, unsent, reopened>>

AlreadyRunning(m) ==
    /\ up /\ asked[m] = "matched" /\ IsRunning(runs)
    /\ Asks(m, "busy")
    /\ UNCHANGED <<vars, replyTo, news, told, unsent, reopened>>

(* markFired, and the acknowledgement.                                     *)
Acknowledge(m) ==
    /\ up /\ asked[m] = "started"
    /\ Asks(m, "accepted")
    /\ UNCHANGED <<vars, replyTo, news, told, unsent, reopened>>

(* A call throws before the run, or after it.                              *)
TriggerFails(m) ==
    /\ CallsFail /\ up
    /\ asked[m] \in {"matched", "started"}
    /\ Asks(m, "chat")
    /\ UNCHANGED <<vars, replyTo, news, told, unsent, reopened>>

-----------------------------------------------------------------------------
(* The listener, which the endings of one run reach in any order.          *)

Heard(m, k) ==
    news' = [news EXCEPT ![m] = SubSeq(@, 1, k - 1) \o SubSeq(@, k + 1, Len(@))]

Tell(m, k) ==
    /\ up /\ k \in DOMAIN news[m]
    /\ told' = [told EXCEPT ![m] = Append(@, news[m][k])]
    /\ Heard(m, k)
    /\ UNCHANGED <<vars, asked, replyTo, unsent, reopened>>

(* The channel does not take it, or a call throws: it is only logged.      *)
TellFails(m, k) ==
    /\ CallsFail /\ up /\ k \in DOMAIN news[m]
    /\ unsent' = unsent \cup {m}
    /\ Heard(m, k)
    /\ UNCHANGED <<vars, asked, replyTo, told, reopened>>

-----------------------------------------------------------------------------
(* Everything else that happens to the task                                *)

EngineGoesOn ==
    /\ Next
    /\ up' = up                      \* Crash and Recover are below
    /\ Len(runs') > Len(runs) => RoomForRun
    /\ RunsReply(NoMessage)
    /\ NewsFollows
    /\ reopened' = reopened \cup
          IF RetriesNow /\ ~IsRunning(runs) THEN {Len(runs)} \ {0} ELSE {}
    /\ UNCHANGED <<asked, told, unsent>>

CrashAll ==
    /\ Crash
    /\ asked' = [m \in Message |-> IF asked[m] \in {"matched", "started"}
                                   THEN "lost" ELSE asked[m]]
    /\ news' = [m \in Message |-> <<>>]
    /\ unsent' = unsent \cup {m \in Message : news[m] # <<>>}
    /\ UNCHANGED <<replyTo, told, reopened>>

(* Mutant of Restart: the listeners come after recovery.                   *)
RestartUnheard ==
    /\ Recover
    /\ RunsReply(NoMessage)
    /\ UNCHANGED <<asked, news, told, unsent, reopened>>

(* The listeners are there before recovery: what it ends, it tells.        *)
Restart ==
    /\ Recover
    /\ RunsReply(NoMessage)
    /\ NewsFollows
    /\ UNCHANGED <<asked, told, unsent, reopened>>

Handles(m) == StartFromMessage(m) \/ AlreadyRunning(m) \/ Acknowledge(m)

TriggerNext ==
    \/ \E m \in Message : Match(m) \/ Handles(m) \/ TriggerFails(m)
    \/ \E m \in Message : \E k \in DOMAIN news[m] : Tell(m, k) \/ TellFails(m, k)
    \/ EngineGoesOn \/ CrashAll \/ Restart

TriggerSpec == TriggerInit /\ [][TriggerNext]_triggerVars

(* That of the engine, and the promise chains of handlers and listeners.   *)
FairTriggerSpec ==
    /\ TriggerSpec
    /\ Fairness
    /\ WF_triggerVars(\E m \in Message : \/ Handles(m)
                                         \/ \E k \in DOMAIN news[m] : Tell(m, k))

-----------------------------------------------------------------------------
(* Properties                                                              *)

(* Whoever's message started a run is told once how it ended, and truly:   *)
(* not before the end, not twice when a late turn, a stop and a recovery   *)
(* each try to end the run, not of another run (retried runs, which end    *)
(* again, excepted) - and was not told that the task was busy.             *)
ToldTheEnd ==
    \A i \in DOMAIN runs \ reopened : replyTo[i] # NoMessage =>
        LET m == replyTo[i] IN
        /\ asked[m] \in {"started", "accepted", "chat", "lost"}
        /\ told[m] \o news[m] \in
               IF runs[i] = "running" THEN {<<>>}
               ELSE {<<runs[i]>>} \cup {e \in {<<>>} : m \in unsent}

(* What makes it inductive: the runs go one at a time, no two of them      *)
(* answer one chat, and a message that has started no run yet, or never    *)
(* will, has no ending to be told.                                         *)
ChatsApart ==
    \A i, j \in DOMAIN runs :
        replyTo[i] = replyTo[j] /\ replyTo[i] # NoMessage => i = j

Answered(m) == \E i \in DOMAIN runs : replyTo[i] = m

AnsweredAsk ==
    \A m \in Message : IF Answered(m)
                       THEN asked[m] \notin {"new", "matched", "busy"}
                       ELSE told[m] = <<>> /\ news[m] = <<>>

TriggerInv ==
    /\ TriggerTypeOK
    /\ OneRunning
    /\ ChatsApart
    /\ AnsweredAsk
    /\ ToldTheEnd

(* Whoever's message was accepted hears of the end, unless the run waits   *)
(* for a person or a channel or a crash loses the news: a run a crash cuts *)
(* short is ended, and told, by the next start.                            *)
EveryoneIsTold ==
    \A m \in Message :
        asked[m] = "accepted" ~> (told[m] # <<>> \/ m \in unsent \/ GateWaits)
=============================================================================
