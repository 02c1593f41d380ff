------------------------------ MODULE RepairScan ------------------------------
(***************************************************************************)
(* The loop of HistoryRepair as a machine: a transcript of any shape is    *)
(* read a message at a time, as a session whose turns overlap, crash or    *)
(* are stopped may have written it.  Every state is the end of some        *)
(* transcript, so what holds of Finish holds of every repaired history.    *)
(***************************************************************************)
EXTENDS HistoryRepair

CONSTANT MaxMessages    \* the bound on the transcript

VARIABLES
    messages,   \* the transcript read so far
    state       \* what repairProviderHistory has made of it

scanVars == <<messages, state>>

(* Here a message comes from its place in the transcript.                  *)
ASSUME ScanAssumption == MaxMessages \in Nat /\ 1..MaxMessages \subseteq Origin

(* A message as sessions write them: a result answers one call, and only   *)
(* an assistant turn declares any.                                         *)
Written(m) ==
    /\ m.role = "tool" => \E c \in CallId : m.ids = {c}
    /\ m.role \in {"system", "user"} => m.ids = {}

ScanInit == messages = <<>> /\ state = Empty

ReadMessage(m) ==
    /\ Len(messages) < MaxMessages
    /\ Written(m) /\ m.from = Len(messages) + 1
    /\ messages' = Append(messages, m)
    /\ state' = Take(state, m)

ScanNext == \E m \in Message : ReadMessage(m)

ScanSpec == ScanInit /\ [][ScanNext]_scanVars

-----------------------------------------------------------------------------
(* Properties                                                              *)

(* What leaves the server is a history a provider accepts, whatever was    *)
(* stored: each result follows its call and each call has its result.      *)
ProviderReady == WellFormed(Finish(state))

(* A transcript that is well formed is sent as it is: the repair never     *)
(* strips a turn that resolves completely (the bug the file remembers).    *)
HealthyIsKept == WellFormed(messages) => Finish(state) = messages

(* What makes that inductive: the messages are as sessions write them; of  *)
(* a well-formed transcript nothing is put off and no group is open; and a *)
(* group that still waits at its end is the open one.                      *)
KeptInv ==
    /\ messages \in Seq(Message)
    /\ \A k \in 1..Len(messages) : Written(messages[k])
    /\ WellFormed(messages) => state = [Empty EXCEPT !.result = messages]
    /\ \A i \in 1..Len(messages) :
          GroupAt(messages, i) /\ Missing(From(messages, i)) # {} =>
              state = [result   |-> Before(messages, i),
                       deferred |-> <<>>,
                       group    |-> From(messages, i)]

(* What h makes of a transcript: each message of h is one of the           *)
(* transcript, a turn perhaps without its calls;                           *)
OnlyWhatWasSaid(h, script) ==
    \A j \in 1..Len(h) :
        /\ h[j].from \in 1..Len(script)
        /\ LET m == script[h[j].from] IN
           \/ h[j] = m
           \/ Declares(m) /\ h[j] = StripToolCalls(m)

(* all but tool results are there;                                         *)
AllThatWasSaid(h, script) ==
    \A k \in 1..Len(script) : script[k].role # "tool" =>
        \E j \in 1..Len(h) : h[j].from = k

(* and only a user's message is overtaken, by turns with calls and by      *)
(* results: never by a user, a system message or a plain reply.            *)
OfTools(m) == Declares(m) \/ IsToolResult(m)

Overtakes(m, u, script) ==
    u.role = "user" /\ m.role # "user" /\ OfTools(script[m.from])

InOrder(h, script) ==
    \A i, j \in 1..Len(h) :
        i < j => h[i].from < h[j].from \/ Overtakes(h[i], h[j], script)

Tells(h, script) ==
    OnlyWhatWasSaid(h, script) /\ AllThatWasSaid(h, script) /\ InOrder(h, script)

(* Nothing but tool results is ever dropped, nothing is sent twice, and    *)
(* only a user's message ever moves: backwards, past the rest of the group *)
(* it came in and past the groups that follow, as long as nothing else is  *)
(* said.  (When a new group opens, or the last result arrives, the group   *)
(* before is sent and the users put off are not.)                          *)
NothingSaidIsLost == Tells(Finish(state), messages)

(* What makes that inductive: it holds of all that the scan has in hand,   *)
(* with the group unsettled, and only users were put off.                  *)
TellsInv ==
    /\ messages \in Seq(Message)
    /\ \A k \in 1..Len(state.deferred) : state.deferred[k].role = "user"
    /\ Tells(state.result \o state.group \o state.deferred, messages)
=============================================================================
