---------------------------- MODULE HistoryRepair ----------------------------
(***************************************************************************)
(* repairProviderHistory: what a transcript becomes before it is sent to a *)
(* provider, which refuses a tool result that does not follow the          *)
(* assistant turn that called the tool, and a call left without a result.  *)
(*                                                                         *)
(* The repair reads the messages one by one.  An assistant turn with calls *)
(* opens a group, which is sent when all its results came and loses its    *)
(* calls, and the results that did come, when something else came first.   *)
(***************************************************************************)
EXTENDS Sequences, Integers

CONSTANTS CallId, Origin

(* ids: the calls an assistant turn declares, or the call a tool answers.  *)
(* from: where the message comes from, which no decision depends on.       *)
Message == [role : {"system", "user", "assistant", "tool"},
            ids : SUBSET CallId, from : Origin]

Declares(m)    == m.role = "assistant" /\ m.ids # {}
IsToolResult(m) == m.role = "tool"

-----------------------------------------------------------------------------
(* The repair: the result so far, the user messages put off, and the open  *)
(* group, an assistant turn followed by the results that came.             *)

Empty == [result |-> <<>>, deferred |-> <<>>, group |-> <<>>]

Missing(group) ==
    Head(group).ids \ UNION {group[k].ids : k \in 2..Len(group)}

StripToolCalls(m) == [m EXCEPT !.ids = {}]

(* Mutant of Settled: the calls go, the results that came stay.            *)
SettledWithResults(group) ==
    IF Missing(group) = {} THEN group
    ELSE <<StripToolCalls(Head(group))>> \o Tail(group)

(* What a group becomes when it is closed.                                 *)
Settled(group) ==
    IF Missing(group) = {} THEN group ELSE <<StripToolCalls(Head(group))>>

ClosePendingGroup(st) ==
    IF st.group = <<>> THEN st
    ELSE [st EXCEPT !.result = @ \o Settled(st.group), !.group = <<>>]

FlushDeferredUsers(st) ==
    [st EXCEPT !.result = @ \o st.deferred, !.deferred = <<>>]

OpenGroup(st, m) == [ClosePendingGroup(st) EXCEPT !.group = <<m>>]

(* Mutant of MatchResult: the group is settled at its first result.        *)
MatchAndClose(st, m) ==
    IF st.group # <<>> /\ m.ids \subseteq Missing(st.group)
    THEN ClosePendingGroup([st EXCEPT !.group = Append(@, m)])
    ELSE st

(* A result no open group waits for is dropped.                            *)
MatchResult(st, m) ==
    IF st.group # <<>> /\ m.ids \subseteq Missing(st.group)
    THEN LET now == [st EXCEPT !.group = Append(@, m)] IN
         IF Missing(now.group) = {} THEN ClosePendingGroup(now) ELSE now
    ELSE st

Defer(st, m) == [st EXCEPT !.deferred = Append(@, m)]

(* Mutant of Pass: the message goes out before the ones put off.           *)
PassFirst(st, m) ==
    FlushDeferredUsers([ClosePendingGroup(st) EXCEPT !.result = Append(@, m)])

Pass(st, m) ==
    [FlushDeferredUsers(ClosePendingGroup(st)) EXCEPT !.result = Append(@, m)]

(* One turn of the loop.                                                   *)
Take(st, m) ==
    CASE Declares(m)                          -> OpenGroup(st, m)
      [] IsToolResult(m)                      -> MatchResult(st, m)
      [] m.role = "user" /\ st.group # <<>>   -> Defer(st, m)
      [] OTHER                                -> Pass(st, m)

Finish(st) == FlushDeferredUsers(ClosePendingGroup(st)).result

-----------------------------------------------------------------------------
(* What a provider accepts.                                                *)

(* Every message from the first position to the second answers a call.     *)
OnlyResults(h, first, last) == \A j \in first..last : IsToolResult(h[j])

(* Its call comes just before, and only one result answers it.             *)
FollowsItsCall(h, k) ==
    \E i \in 1..(k - 1) :
        /\ Declares(h[i]) /\ h[k].ids \subseteq h[i].ids
        /\ OnlyResults(h, i + 1, k)
        /\ \A j \in (i + 1)..(k - 1) : h[j].ids \cap h[k].ids = {}

IsAnswered(h, i) ==
    \A c \in h[i].ids : \E k \in (i + 1)..Len(h) :
        h[k].ids = {c} /\ OnlyResults(h, i + 1, k)

WellFormed(h) ==
    \A k \in 1..Len(h) : /\ IsToolResult(h[k]) => FollowsItsCall(h, k)
                         /\ Declares(h[k]) => IsAnswered(h, k)

-----------------------------------------------------------------------------
(* Histories on the way to be one.                                         *)

(* A group: a turn with calls, then results of distinct calls of it.       *)
GroupOk(g) ==
    g # <<>> =>
        /\ Declares(g[1])
        /\ \A k \in 2..Len(g) :
               /\ IsToolResult(g[k])
               /\ \E c \in g[1].ids : g[k].ids = {c}
               /\ \A j \in 2..(k - 1) : g[j].ids \cap g[k].ids = {}

Before(h, i) == SubSeq(h, 1, i - 1)
From(h, i)   == SubSeq(h, i, Len(h))

(* From i on h is a group, and what comes before needs nothing more.       *)
GroupAt(h, i) ==
    /\ i \in 1..Len(h)
    /\ WellFormed(Before(h, i))
    /\ GroupOk(From(h, i))
=============================================================================
