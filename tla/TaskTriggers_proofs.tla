------------------------ MODULE TaskTriggers_proofs ------------------------
(***************************************************************************)
(* Whoever's message started a run is told how it ended, for every graph,  *)
(* every number of messages and whatever calls of the handlers throw.  The *)
(* engine moves the runs (MovesRuns in WorkflowEngine_proofs); here is     *)
(* what the listeners make of it, and that messages do it no harm.         *)
(***************************************************************************)
EXTENDS TaskTriggers, WorkflowEngine_proofs

-----------------------------------------------------------------------------
(* Endings on their way to a chat.                                         *)

LEMMA NothingJoined ==
    ASSUME NEW S, NEW s \in Seq(S), NEW t \in Seq(S), s \o t = <<>>
    PROVE  s = <<>> /\ t = <<>>
<1>1. Len(s) \in Nat /\ Len(t) \in Nat /\ Len(s \o t) = Len(s) + Len(t)
  BY ConcatProperties
<1>2. Len(s \o t) = 0
  OBVIOUS
<1>3. Len(s) = 0 /\ Len(t) = 0
  BY <1>1, <1>2
<1> QED  BY <1>3, EmptySeq

LEMMA OneJoined ==
    ASSUME NEW S, NEW s \in Seq(S), NEW t \in Seq(S), NEW r, s \o t = <<r>>,
           NEW k \in DOMAIN t
    PROVE  s = <<>> /\ t = <<r>> /\ k = 1
<1> DEFINE before == Len(s)
           after == Len(t)
<1>1. before \in Nat /\ after \in Nat /\ Len(s \o t) = before + after
  BY ConcatProperties
<1>2. Len(s \o t) = 1
  OBVIOUS
<1>3. k \in 1 .. after
  BY LenProperties
<1>4. before = 0 /\ after = 1 /\ k = 1
  <2> HIDE DEF before, after
  <2>1. before + after = 1
    BY ONLY <1>1, <1>2
  <2> QED  BY ONLY <1>1, <1>3, <2>1
<1>5. s = <<>>
  BY <1>4, EmptySeq
<1>6. <<>> \o t = t
  BY ConcatEmptySeq
<1>7. t = <<r>>
  BY <1>5, <1>6
<1> QED  BY <1>4, <1>5, <1>7

(* An ending that was told, or was not taken, is no longer on its way.     *)
Without(t, k) == SubSeq(t, 1, k - 1) \o SubSeq(t, k + 1, Len(t))

LEMMA WithoutType ==
    ASSUME NEW S, NEW t \in Seq(S), NEW k \in DOMAIN t
    PROVE  /\ Without(t, k) \in Seq(S)
           /\ t[k] \in S
           /\ Len(t) = 1 => Without(t, k) = <<>>
<1>1. k \in 1 .. Len(t) /\ Len(t) \in Nat
  BY LenProperties
<1>2. SubSeq(t, 1, k - 1) \in Seq(S) /\ SubSeq(t, k + 1, Len(t)) \in Seq(S)
  BY <1>1
<1>3. Without(t, k) \in Seq(S)
  BY <1>2, ConcatProperties DEF Without
<1>4. ASSUME Len(t) = 1
      PROVE  Without(t, k) = <<>>
  <2>1. k = 1
    BY <1>1, <1>4
  <2>2. Len(SubSeq(t, 1, k - 1)) = 0 /\ Len(SubSeq(t, k + 1, Len(t))) = 0
    BY <1>1, <1>4, <2>1, SubSeqProperties
  <2>3. SubSeq(t, 1, k - 1) = <<>> /\ SubSeq(t, k + 1, Len(t)) = <<>>
    BY <1>2, <2>2, EmptySeq
  <2> QED  BY <2>3, ConcatEmptySeq DEF Without
<1> QED  BY <1>1, <1>3, <1>4, ElementOfSeq

-----------------------------------------------------------------------------
(* A handler or a listener does something, the runs stay as they are.      *)

LEMMA AsksOn ==
    ASSUME TriggerInv, NEW m \in Message, NEW phase \in Asked, Asks(m, phase),
           UNCHANGED <<vars, replyTo, news, told, unsent, reopened>>,
           \/ asked[m] \in {"new", "matched"}
           \/ asked[m] = "started" /\ phase \in {"accepted", "chat"},
           Answered(m) => asked[m] = "started"
    PROVE  TriggerInv'
<1>1. UNCHANGED <<subtasks, runs, taskStatus, up, pipes, cancelKeys, verifyQueue,
                  described, retrying, attempts, ops>>
  BY DEF vars, database, memory
<1>2. /\ asked \in [Message -> Asked]
      /\ asked' = [asked EXCEPT ![m] = phase]
  BY DEF TriggerInv, TriggerTypeOK, Asks
<1>3. TriggerTypeOK'
  BY <1>1, <1>2 DEF TriggerInv, TriggerTypeOK, TypeOK
<1>4. OneRunning' /\ ChatsApart'
  BY <1>1 DEF TriggerInv, OneRunning, Running, ChatsApart
<1>5. AnsweredAsk'
  BY <1>1, <1>2 DEF TriggerInv, AnsweredAsk, Answered
<1>6. ToldTheEnd'
  <2> SUFFICES ASSUME NEW i \in DOMAIN runs \ reopened, replyTo[i] # NoMessage
               PROVE  /\ asked'[replyTo[i]] \in {"started", "accepted", "chat", "lost"}
                      /\ told[replyTo[i]] \o news[replyTo[i]] \in
                            IF runs[i] = "running" THEN {<<>>}
                            ELSE {<<runs[i]>>} \cup {e \in {<<>>} : replyTo[i] \in unsent}
    BY <1>1 DEF ToldTheEnd
  <2>1. /\ asked[replyTo[i]] \in {"started", "accepted", "chat", "lost"}
        /\ told[replyTo[i]] \o news[replyTo[i]] \in
              IF runs[i] = "running" THEN {<<>>}
              ELSE {<<runs[i]>>} \cup {e \in {<<>>} : replyTo[i] \in unsent}
    BY DEF TriggerInv, ToldTheEnd
  <2>2. replyTo[i] \in Message
    BY DEF TriggerInv, TriggerTypeOK
  <2>3. asked'[replyTo[i]] \in {"started", "accepted", "chat", "lost"}
    BY <1>2, <2>1, <2>2 DEF Answered
  <2> QED  BY <2>1, <2>3
<1> QED  BY <1>3, <1>4, <1>5, <1>6 DEF TriggerInv

(* A listener comes to one of its endings, and has told it or has not.     *)
LEMMA HeardOn ==
    ASSUME TriggerInv, NEW m \in Message, NEW k \in DOMAIN news[m], Heard(m, k),
           \/ told' = [told EXCEPT ![m] = Append(@, news[m][k])] /\ unsent' = unsent
           \/ told' = told /\ unsent' = unsent \cup {m},
           UNCHANGED <<vars, asked, replyTo, reopened>>
    PROVE  TriggerInv'
<1>1. UNCHANGED <<subtasks, runs, taskStatus, up, pipes, cancelKeys, verifyQueue,
                  described, retrying, attempts, ops>>
  BY DEF vars, database, memory
<1>2. /\ news \in [Message -> Seq(Endings)] /\ told \in [Message -> Seq(Endings)]
      /\ news[m] \in Seq(Endings) /\ told[m] \in Seq(Endings)
      /\ unsent \subseteq Message
  BY DEF TriggerInv, TriggerTypeOK
<1>3. /\ Without(news[m], k) \in Seq(Endings) /\ news[m][k] \in Endings
      /\ Len(news[m]) = 1 => Without(news[m], k) = <<>>
  BY <1>2, WithoutType
<1>4. news' = [news EXCEPT ![m] = Without(news[m], k)]
  BY DEF Heard, Without
<1>5. /\ news' \in [Message -> Seq(Endings)]
      /\ news'[m] = Without(news[m], k)
      /\ \A q \in Message : q # m => news'[q] = news[q]
  BY <1>2, <1>3, <1>4
<1>6. /\ told' \in [Message -> Seq(Endings)]
      /\ told'[m] = told[m] \/ told'[m] = Append(told[m], news[m][k])
      /\ \A q \in Message : q # m => told'[q] = told[q]
      /\ unsent' \subseteq Message /\ unsent \subseteq unsent'
  <2>1. Append(told[m], news[m][k]) \in Seq(Endings)
    BY <1>2, <1>3
  <2> QED  BY <1>2, <2>1
<1>7. TriggerTypeOK'
  BY <1>1, <1>5, <1>6 DEF TriggerInv, TriggerTypeOK, TypeOK
<1>8. OneRunning' /\ ChatsApart'
  BY <1>1 DEF TriggerInv, OneRunning, Running, ChatsApart
<1>9. news[m] # <<>>
  BY <1>2
<1>10. AnsweredAsk'
  BY <1>1, <1>5, <1>6, <1>9 DEF TriggerInv, AnsweredAsk, Answered
<1>11. ToldTheEnd'
  <2> SUFFICES ASSUME NEW i \in DOMAIN runs \ reopened, replyTo[i] # NoMessage
               PROVE  /\ asked[replyTo[i]] \in {"started", "accepted", "chat", "lost"}
                      /\ told'[replyTo[i]] \o news'[replyTo[i]] \in
                            IF runs[i] = "running" THEN {<<>>}
                            ELSE {<<runs[i]>>} \cup {e \in {<<>>} : replyTo[i] \in unsent'}
    BY <1>1 DEF ToldTheEnd
  <2>1. replyTo[i] \in Message
    BY DEF TriggerInv, TriggerTypeOK
  <2>2. /\ asked[replyTo[i]] \in {"started", "accepted", "chat", "lost"}
        /\ told[replyTo[i]] \o news[replyTo[i]] \in
              IF runs[i] = "running" THEN {<<>>}
              ELSE {<<runs[i]>>} \cup {e \in {<<>>} : replyTo[i] \in unsent}
    BY DEF TriggerInv, ToldTheEnd
  <2>3. CASE replyTo[i] # m
    BY <1>5, <1>6, <2>1, <2>2, <2>3
  <2>4. CASE replyTo[i] = m
    <3>1. told[m] \o news[m] # <<>>
      BY <1>2, <1>9, NothingJoined
    <3>2. runs[i] # "running" /\ told[m] \o news[m] = <<runs[i]>>
      BY <2>2, <2>4, <3>1
    <3>3. told[m] = <<>> /\ news[m] = <<runs[i]>> /\ k = 1
      BY <1>2, <3>2, OneJoined
    <3>4. news'[m] = <<>> /\ news[m][k] = runs[i]
      BY <1>3, <1>5, <3>3
    <3>5. told'[m] \o news'[m] = told'[m]
      BY <1>2, <1>6, <3>4, ConcatEmptySeq
    <3>6. (told' = told /\ m \in unsent') \/ told'[m] = <<runs[i]>>
      <4>1. Append(<<>>, runs[i]) = <<runs[i]>>
        OBVIOUS
      <4> QED  BY <1>2, <3>3, <3>4, <4>1
    <3> QED  BY <2>2, <2>4, <3>2, <3>3, <3>5, <3>6
  <2> QED  BY <2>3, <2>4
<1> QED  BY <1>7, <1>8, <1>10, <1>11 DEF TriggerInv

-----------------------------------------------------------------------------
(* The engine moves: a run may begin, for the message m or for nobody's,   *)
(* be reopened, or end.                                                    *)

LEMMA RepliesTo ==
    ASSUME TriggerInv, MovesRuns, NEW m \in Message \cup {NoMessage}, RunsReply(m)
    PROVE  /\ DOMAIN runs \subseteq DOMAIN runs'
           /\ replyTo' \in [DOMAIN runs' -> Message \cup {NoMessage}]
           /\ \A i \in DOMAIN runs : replyTo'[i] = replyTo[i]
           /\ \A i \in DOMAIN runs' \ DOMAIN runs :
                 NewRun /\ i = Len(runs) + 1 /\ replyTo'[i] = m
<1>1. TypeOK /\ replyTo \in [DOMAIN runs -> Message \cup {NoMessage}]
  BY DEF TriggerInv, TriggerTypeOK
<1>2. /\ DOMAIN runs = 1 .. Len(runs) /\ Len(runs) \in Nat
      /\ \/ Len(runs') = Len(runs) /\ DOMAIN runs' = DOMAIN runs
         \/ /\ NewRun
            /\ Len(runs') = Len(runs) + 1 /\ DOMAIN runs' = 1 .. Len(runs) + 1
  BY <1>1, RunsLength
<1>3. CASE Len(runs') = Len(runs) /\ DOMAIN runs' = DOMAIN runs
  <2>1. replyTo' = replyTo
    BY <1>2, <1>3 DEF RunsReply
  <2> QED  BY <1>1, <1>3, <2>1
<1>4. CASE NewRun /\ Len(runs') = Len(runs) + 1 /\ DOMAIN runs' = 1 .. Len(runs) + 1
  <2>1. replyTo' = Append(replyTo, m)
    BY <1>2, <1>4 DEF RunsReply
  <2>2. replyTo \in Seq(Message \cup {NoMessage}) /\ Len(replyTo) = Len(runs)
    BY <1>1, <1>2, SeqDef, LenProperties
  <2>3. /\ replyTo' \in Seq(Message \cup {NoMessage})
        /\ Len(replyTo') = Len(runs) + 1
        /\ \A i \in 1 .. Len(runs) : replyTo'[i] = replyTo[i]
        /\ replyTo'[Len(runs) + 1] = m
    BY <2>1, <2>2, AppendProperties
  <2>4. replyTo' \in [1 .. Len(runs) + 1 -> Message \cup {NoMessage}]
    BY <2>3, LenProperties, ElementOfSeq
  <2> QED  BY <1>2, <1>4, <2>3, <2>4
<1> QED  BY <1>2, <1>3, <1>4

(* No two runs answer one chat, the new one included: it is m's first.     *)
LEMMA RepliesApart ==
    ASSUME TriggerInv, MovesRuns, NEW m \in Message \cup {NoMessage}, RunsReply(m),
           m \in Message => ~Answered(m)
    PROVE  ChatsApart'
<1>1. /\ DOMAIN runs \subseteq DOMAIN runs'
      /\ \A i \in DOMAIN runs : replyTo'[i] = replyTo[i]
      /\ \A i \in DOMAIN runs' \ DOMAIN runs : i = Len(runs) + 1 /\ replyTo'[i] = m
  BY RepliesTo
<1>2. ChatsApart
  BY DEF TriggerInv
<1>3. \A i \in DOMAIN runs : replyTo[i] = m => m = NoMessage
  BY DEF Answered
<1> QED  BY <1>1, <1>2, <1>3 DEF ChatsApart

(* What each chat is about to be told: the ending of its run, if it ends.  *)
LEMMA NewsAre ==
    ASSUME TypeOK, MovesRuns, NewsFollows, ChatsApart', NEW q \in Message,
           NoMessage \notin Message, news \in [Message -> Seq(Endings)]
    PROVE  /\ \A i \in EndedNow : replyTo'[i] = q => news'[q] = news[q] \o <<runs'[i]>>
           /\ (\A i \in EndedNow : replyTo'[i] # q) => news'[q] = news[q]
<1>1. EndedNow \subseteq DOMAIN runs'
  BY DEF EndedNow
<1>2. news'[q] = IF \E i \in EndedNow : replyTo'[i] = q
                 THEN news[q] \o Posted(CHOOSE i \in EndedNow : replyTo'[i] = q)
                 ELSE news[q]
  BY DEF NewsFollows
<1>3. ASSUME NEW i \in EndedNow, replyTo'[i] = q
      PROVE  news'[q] = news[q] \o <<runs'[i]>>
  <2> DEFINE j == CHOOSE j \in EndedNow : replyTo'[j] = q
  <2>1. j \in EndedNow /\ replyTo'[j] = q
    BY <1>3
  <2>2. j = i
    <3> HIDE DEF j
    <3> QED  BY <1>1, <1>3, <2>1 DEF ChatsApart
  <2>3. news'[q] = news[q] \o Posted(j)
    BY <1>2, <1>3
  <2> HIDE DEF j
  <2> QED  BY <2>2, <2>3 DEF Posted
<1> QED  BY <1>2, <1>3

(* The handlers and the listeners follow: only the message m gets further, *)
(* if the new run is its, and what a retry reopened is remembered.         *)
LEMMA RunsTold ==
    ASSUME TriggerInv, TypeOK', MovesRuns,
           NEW m \in Message \cup {NoMessage}, RunsReply(m), NewsFollows,
           asked' \in [Message -> Asked],
           \A q \in Message \ {m} : asked'[q] = asked[q],
           m \in Message => /\ asked[m] = "matched" /\ NewRun
                            /\ asked'[m] \in {"started", "chat"},
           UNCHANGED <<told, unsent>>,
           reopened' \subseteq DOMAIN runs', reopened \subseteq reopened',
           RetriesNow /\ ~IsRunning(runs) /\ runs # <<>> => Len(runs) \in reopened'
    PROVE  TriggerInv'
<1>1. /\ TypeOK /\ OneRunning /\ runs \in Seq(RunStatus) /\ runs' \in Seq(RunStatus)
      /\ news \in [Message -> Seq(Endings)] /\ told \in [Message -> Seq(Endings)]
      /\ NoMessage \notin Message
  BY TriggerAssumption DEF TriggerInv, TriggerTypeOK, TypeOK
<1>2. m \in Message => ~Answered(m)
  BY DEF TriggerInv, AnsweredAsk
<1>3. /\ DOMAIN runs \subseteq DOMAIN runs'
      /\ replyTo' \in [DOMAIN runs' -> Message \cup {NoMessage}]
      /\ \A i \in DOMAIN runs : replyTo'[i] = replyTo[i]
      /\ \A i \in DOMAIN runs' \ DOMAIN runs :
            NewRun /\ i = Len(runs) + 1 /\ replyTo'[i] = m
  BY RepliesTo
<1>4. ChatsApart'
  BY <1>2, RepliesApart
<1>5. \A q \in Message :
         /\ \A i \in EndedNow : replyTo'[i] = q => news'[q] = news[q] \o <<runs'[i]>>
         /\ (\A i \in EndedNow : replyTo'[i] # q) => news'[q] = news[q]
  BY <1>1, <1>4, NewsAre
<1>6. news' \in [Message -> Seq(Endings)]
  <2>1. news' = [q \in Message |-> news'[q]]
    BY DEF NewsFollows
  <2>2. ASSUME NEW q \in Message  PROVE news'[q] \in Seq(Endings)
    <3>1. CASE \A i \in EndedNow : replyTo'[i] # q
      BY <1>1, <1>5, <3>1
    <3>2. ASSUME NEW i \in EndedNow, replyTo'[i] = q
          PROVE  news'[q] \in Seq(Endings)
      <4>1. i \in DOMAIN runs' /\ runs'[i] # "running"
        BY DEF EndedNow
      <4>2. runs'[i] \in Endings
        BY <1>1, <4>1, ElementOfSeq DEF Endings
      <4>3. <<runs'[i]>> \in Seq(Endings)
        BY <4>2
      <4>4. news'[q] = news[q] \o <<runs'[i]>>
        BY <1>5, <3>2
      <4> QED  BY <1>1, <4>3, <4>4, ConcatProperties
    <3> QED  BY <3>1, <3>2
  <2> QED  BY <2>1, <2>2
<1>7. TriggerTypeOK'
  BY <1>1, <1>3, <1>6 DEF TriggerInv, TriggerTypeOK
<1>8. OneRunning'
  BY <1>1, OneRunStays
<1>9. \A q \in Message : Answered(q)' <=> Answered(q) \/ (q = m /\ NewRun)
  <2>1. NewRun => \E i \in DOMAIN runs' \ DOMAIN runs : TRUE
    <3>1. ASSUME NewRun  PROVE Len(runs) + 1 \in DOMAIN runs' \ DOMAIN runs
      <4>1. PICK status \in RunStatus : runs' = Append(runs, status)
        BY <3>1 DEF NewRun, RunStatus
      <4> QED  BY <1>1, <4>1
    <3> QED  BY <3>1
  <2> QED  BY <1>3, <2>1 DEF Answered
<1>10. AnsweredAsk'
  <2> SUFFICES ASSUME NEW q \in Message
               PROVE  IF Answered(q)' THEN asked'[q] \notin {"new", "matched", "busy"}
                      ELSE told'[q] = <<>> /\ news'[q] = <<>>
    BY DEF AnsweredAsk
  <2>1. IF Answered(q) THEN asked[q] \notin {"new", "matched", "busy"}
        ELSE told[q] = <<>> /\ news[q] = <<>>
    BY DEF TriggerInv, AnsweredAsk
  <2>2. CASE Answered(q)'
    BY <1>9, <2>1, <2>2
  <2>3. CASE ~Answered(q)'
    <3>1. \A i \in EndedNow : replyTo'[i] # q
      BY <2>3 DEF EndedNow, Answered
    <3>2. news'[q] = news[q]
      BY <1>5, <3>1
    <3> QED  BY <1>9, <2>1, <2>3, <3>2
  <2> QED  BY <2>2, <2>3
<1>11. ToldTheEnd'
  <2> SUFFICES ASSUME NEW i \in DOMAIN runs' \ reopened', replyTo'[i] # NoMessage
               PROVE  /\ asked'[replyTo'[i]] \in {"started", "accepted", "chat", "lost"}
                      /\ told[replyTo'[i]] \o news'[replyTo'[i]] \in
                            IF runs'[i] = "running" THEN {<<>>}
                            ELSE {<<runs'[i]>>} \cup {e \in {<<>>} : replyTo'[i] \in unsent}
    BY DEF ToldTheEnd
  <2> DEFINE q == replyTo'[i]
  <2>1. q \in Message
    BY <1>3
  <2>2. ~(i \in DOMAIN runs /\ RetriesNow /\ ~IsRunning(runs) /\ i = Len(runs))
    BY <1>1
  <2>3. \A j \in EndedNow : replyTo'[j] = q => j = i
    BY <1>4 DEF EndedNow, ChatsApart
  <2>4. (i \in EndedNow => news'[q] = news[q] \o <<runs'[i]>>)
        /\ (i \notin EndedNow => news'[q] = news[q])
    BY <1>5, <2>1, <2>3
  <2>5. CASE i \in DOMAIN runs
    <3>1. q = replyTo[i] /\ i \notin reopened
      BY <1>3, <2>5
    <3>2. /\ asked[q] \in {"started", "accepted", "chat", "lost"}
          /\ told[q] \o news[q] \in
                IF runs[i] = "running" THEN {<<>>}
                ELSE {<<runs[i]>>} \cup {e \in {<<>>} : q \in unsent}
      BY <2>5, <3>1 DEF TriggerInv, ToldTheEnd
    <3>3. asked'[q] = asked[q]
      <4>1. q # m
        BY <1>2, <2>1, <2>5, <3>1 DEF Answered
      <4> QED  BY <2>1, <4>1
    <3>4. CASE i \in EndedNow
      <4>1. runs[i] = "running" /\ runs'[i] # "running"
        BY <2>2, <2>5, <3>4 DEF EndedNow
      <4>2. told[q] = <<>> /\ news[q] = <<>>
        BY <1>1, <2>1, <3>2, <4>1, NothingJoined
      <4>3. told[q] \o news'[q] = <<runs'[i]>>
        BY <2>4, <3>4, <4>2
      <4> QED  BY <3>2, <3>3, <4>1, <4>3
    <3>5. CASE i \notin EndedNow
      <4>1. runs'[i] = runs[i]
        BY <1>1, <2>2, <2>5, <3>5, EachRun
      <4> QED  BY <2>4, <3>2, <3>3, <3>5, <4>1
    <3> QED  BY <3>4, <3>5
  <2>6. CASE i \notin DOMAIN runs
    <3>1. q = m
      BY <1>3, <2>6
    <3>2. told[q] = <<>> /\ news[q] = <<>>
      BY <1>2, <2>1, <3>1 DEF TriggerInv, AnsweredAsk
    <3>3. asked'[q] \in {"started", "accepted", "chat", "lost"}
      BY <2>1, <3>1
    <3>4. CASE i \in EndedNow
      <4>1. told[q] \o news'[q] = <<runs'[i]>>
        BY <2>4, <3>2, <3>4
      <4>2. runs'[i] # "running"
        BY <3>4 DEF EndedNow
      <4> QED  BY <3>3, <4>1, <4>2
    <3>5. CASE i \notin EndedNow
      <4>1. told[q] \o news'[q] = <<>>
        BY <2>4, <3>2, <3>5
      <4>2. runs'[i] = "running"
        BY <2>6, <3>5 DEF EndedNow
      <4> QED  BY <3>3, <4>1, <4>2
    <3> QED  BY <3>4, <3>5
  <2> QED  BY <2>5, <2>6
<1> QED  BY <1>4, <1>7, <1>8, <1>10, <1>11 DEF TriggerInv

(* A crash: no handler and no listener goes on.                            *)
LEMMA CrashTold ==
    ASSUME TriggerInv, CrashAll
    PROVE  TriggerInv'
<1>1. TypeOK' /\ runs' = runs
  <2>1. TypeOK /\ Next
    BY DEF TriggerInv, TriggerTypeOK, CrashAll, Next, StepsNext
  <2> QED  BY <2>1, NextTypeOK DEF CrashAll, Crash, database
<1>2. /\ news' = [q \in Message |-> <<>>]
      /\ asked' = [q \in Message |-> IF asked[q] \in {"matched", "started"}
                                     THEN "lost" ELSE asked[q]]
      /\ unsent' = unsent \cup {q \in Message : news[q] # <<>>}
      /\ UNCHANGED <<replyTo, told, reopened>>
  BY DEF CrashAll
<1>3. /\ asked \in [Message -> Asked] /\ news \in [Message -> Seq(Endings)]
      /\ told \in [Message -> Seq(Endings)] /\ unsent \subseteq Message
      /\ replyTo \in [DOMAIN runs -> Message \cup {NoMessage}]
      /\ reopened \subseteq DOMAIN runs
  BY DEF TriggerInv, TriggerTypeOK
<1>4. TriggerTypeOK'
  <2>1. asked' \in [Message -> Asked]
    BY <1>2, <1>3 DEF Asked
  <2>2. news' \in [Message -> Seq(Endings)]
    BY <1>2
  <2> QED  BY <1>1, <1>2, <1>3, <2>1, <2>2 DEF TriggerTypeOK
<1>5. OneRunning' /\ ChatsApart'
  BY <1>1, <1>2 DEF TriggerInv, OneRunning, Running, ChatsApart
<1>6. AnsweredAsk'
  BY <1>1, <1>2, <1>3 DEF TriggerInv, AnsweredAsk, Answered
<1>7. ToldTheEnd'
  <2> SUFFICES ASSUME NEW i \in DOMAIN runs \ reopened, replyTo[i] # NoMessage
               PROVE  /\ asked'[replyTo[i]] \in {"started", "accepted", "chat", "lost"}
                      /\ told[replyTo[i]] \o news'[replyTo[i]] \in
                            IF runs[i] = "running" THEN {<<>>}
                            ELSE {<<runs[i]>>} \cup {e \in {<<>>} : replyTo[i] \in unsent'}
    BY <1>1, <1>2 DEF ToldTheEnd
  <2> DEFINE q == replyTo[i]
  <2>1. q \in Message
    BY <1>3
  <2>2. /\ asked[q] \in {"started", "accepted", "chat", "lost"}
        /\ told[q] \o news[q] \in
              IF runs[i] = "running" THEN {<<>>}
              ELSE {<<runs[i]>>} \cup {e \in {<<>>} : q \in unsent}
    BY DEF TriggerInv, ToldTheEnd
  <2>3. asked'[q] \in {"started", "accepted", "chat", "lost"}
    BY <1>2, <2>1, <2>2
  <2>4. told[q] \in Seq(Endings) /\ news[q] \in Seq(Endings) /\ news'[q] = <<>>
    BY <1>2, <1>3, <2>1
  <2>5. told[q] \o news'[q] = told[q]
    BY <2>4, ConcatEmptySeq
  <2>6. CASE news[q] = <<>>
    <3>1. told[q] \o news[q] = told[q]
      BY <2>4, <2>6, ConcatEmptySeq
    <3>2. q \in unsent => q \in unsent'
      BY <1>2
    <3> QED  BY <2>2, <2>3, <2>5, <3>1, <3>2
  <2>7. CASE news[q] # <<>>
    <3>1. told[q] \o news[q] # <<>>
      BY <2>4, <2>7, NothingJoined
    <3>2. runs[i] # "running" /\ told[q] \o news[q] = <<runs[i]>>
      BY <2>2, <3>1
    <3>3. 1 \in DOMAIN news[q]
      BY <2>4, <2>7
    <3>4. told[q] = <<>>
      BY <2>4, <3>2, <3>3, OneJoined
    <3>5. q \in unsent'
      BY <1>2, <2>1, <2>7
    <3> QED  BY <2>3, <2>5, <3>2, <3>4, <3>5
  <2> QED  BY <2>6, <2>7
<1> QED  BY <1>4, <1>5, <1>6, <1>7 DEF TriggerInv

-----------------------------------------------------------------------------
LEMMA TriggerNextInv == TriggerInv /\ [TriggerNext]_triggerVars => TriggerInv'
<1> SUFFICES ASSUME TriggerInv, [TriggerNext]_triggerVars PROVE TriggerInv'
  OBVIOUS
<1>0. /\ TypeOK /\ OneRunning /\ asked \in [Message -> Asked]
      /\ reopened \subseteq DOMAIN runs /\ runs \in Seq(RunStatus)
      /\ retrying \in [Step -> Nat] /\ ops \in Nat
  BY DEF TriggerInv, TriggerTypeOK, TypeOK
<1>1. ASSUME NEW m \in Message,
             \/ Match(m) \/ AlreadyRunning(m) \/ Acknowledge(m) \/ TriggerFails(m)
      PROVE  TriggerInv'
  <2>1. Answered(m) => asked[m] \notin {"new", "matched", "busy"}
    BY DEF TriggerInv, AnsweredAsk
  <2>2. PICK phase \in Asked :
           /\ Asks(m, phase)
           /\ \/ asked[m] \in {"new", "matched"}
              \/ asked[m] = "started" /\ phase \in {"accepted", "chat"}
    BY <1>1 DEF Match, AlreadyRunning, Acknowledge, TriggerFails, Asked
  <2>3. UNCHANGED <<vars, replyTo, news, told, unsent, reopened>>
    BY <1>1 DEF Match, AlreadyRunning, Acknowledge, TriggerFails
  <2> QED  BY <2>1, <2>2, <2>3, AsksOn
<1>2. ASSUME NEW m \in Message, NEW k \in DOMAIN news[m], Tell(m, k) \/ TellFails(m, k)
      PROVE  TriggerInv'
  <2>1. /\ Heard(m, k)
        /\ \/ told' = [told EXCEPT ![m] = Append(@, news[m][k])] /\ unsent' = unsent
           \/ told' = told /\ unsent' = unsent \cup {m}
        /\ UNCHANGED <<vars, asked, replyTo, reopened>>
    BY <1>2 DEF Tell, TellFails
  <2> QED  BY <2>1, HeardOn
<1>3. retrying' = retrying => ~RetriesNow
  BY <1>0 DEF RetriesNow
<1>4. ASSUME NEW m \in Message, StartFromMessage(m)
      PROVE  TriggerInv'
  <2>1. RunStarts(TRUE) /\ ops' = ops
    BY <1>4 DEF StartFromMessage
  <2>2. TypeOK' /\ NewRun
    BY <1>0, <2>1, RunStartsTypeOK, RunStartsMoves
  <2>3. ~RetriesNow
    BY <1>3, <2>1 DEF RunStarts
  <2>4. MovesRuns
    BY <2>2 DEF MovesRuns
  <2>5. /\ asked[m] = "matched" /\ RunsReply(m) /\ NewsFollows
        /\ asked' = [asked EXCEPT ![m] = IF StartThrew THEN "chat" ELSE "started"]
        /\ UNCHANGED <<told, unsent, reopened>>
    BY <1>4 DEF StartFromMessage, Asks
  <2>6. /\ asked' \in [Message -> Asked] /\ asked'[m] \in {"started", "chat"}
        /\ \A q \in Message \ {m} : asked'[q] = asked[q]
    BY <1>0, <2>5 DEF Asked
  <2>7. DOMAIN runs \subseteq DOMAIN runs'
    BY <2>4, <2>5, RepliesTo
  <2> QED  BY <1>0, <2>2, <2>3, <2>4, <2>5, <2>6, <2>7, RunsTold
<1>5. ASSUME EngineGoesOn \/ Restart
      PROVE  TriggerInv'
  <2>1. Next
    BY <1>5 DEF EngineGoesOn, Restart, Next, StepsNext
  <2>2. TypeOK' /\ MovesRuns
    BY <1>0, <2>1, NextTypeOK, RunsMove
  <2>3. /\ RunsReply(NoMessage) /\ NewsFollows
        /\ UNCHANGED <<asked, told, unsent>>
    BY <1>5 DEF EngineGoesOn, Restart
  <2>4. DOMAIN runs \subseteq DOMAIN runs'
    BY <2>2, <2>3, RepliesTo
  <2>5. NoMessage \notin Message
    BY TriggerAssumption
  <2>6. CASE Restart
    <3>1. retrying' = retrying /\ reopened' = reopened
      BY <2>6 DEF Restart, Recover
    <3> QED  BY <1>0, <1>3, <2>2, <2>3, <2>4, <2>5, <3>1, RunsTold
  <2>7. CASE EngineGoesOn
    <3>1. reopened' = reopened \cup
             IF RetriesNow /\ ~IsRunning(runs) THEN {Len(runs)} \ {0} ELSE {}
      BY <2>7 DEF EngineGoesOn
    <3>2. /\ Len(runs) \in Nat /\ DOMAIN runs = 1 .. Len(runs)
          /\ runs # <<>> => Len(runs) # 0
      BY <1>0, LenProperties, EmptySeq
    <3>3. {Len(runs)} \ {0} \subseteq DOMAIN runs
      BY <3>2
    <3>4. /\ reopened' \subseteq DOMAIN runs' /\ reopened \subseteq reopened'
          /\ RetriesNow /\ ~IsRunning(runs) /\ runs # <<>> => Len(runs) \in reopened'
      BY <1>0, <2>4, <3>1, <3>2, <3>3
    <3> QED  BY <1>0, <2>2, <2>3, <2>5, <3>4, RunsTold
  <2> QED  BY <1>5, <2>6, <2>7
<1>6. CASE UNCHANGED triggerVars
  BY <1>6 DEF triggerVars, chats, vars, database, memory, TriggerInv, TriggerTypeOK, TypeOK,
     OneRunning, Running, ChatsApart, AnsweredAsk, Answered, ToldTheEnd
<1> QED  BY <1>1, <1>2, <1>4, <1>5, <1>6, CrashTold DEF TriggerNext, Handles

(* Whoever's message started a run is told how it ended: once it has, once *)
(* only, and truly, whatever stops, late turns, crashes and recoveries     *)
(* race to end it, unless a call that failed or a crash lost the news.     *)
THEOREM TheEndIsTold == TriggerSpec => []ToldTheEnd
<1>1. TriggerInit => TriggerInv
  <2> SUFFICES ASSUME TriggerInit PROVE TriggerInv
    OBVIOUS
  <2>1. /\ runs = <<>> /\ replyTo = <<>> /\ reopened = {} /\ unsent = {}
        /\ asked = [m \in Message |-> "new"]
        /\ news = [m \in Message |-> <<>>] /\ told = [m \in Message |-> <<>>]
    BY DEF TriggerInit, Init
  <2>2. DOMAIN runs = {} /\ DOMAIN replyTo = {}
    BY <2>1
  <2>3. TypeOK
    BY InitTypeOK DEF TriggerInit
  <2>4. replyTo \in [DOMAIN runs -> Message \cup {NoMessage}]
    BY <2>1, <2>2
  <2>5. TriggerTypeOK
    BY <2>1, <2>3, <2>4 DEF TriggerTypeOK, Asked
  <2> QED  BY <2>1, <2>2, <2>5 DEF TriggerInv, OneRunning, Running, ChatsApart,
               AnsweredAsk, Answered, ToldTheEnd
<1>2. TriggerInv => ToldTheEnd
  BY DEF TriggerInv
<1> QED  BY <1>1, <1>2, TriggerNextInv, PTL DEF TriggerSpec

-----------------------------------------------------------------------------
(* The engine under the messages: what is proved of it alone still holds   *)
(* when messages start its runs, between any two of its steps.             *)

LEMMA EngineStep ==
    ASSUME [TriggerNext]_triggerVars
    PROVE  \/ [Next]_vars
           \/ (\E reset \in BOOLEAN : RunStarts(reset)) /\ ops' = ops
<1>1. ASSUME NEW m \in Message,
             \/ Match(m) \/ AlreadyRunning(m) \/ Acknowledge(m) \/ TriggerFails(m)
      PROVE  UNCHANGED vars
  BY <1>1 DEF Match, AlreadyRunning, Acknowledge, TriggerFails
<1>2. ASSUME NEW m \in Message, NEW k \in DOMAIN news[m], Tell(m, k) \/ TellFails(m, k)
      PROVE  UNCHANGED vars
  BY <1>2 DEF Tell, TellFails
<1>3. ASSUME NEW m \in Message, StartFromMessage(m)
      PROVE  RunStarts(TRUE) /\ ops' = ops
  BY <1>3 DEF StartFromMessage
<1>4. ASSUME EngineGoesOn \/ CrashAll \/ Restart  PROVE Next
  BY <1>4 DEF EngineGoesOn, CrashAll, Restart, Next, StepsNext
<1>5. CASE UNCHANGED triggerVars
  BY <1>5 DEF triggerVars
<1> QED  BY <1>1, <1>2, <1>3, <1>4, <1>5 DEF TriggerNext, Handles

LEMMA EngineInvStep ==
    ASSUME EngineInv, [TriggerNext]_triggerVars
    PROVE  /\ EngineInv'
           /\ MovesRuns \/ runs' = runs
<1>1. TypeOK /\ OneRunning /\ OrderInv
  BY DEF EngineInv, OrderInv
<1>2. CASE [Next]_vars
  BY <1>1, <1>2, NextInv, RunsMove DEF vars, database
<1>3. ASSUME NEW reset \in BOOLEAN, RunStarts(reset), ops' = ops
      PROVE  EngineInv' /\ MovesRuns
  <2>1. ops' \in Nat
    BY <1>1, <1>3 DEF TypeOK
  <2>2. TypeOK' /\ Kept
    BY <1>1, <1>3, <2>1, RunStartsTypeOK, RunStartsKept
  <2> QED  BY <1>1, <1>3, <2>2, StepInv, RunStartsMoves DEF EngineInv, MovesRuns
<1> QED  BY <1>2, <1>3, EngineStep

(* Messages that start runs, are answered as chat when a dispatch throws,  *)
(* and listeners that tell the ends leave the engine sound: one run, work  *)
(* for it and none without it, every step on a branch that was taken.      *)
THEOREM SoundWithMessages == TriggerSpec => []EngineInv
<1>1. TriggerInit => EngineInv
  BY InitInv DEF TriggerInit
<1>2. EngineInv /\ [TriggerNext]_triggerVars => EngineInv'
  BY EngineInvStep
<1> QED  BY <1>1, <1>2, PTL DEF TriggerSpec

(* A run that ended keeps its status, whoever's message comes: only a      *)
(* retry changes it, by reopening the latest run when none is going.       *)
THEOREM FirstFinisherWinsWithMessages == TriggerSpec => FinishedStays
<1> DEFINE Stays == \A i \in DOMAIN runs :
                      runs[i] # "running" /\ runs'[i] # runs[i]
                        => /\ i = Len(runs) /\ ~IsRunning(runs)
                           /\ \E s \in Step : retrying'[s] < retrying[s]
<1>1. EngineInv /\ [TriggerNext]_triggerVars => [Stays]_vars
  <2> SUFFICES ASSUME EngineInv, [TriggerNext]_triggerVars  PROVE Stays
    OBVIOUS
  <2>1. CASE MovesRuns
    BY <2>1, FinishedStep DEF EngineInv, OrderInv, RetriesNow
  <2>2. CASE runs' = runs
    BY <2>2
  <2> QED  BY <2>1, <2>2, EngineInvStep
<1> QED  BY <1>1, SoundWithMessages, PTL DEF TriggerSpec, FinishedStays

(* A gate's decision is final, although a message may start the run whose  *)
(* reset clears it.                                                        *)
THEOREM DecisionsAreFinalWithMessages == TriggerSpec => DecisionIsFinal
<1> DEFINE Final == \A g \in Gate : subtasks[g].decision # "none" =>
                      subtasks'[g].decision \in {"none", subtasks[g].decision}
<1>1. EngineInv /\ [TriggerNext]_triggerVars => [Final]_vars
  BY EngineStep, DecisionStep DEF EngineInv
<1> QED  BY <1>1, SoundWithMessages, PTL DEF TriggerSpec, DecisionIsFinal

(* The task goes where its run goes, the runs that messages start included:*)
(* no handler or listener that comes too late moves it.                    *)
THEOREM TaskFollowsItsRunWithMessages == TriggerSpec => TaskFollowsRun
<1>1. TriggerInit => DescribedExist
  BY DEF TriggerInit, Init, DescribedExist
<1>2. EngineInv /\ DescribedExist /\ [TriggerNext]_triggerVars
        => DescribedExist' /\ (Follows \/ UNCHANGED vars)
  BY EngineStep, FollowStep DEF EngineInv, DescribedExist, vars, database, memory
<1>3. EngineInv /\ DescribedExist /\ [TriggerNext]_triggerVars =>
        [/\ ~IsRunning(runs) /\ IsRunning(runs') => taskStatus' = "in_progress"
         /\ IsRunning(runs) /\ ~IsRunning(runs') =>
               taskStatus' = IF \E i \in Running(runs) : runs'[i] = "completed"
                             THEN "review" ELSE "todo"
         /\ runs' = runs /\ ops' = ops /\ retrying' = retrying =>
               taskStatus' = taskStatus]_vars
  BY <1>2 DEF Follows
<1> QED  BY <1>1, <1>2, <1>3, SoundWithMessages, PTL DEF TriggerSpec, TaskFollowsRun

(* The engine and its messages implement WorkflowRun together: a message   *)
(* is one more way to create a run, and no way around its rules.           *)
THEOREM MessagesImplementRun ==
    ASSUME Step # {}
    PROVE  TriggerSpec => ImplementsRun
<1>1. TriggerInit => Abstract!Init
  BY DEF TriggerInit, Init, Abstract!Init, InProgress, FreshRow
<1>2. EngineInv /\ EngineInv' /\ [TriggerNext]_triggerVars
        => [Abstract!Next]_<<runs, InProgress(subtasks)>>
  BY EngineInvStep, RunsImplement
<1> QED  BY <1>1, <1>2, SoundWithMessages, PTL DEF TriggerSpec, ImplementsRun, Abstract!Spec
=============================================================================
