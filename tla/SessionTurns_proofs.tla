-------------------------- MODULE SessionTurns_proofs --------------------------
(***************************************************************************)
(* What holds of the transcripts of a session and of its turns.            *)
(*                                                                         *)
(* First of RepairScan: a repaired history is one a provider accepts, and  *)
(* a healthy one is kept, and nothing said is lost, for any calls and any  *)
(* length of the transcript.                                               *)
(*                                                                         *)
(* Then of SessionTurns: what the clients of a session are shown of its    *)
(* runs and told of their ends, and the log its turns leave, for any       *)
(* number of runs, clients, rounds, calls, deltas, failures and restarts.  *)
(* TurnInv is inductive: the buffer of a run is what the run said as long  *)
(* as nobody heard it end, and a subscription is either to a buffered run  *)
(* or to one whose end was heard.                                          *)
(***************************************************************************)
EXTENDS SessionTurns, RepairScan, SequenceTheorems, TLAPS

-----------------------------------------------------------------------------
(* Sequences a provider accepts                                            *)

Plain(m) == ~Declares(m) /\ ~IsToolResult(m)

(* Messages that neither call nor answer need nothing around them.         *)
LEMMA PlainWellFormed ==
    ASSUME NEW h, \A k \in 1..Len(h) : Plain(h[k])
    PROVE  WellFormed(h)
  BY DEF WellFormed, Plain

(* Two accepted histories, one after the other, make an accepted one.      *)
LEMMA ConcatWellFormed ==
    ASSUME NEW a \in Seq(Message), NEW b \in Seq(Message),
           WellFormed(a), WellFormed(b)
    PROVE  a \o b \in Seq(Message) /\ WellFormed(a \o b)
<1> DEFINE h == a \o b
           n == Len(a)
           l == Len(b)
<1>1. /\ n \in Nat /\ l \in Nat
      /\ h \in Seq(Message) /\ Len(h) = n + l
      /\ \A i \in 1..n : h[i] = a[i]
      /\ \A i \in 1..l : h[n + i] = b[i]
  BY ConcatProperties, LenProperties
<1>2. /\ \A k \in 1..n : /\ IsToolResult(a[k]) => FollowsItsCall(a, k)
                         /\ Declares(a[k]) => IsAnswered(a, k)
      /\ \A k \in 1..l : /\ IsToolResult(b[k]) => FollowsItsCall(b, k)
                         /\ Declares(b[k]) => IsAnswered(b, k)
  BY DEF WellFormed
<1> HIDE DEF h, n, l
<1>3. ASSUME NEW k \in 1..n, IsToolResult(h[k])
      PROVE  FollowsItsCall(h, k)
  <2>1. FollowsItsCall(a, k)
    BY <1>1, <1>2, <1>3
  <2>2. PICK i \in 1..(k - 1) :
            /\ Declares(a[i]) /\ a[k].ids \subseteq a[i].ids
            /\ \A j \in (i + 1)..k : IsToolResult(a[j])
            /\ \A j \in (i + 1)..(k - 1) : a[j].ids \cap a[k].ids = {}
    BY <2>1 DEF FollowsItsCall, OnlyResults
  <2>3. \A j \in i..k : j \in 1..n /\ h[j] = a[j]
    <3>1. i..k \subseteq 1..n
      BY <1>1
    <3> QED  BY <1>1, <3>1
  <2>4. /\ Declares(h[i]) /\ h[k].ids \subseteq h[i].ids
        /\ \A j \in (i + 1)..k : IsToolResult(h[j])
    <3>1. i \in i..k /\ k \in i..k /\ (i + 1)..k \subseteq i..k
      OBVIOUS
    <3> QED  BY <2>2, <2>3, <3>1
  <2>5. \A j \in (i + 1)..(k - 1) : h[j].ids \cap h[k].ids = {}
    <3>1. k \in i..k /\ (i + 1)..(k - 1) \subseteq i..k
      OBVIOUS
    <3> QED  BY <2>2, <2>3, <3>1
  <2> QED  BY <2>4, <2>5 DEF FollowsItsCall, OnlyResults
<1>4. ASSUME NEW k \in 1..n, Declares(h[k])
      PROVE  IsAnswered(h, k)
  <2>1. IsAnswered(a, k)
    BY <1>1, <1>2, <1>4
  <2>2. SUFFICES ASSUME NEW c \in h[k].ids
                 PROVE  \E q \in (k + 1)..Len(h) :
                            h[q].ids = {c} /\ OnlyResults(h, k + 1, q)
    BY DEF IsAnswered
  <2>3. PICK q \in (k + 1)..n :
            a[q].ids = {c} /\ \A j \in (k + 1)..q : IsToolResult(a[j])
    BY <1>1, <2>1 DEF IsAnswered, OnlyResults, n
  <2>4. \A j \in (k + 1)..q : h[j] = a[j]
    <3>1. (k + 1)..q \subseteq 1..n
      BY <1>1
    <3> QED  BY <1>1, <3>1
  <2>5. q \in (k + 1)..Len(h) /\ h[q].ids = {c}
    <3>1. q \in (k + 1)..Len(h) /\ q \in 1..n
      BY <1>1
    <3> QED  BY <1>1, <2>3, <3>1
  <2> QED  BY <2>3, <2>4, <2>5 DEF OnlyResults
<1>5. ASSUME NEW p \in 1..l, IsToolResult(h[n + p])
      PROVE  FollowsItsCall(h, n + p)
  <2>1. FollowsItsCall(b, p)
    BY <1>1, <1>2, <1>5
  <2>2. PICK i \in 1..(p - 1) :
            /\ Declares(b[i]) /\ b[p].ids \subseteq b[i].ids
            /\ \A j \in (i + 1)..p : IsToolResult(b[j])
            /\ \A j \in (i + 1)..(p - 1) : b[j].ids \cap b[p].ids = {}
    BY <2>1 DEF FollowsItsCall, OnlyResults
  <2>3. \A j \in (n + i)..(n + p) : j - n \in i..p /\ h[j] = b[j - n]
    <3>1. \A j \in (n + i)..(n + p) : j - n \in i..p /\ j - n \in 1..l
                                      /\ j = n + (j - n)
      BY <1>1
    <3> QED  BY <1>1, <3>1
  <2> DEFINE first == n + i
             last  == n + p
  <2>4. /\ first \in 1..(last - 1)
        /\ h[first] = b[i] /\ h[last] = b[p]
    BY <1>1
  <2>5. \A j \in (first + 1)..last : IsToolResult(h[j])
    <3>1. \A j \in (first + 1)..last : j - n \in (i + 1)..p /\ j \in first..last
      BY <1>1
    <3> QED  BY <2>2, <2>3, <3>1
  <2>6. \A j \in (first + 1)..(last - 1) : h[j].ids \cap h[last].ids = {}
    <3>1. \A j \in (first + 1)..(last - 1) :
              j - n \in (i + 1)..(p - 1) /\ j \in first..last
      BY <1>1
    <3> QED  BY <2>2, <2>3, <2>4, <3>1
  <2> HIDE DEF first, last
  <2>7. Declares(h[first]) /\ h[last].ids \subseteq h[first].ids
    BY <2>2, <2>4
  <2>8. FollowsItsCall(h, last)
    BY <2>4, <2>5, <2>6, <2>7 DEF FollowsItsCall, OnlyResults
  <2> QED  BY <2>8 DEF last
<1>6. ASSUME NEW p \in 1..l, Declares(h[n + p])
      PROVE  IsAnswered(h, n + p)
  <2>1. IsAnswered(b, p)
    BY <1>1, <1>2, <1>6
  <2>2. SUFFICES ASSUME NEW c \in h[n + p].ids
                 PROVE  \E q \in (n + p + 1)..Len(h) :
                            h[q].ids = {c} /\ OnlyResults(h, n + p + 1, q)
    BY DEF IsAnswered
  <2>3. PICK q \in (p + 1)..l :
            b[q].ids = {c} /\ \A j \in (p + 1)..q : IsToolResult(b[j])
    BY <1>1, <2>1 DEF IsAnswered, OnlyResults, l
  <2>4. n + q \in (n + p + 1)..Len(h) /\ h[n + q].ids = {c}
    <3>1. q \in 1..l /\ n + q \in (n + p + 1)..Len(h)
      BY <1>1
    <3> QED  BY <1>1, <2>3, <3>1
  <2>5. \A j \in (n + p + 1)..(n + q) : IsToolResult(h[j])
    <3>1. \A j \in (n + p + 1)..(n + q) :
              j - n \in (p + 1)..q /\ j - n \in 1..l /\ j = n + (j - n)
      BY <1>1
    <3> QED  BY <1>1, <2>3, <3>1
  <2> QED  BY <2>4, <2>5 DEF OnlyResults
<1>7. \A k \in 1..Len(h) : k \in 1..n \/ \E p \in 1..l : k = n + p
  <2>1. \A k \in 1..Len(h) : k \in 1..n \/ (k - n \in 1..l /\ k = n + (k - n))
    BY <1>1
  <2> QED  BY <2>1
<1>8. WellFormed(h)
  BY <1>3, <1>4, <1>5, <1>6, <1>7 DEF WellFormed
<1> QED  BY <1>1, <1>8 DEF h

(* What a closed group leaves is accepted: complete, or without its calls. *)
LEMMA SettledWellFormed ==
    ASSUME NEW g \in Seq(Message), g # <<>>, GroupOk(g)
    PROVE  Settled(g) \in Seq(Message) /\ WellFormed(Settled(g))
<1>1. /\ Len(g) \in Nat /\ Len(g) >= 1 /\ g[1] \in Message /\ Head(g) = g[1]
      /\ \A k \in 1..Len(g) : g[k] \in Message
  BY EmptySeq, ElementOfSeq, LenProperties
<1>2. /\ Declares(g[1])
      /\ \A k \in 2..Len(g) :
             /\ IsToolResult(g[k])
             /\ \E c \in g[1].ids : g[k].ids = {c}
             /\ \A j \in 2..(k - 1) : g[j].ids \cap g[k].ids = {}
  BY DEF GroupOk
<1>3. CASE Missing(g) = {}
  <2>1. \A c \in g[1].ids : \E k \in 2..Len(g) : g[k].ids = {c}
    <3>1. \A c \in g[1].ids : \E k \in 2..Len(g) : c \in g[k].ids
      BY <1>1, <1>3 DEF Missing
    <3>2. ASSUME NEW c \in g[1].ids, NEW k \in 2..Len(g), c \in g[k].ids
          PROVE  g[k].ids = {c}
      <4>1. PICK d \in g[1].ids : g[k].ids = {d}
        BY <1>2
      <4> QED  BY <3>2, <4>1
    <3> QED  BY <3>1, <3>2
  <2>2. ASSUME NEW k \in 1..Len(g), IsToolResult(g[k])
        PROVE  FollowsItsCall(g, k)
    <3>1. k \in 2..Len(g)
      BY <1>1, <1>2, <2>2 DEF Declares, IsToolResult
    <3>2. /\ 1 \in 1..(k - 1)
          /\ \A j \in 2..k : j \in 2..Len(g)
          /\ 1 + 1 = 2
      BY <1>1, <3>1
    <3>3. g[k].ids \subseteq g[1].ids
      BY <1>2, <3>1
    <3> QED  BY <1>2, <3>1, <3>2, <3>3 DEF FollowsItsCall, OnlyResults
  <2>3. ASSUME NEW k \in 1..Len(g), Declares(g[k])
        PROVE  IsAnswered(g, k)
    <3>1. k = 1
      BY <1>1, <1>2, <2>3 DEF Declares, IsToolResult
    <3>2. \A q \in 2..Len(g) : \A j \in 2..q : IsToolResult(g[j])
      BY <1>1, <1>2
    <3>3. ASSUME NEW c \in g[1].ids
          PROVE  \E q \in 2..Len(g) : g[q].ids = {c} /\ OnlyResults(g, 2, q)
      BY <2>1, <3>2 DEF OnlyResults
    <3>4. 1 + 1 = 2
      OBVIOUS
    <3> QED  BY <3>1, <3>3, <3>4 DEF IsAnswered
  <2> QED  BY <1>3, <2>2, <2>3 DEF Settled, WellFormed
<1>4. CASE Missing(g) # {}
  <2> DEFINE s == StripToolCalls(g[1])
  <2>1. s \in Message /\ Plain(s)
    BY <1>1, <1>2 DEF StripToolCalls, Message, Plain, Declares, IsToolResult
  <2>2. Settled(g) = <<s>>
    BY <1>1, <1>4 DEF Settled
  <2> HIDE DEF s
  <2>3. <<s>> \in Seq(Message) /\ \A k \in 1..Len(<<s>>) : Plain(<<s>>[k])
    BY <2>1
  <2> QED  BY <2>2, <2>3, PlainWellFormed
<1> QED  BY <1>3, <1>4

-----------------------------------------------------------------------------
(* Where a history splits into what came before a group and the group      *)

LEMMA SplitAt ==
    ASSUME NEW h \in Seq(Message), NEW i \in 1..Len(h)
    PROVE  /\ Before(h, i) \in Seq(Message) /\ Len(Before(h, i)) = i - 1
           /\ \A k \in 1..(i - 1) : Before(h, i)[k] = h[k]
           /\ From(h, i) \in Seq(Message) /\ Len(From(h, i)) = Len(h) - i + 1
           /\ From(h, i) # <<>> /\ From(h, i)[1] = h[i]
           /\ \A k \in 1..(Len(h) - i + 1) : From(h, i)[k] = h[i + k - 1]
           /\ Head(From(h, i)) = h[i]
           /\ h = Before(h, i) \o From(h, i)
<1>1. Len(h) \in Nat /\ i \in Int /\ i - 1 \in Int /\ 1 \in Int /\ 1 <= i /\ i <= Len(h)
  BY LenProperties
<1>2. \A k \in 1..Len(h) : h[k] \in Message
  BY ElementOfSeq
<1>3. /\ SubSeq(h, 1, i - 1) \in Seq(Message)
      /\ Len(SubSeq(h, 1, i - 1)) = i - 1
      /\ \A k \in 1..(i - 1) : SubSeq(h, 1, i - 1)[k] = h[k]
  BY <1>1, <1>2, SubSeqProperties
<1>4. /\ SubSeq(h, i, Len(h)) \in Seq(Message)
      /\ Len(SubSeq(h, i, Len(h))) = Len(h) - i + 1
      /\ \A k \in 1..(Len(h) - i + 1) : SubSeq(h, i, Len(h))[k] = h[i + k - 1]
  BY <1>1, <1>2, SubSeqProperties
<1> DEFINE p == SubSeq(h, 1, i - 1)
           g == SubSeq(h, i, Len(h))
<1>5. 1 \in 1..Len(g) /\ i + 1 - 1 = i
  BY <1>1, <1>4
<1> HIDE DEF p, g
<1>6. g # <<>> /\ g[1] = h[i] /\ Head(g) = h[i]
  <2>1. g[1] = h[i]
    BY <1>4, <1>5 DEF g
  <2>2. g # <<>>
    BY <1>5, EmptySeq
  <2> QED  BY <2>1, <2>2, <1>4, HeadTailProperties DEF g
<1>7. h = p \o g
  <2>1. /\ p \o g \in Seq(Message) /\ Len(p \o g) = Len(h)
        /\ \A k \in 1..Len(p) : (p \o g)[k] = p[k]
        /\ \A k \in 1..Len(g) : (p \o g)[Len(p) + k] = g[k]
    BY <1>1, <1>3, <1>4, ConcatProperties DEF p, g
  <2>2. ASSUME NEW k \in 1..Len(h)
        PROVE  h[k] = (p \o g)[k]
    <3>1. CASE k \in 1..(i - 1)
      BY <1>3, <2>1, <3>1 DEF p
    <3>2. CASE k \notin 1..(i - 1)
      <4>1. k - i + 1 \in 1..Len(g) /\ k = Len(p) + (k - i + 1) /\ i + (k - i + 1) - 1 = k
        BY <1>1, <1>3, <1>4, <3>2 DEF p, g
      <4>2. (p \o g)[k] = g[k - i + 1]
        BY <2>1, <4>1
      <4>3. g[k - i + 1] = h[i + (k - i + 1) - 1]
        BY <1>4, <4>1 DEF g
      <4> QED  BY <4>1, <4>2, <4>3
    <3> QED  BY <3>1, <3>2
  <2> QED  BY <2>1, <2>2, SeqEqual
<1> QED  BY <1>3, <1>4, <1>6, <1>7 DEF Before, From, p, g

LEMMA Appended ==
    ASSUME NEW h \in Seq(Message), NEW m \in Message
    PROVE  /\ Append(h, m) \in Seq(Message) /\ Len(h) \in Nat
           /\ Len(Append(h, m)) = Len(h) + 1
           /\ \A k \in 1..Len(h) : Append(h, m)[k] = h[k]
           /\ Append(h, m)[Len(h) + 1] = m
  BY AppendProperties, LenProperties

(* The split stays where it was when a message comes.                      *)
LEMMA SplitAppend ==
    ASSUME NEW h \in Seq(Message), NEW m \in Message, NEW i \in 1..Len(h)
    PROVE  /\ i \in 1..Len(Append(h, m))
           /\ Before(Append(h, m), i) = Before(h, i)
           /\ From(Append(h, m), i) = Append(From(h, i), m)
<1> DEFINE a == Append(h, m)
<1>1. /\ a \in Seq(Message) /\ Len(a) = Len(h) + 1 /\ Len(h) \in Nat
      /\ \A k \in 1..Len(h) : a[k] = h[k]
      /\ a[Len(h) + 1] = m
  BY Appended
<1> HIDE DEF a
<1>2. i \in 1..Len(a)
  BY <1>1
<1>3. /\ Before(h, i) \in Seq(Message) /\ Len(Before(h, i)) = i - 1
      /\ \A k \in 1..(i - 1) : Before(h, i)[k] = h[k]
      /\ From(h, i) \in Seq(Message) /\ Len(From(h, i)) = Len(h) - i + 1
      /\ \A k \in 1..(Len(h) - i + 1) : From(h, i)[k] = h[i + k - 1]
  BY SplitAt
<1>4. /\ Before(a, i) \in Seq(Message) /\ Len(Before(a, i)) = i - 1
      /\ \A k \in 1..(i - 1) : Before(a, i)[k] = a[k]
      /\ From(a, i) \in Seq(Message) /\ Len(From(a, i)) = Len(a) - i + 1
      /\ \A k \in 1..(Len(a) - i + 1) : From(a, i)[k] = a[i + k - 1]
  BY <1>1, <1>2, SplitAt
<1>5. Before(a, i) = Before(h, i)
  <2>1. \A k \in 1..(i - 1) : k \in 1..Len(h)
    BY <1>1
  <2>2. \A k \in 1..Len(Before(a, i)) : Before(a, i)[k] = Before(h, i)[k]
    BY <1>1, <1>3, <1>4, <2>1
  <2> QED  BY <1>3, <1>4, <2>2, SeqEqual
<1> DEFINE b == Append(From(h, i), m)
<1>6. /\ b \in Seq(Message) /\ Len(b) = Len(h) - i + 1 + 1
      /\ \A k \in 1..(Len(h) - i + 1) : b[k] = From(h, i)[k]
      /\ b[Len(h) - i + 1 + 1] = m
  <2> DEFINE f == From(h, i)
             n == Len(f)
  <2>1. f \in Seq(Message) /\ n = Len(h) - i + 1
    BY <1>3
  <2> HIDE DEF f
  <2>2. /\ Append(f, m) \in Seq(Message)
        /\ Len(Append(f, m)) = n + 1
        /\ \A k \in 1..n : Append(f, m)[k] = f[k]
        /\ Append(f, m)[n + 1] = m
    BY <2>1, Appended
  <2> HIDE DEF n
  <2> QED  BY <2>1, <2>2 DEF f
<1> HIDE DEF b
<1>7. \A k \in 1..Len(b) : From(a, i)[k] = b[k]
  <2> SUFFICES ASSUME NEW k \in 1..Len(b)  PROVE From(a, i)[k] = b[k]
    OBVIOUS
  <2>1. CASE k = Len(h) - i + 1 + 1
    <3>1. i + k - 1 = Len(h) + 1 /\ k \in 1..(Len(a) - i + 1)
      BY <1>1, <2>1
    <3>2. From(a, i)[k] = a[i + k - 1]
      BY <1>4, <3>1
    <3> QED  BY <1>1, <1>6, <2>1, <3>1, <3>2
  <2>2. CASE k # Len(h) - i + 1 + 1
    <3>1. /\ k \in 1..(Len(h) - i + 1) /\ i + k - 1 \in 1..Len(h)
          /\ k \in 1..(Len(a) - i + 1)
      BY <1>1, <1>6, <2>2
    <3>2. From(a, i)[k] = a[i + k - 1] /\ b[k] = h[i + k - 1]
      BY <1>3, <1>4, <1>6, <3>1
    <3> QED  BY <1>1, <3>1, <3>2
  <2> QED  BY <2>1, <2>2
<1>8. Len(From(a, i)) = Len(b)
  BY <1>1, <1>4, <1>6
<1>9. From(a, i) = b
  BY <1>4, <1>6, <1>7, <1>8, SeqEqual
<1> QED  BY <1>2, <1>5, <1>9 DEF a, b

LEMMA SplitLast ==
    ASSUME NEW h \in Seq(Message), NEW m \in Message
    PROVE  /\ Len(h) + 1 \in 1..Len(Append(h, m))
           /\ Before(Append(h, m), Len(h) + 1) = h
           /\ From(Append(h, m), Len(h) + 1) = <<m>>
<1> DEFINE a == Append(h, m)
           l == Len(h) + 1
<1>1. /\ a \in Seq(Message) /\ Len(a) = l /\ Len(h) \in Nat
      /\ \A k \in 1..Len(h) : a[k] = h[k]
      /\ a[l] = m /\ l \in 1..Len(a)
      /\ l - 1 = Len(h) /\ Len(a) - l + 1 = 1
  BY Appended
<1> HIDE DEF a, l
<1>2. /\ Before(a, l) \in Seq(Message) /\ Len(Before(a, l)) = Len(h)
      /\ \A k \in 1..Len(h) : Before(a, l)[k] = a[k]
      /\ From(a, l) \in Seq(Message) /\ Len(From(a, l)) = 1
      /\ From(a, l)[1] = a[l]
  <2>1. /\ Before(a, l) \in Seq(Message) /\ Len(Before(a, l)) = l - 1
        /\ \A k \in 1..(l - 1) : Before(a, l)[k] = a[k]
        /\ From(a, l) \in Seq(Message) /\ Len(From(a, l)) = Len(a) - l + 1
        /\ From(a, l)[1] = a[l]
    BY <1>1, SplitAt
  <2> QED  BY <1>1, <2>1
<1>3. Before(a, l) = h
  BY <1>1, <1>2, SeqEqual
<1>4. From(a, l) = <<m>>
  <2>1. <<m>> \in Seq(Message) /\ Len(<<m>>) = 1 /\ <<m>>[1] = m
    OBVIOUS
  <2>2. \A k \in 1..1 : From(a, l)[k] = <<m>>[k]
    BY <1>1, <1>2, <2>1
  <2> QED  BY <1>2, <2>1, <2>2, SeqEqual
<1> QED  BY <1>1, <1>3, <1>4 DEF a, l

(* A group takes a result it waits for, and then waits for the others.     *)
LEMMA GroupTakes ==
    ASSUME NEW g \in Seq(Message), g # <<>>, GroupOk(g),
           NEW m \in Message, IsToolResult(m), NEW c, m.ids = {c}, c \in Missing(g)
    PROVE  /\ Append(g, m) \in Seq(Message) /\ Append(g, m) # <<>>
           /\ GroupOk(Append(g, m))
           /\ Missing(Append(g, m)) = Missing(g) \ {c}
<1> DEFINE h == Append(g, m)
<1>1. /\ h \in Seq(Message) /\ Len(h) = Len(g) + 1
      /\ \A k \in 1..Len(g) : h[k] = g[k]
      /\ h[Len(g) + 1] = m
      /\ Len(g) \in Nat /\ Len(g) >= 1
      /\ Head(g) = g[1]
  BY Appended, EmptySeq, HeadTailProperties
<1> HIDE DEF h
<1>2. h # <<>> /\ Head(h) = h[1] /\ h[1] = g[1]
  BY <1>1, EmptySeq, HeadTailProperties
<1>3. c \in g[1].ids /\ \A k \in 2..Len(g) : c \notin g[k].ids
  BY <1>1 DEF Missing
<1>4. /\ Declares(g[1])
      /\ \A k \in 2..Len(g) :
             /\ IsToolResult(g[k])
             /\ \E d \in g[1].ids : g[k].ids = {d}
             /\ \A j \in 2..(k - 1) : g[j].ids \cap g[k].ids = {}
  BY DEF GroupOk
<1>5. ASSUME NEW k \in 2..Len(h)
      PROVE  /\ IsToolResult(h[k])
             /\ \E d \in h[1].ids : h[k].ids = {d}
             /\ \A j \in 2..(k - 1) : h[j].ids \cap h[k].ids = {}
  <2>1. CASE k = Len(g) + 1
    BY <1>1, <1>2, <1>3, <2>1
  <2>2. CASE k \in 2..Len(g)
    <3>1. \A j \in 2..k : h[j] = g[j]
      BY <1>1, <2>2
    <3>2. h[k] = g[k] /\ \A j \in 2..(k - 1) : h[j] = g[j]
      BY <2>2, <3>1
    <3>3. /\ IsToolResult(g[k])
          /\ \E d \in g[1].ids : g[k].ids = {d}
          /\ \A j \in 2..(k - 1) : g[j].ids \cap g[k].ids = {}
      BY <1>4, <2>2
    <3> QED  BY <1>2, <3>2, <3>3
  <2> QED  BY <1>1, <2>1, <2>2
<1>6. UNION {h[k].ids : k \in 2..Len(h)} = (UNION {g[k].ids : k \in 2..Len(g)}) \cup {c}
  <2>1. 2..Len(h) = (2..Len(g)) \cup {Len(g) + 1}
    BY <1>1
  <2>2. \A k \in 2..Len(g) : h[k] = g[k]
    BY <1>1
  <2> QED  BY <1>1, <2>1, <2>2
<1>7. Missing(h) = Missing(g) \ {c}
  BY <1>1, <1>2, <1>6 DEF Missing
<1>8. GroupOk(h)
  BY <1>2, <1>4, <1>5 DEF GroupOk
<1> QED  BY <1>1, <1>2, <1>7, <1>8 DEF h

(* A turn with calls opens a group,                                        *)
LEMMA GroupOpens ==
    ASSUME NEW h \in Seq(Message), WellFormed(h), NEW m \in Message, Declares(m)
    PROVE  /\ GroupAt(Append(h, m), Len(h) + 1)
           /\ Missing(From(Append(h, m), Len(h) + 1)) = m.ids
<1>1. <<m>> # <<>> /\ Len(<<m>>) = 1 /\ <<m>>[1] = m /\ Head(<<m>>) = m /\ 2..1 = {}
  OBVIOUS
<1>2. GroupOk(<<m>>) /\ Missing(<<m>>) = m.ids
  BY <1>1 DEF GroupOk, Missing
<1> QED  BY <1>2, SplitLast DEF GroupAt

(* results fill it,                                                        *)
LEMMA GroupFills ==
    ASSUME NEW h \in Seq(Message), NEW i \in 1..Len(h), GroupAt(h, i),
           NEW m \in Message, IsToolResult(m),
           NEW c, m.ids = {c}, c \in Missing(From(h, i))
    PROVE  /\ GroupAt(Append(h, m), i)
           /\ Missing(From(Append(h, m), i)) = Missing(From(h, i)) \ {c}
<1> DEFINE g == From(h, i)
<1>1. g \in Seq(Message) /\ g # <<>> /\ GroupOk(g) /\ c \in Missing(g)
  BY SplitAt DEF GroupAt
<1>2. /\ i \in 1..Len(Append(h, m)) /\ Before(Append(h, m), i) = Before(h, i)
      /\ From(Append(h, m), i) = Append(g, m)
  BY SplitAppend
<1> HIDE DEF g
<1>3. GroupOk(Append(g, m)) /\ Missing(Append(g, m)) = Missing(g) \ {c}
  BY <1>1, GroupTakes
<1> QED  BY <1>2, <1>3 DEF GroupAt, g

(* and a full one needs nothing more.                                      *)
LEMMA GroupCloses ==
    ASSUME NEW h \in Seq(Message), NEW i \in 1..Len(h), GroupAt(h, i),
           Missing(From(h, i)) = {}
    PROVE  WellFormed(h)
<1>1. /\ Before(h, i) \in Seq(Message) /\ From(h, i) \in Seq(Message)
      /\ From(h, i) # <<>> /\ h = Before(h, i) \o From(h, i)
  BY SplitAt
<1>2. WellFormed(From(h, i))
  BY <1>1, SettledWellFormed DEF GroupAt, Settled
<1>3. WellFormed(Before(h, i) \o From(h, i))
  BY <1>1, <1>2, ConcatWellFormed DEF GroupAt
<1> QED  BY <1>1, <1>3

LEMMA PlainAppended ==
    ASSUME NEW h \in Seq(Message), WellFormed(h), NEW m \in Message, Plain(m)
    PROVE  WellFormed(Append(h, m))
<1>1. <<m>> \in Seq(Message) /\ \A k \in 1..Len(<<m>>) : Plain(<<m>>[k])
  OBVIOUS
<1> QED  BY <1>1, AppendIsConcat, PlainWellFormed, ConcatWellFormed

-----------------------------------------------------------------------------
(* The invariant of the loop                                               *)

StateType ==
    [result : Seq(Message), deferred : Seq(Message), group : Seq(Message)]

StateOk(st) ==
    /\ st \in StateType
    /\ WellFormed(st.result)
    /\ \A k \in 1..Len(st.deferred) : Plain(st.deferred[k])
    /\ GroupOk(st.group)

ScanInv == StateOk(state)

LEMMA EmptyGroup == <<>> \in Seq(Message) /\ GroupOk(<<>>)
  BY EmptySeq DEF GroupOk

(* Closing the open group and sending what was put off keep it.            *)
LEMMA CloseKeeps ==
    ASSUME NEW st, StateOk(st)
    PROVE  /\ StateOk(ClosePendingGroup(st))
           /\ ClosePendingGroup(st).group = <<>>
<1>1. CASE st.group = <<>>
  BY <1>1 DEF ClosePendingGroup
<1>2. CASE st.group # <<>>
  <2> DEFINE r == st.result \o Settled(st.group)
  <2>1. r \in Seq(Message) /\ WellFormed(r)
    BY <1>2, SettledWellFormed, ConcatWellFormed DEF StateOk, StateType
  <2>2. ClosePendingGroup(st) = [st EXCEPT !.result = r, !.group = <<>>]
    BY <1>2 DEF ClosePendingGroup
  <2> HIDE DEF r
  <2> QED  BY <2>1, <2>2, EmptyGroup DEF StateOk, StateType
<1> QED  BY <1>1, <1>2

LEMMA FlushKeeps ==
    ASSUME NEW st, StateOk(st)
    PROVE  /\ StateOk(FlushDeferredUsers(st))
           /\ FlushDeferredUsers(st).group = st.group
<1> DEFINE r == st.result \o st.deferred
<1>1. r \in Seq(Message) /\ WellFormed(r)
  BY PlainWellFormed, ConcatWellFormed DEF StateOk, StateType
<1>2. FlushDeferredUsers(st) = [st EXCEPT !.result = r, !.deferred = <<>>]
  BY DEF FlushDeferredUsers
<1> HIDE DEF r
<1>3. /\ <<>> \in Seq(Message)
      /\ \A k \in 1..Len(<<>>) : Plain(<<>>[k])
  BY EmptySeq
<1> DEFINE after == [st EXCEPT !.result = r, !.deferred = <<>>]
<1>4. /\ after \in StateType /\ after.result = r
      /\ after.deferred = <<>> /\ after.group = st.group
  BY <1>1, <1>3 DEF StateOk, StateType
<1> HIDE DEF after
<1>5. StateOk(after)
  BY <1>1, <1>3, <1>4 DEF StateOk
<1> QED  BY <1>2, <1>4, <1>5 DEF after

(* Each of the four cases of the loop keeps it.                            *)
LEMMA OpenKeeps ==
    ASSUME NEW st, StateOk(st), NEW m \in Message, Declares(m)
    PROVE  StateOk(OpenGroup(st, m))
<1> DEFINE closed == ClosePendingGroup(st)
<1>1. StateOk(closed)
  BY CloseKeeps
<1>2. <<m>> \in Seq(Message) /\ GroupOk(<<m>>)
  BY DEF GroupOk
<1>3. OpenGroup(st, m) = [closed EXCEPT !.group = <<m>>]
  BY DEF OpenGroup
<1> HIDE DEF closed
<1> QED  BY <1>1, <1>2, <1>3 DEF StateOk, StateType

LEMMA MatchKeeps ==
    ASSUME NEW st, StateOk(st), NEW m \in Message, IsToolResult(m), Written(m)
    PROVE  StateOk(MatchResult(st, m))
<1>1. CASE ~(st.group # <<>> /\ m.ids \subseteq Missing(st.group))
  BY <1>1 DEF MatchResult
<1>2. CASE st.group # <<>> /\ m.ids \subseteq Missing(st.group)
  <2> DEFINE g == st.group
             h == Append(g, m)
             now == [st EXCEPT !.group = h]
  <2>1. g \in Seq(Message) /\ g # <<>> /\ GroupOk(g)
    BY <1>2 DEF StateOk, StateType
  <2>2. PICK c \in CallId : m.ids = {c}
    BY DEF Written, IsToolResult
  <2>3. h \in Seq(Message) /\ GroupOk(h)
    <3> HIDE DEF g, h
    <3> QED  BY <1>2, <2>1, <2>2, GroupTakes DEF g, h
  <2>6. StateOk(now)
    <3> HIDE DEF g, h
    <3> QED  BY <2>1, <2>3 DEF StateOk, StateType
  <2>7. MatchResult(st, m) = IF Missing(now.group) = {}
                             THEN ClosePendingGroup(now) ELSE now
    BY <1>2 DEF MatchResult
  <2> HIDE DEF now
  <2> QED  BY <2>6, <2>7, CloseKeeps
<1> QED  BY <1>1, <1>2

LEMMA DeferKeeps ==
    ASSUME NEW st, StateOk(st), NEW m \in Message, Plain(m)
    PROVE  StateOk(Defer(st, m))
<1> DEFINE d == Append(st.deferred, m)
<1>1. d \in Seq(Message) /\ \A k \in 1..Len(d) : Plain(d[k])
  <2>1. /\ d \in Seq(Message) /\ Len(d) = Len(st.deferred) + 1
        /\ \A k \in 1..Len(st.deferred) : d[k] = st.deferred[k]
        /\ d[Len(st.deferred) + 1] = m
        /\ Len(st.deferred) \in Nat
    BY AppendProperties, LenProperties DEF StateOk, StateType
  <2> HIDE DEF d
  <2> QED  BY <2>1 DEF StateOk
<1>2. Defer(st, m) = [st EXCEPT !.deferred = d]
  BY DEF Defer
<1> HIDE DEF d
<1> QED  BY <1>1, <1>2 DEF StateOk, StateType

LEMMA PassKeeps ==
    ASSUME NEW st, StateOk(st), NEW m \in Message, Plain(m)
    PROVE  StateOk(Pass(st, m))
<1> DEFINE sent == FlushDeferredUsers(ClosePendingGroup(st))
           r == Append(sent.result, m)
<1>1. StateOk(sent)
  BY CloseKeeps, FlushKeeps
<1>2. <<m>> \in Seq(Message) /\ \A k \in 1..Len(<<m>>) : Plain(<<m>>[k])
  OBVIOUS
<1>3. Pass(st, m) = [sent EXCEPT !.result = r]
  BY DEF Pass
<1> HIDE DEF sent
<1>4. sent.result \in Seq(Message) /\ WellFormed(sent.result)
  BY <1>1 DEF StateOk, StateType
<1>5. r = sent.result \o <<m>>
  BY <1>4, AppendIsConcat
<1>6. r \in Seq(Message) /\ WellFormed(r)
  BY <1>2, <1>4, <1>5, PlainWellFormed, ConcatWellFormed
<1> HIDE DEF r
<1> QED  BY <1>1, <1>3, <1>6 DEF StateOk, StateType

LEMMA TakeKeeps ==
    ASSUME NEW st, StateOk(st), NEW m \in Message, Written(m)
    PROVE  StateOk(Take(st, m))
<1>1. CASE Declares(m)
  <2>1. Take(st, m) = OpenGroup(st, m)
    BY <1>1 DEF Take, Declares, IsToolResult
  <2> QED  BY <1>1, <2>1, OpenKeeps
<1>2. CASE IsToolResult(m)
  <2>1. Take(st, m) = MatchResult(st, m)
    BY <1>2 DEF Take, Declares, IsToolResult
  <2> QED  BY <1>2, <2>1, MatchKeeps
<1>3. CASE Plain(m) /\ m.role = "user" /\ st.group # <<>>
  <2>1. Take(st, m) = Defer(st, m)
    BY <1>3 DEF Take, Plain
  <2> QED  BY <1>3, <2>1, DeferKeeps
<1>4. CASE Plain(m) /\ ~(m.role = "user" /\ st.group # <<>>)
  <2>1. Take(st, m) = Pass(st, m)
    BY <1>4 DEF Take, Plain
  <2> QED  BY <1>4, <2>1, PassKeeps
<1> QED  BY <1>1, <1>2, <1>3, <1>4 DEF Plain

-----------------------------------------------------------------------------
(* How an accepted history ends                                            *)

(* What comes before anything but a result is accepted by itself.          *)
LEMMA PrefixWellFormed ==
    ASSUME NEW a, NEW b, Len(a) \in Nat, Len(b) \in Nat, Len(b) < Len(a),
           \A j \in 1..Len(b) : b[j] = a[j],
           ~IsToolResult(a[Len(b) + 1]), WellFormed(a)
    PROVE  WellFormed(b)
<1> DEFINE n == Len(b)
<1>1. ASSUME NEW k \in 1..n, IsToolResult(b[k])
      PROVE  FollowsItsCall(b, k)
  <2>1. FollowsItsCall(a, k)
    BY <1>1 DEF WellFormed
  <2>2. PICK i \in 1..(k - 1) :
            /\ Declares(a[i]) /\ a[k].ids \subseteq a[i].ids
            /\ \A j \in (i + 1)..k : IsToolResult(a[j])
            /\ \A j \in (i + 1)..(k - 1) : a[j].ids \cap a[k].ids = {}
    BY <2>1 DEF FollowsItsCall, OnlyResults
  <2>3. \A j \in i..k : b[j] = a[j]
    BY <1>1
  <2>4. i \in i..k /\ k \in i..k /\ (i + 1)..k \subseteq i..k /\ (i + 1)..(k - 1) \subseteq i..k
    BY <1>1, <2>2
  <2>5. /\ Declares(b[i]) /\ b[k].ids \subseteq b[i].ids
        /\ \A j \in (i + 1)..k : IsToolResult(b[j])
    BY <2>2, <2>3, <2>4
  <2>6. \A j \in (i + 1)..(k - 1) : b[j].ids \cap b[k].ids = {}
    BY <2>2, <2>3, <2>4
  <2> QED  BY <2>5, <2>6 DEF FollowsItsCall, OnlyResults
<1>2. ASSUME NEW k \in 1..n, Declares(b[k])
      PROVE  IsAnswered(b, k)
  <2>1. IsAnswered(a, k)
    BY <1>2 DEF WellFormed
  <2> SUFFICES ASSUME NEW c \in b[k].ids
               PROVE  \E q \in (k + 1)..Len(b) : b[q].ids = {c} /\ OnlyResults(b, k + 1, q)
    BY DEF IsAnswered
  <2>2. PICK q \in (k + 1)..Len(a) :
            a[q].ids = {c} /\ \A j \in (k + 1)..q : IsToolResult(a[j])
    BY <1>2, <2>1 DEF IsAnswered, OnlyResults
  <2>3. q \in (k + 1)..Len(b)
    <3>1. CASE q > n
      <4>1. n + 1 \in (k + 1)..q
        BY <2>2, <3>1
      <4> QED  BY <2>2, <4>1
    <3> QED  BY <2>2, <3>1
  <2>4. \A j \in (k + 1)..q : b[j] = a[j]
    BY <1>2, <2>3
  <2>5. q \in (k + 1)..q
    BY <2>3
  <2> QED  BY <2>2, <2>3, <2>4, <2>5 DEF OnlyResults
<1> QED  BY <1>1, <1>2 DEF WellFormed

LEMMA EndsPlain ==
    ASSUME NEW h \in Seq(Message), NEW m \in Message, WellFormed(Append(h, m))
    PROVE  ~Declares(m) /\ (Plain(m) => WellFormed(h))
<1> DEFINE a == Append(h, m)
<1>1. /\ Len(h) \in Nat /\ Len(a) = Len(h) + 1 /\ a[Len(h) + 1] = m
      /\ \A k \in 1..Len(h) : a[k] = h[k]
  BY Appended
<1> HIDE DEF a
<1>2. WellFormed(a)
  BY DEF a
<1>3. ASSUME Declares(m)  PROVE FALSE
  <2>1. IsAnswered(a, Len(a)) /\ m.ids # {}
    BY <1>1, <1>2, <1>3 DEF WellFormed, Declares
  <2>2. (Len(a) + 1)..Len(a) = {}
    BY <1>1
  <2> QED  BY <1>1, <2>1, <2>2 DEF IsAnswered
<1>4. ASSUME Plain(m)  PROVE WellFormed(h)
  BY <1>1, <1>2, <1>4, PrefixWellFormed DEF Plain
<1> QED  BY <1>3, <1>4

(* A last result fills the last group, which waited for nothing else.      *)
LEMMA EndsWithResult ==
    ASSUME NEW h \in Seq(Message), NEW m \in Message, IsToolResult(m),
           WellFormed(Append(h, m)), Written(m), \A k \in 1..Len(h) : Written(h[k])
    PROVE  \E i \in 1..Len(h) : GroupAt(h, i) /\ Missing(From(h, i)) = m.ids
<1> DEFINE a == Append(h, m)
           n == Len(h)
<1>1. /\ n \in Nat /\ Len(a) = n + 1 /\ a[n + 1] = m
      /\ \A k \in 1..n : a[k] = h[k]
  BY Appended
<1>2. WellFormed(a)
  BY DEF a
<1> HIDE DEF a, n
<1>3. PICK c : m.ids = {c}
  BY DEF Written, IsToolResult
<1>4. FollowsItsCall(a, n + 1)
  BY <1>1, <1>2 DEF WellFormed
<1>5. PICK i \in 1..n :
          /\ Declares(a[i]) /\ c \in a[i].ids
          /\ \A j \in (i + 1)..(n + 1) : IsToolResult(a[j])
          /\ \A j \in (i + 1)..n : c \notin a[j].ids
  <2>1. n + 1 - 1 = n
    BY <1>1
  <2> QED  BY <1>1, <1>3, <1>4, <2>1 DEF FollowsItsCall, OnlyResults
<1> DEFINE p == Before(h, i)
           g == From(h, i)
<1>6. /\ Len(p) = i - 1 /\ \A k \in 1..(i - 1) : p[k] = h[k]
      /\ g \in Seq(Message) /\ Len(g) = n - i + 1
      /\ g[1] = h[i] /\ Head(g) = h[i]
      /\ \A k \in 1..(n - i + 1) : g[k] = h[i + k - 1]
  BY SplitAt DEF n
<1> HIDE DEF p, g
<1>7. i \in 1..n /\ a[i] = h[i] /\ ~IsToolResult(a[i])
  BY <1>1, <1>5 DEF Declares, IsToolResult
<1>8. WellFormed(p)
  <2>1. Len(p) \in Nat /\ Len(p) < Len(a) /\ Len(p) + 1 = i /\ Len(a) \in Nat
    BY <1>1, <1>6, <1>7
  <2>2. \A k \in 1..Len(p) : p[k] = a[k]
    BY <1>1, <1>6, <1>7
  <2> QED  BY <1>2, <1>7, <2>1, <2>2, PrefixWellFormed
<1>9. \A k \in 2..Len(g) : /\ i + k - 1 \in (i + 1)..n /\ g[k] = a[i + k - 1]
                           /\ i + k - 1 \in 1..(n + 1) /\ i + k - 1 \in 1..n
  BY <1>1, <1>6, <1>7
<1>10. ASSUME NEW k \in 2..Len(g)
       PROVE  /\ IsToolResult(g[k])
              /\ \E d \in g[1].ids : g[k].ids = {d}
              /\ \A j \in 2..(k - 1) : g[j].ids \cap g[k].ids = {}
  <2> DEFINE K == i + k - 1
  <2>1. K \in (i + 1)..n /\ g[k] = a[K] /\ K \in 1..(n + 1) /\ K \in 1..n
    BY <1>9
  <2>2. IsToolResult(a[K])
    <3>1. K \in (i + 1)..(n + 1)
      BY <1>1, <2>1
    <3> QED  BY <1>5, <3>1
  <2>3. FollowsItsCall(a, K)
    BY <1>1, <1>2, <2>1, <2>2 DEF WellFormed
  <2>4. PICK b \in 1..(K - 1) :
            /\ Declares(a[b]) /\ a[K].ids \subseteq a[b].ids
            /\ \A j \in (b + 1)..K : IsToolResult(a[j])
            /\ \A j \in (b + 1)..(K - 1) : a[j].ids \cap a[K].ids = {}
    BY <2>3 DEF FollowsItsCall, OnlyResults
  <2>5. b = i
    <3>1. CASE b < i
      <4>1. i \in (b + 1)..K
        BY <1>7, <2>1, <2>4, <3>1
      <4> QED  BY <1>7, <2>4, <4>1
    <3>2. CASE b > i
      <4>1. b \in (i + 1)..(n + 1)
        BY <1>1, <2>1, <2>4, <3>2
      <4> QED  BY <1>5, <2>4, <4>1 DEF Declares, IsToolResult
    <3> QED  BY <1>7, <2>4, <3>1, <3>2
  <2>6. \E d : a[K].ids = {d}
    <3>1. Written(a[K])
      BY <1>1, <2>1 DEF n
    <3> QED  BY <2>2, <3>1 DEF Written, IsToolResult
  <2>7. \A j \in 2..(k - 1) : i + j - 1 \in (i + 1)..(K - 1) /\ g[j] = a[i + j - 1]
    <3>1. \A j \in 2..(k - 1) : j \in 2..Len(g) /\ i + j - 1 \in (i + 1)..(K - 1)
      BY <1>6, <1>7
    <3> QED  BY <1>9, <3>1
  <2> HIDE DEF K
  <2>8. \E d \in g[1].ids : g[k].ids = {d}
    BY <1>6, <1>7, <2>1, <2>4, <2>5, <2>6
  <2> QED  BY <2>1, <2>2, <2>4, <2>5, <2>7, <2>8
<1>11. GroupOk(g)
  BY <1>5, <1>6, <1>7, <1>10 DEF GroupOk
<1>12. Missing(g) = {c}
  <2>1. c \in Missing(g)
    <3>1. Head(g).ids = a[i].ids
      BY <1>6, <1>7
    <3>2. ASSUME NEW k \in 2..Len(g)  PROVE c \notin g[k].ids
      BY <1>5, <1>9
    <3> QED  BY <1>5, <3>1, <3>2 DEF Missing
  <2>2. ASSUME NEW d \in g[1].ids, d # c
        PROVE  \E k \in 2..Len(g) : d \in g[k].ids
    <3>1. IsAnswered(a, i)
      BY <1>1, <1>2, <1>5, <1>7 DEF WellFormed
    <3>2. PICK q \in (i + 1)..(n + 1) : a[q].ids = {d}
      BY <1>1, <1>6, <1>7, <2>2, <3>1 DEF IsAnswered
    <3>3. q # n + 1
      BY <1>1, <1>3, <2>2, <3>2
    <3>4. q - i + 1 \in 2..Len(g) /\ i + (q - i + 1) - 1 = q
      BY <1>1, <1>6, <1>7, <3>2, <3>3
    <3>5. g[q - i + 1] = a[q]
      BY <1>9, <3>4
    <3> QED  BY <3>2, <3>4, <3>5
  <2> QED  BY <1>6, <2>1, <2>2 DEF Missing
<1> QED  BY <1>3, <1>7, <1>8, <1>11, <1>12 DEF GroupAt, p, g, n

(* A group at the end opens with the last message or takes it.             *)
LEMMA GroupEnds ==
    ASSUME NEW h \in Seq(Message), NEW m \in Message,
           NEW i \in 1..Len(Append(h, m)), GroupAt(Append(h, m), i)
    PROVE  \/ /\ i = Len(h) + 1 /\ WellFormed(h) /\ Declares(m)
           \/ /\ i \in 1..Len(h) /\ GroupAt(h, i) /\ IsToolResult(m)
              /\ \E c \in Missing(From(h, i)) : m.ids = {c}
<1> DEFINE a == Append(h, m)
           g == From(h, i)
           G == From(a, i)
<1>1. Len(a) = Len(h) + 1 /\ Len(h) \in Nat
  BY Appended
<1>2. CASE i = Len(h) + 1
  <2>1. Before(a, i) = h /\ From(a, i) = <<m>>
    BY <1>2, SplitLast
  <2>2. WellFormed(h) /\ GroupOk(<<m>>)
    BY <2>1 DEF GroupAt
  <2>3. Declares(m)
    BY <2>2 DEF GroupOk
  <2> QED  BY <1>2, <2>2, <2>3
<1>3. CASE i \in 1..Len(h)
  <2>1. Before(a, i) = Before(h, i) /\ G = Append(g, m)
    BY <1>3, SplitAppend
  <2>2. g \in Seq(Message) /\ g # <<>> /\ Head(g) = h[i] /\ g[1] = h[i]
    BY <1>3, SplitAt
  <2>3. GroupOk(G) /\ WellFormed(Before(h, i))
    BY <2>1 DEF GroupAt
  <2> HIDE DEF g, G, a
  <2>4. /\ Len(g) \in Nat /\ Len(g) >= 1 /\ Len(G) = Len(g) + 1
        /\ \A k \in 1..Len(g) : G[k] = g[k]
        /\ G[Len(g) + 1] = m
    BY <2>1, <2>2, Appended, EmptySeq, LenProperties
  <2>5. /\ Declares(G[1])
        /\ \A k \in 2..Len(G) :
               /\ IsToolResult(G[k])
               /\ \E c \in G[1].ids : G[k].ids = {c}
               /\ \A j \in 2..(k - 1) : G[j].ids \cap G[k].ids = {}
    <3>1. G # <<>>
      BY <2>4
    <3> QED  BY <2>3, <3>1 DEF GroupOk
  <2>6. GroupOk(g)
    <3>1. G[1] = g[1]
      BY <2>4
    <3>2. ASSUME NEW k \in 2..Len(g)
          PROVE  /\ IsToolResult(g[k])
                 /\ \E c \in g[1].ids : g[k].ids = {c}
                 /\ \A j \in 2..(k - 1) : g[j].ids \cap g[k].ids = {}
      <4>1. /\ k \in 2..Len(G) /\ \A j \in 2..k : G[j] = g[j]
            /\ k \in 2..k /\ \A j \in 2..(k - 1) : j \in 2..k
        BY <2>4
      <4> QED  BY <2>5, <3>1, <4>1
    <3> QED  BY <2>5, <3>1, <3>2 DEF GroupOk
  <2>7. IsToolResult(m) /\ \E c \in Missing(g) : m.ids = {c}
    <3>1. Len(g) + 1 \in 2..Len(G) /\ Len(g) + 1 - 1 = Len(g)
      BY <2>4
    <3>2. IsToolResult(m) /\ \E c \in G[1].ids : m.ids = {c}
      BY <2>4, <2>5, <3>1
    <3>3. \A j \in 2..Len(g) : G[j].ids \cap m.ids = {}
      BY <2>4, <2>5, <3>1
    <3>4. PICK c \in g[1].ids : m.ids = {c}
      BY <2>4, <3>2
    <3>5. \A j \in 2..Len(g) : c \notin g[j].ids
      BY <2>4, <3>3, <3>4
    <3>6. c \in Missing(g)
      BY <2>2, <3>4, <3>5 DEF Missing
    <3> QED  BY <3>2, <3>4, <3>6
  <2> QED  BY <1>3, <2>3, <2>6, <2>7 DEF GroupAt, g
<1> QED  BY <1>1, <1>2, <1>3

-----------------------------------------------------------------------------
(* A healthy transcript is kept                                            *)

LEMMA ReadKeeps ==
    ASSUME KeptInv, NEW m \in Message, ReadMessage(m)
    PROVE  KeptInv'
<1> DEFINE h == messages
           a == Append(h, m)
<1>1. /\ h \in Seq(Message) /\ Written(m) /\ messages' = a /\ state' = Take(state, m)
      /\ \A k \in 1..Len(h) : Written(h[k])
      /\ a \in Seq(Message) /\ Len(a) = Len(h) + 1 /\ Len(h) \in Nat
      /\ \A k \in 1..Len(h) : a[k] = h[k]
      /\ a[Len(h) + 1] = m
  BY Appended DEF KeptInv, ReadMessage
<1>2. WellFormed(h) => state = [Empty EXCEPT !.result = h]
  BY DEF KeptInv
<1>3. \A i \in 1..Len(h) : GroupAt(h, i) /\ Missing(From(h, i)) # {} =>
         state = [result |-> Before(h, i), deferred |-> <<>>, group |-> From(h, i)]
  BY DEF KeptInv
<1> HIDE DEF h, a
<1>4. \A k \in 1..Len(a) : Written(a[k])
  BY <1>1
<1>5. ASSUME NEW i \in 1..Len(h), GroupAt(h, i), IsToolResult(m),
             NEW c \in Missing(From(h, i)), m.ids = {c}
      PROVE  /\ GroupAt(a, i) /\ Missing(From(a, i)) = Missing(From(h, i)) \ {c}
             /\ state' = IF Missing(From(a, i)) = {}
                         THEN [Empty EXCEPT !.result = a]
                         ELSE [result   |-> Before(a, i),
                               deferred |-> <<>>,
                               group    |-> From(a, i)]
  <2> DEFINE p == Before(h, i)
             g == From(h, i)
             G == Append(g, m)
  <2>1. state = [result |-> p, deferred |-> <<>>, group |-> g]
    BY <1>3, <1>5
  <2>2. /\ i \in 1..Len(a) /\ Before(a, i) = p /\ From(a, i) = G
    BY <1>1, <1>5, SplitAppend DEF a
  <2>3. g # <<>>
    BY <1>1, <1>5, SplitAt
  <2>4. a = p \o G /\ G # <<>>
    <3>1. a = Before(a, i) \o From(a, i) /\ From(a, i) # <<>>
      BY <1>1, <2>2, SplitAt
    <3> QED  BY <2>2, <3>1
  <2>5. GroupAt(a, i) /\ Missing(G) = Missing(g) \ {c}
    <3>1. /\ GroupAt(Append(h, m), i)
          /\ Missing(From(Append(h, m), i)) = Missing(From(h, i)) \ {c}
      BY <1>1, <1>5, GroupFills
    <3> QED  BY <2>2, <3>1 DEF a
  <2> HIDE DEF p, g, G
  <2>6. m.ids \subseteq Missing(g)
    BY <1>5 DEF g
  <2> DEFINE now == [result |-> p, deferred |-> <<>>, group |-> G]
  <2>7. [state EXCEPT !.group = Append(@, m)] = now
    <3>1. [[result |-> p, deferred |-> <<>>, group |-> g] EXCEPT !.group = G] = now
      OBVIOUS
    <3>2. [result |-> p, deferred |-> <<>>, group |-> g].group = g
      OBVIOUS
    <3> QED  BY <2>1, <3>1, <3>2 DEF G
  <2>8. Take(state, m) = IF Missing(now.group) = {} THEN ClosePendingGroup(now) ELSE now
    <3>1. Take(state, m) = MatchResult(state, m)
      BY <1>5 DEF Take, Declares, IsToolResult
    <3>2. state.group = g
      BY <2>1
    <3> QED  BY <2>3, <2>6, <2>7, <3>1, <3>2 DEF MatchResult
  <2>9. now.group = G /\ now.result = p
    OBVIOUS
  <2>10. CASE Missing(G) = {}
    <3>1. ClosePendingGroup(now) = [now EXCEPT !.result = p \o Settled(G), !.group = <<>>]
      BY <2>4, <2>9 DEF ClosePendingGroup
    <3>2. Settled(G) = G
      BY <2>10 DEF Settled
    <3>3. [now EXCEPT !.result = p \o G, !.group = <<>>] = [Empty EXCEPT !.result = a]
      <4>1. [now EXCEPT !.result = p \o G, !.group = <<>>] =
               [result |-> p \o G, deferred |-> <<>>, group |-> <<>>]
        <5>1. /\ a \in Seq(Message) /\ p \o G = a
              /\ p \in Seq(Message) /\ G \in Seq(Message) /\ <<>> \in Seq(Message)
          BY <1>1, <1>5, <2>2, <2>4, SplitAt, EmptySeq DEF p, g
        <5>2. now \in StateType /\ now.deferred = <<>>
          BY <5>1 DEF StateType
        <5> HIDE DEF now
        <5> DEFINE S == Seq(Message)
                   w == p \o G
                   e == <<>>
        <5>3. /\ now \in [result : S, deferred : S, group : S]
              /\ now.deferred = e /\ w \in S /\ e \in S
          BY <5>1, <5>2 DEF StateType
        <5> HIDE DEF S, w, e
        <5>4. [now EXCEPT !.result = w, !.group = e] =
                 [result |-> w, deferred |-> now.deferred, group |-> e]
          <6> DEFINE x == [now EXCEPT !.result = w, !.group = e]
                     y == [result |-> w, deferred |-> now.deferred, group |-> e]
          <6>1. /\ x \in [result : S, deferred : S, group : S]
                /\ x.result = w /\ x.deferred = now.deferred /\ x.group = e
            BY <5>3
          <6>2. /\ y \in [result : S, deferred : S, group : S]
                /\ y.result = w /\ y.deferred = now.deferred /\ y.group = e
            BY <5>3
          <6> HIDE DEF x, y
          <6>3. x = y
            BY <6>1, <6>2
          <6> QED  BY <6>3 DEF x, y
        <5> QED  BY <5>3, <5>4 DEF w, e
      <4>2. [Empty EXCEPT !.result = a] = [result |-> a, deferred |-> <<>>, group |-> <<>>]
        BY DEF Empty
      <4> QED  BY <2>4, <4>1, <4>2
    <3>4. Take(state, m) = [Empty EXCEPT !.result = a]
      BY <2>8, <2>9, <2>10, <3>1, <3>2, <3>3
    <3> QED  BY <1>1, <2>2, <2>5, <2>10, <3>4 DEF g
  <2>11. CASE Missing(G) # {}
    BY <1>1, <2>2, <2>5, <2>8, <2>9, <2>11 DEF g
  <2> QED  BY <2>10, <2>11
<1>6. ASSUME WellFormed(a)
      PROVE  state' = [Empty EXCEPT !.result = a]
  <2>1. ~Declares(m) /\ (Plain(m) => WellFormed(h))
    BY <1>1, <1>6, EndsPlain DEF a
  <2>2. CASE Plain(m)
    <3>1. state = [Empty EXCEPT !.result = h]
      BY <1>2, <2>1, <2>2
    <3>2. state.group = <<>> /\ state.deferred = <<>> /\ state.result = h
      BY <3>1 DEF Empty
    <3>3. Take(state, m) = Pass(state, m)
      BY <2>2, <3>2 DEF Take, Plain
    <3>4. h \o <<>> = h
      BY <1>1, ConcatEmptySeq
    <3>5. FlushDeferredUsers(ClosePendingGroup(state)) = state
      BY <3>1, <3>2, <3>4 DEF FlushDeferredUsers, ClosePendingGroup, Empty
    <3>6. Pass(state, m) = [state EXCEPT !.result = Append(h, m)]
      BY <3>1, <3>5 DEF Pass, Empty
    <3> QED  BY <1>1, <3>1, <3>3, <3>6 DEF Empty, a
  <2>3. CASE IsToolResult(m)
    <3>1. PICK i \in 1..Len(h) : GroupAt(h, i) /\ Missing(From(h, i)) = m.ids
      BY <1>1, <1>6, <2>3, EndsWithResult DEF a
    <3>2. PICK c : m.ids = {c}
      BY <1>1, <2>3 DEF Written, IsToolResult
    <3>3. c \in Missing(From(h, i)) /\ Missing(From(h, i)) \ {c} = {}
      BY <3>1, <3>2
    <3> QED  BY <1>5, <2>3, <3>1, <3>2, <3>3
  <2> QED  BY <2>1, <2>2, <2>3 DEF Plain
<1>7. ASSUME NEW i \in 1..Len(a), GroupAt(a, i), Missing(From(a, i)) # {}
      PROVE  state' = [result   |-> Before(a, i),
                       deferred |-> <<>>,
                       group    |-> From(a, i)]
  <2>1. CASE i = Len(h) + 1 /\ WellFormed(h) /\ Declares(m)
    <3>1. Before(a, i) = h /\ From(a, i) = <<m>>
      BY <1>1, <2>1, SplitLast DEF a
    <3>2. state = [Empty EXCEPT !.result = h]
      BY <1>2, <2>1
    <3>3. Take(state, m) = OpenGroup(state, m)
      BY <2>1 DEF Take, Declares, IsToolResult
    <3>4. ClosePendingGroup(state) = state
      BY <3>2 DEF ClosePendingGroup, Empty
    <3>5. OpenGroup(state, m) = [result |-> h, deferred |-> <<>>, group |-> <<m>>]
      BY <3>2, <3>4 DEF OpenGroup, Empty
    <3> QED  BY <1>1, <3>1, <3>3, <3>5
  <2>2. CASE /\ i \in 1..Len(h) /\ GroupAt(h, i) /\ IsToolResult(m)
             /\ \E c \in Missing(From(h, i)) : m.ids = {c}
    BY <1>5, <1>7, <2>2
  <2> QED  BY <1>1, <1>7, <2>1, <2>2, GroupEnds DEF a
<1> QED  BY <1>1, <1>4, <1>6, <1>7 DEF KeptInv

-----------------------------------------------------------------------------
(* Nothing script is lost                                                    *)

LEMMA MessageParts ==
    ASSUME NEW m \in Message
    PROVE  /\ StripToolCalls(m) \in Message
           /\ StripToolCalls(m).from = m.from /\ StripToolCalls(m).role = m.role
           /\ StripToolCalls(m).ids = {}
BY DEF StripToolCalls, Message

(* Where the members of a sequence are once one was put in.                *)
LEMMA PutIn ==
    ASSUME NEW h \in Seq(Message), NEW d \in Seq(Message), NEW m \in Message
    PROVE  LET n == Len(h)
               old == h \o d
               new == Append(h, m) \o d
           IN  /\ new \in Seq(Message) /\ old \in Seq(Message)
               /\ n \in Nat /\ n <= Len(old) /\ Len(old) \in Nat
               /\ Len(new) = Len(old) + 1
               /\ \A j \in 1..n : new[j] = old[j]
               /\ new[n + 1] = m
               /\ \A j \in (n + 1)..Len(old) : new[j + 1] = old[j] /\ old[j] = d[j - n]
               /\ \A j \in (n + 1)..Len(old) : j - n \in 1..Len(d)
<1> DEFINE n == Len(h)
           a == Append(h, m)
           old == h \o d
           new == a \o d
<1>1. /\ a \in Seq(Message) /\ Len(a) = n + 1 /\ n \in Nat /\ a[n + 1] = m
      /\ \A j \in 1..n : a[j] = h[j]
  BY AppendProperties, LenProperties
<1>2. /\ old \in Seq(Message) /\ Len(old) = n + Len(d) /\ Len(d) \in Nat
      /\ \A j \in 1..(n + Len(d)) : old[j] = IF j <= n THEN h[j] ELSE d[j - n]
  BY ConcatProperties, LenProperties
<1> HIDE DEF a
<1>3. /\ new \in Seq(Message) /\ Len(new) = n + 1 + Len(d)
      /\ \A j \in 1..(n + 1 + Len(d)) :
            new[j] = IF j <= n + 1 THEN a[j] ELSE d[j - (n + 1)]
  <2>1. /\ new \in Seq(Message) /\ Len(new) = Len(a) + Len(d)
        /\ \A j \in 1..(Len(a) + Len(d)) :
              new[j] = IF j <= Len(a) THEN a[j] ELSE d[j - Len(a)]
    BY <1>1, ConcatProperties
  <2> HIDE DEF new, n
  <2> QED  BY <1>1, <2>1
<1>4. /\ n <= Len(old) /\ Len(old) \in Nat
      /\ Len(new) = Len(old) + 1
      /\ new[n + 1] = m
  <2> HIDE DEF n, old, new
  <2> QED  BY <1>1, <1>2, <1>3
<1>5. ASSUME NEW j \in 1..n
      PROVE  new[j] = old[j]
  <2> HIDE DEF n, old, new
  <2>1. j \in 1..(n + Len(d)) /\ j <= n /\ j \in 1..(n + 1 + Len(d)) /\ j <= n + 1
    BY <1>1, <1>2
  <2> QED  BY <1>1, <1>2, <1>3, <2>1
<1>6. ASSUME NEW j \in (n + 1)..Len(old)
      PROVE  new[j + 1] = old[j] /\ old[j] = d[j - n] /\ j - n \in 1..Len(d)
  <2> HIDE DEF n, old, new
  <2>1. j \in 1..(n + Len(d)) /\ ~(j <= n) /\ j + 1 \in 1..(n + 1 + Len(d)) /\ ~(j + 1 <= n + 1)
    BY <1>1, <1>2
  <2>2. old[j] = d[j - n] /\ new[j + 1] = d[(j + 1) - (n + 1)]
    BY <1>2, <1>3, <2>1
  <2>3. (j + 1) - (n + 1) = j - n /\ j - n \in 1..Len(d)
    BY <1>1, <1>2, <2>1
  <2> QED  BY <2>2, <2>3
<1> QED
  <2>1. /\ new \in Seq(Message) /\ old \in Seq(Message)
    BY <1>2, <1>3
  <2>2. /\ \A j \in (n + 1)..Len(old) : new[j + 1] = old[j] /\ old[j] = d[j - n]
        /\ \A j \in (n + 1)..Len(old) : j - n \in 1..Len(d)
    BY <1>6
  <2> HIDE DEF old, new, n
  <2>3. /\ new \in Seq(Message) /\ old \in Seq(Message)
        /\ n \in Nat /\ n <= Len(old) /\ Len(old) \in Nat
        /\ Len(new) = Len(old) + 1
        /\ \A j \in 1..n : new[j] = old[j]
        /\ new[n + 1] = m
        /\ \A j \in (n + 1)..Len(old) : new[j + 1] = old[j] /\ old[j] = d[j - n]
        /\ \A j \in (n + 1)..Len(old) : j - n \in 1..Len(d)
    BY <2>1, <2>2, <1>1, <1>4, <1>5
  <2> QED  BY <2>3 DEF old, new, n, a

(* A message that was read comes last, or before users put off.            *)
LEMMA TellsMore ==
    ASSUME NEW h \in Seq(Message), NEW d \in Seq(Message), NEW script \in Seq(Message),
           NEW m \in Message, m.from = Len(script) + 1,
           Tells(h \o d, script),
           \A k \in 1..Len(d) : m.role # "user" /\ OfTools(m) /\ d[k].role = "user"
    PROVE  Tells(Append(h, m) \o d, Append(script, m))
<1> DEFINE n == Len(h)
           old == h \o d
           new == Append(h, m) \o d
           now == Append(script, m)
<1>1. /\ new \in Seq(Message) /\ old \in Seq(Message)
      /\ n \in Nat /\ n <= Len(old) /\ Len(old) \in Nat
      /\ Len(new) = Len(old) + 1
      /\ \A j \in 1..n : new[j] = old[j]
      /\ new[n + 1] = m
      /\ \A j \in (n + 1)..Len(old) : new[j + 1] = old[j] /\ old[j] = d[j - n]
      /\ \A j \in (n + 1)..Len(old) : j - n \in 1..Len(d)
  BY PutIn
<1>2. /\ now \in Seq(Message) /\ Len(now) = Len(script) + 1 /\ Len(script) \in Nat
      /\ now[Len(script) + 1] = m
      /\ \A k \in 1..Len(script) : now[k] = script[k]
  BY AppendProperties, LenProperties
<1>3. Tells(old, script)
  OBVIOUS
<1> HIDE DEF old, new, now, n
<1> DEFINE Was(j) == IF j <= n THEN j ELSE j - 1
<1>4. ASSUME NEW j \in 1..Len(new), j # n + 1
      PROVE  Was(j) \in 1..Len(old) /\ new[j] = old[Was(j)]
  <2>1. CASE j <= n
    BY <1>1, <2>1
  <2>2. CASE ~(j <= n)
    <3> DEFINE i == j - 1
    <3>1. i \in (n + 1)..Len(old) /\ i + 1 = j /\ i \in 1..Len(old)
      BY <1>1, <1>4, <2>2
    <3>2. Was(j) = i
      BY <2>2
    <3> HIDE DEF i, Was
    <3>3. new[i + 1] = old[i]
      BY <1>1, <3>1
    <3> QED  BY <3>1, <3>2, <3>3
  <2> QED  BY <2>1, <2>2
<1>5. \A j \in 1..Len(old) : old[j].from \in 1..Len(script)
  BY <1>3 DEF Tells, OnlyWhatWasSaid
<1>6. OnlyWhatWasSaid(new, now)
  <2> SUFFICES ASSUME NEW j \in 1..Len(new)
               PROVE  /\ new[j].from \in 1..Len(now)
                      /\ \/ new[j] = now[new[j].from]
                         \/ /\ Declares(now[new[j].from])
                            /\ new[j] = StripToolCalls(now[new[j].from])
    BY DEF OnlyWhatWasSaid
  <2>1. CASE j = n + 1
    BY <1>1, <1>2, <2>1
  <2>2. CASE j # n + 1
    <3>1. Was(j) \in 1..Len(old) /\ new[j] = old[Was(j)]
      BY <1>4, <2>2
    <3> HIDE DEF Was
    <3>2. /\ new[j].from \in 1..Len(script)
          /\ \/ new[j] = script[new[j].from]
             \/ /\ Declares(script[new[j].from])
                /\ new[j] = StripToolCalls(script[new[j].from])
      BY <1>3, <3>1 DEF Tells, OnlyWhatWasSaid
    <3> QED  BY <1>2, <3>2
  <2> QED  BY <2>1, <2>2
<1>7. AllThatWasSaid(new, now)
  <2> SUFFICES ASSUME NEW k \in 1..Len(now), now[k].role # "tool"
               PROVE  \E j \in 1..Len(new) : new[j].from = k
    BY DEF AllThatWasSaid
  <2>1. CASE k = Len(script) + 1
    <3>1. n + 1 \in 1..Len(new)
      BY <1>1
    <3> QED  BY <1>1, <2>1, <3>1
  <2>2. CASE k # Len(script) + 1
    <3>1. k \in 1..Len(script) /\ script[k].role # "tool"
      BY <1>2, <2>2
    <3>2. PICK i \in 1..Len(old) : old[i].from = k
      BY <1>3, <3>1 DEF Tells, AllThatWasSaid
    <3>3. CASE i <= n
      BY <1>1, <3>2, <3>3
    <3>4. CASE ~(i <= n)
      <4>1. i \in (n + 1)..Len(old) /\ i + 1 \in 1..Len(new)
        BY <1>1, <3>4
      <4> QED  BY <1>1, <3>2, <4>1
    <3> QED  BY <3>3, <3>4
  <2> QED  BY <2>1, <2>2
<1>8. InOrder(new, now)
  <2> SUFFICES ASSUME NEW i \in 1..Len(new), NEW j \in 1..Len(new), i < j
               PROVE  new[i].from < new[j].from \/ Overtakes(new[i], new[j], now)
    BY DEF InOrder
  <2>1. CASE i # n + 1 /\ j # n + 1
    <3>1. /\ Was(i) \in 1..Len(old) /\ new[i] = old[Was(i)]
          /\ Was(j) \in 1..Len(old) /\ new[j] = old[Was(j)]
      BY <1>4, <2>1
    <3>2. Was(i) < Was(j)
      BY <1>1, <2>1
    <3> HIDE DEF Was
    <3>3. new[i].from < new[j].from \/ Overtakes(new[i], new[j], script)
      BY <1>3, <3>1, <3>2 DEF Tells, InOrder
    <3>4. now[new[i].from] = script[new[i].from]
      BY <1>2, <1>5, <3>1
    <3> QED  BY <3>3, <3>4 DEF Overtakes
  <2>2. CASE j = n + 1
    <3>1. i \in 1..Len(old) /\ new[i] = old[i]
      BY <1>1, <2>2
    <3>2. new[i].from \in 1..Len(script) /\ new[j].from = Len(script) + 1
      BY <1>1, <1>5, <2>2, <3>1
    <3> QED  BY <1>2, <3>2
  <2>3. CASE i = n + 1
    <3>1. j - 1 \in (n + 1)..Len(old) /\ (j - 1) + 1 = j
      BY <1>1, <2>3
    <3>2. new[j] = d[(j - 1) - n] /\ (j - 1) - n \in 1..Len(d)
      BY <1>1, <3>1
    <3>3. new[i] = m /\ now[m.from] = m
      BY <1>1, <1>2, <2>3
    <3> QED  BY <3>2, <3>3 DEF Overtakes
  <2> QED  BY <2>1, <2>2, <2>3
<1> QED  BY <1>6, <1>7, <1>8 DEF Tells, new, now

(* A result no group waits for is left out.                                *)
LEMMA TellsLess ==
    ASSUME NEW h \in Seq(Message), NEW script \in Seq(Message),
           NEW m \in Message, m.role = "tool", Tells(h, script)
    PROVE  Tells(h, Append(script, m))
<1> DEFINE now == Append(script, m)
<1>1. /\ now \in Seq(Message) /\ Len(now) = Len(script) + 1 /\ Len(script) \in Nat
      /\ now[Len(script) + 1] = m
      /\ \A k \in 1..Len(script) : now[k] = script[k]
  BY AppendProperties, LenProperties
<1> HIDE DEF now
<1>2. OnlyWhatWasSaid(h, now)
  <2> SUFFICES ASSUME NEW j \in 1..Len(h)
               PROVE  /\ h[j].from \in 1..Len(now)
                      /\ \/ h[j] = now[h[j].from]
                         \/ /\ Declares(now[h[j].from])
                            /\ h[j] = StripToolCalls(now[h[j].from])
    BY DEF OnlyWhatWasSaid
  <2>1. /\ h[j].from \in 1..Len(script)
        /\ \/ h[j] = script[h[j].from]
           \/ /\ Declares(script[h[j].from])
              /\ h[j] = StripToolCalls(script[h[j].from])
    BY DEF Tells, OnlyWhatWasSaid
  <2> QED  BY <1>1, <2>1
<1>3. AllThatWasSaid(h, now)
  <2> SUFFICES ASSUME NEW k \in 1..Len(now), now[k].role # "tool"
               PROVE  \E j \in 1..Len(h) : h[j].from = k
    BY DEF AllThatWasSaid
  <2>1. k \in 1..Len(script) /\ script[k].role # "tool"
    BY <1>1
  <2> QED  BY <2>1 DEF Tells, AllThatWasSaid
<1>4. InOrder(h, now)
  <2>1. \A j \in 1..Len(h) : now[h[j].from] = script[h[j].from]
    BY <1>1 DEF Tells, OnlyWhatWasSaid
  <2> QED  BY <2>1 DEF Tells, InOrder, Overtakes
<1> QED  BY <1>2, <1>3, <1>4 DEF Tells, now

(* A group that closes keeps its turn, and of the rest only results go.    *)
LEMMA TellsSettled ==
    ASSUME NEW h \in Seq(Message), NEW g \in Seq(Message), NEW d \in Seq(Message),
           NEW script \in Seq(Message), GroupOk(g), g # <<>>,
           Tells(h \o g \o d, script)
    PROVE  Tells(h \o Settled(g) \o d, script)
<1>1. CASE Missing(g) = {}
  BY <1>1 DEF Settled
<1>2. CASE Missing(g) # {}
  <2> DEFINE s == StripToolCalls(Head(g))
             new == Append(h, s) \o d
             hg == h \o g
             old == hg \o d
             n == Len(h)
             w == Len(g)
  <2>1. /\ g[1] \in Message /\ Head(g) = g[1] /\ w \in Nat /\ w >= 1 /\ n \in Nat
        /\ Len(d) \in Nat
    BY LenProperties, HeadTailProperties, EmptySeq
  <2>2. /\ s \in Message /\ s.from = g[1].from /\ s.role = g[1].role
        /\ Settled(g) = <<s>> /\ h \o Settled(g) = Append(h, s)
    <3>1. s \in Message /\ s.from = g[1].from /\ s.role = g[1].role
      BY <2>1, MessageParts
    <3>2. Settled(g) = <<s>>
      BY <1>2 DEF Settled
    <3> HIDE DEF s
    <3> QED  BY <3>1, <3>2, AppendIsConcat
  <2>3. /\ hg \in Seq(Message) /\ Len(hg) = n + w
        /\ \A j \in 1..(n + w) : hg[j] = IF j <= n THEN h[j] ELSE g[j - n]
    BY ConcatProperties
  <2> HIDE DEF hg
  <2>4. /\ old \in Seq(Message) /\ Len(old) = Len(hg) + Len(d)
        /\ \A j \in 1..(Len(hg) + Len(d)) :
              old[j] = IF j <= Len(hg) THEN hg[j] ELSE d[j - Len(hg)]
    <3>1. hg \in Seq(Message)
      BY <2>3
    <3> QED  BY <3>1, ConcatProperties
  <2> DEFINE hs == Append(h, s)
  <2>5. /\ hs \in Seq(Message) /\ Len(hs) = n + 1 /\ hs[n + 1] = s
        /\ \A j \in 1..n : hs[j] = h[j]
    BY <2>2, AppendProperties
  <2> HIDE DEF hs
  <2>6. /\ (hs \o d) \in Seq(Message) /\ Len(hs \o d) = Len(hs) + Len(d)
        /\ \A j \in 1..(Len(hs) + Len(d)) :
              (hs \o d)[j] = IF j <= Len(hs) THEN hs[j] ELSE d[j - Len(hs)]
    BY <2>5, ConcatProperties
  <2>7. new = hs \o d
    BY DEF hs
  <2>8. Tells(old, script)
    BY DEF hg
  <2>9. /\ Declares(g[1])
        /\ \A k \in 2..w : IsToolResult(g[k])
    BY DEF GroupOk
  <2> HIDE DEF s, new, old, n, w
  <2> DEFINE Was(j) == IF j <= n + 1 THEN j ELSE j + (w - 1)
  <2>10. Len(old) = n + w + Len(d) /\ Len(new) = n + 1 + Len(d)
    BY <2>1, <2>3, <2>4, <2>5, <2>6, <2>7
  <2>11. old[n + 1] = g[1] /\ new[n + 1] = s /\ n + 1 \in 1..Len(old)
    <3>1. n + 1 \in 1..(n + w) /\ ~(n + 1 <= n) /\ (n + 1) - n = 1
          /\ n + 1 \in 1..(Len(hg) + Len(d)) /\ n + 1 <= Len(hg)
          /\ n + 1 \in 1..(Len(hs) + Len(d)) /\ n + 1 <= Len(hs)
          /\ n + 1 \in 1..Len(old)
      BY <2>1, <2>3, <2>5, <2>10
    <3> QED  BY <2>3, <2>4, <2>5, <2>6, <2>7, <3>1
  <2>12. ASSUME NEW j \in 1..Len(new)
         PROVE  /\ Was(j) \in 1..Len(old)
                /\ j # n + 1 => new[j] = old[Was(j)]
                /\ j = n + 1 => Was(j) = n + 1
    <3>1. CASE j <= n
      <4>1. /\ j \in 1..(n + w) /\ j \in 1..(Len(hg) + Len(d)) /\ j <= Len(hg) /\ j \in 1..n
            /\ j \in 1..(Len(hs) + Len(d)) /\ j <= Len(hs) /\ Was(j) = j
        BY <2>1, <2>3, <2>5, <3>1
      <4>2. new[j] = h[j] /\ old[j] = h[j]
        BY <2>3, <2>4, <2>5, <2>6, <2>7, <3>1, <4>1
      <4>3. j \in 1..Len(old) /\ j # n + 1
        BY <2>1, <2>10, <4>1
      <4> HIDE DEF Was
      <4> QED  BY <4>1, <4>2, <4>3
    <3>2. CASE j = n + 1
      BY <2>1, <2>10, <3>2
    <3>3. CASE j > n + 1
      <4> DEFINE i == j + (w - 1)
      <4>1. /\ Was(j) = i /\ i \in 1..Len(old) /\ i \in 1..(Len(hg) + Len(d)) /\ ~(i <= Len(hg))
            /\ j \in 1..(Len(hs) + Len(d)) /\ ~(j <= Len(hs))
            /\ i - Len(hg) = j - Len(hs)
        BY <2>1, <2>3, <2>5, <2>10, <3>3
      <4> HIDE DEF i
      <4>2. new[j] = d[j - Len(hs)] /\ old[i] = d[i - Len(hg)]
        BY <2>4, <2>6, <2>7, <4>1
      <4>3. new[j] = old[i]
        BY <4>1, <4>2
      <4> QED  BY <3>3, <4>1, <4>3, <2>1
    <3> QED  BY <2>1, <2>10, <3>1, <3>2, <3>3
  <2>13. ASSUME NEW i \in 1..Len(new), NEW j \in 1..Len(new), i < j
         PROVE  Was(i) < Was(j)
    BY <2>1, <2>10, <2>13
  <2>14. ASSUME NEW j \in 1..Len(new)
         PROVE  /\ Was(j) \in 1..Len(old)
                /\ new[j].from = old[Was(j)].from /\ new[j].role = old[Was(j)].role
    BY <2>2, <2>11, <2>12
  <2> DEFINE Is(k) == IF k <= n + 1 THEN k ELSE k - (w - 1)
  <2>15. ASSUME NEW k \in 1..Len(old), old[k].role # "tool"
         PROVE  Is(k) \in 1..Len(new) /\ new[Is(k)].from = old[k].from
    <3>1. ASSUME k > n + 1  PROVE k > n + w
      <4>1. CASE k <= n + w
        <5>1. /\ k \in 1..(n + w) /\ ~(k <= n) /\ k \in 1..(Len(hg) + Len(d)) /\ k <= Len(hg)
              /\ k - n \in 2..w
          BY <2>1, <2>3, <3>1, <4>1
        <5>2. old[k] = g[k - n]
          BY <2>3, <2>4, <5>1
        <5> QED  BY <2>9, <2>15, <5>1, <5>2 DEF IsToolResult
      <4> QED  BY <2>1, <2>10, <4>1
    <3>2. Is(k) \in 1..Len(new) /\ Was(Is(k)) = k
      BY <2>1, <2>10, <3>1
    <3> HIDE DEF Is, Was
    <3> QED  BY <2>14, <3>2
  <2> HIDE DEF Is, Was
  <2>16. OnlyWhatWasSaid(new, script)
    <3> SUFFICES ASSUME NEW j \in 1..Len(new)
                 PROVE  /\ new[j].from \in 1..Len(script)
                        /\ \/ new[j] = script[new[j].from]
                           \/ /\ Declares(script[new[j].from])
                              /\ new[j] = StripToolCalls(script[new[j].from])
      BY DEF OnlyWhatWasSaid
    <3>1. \A i \in 1..Len(old) :
              /\ old[i].from \in 1..Len(script)
              /\ \/ old[i] = script[old[i].from]
                 \/ /\ Declares(script[old[i].from])
                    /\ old[i] = StripToolCalls(script[old[i].from])
      BY <2>8 DEF Tells, OnlyWhatWasSaid
    <3>2. CASE j # n + 1
      BY <2>12, <3>1, <3>2
    <3>3. CASE j = n + 1
      <4>1. /\ g[1].from \in 1..Len(script)
            /\ \/ g[1] = script[g[1].from]
               \/ g[1] = StripToolCalls(script[g[1].from])
        BY <2>11, <3>1
      <4>2. script[g[1].from] \in Message
        BY <4>1, ElementOfSeq
      <4>3. g[1] = script[g[1].from]
        BY <2>9, <4>1, <4>2, MessageParts DEF Declares
      <4>4. s = StripToolCalls(g[1])
        BY <2>1 DEF s
      <4> QED  BY <2>2, <2>9, <2>11, <3>3, <4>1, <4>3, <4>4
    <3> QED  BY <3>2, <3>3
  <2>17. AllThatWasSaid(new, script)
    <3> SUFFICES ASSUME NEW k \in 1..Len(script), script[k].role # "tool"
                 PROVE  \E j \in 1..Len(new) : new[j].from = k
      BY DEF AllThatWasSaid
    <3>1. PICK i \in 1..Len(old) : old[i].from = k
      BY <2>8 DEF Tells, AllThatWasSaid
    <3>2. \/ old[i] = script[k]
          \/ old[i] = StripToolCalls(script[k])
      BY <2>8, <3>1 DEF Tells, OnlyWhatWasSaid
    <3>3. script[k] \in Message
      BY ElementOfSeq
    <3>4. old[i].role # "tool"
      BY <3>2, <3>3, MessageParts
    <3> QED  BY <2>15, <3>1, <3>4
  <2>18. InOrder(new, script)
    <3> SUFFICES ASSUME NEW i \in 1..Len(new), NEW j \in 1..Len(new), i < j
                 PROVE  new[i].from < new[j].from \/ Overtakes(new[i], new[j], script)
      BY DEF InOrder
    <3>1. Was(i) < Was(j) /\ Was(i) \in 1..Len(old) /\ Was(j) \in 1..Len(old)
      BY <2>13, <2>14
    <3>2. \/ old[Was(i)].from < old[Was(j)].from
          \/ Overtakes(old[Was(i)], old[Was(j)], script)
      BY <2>8, <3>1 DEF Tells, InOrder
    <3> QED  BY <2>14, <3>2 DEF Overtakes
  <2> QED  BY <2>2, <2>16, <2>17, <2>18 DEF Tells, new
<1> QED  BY <1>1, <1>2

(* What the scan has in hand.                                              *)
InHand(st) == st.result \o st.group \o st.deferred

OnlyUsersWait(st) == \A k \in 1..Len(st.deferred) : st.deferred[k].role = "user"

LEMMA NothingAdded ==
    ASSUME NEW h \in Seq(Message)
    PROVE  h \o <<>> = h /\ <<>> \o h = h
BY ConcatEmptySeq

LEMMA JoinedAgain ==
    ASSUME NEW f \in Seq(Message), NEW g \in Seq(Message), NEW h \in Seq(Message)
    PROVE  (f \o g) \o h = f \o (g \o h)
BY ConcatAssociative

(* Closing the group and sending what was put off lose nothing.            *)
LEMMA CloseTells ==
    ASSUME NEW st, StateOk(st), NEW script \in Seq(Message), Tells(InHand(st), script)
    PROVE  LET closed == ClosePendingGroup(st)
           IN  /\ Tells(closed.result \o closed.deferred, script)
               /\ closed.deferred = st.deferred
               /\ closed.result \in Seq(Message) /\ closed.deferred \in Seq(Message)
               /\ closed.group = <<>>
<1> DEFINE closed == ClosePendingGroup(st)
<1>1. /\ st.result \in Seq(Message) /\ st.group \in Seq(Message)
      /\ st.deferred \in Seq(Message) /\ GroupOk(st.group)
      /\ st = [result |-> st.result, deferred |-> st.deferred, group |-> st.group]
  BY DEF StateOk, StateType
<1>2. StateOk(closed) /\ closed.group = <<>>
  BY CloseKeeps
<1>3. closed.result \in Seq(Message) /\ closed.deferred \in Seq(Message)
  BY <1>2 DEF StateOk, StateType
<1>4. CASE st.group = <<>>
  <2>1. closed = st
    BY <1>4 DEF ClosePendingGroup
  <2>2. st.result \o st.group = st.result
    BY <1>1, <1>4, NothingAdded
  <2> HIDE DEF closed
  <2> QED  BY <1>2, <1>3, <2>1, <2>2 DEF InHand, closed
<1>5. CASE st.group # <<>>
  <2> DEFINE r == st.result \o Settled(st.group)
  <2>1. closed = [st EXCEPT !.result = r, !.group = <<>>]
    BY <1>5 DEF ClosePendingGroup
  <2>2. Tells(r \o st.deferred, script)
    BY <1>1, <1>5, TellsSettled DEF InHand
  <2> HIDE DEF r, closed
  <2>3. closed.result = r /\ closed.deferred = st.deferred
    BY <1>1, <2>1
  <2> QED  BY <1>2, <1>3, <2>2, <2>3 DEF closed
<1> QED  BY <1>4, <1>5

LEMMA FinishTells ==
    ASSUME NEW st, StateOk(st), NEW script \in Seq(Message), Tells(InHand(st), script)
    PROVE  Tells(Finish(st), script)
<1> DEFINE closed == ClosePendingGroup(st)
<1>1. Tells(closed.result \o closed.deferred, script) /\ StateOk(closed)
  BY CloseTells, CloseKeeps
<1> HIDE DEF closed
<1>2. FlushDeferredUsers(closed).result = closed.result \o closed.deferred
  BY <1>1 DEF FlushDeferredUsers, StateOk, StateType
<1> QED  BY <1>1, <1>2 DEF Finish, closed

(* Each of the four cases of the loop: a turn with calls opens a group,    *)
LEMMA OpenTells ==
    ASSUME NEW st, StateOk(st), OnlyUsersWait(st), NEW script \in Seq(Message),
           Tells(InHand(st), script),
           NEW m \in Message, m.from = Len(script) + 1, Declares(m)
    PROVE  /\ OnlyUsersWait(OpenGroup(st, m))
           /\ Tells(InHand(OpenGroup(st, m)), Append(script, m))
<1> DEFINE closed == ClosePendingGroup(st)
           after == OpenGroup(st, m)
<1>1. /\ Tells(closed.result \o closed.deferred, script) /\ closed.deferred = st.deferred
      /\ closed.result \in Seq(Message) /\ closed.deferred \in Seq(Message)
      /\ closed \in StateType
  BY CloseTells, CloseKeeps DEF StateOk
<1>2. after = [closed EXCEPT !.group = <<m>>]
  BY DEF OpenGroup
<1>3. m.role # "user"
  BY DEF Declares
<1> HIDE DEF closed, after
<1>4. after.result = closed.result /\ after.deferred = closed.deferred /\ after.group = <<m>>
  BY <1>1, <1>2 DEF StateType
<1>5. \A k \in 1..Len(closed.deferred) :
         m.role # "user" /\ OfTools(m) /\ closed.deferred[k].role = "user"
  BY <1>1, <1>3 DEF OnlyUsersWait, OfTools
<1>6. Tells(Append(closed.result, m) \o closed.deferred, Append(script, m))
  BY <1>1, <1>5, TellsMore
<1>7. Append(closed.result, m) = closed.result \o <<m>>
  BY <1>1, AppendIsConcat
<1>8. InHand(after) = Append(closed.result, m) \o closed.deferred
  BY <1>4, <1>7 DEF InHand
<1> QED  BY <1>1, <1>4, <1>5, <1>6, <1>8 DEF after, OnlyUsersWait

(* a result joins the group or is left out,                                *)
LEMMA MatchTells ==
    ASSUME NEW st, StateOk(st), OnlyUsersWait(st), NEW script \in Seq(Message),
           Tells(InHand(st), script),
           NEW m \in Message, m.from = Len(script) + 1, IsToolResult(m), Written(m)
    PROVE  /\ OnlyUsersWait(MatchResult(st, m))
           /\ Tells(InHand(MatchResult(st, m)), Append(script, m))
<1> DEFINE now == [st EXCEPT !.group = Append(@, m)]
           more == Append(script, m)
<1>0. /\ st.result \in Seq(Message) /\ st.group \in Seq(Message)
      /\ st.deferred \in Seq(Message) /\ st \in StateType /\ GroupOk(st.group)
      /\ m.role = "tool" /\ InHand(st) \in Seq(Message) /\ more \in Seq(Message)
  <2>1. /\ st.result \in Seq(Message) /\ st.group \in Seq(Message)
        /\ st.deferred \in Seq(Message) /\ st \in StateType /\ GroupOk(st.group)
        /\ m.role = "tool"
    BY DEF StateOk, StateType, IsToolResult
  <2>2. st.result \o st.group \in Seq(Message) /\ more \in Seq(Message)
    BY <2>1
  <2>3. InHand(st) \in Seq(Message)
    BY <2>1, <2>2 DEF InHand
  <2> HIDE DEF more
  <2> QED  BY <2>1, <2>2, <2>3
<1>1. CASE ~(st.group # <<>> /\ m.ids \subseteq Missing(st.group))
  <2>1. MatchResult(st, m) = st
    BY <1>1 DEF MatchResult
  <2> QED  BY <1>0, <2>1, TellsLess
<1>2. CASE st.group # <<>> /\ m.ids \subseteq Missing(st.group)
  <2> DEFINE g == Append(st.group, m)
  <2>1. MatchResult(st, m) = IF Missing(now.group) = {}
                             THEN ClosePendingGroup(now) ELSE now
    BY <1>2 DEF MatchResult
  <2>2. PICK c \in CallId : m.ids = {c}
    BY <1>0 DEF Written
  <2>3. g \in Seq(Message) /\ GroupOk(g)
    <3> HIDE DEF g
    <3> QED  BY <1>0, <1>2, <2>2, GroupTakes DEF g
  <2>4. /\ now \in StateType /\ now.result = st.result /\ now.deferred = st.deferred
        /\ now.group = g
    <3> HIDE DEF g
    <3> QED  BY <1>0, <2>3 DEF StateType, g
  <2> HIDE DEF now, g
  <2>5. StateOk(now)
    BY <2>3, <2>4 DEF StateOk
  <2>6. InHand(now) = Append(st.result \o st.group, m) \o st.deferred
    <3>1. /\ <<m>> \in Seq(Message) /\ g = st.group \o <<m>>
          /\ (st.result \o st.group) \in Seq(Message)
      BY <1>0, AppendIsConcat DEF g
    <3>2. (st.result \o st.group) \o <<m>> = st.result \o g
      <4>1. (st.result \o st.group) \o <<m>> = st.result \o (st.group \o <<m>>)
        <5>1. st.result \in Seq(Message) /\ st.group \in Seq(Message)
          BY <1>0
        <5> QED  BY <3>1, <5>1, JoinedAgain
      <4> QED  BY <3>1, <4>1
    <3>3. Append(st.result \o st.group, m) = (st.result \o st.group) \o <<m>>
      BY <3>1, AppendIsConcat
    <3> QED  BY <2>4, <3>2, <3>3 DEF InHand
  <2>7. \A k \in 1..Len(st.deferred) :
           m.role # "user" /\ OfTools(m) /\ st.deferred[k].role = "user"
    BY <1>0 DEF OnlyUsersWait, OfTools, IsToolResult
  <2>8. Tells(InHand(now), more)
    <3>1. (st.result \o st.group) \in Seq(Message) /\ Tells((st.result \o st.group) \o st.deferred, script)
      BY <1>0 DEF InHand
    <3>2. Tells(Append(st.result \o st.group, m) \o st.deferred, Append(script, m))
      BY <1>0, <2>7, <3>1, TellsMore
    <3> QED  BY <2>6, <3>2
  <2>9. OnlyUsersWait(now)
    BY <2>4 DEF OnlyUsersWait
  <2> HIDE DEF more
  <2>10. /\ Tells(ClosePendingGroup(now).result \o ClosePendingGroup(now).deferred, more)
         /\ ClosePendingGroup(now).deferred = now.deferred
         /\ ClosePendingGroup(now).group = <<>>
         /\ ClosePendingGroup(now).result \in Seq(Message)
    BY <1>0, <2>5, <2>8, CloseTells
  <2>11. OnlyUsersWait(ClosePendingGroup(now)) /\ Tells(InHand(ClosePendingGroup(now)), more)
    BY <2>9, <2>10, NothingAdded DEF OnlyUsersWait, InHand
  <2> QED  BY <2>1, <2>8, <2>9, <2>11 DEF more
<1> QED  BY <1>1, <1>2

(* a user is put off,                                                      *)
LEMMA DeferTells ==
    ASSUME NEW st, StateOk(st), OnlyUsersWait(st), NEW script \in Seq(Message),
           Tells(InHand(st), script),
           NEW m \in Message, m.from = Len(script) + 1, m.role = "user"
    PROVE  /\ OnlyUsersWait(Defer(st, m))
           /\ Tells(InHand(Defer(st, m)), Append(script, m))
<1> DEFINE d == Append(st.deferred, m)
           a == st.result \o st.group
<1>1. /\ a \in Seq(Message) /\ st.deferred \in Seq(Message) /\ st \in StateType
      /\ <<m>> \in Seq(Message) /\ <<>> \in Seq(Message) /\ Len(<<>>) = 0 /\ 1..0 = {}
  <2>1. /\ st.result \in Seq(Message) /\ st.group \in Seq(Message)
        /\ st.deferred \in Seq(Message) /\ st \in StateType
    BY DEF StateOk, StateType
  <2> QED  BY <2>1, EmptySeq
<1>2. /\ d \in Seq(Message) /\ Len(d) = Len(st.deferred) + 1 /\ d[Len(st.deferred) + 1] = m
      /\ \A k \in 1..Len(st.deferred) : d[k] = st.deferred[k]
      /\ Len(st.deferred) \in Nat
  BY <1>1, AppendProperties, LenProperties
<1>3. Defer(st, m) = [st EXCEPT !.deferred = d]
  BY DEF Defer
<1>4. d = st.deferred \o <<m>>
  BY <1>1, AppendIsConcat
<1> HIDE DEF d
<1>5. /\ Defer(st, m).deferred = d /\ Defer(st, m).result = st.result
      /\ Defer(st, m).group = st.group
  BY <1>1, <1>3 DEF StateType
<1>6. OnlyUsersWait(Defer(st, m))
  BY <1>2, <1>5 DEF OnlyUsersWait
<1>7. InHand(st) \in Seq(Message) /\ InHand(st) = InHand(st) \o <<>>
  <2>1. InHand(st) \in Seq(Message)
    BY <1>1 DEF InHand
  <2> QED  BY <2>1, NothingAdded
<1>8. Tells(Append(InHand(st), m) \o <<>>, Append(script, m))
  <2>1. \A k \in 1..Len(<<>>) : m.role # "user" /\ OfTools(m) /\ <<>>[k].role = "user"
    BY <1>1
  <2>2. Tells(InHand(st) \o <<>>, script)
    BY <1>7
  <2> QED  BY <1>1, <1>7, <2>1, <2>2, TellsMore
<1>9. Append(InHand(st), m) \in Seq(Message) /\ Append(InHand(st), m) = InHand(st) \o <<m>>
  BY <1>7, AppendIsConcat
<1>10. InHand(Defer(st, m)) = InHand(st) \o <<m>>
  <2>1. (a \o st.deferred) \o <<m>> = a \o d
    BY <1>1, <1>4, JoinedAgain
  <2> QED  BY <1>5, <2>1 DEF InHand
<1> QED  BY <1>6, <1>8, <1>9, <1>10, NothingAdded

(* and the rest passes, after the users put off.                           *)
LEMMA PassTells ==
    ASSUME NEW st, StateOk(st), NEW script \in Seq(Message), Tells(InHand(st), script),
           NEW m \in Message, m.from = Len(script) + 1
    PROVE  /\ OnlyUsersWait(Pass(st, m))
           /\ Tells(InHand(Pass(st, m)), Append(script, m))
<1> DEFINE closed == ClosePendingGroup(st)
           sent == FlushDeferredUsers(closed)
           after == Pass(st, m)
           r == closed.result \o closed.deferred
<1>1. /\ Tells(r, script) /\ closed \in StateType /\ closed.group = <<>>
      /\ r \in Seq(Message)
  <2>1. /\ Tells(r, script) /\ closed.result \in Seq(Message)
        /\ closed.deferred \in Seq(Message) /\ closed.group = <<>>
    BY CloseTells
  <2>2. closed \in StateType
    BY CloseKeeps DEF StateOk
  <2> HIDE DEF closed
  <2> QED  BY <2>1, <2>2
<1>2. after = [sent EXCEPT !.result = Append(@, m)]
      /\ sent = [closed EXCEPT !.result = r, !.deferred = <<>>]
  BY DEF Pass, FlushDeferredUsers
<1> HIDE DEF closed, sent, after, r
<1>3. sent.result = r /\ sent.deferred = <<>> /\ sent.group = <<>> /\ sent \in StateType
  <2>1. <<>> \in Seq(Message)
    BY EmptySeq
  <2> QED  BY <1>1, <1>2, <2>1 DEF StateType
<1>4. after.result = Append(r, m) /\ after.deferred = <<>> /\ after.group = <<>>
  BY <1>2, <1>3 DEF StateType
<1>5. Append(r, m) \in Seq(Message) /\ r \o <<>> = r
  BY <1>1, NothingAdded
<1>6. /\ <<>> \in Seq(Message) /\ Len(<<>>) = 0 /\ 1..0 = {}
  BY EmptySeq
<1>7. Tells(Append(r, m) \o <<>>, Append(script, m))
  <2>1. \A k \in 1..Len(<<>>) : m.role # "user" /\ OfTools(m) /\ <<>>[k].role = "user"
    BY <1>6
  <2> QED  BY <1>1, <1>5, <1>6, <2>1, TellsMore
<1>8. InHand(after) = Append(r, m)
  BY <1>4, <1>5, NothingAdded DEF InHand
<1>9. Append(r, m) \o <<>> = Append(r, m)
  BY <1>5, NothingAdded
<1>10. OnlyUsersWait(after)
  BY <1>4, <1>6 DEF OnlyUsersWait
<1> QED  BY <1>7, <1>8, <1>9, <1>10 DEF after

LEMMA TakeTells ==
    ASSUME NEW st, StateOk(st), OnlyUsersWait(st), NEW script \in Seq(Message),
           Tells(InHand(st), script),
           NEW m \in Message, m.from = Len(script) + 1, Written(m)
    PROVE  /\ OnlyUsersWait(Take(st, m))
           /\ Tells(InHand(Take(st, m)), Append(script, m))
<1>1. CASE Declares(m)
  <2>1. Take(st, m) = OpenGroup(st, m)
    BY <1>1 DEF Take, Declares, IsToolResult
  <2> QED  BY <1>1, <2>1, OpenTells
<1>2. CASE IsToolResult(m)
  <2>1. Take(st, m) = MatchResult(st, m)
    BY <1>2 DEF Take, Declares, IsToolResult
  <2> QED  BY <1>2, <2>1, MatchTells
<1>3. CASE Plain(m) /\ m.role = "user" /\ st.group # <<>>
  <2>1. Take(st, m) = Defer(st, m)
    BY <1>3 DEF Take, Plain
  <2> QED  BY <1>3, <2>1, DeferTells
<1>4. CASE Plain(m) /\ ~(m.role = "user" /\ st.group # <<>>)
  <2>1. Take(st, m) = Pass(st, m)
    BY <1>4 DEF Take, Plain
  <2> QED  BY <2>1, PassTells
<1> QED  BY <1>1, <1>2, <1>3, <1>4 DEF Plain

-----------------------------------------------------------------------------
(* Theorems                                                                *)

(* The loop keeps a result a provider accepts, plain messages put off and  *)
(* an open group whose results answer distinct calls of its turn.          *)
THEOREM ScanIsSound == ScanSpec => []ScanInv
<1>1. ScanInit => ScanInv
  <2>1. /\ <<>> \in Seq(Message) /\ WellFormed(<<>>)
        /\ \A k \in 1..Len(<<>>) : Plain(<<>>[k])
    BY EmptySeq, PlainWellFormed
  <2> QED  BY <2>1, EmptyGroup DEF ScanInit, ScanInv, StateOk, StateType, Empty
<1>2. ScanInv /\ [ScanNext]_scanVars => ScanInv'
  <2> SUFFICES ASSUME ScanInv, [ScanNext]_scanVars
               PROVE  ScanInv'
    OBVIOUS
  <2>1. ASSUME NEW m \in Message, ReadMessage(m)
        PROVE  ScanInv'
    BY <2>1, TakeKeeps DEF ReadMessage, ScanInv
  <2>2. CASE UNCHANGED scanVars
    BY <2>2 DEF scanVars, ScanInv
  <2> QED  BY <2>1, <2>2 DEF ScanNext
<1> QED  BY <1>1, <1>2, PTL DEF ScanSpec

(* Whatever the transcript, what repairProviderHistory returns is accepted *)
(* by a provider: each result follows its call, each call has its result.  *)
THEOREM AlwaysReady == ScanSpec => []ProviderReady
<1>1. ScanInv => ProviderReady
  <2> SUFFICES ASSUME ScanInv
               PROVE  ProviderReady
    OBVIOUS
  <2>1. StateOk(FlushDeferredUsers(ClosePendingGroup(state)))
    BY CloseKeeps, FlushKeeps DEF ScanInv
  <2> QED  BY <2>1 DEF StateOk, ProviderReady, Finish
<1> QED  BY <1>1, ScanIsSound, PTL

(* The repair never strips a turn that resolves completely: a transcript a *)
(* provider accepts is sent as it is.  Of a prefix of one the repair keeps *)
(* the closed part, and the last group as it stands.                       *)
THEOREM HealthyTranscriptsAreKept == ScanSpec => []HealthyIsKept
<1>1. ScanInit => KeptInv
  <2> SUFFICES ASSUME ScanInit  PROVE KeptInv
    OBVIOUS
  <2>1. messages = <<>> /\ state = Empty /\ <<>> \in Seq(Message) /\ Len(<<>>) = 0 /\ 1..0 = {}
    BY EmptySeq DEF ScanInit
  <2>2. Empty = [Empty EXCEPT !.result = <<>>]
    BY DEF Empty
  <2> QED  BY <2>1, <2>2 DEF KeptInv
<1>2. KeptInv /\ [ScanNext]_scanVars => KeptInv'
  <2> SUFFICES ASSUME KeptInv, [ScanNext]_scanVars
               PROVE  KeptInv'
    OBVIOUS
  <2>1. CASE UNCHANGED scanVars
    BY <2>1 DEF scanVars, KeptInv
  <2> QED  BY <2>1, ReadKeeps DEF ScanNext
<1>3. KeptInv => HealthyIsKept
  <2> SUFFICES ASSUME KeptInv, WellFormed(messages)
               PROVE  Finish(state) = messages
    BY DEF HealthyIsKept
  <2>1. messages \in Seq(Message) /\ state = [Empty EXCEPT !.result = messages]
    BY DEF KeptInv
  <2>2. messages \o <<>> = messages
    BY <2>1, ConcatEmptySeq
  <2>3. FlushDeferredUsers(ClosePendingGroup(state)).result = messages
    BY <2>1, <2>2 DEF FlushDeferredUsers, ClosePendingGroup, Empty
  <2> QED  BY <2>3 DEF Finish
<1> QED  BY <1>1, <1>2, <1>3, PTL DEF ScanSpec

(* Nothing but tool results is ever dropped, nothing is sent twice, and    *)
(* only a user's message moves, only backwards, and only past turns with   *)
(* calls and results (of the group it came in and of those that follow it  *)
(* before anything else is said): for transcripts of any length and shape. *)
THEOREM NobodyIsSilenced == ScanSpec => []NothingSaidIsLost
<1>1. ScanInit => TellsInv
  <2> SUFFICES ASSUME ScanInit  PROVE TellsInv
    OBVIOUS
  <2>1. /\ messages = <<>> /\ <<>> \in Seq(Message) /\ Len(<<>>) = 0 /\ 1..0 = {}
        /\ state.result = <<>> /\ state.group = <<>> /\ state.deferred = <<>>
    BY EmptySeq DEF ScanInit, Empty
  <2>2. state.result \o state.group \o state.deferred = <<>>
    BY <2>1, NothingAdded
  <2>3. Tells(<<>>, <<>>)
    BY <2>1 DEF Tells, OnlyWhatWasSaid, AllThatWasSaid, InOrder
  <2> QED  BY <2>1, <2>2, <2>3 DEF TellsInv
<1>2. ScanInv /\ TellsInv /\ [ScanNext]_scanVars => TellsInv'
  <2> SUFFICES ASSUME ScanInv, TellsInv, [ScanNext]_scanVars
               PROVE  TellsInv'
    OBVIOUS
  <2>1. ASSUME NEW m \in Message, ReadMessage(m)
        PROVE  TellsInv'
    <3>1. /\ StateOk(state) /\ OnlyUsersWait(state) /\ messages \in Seq(Message)
          /\ Tells(InHand(state), messages)
      BY DEF ScanInv, TellsInv, OnlyUsersWait, InHand
    <3>2. /\ m.from = Len(messages) + 1 /\ Written(m)
          /\ messages' = Append(messages, m) /\ state' = Take(state, m)
      BY <2>1 DEF ReadMessage
    <3>3. OnlyUsersWait(state') /\ Tells(InHand(state'), messages')
      BY <3>1, <3>2, TakeTells
    <3>4. messages' \in Seq(Message)
      BY <3>1, <3>2
    <3> QED  BY <3>3, <3>4 DEF TellsInv, OnlyUsersWait, InHand
  <2>2. CASE UNCHANGED scanVars
    BY <2>2 DEF scanVars, TellsInv
  <2> QED  BY <2>1, <2>2 DEF ScanNext
<1>3. ScanInv /\ TellsInv => NothingSaidIsLost
  BY FinishTells DEF ScanInv, TellsInv, NothingSaidIsLost, InHand
<1> QED  BY <1>1, <1>2, <1>3, ScanIsSound, PTL DEF ScanSpec

-----------------------------------------------------------------------------
(* The turns of a session                                                  *)


Pair == Client \X Run

-----------------------------------------------------------------------------
(* The events of a run                                                     *)

(* What N is to n after endings of r: r is not buffered, nothing is shown, *)
(* each client watching hears one, and none who heard none still watches.  *)
Ended(n, N, r) ==
    /\ N \in Net
    /\ N.buffered = n.buffered \ {r}
    /\ N.content = n.content /\ N.shown = n.shown
    /\ N.watch \subseteq n.watch
    /\ \A w \in Pair :
          \/ N.heard[w] = n.heard[w]
          \/ /\ w \in n.watch /\ w[2] = r
             /\ \E e \in Ending : N.heard[w] = Append(n.heard[w], e)
    /\ \A w \in N.watch : w[2] = r => N.heard[w] # <<>>

(* The fields of the net after an ending.                                  *)
LEMMA EndingFields ==
    ASSUME NEW n \in Net, NEW r \in Run, NEW e \in Ending
    PROVE  LET N == Emit(n, r, e)
           IN  /\ N \in Net
               /\ N.buffered = n.buffered \ {r} /\ N.content = n.content
               /\ N.shown = n.shown
               /\ N.watch = IF e \in EndsWatch THEN n.watch \ Watching(n, r) ELSE n.watch
               /\ \A w \in Pair : N.heard[w] = IF w \in Watching(n, r)
                                               THEN Append(n.heard[w], e)
                                               ELSE n.heard[w]
<1> DEFINE wa == IF e \in EndsWatch THEN n.watch \ Watching(n, r) ELSE n.watch
           sh == [w \in DOMAIN n.shown |-> IF e = "delta" /\ w \in Watching(n, r)
                                           THEN n.shown[w] + 1 ELSE n.shown[w]]
           he == [w \in DOMAIN n.heard |-> IF e \in Ending /\ w \in Watching(n, r)
                                           THEN Append(n.heard[w], e) ELSE n.heard[w]]
           ac == IF n.active = r THEN NoRun ELSE n.active
           F  == [n EXCEPT !.shown = sh, !.heard = he, !.watch = wa]
           N  == [F EXCEPT !.buffered = @ \ {r}, !.active = IF @ = r THEN NoRun ELSE @]
<1>1. e # "delta" /\ e # "started"
  BY DEF Ending
<1>2. /\ n.watch \subseteq Pair /\ n.buffered \subseteq Run
      /\ n.content \in [Run -> Nat] /\ n.active \in Run \cup {NoRun}
      /\ n.shown \in [Pair -> Nat] /\ n.heard \in [Pair -> Seq(Ending)]
  BY DEF Net, Pair
<1>3. wa \subseteq Pair /\ wa \subseteq n.watch
  BY <1>2
<1>4. sh = n.shown
  BY <1>1, <1>2
<1>5. /\ he \in [Pair -> Seq(Ending)]
      /\ \A w \in Pair : he[w] = IF w \in Watching(n, r)
                                 THEN Append(n.heard[w], e) ELSE n.heard[w]
  BY <1>2
<1>6. ac \in Run \cup {NoRun}
  BY <1>2
<1>7. Forward(n, r, e) = F
  BY DEF Forward
<1>8. Emit(n, r, e) = N
  BY <1>1, <1>7 DEF Emit, Remember
<1> HIDE DEF wa, sh, he
<1>9. F.active = n.active /\ F.buffered = n.buffered
  BY DEF Net
<1>10. N = [F EXCEPT !.buffered = n.buffered \ {r}, !.active = ac]
  BY <1>9
<1> HIDE DEF ac
<1>11. /\ N \in Net
       /\ N.buffered = n.buffered \ {r} /\ N.content = n.content
       /\ N.shown = sh /\ N.watch = wa /\ N.heard = he
  BY <1>2, <1>3, <1>4, <1>5, <1>6, <1>10 DEF Net, Pair
<1> QED  BY <1>3, <1>4, <1>5, <1>8, <1>11 DEF wa

LEMMA EmitEnds ==
    ASSUME NEW n \in Net, NEW r \in Run, NEW e \in Ending
    PROVE  /\ Ended(n, Emit(n, r, e), r)
           /\ e # "cancelled" => Watching(Emit(n, r, e), r) = {}
<1> DEFINE N == Emit(n, r, e)
<1>1. /\ N \in Net
      /\ N.buffered = n.buffered \ {r} /\ N.content = n.content
      /\ N.shown = n.shown
      /\ N.watch = IF e \in EndsWatch THEN n.watch \ Watching(n, r) ELSE n.watch
      /\ \A w \in Pair : N.heard[w] = IF w \in Watching(n, r)
                                      THEN Append(n.heard[w], e) ELSE n.heard[w]
  BY EndingFields
<1> HIDE DEF N
<1>2. /\ N.watch \subseteq n.watch
      /\ n.watch \subseteq Pair /\ n.heard \in [Pair -> Seq(Ending)]
  <2>1. n.watch \subseteq Pair /\ n.heard \in [Pair -> Seq(Ending)]
    BY DEF Net, Pair
  <2> QED  BY <1>1, <2>1
<1>3. ASSUME NEW w \in N.watch, w[2] = r
      PROVE  N.heard[w] # <<>>
  <2>1. w \in Pair /\ w \in Watching(n, r)
    BY <1>2, <1>3 DEF Watching
  <2>2. N.heard[w] = Append(n.heard[w], e) /\ n.heard[w] \in Seq(Ending)
    BY <1>1, <1>2, <2>1
  <2> QED  BY <2>2
<1>4. \A w \in Pair :
         \/ N.heard[w] = n.heard[w]
         \/ /\ w \in n.watch /\ w[2] = r
            /\ \E x \in Ending : N.heard[w] = Append(n.heard[w], x)
  BY <1>1 DEF Watching
<1>5. Ended(n, N, r)
  BY <1>1, <1>2, <1>3, <1>4 DEF Ended
<1>6. ASSUME e # "cancelled"
      PROVE  Watching(N, r) = {}
  <2>1. e \in EndsWatch
    BY <1>6 DEF EndsWatch, Ending
  <2>2. N.watch = n.watch \ Watching(n, r)
    BY <1>1, <2>1
  <2> QED  BY <1>2, <2>2 DEF Watching
<1> QED  BY <1>5, <1>6 DEF N

(* A second ending finds nobody.                                           *)
LEMMA EmitAgain ==
    ASSUME NEW n \in Net, NEW N, NEW r \in Run, NEW e \in Ending,
           Ended(n, N, r), Watching(N, r) = {}
    PROVE  Ended(n, Emit(N, r, e), r) /\ Watching(Emit(N, r, e), r) = {}
<1> DEFINE M == Emit(N, r, e)
<1>1. N \in Net
  BY DEF Ended
<1>2. /\ M \in Net
      /\ M.buffered = N.buffered \ {r} /\ M.content = N.content
      /\ M.shown = N.shown
      /\ M.watch = IF e \in EndsWatch THEN N.watch \ Watching(N, r) ELSE N.watch
      /\ \A w \in Pair : M.heard[w] = IF w \in Watching(N, r)
                                      THEN Append(N.heard[w], e) ELSE N.heard[w]
  BY <1>1, EndingFields
<1> HIDE DEF M
<1>3. M.watch = N.watch /\ \A w \in Pair : M.heard[w] = N.heard[w]
  BY <1>2
<1>4. Watching(M, r) = {}
  BY <1>3 DEF Watching
<1>5. \A w \in M.watch : w[2] # r
  BY <1>4 DEF Watching
<1>6. Ended(n, M, r)
  BY <1>2, <1>3, <1>5 DEF Ended
<1> QED  BY <1>4, <1>6 DEF M

-----------------------------------------------------------------------------
(* What the steps of one turn have in common                               *)

(* The types of everything but the net and the turns.                      *)
RestOK ==
    /\ log \in Seq(Message)
    /\ row \in [Run -> RowStatus]
    /\ inflight \subseteq Run /\ stopped \subseteq Run
    /\ said \in [Run -> Nat]
    /\ muddled \in BOOLEAN /\ faults \in 0..MaxFaults

(* The turn of r, and no other, moves on to a phase.                       *)
Moves(r, phase) ==
    /\ turn' \in [Run -> Turn]
    /\ turn'[r].at = phase
    /\ \A q \in Run : q # r => turn'[q] = turn[q]
    /\ CountersFit'

LEMMA GoesMoves ==
    ASSUME TurnInv, NEW r \in Run, NEW phase \in Phase, Goes(r, phase),
           \/ phase \notin {"tools", "suspending", "parking"}
           \/ turn[r].at \in {"tools", "suspending", "parking"}
    PROVE  Moves(r, phase)
<1>1. /\ turn \in [Run -> Turn] /\ turn' = [turn EXCEPT ![r].at = phase]
      /\ CountersFit
  BY DEF TurnInv, TypeOK, Goes
<1>2. turn[r] \in Turn
  BY <1>1
<1>3. /\ [turn[r] EXCEPT !.at = phase] \in Turn
      /\ [turn[r] EXCEPT !.at = phase].at = phase
      /\ [turn[r] EXCEPT !.at = phase].round = turn[r].round
      /\ [turn[r] EXCEPT !.at = phase].left = turn[r].left
  BY <1>2 DEF Turn
<1>4. /\ turn' \in [Run -> Turn] /\ turn'[r] = [turn[r] EXCEPT !.at = phase]
      /\ \A q \in Run : q # r => turn'[q] = turn[q]
  BY <1>1, <1>3
<1>5. CountersFit'
  <2>1. turn'[r].round < MaxRounds
    BY <1>1, <1>3, <1>4 DEF CountersFit
  <2>2. ASSUME turn'[r].at \in {"tools", "suspending", "parking"}
        PROVE  turn'[r].left \in 1..MaxCalls
    <3>1. turn[r].at \in {"tools", "suspending", "parking"}
      BY <1>3, <1>4, <2>2
    <3>2. turn[r].left \in 1..MaxCalls
      BY <1>1, <3>1 DEF CountersFit
    <3> QED  BY <1>3, <1>4, <3>2
  <2>3. \A q \in Run : q # r =>
           /\ turn'[q].round < MaxRounds
           /\ turn'[q].at \in {"tools", "suspending", "parking"} =>
                 turn'[q].left \in 1..MaxCalls
    BY <1>1, <1>4 DEF CountersFit
  <2> QED  BY <2>1, <2>2, <2>3 DEF CountersFit
<1> QED  BY <1>3, <1>4, <1>5 DEF Moves

(* A turn that is given a new record.                                      *)
LEMMA SetMoves ==
    ASSUME TurnInv, NEW r \in Run, NEW t \in Turn, turn' = [turn EXCEPT ![r] = t],
           t.round < MaxRounds,
           t.at \in {"tools", "suspending", "parking"} => t.left \in 1..MaxCalls
    PROVE  Moves(r, t.at)
<1>1. turn \in [Run -> Turn] /\ CountersFit
  BY DEF TurnInv, TypeOK
<1>2. /\ turn' \in [Run -> Turn] /\ turn'[r] = t
      /\ \A q \in Run : q # r => turn'[q] = turn[q]
  BY <1>1
<1>3. CountersFit'
  BY <1>1, <1>2 DEF CountersFit
<1> QED  BY <1>2, <1>3 DEF Moves

LEMMA OutsideFits ==
    ASSUME NEW phase \in Phase
    PROVE  /\ Outside(phase) \in Turn
           /\ Outside(phase).at = phase /\ Outside(phase).round < MaxRounds
  BY TurnAssumption DEF Outside, Turn

LEMMA ExitsMoves ==
    ASSUME TurnInv, NEW r \in Run, NEW phase \in Phase, Exits(r, phase),
           phase \notin {"tools", "suspending", "parking"}
    PROVE  Moves(r, phase)
<1>1. turn' = [turn EXCEPT ![r] = Outside(phase)]
  BY DEF Exits
<1>2. /\ Outside(phase) \in Turn
      /\ Outside(phase).at = phase /\ Outside(phase).round < MaxRounds
  BY OutsideFits
<1> DEFINE t == Outside(phase)
<1> HIDE DEF t
<1>4. Moves(r, t.at)
  BY <1>1, <1>2, SetMoves DEF t
<1> QED  BY <1>2, <1>4 DEF t
-----------------------------------------------------------------------------
(* Steps by what they do to the net                                        *)

(* A step that tells the clients nothing.                                  *)
LEMMA QuietKeeps ==
    ASSUME TurnInv, RestOK', NEW r \in Run, NEW phase \in Phase, Moves(r, phase),
           UNCHANGED <<net, said>>, Live(r), phase \notin {"none", "over"},
           phase \in Unended => turn[r].at \in Unended
    PROVE  TurnInv'
<1>1. /\ turn' \in [Run -> Turn] /\ turn'[r].at = phase
      /\ \A q \in Run : q # r => turn'[q] = turn[q]
      /\ turn[r].at \notin {"none", "over"}
  BY DEF Moves, Live
<1>2. /\ net \in Net /\ net.watch \subseteq Pair /\ net.buffered \subseteq Run
  BY DEF TurnInv, TypeOK, Net, Pair
<1>3. TypeOK'
  BY <1>1 DEF TurnInv, TypeOK, RestOK
<1>4. CountersFit'
  BY DEF Moves
<1>5. Unstarted'
  BY <1>1 DEF TurnInv, Unstarted, At
<1>6. UnendedIsBuffered'
  BY <1>1 DEF TurnInv, UnendedIsBuffered
<1>7. BufferIsFresh'
  BY <1>1, <1>2 DEF TurnInv, BufferIsFresh, Live
<1>8. WatchEnds'
  <2> SUFFICES ASSUME NEW w \in net.watch, w[2] \notin net.buffered
               PROVE  At(w[2], "over")' /\ net.heard[w] # <<>>
    BY DEF WatchEnds
  <2>1. turn[w[2]].at = "over" /\ net.heard[w] # <<>> /\ w[2] \in Run
    BY <1>2 DEF TurnInv, WatchEnds, At, Pair
  <2> QED  BY <1>1, <2>1 DEF At
<1>9. OneEnding' /\ WatchedIsWhole'
  BY DEF TurnInv, OneEnding, WatchedIsWhole
<1> QED  BY <1>3, <1>4, <1>5, <1>6, <1>7, <1>8, <1>9 DEF TurnInv

(* A step that reports an end of the run: afterwards either nobody watches *)
(* it or its turn is over.                                                 *)
LEMMA EndKeeps ==
    ASSUME TurnInv, RestOK', NEW r \in Run, NEW phase \in Phase, Moves(r, phase),
           Ended(net, net', r), said' = said, Live(r),
           phase \notin Unended \cup {"none"},
           Watching(net', r) = {} \/ phase = "over"
    PROVE  TurnInv'
<1>1. /\ turn' \in [Run -> Turn] /\ turn'[r].at = phase
      /\ \A q \in Run : q # r => turn'[q] = turn[q]
      /\ turn[r].at \notin {"none", "over"}
  BY DEF Moves, Live
<1>2. /\ net \in Net /\ net.watch \subseteq Pair /\ net.buffered \subseteq Run
      /\ net.heard \in [Pair -> Seq(Ending)]
  BY DEF TurnInv, TypeOK, Net, Pair
<1>3. /\ net' \in Net
      /\ net'.buffered = net.buffered \ {r}
      /\ net'.content = net.content /\ net'.shown = net.shown
      /\ net'.watch \subseteq net.watch
      /\ \A w \in Pair :
            \/ net'.heard[w] = net.heard[w]
            \/ /\ w \in net.watch /\ w[2] = r
               /\ \E e \in Ending : net'.heard[w] = Append(net.heard[w], e)
      /\ \A w \in net'.watch : w[2] = r => net'.heard[w] # <<>>
  BY DEF Ended
<1>4. \A w \in Pair : w[2] # r => net'.heard[w] = net.heard[w]
  BY <1>3
<1>5. TypeOK'
  BY <1>1, <1>3 DEF TypeOK, RestOK
<1>6. CountersFit'
  BY DEF Moves
<1>7. Unstarted'
  BY <1>1, <1>3, <1>4 DEF TurnInv, Unstarted, At, Pair
<1>8. UnendedIsBuffered'
  BY <1>1, <1>3 DEF TurnInv, UnendedIsBuffered
<1>9. BufferIsFresh'
  <2> SUFFICES ASSUME NEW q \in net'.buffered
               PROVE  /\ Live(q)' /\ net'.content[q] = said'[q]
                      /\ \A w \in Pair : w[2] = q => net'.heard[w] = <<>>
    BY DEF BufferIsFresh, Pair
  <2>1. q \in net.buffered /\ q # r /\ q \in Run
    BY <1>2, <1>3
  <2>2. /\ Live(q) /\ net.content[q] = said[q]
        /\ \A w \in Pair : w[2] = q => net.heard[w] = <<>>
    BY <2>1 DEF TurnInv, BufferIsFresh, Pair
  <2> QED  BY <1>1, <1>3, <1>4, <2>1, <2>2 DEF Live
<1>10. WatchEnds'
  <2> SUFFICES ASSUME NEW w \in net'.watch, w[2] \notin net'.buffered
               PROVE  At(w[2], "over")' /\ net'.heard[w] # <<>>
    BY DEF WatchEnds
  <2>1. w \in net.watch /\ w \in Pair /\ w[2] \in Run
    BY <1>2, <1>3 DEF Pair
  <2>2. CASE w[2] = r
    <3>1. phase = "over"
      BY <2>2 DEF Watching
    <3> QED  BY <1>1, <1>3, <2>2, <3>1 DEF At
  <2>3. CASE w[2] # r
    <3>1. At(w[2], "over") /\ net.heard[w] # <<>>
      BY <1>3, <2>1, <2>3 DEF TurnInv, WatchEnds
    <3> QED  BY <1>1, <1>4, <2>1, <2>3, <3>1 DEF At
  <2> QED  BY <2>2, <2>3
<1>11. OneEnding'
  <2> SUFFICES ASSUME NEW w \in Pair
               PROVE  Len(net'.heard[w]) <= 1
    BY DEF OneEnding, Pair
  <2>1. Len(net.heard[w]) <= 1
    BY DEF TurnInv, OneEnding, Pair
  <2>2. ASSUME w \in net.watch, w[2] = r,
               NEW e \in Ending, net'.heard[w] = Append(net.heard[w], e)
        PROVE  Len(net'.heard[w]) <= 1
    <3>1. r \in net.buffered
      BY <1>1, <2>2 DEF TurnInv, WatchEnds, At
    <3>2. net.heard[w] = <<>>
      BY <2>2, <3>1 DEF TurnInv, BufferIsFresh, Pair
    <3> QED  BY <2>2, <3>2
  <2> QED  BY <1>3, <2>1, <2>2
<1>12. WatchedIsWhole'
  BY <1>3 DEF TurnInv, WatchedIsWhole
<1> QED
  BY <1>5, <1>6, <1>7, <1>8, <1>9, <1>10, <1>11, <1>12 DEF TurnInv

(* A step of which neither the turns nor the clients see anything.         *)
LEMMA UnseenKeeps ==
    ASSUME TurnInv, RestOK', UNCHANGED <<net, turn, said>>
    PROVE  TurnInv'
<1>1. TypeOK' /\ CountersFit'
  BY DEF TurnInv, TypeOK, RestOK, CountersFit
<1>2. Unstarted' /\ UnendedIsBuffered'
  BY DEF TurnInv, Unstarted, UnendedIsBuffered, At
<1>3. BufferIsFresh' /\ WatchEnds'
  BY DEF TurnInv, BufferIsFresh, WatchEnds, At, Live
<1>4. OneEnding' /\ WatchedIsWhole'
  BY DEF TurnInv, OneEnding, WatchedIsWhole
<1> QED  BY <1>1, <1>2, <1>3, <1>4 DEF TurnInv
-----------------------------------------------------------------------------
(* Steps of the clients                                                    *)

(* session.message.send: the sender watches a run nobody has heard of.     *)
LEMMA SubmitKeeps ==
    ASSUME TurnInv, RestOK', NEW c \in Client, NEW r \in Run, Submit(c, r)
    PROVE  TurnInv'
<1> DEFINE wa == net.watch \cup {<<c, r>>}
           S  == [net EXCEPT !.watch = wa]
           N  == [S EXCEPT !.buffered = @ \cup {r}, !.content[r] = 0, !.active = r]
<1>1. /\ net \in Net /\ net.watch \subseteq Pair /\ net.buffered \subseteq Run
      /\ net.content \in [Run -> Nat] /\ net.active \in Run \cup {NoRun}
      /\ net.shown \in [Pair -> Nat] /\ net.heard \in [Pair -> Seq(Ending)]
  BY DEF TurnInv, TypeOK, Net, Pair
<1>2. wa \subseteq Pair
  BY <1>1 DEF Pair
<1>3. SubscribeToRun(net, c, r) = S
  BY DEF SubscribeToRun
<1>4. S \in Net
  BY <1>1, <1>2 DEF Net, Pair
<1> HIDE DEF wa
<1>5. /\ S.shown = net.shown /\ S.heard = net.heard /\ S.watch = wa
      /\ S.buffered = net.buffered /\ S.content = net.content
      /\ S.active = net.active
  BY <1>1 DEF Net
<1> HIDE DEF S
<1>6. Forward(S, r, "started") = S
  <2> DEFINE sh == [w \in DOMAIN S.shown |-> IF "started" = "delta" /\ w \in Watching(S, r)
                                             THEN S.shown[w] + 1 ELSE S.shown[w]]
             he == [w \in DOMAIN S.heard |-> IF "started" \in Ending /\ w \in Watching(S, r)
                                             THEN Append(S.heard[w], "started") ELSE S.heard[w]]
             ws == IF "started" \in EndsWatch THEN S.watch \ Watching(S, r) ELSE S.watch
  <2>1. sh = S.shown /\ he = S.heard /\ ws = S.watch
    BY <1>1, <1>5 DEF Ending, EndsWatch
  <2>2. Forward(S, r, "started") = [S EXCEPT !.shown = sh, !.heard = he, !.watch = ws]
    BY DEF Forward
  <2> HIDE DEF sh, he, ws
  <2> QED  BY <1>4, <2>1, <2>2 DEF Net
<1>7. net' = N
  <2>1. Remember(S, r, "started") = N
    BY DEF Remember, Ending
  <2> QED  BY <1>3, <1>6, <2>1 DEF Submit, Emit
<1>8. /\ N \in Net /\ N.watch = wa /\ N.shown = net.shown /\ N.heard = net.heard
      /\ N.buffered = net.buffered \cup {r}
      /\ N.content = [net.content EXCEPT ![r] = 0]
  BY <1>1, <1>4, <1>5 DEF Net
<1> HIDE DEF N
<1>9. /\ turn[r].at = "none" /\ Goes(r, "posting") /\ said' = said
  BY DEF Submit, At
<1>10. Moves(r, "posting")
  BY <1>9, GoesMoves DEF Phase
<1>11. /\ turn' \in [Run -> Turn] /\ turn'[r].at = "posting"
       /\ \A q \in Run : q # r => turn'[q] = turn[q]
  BY <1>10 DEF Moves
<1>12. /\ r \notin net.buffered /\ said[r] = 0
       /\ \A w \in Pair : w[2] = r =>
              w \notin net.watch /\ net.shown[w] = 0 /\ net.heard[w] = <<>>
  BY <1>9 DEF TurnInv, Unstarted, At, Pair
<1>13. TypeOK' /\ CountersFit'
  BY <1>7, <1>8, <1>10, <1>11 DEF TypeOK, RestOK, Moves
<1>14. Unstarted'
  <2> SUFFICES ASSUME NEW q \in Run, At(q, "none")'
               PROVE  /\ q \notin net'.buffered /\ said'[q] = 0
                      /\ \A w \in Pair : w[2] = q =>
                            w \notin net'.watch /\ net'.shown[w] = 0 /\ net'.heard[w] = <<>>
    BY DEF Unstarted, Pair
  <2>1. q # r /\ At(q, "none")
    BY <1>11 DEF At
  <2>2. /\ q \notin net.buffered /\ said[q] = 0
        /\ \A w \in Pair : w[2] = q =>
              w \notin net.watch /\ net.shown[w] = 0 /\ net.heard[w] = <<>>
    BY <2>1 DEF TurnInv, Unstarted, Pair
  <2> QED  BY <1>7, <1>8, <1>9, <2>1, <2>2 DEF wa
<1>15. UnendedIsBuffered'
  BY <1>7, <1>8, <1>11 DEF TurnInv, UnendedIsBuffered
<1>16. BufferIsFresh'
  <2> SUFFICES ASSUME NEW q \in net'.buffered
               PROVE  /\ Live(q)' /\ net'.content[q] = said'[q]
                      /\ \A w \in Pair : w[2] = q => net'.heard[w] = <<>>
    BY DEF BufferIsFresh, Pair
  <2>1. CASE q = r
    BY <1>1, <1>7, <1>8, <1>9, <1>11, <1>12, <2>1 DEF Live
  <2>2. CASE q # r
    <3>1. q \in net.buffered /\ q \in Run
      BY <1>1, <1>7, <1>8, <2>2
    <3>2. /\ Live(q) /\ net.content[q] = said[q]
          /\ \A w \in Pair : w[2] = q => net.heard[w] = <<>>
      BY <3>1 DEF TurnInv, BufferIsFresh, Pair
    <3> QED  BY <1>1, <1>7, <1>8, <1>9, <1>11, <2>2, <3>1, <3>2 DEF Live
  <2> QED  BY <2>1, <2>2
<1>17. WatchEnds'
  <2> SUFFICES ASSUME NEW w \in net'.watch, w[2] \notin net'.buffered
               PROVE  At(w[2], "over")' /\ net'.heard[w] # <<>>
    BY DEF WatchEnds
  <2>1. w \in net.watch /\ w[2] # r /\ w[2] \notin net.buffered /\ w[2] \in Run
    BY <1>1, <1>7, <1>8 DEF wa, Pair
  <2>2. At(w[2], "over") /\ net.heard[w] # <<>>
    BY <2>1 DEF TurnInv, WatchEnds
  <2> QED  BY <1>7, <1>8, <1>11, <2>1, <2>2 DEF At
<1>18. OneEnding'
  BY <1>7, <1>8 DEF TurnInv, OneEnding
<1>19. WatchedIsWhole'
  <2> SUFFICES ASSUME NEW w \in net'.watch
               PROVE  net'.shown[w] = said'[w[2]]
    BY DEF WatchedIsWhole
  <2>1. CASE w \in net.watch
    BY <1>7, <1>8, <1>9, <2>1 DEF TurnInv, WatchedIsWhole
  <2>2. CASE w \notin net.watch
    <3>1. w = <<c, r>> /\ w \in Pair /\ w[2] = r
      BY <1>7, <1>8, <2>2 DEF wa, Pair
    <3> QED  BY <1>7, <1>8, <1>9, <1>12, <3>1
  <2> QED  BY <2>1, <2>2
<1> QED
  BY <1>13, <1>14, <1>15, <1>16, <1>17, <1>18, <1>19 DEF TurnInv

(* run.delta: the snapshot and every client watching grow by it.           *)
LEMMA DeltaKeeps ==
    ASSUME TurnInv, RestOK', NEW r \in Run, Delta(r)
    PROVE  TurnInv'
<1> DEFINE sh == [w \in DOMAIN net.shown |-> IF w \in Watching(net, r)
                                             THEN net.shown[w] + 1 ELSE net.shown[w]]
           co == [net.content EXCEPT ![r] = @ + 1]
           N  == [net EXCEPT !.shown = sh, !.content = co]
<1>1. /\ net \in Net /\ net.watch \subseteq Pair /\ net.buffered \subseteq Run
      /\ net.content \in [Run -> Nat] /\ net.active \in Run \cup {NoRun}
      /\ net.shown \in [Pair -> Nat] /\ net.heard \in [Pair -> Seq(Ending)]
      /\ said \in [Run -> Nat]
  BY DEF TurnInv, TypeOK, Net, Pair
<1>2. turn[r].at = "asking" /\ said' = [said EXCEPT ![r] = @ + 1] /\ turn' = turn
  BY DEF Delta, At
<1>3. r \in net.buffered
  BY <1>2 DEF TurnInv, UnendedIsBuffered, Unended
<1>4. /\ sh \in [Pair -> Nat] /\ co \in [Run -> Nat]
      /\ \A w \in Pair : sh[w] = IF w \in net.watch /\ w[2] = r
                                 THEN net.shown[w] + 1 ELSE net.shown[w]
  BY <1>1 DEF Watching
<1>5. Forward(net, r, "delta") = [net EXCEPT !.shown = sh]
  <2> DEFINE s1 == [w \in DOMAIN net.shown |-> IF "delta" = "delta" /\ w \in Watching(net, r)
                                               THEN net.shown[w] + 1 ELSE net.shown[w]]
             he == [w \in DOMAIN net.heard |-> IF "delta" \in Ending /\ w \in Watching(net, r)
                                               THEN Append(net.heard[w], "delta") ELSE net.heard[w]]
             ws == IF "delta" \in EndsWatch THEN net.watch \ Watching(net, r) ELSE net.watch
  <2>1. s1 = sh /\ he = net.heard /\ ws = net.watch
    BY <1>1 DEF Ending, EndsWatch
  <2>2. Forward(net, r, "delta") = [net EXCEPT !.shown = s1, !.heard = he, !.watch = ws]
    BY DEF Forward
  <2> HIDE DEF s1, he, ws, sh
  <2> QED  BY <1>1, <2>1, <2>2 DEF Net
<1> HIDE DEF sh
<1>6. net' = N
  <2> DEFINE F == [net EXCEPT !.shown = sh]
  <2>1. /\ F.buffered = net.buffered /\ F.content = net.content
        /\ [F EXCEPT !.content[r] = @ + 1] = N
    BY <1>1, <1>4 DEF Net
  <2> HIDE DEF F
  <2>2. Remember(F, r, "delta") = [F EXCEPT !.content[r] = @ + 1]
    BY <1>3, <2>1 DEF Remember, Ending
  <2> QED  BY <1>5, <2>1, <2>2 DEF F, Delta, Emits, Emit
<1> HIDE DEF co
<1>7. /\ N \in Net /\ N.watch = net.watch /\ N.shown = sh /\ N.heard = net.heard
      /\ N.buffered = net.buffered /\ N.content = co
  BY <1>1, <1>4 DEF Net, Pair
<1> HIDE DEF N
<1>8. TypeOK' /\ CountersFit'
  BY <1>2, <1>6, <1>7 DEF TurnInv, TypeOK, RestOK, CountersFit
<1>9. Unstarted'
  <2> SUFFICES ASSUME NEW q \in Run, At(q, "none")
               PROVE  /\ q \notin net.buffered /\ said'[q] = 0
                      /\ \A w \in Pair : w[2] = q =>
                            w \notin net.watch /\ sh[w] = 0 /\ net.heard[w] = <<>>
    BY <1>2, <1>6, <1>7 DEF Unstarted, At, Pair
  <2>1. q # r
    BY <1>2 DEF At
  <2>2. /\ q \notin net.buffered /\ said[q] = 0
        /\ \A w \in Pair : w[2] = q =>
              w \notin net.watch /\ net.shown[w] = 0 /\ net.heard[w] = <<>>
    BY DEF TurnInv, Unstarted, Pair
  <2> QED  BY <1>1, <1>2, <1>4, <2>1, <2>2
<1>10. UnendedIsBuffered' /\ OneEnding'
  BY <1>2, <1>6, <1>7 DEF TurnInv, UnendedIsBuffered, OneEnding
<1>11. WatchEnds'
  BY <1>2, <1>6, <1>7 DEF TurnInv, WatchEnds, At
<1>12. BufferIsFresh'
  <2> SUFFICES ASSUME NEW q \in net.buffered
               PROVE  /\ Live(q) /\ co[q] = said'[q]
                      /\ \A w \in Pair : w[2] = q => net.heard[w] = <<>>
    BY <1>2, <1>6, <1>7 DEF BufferIsFresh, Live, Pair
  <2>1. /\ Live(q) /\ net.content[q] = said[q] /\ q \in Run
        /\ \A w \in Pair : w[2] = q => net.heard[w] = <<>>
    BY <1>1 DEF TurnInv, BufferIsFresh, Pair
  <2> QED  BY <1>1, <1>2, <2>1 DEF co
<1>13. WatchedIsWhole'
  <2> SUFFICES ASSUME NEW w \in net.watch
               PROVE  sh[w] = said'[w[2]]
    BY <1>6, <1>7 DEF WatchedIsWhole
  <2>1. w \in Pair /\ w[2] \in Run /\ net.shown[w] = said[w[2]]
    BY <1>1 DEF TurnInv, WatchedIsWhole, Pair
  <2> QED  BY <1>1, <1>2, <1>4, <2>1
<1> QED
  BY <1>8, <1>9, <1>10, <1>11, <1>12, <1>13 DEF TurnInv

(* session.stream.resume: the client shows the snapshot.                   *)
LEMMA ResumeKeeps ==
    ASSUME TurnInv, RestOK', NEW c \in Client, Resume(c)
    PROVE  TurnInv'
<1> DEFINE a  == net.active
           wa == net.watch \cup {<<c, a>>}
           S  == [net EXCEPT !.watch = wa]
           N  == [S EXCEPT !.shown[<<c, a>>] = net.content[a]]
<1>1. /\ net \in Net /\ net.watch \subseteq Pair /\ net.buffered \subseteq Run
      /\ net.content \in [Run -> Nat] /\ net.active \in Run \cup {NoRun}
      /\ net.shown \in [Pair -> Nat] /\ net.heard \in [Pair -> Seq(Ending)]
  BY DEF TurnInv, TypeOK, Net, Pair
<1>2. turn' = turn /\ said' = said
  BY DEF Resume
<1>3. CASE a \notin net.buffered
  <2>1. net' = net
    BY <1>3 DEF Resume, ResumeStream
  <2> QED  BY <1>2, <2>1, UnseenKeeps
<1>4. CASE a \in net.buffered
  <2>1. /\ a \in Run /\ wa \subseteq Pair /\ <<c, a>> \in Pair
        /\ net.content[a] \in Nat
    BY <1>1, <1>4 DEF Pair
  <2>2. net' = N
    BY <1>4 DEF Resume, ResumeStream, SubscribeToRun
  <2>3. /\ S \in Net /\ S.shown = net.shown /\ S.heard = net.heard /\ S.watch = wa
        /\ S.buffered = net.buffered /\ S.content = net.content
        /\ S.active = net.active
    <3> HIDE DEF wa
    <3> QED  BY <1>1, <2>1 DEF Net, Pair
  <2> DEFINE sh == [net.shown EXCEPT ![<<c, a>>] = net.content[a]]
  <2>4. sh \in [Pair -> Nat]
    BY <1>1, <2>1
  <2>5. N = [S EXCEPT !.shown = sh]
    BY <2>3
  <2> HIDE DEF S, sh
  <2>6. /\ N \in Net /\ N.watch = wa /\ N.shown = sh /\ N.heard = net.heard
        /\ N.buffered = net.buffered /\ N.content = net.content
    <3> HIDE DEF wa
    <3> QED  BY <2>3, <2>4, <2>5 DEF Net, Pair
  <2> HIDE DEF N
  <2>7. /\ Live(a) /\ net.content[a] = said[a]
        /\ \A w \in Pair : w[2] = a => net.heard[w] = <<>>
    BY <1>4 DEF TurnInv, BufferIsFresh, Pair
  <2>8. TypeOK' /\ CountersFit'
    BY <1>2, <2>2, <2>6 DEF TurnInv, TypeOK, RestOK, CountersFit
  <2>9. Unstarted'
    <3> SUFFICES ASSUME NEW q \in Run, At(q, "none")
                 PROVE  /\ q \notin net.buffered /\ said[q] = 0
                        /\ \A w \in Pair : w[2] = q =>
                              w \notin wa /\ sh[w] = 0 /\ net.heard[w] = <<>>
      BY <1>2, <2>2, <2>6 DEF Unstarted, At, Pair
    <3>1. q # a
      BY <2>7 DEF At, Live
    <3>2. /\ q \notin net.buffered /\ said[q] = 0
          /\ \A w \in Pair : w[2] = q =>
                w \notin net.watch /\ net.shown[w] = 0 /\ net.heard[w] = <<>>
      BY DEF TurnInv, Unstarted, Pair
    <3> QED  BY <1>1, <2>1, <3>1, <3>2 DEF sh
  <2>10. UnendedIsBuffered' /\ OneEnding'
    BY <1>2, <2>2, <2>6 DEF TurnInv, UnendedIsBuffered, OneEnding
  <2>11. BufferIsFresh'
    BY <1>2, <2>2, <2>6 DEF TurnInv, BufferIsFresh, Live
  <2>12. WatchEnds'
    BY <1>2, <1>4, <2>2, <2>6 DEF TurnInv, WatchEnds, At
  <2>13. WatchedIsWhole'
    <3> SUFFICES ASSUME NEW w \in wa
                 PROVE  sh[w] = said[w[2]]
      BY <1>2, <2>2, <2>6 DEF WatchedIsWhole
    <3>1. CASE w = <<c, a>>
      BY <1>1, <2>1, <2>7, <3>1 DEF sh
    <3>2. CASE w # <<c, a>>
      <4>1. w \in net.watch /\ w \in Pair /\ net.shown[w] = said[w[2]]
        BY <1>1, <3>2 DEF TurnInv, WatchedIsWhole
      <4> QED  BY <1>1, <2>1, <3>2, <4>1 DEF sh
    <3> QED  BY <3>1, <3>2
  <2> QED
    BY <2>8, <2>9, <2>10, <2>11, <2>12, <2>13 DEF TurnInv
<1> QED  BY <1>3, <1>4

(* A client leaves: only what it knew is gone.                             *)
LEMMA LeaveKeeps ==
    ASSUME TurnInv, RestOK', NEW c \in Client, Leave(c)
    PROVE  TurnInv'
<1> DEFINE wa == {w \in net.watch : w[1] # c}
           sh == [w \in DOMAIN net.shown |-> IF w[1] = c THEN 0 ELSE net.shown[w]]
           he == [w \in DOMAIN net.heard |-> IF w[1] = c THEN <<>> ELSE net.heard[w]]
           N  == [net EXCEPT !.watch = wa, !.shown = sh, !.heard = he]
<1>1. /\ net \in Net /\ net.watch \subseteq Pair /\ net.buffered \subseteq Run
      /\ net.shown \in [Pair -> Nat] /\ net.heard \in [Pair -> Seq(Ending)]
  BY DEF TurnInv, TypeOK, Net, Pair
<1>2. net' = N /\ turn' = turn /\ said' = said
  BY DEF Leave, Disconnect
<1>3. <<>> \in Seq(Ending) /\ Len(<<>>) = 0
  OBVIOUS
<1>4. /\ wa \subseteq net.watch /\ sh \in [Pair -> Nat] /\ he \in [Pair -> Seq(Ending)]
      /\ \A w \in Pair :
            /\ w[1] # c => sh[w] = net.shown[w] /\ he[w] = net.heard[w]
            /\ w[1] = c => sh[w] = 0 /\ he[w] = <<>>
      /\ \A w \in wa : w[1] # c
  BY <1>1, <1>3
<1> HIDE DEF wa, sh, he
<1>5. /\ N \in Net /\ N.watch = wa /\ N.shown = sh /\ N.heard = he
      /\ N.buffered = net.buffered /\ N.content = net.content
  BY <1>1, <1>4 DEF Net, Pair
<1> HIDE DEF N
<1>6. TypeOK' /\ CountersFit'
  BY <1>2, <1>5 DEF TurnInv, TypeOK, RestOK, CountersFit
<1>7. Unstarted'
  <2> SUFFICES ASSUME NEW q \in Run, At(q, "none")
               PROVE  /\ q \notin net.buffered /\ said[q] = 0
                      /\ \A w \in Pair : w[2] = q =>
                            w \notin wa /\ sh[w] = 0 /\ he[w] = <<>>
    BY <1>2, <1>5 DEF Unstarted, At, Pair
  <2>1. /\ q \notin net.buffered /\ said[q] = 0
        /\ \A w \in Pair : w[2] = q =>
              w \notin net.watch /\ net.shown[w] = 0 /\ net.heard[w] = <<>>
    BY DEF TurnInv, Unstarted, Pair
  <2> QED  BY <1>4, <2>1
<1>8. UnendedIsBuffered'
  BY <1>2, <1>5 DEF TurnInv, UnendedIsBuffered
<1>9. BufferIsFresh'
  <2> SUFFICES ASSUME NEW q \in net.buffered
               PROVE  /\ Live(q) /\ net.content[q] = said[q]
                      /\ \A w \in Pair : w[2] = q => he[w] = <<>>
    BY <1>2, <1>5 DEF BufferIsFresh, Live, Pair
  <2>1. /\ Live(q) /\ net.content[q] = said[q]
        /\ \A w \in Pair : w[2] = q => net.heard[w] = <<>>
    BY DEF TurnInv, BufferIsFresh, Pair
  <2> QED  BY <1>4, <2>1
<1>10. WatchEnds'
  BY <1>1, <1>2, <1>4, <1>5 DEF TurnInv, WatchEnds, At
<1>11. OneEnding'
  <2> SUFFICES ASSUME NEW w \in Pair
               PROVE  Len(he[w]) <= 1
    BY <1>2, <1>5 DEF OneEnding, Pair
  <2>1. Len(net.heard[w]) <= 1
    BY DEF TurnInv, OneEnding, Pair
  <2> QED  BY <1>3, <1>4, <2>1
<1>12. WatchedIsWhole'
  BY <1>1, <1>2, <1>4, <1>5 DEF TurnInv, WatchedIsWhole
<1> QED
  BY <1>6, <1>7, <1>8, <1>9, <1>10, <1>11, <1>12 DEF TurnInv

(* With nobody watching, nothing buffered and no turn that goes on.        *)
LEMMA QuietHolds ==
    /\ QuietNet \in Net
    /\ QuietNet.watch = {} /\ QuietNet.buffered = {}
    /\ \A w \in Pair : QuietNet.shown[w] = 0 /\ QuietNet.heard[w] = <<>>
<1> DEFINE co == [r \in Run |-> 0]
           sh == [w \in Pair |-> 0]
           he == [w \in Pair |-> <<>>]
<1>1. <<>> \in Seq(Ending)
  OBVIOUS
<1>2. co \in [Run -> Nat] /\ sh \in [Pair -> Nat] /\ he \in [Pair -> Seq(Ending)]
  BY <1>1
<1>3. \A w \in Pair : sh[w] = 0 /\ he[w] = <<>>
  OBVIOUS
<1>4. QuietNet = [watch |-> {}, buffered |-> {}, content |-> co,
                  active |-> NoRun, shown |-> sh, heard |-> he]
  BY DEF QuietNet, Pair
<1> HIDE DEF co, sh, he
<1> QED  BY <1>2, <1>3, <1>4 DEF Net, Pair

LEMMA RestartKeeps ==
    ASSUME TurnInv, RestOK', Restart
    PROVE  TurnInv'
<1>1. /\ turn \in [Run -> Turn] /\ CountersFit
      /\ turn' = [r \in Run |-> IF Live(r) THEN Outside("over") ELSE turn[r]]
      /\ net' = QuietNet /\ said' = said
  BY DEF TurnInv, TypeOK, Restart
<1>2. /\ Outside("over") \in Turn
      /\ Outside("over").at = "over" /\ Outside("over").round < MaxRounds
  BY OutsideFits DEF Phase
<1> DEFINE o == Outside("over")
<1> HIDE DEF o
<1>3. /\ turn' \in [Run -> Turn]
      /\ \A r \in Run : turn'[r] = IF Live(r) THEN o ELSE turn[r]
      /\ o \in Turn /\ o.at = "over" /\ o.round < MaxRounds
  BY <1>1, <1>2 DEF o
<1>4. \A r \in Run :
         /\ turn'[r].at \in {"none", "over"}
         /\ turn'[r].at = "none" => turn[r].at = "none"
  BY <1>3 DEF Live
<1>5. TypeOK'
  BY <1>1, <1>3, QuietHolds DEF TypeOK, RestOK
<1>6. CountersFit'
  BY <1>1, <1>3 DEF CountersFit
<1>7. Unstarted'
  BY <1>1, <1>4, QuietHolds DEF TurnInv, Unstarted, At, Pair
<1>8. UnendedIsBuffered'
  BY <1>4 DEF UnendedIsBuffered, Unended
<1>9. BufferIsFresh' /\ WatchEnds' /\ WatchedIsWhole'
  BY <1>1, QuietHolds DEF BufferIsFresh, WatchEnds, WatchedIsWhole
<1>10. OneEnding'
  BY <1>1, QuietHolds DEF OneEnding, Pair
<1> QED  BY <1>5, <1>6, <1>7, <1>8, <1>9, <1>10 DEF TurnInv
-----------------------------------------------------------------------------
(* Types                                                                   *)

LEMMA AppendsTyped ==
    ASSUME TurnInv, NEW r \in Run, NEW ids \in SUBSET CallId,
           NEW role \in {"system", "user", "assistant", "tool"},
           Appends(r, role, ids)
    PROVE  log' \in Seq(Message)
<1>1. log \in Seq(Message)
  BY DEF TurnInv, TypeOK
<1>2. [role |-> role, ids |-> ids, from |-> r] \in Message
  BY TurnAssumption DEF Message
<1> QED  BY <1>1, <1>2 DEF Appends

(* The calls of the round a turn is in are calls.                          *)
LEMMA CallsTyped ==
    ASSUME TurnInv, NEW r \in Run, NEW k \in 1..MaxCalls
    PROVE  <<r, turn[r].round, k>> \in CallId
<1>1. turn[r] \in Turn /\ turn[r].round < MaxRounds
  BY DEF TurnInv, TypeOK, CountersFit
<1>2. turn[r].round \in 0..(MaxRounds - 1)
  BY <1>1, TurnAssumption DEF Turn
<1>3. Run \X (0..(MaxRounds - 1)) \X (1..MaxCalls) \subseteq CallId
  BY TurnAssumption
<1> QED  BY <1>2, <1>3

LEMMA LogTyped ==
    ASSUME TurnInv, NEW r \in Run,
           \/ UNCHANGED log
           \/ \E role \in {"user", "assistant"} : Appends(r, role, {})
           \/ \E n \in 1..MaxCalls : Appends(r, "assistant", Calls(r, n))
           \/ /\ turn[r].at \in {"tools", "suspending", "parking"}
              /\ Appends(r, "tool", {<<r, turn[r].round, turn[r].left>>})
    PROVE  log' \in Seq(Message)
<1>1. CASE UNCHANGED log
  BY <1>1 DEF TurnInv, TypeOK
<1>2. ASSUME NEW role \in {"user", "assistant"}, Appends(r, role, {})
      PROVE  log' \in Seq(Message)
  BY <1>2, AppendsTyped
<1>3. ASSUME NEW n \in 1..MaxCalls, Appends(r, "assistant", Calls(r, n))
      PROVE  log' \in Seq(Message)
  <2>1. \A k \in 1..n : k \in 1..MaxCalls
    BY TurnAssumption
  <2>2. Calls(r, n) \in SUBSET CallId
    BY <2>1, CallsTyped DEF Calls
  <2> QED  BY <1>3, <2>2, AppendsTyped
<1>4. CASE /\ turn[r].at \in {"tools", "suspending", "parking"}
           /\ Appends(r, "tool", {<<r, turn[r].round, turn[r].left>>})
  <2>1. turn[r].left \in 1..MaxCalls
    BY <1>4 DEF TurnInv, CountersFit
  <2>2. {<<r, turn[r].round, turn[r].left>>} \in SUBSET CallId
    BY <2>1, CallsTyped
  <2> QED  BY <1>4, <2>2, AppendsTyped
<1> QED  BY <1>1, <1>2, <1>3, <1>4

LEMMA FaultsTyped ==
    ASSUME TurnInv, Sound \/ Faulty
    PROVE  muddled' \in BOOLEAN /\ faults' \in 0..MaxFaults
<1>1. /\ muddled \in BOOLEAN /\ faults \in 0..MaxFaults /\ MaxFaults \in Nat
  BY TurnAssumption DEF TurnInv, TypeOK
<1>2. CASE Sound
  BY <1>1, <1>2 DEF Sound
<1>3. CASE Faulty
  BY <1>1, <1>3 DEF Faulty
<1> QED  BY <1>2, <1>3

(* All but the net and the turns after a step of run r.                    *)
LEMMA RestTyped ==
    ASSUME TurnInv, log' \in Seq(Message), NEW r \in Run,
           \/ UNCHANGED row
           \/ \E status \in RowStatus : Marks(r, status),
           inflight' \subseteq inflight \cup {r},
           stopped' \subseteq stopped \cup {r},
           said' = said \/ said' = [said EXCEPT ![r] = @ + 1],
           muddled' \in BOOLEAN /\ faults' \in 0..MaxFaults
    PROVE  RestOK'
<1>1. /\ row \in [Run -> RowStatus] /\ inflight \subseteq Run /\ stopped \subseteq Run
      /\ said \in [Run -> Nat]
  BY DEF TurnInv, TypeOK
<1>2. row' \in [Run -> RowStatus]
  BY <1>1 DEF Marks
<1>3. inflight' \subseteq Run /\ stopped' \subseteq Run
  BY <1>1
<1>4. said' \in [Run -> Nat]
  BY <1>1
<1> QED  BY <1>2, <1>3, <1>4 DEF RestOK

-----------------------------------------------------------------------------
(* The steps of a turn                                                     *)

(* Those that report nothing and count nothing.                            *)
LEMMA WalkKeeps ==
    ASSUME TurnInv, NEW r \in Run,
           \/ PostMessage(r) \/ CreateRun(r) \/ StartRun(r) \/ BuildHistory(r)
           \/ StoreAnswer(r) \/ Succeed(r) \/ Suspend(r)
    PROVE  TurnInv'
<1>1. ASSUME NEW phase \in Phase, Goes(r, phase), UNCHANGED <<net, said>>,
             turn[r].at \notin {"none", "over"}, phase \notin {"none", "over"},
             phase \notin {"tools", "suspending"},
             phase = "parking" => turn[r].at = "suspending",
             phase \in Unended => turn[r].at \in Unended, RestOK'
      PROVE  TurnInv'
  <2>1. Moves(r, phase)
    BY <1>1, GoesMoves
  <2> QED  BY <1>1, <2>1, QuietKeeps DEF Live
<1>2. RestOK'
  <2>1. muddled' \in BOOLEAN /\ faults' \in 0..MaxFaults
    BY FaultsTyped
    DEF PostMessage, CreateRun, StartRun, BuildHistory, StoreAnswer, Succeed, Suspend
  <2>2. log' \in Seq(Message)
    BY LogTyped
    DEF PostMessage, CreateRun, StartRun, BuildHistory, StoreAnswer, Succeed, Suspend
  <2>3. \/ UNCHANGED row
        \/ \E status \in RowStatus : Marks(r, status)
    BY DEF PostMessage, CreateRun, StartRun, BuildHistory, StoreAnswer, Succeed,
           Suspend, RowStatus
  <2>4. /\ inflight' \subseteq inflight \cup {r}
        /\ stopped' \subseteq stopped \cup {r} /\ said' = said
    BY DEF PostMessage, CreateRun, StartRun, BuildHistory, StoreAnswer, Succeed, Suspend
  <2> QED  BY <2>1, <2>2, <2>3, <2>4, RestTyped
<1>3. CASE PostMessage(r)
  BY <1>1, <1>2, <1>3 DEF PostMessage, At, Phase, Unended
<1>4. CASE CreateRun(r)
  BY <1>1, <1>2, <1>4 DEF CreateRun, At, Phase, Unended
<1>5. CASE StartRun(r)
  BY <1>1, <1>2, <1>5 DEF StartRun, At, Phase, Unended
<1>6. CASE BuildHistory(r)
  BY <1>1, <1>2, <1>6 DEF BuildHistory, At, Phase, Unended
<1>7. CASE StoreAnswer(r)
  BY <1>1, <1>2, <1>7 DEF StoreAnswer, At, Phase, Unended
<1>8. CASE Succeed(r)
  BY <1>1, <1>2, <1>8 DEF Succeed, At, Phase, Unended
<1>9. CASE Suspend(r)
  BY <1>1, <1>2, <1>9 DEF Suspend, At, Phase, Unended
<1> QED  BY <1>3, <1>4, <1>5, <1>6, <1>7, <1>8, <1>9

(* Those of the loop, which count rounds, calls and retries.               *)
LEMMA LoopKeeps ==
    ASSUME TurnInv, NEW r \in Run,
           \/ RetryEmptyTurn(r) \/ ToolEnds(r) \/ ModelAnswers(r)
           \/ \E n \in 1..MaxCalls : ModelCalls(r, n)
    PROVE  TurnInv'
<1> DEFINE v == turn[r]
<1>1. /\ v \in Turn /\ v.round < MaxRounds /\ MaxRounds \in Nat /\ MaxCalls \in Nat
      /\ v.at \in {"tools", "suspending", "parking"} => v.left \in 1..MaxCalls
  BY TurnAssumption DEF TurnInv, TypeOK, CountersFit
<1>2. v.round \in Nat /\ v.left \in Nat /\ v.retries \in Nat
  BY <1>1 DEF Turn
<1>3. RestOK'
  <2>1. muddled' \in BOOLEAN /\ faults' \in 0..MaxFaults
    BY FaultsTyped DEF RetryEmptyTurn, ToolEnds, ModelAnswers, ModelCalls
  <2>2. log' \in Seq(Message)
    BY LogTyped DEF RetryEmptyTurn, ToolEnds, ModelAnswers, ModelCalls, At
  <2>3. /\ UNCHANGED <<row, said>> /\ inflight' \subseteq inflight \cup {r}
        /\ stopped' \subseteq stopped \cup {r}
    BY DEF RetryEmptyTurn, ToolEnds, ModelAnswers, ModelCalls
  <2> QED  BY <2>1, <2>2, <2>3, RestTyped
<1>4. UNCHANGED <<net, said>> /\ v.at \in {"asking", "tools"}
  BY DEF RetryEmptyTurn, ToolEnds, ModelAnswers, ModelCalls, At
<1>5. ASSUME NEW t \in Turn, turn' = [turn EXCEPT ![r] = t], t.round < MaxRounds,
             t.at \in {"asking", "tools", "answering", "cancelling"},
             t.at = "tools" => t.left \in 1..MaxCalls
      PROVE  TurnInv'
  <2>1. Moves(r, t.at)
    BY <1>5, SetMoves
  <2>2. /\ t.at \in Phase /\ t.at \notin {"none", "over"} /\ Live(r)
        /\ v.at \in Unended
    BY <1>4, <1>5 DEF Phase, Live, Unended
  <2> QED  BY <1>3, <1>4, <2>1, <2>2, QuietKeeps
<1>6. AfterLoop(r) \in {"answering", "cancelling"} /\ AfterLoop(r) \in Phase
  BY DEF AfterLoop, Phase
<1>7. CASE RetryEmptyTurn(r)
  <2> DEFINE n == v.retries + 1
             t == [v EXCEPT !.retries = n]
  <2>1. turn' = [turn EXCEPT ![r] = t] /\ v.at = "asking"
    BY <1>7 DEF RetryEmptyTurn, At
  <2>2. n \in Nat
    BY <1>2
  <2> HIDE DEF v, n
  <2>3. t \in Turn /\ t.at = v.at /\ t.round = v.round
    BY <1>1, <2>2 DEF Turn
  <2> HIDE DEF t
  <2> QED  BY <1>1, <1>5, <2>1, <2>3
<1>8. ASSUME NEW n \in 1..MaxCalls, ModelCalls(r, n)
      PROVE  TurnInv'
  <2> DEFINE t == [v EXCEPT !.at = "tools", !.left = n]
  <2>1. turn' = [turn EXCEPT ![r] = t]
    BY <1>8 DEF ModelCalls
  <2> HIDE DEF v
  <2>2. n \in Nat /\ "tools" \in Phase
    BY <1>1 DEF Phase
  <2>3. t \in Turn /\ t.at = "tools" /\ t.round = v.round /\ t.left = n
    BY <1>1, <2>2 DEF Turn
  <2> HIDE DEF t
  <2> QED  BY <1>1, <1>5, <2>1, <2>3
<1>9. CASE ModelAnswers(r)
  <2> DEFINE t == Outside(AfterLoop(r))
  <2>1. turn' = [turn EXCEPT ![r] = t]
    BY <1>9 DEF ModelAnswers, Exits
  <2>2. t \in Turn /\ t.at = AfterLoop(r) /\ t.round < MaxRounds
    BY <1>6, OutsideFits
  <2> HIDE DEF t
  <2> QED  BY <1>5, <1>6, <2>1, <2>2
<1>10. CASE ToolEnds(r)
  <2>1. turn' = [turn EXCEPT ![r] = AfterCall(r)] /\ v.at = "tools"
    BY <1>10 DEF ToolEnds, At
  <2>2. CASE v.left > 1
    <3> DEFINE n == v.left - 1
               t == [v EXCEPT !.left = n]
    <3>1. AfterCall(r) = t
      BY <2>2 DEF AfterCall
    <3>2. n \in 1..MaxCalls
      BY <1>1, <1>2, <2>1, <2>2
    <3> HIDE DEF v, n
    <3>3. t \in Turn /\ t.at = v.at /\ t.round = v.round /\ t.left = n
      BY <1>1, <3>2 DEF Turn
    <3> HIDE DEF t
    <3> QED  BY <1>1, <1>5, <2>1, <3>1, <3>2, <3>3
  <2>3. CASE ~(v.left > 1) /\ v.round + 1 < MaxRounds
    <3> DEFINE n == v.round + 1
               t == [v EXCEPT !.at = "asking", !.left = 0, !.round = n]
    <3>1. AfterCall(r) = t
      BY <2>3 DEF AfterCall, NextRound
    <3>2. n \in Nat /\ n < MaxRounds
      BY <1>2, <2>3
    <3> HIDE DEF v, n
    <3>3. t \in Turn /\ t.at = "asking" /\ t.round = n
      BY <1>1, <3>2 DEF Turn, Phase
    <3> HIDE DEF t
    <3> QED  BY <1>5, <2>1, <3>1, <3>2, <3>3
  <2>4. CASE ~(v.left > 1) /\ ~(v.round + 1 < MaxRounds)
    <3> DEFINE t == Outside(AfterLoop(r))
    <3>1. AfterCall(r) = t
      BY <2>4 DEF AfterCall, NextRound
    <3>2. t \in Turn /\ t.at = AfterLoop(r) /\ t.round < MaxRounds
      BY <1>6, OutsideFits
    <3> HIDE DEF t
    <3> QED  BY <1>5, <1>6, <2>1, <3>1, <3>2
  <2> QED  BY <2>2, <2>3, <2>4
<1> QED  BY <1>7, <1>8, <1>9, <1>10

(* Those that report an end, or are about to.                              *)
LEMMA EndingStepKeeps ==
    ASSUME TurnInv, NEW r \in Run,
           \/ ModelFails(r) \/ Close(r) \/ CancelRun(r) \/ FailRun(r)
           \/ PresentChoices(r) \/ Park(r) \/ FailEarly(r) \/ FailLate(r)
           \/ Caught(r)
    PROVE  TurnInv'
<1>1. net \in Net /\ muddled \in BOOLEAN /\ faults \in 0..MaxFaults
  BY DEF TurnInv, TypeOK
<1>2. RestOK'
  <2>1. muddled' \in BOOLEAN /\ faults' \in 0..MaxFaults
    <3>1. CASE PresentChoices(r)
      BY <1>1, <3>1 DEF PresentChoices
    <3>2. CASE ~PresentChoices(r)
      <4>1. Sound \/ Faulty
        BY <3>2
        DEF ModelFails, Close, CancelRun, FailRun, Park, FailEarly, FailLate, Caught
      <4> QED  BY <4>1, FaultsTyped
    <3> QED  BY <3>1, <3>2
  <2>2. log' \in Seq(Message)
    BY LogTyped
    DEF ModelFails, Close, CancelRun, FailRun, PresentChoices, Park, FailEarly,
        FailLate, Caught, At
  <2>3. \/ UNCHANGED row
        \/ \E status \in RowStatus : Marks(r, status)
    BY DEF ModelFails, Close, CancelRun, FailRun, PresentChoices, Park, FailEarly,
           FailLate, Caught, RowStatus
  <2>4. /\ inflight' \subseteq inflight \cup {r}
        /\ stopped' \subseteq stopped \cup {r} /\ said' = said
    BY DEF ModelFails, Close, CancelRun, FailRun, PresentChoices, Park, FailEarly,
           FailLate, Caught, Over, Leaves
  <2> QED  BY <2>1, <2>2, <2>3, <2>4, RestTyped
<1>3. said' = said /\ Live(r)
  BY DEF ModelFails, Close, CancelRun, FailRun, PresentChoices, Park, FailEarly,
         FailLate, Caught, At, Live
<1>4. ASSUME NEW e \in Ending
      PROVE  /\ Ended(net, Emit(net, r, e), r)
             /\ e # "cancelled" => Watching(Emit(net, r, e), r) = {}
  BY <1>1, EmitEnds
<1>5. Reports(r) => Ended(net, net', r)
  <2> DEFINE N == Emit(net, r, "failed")
  <2>1. "failed" \in Ending
    BY DEF Ending
  <2>2. Ended(net, N, r) /\ Watching(N, r) = {}
    BY <1>4, <2>1
  <2> HIDE DEF N
  <2>3. Ended(net, Emit(N, r, "failed"), r)
    BY <1>1, <2>1, <2>2, EmitAgain
  <2> QED  BY <2>3 DEF Reports, N
<1>6. ASSUME Exits(r, "over"), Ended(net, net', r)
      PROVE  TurnInv'
  <2>1. "over" \in Phase /\ "over" \notin Unended
    BY DEF Phase, Unended
  <2>2. Moves(r, "over")
    BY <1>6, <2>1, ExitsMoves
  <2> QED  BY <1>2, <1>3, <1>6, <2>1, <2>2, EndKeeps
<1>7. CASE ModelFails(r)
  <2>1. Exits(r, "failing") /\ net' = Emit(net, r, "failed")
    BY <1>7 DEF ModelFails, Emits
  <2>2. "failing" \in Phase /\ "failing" \notin Unended
    BY DEF Phase, Unended
  <2>3. Moves(r, "failing")
    BY <2>1, <2>2, ExitsMoves
  <2>4. Ended(net, net', r) /\ Watching(net', r) = {}
    BY <1>4, <2>1 DEF Ending
  <2> QED  BY <1>2, <1>3, <2>2, <2>3, <2>4, EndKeeps
<1>8. CASE PresentChoices(r)
  <2>1. Goes(r, "suspending") /\ turn[r].at = "tools" /\ net' = Emit(net, r, "choices")
    BY <1>8 DEF PresentChoices, Emits, At
  <2>2. "suspending" \in Phase /\ "suspending" \notin Unended
    BY DEF Phase, Unended
  <2>3. Moves(r, "suspending")
    BY <2>1, <2>2, GoesMoves
  <2>4. Ended(net, net', r) /\ Watching(net', r) = {}
    BY <1>4, <2>1 DEF Ending
  <2> QED  BY <1>2, <1>3, <2>2, <2>3, <2>4, EndKeeps
<1>9. CASE Close(r) \/ CancelRun(r) \/ FailRun(r)
  <2>1. Exits(r, "over") /\ \E e \in Ending : net' = Emit(net, r, e)
    BY <1>9 DEF Close, CancelRun, FailRun, Over, Leaves, Emits, Ending
  <2> QED  BY <1>4, <1>6, <2>1
<1>10. CASE Park(r)
  <2> DEFINE N == Emit(net, r, "completed")
             M == Emit(N, r, "failed")
  <2>1. Exits(r, "over") /\ net' = Emit(M, r, "failed")
    BY <1>10 DEF Park, Over, Leaves
  <2>2. {"completed", "failed"} \subseteq Ending
    BY DEF Ending
  <2>3. Ended(net, N, r) /\ Watching(N, r) = {}
    BY <1>4, <2>2
  <2> HIDE DEF N
  <2>4. Ended(net, M, r) /\ Watching(M, r) = {}
    BY <1>1, <2>2, <2>3, EmitAgain
  <2> HIDE DEF M
  <2>5. Ended(net, net', r)
    BY <1>1, <2>1, <2>2, <2>4, EmitAgain
  <2> QED  BY <1>6, <2>1, <2>5
<1>11. CASE FailEarly(r) \/ FailLate(r)
  BY <1>5, <1>6, <1>11 DEF FailEarly, FailLate, Over, Leaves
<1>12. CASE Caught(r)
  <2>1. /\ net' = net /\ turn[r].at \in Unended
        /\ Exits(r, "cancelling") \/ Exits(r, "failing")
    BY <1>12 DEF Caught, Unended
  <2>2. ASSUME NEW phase \in {"cancelling", "failing"}, Exits(r, phase)
        PROVE  TurnInv'
    <3>1. phase \in Phase
      BY DEF Phase
    <3>2. Moves(r, phase)
      BY <2>2, <3>1, ExitsMoves
    <3> QED  BY <1>2, <1>3, <2>1, <3>1, <3>2, QuietKeeps
  <2> QED  BY <2>1, <2>2
<1> QED  BY <1>7, <1>8, <1>9, <1>10, <1>11, <1>12

-----------------------------------------------------------------------------
(* The invariant                                                           *)

LEMMA InitHolds == Init => TurnInv
<1> SUFFICES ASSUME Init PROVE TurnInv
  OBVIOUS
<1>1. /\ net = QuietNet /\ log = <<>> /\ row = [r \in Run |-> "none"]
      /\ turn = [r \in Run |-> Outside("none")]
      /\ inflight = {} /\ stopped = {} /\ said = [r \in Run |-> 0]
      /\ muddled = FALSE /\ faults = 0
  BY DEF Init
<1> DEFINE o == Outside("none")
<1>2. o \in Turn /\ o.at = "none" /\ o.round < MaxRounds
  BY OutsideFits DEF Phase
<1> HIDE DEF o
<1>3. turn \in [Run -> Turn] /\ \A r \in Run : turn[r] = o
  BY <1>1, <1>2 DEF o
<1>4. /\ log \in Seq(Message) /\ row \in [Run -> RowStatus] /\ said \in [Run -> Nat]
      /\ faults \in 0..MaxFaults
  BY <1>1, TurnAssumption DEF RowStatus
<1>5. TypeOK /\ CountersFit
  BY <1>1, <1>2, <1>3, <1>4, QuietHolds DEF TypeOK, CountersFit
<1>6. Unstarted
  BY <1>1, QuietHolds DEF Unstarted, Pair
<1>7. UnendedIsBuffered
  BY <1>2, <1>3 DEF UnendedIsBuffered, Unended
<1>8. BufferIsFresh /\ WatchEnds /\ WatchedIsWhole
  BY <1>1, QuietHolds DEF BufferIsFresh, WatchEnds, WatchedIsWhole
<1>9. OneEnding
  BY <1>1, QuietHolds DEF OneEnding, Pair
<1> QED  BY <1>5, <1>6, <1>7, <1>8, <1>9 DEF TurnInv

LEMMA NextKeeps == TurnInv /\ [Next]_turnVars => TurnInv'
<1> SUFFICES ASSUME TurnInv, [Next]_turnVars PROVE TurnInv'
  OBVIOUS
<1>1. TypeOK
  BY DEF TurnInv
<1>2. ASSUME NEW r \in Run, Proceeds(r) \/ FailEarly(r) \/ Caught(r) \/ FailLate(r)
      PROVE  TurnInv'
  <2>1. ASSUME Delta(r)
        PROVE  TurnInv'
    <3>1. muddled' \in BOOLEAN /\ faults' \in 0..MaxFaults
      BY <2>1, FaultsTyped DEF Delta
    <3>2. log' \in Seq(Message)
      BY <2>1, LogTyped DEF Delta
    <3>3. RestOK'
      BY <2>1, <3>1, <3>2, RestTyped DEF Delta
    <3> QED  BY <2>1, <3>3, DeltaKeeps
  <2> QED  BY <1>2, <2>1, WalkKeeps, LoopKeeps, EndingStepKeeps DEF Proceeds
<1>3. ASSUME NEW r \in Run, Stop(r) \/ Reap(r)
      PROVE  TurnInv'
  <2>1. UNCHANGED <<net, log, turn, inflight, said>> /\ stopped' \subseteq stopped \cup {r}
    BY <1>3 DEF Stop, Reap
  <2>2. muddled' \in BOOLEAN /\ faults' \in 0..MaxFaults
    BY <1>3, FaultsTyped DEF Stop, Reap
  <2>3. log' \in Seq(Message)
    BY <1>1, <2>1 DEF TypeOK
  <2>4. \/ UNCHANGED row
        \/ \E status \in RowStatus : Marks(r, status)
    BY <1>3 DEF Stop, Reap, RowStatus
  <2>5. RestOK'
    BY <2>1, <2>2, <2>3, <2>4, RestTyped
  <2> QED  BY <2>1, <2>5, UnseenKeeps
<1>4. ASSUME NEW c \in Client, NEW r \in Run, Submit(c, r)
      PROVE  TurnInv'
  <2>1. /\ UNCHANGED <<log, row, inflight, stopped, said, faults>>
        /\ muddled' = (muddled \/ \E q \in Run : Live(q))
    BY <1>4 DEF Submit
  <2>2. muddled' \in BOOLEAN /\ faults' \in 0..MaxFaults
    BY <1>1, <2>1 DEF TypeOK
  <2>3. RestOK'
    BY <1>1, <2>1, <2>2 DEF TypeOK, RestOK
  <2> QED  BY <1>4, <2>3, SubmitKeeps
<1>5. ASSUME NEW c \in Client, Resume(c) \/ Leave(c)
      PROVE  TurnInv'
  <2>1. RestOK'
    BY <1>1, <1>5 DEF Resume, Leave, Sound, TypeOK, RestOK
  <2> QED  BY <1>5, <2>1, ResumeKeeps, LeaveKeeps
<1>6. ASSUME Restart
      PROVE  TurnInv'
  <2>1. muddled' \in BOOLEAN /\ faults' \in 0..MaxFaults
    BY <1>6, FaultsTyped DEF Restart
  <2>2. row' \in [Run -> RowStatus]
    BY <1>1, <1>6 DEF Restart, TypeOK, RowStatus
  <2>3. RestOK'
    BY <1>1, <1>6, <2>1, <2>2 DEF Restart, TypeOK, RestOK
  <2> QED  BY <1>6, <2>3, RestartKeeps
<1>7. ASSUME UNCHANGED turnVars
      PROVE  TurnInv'
  <2>1. RestOK' /\ UNCHANGED <<net, turn, said>>
    BY <1>1, <1>7 DEF turnVars, TypeOK, RestOK
  <2> QED  BY <2>1, UnseenKeeps
<1> QED  BY <1>2, <1>3, <1>4, <1>5, <1>6, <1>7 DEF Next

-----------------------------------------------------------------------------
(* The log                                                                 *)

(* What a step of r does to the turns, where the log is concerned.         *)
OnlyTurnOf(r) == \A q \in Run : q # r => turn'[q] = turn[q]

Alone(r) == \A q \in Run : q # r => ~Live(q)

LEMMA TurnGoes ==
    ASSUME TurnInv, NEW r \in Run, NEW phase, Goes(r, phase)
    PROVE  /\ turn'[r].at = phase /\ turn'[r].round = turn[r].round
           /\ turn'[r].left = turn[r].left
           /\ OnlyTurnOf(r)
<1>1. turn \in [Run -> Turn] /\ turn[r] \in Turn
  BY DEF TurnInv, TypeOK
<1> QED  BY <1>1 DEF Goes, Turn, OnlyTurnOf

LEMMA TurnSet ==
    ASSUME TurnInv, NEW r \in Run, NEW t, turn' = [turn EXCEPT ![r] = t]
    PROVE  turn'[r] = t /\ OnlyTurnOf(r)
  BY DEF TurnInv, TypeOK, OnlyTurnOf

LEMMA TurnExits ==
    ASSUME TurnInv, NEW r \in Run, NEW phase, Exits(r, phase)
    PROVE  turn'[r].at = phase /\ OnlyTurnOf(r)
<1>1. turn'[r] = Outside(phase) /\ OnlyTurnOf(r)
  BY TurnSet DEF Exits
<1> QED  BY <1>1 DEF Outside

(* A clean log belongs to the turn that goes on.                           *)
LEMMA CleanIsAlone ==
    ASSUME LogInv, ~muddled, NEW r \in Run, Live(r)
    PROVE  Alone(r) /\ (~MidRound(r) => WellFormed(log))
<1>1. Alone(r)
  BY DEF LogInv, Alone
<1>2. ASSUME ~MidRound(r)  PROVE WellFormed(log)
  <2>1. \A q \in Run : ~MidRound(q)
    BY <1>1, <1>2 DEF Alone, Live, MidRound
  <2> QED  BY <2>1 DEF LogInv
<1> QED  BY <1>1, <1>2

(* A step of r that leaves a log in need of nothing,                       *)
LEMMA LogCloses ==
    ASSUME NEW r \in Run, OnlyTurnOf(r), ~MidRound(r)',
           ~muddled' => Alone(r) /\ WellFormed(log')
    PROVE  LogInv'
<1> SUFFICES ASSUME ~muddled'
             PROVE  /\ \A p, q \in Run : Live(p)' /\ Live(q)' => p = q
                    /\ \A q \in Run : ~MidRound(q)'
                    /\ WellFormed(log')
  BY DEF LogInv
<1>1. \A q \in Run : q # r => ~Live(q)' /\ ~MidRound(q)'
  BY DEF Alone, OnlyTurnOf, Live, MidRound
<1> QED  BY <1>1

(* and one that leaves the group of its calls open.                        *)
LEMMA LogOpens ==
    ASSUME NEW r \in Run, OnlyTurnOf(r), MidRound(r)',
           ~muddled' =>
              /\ Alone(r)
              /\ \E i \in 1..Len(log') :
                    /\ GroupAt(log', i)
                    /\ Missing(From(log', i)) = Calls(r, turn[r].left)'
              /\ At(r, "tools")' \/ turn'[r].left = 1
    PROVE  LogInv'
<1> SUFFICES ASSUME ~muddled'
             PROVE  /\ \A p, q \in Run : Live(p)' /\ Live(q)' => p = q
                    /\ \A q \in Run : MidRound(q)' => q = r
  BY DEF LogInv
<1>1. \A q \in Run : q # r => ~Live(q)' /\ ~MidRound(q)'
  BY DEF Alone, OnlyTurnOf, Live, MidRound
<1> QED  BY <1>1

LEMMA LogUnseen ==
    ASSUME LogInv, UNCHANGED <<log, turn>>, muddled' = muddled \/ muddled'
    PROVE  LogInv'
  BY DEF LogInv, Live, MidRound, At, Calls

(* A step outside the rounds of calls: the log stays, or a plain message   *)
(* comes.                                                                  *)
LEMMA LogWalks ==
    ASSUME TurnInv, LogInv, NEW r \in Run, Live(r), ~MidRound(r),
           OnlyTurnOf(r), ~MidRound(r)', muddled' = muddled,
           \/ log' = log
           \/ \E role \in {"user", "assistant"} : Appends(r, role, {})
    PROVE  LogInv'
<1> SUFFICES ASSUME ~muddled  PROVE Alone(r) /\ WellFormed(log')
  BY LogCloses
<1>1. Alone(r) /\ WellFormed(log) /\ log \in Seq(Message)
  BY CleanIsAlone DEF TurnInv, TypeOK
<1>2. ASSUME NEW role \in {"user", "assistant"}, Appends(r, role, {})
      PROVE  WellFormed(log')
  <2> DEFINE m == [role |-> role, ids |-> {}, from |-> r]
  <2>1. m \in Message /\ Plain(m)
    BY <1>2, TurnAssumption DEF Message, Plain, Declares, IsToolResult
  <2>2. log' = Append(log, m)
    BY <1>2 DEF Appends
  <2> HIDE DEF m
  <2> QED  BY <1>1, <2>1, <2>2, PlainAppended
<1> QED  BY <1>1, <1>2

(* A result for the call the turn is at takes it out of those missing.     *)
LEMMA ResultComes ==
    ASSUME TurnInv, LogInv, ~muddled, NEW r \in Run, MidRound(r),
           Appends(r, "tool", {<<r, turn[r].round, turn[r].left>>})
    PROVE  /\ Alone(r)
           /\ turn[r].left \in Nat /\ turn[r].left >= 1
           /\ turn[r].left = 1 => WellFormed(log')
           /\ \E i \in 1..Len(log') :
                 /\ GroupAt(log', i)
                 /\ Missing(From(log', i)) = Calls(r, turn[r].left - 1)
<1> DEFINE c == <<r, turn[r].round, turn[r].left>>
           m == [role |-> "tool", ids |-> {c}, from |-> r]
           n == turn[r].left
<1>1. /\ log \in Seq(Message) /\ n \in 1..MaxCalls /\ MaxCalls \in Nat
      /\ n \in Nat /\ n >= 1
  BY TurnAssumption DEF TurnInv, TypeOK, CountersFit, MidRound
<1>2. Alone(r)
  BY CleanIsAlone DEF MidRound, Live
<1>3. c \in CallId
  BY <1>1, CallsTyped
<1>4. m \in Message /\ IsToolResult(m) /\ m.ids = {c} /\ log' = Append(log, m)
  BY <1>3, TurnAssumption DEF Message, IsToolResult, Appends
<1>5. PICK i \in 1..Len(log) : GroupAt(log, i) /\ Missing(From(log, i)) = Calls(r, n)
  BY DEF LogInv
<1>6. c \in Calls(r, n) /\ Calls(r, n) \ {c} = Calls(r, n - 1)
  <2>1. n \in 1..n /\ \A k \in 1..n : k = n \/ k \in 1..(n - 1)
    BY <1>1
  <2>2. \A k \in 1..(n - 1) : k \in 1..n /\ k # n
    BY <1>1
  <2>3. \A k : <<r, turn[r].round, k>> = c <=> k = n
    OBVIOUS
  <2> QED  BY <2>1, <2>2, <2>3 DEF Calls
<1> HIDE DEF c, m, n
<1>7. GroupAt(log', i) /\ Missing(From(log', i)) = Calls(r, n - 1)
  <2>1. /\ GroupAt(Append(log, m), i)
        /\ Missing(From(Append(log, m), i)) = Missing(From(log, i)) \ {c}
    BY <1>1, <1>4, <1>5, <1>6, GroupFills
  <2> QED  BY <1>4, <1>5, <1>6, <2>1
<1>8. i \in 1..Len(log') /\ log' \in Seq(Message)
  BY <1>1, <1>4, Appended
<1>9. ASSUME n = 1  PROVE WellFormed(log')
  <2>1. 1..(n - 1) = {}
    BY <1>9
  <2>2. Missing(From(log', i)) = {}
    BY <1>7, <2>1 DEF Calls
  <2> QED  BY <1>7, <1>8, <2>2, GroupCloses
<1> QED  BY <1>1, <1>2, <1>7, <1>8, <1>9 DEF n

LEMMA ModelCallsLog ==
    ASSUME TurnInv, LogInv, NEW r \in Run, NEW n \in 1..MaxCalls, ModelCalls(r, n)
    PROVE  LogInv'
<1> DEFINE m == [role |-> "assistant", ids |-> Calls(r, n), from |-> r]
<1>1. turn \in [Run -> Turn] /\ turn[r] \in Turn /\ log \in Seq(Message)
  BY DEF TurnInv, TypeOK
<1>2. /\ turn'[r].at = "tools" /\ turn'[r].left = n
      /\ turn'[r].round = turn[r].round
      /\ OnlyTurnOf(r) /\ muddled' = muddled /\ Live(r) /\ ~MidRound(r)
  BY <1>1 DEF ModelCalls, OnlyTurnOf, Turn, Sound, Live, MidRound, At
<1>3. MidRound(r)' /\ At(r, "tools")' /\ Calls(r, turn[r].left)' = Calls(r, n)
  BY <1>2 DEF MidRound, At, Calls
<1>4. m \in Message /\ Declares(m) /\ m.ids = Calls(r, n) /\ log' = Append(log, m)
  <2>1. 1 \in 1..n /\ \A k \in 1..n : k \in 1..MaxCalls
    BY TurnAssumption
  <2>2. Calls(r, n) \in SUBSET CallId /\ Calls(r, n) # {}
    BY <2>1, CallsTyped DEF Calls
  <2> QED  BY <2>2, TurnAssumption DEF Message, Declares, ModelCalls, Appends
<1> HIDE DEF m
<1>5. ASSUME ~muddled'
      PROVE  /\ Alone(r)
             /\ \E i \in 1..Len(log') : /\ GroupAt(log', i)
                                        /\ Missing(From(log', i)) = Calls(r, n)
  <2>1. Alone(r) /\ WellFormed(log)
    BY <1>2, <1>5, CleanIsAlone
  <2>2. /\ GroupAt(Append(log, m), Len(log) + 1)
        /\ Missing(From(Append(log, m), Len(log) + 1)) = m.ids
    BY <1>1, <1>4, <2>1, GroupOpens
  <2>3. Len(log) + 1 \in 1..Len(log')
    BY <1>1, <1>4, Appended
  <2> QED  BY <1>4, <2>1, <2>2, <2>3
<1> QED  BY <1>2, <1>3, <1>5, LogOpens

LEMMA ToolEndsLog ==
    ASSUME TurnInv, LogInv, NEW r \in Run, ToolEnds(r)
    PROVE  LogInv'
<1> DEFINE n == turn[r].left
<1>1. /\ turn[r] \in Turn /\ MidRound(r) /\ muddled' = muddled
      /\ turn' = [turn EXCEPT ![r] = AfterCall(r)]
      /\ Appends(r, "tool", {<<r, turn[r].round, turn[r].left>>})
  BY DEF TurnInv, TypeOK, ToolEnds, MidRound, At, Sound
<1>2. turn'[r] = AfterCall(r) /\ OnlyTurnOf(r)
  BY <1>1, TurnSet
<1>3. ~muddled =>
        /\ Alone(r) /\ n \in Nat /\ n >= 1
        /\ n = 1 => WellFormed(log')
        /\ \E i \in 1..Len(log') : /\ GroupAt(log', i)
                                   /\ Missing(From(log', i)) = Calls(r, n - 1)
  BY <1>1, ResultComes
<1>4. CASE n > 1
  <2>1. turn'[r] = [turn[r] EXCEPT !.left = n - 1]
    BY <1>2, <1>4 DEF AfterCall
  <2>2. /\ turn'[r].at = "tools" /\ turn'[r].round = turn[r].round
        /\ turn'[r].left = n - 1
    BY <1>1, <2>1 DEF Turn, ToolEnds, At
  <2>3. MidRound(r)' /\ At(r, "tools")' /\ Calls(r, turn[r].left)' = Calls(r, n - 1)
    BY <2>2 DEF MidRound, At, Calls
  <2> QED  BY <1>1, <1>2, <1>3, <2>3, LogOpens
<1>5. CASE ~(n > 1)
  <2>1. turn'[r] = NextRound(r)
    BY <1>2, <1>5 DEF AfterCall
  <2>2. turn'[r].at \in {"asking", "cancelling", "answering"}
    <3>1. [turn[r] EXCEPT !.at = "asking", !.left = 0, !.round = @ + 1].at = "asking"
      BY <1>1 DEF Turn
    <3> QED  BY <2>1, <3>1 DEF NextRound, AfterLoop, Outside
  <2>3. ~MidRound(r)'
    BY <2>2 DEF MidRound
  <2>4. ~muddled => n = 1
    BY <1>3, <1>5
  <2> QED  BY <1>1, <1>2, <1>3, <2>3, <2>4, LogCloses
<1> QED  BY <1>4, <1>5

(* A suspended turn waits for one result, its last.                        *)
LEMMA SuspensionLog ==
    ASSUME TurnInv, LogInv, NEW r \in Run,
           PresentChoices(r) \/ Suspend(r) \/ Park(r)
    PROVE  LogInv'
<1>1. /\ MidRound(r) /\ Live(r)
      /\ turn[r].left \in Nat /\ turn[r].left >= 1
  BY TurnAssumption
  DEF TurnInv, CountersFit, PresentChoices, Suspend, Park, MidRound, Live, At
<1>2. ~muddled => Alone(r)
  BY <1>1, CleanIsAlone
<1>3. ~muddled => \E i \in 1..Len(log) : /\ GroupAt(log, i)
                                         /\ Missing(From(log, i)) = Calls(r, turn[r].left)
  BY <1>1 DEF LogInv
<1>4. ASSUME NEW phase \in {"suspending", "parking"}, Goes(r, phase), log' = log,
             ~muddled' => ~muddled /\ turn[r].left = 1
      PROVE  LogInv'
  <2>1. /\ turn'[r].at = phase /\ turn'[r].round = turn[r].round
        /\ turn'[r].left = turn[r].left /\ OnlyTurnOf(r)
    BY <1>4, TurnGoes
  <2>2. MidRound(r)' /\ Calls(r, turn[r].left)' = Calls(r, turn[r].left)
    BY <2>1 DEF MidRound, Calls
  <2> QED  BY <1>2, <1>3, <1>4, <2>1, <2>2, LogOpens
<1>5. CASE PresentChoices(r)
  <2> DEFINE many == turn[r].left > 1
  <2>1. muddled' = (muddled \/ many)
    BY <1>5 DEF PresentChoices
  <2>2. ~many => turn[r].left = 1
    BY <1>1
  <2> HIDE DEF many
  <2>3. ~muddled' => ~muddled /\ ~many
    BY ONLY <2>1, Zenon
  <2>4. ~muddled' => ~muddled /\ turn[r].left = 1
    BY ONLY <2>2, <2>3, Zenon
  <2> QED  BY <1>4, <1>5, <2>4 DEF PresentChoices
<1>6. CASE Suspend(r)
  <2>1. ~muddled' => ~muddled
    BY <1>6 DEF Suspend, Sound, Faulty
  <2>2. ~muddled => turn[r].left = 1
    BY <1>1, <1>6 DEF Suspend, LogInv, At
  <2> QED  BY <1>4, <1>6, <2>1, <2>2 DEF Suspend
<1>7. CASE Park(r)
  <2>1. turn'[r].at = "over" /\ OnlyTurnOf(r)
    BY <1>7, TurnExits DEF Park, Over, Leaves
  <2>2. ~MidRound(r)'
    BY <2>1 DEF MidRound
  <2>3. CASE Appends(r, "tool", {<<r, turn[r].round, turn[r].left>>}) /\ Sound
    <3>1. ~muddled => turn[r].left = 1
      BY <1>1, <1>7 DEF Park, LogInv, At
    <3>2. ~muddled => WellFormed(log')
      BY <1>1, <2>3, <3>1, ResultComes
    <3> QED  BY <1>2, <2>1, <2>2, <2>3, <3>2, LogCloses DEF Sound
  <2>4. CASE Faulty
    BY <2>4 DEF Faulty, LogInv
  <2> QED  BY <1>7, <2>3, <2>4 DEF Park
<1> QED  BY <1>5, <1>6, <1>7

LEMMA NextLog == TurnInv /\ LogInv /\ [Next]_turnVars => LogInv'
<1> SUFFICES ASSUME TurnInv, LogInv, [Next]_turnVars PROVE LogInv'
  OBVIOUS
<1>1. ASSUME NEW r \in Run,
             \/ PostMessage(r) \/ CreateRun(r) \/ StartRun(r) \/ BuildHistory(r)
             \/ StoreAnswer(r) \/ Succeed(r)
      PROVE  LogInv'
  <2>1. PICK phase \in {"creating", "starting", "building", "asking", "answered",
                        "closing"} : Goes(r, phase)
    BY <1>1 DEF PostMessage, CreateRun, StartRun, BuildHistory, StoreAnswer, Succeed
  <2>2. turn'[r].at = phase /\ OnlyTurnOf(r)
    BY <2>1, TurnGoes
  <2>3. Live(r) /\ ~MidRound(r) /\ ~MidRound(r)' /\ muddled' = muddled
    BY <1>1, <2>1, <2>2 DEF PostMessage, CreateRun, StartRun, BuildHistory,
       StoreAnswer, Succeed, Live, MidRound, At, Sound
  <2>4. log' = log \/ \E role \in {"user", "assistant"} : Appends(r, role, {})
    BY <1>1 DEF PostMessage, CreateRun, StartRun, BuildHistory, StoreAnswer, Succeed
  <2> QED  BY <2>2, <2>3, <2>4, LogWalks
<1>2. ASSUME NEW r \in Run,
             \/ ModelFails(r) \/ ModelAnswers(r) \/ Close(r) \/ CancelRun(r) \/ FailRun(r)
      PROVE  LogInv'
  <2>1. PICK phase \in {"failing", "cancelling", "answering", "over"} : Exits(r, phase)
    BY <1>2 DEF ModelFails, ModelAnswers, Close, CancelRun, FailRun, Over, Leaves, AfterLoop
  <2>2. turn'[r].at = phase /\ OnlyTurnOf(r)
    BY <2>1, TurnExits
  <2>3. Live(r) /\ ~MidRound(r) /\ ~MidRound(r)' /\ muddled' = muddled /\ log' = log
    BY <1>2, <2>1, <2>2 DEF ModelFails, ModelAnswers, Close, CancelRun, FailRun,
       Live, MidRound, At, Sound
  <2> QED  BY <2>2, <2>3, LogWalks
<1>3. ASSUME NEW r \in Run, RetryEmptyTurn(r)
      PROVE  LogInv'
  <2>1. turn \in [Run -> Turn] /\ turn[r] \in Turn
    BY DEF TurnInv, TypeOK
  <2>2. turn'[r].at = "asking" /\ OnlyTurnOf(r)
    BY <1>3, <2>1 DEF RetryEmptyTurn, At, Turn, OnlyTurnOf
  <2>3. Live(r) /\ ~MidRound(r) /\ ~MidRound(r)' /\ muddled' = muddled /\ log' = log
    BY <1>3, <2>2 DEF RetryEmptyTurn, Live, MidRound, At, Sound
  <2> QED  BY <2>2, <2>3, LogWalks
<1>4. ASSUME NEW r \in Run, Proceeds(r)
      PROVE  LogInv'
  <2>1. Delta(r) => LogInv'
    BY LogUnseen DEF Delta, Sound
  <2> QED  BY <1>1, <1>2, <1>3, <1>4, <2>1, ModelCallsLog, ToolEndsLog, SuspensionLog
           DEF Proceeds
<1>5. ASSUME \/ \E r \in Run : FailEarly(r) \/ Caught(r) \/ FailLate(r)
             \/ Restart
      PROVE  LogInv'
  BY <1>5 DEF FailEarly, Caught, FailLate, Restart, Faulty, LogInv
<1>6. ASSUME \/ \E r \in Run : Stop(r) \/ Reap(r)
             \/ \E c \in Client : Resume(c) \/ Leave(c)
             \/ UNCHANGED turnVars
      PROVE  LogInv'
  BY <1>6, LogUnseen DEF Stop, Reap, Resume, Leave, turnVars, Sound
<1>7. ASSUME NEW c \in Client, NEW r \in Run, Submit(c, r)
      PROVE  LogInv'
  <2>1. turn'[r].at = "posting" /\ OnlyTurnOf(r) /\ log' = log
    BY <1>7, TurnGoes DEF Submit
  <2>2. ~MidRound(r)'
    BY <2>1 DEF MidRound
  <2>3. ASSUME ~muddled'
        PROVE  Alone(r) /\ WellFormed(log')
    <3>1. ~muddled /\ \A q \in Run : ~Live(q)
      BY <1>7, <2>3 DEF Submit
    <3>2. \A q \in Run : ~MidRound(q)
      BY <3>1 DEF Live, MidRound
    <3> QED  BY <2>1, <3>1, <3>2 DEF Alone, LogInv
  <2> QED  BY <2>1, <2>2, <2>3, LogCloses
<1> QED  BY <1>4, <1>5, <1>6, <1>7 DEF Next

-----------------------------------------------------------------------------
(* Theorems                                                                *)

(* Every reachable state satisfies the inductive invariant.                *)
THEOREM TurnsAreSound == Spec => []TurnInv
<1>1. Init => TurnInv
  BY InitHolds
<1>2. TurnInv /\ [Next]_turnVars => TurnInv'
  BY NextKeeps
<1> QED  BY <1>1, <1>2, PTL DEF Spec

(* Every variable has its type: no call outside the rounds is ever stored. *)
THEOREM TurnsTypeCorrect == Spec => []TypeOK
<1>1. TurnInv => TypeOK
  BY DEF TurnInv
<1> QED  BY <1>1, TurnsAreSound, PTL

(* A client hears at most one ending of a run (handleRunEvent, which       *)
(* unsubscribes, and the double reports of executeStreamingRun).           *)
THEOREM OneEndingIsHeard == Spec => []OneEnding
<1>1. TurnInv => OneEnding
  BY DEF TurnInv
<1> QED  BY <1>1, TurnsAreSound, PTL

(* A client that watches a run shows all of it, also after it came back    *)
(* (handleResumeStream).                                                   *)
THEOREM NothingIsMissed == Spec => []WatchedIsWhole
<1>1. TurnInv => WatchedIsWhole
  BY DEF TurnInv
<1> QED  BY <1>1, TurnsAreSound, PTL

(* Who still watches a run that is over was told how it ended.             *)
THEOREM EndsAreTold == Spec => []EndIsTold
<1>1. TurnInv => EndIsTold
  <2> SUFFICES ASSUME TurnInv, NEW w \in net.watch, At(w[2], "over")
               PROVE  net.heard[w] # <<>>
    BY DEF EndIsTold
  <2>1. w[2] \notin net.buffered
    BY DEF TurnInv, BufferIsFresh, Live, At
  <2> QED  BY <2>1 DEF TurnInv, WatchEnds
<1> QED  BY <1>1, TurnsAreSound, PTL

(* A session whose turns are over, did not overlap and met no fault leaves *)
(* a transcript that needs no repair, stopped and failed runs included: a  *)
(* stopped turn still stores a result for each call of its round, and a    *)
(* suspended one for the last (submitMessageStreaming).                    *)
THEOREM LogsAreReady == Spec => []LogIsReady
<1>1. Init => LogInv
  <2> SUFFICES ASSUME Init  PROVE LogInv
    OBVIOUS
  <2>1. \A r \in Run : turn[r].at = "none"
    BY DEF Init, Outside
  <2>2. log = <<>> /\ \A k \in 1..Len(<<>>) : Plain(<<>>[k])
    BY EmptySeq DEF Init
  <2>3. WellFormed(log)
    BY <2>2, PlainWellFormed
  <2> QED  BY <2>1, <2>3 DEF LogInv, Live, MidRound
<1>2. LogInv => LogIsReady
  BY DEF LogInv, LogIsReady, Live, MidRound
<1> QED  BY <1>1, <1>2, NextLog, TurnsAreSound, PTL DEF Spec
=============================================================================
