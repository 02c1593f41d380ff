------------------------- MODULE GraphEditing_proofs -------------------------
(***************************************************************************)
(* What the checks of an edit are worth: however many editors draw edges   *)
(* and create steps at once, and whatever runs are going meanwhile, the    *)
(* graph gets a cycle only if edges are added between another editor's     *)
(* check and the write it was made for.                                    *)
(*                                                                         *)
(* And what putting results back is worth: however many edit at once and   *)
(* whatever they edit, results match the graph once all edits are over,    *)
(* but for steps that took the result of an earlier attempt, and for runs  *)
(* started under an edit.                                                  *)
(*                                                                         *)
(* Both rest on functions of the graph that SubtaskGraph states without    *)
(* loops; last comes what their loops compute (SubtaskGraphLoops).         *)
(***************************************************************************)
EXTENDS GraphEditing, SubtaskGraphLoops, SequenceTheorems, TLAPS

-----------------------------------------------------------------------------
(* Reachability                                                            *)

LEMMA ReachClosed ==
    ASSUME NEW E, NEW s \in Step
    PROVE  /\ s \in Reach(E, s)
           /\ Reach(E, s) \subseteq Step
           /\ (\A e \in E : e.to \in Step) => ForwardClosed(E, Reach(E, s))
  BY DEF Reach, ForwardClosed

LEMMA ReachLeast ==
    ASSUME NEW E, NEW s \in Step, NEW K \in SUBSET Step,
           s \in K, ForwardClosed(E, K)
    PROVE  Reach(E, s) \subseteq K
  BY DEF Reach

(* F connects no steps that E does not.                                    *)
Below(F, E) == \A f \in F : \E e \in E : SamePair(e, f)

LEMMA ReachBelow ==
    ASSUME NEW E \in SUBSET EdgeType, NEW F \in SUBSET EdgeType, Below(F, E),
           NEW s \in Step
    PROVE  Reach(F, s) \subseteq Reach(E, s)
  <1>1. ForwardClosed(E, Reach(E, s))
    BY ReachClosed DEF EdgeType
  <1>2. ForwardClosed(F, Reach(E, s))
    BY <1>1 DEF ForwardClosed, SamePair, Below
  <1> QED
    BY <1>2, ReachClosed, ReachLeast

(* Fewer connections, or other conditions on them, close no cycle.         *)
LEMMA AcyclicBelow ==
    ASSUME NEW E \in SUBSET EdgeType, NEW F \in SUBSET EdgeType, Acyclic(E),
           Below(F, E)
    PROVE  Acyclic(F)
  <1> SUFFICES ASSUME NEW f \in F PROVE f.from \notin Reach(F, f.to)
    BY DEF Acyclic
  <1>1. PICK e \in E : SamePair(e, f)
    BY DEF Below
  <1> QED
    BY <1>1, ReachBelow DEF Acyclic, EdgeType, SamePair

(* An edge that the cycle check lets through closes no cycle.              *)
LEMMA AcyclicAdd ==
    ASSUME NEW E \in SUBSET EdgeType, NEW n \in EdgeType, Acyclic(E),
           ~WouldCreateCycle(E, n)
    PROVE  Acyclic(E \cup {n})
  <1> DEFINE F == E \cup {n}
             A == Reach(E, n.to)
  <1>1. n.to \in Step /\ n.from \in Step /\ n.from \notin A
    BY DEF EdgeType, WouldCreateCycle
  <1>2. n.to \in A /\ A \in SUBSET Step /\ ForwardClosed(E, A)
    BY <1>1, ReachClosed DEF EdgeType
  <1> SUFFICES ASSUME NEW d \in F PROVE d.from \notin Reach(F, d.to)
    BY DEF Acyclic
  <1>3. CASE d = n
    <2>1. ForwardClosed(F, A)
      BY <1>1, <1>2 DEF ForwardClosed
    <2> QED
      BY <2>1, <1>1, <1>2, <1>3, ReachLeast
  <1>4. CASE d \in E
    <2> DEFINE D == Reach(E, d.to)
    <2>1. d.to \in Step /\ d.from \in Step /\ d.from \notin D
      BY <1>4 DEF EdgeType, Acyclic
    <2>2. d.to \in D /\ D \in SUBSET Step /\ ForwardClosed(E, D)
      BY <2>1, ReachClosed DEF EdgeType
    <2>3. CASE n.from \in D
      <3>1. ForwardClosed(F, D \cup A)
        BY <1>2, <2>2 DEF ForwardClosed
      <3>2. Reach(F, d.to) \subseteq D \cup A
        BY <3>1, <1>2, <2>1, <2>2, ReachLeast
      <3>3. d.from \notin A
        <4> SUFFICES ASSUME d.from \in A PROVE FALSE
          OBVIOUS
        <4>1. d.to \in A
          BY <1>2, <1>4 DEF ForwardClosed
        <4>2. D \subseteq A
          BY <4>1, <1>2, <2>1, ReachLeast
        <4> QED
          BY <4>2, <2>3, <1>1
      <3> QED
        BY <3>2, <3>3, <2>1
    <2>4. CASE n.from \notin D
      <3>1. ForwardClosed(F, D)
        BY <2>2, <2>4 DEF ForwardClosed
      <3> QED
        BY <3>1, <2>1, <2>2, ReachLeast
    <2> QED
      BY <2>3, <2>4
  <1> QED
    BY <1>3, <1>4

(* The check of a new edge is exact: in a graph without cycles it refuses  *)
(* an edge if, and only if, the edge would close one (wouldCreateCycle).   *)
THEOREM EdgeCheckIsExact ==
    ASSUME NEW E \in SUBSET EdgeType, NEW n \in EdgeType, Acyclic(E)
    PROVE  WouldCreateCycle(E, n) <=> ~Acyclic(E \cup {n})
  <1>1. ASSUME WouldCreateCycle(E, n)  PROVE ~Acyclic(E \cup {n})
    <2>1. E \cup {n} \in SUBSET EdgeType /\ n.to \in Step
      BY DEF EdgeType
    <2>2. Below(E, E \cup {n})
      BY DEF Below, SamePair
    <2>3. Reach(E, n.to) \subseteq Reach(E \cup {n}, n.to)
      BY <2>1, <2>2, ReachBelow
    <2> QED
      BY <1>1, <2>3 DEF WouldCreateCycle, Acyclic
  <1> QED
    BY <1>1, AcyclicAdd

(* Nor do edges into a step that no edge touches yet.                      *)
LEMMA AcyclicInto ==
    ASSUME NEW E \in SUBSET EdgeType, NEW n \in Step, NEW S \in SUBSET Step,
           Acyclic(E), n \notin S, \A e \in E : e.from # n /\ e.to # n
    PROVE  Acyclic(E \cup {Plain(s, n) : s \in S})
  <1> DEFINE F == E \cup {Plain(s, n) : s \in S}
  <1>0. \A s \in S : Plain(s, n).from = s /\ Plain(s, n).to = n
    BY DEF Plain
  <1> SUFFICES ASSUME NEW d \in F PROVE d.from \notin Reach(F, d.to)
    BY DEF Acyclic
  <1>1. CASE d \in E
    <2> DEFINE K == Reach(E, d.to) \cup {n}
    <2>1. d.to \in Step /\ d.from \notin K
      BY <1>1 DEF EdgeType, Acyclic
    <2>2. d.to \in K /\ K \in SUBSET Step /\ ForwardClosed(E, Reach(E, d.to))
      BY <2>1, ReachClosed DEF EdgeType
    <2>3. ForwardClosed(F, K)
      BY <2>2, <1>0 DEF ForwardClosed
    <2> QED
      BY <2>1, <2>2, <2>3, ReachLeast
  <1>2. CASE d \notin E
    <2>1. d.from # n /\ d.to = n
      BY <1>0, <1>2
    <2>2. ForwardClosed(F, {n})
      BY <1>0 DEF ForwardClosed
    <2>3. Reach(F, n) \subseteq {n}
      BY <2>2, ReachLeast
    <2> QED
      BY <2>1, <2>3
  <1> QED
    BY <1>1, <1>2

-----------------------------------------------------------------------------
(* Rows                                                                    *)

AnyRow == Row \cup {Unborn, Deleted}

LEMMA RowChanges ==
    ASSUME NEW row \in AnyRow, NEW status \in Status,
           NEW result \in Outcome \cup {NoOutcome}
    PROVE  /\ FreshRow \in Row
           /\ [row EXCEPT !.status = status] \in Row
           /\ [row EXCEPT !.status = status, !.result = result] \in Row
           /\ Unborn \notin Row
  <1> DEFINE Wide == [status : Status \cup {"unborn", "deleted"},
                      result : Outcome \cup {NoOutcome}, awaiting : BOOLEAN,
                      decision : Decision, retryCount : Nat, loopCount : Nat]
  <1>1. FreshRow \in Row
    BY DEF Row, FreshRow, Status, Decision
  <1>2. Unborn.status = "unborn" /\ Unborn \in Wide /\ Deleted \in Wide
    BY <1>1 DEF Unborn, Deleted, Row
  <1>3. Unborn \notin Row
    BY <1>2 DEF Row, Status
  <1>4. row \in Wide
    BY <1>2 DEF AnyRow, Row
  <1>5. [row EXCEPT !.status = status] \in Row
    BY <1>4 DEF Row
  <1>6. [row EXCEPT !.status = status, !.result = result] \in Row
    BY <1>4 DEF Row
  <1> QED
    BY <1>1, <1>3, <1>5, <1>6

-----------------------------------------------------------------------------
(* Results                                                                 *)

LEMMA RowFacts ==
    /\ FreshRow \in Row /\ FreshRow.status = "pending"
    /\ Unborn.status = "unborn" /\ Deleted.status = "deleted"
    /\ Row \subseteq AnyRow /\ Unborn \notin Row /\ Deleted \notin Row
    /\ \A row \in AnyRow : row.status \in Status => row \in Row
  <1>1. FreshRow \in Row /\ FreshRow.status = "pending"
    BY DEF Row, FreshRow, Status, Decision
  <1>2. Unborn.status = "unborn" /\ Deleted.status = "deleted"
    BY DEF Unborn, Deleted, FreshRow
  <1>3. Unborn \notin Row /\ Deleted \notin Row
    BY <1>2 DEF Row, Status
  <1>4. \A row \in AnyRow : row.status \in Status => row \in Row
    BY <1>2 DEF AnyRow, Status
  <1> QED
    BY <1>1, <1>2, <1>3, <1>4 DEF AnyRow

WithStatus(row, status) == [row EXCEPT !.status = status]
WithEnd(row, status, result) == [row EXCEPT !.status = status, !.result = result]

LEMMA NewStatus ==
    ASSUME NEW row \in AnyRow, NEW status \in Status,
           NEW result \in Outcome \cup {NoOutcome}
    PROVE  /\ WithStatus(row, status) \in Row
           /\ WithStatus(row, status).status = status
           /\ WithEnd(row, status, result) \in Row
           /\ WithEnd(row, status, result).status = status
  <1> DEFINE Wide == [status : Status \cup {"unborn", "deleted"},
                      result : Outcome \cup {NoOutcome}, awaiting : BOOLEAN,
                      decision : Decision, retryCount : Nat, loopCount : Nat]
  <1>1. Unborn \in Wide /\ Deleted \in Wide
    BY DEF Unborn, Deleted, FreshRow, Decision
  <1>2. row \in Wide
    BY <1>1 DEF AnyRow, Row
  <1> QED
    BY <1>2, RowChanges DEF Row, WithStatus, WithEnd

(* What Advance does: it moves pending steps only, and claims those whose  *)
(* upstream steps have all ended.                                          *)
Claimed(rws) ==
    {s \in Step : rws[s].status = "pending" /\ rows'[s].status = "in_progress"}

Moves(rws, cnt, kept) ==
    /\ rows' \in [Step -> AnyRow]
    /\ \A s \in Step : rws[s].status # "pending" => rows'[s] = rws[s]
    /\ \A s \in Step : rws[s].status = "pending" =>
          rows'[s] \in Row /\ rows'[s].status \in {"pending", "skipped", "in_progress"}
    /\ \A s \in Claimed(rws) : ~Waits(rows', edges, s)
    /\ attempts' = [s \in Step |-> IF s \in Claimed(rws) THEN attempts[s] + 1 ELSE attempts[s]]
    /\ pipes' = kept \cup {[step |-> s, attempt |-> attempts'[s],
                           of |-> Inputs(rows', cnt, s)] : s \in Claimed(rws)}
    /\ going' \in BOOLEAN
    /\ ~going' => /\ Claimed(rws) = {}
                  /\ \A s \in Step : rws[s].status # "in_progress"

LEMMA AdvanceMoves ==
    ASSUME NEW rws \in [Step -> AnyRow], NEW cnt, NEW kept, edges \in SUBSET EdgeType,
           Advance(rws, cnt, kept)
    PROVE  Moves(rws, cnt, kept)
  <1> DEFINE K == Skippable(rws, edges)
             skipped == SkipCascade(rws, edges)
             ready == Ready(skipped, edges)
  <1>1. /\ rows' = [s \in Step |-> IF s \in ready
                                  THEN [skipped[s] EXCEPT !.status = "in_progress"]
                                  ELSE skipped[s]]
        /\ going' = (ready # {} \/ \E s \in Step : rws[s].status = "in_progress")
        /\ attempts' = [s \in Step |-> IF s \in ready THEN attempts[s] + 1 ELSE attempts[s]]
        /\ pipes' = kept \cup {[step |-> s, attempt |-> attempts'[s],
                               of |-> Inputs(skipped, cnt, s)] : s \in ready}
    <2> DEFINE Put(sk, rd) ==
                 /\ rows' = [s \in Step |-> IF s \in rd
                                           THEN [sk[s] EXCEPT !.status = "in_progress"]
                                           ELSE sk[s]]
                 /\ going' = (rd # {} \/ \E s \in Step : rws[s].status = "in_progress")
                 /\ attempts' = [s \in Step |-> IF s \in rd THEN attempts[s] + 1
                                               ELSE attempts[s]]
                 /\ pipes' = kept \cup {[step |-> s, attempt |-> attempts'[s],
                                        of |-> Inputs(sk, cnt, s)] : s \in rd}
    <2>1. \E sk \in {SkipCascade(rws, edges)} : \E rd \in {Ready(sk, edges)} : Put(sk, rd)
      BY DEF Advance
    <2> HIDE DEF Put
    <2>2. Put(skipped, ready)
      BY <2>1
    <2> QED
      BY <2>2 DEF Put
  <1>2. K \subseteq {s \in Step : rws[s].status = "pending"}
    BY DEF Skippable, Pending
  <1>3. skipped = [s \in Step |-> IF s \in K
                      THEN [rws[s] EXCEPT !.status = "skipped", !.result = NoOutcome]
                      ELSE rws[s]]
    BY DEF SkipCascade, Skipping
  <1>4. ready \subseteq {s \in Step : skipped[s].status = "pending"}
    BY DEF Ready, Pending
  <1>5. \A s \in ready : ~Waits(skipped, edges, s)
    BY DEF Ready, MayRun
  <1> HIDE DEF K, skipped, ready
  <1>6. "pending" \in Status /\ "skipped" \in Status /\ "in_progress" \in Status
    BY DEF Status
  <1>7. \A s \in Step :
          /\ s \in K => skipped[s] \in Row /\ skipped[s].status = "skipped"
          /\ s \notin K => skipped[s] = rws[s]
    <2>1. \A row \in AnyRow : /\ WithEnd(row, "skipped", NoOutcome) \in Row
                              /\ WithEnd(row, "skipped", NoOutcome).status = "skipped"
      BY NewStatus DEF Status
    <2>2. skipped = [s \in Step |-> IF s \in K THEN WithEnd(rws[s], "skipped", NoOutcome)
                                   ELSE rws[s]]
      BY <1>3 DEF WithEnd
    <2> QED
      BY <2>1, <2>2
  <1>8. \A s \in Step : skipped[s] \in AnyRow
    BY <1>7, RowFacts
  <1>9. \A s \in Step :
          /\ s \in ready => /\ rows'[s] \in Row /\ rows'[s].status = "in_progress"
                            /\ skipped[s].status = "pending" /\ s \notin K
                            /\ rws[s].status = "pending"
          /\ s \notin ready => rows'[s] = skipped[s]
    <2>1. \A row \in AnyRow : /\ WithStatus(row, "in_progress") \in Row
                              /\ WithStatus(row, "in_progress").status = "in_progress"
      BY NewStatus DEF Status
    <2>2. rows' = [s \in Step |-> IF s \in ready THEN WithStatus(skipped[s], "in_progress")
                                 ELSE skipped[s]]
      BY <1>1 DEF WithStatus
    <2> QED
      BY <2>1, <2>2, <1>4, <1>7, <1>8
  <1>10. rows' \in [Step -> AnyRow]
    BY <1>1, <1>8, <1>9, RowFacts
  <1>11. \A s \in Step : rws[s].status # "pending" => rows'[s] = rws[s]
    BY <1>2, <1>7, <1>9
  <1>12. \A s \in Step : rws[s].status = "pending" =>
            rows'[s] \in Row /\ rows'[s].status \in {"pending", "skipped", "in_progress"}
    <2>1. \A s \in Step : rws[s].status = "pending" => rws[s] \in Row
      BY <1>6, RowFacts
    <2> QED
      BY <2>1, <1>7, <1>9
  <1>13. Claimed(rws) = ready
    <2>1. Claimed(rws) \subseteq ready
      BY <1>7, <1>9 DEF Claimed
    <2> QED
      BY <2>1, <1>4, <1>9 DEF Claimed
  (* What a claimed step depends on is not claimed with it.                *)
  <1>14. \A s \in ready : \A e \in Incoming(edges, s) :
            IsTerminal(skipped[e.from]) /\ rows'[e.from] = skipped[e.from]
    <2> SUFFICES ASSUME NEW s \in ready, NEW e \in Incoming(edges, s)
                 PROVE  IsTerminal(skipped[e.from]) /\ rows'[e.from] = skipped[e.from]
      OBVIOUS
    <2>1. IsTerminal(skipped[e.from]) /\ e.from \in Step
      BY <1>5 DEF Waits, Incoming, EdgeType
    <2> QED
      BY <2>1, <1>9 DEF IsTerminal
  <1>15. \A s \in ready : ~Waits(rows', edges, s)
    BY <1>14 DEF Waits
  <1>16. \A s \in ready : Inputs(skipped, cnt, s) = Inputs(rows', cnt, s)
    BY <1>14 DEF Inputs
  <1>17. {[step |-> s, attempt |-> attempts'[s], of |-> Inputs(skipped, cnt, s)] : s \in ready}
            = {[step |-> s, attempt |-> attempts'[s], of |-> Inputs(rows', cnt, s)] : s \in ready}
    BY <1>16
  <1>18. going' \in BOOLEAN /\ (~going' => ready = {} /\ \A s \in Step : rws[s].status # "in_progress")
    BY <1>1
  <1> QED
    BY <1>1, <1>10, <1>11, <1>12, <1>13, <1>15, <1>17, <1>18 DEF Moves

-----------------------------------------------------------------------------
(* The inductive invariant of ResultsMatch                                 *)

EdState == {Idle} \cup [at : {"guard", "check", "write", "find", "read", "reset",
                             "connect"},
                       op : Edit, reset : SUBSET Step]

InputsOf == [text : Nat, given : SUBSET (EdgeType \X Nat)]

(* What came from a step came from one that had been created.              *)
Known(rws, inputs) == \A g \in inputs.given : rws[g[1].from] # Unborn

Typed ==
    /\ edges \in SUBSET EdgeType
    /\ rows \in [Step -> AnyRow]
    /\ text \in [Step -> Nat] /\ count \in [Step -> Nat]
    /\ made \in [Step -> InputsOf]
    /\ \A s \in Step : Known(rows, made[s])
    /\ attempts \in [Step -> Nat]
    /\ \A p \in pipes : /\ p.step \in Step /\ p.of \in InputsOf /\ Known(rows, p.of)
                        /\ p.attempt \in Nat /\ p.attempt =< attempts[p.step]
    /\ going \in BOOLEAN
    /\ ed \in [Editor -> EdState]

Completed(t) == rows[t].status = "completed"

(* What an edit relies on, and what its step can no longer be.             *)
Holds(x) ==
    LET op == ed[x].op IN
    /\ ed[x].at \in {"find", "read", "reset"} => op.kind \notin {"create", "delete"}
    /\ ed[x].at = "connect" => op.kind = "create" /\ (hasty \/ ~Completed(op.step))
    /\ ed[x].at = "check" => op.kind \in {"link", "create"}
    /\ op.kind = "delete" => rows[op.step] # Unborn
    /\ op.kind = "relink" /\ ed[x].at \in {"guard", "write"}
          => \E d \in edges : SamePair(d, op.edge)
    /\ op.kind = "create" /\ ed[x].at \in {"guard", "check", "write"}
          => rows[op.step] = Unborn
    /\ op.kind = "rewrite" /\ ed[x].at = "write" => hasty \/ ~Completed(op.step)
    /\ op.kind = "rewrite" /\ ed[x].at = "reset"
          => hasty \/ op.step \in ed[x].reset \/ ~Completed(op.step)

OneCreates ==
    \A x, y \in Editor :
        /\ Busy(x) /\ ed[x].op.kind = "create"
        /\ Busy(y) /\ ed[y].op.kind = "create"
        /\ ed[x].op.step = ed[y].op.step
        => x = y

EditsHold ==
    /\ \A e \in edges : Exists(e.from) /\ Exists(e.to)
    /\ going => hasty \/ NoneInside
    /\ \A x \in Editor : Busy(x) => Holds(x)
    /\ OneCreates

(* The edit of z has yet to look at t, or to put it back.                  *)
Doubts(z, t) ==
    \/ ed[z].at \in {"find", "read"} /\ Target(ed[z].op) = t
    \/ ed[z].at = "reset" /\ t \in ed[z].reset

InDoubt(t) == \E z \in Editor : Doubts(z, t)

Left(rws, inputs) ==
    [inputs EXCEPT !.given = {g \in @ : rws[g[1].from] \notin {Unborn, Deleted}}]

(* Rows as a run leaves them: what has started waits for nothing, the last *)
(* attempt at what is in progress was given what is there, and so was what *)
(* has completed with its last attempt.                                    *)
Sound(rws, cnt, agents) ==
    /\ \A t \in Step : rws[t].status = "in_progress" => ~Waits(rws, edges, t)
    /\ \A p \in agents : rws[p.step].status = "in_progress" /\ p.attempt = attempts[p.step]
                         => p.of = Inputs(rws, cnt, p.step)

Fits(rws, cnt, mde, over, t) ==
    /\ t \in over \/ Left(rws, mde[t]) = Inputs(rws, cnt, t)
    /\ ~Waits(rws, edges, t)

AllFit ==
    /\ ~going => \A t \in Step : rows[t].status # "in_progress"
    /\ Sound(rows, count, pipes)
    /\ \A t \in Step : Completed(t) => Fits(rows, count, made, overtaken, t) \/ InDoubt(t)
    /\ \A y \in Editor : ed[y].at = "reset" =>
          \A e \in edges : e.from \in ed[y].reset /\ Completed(e.to) => InDoubt(e.to)

FitInv == Typed /\ EditsHold /\ (hasty \/ AllFit)

-----------------------------------------------------------------------------
(* Runs                                                                    *)

LEMMA InputsGiven ==
    ASSUME edges \in SUBSET EdgeType, text \in [Step -> Nat],
           NEW rws, NEW cnt \in [Step -> Nat], NEW s \in Step
    PROVE  /\ Inputs(rws, cnt, s) \in InputsOf
           /\ \A g \in Inputs(rws, cnt, s).given : rws[g[1].from].status = "completed"
  <1> DEFINE G == {<<e, cnt[e.from]>> :
                      e \in {d \in Incoming(edges, s) : rws[d.from].status = "completed"}}
  <1>1. Inputs(rws, cnt, s) = [text |-> text[s], given |-> G]
    BY DEF Inputs
  <1>2. G \in SUBSET (EdgeType \X Nat) /\ \A g \in G : rws[g[1].from].status = "completed"
    BY DEF Incoming, EdgeType
  <1> HIDE DEF G
  <1> QED
    BY <1>1, <1>2 DEF InputsOf

(* A step that waits for nothing is given the same as long as the steps    *)
(* before it stay as they are.                                             *)
LEMMA SameInputs ==
    ASSUME NEW old, NEW new, NEW cnt, NEW cnt2, NEW t \in Step,
           \A e \in Incoming(edges, t) : old[e.from] = new[e.from] /\ cnt[e.from] = cnt2[e.from]
    PROVE  /\ Inputs(old, cnt, t) = Inputs(new, cnt2, t)
           /\ Waits(old, edges, t) = Waits(new, edges, t)
  BY DEF Inputs, Waits

(* Rows where steps that existed still do, and the others are as before.   *)
Same(new) ==
    /\ new \in [Step -> AnyRow]
    /\ \A s \in Step : /\ Exists(s) => new[s] \in Row
                       /\ ~Exists(s) => new[s] = rows[s]

LEMMA SameExists ==
    ASSUME NEW new, Same(new), rows \in [Step -> AnyRow]
    PROVE  \A s \in Step : /\ Exists(s) <=> new[s] \notin {Unborn, Deleted}
                           /\ rows[s] # Unborn => new[s] # Unborn
                           /\ rows[s] = Unborn => new[s] = Unborn
  BY RowFacts DEF Same, Exists

(* What a run's step does not change keeps its type and the edits' facts.  *)
LEMMA RunTyped ==
    ASSUME Typed, EditsHold, UNCHANGED <<edges, text, ed>>, Same(rows'),
           hasty' \/ NoneInside,
           count' \in [Step -> Nat], made' \in [Step -> InputsOf],
           \A s \in Step : Known(rows, made'[s]),
           going' \in BOOLEAN, attempts' \in [Step -> Nat],
           \A p \in pipes' : /\ p.step \in Step /\ p.of \in InputsOf /\ Known(rows', p.of)
                             /\ p.attempt \in Nat /\ p.attempt =< attempts'[p.step]
    PROVE  Typed' /\ EditsHold'
  <1>1. \A s \in Step : (Exists(s)' <=> Exists(s))
                        /\ (rows[s] # Unborn => rows'[s] # Unborn)
                        /\ (rows[s] = Unborn => rows'[s] = Unborn)
    BY SameExists DEF Typed, Exists
  <1>2. \A s \in Step : Known(rows', made'[s])
    <2>1. \A i \in InputsOf : Known(rows, i) => \A g \in i.given : rows'[g[1].from] # Unborn
      BY <1>1 DEF Known, InputsOf, EdgeType
    <2> QED
      BY <2>1 DEF Known
  <1>3. Typed'
    BY <1>2 DEF Typed, Same
  <1>4. \A e \in edges' : Exists(e.from)' /\ Exists(e.to)'
    BY <1>1 DEF EditsHold, Typed, EdgeType
  <1>5. (hasty' \/ NoneInside') /\ OneCreates'
    BY DEF NoneInside, At, OneCreates, EditsHold, Busy
  <1>6. ASSUME NEW x \in Editor, Busy(x)' PROVE Holds(x)'
    <2>1. /\ Busy(x) /\ Holds(x) /\ ed[x].op \in Edit /\ ed' = ed /\ edges' = edges
          /\ hasty' \/ ed[x].at = "guard"
      BY <1>6 DEF Busy, NoneInside, At, EditsHold, Typed, EdState
    <2>2. ed[x].op.kind \in {"create", "delete"} => ed[x].op.step \in Step
      BY <2>1 DEF Edit
    <2> QED
      BY <1>1, <2>1, <2>2 DEF Holds
  <1> QED
    BY <1>3, <1>4, <1>5, <1>6 DEF EditsHold

(* What Advance makes of sound rows is sound.                              *)
LEMMA AdvanceFits ==
    ASSUME Typed, EditsHold, UNCHANGED <<edges, text, ed>>,
           NEW rws, Same(rws),
           NEW cnt \in [Step -> Nat], count' = cnt,
           NEW mde \in [Step -> InputsOf], made' = mde,
           \A s \in Step : Known(rows, mde[s]),
           NEW kept \in SUBSET pipes, Advance(rws, cnt, kept), NEW over, overtaken' = over,
           \/ hasty'
           \/ /\ NoneInside
              /\ Sound(rws, cnt, kept)
              /\ \A t \in Step : rws[t].status = "completed" => Fits(rws, cnt, mde, over, t)
    PROVE  FitInv'
  <1>0. /\ edges \in SUBSET EdgeType /\ rws \in [Step -> AnyRow]
        /\ text \in [Step -> Nat] /\ rows \in [Step -> AnyRow]
    BY DEF Typed, Same
  <1>1. Moves(rws, cnt, kept)
    BY <1>0, AdvanceMoves
  <1>2. Same(rows')
    <2>1. rows' \in [Step -> AnyRow]
      BY <1>1 DEF Moves
    <2>2. ASSUME NEW s \in Step
          PROVE  /\ Exists(s) => rows'[s] \in Row
                 /\ ~Exists(s) => rows'[s] = rows[s]
      <3>1. CASE rws[s].status = "pending"
        <4>1. rws[s] \in Row /\ rows'[s] \in Row
          BY <1>0, <1>1, <3>1, RowFacts DEF Moves, Status
        <4>2. Exists(s)
          BY <4>1, RowFacts DEF Same, Exists
        <4> QED
          BY <4>1, <4>2
      <3>2. CASE rws[s].status # "pending"
        BY <1>1, <3>2 DEF Moves, Same
      <3> QED
        BY <3>1, <3>2
    <2> QED
      BY <2>1, <2>2 DEF Same
  <1>3. \A s \in Claimed(rws) : /\ s \in Step
                                /\ Inputs(rows', cnt, s) \in InputsOf
                                /\ Known(rows', Inputs(rows', cnt, s))
    <2> SUFFICES ASSUME NEW s \in Claimed(rws)
                 PROVE  /\ s \in Step
                        /\ Inputs(rows', cnt, s) \in InputsOf
                        /\ Known(rows', Inputs(rows', cnt, s))
      OBVIOUS
    <2> DEFINE I == Inputs(rows', cnt, s)
    <2>1. s \in Step
      BY DEF Claimed
    <2>2. I \in InputsOf /\ \A g \in I.given : rows'[g[1].from].status = "completed"
      BY <1>0, <2>1, InputsGiven
    <2> HIDE DEF I
    <2>3. \A g \in I.given : rows'[g[1].from] # Unborn
      BY <2>2, RowFacts
    <2> QED
      BY <2>1, <2>2, <2>3 DEF Known, I
  <1>4. \A s \in Step : rows[s] # Unborn => rows'[s] # Unborn
    BY <1>0, <1>2, SameExists
  <1>5. \A i \in InputsOf : Known(rows, i) => Known(rows', i)
    BY <1>4 DEF Known, InputsOf, EdgeType
  <1>a. /\ attempts \in [Step -> Nat] /\ attempts' \in [Step -> Nat]
        /\ \A s \in Step : attempts'[s] = IF s \in Claimed(rws) THEN attempts[s] + 1
                                          ELSE attempts[s]
    BY <1>1 DEF Moves, Typed
  <1>b. ASSUME NEW p \in pipes'
        PROVE  \/ p \in kept
               \/ \E s \in Claimed(rws) :
                     /\ p.step = s /\ p.attempt = attempts'[s]
                     /\ p.of = Inputs(rows', cnt, s)
    <2>1. pipes' = kept \cup {[step |-> s, attempt |-> attempts'[s],
                              of |-> Inputs(rows', cnt, s)] : s \in Claimed(rws)}
      BY <1>1 DEF Moves
    <2>2. \A s : LET q == [step |-> s, attempt |-> attempts'[s], of |-> Inputs(rows', cnt, s)]
                 IN  q.step = s /\ q.attempt = attempts'[s] /\ q.of = Inputs(rows', cnt, s)
      OBVIOUS
    <2> QED
      BY <2>1, <2>2
  <1>6. ASSUME NEW p \in pipes'
        PROVE  /\ p.step \in Step /\ p.of \in InputsOf /\ Known(rows', p.of)
               /\ p.attempt \in Nat /\ p.attempt =< attempts'[p.step]
    <2>1. CASE p \in kept
      BY <1>5, <1>a, <2>1 DEF Typed
    <2>2. CASE p \notin kept
      BY <1>3, <1>a, <1>b, <2>2
    <2> QED
      BY <2>1, <2>2
  <1>7. Typed' /\ EditsHold'
    BY <1>1, <1>2, <1>6, <1>a, RunTyped DEF Moves
  <1> SUFFICES ASSUME ~hasty' PROVE AllFit'
    BY <1>7 DEF FitInv
  (* Where a step waits for nothing, what comes before it stays.           *)
  <1>8. ASSUME NEW t \in Step, ~Waits(rws, edges, t)
        PROVE  /\ ~Waits(rows', edges, t)
               /\ Inputs(rows', cnt, t) = Inputs(rws, cnt, t)
    <2>1. \A e \in Incoming(edges, t) : rws[e.from] = rows'[e.from]
      <3> SUFFICES ASSUME NEW e \in Incoming(edges, t) PROVE rws[e.from] = rows'[e.from]
        OBVIOUS
      <3>1. e.from \in Step /\ IsTerminal(rws[e.from])
        BY <1>0, <1>8 DEF Waits, Incoming, EdgeType
      <3> QED
        BY <1>1, <3>1 DEF Moves, IsTerminal
    <2> QED
      BY <1>8, <2>1, SameInputs
  <1>9. \A t \in Step : rows'[t].status = "in_progress" => ~Waits(rows', edges, t)
    <2> SUFFICES ASSUME NEW t \in Step, rows'[t].status = "in_progress"
                 PROVE  ~Waits(rows', edges, t)
      OBVIOUS
    <2>1. CASE rws[t].status = "pending"
      BY <1>1, <2>1 DEF Moves, Claimed
    <2>2. CASE rws[t].status # "pending"
      <3>1. rws[t].status = "in_progress"
        BY <1>1, <2>2 DEF Moves
      <3> QED
        BY <3>1, <1>8 DEF Sound
    <2> QED
      BY <2>1, <2>2
  <1>10. ASSUME NEW p \in pipes', rows'[p.step].status = "in_progress",
                p.attempt = attempts'[p.step]
         PROVE  p.of = Inputs(rows', cnt, p.step)
    <2>1. CASE p \in kept
      (* Were the step claimed now, this would be an earlier attempt.      *)
      <3>1. p.step \in Step /\ p.step \notin Claimed(rws)
        BY <1>10, <1>a, <2>1 DEF Typed
      <3>2. rws[p.step].status # "pending"
        BY <1>10, <3>1 DEF Claimed
      <3>3. rows'[p.step] = rws[p.step]
        BY <1>1, <3>1, <3>2 DEF Moves
      <3>4. p.of = Inputs(rws, cnt, p.step)
        BY <1>10, <1>a, <2>1, <3>1, <3>3 DEF Sound
      <3> QED
        BY <1>8, <1>10, <3>1, <3>3, <3>4 DEF Sound
    <2> QED
      BY <1>b, <2>1
  <1>11. Sound(rows, count, pipes)'
    <2>1. Sound(rows, count, pipes)' <=>
             /\ \A t \in Step : rows'[t].status = "in_progress" => ~Waits(rows', edges, t)
             /\ \A p \in pipes' : rows'[p.step].status = "in_progress"
                                  /\ p.attempt = attempts'[p.step]
                                  => p.of = Inputs(rows', cnt, p.step)
      BY DEF Sound, Inputs
    <2> QED
      BY <1>9, <1>10, <2>1
  <1>12. ~going' => \A t \in Step : rows'[t].status # "in_progress"
    <2> SUFFICES ASSUME ~going' PROVE \A t \in Step : rows'[t].status # "in_progress"
      OBVIOUS
    <2>1. Claimed(rws) = {} /\ \A s \in Step : rws[s].status # "in_progress"
      BY <1>1 DEF Moves
    <2> QED
      BY <1>1, <2>1 DEF Moves, Claimed
  <1>13. \A t \in Step : Completed(t)' => Fits(rows', cnt, mde, over, t)
    <2> SUFFICES ASSUME NEW t \in Step, Completed(t)' PROVE Fits(rows', cnt, mde, over, t)
      OBVIOUS
    <2>1. rws[t].status = "completed"
      BY <1>1 DEF Moves, Completed
    <2>2. (t \in over \/ Left(rws, mde[t]) = Inputs(rws, cnt, t)) /\ ~Waits(rws, edges, t)
      BY <2>1 DEF Fits
    <2>3. \A s \in Step : rws[s] \notin {Unborn, Deleted} <=> rows'[s] \notin {Unborn, Deleted}
      BY <1>0, <1>2, SameExists
    <2>4. mde[t] \in InputsOf
      OBVIOUS
    <2>5. \A g \in mde[t].given : g[1].from \in Step
      BY <2>4 DEF InputsOf, EdgeType
    <2>6. Left(rows', mde[t]) = Left(rws, mde[t])
      BY <2>3, <2>5 DEF Left
    <2> QED
      BY <2>2, <2>6, <1>8 DEF Fits
  <1>14. \A t \in Step : Completed(t)' => Fits(rows, count, made, overtaken, t)'
    <2>1. \A t \in Step : Fits(rows, count, made, overtaken, t)' <=> Fits(rows', cnt, mde, over, t)
      BY DEF Fits, Inputs
    <2> QED
      BY <1>13, <2>1
  <1>15. \A y \in Editor : ed'[y].at # "reset"
    BY DEF NoneInside, At, Busy, Idle
  <1> QED
    BY <1>11, <1>12, <1>14, <1>15 DEF AllFit

(* A retry puts back steps that exist, and all that depends on them.       *)
LEMMA ReachExists ==
    ASSUME Typed, EditsHold, NEW s \in Step, Exists(s)
    PROVE  \A t \in Reach(edges, s) : t \in Step /\ Exists(t)
  <1> DEFINE K == {s} \cup {e.to : e \in edges}
  <1>1. K \in SUBSET Step /\ ForwardClosed(edges, K) /\ s \in K
    BY DEF ForwardClosed, Typed, EdgeType
  <1>2. \A t \in K : Exists(t)
    BY DEF EditsHold
  <1> HIDE DEF K
  <1> QED
    BY <1>1, <1>2, ReachLeast

LEMMA StartFits ==
    ASSUME FitInv, NEW reset \in BOOLEAN, StartRun(reset)
    PROVE  FitInv'
  <1> DEFINE rws == IF reset THEN [s \in Step |-> IF Exists(s) THEN FreshRow ELSE rows[s]]
                    ELSE rows
  <1>1. /\ Advance(rws, count, pipes) /\ UNCHANGED <<edges, text, ed, count, made, overtaken>>
        /\ hasty' = (~NoneInside \/ (hasty /\ ~reset)) /\ ~going
    BY DEF StartRun, MayStart
  <1>2. Same(rws)
    <2>1. \A s \in Step : Exists(s) => rows[s] \in Row
      BY DEF FitInv, Typed, AnyRow, Exists
    <2> QED
      BY <2>1, RowFacts DEF FitInv, Typed, Same
  <1>3. ASSUME ~hasty'
        PROVE  /\ NoneInside
               /\ Sound(rws, count, pipes)
               /\ \A t \in Step : rws[t].status = "completed" => Fits(rws, count, made, overtaken, t)
    <2>1. NoneInside
      BY <1>1, <1>3
    (* Where every step is put back, it does not matter what was before.   *)
    <2>2. CASE reset
      <3>1. \A t \in Step : rws[t].status \notin {"completed", "in_progress"}
        BY <2>2, RowFacts DEF Exists
      <3>2. \A p \in pipes : p.step \in Step
        BY DEF FitInv, Typed
      <3> QED
        BY <2>1, <3>1, <3>2 DEF Sound
    <2>3. CASE ~reset
      <3>1. \A t \in Step : ~InDoubt(t)
        BY <2>1 DEF NoneInside, At, Busy, InDoubt, Doubts, Idle
      <3>2. AllFit
        BY <1>1, <1>3, <2>3 DEF FitInv
      <3> QED
        BY <2>1, <2>3, <3>1, <3>2 DEF AllFit, Completed
    <2> QED
      BY <2>2, <2>3
  <1> HIDE DEF rws
  <1> QED
    BY <1>1, <1>2, <1>3, AdvanceFits DEF FitInv, Typed

LEMMA RetryFits ==
    ASSUME FitInv, NEW s \in Step, RetrySubtask(s)
    PROVE  FitInv'
  <1> DEFINE R == Reach(edges, s)
             rws == [t \in Step |-> IF t \in R THEN FreshRow ELSE rows[t]]
  <1>1. /\ Advance(rws, count, pipes) /\ UNCHANGED <<edges, text, ed, count, made, overtaken>>
        /\ hasty' = (hasty \/ ~NoneInside)
        /\ rows[s].status \in {"failed", "skipped"}
    BY DEF RetrySubtask, MayStart
  <1>2. R \subseteq Step /\ ForwardClosed(edges, R)
    BY ReachClosed DEF FitInv, Typed, EdgeType
  <1>3. \A t \in R : Exists(t)
    <2>1. Exists(s)
      BY <1>1, RowFacts DEF Exists
    <2> QED
      BY <2>1, ReachExists DEF FitInv
  <1> HIDE DEF R
  <1>4. Same(rws)
    <2>1. \A t \in Step : Exists(t) => rows[t] \in Row
      BY DEF FitInv, Typed, AnyRow, Exists
    <2> QED
      BY <1>3, <2>1, RowFacts DEF FitInv, Typed, Same
  <1>6. ASSUME ~hasty'
        PROVE  /\ NoneInside
               /\ Sound(rws, count, pipes)
               /\ \A t \in Step : rws[t].status = "completed" => Fits(rws, count, made, overtaken, t)
    <2>1. AllFit /\ NoneInside
      BY <1>1, <1>6 DEF FitInv
    <2>2. \A t \in Step : ~InDoubt(t)
      BY <2>1 DEF NoneInside, At, Busy, InDoubt, Doubts, Idle
    <2>3. \A t \in Step : rws[t].status # "pending" => t \notin R /\ rws[t] = rows[t]
      BY RowFacts
    (* What does not come after s is given what it was.                    *)
    <2>4. \A t \in Step : t \notin R =>
             /\ Inputs(rows, count, t) = Inputs(rws, count, t)
             /\ Waits(rows, edges, t) = Waits(rws, edges, t)
      <3> SUFFICES ASSUME NEW t \in Step, t \notin R
                   PROVE  /\ Inputs(rows, count, t) = Inputs(rws, count, t)
                          /\ Waits(rows, edges, t) = Waits(rws, edges, t)
        OBVIOUS
      <3>1. \A e \in Incoming(edges, t) : rows[e.from] = rws[e.from]
        BY <1>2 DEF Incoming, ForwardClosed, FitInv, Typed, EdgeType
      <3> QED
        BY <3>1, SameInputs
    <2>5. \A i \in InputsOf : Left(rws, i) = Left(rows, i)
      <3>1. \A t \in Step : rows[t] \notin {Unborn, Deleted} <=> rws[t] \notin {Unborn, Deleted}
        BY <1>4, SameExists DEF FitInv, Typed, Exists
      <3> QED
        BY <3>1 DEF Left, InputsOf, EdgeType
    <2>6. ASSUME NEW p \in pipes, rws[p.step].status = "in_progress",
                 p.attempt = attempts[p.step]
          PROVE  p.of = Inputs(rws, count, p.step)
      <3>1. p.step \in Step
        BY DEF FitInv, Typed
      <3>2. p.step \notin R /\ rows[p.step].status = "in_progress"
        BY <2>3, <2>6, <3>1
      <3>3. p.of = Inputs(rows, count, p.step)
        BY <2>1, <2>6, <3>2 DEF AllFit, Sound
      <3> QED
        BY <2>4, <3>1, <3>2, <3>3
    <2>7. \A t \in Step : rws[t].status = "in_progress" => ~Waits(rws, edges, t)
      BY <2>1, <2>3, <2>4 DEF AllFit, Sound
    <2>8. ASSUME NEW t \in Step, rws[t].status = "completed"
          PROVE  Fits(rws, count, made, overtaken, t)
      <3>1. t \notin R /\ rows[t].status = "completed"
        BY <2>3, <2>8
      <3>2. Fits(rows, count, made, overtaken, t) /\ made[t] \in InputsOf
        BY <2>1, <2>2, <3>1 DEF AllFit, Completed, FitInv, Typed
      <3> QED
        BY <2>4, <2>5, <3>1, <3>2 DEF Fits
    <2> QED
      BY <2>1, <2>6, <2>7, <2>8 DEF Sound
  <1> HIDE DEF rws
  <1> QED
    BY <1>1, <1>4, <1>6, AdvanceFits DEF FitInv, Typed

LEMMA CancelFits ==
    ASSUME FitInv, CancelRun
    PROVE  FitInv'
  <1>1. /\ going /\ going' = FALSE
        /\ UNCHANGED <<edges, text, attempts, pipes, made, count, ed, hasty, overtaken>>
        /\ rows' = [s \in Step |-> IF rows[s].status = "in_progress"
                                   THEN [rows[s] EXCEPT !.status = "failed"] ELSE rows[s]]
    BY DEF CancelRun
  <1>2. \A s \in Step : rows[s] \in AnyRow
    BY DEF FitInv, Typed
  <1>3. \A s \in Step :
          /\ rows[s].status = "in_progress" => /\ rows[s] \in Row /\ rows'[s] \in Row
                                               /\ rows'[s].status = "failed"
          /\ rows[s].status # "in_progress" => rows'[s] = rows[s]
    <2> SUFFICES ASSUME NEW s \in Step, rows[s].status = "in_progress"
                 PROVE  rows[s] \in Row /\ rows'[s] \in Row /\ rows'[s].status = "failed"
      BY <1>1
    <2>1. rows'[s] = WithStatus(rows[s], "failed")
      BY <1>1 DEF WithStatus
    <2>2. rows[s] \in Row
      BY <1>2, RowFacts DEF Status
    <2>3. "failed" \in Status /\ NoOutcome \in Outcome \cup {NoOutcome} /\ rows[s] \in AnyRow
      BY <1>2 DEF Status
    <2>4. WithStatus(rows[s], "failed") \in Row /\ WithStatus(rows[s], "failed").status = "failed"
      BY <2>3, NewStatus
    <2> QED
      BY <2>1, <2>2, <2>4
  <1>4. Same(rows')
    <2>1. rows' \in [Step -> AnyRow]
      BY <1>1, <1>2, <1>3, RowFacts
    <2>2. \A s \in Step : rows[s].status = "in_progress" => Exists(s)
      BY <1>3, RowFacts DEF Exists
    <2>3. \A s \in Step : Exists(s) => rows[s] \in Row
      BY <1>2 DEF AnyRow, Exists
    <2> QED
      BY <1>3, <2>1, <2>2, <2>3 DEF Same
  <1>a. \A p \in pipes : Known(rows', p.of)
    <2>1. \A s \in Step : rows[s] # Unborn => rows'[s] # Unborn
      BY <1>4, SameExists DEF FitInv, Typed
    <2>2. \A i \in InputsOf : Known(rows, i) => Known(rows', i)
      BY <2>1 DEF Known, InputsOf, EdgeType
    <2> QED
      BY <2>2 DEF FitInv, Typed
  <1>5. hasty \/ NoneInside
    BY <1>1 DEF FitInv, EditsHold
  <1>6. Typed' /\ EditsHold'
    BY <1>1, <1>4, <1>5, <1>a, RunTyped DEF FitInv, Typed
  <1> SUFFICES ASSUME ~hasty PROVE AllFit'
    BY <1>1, <1>6 DEF FitInv
  <1>7. AllFit /\ \A y \in Editor : ed'[y].at # "reset"
    BY <1>1, <1>5 DEF FitInv, NoneInside, At, Busy, Idle
  <1>8. \A t \in Step : rows'[t].status # "in_progress"
    BY <1>3
  <1>9. ASSUME NEW t \in Step, Completed(t)'
        PROVE  Fits(rows, count, made, overtaken, t)'
    <2>1. Completed(t)
      BY <1>3, <1>9 DEF Completed
    <2>2. ~InDoubt(t)
      BY <1>5 DEF NoneInside, At, Busy, InDoubt, Doubts, Idle
    <2>3. Fits(rows, count, made, overtaken, t)
      BY <1>7, <2>1, <2>2 DEF AllFit
    <2>4. \A e \in Incoming(edges, t) : rows[e.from] = rows'[e.from]
      BY <1>3, <2>3 DEF Fits, Waits, Incoming, IsTerminal, FitInv, Typed, EdgeType
    <2>5. /\ Inputs(rows, count, t) = Inputs(rows', count, t)
          /\ Waits(rows, edges, t) = Waits(rows', edges, t)
      BY <2>4, SameInputs
    <2>6. Left(rows', made[t]) = Left(rows, made[t])
      <3>1. \A s \in Step : rows[s] \notin {Unborn, Deleted} <=> rows'[s] \notin {Unborn, Deleted}
        BY <1>4, SameExists DEF FitInv, Typed, Exists
      <3>2. \A g \in made[t].given : g[1].from \in Step
        BY DEF FitInv, Typed, InputsOf, EdgeType
      <3> QED
        BY <3>1, <3>2 DEF Left
    <2>7. Fits(rows', count, made, overtaken, t)
      BY <2>3, <2>5, <2>6 DEF Fits
    <2> QED
      BY <1>1, <2>7 DEF Fits, Inputs
  <1>10. \A p \in pipes : p.step \in Step
    BY DEF FitInv, Typed
  <1> QED
    BY <1>1, <1>7, <1>8, <1>9, <1>10 DEF AllFit, Sound

LEMMA PipeFits ==
    ASSUME FitInv, NEW p \in pipes, NEW status \in {"completed", "failed"},
           NEW result \in Outcome \cup {NoOutcome}, PipeEnds(p, status, result)
    PROVE  FitInv'
  <1> DEFINE s == p.step
             counts == rows[s].status = "in_progress" /\ going
             done == counts /\ status = "completed"
             cnt == [count EXCEPT ![s] = IF done THEN @ + 1 ELSE @]
             mde == [made EXCEPT ![s] = IF done THEN p.of ELSE @]
             over == IF ~done THEN overtaken
                     ELSE IF p.attempt = attempts[s] THEN overtaken \ {s}
                     ELSE overtaken \cup {s}
             row == WithEnd(rows[s], status, result)
             rws == [rows EXCEPT ![s].status = status, ![s].result = result]
  <1>0. /\ s \in Step /\ p.of \in InputsOf /\ Known(rows, p.of)
        /\ rows \in [Step -> AnyRow] /\ count \in [Step -> Nat] /\ made \in [Step -> InputsOf]
        /\ edges \in SUBSET EdgeType /\ text \in [Step -> Nat]
        /\ \A t \in Step : Known(rows, made[t])
    BY DEF FitInv, Typed
  <1>1. /\ UNCHANGED <<edges, text, ed, hasty>> /\ count' = cnt /\ made' = mde
        /\ overtaken' = over
    BY DEF PipeEnds
  <1>2. CASE ~counts
    <2>1. UNCHANGED <<rows, going, attempts>> /\ pipes' = pipes \ {p}
      BY <1>2 DEF PipeEnds
    <2>2. UNCHANGED <<count, made, overtaken>>
      BY <1>0, <1>1, <1>2
    <2>3. AllFit => AllFit'
      <3>1. Sound(rows, count, pipes) => Sound(rows, count, pipes)'
        BY <1>1, <2>1, <2>2 DEF Sound, Inputs
      <3>2. \A t \in Step : Completed(t)' = Completed(t)
        BY <2>1 DEF Completed
      <3>3. \A t \in Step : InDoubt(t)' = InDoubt(t)
        BY <1>1 DEF InDoubt, Doubts
      <3>4. \A t \in Step : Inputs(rows, count, t)' = Inputs(rows, count, t)
        <4> SUFFICES ASSUME NEW t \in Step
                     PROVE  Inputs(rows, count, t)' = Inputs(rows, count, t)
          OBVIOUS
        <4>1. rows' = rows /\ count' = count /\ edges' = edges /\ text' = text
          BY <1>1, <2>1, <2>2
        <4> QED
          BY ONLY <4>1 DEF Inputs, Incoming
      <3>5. \A t \in Step : Fits(rows, count, made, overtaken, t)
                            => Fits(rows, count, made, overtaken, t)'
        BY <1>1, <2>1, <2>2, <3>4 DEF Fits
      <3> QED
        BY <1>0, <1>1, <2>1, <3>1, <3>2, <3>3, <3>5 DEF AllFit, EdgeType
    <2>4. Typed'
      BY <1>1, <2>1, <2>2 DEF FitInv, Typed
    <2>5. EditsHold'
      BY <1>1, <2>1, <2>2
      DEF FitInv, EditsHold, Exists, NoneInside, At, OneCreates, Busy, Holds, Completed
    <2> QED
      BY <1>1, <2>3, <2>4, <2>5 DEF FitInv
  <1>3. CASE counts
    <2>1. Advance(rws, cnt, pipes \ {p})
      BY <1>3 DEF PipeEnds
    <2>2. rws = [rows EXCEPT ![s] = row]
      BY <1>0 DEF WithEnd
    <2>3. row \in Row /\ row.status = status /\ rows[s] \in Row
      <3>1. rows[s] \in AnyRow /\ status \in Status /\ "in_progress" \in Status
        BY <1>0 DEF Status
      <3>2. row \in Row /\ row.status = status
        BY <3>1, NewStatus
      <3>3. rows[s] \in Row
        BY <1>3, <3>1, RowFacts
      <3> QED
        BY <3>2, <3>3
    <2>4. cnt \in [Step -> Nat] /\ mde \in [Step -> InputsOf]
      BY <1>0
    <2>5. \A t \in Step : Known(rows, mde[t])
      BY <1>0
    <2>6. \A t \in Step : t # s => cnt[t] = count[t] /\ mde[t] = made[t]
      BY <1>0
    <2>7. status = "completed" => mde[s] = p.of /\ (s \in over \/ p.attempt = attempts[s])
      BY <1>0, <1>3
    <2>a. \A t \in Step : t # s /\ t \in overtaken => t \in over
      OBVIOUS
    <2> HIDE DEF row, rws, cnt, mde, over
    <2>8. rws[s] = row /\ \A t \in Step : t # s => rws[t] = rows[t]
      BY <1>0, <2>2
    <2>9. Same(rws)
      <3>1. \A t \in Step : Exists(t) => rows[t] \in Row
        BY <1>0 DEF AnyRow, Exists
      <3>2. rws \in [Step -> AnyRow] /\ Exists(s)
        BY <1>0, <2>2, <2>3, RowFacts DEF Exists
      <3> QED
        BY <2>3, <2>8, <3>1, <3>2 DEF Same
    <2>10. hasty \/ NoneInside
      BY <1>3 DEF FitInv, EditsHold
    <2>11. ASSUME ~hasty
           PROVE  /\ NoneInside
                  /\ Sound(rws, cnt, pipes \ {p})
                  /\ \A t \in Step : rws[t].status = "completed" => Fits(rws, cnt, mde, over, t)
      <3>1. AllFit /\ \A t \in Step : ~InDoubt(t)
        BY <2>10, <2>11 DEF FitInv, NoneInside, At, Busy, InDoubt, Doubts, Idle
      (* The step that ends is not one that anything started waited for.   *)
      <3>2. ASSUME NEW t \in Step, ~Waits(rows, edges, t)
            PROVE  Inputs(rws, cnt, t) = Inputs(rows, count, t) /\ ~Waits(rws, edges, t)
        <4>1. \A e \in Incoming(edges, t) : e.from \in Step /\ e.from # s
          BY <1>0, <1>3, <3>2 DEF Waits, Incoming, IsTerminal, EdgeType
        <4>2. \A e \in Incoming(edges, t) : rows[e.from] = rws[e.from]
                                            /\ count[e.from] = cnt[e.from]
          BY <2>6, <2>8, <4>1
        <4> QED
          BY <3>2, <4>2, SameInputs
      <3>3. \A t \in Step : rows[t].status = "in_progress" => ~Waits(rows, edges, t)
        BY <3>1 DEF AllFit, Sound
      <3>4. \A t \in Step : rws[t].status = "in_progress" => ~Waits(rws, edges, t)
        BY <2>3, <2>8, <3>2, <3>3
      <3>5. \A q \in pipes : /\ q.step \in Step
                             /\ rows[q.step].status = "in_progress" /\ q.attempt = attempts[q.step]
                                => q.of = Inputs(rows, count, q.step)
        BY <3>1 DEF AllFit, Sound, FitInv, Typed
      <3>6. ASSUME NEW q \in pipes \ {p}, rws[q.step].status = "in_progress",
                   q.attempt = attempts[q.step]
            PROVE  q.of = Inputs(rws, cnt, q.step)
        <4>1. q.step # s
          BY <2>3, <2>8, <3>6
        <4> QED
          BY <2>8, <3>2, <3>3, <3>5, <3>6, <4>1
      <3>7. \A t \in Step : Exists(t) <=> rws[t] \notin {Unborn, Deleted}
        BY <1>0, <2>9, SameExists
      <3>8. ASSUME NEW t \in Step, rws[t].status = "completed"
            PROVE  Fits(rws, cnt, mde, over, t)
        <4>1. CASE t = s
          <5> DEFINE I == Inputs(rows, count, s)
          <5>1. s \in over \/ mde[s] = I
            BY <1>3, <2>3, <2>7, <2>8, <3>5, <3>8, <4>1
          <5>2. Inputs(rws, cnt, s) = I /\ ~Waits(rws, edges, s)
            BY <1>0, <1>3, <3>2, <3>3
          <5>3. I \in InputsOf /\ \A g \in I.given : rows[g[1].from].status = "completed"
            BY <1>0, InputsGiven
          <5> HIDE DEF I
          <5>4. \A g \in I.given : rws[g[1].from] \notin {Unborn, Deleted}
            <6>1. \A g \in I.given : g[1].from \in Step
              BY <5>3 DEF InputsOf, EdgeType
            <6>2. \A g \in I.given : Exists(g[1].from)
              BY <5>3, RowFacts DEF Exists
            <6> QED
              BY <3>7, <6>1, <6>2
          <5>5. Left(rws, I) = I
            BY <5>3, <5>4 DEF Left, InputsOf
          <5> QED
            BY <4>1, <5>1, <5>2, <5>5 DEF Fits
        <4>2. CASE t # s
          <5>1. Fits(rows, count, made, overtaken, t) /\ made[t] \in InputsOf /\ mde[t] = made[t]
            BY <1>0, <2>6, <2>8, <3>1, <3>8, <4>2 DEF AllFit, Completed
          <5>2. \A g \in made[t].given : g[1].from \in Step
            BY <5>1 DEF InputsOf, EdgeType
          <5>3. Left(rws, made[t]) = Left(rows, made[t])
            BY <3>7, <5>2 DEF Left, Exists
          <5> QED
            BY <2>a, <3>2, <4>2, <5>1, <5>3 DEF Fits
        <4> QED
          BY <4>1, <4>2
      <3> QED
        BY <2>10, <2>11, <3>4, <3>6, <3>8 DEF Sound
    <2> QED
      BY <1>1, <2>1, <2>4, <2>5, <2>9, <2>11, AdvanceFits DEF FitInv
  <1> QED
    BY <1>2, <1>3

LEMMA RunFits ==
    ASSUME FitInv, RunNext
    PROVE  FitInv'
  <1>1. AgentSays \subseteq Outcome \cup {NoOutcome} /\ NoOutcome \in Outcome \cup {NoOutcome}
    BY EditingAssumption
  <1>2. CASE \E p \in pipes : \/ \E r \in AgentSays : PipeEnds(p, "completed", r)
                              \/ PipeEnds(p, "failed", NoOutcome)
    BY <1>1, <1>2, PipeFits
  <1> QED
    BY <1>2, StartFits, RetryFits, CancelFits DEF RunNext

LEMMA InitFits == Init => FitInv
  <1> SUFFICES ASSUME Init PROVE FitInv
    OBVIOUS
  <1>1. /\ edges \in SUBSET EdgeType
        /\ \A e \in edges : e.from \in Step /\ e.to \in Step /\ {e.from, e.to} \subseteq Born
    BY EditingAssumption DEF Init, EdgeType
  <1>2. rows \in [Step -> AnyRow] /\ \A s \in Step : rows[s].status \in {"pending", "unborn"}
    BY RowFacts DEF Init, AnyRow
  <1>3. made \in [Step -> InputsOf] /\ \A s \in Step : made[s].given = {}
    BY DEF Init, InputsOf
  <1>4. \A x \in Editor : ed[x] = Idle /\ ed[x].at = "idle" /\ ~Busy(x)
    BY DEF Init, Idle, Busy
  <1>5. Typed
    BY <1>1, <1>2, <1>3 DEF Init, Typed, Known, EdState
  <1>6. \A s \in Born : Exists(s)
    BY RowFacts, EditingAssumption DEF Init, Exists
  <1>7. EditsHold
    BY <1>1, <1>4, <1>6 DEF Init, EditsHold, OneCreates, NoneInside, At
  <1>8. AllFit
    BY <1>2, <1>4 DEF Init, AllFit, Sound, Completed
  <1> QED
    BY <1>5, <1>7, <1>8 DEF FitInv

-----------------------------------------------------------------------------
(* Edits                                                                   *)

(* What a step of x's edit may do to the others' edits, and to x's own.    *)
Steps(x) ==
    /\ edges' \in SUBSET EdgeType /\ text' \in [Step -> Nat]
    /\ rows' \in [Step -> AnyRow] /\ ed' \in [Editor -> EdState]
    /\ \A s \in Step : rows[s] # Unborn => rows'[s] # Unborn
    /\ \A e \in edges' : Exists(e.from)' /\ Exists(e.to)'
    /\ \A t \in Step : Completed(t)' => Completed(t)
    /\ \A y \in Editor : y # x => \/ ed'[y] = ed[y]
                                  \/ ed'[y] = Idle /\ ed[y].at \in {"guard", "write"}
    /\ \A y \in Editor : y # x =>
          /\ Busy(y)' /\ ed[y].op.kind = "relink" /\ ed[y].at \in {"guard", "write"}
             => \A d \in edges : SamePair(d, ed[y].op.edge)
                                 => \E e \in edges' : SamePair(e, d)
          /\ Busy(y)' /\ ed[y].op.kind = "create" /\ ed[y].at \in {"guard", "check", "write"}
             => rows'[ed[y].op.step] = rows[ed[y].op.step]
    /\ Busy(x)' => /\ Holds(x)'
                   /\ going => hasty \/ ed'[x].at = "guard"
                   /\ \/ Busy(x) /\ ed'[x].op = ed[x].op
                      \/ ed'[x].op.kind = "create" =>
                            ~\E y \in Editor : /\ Busy(y) /\ ed[y].op.kind = "create"
                                               /\ ed[y].op.step = ed'[x].op.step

LEMMA StepsHold ==
    ASSUME FitInv, UNCHANGED engineVars, NEW x \in Editor, Steps(x)
    PROVE  Typed' /\ EditsHold'
  <1>1. Typed'
    <2>1. \A i \in InputsOf : Known(rows, i) => Known(rows', i)
      BY DEF Known, InputsOf, EdgeType, Steps
    <2> QED
      BY <2>1 DEF FitInv, Typed, Steps, engineVars
  <1>2. \A y \in Editor : y # x /\ Busy(y)' =>
           Busy(y) /\ ed'[y] = ed[y] /\ Holds(y) /\ ed[y].op \in Edit
    BY DEF Steps, Busy, FitInv, EditsHold, Typed, EdState
  <1>3. going' => hasty' \/ NoneInside'
    BY <1>2 DEF NoneInside, At, Steps, FitInv, EditsHold, engineVars, Busy
  <1>4. OneCreates'
    <2> SUFFICES ASSUME NEW v \in Editor, NEW w \in Editor, v # w,
                        Busy(v)', ed'[v].op.kind = "create",
                        Busy(w)', ed'[w].op.kind = "create",
                        ed'[v].op.step = ed'[w].op.step
                 PROVE  FALSE
      BY DEF OneCreates, Busy
    <2>1. OneCreates
      BY DEF FitInv, EditsHold
    <2>2. CASE v # x /\ w # x
      BY <1>2, <2>1, <2>2 DEF OneCreates
    <2>3. CASE v = x
      BY <1>2, <2>1, <2>3 DEF OneCreates, Steps
    <2>4. CASE w = x
      BY <1>2, <2>1, <2>4 DEF OneCreates, Steps
    <2> QED
      BY <2>2, <2>3, <2>4
  <1>5. ASSUME NEW y \in Editor, Busy(y)', y # x PROVE Holds(y)'
    <2> DEFINE op == ed[y].op
    <2>1. Busy(y) /\ ed'[y] = ed[y] /\ Holds(y) /\ op \in Edit
      BY <1>2, <1>5
    <2>2. op.kind \in {"create", "delete", "rewrite"} => op.step \in Step
      BY <2>1 DEF Edit
    <2>3. op.kind = "relink" /\ ed[y].at \in {"guard", "write"}
             => \E e \in edges' : SamePair(e, op.edge)
      <3> SUFFICES ASSUME op.kind = "relink", ed[y].at \in {"guard", "write"}
                   PROVE  \E e \in edges' : SamePair(e, op.edge)
        OBVIOUS
      <3>1. PICK d \in edges : SamePair(d, op.edge)
        BY <2>1 DEF Holds
      <3>2. PICK e \in edges' : SamePair(e, d)
        BY <1>5, <3>1 DEF Steps
      <3> QED
        BY <3>1, <3>2 DEF SamePair
    <2>4. op.kind = "create" /\ ed[y].at \in {"guard", "check", "write"}
             => rows'[op.step] = Unborn
      BY <1>5, <2>1 DEF Steps, Holds
    <2>5. op.kind = "delete" => rows'[op.step] # Unborn
      BY <2>1, <2>2 DEF Steps, Holds
    <2>6. /\ op.kind = "rewrite" /\ ed[y].at = "write" => hasty \/ ~Completed(op.step)'
          /\ op.kind = "rewrite" /\ ed[y].at = "reset"
                => hasty \/ op.step \in ed[y].reset \/ ~Completed(op.step)'
          /\ ed[y].at = "connect" => op.kind = "create" /\ (hasty \/ ~Completed(op.step)')
      BY <2>1, <2>2 DEF Steps, Holds
    <2>7. hasty' = hasty
      BY DEF engineVars
    <2> QED
      BY <2>1, <2>3, <2>4, <2>5, <2>6, <2>7 DEF Holds, Completed
  <1> QED
    BY <1>1, <1>3, <1>4, <1>5 DEF EditsHold, Steps

(* What it must do for results still to fit: leave in doubt what was, and  *)
(* put in doubt what it changes the inputs of.                             *)
Cares(x) ==
    /\ going => UNCHANGED <<edges, rows, text>>
    /\ \A t \in Step : rows'[t].status = "in_progress" => rows[t].status = "in_progress"
    /\ \A t \in Step : Completed(t)' /\ Doubts(x, t) => Doubts(x, t)'
    /\ \A t \in Step : Completed(t)' /\ Fits(rows, count, made, overtaken, t)
                       => Fits(rows, count, made, overtaken, t)' \/ InDoubt(t)'
    /\ \A y \in Editor : ed'[y].at = "reset" =>
          \A e \in edges' : e.from \in ed'[y].reset /\ Completed(e.to)' =>
              \/ InDoubt(e.to)'
              \/ e \in edges /\ ed[y].at = "reset" /\ e.from \in ed[y].reset

LEMMA StillInDoubt ==
    ASSUME FitInv, NEW x \in Editor, Steps(x), NEW t \in Step, InDoubt(t),
           Doubts(x, t) => Doubts(x, t)'
    PROVE  InDoubt(t)'
  <1>1. PICK z \in Editor : Doubts(z, t)
    BY DEF InDoubt
  <1>2. z # x => ed'[z] = ed[z]
    BY <1>1 DEF Steps, Doubts
  <1>3. Doubts(z, t)'
    BY <1>1, <1>2 DEF Doubts
  <1> QED
    BY <1>3 DEF InDoubt

LEMMA EditStepFits ==
    ASSUME FitInv, UNCHANGED engineVars, NEW x \in Editor, Steps(x),
           ~hasty => Cares(x)
    PROVE  FitInv'
  <1>1. Typed' /\ EditsHold'
    BY StepsHold
  <1>2. UNCHANGED <<going, attempts, pipes, made, count, hasty, overtaken>>
    BY DEF engineVars
  <1> SUFFICES ASSUME ~hasty PROVE AllFit'
    BY <1>1, <1>2 DEF FitInv
  <1>3. AllFit /\ Cares(x)
    BY DEF FitInv
  <1>4. CASE going
    <2>1. UNCHANGED <<edges, rows, text>>
      BY <1>3, <1>4 DEF Cares
    <2>2. Sound(rows, count, pipes)'
      BY <1>2, <1>3, <2>1 DEF AllFit, Sound, Inputs
    <2>3. \A t \in Step : ~InDoubt(t)
      BY <1>4 DEF FitInv, EditsHold, NoneInside, At, Busy, InDoubt, Doubts, Idle
    <2>4. \A t \in Step : Completed(t)' => Fits(rows, count, made, overtaken, t)'
      <3>1. \A t \in Step : Completed(t) => Fits(rows, count, made, overtaken, t)
        BY <1>3, <2>3 DEF AllFit
      <3> QED
        BY <1>2, <2>1, <3>1 DEF Completed, Fits, Inputs
    <2>5. \A y \in Editor : ed'[y].at # "reset"
      BY <1>1, <1>2, <1>4 DEF EditsHold, NoneInside, At, Busy, Idle
    <2> QED
      BY <1>2, <1>4, <2>2, <2>4, <2>5 DEF AllFit
  <1>5. CASE ~going
    <2>1. \A t \in Step : rows'[t].status # "in_progress"
      BY <1>3, <1>5 DEF AllFit, Cares
    <2>2. Sound(rows, count, pipes)'
      <3>1. \A p \in pipes' : p.step \in Step
        BY <1>1 DEF Typed
      <3> QED
        BY <2>1, <3>1 DEF Sound
    <2>3. \A t \in Step : Completed(t)' /\ InDoubt(t) => InDoubt(t)'
      BY <1>3, StillInDoubt DEF Cares
    <2>4. \A t \in Step : Completed(t)' => Fits(rows, count, made, overtaken, t)' \/ InDoubt(t)'
      <3> SUFFICES ASSUME NEW t \in Step, Completed(t)'
                   PROVE  Fits(rows, count, made, overtaken, t)' \/ InDoubt(t)'
        OBVIOUS
      <3>1. Completed(t)
        BY DEF Steps
      <3>2. Fits(rows, count, made, overtaken, t) \/ InDoubt(t)
        BY <1>3, <3>1 DEF AllFit
      <3> QED
        BY <1>3, <2>3, <3>2 DEF Cares
    <2>5. ASSUME NEW y \in Editor, ed'[y].at = "reset", NEW e \in edges',
                 e.from \in ed'[y].reset, Completed(e.to)'
          PROVE  InDoubt(e.to)'
      <3>1. e.to \in Step
        BY DEF Steps, EdgeType
      <3>2. Completed(e.to)
        BY <2>5, <3>1 DEF Steps
      <3>3. CASE e \in edges /\ ed[y].at = "reset" /\ e.from \in ed[y].reset
        BY <1>3, <2>3, <2>5, <3>1, <3>2, <3>3 DEF AllFit
      <3> QED
        BY <1>3, <2>5, <3>3 DEF Cares
    <2> QED
      BY <1>2, <1>5, <2>1, <2>2, <2>4, <2>5 DEF AllFit
  <1> QED
    BY <1>4, <1>5

(* Steps of an edit that only look.                                        *)
LEMMA LookFits ==
    ASSUME FitInv, UNCHANGED <<edges, rows, text, engineVars>>, NEW x \in Editor,
           NEW v \in EdState, ed' = [ed EXCEPT ![x] = v],
           v # Idle => /\ Holds(x)'
                       /\ going => hasty \/ v.at = "guard"
                       /\ \/ Busy(x) /\ v.op = ed[x].op
                          \/ v.op.kind = "create" =>
                                ~\E y \in Editor : /\ Busy(y) /\ ed[y].op.kind = "create"
                                                   /\ ed[y].op.step = v.op.step,
           ~hasty => \A t \in Step : Completed(t) /\ Doubts(x, t) => Doubts(x, t)',
           ~hasty /\ v.at = "reset" =>
              \A e \in edges : e.from \in v.reset /\ Completed(e.to) =>
                 \/ Doubts(x, e.to)'
                 \/ ed[x].at = "reset" /\ e.from \in ed[x].reset
    PROVE  FitInv'
  <1>1. /\ ed' \in [Editor -> EdState] /\ ed'[x] = v
        /\ \A y \in Editor : y # x => ed'[y] = ed[y]
    BY DEF FitInv, Typed
  <1>2. edges \in SUBSET EdgeType /\ rows \in [Step -> AnyRow] /\ text \in [Step -> Nat]
    BY DEF FitInv, Typed
  <1>3. \A e \in edges : Exists(e.from)' /\ Exists(e.to)'
    BY DEF FitInv, EditsHold, Exists
  <1>4. /\ \A y \in Editor : y # x =>
             /\ Busy(y)' /\ ed[y].op.kind = "relink" /\ ed[y].at \in {"guard", "write"}
                => \A d \in edges : SamePair(d, ed[y].op.edge)
                                    => \E e \in edges' : SamePair(e, d)
             /\ Busy(y)' /\ ed[y].op.kind = "create" /\ ed[y].at \in {"guard", "check", "write"}
                => rows'[ed[y].op.step] = rows[ed[y].op.step]
    BY DEF SamePair
  <1>5. Steps(x)
    BY <1>1, <1>2, <1>3, <1>4 DEF Steps, Busy, Completed
  <1>6. ASSUME ~hasty PROVE Cares(x)
    <2>1. \A t \in Step : Fits(rows, count, made, overtaken, t)' = Fits(rows, count, made, overtaken, t)
      BY DEF Fits, Inputs, engineVars
    <2>2. ASSUME NEW y \in Editor, ed'[y].at = "reset", NEW e \in edges',
                 e.from \in ed'[y].reset, Completed(e.to)'
          PROVE  \/ InDoubt(e.to)'
                 \/ e \in edges /\ ed[y].at = "reset" /\ e.from \in ed[y].reset
      BY <1>1, <1>6, <2>2 DEF InDoubt, Completed
    <2>3. \A t \in Step : Completed(t)' = Completed(t)
      BY DEF Completed
    <2> QED
      BY <1>6, <2>1, <2>2, <2>3 DEF Cares
  <1> QED
    BY <1>5, <1>6, EditStepFits

(* What is known of an edit.                                               *)
LEMMA EditTyped ==
    ASSUME FitInv, NEW x \in Editor, Busy(x)
    PROVE  /\ ed[x].op \in Edit /\ ed[x].reset \subseteq Step /\ Holds(x) /\ ed[x] \in EdState
           /\ ed[x].op.kind \in {"link", "relink", "unlink", "rewrite", "create", "delete"}
           /\ ed[x].op.kind \in {"link", "relink", "unlink"} =>
                 /\ ed[x].op.edge \in EdgeType
                 /\ ed[x].op.edge.from \in Step /\ ed[x].op.edge.to \in Step
                 /\ ed[x].op.edge.from # ed[x].op.edge.to
           /\ ed[x].op.kind \in {"rewrite", "create", "delete"} => ed[x].op.step \in Step
           /\ ed[x].op.kind = "create" => /\ ed[x].op.after \in SUBSET Step
                                          /\ ed[x].op.step \notin ed[x].op.after
           /\ going => hasty \/ ed[x].at = "guard"
  <1>1. /\ ed[x].op \in Edit /\ ed[x].reset \subseteq Step /\ Holds(x) /\ ed[x] \in EdState
        /\ going => hasty \/ ed[x].at = "guard"
    BY DEF FitInv, Typed, EditsHold, EdState, Busy, NoneInside, At
  <1>2. \A e \in Links : e \in EdgeType /\ e.from \in Step /\ e.to \in Step /\ e.from # e.to
    BY EditingAssumption DEF EdgeType
  <1>3. ed[x].op.kind \in {"link", "relink", "unlink", "rewrite", "create", "delete"}
    BY <1>1 DEF Edit
  <1>4. ed[x].op.kind \in {"link", "relink", "unlink"} => ed[x].op.edge \in Links
    BY <1>1 DEF Edit
  <1>5. ed[x].op.kind \in {"rewrite", "create", "delete"} => ed[x].op.step \in Step
    BY <1>1 DEF Edit
  <1>6. ed[x].op.kind = "create" => /\ ed[x].op.after \in SUBSET Step
                                    /\ ed[x].op.step \notin ed[x].op.after
    BY <1>1 DEF Edit
  <1> QED
    BY <1>1, <1>2, <1>3, <1>4, <1>5, <1>6

(* The stage that follows.                                                 *)
LEMMA DoneNext ==
    ASSUME FitInv, NEW x \in Editor, Busy(x), NEW next,
           After(ed[x].op.kind, ed[x].at) = next,
           next \in {"check", "write", "find", "read", "reset", "connect", "idle"}
    PROVE  /\ next = "idle" => Done(x) = Idle
           /\ next # "idle" => Done(x) = [at |-> next, op |-> ed[x].op, reset |-> ed[x].reset]
           /\ Done(x) \in EdState
  <1>1. ed[x] \in [at : {"guard", "check", "write", "find", "read", "reset", "connect"},
                   op : Edit, reset : SUBSET Step]
    BY DEF FitInv, Typed, EdState, Busy
  <1>2. Done(x) = IF next = "idle" THEN Idle ELSE [ed[x] EXCEPT !.at = next]
    BY DEF Done
  <1>3. [ed[x] EXCEPT !.at = next] = [at |-> next, op |-> ed[x].op, reset |-> ed[x].reset]
    BY <1>1
  <1> QED
    BY <1>1, <1>2, <1>3 DEF EdState

LEMMA BeginFits ==
    ASSUME FitInv, NEW x \in Editor, NEW o \in Edit, Begin(x, o)
    PROVE  FitInv'
  <1> DEFINE v == [at |-> "guard", op |-> o, reset |-> {}]
  <1>1. /\ ~Busy(x) /\ Begins(o) /\ ed' = [ed EXCEPT ![x] = v]
        /\ UNCHANGED <<edges, rows, text, engineVars>>
    BY DEF Begin
  <1>2. v \in EdState /\ v.at = "guard" /\ v.op = o
    BY DEF EdState
  <1>3. ed'[x] = v
    BY <1>1 DEF FitInv, Typed
  <1>4. Holds(x)'
    <2>1. o.kind = "relink" => \E d \in edges : SamePair(d, o.edge)
      BY <1>1 DEF Begins
    <2>2. o.kind = "create" => rows[o.step] = Unborn
      BY <1>1 DEF Begins
    <2>3. o.kind = "delete" => rows[o.step] # Unborn
      BY <1>1 DEF Begins, Exists
    <2> QED
      BY <1>1, <1>2, <1>3, <2>1, <2>2, <2>3 DEF Holds
  <1>5. o.kind = "create" => ~\E y \in Editor : /\ Busy(y) /\ ed[y].op.kind = "create"
                                                /\ ed[y].op.step = o.step
    BY <1>1 DEF Begins
  <1>6. \A t \in Step : ~Doubts(x, t)
    BY <1>1 DEF Busy, Doubts, Idle
  <1> HIDE DEF v
  <1> QED
    BY <1>1, <1>2, <1>4, <1>5, <1>6, LookFits

LEMMA GuardFits ==
    ASSUME FitInv, NEW x \in Editor, Guard(x)
    PROVE  FitInv'
  <1> DEFINE v == IF going THEN Idle ELSE Done(x)
             op == ed[x].op
  <1>1. /\ ed[x].at = "guard" /\ ed' = [ed EXCEPT ![x] = v]
        /\ UNCHANGED <<edges, rows, text, engineVars>>
    BY DEF Guard, At
  <1>2. Busy(x)
    BY <1>1 DEF Busy, Idle
  <1>3. PICK next : next = After(op.kind, "guard")
    OBVIOUS
  <1>4. next = IF op.kind \in {"link", "create"} THEN "check"
               ELSE IF op.kind = "rewrite" THEN "find" ELSE "write"
    BY <1>3 DEF After
  <1>5. Done(x) \in EdState /\ Done(x) = [at |-> next, op |-> op, reset |-> ed[x].reset]
    BY <1>1, <1>2, <1>3, <1>4, DoneNext
  <1>6. Holds(x) /\ op.kind \in {"link", "relink", "unlink", "rewrite", "create", "delete"}
    BY <1>2, EditTyped
  <1>7. v \in EdState /\ (v # Idle => ~going /\ v = Done(x))
    BY <1>5 DEF EdState
  <1>8. ed'[x] = v
    BY <1>1 DEF FitInv, Typed
  <1>9. v # Idle => Holds(x)'
    <2> SUFFICES ASSUME v # Idle PROVE Holds(x)'
      OBVIOUS
    <2>1. ed'[x].at = next /\ ed'[x].op = op
      BY <1>5, <1>7, <1>8
    <2> HIDE DEF v
    <2> QED
      BY <1>1, <1>4, <1>6, <2>1 DEF Holds
  <1>10. \A t \in Step : ~Doubts(x, t)
    BY <1>1 DEF Doubts
  <1>11. v # Idle => ~going /\ v.op = ed[x].op
    BY <1>5, <1>7
  <1>12. v.at # "reset"
    BY <1>4, <1>5 DEF Idle
  <1> HIDE DEF v
  <1> QED
    BY <1>1, <1>2, <1>7, <1>9, <1>10, <1>11, <1>12, LookFits

(* An edit that looks and gives up.                                        *)
LEMMA StopFits ==
    ASSUME FitInv, NEW x \in Editor, UNCHANGED <<edges, rows, text, engineVars>>,
           ed' = [ed EXCEPT ![x] = Idle], \A t \in Step : Completed(t) => ~Doubts(x, t)
    PROVE  FitInv'
  <1>1. Idle \in EdState /\ Idle.at # "reset"
    BY DEF EdState, Idle
  <1> QED
    BY <1>1, LookFits

LEMMA CheckFits ==
    ASSUME FitInv, NEW x \in Editor, Check(x)
    PROVE  FitInv'
  <1> DEFINE op == ed[x].op
  <1>1. /\ ed[x].at = "check" /\ UNCHANGED <<edges, rows, text, engineVars>>
        /\ ed' = [ed EXCEPT ![x] = Done(x)] \/ ed' = [ed EXCEPT ![x] = Idle]
    BY DEF Check, At
  <1>2. Busy(x) /\ \A t \in Step : ~Doubts(x, t)
    BY <1>1 DEF Busy, Idle, Doubts
  <1>3. After(op.kind, "check") = "write"
    BY DEF After
  <1>4. Done(x) \in EdState /\ Done(x) = [at |-> "write", op |-> op, reset |-> ed[x].reset]
    BY <1>1, <1>2, <1>3, DoneNext
  <1>5. Holds(x) /\ op.kind \in {"link", "create"} /\ (going => hasty)
    BY <1>1, <1>2, EditTyped DEF Holds
  <1>6. CASE ed' = [ed EXCEPT ![x] = Done(x)]
    <2>1. ed'[x].at = "write" /\ ed'[x].op = op
      BY <1>4, <1>6 DEF FitInv, Typed
    <2>2. Holds(x)'
      BY <1>1, <1>5, <2>1 DEF Holds
    <2>3. Done(x).at # "reset" /\ Done(x).op = op
      BY <1>4
    <2> QED
      BY <1>1, <1>2, <1>4, <1>5, <1>6, <2>2, <2>3, LookFits
  <1>7. CASE ed' = [ed EXCEPT ![x] = Idle]
    BY <1>1, <1>2, <1>7, StopFits
  <1> QED
    BY <1>1, <1>6, <1>7

LEMMA FindFits ==
    ASSUME FitInv, NEW x \in Editor, Find(x)
    PROVE  FitInv'
  <1> DEFINE op == ed[x].op
             s == Target(op)
             v == IF Completed(s) THEN Done(x)
                  ELSE IF op.kind = "rewrite" THEN [ed[x] EXCEPT !.at = "write"]
                  ELSE Idle
  <1>1. /\ ed[x].at = "find" /\ UNCHANGED <<edges, rows, text, engineVars>>
        /\ ed' = [ed EXCEPT ![x] = v]
    BY DEF Find, At, Completed
  <1>2. Busy(x) /\ \A t \in Step : Doubts(x, t) <=> t = s
    BY <1>1 DEF Busy, Idle, Doubts
  <1>3. After(op.kind, "find") = "read"
    BY DEF After
  <1>4. Done(x) \in EdState /\ Done(x) = [at |-> "read", op |-> op, reset |-> ed[x].reset]
    BY <1>1, <1>2, <1>3, DoneNext
  <1>5. /\ Holds(x) /\ op.kind \in {"link", "relink", "unlink", "rewrite"} /\ (going => hasty)
        /\ ed[x] \in EdState
    BY <1>1, <1>2, EditTyped DEF Holds
  <1>6. CASE Completed(s)
    <2>1. ed'[x].at = "read" /\ ed'[x].op = op
      BY <1>1, <1>4, <1>6 DEF FitInv, Typed
    <2>2. Holds(x)'
      BY <1>1, <1>5, <2>1 DEF Holds
    <2>3. Done(x).at # "reset" /\ Done(x).op = op
      BY <1>4
    <2>4. \A t \in Step : Doubts(x, t) => Doubts(x, t)'
      BY <1>2, <2>1 DEF Doubts
    <2> QED
      BY <1>1, <1>2, <1>4, <1>5, <1>6, <2>2, <2>3, <2>4, LookFits
  <1>7. CASE ~Completed(s) /\ op.kind = "rewrite"
    <2> DEFINE w == [ed[x] EXCEPT !.at = "write"]
    <2>1. w \in EdState /\ w.at = "write" /\ w.op = op
      BY <1>1, <1>5 DEF EdState, Idle
    <2>2. ed' = [ed EXCEPT ![x] = w] /\ ed'[x] = w
      BY <1>1, <1>7 DEF FitInv, Typed
    <2> HIDE DEF w
    <2>3. Holds(x)'
      BY <1>1, <1>5, <1>7, <2>1, <2>2 DEF Holds, Completed, Target
    <2>4. \A t \in Step : Completed(t) => ~Doubts(x, t)
      BY <1>2, <1>7
    <2> QED
      BY <1>1, <1>2, <1>5, <2>1, <2>2, <2>3, <2>4, LookFits
  <1>8. CASE ~Completed(s) /\ op.kind # "rewrite"
    BY <1>1, <1>2, <1>8, StopFits
  <1> QED
    BY <1>6, <1>7, <1>8

LEMMA ReadFits ==
    ASSUME FitInv, NEW x \in Editor, Read(x)
    PROVE  FitInv'
  <1> DEFINE op == ed[x].op
             s == Target(op)
             S == Stale(s)
             v == [Done(x) EXCEPT !.reset = S]
  <1>1. /\ ed[x].at = "read" /\ UNCHANGED <<edges, rows, text, engineVars>>
        /\ ed' = [ed EXCEPT ![x] = v]
    BY DEF Read, At
  <1>2. Busy(x) /\ \A t \in Step : Doubts(x, t) => t = s
    BY <1>1 DEF Busy, Idle, Doubts
  <1>3. After(op.kind, "read") = "reset"
    BY DEF After
  <1>4. Done(x) \in EdState /\ Done(x) = [at |-> "reset", op |-> op, reset |-> ed[x].reset]
    BY <1>1, <1>2, <1>3, DoneNext
  <1>5. /\ Holds(x) /\ op.kind \in {"link", "relink", "unlink", "rewrite"} /\ (going => hasty)
        /\ op \in Edit
    BY <1>1, <1>2, EditTyped DEF Holds
  <1>6. s \in Step
    BY <1>1, <1>2, <1>5, EditTyped DEF Target
  (* What has ended, of the step and what comes after it.                  *)
  <1>7. /\ S = {t \in Reach(edges, s) : IsTerminal(rows[t])}
        /\ s \in Reach(edges, s) /\ S \subseteq Step /\ ForwardClosed(edges, Reach(edges, s))
    BY <1>6, ReachClosed DEF Stale, Downstream, FitInv, Typed, EdgeType
  <1> HIDE DEF S
  <1>8. v = [at |-> "reset", op |-> op, reset |-> S] /\ v \in EdState
    BY <1>4, <1>5, <1>7 DEF EdState
  <1>9. ed'[x].at = "reset" /\ ed'[x].op = op /\ ed'[x].reset = S
    BY <1>1, <1>8 DEF FitInv, Typed
  <1>10. \A t \in Step : Completed(t) /\ t \in Reach(edges, s) => t \in S
    BY <1>7 DEF Completed, IsTerminal
  <1>11. Holds(x)'
    BY <1>1, <1>5, <1>7, <1>9, <1>10, <1>6 DEF Holds, Target, Completed
  <1>12. \A t \in Step : Completed(t) /\ Doubts(x, t) => Doubts(x, t)'
    BY <1>2, <1>7, <1>9, <1>10 DEF Doubts
  <1>13. \A e \in edges : e.from \in S /\ Completed(e.to) => Doubts(x, e.to)'
    <2> SUFFICES ASSUME NEW e \in edges, e.from \in S, Completed(e.to)
                 PROVE  e.to \in S
      BY <1>9 DEF Doubts
    <2>1. e.to \in Step /\ e.to \in Reach(edges, s)
      BY <1>7 DEF ForwardClosed, FitInv, Typed, EdgeType
    <2> QED
      BY <1>10, <2>1
  <1>14. v.at = "reset" /\ v.op = op /\ v.reset = S
    BY <1>8
  <1> HIDE DEF v
  <1> QED
    BY <1>1, <1>2, <1>5, <1>8, <1>11, <1>12, <1>13, <1>14, LookFits

LEMMA ResetFits ==
    ASSUME FitInv, NEW x \in Editor, Reset(x)
    PROVE  FitInv'
  <1> DEFINE op == ed[x].op
  <1>1. /\ ed[x].at = "reset" /\ UNCHANGED <<edges, text, engineVars>>
        /\ \/ /\ ed[x].reset = {} /\ ed' = [ed EXCEPT ![x] = Done(x)] /\ UNCHANGED rows
           \/ \E s \in ed[x].reset :
                /\ rows' = IF Exists(s) THEN [rows EXCEPT ![s] = FreshRow] ELSE rows
                /\ ed' = [ed EXCEPT ![x].reset = @ \ {s}]
    BY DEF Reset, At
  <1>2. Busy(x)
    BY <1>1 DEF Busy, Idle
  <1>3. /\ Holds(x) /\ op.kind \in {"link", "relink", "unlink", "rewrite"} /\ (going => hasty)
        /\ op \in Edit /\ ed[x].reset \subseteq Step
    BY <1>1, <1>2, EditTyped DEF Holds
  <1>4. CASE ed[x].reset = {} /\ ed' = [ed EXCEPT ![x] = Done(x)] /\ UNCHANGED rows
    <2>1. \A t \in Step : ~Doubts(x, t)
      BY <1>1, <1>4 DEF Doubts
    <2>2. CASE op.kind # "rewrite"
      <3>1. After(op.kind, "reset") = "idle"
        BY <2>2 DEF After
      <3>2. Done(x) = Idle
        BY <1>1, <1>2, <3>1, DoneNext
      <3> QED
        BY <1>1, <1>4, <2>1, <3>2, StopFits
    <2>3. CASE op.kind = "rewrite"
      <3>1. After(op.kind, "reset") = "write"
        BY <2>3 DEF After
      <3>2. Done(x) \in EdState /\ Done(x) = [at |-> "write", op |-> op, reset |-> ed[x].reset]
        BY <1>1, <1>2, <3>1, DoneNext
      <3>3. ed'[x].at = "write" /\ ed'[x].op = op
        BY <1>4, <3>2 DEF FitInv, Typed
      <3>4. Holds(x)'
        BY <1>1, <1>3, <1>4, <2>3, <3>3 DEF Holds, Completed, engineVars
      <3>5. Done(x).at = "write" /\ Done(x).op = op
        BY <3>2
      <3> QED
        BY <1>1, <1>2, <1>3, <1>4, <2>1, <3>2, <3>4, <3>5, LookFits
    <2> QED
      BY <2>2, <2>3
  <1>5. ASSUME NEW s \in ed[x].reset,
               rows' = IF Exists(s) THEN [rows EXCEPT ![s] = FreshRow] ELSE rows,
               ed' = [ed EXCEPT ![x].reset = @ \ {s}]
        PROVE  FitInv'
    <2> DEFINE v == [ed[x] EXCEPT !.reset = @ \ {s}]
    <2>0. /\ edges \in SUBSET EdgeType /\ rows \in [Step -> AnyRow] /\ text \in [Step -> Nat]
          /\ ed \in [Editor -> EdState] /\ s \in Step
          /\ \A e \in edges : Exists(e.from) /\ Exists(e.to) /\ e.from \in Step /\ e.to \in Step
      BY <1>3 DEF FitInv, Typed, EditsHold, EdgeType
    <2>1. ed[x] \in [at : {"guard", "check", "write", "find", "read", "reset", "connect"},
                     op : Edit, reset : SUBSET Step]
      BY <1>2, <2>0 DEF EdState, Busy
    <2>2. v = [at |-> "reset", op |-> op, reset |-> ed[x].reset \ {s}] /\ v \in EdState
      BY <1>1, <2>1 DEF EdState
    <2>3. /\ ed'[x] = v /\ \A y \in Editor : y # x => ed'[y] = ed[y]
          /\ ed' \in [Editor -> EdState]
      <3>1. ed' = [ed EXCEPT ![x] = v]
        BY <1>5, <2>0
      <3> QED
        BY <2>0, <2>2, <3>1
    <2> HIDE DEF v
    <2>4. ed'[x].at = "reset" /\ ed'[x].op = op /\ ed'[x].reset = ed[x].reset \ {s}
      BY <2>2, <2>3
    <2>5. /\ rows' \in [Step -> AnyRow]
          /\ \A t \in Step : t # s => rows'[t] = rows[t]
          /\ Exists(s) => rows'[s] = FreshRow
          /\ ~Exists(s) => rows'[s] = rows[s]
      BY <1>5, <2>0, RowFacts
    <2>6. ~Completed(s)'
      BY <2>0, <2>5, RowFacts DEF Completed, Exists
    <2>7. \A t \in Step : Completed(t)' => Completed(t) /\ t # s
      BY <2>5, <2>6 DEF Completed
    <2>8. Same(rows')
      BY <2>0, <2>5, RowFacts DEF Same, Exists, AnyRow
    <2>9. \A t \in Step : /\ Exists(t)' <=> Exists(t)
                          /\ rows[t] # Unborn => rows'[t] # Unborn
                          /\ rows[t] = Unborn => rows'[t] = Unborn
      BY <2>0, <2>8, SameExists DEF Exists
    <2>10. Holds(x)'
      BY <1>3, <2>4, <2>6, <2>7, <1>1 DEF Holds, Edit, engineVars
    <2>11. \A y \in Editor : Busy(y) /\ ed[y].op.kind = "create"
              /\ ed[y].at \in {"guard", "check", "write"}
              => rows'[ed[y].op.step] = rows[ed[y].op.step]
      <3> SUFFICES ASSUME NEW y \in Editor, Busy(y), ed[y].op.kind = "create",
                          ed[y].at \in {"guard", "check", "write"}
                   PROVE  rows'[ed[y].op.step] = rows[ed[y].op.step]
        OBVIOUS
      <3>1. rows[ed[y].op.step] = Unborn /\ ed[y].op.step \in Step
        BY EditTyped DEF Holds
      <3> QED
        BY <2>9, <3>1
    <2>12. Steps(x)
      <3>1. edges' \in SUBSET EdgeType /\ text' \in [Step -> Nat]
        BY <1>1, <2>0
      <3>2. \A e \in edges' : Exists(e.from)' /\ Exists(e.to)'
        BY <1>1, <2>0, <2>9
      <3>3. \A y \in Editor : y # x =>
              /\ Busy(y)' /\ ed[y].op.kind = "relink" /\ ed[y].at \in {"guard", "write"}
                 => \A d \in edges : SamePair(d, ed[y].op.edge)
                                     => \E e \in edges' : SamePair(e, d)
              /\ Busy(y)' /\ ed[y].op.kind = "create" /\ ed[y].at \in {"guard", "check", "write"}
                 => rows'[ed[y].op.step] = rows[ed[y].op.step]
        BY <1>1, <2>3, <2>11 DEF SamePair, Busy
      <3> QED
        BY <1>2, <1>3, <2>3, <2>4, <2>5, <2>7, <2>9, <2>10, <3>1, <3>2, <3>3 DEF Steps
    <2>13. ASSUME ~hasty PROVE Cares(x)
      <3>1. AllFit
        BY <2>13 DEF FitInv
      <3>2. \A t \in Step : Completed(t)' /\ Doubts(x, t) => Doubts(x, t)'
        BY <1>1, <2>4, <2>7 DEF Doubts
      <3>3. ASSUME NEW t \in Step, Completed(t)', Fits(rows, count, made, overtaken, t)
            PROVE  Fits(rows, count, made, overtaken, t)' \/ InDoubt(t)'
        <4>1. CASE \E e \in Incoming(edges, t) : e.from = s
          <5>1. InDoubt(t)
            BY <1>1, <2>7, <3>1, <3>3, <4>1 DEF AllFit, Incoming
          <5> QED
            BY <2>12, <3>2, <3>3, <5>1, StillInDoubt
        <4>2. CASE ~\E e \in Incoming(edges, t) : e.from = s
          <5>1. \A e \in Incoming(edges, t) : rows[e.from] = rows'[e.from]
            BY <2>0, <2>5, <4>2 DEF Incoming
          <5>2. /\ Inputs(rows, count, t) = Inputs(rows', count, t)
                /\ Waits(rows, edges, t) = Waits(rows', edges, t)
            BY <5>1, SameInputs
          <5>3. \A g \in made[t].given : g[1].from \in Step
            BY DEF FitInv, Typed, InputsOf, EdgeType
          <5>4. Left(rows', made[t]) = Left(rows, made[t])
            BY <2>9, <5>3 DEF Left, Exists
          <5>5. Fits(rows', count, made, overtaken, t)
            BY <3>3, <5>2, <5>4 DEF Fits
          <5>6. Fits(rows, count, made, overtaken, t)'
            BY <1>1, <5>5 DEF Fits, Inputs, engineVars
          <5> QED
            BY <5>6
        <4> QED
          BY <4>1, <4>2
      <3>4. \A t \in Step : rows'[t].status = "in_progress" => rows[t].status = "in_progress"
        BY <2>5, RowFacts
      <3>5. \A y \in Editor : ed'[y].at = "reset" =>
              \A e \in edges' : e.from \in ed'[y].reset
                 => e \in edges /\ ed[y].at = "reset" /\ e.from \in ed[y].reset
        BY <1>1, <2>3, <2>4
      <3> QED
        BY <1>3, <2>13, <3>2, <3>3, <3>4, <3>5 DEF Cares
    <2> QED
      BY <1>1, <2>12, <2>13, EditStepFits
  <1> QED
    BY <1>1, <1>4, <1>5

(* A step whose incoming edges, row and instructions stay is given what it *)
(* was.                                                                    *)
LEMMA SameEdges ==
    ASSUME NEW t \in Step, Incoming(edges', t) = Incoming(edges, t),
           UNCHANGED <<rows, engineVars>>, text'[t] = text[t]
    PROVE  Fits(rows, count, made, overtaken, t)' = Fits(rows, count, made, overtaken, t)
  <1>1. Inputs(rows, count, t)' = Inputs(rows, count, t)
    BY DEF Inputs, engineVars
  <1>2. Waits(rows, edges, t)' = Waits(rows, edges, t)
    BY DEF Waits
  <1> QED
    BY <1>1, <1>2 DEF Fits, Left, engineVars

(* Edits that write edges or instructions: they leave the rows alone.      *)
LEMMA WriteFits ==
    ASSUME FitInv, NEW x \in Editor, Busy(x), ed[x].at \in {"write", "connect"},
           UNCHANGED <<rows, engineVars>>,
           edges' \in SUBSET EdgeType, text' \in [Step -> Nat],
           \A e \in edges' : Exists(e.from) /\ Exists(e.to),
           NEW H \in [Editor -> EdState], NEW v \in EdState, ed' = [H EXCEPT ![x] = v],
           \A y \in Editor : \/ H[y] = ed[y]
                             \/ H[y] = Idle /\ ed[y].at \in {"guard", "write"},
           \A y \in Editor : H[y] # Idle /\ ed[y].op.kind = "relink"
                             /\ ed[y].at \in {"guard", "write"} =>
              \A d \in edges : SamePair(d, ed[y].op.edge) => \E e \in edges' : SamePair(e, d),
           v # Idle => v.at = "find" /\ v.op = ed[x].op
                       /\ ed[x].op.kind \in {"link", "relink", "unlink"},
           ~hasty => \A t \in Step : Completed(t) =>
              \/ Incoming(edges', t) = Incoming(edges, t) /\ text'[t] = text[t]
              \/ v # Idle /\ Target(ed[x].op) = t
    PROVE  FitInv'
  <1>0. /\ Holds(x) /\ (going => hasty) /\ ed[x].op \in Edit
    BY EditTyped
  <1>1. /\ ed' \in [Editor -> EdState] /\ ed'[x] = v
        /\ \A y \in Editor : y # x => ed'[y] = H[y]
    OBVIOUS
  <1>2. \A t \in Step : Completed(t)' = Completed(t) /\ Exists(t)' = Exists(t)
    BY DEF Completed, Exists
  <1>3. Busy(x)' => Holds(x)'
    BY <1>0, <1>1 DEF Holds, Busy
  <1>4. Steps(x)
    <2>1. /\ edges' \in SUBSET EdgeType /\ text' \in [Step -> Nat]
          /\ rows' \in [Step -> AnyRow] /\ ed' \in [Editor -> EdState]
          /\ \A s \in Step : rows[s] # Unborn => rows'[s] # Unborn
      BY <1>1 DEF FitInv, Typed
    <2>2. \A e \in edges' : Exists(e.from)' /\ Exists(e.to)'
      BY DEF Exists
    <2>3. \A y \in Editor : y # x =>
             \/ ed'[y] = ed[y]
             \/ ed'[y] = Idle /\ ed[y].at \in {"guard", "write"}
      BY <1>1
    <2>4. \A y \in Editor : y # x =>
            /\ Busy(y)' /\ ed[y].op.kind = "relink" /\ ed[y].at \in {"guard", "write"}
               => \A d \in edges : SamePair(d, ed[y].op.edge)
                                   => \E e \in edges' : SamePair(e, d)
            /\ Busy(y)' /\ ed[y].op.kind = "create" /\ ed[y].at \in {"guard", "check", "write"}
               => rows'[ed[y].op.step] = rows[ed[y].op.step]
      BY <1>1 DEF Busy
    <2>5. Busy(x)' => /\ Holds(x)' /\ (going => hasty)
                      /\ Busy(x) /\ ed'[x].op = ed[x].op
      BY <1>0, <1>1, <1>3 DEF Busy
    <2> QED
      BY <1>2, <2>1, <2>2, <2>3, <2>4, <2>5 DEF Steps
  <1>5. ASSUME ~hasty PROVE Cares(x)
    <2>1. \A t \in Step : ~Doubts(x, t)
      BY DEF Doubts
    <2>2. v # Idle => InDoubt(Target(ed[x].op))'
      BY <1>1 DEF InDoubt, Doubts, Target
    <2>3. ASSUME NEW t \in Step, Completed(t)', Fits(rows, count, made, overtaken, t)
          PROVE  Fits(rows, count, made, overtaken, t)' \/ InDoubt(t)'
      <3>1. CASE Incoming(edges', t) = Incoming(edges, t) /\ text'[t] = text[t]
        BY <2>3, <3>1, SameEdges
      <3>2. CASE v # Idle /\ Target(ed[x].op) = t
        BY <2>2, <3>2
      <3> QED
        BY <1>2, <1>5, <2>3, <3>1, <3>2
    <2>4. ASSUME NEW y \in Editor, ed'[y].at = "reset", NEW e \in edges',
                 e.from \in ed'[y].reset, Completed(e.to)'
          PROVE  \/ InDoubt(e.to)'
                 \/ e \in edges /\ ed[y].at = "reset" /\ e.from \in ed[y].reset
      <3>1. y # x /\ ed'[y] = ed[y]
        BY <1>1, <2>4 DEF Idle
      <3>2. e.to \in Step
        BY DEF EdgeType
      <3>3. CASE Incoming(edges', e.to) = Incoming(edges, e.to)
        BY <2>4, <3>1, <3>3 DEF Incoming
      <3>4. CASE v # Idle /\ Target(ed[x].op) = e.to
        BY <2>2, <3>4
      <3> QED
        BY <1>2, <1>5, <2>4, <3>2, <3>3, <3>4
    <2>5. \A t \in Step : rows'[t].status = "in_progress" => rows[t].status = "in_progress"
      OBVIOUS
    <2> QED
      BY <1>0, <1>5, <2>1, <2>3, <2>4, <2>5 DEF Cares
  <1> QED
    BY <1>4, <1>5, EditStepFits

LEMMA ConnectFits ==
    ASSUME FitInv, NEW x \in Editor, Connect(x)
    PROVE  FitInv'
  <1> DEFINE op == ed[x].op
             new == {Plain(s, op.step) : s \in op.after}
  <1>1. /\ ed[x].at = "connect" /\ UNCHANGED <<rows, text, engineVars>>
        /\ ed' = [ed EXCEPT ![x] = Done(x)]
        /\ \/ edges' = edges
           \/ /\ \A s \in op.after \cup {op.step} : Exists(s)
              /\ edges' = edges \cup new
    BY DEF Connect, At
  <1>2. Busy(x)
    BY <1>1 DEF Busy, Idle
  <1>3. Holds(x) /\ op.kind = "create" /\ op.step \in Step /\ op.after \subseteq Step
        /\ (hasty \/ ~Completed(op.step))
    <2>1. op.kind = "create" /\ (hasty \/ ~Completed(op.step)) /\ Holds(x)
      BY <1>1, <1>2, EditTyped DEF Holds
    <2> QED
      BY <1>2, <2>1, EditTyped
  <1>4. After(op.kind, "connect") = "idle"
    BY DEF After
  <1>5. Done(x) = Idle /\ Idle \in EdState
    BY <1>1, <1>2, <1>4, DoneNext DEF EdState
  <1>6. /\ edges \in SUBSET EdgeType /\ \A e \in edges : Exists(e.from) /\ Exists(e.to)
        /\ text' \in [Step -> Nat] /\ ed \in [Editor -> EdState]
    BY <1>1 DEF FitInv, Typed, EditsHold
  <1>7. \A e \in new : e \in EdgeType /\ e.to = op.step /\ e.from \in op.after
    <2>1. \A s \in op.after : LET e == Plain(s, op.step) IN
             e \in EdgeType /\ e.to = op.step /\ e.from = s
      BY <1>3 DEF Plain, EdgeType
    <2> QED
      BY <2>1
  <1> HIDE DEF new
  <1>8. edges' \in SUBSET EdgeType /\ \A e \in edges' : Exists(e.from) /\ Exists(e.to)
    BY <1>1, <1>6, <1>7
  <1>9. edges \subseteq edges' /\ \A e \in edges' : e \in edges \/ e.to = op.step
    BY <1>1, <1>7
  <1>10. ~hasty => \A t \in Step : Completed(t) =>
            Incoming(edges', t) = Incoming(edges, t) /\ text'[t] = text[t]
    BY <1>1, <1>3, <1>9 DEF Incoming
  <1>11. \A y \in Editor : \A d \in edges : SamePair(d, ed[y].op.edge)
                                            => \E e \in edges' : SamePair(e, d)
    BY <1>9 DEF SamePair
  <1> QED
    BY <1>1, <1>2, <1>5, <1>6, <1>8, <1>10, <1>11, WriteFits

LEMMA LinkFits ==
    ASSUME FitInv, NEW x \in Editor, ed[x].at = "write", Link(x), UNCHANGED engineVars
    PROVE  FitInv'
  <1> DEFINE op == ed[x].op
             e == op.edge
  <1>1. /\ op.kind = "link" /\ UNCHANGED <<rows, text>>
        /\ \/ /\ Exists(e.from) /\ Exists(e.to) /\ edges' = edges \cup {e}
              /\ ed' = [ed EXCEPT ![x] = Done(x)]
           \/ edges' = edges /\ ed' = [ed EXCEPT ![x] = Idle]
    BY DEF Link
  <1>2. Busy(x)
    BY DEF Busy, Idle
  <1>3. e \in EdgeType /\ Idle \in EdState
    BY <1>1, <1>2, EditTyped DEF EdState
  <1>4. After(op.kind, "write") = "find"
    BY <1>1 DEF After
  <1>5. Done(x) \in EdState /\ Done(x).at = "find" /\ Done(x).op = op
    BY <1>2, <1>4, DoneNext
  <1>6. /\ edges \in SUBSET EdgeType /\ \A f \in edges : Exists(f.from) /\ Exists(f.to)
        /\ text' \in [Step -> Nat] /\ ed \in [Editor -> EdState]
    BY <1>1 DEF FitInv, Typed, EditsHold
  <1>7. \A y \in Editor : \A d \in edges : SamePair(d, ed[y].op.edge)
                                           => \E f \in edges' : SamePair(f, d)
    BY <1>1 DEF SamePair
  <1>8. CASE Exists(e.from) /\ Exists(e.to) /\ edges' = edges \cup {e}
             /\ ed' = [ed EXCEPT ![x] = Done(x)]
    <2>1. edges' \in SUBSET EdgeType /\ \A f \in edges' : Exists(f.from) /\ Exists(f.to)
      BY <1>3, <1>6, <1>8
    <2>2. Done(x) # Idle
      BY <1>5 DEF Idle
    <2>3. \A t \in Step : Incoming(edges', t) = Incoming(edges, t) \/ Target(op) = t
      BY <1>1, <1>8 DEF Incoming, Target
    <2>4. ed[x].at \in {"write", "connect"} /\ op.kind \in {"link", "relink", "unlink"}
      BY <1>1
    <2> QED
      BY <1>1, <1>2, <1>5, <1>6, <1>7, <1>8, <2>1, <2>2, <2>3, <2>4, WriteFits
  <1>9. CASE edges' = edges /\ ed' = [ed EXCEPT ![x] = Idle]
    BY <1>1, <1>2, <1>3, <1>6, <1>7, <1>9, WriteFits
  <1> QED
    BY <1>1, <1>8, <1>9

LEMMA RelinkFits ==
    ASSUME FitInv, NEW x \in Editor, ed[x].at = "write", Relink(x), UNCHANGED engineVars
    PROVE  FitInv'
  <1> DEFINE op == ed[x].op
             e == op.edge
  <1>1. /\ op.kind = "relink" /\ UNCHANGED <<rows, text>>
        /\ edges' = {d \in edges : ~SamePair(d, e)} \cup {e}
        /\ ed' = [ed EXCEPT ![x] = Done(x)]
    BY DEF Relink
  <1>2. Busy(x)
    BY DEF Busy, Idle
  <1>3. e \in EdgeType /\ \E d \in edges : SamePair(d, e)
    BY <1>1, <1>2, EditTyped DEF Holds
  <1>4. After(op.kind, "write") = "find"
    BY <1>1 DEF After
  <1>5. Done(x) \in EdState /\ Done(x).at = "find" /\ Done(x).op = op /\ Done(x) # Idle
    BY <1>2, <1>4, DoneNext DEF Idle
  <1>6. /\ edges \in SUBSET EdgeType /\ \A f \in edges : Exists(f.from) /\ Exists(f.to)
        /\ text' \in [Step -> Nat] /\ ed \in [Editor -> EdState]
    BY <1>1 DEF FitInv, Typed, EditsHold
  <1>7. \A d \in edges : \E f \in edges' : SamePair(f, d)
    BY <1>1 DEF SamePair
  <1>8. edges' \in SUBSET EdgeType /\ \A f \in edges' : Exists(f.from) /\ Exists(f.to)
    BY <1>1, <1>3, <1>6 DEF SamePair
  <1>9. \A t \in Step : Incoming(edges', t) = Incoming(edges, t) \/ Target(op) = t
    BY <1>1 DEF Incoming, Target, SamePair
  <1>10. ed[x].at \in {"write", "connect"} /\ op.kind \in {"link", "relink", "unlink"}
    BY <1>1
  <1> QED
    BY <1>1, <1>2, <1>5, <1>6, <1>7, <1>8, <1>9, <1>10, WriteFits

(* Who held an edge that is gone is told.                                  *)
LEMMA HoldersLeave ==
    ASSUME FitInv, NEW removed
    PROVE  /\ WithoutHolders(removed) \in [Editor -> EdState]
           /\ \A y \in Editor :
                 \/ WithoutHolders(removed)[y] = ed[y]
                 \/ WithoutHolders(removed)[y] = Idle /\ ed[y].at \in {"guard", "write"}
           /\ \A y \in Editor :
                 WithoutHolders(removed)[y] # Idle /\ ed[y].op.kind = "relink"
                 /\ ed[y].at \in {"guard", "write"}
                 => \A d \in removed : ~SamePair(d, ed[y].op.edge)
  <1>1. Idle \in EdState /\ ed \in [Editor -> EdState]
    BY DEF EdState, FitInv, Typed
  <1> QED
    BY <1>1 DEF WithoutHolders, Busy, Idle

LEMMA UnlinkFits ==
    ASSUME FitInv, NEW x \in Editor, ed[x].at = "write", Unlink(x), UNCHANGED engineVars
    PROVE  FitInv'
  <1> DEFINE op == ed[x].op
             removed == {d \in edges : SamePair(d, op.edge)}
             H == WithoutHolders(removed)
  <1>1. /\ op.kind = "unlink" /\ UNCHANGED <<rows, text>> /\ edges' = edges \ removed
        /\ ed' = [H EXCEPT ![x] = Done(x)]
    BY DEF Unlink
  <1>2. Busy(x)
    BY DEF Busy, Idle
  <1>3. \A d \in edges : d.to # op.edge.to => d \notin removed
    BY DEF SamePair
  <1> HIDE DEF removed
  <1>4. After(op.kind, "write") = "find"
    BY <1>1 DEF After
  <1>5. Done(x) \in EdState /\ Done(x).at = "find" /\ Done(x).op = op /\ Done(x) # Idle
    BY <1>2, <1>4, DoneNext DEF Idle
  <1>6. /\ edges' \in SUBSET EdgeType /\ \A f \in edges' : Exists(f.from) /\ Exists(f.to)
        /\ text' \in [Step -> Nat]
    BY <1>1 DEF FitInv, Typed, EditsHold
  <1>7. /\ H \in [Editor -> EdState]
        /\ \A y \in Editor : \/ H[y] = ed[y]
                             \/ H[y] = Idle /\ ed[y].at \in {"guard", "write"}
        /\ \A y \in Editor : H[y] # Idle /\ ed[y].op.kind = "relink"
                             /\ ed[y].at \in {"guard", "write"}
                             => \A d \in removed : ~SamePair(d, ed[y].op.edge)
    BY HoldersLeave
  <1> HIDE DEF H
  <1>8. \A y \in Editor : H[y] # Idle /\ ed[y].op.kind = "relink"
                          /\ ed[y].at \in {"guard", "write"} =>
           \A d \in edges : SamePair(d, ed[y].op.edge) => \E e \in edges' : SamePair(e, d)
    BY <1>1, <1>7 DEF SamePair
  <1>9. \A t \in Step : Completed(t) =>
           \/ Incoming(edges', t) = Incoming(edges, t) /\ text'[t] = text[t]
           \/ Done(x) # Idle /\ Target(op) = t
    BY <1>1, <1>3, <1>5 DEF Incoming, Target
  <1>10. ed[x].at \in {"write", "connect"} /\ op.kind \in {"link", "relink", "unlink"}
    BY <1>1
  <1>11. UNCHANGED <<rows, engineVars>>
    BY <1>1
  <1>12. ed' = [H EXCEPT ![x] = Done(x)]
    BY <1>1
  <1> QED
    BY ONLY <1>2, <1>5, <1>6, <1>7, <1>8, <1>9, <1>10, <1>11, <1>12, FitInv, x \in Editor, WriteFits

LEMMA RewriteFits ==
    ASSUME FitInv, NEW x \in Editor, ed[x].at = "write", Rewrite(x), UNCHANGED engineVars
    PROVE  FitInv'
  <1> DEFINE op == ed[x].op
  <1>1. /\ op.kind = "rewrite" /\ UNCHANGED <<edges, rows>>
        /\ text' = IF Exists(op.step) THEN [text EXCEPT ![op.step] = @ + 1] ELSE text
        /\ ed' = [ed EXCEPT ![x] = Done(x)]
    BY DEF Rewrite
  <1>2. Busy(x)
    BY DEF Busy, Idle
  <1>3. op.step \in Step /\ (hasty \/ ~Completed(op.step))
    BY <1>1, <1>2, EditTyped DEF Holds
  <1>4. After(op.kind, "write") = "idle"
    BY <1>1 DEF After
  <1>5. Done(x) = Idle /\ Idle \in EdState
    BY <1>2, <1>4, DoneNext DEF EdState
  <1>6. /\ edges' \in SUBSET EdgeType /\ \A f \in edges' : Exists(f.from) /\ Exists(f.to)
        /\ text \in [Step -> Nat] /\ ed \in [Editor -> EdState]
    BY <1>1 DEF FitInv, Typed, EditsHold
  <1>7. text' \in [Step -> Nat] /\ \A t \in Step : t # op.step => text'[t] = text[t]
    BY <1>1, <1>3, <1>6
  <1>8. ~hasty => \A t \in Step : Completed(t) =>
           Incoming(edges', t) = Incoming(edges, t) /\ text'[t] = text[t]
    BY <1>1, <1>3, <1>7
  <1>9. \A d \in edges : \E e \in edges' : SamePair(e, d)
    BY <1>1 DEF SamePair
  <1> QED
    BY <1>1, <1>2, <1>5, <1>6, <1>7, <1>8, <1>9, WriteFits

LEMMA CreateFits ==
    ASSUME FitInv, NEW x \in Editor, ed[x].at = "write", Create(x), UNCHANGED engineVars
    PROVE  FitInv'
  <1> DEFINE op == ed[x].op
             s == op.step
  <1>1. /\ op.kind = "create" /\ UNCHANGED <<edges, text>>
        /\ rows' = [rows EXCEPT ![s] = FreshRow]
        /\ ed' = [ed EXCEPT ![x] = Done(x)]
    BY DEF Create
  <1>2. Busy(x)
    BY DEF Busy, Idle
  <1>3. s \in Step /\ rows[s] = Unborn /\ Holds(x) /\ (going => hasty)
    BY <1>1, <1>2, EditTyped DEF Holds
  <1>4. After(op.kind, "write") = "connect"
    BY <1>1 DEF After
  <1>5. Done(x) \in EdState /\ Done(x).at = "connect" /\ Done(x).op = op
    BY <1>2, <1>4, DoneNext
  <1>6. /\ edges \in SUBSET EdgeType /\ rows \in [Step -> AnyRow] /\ text \in [Step -> Nat]
        /\ ed \in [Editor -> EdState]
        /\ \A e \in edges : /\ Exists(e.from) /\ Exists(e.to)
                            /\ e.from \in Step /\ e.to \in Step
    BY DEF FitInv, Typed, EditsHold, EdgeType
  <1>7. /\ rows' \in [Step -> AnyRow] /\ rows'[s] = FreshRow
        /\ \A t \in Step : t # s => rows'[t] = rows[t]
    BY <1>1, <1>3, <1>6, RowFacts
  <1>8. /\ ed' \in [Editor -> EdState] /\ ed'[x] = Done(x)
        /\ \A y \in Editor : y # x => ed'[y] = ed[y]
    BY <1>1, <1>5, <1>6
  <1>9. rows'[s].status # "completed" /\ FreshRow \notin {Unborn, Deleted}
    BY <1>7, RowFacts
  <1>10. \A t \in Step : Completed(t)' => Completed(t) /\ t # s
    BY <1>7, <1>9 DEF Completed
  <1>11. Steps(x)
    <2>1. \A t \in Step : rows[t] # Unborn => rows'[t] # Unborn
      BY <1>3, <1>7
    <2>2. \A e \in edges' : Exists(e.from)' /\ Exists(e.to)'
      BY <1>1, <1>3, <1>6, <1>7, <1>9 DEF Exists
    <2>3. Holds(x)'
      BY <1>1, <1>5, <1>8, <1>9 DEF Holds, Completed
    (* No one else creates the same step.                                  *)
    <2>4. \A y \in Editor : y # x /\ Busy(y) /\ ed[y].op.kind = "create"
                            => rows'[ed[y].op.step] = rows[ed[y].op.step]
      <3> SUFFICES ASSUME NEW y \in Editor, y # x, Busy(y), ed[y].op.kind = "create"
                   PROVE  rows'[ed[y].op.step] = rows[ed[y].op.step]
        OBVIOUS
      <3>1. ed[y].op.step \in Step
        BY EditTyped
      <3>2. ed[y].op.step # s
        BY <1>1, <1>2 DEF FitInv, EditsHold, OneCreates
      <3> QED
        BY <1>7, <3>1, <3>2
    <2>5. \A y \in Editor : y # x =>
            /\ Busy(y)' /\ ed[y].op.kind = "relink" /\ ed[y].at \in {"guard", "write"}
               => \A d \in edges : SamePair(d, ed[y].op.edge)
                                   => \E e \in edges' : SamePair(e, d)
            /\ Busy(y)' /\ ed[y].op.kind = "create" /\ ed[y].at \in {"guard", "check", "write"}
               => rows'[ed[y].op.step] = rows[ed[y].op.step]
      BY <1>1, <1>8, <2>4 DEF Busy, SamePair
    <2>6. edges' \in SUBSET EdgeType /\ text' \in [Step -> Nat]
      BY <1>1, <1>6
    <2>7. Busy(x)' => /\ Holds(x)' /\ (going => hasty)
                      /\ Busy(x) /\ ed'[x].op = ed[x].op
      BY <1>2, <1>3, <1>5, <1>8, <2>3
    <2> QED
      BY <1>7, <1>8, <1>10, <2>1, <2>2, <2>5, <2>6, <2>7 DEF Steps
  <1>12. ASSUME ~hasty PROVE Cares(x)
    <2>1. \A t \in Step : ~Doubts(x, t)
      BY DEF Doubts
    <2>2. ASSUME NEW t \in Step, Completed(t)', Fits(rows, count, made, overtaken, t)
          PROVE  Fits(rows, count, made, overtaken, t)'
      <3>1. \A e \in Incoming(edges, t) : rows[e.from] = rows'[e.from]
        BY <1>3, <1>6, <1>7 DEF Incoming, Exists
      <3>2. /\ Inputs(rows, count, t) = Inputs(rows', count, t)
            /\ Waits(rows, edges, t) = Waits(rows', edges, t)
        BY <3>1, SameInputs
      (* What came from a step that was not there before never did.        *)
      <3>3. \A g \in made[t].given : g[1].from \in Step /\ g[1].from # s
        BY <1>3 DEF FitInv, Typed, InputsOf, EdgeType, Known
      <3>4. Left(rows', made[t]) = Left(rows, made[t])
        BY <1>7, <3>3 DEF Left
      <3>5. Fits(rows', count, made, overtaken, t)
        BY <2>2, <3>2, <3>4 DEF Fits
      <3> QED
        BY <1>1, <3>5 DEF Fits, Inputs, engineVars
    <2>3. \A t \in Step : rows'[t].status = "in_progress" => rows[t].status = "in_progress"
      BY <1>7, RowFacts
    <2>4. \A y \in Editor : ed'[y].at = "reset" =>
            \A e \in edges' : e.from \in ed'[y].reset
               => e \in edges /\ ed[y].at = "reset" /\ e.from \in ed[y].reset
      BY <1>1, <1>5, <1>8
    <2> QED
      BY <1>3, <1>12, <2>1, <2>2, <2>3, <2>4 DEF Cares
  <1> QED
    BY <1>11, <1>12, EditStepFits

LEMMA DeleteFits ==
    ASSUME FitInv, NEW x \in Editor, ed[x].at = "write", Delete(x), UNCHANGED engineVars
    PROVE  FitInv'
  <1> DEFINE op == ed[x].op
             s == op.step
             removed == {d \in edges : s \in {d.from, d.to}}
             H == WithoutHolders(removed)
  <1>1. /\ op.kind = "delete" /\ UNCHANGED text
        /\ rows' = [rows EXCEPT ![s] = Deleted] /\ edges' = edges \ removed
        /\ ed' = [H EXCEPT ![x] = Done(x)]
    BY DEF Delete
  <1>2. Busy(x)
    BY DEF Busy, Idle
  <1>3. s \in Step /\ rows[s] # Unborn /\ Holds(x) /\ (going => hasty)
    BY <1>1, <1>2, EditTyped DEF Holds
  <1>4. After(op.kind, "write") = "idle"
    BY <1>1 DEF After
  <1>5. Done(x) = Idle /\ Idle \in EdState
    BY <1>2, <1>4, DoneNext DEF EdState
  <1>6. /\ edges \in SUBSET EdgeType /\ rows \in [Step -> AnyRow] /\ text \in [Step -> Nat]
        /\ ed \in [Editor -> EdState]
        /\ \A e \in edges : /\ Exists(e.from) /\ Exists(e.to)
                            /\ e.from \in Step /\ e.to \in Step
    BY DEF FitInv, Typed, EditsHold, EdgeType
  <1>7. /\ rows' \in [Step -> AnyRow] /\ rows'[s] = Deleted
        /\ \A t \in Step : t # s => rows'[t] = rows[t]
    BY <1>1, <1>3, <1>6 DEF AnyRow
  <1>8. \A e \in edges : e \in edges' <=> e.from # s /\ e.to # s
    BY <1>1
  <1>9. edges' \subseteq edges
    BY <1>1
  <1>10. /\ H \in [Editor -> EdState]
         /\ \A y \in Editor : \/ H[y] = ed[y]
                              \/ H[y] = Idle /\ ed[y].at \in {"guard", "write"}
         /\ \A y \in Editor : H[y] # Idle /\ ed[y].op.kind = "relink"
                              /\ ed[y].at \in {"guard", "write"}
                              => \A d \in removed : ~SamePair(d, ed[y].op.edge)
    BY HoldersLeave
  <1>11. \A d \in edges : d \in removed \/ d \in edges'
    BY <1>1
  <1> HIDE DEF removed, H
  <1>12. /\ ed' \in [Editor -> EdState] /\ ed'[x] = Idle
         /\ \A y \in Editor : y # x => ed'[y] = H[y]
    BY <1>1, <1>5, <1>10
  <1>13. Deleted # Unborn /\ rows'[s].status # "completed"
    BY <1>7, RowFacts
  <1>14. \A t \in Step : Completed(t)' => Completed(t) /\ t # s
    BY <1>7, <1>13 DEF Completed
  <1>15. Steps(x)
    <2>1. \A t \in Step : rows[t] # Unborn => rows'[t] # Unborn
      BY <1>7, <1>13
    <2>2. \A e \in edges' : Exists(e.from)' /\ Exists(e.to)'
      BY <1>6, <1>7, <1>8, <1>9 DEF Exists
    <2>3. \A y \in Editor : y # x /\ Busy(y) /\ ed[y].op.kind = "create"
                            /\ ed[y].at \in {"guard", "check", "write"}
                            => rows'[ed[y].op.step] = rows[ed[y].op.step]
      <3> SUFFICES ASSUME NEW y \in Editor, y # x, Busy(y), ed[y].op.kind = "create",
                          ed[y].at \in {"guard", "check", "write"}
                   PROVE  rows'[ed[y].op.step] = rows[ed[y].op.step]
        OBVIOUS
      <3>1. ed[y].op.step \in Step /\ rows[ed[y].op.step] = Unborn
        BY EditTyped DEF Holds
      <3> QED
        BY <1>3, <1>7, <3>1
    <2>4. \A y \in Editor : y # x /\ Busy(y)' => ed'[y] = ed[y] /\ Busy(y) /\ H[y] # Idle
      BY <1>10, <1>12 DEF Busy
    <2>5. \A y \in Editor : y # x =>
            /\ Busy(y)' /\ ed[y].op.kind = "relink" /\ ed[y].at \in {"guard", "write"}
               => \A d \in edges : SamePair(d, ed[y].op.edge)
                                   => \E e \in edges' : SamePair(e, d)
            /\ Busy(y)' /\ ed[y].op.kind = "create" /\ ed[y].at \in {"guard", "check", "write"}
               => rows'[ed[y].op.step] = rows[ed[y].op.step]
      BY <1>10, <1>11, <2>3, <2>4 DEF SamePair
    <2>6. edges' \in SUBSET EdgeType /\ text' \in [Step -> Nat]
      BY <1>1, <1>6
    <2>7. \A y \in Editor : y # x => \/ ed'[y] = ed[y]
                                     \/ ed'[y] = Idle /\ ed[y].at \in {"guard", "write"}
      BY <1>10, <1>12
    <2>8. ~Busy(x)'
      BY <1>12 DEF Busy
    <2> QED
      BY <1>7, <1>12, <1>14, <2>1, <2>2, <2>5, <2>6, <2>7, <2>8 DEF Steps
  <1>16. ASSUME ~hasty PROVE Cares(x)
    <2>1. \A t \in Step : ~Doubts(x, t)
      BY DEF Doubts
    <2>2. ASSUME NEW t \in Step, Completed(t)', Fits(rows, count, made, overtaken, t)
          PROVE  Fits(rows, count, made, overtaken, t)'
      <3>1. Completed(t) /\ t # s /\ made[t] \in InputsOf
        BY <1>14, <2>2 DEF FitInv, Typed
      <3>2. \A e : e \in Incoming(edges', t) <=> e \in Incoming(edges, t) /\ e.from # s
        BY <1>8, <1>9, <3>1 DEF Incoming
      <3>3. ~Waits(rows', edges', t)
        BY <1>6, <1>7, <2>2, <3>2 DEF Fits, Waits, Incoming
      <3>4. CASE t \in overtaken
        BY <1>1, <3>3, <3>4 DEF Fits, engineVars
      <3>5. CASE t \notin overtaken
        <4> DEFINE G == {<<e, count[e.from]>> :
                            e \in {d \in Incoming(edges, t) : rows[d.from].status = "completed"}}
                   F == {<<e, count[e.from]>> :
                            e \in {d \in Incoming(edges', t) : rows'[d.from].status = "completed"}}
                   M == made[t].given
        <4>1. {d \in Incoming(edges', t) : rows'[d.from].status = "completed"}
                 = {d \in Incoming(edges, t) : rows[d.from].status = "completed" /\ d.from # s}
          BY <1>6, <1>7, <3>2 DEF Incoming
        <4>2. F = {g \in G : g[1].from # s}
          BY <4>1
        <4>3. \A g \in M : g[1].from \in Step
          BY <3>1 DEF InputsOf, EdgeType
        <4> HIDE DEF F, G
        <4>4. Left(rows, made[t]) = Inputs(rows, count, t)
          BY <2>2, <3>5 DEF Fits
        <4>5. /\ made[t].text = text[t]
              /\ {g \in M : rows[g[1].from] \notin {Unborn, Deleted}} = G
          BY <3>1, <4>4 DEF Left, Inputs, G, InputsOf
        <4>6. {g \in M : rows'[g[1].from] \notin {Unborn, Deleted}}
                 = {g \in {h \in M : rows[h[1].from] \notin {Unborn, Deleted}} : g[1].from # s}
          BY <1>7, <4>3
        <4>7. {g \in M : rows'[g[1].from] \notin {Unborn, Deleted}} = F
          BY <4>2, <4>5, <4>6
        <4>8. Left(rows', made[t]) = [text |-> text[t], given |-> F]
          <5> DEFINE rest == {g \in M : rows'[g[1].from] \notin {Unborn, Deleted}}
          <5>1. Left(rows', made[t]) = [made[t] EXCEPT !.given = rest]
            BY DEF Left
          <5> HIDE DEF rest
          <5>2. [made[t] EXCEPT !.given = rest] = [text |-> made[t].text, given |-> rest]
            BY <3>1 DEF InputsOf
          <5> QED
            BY <5>1, <5>2, <4>5, <4>7 DEF rest
        <4>9. Inputs(rows, count, t)' = [text |-> text[t], given |-> F]
          BY <1>1 DEF Inputs, engineVars, F
        <4> QED
          BY <1>1, <3>3, <4>8, <4>9 DEF Fits, engineVars
      <3> QED
        BY <3>4, <3>5
    <2>3. \A t \in Step : rows'[t].status = "in_progress" => rows[t].status = "in_progress"
      BY <1>7, RowFacts
    <2>4. \A y \in Editor : ed'[y].at = "reset" =>
            \A e \in edges' : e.from \in ed'[y].reset
               => e \in edges /\ ed[y].at = "reset" /\ e.from \in ed[y].reset
      BY <1>9, <1>10, <1>12 DEF Idle
    <2> QED
      BY <1>3, <1>16, <2>1, <2>2, <2>3, <2>4 DEF Cares
  <1> QED
    BY <1>15, <1>16, EditStepFits

LEMMA EditFits ==
    ASSUME FitInv, EditNext
    PROVE  FitInv'
  <1>1. ASSUME NEW x \in Editor, Write(x) PROVE FitInv'
    <2>1. ed[x].at = "write" /\ UNCHANGED engineVars
      BY <1>1 DEF Write, At
    <2> QED
      BY <1>1, <2>1, LinkFits, RelinkFits, UnlinkFits, RewriteFits, CreateFits, DeleteFits
      DEF Write
  <1> QED
    BY <1>1, BeginFits, GuardFits, CheckFits, ConnectFits, FindFits, ReadFits, ResetFits
    DEF EditNext

LEMMA FitStep == FitInv /\ [Next]_vars => FitInv'
  <1> SUFFICES ASSUME FitInv, [Next]_vars PROVE FitInv'
    OBVIOUS
  <1>1. CASE UNCHANGED vars
    <2>1. Typed'
      BY <1>1 DEF FitInv, Typed, vars, engineVars
    <2>2. EditsHold'
      BY <1>1 DEF FitInv, EditsHold, Exists, NoneInside, At, OneCreates, Busy, Holds,
                  Completed, vars, engineVars
    <2>3. AllFit' = AllFit /\ hasty' = hasty
      BY <1>1 DEF AllFit, Sound, Inputs, Completed, Fits, InDoubt, Doubts, vars, engineVars
    <2> QED
      BY <2>1, <2>2, <2>3 DEF FitInv
  <1> QED
    BY <1>1, RunFits, EditFits DEF Next

(* However many edit at once, and whoever starts, stops and retries runs:  *)
(* once all edits are over, the result of every completed step was made    *)
(* from what is there (invalidateFrom), unless the step took the result of *)
(* an earlier attempt, or a run was started under an edit and not all      *)
(* steps have been put back since.                                         *)
THEOREM ResultsStayMatched == Spec => []ResultsMatch
  <1>1. FitInv => ResultsMatch
    <2> SUFFICES ASSUME FitInv, Quiet, ~hasty, NEW s \in Step \ overtaken,
                        rows[s].status = "completed"
                 PROVE  Remaining(made[s]) = Inputs(rows, count, s)
      BY DEF ResultsMatch
    <2>1. ~InDoubt(s)
      BY DEF Quiet, Busy, InDoubt, Doubts, Idle
    <2>2. Fits(rows, count, made, overtaken, s)
      BY <2>1 DEF FitInv, AllFit, Completed
    <2> QED
      BY <2>2 DEF Fits, Left, Remaining, Exists
  <1> QED
    BY InitFits, FitStep, <1>1, PTL DEF Spec

-----------------------------------------------------------------------------
(* Cycles                                                                  *)

(* As long as nobody has added edges under another's check, what was       *)
(* checked still holds when it is written, and no edge touches a step that *)
(* has just been created.                                                  *)
Trusts(x) ==
    /\ At(x, "write") /\ ed[x].op.kind = "link" => ~WouldCreateCycle(edges, ed[x].op.edge)
    /\ At(x, "connect") => \A e \in edges : ed[x].op.step \notin {e.from, e.to}

Drawn == Acyclic(edges) /\ \A x \in Editor : Trusts(x)

(* What x adds is nothing to whoever trusts a check, or it is seen.        *)
LEMMA OthersTrust ==
    ASSUME FitInv, Drawn, NEW x \in Editor, edges' \in SUBSET EdgeType,
           ~Undoes(x) \/ edges' = edges,
           NEW y \in Editor, y # x, ed'[y] \in {ed[y], Idle}
    PROVE  Trusts(y)'
  <1>1. CASE ed'[y] = Idle
    BY <1>1 DEF Trusts, At, Idle
  <1>2. CASE ed'[y] = ed[y] /\ Below(edges', edges)
    <2>1. Trusts(y) /\ edges \in SUBSET EdgeType
      BY DEF Drawn, FitInv, Typed
    <2>2. At(y, "write") /\ ed[y].op.kind = "link" => ed[y].op.edge.to \in Step
      <3>1. At(y, "write") => Busy(y)
        BY DEF At, Busy, Idle
      <3> QED
        BY <3>1, EditTyped
    <2>3. \A s \in Step : Reach(edges', s) \subseteq Reach(edges, s)
      BY <1>2, <2>1, ReachBelow
    <2>4. At(y, "write") /\ ed[y].op.kind = "link"
             => ~WouldCreateCycle(edges', ed[y].op.edge)
      BY <2>1, <2>2, <2>3 DEF Trusts, WouldCreateCycle
    <2>5. At(y, "connect") => \A e \in edges' : ed[y].op.step \notin {e.from, e.to}
      BY <1>2, <2>1 DEF Trusts, Below, SamePair
    <2> QED
      BY <1>2, <2>4, <2>5 DEF Trusts, At
  <1>3. CASE ed'[y] = ed[y] /\ ~Below(edges', edges)
    <2>1. PICK f \in edges' : \A e \in edges : ~SamePair(e, f)
      BY <1>3 DEF Below
    <2>2. ~Undoes(x)
      BY <2>1 DEF SamePair
    <2>3. ~(At(y, "write") /\ ed[y].op.kind = "link") /\ ~At(y, "connect")
      BY <2>1, <2>2 DEF Undoes
    <2> QED
      BY <1>3, <2>3 DEF Trusts, At
  <1> QED
    BY <1>1, <1>2, <1>3

(* Stages that write nothing: only a check can make an editor trust it.    *)
LEMMA LookDrawn ==
    ASSUME FitInv, Drawn, NEW x \in Editor,
           (\E o \in Edit : Begin(x, o)) \/ Guard(x) \/ Check(x) \/ Find(x) \/ Read(x) \/ Reset(x)
    PROVE  Drawn'
  <1> DEFINE op == ed[x].op
  <1>0. ed \in [Editor -> EdState] /\ edges \in SUBSET EdgeType /\ Acyclic(edges)
    BY DEF FitInv, Typed, Drawn
  <1>1. UNCHANGED edges
    BY DEF Begin, Guard, Check, Find, Read, Reset
  <1>2. \A y \in Editor : y # x => ed'[y] = ed[y]
    BY <1>0 DEF Begin, Guard, Check, Find, Read, Reset
  <1>3. ASSUME NEW stage, At(x, stage), stage # "idle"
        PROVE  /\ Busy(x) /\ op \in Edit
               /\ Done(x).at = After(op.kind, stage)
               /\ After(op.kind, stage) # "idle" => Done(x).op = op
    <2>1. Busy(x) /\ ed[x].at = stage
      BY <1>3 DEF At, Busy, Idle
    <2>2. ed[x] \in [at : {"guard", "check", "write", "find", "read", "reset", "connect"},
                     op : Edit, reset : SUBSET Step]
      BY <1>0, <2>1 DEF Busy, EdState
    <2> QED
      BY <2>1, <2>2 DEF Done, Idle
  <1>4. Trusts(x)'
    <2>1. CASE \E o \in Edit : Begin(x, o)
      BY <1>0, <2>1 DEF Begin, Trusts, At
    <2>2. CASE Guard(x)
      <3>1. At(x, "guard") /\ ed'[x] \in {Idle, Done(x)}
        BY <1>0, <2>2 DEF Guard
      <3>2. After(op.kind, "guard") \in {"check", "find", "write"}
            /\ After("link", "guard") = "check"
        BY DEF After
      <3> QED
        BY <1>3, <3>1, <3>2 DEF Trusts, At, Idle
    <2>3. CASE Check(x)
      <3>1. At(x, "check") /\ (ed'[x] = Idle \/ (ed'[x] = Done(x) /\ ~Introduces(op)))
        BY <1>0, <2>3 DEF Check
      <3>2. After(op.kind, "check") = "write"
        BY DEF After
      <3>3. op.kind = "link" => op.edge \in EdgeType
        BY <1>3, <3>1, EditTyped
      <3>4. op.kind = "link" /\ ~Introduces(op) => ~WouldCreateCycle(edges, op.edge)
        BY <1>0, <3>3, EdgeCheckIsExact DEF Introduces
      <3> QED
        BY <1>1, <1>3, <3>1, <3>2, <3>4 DEF Trusts, At, Idle
    <2>4. CASE Find(x)
      <3>1. /\ At(x, "find") /\ After(op.kind, "find") = "read"
            /\ \/ ed'[x] \in {Idle, Done(x)}
               \/ op.kind = "rewrite" /\ ed'[x] = [ed[x] EXCEPT !.at = "write"]
        BY <1>0, <2>4 DEF Find, After
      <3>2. ed[x] \in [at : {"guard", "check", "write", "find", "read", "reset", "connect"},
                       op : Edit, reset : SUBSET Step]
        BY <1>0, <1>3, <3>1 DEF Busy, EdState
      <3> QED
        BY <1>3, <3>1, <3>2 DEF Trusts, At, Idle
    <2>5. CASE Read(x)
      <3>1. At(x, "read") /\ After(op.kind, "read") = "reset"
            /\ ed'[x] = [Done(x) EXCEPT !.reset = Stale(Target(op))]
        BY <1>0, <2>5 DEF Read, After
      <3>2. Done(x) = [ed[x] EXCEPT !.at = "reset"]
        BY <3>1 DEF Done, At
      <3>3. ed[x] \in [at : {"guard", "check", "write", "find", "read", "reset", "connect"},
                       op : Edit, reset : SUBSET Step]
        BY <1>0, <1>3, <3>1 DEF Busy, EdState
      <3>4. ed'[x].at = "reset"
        BY <3>1, <3>2, <3>3
      <3> QED
        BY <3>4 DEF Trusts, At
    <2>6. CASE Reset(x)
      <3>1. /\ At(x, "reset")
            /\ \/ ed'[x] = Done(x)
               \/ \E s : ed'[x] = [ed[x] EXCEPT !.reset = @ \ {s}]
        BY <1>0, <2>6 DEF Reset
      <3>2. \/ After(op.kind, "reset") = "write" /\ op.kind = "rewrite"
            \/ After(op.kind, "reset") = "idle"
        BY DEF After
      <3>3. ed[x] \in [at : {"guard", "check", "write", "find", "read", "reset", "connect"},
                       op : Edit, reset : SUBSET Step]
        BY <1>0, <1>3, <3>1 DEF Busy, EdState
      <3>4. CASE ed'[x] = Done(x)
        BY <1>3, <3>1, <3>2, <3>4 DEF Trusts, At, Idle
      <3>5. CASE \E s : ed'[x] = [ed[x] EXCEPT !.reset = @ \ {s}]
        <4>1. ed'[x].at = "reset"
          BY <3>1, <3>3, <3>5 DEF At
        <4> QED
          BY <4>1 DEF Trusts, At
      <3> QED
        BY <3>1, <3>4, <3>5
    <2> QED
      BY <2>1, <2>2, <2>3, <2>4, <2>5, <2>6
  <1>5. \A y \in Editor : y # x => Trusts(y)'
    BY <1>0, <1>1, <1>2, OthersTrust
  <1> QED
    BY <1>0, <1>1, <1>4, <1>5 DEF Drawn

(* Stages that write, and whose edges undo nobody's check.                 *)
LEMMA WriteDrawn ==
    ASSUME FitInv, FitInv', Drawn, NEW x \in Editor, ~Undoes(x), Write(x) \/ Connect(x)
    PROVE  Drawn'
  <1> DEFINE op == ed[x].op
  <1>0. /\ edges \in SUBSET EdgeType /\ edges' \in SUBSET EdgeType
        /\ Acyclic(edges) /\ Trusts(x) /\ ed \in [Editor -> EdState]
    BY DEF FitInv, Typed, Drawn
  <1>1. ed[x].at \in {"write", "connect"}
    BY DEF Write, Connect, At
  <1>2. Busy(x)
    BY <1>1 DEF Busy, Idle
  <1>3. /\ op.kind \in {"link", "relink", "unlink"} => op.edge \in EdgeType
        /\ op.kind = "create" => /\ op.step \in Step /\ op.after \in SUBSET Step
                                 /\ op.step \notin op.after
        /\ ed[x].at = "connect" => op.kind = "create"
        /\ op.kind = "create" /\ ed[x].at = "write" => rows[op.step] = Unborn
        /\ op.kind = "relink" /\ ed[x].at = "write" => \E d \in edges : SamePair(d, op.edge)
    BY <1>2, EditTyped DEF Holds
  (* Afterwards x has an edge to look at the results of, or a step to      *)
  (* connect, or is done.                                                  *)
  <1>4. /\ \A y \in Editor : y # x => ed'[y] \in {ed[y], Idle}
        /\ ed'[x] \in {Idle, Done(x)}
    <2>1. CASE Write(x)
      <3>1. ASSUME NEW removed
            PROVE  \A y \in Editor : WithoutHolders(removed)[y] \in {ed[y], Idle}
        BY DEF WithoutHolders
      <3>2. PICK H \in {ed} \cup {WithoutHolders(removed) : removed \in SUBSET edges} :
               ed' = [H EXCEPT ![x] = Idle] \/ ed' = [H EXCEPT ![x] = Done(x)]
        BY <2>1 DEF Write, Link, Relink, Unlink, Rewrite, Create, Delete
      <3>3. \A y \in Editor : H[y] \in {ed[y], Idle}
        BY <3>1, <3>2
      <3>4. DOMAIN H = Editor
        BY <1>0, <3>2 DEF WithoutHolders
      <3> QED
        BY <3>2, <3>3, <3>4
    <2>2. CASE Connect(x)
      BY <1>0, <2>2 DEF Connect
    <2> QED
      BY <2>1, <2>2
  <1>5. Acyclic(edges')
    <2>1. CASE edges' = edges
      BY <1>0, <2>1
    <2>2. CASE Below(edges', edges)
      BY <1>0, <2>2, AcyclicBelow
    <2>3. CASE Link(x) /\ At(x, "write")
      <3>1. edges' = edges \/ edges' = edges \cup {op.edge}
        BY <2>3 DEF Link
      <3>2. op.edge \in EdgeType /\ ~WouldCreateCycle(edges, op.edge)
        BY <1>0, <1>3, <2>3 DEF Link, Trusts
      <3> QED
        BY <1>0, <3>1, <3>2, AcyclicAdd
    <2>4. CASE Connect(x)
      <3>1. edges' = edges \/ edges' = edges \cup {Plain(s, op.step) : s \in op.after}
        BY <2>4 DEF Connect
      <3>2. /\ op.step \in Step /\ op.after \in SUBSET Step /\ op.step \notin op.after
            /\ \A e \in edges : e.from # op.step /\ e.to # op.step
        BY <1>0, <1>3, <2>4 DEF Connect, At, Trusts
      <3> QED
        BY <1>0, <3>1, <3>2, AcyclicInto
    <2>5. CASE Relink(x) /\ At(x, "write")
      <3>1. PICK d \in edges : SamePair(d, op.edge)
        BY <1>3, <2>5 DEF Relink, At
      <3>2. Below(edges', edges)
        BY <2>5, <3>1 DEF Relink, Below, SamePair
      <3> QED
        BY <1>0, <3>2, AcyclicBelow
    <2>6. Unlink(x) \/ Delete(x) => Below(edges', edges)
      BY DEF Unlink, Delete, Below, SamePair
    <2>7. Rewrite(x) \/ Create(x) => edges' = edges
      BY DEF Rewrite, Create
    <2> QED
      BY <2>1, <2>2, <2>3, <2>4, <2>5, <2>6, <2>7 DEF Write
  <1>6. Trusts(x)'
    <2>1. CASE ed'[x] = Idle
      BY <2>1 DEF Trusts, At, Idle
    <2>2. CASE ed'[x] = Done(x) /\ Done(x) # Idle
      <3>1. /\ ed[x].at = "write" /\ After(op.kind, "connect") = "idle"
            /\ ed'[x] = [ed[x] EXCEPT !.at = After(op.kind, "write")]
        BY <1>1, <2>2 DEF Done, After
      <3>2. ed[x] \in [at : {"guard", "check", "write", "find", "read", "reset", "connect"},
                       op : Edit, reset : SUBSET Step]
        BY <1>0, <1>2 DEF Busy, EdState
      <3>3. After(op.kind, "write") = "find"
            \/ (After(op.kind, "write") = "connect" /\ op.kind = "create")
        <4>1. After(op.kind, "write") # "idle"
          BY <2>2, <3>1 DEF Done
        <4> QED
          BY <4>1 DEF After
      <3>4. ed'[x].at = After(op.kind, "write") /\ ed'[x].op = op
        BY <3>1, <3>2
      <3>5. CASE op.kind = "create"
        <4>1. Create(x)
          BY <3>1, <3>5 DEF Write, Connect, At, Link, Relink, Unlink, Rewrite, Delete
        <4>2. edges' = edges /\ \A e \in edges : op.step \notin {e.from, e.to}
          BY <1>3, <3>1, <4>1 DEF Create, FitInv, EditsHold, Exists
        <4> QED
          BY <3>3, <3>4, <4>2 DEF Trusts, At
      <3> QED
        BY <3>3, <3>4, <3>5 DEF Trusts, At
    <2> QED
      BY <1>4, <2>1, <2>2
  <1>7. \A y \in Editor : y # x => Trusts(y)'
    BY <1>0, <1>4, OthersTrust
  <1> QED
    BY <1>5, <1>6, <1>7 DEF Drawn

(* The graph gets a cycle only if an editor adds edges while another, who  *)
(* has checked the graph, is about to add its own (createSubtaskEdge,      *)
(* createSubtask): however many draw at once, and whatever else is edited  *)
(* and run meanwhile.                                                      *)
THEOREM OnlyRacesCloseCycles == Spec => []CycleNeedsRace
  <1> DEFINE CInv == FitInv /\ (raced \/ Drawn)
  <1>1. Init => CInv
    <2> SUFFICES ASSUME Init PROVE Drawn
      BY InitFits
    <2>1. Acyclic(edges) /\ \A x \in Editor : ed[x] = Idle
      BY DEF Init
    <2> QED
      BY <2>1 DEF Drawn, Trusts, At, Idle
  <1>2. CInv /\ [Next]_vars => CInv'
    <2> SUFFICES ASSUME CInv, [Next]_vars, ~raced' PROVE Drawn'
      BY FitStep
    <2>0. FitInv /\ FitInv'
      BY FitStep
    <2>1. CASE UNCHANGED vars
      BY <2>1 DEF vars, Drawn, Trusts, At
    <2>2. CASE RunNext
      <3>1. UNCHANGED <<edges, ed, raced>>
        BY <2>2 DEF RunNext, StartRun, RetrySubtask, CancelRun, PipeEnds, MayStart
      <3> QED
        BY <3>1 DEF Drawn, Trusts, At
    <2>3. CASE EditNext
      <3>1. PICK x \in Editor :
               \/ \E o \in Edit : Begin(x, o)
               \/ Guard(x) \/ Check(x) \/ Write(x) \/ Connect(x)
               \/ Find(x) \/ Read(x) \/ Reset(x)
        BY <2>3 DEF EditNext
      <3>2. CASE Write(x) \/ Connect(x)
        <4>1. ~raced /\ ~Undoes(x)
          BY <3>2 DEF Write, Connect
        <4> QED
          BY <2>0, <3>2, <4>1, WriteDrawn
      <3>3. CASE ~(Write(x) \/ Connect(x))
        <4>1. UNCHANGED raced
          BY <3>1, <3>3 DEF Begin, Guard, Check, Find, Read, Reset
        <4> QED
          BY <2>0, <3>1, <3>3, <4>1, LookDrawn
      <3> QED
        BY <3>2, <3>3
    <2> QED
      BY <2>1, <2>2, <2>3 DEF Next
  <1>3. CInv => CycleNeedsRace
    BY DEF Drawn, CycleNeedsRace
  <1> QED
    BY <1>1, <1>2, <1>3, PTL DEF Spec

-----------------------------------------------------------------------------
(* The skip cascade                                                        *)

LEMMA SkippingRows ==
    ASSUME NEW rws \in [Step -> Row], NEW K \in SUBSET Pending(rws), NEW s \in Step
    PROVE  /\ s \in K => Skipping(rws, K)[s].status = "skipped"
           /\ s \notin K => Skipping(rws, K)[s] = rws[s]
           /\ s \in K => rws[s].status = "pending"
BY DEF Skipping, Pending, Row

(* What must be skipped stays so when more is skipped.                     *)
LEMMA MoreIsSkipped ==
    ASSUME NEW rws \in [Step -> Row], NEW graph \in SUBSET EdgeType,
           NEW J \in SUBSET Pending(rws), NEW K \in SUBSET Pending(rws),
           J \subseteq K, NEW s \in Step, MustSkip(Skipping(rws, J), graph, s)
    PROVE  MustSkip(Skipping(rws, K), graph, s)
<1> DEFINE few == Skipping(rws, J)
           many == Skipping(rws, K)
<1>1. ASSUME NEW e \in Incoming(graph, s)
      PROVE  /\ few[e.from].status = many[e.from].status
             /\ IsTerminal(many[e.from])
             /\ Refuses(few, e) <=> Refuses(many, e)
  <2>1. e.from \in Step
    BY DEF Incoming, EdgeType
  <2>2. IsTerminal(few[e.from])
    BY DEF MustSkip, Waits
  <2>3. CASE e.from \in J
    <3>1. few[e.from].status = "skipped" /\ many[e.from].status = "skipped"
      BY <2>1, <2>3, SkippingRows
    <3> HIDE DEF few, many
    <3> QED  BY <3>1 DEF IsTerminal, Refuses
  <2>4. CASE e.from \notin J
    <3>1. few[e.from] = rws[e.from]
      BY <2>1, <2>4, SkippingRows
    <3> HIDE DEF few, many
    <3>2. e.from \notin K
      BY <2>2, <3>1 DEF IsTerminal, Pending
    <3>3. many[e.from] = rws[e.from]
      BY <2>1, <3>2, SkippingRows DEF many
    <3> QED  BY <2>2, <3>1, <3>3 DEF Refuses
  <2> QED  BY <2>3, <2>4
<1>2. ~Waits(many, graph, s)
  BY <1>1 DEF Waits
<1> HIDE DEF few, many
<1>3. MustSkip(few, graph, s)
  BY DEF few
<1>4. MustSkip(many, graph, s)
  BY <1>1, <1>2, <1>3 DEF MustSkip
<1> QED  BY <1>4 DEF many

(* The steps to skip are closed: the least closed set.                     *)
LEMMA CascadeCloses ==
    ASSUME NEW rws \in [Step -> Row], NEW graph \in SUBSET EdgeType
    PROVE  LET S == Skippable(rws, graph) IN
           /\ S \in SUBSET Pending(rws) /\ SkipClosed(rws, graph, S)
           /\ \A K \in SUBSET Pending(rws) : SkipClosed(rws, graph, K) => S \subseteq K
<1> DEFINE S == Skippable(rws, graph)
<1>1. /\ S \in SUBSET Pending(rws) /\ Pending(rws) \subseteq Step
      /\ \A K \in SUBSET Pending(rws) : SkipClosed(rws, graph, K) => S \subseteq K
  BY DEF Skippable, Pending
<1> HIDE DEF S
<1>2. SkipClosed(rws, graph, S)
  <2> SUFFICES ASSUME NEW s \in Pending(rws), MustSkip(Skipping(rws, S), graph, s),
                      NEW K \in SUBSET Pending(rws), SkipClosed(rws, graph, K)
               PROVE  s \in K
    BY DEF SkipClosed, Skippable, S
  <2>1. S \subseteq K /\ s \in Step
    BY <1>1
  <2>2. MustSkip(Skipping(rws, K), graph, s)
    BY <1>1, <2>1, MoreIsSkipped
  <2> QED  BY <2>2 DEF SkipClosed
<1> QED  BY <1>1, <1>2 DEF S

(* The cascade of skips ends where it should, on any graph, cyclic ones    *)
(* too: no pending step is left that must be skipped, and no step was      *)
(* skipped that, on the rows as they are now, need not be.                 *)
THEOREM CascadeSettles ==
    ASSUME NEW rws \in [Step -> Row], NEW graph \in SUBSET EdgeType
    PROVE  LET final == SkipCascade(rws, graph) IN
           /\ \A s \in Pending(final) : ~MustSkip(final, graph, s)
           /\ \A s \in Pending(rws) \ Pending(final) : MustSkip(final, graph, s)
<1> DEFINE S == Skippable(rws, graph)
           final == SkipCascade(rws, graph)
<1>1. /\ S \in SUBSET Pending(rws) /\ Pending(rws) \subseteq Step
      /\ \A K \in SUBSET Pending(rws) : SkipClosed(rws, graph, K) => S \subseteq K
  BY DEF Skippable, Pending
<1>2. final = Skipping(rws, S)
  BY DEF SkipCascade
<1> HIDE DEF S, final
<1>3. SkipClosed(rws, graph, S)
  BY CascadeCloses DEF S
<1>4. \A s \in S : MustSkip(Skipping(rws, S), graph, s)
  <2> DEFINE J == {s \in S : MustSkip(Skipping(rws, S), graph, s)}
  <2>1. J \in SUBSET Pending(rws) /\ J \subseteq S
    BY <1>1
  <2>2. ASSUME NEW s \in Pending(rws), MustSkip(Skipping(rws, J), graph, s)
        PROVE  s \in J
    <3>1. MustSkip(Skipping(rws, S), graph, s)
      <4> HIDE DEF J
      <4> QED  BY <1>1, <2>1, <2>2, MoreIsSkipped
    <3>2. s \in S
      BY <1>3, <3>1 DEF SkipClosed
    <3> QED  BY <3>1, <3>2
  <2>3. SkipClosed(rws, graph, J)
    <3> HIDE DEF J
    <3> QED  BY <2>2 DEF SkipClosed
  <2>4. S \subseteq J
    <3> HIDE DEF J
    <3> QED  BY <1>1, <2>1, <2>3
  <2> QED  BY <2>4
<1>5. ASSUME NEW s \in Pending(final)
      PROVE  s \in Pending(rws) /\ s \notin S
  <2>1. s \in Step /\ final[s].status = "pending"
    BY DEF Pending
  <2>2. s \notin S
    BY <1>1, <1>2, <2>1, SkippingRows
  <2>3. final[s] = rws[s]
    BY <1>1, <1>2, <2>1, <2>2, SkippingRows
  <2> QED  BY <2>1, <2>2, <2>3 DEF Pending
<1>6. ASSUME NEW s \in Pending(rws) \ Pending(final)
      PROVE  s \in S
  <2>1. s \in Step /\ rws[s].status = "pending" /\ final[s].status # "pending"
    BY DEF Pending
  <2> QED  BY <1>1, <1>2, <2>1, SkippingRows
<1>7. \A s \in Pending(final) : ~MustSkip(final, graph, s)
  BY <1>2, <1>3, <1>5 DEF SkipClosed
<1>8. \A s \in Pending(rws) \ Pending(final) : MustSkip(final, graph, s)
  BY <1>2, <1>4, <1>6
<1> QED  BY <1>7, <1>8 DEF final

(* Any order of the passes leads there: while only steps of the cascade    *)
(* were skipped, a step that must be skipped next is one of the cascade,   *)
(* and when none must be, the rows are those SkipCascade says.  So the     *)
(* for(;;) of advanceLocked, which skips in passes and looks again, ends   *)
(* with them however the database lists the steps.                         *)
LEMMA PassesReachTheCascade ==
    ASSUME NEW rws \in [Step -> Row], NEW graph \in SUBSET EdgeType,
           NEW K \in SUBSET Skippable(rws, graph)
    PROVE  LET now == Skipping(rws, K) IN
           /\ \A s \in Pending(now) :
                 MustSkip(now, graph, s) => s \in Skippable(rws, graph) \ K
           /\ (\A s \in Pending(now) : ~MustSkip(now, graph, s)) =>
                 now = SkipCascade(rws, graph)
<1> DEFINE S == Skippable(rws, graph)
           now == Skipping(rws, K)
<1>1. /\ S \in SUBSET Pending(rws) /\ SkipClosed(rws, graph, S)
      /\ \A L \in SUBSET Pending(rws) : SkipClosed(rws, graph, L) => S \subseteq L
  BY CascadeCloses
<1>2. K \in SUBSET S /\ K \in SUBSET Pending(rws)
  BY <1>1
<1> HIDE DEF S
<1>3. ASSUME NEW s \in Step
      PROVE  s \in Pending(now) <=> s \in Pending(rws) /\ s \notin K
  BY <1>2, SkippingRows DEF Pending
<1>4. ASSUME NEW s \in Pending(now), MustSkip(now, graph, s)
      PROVE  s \in S \ K
  <2>1. s \in Step /\ s \in Pending(rws) /\ s \notin K
    BY <1>3 DEF Pending
  <2>2. MustSkip(Skipping(rws, S), graph, s)
    BY <1>1, <1>2, <1>4, <2>1, MoreIsSkipped
  <2> QED  BY <1>1, <2>1, <2>2 DEF SkipClosed
<1>5. ASSUME \A s \in Pending(now) : ~MustSkip(now, graph, s)
      PROVE  now = SkipCascade(rws, graph)
  <2>1. ASSUME NEW s \in Pending(rws), MustSkip(now, graph, s)
        PROVE  s \in K
    <3>1. s \in Step
      BY DEF Pending
    <3> QED  BY <1>3, <1>5, <2>1, <3>1
  <2>2. SkipClosed(rws, graph, K)
    BY <2>1 DEF SkipClosed
  <2>3. K = S
    BY <1>1, <1>2, <2>2
  <2> QED  BY <2>3 DEF SkipCascade, S
<1> QED  BY <1>4, <1>5 DEF S

-----------------------------------------------------------------------------
(* The loops of the functions on the graph, one invariant per call.        *)

(* resolveSubtask: what the edges looked at have said.                     *)
ResolveJob ==
    [call : {"resolveSubtask"}, step : Step, pass : {1, 2}, left : SUBSET EdgeType,
     satisfied : Nat, answer : {"none", "wait", "skip", "run"}]

Resolved == Incoming(drawn, job.step) \ job.left

ResolveInv ==
    job.call = "resolveSubtask" =>
        /\ job \in ResolveJob
        /\ ResolutionAgrees
        /\ job.answer = "none" =>
              /\ Incoming(drawn, job.step) # {}
              /\ job.left \subseteq Incoming(drawn, job.step)
              /\ \A e \in Resolved : IsTerminal(table[e.from])
              /\ job.pass = 1 => job.satisfied = 0
              /\ job.pass = 2 =>
                    /\ ~Waits(table, drawn, job.step)
                    /\ \A e \in Resolved : ~Refuses(table, e)
                    /\ job.satisfied > 0 <=>
                          \E e \in Resolved : table[e.from].status # "skipped"

(* The cascade: the steps skipped so far, and those that were when the     *)
(* pass began, are of the cascade; nothing passed over in a pass that      *)
(* skipped nothing must be skipped.                                        *)
CascadeJob ==
    [call : {"advanceLocked"}, before : [Step -> Row], listed : [Step -> Row],
     left : SUBSET Step, skippedAny : BOOLEAN, answer : {"none", "over"}]

SkippedIn(old, new) == {s \in Pending(old) : new[s].status = "skipped"}

OfCascade(old, new) ==
    /\ SkippedIn(old, new) \subseteq Skippable(old, drawn)
    /\ new = Skipping(old, SkippedIn(old, new))

CascadeInv ==
    job.call = "advanceLocked" =>
        /\ job \in CascadeJob
        /\ OfCascade(job.before, table) /\ OfCascade(job.before, job.listed)
        /\ job.left \subseteq Pending(job.listed)
        /\ ~job.skippedAny =>
              /\ table = job.listed
              /\ \A s \in Pending(table) \ job.left : ~MustSkip(table, drawn, s)
        /\ job.answer = "over" => ~job.skippedAny /\ job.left = {}

(* The search downstream: what was met is reachable, and the edges out of  *)
(* it that were not followed yet are out of steps still in the queue.      *)
DescendJob ==
    [call : {"getDownstreamSubtaskIds"}, step : Step, queue : Seq(Step),
     seen : SUBSET Step, order : Seq(Step), left : SUBSET EdgeType,
     answer : {"none", "over"}]

DescendInv ==
    job.call = "getDownstreamSubtaskIds" =>
        /\ job \in DescendJob
        /\ job.seen = {job.step} \cup ToSet(job.order)
        /\ job.step \notin ToSet(job.order) /\ IsInjective(job.order)
        /\ job.seen \subseteq Reach(drawn, job.step)
        /\ ToSet(job.queue) \subseteq job.seen
        /\ \A e \in drawn \ job.left : e.from \in job.seen
        /\ \A e \in drawn : e.from \in job.seen /\ e.to \notin job.seen =>
              e \in job.left /\ e.from \in ToSet(job.queue)
        /\ job.answer = "over" => job.queue = <<>>

(* The check of a new edge: what was met is reachable from where it would  *)
(* lead, the goal was not met, and every edge out of what was met is still *)
(* to be pushed, or its step is on the stack or was met.                   *)
CheckJob ==
    [call : {"wouldCreateCycle"}, new : EdgeType, goal : Step, stack : Seq(Step),
     seen : SUBSET Step, left : SUBSET EdgeType, answer : {"none", "true", "false"}]

CheckInv ==
    job.call = "wouldCreateCycle" =>
        /\ job \in CheckJob
        /\ job.goal = job.new.from
        /\ ToSet(job.stack) \cup job.seen \subseteq Reach(drawn, job.new.to)
        /\ job.goal \notin job.seen
        /\ job.new.to \in job.seen \cup ToSet(job.stack)
        /\ \A e \in drawn \ job.left : e.from \in job.seen
        /\ \A e \in drawn : e.from \in job.seen =>
              e \in job.left \/ e.to \in job.seen \cup ToSet(job.stack)
        /\ job.answer = "true" => job.goal \in Reach(drawn, job.new.to)
        /\ job.answer = "false" =>
              job.stack = <<>> /\ \A e \in job.left : e.from \notin job.seen

(* findCycle: the stack is a path of the steps under way, each edge out of *)
(* a step under way that was followed leads to one that is done or to the  *)
(* next on the stack, and what is done is closed and lies on no cycle.     *)
Visits == [Step -> {"new", "visiting", "done"}]

FindJob ==
    [call : {"findCycle"}, state : Visits, stack : Seq(Step), left : SUBSET EdgeType,
     cycle : Seq(Step), answer : {"none", "null", "cycle"}]

Linked(s, t) == \E e \in drawn : e.from = s /\ e.to = t

StackInv(state, stack) ==
    /\ \A i \in DOMAIN stack : state[stack[i]] = "visiting"
    /\ \A s \in Step : state[s] = "visiting" => \E i \in DOMAIN stack : stack[i] = s
    /\ IsInjective(stack)
    /\ \A i \in DOMAIN stack : i + 1 \in DOMAIN stack => Linked(stack[i], stack[i + 1])
    /\ \A i, k \in DOMAIN stack : i <= k => stack[k] \in Reach(drawn, stack[i])

DoneInv(state, stack, left) ==
    /\ \A e \in drawn \ left : state[e.from] # "new"
    /\ \A i \in DOMAIN stack : \A e \in drawn \ left :
          e.from = stack[i] => \/ state[e.to] = "done"
                               \/ i + 1 \in DOMAIN stack /\ e.to = stack[i + 1]
    /\ \A e \in drawn : state[e.from] = "done" =>
          state[e.to] = "done" /\ e.from \notin Reach(drawn, e.to)

ClosedInv(stack, cycle) ==
    \E i \in DOMAIN stack :
        /\ cycle = SubSeq(stack, i, Len(stack)) \o <<stack[i]>>
        /\ Linked(stack[Len(stack)], stack[i])

FindInv ==
    job.call = "findCycle" =>
        /\ job \in FindJob
        /\ StackInv(job.state, job.stack)
        /\ DoneInv(job.state, job.stack, job.left)
        /\ job.answer = "null" => \A s \in Step : job.state[s] = "done"
        /\ job.answer = "cycle" => ClosedInv(job.stack, job.cycle)

LoopsTypeOK == drawn \in SUBSET EdgeType /\ table \in [Step -> Row]

LoopsInv ==
    /\ LoopsTypeOK
    /\ ResolveInv /\ CascadeInv /\ DescendInv /\ CheckInv /\ FindInv

(* What adding a step to a sequence, and taking one off either end, does   *)
(* to the set of its members.                                              *)
LEMMA Appended ==
    ASSUME NEW q \in Seq(Step), NEW s \in Step
    PROVE  /\ Append(q, s) \in Seq(Step)
           /\ ToSet(Append(q, s)) = ToSet(q) \cup {s}
           /\ IsInjective(q) /\ s \notin ToSet(q) => IsInjective(Append(q, s))
<1> DEFINE r == Append(q, s)
<1>1. /\ r \in Seq(Step) /\ Len(r) = Len(q) + 1 /\ Len(q) \in Nat
      /\ \A i \in 1..Len(q) : r[i] = q[i]
      /\ r[Len(q) + 1] = s
  BY AppendProperties, LenProperties
<1>2. DOMAIN q = 1..Len(q) /\ DOMAIN r = 1..(Len(q) + 1)
  BY <1>1, LenProperties
<1> HIDE DEF r
<1>3. ToSet(r) = ToSet(q) \cup {s}
  <2>1. \A i \in DOMAIN r : i \in DOMAIN q \/ i = Len(q) + 1
    BY <1>1, <1>2
  <2>2. \A i \in DOMAIN q : i \in DOMAIN r /\ r[i] = q[i]
    BY <1>1, <1>2
  <2>3. Len(q) + 1 \in DOMAIN r
    BY <1>1, <1>2
  <2> QED  BY <1>1, <2>1, <2>2, <2>3 DEF ToSet
<1>4. ASSUME IsInjective(q), s \notin ToSet(q)  PROVE IsInjective(r)
  <2> SUFFICES ASSUME NEW i \in DOMAIN r, NEW k \in DOMAIN r, r[i] = r[k]
               PROVE  i = k
    BY DEF IsInjective
  <2>1. \A j \in DOMAIN q : q[j] # s
    BY <1>4 DEF ToSet
  <2>2. i \in DOMAIN q \/ i = Len(q) + 1
    BY <1>1, <1>2
  <2>3. k \in DOMAIN q \/ k = Len(q) + 1
    BY <1>1, <1>2
  <2>4. ASSUME i \in DOMAIN q, k \in DOMAIN q  PROVE i = k
    BY <1>1, <1>2, <1>4, <2>4 DEF IsInjective
  <2> QED  BY <1>1, <1>2, <2>1, <2>2, <2>3, <2>4
<1> QED  BY <1>1, <1>3, <1>4 DEF r

LEMMA TakenOff ==
    ASSUME NEW q \in Seq(Step), q # <<>>
    PROVE  /\ Head(q) \in Step /\ Tail(q) \in Seq(Step)
           /\ ToSet(q) = {Head(q)} \cup ToSet(Tail(q))
           /\ Last(q) \in Step /\ Front(q) \in Seq(Step)
           /\ ToSet(q) = {Last(q)} \cup ToSet(Front(q))
           /\ Len(q) \in Nat \ {0} /\ Len(Front(q)) = Len(q) - 1
           /\ \A i \in 1..(Len(q) - 1) : Front(q)[i] = q[i]
<1> DEFINE n == Len(q)
<1>1. /\ n \in Nat /\ n # 0 /\ DOMAIN q = 1..n
      /\ \A i \in 1..n : q[i] \in Step
  BY EmptySeq, LenProperties, ElementOfSeq
<1>2. /\ Head(q) = q[1] /\ Tail(q) \in Seq(Step) /\ Len(Tail(q)) = n - 1
      /\ \A i \in 1..(n - 1) : Tail(q)[i] = q[i + 1]
  BY HeadTailProperties, <1>1
<1>3. /\ Front(q) \in Seq(Step) /\ Len(Front(q)) = n - 1
      /\ \A i \in 1..(n - 1) : Front(q)[i] = q[i]
  <2>1. /\ 1 \in 1..(n + 1) /\ n - 1 \in (1 - 1)..n
    BY <1>1
  <2>2. Front(q) = SubSeq(q, 1, n - 1)
    BY DEF Front
  <2> QED  BY <1>1, <2>1, <2>2, SubSeqProperties
<1>4. DOMAIN Tail(q) = 1..(n - 1) /\ DOMAIN Front(q) = 1..(n - 1)
  BY <1>2, <1>3, LenProperties
<1>5. Head(q) \in Step /\ Last(q) \in Step /\ Last(q) = q[n]
  BY <1>1, <1>2 DEF Last
<1> HIDE DEF n
<1>6. ToSet(q) = {Head(q)} \cup ToSet(Tail(q))
  <2>1. \A i \in 1..n : i = 1 \/ (i - 1 \in 1..(n - 1) /\ Tail(q)[i - 1] = q[i])
    BY <1>1, <1>2
  <2>2. \A i \in 1..(n - 1) : i + 1 \in 1..n
    BY <1>1
  <2>3. 1 \in 1..n
    BY <1>1
  <2> DEFINE r == Tail(q)
  <2>4. /\ \A i \in DOMAIN q : q[i] = Head(q) \/ \E k \in DOMAIN r : r[k] = q[i]
        /\ \A k \in DOMAIN r : \E i \in DOMAIN q : r[k] = q[i]
        /\ \E i \in DOMAIN q : Head(q) = q[i]
    BY <1>1, <1>2, <1>4, <2>1, <2>2, <2>3
  <2> HIDE DEF r
  <2>5. ToSet(q) = {Head(q)} \cup ToSet(r)
    BY <2>4 DEF ToSet
  <2> QED  BY <2>5 DEF r
<1>7. ToSet(q) = {Last(q)} \cup ToSet(Front(q))
  <2>1. \A i \in 1..n : i = n \/ i \in 1..(n - 1)
    BY <1>1
  <2>2. \A i \in 1..(n - 1) : i \in 1..n
    BY <1>1
  <2>3. n \in 1..n
    BY <1>1
  <2> DEFINE r == Front(q)
  <2>4. /\ \A i \in DOMAIN q : q[i] = Last(q) \/ \E k \in DOMAIN r : r[k] = q[i]
        /\ \A k \in DOMAIN r : \E i \in DOMAIN q : r[k] = q[i]
        /\ \E i \in DOMAIN q : Last(q) = q[i]
    BY <1>1, <1>3, <1>4, <1>5, <2>1, <2>2, <2>3
  <2> HIDE DEF r
  <2>5. ToSet(q) = {Last(q)} \cup ToSet(r)
    BY <2>4 DEF ToSet
  <2> QED  BY <2>5 DEF r
<1> QED  BY <1>1, <1>2, <1>3, <1>5, <1>6, <1>7 DEF n

(* What holds of the second pass once some edges were looked at.           *)
Passed(seen, satisfied) ==
    /\ ~Waits(table, drawn, job.step)
    /\ \A e \in seen : ~Refuses(table, e)
    /\ satisfied > 0 <=> \E e \in seen : table[e.from].status # "skipped"

LEMMA ResolveKeeps ==
    ASSUME LoopsTypeOK, ResolveInv, Resolve
    PROVE  /\ ResolveInv'
           /\ job.call = "resolveSubtask" /\ job'.call = "resolveSubtask"
           /\ UNCHANGED <<drawn, table>>
<1> DEFINE into == Incoming(drawn, job.step)
<1>1. /\ job.call = "resolveSubtask" /\ job.answer = "none"
      /\ UNCHANGED <<drawn, table>>
  BY DEF Resolve, AgainFromTheFirst, CountSatisfied, FirstPass, SecondPass, AtWork
<1>2. /\ job \in ResolveJob /\ into # {} /\ job.left \subseteq into
      /\ into \in SUBSET EdgeType
      /\ \A e \in into \ job.left : IsTerminal(table[e.from])
      /\ job.pass = 1 => job.satisfied = 0
      /\ job.pass = 2 => Passed(into \ job.left, job.satisfied)
  BY <1>1 DEF ResolveInv, Resolved, Incoming, Passed, LoopsTypeOK
<1> DEFINE Fine(j) ==
        /\ j \in ResolveJob /\ j.step = job.step
        /\ j.answer # "none" =>
              j.answer = IF Waits(table, drawn, job.step) THEN "wait"
                         ELSE IF MustSkip(table, drawn, job.step) THEN "skip"
                         ELSE "run"
        /\ j.answer = "none" =>
              /\ j.left \subseteq into
              /\ \A e \in into \ j.left : IsTerminal(table[e.from])
              /\ j.pass = 1 => j.satisfied = 0
              /\ j.pass = 2 => Passed(into \ j.left, j.satisfied)
<1>3. SUFFICES Fine(job')
  <2>1. job'.call = "resolveSubtask"
    BY <1>3 DEF ResolveJob
  <2> QED  BY <1>1, <1>2, <1>3, <2>1
          DEF ResolveInv, Resolved, Passed, ResolutionAgrees, Answered
<1>4. ASSUME NEW e \in drawn, FirstPass(e)  PROVE Fine(job')
  <2>1. e \in into /\ job.pass = 1
    BY <1>2, <1>4 DEF FirstPass
  <2>2. CASE IsTerminal(table[e.from])
    <3>1. job' = [job EXCEPT !.left = job.left \ {e}]
      BY <1>4, <2>2 DEF FirstPass
    <3> HIDE DEF into
    <3> QED  BY <1>1, <1>2, <2>1, <2>2, <3>1 DEF ResolveJob
  <2>3. CASE ~IsTerminal(table[e.from])
    <3>1. job' = [job EXCEPT !.answer = "wait"]
      BY <1>4, <2>3 DEF FirstPass, Answering
    <3>2. Waits(table, drawn, job.step)
      BY <2>1, <2>3 DEF Waits
    <3> HIDE DEF into
    <3> QED  BY <1>2, <3>1, <3>2 DEF ResolveJob
  <2> QED  BY <2>2, <2>3
<1>5. ASSUME AgainFromTheFirst  PROVE Fine(job')
  <2>1. job' = [job EXCEPT !.pass = 2, !.left = into] /\ job.pass = 1 /\ job.left = {}
    BY <1>5 DEF AgainFromTheFirst
  <2>2. ~Waits(table, drawn, job.step)
    BY <1>2, <2>1 DEF Waits
  <2> HIDE DEF into
  <2>3. Passed({}, 0)
    BY <2>2 DEF Passed
  <2>4. /\ job' \in ResolveJob /\ job'.step = job.step /\ job'.answer = "none"
        /\ job'.left = into /\ job'.satisfied = 0 /\ job'.pass = 2
    BY <1>1, <1>2, <2>1 DEF ResolveJob
  <2>5. into \ job'.left = {}
    BY <2>4
  <2> QED  BY <2>3, <2>4, <2>5
<1>6. ASSUME NEW e \in drawn, SecondPass(e)  PROVE Fine(job')
  <2>1. e \in into /\ job.pass = 2
    BY <1>2, <1>6 DEF SecondPass
  <2>2. CASE Refuses(table, e)
    <3>1. job' = [job EXCEPT !.answer = "skip"]
      BY <1>6, <2>2 DEF SecondPass, Answering
    <3>2. ~Waits(table, drawn, job.step) /\ MustSkip(table, drawn, job.step)
      BY <1>2, <2>1, <2>2 DEF MustSkip, Passed
    <3> HIDE DEF into
    <3> QED  BY <1>2, <3>1, <3>2 DEF ResolveJob
  <2>3. CASE ~Refuses(table, e) /\ table[e.from].status = "skipped"
    <3>1. job' = [job EXCEPT !.left = job.left \ {e}]
      BY <1>6, <2>3 DEF SecondPass
    <3> HIDE DEF into
    <3>2. /\ job' \in ResolveJob /\ job'.step = job.step /\ job'.answer = "none"
          /\ job'.left = job.left \ {e} /\ job'.satisfied = job.satisfied
          /\ job'.pass = 2
      BY <1>1, <1>2, <2>1, <3>1 DEF ResolveJob
    <3>3. into \ job'.left = (into \ job.left) \cup {e}
      BY <1>2, <2>1, <3>2
    <3>4. Passed(into \ job'.left, job'.satisfied)
      BY <1>2, <2>1, <2>3, <3>2, <3>3 DEF Passed
    <3>5. IsTerminal(table[e.from])
      BY <2>3 DEF IsTerminal
    <3> QED  BY <1>2, <3>2, <3>3, <3>4, <3>5
  <2>4. CASE ~Refuses(table, e) /\ table[e.from].status # "skipped"
    <3>1. job' = [job EXCEPT !.left = job.left \ {e}, !.satisfied = job.satisfied + 1]
      BY <1>6, <2>4 DEF SecondPass
    <3>2. IsTerminal(table[e.from])
      BY <1>2, <2>1 DEF Passed, Waits
    <3> HIDE DEF into
    <3>3. /\ job' \in ResolveJob /\ job'.step = job.step /\ job'.answer = "none"
          /\ job'.left = job.left \ {e} /\ job'.satisfied = job.satisfied + 1
          /\ job'.satisfied > 0 /\ job'.pass = 2
      <4>1. job.satisfied \in Nat
        BY <1>2 DEF ResolveJob
      <4>2. job.satisfied + 1 \in Nat /\ job.satisfied + 1 > 0
        BY <4>1
      <4> DEFINE more == job.satisfied + 1
      <4>3. more \in Nat /\ job' = [job EXCEPT !.left = job.left \ {e}, !.satisfied = more]
        BY <3>1, <4>2
      <4> HIDE DEF more
      <4>4. /\ job' \in ResolveJob /\ job'.step = job.step /\ job'.answer = "none"
            /\ job'.left = job.left \ {e} /\ job'.satisfied = more /\ job'.pass = 2
        BY <1>1, <1>2, <2>1, <4>3 DEF ResolveJob
      <4> QED  BY <4>2, <4>4 DEF more
    <3>4. into \ job'.left = (into \ job.left) \cup {e}
      BY <1>2, <2>1, <3>3
    <3>5. Passed(into \ job'.left, job'.satisfied)
      BY <1>2, <2>1, <2>4, <3>3, <3>4 DEF Passed
    <3> QED  BY <1>2, <3>2, <3>3, <3>4, <3>5
  <2> QED  BY <2>2, <2>3, <2>4
<1>7. ASSUME CountSatisfied  PROVE Fine(job')
  <2>1. /\ job' = [job EXCEPT !.answer = IF job.satisfied > 0 THEN "run" ELSE "skip"]
        /\ job.pass = 2 /\ job.left = {}
    BY <1>7 DEF CountSatisfied, Answering
  <2>2. Passed(into, job.satisfied)
    <3> HIDE DEF into
    <3>1. into \ job.left = into
      BY <2>1
    <3> QED  BY <1>2, <2>1, <3>1
  <2>3. /\ ~Waits(table, drawn, job.step)
        /\ MustSkip(table, drawn, job.step) <=> ~(job.satisfied > 0)
    BY <1>2, <2>2 DEF Passed, MustSkip
  <2> HIDE DEF into
  <2>4. /\ job' \in ResolveJob /\ job'.step = job.step
        /\ job'.answer = IF job.satisfied > 0 THEN "run" ELSE "skip"
    BY <1>2, <2>1 DEF ResolveJob
  <2> QED  BY <2>3, <2>4
<1> HIDE DEF Fine
<1> QED  BY <1>4, <1>5, <1>6, <1>7 DEF Resolve

(* Skipping steps of the cascade, one after the other.                     *)
LEMMA SkippedOneByOne ==
    ASSUME NEW old \in [Step -> Row], NEW K \in SUBSET Pending(old)
    PROVE  /\ SkippedIn(old, Skipping(old, K)) = K
           /\ \A s \in Pending(old) :
                 Skipping(Skipping(old, K), {s}) = Skipping(old, K \cup {s})
<1>1. Pending(old) \subseteq Step
  BY DEF Pending
<1>2. \A s \in Pending(old) : s \in K <=> Skipping(old, K)[s].status = "skipped"
  <2> SUFFICES ASSUME NEW s \in Pending(old)
               PROVE  s \in K <=> Skipping(old, K)[s].status = "skipped"
    OBVIOUS
  <2> QED  BY <1>1, SkippingRows DEF Pending
<1>3. ASSUME NEW s \in Pending(old)
      PROVE  Skipping(Skipping(old, K), {s}) = Skipping(old, K \cup {s})
  <2> DEFINE some == Skipping(old, K)
  <2>1. some \in [Step -> Row]
    BY DEF Skipping, Row, Status
  <2>2. ASSUME NEW t \in Step
        PROVE  [some[t] EXCEPT !.status = "skipped", !.result = NoOutcome]
                  = [old[t] EXCEPT !.status = "skipped", !.result = NoOutcome]
    BY <2>1 DEF Skipping, Row
  <2>3. ASSUME NEW t \in Step
        PROVE  Skipping(some, {s})[t] = Skipping(old, K \cup {s})[t]
    BY <2>1, <2>2 DEF Skipping
  <2> QED  BY <2>3 DEF Skipping
<1> QED  BY <1>2, <1>3 DEF SkippedIn

LEMMA CascadeKeeps ==
    ASSUME LoopsTypeOK, CascadeInv, Cascade
    PROVE  /\ CascadeInv' /\ LoopsTypeOK'
           /\ job.call = "advanceLocked" /\ job'.call = "advanceLocked"
           /\ UNCHANGED drawn
<1> DEFINE old == job.before
           steps == Skippable(old, drawn)
           J == SkippedIn(old, job.listed)
           K == SkippedIn(old, table)
<1>1. /\ job.call = "advanceLocked" /\ job.answer = "none" /\ UNCHANGED drawn
      /\ drawn \in SUBSET EdgeType /\ table \in [Step -> Row]
  BY DEF Cascade, PassOver, Decide, AtWork, LoopsTypeOK
<1>2. /\ job \in CascadeJob /\ old \in [Step -> Row]
      /\ OfCascade(old, table) /\ OfCascade(old, job.listed)
      /\ job.left \subseteq Pending(job.listed)
      /\ ~job.skippedAny => /\ table = job.listed
                            /\ \A s \in Pending(table) \ job.left :
                                  ~MustSkip(table, drawn, s)
  BY <1>1 DEF CascadeInv, CascadeJob
<1>3. /\ steps \in SUBSET Pending(old)
      /\ J \in SUBSET steps /\ K \in SUBSET steps
      /\ job.listed = Skipping(old, J) /\ table = Skipping(old, K)
  BY <1>2 DEF Skippable, OfCascade
<1> DEFINE Fine(j, tb) ==
        /\ j \in CascadeJob /\ j.before = old
        /\ tb \in [Step -> Row]
        /\ OfCascade(old, tb) /\ OfCascade(old, j.listed)
        /\ j.left \subseteq Pending(j.listed)
        /\ ~j.skippedAny => /\ tb = j.listed
                            /\ \A s \in Pending(tb) \ j.left : ~MustSkip(tb, drawn, s)
        /\ j.answer = "over" => ~j.skippedAny /\ j.left = {}
<1> HIDE DEF old, steps, J, K
<1>4. SUFFICES Fine(job', table')
  <2>1. job'.call = "advanceLocked"
    BY <1>4 DEF CascadeJob
  <2> QED  BY <1>1, <1>4, <2>1 DEF CascadeInv, OfCascade, LoopsTypeOK, old
<1>5. ASSUME NEW s \in Step, Decide(s), MustSkip(job.listed, drawn, s)
      PROVE  Fine(job', table')
  <2>1. /\ table' = Skipping(table, {s}) /\ s \in job.left
        /\ job' = [job EXCEPT !.left = job.left \ {s}, !.skippedAny = TRUE]
    BY <1>5 DEF Decide
  <2>2. s \in steps
    <3>1. s \in Pending(Skipping(old, J)) /\ MustSkip(Skipping(old, J), drawn, s)
      BY <1>2, <1>3, <1>5, <2>1
    <3> QED  BY <1>1, <1>2, <1>3, <3>1, PassesReachTheCascade DEF steps
  <2> DEFINE L == K \cup {s}
  <2>3. L \in SUBSET steps /\ L \in SUBSET Pending(old) /\ K \in SUBSET Pending(old)
    BY <1>3, <2>2
  <2>4. table' = Skipping(old, L)
    BY <1>2, <1>3, <2>1, <2>2, <2>3, SkippedOneByOne
  <2> HIDE DEF L
  <2>5. OfCascade(old, table')
    <3>1. SkippedIn(old, table') = L
      BY <1>2, <2>3, <2>4, SkippedOneByOne
    <3> QED  BY <2>3, <2>4, <3>1 DEF OfCascade, steps
  <2>6. /\ job' \in CascadeJob /\ job'.before = old /\ job'.listed = job.listed
        /\ job'.left \subseteq job.left /\ job'.skippedAny /\ job'.answer = "none"
    BY <1>1, <1>2, <2>1 DEF CascadeJob, old
  <2>7. table' \in [Step -> Row]
    BY <1>1, <2>1 DEF Skipping, Row, Status
  <2> QED  BY <1>2, <2>5, <2>6, <2>7
<1>6. ASSUME NEW s \in Step, Decide(s), ~MustSkip(job.listed, drawn, s)
      PROVE  Fine(job', table')
  <2>1. table' = table /\ job' = [job EXCEPT !.left = job.left \ {s}]
    BY <1>6 DEF Decide
  <2>2. /\ job' \in CascadeJob /\ job'.before = old /\ job'.listed = job.listed
        /\ job'.left = job.left \ {s} /\ job'.skippedAny = job.skippedAny
        /\ job'.answer = "none"
    BY <1>1, <1>2, <2>1 DEF CascadeJob, old
  <2> QED  BY <1>1, <1>2, <1>6, <2>1, <2>2
<1>7. ASSUME PassOver  PROVE Fine(job', table')
  <2>1. table' = table /\ job.left = {}
    BY <1>7 DEF PassOver
  <2>2. CASE job.skippedAny
    <3> DEFINE again == Pending(table)
    <3>1. job' = [job EXCEPT !.listed = table, !.left = again, !.skippedAny = FALSE]
      BY <1>7, <2>2 DEF PassOver
    <3>2. again \in SUBSET Step
      BY DEF Pending
    <3> HIDE DEF again
    <3>3. /\ job' \in CascadeJob /\ job'.before = old /\ job'.listed = table
          /\ job'.left = again /\ job'.answer = "none"
      BY <1>1, <1>2, <3>1, <3>2 DEF CascadeJob, old
    <3> QED  BY <1>1, <1>2, <2>1, <3>3 DEF again
  <2>3. CASE ~job.skippedAny
    <3>1. job' = [job EXCEPT !.answer = "over"]
      BY <1>7, <2>3 DEF PassOver, Answering
    <3>2. /\ job' \in CascadeJob /\ job'.before = old /\ job'.listed = job.listed
          /\ job'.left = job.left /\ job'.skippedAny = job.skippedAny
      BY <1>2, <3>1 DEF CascadeJob, old
    <3> QED  BY <1>1, <1>2, <2>1, <2>3, <3>2
  <2> QED  BY <2>2, <2>3
<1> HIDE DEF Fine
<1> QED  BY <1>5, <1>6, <1>7 DEF Cascade

(* When it answers, the rows are those of SkipCascade.                     *)
LEMMA CascadeEnds ==
    ASSUME LoopsTypeOK, CascadeInv
    PROVE  CascadeAgrees
<1> SUFFICES ASSUME Answered("advanceLocked")
             PROVE  /\ table = SkipCascade(job.before, drawn)
                    /\ \A s \in Pending(table) : ~MustSkip(table, drawn, s)
  BY DEF CascadeAgrees
<1> DEFINE K == SkippedIn(job.before, table)
<1>1. job \in CascadeJob /\ job.answer = "over"
  BY DEF CascadeInv, CascadeJob, Answered
<1>2. \A s \in Pending(table) : ~MustSkip(table, drawn, s)
  BY <1>1 DEF CascadeInv, Answered
<1>3. /\ job.before \in [Step -> Row] /\ K \in SUBSET Skippable(job.before, drawn)
      /\ table = Skipping(job.before, K)
  BY <1>1 DEF CascadeInv, CascadeJob, OfCascade, Answered
<1> HIDE DEF K
<1>4. table = SkipCascade(job.before, drawn)
  BY <1>2, <1>3, PassesReachTheCascade DEF LoopsTypeOK
<1> QED  BY <1>2, <1>4

LEMMA DescendKeeps ==
    ASSUME LoopsTypeOK, DescendInv, Descend
    PROVE  /\ DescendInv'
           /\ job.call = "getDownstreamSubtaskIds" /\ job'.call = "getDownstreamSubtaskIds"
           /\ UNCHANGED <<drawn, table>>
<1> DEFINE Fine(j) ==
        /\ j \in DescendJob /\ j.step = job.step
        /\ j.seen = {job.step} \cup ToSet(j.order)
        /\ job.step \notin ToSet(j.order) /\ IsInjective(j.order)
        /\ j.seen \subseteq Reach(drawn, job.step)
        /\ ToSet(j.queue) \subseteq j.seen
        /\ \A e \in drawn \ j.left : e.from \in j.seen
        /\ \A e \in drawn : e.from \in j.seen /\ e.to \notin j.seen =>
              e \in j.left /\ e.from \in ToSet(j.queue)
        /\ j.answer = "over" => j.queue = <<>>
<1>1. /\ job.call = "getDownstreamSubtaskIds" /\ job.answer = "none"
      /\ UNCHANGED <<drawn, table>> /\ drawn \in SUBSET EdgeType
  BY DEF Descend, Look, Shift, QueueEmpty, AtWork, LoopsTypeOK
<1>2. Fine(job)
  BY <1>1 DEF DescendInv
<1>3. SUFFICES Fine(job')
  <2>1. job'.call = "getDownstreamSubtaskIds"
    BY <1>3 DEF DescendJob
  <2> QED  BY <1>1, <1>3, <2>1 DEF DescendInv
<1>4. job \in DescendJob /\ job.queue \in Seq(Step) /\ job.order \in Seq(Step)
  BY <1>2 DEF DescendJob
<1>5. ASSUME NEW e \in drawn, Look(e), e.to \in job.seen  PROVE Fine(job')
  <2>1. job' = [job EXCEPT !.left = job.left \ {e}]
    BY <1>5 DEF Look
  <2>2. /\ job' \in DescendJob /\ job'.step = job.step /\ job'.seen = job.seen
        /\ job'.order = job.order /\ job'.queue = job.queue /\ job'.answer = job.answer
        /\ job'.left = job.left \ {e}
    BY <1>4, <2>1 DEF DescendJob
  <2> HIDE DEF Fine
  <2>3. /\ \A d \in drawn : d.from \in job.seen /\ d.to \notin job.seen => d # e
        /\ e.from \in job.seen
    <3>1. e.from \in ToSet(job.queue)
      BY <1>4, <1>5, TakenOff DEF Look
    <3> QED  BY <1>2, <1>5, <3>1 DEF Fine
  <2> QED  BY <1>2, <2>2, <2>3 DEF Fine
<1>6. ASSUME NEW e \in drawn, Look(e), e.to \notin job.seen  PROVE Fine(job')
  <2> DEFINE ord == Append(job.order, e.to)
             que == Append(job.queue, e.to)
  <2>1. /\ job' = [job EXCEPT !.left = job.left \ {e}, !.seen = job.seen \cup {e.to},
                              !.order = ord, !.queue = que]
        /\ e.from = Head(job.queue) /\ job.queue # <<>>
    BY <1>6 DEF Look
  <2>2. e.to \in Step /\ e.from \in job.seen
    <3>1. e.from \in ToSet(job.queue)
      BY <1>4, <2>1, TakenOff
    <3> QED  BY <1>1, <1>2, <3>1 DEF EdgeType
  <2>3. /\ ord \in Seq(Step) /\ ToSet(ord) = ToSet(job.order) \cup {e.to}
        /\ IsInjective(ord)
    BY <1>2, <1>4, <1>6, <2>2, Appended
  <2>4. que \in Seq(Step) /\ ToSet(que) = ToSet(job.queue) \cup {e.to}
    BY <1>4, <2>2, Appended
  <2> HIDE DEF ord, que
  <2>5. /\ job' \in DescendJob /\ job'.step = job.step /\ job'.seen = job.seen \cup {e.to}
        /\ job'.order = ord /\ job'.queue = que /\ job'.answer = job.answer
        /\ job'.left = job.left \ {e}
    BY <1>4, <2>1, <2>2, <2>3, <2>4 DEF DescendJob
  <2>6. e.to \in Reach(drawn, job.step)
    <3>1. job.step \in Step
      BY <1>4 DEF DescendJob
    <3>2. ForwardClosed(drawn, Reach(drawn, job.step))
      BY <1>1, <3>1, ReachClosed DEF EdgeType
    <3> QED  BY <1>2, <2>2, <3>2 DEF ForwardClosed
  <2>7. /\ job'.seen = {job.step} \cup ToSet(job'.order)
        /\ job.step \notin ToSet(job'.order)
        /\ job'.seen \subseteq Reach(drawn, job.step)
        /\ ToSet(job'.queue) \subseteq job'.seen
    BY <1>2, <1>6, <2>3, <2>4, <2>5, <2>6
  <2>8. \A d \in drawn \ job'.left : d.from \in job'.seen
    BY <1>2, <2>2, <2>5
  <2>9. ASSUME NEW d \in drawn, d.from \in job'.seen, d.to \notin job'.seen
        PROVE  d \in job'.left /\ d.from \in ToSet(job'.queue)
    <3>1. d # e /\ d.to \notin job.seen
      BY <2>5, <2>9
    <3>2. CASE d.from \in job.seen
      BY <1>2, <2>4, <2>5, <3>1, <3>2
    <3>3. CASE d.from \notin job.seen
      BY <1>2, <2>4, <2>5, <2>9, <3>1, <3>3
    <3> QED  BY <3>2, <3>3
  <2> QED  BY <1>1, <2>3, <2>5, <2>7, <2>8, <2>9
<1>7. ASSUME Shift  PROVE Fine(job')
  <2> DEFINE que == Tail(job.queue)
  <2>1. /\ job' = [job EXCEPT !.queue = que] /\ job.queue # <<>>
        /\ \A e \in job.left : e.from # Head(job.queue)
    BY <1>7 DEF Shift
  <2>2. que \in Seq(Step) /\ ToSet(job.queue) = {Head(job.queue)} \cup ToSet(que)
    BY <1>4, <2>1, TakenOff
  <2> HIDE DEF que
  <2>3. /\ job' \in DescendJob /\ job'.step = job.step /\ job'.seen = job.seen
        /\ job'.order = job.order /\ job'.queue = que /\ job'.answer = job.answer
        /\ job'.left = job.left
    BY <1>4, <2>1, <2>2 DEF DescendJob
  <2> QED  BY <1>1, <1>2, <2>1, <2>2, <2>3
<1>8. ASSUME QueueEmpty  PROVE Fine(job')
  <2>1. job' = [job EXCEPT !.answer = "over"] /\ job.queue = <<>>
    BY <1>8 DEF QueueEmpty, Answering
  <2>2. /\ job' \in DescendJob /\ job'.step = job.step /\ job'.seen = job.seen
        /\ job'.order = job.order /\ job'.queue = job.queue /\ job'.left = job.left
    BY <1>4, <2>1 DEF DescendJob
  <2> QED  BY <1>2, <2>1, <2>2
<1> HIDE DEF Fine
<1> QED  BY <1>5, <1>6, <1>7, <1>8 DEF Descend

LEMMA DescendEnds ==
    ASSUME LoopsTypeOK, DescendInv
    PROVE  DownstreamAgrees
<1> SUFFICES ASSUME Answered("getDownstreamSubtaskIds")
             PROVE  /\ ToSet(job.order) = Downstream(drawn, job.step)
                    /\ IsInjective(job.order)
  BY DEF DownstreamAgrees
<1>1. /\ job \in DescendJob /\ job.queue = <<>>
      /\ job.seen = {job.step} \cup ToSet(job.order)
      /\ job.step \notin ToSet(job.order) /\ IsInjective(job.order)
      /\ job.seen \subseteq Reach(drawn, job.step)
      /\ \A e \in drawn : e.from \in job.seen /\ e.to \notin job.seen =>
              e.from \in ToSet(job.queue)
  BY DEF DescendInv, DescendJob, Answered
<1>2. ToSet(job.queue) = {}
  BY <1>1 DEF ToSet
<1>3. ForwardClosed(drawn, job.seen) /\ job.seen \in SUBSET Step /\ job.step \in Step
  BY <1>1, <1>2 DEF ForwardClosed, DescendJob
<1>4. job.seen = Reach(drawn, job.step)
  BY <1>1, <1>3, ReachLeast
<1> QED  BY <1>1, <1>4 DEF Downstream

LEMMA CheckEdgeKeeps ==
    ASSUME LoopsTypeOK, CheckInv, CheckEdge
    PROVE  /\ CheckInv'
           /\ job.call = "wouldCreateCycle" /\ job'.call = "wouldCreateCycle"
           /\ UNCHANGED <<drawn, table>>
<1> DEFINE Fine(j) ==
        /\ j \in CheckJob /\ j.new = job.new
        /\ j.goal = j.new.from
        /\ ToSet(j.stack) \cup j.seen \subseteq Reach(drawn, job.new.to)
        /\ j.goal \notin j.seen
        /\ j.new.to \in j.seen \cup ToSet(j.stack)
        /\ \A e \in drawn \ j.left : e.from \in j.seen
        /\ \A e \in drawn : e.from \in j.seen =>
              e \in j.left \/ e.to \in j.seen \cup ToSet(j.stack)
        /\ j.answer = "true" => j.goal \in Reach(drawn, job.new.to)
        /\ j.answer = "false" =>
              j.stack = <<>> /\ \A e \in j.left : e.from \notin j.seen
<1>1. /\ job.call = "wouldCreateCycle" /\ job.answer = "none"
      /\ UNCHANGED <<drawn, table>> /\ drawn \in SUBSET EdgeType
  BY DEF CheckEdge, Push, Pop, StackEmpty, AtWork, LoopsTypeOK
<1>2. Fine(job)
  BY <1>1 DEF CheckInv
<1>3. SUFFICES Fine(job')
  <2>1. job'.call = "wouldCreateCycle"
    BY <1>3 DEF CheckJob
  <2> QED  BY <1>1, <1>3, <2>1 DEF CheckInv
<1>4. job \in CheckJob /\ job.stack \in Seq(Step) /\ job.new.to \in Step
  BY <1>2 DEF CheckJob, EdgeType
<1>5. ForwardClosed(drawn, Reach(drawn, job.new.to))
  BY <1>1, <1>4, ReachClosed DEF EdgeType
<1>6. ASSUME NEW e \in drawn, Push(e)  PROVE Fine(job')
  <2> DEFINE stk == Append(job.stack, e.to)
  <2>1. /\ job' = [job EXCEPT !.left = job.left \ {e}, !.stack = stk]
        /\ e.from \in job.seen
    BY <1>6 DEF Push
  <2>2. stk \in Seq(Step) /\ ToSet(stk) = ToSet(job.stack) \cup {e.to}
    BY <1>1, <1>4, Appended DEF EdgeType
  <2>3. e.to \in Reach(drawn, job.new.to)
    BY <1>2, <1>5, <2>1 DEF ForwardClosed
  <2> HIDE DEF stk
  <2>4. /\ job' \in CheckJob /\ job'.new = job.new /\ job'.goal = job.goal
        /\ job'.stack = stk /\ job'.seen = job.seen /\ job'.answer = "none"
        /\ job'.left = job.left \ {e}
    BY <1>1, <1>4, <2>1, <2>2 DEF CheckJob
  <2>5. \A d \in drawn \ job'.left : d.from \in job'.seen
    BY <1>2, <2>1, <2>4
  <2>6. ASSUME NEW d \in drawn, d.from \in job'.seen
        PROVE  d \in job'.left \/ d.to \in job'.seen \cup ToSet(job'.stack)
    BY <1>2, <2>2, <2>4, <2>6
  <2> QED  BY <1>2, <2>2, <2>3, <2>4, <2>5, <2>6
<1>7. ASSUME Pop, Last(job.stack) = job.goal  PROVE Fine(job')
  <2>1. job' = [job EXCEPT !.answer = "true"] /\ job.stack # <<>>
    BY <1>7 DEF Pop, Answering
  <2>2. /\ job' \in CheckJob /\ job'.new = job.new /\ job'.goal = job.goal
        /\ job'.stack = job.stack /\ job'.seen = job.seen /\ job'.answer = "true"
        /\ job'.left = job.left
    BY <1>4, <2>1 DEF CheckJob
  <2>3. job.goal \in ToSet(job.stack)
    BY <1>4, <1>7, <2>1, TakenOff
  <2>4. job.goal \in Reach(drawn, job.new.to)
    BY <1>2, <2>3
  <2> QED  BY <1>2, <2>2, <2>4
<1>8. ASSUME Pop, Last(job.stack) # job.goal  PROVE Fine(job')
  <2> DEFINE top == Last(job.stack)
             stk == Front(job.stack)
  <2>1. /\ job' = [job EXCEPT !.stack = stk, !.seen = job.seen \cup {top}]
        /\ job.stack # <<>> /\ \A e \in job.left : e.from \notin job.seen
    BY <1>8 DEF Pop
  <2>2. /\ stk \in Seq(Step) /\ top \in Step
        /\ ToSet(job.stack) = {top} \cup ToSet(stk)
    BY <1>4, <2>1, TakenOff
  <2> HIDE DEF stk, top
  <2>3. /\ job' \in CheckJob /\ job'.new = job.new /\ job'.goal = job.goal
        /\ job'.stack = stk /\ job'.seen = job.seen \cup {top} /\ job'.answer = "none"
        /\ job'.left = job.left
    BY <1>1, <1>4, <2>1, <2>2 DEF CheckJob
  <2>4. top # job.goal
    BY <1>8 DEF top
  <2>5. job'.seen \cup ToSet(job'.stack) = job.seen \cup ToSet(job.stack)
    BY <2>2, <2>3
  <2>6. \A d \in drawn \ job'.left : d.from \in job'.seen
    BY <1>2, <2>3
  <2>7. ASSUME NEW d \in drawn, d.from \in job'.seen
        PROVE  d \in job'.left \/ d.to \in job'.seen \cup ToSet(job'.stack)
    <3>1. CASE d \in job.left
      BY <2>3, <3>1
    <3>2. CASE d \notin job.left
      BY <1>2, <2>5, <3>2
    <3> QED  BY <3>1, <3>2
  <2> QED  BY <1>2, <2>3, <2>4, <2>5, <2>6, <2>7
<1>9. ASSUME StackEmpty  PROVE Fine(job')
  <2>1. /\ job' = [job EXCEPT !.answer = "false"] /\ job.stack = <<>>
        /\ \A e \in job.left : e.from \notin job.seen
    BY <1>9 DEF StackEmpty, Answering
  <2>2. /\ job' \in CheckJob /\ job'.new = job.new /\ job'.goal = job.goal
        /\ job'.stack = job.stack /\ job'.seen = job.seen /\ job'.answer = "false"
        /\ job'.left = job.left
    BY <1>4, <2>1 DEF CheckJob
  <2> QED  BY <1>2, <2>1, <2>2
<1> HIDE DEF Fine
<1> QED  BY <1>6, <1>7, <1>8, <1>9 DEF CheckEdge

LEMMA CheckEdgeEnds ==
    ASSUME LoopsTypeOK, CheckInv
    PROVE  CycleCheckExact
<1> SUFFICES ASSUME Answered("wouldCreateCycle")
             PROVE  LET refused == job.answer = "true" IN
                    /\ refused <=> WouldCreateCycle(drawn, job.new)
                    /\ Acyclic(drawn) => (refused <=> ~Acyclic(drawn \cup {job.new}))
  BY DEF CycleCheckExact
<1>1. /\ job \in CheckJob /\ job.call = "wouldCreateCycle"
      /\ job.new \in EdgeType /\ job.new.to \in Step /\ job.goal = job.new.from
      /\ drawn \in SUBSET EdgeType
      /\ job.answer \in {"true", "false"}
  BY DEF CheckInv, CheckJob, Answered, EdgeType, LoopsTypeOK
<1>2. ASSUME job.answer = "false"  PROVE job.goal \notin Reach(drawn, job.new.to)
  <2>1. /\ job.stack = <<>> /\ \A e \in job.left : e.from \notin job.seen
        /\ job.goal \notin job.seen
        /\ job.new.to \in job.seen \cup ToSet(job.stack)
        /\ \A e \in drawn : e.from \in job.seen =>
              e \in job.left \/ e.to \in job.seen \cup ToSet(job.stack)
    BY <1>1, <1>2 DEF CheckInv
  <2>2. ToSet(job.stack) = {}
    BY <2>1 DEF ToSet
  <2>3. ForwardClosed(drawn, job.seen) /\ job.new.to \in job.seen /\ job.seen \in SUBSET Step
    BY <1>1, <2>1, <2>2 DEF ForwardClosed, CheckJob
  <2> QED  BY <1>1, <2>1, <2>3, ReachLeast
<1>3. ASSUME job.answer = "true"  PROVE job.goal \in Reach(drawn, job.new.to)
  BY <1>1, <1>3 DEF CheckInv
<1>4. job.answer = "true" <=> WouldCreateCycle(drawn, job.new)
  BY <1>1, <1>2, <1>3 DEF WouldCreateCycle
<1>5. Acyclic(drawn) =>
        (WouldCreateCycle(drawn, job.new) <=> ~Acyclic(drawn \cup {job.new}))
  BY <1>1, EdgeCheckIsExact
<1> QED  BY <1>4, <1>5

(* A visit begins: the step goes on the stack.                             *)
LEMMA EnterStack ==
    ASSUME LoopsTypeOK, NEW state \in Visits, NEW stack \in Seq(Step), NEW s \in Step,
           StackInv(state, stack), state[s] = "new",
           stack # <<>> => Linked(Last(stack), s)
    PROVE  StackInv([state EXCEPT ![s] = "visiting"], Append(stack, s))
<1> DEFINE n == Len(stack)
           st == [state EXCEPT ![s] = "visiting"]
           stk == Append(stack, s)
<1>1. /\ n \in Nat /\ DOMAIN stack = 1..n /\ stk \in Seq(Step) /\ DOMAIN stk = 1..(n + 1)
      /\ \A i \in 1..n : stk[i] = stack[i] /\ stack[i] \in Step
      /\ stk[n + 1] = s /\ Len(stk) = n + 1
  BY AppendProperties, LenProperties, ElementOfSeq
<1>2. st[s] = "visiting" /\ \A t \in Step : t # s => st[t] = state[t]
  BY DEF Visits
<1>3. /\ \A i \in 1..n : state[stack[i]] = "visiting"
      /\ \A t \in Step : state[t] = "visiting" => \E i \in 1..n : stack[i] = t
      /\ \A i, k \in 1..n : stack[i] = stack[k] => i = k
      /\ \A i \in 1..n : i + 1 \in 1..n => Linked(stack[i], stack[i + 1])
      /\ \A i, k \in 1..n : i <= k => stack[k] \in Reach(drawn, stack[i])
  BY <1>1 DEF StackInv, IsInjective
<1>4. \A i \in 1..(n + 1) : i \in 1..n \/ i = n + 1
  BY <1>1
<1>5. n # 0 => Linked(stack[n], s)
  BY <1>1 DEF Last
<1> HIDE DEF st, stk, n
<1>6. \A i \in 1..(n + 1) : st[stk[i]] = "visiting"
  BY <1>1, <1>2, <1>3, <1>4
<1>7. ASSUME NEW t \in Step, st[t] = "visiting"
      PROVE  \E i \in 1..(n + 1) : stk[i] = t
  <2>1. CASE t = s
    BY <1>1, <2>1
  <2>2. CASE t # s
    <3>1. PICK i \in 1..n : stack[i] = t
      BY <1>2, <1>3, <1>7, <2>2
    <3>2. i \in 1..(n + 1)
      BY <1>1
    <3> QED  BY <1>1, <3>1, <3>2
  <2> QED  BY <2>1, <2>2
<1>8. \A i, k \in 1..(n + 1) : stk[i] = stk[k] => i = k
  <2>1. \A i \in 1..n : stk[i] # s
    BY <1>1, <1>3
  <2> QED  BY <1>1, <1>3, <1>4, <2>1
<1>9. ASSUME NEW i \in 1..(n + 1), i + 1 \in 1..(n + 1)
      PROVE  Linked(stk[i], stk[i + 1])
  <2>1. i \in 1..n /\ (i + 1 \in 1..n \/ i = n)
    BY <1>1, <1>9
  <2>2. CASE i + 1 \in 1..n
    BY <1>1, <1>3, <2>1, <2>2
  <2>3. CASE i = n
    <3>1. n # 0
      BY <2>1, <2>3
    <3> QED  BY <1>1, <1>5, <2>1, <2>3, <3>1
  <2> QED  BY <2>1, <2>2, <2>3
<1>10. ASSUME NEW i \in 1..(n + 1), NEW k \in 1..(n + 1), i <= k
       PROVE  stk[k] \in Reach(drawn, stk[i])
  <2>1. CASE k \in 1..n
    <3>1. i \in 1..n
      BY <1>1, <1>10, <2>1
    <3> QED  BY <1>1, <1>3, <1>10, <2>1, <3>1
  <2>2. CASE k = n + 1 /\ i = n + 1
    BY <1>1, <2>2, ReachClosed
  <2>3. CASE k = n + 1 /\ i \in 1..n
    <3>1. n \in 1..n /\ i <= n /\ n # 0
      BY <1>1, <2>3
    <3>2. stack[n] \in Reach(drawn, stack[i]) /\ stack[i] \in Step
      BY <1>1, <1>3, <2>3, <3>1
    <3>3. ForwardClosed(drawn, Reach(drawn, stack[i]))
      BY <3>2, ReachClosed DEF LoopsTypeOK, EdgeType
    <3>4. s \in Reach(drawn, stack[i])
      BY <1>5, <3>1, <3>2, <3>3 DEF Linked, ForwardClosed
    <3> QED  BY <1>1, <2>3, <3>4
  <2> QED  BY <1>4, <2>1, <2>2, <2>3
<1> QED  BY <1>1, <1>6, <1>7, <1>8, <1>9, <1>10 DEF StackInv, IsInjective, st, stk

LEMMA EnterDone ==
    ASSUME NEW state \in Visits, NEW stack \in Seq(Step), NEW s \in Step,
           NEW left, NEW less,
           drawn \in SUBSET EdgeType,
           StackInv(state, stack), DoneInv(state, stack, left), state[s] = "new",
           less \subseteq left,
           \A e \in left \ less : /\ stack # <<>> /\ e.from = Last(stack)
                                  /\ e.to = s
    PROVE  DoneInv([state EXCEPT ![s] = "visiting"], Append(stack, s), less)
<1> DEFINE n == Len(stack)
           st == [state EXCEPT ![s] = "visiting"]
           stk == Append(stack, s)
<1>1. /\ n \in Nat /\ DOMAIN stack = 1..n /\ DOMAIN stk = 1..(n + 1)
      /\ \A i \in 1..n : stk[i] = stack[i] /\ stack[i] \in Step
      /\ stk[n + 1] = s
  BY AppendProperties, LenProperties, ElementOfSeq
<1>2. st[s] = "visiting" /\ \A t \in Step : t # s => st[t] = state[t]
  BY DEF Visits
<1>3. /\ \A i \in 1..n : state[stack[i]] = "visiting"
      /\ \A i, k \in 1..n : stack[i] = stack[k] => i = k
  BY <1>1 DEF StackInv, IsInjective
<1>4. \A e \in left \ less : n \in 1..n /\ e.from = stack[n] /\ e.to = s
  BY <1>1, EmptySeq DEF Last
<1>5. \A e \in drawn : e.from \in Step /\ e.to \in Step
  BY DEF EdgeType
<1>6. /\ \A e \in drawn \ left : state[e.from] # "new"
      /\ \A i \in 1..n : \A e \in drawn \ left :
            e.from = stack[i] => \/ state[e.to] = "done"
                                 \/ i + 1 \in 1..n /\ e.to = stack[i + 1]
      /\ \A e \in drawn : state[e.from] = "done" =>
            state[e.to] = "done" /\ e.from \notin Reach(drawn, e.to)
  BY <1>1 DEF DoneInv
<1> HIDE DEF st, stk, n
<1>7. ASSUME NEW e \in drawn \ less  PROVE state[e.from] # "new"
  <2>1. CASE e \in left
    BY <1>3, <1>4, <1>7, <2>1
  <2>2. CASE e \notin left
    BY <1>6, <2>2
  <2> QED  BY <2>1, <2>2
<1>8. \A e \in drawn \ less : st[e.from] # "new"
  BY <1>2, <1>5, <1>7
<1>9. ASSUME NEW i \in 1..(n + 1), NEW e \in drawn \ less, e.from = stk[i]
      PROVE  st[e.to] = "done" \/ (i + 1 \in 1..(n + 1) /\ e.to = stk[i + 1])
  <2>1. i \in 1..n
    BY <1>1, <1>7, <1>9
  <2>2. CASE e \in left
    <3>1. i = n /\ e.to = s
      BY <1>1, <1>3, <1>4, <1>9, <2>1, <2>2
    <3> QED  BY <1>1, <3>1
  <2>3. CASE e \notin left
    <3>1. state[e.to] = "done" \/ (i + 1 \in 1..n /\ e.to = stack[i + 1])
      BY <1>1, <1>6, <1>9, <2>1, <2>3
    <3>2. ASSUME i + 1 \in 1..n  PROVE i + 1 \in 1..(n + 1) /\ stk[i + 1] = stack[i + 1]
      BY <1>1, <3>2
    <3> QED  BY <1>2, <1>5, <3>1, <3>2
  <2> QED  BY <2>2, <2>3
<1>10. ASSUME NEW e \in drawn, st[e.from] = "done"
       PROVE  st[e.to] = "done" /\ e.from \notin Reach(drawn, e.to)
  BY <1>2, <1>5, <1>6, <1>10
<1>11. DoneInv(st, stk, less)
  <2>1. \A i \in DOMAIN stk : \A e \in drawn \ less :
          e.from = stk[i] => \/ st[e.to] = "done"
                             \/ i + 1 \in DOMAIN stk /\ e.to = stk[i + 1]
    BY <1>1, <1>9
  <2> QED  BY <1>8, <1>10, <2>1 DEF DoneInv
<1> QED  BY <1>11 DEF st, stk

(* A visit is over: the step comes off the stack and is done.              *)
LEMMA LeaveKeeps ==
    ASSUME LoopsTypeOK, NEW state \in Visits, NEW stack \in Seq(Step), NEW left,
           StackInv(state, stack), DoneInv(state, stack, left), stack # <<>>,
           \A e \in left : e.from # Last(stack)
    PROVE  LET st == [state EXCEPT ![Last(stack)] = "done"] IN
           StackInv(st, Front(stack)) /\ DoneInv(st, Front(stack), left)
<1> DEFINE n == Len(stack)
           top == Last(stack)
           st == [state EXCEPT ![top] = "done"]
           stk == Front(stack)
<1>1. /\ n \in Nat \ {0} /\ DOMAIN stack = 1..n /\ stk \in Seq(Step)
      /\ Len(stk) = n - 1 /\ top \in Step
      /\ \A i \in 1..(n - 1) : stk[i] = stack[i]
  BY TakenOff, LenProperties
<1>2. /\ DOMAIN stk = 1..(n - 1) /\ top = stack[n]
      /\ \A i \in 1..n : stack[i] \in Step
  BY <1>1, LenProperties, ElementOfSeq DEF Last
<1>3. st[top] = "done" /\ \A t \in Step : t # top => st[t] = state[t]
  BY <1>1 DEF Visits
<1>4. /\ \A i \in 1..n : state[stack[i]] = "visiting"
      /\ \A t \in Step : state[t] = "visiting" => \E i \in 1..n : stack[i] = t
      /\ \A i, k \in 1..n : stack[i] = stack[k] => i = k
      /\ \A i \in 1..n : i + 1 \in 1..n => Linked(stack[i], stack[i + 1])
      /\ \A i, k \in 1..n : i <= k => stack[k] \in Reach(drawn, stack[i])
  BY <1>1 DEF StackInv, IsInjective
<1>5. /\ \A e \in drawn \ left : state[e.from] # "new"
      /\ \A i \in 1..n : \A e \in drawn \ left :
            e.from = stack[i] => \/ state[e.to] = "done"
                                 \/ i + 1 \in 1..n /\ e.to = stack[i + 1]
      /\ \A e \in drawn : state[e.from] = "done" =>
            state[e.to] = "done" /\ e.from \notin Reach(drawn, e.to)
  BY <1>1 DEF DoneInv
<1>6. /\ \A i \in 1..(n - 1) : i \in 1..n /\ i # n
      /\ \A i \in 1..n : i \in 1..(n - 1) \/ i = n
      /\ n \in 1..n /\ n + 1 \notin 1..n
  <2>1. n \in Nat \ {0}
    BY <1>1
  <2> HIDE DEF n
  <2> QED  BY <2>1
<1>7. \A e \in drawn : e.from \in Step /\ e.to \in Step
  BY DEF LoopsTypeOK, EdgeType
<1>8. \A e \in left : e.from # top
  OBVIOUS
<1> HIDE DEF st, stk, n, top
<1>9. \A i \in 1..(n - 1) : stk[i] # top /\ stk[i] = stack[i] /\ i \in 1..n
  BY <1>1, <1>2, <1>4, <1>6
<1>10. StackInv(st, stk)
  <2>1. \A i \in 1..(n - 1) : st[stk[i]] = "visiting"
    BY <1>2, <1>3, <1>4, <1>9
  <2>2. ASSUME NEW t \in Step, st[t] = "visiting"
        PROVE  \E i \in 1..(n - 1) : stk[i] = t
    BY <1>2, <1>3, <1>4, <1>6, <1>9, <2>2
  <2>3. \A i, k \in 1..(n - 1) : stk[i] = stk[k] => i = k
    BY <1>4, <1>9
  <2>4. \A i \in 1..(n - 1) : i + 1 \in 1..(n - 1) => Linked(stk[i], stk[i + 1])
    BY <1>4, <1>9
  <2>5. \A i, k \in 1..(n - 1) : i <= k => stk[k] \in Reach(drawn, stk[i])
    BY <1>4, <1>9
  <2> QED  BY <1>2, <2>1, <2>2, <2>3, <2>4, <2>5 DEF StackInv, IsInjective
<1>11. ASSUME NEW e \in drawn, e.from = top
       PROVE  state[e.to] = "done" /\ top \notin Reach(drawn, e.to)
  <2>1. state[e.to] = "done"
    BY <1>2, <1>5, <1>6, <1>8, <1>11
  <2> DEFINE D == {s \in Step : state[s] = "done"}
  <2>2. ForwardClosed(drawn, D) /\ e.to \in D /\ top \notin D
    BY <1>2, <1>4, <1>5, <1>6, <1>7, <2>1 DEF ForwardClosed
  <2>3. Reach(drawn, e.to) \subseteq D
    BY <1>7, <2>2, ReachLeast
  <2> QED  BY <2>1, <2>2, <2>3
<1>12. DoneInv(st, stk, left)
  <2>1. \A e \in drawn \ left : st[e.from] # "new"
    BY <1>3, <1>5, <1>7
  <2>2. ASSUME NEW i \in 1..(n - 1), NEW e \in drawn \ left, e.from = stk[i]
        PROVE  st[e.to] = "done" \/ (i + 1 \in 1..(n - 1) /\ e.to = stk[i + 1])
    <3>1. state[e.to] = "done" \/ (i + 1 \in 1..n /\ e.to = stack[i + 1])
      BY <1>5, <1>9, <2>2
    <3>2. CASE state[e.to] = "done"
      BY <1>3, <1>7, <3>2
    <3>3. CASE i + 1 \in 1..n /\ e.to = stack[i + 1]
      BY <1>2, <1>3, <1>6, <1>9, <3>3
    <3> QED  BY <3>1, <3>2, <3>3
  <2>3. ASSUME NEW e \in drawn, st[e.from] = "done"
        PROVE  st[e.to] = "done" /\ e.from \notin Reach(drawn, e.to)
    <3>1. CASE e.from = top
      BY <1>3, <1>7, <1>11, <3>1
    <3>2. CASE e.from # top
      BY <1>3, <1>5, <1>7, <2>3, <3>2
    <3> QED  BY <3>1, <3>2
  <2>4. \A i \in DOMAIN stk : \A e \in drawn \ left :
          e.from = stk[i] => \/ st[e.to] = "done"
                             \/ i + 1 \in DOMAIN stk /\ e.to = stk[i + 1]
    BY <1>2, <2>2
  <2> QED  BY <2>1, <2>3, <2>4 DEF DoneInv
<1> QED  BY <1>10, <1>12 DEF st, stk, top

LEMMA FindCycleKeeps ==
    ASSUME LoopsTypeOK, FindInv, FindCycle
    PROVE  /\ FindInv'
           /\ job.call = "findCycle" /\ job'.call = "findCycle"
           /\ UNCHANGED <<drawn, table>>
<1> DEFINE Fine(j) ==
        /\ j \in FindJob
        /\ StackInv(j.state, j.stack)
        /\ DoneInv(j.state, j.stack, j.left)
        /\ j.answer = "null" => \A s \in Step : j.state[s] = "done"
        /\ j.answer = "cycle" => ClosedInv(j.stack, j.cycle)
<1>1. /\ job.call = "findCycle" /\ job.answer = "none"
      /\ UNCHANGED <<drawn, table>> /\ drawn \in SUBSET EdgeType
  BY DEF FindCycle, VisitKey, Enter, PassBy, Close, Leave, AllVisited, Following,
         AtWork, LoopsTypeOK
<1>2. Fine(job)
  BY <1>1 DEF FindInv
<1>3. SUFFICES Fine(job')
  <2>1. job'.call = "findCycle"
    BY <1>3 DEF FindJob
  <2> QED  BY <1>1, <1>3, <2>1 DEF FindInv, StackInv, DoneInv, ClosedInv, Linked
<1>4. job \in FindJob /\ job.state \in Visits /\ job.stack \in Seq(Step)
  BY <1>2 DEF FindJob
<1>5. ASSUME NEW s \in Step, job.state[s] = "new",
             NEW less, less \subseteq job.left,
             job' = [job EXCEPT !.state = [job.state EXCEPT ![s] = "visiting"],
                                !.stack = Append(job.stack, s), !.left = less],
             job.stack # <<>> => Linked(Last(job.stack), s),
             \A e \in job.left \ less : /\ job.stack # <<>>
                                        /\ e.from = Last(job.stack) /\ e.to = s
      PROVE  Fine(job')
  <2> DEFINE st == [job.state EXCEPT ![s] = "visiting"]
             stk == Append(job.stack, s)
  <2>1. st \in Visits /\ stk \in Seq(Step)
    BY <1>4, Appended DEF Visits
  <2>2. StackInv(st, stk)
    BY <1>2, <1>4, <1>5, EnterStack
  <2>3. DoneInv(st, stk, less)
    BY <1>1, <1>2, <1>4, <1>5, EnterDone
  <2> HIDE DEF st, stk
  <2>4. job' = [job EXCEPT !.state = st, !.stack = stk, !.left = less]
    BY <1>5 DEF st, stk
  <2>5. /\ job' \in FindJob /\ job'.state = st /\ job'.stack = stk
        /\ job'.left = less /\ job'.answer = "none"
    BY <1>1, <1>4, <1>5, <2>1, <2>4 DEF FindJob
  <2> QED  BY <2>2, <2>3, <2>5
<1>6. ASSUME NEW s \in Step, VisitKey(s)  PROVE Fine(job')
  <2>1. /\ job.stack = <<>> /\ job.state[s] = "new"
        /\ job' = [job EXCEPT !.state[s] = "visiting", !.stack = Append(job.stack, s)]
    BY <1>6 DEF VisitKey, Visiting
  <2>2. job' = [job EXCEPT !.state = [job.state EXCEPT ![s] = "visiting"],
                           !.stack = Append(job.stack, s), !.left = job.left]
    BY <1>4, <2>1 DEF FindJob
  <2> HIDE DEF Fine
  <2> QED  BY <1>5, <2>1, <2>2
<1>7. ASSUME NEW e \in drawn, Following(e)
      PROVE  /\ job.stack # <<>> /\ e \in job.left /\ e.from = Last(job.stack)
             /\ e.to \in Step /\ e.from \in Step
             /\ job.state[e.from] = "visiting"
             /\ Len(job.stack) \in DOMAIN job.stack
             /\ Last(job.stack) = job.stack[Len(job.stack)]
  <2>1. job.stack # <<>> /\ e \in job.left /\ e.from = Last(job.stack)
    BY <1>7 DEF Following
  <2>2. Len(job.stack) \in DOMAIN job.stack
    BY <1>4, <2>1, TakenOff, LenProperties
  <2> QED  BY <1>1, <1>2, <2>1, <2>2 DEF StackInv, Last, EdgeType
<1>8. ASSUME NEW e \in drawn, Enter(e)  PROVE Fine(job')
  <2> DEFINE less == job.left \ {e}
             s == e.to
  <2>1. /\ Following(e) /\ job.state[s] = "new" /\ s \in Step
        /\ job' = [Visiting(s) EXCEPT !.left = @ \ {e}]
    BY <1>7, <1>8 DEF Enter
  <2>2. job' = [job EXCEPT !.state = [job.state EXCEPT ![s] = "visiting"],
                           !.stack = Append(job.stack, s), !.left = less]
    BY <1>4, <2>1 DEF FindJob, Visiting
  <2>3. Linked(Last(job.stack), s)
    BY <1>7, <2>1 DEF Linked
  <2>4. /\ less \subseteq job.left
        /\ \A d \in job.left \ less : /\ job.stack # <<>>
                                      /\ d.from = Last(job.stack) /\ d.to = s
    BY <1>7, <2>1
  <2> HIDE DEF Fine, less, s
  <2> QED  BY <1>5, <2>1, <2>2, <2>3, <2>4
<1>9. ASSUME NEW e \in drawn, PassBy(e)  PROVE Fine(job')
  <2>1. /\ Following(e) /\ job.state[e.to] = "done"
        /\ job' = [job EXCEPT !.left = job.left \ {e}]
    BY <1>9 DEF PassBy
  <2>2. /\ job' \in FindJob /\ job'.state = job.state /\ job'.stack = job.stack
        /\ job'.left = job.left \ {e} /\ job'.answer = "none"
    BY <1>1, <1>4, <2>1 DEF FindJob
  <2>3. DoneInv(job.state, job.stack, job.left \ {e})
    <3>1. \A d \in drawn \ (job.left \ {e}) : d \in drawn \ job.left \/ d = e
      OBVIOUS
    <3>2. job.state[e.from] # "new"
      BY <1>7, <2>1
    <3> QED  BY <1>2, <2>1, <3>1, <3>2 DEF DoneInv
  <2> QED  BY <1>2, <2>2, <2>3
<1>10. ASSUME NEW e \in drawn, Close(e)  PROVE Fine(job')
  <2>1. PICK i \in 1..Len(job.stack) :
          /\ job.stack[i] = e.to
          /\ job' = [job EXCEPT !.cycle = SubSeq(job.stack, i, Len(job.stack)) \o <<e.to>>,
                                !.answer = "cycle"]
    BY <1>10 DEF Close
  <2> DEFINE cyc == SubSeq(job.stack, i, Len(job.stack)) \o <<e.to>>
  <2>2. /\ i \in DOMAIN job.stack /\ Len(job.stack) \in Nat
        /\ e.to \in Step /\ Linked(job.stack[Len(job.stack)], job.stack[i])
    BY <1>4, <1>7, <1>10, <2>1, LenProperties DEF Close, Linked
  <2>3. cyc \in Seq(Step)
    <3>1. SubSeq(job.stack, i, Len(job.stack)) \in Seq(Step)
      BY <1>4, <2>1, <2>2, SubSeqProperties
    <3>2. <<e.to>> \in Seq(Step)
      BY <2>2
    <3> QED  BY <3>1, <3>2, ConcatProperties
  <2>4. ClosedInv(job.stack, cyc)
    BY <2>1, <2>2 DEF ClosedInv
  <2>5. job' = [job EXCEPT !.cycle = cyc, !.answer = "cycle"]
    BY <2>1
  <2> HIDE DEF cyc
  <2>6. /\ job' \in FindJob /\ job'.state = job.state /\ job'.stack = job.stack
        /\ job'.left = job.left /\ job'.answer = "cycle" /\ job'.cycle = cyc
    BY <1>4, <2>3, <2>5 DEF FindJob
  <2> QED  BY <1>2, <2>4, <2>6
<1>11. ASSUME Leave  PROVE Fine(job')
  <2> DEFINE st == [job.state EXCEPT ![Last(job.stack)] = "done"]
             stk == Front(job.stack)
  <2>1. /\ job.stack # <<>> /\ \A e \in job.left : e.from # Last(job.stack)
        /\ job' = [job EXCEPT !.state[Last(job.stack)] = "done", !.stack = stk]
    BY <1>11 DEF Leave
  <2>2. StackInv(st, stk) /\ DoneInv(st, stk, job.left)
    BY <1>2, <1>4, <2>1, LeaveKeeps
  <2>3. st \in Visits /\ stk \in Seq(Step)
    BY <1>4, <2>1, TakenOff DEF Visits
  <2>4. job' = [job EXCEPT !.state = st, !.stack = stk]
    BY <1>4, <2>1 DEF FindJob
  <2> HIDE DEF st, stk
  <2>5. /\ job' \in FindJob /\ job'.state = st /\ job'.stack = stk
        /\ job'.left = job.left /\ job'.answer = "none"
    BY <1>1, <1>4, <2>3, <2>4 DEF FindJob
  <2> QED  BY <2>2, <2>5
<1>12. ASSUME AllVisited  PROVE Fine(job')
  <2>1. /\ job' = [job EXCEPT !.answer = "null"] /\ job.stack = <<>>
        /\ \A s \in Step : job.state[s] # "new"
    BY <1>12 DEF AllVisited, Answering
  <2>2. /\ job' \in FindJob /\ job'.state = job.state /\ job'.stack = job.stack
        /\ job'.left = job.left /\ job'.answer = "null"
    BY <1>4, <2>1 DEF FindJob
  <2>3. DOMAIN job.stack = {}
    BY <2>1
  <2>4. \A s \in Step : job.state[s] = "done"
    BY <1>2, <1>4, <2>1, <2>3 DEF StackInv, Visits
  <2> QED  BY <1>2, <2>2, <2>4
<1> HIDE DEF Fine
<1> QED  BY <1>6, <1>8, <1>9, <1>10, <1>11, <1>12 DEF FindCycle

(* What the stack spells out, from the step that was met again on, is a    *)
(* cycle.                                                                  *)
LEMMA CutOfStack ==
    ASSUME LoopsTypeOK, NEW state, NEW stack \in Seq(Step), NEW cycle,
           StackInv(state, stack), ClosedInv(stack, cycle)
    PROVE  IsCycle(cycle) /\ ~Acyclic(drawn)
<1> DEFINE n == Len(stack)
<1>1. PICK i \in DOMAIN stack :
        /\ cycle = SubSeq(stack, i, n) \o <<stack[i]>>
        /\ Linked(stack[n], stack[i])
  BY DEF ClosedInv
<1>2. n \in Nat /\ DOMAIN stack = 1..n /\ \A j \in 1..n : stack[j] \in Step
  BY LenProperties, ElementOfSeq
<1> DEFINE m == n - i + 1
           cut == SubSeq(stack, i, n)
<1>3. i \in 1..n /\ m \in Nat /\ m >= 1
  BY <1>1, <1>2
<1>4. /\ cut \in Seq(Step) /\ Len(cut) = m
      /\ \A k \in 1..m : cut[k] = stack[i + k - 1]
  BY <1>2, <1>3, SubSeqProperties
<1>5. /\ cycle \in Seq(Step) /\ Len(cycle) = m + 1
      /\ \A k \in 1..m : cycle[k] = stack[i + k - 1]
      /\ cycle[m + 1] = stack[i]
  <2> DEFINE tip == <<stack[i]>>
  <2>1. tip \in Seq(Step) /\ Len(tip) = 1 /\ tip[1] = stack[i]
    BY <1>2, <1>3
  <2> HIDE DEF tip, cut, m, n
  <2>2. cycle = cut \o tip
    BY <1>1 DEF cut, tip
  <2>3. /\ cut \o tip \in Seq(Step) /\ Len(cut \o tip) = Len(cut) + Len(tip)
        /\ \A k \in 1..(Len(cut) + Len(tip)) :
              (cut \o tip)[k] = IF k <= Len(cut) THEN cut[k] ELSE tip[k - Len(cut)]
    BY <1>4, <2>1, ConcatProperties
  <2>4. \A k \in 1..m : k \in 1..(m + 1) /\ k <= m
    BY <1>3
  <2>5. m + 1 \in 1..(m + 1) /\ ~(m + 1 <= m) /\ (m + 1) - m = 1
    BY <1>3
  <2> QED  BY <1>4, <2>1, <2>2, <2>3, <2>4, <2>5
<1>6. /\ \A j, k \in 1..n : stack[j] = stack[k] => j = k
      /\ \A j \in 1..n : j + 1 \in 1..n => Linked(stack[j], stack[j + 1])
      /\ \A j, k \in 1..n : j <= k => stack[k] \in Reach(drawn, stack[j])
  BY <1>2 DEF StackInv, IsInjective
<1>7. /\ \A k \in 1..m : i + k - 1 \in 1..n /\ (k # m => i + k \in 1..n)
      /\ i + m - 1 = n /\ i + 1 - 1 = i /\ 1 \in 1..m
      /\ \A k \in 1..m : k # m => k + 1 \in 1..m /\ i + (k + 1) - 1 = i + k
      /\ \A k \in 1..m : (i + k - 1) + 1 = i + k
  BY <1>2, <1>3
<1> HIDE DEF m, n, cut
<1>8. \A k \in 1..m : cycle[k + 1] = IF k = m THEN stack[i] ELSE stack[i + k]
  BY <1>5, <1>7
<1>9. ASSUME NEW k \in 1..m
      PROVE  Linked(cycle[k], cycle[k + 1])
  <2>1. CASE k = m
    <3>1. cycle[k] = stack[n]
      BY <1>5, <1>7, <2>1
    <3>2. cycle[k + 1] = stack[i]
      BY <1>8, <2>1
    <3> QED  BY <1>1, <3>1, <3>2
  <2>2. CASE k # m
    <3> DEFINE j == i + k - 1
    <3>1. j \in 1..n /\ j + 1 \in 1..n /\ j + 1 = i + k
      BY <1>7, <2>2
    <3>2. cycle[k] = stack[j] /\ cycle[k + 1] = stack[i + k]
      BY <1>5, <1>8, <2>2
    <3> HIDE DEF j
    <3>3. cycle[k + 1] = stack[j + 1]
      BY <3>1, <3>2
    <3> QED  BY <1>6, <3>1, <3>2, <3>3
  <2> QED  BY <2>1, <2>2
<1>10. IsInjective(Tail(cycle))
  <2>1. cycle # <<>>
    BY <1>3, <1>5
  <2>2. /\ DOMAIN Tail(cycle) = 1..m
        /\ \A k \in 1..m : Tail(cycle)[k] = cycle[k + 1]
    <3>1. /\ Tail(cycle) \in Seq(Step) /\ Len(Tail(cycle)) = Len(cycle) - 1
          /\ \A k \in 1..Len(Tail(cycle)) : Tail(cycle)[k] = cycle[k + 1]
      BY <1>5, <2>1, HeadTailProperties
    <3>2. Len(Tail(cycle)) = m
      BY <1>3, <1>5, <3>1
    <3> QED  BY <3>1, <3>2, LenProperties
  <2>3. ASSUME NEW j \in 1..m, NEW k \in 1..m, cycle[j + 1] = cycle[k + 1]
        PROVE  j = k
    <3>1. \A l \in 1..m : l # m => i + l # i
      BY <1>2, <1>3
    <3>2. j # m /\ k # m => i + j = i + k
      BY <1>6, <1>7, <1>8, <2>3
    <3>3. ASSUME NEW l \in 1..m, l # m  PROVE cycle[l + 1] # stack[i]
      <4>1. cycle[l + 1] = stack[i + l] /\ i + l \in 1..n /\ i + l # i
        BY <1>7, <1>8, <3>1, <3>3
      <4> QED  BY <1>3, <1>6, <4>1
    <3>4. cycle[m + 1] = stack[i]
      BY <1>5
    <3>5. j = m <=> k = m
      BY <2>3, <3>3, <3>4
    <3> QED  BY <3>5, <1>2, <1>3, <3>2, <3>3
  <2> QED  BY <2>2, <2>3 DEF IsInjective
<1>11. IsCycle(cycle)
  <2>1. Len(cycle) > 1 /\ Len(cycle) - 1 = m
    BY <1>3, <1>5
  <2>2. cycle[1] = cycle[Len(cycle)]
    BY <1>5, <1>7
  <2> QED  BY <1>9, <1>10, <2>1, <2>2 DEF IsCycle, Linked
<1>12. ~Acyclic(drawn)
  <2>1. PICK e \in drawn : e.from = stack[n] /\ e.to = stack[i]
    BY <1>1 DEF Linked
  <2>2. n \in 1..n /\ i <= n
    BY <1>2, <1>3
  <2>3. stack[n] \in Reach(drawn, stack[i])
    BY <1>3, <1>6, <2>2
  <2> QED  BY <2>1, <2>3 DEF Acyclic
<1> QED  BY <1>11, <1>12

LEMMA FindCycleEnds ==
    ASSUME LoopsTypeOK, FindInv
    PROVE  FindCycleExact
<1> SUFFICES ASSUME Answered("findCycle")
             PROVE  /\ job.answer = "null" <=> Acyclic(drawn)
                    /\ job.answer = "cycle" => IsCycle(job.cycle)
  BY DEF FindCycleExact
<1>1. /\ job \in FindJob /\ StackInv(job.state, job.stack)
      /\ DoneInv(job.state, job.stack, job.left)
      /\ job.answer = "null" => \A s \in Step : job.state[s] = "done"
      /\ job.answer = "cycle" => ClosedInv(job.stack, job.cycle)
  BY DEF FindInv, Answered
<1>2. job.answer \in {"null", "cycle"} /\ job.stack \in Seq(Step)
  BY <1>1 DEF FindJob, Answered
<1>3. ASSUME job.answer = "null"  PROVE Acyclic(drawn)
  <2>1. \A e \in drawn : e.from \in Step
    BY DEF LoopsTypeOK, EdgeType
  <2> QED  BY <1>1, <1>3, <2>1 DEF DoneInv, Acyclic
<1>4. ASSUME job.answer = "cycle"  PROVE IsCycle(job.cycle) /\ ~Acyclic(drawn)
  BY <1>1, <1>2, <1>4, CutOfStack
<1> QED  BY <1>2, <1>3, <1>4

LEMMA LoopsBegin == LoopInit => LoopsInv
<1> SUFFICES ASSUME NEW c \in Cases, drawn = c.edges, table = c.rows,
                    \/ \E s \in Step : job = Resolving(s) \/ job = Descending(s)
                    \/ job = Cascading
                    \/ \E from, to \in Step : job = Checking(Plain(from, to))
                    \/ job = Finding
             PROVE  LoopsInv
  BY DEF LoopInit
<1>1. LoopsTypeOK
  BY LoopsAssumption DEF LoopsTypeOK
<1>2. ASSUME NEW s \in Step, job = Resolving(s)
      PROVE  /\ ResolveInv /\ job.call = "resolveSubtask"
  <2> DEFINE into == Incoming(drawn, s)
  <2>1. into \in SUBSET EdgeType
    BY <1>1 DEF LoopsTypeOK, Incoming
  <2>2. into = {} => ~Waits(table, drawn, s) /\ ~MustSkip(table, drawn, s)
    BY DEF Waits, MustSkip
  <2>3. /\ job \in ResolveJob /\ job.step = s /\ job.pass = 1 /\ job.left = into
        /\ job.satisfied = 0 /\ job.call = "resolveSubtask"
        /\ job.answer = IF into = {} THEN "run" ELSE "none"
    <3>1. job = [call |-> "resolveSubtask", step |-> s, pass |-> 1,
                 left |-> into, satisfied |-> 0,
                 answer |-> IF into = {} THEN "run" ELSE "none"]
      BY <1>2 DEF Resolving
    <3> HIDE DEF into
    <3> QED  BY <2>1, <3>1 DEF ResolveJob
  <2>4. Resolved = {}
    BY <2>3 DEF Resolved
  <2>5. ResolutionAgrees
    BY <2>2, <2>3 DEF ResolutionAgrees, Answered
  <2> QED  BY <2>3, <2>4, <2>5 DEF ResolveInv
<1>3. ASSUME job = Cascading
      PROVE  CascadeInv /\ job.call = "advanceLocked"
  <2>1. Pending(table) \subseteq Step
    BY DEF Pending
  <2> DEFINE todo == Pending(table)
  <2>2. job = [call |-> "advanceLocked", before |-> table, listed |-> table,
               left |-> todo, skippedAny |-> FALSE, answer |-> "none"]
    BY <1>3 DEF Cascading
  <2> HIDE DEF todo
  <2>3. /\ job \in CascadeJob /\ job.before = table /\ job.listed = table
        /\ job.left = todo /\ job.skippedAny = FALSE /\ job.answer = "none"
        /\ job.call = "advanceLocked"
    BY <1>1, <2>1, <2>2 DEF CascadeJob, LoopsTypeOK, todo
  <2>4. OfCascade(table, table)
    <3>1. SkippedIn(table, table) = {}
      BY DEF SkippedIn, Pending
    <3>2. Skipping(table, {}) = table
      BY <1>1 DEF Skipping, LoopsTypeOK
    <3> QED  BY <3>1, <3>2 DEF OfCascade
  <2> QED  BY <2>3, <2>4 DEF CascadeInv, todo
<1>4. ASSUME NEW s \in Step, job = Descending(s)
      PROVE  DescendInv /\ job.call = "getDownstreamSubtaskIds"
  <2> DEFINE que == <<s>>
             none == <<>>
  <2>1. /\ que \in Seq(Step) /\ ToSet(que) = {s}
        /\ none \in Seq(Step) /\ ToSet(none) = {} /\ IsInjective(none)
    BY DEF ToSet, IsInjective
  <2>2. job = [call |-> "getDownstreamSubtaskIds", step |-> s, queue |-> que,
               seen |-> {s}, order |-> none, left |-> drawn, answer |-> "none"]
    BY <1>4 DEF Descending
  <2> HIDE DEF que, none
  <2>3. /\ job \in DescendJob /\ job.step = s /\ job.queue = que /\ job.seen = {s}
        /\ job.order = none /\ job.left = drawn /\ job.answer = "none"
        /\ job.call = "getDownstreamSubtaskIds"
    BY <1>1, <2>1, <2>2 DEF DescendJob, LoopsTypeOK
  <2>4. s \in Reach(drawn, s)
    BY ReachClosed
  <2> QED  BY <2>1, <2>3, <2>4 DEF DescendInv
<1>5. ASSUME NEW from \in Step, NEW to \in Step, job = Checking(Plain(from, to))
      PROVE  CheckInv /\ job.call = "wouldCreateCycle"
  <2> DEFINE stk == <<to>>
             n == Plain(from, to)
  <2>1. /\ stk \in Seq(Step) /\ ToSet(stk) = {to}
        /\ n \in EdgeType /\ n.from = from /\ n.to = to
    BY DEF ToSet, Plain, EdgeType
  <2>2. job = [call |-> "wouldCreateCycle", new |-> n, goal |-> n.from, stack |-> stk,
               seen |-> {}, left |-> drawn, answer |-> "none"]
    BY <1>5, <2>1 DEF Checking
  <2> HIDE DEF stk, n
  <2>3. /\ job \in CheckJob /\ job.new = n /\ job.goal = n.from /\ job.stack = stk
        /\ job.seen = {} /\ job.left = drawn /\ job.answer = "none"
        /\ job.call = "wouldCreateCycle"
    BY <1>1, <2>1, <2>2 DEF CheckJob, LoopsTypeOK
  <2>4. to \in Reach(drawn, to)
    BY ReachClosed
  <2> QED  BY <2>1, <2>3, <2>4 DEF CheckInv
<1>6. ASSUME job = Finding
      PROVE  FindInv /\ job.call = "findCycle"
  <2> DEFINE st == [s \in Step |-> "new"]
             none == <<>>
  <2>1. st \in Visits /\ none \in Seq(Step) /\ DOMAIN none = {}
    BY DEF Visits
  <2>2. job = [call |-> "findCycle", state |-> st, stack |-> none,
               left |-> drawn, cycle |-> none, answer |-> "none"]
    BY <1>6 DEF Finding
  <2>3. \A s \in Step : st[s] = "new"
    OBVIOUS
  <2> HIDE DEF st, none
  <2>4. /\ job \in FindJob /\ job.state = st /\ job.stack = none
        /\ job.left = drawn /\ job.answer = "none" /\ job.call = "findCycle"
    BY <1>1, <2>1, <2>2 DEF FindJob, LoopsTypeOK
  <2>5. StackInv(st, none)
    BY <2>1, <2>3 DEF StackInv, IsInjective
  <2>6. DoneInv(st, none, drawn)
    <3>1. \A e \in drawn : e.from \in Step
      BY <1>1 DEF LoopsTypeOK, EdgeType
    <3> QED  BY <2>1, <2>3, <3>1 DEF DoneInv
  <2> QED  BY <2>4, <2>5, <2>6 DEF FindInv
<1>7. /\ job.call # "resolveSubtask" => ResolveInv
      /\ job.call # "advanceLocked" => CascadeInv
      /\ job.call # "getDownstreamSubtaskIds" => DescendInv
      /\ job.call # "wouldCreateCycle" => CheckInv
      /\ job.call # "findCycle" => FindInv
  BY DEF ResolveInv, CascadeInv, DescendInv, CheckInv, FindInv
<1> QED  BY <1>1, <1>2, <1>3, <1>4, <1>5, <1>6, <1>7 DEF LoopsInv

LEMMA LoopsStep == LoopsInv /\ [LoopNext]_loopVars => LoopsInv'
<1> SUFFICES ASSUME LoopsInv, [LoopNext]_loopVars  PROVE LoopsInv'
  OBVIOUS
<1> DEFINE Other(call) ==
        /\ call # "resolveSubtask" => ResolveInv'
        /\ call # "advanceLocked" => CascadeInv'
        /\ call # "getDownstreamSubtaskIds" => DescendInv'
        /\ call # "wouldCreateCycle" => CheckInv'
        /\ call # "findCycle" => FindInv'
<1>1. Other(job'.call)
  BY DEF ResolveInv, CascadeInv, DescendInv, CheckInv, FindInv
<1>2. /\ LoopsTypeOK /\ ResolveInv /\ CascadeInv /\ DescendInv /\ CheckInv /\ FindInv
  BY DEF LoopsInv
<1>3. UNCHANGED <<drawn, table>> => LoopsTypeOK'
  BY <1>2 DEF LoopsTypeOK
<1> HIDE DEF Other
<1>4. CASE Resolve
  BY <1>1, <1>2, <1>3, <1>4, ResolveKeeps DEF LoopsInv, Other
<1>5. CASE Cascade
  BY <1>1, <1>2, <1>5, CascadeKeeps DEF LoopsInv, Other
<1>6. CASE Descend
  BY <1>1, <1>2, <1>3, <1>6, DescendKeeps DEF LoopsInv, Other
<1>7. CASE CheckEdge
  BY <1>1, <1>2, <1>3, <1>7, CheckEdgeKeeps DEF LoopsInv, Other
<1>8. CASE FindCycle
  BY <1>1, <1>2, <1>3, <1>8, FindCycleKeeps DEF LoopsInv, Other
<1>9. CASE UNCHANGED loopVars
  <2>1. UNCHANGED <<drawn, table, job>>
    BY <1>9 DEF loopVars
  <2>2. LoopsTypeOK'
    BY <1>2, <2>1 DEF LoopsTypeOK
  <2>3. ResolveInv' /\ CascadeInv' /\ DescendInv'
    BY <1>2, <2>1 DEF ResolveInv, Resolved, ResolutionAgrees, Answered, CascadeInv,
                      OfCascade, DescendInv
  <2>4. CheckInv'
    BY <1>2, <2>1 DEF CheckInv
  <2>5. ASSUME job.call = "findCycle"  PROVE FindInv'
    <3>1. /\ StackInv(job.state, job.stack)'
          /\ DoneInv(job.state, job.stack, job.left)'
      BY <1>2, <2>1, <2>5 DEF FindInv, StackInv, DoneInv, Linked
    <3>2. job.answer = "cycle" => ClosedInv(job.stack, job.cycle)'
      BY <1>2, <2>1, <2>5 DEF FindInv, ClosedInv, Linked
    <3> QED  BY <1>2, <2>1, <2>5, <3>1, <3>2 DEF FindInv
  <2>6. FindInv'
    BY <2>1, <2>5 DEF FindInv
  <2> QED  BY <2>2, <2>3, <2>4, <2>6 DEF LoopsInv
<1> QED  BY <1>4, <1>5, <1>6, <1>7, <1>8, <1>9 DEF LoopNext

(* For every graph, cyclic ones too, and all rows: resolveSubtask, the     *)
(* skip cascade of advanceLocked and getDownstreamSubtaskIds, whatever     *)
(* order the database lists rows and edges in, answer what the definitions *)
(* without loops say, on which all other proofs about the engine and about *)
(* edits rest.                                                             *)
THEOREM LoopsAlwaysAgree == LoopSpec => []LoopsAgree
<1>1. LoopsInv => LoopsAgree
  BY CascadeEnds, DescendEnds DEF LoopsInv, LoopsAgree, ResolveInv,
     ResolutionAgrees, Answered
<1> QED  BY <1>1, LoopsBegin, LoopsStep, PTL DEF LoopSpec

(* For every graph: wouldCreateCycle refuses an edge exactly if it would   *)
(* close a cycle, and findCycle, wherever it begins and whichever way it   *)
(* turns, finds a cycle exactly if there is one and returns a true one.    *)
THEOREM CyclesAlwaysFound == LoopSpec => []CyclesFound
<1>1. LoopsInv => CyclesFound
  BY CheckEdgeEnds, FindCycleEnds DEF LoopsInv, CyclesFound
<1> QED  BY <1>1, LoopsBegin, LoopsStep, PTL DEF LoopSpec
=============================================================================
