-------------------------- MODULE NodeGateway_proofs --------------------------
(***************************************************************************)
(* The gateway's indexes are exact and nobody waits in vain, for any       *)
(* connections, nodes and limits.  GatewayInv is inductive: the parties of *)
(* a pending invocation stay connected because the indexes find it when    *)
(* one of them closes, and the registry leads from a target to a node only *)
(* if the target registered it last and has not closed since.              *)
(***************************************************************************)
EXTENDS NodeGateway, TLAPS

-----------------------------------------------------------------------------
(* The end of invocations                                                  *)

(* Ending pending ones removes them from everything, and from nothing else *)
(* of what the parts of the invariant say of invocations.                  *)
LEMMA EndIsClean ==
    ASSUME TypeOK, IndexesAgree, NEW ended \in SUBSET Pending, End(ended)
    PROVE  /\ invocations' \in Seq(Invocation)
           /\ DOMAIN invocations' = DOMAIN invocations
           /\ byCaller' \in [Connection -> SUBSET Nat]
           /\ byNode' \in [Node -> SUBSET Nat]
           /\ Pending' = Pending \ ended
           /\ \A i \in DOMAIN invocations :
                 /\ invocations'[i].node = invocations[i].node
                 /\ invocations'[i].target = invocations[i].target
                 /\ invocations'[i].caller = invocations[i].caller
                 /\ invocations'[i].answers = IF i \in Pending' THEN 0 ELSE 1
           /\ \A c \in Connection :
                 byCaller'[c] = {i \in Pending' : invocations'[i].caller = c}
           /\ \A n \in Node :
                 byNode'[n] = {i \in Pending' : invocations'[i].node = n}
<1>1. /\ invocations \in Seq(Invocation)
      /\ DOMAIN invocations = 1..Len(invocations)
      /\ Len(invocations) \in Nat
      /\ \A i \in DOMAIN invocations : invocations[i] \in Invocation
  BY DEF TypeOK
<1>2. /\ DOMAIN invocations' = DOMAIN invocations
      /\ \A i \in DOMAIN invocations : invocations'[i] =
            IF i \in ended
            THEN [invocations[i] EXCEPT !.pending = FALSE, !.answers = @ + 1]
            ELSE invocations[i]
  BY DEF End
<1>3. \A i \in DOMAIN invocations :
         /\ invocations'[i] \in Invocation
         /\ invocations'[i].node = invocations[i].node
         /\ invocations'[i].target = invocations[i].target
         /\ invocations'[i].caller = invocations[i].caller
         /\ i \in ended => /\ ~invocations'[i].pending
                           /\ invocations'[i].answers = invocations[i].answers + 1
         /\ i \notin ended => invocations'[i] = invocations[i]
  <2> TAKE i \in DOMAIN invocations
  <2> DEFINE v == invocations[i]
  <2>1. v \in Invocation
    BY <1>1
  <2>2. CASE i \in ended
    <3> DEFINE n == v.answers + 1
               w == [v EXCEPT !.pending = FALSE, !.answers = n]
    <3>1. invocations'[i] = w
      BY <1>2, <2>2
    <3>2. n \in Nat
      BY <2>1 DEF Invocation
    <3> HIDE DEF v, n
    <3>3. /\ w \in Invocation
          /\ w.node = v.node /\ w.target = v.target /\ w.caller = v.caller
          /\ ~w.pending /\ w.answers = n
      BY <2>1, <3>2 DEF Invocation
    <3> QED  BY <2>2, <3>1, <3>3 DEF v, n
  <2>3. CASE i \notin ended
    BY <1>2, <2>1, <2>3
  <2> QED  BY <2>2, <2>3
<1>4. invocations' \in [1..Len(invocations) -> Invocation]
  BY <1>1, <1>2, <1>3 DEF End
<1>5. invocations' \in Seq(Invocation)
  BY <1>1, <1>4
<1>6. Pending' = Pending \ ended
  <2>1. \A i \in DOMAIN invocations :
           invocations'[i].pending <=> invocations[i].pending /\ i \notin ended
    BY <1>3
  <2> QED  BY <1>2, <2>1 DEF Pending
<1>7. \A i \in DOMAIN invocations :
         invocations'[i].answers = IF i \in Pending' THEN 0 ELSE 1
  <2> TAKE i \in DOMAIN invocations
  <2>1. invocations[i].answers = IF i \in Pending THEN 0 ELSE 1
    BY DEF IndexesAgree
  <2>2. CASE i \in ended
    BY <1>3, <1>6, <2>1, <2>2
  <2>3. CASE i \notin ended
    BY <1>3, <1>6, <2>1, <2>3
  <2> QED  BY <2>2, <2>3
<1>8. /\ byCaller' \in [Connection -> SUBSET Nat]
      /\ byNode' \in [Node -> SUBSET Nat]
      /\ \A c \in Connection : byCaller'[c] = byCaller[c] \ ended
      /\ \A n \in Node : byNode'[n] = byNode[n] \ ended
  BY DEF End, TypeOK
<1>9. Pending' \subseteq DOMAIN invocations
  BY <1>2 DEF Pending
<1>10. ASSUME NEW c \in Connection
       PROVE  byCaller'[c] = {i \in Pending' : invocations'[i].caller = c}
  <2>1. byCaller[c] = {i \in Pending : invocations[i].caller = c}
    BY DEF IndexesAgree
  <2> QED  BY <1>3, <1>6, <1>8, <1>9, <2>1
<1>11. ASSUME NEW n \in Node
       PROVE  byNode'[n] = {i \in Pending' : invocations'[i].node = n}
  <2>1. byNode[n] = {i \in Pending : invocations[i].node = n}
    BY DEF IndexesAgree
  <2> QED  BY <1>3, <1>6, <1>8, <1>9, <2>1
<1> QED  BY <1>2, <1>3, <1>5, <1>6, <1>7, <1>8, <1>10, <1>11

(* So do the steps that end some and move no node, as long as the sockets  *)
(* of the others' parties stay open.                                       *)
LEMMA EndingKeeps ==
    ASSUME GatewayInv, NEW ended \in SUBSET Pending, End(ended),
           UNCHANGED <<nodes, nodeOf, taken>>,
           sockets' \in [Connection -> {"new", "open", "closed"}],
           known' \subseteq Connection, heard' \subseteq Connection,
           fresh' \subseteq Node, quiet' \in Nat, KnownAreOpen',
           \A i \in Pending \ ended :
              /\ sockets'[invocations[i].caller] = "open"
              /\ sockets'[invocations[i].target] = "open"
                 \/ nodeOf[invocations[i].target] # invocations[i].node
    PROVE  GatewayInv'
<1>1. TypeOK /\ IndexesAgree
  BY DEF GatewayInv
<1>2. /\ invocations' \in Seq(Invocation)
      /\ DOMAIN invocations' = DOMAIN invocations
      /\ byCaller' \in [Connection -> SUBSET Nat]
      /\ byNode' \in [Node -> SUBSET Nat]
      /\ Pending' = Pending \ ended
      /\ \A i \in DOMAIN invocations :
            /\ invocations'[i].node = invocations[i].node
            /\ invocations'[i].target = invocations[i].target
            /\ invocations'[i].caller = invocations[i].caller
            /\ invocations'[i].answers = IF i \in Pending' THEN 0 ELSE 1
      /\ \A c \in Connection :
            byCaller'[c] = {i \in Pending' : invocations'[i].caller = c}
      /\ \A n \in Node :
            byNode'[n] = {i \in Pending' : invocations'[i].node = n}
  BY <1>1, EndIsClean
<1>3. Pending \subseteq DOMAIN invocations
  BY DEF Pending
<1>4. TypeOK'
  BY <1>1, <1>2 DEF TypeOK
<1>5. IndexesAgree'
  BY <1>1, <1>2 DEF IndexesAgree
<1>6. PendingHasParties'
  BY <1>2, <1>3 DEF PendingHasParties
<1> QED  BY <1>4, <1>5, <1>6 DEF GatewayInv

-----------------------------------------------------------------------------
(* Steps that leave the invocations alone                                  *)

(* Neither the registry nor an invocation changes: what a connection's     *)
(* life does, as long as no open socket closes.                            *)
LEMMA LifeKeeps ==
    ASSUME GatewayInv, UNCHANGED <<nodes, nodeOf, taken, calls>>,
           sockets' \in [Connection -> {"new", "open", "closed"}],
           \A c \in Connection : sockets[c] = "open" => sockets'[c] = "open",
           known' \subseteq Connection, heard' \subseteq Connection,
           fresh' \subseteq Node, quiet' \in Nat, KnownAreOpen'
    PROVE  GatewayInv'
<1>1. Pending' = Pending /\ Pending \subseteq DOMAIN invocations
  BY DEF Pending, calls
<1>2. TypeOK'
  BY DEF GatewayInv, TypeOK, calls
<1>3. IndexesAgree'
  BY <1>1 DEF GatewayInv, IndexesAgree, calls
<1>4. \A i \in Pending : /\ invocations[i].caller \in Connection
                         /\ invocations[i].target \in Connection
  <2>1. \A i \in DOMAIN invocations : invocations[i] \in Invocation
    BY DEF GatewayInv, TypeOK
  <2> QED  BY <1>1, <2>1 DEF Invocation
<1>5. PendingHasParties'
  BY <1>1, <1>4 DEF GatewayInv, PendingHasParties, calls
<1> QED  BY <1>2, <1>3, <1>5 DEF GatewayInv

(* The registry changes: its two directions still agree, and it leads from *)
(* no closed connection to a node it did not lead to before.               *)
LEMMA MovingKeeps ==
    ASSUME GatewayInv, UNCHANGED <<calls, sockets, known>>,
           nodes' \in [Node -> Connection \cup {None}],
           nodeOf' \in [Connection -> Node \cup {None}],
           \A c \in Connection : nodeOf'[c] # None => nodes'[nodeOf'[c]] = c,
           \A c \in Connection : nodeOf'[c] \in {None, nodeOf[c]} \/ sockets[c] = "open",
           heard' \subseteq Connection, fresh' \subseteq Node,
           taken' \subseteq Node, quiet' \in Nat
    PROVE  GatewayInv'
<1>1. /\ Pending' = Pending /\ Pending \subseteq DOMAIN invocations
      /\ invocations' = invocations
  BY DEF Pending, calls
<1>2. \A i \in Pending : /\ invocations[i].target \in Connection
                         /\ invocations[i].node # None
  <2>1. \A i \in DOMAIN invocations : invocations[i] \in Invocation
    BY DEF GatewayInv, TypeOK
  <2> QED  BY <1>1, <2>1, GatewayAssumption DEF Invocation
<1>4. TypeOK'
  BY <1>1 DEF GatewayInv, TypeOK, calls
<1>5. IndexesAgree'
  BY <1>1 DEF GatewayInv, IndexesAgree, calls
<1>6. PendingHasParties'
  BY <1>1, <1>2 DEF GatewayInv, PendingHasParties
<1>8. KnownAreOpen'
  BY DEF GatewayInv, KnownAreOpen
<1> QED  BY <1>4, <1>5, <1>6, <1>8 DEF GatewayInv

(* What unregisterNode does to the registry.                               *)
LEMMA LeavingKeepsIndex ==
    ASSUME TypeOK, IndexesAgree, NEW n \in Node, Leaves(n)
    PROVE  /\ nodes' \in [Node -> Connection \cup {None}]
           /\ nodeOf' \in [Connection -> Node \cup {None}]
           /\ \A c \in Connection : nodeOf'[c] # None => nodes'[nodeOf'[c]] = c
<1>1. /\ nodes' = [nodes EXCEPT ![n] = None]
      /\ nodeOf' = [c \in Connection |-> IF c = nodes[n] THEN None ELSE nodeOf[c]]
  BY DEF Leaves, Unindexed
<1>2. /\ nodes \in [Node -> Connection \cup {None}]
      /\ nodeOf \in [Connection -> Node \cup {None}]
  BY DEF TypeOK
<1>3. \A c \in Connection : nodeOf[c] # None => nodes[nodeOf[c]] = c
  BY DEF IndexesAgree
<1>4. ASSUME NEW c \in Connection, nodeOf'[c] # None
      PROVE  nodes'[nodeOf'[c]] = c
  <2>1. c # nodes[n] /\ nodeOf'[c] = nodeOf[c] /\ nodeOf[c] \in Node
    BY <1>1, <1>2, <1>4
  <2>2. nodes[nodeOf[c]] = c /\ nodeOf[c] # n
    BY <1>3, <1>4, <2>1
  <2> QED  BY <1>1, <1>2, <2>1, <2>2
<1> QED  BY <1>1, <1>2, <1>4

(* What registerNode and updateNode do to it.                              *)
LEMMA RegisteringKeepsIndex ==
    ASSUME TypeOK, IndexesAgree, NEW c \in Connection, NEW n \in Node,
           Register(c, n)
    PROVE  /\ nodes' \in [Node -> Connection \cup {None}]
           /\ nodeOf' \in [Connection -> Node \cup {None}]
           /\ \A d \in Connection : nodeOf'[d] # None => nodes'[nodeOf'[d]] = d
<1>1. /\ nodes' = [nodes EXCEPT ![n] = c]
      /\ nodeOf' = [Unindexed(n) EXCEPT ![c] = n]
  BY DEF Register
<1>2. /\ nodes \in [Node -> Connection \cup {None}]
      /\ nodeOf \in [Connection -> Node \cup {None}]
  BY DEF TypeOK
<1>3. /\ Unindexed(n) \in [Connection -> Node \cup {None}]
      /\ \A d \in Connection :
            Unindexed(n)[d] = IF d = nodes[n] THEN None ELSE nodeOf[d]
  BY <1>2 DEF Unindexed
<1>4. \A d \in Connection : nodeOf[d] # None => nodes[nodeOf[d]] = d
  BY DEF IndexesAgree
<1>5. ASSUME NEW d \in Connection, nodeOf'[d] # None
      PROVE  nodes'[nodeOf'[d]] = d
  <2>1. CASE d = c
    BY <1>1, <1>2, <1>3, <2>1
  <2>2. CASE d # c
    <3>1. nodeOf'[d] = Unindexed(n)[d]
      BY <1>1, <1>3, <2>2
    <3>2. d # nodes[n] /\ nodeOf'[d] = nodeOf[d] /\ nodeOf[d] \in Node
      BY <1>2, <1>3, <1>5, <3>1
    <3>3. nodes[nodeOf[d]] = d /\ nodeOf[d] # n
      BY <1>4, <1>5, <3>2
    <3> QED  BY <1>1, <1>2, <3>2, <3>3
  <2> QED  BY <2>1, <2>2
<1> QED  BY <1>1, <1>2, <1>3, <1>5
-----------------------------------------------------------------------------
(* The invariant                                                           *)

LEMMA InitHolds == Init => GatewayInv
<1> SUFFICES ASSUME Init PROVE GatewayInv
  OBVIOUS
<1>1. Pending = {}
  BY DEF Init, Pending
<1>2. TypeOK
  BY DEF Init, TypeOK
<1> QED
  BY <1>1, <1>2
  DEF Init, GatewayInv, KnownAreOpen, IndexesAgree, PendingHasParties

(* handleInvoke: the new invocation is filed where it will be looked for.  *)
LEMMA InvokeKeeps ==
    ASSUME GatewayInv, NEW c \in Connection, NEW n \in Node, Invoke(c, n)
    PROVE  GatewayInv'
<1> DEFINE i    == Len(invocations) + 1
           sent == nodes[n] \in known
           v    == [node |-> n, target |-> nodes[n], caller |-> c,
                    pending |-> sent, answers |-> IF sent THEN 0 ELSE 1]
<1>1. /\ invocations \in Seq(Invocation) /\ Len(invocations) \in Nat
      /\ DOMAIN invocations = 1..Len(invocations)
  BY DEF GatewayInv, TypeOK
<1>2. /\ c \in known /\ nodes[n] \in Connection
      /\ sockets[c] = "open"
      /\ sent => sockets[nodes[n]] = "open"
  BY DEF Invoke, Speaks, Reachable, GatewayInv, KnownAreOpen, TypeOK
<1>3. v \in Invocation
  BY <1>2 DEF Invocation
<1>4. /\ invocations' = Append(invocations, v)
      /\ IF sent THEN Filed(i, v) ELSE UNCHANGED <<byCaller, byNode>>
      /\ UNCHANGED <<sockets, known, quiet, nodes, nodeOf, fresh, taken>>
      /\ heard' = heard \cup {c}
  BY DEF Invoke, Speaks, registry
<1>5. /\ v.node = n /\ v.target = nodes[n] /\ v.caller = c
      /\ v.pending <=> sent
      /\ v.answers = IF sent THEN 0 ELSE 1
  OBVIOUS
<1> HIDE DEF v
<1>6. /\ invocations' \in Seq(Invocation)
      /\ DOMAIN invocations' = DOMAIN invocations \cup {i}
      /\ \A j \in DOMAIN invocations : invocations'[j] = invocations[j]
      /\ invocations'[i] = v
      /\ i \in Nat /\ i \notin DOMAIN invocations
  BY <1>1, <1>3, <1>4
<1>7. Pending' = IF sent THEN Pending \cup {i} ELSE Pending
  BY <1>5, <1>6 DEF Pending
<1>8. Pending \subseteq DOMAIN invocations
  BY DEF Pending
<1>9. /\ byCaller \in [Connection -> SUBSET Nat] /\ byNode \in [Node -> SUBSET Nat]
      /\ \A d \in Connection : byCaller[d] = {j \in Pending : invocations[j].caller = d}
      /\ \A m \in Node : byNode[m] = {j \in Pending : invocations[j].node = m}
  BY DEF GatewayInv, TypeOK, IndexesAgree
<1>10. /\ byCaller' = IF sent THEN [byCaller EXCEPT ![c] = @ \cup {i}] ELSE byCaller
       /\ byNode' = IF sent THEN [byNode EXCEPT ![n] = @ \cup {i}] ELSE byNode
  BY <1>4, <1>5 DEF Filed
<1> HIDE DEF i, sent
<1>11. TypeOK'
  <2>2. /\ byCaller' \in [Connection -> SUBSET Nat]
        /\ byNode' \in [Node -> SUBSET Nat]
    BY <1>6, <1>9, <1>10
  <2> QED  BY <1>4, <1>6, <2>2 DEF GatewayInv, TypeOK
<1>12. ASSUME NEW d \in Connection
       PROVE  byCaller'[d] = {j \in Pending' : invocations'[j].caller = d}
  <2>1. CASE sent
    BY <1>5, <1>6, <1>7, <1>8, <1>9, <1>10, <2>1
  <2>2. CASE ~sent
    BY <1>5, <1>6, <1>7, <1>8, <1>9, <1>10, <2>2
  <2> QED  BY <2>1, <2>2
<1>13. ASSUME NEW m \in Node
       PROVE  byNode'[m] = {j \in Pending' : invocations'[j].node = m}
  <2>1. CASE sent
    BY <1>5, <1>6, <1>7, <1>8, <1>9, <1>10, <2>1
  <2>2. CASE ~sent
    BY <1>5, <1>6, <1>7, <1>8, <1>9, <1>10, <2>2
  <2> QED  BY <2>1, <2>2
<1>14. \A j \in DOMAIN invocations' :
          invocations'[j].answers = IF j \in Pending' THEN 0 ELSE 1
  <2> TAKE j \in DOMAIN invocations'
  <2>1. CASE j = i
    BY <1>5, <1>6, <1>7, <1>8, <2>1
  <2>2. CASE j # i
    <3>1. /\ j \in DOMAIN invocations /\ invocations'[j] = invocations[j]
          /\ j \in Pending' <=> j \in Pending
      BY <1>6, <1>7, <2>2
    <3>2. invocations[j].answers = IF j \in Pending THEN 0 ELSE 1
      BY <3>1 DEF GatewayInv, IndexesAgree
    <3> QED  BY <3>1, <3>2
  <2> QED  BY <2>1, <2>2
<1>15. IndexesAgree'
  <2>1. \A d \in Connection : nodeOf'[d] # None => nodes'[nodeOf'[d]] = d
    BY <1>4 DEF GatewayInv, IndexesAgree
  <2> QED  BY <1>12, <1>13, <1>14, <2>1 DEF IndexesAgree
<1>16. PendingHasParties'
  <2>1. \A j \in Pending : /\ sockets[invocations[j].caller] = "open"
                           /\ sockets[invocations[j].target] = "open"
                              \/ nodeOf[invocations[j].target] # invocations[j].node
    BY DEF GatewayInv, PendingHasParties
  <2>2. ASSUME NEW j \in Pending'
        PROVE  /\ sockets'[invocations'[j].caller] = "open"
               /\ sockets'[invocations'[j].target] = "open"
                  \/ nodeOf'[invocations'[j].target] # invocations'[j].node
    <3>1. CASE j \in Pending
      BY <1>4, <1>6, <1>8, <2>1, <3>1
    <3>2. CASE j \notin Pending
      BY <1>2, <1>4, <1>5, <1>6, <1>7, <2>2, <3>2
    <3> QED  BY <3>1, <3>2
  <2> QED  BY <2>2 DEF PendingHasParties
<1>18. KnownAreOpen'
  BY <1>4 DEF GatewayInv, KnownAreOpen
<1> QED  BY <1>11, <1>15, <1>16, <1>18 DEF GatewayInv

(* What a closing connection ends is pending, and is all that needed it.   *)
LEMMA EndedByIsEnough ==
    ASSUME GatewayInv, NEW c \in Connection
    PROVE  /\ EndedBy(c) \subseteq Pending
           /\ \A i \in Pending \ EndedBy(c) :
                 /\ invocations[i].caller # c
                 /\ invocations[i].target # c \/ nodeOf[c] # invocations[i].node
           /\ \A i \in EndedBy(c) :
                 c \in {invocations[i].caller, nodes[invocations[i].node]}
<1>1. /\ byCaller[c] = {i \in Pending : invocations[i].caller = c}
      /\ nodeOf[c] # None => nodes[nodeOf[c]] = c
      /\ \A n \in Node : byNode[n] = {i \in Pending : invocations[i].node = n}
  BY DEF GatewayInv, IndexesAgree
<1>2. nodeOf[c] \in Node \cup {None}
  BY DEF GatewayInv, TypeOK
<1>3. nodeOf[c] # None =>
         byNode[nodeOf[c]] = {i \in Pending : invocations[i].node = nodeOf[c]}
  BY <1>1, <1>2
<1>4. \A i \in Pending : invocations[i].node # None
  <2>1. \A i \in DOMAIN invocations : invocations[i] \in Invocation
    BY DEF GatewayInv, TypeOK
  <2> QED  BY <2>1, GatewayAssumption DEF Pending, Invocation
<1>6. ASSUME NEW i \in Pending, nodeOf[c] = invocations[i].node
      PROVE  i \in EndedBy(c)
  <2>1. nodeOf[c] = invocations[i].node /\ nodeOf[c] # None
    BY <1>4, <1>6
  <2> QED  BY <1>3, <2>1 DEF EndedBy
<1>7. \A i \in Pending : invocations[i].caller = c => i \in EndedBy(c)
  BY <1>1 DEF EndedBy
<1>8. \A i \in EndedBy(c) :
         i \in Pending /\ c \in {invocations[i].caller, nodes[invocations[i].node]}
  BY <1>1, <1>3 DEF EndedBy
<1> QED  BY <1>6, <1>7, <1>8

(* The close handler.                                                      *)
LEMMA DisconnectKeeps ==
    ASSUME GatewayInv, NEW c \in Connection, Disconnect(c)
    PROVE  GatewayInv'
<1>1. /\ sockets' = [sockets EXCEPT ![c] = "closed"]
      /\ known' = known \ {c} /\ End(EndedBy(c))
      /\ UNCHANGED <<heard, nodes, nodeOf, fresh, taken, quiet>>
  BY DEF Disconnect, registry
<1>2. TypeOK /\ KnownAreOpen /\ PendingHasParties
  BY DEF GatewayInv
<1>3. /\ sockets' \in [Connection -> {"new", "open", "closed"}]
      /\ known' \subseteq Connection /\ heard' \subseteq Connection
      /\ fresh' \subseteq Node /\ quiet' \in Nat
      /\ \A d \in Connection : d # c => sockets'[d] = sockets[d]
  BY <1>1, <1>2 DEF TypeOK
<1>4. KnownAreOpen'
  BY <1>1, <1>2, <1>3 DEF KnownAreOpen, TypeOK
<1>5. \A i \in Pending : /\ invocations[i].caller \in Connection
                         /\ invocations[i].target \in Connection
  <2>1. \A i \in DOMAIN invocations : invocations[i] \in Invocation
    BY <1>2 DEF TypeOK
  <2> QED  BY <2>1 DEF Pending, Invocation
<1>6. \A i \in Pending \ EndedBy(c) :
         /\ sockets'[invocations[i].caller] = "open"
         /\ sockets'[invocations[i].target] = "open"
            \/ nodeOf[invocations[i].target] # invocations[i].node
  BY <1>2, <1>3, <1>5, EndedByIsEnough DEF PendingHasParties
<1>7. EndedBy(c) \in SUBSET Pending
  BY EndedByIsEnough
<1> QED  BY <1>1, <1>3, <1>4, <1>6, <1>7, EndingKeeps

(* An answer and a timer end one pending invocation.                       *)
LEMMA EndingOneKeeps ==
    ASSUME GatewayInv, NEW i \in Pending, End({i}),
           UNCHANGED <<sockets, known, registry, quiet>>,
           heard' \subseteq Connection
    PROVE  GatewayInv'
<1>1. UNCHANGED <<nodes, nodeOf, fresh, taken>>
  BY DEF registry
<1>2. /\ sockets' \in [Connection -> {"new", "open", "closed"}]
      /\ known' \subseteq Connection /\ fresh' \subseteq Node /\ quiet' \in Nat
  BY <1>1 DEF GatewayInv, TypeOK
<1>3. KnownAreOpen'
  BY DEF GatewayInv, KnownAreOpen
<1>4. \A j \in Pending \ {i} :
         /\ sockets'[invocations[j].caller] = "open"
         /\ sockets'[invocations[j].target] = "open"
            \/ nodeOf[invocations[j].target] # invocations[j].node
  BY DEF GatewayInv, PendingHasParties
<1>5. {i} \in SUBSET Pending
  OBVIOUS
<1> QED  BY <1>1, <1>2, <1>3, <1>4, <1>5, EndingKeeps

LEMMA NextKeeps == GatewayInv /\ [Next]_vars => GatewayInv'
<1> SUFFICES ASSUME GatewayInv, [Next]_vars PROVE GatewayInv'
  OBVIOUS
<1>1. TypeOK /\ KnownAreOpen /\ IndexesAgree
  BY DEF GatewayInv
<1>2. ASSUME NEW c \in Connection, Connect(c)
      PROVE  GatewayInv'
  <2>1. /\ UNCHANGED <<nodes, nodeOf, taken, calls>>
        /\ fresh' = fresh /\ quiet' = quiet /\ sockets[c] = "new"
        /\ \/ /\ sockets' = [sockets EXCEPT ![c] = "closed"]
              /\ UNCHANGED <<known, heard>>
           \/ /\ sockets' = [sockets EXCEPT ![c] = "open"]
              /\ known' = known \cup {c} /\ heard' = heard \cup {c}
    BY <1>2 DEF Connect, registry
  <2>2. /\ sockets' \in [Connection -> {"new", "open", "closed"}]
        /\ \A d \in Connection : sockets[d] = "open" => sockets'[d] = "open"
        /\ known' \subseteq Connection /\ heard' \subseteq Connection
        /\ fresh' \subseteq Node /\ quiet' \in Nat
    BY <1>1, <2>1 DEF TypeOK
  <2>3. KnownAreOpen'
    BY <1>1, <2>1 DEF KnownAreOpen, TypeOK
  <2> QED  BY <2>1, <2>2, <2>3, LifeKeeps
<1>3. ASSUME NEW c \in Connection, Chats(c) \/ GoesQuiet(c) \/ SweepConnection(c)
      PROVE  GatewayInv'
  <2>1. /\ UNCHANGED <<sockets, nodes, nodeOf, taken, calls>>
        /\ known' \subseteq known /\ heard' \subseteq heard \cup {c}
        /\ fresh' \subseteq fresh /\ quiet' \in {quiet, quiet + 1}
    BY <1>3 DEF Chats, Speaks, GoesQuiet, SweepConnection, registry
  <2>2. /\ sockets' \in [Connection -> {"new", "open", "closed"}]
        /\ \A d \in Connection : sockets[d] = "open" => sockets'[d] = "open"
        /\ known' \subseteq Connection /\ heard' \subseteq Connection
        /\ fresh' \subseteq Node /\ quiet' \in Nat
    BY <1>1, <2>1 DEF TypeOK
  <2>3. KnownAreOpen'
    BY <1>1, <2>1 DEF KnownAreOpen
  <2> QED  BY <2>1, <2>2, <2>3, LifeKeeps
<1>4. ASSUME NEW n \in Node, GoesUnseen(n)
      PROVE  GatewayInv'
  <2>1. /\ UNCHANGED <<sockets, known, heard, nodes, nodeOf, taken, calls>>
        /\ fresh' \subseteq fresh /\ quiet' = quiet + 1
    BY <1>4 DEF GoesUnseen
  <2>2. /\ sockets' \in [Connection -> {"new", "open", "closed"}]
        /\ known' \subseteq Connection /\ heard' \subseteq Connection
        /\ fresh' \subseteq Node /\ quiet' \in Nat
    BY <1>1, <2>1 DEF TypeOK
  <2>3. KnownAreOpen'
    BY <1>1, <2>1 DEF KnownAreOpen
  <2> QED  BY <2>1, <2>2, <2>3, LifeKeeps
<1>5. ASSUME NEW c \in Connection, Disconnect(c)
      PROVE  GatewayInv'
  BY <1>5, DisconnectKeeps
<1>6. ASSUME NEW c \in Connection, NEW n \in Node, Register(c, n)
      PROVE  GatewayInv'
  <2>1. /\ UNCHANGED <<calls, sockets, known, quiet>>
        /\ heard' = heard \cup {c} /\ fresh' = fresh \cup {n}
        /\ taken' = taken \cup {n}
    BY <1>6 DEF Register, Speaks
  <2>2. /\ heard' \subseteq Connection /\ fresh' \subseteq Node
        /\ taken' \subseteq Node /\ quiet' \in Nat
    BY <1>1, <2>1 DEF TypeOK
  <2>3. \A d \in Connection : nodeOf'[d] \in {None, nodeOf[d]} \/ sockets[d] = "open"
    BY <1>1, <1>6 DEF Register, Speaks, Unindexed, KnownAreOpen, TypeOK
  <2> QED  BY <1>1, <1>6, <2>1, <2>2, <2>3, MovingKeeps, RegisteringKeepsIndex
<1>7. ASSUME NEW n \in Node,
             SweepNode(n) \/ \E c \in Connection : Unregister(c, n)
      PROVE  GatewayInv'
  <2>1. /\ Leaves(n) /\ UNCHANGED <<sockets, known, quiet, fresh>>
        /\ heard' \subseteq Connection
    BY <1>1, <1>7 DEF SweepNode, Unregister, Speaks, TypeOK
  <2>2. /\ UNCHANGED calls /\ taken' = taken
        /\ \A c \in Connection : nodeOf'[c] \in {None, nodeOf[c]}
    BY <1>1, <2>1 DEF Leaves, Unindexed, TypeOK
  <2>3. fresh' \subseteq Node /\ taken' \subseteq Node /\ quiet' \in Nat
    BY <1>1, <2>1, <2>2 DEF TypeOK
  <2> QED  BY <1>1, <2>1, <2>2, <2>3, MovingKeeps, LeavingKeepsIndex
<1>8. ASSUME NEW c \in Connection, NEW n \in Node, Invoke(c, n)
      PROVE  GatewayInv'
  BY <1>8, InvokeKeeps
<1>9. ASSUME NEW i \in DOMAIN invocations,
             TimeOut(i) \/ \E c \in Connection : Reply(c, i)
      PROVE  GatewayInv'
  <2>1. /\ i \in Pending /\ End({i})
        /\ UNCHANGED <<sockets, known, registry, quiet>>
        /\ heard' \subseteq Connection
    BY <1>1, <1>9 DEF TimeOut, Reply, Speaks, TypeOK
  <2> QED  BY <2>1, EndingOneKeeps
<1>10. ASSUME UNCHANGED vars
       PROVE  GatewayInv'
  <2>1. UNCHANGED <<sockets, known, heard, nodes, nodeOf, fresh, taken, calls,
                    quiet>>
    BY <1>10 DEF vars, registry
  <2>2. KnownAreOpen'
    BY <1>1, <2>1 DEF KnownAreOpen
  <2> QED  BY <1>1, <2>1, <2>2, LifeKeeps DEF TypeOK
<1> QED
  BY <1>2, <1>3, <1>4, <1>5, <1>6, <1>7, <1>8, <1>9, <1>10 DEF Next

-----------------------------------------------------------------------------
(* Theorems                                                                *)

(* The gateway's books are right in every reachable state: the type        *)
(* invariant and the parts of GatewayInv together.                         *)
THEOREM GatewayIsSound == Spec => []GatewayInv
<1>1. Init => GatewayInv
  BY InitHolds
<1>2. GatewayInv /\ [Next]_vars => GatewayInv'
  BY NextKeeps
<1> QED  BY <1>1, <1>2, PTL DEF Spec

(* Every variable has its type.                                            *)
THEOREM GatewayTypeCorrect == Spec => []TypeOK
<1>1. GatewayInv => TypeOK
  BY DEF GatewayInv
<1> QED  BY <1>1, GatewayIsSound, PTL

(* byCaller and byNode hold the pending invocations and nothing else, what *)
(* is not pending was answered once, and connectionIndex names no node     *)
(* that moved (invocation-manager, node-registry).                         *)
THEOREM IndexesAlwaysAgree == Spec => []IndexesAgree
<1>1. GatewayInv => IndexesAgree
  BY DEF GatewayInv
<1> QED  BY <1>1, GatewayIsSound, PTL

(* The caller of a pending invocation is connected, and so is its target   *)
(* for as long as the registry leads from the target to the node that was  *)
(* asked.  A target whose node was swept, unregistered or moved, or that   *)
(* registered another node, may be gone (the close handler).               *)
THEOREM WaitedForAreThere == Spec => []PendingHasParties
<1>1. GatewayInv => PendingHasParties
  BY DEF GatewayInv
<1> QED  BY <1>1, GatewayIsSound, PTL

(* A closing connection ends invocations of its caller, of its target, or  *)
(* of the node it speaks for now, and no other (failNodeInvocations).      *)
THEOREM ClosingEndsForAReason == Spec => EndsForAReason
<1> DEFINE Reason(c) ==
              \A i \in Pending : invocations'[i].pending
                 \/ c \in {invocations[i].caller, invocations[i].target,
                           nodes[invocations[i].node]}
           Ends == \A c \in Connection :
                      sockets[c] = "open" /\ sockets'[c] = "closed" => Reason(c)
<1>1. ASSUME GatewayInv, [Next]_vars, NEW c \in Connection,
             sockets[c] = "open", sockets'[c] = "closed"
      PROVE  Reason(c)
  <2>1. Disconnect(c)
    <3>1. sockets \in [Connection -> {"new", "open", "closed"}]
      BY <1>1 DEF GatewayInv, TypeOK
    <3>2. sockets' # sockets
      BY <1>1
    <3>3. \E d \in Connection : Connect(d) \/ Disconnect(d)
      BY <1>1, <3>2
      DEF Next, vars, Chats, Speaks, GoesQuiet, SweepConnection, Register,
          Unregister, Invoke, Reply, TimeOut, GoesUnseen, SweepNode
    <3>4. PICK d \in Connection : Connect(d) \/ Disconnect(d)
      BY <3>3
    <3>5. d = c
      BY <1>1, <3>1, <3>4 DEF Connect, Disconnect
    <3> QED  BY <1>1, <3>4, <3>5 DEF Connect
  <2>2. \A i \in DOMAIN invocations :
           i \notin EndedBy(c) => invocations'[i] = invocations[i]
    BY <2>1 DEF Disconnect, End
  <2> QED  BY <1>1, <2>2, EndedByIsEnough DEF Pending
<1>2. GatewayInv /\ [Next]_vars => Ends
  BY <1>1
<1>3. GatewayInv /\ [Next]_vars => [Ends]_vars
  BY <1>2
<1> HIDE DEF Ends
<1>4. Spec => [][Ends]_vars
  BY <1>3, GatewayIsSound, PTL DEF Spec
<1> QED  BY <1>4 DEF Ends, EndsForAReason
=============================================================================
