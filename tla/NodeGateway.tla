----------------------------- MODULE NodeGateway -----------------------------
(***************************************************************************)
(* Nodes behind the websocket gateway: connections (connection-manager and *)
(* the handlers of websocket/index), the registry of nodes (node-registry) *)
(* and the invocations that callers make of them (handlers/node,           *)
(* invocation-manager).                                                    *)
(*                                                                         *)
(* Every handler runs to its end before the next event; what interleaves   *)
(* are messages, closing sockets, timers and the two periodic sweeps.  An  *)
(* invocation is filed under its node and its caller, sent over the        *)
(* connection its node had then, and ends once.                            *)
(***************************************************************************)
EXTENDS Naturals, FiniteSets, Sequences

CONSTANTS
    Connection,      \* connection ids, each used once
    Node,            \* node ids
    None,            \* no node, no connection
    Paired,          \* the node a connection's pairing token speaks for
    MaxConnections,  \* maxConnections of the gateway
    MaxInvocations,  \* bound: invocations
    MaxQuiet         \* bound: times that something has not been heard of

ASSUME GatewayAssumption ==
    /\ None \notin Connection \cup Node
    /\ Paired \in [Connection -> Node \cup {None}]
    /\ MaxConnections \in Nat
    /\ MaxInvocations \in Nat
    /\ MaxQuiet \in Nat

VARIABLES
    sockets,      \* per connection: not yet open, open, closed
    known,        \* connections of the connection manager
    heard,        \* connections with a recent lastHeartbeat
    nodes,        \* the registry: the connection of each node
    nodeOf,       \* its index (connectionIndex): the node of a connection
    fresh,        \* nodes with a recent lastSeen
    taken,        \* node ids given out
    invocations,  \* those ever made
    byCaller,     \* index: pending ones of a caller's connection
    byNode,       \* index: pending ones of a node
    quiet         \* bound: what MaxQuiet counts

registry == <<nodes, nodeOf, fresh, taken>>
calls    == <<invocations, byCaller, byNode>>
vars     == <<sockets, known, heard, registry, calls, quiet>>

Invocation == [node : Node, target : Connection, caller : Connection,
               pending : BOOLEAN, answers : Nat]

TypeOK ==
    /\ sockets \in [Connection -> {"new", "open", "closed"}]
    /\ known \subseteq Connection
    /\ heard \subseteq Connection
    /\ nodes \in [Node -> Connection \cup {None}]
    /\ nodeOf \in [Connection -> Node \cup {None}]
    /\ fresh \subseteq Node
    /\ taken \subseteq Node
    /\ invocations \in Seq(Invocation)
    /\ byCaller \in [Connection -> SUBSET Nat]
    /\ byNode \in [Node -> SUBSET Nat]
    /\ quiet \in Nat

Init ==
    /\ sockets = [c \in Connection |-> "new"]
    /\ known = {}
    /\ heard = {}
    /\ nodes = [n \in Node |-> None]
    /\ nodeOf = [c \in Connection |-> None]
    /\ fresh = {}
    /\ taken = {}
    /\ invocations = <<>>
    /\ byCaller = [c \in Connection |-> {}]
    /\ byNode = [n \in Node |-> {}]
    /\ quiet = 0

Pending == {i \in DOMAIN invocations : invocations[i].pending}

-----------------------------------------------------------------------------
(* Connections                                                             *)

(* handleConnection, at the limit and below it.                            *)
Connect(c) ==
    /\ sockets[c] = "new"
    /\ IF Cardinality(known) >= MaxConnections
       THEN /\ sockets' = [sockets EXCEPT ![c] = "closed"]
            /\ UNCHANGED <<known, heard>>
       ELSE /\ sockets' = [sockets EXCEPT ![c] = "open"]
            /\ known' = known \cup {c}
            /\ heard' = heard \cup {c}
    /\ UNCHANGED <<registry, calls, quiet>>

(* A message: one from a connection that is not known is refused.          *)
Speaks(c) ==
    /\ c \in known
    /\ heard' = heard \cup {c}
    /\ UNCHANGED <<sockets, known, quiet>>

(* Any message that concerns neither nodes nor invocations.                *)
Chats(c) ==
    /\ Speaks(c)
    /\ UNCHANGED <<registry, calls>>

(* A connection is not heard of for two heartbeats: its node is not seen   *)
(* either.                                                                 *)
GoesQuiet(c) ==
    /\ quiet < MaxQuiet
    /\ quiet' = quiet + 1
    /\ c \in heard
    /\ heard' = heard \ {c}
    /\ fresh' = fresh \ {n \in Node : nodes[n] = c}
    /\ UNCHANGED <<sockets, known, nodes, nodeOf, taken, calls>>

(* Two heartbeats after a node registered: only registering stamps         *)
(* lastSeen (updateLastSeen has no caller).                                *)
GoesUnseen(n) ==
    /\ quiet < MaxQuiet
    /\ quiet' = quiet + 1
    /\ n \in fresh
    /\ fresh' = fresh \ {n}
    /\ UNCHANGED <<sockets, known, heard, nodes, nodeOf, taken, calls>>

-----------------------------------------------------------------------------
(* The registry                                                            *)

(* Mutant of Unindexed: what the index held of a node stays.               *)
StillIndexed(n) == nodeOf

(* The index without the connection of node n, whatever it led to.         *)
Unindexed(n) == [c \in Connection |-> IF c = nodes[n] THEN None ELSE nodeOf[c]]

(* handleRegister: a paired connection speaks for its node, any other gets *)
(* a fresh id; updateNode moves a node that is there, with its connection. *)
Register(c, n) ==
    /\ Speaks(c)
    /\ n = Paired[c] \/ (Paired[c] = None /\ n \notin taken
                         /\ \A d \in Connection : Paired[d] # n)
    /\ nodes' = [nodes EXCEPT ![n] = c]
    /\ nodeOf' = [Unindexed(n) EXCEPT ![c] = n]
    /\ fresh' = fresh \cup {n}
    /\ taken' = taken \cup {n}
    /\ UNCHANGED calls

(* unregisterNode.                                                         *)
Leaves(n) ==
    /\ nodes[n] # None
    /\ nodes' = [nodes EXCEPT ![n] = None]
    /\ nodeOf' = Unindexed(n)
    /\ UNCHANGED <<taken, calls>>

Unregister(c, n) ==
    /\ Speaks(c)
    /\ Leaves(n)
    /\ UNCHANGED fresh

(* cleanupStaleNodes: lastSeen is old.                                     *)
SweepNode(n) ==
    /\ n \notin fresh
    /\ Leaves(n)
    /\ UNCHANGED <<sockets, known, heard, fresh, quiet>>

-----------------------------------------------------------------------------
(* Invocations                                                             *)

(* Mutant of Filed: not under the caller.                                  *)
FiledUnderNode(i, v) ==
    /\ byNode' = [byNode EXCEPT ![v.node] = @ \cup {i}]
    /\ UNCHANGED byCaller

Filed(i, v) ==
    /\ byCaller' = [byCaller EXCEPT ![v.caller] = @ \cup {i}]
    /\ byNode' = [byNode EXCEPT ![v.node] = @ \cup {i}]

Reachable(n) == nodes[n] # None

(* handleInvoke: the invocation is pending once its request is sent; if    *)
(* that fails it fails at once.                                            *)
Invoke(c, n) ==
    /\ Len(invocations) < MaxInvocations
    /\ Speaks(c)
    /\ Reachable(n)
    /\ LET i    == Len(invocations) + 1
           sent == nodes[n] \in known
           v    == [node |-> n, target |-> nodes[n], caller |-> c,
                    pending |-> sent, answers |-> IF sent THEN 0 ELSE 1]
       IN  /\ invocations' = Append(invocations, v)
           /\ IF sent THEN Filed(i, v) ELSE UNCHANGED <<byCaller, byNode>>
    /\ UNCHANGED registry

(* The promise of each is resolved and cleanup removes it everywhere.      *)
End(ended) ==
    /\ invocations' = [i \in DOMAIN invocations |->
                         IF i \in ended
                         THEN [invocations[i] EXCEPT !.pending = FALSE, !.answers = @ + 1]
                         ELSE invocations[i]]
    /\ byCaller' = [c \in Connection |-> byCaller[c] \ ended]
    /\ byNode' = [n \in Node |-> byNode[n] \ ended]

(* node.rpc.response and node.rpc.error; refused when it is not the        *)
(* expected responder's, or late.                                          *)
Reply(c, i) ==
    /\ Speaks(c)
    /\ i \in Pending
    /\ invocations[i].target = c
    /\ End({i})
    /\ UNCHANGED registry

(* handleTimeout.                                                          *)
TimeOut(i) ==
    /\ i \in Pending
    /\ End({i})
    /\ UNCHANGED <<sockets, known, heard, registry, quiet>>

-----------------------------------------------------------------------------
(* Connections that end                                                    *)

(* Mutant of EndedBy: the invocations a caller waits for go on.            *)
EndedAtNode(c) == IF nodeOf[c] # None THEN byNode[nodeOf[c]] ELSE {}

(* cleanupCallerConnection, then failNodeInvocations of the node that the  *)
(* registry finds by the connection.                                       *)
EndedBy(c) ==
    byCaller[c] \cup (IF nodeOf[c] # None THEN byNode[nodeOf[c]] ELSE {})

(* The close handler (an error has the same effect before the close).  The *)
(* node stays registered.                                                  *)
Disconnect(c) ==
    /\ sockets[c] = "open"
    /\ sockets' = [sockets EXCEPT ![c] = "closed"]
    /\ known' = known \ {c}
    /\ End(EndedBy(c))
    /\ UNCHANGED <<heard, registry, quiet>>

(* checkStaleConnections: the connection is forgotten, not closed.         *)
SweepConnection(c) ==
    /\ c \in known \ heard
    /\ known' = known \ {c}
    /\ UNCHANGED <<sockets, heard, registry, calls, quiet>>

-----------------------------------------------------------------------------
Next ==
    \/ \E c \in Connection : \/ Connect(c) \/ Chats(c) \/ Disconnect(c)
                             \/ GoesQuiet(c) \/ SweepConnection(c)
    \/ \E c \in Connection, n \in Node : Register(c, n) \/ Unregister(c, n) \/ Invoke(c, n)
    \/ \E c \in Connection, i \in DOMAIN invocations : Reply(c, i)
    \/ \E i \in DOMAIN invocations : TimeOut(i)
    \/ \E n \in Node : GoesUnseen(n) \/ SweepNode(n)

Spec == Init /\ [][Next]_vars

-----------------------------------------------------------------------------
(* Properties                                                              *)

(* The indexes hold what is pending and nothing else, and whatever is not  *)
(* pending was answered once: no ending forgets an index, none comes       *)
(* twice, and the registry's index never names a node that moved.          *)
IndexesAgree ==
    /\ \A c \in Connection : byCaller[c] = {i \in Pending : invocations[i].caller = c}
    /\ \A n \in Node : byNode[n] = {i \in Pending : invocations[i].node = n}
    /\ \A i \in DOMAIN invocations :
          invocations[i].answers = IF i \in Pending THEN 0 ELSE 1
    /\ \A c \in Connection : nodeOf[c] # None => nodes[nodeOf[c]] = c

(* Whoever is waited for is there: the caller of a pending invocation is   *)
(* connected, and so is its target as long as the registry still leads     *)
(* from the target to the node that was asked.  It no longer does once     *)
(* that node was swept, unregistered, or registered over another           *)
(* connection, or once the target registered another node: the close       *)
(* handler then does not find whom the target answers for, and the call    *)
(* waits for its time-out.                                                 *)
PendingHasParties ==
    \A i \in Pending :
       /\ sockets[invocations[i].caller] = "open"
       /\ \/ sockets[invocations[i].target] = "open"
          \/ nodeOf[invocations[i].target] # invocations[i].node

(* The connection manager knows no connection whose socket is not open.    *)
KnownAreOpen == \A c \in known : sockets[c] = "open"

GatewayInv ==
    TypeOK /\ KnownAreOpen /\ IndexesAgree /\ PendingHasParties

(* What ends an invocation by a closing connection is its caller, its      *)
(* target, or the connection its node has now: never one its node left.    *)
EndsForAReason ==
    [][\A c \in Connection : sockets[c] = "open" /\ sockets'[c] = "closed" =>
          \A i \in Pending : invocations'[i].pending
             \/ c \in {invocations[i].caller, invocations[i].target,
                       nodes[invocations[i].node]}]_vars
=============================================================================
