-------------------------- MODULE MCWorkflowEngine --------------------------
(***************************************************************************)
(* The graphs WorkflowEngine is checked on, and the values of its          *)
(* constants: each cfg picks one graph and bounds the operations.          *)
(***************************************************************************)
EXTENDS WorkflowEngine

Outcomes == {"approved", "rejected", "ok", "redo"}

Dep(f, t)     == [from |-> f, to |-> t, conditional |-> FALSE, accepts |-> {}]
If(f, acc, t) == [from |-> f, to |-> t, conditional |-> TRUE, accepts |-> acc]

(* A gate, its successor, and a step that runs after either answer: the    *)
(* successor repeats until it says ok, at most twice.  Beside them, two    *)
(* steps that wait on each other (nothing checks the dependencies a        *)
(* planning agent proposes), of which a hand can mark one.                 *)
ForkStep == {"gate", "send", "join", "hen", "egg"}
ForkGate == {"gate"}
ForkEdge == {Dep("gate", "send"), Dep("send", "join"),
             If("gate", {"rejected"}, "join"),
             Dep("hen", "egg"), Dep("egg", "hen")}

(* A step on its own.                                                      *)
OneStep == {"only"}

NoLoop(S)  == [s \in S |-> 0]
NoUntil(S) == [s \in S |-> {}]

ForkLoop   == [s \in ForkStep |-> IF s = "send" THEN 2 ELSE 0]
ForkUntil  == [s \in ForkStep |-> IF s = "send" THEN {"ok"} ELSE {}]
OneLoop    == NoLoop(OneStep)
OneUntil   == NoUntil(OneStep)
=============================================================================
