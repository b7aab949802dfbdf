------------------------------ MODULE RpcServerInv ------------------------------
(***************************************************************************)
(* What the proofs of both gRPC servers say of the frame: its invariant    *)
(* (FrameInv, ArmedInv), and that a step is one of RpcService or leaves    *)
(* its variables alone.                                                    *)
(***************************************************************************)
EXTENDS RpcServer

RpcStates == {"none", "sent", "taken", "finishing", "written", "leaked", "deleted", "dropped"}
Tags == [req : Requests, kind : {"request", "finish"}]
LoopPcs == {"next", "spawn", "handler", "query", "push", "reply", "callback", "mark"}

FrameTypes ==
    /\ rpc \in [Requests -> RpcStates]
    /\ client \in [Requests -> {"idle", "waiting", "answered", "gone"}]
    /\ status \in [Requests -> {"PROCESS", "FINISH"}]
    /\ armed \in [Methods -> Nat] /\ cq \subseteq Tags /\ down \in BOOLEAN
    /\ loop \in [pc : LoopPcs, req : Requests \cup {NoReq}]
    /\ loop.pc # "next" => loop.req \in Requests

\* A tag of a request finds its call data as it was armed, a tag of a reply one
\* that has replied; status_ tells the two apart.
TagInv == \A t \in cq :
    /\ t.kind = "request" => rpc[t.req] = "taken" /\ status[t.req] = "PROCESS"
    /\ t.kind = "finish" => rpc[t.req] = "written" /\ status[t.req] = "FINISH"

CallInv == \A r \in Requests :
    /\ rpc[r] \in {"none", "sent"} => status[r] = "PROCESS"
    /\ rpc[r] = "finishing" => status[r] = "FINISH"
    /\ rpc[r] = "written" => client[r] # "waiting"

\* The loop has a request whose tag it has taken, and which nobody has replied
\* to before its handler is through.
LoopInv ==
    /\ loop.pc # "next" => /\ rpc[loop.req] \notin {"none", "sent"}
                           /\ Tag(loop.req, "request") \notin cq
    /\ loop.pc \notin {"next", "mark"} => rpc[loop.req] = "taken"

FrameInv == FrameTypes /\ TagInv /\ CallInv /\ LoopInv

Incoming(m) == {t \in cq : t.kind = "request" /\ MethodOf[t.req] = m}
ArmedInv == AlwaysArmed /\ \A m \in Methods : IsFiniteSet(Incoming(m))

\* A step of the contract, or none.
ServiceStep == [Service!Next]_(Service!svars)
=============================================================================
