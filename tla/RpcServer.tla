------------------------------- MODULE RpcServer -------------------------------
(***************************************************************************)
(* The frame of both gRPC servers: RpcServer of frame/GrpcServer.h and     *)
(* CallData of base/RpcCalldata.h.  One thread takes tags off a completion *)
(* queue and lets the call data they point to proceed.  A call data waits  *)
(* for one request of its method, makes the next one when it has come,     *)
(* runs the handler, and is deleted when the tag of its reply comes back.  *)
(*                                                                         *)
(* A call data is named by the request it gets.  What the handlers do is   *)
(* left to DbServer and FdfsServer.  gRPC itself is external: it gives a   *)
(* request to a call data that is armed for the method, writes a reply,    *)
(* and reports with ok = false a reply whose client is gone; the loop then *)
(* ignores the tag, and the call data is never deleted.                    *)
(***************************************************************************)
EXTENDS Naturals, FiniteSets

CONSTANTS Methods, Requests, MethodOf, NoReq

ASSUME RpcAssumption == MethodOf \in [Requests -> Methods] /\ NoReq \notin Requests

VARIABLES rpc,      \* a request on its way
          client,   \* what its client knows
          status,   \* status_ of its call data
          armed,    \* the number of call data that wait for a request of a method
          cq,       \* the tags in the completion queue
          loop,     \* the event loop
          down      \* the process has ended

frame == <<rpc, client, status, armed, cq, loop, down>>

Tag(r, kind) == [req |-> r, kind |-> kind]

InitFrame ==
    /\ rpc = [r \in Requests |-> "none"] /\ client = [r \in Requests |-> "idle"]
    /\ status = [r \in Requests |-> "PROCESS"]
    /\ armed = [m \in Methods |-> 1]       \* SpawnHandlers
    /\ cq = {} /\ loop = [pc |-> "next", req |-> NoReq] /\ down = FALSE

-----------------------------------------------------------------------------
(* gRPC.                                                                   *)

Send(r) ==
    /\ rpc[r] = "none"
    /\ rpc' = [rpc EXCEPT ![r] = "sent"] /\ client' = [client EXCEPT ![r] = "waiting"]
    /\ UNCHANGED <<status, armed, cq, loop, down>>

Arrive(r) ==
    /\ rpc[r] = "sent" /\ armed[MethodOf[r]] > 0
    /\ rpc' = [rpc EXCEPT ![r] = "taken"]
    /\ armed' = [armed EXCEPT ![MethodOf[r]] = @ - 1]
    /\ cq' = cq \cup {Tag(r, "request")}
    /\ UNCHANGED <<client, status, loop, down>>

Leave(r) ==
    /\ client[r] = "waiting" /\ client' = [client EXCEPT ![r] = "gone"]
    /\ UNCHANGED <<rpc, status, armed, cq, loop, down>>

\* The reply is on the wire, or cannot be written.
Written(r) ==
    /\ rpc[r] = "finishing"
    /\ client' = [client EXCEPT ![r] = IF @ = "waiting" THEN "answered" ELSE @]
    /\ \/ rpc' = [rpc EXCEPT ![r] = "written"] /\ cq' = cq \cup {Tag(r, "finish")}
       \/ client[r] = "gone" /\ rpc' = [rpc EXCEPT ![r] = "leaked"] /\ UNCHANGED cq
    /\ UNCHANGED <<status, armed, loop, down>>

Grpc(r) == ~down /\ (Arrive(r) \/ Written(r))

-----------------------------------------------------------------------------
(* The event loop, and what handlers call.                                 *)

LoopAt(pc) == ~down /\ loop.pc = pc
LoopGoes(pc) == loop' = [loop EXCEPT !.pc = pc]

NextTag(t) ==
    /\ LoopAt("next") /\ t \in cq /\ cq' = cq \ {t}
    /\ \/ /\ status[t.req] = "PROCESS" /\ loop' = [pc |-> "spawn", req |-> t.req] /\ UNCHANGED rpc
       \/ /\ status[t.req] = "FINISH" /\ rpc' = [rpc EXCEPT ![t.req] = "deleted"] /\ UNCHANGED loop
    /\ UNCHANGED <<client, status, armed, down>>

\* new Derived(service_, cq_), before the handler runs.
Spawn ==
    /\ LoopAt("spawn") /\ LoopGoes("handler")
    /\ armed' = [armed EXCEPT ![MethodOf[loop.req]] = @ + 1]
    /\ UNCHANGED <<rpc, client, status, cq, down>>

\* After the handler, or after the catch of what it threw.
Mark ==
    /\ LoopAt("mark") /\ loop' = [pc |-> "next", req |-> NoReq]
    /\ status' = [status EXCEPT ![loop.req] = "FINISH"]
    /\ UNCHANGED <<rpc, client, armed, cq, down>>

\* status_ = FINISH; responder_.Finish(reply_, OK, this).  A call data that
\* finishes twice, or after its end, breaks gRPC's rules: "misused".
Finish(r) ==
    /\ rpc' = [rpc EXCEPT ![r] = IF @ = "taken" THEN "finishing" ELSE "misused"]
    /\ status' = [status EXCEPT ![r] = "FINISH"]

\* Mutant: the catch deletes the call data.
ThrowDeletes ==
    /\ LoopGoes("mark") /\ rpc' = [rpc EXCEPT ![loop.req] = "deleted"]
    /\ UNCHANGED <<client, status, armed, cq, down>>

\* The handler throws: no reply will ever be given, and the call data stays.
Throw ==
    /\ LoopGoes("mark") /\ rpc' = [rpc EXCEPT ![loop.req] = "dropped"]
    /\ UNCHANGED <<client, status, armed, cq, down>>

LoopNext == Spawn \/ Mark \/ \E t \in cq : NextTag(t)

-----------------------------------------------------------------------------
FrameTypeOK ==
    /\ \A r \in Requests :
         /\ rpc[r] \in {"none", "sent", "taken", "finishing", "written", "leaked", "deleted", "dropped", "misused"}
         /\ client[r] \in {"idle", "waiting", "answered", "gone"}
         /\ status[r] \in {"PROCESS", "FINISH"}
    /\ armed \in [Methods -> Nat] /\ down \in BOOLEAN
    /\ loop.pc \in {"next", "spawn", "handler", "query", "push", "reply", "callback", "mark"}

\* A method always has a call data armed for the next request, whatever became
\* of the last: only between a request and the call of new is there none.
\* (CallData::Proceed)
AlwaysArmed == \A m \in Methods :
    armed[m] + Cardinality({t \in cq : t.kind = "request" /\ MethodOf[t.req] = m})
             + (IF loop.pc = "spawn" /\ MethodOf[loop.req] = m THEN 1 ELSE 0) = 1

\* The contract, by the state of the call data.
StageOf(state) == CASE state = "none" -> "none"
                    [] state = "sent" -> "asked"
                    [] state \in {"taken", "dropped"} -> "taken"
                    [] state \in {"finishing", "written", "leaked"} -> "replied"
                    [] state = "deleted" -> "released"
                    [] OTHER -> "misused"
stage == [r \in Requests |-> StageOf(rpc[r])]
Service == INSTANCE RpcService
IsService == Service!Spec
=============================================================================
