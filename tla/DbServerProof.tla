---------------------------- MODULE DbServerProof ----------------------------
(***************************************************************************)
(* The database server, for any requests and workers and a chain of any    *)
(* length: no callback is called for a call data that is gone, a statement *)
(* a chain waits for is in the queue or with a worker, it is carried out   *)
(* again only when its connection was lost, no handle is closed under its  *)
(* thread, and the server keeps the contract of RpcService.                *)
(***************************************************************************)
EXTENDS DbServer, RpcServerInv, FiniteSetTheorems, TLAPS

WorkerPcs == {"off", "pop", "asleep", "took", "run", "reconnect", "deliver", "done"}

\* The request is past its handler: the loop has no more to do with it.
Handed(r) ==
    /\ rpc[r] = "taken" /\ Tag(r, "request") \notin cq
    /\ ~(loop.pc \notin {"next", "mark"} /\ loop.req = r)

DbTypes ==
    /\ queue \in Seq(Stmts) /\ phase \in {"loading", "serving", "closing", "closed"}
    /\ future \in [Requests -> [n : 0..MaxChain, ready : BOOLEAN]]
    /\ cbs \subseteq Requests /\ pass \subseteq cbs

WorkerRecord == [pc : WorkerPcs, stmt : Stmts \cup {NoStmt}, applied : Nat, lost : Nat]
WorkerTypes ==
    /\ worker \in [Workers -> WorkerRecord]
    /\ stopped \in [Workers -> BOOLEAN] /\ handle \in [Workers -> BOOLEAN]
    /\ losses \in 0..MaxLost

\* While the pool is opened or closed there are no requests.
QuietInv == phase # "serving" =>
    /\ cq = {} /\ cbs = {} /\ loop.pc = "next"
    /\ \A r \in Requests : rpc[r] = "none" /\ future[r].n = 0

\* Only synchronous handlers reply or throw on the loop.
LoopKind ==
    /\ loop.pc # "query"
    /\ loop.pc \in {"push", "reply"} => ~IsAsync(loop.req)
    /\ loop.pc = "callback" => IsAsync(loop.req)

\* A chain belongs to an asynchronous request that is taken, and is with the
\* processor once the handler is through.
ChainInv ==
    /\ \A r \in cbs : Handed(r) /\ IsAsync(r)
    /\ \A r \in Requests : future[r].n > 0 => rpc[r] = "taken" /\ IsAsync(r)

\* A statement that is still to be run was carried out only by connections that
\* were lost.
WorkerOK(x, open) ==
    /\ x.pc \in {"off", "pop", "asleep"} => x.stmt = NoStmt
    /\ x.pc \notin {"off", "done"} => open
    /\ x.pc = "took" => x.applied = 0
    /\ x.pc \in {"run", "reconnect"} => x.applied <= x.lost
    /\ x.applied <= 1 + x.lost
WorkerInv == \A w \in Workers : WorkerOK(worker[w], handle[w])

DbInv == DbTypes /\ WorkerTypes /\ QuietInv /\ LoopKind /\ ChainInv /\ WorkerInv /\ FutureKept
IInv == FrameInv /\ ArmedInv /\ DbInv

-----------------------------------------------------------------------------
(* The frame: every step of it keeps its invariant, and is one of           *)
(* RpcService or leaves its variables alone, as long as the handlers call   *)
(* Finish and Throw only for a call data that is taken.                     *)

USE RpcAssumption

LEMMA StageValues ==
    /\ StageOf("none") = "none" /\ StageOf("sent") = "asked"
    /\ StageOf("taken") = "taken" /\ StageOf("dropped") = "taken"
    /\ StageOf("finishing") = "replied" /\ StageOf("written") = "replied"
    /\ StageOf("leaked") = "replied" /\ StageOf("deleted") = "released"
BY DEF StageOf

LEMMA FrameTypesOK == FrameTypes => FrameTypeOK
BY DEF FrameTypes, FrameTypeOK, RpcStates, LoopPcs

LEMMA InitFrameInv == InitFrame => FrameInv /\ ArmedInv /\ Service!Init
<1> SUFFICES ASSUME InitFrame PROVE FrameInv /\ ArmedInv /\ Service!Init
  OBVIOUS
<1>1. FrameInv
  BY DEF InitFrame, FrameInv, FrameTypes, TagInv, CallInv, LoopInv, RpcStates, LoopPcs, Tags
<1>2. \A m \in Methods : Incoming(m) = {}
  BY DEF InitFrame, Incoming
<1>3. ArmedInv
  BY <1>2, FS_EmptySet DEF InitFrame, ArmedInv, AlwaysArmed, Incoming
<1>4. Service!Init
  BY StageValues DEF InitFrame, Service!Init, stage
<1> QED
  BY <1>1, <1>3, <1>4

-----------------------------------------------------------------------------
(* The armed call data.                                                    *)

\* Nothing changes when no request comes or goes.
LEMMA ArmedSame ==
    ASSUME ArmedInv, UNCHANGED armed, \A m \in Methods : Incoming(m)' = Incoming(m),
           loop'.pc = "spawn" <=> loop.pc = "spawn", loop.pc = "spawn" => loop'.req = loop.req
    PROVE  ArmedInv'
BY DEF ArmedInv, AlwaysArmed, Incoming

LEMMA ArriveArmed == ASSUME FrameInv, ArmedInv, NEW r \in Requests, Arrive(r) PROVE ArmedInv'
<1> DEFINE M == MethodOf[r]  t == Tag(r, "request")
<1>1. t \notin cq /\ t.kind = "request" /\ t.req = r /\ M \in Methods
  BY DEF Arrive, FrameInv, TagInv, Tag
<1>2. Incoming(M)' = Incoming(M) \cup {t} /\ t \notin Incoming(M)
  BY <1>1 DEF Arrive, Incoming
<1>3. \A m \in Methods \ {M} : Incoming(m)' = Incoming(m)
  BY <1>1 DEF Arrive, Incoming
<1>4. /\ IsFiniteSet(Incoming(M)') /\ Cardinality(Incoming(M)') = Cardinality(Incoming(M)) + 1
      /\ Cardinality(Incoming(M)) \in Nat
  BY <1>1, <1>2, FS_AddElement, FS_CardinalityType DEF ArmedInv
<1> HIDE DEF t
<1>5. armed' = [armed EXCEPT ![M] = @ - 1] /\ armed \in [Methods -> Nat] /\ armed[M] > 0 /\ loop' = loop
  BY DEF Arrive, FrameInv, FrameTypes
<1>6. \A m \in Methods : IsFiniteSet(Incoming(m)')
  BY <1>1, <1>3, <1>4 DEF ArmedInv
<1>7. ASSUME NEW m \in Methods
      PROVE  armed'[m] + Cardinality(Incoming(m)')
               + (IF loop'.pc = "spawn" /\ MethodOf[loop'.req] = m THEN 1 ELSE 0) = 1
  <2>1. armed[m] + Cardinality(Incoming(m))
               + (IF loop.pc = "spawn" /\ MethodOf[loop.req] = m THEN 1 ELSE 0) = 1
    BY DEF ArmedInv, AlwaysArmed, Incoming
  <2>2. CASE m = M
    BY <2>1, <2>2, <1>4, <1>5
  <2>3. CASE m # M
    BY <2>1, <2>3, <1>3, <1>5
  <2> QED
    BY <2>2, <2>3
<1> QED
  BY <1>6, <1>7 DEF ArmedInv, AlwaysArmed, Incoming

LEMMA WrittenArmed == ASSUME FrameInv, ArmedInv, NEW r \in Requests, Written(r) PROVE ArmedInv'
<1>1. \A m \in Methods : Incoming(m)' = Incoming(m)
  BY DEF Written, Incoming, Tag
<1> QED
  BY <1>1, ArmedSame DEF Written

LEMMA NextTagArmed == ASSUME FrameInv, ArmedInv, NEW t \in cq, NextTag(t) PROVE ArmedInv'
<1>1. CASE status[t.req] = "PROCESS" /\ loop' = [pc |-> "spawn", req |-> t.req]
  <2> DEFINE M == MethodOf[t.req]
  <2>1. t.kind = "request" /\ t.req \in Requests /\ M \in Methods /\ loop.pc = "next"
    BY <1>1 DEF NextTag, FrameInv, FrameTypes, TagInv, Tags, LoopAt
  <2>2. Incoming(M)' = Incoming(M) \ {t} /\ t \in Incoming(M)
    BY <2>1 DEF NextTag, Incoming
  <2>3. \A m \in Methods \ {M} : Incoming(m)' = Incoming(m)
    BY <2>1 DEF NextTag, Incoming
  <2>4. /\ IsFiniteSet(Incoming(M)') /\ Cardinality(Incoming(M)') = Cardinality(Incoming(M)) - 1
        /\ Cardinality(Incoming(M)) \in Nat
    BY <2>1, <2>2, FS_RemoveElement, FS_CardinalityType DEF ArmedInv
  <2>5. \A m \in Methods : IsFiniteSet(Incoming(m)')
    BY <2>1, <2>3, <2>4 DEF ArmedInv
  <2>6. armed' = armed /\ armed \in [Methods -> Nat]
    BY DEF NextTag, FrameInv, FrameTypes
  <2>7. ASSUME NEW m \in Methods
        PROVE  armed'[m] + Cardinality(Incoming(m)')
                 + (IF loop'.pc = "spawn" /\ MethodOf[loop'.req] = m THEN 1 ELSE 0) = 1
    <3>1. armed[m] + Cardinality(Incoming(m)) + 0 = 1
      BY <2>1 DEF ArmedInv, AlwaysArmed, Incoming
    <3>2. CASE m = M
      BY <3>1, <3>2, <2>4, <2>6, <1>1
    <3>3. CASE m # M
      BY <3>1, <3>3, <2>3, <2>6, <1>1
    <3> QED
      BY <3>2, <3>3
  <2> QED
    BY <2>5, <2>7 DEF ArmedInv, AlwaysArmed, Incoming
<1>2. CASE status[t.req] = "FINISH" /\ UNCHANGED loop
  <2>1. t.kind # "request"
    BY <1>2 DEF NextTag, FrameInv, TagInv
  <2>2. \A m \in Methods : Incoming(m)' = Incoming(m)
    BY <2>1 DEF NextTag, Incoming
  <2> QED
    BY <1>2, <2>2, ArmedSame DEF NextTag
<1> QED
  BY <1>1, <1>2 DEF NextTag

LEMMA SpawnArmed == ASSUME FrameInv, ArmedInv, Spawn PROVE ArmedInv'
<1> DEFINE M == MethodOf[loop.req]
<1>1. loop.pc = "spawn" /\ loop'.pc = "handler" /\ M \in Methods
  BY DEF Spawn, LoopAt, LoopGoes, FrameInv, FrameTypes
<1>2. armed' = [armed EXCEPT ![M] = @ + 1] /\ armed \in [Methods -> Nat]
  BY DEF Spawn, FrameInv, FrameTypes
<1>3. \A m \in Methods : Incoming(m)' = Incoming(m)
  BY DEF Spawn, Incoming
<1>4. \A m \in Methods : Cardinality(Incoming(m)) \in Nat
  BY FS_CardinalityType DEF ArmedInv
<1>5. ASSUME NEW m \in Methods
      PROVE  armed'[m] + Cardinality(Incoming(m)')
               + (IF loop'.pc = "spawn" /\ MethodOf[loop'.req] = m THEN 1 ELSE 0) = 1
  <2>1. armed[m] + Cardinality(Incoming(m)) + (IF M = m THEN 1 ELSE 0) = 1
    BY <1>1 DEF ArmedInv, AlwaysArmed, Incoming
  <2> QED
    BY <2>1, <1>1, <1>2, <1>3, <1>4
<1> QED
  BY <1>3, <1>5 DEF ArmedInv, AlwaysArmed, Incoming

-----------------------------------------------------------------------------
(* The steps of the frame.                                                 *)

LEMMA SendFrame ==
    ASSUME FrameInv, ArmedInv, NEW r \in Requests, Send(r)
    PROVE  FrameInv' /\ ArmedInv' /\ ServiceStep
<1>1. FrameInv'
  BY DEF Send, FrameInv, FrameTypes, TagInv, CallInv, LoopInv, RpcStates, Tag
<1>2. ArmedInv'
  BY ArmedSame DEF Send, Incoming
<1>3. Service!Ask(r)
  BY StageValues DEF Send, Service!Ask, Service!Moves, stage, FrameInv, FrameTypes
<1> QED
  BY <1>1, <1>2, <1>3 DEF ServiceStep, Service!Next

LEMMA LeaveFrame ==
    ASSUME FrameInv, ArmedInv, NEW r \in Requests, Leave(r)
    PROVE  FrameInv' /\ ArmedInv' /\ ServiceStep
<1>1. FrameInv'
  BY DEF Leave, FrameInv, FrameTypes, TagInv, CallInv, LoopInv, RpcStates, Tag
<1>2. ArmedInv'
  BY ArmedSame DEF Leave, Incoming
<1>3. Service!Leave(r)
  BY DEF Leave, Service!Leave, stage
<1> QED
  BY <1>1, <1>2, <1>3 DEF ServiceStep, Service!Next

LEMMA ArriveFrame ==
    ASSUME FrameInv, ArmedInv, NEW r \in Requests, ~down, Arrive(r)
    PROVE  FrameInv' /\ ArmedInv' /\ ServiceStep
<1>1. MethodOf[r] \in Methods /\ Tag(r, "request") \in Tags
  BY DEF Tag, Tags
<1>2. FrameTypes'
  BY <1>1 DEF Arrive, FrameInv, FrameTypes, RpcStates
<1>3. TagInv'
  BY DEF Arrive, FrameInv, FrameTypes, TagInv, CallInv, Tag, Tags
<1>4. CallInv'
  BY DEF Arrive, FrameInv, FrameTypes, CallInv
<1>5. LoopInv'
  BY DEF Arrive, FrameInv, FrameTypes, LoopInv, Tag
<1>6. Service!Take(r)
  BY StageValues DEF Arrive, Service!Take, Service!Moves, stage, FrameInv, FrameTypes
<1> QED
  BY <1>2, <1>3, <1>4, <1>5, <1>6, ArriveArmed DEF FrameInv, ServiceStep, Service!Next

LEMMA WrittenFrame ==
    ASSUME FrameInv, ArmedInv, NEW r \in Requests, ~down, Written(r)
    PROVE  FrameInv' /\ ArmedInv' /\ ServiceStep
<1>1. Tag(r, "finish") \in Tags
  BY DEF Tag, Tags
<1>2. FrameTypes'
  BY <1>1 DEF Written, FrameInv, FrameTypes, RpcStates
<1>3. TagInv'
  BY DEF Written, FrameInv, FrameTypes, TagInv, CallInv, Tag, Tags
<1>4. CallInv'
  BY DEF Written, FrameInv, FrameTypes, CallInv
<1>5. LoopInv'
  BY DEF Written, FrameInv, FrameTypes, LoopInv, Tag
<1>6. UNCHANGED stage /\ stage[r] = "replied"
  BY StageValues DEF Written, stage, FrameInv, FrameTypes
<1>7. ASSUME client[r] = "waiting" PROVE ServiceStep
  <2>1. Service!Deliver(r)
    BY <1>6, <1>7 DEF Written, Service!Deliver, FrameInv, FrameTypes
  <2> QED
    BY <2>1 DEF Service!Next, ServiceStep
<1>8. ASSUME client[r] # "waiting" PROVE ServiceStep
  <2>1. UNCHANGED client
    BY <1>8 DEF Written, FrameInv, FrameTypes
  <2> QED
    BY <1>6, <2>1 DEF Written, ServiceStep, Service!svars
<1> QED
  BY <1>2, <1>3, <1>4, <1>5, <1>7, <1>8, WrittenArmed DEF FrameInv, ServiceStep

LEMMA NextTagFrame ==
    ASSUME FrameInv, ArmedInv, NEW t \in cq, NextTag(t)
    PROVE  FrameInv' /\ ArmedInv' /\ ServiceStep
<1>1. t.req \in Requests /\ t.kind \in {"request", "finish"} /\ cq' = cq \ {t} /\ ~down
      /\ t = Tag(t.req, t.kind)
  BY DEF FrameInv, FrameTypes, Tags, NextTag, LoopAt, Tag
<1>2. CASE status[t.req] = "PROCESS" /\ loop' = [pc |-> "spawn", req |-> t.req] /\ UNCHANGED rpc
  <2>1. t.kind = "request" /\ rpc[t.req] = "taken"
    BY <1>1, <1>2 DEF FrameInv, TagInv
  <2>2. FrameTypes' /\ TagInv' /\ CallInv'
    BY <1>1, <1>2 DEF NextTag, FrameInv, FrameTypes, TagInv, CallInv, LoopPcs
  <2>3. LoopInv'
    BY <1>1, <1>2, <2>1 DEF LoopInv, Tag
  <2>4. UNCHANGED <<stage, client, down>>
    BY <1>2 DEF NextTag, stage
  <2> QED
    BY <2>2, <2>3, <2>4, NextTagArmed DEF FrameInv, ServiceStep, Service!svars
<1>3. CASE status[t.req] = "FINISH" /\ rpc' = [rpc EXCEPT ![t.req] = "deleted"] /\ UNCHANGED loop
  <2>1. t.kind = "finish" /\ rpc[t.req] = "written" /\ client[t.req] # "waiting"
    BY <1>1, <1>3 DEF FrameInv, TagInv, CallInv
  <2>2. FrameTypes'
    BY <1>1, <1>3 DEF NextTag, FrameInv, FrameTypes, RpcStates
  <2>3. TagInv'
    <3>1. ASSUME NEW v \in cq' PROVE v.req # t.req /\ v \in cq /\ v.req \in Requests
      BY <1>1, <2>1 DEF FrameInv, FrameTypes, TagInv, Tags
    <3>2. ASSUME NEW v \in cq' PROVE rpc'[v.req] = rpc[v.req] /\ status'[v.req] = status[v.req]
      BY <1>3, <3>1 DEF NextTag, FrameInv, FrameTypes
    <3> QED
      BY <3>1, <3>2 DEF FrameInv, TagInv
  <2>4. CallInv'
    BY <1>1, <1>3, <2>1 DEF NextTag, FrameInv, FrameTypes, CallInv
  <2>5. LoopInv'
    BY <1>1, <1>3 DEF NextTag, LoopAt, LoopInv
  <2>6. Service!Release(t.req)
    BY <1>1, <1>3, <2>1, StageValues
       DEF NextTag, Service!Release, Service!Moves, stage, FrameInv, FrameTypes
  <2> QED
    BY <1>1, <2>2, <2>3, <2>4, <2>5, <2>6, NextTagArmed DEF FrameInv, ServiceStep, Service!Next
<1> QED
  BY <1>2, <1>3 DEF NextTag

LEMMA SpawnFrame ==
    ASSUME FrameInv, ArmedInv, Spawn
    PROVE  FrameInv' /\ ArmedInv' /\ ServiceStep
<1>1. FrameTypes'
  BY DEF Spawn, LoopAt, LoopGoes, FrameInv, FrameTypes, LoopPcs
<1>2. TagInv' /\ CallInv' /\ LoopInv'
  BY DEF Spawn, LoopAt, LoopGoes, FrameInv, FrameTypes, TagInv, CallInv, LoopInv, Tag
<1>3. UNCHANGED <<stage, client, down>>
  BY DEF Spawn, stage
<1> QED
  BY <1>1, <1>2, <1>3, SpawnArmed DEF FrameInv, ServiceStep, Service!svars

LEMMA MarkFrame ==
    ASSUME FrameInv, ArmedInv, Mark
    PROVE  FrameInv' /\ ArmedInv' /\ ServiceStep
<1>1. loop.pc = "mark" /\ loop.req \in Requests /\ rpc[loop.req] \notin {"none", "sent"}
      /\ Tag(loop.req, "request") \notin cq
  BY DEF Mark, LoopAt, FrameInv, FrameTypes, LoopInv
<1>2. FrameTypes'
  BY <1>1 DEF Mark, FrameInv, FrameTypes, LoopPcs
<1>3. TagInv'
  BY <1>1 DEF Mark, FrameInv, FrameTypes, TagInv, Tag, Tags
<1>4. CallInv' /\ LoopInv'
  BY <1>1 DEF Mark, FrameInv, FrameTypes, CallInv, LoopInv
<1>5. ArmedInv'
  BY <1>1, ArmedSame DEF Mark, Incoming
<1>6. UNCHANGED <<stage, client, down>>
  BY DEF Mark, stage
<1> QED
  BY <1>2, <1>3, <1>4, <1>5, <1>6 DEF FrameInv, ServiceStep, Service!svars

LEMMA LoopFrame ==
    ASSUME FrameInv, ArmedInv, LoopNext
    PROVE  FrameInv' /\ ArmedInv' /\ ServiceStep
BY NextTagFrame, SpawnFrame, MarkFrame DEF LoopNext

LEMMA GrpcFrame ==
    ASSUME FrameInv, ArmedInv, NEW r \in Requests, Send(r) \/ Leave(r) \/ Grpc(r)
    PROVE  FrameInv' /\ ArmedInv' /\ ServiceStep
BY SendFrame, LeaveFrame, ArriveFrame, WrittenFrame DEF Grpc

LEMMA SameFrame ==
    ASSUME FrameInv, ArmedInv, UNCHANGED frame
    PROVE  FrameInv' /\ ArmedInv' /\ ServiceStep
BY DEF frame, FrameInv, FrameTypes, TagInv, CallInv, LoopInv, ArmedInv, AlwaysArmed, Incoming,
       ServiceStep, Service!svars, stage

-----------------------------------------------------------------------------
(* What handlers do to the frame.                                          *)

\* The loop goes from one statement of a handler to another, or leaves it.
LEMMA LoopMoves ==
    ASSUME FrameInv, ArmedInv, loop.pc \notin {"next", "spawn", "mark"},
           NEW pc \in LoopPcs \ {"next", "spawn"}, LoopGoes(pc),
           UNCHANGED <<rpc, client, status, armed, cq, down>>
    PROVE  FrameInv' /\ ArmedInv' /\ ServiceStep
<1>1. loop'.pc = pc /\ loop'.req = loop.req /\ loop' \in [pc : LoopPcs, req : Requests \cup {NoReq}]
  BY DEF LoopGoes, FrameInv, FrameTypes
<1>2. FrameInv'
  BY <1>1 DEF FrameInv, FrameTypes, TagInv, CallInv, LoopInv
<1>3. ArmedInv'
  BY <1>1, ArmedSame DEF Incoming
<1>4. UNCHANGED stage
  BY DEF stage
<1> QED
  BY <1>2, <1>3, <1>4 DEF ServiceStep, Service!svars

LEMMA ThrowFrame ==
    ASSUME FrameInv, ArmedInv, loop.pc \notin {"next", "spawn", "mark"}, Throw
    PROVE  FrameInv' /\ ArmedInv' /\ ServiceStep
<1>1. loop.req \in Requests /\ rpc[loop.req] = "taken" /\ Tag(loop.req, "request") \notin cq
  BY DEF FrameInv, FrameTypes, LoopInv
<1>2. loop'.pc = "mark" /\ loop'.req = loop.req /\ loop' \in [pc : LoopPcs, req : Requests \cup {NoReq}]
  BY DEF Throw, LoopGoes, FrameInv, FrameTypes, LoopPcs
<1>3. FrameTypes'
  BY <1>1, <1>2 DEF Throw, FrameInv, FrameTypes, RpcStates
<1>4. TagInv'
  BY <1>1 DEF Throw, FrameInv, FrameTypes, TagInv, Tag, Tags
<1>5. CallInv' /\ LoopInv'
  BY <1>1, <1>2 DEF Throw, FrameInv, FrameTypes, CallInv, LoopInv
<1>6. ArmedInv'
  BY <1>2, ArmedSame DEF Throw, Incoming
<1>7. UNCHANGED <<stage, client, down>>
  BY <1>1, StageValues DEF Throw, stage, FrameInv, FrameTypes
<1> QED
  BY <1>3, <1>4, <1>5, <1>6, <1>7 DEF FrameInv, ServiceStep, Service!svars

\* A reply, by the loop on its way out of a handler, or for a request it has left.
LEMMA FinishFrame ==
    ASSUME FrameInv, ArmedInv, NEW r \in Requests, ~down, Finish(r),
           rpc[r] = "taken", Tag(r, "request") \notin cq,
           UNCHANGED <<client, armed, cq, down>>,
           \/ UNCHANGED loop /\ (loop.pc \in {"next", "mark"} \/ loop.req # r)
           \/ loop.pc \notin {"next", "spawn", "mark"} /\ LoopGoes("mark")
    PROVE  FrameInv' /\ ArmedInv' /\ ServiceStep
<1>1. /\ loop'.req = loop.req /\ loop' \in [pc : LoopPcs, req : Requests \cup {NoReq}]
      /\ loop'.pc = "next" <=> loop.pc = "next"
      /\ loop'.pc = "spawn" <=> loop.pc = "spawn"
      /\ loop'.pc \notin {"next", "mark"} => loop' = loop /\ loop.req # r
  BY DEF LoopGoes, FrameInv, FrameTypes, LoopPcs
<1>2. FrameTypes'
  BY <1>1 DEF Finish, FrameInv, FrameTypes, RpcStates
<1>3. TagInv'
  BY DEF Finish, FrameInv, FrameTypes, TagInv, Tag, Tags
<1>4. CallInv'
  BY DEF Finish, FrameInv, FrameTypes, CallInv
<1>5. LoopInv'
  BY <1>1 DEF Finish, FrameInv, FrameTypes, LoopInv
<1>6. ArmedInv'
  BY <1>1, ArmedSame DEF Incoming
<1>7. Service!Reply(r)
  BY StageValues DEF Finish, Service!Reply, Service!Moves, stage, FrameInv, FrameTypes
<1> QED
  BY <1>2, <1>3, <1>4, <1>5, <1>6, <1>7 DEF FrameInv, ServiceStep, Service!Next

\* The process ends.
LEMMA DownFrame ==
    ASSUME FrameInv, ArmedInv, ~down, down', UNCHANGED <<rpc, client, status, armed, cq, loop>>
    PROVE  FrameInv' /\ ArmedInv' /\ ServiceStep
<1>1. FrameInv'
  BY DEF FrameInv, FrameTypes, TagInv, CallInv, LoopInv
<1>2. ArmedInv'
  BY ArmedSame DEF Incoming
<1>3. Service!BreakDown
  BY DEF Service!BreakDown, stage, FrameInv, FrameTypes
<1> QED
  BY <1>1, <1>2, <1>3 DEF ServiceStep, Service!Next

\* A step of the server's own, which may be its last.
LEMMA StayFrame ==
    ASSUME FrameInv, ArmedInv, UNCHANGED <<rpc, client, status, armed, cq, loop>>,
           UNCHANGED down \/ (~down /\ down' = TRUE)
    PROVE  FrameInv' /\ ArmedInv' /\ ServiceStep
BY SameFrame, DownFrame DEF frame

-----------------------------------------------------------------------------
USE DbAssumption

LEMMA NoStmtIsNone == NoStmt \notin Stmts
BY DEF NoStmt, Stmts

LEMMA InitInv == Init => IInv /\ Service!Init
<1> SUFFICES ASSUME Init PROVE IInv /\ Service!Init
  OBVIOUS
<1>1. FrameInv /\ ArmedInv /\ Service!Init
  BY InitFrameInv DEF Init
<1>2. DbTypes /\ WorkerTypes
  BY DEF Init, DbTypes, WorkerTypes, WorkerRecord, WorkerPcs, Thread
<1>3. QuietInv /\ LoopKind /\ ChainInv
  BY DEF Init, InitFrame, QuietInv, LoopKind, ChainInv
<1>4. WorkerInv /\ FutureKept
  BY DEF Init, WorkerInv, WorkerOK, Thread, FutureKept
<1> QED
  BY <1>1, <1>2, <1>3, <1>4 DEF IInv, DbInv

-----------------------------------------------------------------------------
(* What a step has to keep.                                                *)

LEMMA Serving ==
    ASSUME DbInv, loop.pc # "next" \/ cq # {} \/ cbs # {} PROVE phase = "serving"
BY DEF DbInv, QuietInv

\* The chains look at the frame for who is handed and who is taken.
LEMMA SameChain ==
    ASSUME DbInv, phase' = "serving", LoopKind', UNCHANGED <<future, cbs>>,
           \A r \in Requests : IsAsync(r) => /\ Handed(r) => Handed(r)'
                                             /\ rpc[r] = "taken" => rpc'[r] = "taken"
    PROVE  QuietInv' /\ ChainInv'
BY DEF DbInv, DbTypes, QuietInv, ChainInv, IsAsync

LEMMA SamePool ==
    ASSUME DbInv, UNCHANGED <<worker, stopped, handle, losses>>
    PROVE  WorkerTypes' /\ WorkerInv'
BY DEF DbInv, WorkerTypes, WorkerRecord, WorkerInv

LEMMA SameHands ==
    ASSUME DbInv, UNCHANGED <<queue, worker>>,
           \A r \in Requests : future'[r] = future[r] \/ future'[r].n = 0
    PROVE  FutureKept'
<1>1. \A s : InHand(s)' = InHand(s)
  BY DEF InHand
<1>2. \A r \in Requests : future[r].n \in Nat
  BY DEF DbInv, DbTypes
<1> QED
  BY <1>1, <1>2 DEF DbInv, FutureKept

\* Push: the statement is in hand, and no other leaves the hands it is in.
LEMMA PushKeeps ==
    ASSUME DbInv, NEW s \in Stmts, Push(s), UNCHANGED <<stopped, handle, losses>>
    PROVE  /\ queue' \in Seq(Stmts) /\ WorkerTypes' /\ WorkerInv'
           /\ InHand(s)' /\ \A q \in Stmts : InHand(q) => InHand(q)'
<1>1. /\ queue \in Seq(Stmts) /\ queue' = Append(queue, s) /\ queue' \in Seq(Stmts)
      /\ Len(queue') = Len(queue) + 1 /\ queue'[Len(queue')] = s
      /\ \A i \in 1..Len(queue) : queue'[i] = queue[i] /\ i \in 1..Len(queue')
  BY DEF DbInv, DbTypes, Push
<1>2. /\ WorkerTypes' /\ WorkerInv'
      /\ \A v \in Workers : worker[v].stmt \in Stmts => worker'[v].stmt = worker[v].stmt
  <2>1. CASE UNCHANGED worker
    BY <2>1, SamePool
  <2>2. ASSUME NEW w \in Workers, worker[w].pc = "asleep", At(w, "pop", NoStmt)
        PROVE  /\ WorkerTypes' /\ WorkerInv'
               /\ \A v \in Workers : worker[v].stmt \in Stmts => worker'[v].stmt = worker[v].stmt
    <3>1. worker' = [worker EXCEPT ![w] = Thread("pop", NoStmt)]
      BY <2>2 DEF At
    <3>2. handle[w] /\ worker[w].stmt = NoStmt
      BY <2>2 DEF DbInv, WorkerInv, WorkerOK
    <3>3. WorkerTypes'
      BY <3>1 DEF DbInv, WorkerTypes, WorkerRecord, WorkerPcs, Thread
    <3>4. WorkerInv'
      BY <3>1, <3>2 DEF DbInv, WorkerTypes, WorkerRecord, WorkerInv, WorkerOK, Thread
    <3> QED
      BY <3>1, <3>2, <3>3, <3>4, NoStmtIsNone DEF DbInv, WorkerTypes, WorkerRecord
  <2> QED
    BY <2>1, <2>2 DEF Push
<1>3. InHand(s)'
  <2>1. Len(queue') \in 1..Len(queue')
    BY <1>1
  <2> QED
    BY <1>1, <2>1 DEF InHand
<1>4. ASSUME NEW q \in Stmts, InHand(q) PROVE InHand(q)'
  BY <1>1, <1>2, <1>4 DEF InHand
<1> QED
  BY <1>1, <1>2, <1>3, <1>4

-----------------------------------------------------------------------------
(* gRPC and the event loop.                                                *)

LEMMA GrpcStep ==
    ASSUME IInv, NEW r \in Requests, phase = "serving", Send(r) \/ Leave(r) \/ Grpc(r),
           UNCHANGED <<pool, phase, chain, losses>>
    PROVE  IInv' /\ ServiceStep
<1> USE DEF IInv
<1>1. FrameInv' /\ ArmedInv' /\ ServiceStep
  BY GrpcFrame
<1>2. /\ UNCHANGED loop
      /\ \A q \in Requests : /\ Handed(q) => Handed(q)'
                             /\ rpc[q] = "taken" => rpc'[q] = "taken"
  <2> USE DEF FrameInv, FrameTypes, Handed, Tag
  <2>1. CASE Send(r)
    BY <2>1 DEF Send
  <2>2. CASE Leave(r)
    BY <2>2 DEF Leave
  <2>3. CASE Arrive(r)
    BY <2>3 DEF Arrive
  <2>4. CASE Written(r)
    BY <2>4 DEF Written
  <2> QED
    BY <2>1, <2>2, <2>3, <2>4 DEF Grpc
<1>3. QuietInv' /\ LoopKind' /\ ChainInv'
  BY <1>2, SameChain DEF chain, DbInv, LoopKind, IsAsync
<1>4. DbTypes' /\ WorkerTypes' /\ WorkerInv' /\ FutureKept'
  BY SamePool, SameHands DEF pool, chain, DbInv, DbTypes
<1> QED
  BY <1>1, <1>3, <1>4 DEF DbInv

LEMMA LoopNextStep ==
    ASSUME IInv, LoopNext, UNCHANGED <<pool, phase, chain, losses>> PROVE IInv' /\ ServiceStep
<1> USE DEF IInv
<1>1. FrameInv' /\ ArmedInv' /\ ServiceStep
  BY LoopFrame
<1>2. phase = "serving"
  BY Serving DEF LoopNext, Spawn, Mark, LoopAt
<1>3. /\ LoopKind'
      /\ \A q \in Requests : /\ Handed(q) => Handed(q)'
                             /\ rpc[q] = "taken" => rpc'[q] = "taken"
  <2> USE DEF FrameInv, FrameTypes, Handed, LoopKind, DbInv, IsAsync
  <2>1. CASE Spawn
    BY <2>1 DEF Spawn, LoopAt, LoopGoes
  <2>2. CASE Mark
    BY <2>2 DEF Mark, LoopAt
  <2>3. ASSUME NEW t \in cq, NextTag(t), status[t.req] = "PROCESS",
               loop' = [pc |-> "spawn", req |-> t.req], UNCHANGED rpc
        PROVE  <1>3!1 /\ <1>3!2
    <3>1. t = Tag(t.req, "request") /\ t.req \in Requests
      BY <2>3 DEF TagInv, Tags, Tag
    <3> QED
      BY <2>3, <3>1 DEF NextTag
  <2>4. ASSUME NEW t \in cq, NextTag(t), status[t.req] = "FINISH",
               rpc' = [rpc EXCEPT ![t.req] = "deleted"], UNCHANGED loop
        PROVE  <1>3!1 /\ <1>3!2
    <3>1. t.req \in Requests /\ rpc[t.req] = "written"
      BY <2>4 DEF TagInv, Tags
    <3> QED
      BY <2>4, <3>1 DEF NextTag
  <2> QED
    BY <2>1, <2>2, <2>3, <2>4 DEF LoopNext, NextTag
<1>4. QuietInv' /\ ChainInv'
  BY <1>2, <1>3, SameChain DEF chain
<1>5. DbTypes' /\ WorkerTypes' /\ WorkerInv' /\ FutureKept'
  BY SamePool, SameHands DEF pool, chain, DbInv, DbTypes
<1> QED
  BY <1>1, <1>3, <1>4, <1>5 DEF DbInv

\* The loop in a handler: it has a request that is taken.
LEMMA InHandler ==
    ASSUME FrameInv, loop.pc \notin {"next", "mark"}
    PROVE  /\ loop.req \in Requests /\ rpc[loop.req] = "taken"
           /\ Tag(loop.req, "request") \notin cq /\ ~Handed(loop.req)
BY DEF FrameInv, FrameTypes, LoopInv, Handed

LEMMA SyncQueryStep == ASSUME IInv, SyncQuery PROVE IInv' /\ ServiceStep
<1> USE DEF IInv
<1>1. /\ loop.pc = "handler" /\ ~IsAsync(loop.req) /\ phase = "serving"
      /\ UNCHANGED <<pool, phase, chain, losses>>
  BY Serving DEF SyncQuery, LoopAt
<1>2. DbTypes' /\ WorkerTypes' /\ WorkerInv' /\ FutureKept'
  BY <1>1, SamePool, SameHands DEF pool, chain, DbInv, DbTypes
<1>3. ASSUME NEW pc \in {"push", "reply"}, LoopGoes(pc),
             UNCHANGED <<rpc, client, status, armed, cq, down>>
      PROVE  IInv' /\ ServiceStep
  <2>1. FrameInv' /\ ArmedInv' /\ ServiceStep
    BY <1>1, <1>3, LoopMoves DEF LoopPcs
  <2>2. /\ LoopKind'
        /\ \A q \in Requests : /\ Handed(q) => Handed(q)'
                               /\ rpc[q] = "taken" => rpc'[q] = "taken"
    BY <1>1, <1>3 DEF LoopGoes, FrameInv, FrameTypes, Handed, LoopKind, IsAsync
  <2>3. QuietInv' /\ ChainInv'
    BY <1>1, <2>2, SameChain DEF chain
  <2> QED
    BY <1>2, <2>1, <2>2, <2>3 DEF DbInv
<1>4. CASE Throw
  <2>1. FrameInv' /\ ArmedInv' /\ ServiceStep
    BY <1>1, <1>4, ThrowFrame
  <2>2. /\ LoopKind'
        /\ \A q \in Requests : IsAsync(q) => /\ Handed(q) => Handed(q)'
                                             /\ rpc[q] = "taken" => rpc'[q] = "taken"
    BY <1>1, <1>4 DEF Throw, LoopGoes, FrameInv, FrameTypes, Handed, LoopKind
  <2>3. QuietInv' /\ ChainInv'
    BY <1>1, <2>2, SameChain DEF chain
  <2> QED
    BY <1>2, <2>1, <2>2, <2>3 DEF DbInv
<1> QED
  BY <1>3, <1>4 DEF SyncQuery

LEMMA SyncWriteStep == ASSUME IInv, SyncWrite PROVE IInv' /\ ServiceStep
<1> USE DEF IInv
<1>1. /\ loop.pc = "push" /\ ~IsAsync(loop.req) /\ phase = "serving" /\ LoopGoes("reply")
      /\ UNCHANGED <<rpc, client, status, armed, cq, down, stopped, handle, phase, chain, losses>>
  BY Serving DEF SyncWrite, LoopAt, DbInv, LoopKind
<1>2. FrameInv' /\ ArmedInv' /\ ServiceStep
  BY <1>1, LoopMoves DEF LoopPcs
<1>3. <<loop.req, 1>> \in Stmts /\ Push(<<loop.req, 1>>)
  BY <1>1, InHandler DEF Stmts, SyncWrite
<1>4. /\ queue' \in Seq(Stmts) /\ WorkerTypes' /\ WorkerInv'
      /\ \A q \in Stmts : InHand(q) => InHand(q)'
  BY <1>1, <1>3, PushKeeps
<1>5. /\ LoopKind'
      /\ \A q \in Requests : /\ Handed(q) => Handed(q)'
                             /\ rpc[q] = "taken" => rpc'[q] = "taken"
  BY <1>1 DEF LoopGoes, FrameInv, FrameTypes, Handed, LoopKind, IsAsync
<1>6. QuietInv' /\ ChainInv'
  BY <1>1, <1>5, SameChain DEF chain
<1>7. DbTypes'
  BY <1>1, <1>4 DEF DbInv, DbTypes, chain
<1>8. FutureKept'
  <2>1. \A r \in Requests : future[r].n > 0 => <<r, future[r].n>> \in Stmts
    BY DEF DbInv, DbTypes, Stmts
  <2>2. UNCHANGED future
    BY <1>1 DEF chain
  <2> QED
    BY <1>4, <2>1, <2>2 DEF DbInv, FutureKept
<1> QED
  BY <1>2, <1>4, <1>5, <1>6, <1>7, <1>8 DEF DbInv

LEMMA SyncReplyStep == ASSUME IInv, SyncReply PROVE IInv' /\ ServiceStep
<1> USE DEF IInv
<1>1. /\ loop.pc = "reply" /\ ~IsAsync(loop.req) /\ phase = "serving" /\ ~down
      /\ UNCHANGED <<pool, phase, chain, losses>>
  BY Serving DEF SyncReply, LoopAt, DbInv, LoopKind
<1>2. DbTypes' /\ WorkerTypes' /\ WorkerInv' /\ FutureKept'
  BY <1>1, SamePool, SameHands DEF pool, chain, DbInv, DbTypes
<1>3. FrameInv' /\ ArmedInv' /\ ServiceStep
  <2>1. CASE LoopGoes("mark") /\ Finish(loop.req) /\ UNCHANGED <<client, armed, cq, down>>
    BY <1>1, <2>1, InHandler, FinishFrame
  <2>2. CASE Throw
    BY <1>1, <2>2, ThrowFrame
  <2> QED
    BY <2>1, <2>2 DEF SyncReply
<1>4. /\ loop'.pc = "mark" /\ loop'.req = loop.req /\ cq' = cq
      /\ \A q \in Requests \ {loop.req} : rpc'[q] = rpc[q]
  BY DEF SyncReply, Throw, Finish, LoopGoes, FrameInv, FrameTypes
<1>5. /\ LoopKind'
      /\ \A q \in Requests : IsAsync(q) => /\ Handed(q) => Handed(q)'
                                           /\ rpc[q] = "taken" => rpc'[q] = "taken"
  BY <1>1, <1>4 DEF Handed, LoopKind
<1>6. QuietInv' /\ ChainInv'
  BY <1>1, <1>5, SameChain DEF chain
<1> QED
  BY <1>2, <1>3, <1>5, <1>6 DEF DbInv

-----------------------------------------------------------------------------
(* The chains.                                                             *)

\* A statement is queued, and the chain of its request waits for it.
LEMMA AskKeeps ==
    ASSUME DbInv, NEW r \in Requests, NEW n \in 1..MaxChain, Push(<<r, n>>), Pending(r, n),
           UNCHANGED <<stopped, handle, losses, phase>>, cbs' \subseteq Requests, pass' \subseteq cbs'
    PROVE  /\ DbTypes' /\ WorkerTypes' /\ WorkerInv' /\ FutureKept'
           /\ future'[r].n = n
           /\ \A q \in Requests \ {r} : future'[q] = future[q]
<1>1. <<r, n>> \in Stmts
  BY DEF Stmts
<1>2. /\ queue' \in Seq(Stmts) /\ WorkerTypes' /\ WorkerInv'
      /\ InHand(<<r, n>>)' /\ \A q \in Stmts : InHand(q) => InHand(q)'
  BY <1>1, PushKeeps
<1>3. /\ future' = [future EXCEPT ![r] = [n |-> n, ready |-> FALSE]]
      /\ future \in [Requests -> [n : 0..MaxChain, ready : BOOLEAN]]
      /\ MaxChain \in Nat
  BY DEF Pending, DbInv, DbTypes
<1>4. DbTypes'
  <2>1. [n |-> n, ready |-> FALSE] \in [n : 0..MaxChain, ready : BOOLEAN]
    BY <1>3
  <2> QED
    BY <1>2, <1>3, <2>1 DEF DbInv, DbTypes
<1>5. future'[r].n = n /\ \A q \in Requests \ {r} : future'[q] = future[q]
  BY <1>3
<1>6. FutureKept'
  <2>1. \A q \in Requests : future[q].n > 0 => <<q, future[q].n>> \in Stmts
    BY <1>3 DEF Stmts
  <2>2. ASSUME NEW q \in Requests \ {r}, future'[q].n > 0, ~future'[q].ready
        PROVE  InHand(<<q, future[q].n>>)'
    BY <1>2, <1>5, <2>1, <2>2 DEF DbInv, FutureKept
  <2> QED
    BY <1>2, <1>5, <2>2 DEF FutureKept
<1> QED
  BY <1>2, <1>4, <1>5, <1>6

LEMMA StartChainStep == ASSUME IInv, StartChain PROVE IInv' /\ ServiceStep
<1> USE DEF IInv
<1>1. PICK r \in Requests :
        /\ loop.pc = "handler" /\ loop.req = r /\ IsAsync(r) /\ rpc[r] = "taken"
        /\ ~Handed(r) /\ phase = "serving" /\ LoopGoes("callback")
        /\ UNCHANGED <<rpc, client, status, armed, cq, down, stopped, handle, phase, cbs, pass, losses>>
  BY Serving, InHandler DEF StartChain, LoopAt
<1>2. FrameInv' /\ ArmedInv' /\ ServiceStep
  BY <1>1, LoopMoves DEF LoopPcs
<1>3. /\ 1 \in 1..MaxChain /\ Push(<<r, 1>>) /\ Pending(r, 1)
      /\ cbs' \subseteq Requests /\ pass' \subseteq cbs'
  BY <1>1 DEF StartChain, DbInv, DbTypes
<1>4. /\ DbTypes' /\ WorkerTypes' /\ WorkerInv' /\ FutureKept'
      /\ \A q \in Requests \ {r} : future'[q] = future[q]
  BY <1>1, <1>3, AskKeeps
<1>5. loop'.pc = "callback" /\ loop'.req = r
  BY <1>1 DEF LoopGoes, FrameInv, FrameTypes
<1>6. LoopKind' /\ QuietInv'
  BY <1>1, <1>5 DEF LoopKind, QuietInv, IsAsync
<1>7. ChainInv'
  <2>1. \A q \in Requests \ {r} : Handed(q) => Handed(q)'
    BY <1>1, <1>5 DEF Handed
  <2> QED
    BY <1>1, <1>4, <2>1 DEF DbInv, DbTypes, ChainInv, IsAsync
<1> QED
  BY <1>2, <1>4, <1>6, <1>7 DEF DbInv

LEMMA AddCallbackStep == ASSUME IInv, AddCallback PROVE IInv' /\ ServiceStep
<1> USE DEF IInv
<1>1. PICK r \in Requests :
        /\ loop.pc = "callback" /\ loop.req = r /\ IsAsync(r) /\ rpc[r] = "taken"
        /\ Tag(r, "request") \notin cq /\ phase = "serving" /\ LoopGoes("mark")
        /\ cbs' = cbs \cup {r}
        /\ UNCHANGED <<rpc, client, status, armed, cq, down, pool, phase, future, pass, losses>>
  BY Serving, InHandler DEF AddCallback, LoopAt, DbInv, LoopKind
<1>2. FrameInv' /\ ArmedInv' /\ ServiceStep
  BY <1>1, LoopMoves DEF LoopPcs
<1>3. loop'.pc = "mark" /\ loop'.req = r
  BY <1>1 DEF LoopGoes, FrameInv, FrameTypes
<1>4. LoopKind' /\ QuietInv'
  BY <1>1, <1>3 DEF LoopKind, QuietInv
<1>5. DbTypes' /\ WorkerTypes' /\ WorkerInv' /\ FutureKept'
  BY <1>1, SamePool, SameHands DEF pool, DbInv, DbTypes
<1>6. ChainInv'
  <2>1. Handed(r)' /\ \A q : Handed(q) => Handed(q)'
    BY <1>1, <1>3 DEF Handed
  <2> QED
    BY <1>1, <2>1 DEF DbInv, ChainInv, IsAsync
<1> QED
  BY <1>2, <1>4, <1>5, <1>6 DEF DbInv

LEMMA ProcessStep ==
    ASSUME IInv, NEW m \in Methods, ProcessReadyCallbacks(m) PROVE IInv' /\ ServiceStep
<1> USE DEF IInv
<1>1. /\ pass' = pass \cup {r \in cbs : MethodOf[r] = m}
      /\ UNCHANGED <<frame, pool, phase, future, cbs, losses>>
  BY DEF ProcessReadyCallbacks
<1>2. FrameInv' /\ ArmedInv' /\ ServiceStep
  BY <1>1, SameFrame
<1>3. DbTypes' /\ WorkerTypes' /\ WorkerInv' /\ FutureKept'
  BY <1>1, SamePool, SameHands DEF pool, DbInv, DbTypes
<1>4. QuietInv' /\ LoopKind' /\ ChainInv'
  BY <1>1 DEF frame, DbInv, QuietInv, LoopKind, ChainInv, Handed, IsAsync
<1> QED
  BY <1>2, <1>3, <1>4 DEF DbInv

LEMMA InvokeStep ==
    ASSUME IInv, NEW r \in Requests, InvokeIfReady(r) PROVE IInv' /\ ServiceStep
<1> USE DEF IInv
<1>1. /\ r \in cbs /\ Handed(r) /\ IsAsync(r) /\ rpc[r] = "taken" /\ ~down /\ phase = "serving"
      /\ pass' = pass \ {r} /\ pass \subseteq cbs /\ cbs \subseteq Requests
      /\ loop.pc \in {"next", "mark"} \/ loop.req # r
      /\ UNCHANGED <<client, armed, cq, loop, down, stopped, handle, shutdown, phase, losses>>
  BY Serving DEF InvokeIfReady, DbInv, DbTypes, ChainInv, Handed
<1>2. LoopKind'
  BY <1>1 DEF DbInv, LoopKind, IsAsync
<1>3. CASE UNCHANGED <<rpc, status, queue, worker, future, cbs>>
  <2>1. FrameInv' /\ ArmedInv' /\ ServiceStep
    BY <1>1, <1>3, SameFrame DEF frame
  <2>2. DbTypes' /\ WorkerTypes' /\ WorkerInv' /\ FutureKept'
    BY <1>1, <1>3, SamePool, SameHands DEF DbInv, DbTypes
  <2>3. QuietInv' /\ ChainInv'
    BY <1>1, <1>3 DEF DbInv, QuietInv, ChainInv, Handed, IsAsync
  <2> QED
    BY <1>2, <2>1, <2>2, <2>3 DEF DbInv
<1>4. CASE CallbackReplies(r)
  <2>1. /\ Finish(r) /\ cbs' = cbs \ {r} /\ UNCHANGED <<queue, worker>>
        /\ future' = [future EXCEPT ![r] = [n |-> 0, ready |-> FALSE]]
        /\ future \in [Requests -> [n : 0..MaxChain, ready : BOOLEAN]]
    BY <1>4 DEF CallbackReplies, NoFuture, DbInv, DbTypes
  <2>2. FrameInv' /\ ArmedInv' /\ ServiceStep
    BY <1>1, <2>1, FinishFrame DEF Handed
  <2>3. \A q \in Requests : IF q = r THEN future'[q].n = 0
                            ELSE future'[q] = future[q] /\ rpc'[q] = rpc[q]
    BY <2>1 DEF Finish, FrameInv, FrameTypes
  <2>4. DbTypes'
    <3>1. [n |-> 0, ready |-> FALSE] \in [n : 0..MaxChain, ready : BOOLEAN]
      OBVIOUS
    <3> QED
      BY <1>1, <2>1, <3>1 DEF DbInv, DbTypes
  <2>5. WorkerTypes' /\ WorkerInv' /\ FutureKept'
    BY <1>1, <2>1, <2>3, SamePool, SameHands
  <2>6. QuietInv' /\ ChainInv'
    <3>1. \A q \in Requests \ {r} : Handed(q) => Handed(q)'
      BY <1>1, <2>3 DEF Handed
    <3> QED
      BY <1>1, <2>1, <2>3, <3>1 DEF DbInv, QuietInv, ChainInv, IsAsync
  <2> QED
    BY <1>2, <2>2, <2>4, <2>5, <2>6 DEF DbInv
<1>5. CASE CallbackAsks(r)
  <2>1. PICK n \in 1..MaxChain : n = future[r].n + 1
    BY <1>5 DEF CallbackAsks, DbInv, DbTypes
  <2>2. Push(<<r, n>>) /\ Pending(r, n) /\ UNCHANGED <<rpc, status, cbs>>
    BY <1>5, <2>1 DEF CallbackAsks
  <2>3. FrameInv' /\ ArmedInv' /\ ServiceStep
    BY <1>1, <2>2, SameFrame DEF frame
  <2>4. /\ DbTypes' /\ WorkerTypes' /\ WorkerInv' /\ FutureKept'
        /\ \A q \in Requests \ {r} : future'[q] = future[q]
    BY <1>1, <2>2, AskKeeps
  <2>5. QuietInv' /\ ChainInv'
    BY <1>1, <2>2, <2>4 DEF DbInv, QuietInv, ChainInv, Handed, IsAsync
  <2> QED
    BY <1>2, <2>3, <2>4, <2>5 DEF DbInv
<1> QED
  BY <1>3, <1>4, <1>5 DEF InvokeIfReady

-----------------------------------------------------------------------------
(* The pool and its workers.                                               *)

\* A step beside the frame and the chains.
LEMMA Aside ==
    ASSUME IInv, UNCHANGED <<rpc, client, status, armed, cq, loop, cbs>>,
           UNCHANGED down \/ (~down /\ down' = TRUE), phase = "serving" => phase' = "serving",
           \A r \in Requests : future'[r].n = future[r].n
    PROVE  /\ FrameInv' /\ ArmedInv' /\ ServiceStep
           /\ QuietInv' /\ LoopKind' /\ ChainInv'
<1>1. FrameInv' /\ ArmedInv' /\ ServiceStep
  BY StayFrame DEF IInv
<1>2. QuietInv' /\ LoopKind' /\ ChainInv'
  BY DEF IInv, DbInv, QuietInv, LoopKind, ChainInv, Handed, IsAsync
<1> QED
  BY <1>1, <1>2

LEMMA WorkerTo ==
    ASSUME DbInv, NEW w \in Workers, NEW x \in WorkerRecord, worker' = [worker EXCEPT ![w] = x],
           WorkerOK(x, handle[w]), UNCHANGED <<stopped, handle>>, losses' \in 0..MaxLost
    PROVE  WorkerTypes' /\ WorkerInv'
<1>1. WorkerTypes'
  BY DEF DbInv, WorkerTypes, WorkerRecord
<1>2. WorkerInv'
  BY DEF DbInv, WorkerTypes, WorkerRecord, WorkerInv
<1> QED
  BY <1>1, <1>2

\* A worker goes on with its statement.
LEMMA WorkerGoesOn ==
    ASSUME DbInv, NEW w \in Workers, worker[w].pc \notin {"off", "done"},
           worker' \in [Workers -> WorkerRecord], \A v \in Workers \ {w} : worker'[v] = worker[v],
           worker'[w].stmt = worker[w].stmt, worker'[w].pc \in {"run", "reconnect", "deliver", "done"},
           worker'[w].pc \in {"run", "reconnect"} => worker'[w].applied <= worker'[w].lost,
           worker'[w].applied <= 1 + worker'[w].lost,
           UNCHANGED <<queue, stopped, handle, future>>, losses' \in 0..MaxLost
    PROVE  WorkerTypes' /\ WorkerInv' /\ FutureKept'
<1>1. WorkerTypes'
  BY DEF DbInv, WorkerTypes, WorkerRecord
<1>2. WorkerInv'
  BY DEF DbInv, WorkerTypes, WorkerRecord, WorkerInv, WorkerOK
<1>3. \A v \in Workers : worker'[v].stmt = worker[v].stmt
  OBVIOUS
<1>4. \A s : InHand(s) => InHand(s)'
  BY <1>3 DEF InHand
<1>5. FutureKept'
  BY <1>4 DEF DbInv, FutureKept
<1> QED
  BY <1>1, <1>2, <1>5

LEMMA OpenStep ==
    ASSUME IInv, NEW w \in Workers, OpenConnection(w) PROVE IInv' /\ ServiceStep
<1> USE DEF IInv
<1>1. /\ phase = "loading" /\ handle' = [handle EXCEPT ![w] = TRUE] /\ worker[w].pc = "off"
      /\ worker' = [worker EXCEPT ![w] = Thread("pop", NoStmt)]
      /\ UNCHANGED <<frame, queue, stopped, shutdown, phase, chain, losses>>
  BY DEF OpenConnection, At
<1>2. /\ FrameInv' /\ ArmedInv' /\ ServiceStep /\ QuietInv' /\ LoopKind' /\ ChainInv'
  BY <1>1, Aside DEF frame, chain
<1>3. DbTypes'
  BY <1>1 DEF DbInv, DbTypes, chain
<1>4. WorkerTypes'
  BY <1>1 DEF DbInv, WorkerTypes, WorkerRecord, WorkerPcs, Thread
<1>5. WorkerInv'
  BY <1>1 DEF DbInv, WorkerTypes, WorkerRecord, WorkerInv, WorkerOK, Thread
<1>6. FutureKept'
  BY <1>1 DEF DbInv, QuietInv, FutureKept, chain
<1> QED
  BY <1>2, <1>3, <1>4, <1>5, <1>6 DEF DbInv

LEMMA LoadedStep == ASSUME IInv, Loaded PROVE IInv' /\ ServiceStep
<1> USE DEF IInv
<1>1. /\ phase = "loading" /\ phase' \in {"serving", "closing"}
      /\ UNCHANGED <<frame, pool, chain, losses>>
  BY DEF Loaded
<1>2. /\ FrameInv' /\ ArmedInv' /\ ServiceStep /\ QuietInv' /\ LoopKind' /\ ChainInv'
  BY <1>1, Aside DEF frame, chain
<1>3. DbTypes' /\ WorkerTypes' /\ WorkerInv' /\ FutureKept'
  BY <1>1, SamePool, SameHands DEF DbInv, DbTypes, chain, pool
<1> QED
  BY <1>2, <1>3 DEF DbInv

LEMMA StopStep ==
    ASSUME IInv, NEW w \in Workers, StopWorker(w) PROVE IInv' /\ ServiceStep
<1> USE DEF IInv
<1>1. /\ phase = "closing" /\ stopped' = [stopped EXCEPT ![w] = TRUE] /\ queue' = <<>>
      /\ worker' = Woken /\ UNCHANGED <<frame, handle, phase, chain, losses>>
  BY DEF StopWorker
<1>2. /\ FrameInv' /\ ArmedInv' /\ ServiceStep /\ QuietInv' /\ LoopKind' /\ ChainInv'
  BY <1>1, Aside DEF frame, chain
<1>3. DbTypes'
  BY <1>1 DEF DbInv, DbTypes, chain
<1>4. \A v \in Workers : \/ worker'[v] = worker[v]
                         \/ worker[v].pc = "asleep" /\ worker'[v] = [worker[v] EXCEPT !.pc = "pop"]
  BY <1>1 DEF Woken
<1>5. worker' \in [Workers -> WorkerRecord]
  BY <1>1 DEF Woken, DbInv, WorkerTypes, WorkerRecord, WorkerPcs
<1>6. WorkerTypes'
  BY <1>1, <1>5 DEF DbInv, WorkerTypes, WorkerRecord
<1>7. WorkerInv'
  <2> SUFFICES ASSUME NEW v \in Workers PROVE WorkerOK(worker[v], handle[v])'
    BY DEF WorkerInv
  <2>1. WorkerOK(worker[v], handle[v]) /\ worker[v] \in WorkerRecord /\ handle'[v] = handle[v]
    BY <1>1 DEF DbInv, WorkerInv, WorkerTypes, WorkerRecord
  <2>2. CASE worker'[v] = worker[v]
    BY <2>1, <2>2 DEF WorkerOK
  <2>3. CASE worker[v].pc = "asleep" /\ worker'[v] = [worker[v] EXCEPT !.pc = "pop"]
    <3>1. /\ worker'[v].pc = "pop" /\ worker'[v].stmt = worker[v].stmt
          /\ worker'[v].applied = worker[v].applied /\ worker'[v].lost = worker[v].lost
      BY <2>1, <2>3 DEF WorkerRecord
    <3> QED
      BY <2>1, <2>3, <3>1 DEF WorkerOK
  <2> QED
    BY <1>4, <2>2, <2>3
<1>8. FutureKept'
  BY <1>1 DEF DbInv, QuietInv, FutureKept, chain
<1> QED
  BY <1>2, <1>3, <1>6, <1>7, <1>8 DEF DbInv

LEMMA CloseHandleStep ==
    ASSUME IInv, NEW w \in Workers, CloseHandle(w) PROVE IInv' /\ ServiceStep
<1> USE DEF IInv
<1>1. /\ worker[w].pc = "done" /\ handle' = [handle EXCEPT ![w] = FALSE]
      /\ UNCHANGED <<frame, queue, worker, stopped, shutdown, phase, chain, losses>>
  BY DEF CloseHandle
<1>2. /\ FrameInv' /\ ArmedInv' /\ ServiceStep /\ QuietInv' /\ LoopKind' /\ ChainInv'
  BY <1>1, Aside DEF frame, chain
<1>3. DbTypes' /\ WorkerTypes' /\ FutureKept'
  BY <1>1, SameHands DEF DbInv, DbTypes, WorkerTypes, chain
<1>4. WorkerInv'
  BY <1>1 DEF DbInv, WorkerTypes, WorkerRecord, WorkerInv, WorkerOK
<1> QED
  BY <1>2, <1>3, <1>4 DEF DbInv

LEMMA ClosedStep == ASSUME IInv, Closed PROVE IInv' /\ ServiceStep
<1> USE DEF IInv
<1>1. /\ phase = "closing" /\ phase' = "closed" /\ down' = TRUE /\ down \in BOOLEAN
      /\ UNCHANGED <<rpc, client, status, armed, cq, loop, pool, chain, losses>>
  BY DEF Closed, FrameInv, FrameTypes
<1>2. /\ FrameInv' /\ ArmedInv' /\ ServiceStep /\ QuietInv' /\ LoopKind' /\ ChainInv'
  BY <1>1, Aside DEF chain
<1>3. DbTypes' /\ WorkerTypes' /\ WorkerInv' /\ FutureKept'
  BY <1>1, SamePool, SameHands DEF DbInv, DbTypes, chain, pool
<1> QED
  BY <1>2, <1>3 DEF DbInv

LEMMA WaitAndPopStep ==
    ASSUME IInv, NEW w \in Workers, WaitAndPop(w) PROVE IInv' /\ ServiceStep
<1> USE DEF IInv
<1>1. /\ worker[w].pc = "pop" /\ worker[w].stmt = NoStmt /\ handle[w]
      /\ UNCHANGED <<frame, stopped, handle, shutdown, phase, chain, losses>>
      /\ losses' \in 0..MaxLost
  BY DEF WaitAndPop, DbInv, WorkerInv, WorkerOK, WorkerTypes
<1>2. /\ FrameInv' /\ ArmedInv' /\ ServiceStep /\ QuietInv' /\ LoopKind' /\ ChainInv'
  BY <1>1, Aside DEF frame, chain
<1>3. ASSUME NEW pc \in {"done", "asleep"}, At(w, pc, NoStmt), UNCHANGED queue
      PROVE  DbTypes' /\ WorkerTypes' /\ WorkerInv' /\ FutureKept'
  <2>1. Thread(pc, NoStmt) \in WorkerRecord /\ WorkerOK(Thread(pc, NoStmt), handle[w])
    BY <1>1 DEF Thread, WorkerRecord, WorkerPcs, WorkerOK
  <2>2. WorkerTypes' /\ WorkerInv'
    BY <1>1, <1>3, <2>1, WorkerTo DEF At
  <2>3. \A v \in Workers : worker'[v].stmt = worker[v].stmt
    BY <1>1, <1>3 DEF At, Thread, DbInv, WorkerTypes
  <2>4. \A s : InHand(s) => InHand(s)'
    BY <1>3, <2>3 DEF InHand
  <2> QED
    BY <1>1, <1>3, <2>2, <2>4 DEF DbInv, DbTypes, FutureKept, chain
<1>4. ASSUME queue # <<>>, At(w, "took", Head(queue)), queue' = Tail(queue)
      PROVE  DbTypes' /\ WorkerTypes' /\ WorkerInv' /\ FutureKept'
  <2>1. PICK h \in Stmts : h = Head(queue) /\ h = queue[1]
    BY <1>4 DEF DbInv, DbTypes
  <2>2. /\ queue' \in Seq(Stmts) /\ Len(queue') = Len(queue) - 1 /\ Len(queue) \in Nat
        /\ \A i \in 1..Len(queue) : \/ i = 1
                                    \/ i - 1 \in 1..Len(queue') /\ queue'[i - 1] = queue[i]
    BY <1>4 DEF DbInv, DbTypes
  <2>3. Thread("took", h) \in WorkerRecord /\ WorkerOK(Thread("took", h), handle[w])
    BY <1>1 DEF Thread, WorkerRecord, WorkerPcs, WorkerOK
  <2>4. WorkerTypes' /\ WorkerInv'
    BY <1>1, <1>4, <2>1, <2>3, WorkerTo DEF At
  <2>5. /\ worker'[w].stmt = h
        /\ \A v \in Workers \ {w} : worker'[v].stmt = worker[v].stmt
    BY <1>4, <2>1 DEF At, Thread, DbInv, WorkerTypes
  <2>6. ASSUME NEW s \in Stmts, InHand(s) PROVE InHand(s)'
    <3>1. CASE \E i \in 1..Len(queue) : queue[i] = s
      BY <2>1, <2>2, <2>5, <3>1 DEF InHand
    <3>2. CASE \E v \in Workers : worker[v].stmt = s
      BY <1>1, <2>5, <3>2, NoStmtIsNone DEF InHand
    <3> QED
      BY <2>6, <3>1, <3>2 DEF InHand
  <2>7. FutureKept'
    <3>1. \A r \in Requests : future[r].n > 0 => <<r, future[r].n>> \in Stmts
      BY DEF DbInv, DbTypes, Stmts
    <3> QED
      BY <1>1, <2>6, <3>1 DEF DbInv, FutureKept, chain
  <2> QED
    BY <1>1, <2>2, <2>4, <2>7 DEF DbInv, DbTypes, chain
<1> QED
  BY <1>2, <1>3, <1>4 DEF WaitAndPop, DbInv

LEMMA RunsStep ==
    ASSUME IInv, NEW w \in Workers, Begin(w) \/ RunStmt(w) \/ LoseConnection(w) \/ Reconnect(w)
    PROVE  IInv' /\ ServiceStep
<1> USE DEF IInv
<1>1. /\ UNCHANGED <<rpc, client, status, armed, cq, loop, queue, stopped, handle, phase, chain>>
      /\ UNCHANGED down \/ (~down /\ down' = TRUE)
  BY DEF Begin, RunStmt, LoseConnection, Reconnect, frame
<1>2. /\ FrameInv' /\ ArmedInv' /\ ServiceStep /\ QuietInv' /\ LoopKind' /\ ChainInv'
  BY <1>1, Aside DEF chain
<1>3. DbTypes'
  BY <1>1 DEF DbInv, DbTypes, chain
<1>4. /\ worker \in [Workers -> WorkerRecord] /\ WorkerOK(worker[w], handle[w])
      /\ losses \in 0..MaxLost /\ MaxLost \in Nat
  BY DEF DbInv, WorkerTypes, WorkerRecord, WorkerInv
<1>5. CASE worker' = worker /\ losses' = losses
  BY <1>1, <1>2, <1>3, <1>5, SamePool, SameHands DEF chain, DbInv
<1>6. ASSUME worker[w].pc \notin {"off", "done"},
             worker' \in [Workers -> WorkerRecord], \A v \in Workers \ {w} : worker'[v] = worker[v],
             worker'[w].stmt = worker[w].stmt, worker'[w].pc \in {"run", "reconnect", "deliver", "done"},
             worker'[w].pc \in {"run", "reconnect"} => worker'[w].applied <= worker'[w].lost,
             worker'[w].applied <= 1 + worker'[w].lost, losses' \in 0..MaxLost
      PROVE  IInv' /\ ServiceStep
  BY <1>1, <1>2, <1>3, <1>6, WorkerGoesOn DEF chain, DbInv
<1>7. worker[w].applied \in Nat /\ worker[w].lost \in Nat
  BY <1>4 DEF WorkerRecord
<1>8. CASE Begin(w)
  BY <1>4, <1>6, <1>7, <1>8 DEF Begin, Goes, WorkerOK, WorkerRecord, WorkerPcs
<1>9. CASE RunStmt(w)
  <2>1. PICK n \in {0, 1} : worker' = [worker EXCEPT ![w].pc = "deliver", ![w].applied = @ + n]
    BY <1>9 DEF RunStmt
  <2>2. worker[w].pc = "run" /\ losses' = losses /\ worker[w].applied <= worker[w].lost
    BY <1>4, <1>9 DEF RunStmt, WorkerOK
  <2>3. /\ worker'[w].pc = "deliver" /\ worker'[w].stmt = worker[w].stmt
        /\ worker'[w].applied = worker[w].applied + n /\ worker'[w].lost = worker[w].lost
        /\ \A v \in Workers \ {w} : worker'[v] = worker[v]
    BY <1>4, <1>7, <2>1 DEF WorkerRecord
  <2>4. worker[w].applied + n \in Nat /\ worker[w].applied + n <= 1 + worker[w].lost
    BY <1>7, <2>2
  <2>5. worker' \in [Workers -> WorkerRecord]
    BY <1>4, <2>1, <2>4 DEF WorkerRecord, WorkerPcs
  <2> QED
    BY <1>6, <2>2, <2>3, <2>4, <2>5, <1>4
<1>10. CASE LoseConnection(w)
  <2>1. PICK n \in {0, 1} : worker' = [worker EXCEPT ![w].pc = "reconnect", ![w].applied = @ + n,
                                                   ![w].lost = @ + 1]
    BY <1>10 DEF LoseConnection
  <2>2. worker[w].pc = "run" /\ losses' \in 0..MaxLost /\ worker[w].applied <= worker[w].lost
    BY <1>4, <1>10 DEF LoseConnection, WorkerOK
  <2>3. /\ worker'[w].pc = "reconnect" /\ worker'[w].stmt = worker[w].stmt
        /\ worker'[w].applied = worker[w].applied + n /\ worker'[w].lost = worker[w].lost + 1
        /\ \A v \in Workers \ {w} : worker'[v] = worker[v]
    BY <1>4, <1>7, <2>1 DEF WorkerRecord
  <2>4. /\ worker[w].applied + n \in Nat /\ worker[w].lost + 1 \in Nat
        /\ worker[w].applied + n <= worker[w].lost + 1
    BY <1>7, <2>2
  <2>5. worker' \in [Workers -> WorkerRecord]
    BY <1>4, <2>1, <2>4 DEF WorkerRecord, WorkerPcs
  <2> QED
    BY <1>4, <1>6, <1>7, <2>2, <2>3, <2>4, <2>5
<1>11. CASE Reconnect(w)
  BY <1>4, <1>5, <1>6, <1>7, <1>11 DEF Reconnect, Goes, WorkerOK, WorkerRecord, WorkerPcs
<1> QED
  BY <1>8, <1>9, <1>10, <1>11

LEMMA DeliverStep ==
    ASSUME IInv, NEW w \in Workers, Deliver(w) PROVE IInv' /\ ServiceStep
<1> USE DEF IInv
<1> DEFINE r == worker[w].stmt[1]
<1>1. /\ worker' = [worker EXCEPT ![w] = Thread("pop", NoStmt)] /\ worker[w].pc = "deliver"
      /\ future' = IF IsAsync(r) THEN [future EXCEPT ![r].ready = TRUE] ELSE future
      /\ UNCHANGED <<frame, queue, stopped, handle, shutdown, phase, cbs, pass, losses>>
  BY DEF Deliver, At
<1>2. /\ future' \in [Requests -> [n : 0..MaxChain, ready : BOOLEAN]]
      /\ \A q \in Requests : /\ future'[q].n = future[q].n
                             /\ q = r /\ IsAsync(r) => future'[q].ready
                             /\ q # r => future'[q] = future[q]
  BY <1>1 DEF DbInv, DbTypes
<1>3. /\ FrameInv' /\ ArmedInv' /\ ServiceStep /\ QuietInv' /\ LoopKind' /\ ChainInv'
  BY <1>1, <1>2, Aside DEF frame
<1>4. DbTypes'
  BY <1>1, <1>2 DEF DbInv, DbTypes
<1>5. WorkerTypes' /\ WorkerInv'
  <2>1. Thread("pop", NoStmt) \in WorkerRecord /\ WorkerOK(Thread("pop", NoStmt), handle[w])
    BY <1>1 DEF Thread, WorkerRecord, WorkerPcs, WorkerOK, DbInv, WorkerInv
  <2> QED
    BY <1>1, <2>1, WorkerTo DEF DbInv, WorkerTypes, WorkerRecord
<1>6. FutureKept'
  <2> SUFFICES ASSUME NEW q \in Requests, future'[q].n > 0, ~future'[q].ready
               PROVE  InHand(<<q, future[q].n>>)'
    BY <1>2 DEF FutureKept
  <2>1. IsAsync(q) /\ future[q].n > 0 /\ future[q].n \in 1..MaxChain
    BY <1>2 DEF DbInv, DbTypes, ChainInv
  <2>2. q # r /\ ~future[q].ready
    BY <1>2, <2>1
  <2>3. InHand(<<q, future[q].n>>)
    BY <2>1, <2>2 DEF DbInv, FutureKept
  <2>4. \A v \in Workers : worker[v].stmt[1] # r => worker'[v].stmt = worker[v].stmt
    BY <1>1 DEF DbInv, WorkerTypes, WorkerRecord
  <2> QED
    BY <1>1, <2>2, <2>3, <2>4 DEF InHand
<1> QED
  BY <1>3, <1>4, <1>5, <1>6 DEF DbInv

-----------------------------------------------------------------------------
(* The invariant, and what it is for.                                      *)

LEMMA NextInv == IInv /\ [Next]_vars => IInv' /\ ServiceStep
<1> SUFFICES ASSUME IInv, [Next]_vars PROVE IInv' /\ ServiceStep
  OBVIOUS
<1>1. CASE \E r \in Requests : \/ /\ phase = "serving" /\ (Send(r) \/ Leave(r) \/ Grpc(r))
                                  /\ UNCHANGED <<pool, phase, chain, losses>>
                               \/ InvokeIfReady(r)
  BY <1>1, GrpcStep, InvokeStep
<1>2. CASE \E m \in Methods : ProcessReadyCallbacks(m)
  BY <1>2, ProcessStep
<1>3. CASE \E w \in Workers : PoolNext(w) \/ WorkerNext(w)
  BY <1>3, OpenStep, StopStep, CloseHandleStep, WaitAndPopStep, RunsStep, DeliverStep
     DEF PoolNext, WorkerNext
<1>4. CASE Loaded \/ Closed
  BY <1>4, LoadedStep, ClosedStep
<1>5. CASE Loop
  BY <1>5, LoopNextStep, SyncQueryStep, SyncWriteStep, SyncReplyStep, StartChainStep, AddCallbackStep
     DEF Loop
<1>6. CASE UNCHANGED vars
  <2>1. UNCHANGED frame /\ UNCHANGED <<pool, phase, chain, losses>>
    BY <1>6 DEF vars
  <2>2. /\ FrameInv' /\ ArmedInv' /\ ServiceStep /\ QuietInv' /\ LoopKind' /\ ChainInv'
    BY <2>1, Aside DEF frame, chain
  <2>3. DbTypes' /\ WorkerTypes' /\ WorkerInv' /\ FutureKept'
    BY <2>1, SamePool, SameHands DEF IInv, DbInv, DbTypes, chain, pool
  <2> QED
    BY <2>2, <2>3 DEF IInv, DbInv
<1> QED
  BY <1>1, <1>2, <1>3, <1>4, <1>5, <1>6 DEF Next

\* The invariant holds of every behaviour of the server.
THEOREM Inductive == Spec => []IInv
<1>1. Init => IInv
  BY InitInv
<1>2. IInv /\ [Next]_vars => IInv'
  BY NextInv
<1> QED
  BY <1>1, <1>2, PTL DEF Spec

\* No call data is used after its end, no chain waits for a statement nobody
\* will run, none is carried out more often than its connections were lost, and
\* no handle is closed under its thread (InvokeIfReady, AsyncQuery, WorkerThread,
\* _HandleMySQLErrno, MySQLConnection::Close).
THEOREM ServerConsistent == Spec => []Consistent
<1>1. IInv => Consistent
  <2> SUFFICES ASSUME IInv PROVE Consistent
    OBVIOUS
  <2>1. FrameTypeOK /\ AlwaysArmed
    BY FrameTypesOK DEF IInv, FrameInv, ArmedInv
  <2>2. TypeOK
    BY <2>1 DEF TypeOK, IInv, DbInv, DbTypes, WorkerTypes, WorkerRecord
  <2>3. NoUseAfterFree
    BY DEF NoUseAfterFree, IInv, FrameInv, FrameTypes, RpcStates, DbInv, ChainInv, Handed
  <2>4. FutureKept /\ AppliedOnce /\ WorkerStopsFirst
    BY DEF AppliedOnce, WorkerStopsFirst, IInv, DbInv, WorkerInv, WorkerOK
  <2> QED
    BY <2>1, <2>2, <2>3, <2>4 DEF Consistent
<1> QED
  BY <1>1, Inductive, PTL

\* The server replies at most once, to a request it has taken, and gives a call
\* data up only after the reply (CallData of base/RpcCalldata.h).
THEOREM KeepsTheContract == Spec => IsService
<1>1. Init => Service!Init
  BY InitInv
<1>2. IInv /\ [Next]_vars => [Service!Next]_(Service!svars)
  BY NextInv DEF ServiceStep
<1> QED
  BY <1>1, <1>2, Inductive, PTL DEF Spec, IsService, Service!Spec
=============================================================================
