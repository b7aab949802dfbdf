--------------------------- MODULE FdfsServerProof ---------------------------
(***************************************************************************)
(* The FastDFS server, for any requests, threads and pool size: a request  *)
(* has one task, every connection is in the pool or with a thread, the id  *)
(* a client is answered is one FastDFS has or had, and the server keeps    *)
(* the contract of RpcService.                                             *)
(***************************************************************************)
EXTENDS FdfsServer, RpcServerInv, FiniteSetTheorems, TLAPS

ThreadPcs == Holding \cup {"idle", "acquire", "wait", "reply", "thrown"}
Upload(r) == MethodOf[r] = "upload"
Replied == {"finishing", "written", "leaked", "deleted"}
Holders == {t \in Threads : thread[t].pc \in Holding}

\* The request is past its handler: the loop has no more to do with it.
Handed(r) ==
    /\ rpc[r] = "taken" /\ Tag(r, "request") \notin cq
    /\ ~(loop.pc \in {"spawn", "handler"} /\ loop.req = r)

FdfsTypes ==
    /\ loop.pc \in {"next", "spawn", "handler", "mark"}
    /\ \A r \in Requests : rpc[r] # "dropped"
    /\ tasks \in Seq(Requests)
    /\ thread \in [Threads -> [pc : ThreadPcs, req : Requests \cup {NoReq}]]

FdfsIds ==
    /\ blobs \subseteq Ids /\ removed \subseteq Ids
    /\ fileid \in [Requests -> Ids \cup {NoId}]

\* A request that is with a task is with one: once in the queue, or with one thread.
TaskInv ==
    /\ \A i \in 1..Len(tasks) : Handed(tasks[i])
    /\ \A i, j \in 1..Len(tasks) : tasks[i] = tasks[j] => i = j
    /\ \A t \in Threads :
         IF thread[t].pc = "idle" THEN Req(t) = NoReq
         ELSE /\ Req(t) \in Requests /\ Handed(Req(t))
              /\ \A i \in 1..Len(tasks) : tasks[i] # Req(t)
    /\ \A t, v \in Threads : Req(t) = Req(v) => t = v \/ Req(t) = NoReq

\* A thread is in the handler of its request's method.
MethodInv == \A t \in Threads :
    /\ thread[t].pc \in {"first", "requery", "second", "update"} => Upload(Req(t))
    /\ thread[t].pc \in {"locate", "erase"} => ~Upload(Req(t))

PoolInv == free \in Nat /\ IsFiniteSet(Holders) /\ PoolExact

\* An id is there before it is passed on: by the upload that made it to its
\* reply, and by the answer to the deletes that name it.
FileInv ==
    /\ \A r \in Requests : Upload(r) /\ fileid[r] # NoId => fileid[r] \in blobs \cup removed
    /\ \A t \in Threads : /\ thread[t].pc \in {"update", "reply"} /\ Upload(Req(t))
                          => fileid[Req(t)] # NoId
    /\ \A r \in Requests : Upload(r) /\ rpc[r] \in Replied => fileid[r] # NoId
    /\ \A r \in Requests : Answered(r) => rpc[r] \in {"written", "deleted"}
    /\ \A r \in Requests : ~Upload(r) /\ rpc[r] # "none" => fileid[r] # NoId

FdfsInv == FdfsTypes /\ FdfsIds /\ TaskInv /\ MethodInv /\ PoolInv /\ FileInv
IInv == FrameInv /\ ArmedInv /\ FdfsInv

-----------------------------------------------------------------------------
(* The frame: every step of it keeps its invariant, and is one of           *)
(* RpcService or leaves its variables alone, as long as the handlers call   *)
(* Finish only for a call data that is taken.                               *)

USE RpcAssumption

LEMMA StageValues ==
    /\ StageOf("none") = "none" /\ StageOf("sent") = "asked"
    /\ StageOf("taken") = "taken" /\ StageOf("dropped") = "taken"
    /\ StageOf("finishing") = "replied" /\ StageOf("written") = "replied"
    /\ StageOf("leaked") = "replied" /\ StageOf("deleted") = "released"
BY DEF StageOf

LEMMA FrameTypesOK == FrameTypes => FrameTypeOK
BY DEF FrameTypes, FrameTypeOK, RpcStates, LoopPcs

LEMMA InitFrameInv == InitFrame => FrameInv /\ ArmedInv /\ Service!Init
<1> SUFFICES ASSUME InitFrame PROVE FrameInv /\ ArmedInv /\ Service!Init
  OBVIOUS
<1>1. FrameInv
  BY DEF InitFrame, FrameInv, FrameTypes, TagInv, CallInv, LoopInv, RpcStates, LoopPcs, Tags
<1>2. \A m \in Methods : Incoming(m) = {}
  BY DEF InitFrame, Incoming
<1>3. ArmedInv
  BY <1>2, FS_EmptySet DEF InitFrame, ArmedInv, AlwaysArmed, Incoming
<1>4. Service!Init
  BY StageValues DEF InitFrame, Service!Init, stage
<1> QED
  BY <1>1, <1>3, <1>4

-----------------------------------------------------------------------------
(* The armed call data.                                                    *)

\* Nothing changes when no request comes or goes.
LEMMA ArmedSame ==
    ASSUME ArmedInv, UNCHANGED armed, \A m \in Methods : Incoming(m)' = Incoming(m),
           loop'.pc = "spawn" <=> loop.pc = "spawn", loop.pc = "spawn" => loop'.req = loop.req
    PROVE  ArmedInv'
BY DEF ArmedInv, AlwaysArmed, Incoming

LEMMA ArriveArmed == ASSUME FrameInv, ArmedInv, NEW r \in Requests, Arrive(r) PROVE ArmedInv'
<1> DEFINE M == MethodOf[r]  t == Tag(r, "request")
<1>1. t \notin cq /\ t.kind = "request" /\ t.req = r /\ M \in Methods
  BY DEF Arrive, FrameInv, TagInv, Tag
<1>2. Incoming(M)' = Incoming(M) \cup {t} /\ t \notin Incoming(M)
  BY <1>1 DEF Arrive, Incoming
<1>3. \A m \in Methods \ {M} : Incoming(m)' = Incoming(m)
  BY <1>1 DEF Arrive, Incoming
<1>4. /\ IsFiniteSet(Incoming(M)') /\ Cardinality(Incoming(M)') = Cardinality(Incoming(M)) + 1
      /\ Cardinality(Incoming(M)) \in Nat
  BY <1>1, <1>2, FS_AddElement, FS_CardinalityType DEF ArmedInv
<1> HIDE DEF t
<1>5. armed' = [armed EXCEPT ![M] = @ - 1] /\ armed \in [Methods -> Nat] /\ armed[M] > 0 /\ loop' = loop
  BY DEF Arrive, FrameInv, FrameTypes
<1>6. \A m \in Methods : IsFiniteSet(Incoming(m)')
  BY <1>1, <1>3, <1>4 DEF ArmedInv
<1>7. ASSUME NEW m \in Methods
      PROVE  armed'[m] + Cardinality(Incoming(m)')
               + (IF loop'.pc = "spawn" /\ MethodOf[loop'.req] = m THEN 1 ELSE 0) = 1
  <2>1. armed[m] + Cardinality(Incoming(m))
               + (IF loop.pc = "spawn" /\ MethodOf[loop.req] = m THEN 1 ELSE 0) = 1
    BY DEF ArmedInv, AlwaysArmed, Incoming
  <2>2. CASE m = M
    BY <2>1, <2>2, <1>4, <1>5
  <2>3. CASE m # M
    BY <2>1, <2>3, <1>3, <1>5
  <2> QED
    BY <2>2, <2>3
<1> QED
  BY <1>6, <1>7 DEF ArmedInv, AlwaysArmed, Incoming

LEMMA WrittenArmed == ASSUME FrameInv, ArmedInv, NEW r \in Requests, Written(r) PROVE ArmedInv'
<1>1. \A m \in Methods : Incoming(m)' = Incoming(m)
  BY DEF Written, Incoming, Tag
<1> QED
  BY <1>1, ArmedSame DEF Written

LEMMA NextTagArmed == ASSUME FrameInv, ArmedInv, NEW t \in cq, NextTag(t) PROVE ArmedInv'
<1>1. CASE status[t.req] = "PROCESS" /\ loop' = [pc |-> "spawn", req |-> t.req]
  <2> DEFINE M == MethodOf[t.req]
  <2>1. t.kind = "request" /\ t.req \in Requests /\ M \in Methods /\ loop.pc = "next"
    BY <1>1 DEF NextTag, FrameInv, FrameTypes, TagInv, Tags, LoopAt
  <2>2. Incoming(M)' = Incoming(M) \ {t} /\ t \in Incoming(M)
    BY <2>1 DEF NextTag, Incoming
  <2>3. \A m \in Methods \ {M} : Incoming(m)' = Incoming(m)
    BY <2>1 DEF NextTag, Incoming
  <2>4. /\ IsFiniteSet(Incoming(M)') /\ Cardinality(Incoming(M)') = Cardinality(Incoming(M)) - 1
        /\ Cardinality(Incoming(M)) \in Nat
    BY <2>1, <2>2, FS_RemoveElement, FS_CardinalityType DEF ArmedInv
  <2>5. \A m \in Methods : IsFiniteSet(Incoming(m)')
    BY <2>1, <2>3, <2>4 DEF ArmedInv
  <2>6. armed' = armed /\ armed \in [Methods -> Nat]
    BY DEF NextTag, FrameInv, FrameTypes
  <2>7. ASSUME NEW m \in Methods
        PROVE  armed'[m] + Cardinality(Incoming(m)')
                 + (IF loop'.pc = "spawn" /\ MethodOf[loop'.req] = m THEN 1 ELSE 0) = 1
    <3>1. armed[m] + Cardinality(Incoming(m)) + 0 = 1
      BY <2>1 DEF ArmedInv, AlwaysArmed, Incoming
    <3>2. CASE m = M
      BY <3>1, <3>2, <2>4, <2>6, <1>1
    <3>3. CASE m # M
      BY <3>1, <3>3, <2>3, <2>6, <1>1
    <3> QED
      BY <3>2, <3>3
  <2> QED
    BY <2>5, <2>7 DEF ArmedInv, AlwaysArmed, Incoming
<1>2. CASE status[t.req] = "FINISH" /\ UNCHANGED loop
  <2>1. t.kind # "request"
    BY <1>2 DEF NextTag, FrameInv, TagInv
  <2>2. \A m \in Methods : Incoming(m)' = Incoming(m)
    BY <2>1 DEF NextTag, Incoming
  <2> QED
    BY <1>2, <2>2, ArmedSame DEF NextTag
<1> QED
  BY <1>1, <1>2 DEF NextTag

LEMMA SpawnArmed == ASSUME FrameInv, ArmedInv, Spawn PROVE ArmedInv'
<1> DEFINE M == MethodOf[loop.req]
<1>1. loop.pc = "spawn" /\ loop'.pc = "handler" /\ M \in Methods
  BY DEF Spawn, LoopAt, LoopGoes, FrameInv, FrameTypes
<1>2. armed' = [armed EXCEPT ![M] = @ + 1] /\ armed \in [Methods -> Nat]
  BY DEF Spawn, FrameInv, FrameTypes
<1>3. \A m \in Methods : Incoming(m)' = Incoming(m)
  BY DEF Spawn, Incoming
<1>4. \A m \in Methods : Cardinality(Incoming(m)) \in Nat
  BY FS_CardinalityType DEF ArmedInv
<1>5. ASSUME NEW m \in Methods
      PROVE  armed'[m] + Cardinality(Incoming(m)')
               + (IF loop'.pc = "spawn" /\ MethodOf[loop'.req] = m THEN 1 ELSE 0) = 1
  <2>1. armed[m] + Cardinality(Incoming(m)) + (IF M = m THEN 1 ELSE 0) = 1
    BY <1>1 DEF ArmedInv, AlwaysArmed, Incoming
  <2> QED
    BY <2>1, <1>1, <1>2, <1>3, <1>4
<1> QED
  BY <1>3, <1>5 DEF ArmedInv, AlwaysArmed, Incoming

-----------------------------------------------------------------------------
(* The steps of the frame.                                                 *)

LEMMA SendFrame ==
    ASSUME FrameInv, ArmedInv, NEW r \in Requests, Send(r)
    PROVE  FrameInv' /\ ArmedInv' /\ ServiceStep
<1>1. FrameInv'
  BY DEF Send, FrameInv, FrameTypes, TagInv, CallInv, LoopInv, RpcStates, Tag
<1>2. ArmedInv'
  BY ArmedSame DEF Send, Incoming
<1>3. Service!Ask(r)
  BY StageValues DEF Send, Service!Ask, Service!Moves, stage, FrameInv, FrameTypes
<1> QED
  BY <1>1, <1>2, <1>3 DEF ServiceStep, Service!Next

LEMMA LeaveFrame ==
    ASSUME FrameInv, ArmedInv, NEW r \in Requests, Leave(r)
    PROVE  FrameInv' /\ ArmedInv' /\ ServiceStep
<1>1. FrameInv'
  BY DEF Leave, FrameInv, FrameTypes, TagInv, CallInv, LoopInv, RpcStates, Tag
<1>2. ArmedInv'
  BY ArmedSame DEF Leave, Incoming
<1>3. Service!Leave(r)
  BY DEF Leave, Service!Leave, stage
<1> QED
  BY <1>1, <1>2, <1>3 DEF ServiceStep, Service!Next

LEMMA ArriveFrame ==
    ASSUME FrameInv, ArmedInv, NEW r \in Requests, ~down, Arrive(r)
    PROVE  FrameInv' /\ ArmedInv' /\ ServiceStep
<1>1. MethodOf[r] \in Methods /\ Tag(r, "request") \in Tags
  BY DEF Tag, Tags
<1>2. FrameTypes'
  BY <1>1 DEF Arrive, FrameInv, FrameTypes, RpcStates
<1>3. TagInv'
  BY DEF Arrive, FrameInv, FrameTypes, TagInv, CallInv, Tag, Tags
<1>4. CallInv'
  BY DEF Arrive, FrameInv, FrameTypes, CallInv
<1>5. LoopInv'
  BY DEF Arrive, FrameInv, FrameTypes, LoopInv, Tag
<1>6. Service!Take(r)
  BY StageValues DEF Arrive, Service!Take, Service!Moves, stage, FrameInv, FrameTypes
<1> QED
  BY <1>2, <1>3, <1>4, <1>5, <1>6, ArriveArmed DEF FrameInv, ServiceStep, Service!Next

LEMMA WrittenFrame ==
    ASSUME FrameInv, ArmedInv, NEW r \in Requests, ~down, Written(r)
    PROVE  FrameInv' /\ ArmedInv' /\ ServiceStep
<1>1. Tag(r, "finish") \in Tags
  BY DEF Tag, Tags
<1>2. FrameTypes'
  BY <1>1 DEF Written, FrameInv, FrameTypes, RpcStates
<1>3. TagInv'
  BY DEF Written, FrameInv, FrameTypes, TagInv, CallInv, Tag, Tags
<1>4. CallInv'
  BY DEF Written, FrameInv, FrameTypes, CallInv
<1>5. LoopInv'
  BY DEF Written, FrameInv, FrameTypes, LoopInv, Tag
<1>6. UNCHANGED stage /\ stage[r] = "replied"
  BY StageValues DEF Written, stage, FrameInv, FrameTypes
<1>7. ASSUME client[r] = "waiting" PROVE ServiceStep
  <2>1. Service!Deliver(r)
    BY <1>6, <1>7 DEF Written, Service!Deliver, FrameInv, FrameTypes
  <2> QED
    BY <2>1 DEF Service!Next, ServiceStep
<1>8. ASSUME client[r] # "waiting" PROVE ServiceStep
  <2>1. UNCHANGED client
    BY <1>8 DEF Written, FrameInv, FrameTypes
  <2> QED
    BY <1>6, <2>1 DEF Written, ServiceStep, Service!svars
<1> QED
  BY <1>2, <1>3, <1>4, <1>5, <1>7, <1>8, WrittenArmed DEF FrameInv, ServiceStep

LEMMA NextTagFrame ==
    ASSUME FrameInv, ArmedInv, NEW t \in cq, NextTag(t)
    PROVE  FrameInv' /\ ArmedInv' /\ ServiceStep
<1>1. t.req \in Requests /\ t.kind \in {"request", "finish"} /\ cq' = cq \ {t} /\ ~down
      /\ t = Tag(t.req, t.kind)
  BY DEF FrameInv, FrameTypes, Tags, NextTag, LoopAt, Tag
<1>2. CASE status[t.req] = "PROCESS" /\ loop' = [pc |-> "spawn", req |-> t.req] /\ UNCHANGED rpc
  <2>1. t.kind = "request" /\ rpc[t.req] = "taken"
    BY <1>1, <1>2 DEF FrameInv, TagInv
  <2>2. FrameTypes' /\ TagInv' /\ CallInv'
    BY <1>1, <1>2 DEF NextTag, FrameInv, FrameTypes, TagInv, CallInv, LoopPcs
  <2>3. LoopInv'
    BY <1>1, <1>2, <2>1 DEF LoopInv, Tag
  <2>4. UNCHANGED <<stage, client, down>>
    BY <1>2 DEF NextTag, stage
  <2> QED
    BY <2>2, <2>3, <2>4, NextTagArmed DEF FrameInv, ServiceStep, Service!svars
<1>3. CASE status[t.req] = "FINISH" /\ rpc' = [rpc EXCEPT ![t.req] = "deleted"] /\ UNCHANGED loop
  <2>1. t.kind = "finish" /\ rpc[t.req] = "written" /\ client[t.req] # "waiting"
    BY <1>1, <1>3 DEF FrameInv, TagInv, CallInv
  <2>2. FrameTypes'
    BY <1>1, <1>3 DEF NextTag, FrameInv, FrameTypes, RpcStates
  <2>3. TagInv'
    <3>1. ASSUME NEW v \in cq' PROVE v.req # t.req /\ v \in cq /\ v.req \in Requests
      BY <1>1, <2>1 DEF FrameInv, FrameTypes, TagInv, Tags
    <3>2. ASSUME NEW v \in cq' PROVE rpc'[v.req] = rpc[v.req] /\ status'[v.req] = status[v.req]
      BY <1>3, <3>1 DEF NextTag, FrameInv, FrameTypes
    <3> QED
      BY <3>1, <3>2 DEF FrameInv, TagInv
  <2>4. CallInv'
    BY <1>1, <1>3, <2>1 DEF NextTag, FrameInv, FrameTypes, CallInv
  <2>5. LoopInv'
    BY <1>1, <1>3 DEF NextTag, LoopAt, LoopInv
  <2>6. Service!Release(t.req)
    BY <1>1, <1>3, <2>1, StageValues
       DEF NextTag, Service!Release, Service!Moves, stage, FrameInv, FrameTypes
  <2> QED
    BY <1>1, <2>2, <2>3, <2>4, <2>5, <2>6, NextTagArmed DEF FrameInv, ServiceStep, Service!Next
<1> QED
  BY <1>2, <1>3 DEF NextTag

LEMMA SpawnFrame ==
    ASSUME FrameInv, ArmedInv, Spawn
    PROVE  FrameInv' /\ ArmedInv' /\ ServiceStep
<1>1. FrameTypes'
  BY DEF Spawn, LoopAt, LoopGoes, FrameInv, FrameTypes, LoopPcs
<1>2. TagInv' /\ CallInv' /\ LoopInv'
  BY DEF Spawn, LoopAt, LoopGoes, FrameInv, FrameTypes, TagInv, CallInv, LoopInv, Tag
<1>3. UNCHANGED <<stage, client, down>>
  BY DEF Spawn, stage
<1> QED
  BY <1>1, <1>2, <1>3, SpawnArmed DEF FrameInv, ServiceStep, Service!svars

LEMMA MarkFrame ==
    ASSUME FrameInv, ArmedInv, Mark
    PROVE  FrameInv' /\ ArmedInv' /\ ServiceStep
<1>1. loop.pc = "mark" /\ loop.req \in Requests /\ rpc[loop.req] \notin {"none", "sent"}
      /\ Tag(loop.req, "request") \notin cq
  BY DEF Mark, LoopAt, FrameInv, FrameTypes, LoopInv
<1>2. FrameTypes'
  BY <1>1 DEF Mark, FrameInv, FrameTypes, LoopPcs
<1>3. TagInv'
  BY <1>1 DEF Mark, FrameInv, FrameTypes, TagInv, Tag, Tags
<1>4. CallInv' /\ LoopInv'
  BY <1>1 DEF Mark, FrameInv, FrameTypes, CallInv, LoopInv
<1>5. ArmedInv'
  BY <1>1, ArmedSame DEF Mark, Incoming
<1>6. UNCHANGED <<stage, client, down>>
  BY DEF Mark, stage
<1> QED
  BY <1>2, <1>3, <1>4, <1>5, <1>6 DEF FrameInv, ServiceStep, Service!svars

LEMMA LoopFrame ==
    ASSUME FrameInv, ArmedInv, LoopNext
    PROVE  FrameInv' /\ ArmedInv' /\ ServiceStep
BY NextTagFrame, SpawnFrame, MarkFrame DEF LoopNext

LEMMA GrpcFrame ==
    ASSUME FrameInv, ArmedInv, NEW r \in Requests, Send(r) \/ Leave(r) \/ Grpc(r)
    PROVE  FrameInv' /\ ArmedInv' /\ ServiceStep
BY SendFrame, LeaveFrame, ArriveFrame, WrittenFrame DEF Grpc

LEMMA SameFrame ==
    ASSUME FrameInv, ArmedInv, UNCHANGED frame
    PROVE  FrameInv' /\ ArmedInv' /\ ServiceStep
BY DEF frame, FrameInv, FrameTypes, TagInv, CallInv, LoopInv, ArmedInv, AlwaysArmed, Incoming,
       ServiceStep, Service!svars, stage

-----------------------------------------------------------------------------
(* What handlers do to the frame.                                          *)

\* The loop goes from one statement of a handler to another, or leaves it.
LEMMA LoopMoves ==
    ASSUME FrameInv, ArmedInv, loop.pc \notin {"next", "spawn", "mark"},
           NEW pc \in LoopPcs \ {"next", "spawn"}, LoopGoes(pc),
           UNCHANGED <<rpc, client, status, armed, cq, down>>
    PROVE  FrameInv' /\ ArmedInv' /\ ServiceStep
<1>1. loop'.pc = pc /\ loop'.req = loop.req /\ loop' \in [pc : LoopPcs, req : Requests \cup {NoReq}]
  BY DEF LoopGoes, FrameInv, FrameTypes
<1>2. FrameInv'
  BY <1>1 DEF FrameInv, FrameTypes, TagInv, CallInv, LoopInv
<1>3. ArmedInv'
  BY <1>1, ArmedSame DEF Incoming
<1>4. UNCHANGED stage
  BY DEF stage
<1> QED
  BY <1>2, <1>3, <1>4 DEF ServiceStep, Service!svars

\* A reply, by the loop on its way out of a handler, or for a request it has left.
LEMMA FinishFrame ==
    ASSUME FrameInv, ArmedInv, NEW r \in Requests, ~down, Finish(r),
           rpc[r] = "taken", Tag(r, "request") \notin cq,
           UNCHANGED <<client, armed, cq, down>>,
           \/ UNCHANGED loop /\ (loop.pc \in {"next", "mark"} \/ loop.req # r)
           \/ loop.pc \notin {"next", "spawn", "mark"} /\ LoopGoes("mark")
    PROVE  FrameInv' /\ ArmedInv' /\ ServiceStep
<1>1. /\ loop'.req = loop.req /\ loop' \in [pc : LoopPcs, req : Requests \cup {NoReq}]
      /\ loop'.pc = "next" <=> loop.pc = "next"
      /\ loop'.pc = "spawn" <=> loop.pc = "spawn"
      /\ loop'.pc \notin {"next", "mark"} => loop' = loop /\ loop.req # r
  BY DEF LoopGoes, FrameInv, FrameTypes, LoopPcs
<1>2. FrameTypes'
  BY <1>1 DEF Finish, FrameInv, FrameTypes, RpcStates
<1>3. TagInv'
  BY DEF Finish, FrameInv, FrameTypes, TagInv, Tag, Tags
<1>4. CallInv'
  BY DEF Finish, FrameInv, FrameTypes, CallInv
<1>5. LoopInv'
  BY <1>1 DEF Finish, FrameInv, FrameTypes, LoopInv
<1>6. ArmedInv'
  BY <1>1, ArmedSame DEF Incoming
<1>7. Service!Reply(r)
  BY StageValues DEF Finish, Service!Reply, Service!Moves, stage, FrameInv, FrameTypes
<1> QED
  BY <1>2, <1>3, <1>4, <1>5, <1>6, <1>7 DEF FrameInv, ServiceStep, Service!Next

\* The process ends.
LEMMA DownFrame ==
    ASSUME FrameInv, ArmedInv, ~down, down', UNCHANGED <<rpc, client, status, armed, cq, loop>>
    PROVE  FrameInv' /\ ArmedInv' /\ ServiceStep
<1>1. FrameInv'
  BY DEF FrameInv, FrameTypes, TagInv, CallInv, LoopInv
<1>2. ArmedInv'
  BY ArmedSame DEF Incoming
<1>3. Service!BreakDown
  BY DEF Service!BreakDown, stage, FrameInv, FrameTypes
<1> QED
  BY <1>1, <1>2, <1>3 DEF ServiceStep, Service!Next

\* A step of the server's own, which may be its last.
LEMMA StayFrame ==
    ASSUME FrameInv, ArmedInv, UNCHANGED <<rpc, client, status, armed, cq, loop>>,
           UNCHANGED down \/ (~down /\ down' = TRUE)
    PROVE  FrameInv' /\ ArmedInv' /\ ServiceStep
BY SameFrame, DownFrame DEF frame

-----------------------------------------------------------------------------
USE FdfsAssumption

LEMMA InitInv == Init => IInv /\ Service!Init
<1> SUFFICES ASSUME Init PROVE IInv /\ Service!Init
  OBVIOUS
<1>1. FrameInv /\ ArmedInv /\ Service!Init
  BY InitFrameInv DEF Init
<1>2. FdfsTypes /\ FdfsIds
  BY DEF Init, InitFrame, FdfsTypes, FdfsIds, Idle, ThreadPcs
<1>3. TaskInv /\ MethodInv
  BY DEF Init, TaskInv, MethodInv, Idle, Req
<1>4. PoolInv
  <2>1. Holders = {}
    BY DEF Init, Holders, Holding, Idle
  <2>2. IsFiniteSet(Holders) /\ Cardinality(Holders) = 0
    BY <2>1, FS_EmptySet
  <2>3. free \in Nat /\ free + Cardinality(Holders) = PoolSize
    BY <2>2 DEF Init
  <2> QED
    BY <2>2, <2>3 DEF PoolInv, PoolExact, Holders
<1>5. FileInv
  BY DEF Init, InitFrame, FileInv, Idle, Answered, Replied
<1> QED
  BY <1>1, <1>2, <1>3, <1>4, <1>5 DEF IInv, FdfsInv

-----------------------------------------------------------------------------
(* What a step has to keep.                                                *)

\* The threads and the pool only look at who is handed.
LEMMA SameConns ==
    ASSUME FdfsInv, UNCHANGED conns,
           loop'.pc \in {"next", "spawn", "handler", "mark"},
           \A r \in Requests : /\ Handed(r) => Handed(r)'
                               /\ rpc'[r] # "dropped"
    PROVE  FdfsTypes' /\ TaskInv' /\ MethodInv' /\ PoolInv'
<1>1. FdfsTypes'
  BY DEF FdfsInv, FdfsTypes, conns
<1>2. TaskInv'
  <2>1. \A i \in 1..Len(tasks) : tasks[i] \in Requests
    BY DEF FdfsInv, FdfsTypes
  <2> QED
    BY <2>1 DEF FdfsInv, TaskInv, conns, Req
<1>3. MethodInv' /\ PoolInv'
  BY DEF FdfsInv, MethodInv, PoolInv, PoolExact, Holders, conns, Req, Upload
<1> QED
  BY <1>1, <1>2, <1>3

\* What the files depend on when only the frame moves.
LEMMA SameFiles ==
    ASSUME FdfsInv, UNCHANGED <<thread, fdfs>>,
           \A r \in Requests : /\ rpc'[r] \in Replied => rpc[r] \in Replied
                               /\ rpc'[r] # "none" => rpc[r] # "none"
                               /\ Answered(r)' => rpc'[r] \in {"written", "deleted"}
    PROVE  FdfsIds' /\ FileInv'
BY DEF FdfsInv, FdfsIds, FileInv, fdfs, Req, Upload

\* A thread goes on with its task, and may wake another that waits.
Steps(t, pc) ==
    \/ Goes(t, pc)
    \/ \E v \in Threads : /\ thread[v].pc = "wait"
                          /\ thread' = [thread EXCEPT ![t].pc = pc, ![v].pc = "acquire"]

LEMMA ThreadSteps ==
    ASSUME FdfsInv, NEW t \in Threads, thread[t].pc \notin {"idle", "wait"},
           NEW pc \in ThreadPcs \ {"idle"}, Steps(t, pc)
    PROVE  /\ thread' \in [Threads -> [pc : ThreadPcs, req : Requests \cup {NoReq}]]
           /\ thread'[t].pc = pc
           /\ \A u \in Threads : Req(u)' = Req(u)
           /\ \A u \in Threads \ {t} : \/ thread'[u].pc = thread[u].pc
                                       \/ thread[u].pc = "wait" /\ thread'[u].pc = "acquire"
<1>1. CASE Goes(t, pc)
  BY <1>1 DEF Goes, FdfsInv, FdfsTypes, Req, ThreadPcs
<1>2. ASSUME NEW v \in Threads, thread[v].pc = "wait",
             thread' = [thread EXCEPT ![t].pc = pc, ![v].pc = "acquire"]
      PROVE  /\ thread' \in [Threads -> [pc : ThreadPcs, req : Requests \cup {NoReq}]]
             /\ thread'[t].pc = pc
             /\ \A u \in Threads : Req(u)' = Req(u)
             /\ \A u \in Threads \ {t} : \/ thread'[u].pc = thread[u].pc
                                         \/ thread[u].pc = "wait" /\ thread'[u].pc = "acquire"
  BY <1>2 DEF FdfsInv, FdfsTypes, Req, ThreadPcs
<1> QED
  BY <1>1, <1>2 DEF Steps

LEMMA StepsTasks ==
    ASSUME FdfsInv, NEW t \in Threads, thread[t].pc \notin {"idle", "wait"},
           NEW pc \in ThreadPcs \ {"idle"}, Steps(t, pc), UNCHANGED <<rpc, cq, loop, tasks>>
    PROVE  FdfsTypes' /\ TaskInv'
<1>1. FdfsTypes'
  BY ThreadSteps DEF FdfsInv, FdfsTypes
<1>2. \A u \in Threads : Req(u)' = Req(u) /\ (thread'[u].pc = "idle" <=> thread[u].pc = "idle")
  BY ThreadSteps DEF FdfsInv, FdfsTypes
<1>3. \A r : Handed(r)' = Handed(r)
  BY DEF Handed
<1>4. TaskInv'
  BY <1>2, <1>3 DEF FdfsInv, TaskInv
<1> QED
  BY <1>1, <1>4

-----------------------------------------------------------------------------
(* The pool of connections.                                                *)

LEMMA PoolKeeps ==
    ASSUME PoolInv, UNCHANGED free, \A u \in Threads : thread'[u].pc \in Holding <=> thread[u].pc \in Holding
    PROVE  PoolInv'
<1>1. Holders' = Holders
  BY DEF Holders
<1> QED
  BY <1>1 DEF PoolInv, PoolExact, Holders

LEMMA PoolTakes ==
    ASSUME PoolInv, free > 0, free' = free - 1, NEW t \in Threads,
           thread[t].pc \notin Holding, thread'[t].pc \in Holding,
           \A u \in Threads \ {t} : thread'[u].pc \in Holding <=> thread[u].pc \in Holding
    PROVE  PoolInv'
<1>1. Holders' = Holders \cup {t} /\ t \notin Holders
  BY DEF Holders
<1>2. /\ IsFiniteSet(Holders') /\ Cardinality(Holders') = Cardinality(Holders) + 1
      /\ Cardinality(Holders) \in Nat
  BY <1>1, FS_AddElement, FS_CardinalityType DEF PoolInv
<1>3. free + Cardinality(Holders) = PoolSize
  BY DEF PoolInv, PoolExact, Holders
<1>4. free' \in Nat /\ free' + Cardinality(Holders') = PoolSize
  BY <1>2, <1>3 DEF PoolInv
<1> QED
  BY <1>2, <1>4 DEF PoolInv, PoolExact, Holders

\* release: the connection is back.
LEMMA ReleaseGives ==
    ASSUME FdfsInv, NEW t \in Threads, thread[t].pc \in Holding,
           NEW pc \in {"reply", "thrown"}, Release(t, pc)
    PROVE  Steps(t, pc) /\ PoolInv' /\ MethodInv'
<1>1. Steps(t, pc) /\ free' = free + 1
  BY DEF Release, Steps
<1>2. /\ thread'[t].pc = pc
      /\ \A u \in Threads : Req(u)' = Req(u)
      /\ \A u \in Threads \ {t} : \/ thread'[u].pc = thread[u].pc
                                  \/ thread[u].pc = "wait" /\ thread'[u].pc = "acquire"
  BY <1>1, ThreadSteps DEF Holding, ThreadPcs
<1>3. Holders' = Holders \ {t} /\ t \in Holders
  BY <1>2 DEF Holders, Holding
<1>4. /\ IsFiniteSet(Holders') /\ Cardinality(Holders') = Cardinality(Holders) - 1
      /\ Cardinality(Holders) \in Nat
  BY <1>3, FS_RemoveElement, FS_CardinalityType DEF FdfsInv, PoolInv
<1>5. free + Cardinality(Holders) = PoolSize
  BY DEF FdfsInv, PoolInv, PoolExact, Holders
<1>6. free' \in Nat /\ free' + Cardinality(Holders') = PoolSize
  BY <1>1, <1>4, <1>5 DEF FdfsInv, PoolInv
<1>7. PoolInv'
  BY <1>4, <1>6 DEF PoolInv, PoolExact, Holders
<1>8. MethodInv'
  BY <1>2 DEF FdfsInv, MethodInv, Upload
<1> QED
  BY <1>1, <1>7, <1>8

-----------------------------------------------------------------------------
(* gRPC and the event loop.                                                *)

LEMMA RequestStep ==
    ASSUME IInv, NEW r \in Requests, Request(r) PROVE IInv' /\ ServiceStep
<1> USE DEF IInv
<1>1. FrameInv' /\ ArmedInv' /\ ServiceStep
  BY SendFrame DEF Request
<1>2. \A q \in Requests : /\ Handed(q) => Handed(q)' 
                          /\ rpc'[q] # "dropped"
  BY DEF Request, Send, Handed, FdfsInv, FdfsTypes, FrameInv, FrameTypes
<1>3. FdfsTypes' /\ TaskInv' /\ MethodInv' /\ PoolInv'
  BY <1>2, SameConns DEF Request, Send, FdfsInv, FdfsTypes
<1>4. /\ rpc[r] = "none" /\ rpc' = [rpc EXCEPT ![r] = "sent"] /\ rpc \in [Requests -> RpcStates]
      /\ client' = [client EXCEPT ![r] = "waiting"] /\ UNCHANGED <<thread, blobs, removed>>
      /\ client \in [Requests -> {"idle", "waiting", "answered", "gone"}]
  BY DEF Request, Send, conns, FrameInv, FrameTypes
<1>5. CASE Upload(r) /\ UNCHANGED fileid
  BY <1>1, <1>3, <1>4, <1>5 DEF FdfsInv, FdfsIds, FileInv, Answered, Replied, Upload, Req
<1>6. CASE ~Upload(r) /\ \E u \in {u \in Requests : Upload(u) /\ Answered(u)} :
                           fileid' = [fileid EXCEPT ![r] = fileid[u]]
  <2>1. PICK u \in Requests : Upload(u) /\ Answered(u) /\ fileid' = [fileid EXCEPT ![r] = fileid[u]]
    BY <1>6
  <2>2. fileid[u] # NoId /\ fileid[u] \in Ids \cup {NoId}
    BY <2>1 DEF FdfsInv, FileInv, FdfsIds, Replied
  <2>3. FdfsIds'
    BY <1>4, <2>1, <2>2 DEF FdfsInv, FdfsIds
  <2>4. FileInv'
    BY <1>4, <1>6, <2>1, <2>2 DEF FdfsInv, FdfsIds, FileInv, Answered, Replied, Upload, Req
  <2> QED
    BY <1>1, <1>3, <2>3, <2>4 DEF FdfsInv
<1> QED
  BY <1>5, <1>6 DEF Request, Upload

LEMMA GrpcStep ==
    ASSUME IInv, NEW r \in Requests, Leave(r) \/ Grpc(r), UNCHANGED <<conns, fdfs>>
    PROVE  IInv' /\ ServiceStep
<1> USE DEF IInv
<1>1. FrameInv' /\ ArmedInv' /\ ServiceStep
  BY GrpcFrame
<1>2. /\ \A q \in Requests : /\ Handed(q) => Handed(q)'
                             /\ rpc'[q] # "dropped"
                             /\ rpc'[q] \in Replied => rpc[q] \in Replied
                             /\ rpc'[q] # "none" => rpc[q] # "none"
                             /\ Answered(q)' => rpc'[q] \in {"written", "deleted"}
      /\ UNCHANGED loop
  <2> USE DEF FrameInv, FrameTypes, FdfsInv, FdfsTypes, FileInv, Handed, Replied, Answered, Tag
  <2>1. CASE Leave(r)
    BY <2>1 DEF Leave
  <2>2. CASE Arrive(r)
    BY <2>2 DEF Arrive
  <2>3. CASE Written(r)
    BY <2>3 DEF Written
  <2> QED
    BY <2>1, <2>2, <2>3 DEF Grpc
<1>3. FdfsTypes' /\ TaskInv' /\ MethodInv' /\ PoolInv'
  BY <1>2, SameConns DEF FdfsInv, FdfsTypes
<1>4. FdfsIds' /\ FileInv'
  BY <1>2, SameFiles DEF conns
<1> QED
  BY <1>1, <1>3, <1>4 DEF FdfsInv

LEMMA LoopNextStep ==
    ASSUME IInv, LoopNext, UNCHANGED <<conns, fdfs>> PROVE IInv' /\ ServiceStep
<1> USE DEF IInv
<1>1. FrameInv' /\ ArmedInv' /\ ServiceStep
  BY LoopFrame
<1>2. /\ \A q \in Requests : /\ Handed(q) => Handed(q)'
                             /\ rpc'[q] # "dropped"
                             /\ rpc'[q] \in Replied => rpc[q] \in Replied
                             /\ rpc'[q] # "none" => rpc[q] # "none"
                             /\ Answered(q)' => rpc'[q] \in {"written", "deleted"}
      /\ loop'.pc \in {"next", "spawn", "handler", "mark"}
  <2> USE DEF FrameInv, FrameTypes, FdfsInv, FdfsTypes, FileInv, Handed, Replied, Answered, Tag
  <2>1. CASE Spawn
    BY <2>1 DEF Spawn, LoopAt, LoopGoes
  <2>2. CASE Mark
    BY <2>2 DEF Mark, LoopAt
  <2>3. ASSUME NEW t \in cq, NextTag(t), status[t.req] = "PROCESS",
               loop' = [pc |-> "spawn", req |-> t.req], UNCHANGED rpc
        PROVE  <1>2!1 /\ <1>2!2
    <3>1. t = Tag(t.req, "request") /\ t.req \in Requests
      BY <2>3 DEF TagInv, Tags
    <3> QED
      BY <2>3, <3>1 DEF NextTag
  <2>4. ASSUME NEW t \in cq, NextTag(t), status[t.req] = "FINISH",
               rpc' = [rpc EXCEPT ![t.req] = "deleted"], UNCHANGED loop
        PROVE  <1>2!1 /\ <1>2!2
    <3>1. t.req \in Requests /\ rpc[t.req] = "written"
      BY <2>4 DEF TagInv, Tags
    <3> QED
      BY <2>4, <3>1 DEF NextTag
  <2> QED
    BY <2>1, <2>2, <2>3, <2>4 DEF LoopNext, NextTag
<1>3. FdfsTypes' /\ TaskInv' /\ MethodInv' /\ PoolInv'
  BY <1>2, SameConns DEF FdfsInv, FdfsTypes
<1>4. FdfsIds' /\ FileInv'
  BY <1>2, SameFiles DEF conns
<1> QED
  BY <1>1, <1>3, <1>4 DEF FdfsInv

LEMMA SubmitStep == ASSUME IInv, Submit PROVE IInv' /\ ServiceStep
<1> USE DEF IInv
<1>1. PICK r \in Requests :
        /\ loop.pc = "handler" /\ loop.req = r /\ rpc[r] = "taken" /\ Tag(r, "request") \notin cq
        /\ loop'.pc = "mark" /\ UNCHANGED <<rpc, cq, thread>> /\ tasks' = Append(tasks, r)
  BY DEF Submit, LoopAt, LoopGoes, FrameInv, FrameTypes, LoopInv
<1>2. FrameInv' /\ ArmedInv' /\ ServiceStep
  BY LoopMoves DEF Submit, LoopAt, LoopPcs
<1>3. tasks \in Seq(Requests) /\ \A i \in 1..Len(tasks) : tasks[i] # r
  BY <1>1 DEF FdfsInv, FdfsTypes, TaskInv, Handed
<1>4. /\ tasks' \in Seq(Requests) /\ Len(tasks') = Len(tasks) + 1 /\ tasks'[Len(tasks')] = r
      /\ \A i \in 1..Len(tasks) : tasks'[i] = tasks[i]
  BY <1>1, <1>3
<1>5. Handed(r)' /\ \A q : Handed(q) => Handed(q)' /\ q # r
  BY <1>1 DEF Handed
<1>6. FdfsTypes'
  BY <1>1, <1>4 DEF FdfsInv, FdfsTypes
<1>7. TaskInv'
  <2>1. \A i \in 1..Len(tasks') : \/ i = Len(tasks') /\ tasks'[i] = r
                                  \/ i \in 1..Len(tasks) /\ tasks'[i] = tasks[i]
    BY <1>3, <1>4
  <2>2. \A i \in 1..Len(tasks') : Handed(tasks[i])'
    <3> SUFFICES ASSUME NEW i \in 1..Len(tasks'), NEW q, q = tasks'[i] PROVE Handed(q)'
      OBVIOUS
    <3> QED
      BY <1>5, <2>1 DEF FdfsInv, TaskInv
  <2>3. \A i, j \in 1..Len(tasks') : tasks'[i] = tasks'[j] => i = j
    BY <1>3, <2>1 DEF FdfsInv, TaskInv
  <2>4. ASSUME NEW t \in Threads, NEW q, q = Req(t), thread[t].pc # "idle"
        PROVE  q \in Requests /\ Handed(q)' /\ \A i \in 1..Len(tasks') : tasks'[i] # q
    <3>1. q \in Requests /\ Handed(q) /\ \A i \in 1..Len(tasks) : tasks[i] # q
      BY <2>4 DEF FdfsInv, TaskInv
    <3> QED
      BY <1>5, <2>1, <3>1
  <2>5. \A t \in Threads : Req(t)' = Req(t)
    BY <1>1 DEF Req
  <2>6. \A t \in Threads : IF thread[t].pc = "idle" THEN Req(t) = NoReq
                            ELSE /\ Req(t) \in Requests /\ Handed(thread[t].req)'
                                 /\ \A i \in 1..Len(tasks') : tasks'[i] # Req(t)
    BY <1>1, <2>4 DEF FdfsInv, TaskInv, Req
  <2> QED
    BY <1>1, <2>2, <2>3, <2>5, <2>6 DEF FdfsInv, TaskInv, Req
<1>8. MethodInv' /\ PoolInv' /\ FdfsIds' /\ FileInv'
  BY DEF Submit, FdfsInv, MethodInv, PoolInv, PoolExact, Holders, FdfsIds, FileInv, Req, Upload,
         Answered, fdfs
<1> QED
  BY <1>2, <1>6, <1>7, <1>8 DEF FdfsInv

-----------------------------------------------------------------------------
(* The threads of the work pool.                                           *)

LEMMA TakeTaskStep ==
    ASSUME IInv, NEW t \in Threads, TakeTask(t) PROVE IInv' /\ ServiceStep
<1> USE DEF IInv
<1>1. FrameInv' /\ ArmedInv' /\ ServiceStep
  BY SameFrame DEF TakeTask
<1>2. tasks \in Seq(Requests) /\ tasks # <<>>
  BY DEF TakeTask, FdfsInv, FdfsTypes
<1>3. PICK r \in Requests : r = Head(tasks) /\ r = tasks[1]
  BY <1>2
<1>4. /\ tasks' \in Seq(Requests) /\ Len(tasks') = Len(tasks) - 1 /\ Len(tasks) \in Nat \ {0}
      /\ \A i \in 1..Len(tasks') : tasks'[i] = tasks[i + 1] /\ i + 1 \in 1..Len(tasks)
  BY <1>2 DEF TakeTask
<1>5. /\ thread' = [thread EXCEPT ![t] = [pc |-> "acquire", req |-> r]]
      /\ thread \in [Threads -> [pc : ThreadPcs, req : Requests \cup {NoReq}]]
      /\ thread[t].pc = "idle"
      /\ UNCHANGED <<frame, free, fdfs>>
  BY <1>3 DEF TakeTask, At, FdfsInv, FdfsTypes
<1>6. FdfsTypes'
  BY <1>4, <1>5 DEF FdfsInv, FdfsTypes, ThreadPcs, frame
<1>7. \A q : Handed(q)' = Handed(q)
  BY <1>5 DEF Handed, frame
<1>8. /\ Handed(r) /\ \A v \in Threads : Req(v) # r
      /\ \A i \in 1..Len(tasks') : tasks'[i] # r
  <2>1. 1 \in 1..Len(tasks)
    BY <1>4
  <2>2. Handed(r) /\ \A i \in 1..Len(tasks) : tasks[i] = r => i = 1
    BY <1>3, <2>1 DEF FdfsInv, TaskInv
  <2>3. \A v \in Threads : Req(v) # r
    <3>1. ASSUME NEW v \in Threads, thread[v].pc # "idle" PROVE Req(v) # tasks[1]
      BY <2>1, <3>1 DEF FdfsInv, TaskInv
    <3>2. \A v \in Threads : thread[v].pc = "idle" => Req(v) = NoReq
      BY DEF FdfsInv, TaskInv
    <3> QED
      BY <1>3, <3>1, <3>2
  <2>4. ASSUME NEW i \in 1..Len(tasks') PROVE tasks'[i] # r
    BY <1>4, <2>2
  <2> QED
    BY <2>2, <2>3, <2>4
<1>9. TaskInv'
  <2>1. /\ \A i \in 1..Len(tasks') : Handed(tasks[i])'
        /\ \A i, j \in 1..Len(tasks') : tasks'[i] = tasks'[j] => i = j
    BY <1>4, <1>7 DEF FdfsInv, TaskInv
  <2>2. \A v \in Threads : IF v = t THEN thread'[v].pc # "idle" /\ Req(v)' = r
                           ELSE thread'[v] = thread[v] /\ Req(v)' = Req(v)
    BY <1>5 DEF Req
  <2> QED
    BY <1>4, <1>7, <1>8, <2>1, <2>2 DEF FdfsInv, TaskInv
<1>10. MethodInv' /\ FdfsIds' /\ FileInv'
  BY <1>5 DEF FdfsInv, MethodInv, FdfsIds, FileInv, Req, Upload, Answered, fdfs, frame
<1>11. PoolInv'
  BY <1>5, PoolKeeps DEF FdfsInv, Holding
<1> QED
  BY <1>1, <1>6, <1>9, <1>10, <1>11 DEF FdfsInv

LEMMA AcquireStep ==
    ASSUME IInv, NEW t \in Threads, Acquire(t) PROVE IInv' /\ ServiceStep
<1> USE DEF IInv
<1>1. FrameInv' /\ ArmedInv' /\ ServiceStep
  BY SameFrame DEF Acquire
<1>2. PICK pc \in {"wait", "first", "locate"} :
        /\ Goes(t, pc) /\ thread[t].pc = "acquire"
        /\ pc = "first" => Upload(Req(t))
        /\ pc = "locate" => ~Upload(Req(t))
        /\ \/ pc = "wait" /\ UNCHANGED free
           \/ pc # "wait" /\ free > 0 /\ free' = free - 1
  <2>1. CASE Goes(t, "wait") /\ UNCHANGED free
    BY <2>1 DEF Acquire, At
  <2>2. CASE /\ free > 0 /\ free' = free - 1
             /\ Goes(t, IF Upload(Req(t)) THEN "first" ELSE "locate")
    <3>1. CASE Upload(Req(t)) /\ Goes(t, "first")
      BY <2>2, <3>1 DEF Acquire, At
    <3>2. CASE ~Upload(Req(t)) /\ Goes(t, "locate")
      BY <2>2, <3>2 DEF Acquire, At
    <3> QED
      BY <2>2, <3>1, <3>2
  <2> QED
    BY <2>1, <2>2 DEF Acquire, Upload
<1>3. Steps(t, pc) /\ pc \in ThreadPcs \ {"idle"} /\ thread[t].pc \notin {"idle", "wait"}
  BY <1>2 DEF Steps, ThreadPcs, Holding
<1>4. FdfsTypes' /\ TaskInv'
  BY <1>3, StepsTasks DEF Acquire, frame
<1>5. /\ thread'[t].pc = pc
      /\ \A u \in Threads : Req(u)' = Req(u)
      /\ \A u \in Threads \ {t} : \/ thread'[u].pc = thread[u].pc
                                  \/ thread[u].pc = "wait" /\ thread'[u].pc = "acquire"
  BY <1>3, ThreadSteps
<1>6. MethodInv'
  BY <1>2, <1>5 DEF FdfsInv, MethodInv, Upload
<1>7. PoolInv'
  BY <1>2, <1>5, PoolKeeps, PoolTakes DEF FdfsInv, Holding
<1>8. FdfsIds' /\ FileInv'
  BY <1>2, <1>5 DEF Acquire, frame, fdfs, FdfsInv, FdfsIds, FileInv, Upload, Answered
<1> QED
  BY <1>1, <1>4, <1>6, <1>7, <1>8 DEF FdfsInv

\* An attempt: the id it succeeded with is there.
LEMMA AttemptFiles ==
    ASSUME FdfsInv, FrameTypes, NEW t \in Threads, NEW k \in {1, 2}, Attempt(t, k), Upload(Req(t)),
           thread[t].pc \in Holding, UNCHANGED <<rpc, client, removed>>,
           \A u \in Threads : Req(u)' = Req(u),
           \A u \in Threads \ {t} : thread'[u].pc \in {"update", "reply"}
                                    => thread[u].pc \in {"update", "reply"},
           thread'[t].pc \in {"update", "reply"} => Succeeded(t, k)
    PROVE  FdfsIds' /\ FileInv'
<1> DEFINE id == <<Req(t), k>>
<1>1. Req(t) \in Requests /\ id \in Ids /\ id # NoId
  BY DEF FdfsInv, TaskInv, Holding, Ids, NoId
<1>2. \/ blobs' = blobs \cup {id} /\ fileid' = [fileid EXCEPT ![Req(t)] = id]
      \/ blobs' \in {blobs, blobs \cup {id}} /\ UNCHANGED fileid
  BY DEF Attempt
<1>3. thread'[t].pc \in {"update", "reply"} => fileid'[Req(t)] = id
  BY DEF Succeeded
<1> HIDE DEF id
<1>4. FdfsIds'
  BY <1>1, <1>2 DEF FdfsInv, FdfsIds
<1>5. /\ \A r \in Requests : \/ fileid'[r] = fileid[r]
                             \/ r = Req(t) /\ fileid'[r] = id /\ id \in blobs'
      /\ blobs \subseteq blobs'
  <2>1. CASE blobs' = blobs \cup {id} /\ fileid' = [fileid EXCEPT ![Req(t)] = id]
    BY <1>1, <2>1 DEF FdfsInv, FdfsIds
  <2>2. CASE blobs' \in {blobs, blobs \cup {id}} /\ UNCHANGED fileid
    BY <2>2
  <2> QED
    BY <1>2, <2>1, <2>2
<1>6. FileInv'
  <2>1. \A r \in Requests : Upload(r)' = Upload(r) /\ Answered(r)' = Answered(r)
    BY DEF Upload, Answered
  <2>2. \A u \in Threads : thread'[u].pc \in {"update", "reply"} => Req(u) \in Requests
    BY <1>1 DEF FdfsInv, TaskInv
  <2>3. \A u \in Threads : Upload(Req(u))' = Upload(Req(u))
    BY DEF Upload
  <2> QED
    BY <1>1, <1>3, <1>5, <2>1, <2>2, <2>3 DEF FdfsInv, FileInv
<1> QED
  BY <1>4, <1>6

LEMMA FirstStep ==
    ASSUME IInv, NEW t \in Threads, First(t) PROVE IInv' /\ ServiceStep
<1> USE DEF IInv
<1>1. FrameInv' /\ ArmedInv' /\ ServiceStep
  BY SameFrame DEF First
<1>2. PICK pc \in {"update", "requery"} :
        /\ Goes(t, pc) /\ thread[t].pc = "first" /\ Upload(Req(t)) /\ Attempt(t, 1)
        /\ pc = "update" => Succeeded(t, 1)
  BY DEF First, At, FdfsInv, MethodInv
<1>3. Steps(t, pc) /\ pc \in ThreadPcs \ {"idle"} /\ thread[t].pc \notin {"idle", "wait"}
  BY <1>2 DEF Steps, ThreadPcs, Holding
<1>4. FdfsTypes' /\ TaskInv'
  BY <1>3, StepsTasks DEF First, frame
<1>5. /\ thread'[t].pc = pc
      /\ \A u \in Threads : Req(u)' = Req(u)
      /\ \A u \in Threads \ {t} : \/ thread'[u].pc = thread[u].pc
                                  \/ thread[u].pc = "wait" /\ thread'[u].pc = "acquire"
  BY <1>3, ThreadSteps
<1>6. MethodInv'
  BY <1>2, <1>5 DEF FdfsInv, MethodInv, Upload
<1>7. PoolInv'
  BY <1>2, <1>5, PoolKeeps DEF First, FdfsInv, Holding
<1>8. FdfsIds' /\ FileInv'
  BY <1>2, <1>5, AttemptFiles DEF First, frame, Holding, FrameInv
<1> QED
  BY <1>1, <1>4, <1>6, <1>7, <1>8 DEF FdfsInv

\* A task gives its connection back, and no file is concerned.
LEMMA ReleaseTask ==
    ASSUME FdfsInv, NEW t \in Threads, thread[t].pc \in Holding,
           NEW pc \in {"reply", "thrown"}, Release(t, pc), UNCHANGED <<rpc, cq, loop, tasks>>
    PROVE  /\ FdfsTypes' /\ TaskInv' /\ MethodInv' /\ PoolInv'
           /\ thread'[t].pc = pc
           /\ \A u \in Threads : Req(u)' = Req(u)
           /\ \A u \in Threads \ {t} : thread'[u].pc \in {"update", "reply"}
                                       => thread[u].pc \in {"update", "reply"}
<1>1. Steps(t, pc) /\ PoolInv' /\ MethodInv'
  BY ReleaseGives
<1>2. pc \in ThreadPcs \ {"idle"} /\ thread[t].pc \notin {"idle", "wait"}
  BY DEF Holding, ThreadPcs
<1>3. FdfsTypes' /\ TaskInv'
  BY <1>1, <1>2, StepsTasks
<1> QED
  BY <1>1, <1>2, <1>3, ThreadSteps

\* The files stay, and who is about to reply stays so.
LEMMA FilesStay ==
    ASSUME FdfsInv, UNCHANGED <<rpc, client, fdfs>>,
           \A u \in Threads : Req(u)' = Req(u),
           \A u \in Threads : /\ thread'[u].pc \in {"update", "reply"} /\ Upload(Req(u))
                              => thread[u].pc \in {"update", "reply"}
    PROVE  FdfsIds' /\ FileInv'
BY DEF FdfsInv, FdfsIds, FileInv, fdfs, Answered, Upload

LEMMA RequeryStep ==
    ASSUME IInv, NEW t \in Threads, Requery(t) PROVE IInv' /\ ServiceStep
<1> USE DEF IInv
<1>1. ~down /\ thread[t].pc = "requery"
      /\ UNCHANGED <<rpc, client, status, armed, cq, loop, tasks, fdfs>>
  BY DEF Requery, At
<1>2. CASE Goes(t, "second") /\ UNCHANGED <<free, down>>
  <2>1. FrameInv' /\ ArmedInv' /\ ServiceStep
    BY <1>1, <1>2, StayFrame
  <2>2. /\ Steps(t, "second") /\ "second" \in ThreadPcs \ {"idle"}
        /\ thread[t].pc \notin {"idle", "wait"}
    BY <1>1, <1>2 DEF Steps, ThreadPcs, Holding
  <2>3. FdfsTypes' /\ TaskInv'
    BY <1>1, <2>2, StepsTasks
  <2>4. /\ thread'[t].pc = "second"
        /\ \A u \in Threads : Req(u)' = Req(u)
        /\ \A u \in Threads \ {t} : \/ thread'[u].pc = thread[u].pc
                                    \/ thread[u].pc = "wait" /\ thread'[u].pc = "acquire"
    BY <2>2, ThreadSteps
  <2>5. MethodInv' /\ PoolInv'
    BY <1>1, <1>2, <2>4, PoolKeeps DEF FdfsInv, MethodInv, Upload, Holding
  <2>6. FdfsIds' /\ FileInv'
    BY <1>1, <2>4, FilesStay
  <2> QED
    BY <2>1, <2>3, <2>5, <2>6 DEF FdfsInv
<1>3. CASE Throws(t)
  <2>1. FrameInv' /\ ArmedInv' /\ ServiceStep
    BY <1>1, <1>3, StayFrame DEF Throws
  <2>2. /\ FdfsTypes' /\ TaskInv' /\ MethodInv' /\ PoolInv'
        /\ thread'[t].pc = "thrown"
        /\ \A u \in Threads : Req(u)' = Req(u)
        /\ \A u \in Threads \ {t} : thread'[u].pc \in {"update", "reply"}
                                    => thread[u].pc \in {"update", "reply"}
    BY <1>1, <1>3, ReleaseTask DEF Throws, Holding
  <2>3. FdfsIds' /\ FileInv'
    BY <1>1, <2>2, FilesStay
  <2> QED
    BY <2>1, <2>2, <2>3 DEF FdfsInv
<1> QED
  BY <1>2, <1>3 DEF Requery

LEMMA SecondStep ==
    ASSUME IInv, NEW t \in Threads, Second(t) PROVE IInv' /\ ServiceStep
<1> USE DEF IInv
<1>1. /\ ~down /\ thread[t].pc = "second" /\ Upload(Req(t)) /\ Attempt(t, 2)
      /\ UNCHANGED <<rpc, client, status, armed, cq, loop, tasks, removed>>
  BY DEF Second, At, FdfsInv, MethodInv
<1>2. CASE Succeeded(t, 2) /\ Goes(t, "update") /\ UNCHANGED <<free, down>>
  <2>1. FrameInv' /\ ArmedInv' /\ ServiceStep
    BY <1>1, <1>2, StayFrame
  <2>2. /\ Steps(t, "update") /\ "update" \in ThreadPcs \ {"idle"}
        /\ thread[t].pc \notin {"idle", "wait"}
    BY <1>1, <1>2 DEF Steps, ThreadPcs, Holding
  <2>3. FdfsTypes' /\ TaskInv'
    BY <1>1, <2>2, StepsTasks
  <2>4. /\ thread'[t].pc = "update"
        /\ \A u \in Threads : Req(u)' = Req(u)
        /\ \A u \in Threads \ {t} : \/ thread'[u].pc = thread[u].pc
                                    \/ thread[u].pc = "wait" /\ thread'[u].pc = "acquire"
    BY <2>2, ThreadSteps
  <2>5. MethodInv' /\ PoolInv'
    BY <1>1, <1>2, <2>4, PoolKeeps DEF FdfsInv, MethodInv, Upload, Holding
  <2>6. FdfsIds' /\ FileInv'
    BY <1>1, <1>2, <2>4, AttemptFiles DEF Holding, FrameInv
  <2> QED
    BY <2>1, <2>3, <2>5, <2>6 DEF FdfsInv
<1>3. CASE Throws(t)
  <2>1. FrameInv' /\ ArmedInv' /\ ServiceStep
    BY <1>1, <1>3, StayFrame DEF Throws
  <2>2. /\ FdfsTypes' /\ TaskInv' /\ MethodInv' /\ PoolInv'
        /\ thread'[t].pc = "thrown"
        /\ \A u \in Threads : Req(u)' = Req(u)
        /\ \A u \in Threads \ {t} : thread'[u].pc \in {"update", "reply"}
                                    => thread[u].pc \in {"update", "reply"}
    BY <1>1, <1>3, ReleaseTask DEF Throws, Holding
  <2>3. FdfsIds' /\ FileInv'
    BY <1>1, <2>2, AttemptFiles DEF Holding, FrameInv
  <2> QED
    BY <2>1, <2>2, <2>3 DEF FdfsInv
<1> QED
  BY <1>2, <1>3 DEF Second

LEMMA UpdateStep ==
    ASSUME IInv, NEW t \in Threads, Update(t) PROVE IInv' /\ ServiceStep
<1> USE DEF IInv
<1>1. FrameInv' /\ ArmedInv' /\ ServiceStep
  BY SameFrame DEF Update
<1>2. /\ FdfsTypes' /\ TaskInv' /\ MethodInv' /\ PoolInv'
      /\ \A u \in Threads : Req(u)' = Req(u)
      /\ \A u \in Threads \ {t} : thread'[u].pc \in {"update", "reply"}
                                  => thread[u].pc \in {"update", "reply"}
  BY ReleaseTask DEF Update, At, Holding, frame
<1>3. FdfsIds' /\ FileInv'
  BY <1>2, FilesStay DEF Update, At, frame
<1> QED
  BY <1>1, <1>2, <1>3 DEF FdfsInv

LEMMA LocateStep ==
    ASSUME IInv, NEW t \in Threads, Locate(t) PROVE IInv' /\ ServiceStep
<1> USE DEF IInv
<1>1. FrameInv' /\ ArmedInv' /\ ServiceStep
  BY SameFrame DEF Locate
<1>2. thread[t].pc = "locate" /\ ~Upload(Req(t)) /\ UNCHANGED <<frame, tasks, fdfs>>
  BY DEF Locate, At, FdfsInv, MethodInv
<1>3. CASE Goes(t, "erase") /\ UNCHANGED free
  <2>1. /\ Steps(t, "erase") /\ "erase" \in ThreadPcs \ {"idle"}
        /\ thread[t].pc \notin {"idle", "wait"}
    BY <1>2, <1>3 DEF Steps, ThreadPcs, Holding
  <2>2. FdfsTypes' /\ TaskInv'
    BY <1>2, <2>1, StepsTasks DEF frame
  <2>3. /\ thread'[t].pc = "erase"
        /\ \A u \in Threads : Req(u)' = Req(u)
        /\ \A u \in Threads \ {t} : \/ thread'[u].pc = thread[u].pc
                                    \/ thread[u].pc = "wait" /\ thread'[u].pc = "acquire"
    BY <2>1, ThreadSteps
  <2>4. MethodInv' /\ PoolInv'
    BY <1>2, <1>3, <2>3, PoolKeeps DEF FdfsInv, MethodInv, Upload, Holding
  <2>5. FdfsIds' /\ FileInv'
    BY <1>2, <2>3, FilesStay DEF frame
  <2> QED
    BY <1>1, <2>2, <2>4, <2>5 DEF FdfsInv
<1>4. CASE Release(t, "reply")
  <2>1. /\ FdfsTypes' /\ TaskInv' /\ MethodInv' /\ PoolInv'
        /\ \A u \in Threads : Req(u)' = Req(u)
        /\ \A u \in Threads \ {t} : thread'[u].pc \in {"update", "reply"}
                                    => thread[u].pc \in {"update", "reply"}
    BY <1>2, <1>4, ReleaseTask DEF Holding, frame
  <2>2. FdfsIds' /\ FileInv'
    BY <1>2, <2>1, FilesStay DEF frame
  <2> QED
    BY <1>1, <2>1, <2>2 DEF FdfsInv
<1> QED
  BY <1>3, <1>4 DEF Locate

LEMMA EraseStep ==
    ASSUME IInv, NEW t \in Threads, Erase(t) PROVE IInv' /\ ServiceStep
<1> USE DEF IInv
<1>1. FrameInv' /\ ArmedInv' /\ ServiceStep
  BY SameFrame DEF Erase
<1>2. /\ thread[t].pc = "erase" /\ ~Upload(Req(t)) /\ Req(t) \in Requests /\ rpc[Req(t)] = "taken"
      /\ UNCHANGED <<frame, tasks, fileid>>
  BY DEF Erase, At, FdfsInv, MethodInv, TaskInv, Handed
<1>3. /\ FdfsTypes' /\ TaskInv' /\ MethodInv' /\ PoolInv'
      /\ \A u \in Threads : Req(u)' = Req(u)
      /\ \A u \in Threads \ {t} : thread'[u].pc \in {"update", "reply"}
                                  => thread[u].pc \in {"update", "reply"}
  BY <1>2, ReleaseTask DEF Erase, Holding, frame
<1>4. fileid[Req(t)] \in Ids
  BY <1>2 DEF FdfsInv, FdfsIds, FileInv
<1>5. /\ blobs \cup removed \subseteq blobs' \cup removed'
      /\ blobs' \subseteq blobs /\ removed' \subseteq removed \cup {fileid[Req(t)]}
  BY DEF Erase
<1>6. FdfsIds'
  BY <1>2, <1>4, <1>5 DEF FdfsInv, FdfsIds
<1>7. FileInv'
  BY <1>2, <1>3, <1>5 DEF FdfsInv, FileInv, frame, Answered, Upload
<1> QED
  BY <1>1, <1>3, <1>6, <1>7 DEF FdfsInv

LEMMA ReplyStep ==
    ASSUME IInv, NEW t \in Threads, Reply(t) PROVE IInv' /\ ServiceStep
<1> USE DEF IInv
<1>1. PICK r \in Requests : /\ r = Req(t) /\ Handed(r) /\ thread[t].pc = "reply" /\ ~down
                            /\ Upload(r) => fileid[r] # NoId
  BY DEF Reply, At, FdfsInv, TaskInv, FileInv
<1>2. /\ rpc \in [Requests -> RpcStates] /\ rpc[r] = "taken"
      /\ rpc' = [rpc EXCEPT ![r] = "finishing"]
      /\ thread \in [Threads -> [pc : ThreadPcs, req : Requests \cup {NoReq}]]
      /\ thread' = [thread EXCEPT ![t] = Idle]
      /\ UNCHANGED <<client, armed, cq, loop, down, tasks, free, fdfs>>
  BY <1>1 DEF Reply, Finish, Handed, FrameInv, FrameTypes, FdfsInv, FdfsTypes
<1>3. FrameInv' /\ ArmedInv' /\ ServiceStep
  <2>1. loop.pc \in {"next", "mark"} \/ loop.req # r
    BY <1>1 DEF Handed, FdfsInv, FdfsTypes
  <2> QED
    BY <1>1, <1>2, <2>1, FinishFrame DEF Reply, Handed
<1>4. FdfsTypes'
  BY <1>2 DEF FdfsInv, FdfsTypes, Idle, ThreadPcs
<1>5. \A q \in Requests \ {r} : Handed(q) => Handed(q)'
  BY <1>2 DEF Handed
<1>6. \A v \in Threads : /\ v = t => thread'[v].pc = "idle" /\ Req(v)' = NoReq
                         /\ v # t => thread'[v] = thread[v] /\ Req(v)' = Req(v) /\ Req(v) # r
  BY <1>1, <1>2 DEF FdfsInv, TaskInv, Idle, Req
<1>7. TaskInv'
  <2>1. \A i \in 1..Len(tasks) : tasks[i] \in Requests \ {r}
    BY <1>1 DEF FdfsInv, FdfsTypes, TaskInv
  <2>2. \A i \in 1..Len(tasks) : Handed(tasks[i])'
    BY <1>2, <1>5, <2>1 DEF FdfsInv, TaskInv
  <2>3. ASSUME NEW v \in Threads, thread'[v].pc # "idle"
        PROVE  /\ Req(v)' = Req(v) /\ Req(v) \in Requests /\ Handed(Req(v))'
               /\ \A i \in 1..Len(tasks) : tasks[i] # Req(v)
    BY <1>2, <1>5, <1>6, <2>3 DEF FdfsInv, TaskInv
  <2> QED
    BY <1>2, <1>6, <2>2, <2>3 DEF FdfsInv, TaskInv
<1>8. MethodInv' /\ PoolInv' /\ FdfsIds'
  BY <1>1, <1>2, <1>6, PoolKeeps DEF FdfsInv, MethodInv, FdfsIds, Upload, Holding, fdfs
<1>9. FileInv'
  BY <1>1, <1>2, <1>6 DEF FdfsInv, FileInv, Answered, Upload, Replied, fdfs
<1> QED
  BY <1>3, <1>4, <1>7, <1>8, <1>9 DEF FdfsInv

-----------------------------------------------------------------------------
(* The invariant, and what it is for.                                      *)

LEMMA NextInv == IInv /\ [Next]_vars => IInv' /\ ServiceStep
<1> SUFFICES ASSUME IInv, [Next]_vars PROVE IInv' /\ ServiceStep
  OBVIOUS
<1>1. CASE \E r \in Requests : Request(r) \/ ((Leave(r) \/ Grpc(r)) /\ UNCHANGED <<conns, fdfs>>)
  BY <1>1, RequestStep, GrpcStep
<1>2. CASE Loop
  BY <1>2, SubmitStep, LoopNextStep DEF Loop
<1>3. CASE \E t \in Threads : ThreadNext(t)
  BY <1>3, TakeTaskStep, AcquireStep, FirstStep, RequeryStep, SecondStep, UpdateStep,
     LocateStep, EraseStep, ReplyStep DEF ThreadNext
<1>4. CASE UNCHANGED vars
  <2>1. UNCHANGED frame /\ UNCHANGED <<conns, fdfs>>
    BY <1>4 DEF vars
  <2>2. FrameInv' /\ ArmedInv' /\ ServiceStep
    BY <2>1, SameFrame DEF IInv
  <2>3. FdfsInv'
    BY <2>1, SameConns, SameFiles
       DEF frame, conns, IInv, FdfsInv, FdfsTypes, FileInv, Handed, Answered
  <2> QED
    BY <2>2, <2>3 DEF IInv
<1> QED
  BY <1>1, <1>2, <1>3, <1>4 DEF Next

\* The invariant holds of every behaviour of the server.
THEOREM Inductive == Spec => []IInv
<1>1. Init => IInv
  BY InitInv
<1>2. IInv /\ [Next]_vars => IInv'
  BY NextInv
<1> QED
  BY <1>1, <1>2, PTL DEF Spec

\* A thread replies to a request that is taken, not yet replied to, and with
\* this thread alone, and every method has a call data armed (UploadCall,
\* DeleteCall, WorkPool::Submit, rpc_finish, CallData::Proceed).
THEOREM OneTaskEach == Spec => []Consistent
<1>1. IInv => Consistent
  <2> SUFFICES ASSUME IInv PROVE Consistent
    OBVIOUS
  <2>1. FrameTypeOK /\ AlwaysArmed
    BY FrameTypesOK DEF IInv, FrameInv, ArmedInv
  <2>2. free \in 0..PoolSize
    <3>1. IsFiniteSet(Holders) /\ free \in Nat /\ free + Cardinality(Holders) = PoolSize
      BY DEF IInv, FdfsInv, PoolInv, PoolExact, Holders
    <3>2. Cardinality(Holders) \in Nat
      BY <3>1, FS_CardinalityType
    <3> QED
      BY <3>1, <3>2
  <2>3. TypeOK
    BY <2>1, <2>2 DEF TypeOK, IInv, FdfsInv, FdfsTypes, FdfsIds, ThreadPcs
  <2>4. TaskHasCall
    BY DEF TaskHasCall, IInv, FdfsInv, TaskInv, Handed, FrameInv, FrameTypes, RpcStates
  <2> QED
    BY <2>1, <2>3, <2>4 DEF Consistent
<1> QED
  BY <1>1, Inductive, PTL

\* Every connection is in the pool or with one thread, on every path out of
\* upload and remove (FdfsClientPool::acquire, release).
THEOREM NoConnectionLost == Spec => []PoolExact
<1>1. IInv => PoolExact
  BY DEF IInv, FdfsInv, PoolInv
<1> QED
  BY <1>1, Inductive, PTL

\* The id an upload was answered is one FastDFS has, or has deleted on request
\* (FdfsClient::upload).
THEOREM NoIdOfAFailedAttempt == Spec => []AnsweredIsStored
<1>1. IInv => AnsweredIsStored
  BY DEF IInv, FdfsInv, FileInv, AnsweredIsStored, Replied, Upload
<1> QED
  BY <1>1, Inductive, PTL

\* The server replies at most once, to a request it has taken, and gives a call
\* data up only after the reply (CallData of base/RpcCalldata.h).
THEOREM KeepsTheContract == Spec => IsService
<1>1. Init => Service!Init
  BY InitInv
<1>2. IInv /\ [Next]_vars => [Service!Next]_(Service!svars)
  BY NextInv DEF ServiceStep
<1> QED
  BY <1>1, <1>2, Inductive, PTL DEF Spec, IsService, Service!Spec
=============================================================================
