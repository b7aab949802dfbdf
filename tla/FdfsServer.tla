------------------------------ MODULE FdfsServer ------------------------------
(***************************************************************************)
(* The FastDFS server: the frame of RpcServer, its two handlers, and the   *)
(* pool of connections they share.  A handler submits a task to the work   *)
(* pool, whose threads are modelled as they are used here (ThreadPool has  *)
(* the pool itself).  A task takes a connection, waiting while there is    *)
(* none, talks to the tracker and the storage server, gives the connection *)
(* back, and replies.  An upload that fails is tried again once, after the *)
(* tracker was asked for a storage server again.  If that fails too upload *)
(* throws; nothing catches what a task throws, and the process ends.       *)
(*                                                                         *)
(* FastDFS is external: an attempt may store a file and fail all the same, *)
(* and every attempt that stores one gives it an id of its own.  The pool  *)
(* is opened before the server runs and never closed: main does not return.*)
(***************************************************************************)
EXTENDS RpcServer, Sequences

CONSTANTS Threads,     \* of the work pool
          PoolSize     \* connections

ASSUME FdfsAssumption == /\ Methods = {"upload", "delete"}
                         /\ PoolSize \in Nat \ {0} /\ Threads \cap Requests = {}

VARIABLES tasks,     \* the queue of the work pool
          thread,    \* what a thread does, and for which request
          free,      \* the connections in pool_
          blobs,     \* the ids FastDFS has: the request and the attempt that stored it
          removed,   \* the ids it has deleted
          fileid     \* the id an upload replies, and the one a delete is for

conns == <<tasks, thread, free>>
fdfs == <<blobs, removed, fileid>>
vars == <<frame, conns, fdfs>>

Ids == Requests \X {1, 2}
NoId == <<NoReq, 0>>
Idle == [pc |-> "idle", req |-> NoReq]
Holding == {"first", "requery", "second", "update", "locate", "erase"}

Init ==
    /\ InitFrame
    /\ tasks = <<>> /\ thread = [t \in Threads |-> Idle] /\ free = PoolSize
    /\ blobs = {} /\ removed = {} /\ fileid = [r \in Requests |-> NoId]

At(t, pc) == ~down /\ thread[t].pc = pc
Goes(t, pc) == thread' = [thread EXCEPT ![t].pc = pc]
Req(t) == thread[t].req
Answered(r) == client[r] = "answered"

\* A delete names an id that some upload was answered.
Request(r) ==
    /\ Send(r)
    /\ \/ MethodOf[r] = "upload" /\ UNCHANGED fileid
       \/ /\ MethodOf[r] = "delete"
          /\ \E u \in {u \in Requests : MethodOf[u] = "upload" /\ Answered(u)} :
               fileid' = [fileid EXCEPT ![r] = fileid[u]]
    /\ UNCHANGED <<conns, blobs, removed>>

\* Mutant: the task is submitted once more after the exception handler.
SubmitTwice ==
    /\ LoopAt("handler") /\ LoopGoes("mark")
    /\ tasks' = tasks \o <<loop.req, loop.req>>
    /\ UNCHANGED <<rpc, client, status, armed, cq, down, thread, free, fdfs>>

\* OnRequest: WorkPool::Submit; an idle thread of the pool will take the task.
Submit ==
    /\ LoopAt("handler") /\ LoopGoes("mark")
    /\ tasks' = Append(tasks, loop.req)
    /\ UNCHANGED <<rpc, client, status, armed, cq, down, thread, free, fdfs>>

TakeTask(t) ==
    /\ At(t, "idle") /\ tasks # <<>>
    /\ thread' = [thread EXCEPT ![t] = [pc |-> "acquire", req |-> Head(tasks)]]
    /\ tasks' = Tail(tasks)
    /\ UNCHANGED <<frame, free, fdfs>>

-----------------------------------------------------------------------------
(* The pool of connections.                                                *)

\* acquire, with the condition variable: wait while the pool is empty.
Acquire(t) ==
    /\ At(t, "acquire")
    /\ \/ free = 0 /\ Goes(t, "wait") /\ UNCHANGED free
       \/ /\ free > 0 /\ free' = free - 1
          /\ Goes(t, IF MethodOf[Req(t)] = "upload" THEN "first" ELSE "locate")
    /\ UNCHANGED <<frame, tasks, fdfs>>

\* Mutant: release notifies nobody.
ReleaseQuietly(t, pc) == free' = free + 1 /\ Goes(t, pc)

\* release: the connection is back, then one waiting thread is notified.
Release(t, pc) ==
    /\ free' = free + 1
    /\ \/ (\A v \in Threads : thread[v].pc # "wait") /\ Goes(t, pc)
       \/ \E v \in Threads : /\ thread[v].pc = "wait"
                             /\ thread' = [thread EXCEPT ![t].pc = pc, ![v].pc = "acquire"]

\* Terminate: the exception leaves the task.
Throws(t) == Release(t, "thrown") /\ down' = TRUE

-----------------------------------------------------------------------------
(* upload.                                                                 *)

\* storage_upload_by_filename: what an attempt may leave behind.
Attempt(t, k) == LET id == <<Req(t), k>> IN
    \/ blobs' = blobs \cup {id} /\ fileid' = [fileid EXCEPT ![Req(t)] = id]     \* 0
    \/ blobs' \in {blobs, blobs \cup {id}} /\ UNCHANGED fileid                  \* an error
Succeeded(t, k) == fileid'[Req(t)] = <<Req(t), k>>

First(t) ==
    /\ At(t, "first") /\ Attempt(t, 1)
    /\ Goes(t, IF Succeeded(t, 1) THEN "update" ELSE "requery")
    /\ UNCHANGED <<frame, tasks, free, removed>>

\* tracker_query_storage_store.
Requery(t) ==
    /\ At(t, "requery")
    /\ \/ Goes(t, "second") /\ UNCHANGED <<free, down>>
       \/ Throws(t)
    /\ UNCHANGED <<rpc, client, status, armed, cq, loop, tasks, fdfs>>

\* Mutant: the result of the second attempt is not looked at.
SecondUnchecked(t) ==
    /\ At(t, "second") /\ Attempt(t, 2) /\ Goes(t, "update")
    /\ UNCHANGED <<frame, tasks, free, removed>>

Second(t) ==
    /\ At(t, "second") /\ Attempt(t, 2)
    /\ \/ Succeeded(t, 2) /\ Goes(t, "update") /\ UNCHANGED <<free, down>>
       \/ ~Succeeded(t, 2) /\ Throws(t)
    /\ UNCHANGED <<rpc, client, status, armed, cq, loop, tasks, removed>>

\* tracker_query_storage_update1 for the address, its failure ignored.
Update(t) ==
    /\ At(t, "update") /\ Release(t, "reply")
    /\ UNCHANGED <<frame, tasks, fdfs>>

-----------------------------------------------------------------------------
(* remove.                                                                 *)

\* Mutant: the connection is kept when the file is not found.
LocateKeeps(t) ==
    /\ At(t, "locate") /\ \E pc \in {"erase", "reply"} : Goes(t, pc)
    /\ UNCHANGED <<frame, tasks, free, fdfs>>

Locate(t) ==
    /\ At(t, "locate")
    /\ \/ Goes(t, "erase") /\ UNCHANGED free
       \/ Release(t, "reply")
    /\ UNCHANGED <<frame, tasks, fdfs>>

\* storage_delete_file1 deletes the file, or fails; it may be gone already.
Erase(t) ==
    /\ At(t, "erase") /\ Release(t, "reply")
    /\ \/ /\ blobs' = blobs \ {fileid[Req(t)]} /\ removed' = removed \cup {fileid[Req(t)]}
       \/ UNCHANGED <<blobs, removed>>
    /\ UNCHANGED <<frame, tasks, fileid>>

\* rpc_finish on the thread of the task.
Reply(t) ==
    /\ At(t, "reply") /\ Finish(Req(t)) /\ thread' = [thread EXCEPT ![t] = Idle]
    /\ UNCHANGED <<client, armed, cq, loop, down, tasks, free, fdfs>>

-----------------------------------------------------------------------------
ThreadNext(t) ==
    \/ TakeTask(t) \/ Acquire(t) \/ First(t) \/ Requery(t) \/ Second(t) \/ Update(t)
    \/ Locate(t) \/ Erase(t) \/ Reply(t)

Loop == Submit \/ (LoopNext /\ UNCHANGED <<conns, fdfs>>)

Next ==
    \/ \E r \in Requests : Request(r) \/ ((Leave(r) \/ Grpc(r)) /\ UNCHANGED <<conns, fdfs>>)
    \/ Loop
    \/ \E t \in Threads : ThreadNext(t)

Spec ==
    /\ Init /\ [][Next]_vars /\ WF_vars(Loop)
    /\ \A r \in Requests : WF_vars(Grpc(r) /\ UNCHANGED <<conns, fdfs>>)
    /\ \A t \in Threads : WF_vars(ThreadNext(t))

-----------------------------------------------------------------------------
TypeOK ==
    /\ FrameTypeOK
    /\ tasks \in Seq(Requests) /\ free \in 0..PoolSize
    /\ \A t \in Threads : /\ thread[t].pc \in Holding \cup {"idle", "acquire", "wait", "reply", "thrown"}
                          /\ thread[t].req \in Requests \cup {NoReq}
    /\ blobs \subseteq Ids /\ removed \subseteq Ids /\ fileid \in [Requests -> Ids \cup {NoId}]

\* Every path out of upload and remove gives the connection back, the ones that
\* throw as well: none is ever lost or counted twice.  (acquire, release)
PoolExact == free + Cardinality({t \in Threads : thread[t].pc \in Holding}) = PoolSize

\* A thread replies while the call data of its request is there, and a request
\* is with one task at a time.  (UploadCall, DeleteCall, rpc_finish)
TaskHasCall ==
    /\ \A r \in Requests : rpc[r] # "misused"
    /\ \A t \in Threads : thread[t].pc # "idle" => rpc[Req(t)] = "taken"
    /\ \A t, v \in Threads : Req(t) = Req(v) => t = v \/ Req(t) = NoReq

\* The id a client is answered is one FastDFS has, until somebody deletes it:
\* never the id of an attempt that failed.  (upload)
AnsweredIsStored == \A r \in Requests :
    MethodOf[r] = "upload" /\ Answered(r) => fileid[r] \in blobs \cup removed

\* A request is answered, unless its client leaves or an upload has failed twice.
\* (the work pool, acquire and release, rpc_finish)
AllAnswered == \A r \in Requests : client[r] = "waiting" ~> client[r] # "waiting" \/ down

\* What the contract rests on: the types, call data that are armed and alive when
\* used, and one task for a request.
Consistent == TypeOK /\ AlwaysArmed /\ TaskHasCall
=============================================================================
