------------------------------- MODULE DbServer -------------------------------
(***************************************************************************)
(* The database server: the frame of RpcServer, its handlers, and the      *)
(* worker pool of dbimpl that runs their statements.                       *)
(*                                                                         *)
(* An asynchronous handler (login, register, upload, ...) queues its first *)
(* statement and leaves a chain of callbacks with the processor of its     *)
(* class, whose thread polls the futures; a callback replies, or queues    *)
(* the next statement.  A synchronous handler runs on the event loop: it   *)
(* queries through a connection of its own kind, queues a write with       *)
(* nobody waiting for it, and replies.  Workers take statements off one    *)
(* queue and run them, each on its connection.  A connection that is lost  *)
(* is opened again and the statement run again; when that fails for good   *)
(* the process aborts.                                                     *)
(*                                                                         *)
(* Before it serves, the server opens its connections and prepares their   *)
(* statements; if that fails it closes them, the one use of Close: the     *)
(* event loop never returns.                                               *)
(***************************************************************************)
EXTENDS RpcServer, Sequences

CONSTANTS Workers,      \* the asynchronous connections
          Async,        \* the methods of the asynchronous handlers
          MaxChain,     \* bound: the statements of a chain
          MaxLost       \* bound: how often connections are lost

ASSUME DbAssumption == /\ Async \subseteq Methods /\ Workers \subseteq Nat
                       /\ MaxChain \in Nat \ {0} /\ MaxLost \in Nat

VARIABLES queue,      \* the statements to run
          worker,     \* the thread of a connection: what it does, its statement, and how
                      \* often that was carried out and lost its connection
          stopped,    \* _cancelationToken
          handle,     \* whether m_Mysql is open
          shutdown,   \* of the queue
          phase,      \* of the process
          future,     \* of the statement a chain waits for
          cbs,        \* the chains the processor has
          pass,       \* those it has still to look at in this round
          losses      \* how many connections were lost so far

pool == <<queue, worker, stopped, handle, shutdown>>
chain == <<future, cbs, pass>>
vars == <<frame, pool, phase, chain, losses>>

Stmts == Requests \X (1..MaxChain)
NoStmt == <<NoReq, 0>>
IsAsync(r) == MethodOf[r] \in Async
Thread(pc, s) == [pc |-> pc, stmt |-> s, applied |-> 0, lost |-> 0]
At(w, pc, s) == worker' = [worker EXCEPT ![w] = Thread(pc, s)]
Goes(w, pc) == worker' = [worker EXCEPT ![w].pc = pc]

Init ==
    /\ InitFrame
    /\ queue = <<>> /\ shutdown = FALSE /\ phase = "loading"
    /\ worker = [w \in Workers |-> Thread("off", NoStmt)]
    /\ stopped = [w \in Workers |-> FALSE] /\ handle = [w \in Workers |-> FALSE]
    /\ future = [r \in Requests |-> [n |-> 0, ready |-> FALSE]] /\ cbs = {} /\ pass = {}
    /\ losses = 0

-----------------------------------------------------------------------------
(* Opening and closing the pool.                                           *)

OpenConnection(w) ==
    /\ phase = "loading" /\ worker[w].pc = "off" /\ \A v \in Workers : v < w => handle[v]
    /\ handle' = [handle EXCEPT ![w] = TRUE] /\ At(w, "pop", NoStmt)
    /\ UNCHANGED <<frame, queue, stopped, shutdown, phase, chain, losses>>

\* All are open and prepared, or something has failed on the way.
Loaded ==
    /\ phase = "loading"
    /\ \/ phase' = "serving" /\ \A w \in Workers : handle[w]
       \/ phase' = "closing"
    /\ UNCHANGED <<frame, pool, chain, losses>>

Woken == [w \in Workers |-> IF worker[w].pc = "asleep" THEN [worker[w] EXCEPT !.pc = "pop"] ELSE worker[w]]

\* Mutant: Cancel wakes nobody.
StopQuietly(w) ==
    /\ phase = "closing" /\ handle[w] /\ ~stopped[w] /\ \A v \in Workers : v < w => ~handle[v]
    /\ stopped' = [stopped EXCEPT ![w] = TRUE]
    /\ queue' = <<>> /\ shutdown' = TRUE
    /\ UNCHANGED <<frame, worker, handle, phase, chain, losses>>

\* ~DatabaseWorker up to the join: the token, then Cancel, which deletes what
\* is queued and wakes every worker.  The connections go one after the other.
StopWorker(w) ==
    /\ phase = "closing" /\ handle[w] /\ ~stopped[w] /\ \A v \in Workers : v < w => ~handle[v]
    /\ stopped' = [stopped EXCEPT ![w] = TRUE]
    /\ queue' = <<>> /\ shutdown' = TRUE /\ worker' = Woken
    /\ UNCHANGED <<frame, handle, phase, chain, losses>>

\* The join has returned: the handle is closed.
CloseHandle(w) ==
    /\ stopped[w] /\ handle[w] /\ worker[w].pc = "done"
    /\ handle' = [handle EXCEPT ![w] = FALSE]
    /\ UNCHANGED <<frame, queue, worker, stopped, shutdown, phase, chain, losses>>

Closed ==
    /\ phase = "closing" /\ \A w \in Workers : ~handle[w]
    /\ phase' = "closed" /\ down' = TRUE
    /\ UNCHANGED <<rpc, client, status, armed, cq, loop, pool, chain, losses>>

-----------------------------------------------------------------------------
(* The queue and the workers.                                              *)

\* Mutant: nobody is notified.
PushQuietly(s) == queue' = Append(queue, s) /\ UNCHANGED worker

\* Push, under the lock of the queue, with its notify_one.
Push(s) ==
    /\ queue' = Append(queue, s)
    /\ \/ (\A w \in Workers : worker[w].pc # "asleep") /\ UNCHANGED worker
       \/ \E w \in Workers : worker[w].pc = "asleep" /\ At(w, "pop", NoStmt)

WaitAndPop(w) ==
    /\ ~down /\ worker[w].pc = "pop"
    /\ \/ shutdown /\ At(w, "done", NoStmt) /\ UNCHANGED queue
       \/ ~shutdown /\ queue = <<>> /\ At(w, "asleep", NoStmt) /\ UNCHANGED queue
       \/ ~shutdown /\ queue # <<>> /\ At(w, "took", Head(queue)) /\ queue' = Tail(queue)
    /\ UNCHANGED <<frame, stopped, handle, shutdown, phase, chain, losses>>

\* A worker that has been told to stop leaves the statement it has taken.
Begin(w) ==
    /\ ~down /\ worker[w].pc = "took"
    /\ Goes(w, IF stopped[w] THEN "done" ELSE "run")
    /\ UNCHANGED <<frame, queue, stopped, handle, shutdown, phase, chain, losses>>

\* The database carries the statement out, or refuses it (a duplicate key).  An error
\* that only a schema at odds with the statements gives (1054, 1064, 1146) aborts the
\* process; the schema is taken to be theirs.
RunStmt(w) ==
    /\ ~down /\ worker[w].pc = "run"
    /\ \E n \in {0, 1} : worker' = [worker EXCEPT ![w].pc = "deliver", ![w].applied = @ + n]
    /\ UNCHANGED <<frame, queue, stopped, handle, shutdown, phase, chain, losses>>

\* The connection is lost, before or after the statement was carried out.
LoseConnection(w) ==
    /\ ~down /\ worker[w].pc = "run" /\ losses < MaxLost
    /\ \E n \in {0, 1} : worker' = [worker EXCEPT ![w].pc = "reconnect", ![w].applied = @ + n,
                                                ![w].lost = @ + 1]
    /\ losses' = losses + 1
    /\ UNCHANGED <<frame, queue, stopped, handle, shutdown, phase, chain>>

\* _HandleMySQLErrno: five attempts, then abort.
Reconnect(w) ==
    /\ ~down /\ worker[w].pc = "reconnect"
    /\ \/ Goes(w, "run") /\ UNCHANGED down
       \/ down' = TRUE /\ UNCHANGED worker
    /\ UNCHANGED <<rpc, client, status, armed, cq, loop, queue, stopped, handle, shutdown, phase, chain, losses>>

\* set_value, for a statement with a promise, and delete.
Deliver(w) ==
    /\ ~down /\ worker[w].pc = "deliver" /\ At(w, "pop", NoStmt)
    /\ LET r == worker[w].stmt[1] IN
       future' = IF IsAsync(r) THEN [future EXCEPT ![r].ready = TRUE] ELSE future
    /\ UNCHANGED <<frame, queue, stopped, handle, shutdown, phase, cbs, pass, losses>>

WorkerNext(w) == WaitAndPop(w) \/ Begin(w) \/ RunStmt(w) \/ LoseConnection(w) \/ Reconnect(w) \/ Deliver(w)

-----------------------------------------------------------------------------
(* The synchronous handlers, on the event loop.                            *)

\* The reads: they say whether there is something to write; a read may throw.
SyncQuery ==
    /\ LoopAt("handler") /\ ~IsAsync(loop.req)
    /\ \/ \E pc \in {"push", "reply"} : LoopGoes(pc) /\ UNCHANGED <<rpc, client, status, armed, cq, down>>
       \/ Throw
    /\ UNCHANGED <<pool, phase, chain, losses>>

\* Execute: the write is queued, nobody waits for it.  One stands for the
\* writes of a handler.
SyncWrite ==
    /\ LoopAt("push") /\ LoopGoes("reply") /\ Push(<<loop.req, 1>>)
    /\ UNCHANGED <<rpc, client, status, armed, cq, down, stopped, handle, shutdown, phase, chain, losses>>

\* Redis comes last, and may throw as well.
SyncReply ==
    /\ LoopAt("reply")
    /\ \/ LoopGoes("mark") /\ Finish(loop.req) /\ UNCHANGED <<client, armed, cq, down>>
       \/ Throw
    /\ UNCHANGED <<pool, phase, chain, losses>>

-----------------------------------------------------------------------------
(* The asynchronous handlers, and the threads of their processors.         *)

Pending(r, n) == future' = [future EXCEPT ![r] = [n |-> n, ready |-> FALSE]]
NoFuture(r) == future' = [future EXCEPT ![r] = [n |-> 0, ready |-> FALSE]]

\* AsyncQuery: the statement may be done before the chain is handed over.
StartChain ==
    /\ LoopAt("handler") /\ IsAsync(loop.req) /\ LoopGoes("callback")
    /\ Push(<<loop.req, 1>>) /\ Pending(loop.req, 1)
    /\ UNCHANGED <<rpc, client, status, armed, cq, down, stopped, handle, shutdown, phase, cbs, pass, losses>>

\* The mutex of a processor is held while it looks at its callbacks.
Looking(m) == \E r \in pass : MethodOf[r] = m

AddCallback ==
    /\ LoopAt("callback") /\ ~Looking(MethodOf[loop.req]) /\ LoopGoes("mark")
    /\ cbs' = cbs \cup {loop.req}
    /\ UNCHANGED <<rpc, client, status, armed, cq, down, pool, phase, future, pass, losses>>

ProcessReadyCallbacks(m) ==
    /\ ~down /\ ~Looking(m) /\ \E r \in cbs : MethodOf[r] = m
    /\ pass' = pass \cup {r \in cbs : MethodOf[r] = m}
    /\ UNCHANGED <<frame, pool, phase, future, cbs, losses>>

\* Mutant: a callback that has replied goes on to the next statement.
CallbackGoesOn(r) ==
    /\ Finish(r) /\ future[r].n < MaxChain
    /\ Push(<<r, future[r].n + 1>>) /\ Pending(r, future[r].n + 1)
    /\ UNCHANGED cbs

\* A callback replies and ends the chain.
CallbackReplies(r) ==
    /\ Finish(r) /\ NoFuture(r) /\ cbs' = cbs \ {r}
    /\ UNCHANGED <<queue, worker>>

\* A callback sets the next query.
CallbackAsks(r) ==
    /\ future[r].n < MaxChain
    /\ Push(<<r, future[r].n + 1>>) /\ Pending(r, future[r].n + 1)
    /\ UNCHANGED <<rpc, status, cbs>>

\* InvokeIfReady: the future is looked at, without waiting for it.
InvokeIfReady(r) ==
    /\ ~down /\ r \in pass /\ pass' = pass \ {r}
    /\ \/ future[r].ready /\ (CallbackReplies(r) \/ CallbackAsks(r))
       \/ ~future[r].ready /\ UNCHANGED <<rpc, status, queue, worker, future, cbs>>
    /\ UNCHANGED <<client, armed, cq, loop, down, stopped, handle, shutdown, phase, losses>>

-----------------------------------------------------------------------------
Loop ==
    \/ LoopNext /\ UNCHANGED <<pool, phase, chain, losses>>
    \/ SyncQuery \/ SyncWrite \/ SyncReply \/ StartChain \/ AddCallback
PoolNext(w) == OpenConnection(w) \/ StopWorker(w) \/ CloseHandle(w)

Next ==
    \/ \E r \in Requests : \/ /\ phase = "serving" /\ (Send(r) \/ Leave(r) \/ Grpc(r))
                             /\ UNCHANGED <<pool, phase, chain, losses>>
                          \/ InvokeIfReady(r)
    \/ \E m \in Methods : ProcessReadyCallbacks(m)
    \/ \E w \in Workers : PoolNext(w) \/ WorkerNext(w)
    \/ Loaded \/ Closed \/ Loop

\* Every thread goes on, and so does gRPC.
Spec ==
    /\ Init /\ [][Next]_vars
    /\ WF_vars(Loop) /\ WF_vars(Loaded) /\ WF_vars(Closed)
    /\ \A r \in Requests : /\ WF_vars(InvokeIfReady(r))
                          /\ WF_vars(Grpc(r) /\ UNCHANGED <<pool, phase, chain, losses>>)
    /\ \A m \in Methods : WF_vars(ProcessReadyCallbacks(m))
    /\ \A w \in Workers : WF_vars(PoolNext(w)) /\ WF_vars(WorkerNext(w))

-----------------------------------------------------------------------------
TypeOK ==
    /\ FrameTypeOK
    /\ queue \in Seq(Stmts) /\ cbs \subseteq Requests /\ pass \subseteq cbs
    /\ phase \in {"loading", "serving", "closing", "closed"}
    /\ \A w \in Workers : worker[w].stmt \in Stmts \cup {NoStmt}
    /\ \A r \in Requests : future[r].n \in 0..MaxChain
    /\ losses \in 0..MaxLost

\* A reply is given once, while the call data is there, and a chain that still
\* has a callback to call has its call data.  (CallData, the chains of dbapi,
\* InvokeIfReady)
NoUseAfterFree == \A r \in Requests :
    /\ rpc[r] # "misused"
    /\ r \in cbs \/ future[r].n > 0 => rpc[r] = "taken"

\* A future that is not ready has its statement in the queue or with a worker:
\* a chain never waits for a statement nobody will run.  (AsyncQuery, Push,
\* WaitAndPop, WorkerThread, PreparedStatementTask)
InHand(s) == \/ \E i \in 1..Len(queue) : queue[i] = s
             \/ \E w \in Workers : worker[w].stmt = s
FutureKept == \A r \in Requests :
    future[r].n > 0 /\ ~future[r].ready => InHand(<<r, future[r].n>>)

\* A statement is carried out again only for each time its connection was lost:
\* in that case it may be carried out twice.  (MySQLConnection::Execute, _Query,
\* _HandleMySQLErrno)
AppliedOnce == \A w \in Workers : worker[w].applied <= 1 + worker[w].lost

\* The thread of a connection has ended before its handle is closed.
\* (MySQLConnection::Close, ~DatabaseWorker)
WorkerStopsFirst == \A w \in Workers : worker[w].pc \notin {"off", "done"} => handle[w]

\* A request is answered, unless its client leaves, its handler throws, or the
\* server gives the database up.
Answered == \A r \in Requests :
    client[r] = "waiting" ~> client[r] # "waiting" \/ rpc[r] = "dropped" \/ down

\* Closing the pool ends: every worker wakes up and is joined.
\* (DatabaseWorkerPool::Close, ProducerConsumerQueue::Cancel)
CloseEnds == phase = "closing" ~> phase = "closed"

\* What the contract rests on: the types, call data that are armed and alive when
\* used, statements in hand and applied once, and workers that stop in time.
Consistent ==
    /\ TypeOK /\ AlwaysArmed /\ NoUseAfterFree
    /\ FutureKept /\ AppliedOnce /\ WorkerStopsFirst
=============================================================================
