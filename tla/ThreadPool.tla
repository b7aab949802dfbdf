------------------------------ MODULE ThreadPool ------------------------------
(***************************************************************************)
(* The thread pool of base/BaseThrdPool.c under ThreadPool, SocketPool and *)
(* WorkPool: creation (and its failure half way), scheduling, growing and  *)
(* shrinking, and destruction by the owner or by one of the pool's own     *)
(* tasks.  Exiting threads do not leave their id anywhere but in pool->tid:*)
(* each joins the one that exited before it, and the destroyer the last.   *)
(*                                                                         *)
(* The message queue is the queue TaskQueue specifies, unbounded because   *)
(* the pool creates it with maxlen 0.  Its put_head, which only            *)
(* thrdpool_decrease calls, may meet a thread in the middle of a swap and  *)
(* spin for ever with put_mutex held (see MsgQueue): the queue is jammed.  *)
(* Unless it is, no critical section of pool->mutex blocks, except in the  *)
(* condition wait, so each is one step.                                    *)
(***************************************************************************)
EXTENDS Naturals, Sequences, FiniteSets

CONSTANTS Workers,      \* the threads pthread_create may hand out, each once
          Tasks,        \* the user tasks, each scheduled at most once
          Owner,        \* the thread that creates the pool
          ExitTask,     \* a queue entry whose routine is __thrdpool_exit_routine
          NoThread,     \* __zero_tid
          InitThreads,  \* the nthreads argument of thrdpool_create
          MaxExits      \* bound: exit entries in the queue at a time

ASSUME PoolAssumption ==
    /\ Owner \notin Workers /\ NoThread \notin Workers /\ ExitTask \notin Tasks
    /\ InitThreads \in Nat \ {0} /\ MaxExits \in Nat

Actors == Workers \cup {Owner}

VARIABLES queue, nonblock,              \* the message queue
          fetched,      \* how many of its messages are on the get list
          nthreads, terminate, tid,     \* struct __thrdpool
          memory,       \* "live", "disposed" (queue and mutex gone), "freed"
          pc,
          joinee,       \* the id an exiting thread took from pool->tid
          task,         \* the task a worker runs
          fate,         \* what became of each task
          joined, detached

vars == <<queue, nonblock, fetched, nthreads, terminate, tid, memory, pc, joinee, task,
          fate, joined, detached>>

poolVars == <<nthreads, terminate, tid, memory>>
threadVars == <<joinee, joined, detached>>

Terminating == {"term_lock", "term_stuck", "term_wait", "term_check", "term_join", "drain"}
Stuck == {"spin", "blocked"}
WorkerPcs == {"new", "loop", "get", "task", "after", "exit", "exit_join", "done"} \cup Stuck
Pcs == WorkerPcs \cup Terminating \cup {"create", "client", "gone"}
Fates == {"new", "queued", "running", "run", "pended"}

Init ==
    /\ queue = <<>> /\ nonblock = FALSE /\ fetched = 0
    /\ nthreads = 0 /\ terminate = FALSE /\ tid = NoThread
    /\ memory = "live"
    /\ pc = [a \in Actors |-> IF a = Owner THEN "create" ELSE "new"]
    /\ joinee = [w \in Workers |-> NoThread]
    /\ task = [w \in Workers |-> ExitTask]
    /\ fate = [k \in Tasks |-> "new"]
    /\ joined = {} /\ detached = {}

-----------------------------------------------------------------------------
(* The message queue as the pool sees it.                                  *)

\* A put_head spins, and the thread it waits for is in a swap: neither lets go.
Jammed == \E a \in Actors : pc[a] = "spin"

\* get takes the first message, after a swap if the get list is empty.
Dequeue ==
    /\ queue # <<>>
    /\ queue' = Tail(queue)
    /\ fetched' = (IF fetched > 0 THEN fetched ELSE Len(queue)) - 1

\* A destroyer that waits for put_mutex in set_nonblock keeps pool->mutex.
PoolMutexFree == \A a \in Actors : pc[a] # "term_stuck"

-----------------------------------------------------------------------------
(* thrdpool_create.                                                        *)

CreateThread ==
    /\ pc[Owner] = "create"
    /\ \E w \in Workers :
          /\ pc[w] = "new"
          /\ pc' = [pc EXCEPT ![w] = "loop",
                              ![Owner] = IF nthreads + 1 < InitThreads
                                         THEN "create" ELSE "client"]
    /\ nthreads' = nthreads + 1
    /\ UNCHANGED <<queue, nonblock, fetched, terminate, tid, memory, task, fate, threadVars>>

\* pthread_create fails: the threads that exist are terminated and joined, then
\* create frees what it allocated (the queue is still empty).
CreateFails ==
    /\ pc[Owner] = "create"
    /\ pc' = [pc EXCEPT ![Owner] = "term_lock"]
    /\ UNCHANGED <<queue, nonblock, fetched, poolVars, task, fate, threadVars>>

-----------------------------------------------------------------------------
(* The calls of a client: the owner until it lets go, and running tasks,   *)
(* even while the pool is being destroyed by somebody else.                *)

MayCall(a) == pc[a] \in {"client", "task"}

Schedule(a) ==
    /\ MayCall(a) /\ ~Jammed
    /\ \E k \in Tasks :
          /\ fate[k] = "new"
          /\ queue' = Append(queue, k)
          /\ fate' = [fate EXCEPT ![k] = "queued"]
    /\ UNCHANGED <<nonblock, fetched, poolVars, pc, task, threadVars>>

Increase(a) ==
    /\ MayCall(a) /\ PoolMutexFree
    /\ \E w \in Workers : pc[w] = "new" /\ pc' = [pc EXCEPT ![w] = "loop"]
    /\ nthreads' = nthreads + 1
    /\ UNCHANGED <<queue, nonblock, fetched, terminate, tid, memory, task, fate, threadVars>>

\* put_head links the exit entry in front: at the get list, under get_mutex, or at
\* the put list if the get list is empty.
Decrease(a) ==
    /\ MayCall(a) /\ ~Jammed
    /\ Cardinality({i \in DOMAIN queue : queue[i] = ExitTask}) < MaxExits
    /\ queue' = <<ExitTask>> \o queue
    /\ fetched' = IF fetched > 0 THEN fetched + 1 ELSE 0
    /\ UNCHANGED <<nonblock, poolVars, pc, task, fate, threadVars>>

\* A worker in get has found the get list empty, points get_head at the put list,
\* where messages wait, and needs put_mutex; put_head holds it, sees a message
\* there and tries get_mutex, which the worker owns, for ever.
DecreaseJams(a) ==
    /\ MayCall(a) /\ ~Jammed
    /\ queue # <<>> /\ fetched = 0
    /\ \E w \in Workers : pc[w] = "get"
    /\ pc' = [pc EXCEPT ![a] = "spin"]
    /\ UNCHANGED <<queue, nonblock, fetched, poolVars, task, fate, threadVars>>

\* Whoever calls a jammed queue waits for ever; a destroyer does in set_nonblock,
\* after the flag is written and with pool->mutex held.
Block(a) ==
    /\ Jammed
    /\ \/ /\ MayCall(a)
          /\ pc' = [pc EXCEPT ![a] = "blocked"]
          /\ UNCHANGED nonblock
       \/ /\ pc[a] = "term_lock"
          /\ pc' = [pc EXCEPT ![a] = "term_stuck"]
          /\ nonblock' = TRUE
    /\ UNCHANGED <<queue, fetched, poolVars, task, fate, threadVars>>

\* thrdpool_exit, which does nothing in a thread that is not the pool's.
ExitFromTask(w) ==
    /\ pc[w] = "task"
    /\ fate' = [fate EXCEPT ![task[w]] = "run"]
    /\ pc' = [pc EXCEPT ![w] = "exit"]
    /\ UNCHANGED <<queue, nonblock, fetched, poolVars, task, threadVars>>

\* The owner stops using the pool and leaves its destruction to a task.
LetGo ==
    /\ pc[Owner] = "client"
    /\ pc' = [pc EXCEPT ![Owner] = "gone"]
    /\ UNCHANGED <<queue, nonblock, fetched, poolVars, task, fate, threadVars>>

Destroy(a) ==
    /\ MayCall(a)
    /\ a # Owner => pc[Owner] = "gone"
    /\ ~terminate /\ \A b \in Actors : pc[b] \notin Terminating
    /\ pc' = [pc EXCEPT ![a] = "term_lock"]
    /\ UNCHANGED <<queue, nonblock, fetched, poolVars, task, fate, threadVars>>

-----------------------------------------------------------------------------
(* __thrdpool_routine and __thrdpool_exit_routine.                         *)

Loop(w) ==
    /\ pc[w] = "loop"
    /\ pc' = [pc EXCEPT ![w] = IF terminate THEN "exit" ELSE "get"]
    /\ UNCHANGED <<queue, nonblock, fetched, poolVars, task, fate, threadVars>>

GetTask(w) ==
    /\ pc[w] = "get" /\ ~Jammed
    /\ Dequeue
    /\ \/ /\ Head(queue) = ExitTask
          /\ pc' = [pc EXCEPT ![w] = "exit"]
          /\ UNCHANGED <<task, fate>>
       \/ /\ Head(queue) # ExitTask
          /\ pc' = [pc EXCEPT ![w] = "task"]
          /\ task' = [task EXCEPT ![w] = Head(queue)]
          /\ fate' = [fate EXCEPT ![Head(queue)] = "running"]
    /\ UNCHANGED <<nonblock, poolVars, threadVars>>

GetNull(w) ==
    /\ pc[w] = "get" /\ ~Jammed
    /\ queue = <<>> /\ nonblock
    /\ pc' = [pc EXCEPT ![w] = "exit"]
    /\ UNCHANGED <<queue, nonblock, fetched, poolVars, task, fate, threadVars>>

FinishTask(w) ==
    /\ pc[w] = "task"
    /\ fate' = [fate EXCEPT ![task[w]] = "run"]
    /\ pc' = [pc EXCEPT ![w] = "after"]
    /\ UNCHANGED <<queue, nonblock, fetched, poolVars, task, threadVars>>

\* No threads left: the task that just ended destroyed the pool.
AfterTask(w) ==
    /\ pc[w] = "after"
    /\ \/ /\ nthreads = 0
          /\ memory' = "freed"
          /\ pc' = [pc EXCEPT ![w] = "done"]
       \/ /\ nthreads # 0
          /\ pc' = [pc EXCEPT ![w] = "loop"]
          /\ UNCHANGED memory
    /\ UNCHANGED <<queue, nonblock, fetched, nthreads, terminate, tid, task, fate, threadVars>>

\* Mutant: an exiting thread takes the pool's id and does not leave its own.
ExitKeepsTid(w) ==
    /\ pc[w] = "exit" /\ PoolMutexFree
    /\ joinee' = [joinee EXCEPT ![w] = tid]
    /\ tid' = IF tid = NoThread THEN w ELSE tid
    /\ nthreads' = nthreads - 1
    /\ pc' = [a \in Actors |->
                 IF a = w THEN "exit_join"
                 ELSE IF pc[a] = "term_wait" /\ nthreads = 1 THEN "term_check"
                 ELSE pc[a]]
    /\ UNCHANGED <<queue, nonblock, fetched, terminate, memory, task, fate, joined, detached>>

\* Swap ids with the pool, count down and wake the destroyer if this was the last.
Exit(w) ==
    /\ pc[w] = "exit" /\ PoolMutexFree
    /\ joinee' = [joinee EXCEPT ![w] = tid]
    /\ tid' = w
    /\ nthreads' = nthreads - 1
    /\ pc' = [a \in Actors |->
                 IF a = w THEN "exit_join"
                 ELSE IF pc[a] = "term_wait" /\ nthreads = 1 THEN "term_check"
                 ELSE pc[a]]
    /\ UNCHANGED <<queue, nonblock, fetched, terminate, memory, task, fate, joined, detached>>

\* Mutant: an exiting thread goes on without pthread_join.
JoinSkipped(u) == TRUE

\* Mutant: the zero id is joined as well.
JoinZeroTid(u) == u \in Workers /\ pc[u] = "done"

Joinable(u) == u # NoThread => pc[u] = "done"
JoinedWith(u) == joined \cup (IF u = NoThread THEN {} ELSE {u})

ExitJoin(w) ==
    /\ pc[w] = "exit_join"
    /\ Joinable(joinee[w])
    /\ joined' = JoinedWith(joinee[w])
    /\ pc' = [pc EXCEPT ![w] = "done"]
    /\ UNCHANGED <<queue, nonblock, fetched, poolVars, task, fate, joinee, detached>>

-----------------------------------------------------------------------------
(* __thrdpool_terminate and the rest of thrdpool_destroy.                  *)

TermLock(a) ==
    /\ pc[a] = "term_lock" /\ ~Jammed
    /\ nonblock' = TRUE /\ terminate' = TRUE
    /\ IF a \in Workers
       THEN nthreads' = nthreads - 1 /\ detached' = detached \cup {a}
       ELSE UNCHANGED <<nthreads, detached>>
    /\ pc' = [pc EXCEPT ![a] = IF nthreads' > 0 THEN "term_wait" ELSE "term_join"]
    /\ UNCHANGED <<queue, fetched, tid, memory, task, fate, joinee, joined>>

\* The condition wait may also return without a signal.
TermSpurious(a) ==
    /\ pc[a] = "term_wait"
    /\ pc' = [pc EXCEPT ![a] = "term_check"]
    /\ UNCHANGED <<queue, nonblock, fetched, poolVars, task, fate, threadVars>>

TermCheck(a) ==
    /\ pc[a] = "term_check"
    /\ pc' = [pc EXCEPT ![a] = IF nthreads > 0 THEN "term_wait" ELSE "term_join"]
    /\ UNCHANGED <<queue, nonblock, fetched, poolVars, task, fate, threadVars>>

TermJoin(a) ==
    /\ pc[a] = "term_join"
    /\ Joinable(tid)
    /\ joined' = JoinedWith(tid)
    /\ pc' = [pc EXCEPT ![a] = "drain"]
    /\ UNCHANGED <<queue, nonblock, fetched, poolVars, task, fate, joinee, detached>>

\* Mutant: entries left in the queue are freed, and nobody is told.
DrainDropsTasks(a) ==
    /\ pc[a] = "drain"
    /\ Dequeue
    /\ UNCHANGED <<nonblock, poolVars, pc, task, fate, threadVars>>

\* Entries left in the queue go to the pending callback, exit entries to nobody.
Drain(a) ==
    /\ pc[a] = "drain"
    /\ Dequeue
    /\ fate' = IF Head(queue) = ExitTask THEN fate
               ELSE [fate EXCEPT ![Head(queue)] = "pended"]
    /\ UNCHANGED <<nonblock, poolVars, pc, task, threadVars>>

\* Destroy the key, the mutex and the queue, and free the pool unless a task
\* of the pool is doing this: its thread still has to read nthreads.
Dispose(a) ==
    /\ pc[a] = "drain"
    /\ queue = <<>>
    /\ IF a \in Workers
       THEN /\ memory' = "disposed"
            /\ pc' = [pc EXCEPT ![a] = "after"]
            /\ fate' = [fate EXCEPT ![task[a]] = "run"]
       ELSE /\ memory' = "freed"
            /\ pc' = [pc EXCEPT ![a] = "gone"]
            /\ UNCHANGED fate
    /\ UNCHANGED <<queue, nonblock, fetched, nthreads, terminate, tid, task, threadVars>>

-----------------------------------------------------------------------------
Calls(a) == Schedule(a) \/ Increase(a) \/ Decrease(a) \/ DecreaseJams(a) \/ Block(a) \/ Destroy(a)

Work(w) == Loop(w) \/ GetTask(w) \/ GetNull(w) \/ FinishTask(w) \/ AfterTask(w)
              \/ Exit(w) \/ ExitJoin(w)

Shutdown(a) == TermLock(a) \/ TermCheck(a) \/ TermJoin(a) \/ Drain(a) \/ Dispose(a)

Next ==
    \/ CreateThread \/ CreateFails \/ LetGo
    \/ \E a \in Actors : Calls(a) \/ Shutdown(a) \/ TermSpurious(a)
    \/ \E w \in Workers : Work(w) \/ ExitFromTask(w)

Spec == Init /\ [][Next]_vars

\* Threads run and every task ends; nobody has to call anything.
FairSpec ==
    /\ Spec
    /\ \A w \in Workers : WF_vars(Work(w))
    /\ \A a \in Actors : WF_vars(Shutdown(a))

-----------------------------------------------------------------------------
(* Properties.                                                             *)

TypeOK ==
    /\ queue \in Seq(Tasks \cup {ExitTask}) /\ nonblock \in BOOLEAN /\ fetched \in Nat
    /\ nthreads \in Nat /\ terminate \in BOOLEAN
    /\ tid \in Workers \cup {NoThread}
    /\ memory \in {"live", "disposed", "freed"}
    /\ pc \in [Actors -> Pcs]
    /\ joinee \in [Workers -> Workers \cup {NoThread}]
    /\ task \in [Workers -> Tasks \cup {ExitTask}]
    /\ fate \in [Tasks -> Fates]
    /\ joined \subseteq Workers /\ detached \subseteq Workers

\* The pool's memory outlives its users: once the queue and the mutex are
\* destroyed every worker has finished, the unlock of its exit routine included,
\* except a task that destroyed the pool, and that one frees the pool last.
NoUseAfterFree ==
    /\ memory # "live" => \A w \in Workers : pc[w] \in {"new", "done", "after"}
    /\ memory = "disposed" => Cardinality({w \in Workers : pc[w] = "after"}) = 1
    /\ memory = "freed" => \A w \in Workers : pc[w] # "after"

\* nthreads counts the running workers, less a task that destroys the pool:
\* both the destroyer's wait and the test after each task rely on it.
CountExact ==
    nthreads = Cardinality({w \in Workers \ detached :
                               pc[w] \notin {"new", "exit_join", "done"}})

\* The ids still to be joined (pool->tid and the ids exiting threads hold) are
\* those of different threads, joined by nobody so far and not detached:
\* no thread is joined twice and none is joined after a detach.
JoinChain ==
    LET pending == {w \in Workers : pc[w] = "exit_join" /\ joinee[w] # NoThread}
        tidPending == tid # NoThread /\ memory = "live"
                        /\ \A a \in Actors : pc[a] # "drain"
    IN  /\ \A v, w \in pending : v # w => joinee[v] # joinee[w]
        /\ \A w \in pending : joinee[w] \notin joined \cup detached
        /\ tidPending => /\ tid \notin joined \cup detached
                         /\ \A w \in pending : joinee[w] # tid

\* After destroy no thread is left unjoined and no task is left behind: each
\* that was scheduled, by whomever and however late, was run or handed to the
\* pending callback ("even if the pool is being destroyed").
NothingLeftBehind ==
    memory # "live" =>
        /\ \A w \in Workers : pc[w] # "new" => w \in joined \cup detached
        /\ \A k \in Tasks : fate[k] \in {"new", "run", "pended"}

\* destroy returns, to the owner or to the task that called it, unless a
\* thrdpool_decrease has jammed the queue.
DestroyReturns == \A a \in Actors : pc[a] = "term_lock" ~> memory # "live" \/ Jammed

\* A queued task is run or handed back, unless thrdpool_decrease and
\* thrdpool_exit have left a pool without threads that nobody destroys, or
\* thrdpool_decrease has jammed the queue.
QueuedServed ==
    \A k \in Tasks :
        fate[k] = "queued" ~> \/ fate[k] \in {"run", "pended"}
                              \/ nthreads = 0 /\ ~terminate
                              \/ Jammed

\* What every other claim rests on: the types, the count of the threads and the
\* chain of joins.
Consistent == TypeOK /\ CountExact /\ JoinChain
=============================================================================
