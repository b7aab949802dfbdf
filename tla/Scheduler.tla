------------------------------- MODULE Scheduler -------------------------------
(***************************************************************************)
(* The life of a request handler: a coroutine that an epoll thread starts  *)
(* (CoroutineScheduler::schedule), that waits for RPCs and is resumed by   *)
(* WorkPool threads (GrpcClient), and that hands itself, at its final      *)
(* suspension, to the scheduler thread through a multi-producer single-    *)
(* consumer linked queue (MPSCqueue.h).  The scheduler thread has a worker *)
(* run the completion callback, and the last to let go of the Notify (the  *)
(* worker, the scheduler thread, or schedule itself) destroys the frame.   *)
(*                                                                         *)
(* The coroutine enqueues itself from inside final_suspend, so done() may  *)
(* be asked of it before it is suspended.  That is undefined, and builds   *)
(* differ: some mark a coroutine as done before final_suspend runs, others *)
(* when it suspends.  early says which build this is.                      *)
(*                                                                         *)
(* A step is one atomic operation of the queue, or one lock, wait or       *)
(* notify.  A coroutine is enqueued at most once, so its queue node goes   *)
(* by its own name.  Stub is the node the queue is created with.           *)
(***************************************************************************)
EXTENDS Naturals, Sequences, SequencesExt, FiniteSets

CONSTANTS Coros,        \* the coroutines
          Stub, Null,   \* the first node, and no node
          Loop,         \* the scheduler thread, as a reader of the queue
          MaxRpcs,      \* bound: the RPCs each handler awaits
          TryAgain      \* try_again_times

ASSUME SchedulerAssumption ==
    /\ Stub \notin Coros /\ Null \notin Coros \cup {Stub} /\ Loop \notin Coros
    /\ MaxRpcs \in [Coros -> Nat] /\ TryAgain \in Nat

Nodes == Coros \cup {Stub}

VARIABLES pc, rpcs,             \* of a coroutine: where it is, RPCs it has made
          holders,              \* the coroutines in holders_
          held,                 \* those whose schedule has not returned: it holds the Notify
          head, tail, next,     \* _head, _tail and Next of each node
          prev,                 \* the node an Enqueue has taken from _head
          freed,                \* the nodes Dequeue has deleted
          loop, cur, tries,     \* of run_loop: its statement, nb, and retries
          frame,                \* of a coroutine: its frame's life
          early                 \* the build: done() holds before final_suspend runs

queueVars == <<head, tail, next, prev, freed>>
loopVars == <<loop, cur, tries>>
vars == <<pc, rpcs, holders, held, head, tail, next, prev, freed, loop, cur, tries, frame, early>>

Pcs == {"new", "running", "rpc", "ready", "failed", "finish", "exchange", "link",
        "notify", "suspend", "done"}
LoopPcs == {"check", "park", "wait", "drain", "try", "drop"}
Frames == {"none", "live", "callback", "released", "destroyed", "leaked"}

Init ==
    /\ pc = [c \in Coros |-> "new"] /\ rpcs = [c \in Coros |-> 0]
    /\ holders = {} /\ held = {} /\ early \in BOOLEAN
    /\ head = Stub /\ tail = Stub /\ next = [n \in Nodes |-> Null]
    /\ prev = [c \in Coros |-> Null] /\ freed = {}
    /\ loop = "check" /\ cur = Null /\ tries = 0
    /\ frame = [c \in Coros |-> "none"]

Move(c, from, to) == pc[c] = from /\ pc' = [pc EXCEPT ![c] = to]

InFinalSuspend == {"finish", "exchange", "link", "notify", "suspend"}

\* What done() of the handle says.
Done(c) == pc[c] = "done" \/ (early /\ pc[c] \in InFinalSuspend)

\* Mutant: ~RpcTask destroys the frame whether or not the coroutine is done.
GivenUpAlways(c) == IF c \in held THEN "released" ELSE "destroyed"

\* The Notify is let go: the last holder's ~RpcTask destroys a frame that is done.
GivenUp(c) == IF c \in held THEN "released" ELSE IF Done(c) THEN "destroyed" ELSE "leaked"

-----------------------------------------------------------------------------
(* The coroutine, up to its end.                                           *)

Schedule(c) ==
    /\ Move(c, "new", "running")
    /\ holders' = holders \cup {c} /\ held' = held \cup {c}
    /\ frame' = [frame EXCEPT ![c] = "live"]
    /\ UNCHANGED <<rpcs, queueVars, loopVars, early>>

\* The thread that started the coroutine has left it, at an await or at its end.
ScheduleReturns(c) ==
    /\ c \in held
    /\ rpcs[c] > 0 \/ pc[c] = "done"
    /\ held' = held \ {c}
    /\ frame' = IF frame[c] # "released" THEN frame
                ELSE [frame EXCEPT ![c] = IF Done(c) THEN "destroyed" ELSE "leaked"]
    /\ UNCHANGED <<pc, rpcs, holders, queueVars, loopVars, early>>

\* co_await: await_suspend starts the RPC and the thread leaves the coroutine.
Await(c) ==
    /\ rpcs[c] < MaxRpcs[c]
    /\ Move(c, "running", "rpc")
    /\ rpcs' = [rpcs EXCEPT ![c] = @ + 1]
    /\ UNCHANGED <<holders, held, queueVars, loopVars, frame, early>>

\* OnComplete with a reply has a worker resume the coroutine ...
Reply(c) ==
    /\ Move(c, "rpc", "ready")
    /\ UNCHANGED <<rpcs, holders, held, queueVars, loopVars, frame, early>>

\* ... and without one it prints a message.
RpcFails(c) ==
    /\ Move(c, "rpc", "failed")
    /\ UNCHANGED <<rpcs, holders, held, queueVars, loopVars, frame, early>>

Resume(c) ==
    /\ Move(c, "ready", "running")
    /\ UNCHANGED <<rpcs, holders, held, queueVars, loopVars, frame, early>>

Return(c) ==
    /\ Move(c, "running", "finish")
    /\ UNCHANGED <<rpcs, holders, held, queueVars, loopVars, frame, early>>

-----------------------------------------------------------------------------
(* CoroutineScheduler::finish, in final_suspend.                           *)

Finish(c) ==
    /\ c \in holders
    /\ Move(c, "finish", "exchange")
    /\ holders' = holders \ {c}
    /\ UNCHANGED <<rpcs, held, queueVars, loopVars, frame, early>>

Exchange(c) ==
    /\ Move(c, "exchange", "link")
    /\ prev' = [prev EXCEPT ![c] = head]
    /\ head' = c
    /\ UNCHANGED <<rpcs, holders, held, tail, next, freed, loopVars, frame, early>>

\* Until this store the queue is cut: nodes behind this one cannot be reached.
Link(c) ==
    /\ Move(c, "link", "notify")
    /\ next' = [next EXCEPT ![prev[c]] = c]
    /\ UNCHANGED <<rpcs, holders, held, head, tail, prev, freed, loopVars, frame, early>>

\* notify_one, without the mutex of the condition.
NotifyOne(c) ==
    /\ Move(c, "notify", "suspend")
    /\ loop' = IF loop = "wait" THEN "check" ELSE loop
    /\ UNCHANGED <<rpcs, holders, held, queueVars, cur, tries, frame, early>>

\* The thread leaves the frame; in every build done() holds now.
Suspend(c) ==
    /\ Move(c, "suspend", "done")
    /\ UNCHANGED <<rpcs, holders, held, queueVars, loopVars, frame, early>>

\* The worker that has run the callback releases the Notify.
RunCallback(c) ==
    /\ frame[c] = "callback"
    /\ frame' = [frame EXCEPT ![c] = GivenUp(c)]
    /\ UNCHANGED <<pc, rpcs, holders, held, queueVars, loopVars, early>>

-----------------------------------------------------------------------------
(* run_loop.                                                               *)

\* The predicate of the wait; the mutex is held, but finish does not take it.
Check ==
    /\ loop = "check"
    /\ loop' = IF next[tail] = Null THEN "park" ELSE "drain"
    /\ UNCHANGED <<pc, rpcs, holders, held, queueVars, cur, tries, frame, early>>

Park ==
    /\ loop = "park"
    /\ loop' = "wait"
    /\ UNCHANGED <<pc, rpcs, holders, held, queueVars, cur, tries, frame, early>>

Spurious ==
    /\ loop = "wait"
    /\ loop' = "check"
    /\ UNCHANGED <<pc, rpcs, holders, held, queueVars, cur, tries, frame, early>>

\* Mutant: Dequeue deletes the node it takes the data from.
DequeueFreesNext ==
    /\ loop = "drain"
    /\ \/ /\ next[tail] = Null
          /\ loop' = "check"
          /\ UNCHANGED <<tail, freed, cur, tries>>
       \/ /\ next[tail] # Null
          /\ cur' = next[tail] /\ tries' = 0
          /\ tail' = next[tail] /\ freed' = freed \cup {next[tail]}
          /\ loop' = "try"
    /\ UNCHANGED <<pc, rpcs, holders, held, head, next, prev, frame, early>>

\* Mutant: Dequeue forgets to move _tail.
DequeueKeepsTail ==
    /\ loop = "drain"
    /\ \/ /\ next[tail] = Null
          /\ loop' = "check"
          /\ UNCHANGED <<tail, freed, cur, tries>>
       \/ /\ next[tail] # Null
          /\ cur' = next[tail] /\ tries' = 0
          /\ loop' = "try"
          /\ UNCHANGED <<tail, freed>>
    /\ UNCHANGED <<pc, rpcs, holders, held, head, next, prev, frame, early>>

Dequeue ==
    /\ loop = "drain"
    /\ \/ /\ next[tail] = Null
          /\ loop' = "check"
          /\ UNCHANGED <<tail, freed, cur, tries>>
       \/ /\ next[tail] # Null
          /\ cur' = next[tail] /\ tries' = 0
          /\ tail' = next[tail] /\ freed' = freed \cup {tail}
          /\ loop' = "try"
    /\ UNCHANGED <<pc, rpcs, holders, held, head, next, prev, frame, early>>

\* try_notify, which asks is_ready, at most 1 + TryAgain times.
TryNotify ==
    /\ loop = "try"
    /\ \/ /\ Done(cur)
          /\ frame' = [frame EXCEPT ![cur] = "callback"]
          /\ loop' = "drain" /\ cur' = Null
          /\ UNCHANGED tries
       \/ /\ ~Done(cur)
          /\ \/ tries < TryAgain /\ tries' = tries + 1 /\ UNCHANGED loop
             \/ tries = TryAgain /\ loop' = "drop" /\ UNCHANGED tries
          /\ UNCHANGED <<frame, cur>>
    /\ UNCHANGED <<pc, rpcs, holders, held, queueVars, early>>

\* The Notify is overwritten, or goes with the drained loop.
Drop ==
    /\ loop = "drop"
    /\ frame' = [frame EXCEPT ![cur] = GivenUp(cur)]
    /\ loop' = "drain" /\ cur' = Null
    /\ UNCHANGED <<pc, rpcs, holders, held, queueVars, tries, early>>

-----------------------------------------------------------------------------
Run(c) == \/ Await(c) \/ Reply(c) \/ RpcFails(c) \/ Resume(c) \/ Return(c)
          \/ Finish(c) \/ Exchange(c) \/ Link(c) \/ NotifyOne(c) \/ Suspend(c)

RunLoop == Check \/ Park \/ Dequeue \/ TryNotify \/ Drop

Next == \/ \E c \in Coros : Schedule(c) \/ ScheduleReturns(c) \/ Run(c) \/ RunCallback(c)
        \/ RunLoop \/ Spurious

Spec == Init /\ [][Next]_vars

\* Threads run and every RPC ends; a condition wait need not wake up by itself.
FairSpec ==
    /\ Spec
    /\ \A c \in Coros :
          WF_vars(Run(c)) /\ WF_vars(RunCallback(c)) /\ WF_vars(ScheduleReturns(c))
    /\ WF_vars(RunLoop)

-----------------------------------------------------------------------------
(* Properties.                                                             *)

TypeOK ==
    /\ pc \in [Coros -> Pcs] /\ rpcs \in [Coros -> Nat] /\ \A c \in Coros : rpcs[c] <= MaxRpcs[c]
    /\ holders \subseteq Coros /\ held \subseteq Coros /\ early \in BOOLEAN
    /\ head \in Nodes /\ tail \in Nodes /\ next \in [Nodes -> Coros \cup {Null}]
    /\ prev \in [Coros -> Nodes \cup {Null}] /\ freed \subseteq Nodes
    /\ loop \in LoopPcs /\ cur \in Coros \cup {Null} /\ tries \in 0 .. TryAgain
    /\ frame \in [Coros -> Frames]

\* No thread touches a deleted node: not the producer that still has to link
\* its node to the one before, not the reader, not the next producer.
NodeSafe ==
    /\ head \notin freed /\ tail \notin freed
    /\ \A c \in Coros : pc[c] = "link" => prev[c] \notin freed

\* The nodes that are in the queue, those whose link is still missing included.
Unread == {c \in Coros : /\ pc[c] \in {"link", "notify", "suspend", "done"}
                         /\ c \notin freed \cup {tail}}

\* When a frame is destroyed nobody can reach it any more: neither the map, nor the
\* queue, nor the scheduler thread, nor schedule holds its Notify, and its coroutine
\* has returned.  The thread that ran it has left the frame, too, with one exception:
\* where the build calls a coroutine done before its final_suspend has run, and another
\* thread than schedule's ran it to the end, that thread may still be on its way out.
FrameSafe ==
    \A c \in Coros :
        /\ cur = c => frame[c] = "live"
        /\ frame[c] = "destroyed" =>
              /\ c \notin holders \cup Unread \cup held
              /\ \/ pc[c] = "done"
                 \/ early /\ rpcs[c] > 0 /\ pc[c] \in {"notify", "suspend"}

\* Each node was exchanged in behind the one before, and the first behind the tail.
Follows(q) == \A i \in DOMAIN q : prev[q[i]] = IF i = 1 THEN tail ELSE q[i - 1]

Queued == CHOOSE q \in [1 .. Cardinality(Unread) -> Unread] : Follows(q)

Abstract == INSTANCE TaskQueue WITH
    Threads <- Coros \cup {Loop}, Msgs <- Coros, HeadThreads <- {}, NoMsg <- Null,
    queue <- Queued,
    offered <- [t \in Coros \cup {Loop} |->
                   IF t \in Coros /\ pc[t] = "exchange" THEN t ELSE Null],
    received <- [t \in Coros \cup {Loop} |-> IF t = Loop THEN cur ELSE Null]

\* Although a node is linked after it is in the queue, and a reader may find the
\* queue cut, finished coroutines reach the scheduler once each and in order.
ImplementsTaskQueue == Abstract!Spec

\* The frame of a finished coroutine is given up, although the queue may be cut
\* behind it and the scheduler may look too early: only a scheduler that sleeps,
\* having missed the notification, leaves it where it is.  (finish, run_loop)
FrameReleased ==
    \A c \in Coros : pc[c] = "done" ~> frame[c] \in {"destroyed", "leaked"} \/ loop = "wait"

\* What the other claims rest on: the types, that no deleted node is touched, and that
\* a finished coroutine is in the queue or with the scheduler thread, and once.
Consistent == TypeOK /\ NodeSafe /\ Abstract!OnePlace
=============================================================================
