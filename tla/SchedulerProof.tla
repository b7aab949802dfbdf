---------------------------- MODULE SchedulerProof ----------------------------
(***************************************************************************)
(* The scheduler's queue, for any coroutines: no node is touched after its *)
(* deletion, and a frame that is destroyed can be reached by nobody, nor   *)
(* is any thread in it but one that is on its way out of final_suspend.    *)
(***************************************************************************)
EXTENDS Scheduler, FiniteSetTheorems, WellFoundedInduction, SequenceTheorems, TLAPS

Linked == {c \in Coros : pc[c] \in {"notify", "suspend", "done"}}
Cut == {c \in Coros : pc[c] = "link"}
Entered == Linked \cup Cut \cup {Stub}
Passed == freed \cup {tail}

\* The nodes that have entered form one line from Stub to the head: of each, prev
\* is another, no two have the same, and nobody has entered behind the head.
LineInv ==
    /\ head \in Entered
    /\ \A c \in Entered \ {Stub} : prev[c] \in Entered /\ prev[c] # c /\ prev[c] # head
    /\ \A c, d \in Entered \ {Stub} : prev[c] = prev[d] => c = d

\* A node's Next is set once the node behind it has been linked.
NextInv ==
    /\ \A n \in Nodes : next[n] # Null => next[n] \in Linked /\ prev[next[n]] = n
    /\ \A c \in Linked : next[prev[c]] = c

\* The reader has passed over linked nodes only, in the order of the line: what
\* comes before a node it has passed is deleted, and what comes behind a deleted
\* node has been passed.
PassInv ==
    /\ Passed \subseteq Linked \cup {Stub} /\ tail \notin freed
    /\ \A c \in Passed \ {Stub} : prev[c] \in freed
    /\ \A c \in Entered \ {Stub} : prev[c] \in freed => c \in Passed

\* A frame is there from the start, and given up after its node was passed.
FrameInv ==
    /\ \A c \in Coros : frame[c] = "none" <=> pc[c] = "new"
    /\ \A c \in Coros : frame[c] \notin {"none", "live"} => c \in Passed /\ cur # c
    /\ cur # Null => cur = tail
    /\ (cur # Null) = (loop \in {"try", "drop"})

\* Who holds a Notify: the map until finish, and schedule until the coroutine has
\* awaited something or ended; a frame is destroyed by the last, and when it is done.
HoldInv ==
    /\ \A c \in holders : pc[c] \notin {"exchange", "link", "notify", "suspend", "done"}
    /\ \A c \in Coros : c \notin held => rpcs[c] > 0 \/ pc[c] \in {"new", "done"}
    /\ \A c \in Coros : frame[c] = "destroyed" => c \notin held /\ Done(c)

IInv ==
    /\ TypeOK /\ NodeSafe /\ HoldInv
    /\ LineInv /\ NextInv /\ PassInv /\ FrameInv

USE SchedulerAssumption

LEMMA InitInv == Init => IInv
<1> SUFFICES ASSUME Init PROVE IInv
  OBVIOUS
<1>1. Linked = {} /\ Cut = {} /\ Entered = {Stub} /\ Passed = {Stub}
  BY DEF Init, Linked, Cut, Entered, Passed
<1>2. TypeOK
  BY DEF Init, TypeOK, Pcs, LoopPcs, Frames, Nodes
<1>3. NodeSafe /\ HoldInv /\ FrameInv
  BY DEF Init, NodeSafe, HoldInv, FrameInv
<1>4. LineInv /\ NextInv /\ PassInv
  BY <1>1 DEF Init, LineInv, NextInv, PassInv
<1> QED
  BY <1>2, <1>3, <1>4 DEF IInv

-----------------------------------------------------------------------------
(* What most steps leave alone.                                            *)

\* Neither the nodes that have entered nor the queue's variables change.
LEMMA QueueSame ==
    ASSUME IInv, UNCHANGED <<head, tail, next, prev, freed>>, Linked' = Linked, Cut' = Cut
    PROVE  NodeSafe' /\ LineInv' /\ NextInv' /\ PassInv'
<1>1. Entered' = Entered /\ Passed' = Passed
  BY DEF Entered, Passed
<1>2. NodeSafe'
  BY DEF IInv, NodeSafe, Cut
<1> QED
  BY <1>1, <1>2 DEF IInv, LineInv, NextInv, PassInv

\* A coroutine goes on, outside Enqueue, and the scheduler thread does not.
LEMMA CoroMove ==
    ASSUME IInv, NEW c \in Coros, NEW from \in Pcs, NEW to \in Pcs, Move(c, from, to),
           from \notin {"new", "link", "done"}, to \notin {"new", "link"},
           (from \in {"notify", "suspend"}) = (to \in {"notify", "suspend", "done"}),
           UNCHANGED <<head, tail, next, prev, freed, cur, frame>>,
           (loop' \in {"try", "drop"}) = (loop \in {"try", "drop"})
    PROVE  /\ NodeSafe' /\ LineInv' /\ NextInv' /\ PassInv' /\ FrameInv'
           /\ pc' \in [Coros -> Pcs]
<1> USE DEF IInv
<1>1. /\ pc[c] = from /\ pc'[c] = to /\ (\A d \in Coros \ {c} : pc'[d] = pc[d])
      /\ pc' \in [Coros -> Pcs]
  BY DEF Move, TypeOK
<1>2. Linked' = Linked /\ Cut' = Cut
  BY <1>1 DEF Linked, Cut
<1>3. NodeSafe' /\ LineInv' /\ NextInv' /\ PassInv'
  BY <1>2, QueueSame
<1>5. FrameInv'
  <2>1. Passed' = Passed
    BY DEF Passed
  <2>2. \A d \in Coros : (pc'[d] = "new") = (pc[d] = "new")
    BY <1>1
  <2>3. (cur' # Null) = (loop' \in {"try", "drop"})
    BY DEF FrameInv
  <2> QED
    BY <2>1, <2>2, <2>3 DEF FrameInv
<1> QED
  BY <1>1, <1>3, <1>5

\* A coroutine goes on, and what the Notify's holders know of it stays true.
LEMMA HoldMove ==
    ASSUME IInv, NEW c \in Coros, NEW from \in Pcs, NEW to \in Pcs, Move(c, from, to),
           from \notin {"new", "done"}, to # "new",
           from \in InFinalSuspend => to \in InFinalSuspend \cup {"done"},
           holders' \subseteq holders,
           to \in {"exchange", "link", "notify", "suspend", "done"} => c \notin holders',
           \A d \in Coros : rpcs[d] > 0 => rpcs'[d] > 0,
           UNCHANGED <<held, frame, early>>
    PROVE  HoldInv'
<1>1. pc[c] = from /\ pc'[c] = to /\ \A d \in Coros \ {c} : pc'[d] = pc[d]
  BY DEF Move, IInv, TypeOK
<1>2. \A d \in Coros : Done(d) => Done(d)'
  BY <1>1 DEF Done
<1>3. \A d \in holders' : pc'[d] \notin {"exchange", "link", "notify", "suspend", "done"}
  BY <1>1 DEF IInv, HoldInv, TypeOK
<1>4. \A d \in Coros : d \notin held => rpcs'[d] > 0 \/ pc'[d] \in {"new", "done"}
  BY <1>1 DEF IInv, HoldInv
<1> QED
  BY <1>2, <1>3, <1>4 DEF IInv, HoldInv

LEMMA ScheduleStep == ASSUME IInv, NEW c \in Coros, Schedule(c) PROVE IInv'
<1> USE DEF IInv
<1>1. /\ pc[c] = "new" /\ pc'[c] = "running" /\ (\A d \in Coros \ {c} : pc'[d] = pc[d])
      /\ pc' \in [Coros -> Pcs]
      /\ frame'[c] = "live" /\ (\A d \in Coros \ {c} : frame'[d] = frame[d])
      /\ frame' \in [Coros -> Frames]
      /\ holders' = holders \cup {c} /\ held' = held \cup {c}
      /\ UNCHANGED <<rpcs, queueVars, loopVars, early>>
  BY DEF Schedule, Move, TypeOK, Pcs, Frames
<1>2. Linked' = Linked /\ Cut' = Cut
  BY <1>1 DEF Linked, Cut
<1>3. NodeSafe' /\ LineInv' /\ NextInv' /\ PassInv'
  BY <1>1, <1>2, QueueSame DEF queueVars
<1>4. TypeOK'
  BY <1>1 DEF TypeOK, queueVars, loopVars
<1>5. HoldInv'
  <2>1. \A d \in holders' : pc'[d] \notin {"exchange", "link", "notify", "suspend", "done"}
    BY <1>1 DEF HoldInv, TypeOK
  <2>2. \A d \in Coros : d \notin held' => rpcs'[d] > 0 \/ pc'[d] \in {"new", "done"}
    BY <1>1 DEF HoldInv
  <2>3. \A d \in Coros : frame'[d] = "destroyed" => d \notin held' /\ Done(d)'
    <3> SUFFICES ASSUME NEW d \in Coros, frame'[d] = "destroyed"
                 PROVE  d \notin held' /\ Done(d)'
      OBVIOUS
    <3>1. d # c /\ pc'[d] = pc[d] /\ frame[d] = "destroyed"
      BY <1>1
    <3> QED
      BY <1>1, <3>1 DEF HoldInv, Done
  <2> QED
    BY <2>1, <2>2, <2>3 DEF HoldInv
<1>6. FrameInv'
  BY <1>1 DEF FrameInv, Passed, queueVars, loopVars
<1> QED
  BY <1>3, <1>4, <1>5, <1>6

\* The steps of a coroutine outside Enqueue.
LEMMA OtherSteps ==
    ASSUME IInv, NEW c \in Coros,
           \/ Await(c) \/ Reply(c) \/ RpcFails(c) \/ Resume(c) \/ Return(c)
           \/ Finish(c) \/ NotifyOne(c) \/ Suspend(c)
    PROVE  IInv'
<1> USE DEF IInv
<1>1. PICK from \in Pcs, to \in Pcs :
        /\ Move(c, from, to)
        /\ from \notin {"new", "link", "done"} /\ to \notin {"new", "link"}
        /\ (from \in {"notify", "suspend"}) = (to \in {"notify", "suspend", "done"})
        /\ from \in InFinalSuspend => to \in InFinalSuspend \cup {"done"}
        /\ from = "finish" => holders' = holders \ {c}
        /\ to \in {"exchange", "link", "notify", "suspend", "done"} => from \in InFinalSuspend
  BY DEF Await, Reply, RpcFails, Resume, Return, Finish, NotifyOne, Suspend, Pcs, InFinalSuspend
<1>2. /\ UNCHANGED <<queueVars, cur, tries, frame, held, early>>
      /\ rpcs' = rpcs \/ (rpcs[c] < MaxRpcs[c] /\ rpcs' = [rpcs EXCEPT ![c] = @ + 1])
      /\ holders' \subseteq holders
      /\ (loop' \in {"try", "drop"}) = (loop \in {"try", "drop"})
      /\ loop' \in LoopPcs
  BY DEF Await, Reply, RpcFails, Resume, Return, Finish, NotifyOne, Suspend, loopVars, TypeOK, LoopPcs
<1>3. /\ NodeSafe' /\ LineInv' /\ NextInv' /\ PassInv' /\ FrameInv'
      /\ pc' \in [Coros -> Pcs]
  BY <1>1, <1>2, CoroMove DEF queueVars
<1>4. /\ rpcs' \in [Coros -> Nat] /\ \A d \in Coros : rpcs'[d] <= MaxRpcs[d]
      /\ \A d \in Coros : rpcs[d] > 0 => rpcs'[d] > 0
  BY <1>2 DEF TypeOK
<1>5. TypeOK'
  BY <1>2, <1>3, <1>4 DEF TypeOK, queueVars
<1>6. HoldInv'
  <2>1. to \in {"exchange", "link", "notify", "suspend", "done"} => c \notin holders'
    BY <1>1, <1>2 DEF HoldInv, InFinalSuspend, Move
  <2> QED
    BY <1>1, <1>2, <1>4, <2>1, HoldMove
<1> QED
  BY <1>3, <1>5, <1>6

\* schedule lets its Notify go: its thread has left the coroutine.
LEMMA ReturnsStep == ASSUME IInv, NEW c \in Coros, ScheduleReturns(c) PROVE IInv'
<1> USE DEF IInv
<1>1. /\ c \in held /\ held' = held \ {c} /\ (rpcs[c] > 0 \/ pc[c] = "done")
      /\ UNCHANGED <<pc, rpcs, holders, queueVars, loopVars, early>>
  BY DEF ScheduleReturns
<1>2. PICK f \in {frame[c], "destroyed", "leaked"} :
        /\ f # frame[c] => frame[c] = "released"
        /\ f = "destroyed" => Done(c)
        /\ frame'[c] = f /\ (\A d \in Coros \ {c} : frame'[d] = frame[d]) /\ frame' \in [Coros -> Frames]
  <2>1. frame[c] # "destroyed"
    BY <1>1 DEF HoldInv
  <2>2. CASE frame[c] # "released"
    BY <2>1, <2>2 DEF ScheduleReturns, TypeOK
  <2>3. CASE frame[c] = "released"
    <3>1. frame' = [frame EXCEPT ![c] = IF Done(c) THEN "destroyed" ELSE "leaked"]
      BY <2>3 DEF ScheduleReturns
    <3> QED
      BY <2>3, <3>1 DEF TypeOK, Frames
  <2> QED
    BY <2>2, <2>3
<1>3. Linked' = Linked /\ Cut' = Cut
  BY <1>1 DEF Linked, Cut
<1>4. NodeSafe' /\ LineInv' /\ NextInv' /\ PassInv'
  BY <1>1, <1>3, QueueSame DEF queueVars
<1>5. TypeOK'
  BY <1>1, <1>2 DEF TypeOK, queueVars, loopVars
<1>6. HoldInv'
  BY <1>1, <1>2 DEF HoldInv, Done
<1>7. FrameInv'
  BY <1>1, <1>2 DEF FrameInv, Passed, queueVars, loopVars
<1> QED
  BY <1>4, <1>5, <1>6, <1>7

-----------------------------------------------------------------------------
(* Enqueue.                                                                *)

LEMMA ExchangeStep == ASSUME IInv, NEW c \in Coros, Exchange(c) PROVE IInv'
<1> USE DEF IInv
<1>1. /\ pc[c] = "exchange" /\ pc'[c] = "link" /\ (\A d \in Coros \ {c} : pc'[d] = pc[d])
      /\ pc' \in [Coros -> Pcs]
      /\ prev'[c] = head /\ (\A d \in Coros \ {c} : prev'[d] = prev[d])
      /\ prev' \in [Coros -> Nodes \cup {Null}]
      /\ head' = c /\ c \in Nodes
      /\ UNCHANGED <<rpcs, holders, held, tail, next, freed, loopVars, frame, early>>
  BY DEF Exchange, Move, TypeOK, Pcs, Nodes
<1>2. Linked' = Linked /\ Cut' = Cut \cup {c} /\ Entered' = Entered \cup {c} /\ Passed' = Passed
  BY <1>1 DEF Linked, Cut, Entered, Passed
<1>3. c \notin Entered /\ c \notin Linked /\ c \notin Passed /\ c \in Entered' /\ c # Stub
  BY <1>1 DEF Linked, Cut, Entered, PassInv
<1>4. \A d \in Entered \ {Stub} : d \in Coros /\ d # c /\ prev'[d] = prev[d]
  BY <1>1, <1>3 DEF Entered, Linked, Cut
<1>5. TypeOK'
  BY <1>1 DEF TypeOK, loopVars
<1>6. NodeSafe'
  <2>1. c \notin freed /\ head \notin freed
    BY <1>3 DEF Passed, NodeSafe
  <2> QED
    BY <1>1, <2>1 DEF NodeSafe
<1>7. LineInv'
  <2>1. \A d \in Entered' \ {Stub} : prev'[d] \in Entered /\ prev'[d] # d
    BY <1>1, <1>2, <1>3, <1>4 DEF LineInv
  <2>2. \A d, e \in Entered' \ {Stub} : prev'[d] = prev'[e] => d = e
    BY <1>1, <1>2, <1>3, <1>4 DEF LineInv
  <2> QED
    BY <1>1, <1>2, <1>3, <2>1, <2>2 DEF LineInv
<1>8. NextInv'
  <2>1. \A d \in Linked : prev'[d] = prev[d]
    BY <1>1, <1>3 DEF Linked
  <2> QED
    BY <1>1, <1>2, <2>1 DEF NextInv
<1>9. PassInv'
  <2>1. head \notin freed
    BY DEF NodeSafe
  <2>2. \A d \in Passed \ {Stub} : prev'[d] = prev[d]
    BY <1>1, <1>3 DEF PassInv, Linked
  <2> QED
    BY <1>1, <1>2, <1>4, <2>1, <2>2 DEF PassInv
<1>10. FrameInv'
  BY <1>1, <1>2 DEF FrameInv, loopVars
<1>11. HoldInv'
  <2>1. "exchange" \in Pcs /\ "link" \in Pcs /\ Move(c, "exchange", "link") /\ c \notin holders
    BY <1>1 DEF Pcs, Exchange, HoldInv
  <2> QED
    BY <1>1, <2>1, HoldMove DEF InFinalSuspend
<1> QED
  BY <1>5, <1>6, <1>7, <1>8, <1>9, <1>10, <1>11

LEMMA LinkStep == ASSUME IInv, NEW c \in Coros, Link(c) PROVE IInv'
<1> USE DEF IInv
<1>1. /\ pc[c] = "link" /\ pc'[c] = "notify" /\ (\A d \in Coros \ {c} : pc'[d] = pc[d])
      /\ pc' \in [Coros -> Pcs]
      /\ next' = [next EXCEPT ![prev[c]] = c]
      /\ UNCHANGED <<rpcs, holders, held, head, tail, prev, freed, loopVars, frame, early>>
  BY DEF Link, Move, TypeOK, Pcs
<1>2. /\ Linked' = Linked \cup {c} /\ Cut' = Cut \ {c} /\ Entered' = Entered /\ Passed' = Passed
      /\ c \notin Linked /\ c \in Entered \ {Stub}
  BY <1>1 DEF Linked, Cut, Entered, Passed
<1>3. prev[c] \in Nodes
  BY <1>2 DEF LineInv, Entered, Linked, Cut, Nodes
<1>4. /\ next' \in [Nodes -> Coros \cup {Null}] /\ next'[prev[c]] = c
      /\ \A n \in Nodes \ {prev[c]} : next'[n] = next[n]
  BY <1>1, <1>3 DEF TypeOK
<1>5. TypeOK'
  BY <1>1, <1>4 DEF TypeOK, loopVars
<1>6. NodeSafe' /\ LineInv'
  BY <1>1, <1>2 DEF NodeSafe, LineInv
<1>7. NextInv'
  <2>1. ASSUME NEW d \in Linked, d # c PROVE next'[prev[d]] = d
    <3>1. prev[d] # prev[c] /\ prev[d] \in Nodes
      BY <1>2, <2>1 DEF LineInv, Entered, Linked, Cut, Nodes
    <3> QED
      BY <1>4, <3>1 DEF NextInv
  <2>2. \A n \in Nodes : next'[n] # Null => next'[n] \in Linked' /\ prev[next'[n]] = n
    BY <1>2, <1>4 DEF NextInv
  <2> QED
    BY <1>1, <1>2, <1>4, <2>1, <2>2 DEF NextInv
<1>8. PassInv'
  BY <1>1, <1>2 DEF PassInv
<1>9. FrameInv'
  BY <1>1, <1>2 DEF FrameInv, loopVars
<1>10. HoldInv'
  <2>1. "link" \in Pcs /\ "notify" \in Pcs /\ Move(c, "link", "notify") /\ c \notin holders
    BY <1>1 DEF Pcs, Link, HoldInv
  <2> QED
    BY <1>1, <2>1, HoldMove DEF InFinalSuspend
<1> QED
  BY <1>5, <1>6, <1>7, <1>8, <1>9, <1>10

-----------------------------------------------------------------------------
(* The scheduler thread, and the worker that runs the callback.            *)

LEMMA RunCallbackStep == ASSUME IInv, NEW c \in Coros, RunCallback(c) PROVE IInv'
<1> USE DEF IInv
<1>1. /\ frame[c] = "callback" /\ frame'[c] \in {"released", "destroyed", "leaked"}
      /\ frame'[c] = "destroyed" => c \notin held /\ Done(c)
      /\ (\A d \in Coros \ {c} : frame'[d] = frame[d]) /\ frame' \in [Coros -> Frames]
      /\ UNCHANGED <<pc, rpcs, holders, held, queueVars, loopVars, early>>
  BY DEF RunCallback, GivenUp, TypeOK, Frames
<1>2. Linked' = Linked /\ Cut' = Cut
  BY <1>1 DEF Linked, Cut
<1>3. NodeSafe' /\ LineInv' /\ NextInv' /\ PassInv'
  BY <1>1, <1>2, QueueSame DEF queueVars
<1>4. TypeOK'
  BY <1>1 DEF TypeOK, queueVars, loopVars
<1>5. HoldInv' /\ FrameInv'
  BY <1>1 DEF HoldInv, Done, InFinalSuspend, FrameInv, Passed, queueVars, loopVars
<1> QED
  BY <1>3, <1>4, <1>5

\* run_loop waits, or finds the queue empty or cut.
LEMMA WaitStep ==
    ASSUME IInv, Check \/ Park \/ Spurious \/ (Dequeue /\ next[tail] = Null)
    PROVE  IInv'
<1> USE DEF IInv
<1>1. /\ loop \notin {"try", "drop"} /\ loop' \in {"check", "park", "wait", "drain"}
      /\ UNCHANGED <<pc, rpcs, holders, held, head, tail, next, prev, freed, cur, tries, frame, early>>
  BY DEF Check, Park, Spurious, Dequeue, queueVars
<1>2. Linked' = Linked /\ Cut' = Cut
  BY <1>1 DEF Linked, Cut
<1>3. NodeSafe' /\ LineInv' /\ NextInv' /\ PassInv'
  BY <1>1, <1>2, QueueSame
<1>4. TypeOK'
  BY <1>1 DEF TypeOK, LoopPcs
<1>5. HoldInv' /\ FrameInv'
  BY <1>1 DEF HoldInv, Done, InFinalSuspend, FrameInv, Passed
<1> QED
  BY <1>3, <1>4, <1>5

\* The node behind the tail is linked, so it is not the tail, nor deleted, and the
\* tail is not the head, nor before a node that is still to be linked.
LEMMA DequeueStep == ASSUME IInv, Dequeue, next[tail] # Null PROVE IInv'
<1> USE DEF IInv
<1>1. PICK c \in Coros : c = next[tail]
  BY DEF TypeOK
<1>2. /\ cur' = c /\ tries' = 0 /\ tail' = c /\ freed' = freed \cup {tail} /\ loop' = "try"
      /\ loop = "drain" /\ UNCHANGED <<pc, rpcs, holders, held, head, next, prev, frame, early>>
  BY <1>1 DEF Dequeue
<1>3. /\ c \in Linked /\ prev[c] = tail /\ c \in Entered \ {Stub} /\ c \in Nodes /\ tail \in Nodes
  BY <1>1 DEF NextInv, TypeOK, Entered, Nodes
<1>4. c \notin Passed
  BY <1>3 DEF LineInv, PassInv, Passed
<1>5. Linked' = Linked /\ Cut' = Cut /\ Entered' = Entered /\ Passed' = Passed \cup {c}
  BY <1>2 DEF Linked, Cut, Entered, Passed
<1>6. TypeOK'
  BY <1>2, <1>3 DEF TypeOK, LoopPcs
<1>7. NodeSafe'
  <2>1. head # tail /\ c \notin freed /\ c # tail
    BY <1>3, <1>4 DEF LineInv, Passed
  <2>2. \A d \in Coros : pc[d] = "link" => prev[d] # tail
    BY <1>3 DEF LineInv, Entered, Cut, Linked
  <2> QED
    BY <1>2, <2>1, <2>2 DEF NodeSafe
<1>8. LineInv' /\ NextInv'
  BY <1>2, <1>5 DEF LineInv, NextInv
<1>9. PassInv'
  <2>1. c \notin freed' /\ prev[c] \in freed'
    BY <1>2, <1>3, <1>4 DEF Passed
  <2>2. \A d \in Entered \ {Stub} : prev[d] \in freed' => d \in Passed'
    BY <1>2, <1>3, <1>5 DEF PassInv, LineInv
  <2> QED
    BY <1>2, <1>3, <1>5, <2>1, <2>2 DEF PassInv
<1>10. frame[c] = "live"
  BY <1>3, <1>4 DEF FrameInv, Linked
<1>11. HoldInv' /\ FrameInv'
  BY <1>2, <1>4, <1>5, <1>10 DEF HoldInv, Done, InFinalSuspend, FrameInv
<1> QED
  BY <1>6, <1>7, <1>8, <1>9, <1>11

\* A frame is looked at, given to a worker, or given up.
LEMMA TryStep == ASSUME IInv, TryNotify \/ Drop PROVE IInv'
<1> USE DEF IInv
<1>1. PICK c \in Coros : c = cur /\ c \in Passed /\ frame[c] = "live"
  <2>1. cur \in Coros /\ cur = tail
    BY DEF TryNotify, Drop, FrameInv, TypeOK
  <2>2. tail \in Linked /\ tail \in Passed
    BY <2>1 DEF PassInv, Passed
  <2> QED
    BY <2>1, <2>2 DEF FrameInv, Linked
<1>2. UNCHANGED <<pc, rpcs, holders, held, head, tail, next, prev, freed, early>>
  BY DEF TryNotify, Drop, queueVars
<1>3. \/ /\ UNCHANGED <<frame, cur>> /\ loop' \in {"try", "drop"} /\ loop \in {"try", "drop"}
      \/ /\ loop' = "drain" /\ cur' = Null
         /\ \E f \in {"callback", "released", "destroyed", "leaked"} :
               frame' = [frame EXCEPT ![c] = f] /\ (f = "destroyed" => c \notin held /\ Done(c))
  BY <1>1 DEF TryNotify, Drop, GivenUp
<1>4. tries' \in 0 .. TryAgain
  BY DEF TryNotify, Drop, TypeOK
<1>5. Linked' = Linked /\ Cut' = Cut /\ Passed' = Passed
  BY <1>2 DEF Linked, Cut, Passed
<1>6. NodeSafe' /\ LineInv' /\ NextInv' /\ PassInv'
  BY <1>2, <1>5, QueueSame
<1>7. CASE UNCHANGED <<frame, cur>> /\ loop' \in {"try", "drop"} /\ loop \in {"try", "drop"}
  <2>1. TypeOK' /\ HoldInv' /\ FrameInv'
    BY <1>2, <1>4, <1>5, <1>7 DEF TypeOK, HoldInv, Done, FrameInv, LoopPcs
  <2> QED
    BY <1>6, <2>1
<1>8. ASSUME NEW f \in {"callback", "released", "destroyed", "leaked"},
             frame' = [frame EXCEPT ![c] = f],
             f = "destroyed" => c \notin held /\ Done(c), loop' = "drain", cur' = Null
      PROVE  IInv'
  <2>1. frame'[c] = f /\ (\A d \in Coros \ {c} : frame'[d] = frame[d]) /\ frame' \in [Coros -> Frames]
    BY <1>8 DEF TypeOK, Frames
  <2>2. pc[c] # "new"
    BY <1>1 DEF FrameInv
  <2>3. TypeOK'
    BY <1>2, <1>4, <1>8, <2>1 DEF TypeOK, LoopPcs
  <2>4. HoldInv'
    BY <1>2, <1>8, <2>1 DEF HoldInv, Done
  <2>5. FrameInv'
    BY <1>1, <1>2, <1>5, <1>8, <2>1, <2>2 DEF FrameInv
  <2> QED
    BY <1>6, <2>3, <2>4, <2>5
<1> QED
  BY <1>3, <1>7, <1>8

-----------------------------------------------------------------------------
LEMMA StepInv == ASSUME IInv, [Next]_vars PROVE IInv'
<1>1. ASSUME NEW c \in Coros, Schedule(c) \/ ScheduleReturns(c) \/ Run(c) \/ RunCallback(c)
      PROVE  IInv'
  BY <1>1, ScheduleStep, ReturnsStep, OtherSteps, ExchangeStep, LinkStep, RunCallbackStep DEF Run
<1>2. CASE RunLoop \/ Spurious
  BY <1>2, WaitStep, DequeueStep, TryStep DEF RunLoop
<1>3. CASE UNCHANGED vars
  <2>1. NodeSafe' /\ LineInv' /\ NextInv' /\ PassInv'
    BY <1>3, QueueSame DEF vars, Linked, Cut
  <2>2. TypeOK' /\ HoldInv' /\ FrameInv'
    BY <1>3 DEF IInv, TypeOK, HoldInv, Done, InFinalSuspend, FrameInv, Passed, vars
  <2> QED
    BY <2>1, <2>2 DEF IInv
<1> QED
  BY <1>1, <1>2, <1>3 DEF Next

\* The inductive invariant holds of every behaviour of the scheduler.
THEOREM Inductive == Spec => []IInv
<1> QED
  BY InitInv, StepInv, PTL DEF Spec

\* A frame is destroyed when nobody can reach it any more and its coroutine has
\* returned; and when its thread has left it, unless the build calls a coroutine done
\* before final_suspend has run and it was not schedule's thread that ran it to the end.
THEOREM FrameOutlivesHolders == Spec => []FrameSafe
<1>1. IInv => FrameSafe
  <2> SUFFICES ASSUME IInv PROVE FrameSafe
    OBVIOUS
  <2>1. ASSUME NEW c \in Coros, frame[c] # "none", frame[c] # "live"
        PROVE  cur # c /\ c \notin Unread /\ c \in Linked
    <3>1. cur # c /\ c \in Passed
      BY <2>1 DEF IInv, FrameInv
    <3> QED
      BY <3>1 DEF IInv, PassInv, Passed, Unread
  <2>2. ASSUME NEW c \in Coros, cur = c PROVE frame[c] = "live"
    <3>1. pc[c] # "new"
      BY <2>2 DEF IInv, FrameInv, PassInv, Passed, Linked
    <3> QED
      BY <2>1, <2>2, <3>1 DEF IInv, FrameInv
  <2>3. ASSUME NEW c \in Coros, frame[c] = "destroyed"
        PROVE  /\ c \notin holders \cup Unread \cup held
               /\ \/ pc[c] = "done"
                  \/ early /\ rpcs[c] > 0 /\ pc[c] \in {"notify", "suspend"}
    <3>1. c \notin Unread /\ pc[c] \in {"notify", "suspend", "done"}
      BY <2>1, <2>3 DEF Linked
    <3>2. c \notin held /\ Done(c)
      BY <2>3 DEF IInv, HoldInv
    <3> QED
      BY <3>1, <3>2 DEF IInv, HoldInv, Done
  <2> QED
    BY <2>2, <2>3 DEF FrameSafe
<1> QED
  BY <1>1, Inductive, PTL

-----------------------------------------------------------------------------
(* The nodes in the queue are in one order, which Queued finds.            *)

\* The least of some positions: its interval has none of the others' in it.
LEMMA LeastPosition ==
    ASSUME NEW n \in Nat, NEW T \in SUBSET (1 .. n), T # {}
    PROVE  \E x \in T : \A y \in T : ~ (y < x)
<1> DEFINE I == {1 .. i : i \in T}
<1>1. I \subseteq SUBSET (1 .. n) /\ I # {}
  <2>1. \A i \in T : 1 .. i \subseteq 1 .. n
    OBVIOUS
  <2> QED
    BY <2>1
<1>2. IsWellFoundedOn(StrictSubsetOrdering(1 .. n), FiniteSubsetsOf(1 .. n))
  BY FS_StrictSubsetOrderingWellFounded
<1>3. I \subseteq FiniteSubsetsOf(1 .. n)
  BY <1>1, FS_Interval, FS_Subset DEF FiniteSubsetsOf
<1> HIDE DEF I
<1>4. PICK J \in I : \A K \in I : <<K, J>> \notin StrictSubsetOrdering(1 .. n)
  BY <1>1, <1>2, <1>3, WFMin
<1>5. PICK x \in T : J = 1 .. x
  BY <1>4 DEF I
<1>6. ASSUME NEW y \in T, y < x PROVE FALSE
  <2>1. 1 .. y \in I /\ 1 .. y \subseteq 1 .. x /\ x \in 1 .. x /\ x \notin 1 .. y
    BY <1>6 DEF I
  <2> QED
    BY <1>1, <1>4, <1>5, <2>1 DEF StrictSubsetOrdering
<1> QED
  BY <1>6

\* q has each node of U once, one behind the other from t on, by the links p.
Ordered(q, U, t, p) ==
    /\ q \in Seq(U) /\ \A c \in U : \E i \in 1 .. Len(q) : q[i] = c
    /\ \A i, j \in 1 .. Len(q) : q[i] = q[j] => i = j
    /\ \A i \in 1 .. Len(q) : p[q[i]] = IF i = 1 THEN t ELSE q[i - 1]

\* Two orders would part at some first place, behind the same node.
LEMMA OneOrder ==
    ASSUME NEW U, NEW t, NEW p, NEW q, Ordered(q, U, t, p),
           \A c, d \in U : p[c] = p[d] => c = d
    PROVE  /\ q \in [1 .. Cardinality(U) -> U] /\ Cardinality(U) = Len(q)
           /\ \A r \in [1 .. Cardinality(U) -> U] :
                 (\A i \in DOMAIN r : p[r[i]] = IF i = 1 THEN t ELSE r[i - 1]) => r = q
<1> DEFINE n == Len(q)
<1>1. n \in Nat /\ q \in [1 .. n -> U]
  BY DEF Ordered
<1>2. Cardinality(U) = n
  <2>1. q \in Bijection(1 .. n, U)
    BY <1>1 DEF Ordered, Bijection, Injection, Surjection, IsInjective
  <2>2. ExistsBijection(1 .. n, U)
    BY <2>1 DEF ExistsBijection
  <2> QED
    BY <1>1, <2>2, FS_CountingElements
<1>3. ASSUME NEW r \in [1 .. n -> U],
             \A i \in 1 .. n : p[r[i]] = IF i = 1 THEN t ELSE r[i - 1]
      PROVE  r = q
  <2> DEFINE T == {i \in 1 .. n : q[i] # r[i]}
  <2>1. SUFFICES ASSUME T # {} PROVE FALSE
    BY <1>1
  <2>2. PICK k \in T : \A i \in T : ~ (i < k)
    BY <1>1, <2>1, LeastPosition
  <2>3. k \in 1 .. n /\ q[k] # r[k]
    BY <2>2
  <2>4. k # 1 => q[k - 1] = r[k - 1]
    <3>1. k # 1 => k - 1 \in 1 .. n /\ k - 1 < k
      BY <1>1, <2>3
    <3> QED
      BY <2>2, <3>1
  <2>5. p[q[k]] = p[r[k]]
    BY <1>3, <2>3, <2>4 DEF Ordered
  <2> QED
    BY <1>1, <1>3, <2>3, <2>5
<1> QED
  BY <1>1, <1>2, <1>3

InQueue(q) == Ordered(q, Unread, tail, prev) /\ head = IF q = <<>> THEN tail ELSE q[Len(q)]

QueueInv == \E q : InQueue(q)

LEMMA UnreadEntered ==
    ASSUME IInv
    PROVE  /\ Unread \subseteq Entered \ {Stub} /\ Unread \cap Passed = {}
           /\ Unread \subseteq Coros
           /\ \A c, d \in Unread : prev[c] = prev[d] => c = d
<1>1. /\ Unread \subseteq Entered \ {Stub} /\ Unread \cap Passed = {} /\ Unread \subseteq Coros
  BY DEF Unread, Entered, Linked, Cut, Passed
<1> QED
  BY <1>1 DEF IInv, LineInv

LEMMA QueuedIs ==
    ASSUME NEW q, InQueue(q), \A c, d \in Unread : prev[c] = prev[d] => c = d
    PROVE  Queued = q
<1>1. /\ q \in [1 .. Cardinality(Unread) -> Unread] /\ Cardinality(Unread) = Len(q)
      /\ \A r \in [1 .. Cardinality(Unread) -> Unread] : Follows(r) => r = q
  BY OneOrder DEF InQueue, Follows
<1>2. Follows(q)
  BY <1>1 DEF InQueue, Ordered, Follows
<1> QED
  BY <1>1, <1>2 DEF Queued

\* The same of the next state.
LEMMA QueuedWillBe ==
    ASSUME NEW q, InQueue(q)', \A c, d \in Unread' : prev'[c] = prev'[d] => c = d
    PROVE  Queued' = q
<1>1. /\ q \in [1 .. Cardinality(Unread') -> Unread'] /\ Cardinality(Unread') = Len(q)
      /\ \A r \in [1 .. Cardinality(Unread') -> Unread'] : Follows(r)' => r = q
  BY OneOrder DEF InQueue, Follows
<1>2. Follows(q)'
  BY <1>1 DEF InQueue, Ordered, Follows
<1> QED
  BY <1>1, <1>2 DEF Queued

-----------------------------------------------------------------------------
(* Each step is one of TaskQueue or none.                                  *)

QueueStep == [Abstract!Next]_(Abstract!tqVars)

Offers == [t \in Coros \cup {Loop} |-> IF t \in Coros /\ pc[t] = "exchange" THEN t ELSE Null]
Gets == [t \in Coros \cup {Loop} |-> IF t = Loop THEN cur ELSE Null]

\* The order outlives a step that takes no node in or out.
LEMMA SameQueue ==
    ASSUME IInv, QueueInv, UNCHANGED <<head, tail, prev, Unread>>
    PROVE  QueueInv' /\ Queued' = Queued
<1>1. PICK q : InQueue(q)
  BY DEF QueueInv
<1>2. InQueue(q)'
  BY <1>1 DEF InQueue
<1>3. Queued = q /\ Queued' = q
  BY <1>1, <1>2, UnreadEntered, QueuedIs, QueuedWillBe
<1> QED
  BY <1>2, <1>3 DEF QueueInv

LEMMA Hidden ==
    ASSUME IInv, QueueInv, UNCHANGED <<head, tail, prev, Unread, cur>>,
           \A c \in Coros : pc'[c] = "exchange" <=> pc[c] = "exchange"
    PROVE  QueueInv' /\ QueueStep
<1>1. Offers' = Offers /\ Gets' = Gets
  BY DEF Offers, Gets
<1> QED
  BY <1>1, SameQueue DEF QueueStep, Abstract!tqVars, Offers, Gets

LEMMA FinishOffers ==
    ASSUME IInv, QueueInv, NEW c \in Coros, Finish(c)
    PROVE  QueueInv' /\ QueueStep
<1>1. /\ pc[c] = "finish" /\ pc'[c] = "exchange" /\ \A d \in Coros \ {c} : pc'[d] = pc[d]
      /\ UNCHANGED <<queueVars, loopVars>>
  BY DEF Finish, Move, IInv, TypeOK
<1>2. Unread' = Unread /\ c \notin Unread
  BY <1>1 DEF Unread, queueVars
<1>3. QueueInv' /\ Queued' = Queued
  BY <1>1, <1>2, SameQueue DEF queueVars
<1>4. c \notin ToSet(Queued)
  <2>1. PICK q : InQueue(q)
    BY DEF QueueInv
  <2>2. Queued = q /\ q \in Seq(Unread)
    BY <2>1, UnreadEntered, QueuedIs DEF InQueue, Ordered
  <2> QED
    BY <1>2, <2>2 DEF ToSet
<1>5. cur # c
  BY <1>1 DEF IInv, FrameInv, PassInv, Passed, Linked
<1>6. /\ Offers' = [Offers EXCEPT ![c] = c] /\ Gets' = Gets
      /\ Offers[c] = Null /\ Gets[c] = Null
      /\ \A t \in Coros \cup {Loop} : Offers[t] # c /\ Gets[t] # c
  BY <1>1, <1>5 DEF Offers, Gets, loopVars
<1>7. Abstract!Offer(c, c)
  BY <1>3, <1>4, <1>6 DEF Abstract!Offer, Abstract!ToSet, ToSet, Offers, Gets
<1> QED
  BY <1>3, <1>7 DEF QueueStep, Abstract!Next

\* From the exchange on the node is in the queue, though it cannot be reached yet.
LEMMA ExchangePuts ==
    ASSUME IInv, QueueInv, NEW c \in Coros, Exchange(c)
    PROVE  QueueInv' /\ QueueStep
<1>1. /\ pc[c] = "exchange" /\ pc'[c] = "link" /\ \A d \in Coros \ {c} : pc'[d] = pc[d]
      /\ prev'[c] = head /\ \A d \in Coros \ {c} : prev'[d] = prev[d]
      /\ head' = c /\ UNCHANGED <<tail, freed, cur>>
  BY DEF Exchange, Move, IInv, TypeOK, loopVars
<1>2. c \notin Unread /\ c \notin Passed
  BY <1>1 DEF Unread, IInv, PassInv, Linked
<1>3. Unread' = Unread \cup {c}
  BY <1>1, <1>2 DEF Unread, Passed
<1>4. PICK q : InQueue(q)
  BY DEF QueueInv
<1>5. q \in Seq(Unread) /\ Queued = q /\ Len(q) \in Nat
  BY <1>4, UnreadEntered, QueuedIs DEF InQueue, Ordered
<1> DEFINE r == Append(q, c)
<1>6. /\ r \in Seq(Unread') /\ Len(r) = Len(q) + 1 /\ r[Len(q) + 1] = c
      /\ \A i \in 1 .. Len(q) : r[i] = q[i] /\ q[i] \in Unread
  BY <1>3, <1>5
<1> HIDE DEF r
<1>7. Ordered(r, Unread', tail', prev')
  <2> \A i \in 1 .. Len(r) : i \in 1 .. Len(q) \/ i = Len(q) + 1
    BY <1>5, <1>6
  <2>1. \A d \in Unread' : \E i \in 1 .. Len(r) : r[i] = d
    <3>1. \A i \in 1 .. Len(q) : i \in 1 .. Len(r)
      BY <1>5, <1>6
    <3>2. Len(q) + 1 \in 1 .. Len(r)
      BY <1>5, <1>6
    <3>3. \A d \in Unread : \E i \in 1 .. Len(q) : q[i] = d
      BY <1>4 DEF InQueue, Ordered
    <3> QED
      BY <1>3, <1>6, <3>1, <3>2, <3>3
  <2>2. \A i, j \in 1 .. Len(r) : r[i] = r[j] => i = j
    <3>1. \A i, j \in 1 .. Len(q) : q[i] = q[j] => i = j
      BY <1>4 DEF InQueue, Ordered
    <3> QED
      BY <1>2, <1>6, <3>1
  <2>3. ASSUME NEW i \in 1 .. Len(r)
        PROVE  prev'[r[i]] = IF i = 1 THEN tail' ELSE r[i - 1]
    <3>1. CASE i \in 1 .. Len(q)
      <4>1. prev'[q[i]] = prev[q[i]]
        BY <1>1, <1>2, <1>6, <3>1, UnreadEntered
      <4>2. i # 1 => i - 1 \in 1 .. Len(q)
        BY <1>5, <3>1
      <4>3. prev[q[i]] = IF i = 1 THEN tail ELSE q[i - 1]
        BY <1>4, <3>1 DEF InQueue, Ordered
      <4> QED
        BY <1>1, <1>6, <3>1, <4>1, <4>2, <4>3
    <3>2. CASE i = Len(q) + 1
      <4>1. q = <<>> <=> i = 1
        BY <1>5, <3>2
      <4>2. i # 1 => i - 1 = Len(q) /\ i - 1 \in 1 .. Len(q)
        BY <1>5, <3>2
      <4> QED
        BY <1>1, <1>4, <1>6, <3>2, <4>1, <4>2 DEF InQueue
    <3> QED
      BY <1>5, <1>6, <3>1, <3>2
  <2> QED
    BY <1>6, <2>1, <2>2, <2>3 DEF Ordered
<1>8. InQueue(r)'
  BY <1>1, <1>5, <1>6, <1>7 DEF InQueue
<1>9. Queued' = Append(Queued, c)
  <2>1. \A d, e \in Unread' : prev'[d] = prev'[e] => d = e
    <3>1. \A d \in Unread : d # c /\ prev'[d] = prev[d] /\ prev[d] # head /\ d \in Coros
      BY <1>1, <1>2, UnreadEntered DEF IInv, LineInv
    <3> QED
      BY <1>1, <1>3, <3>1, UnreadEntered
  <2>2. Queued' = r
    BY <1>8, <2>1, QueuedWillBe
  <2> QED
    BY <1>5, <2>2 DEF r
<1>10. /\ Offers' = [Offers EXCEPT ![c] = Null] /\ Gets' = Gets /\ Offers[c] = c /\ c # Null
  BY <1>1 DEF Offers, Gets
<1>11. Abstract!Put(c)
  BY <1>9, <1>10 DEF Abstract!Put, Offers, Gets
<1> QED
  BY <1>8, <1>11 DEF QueueStep, Abstract!Next, QueueInv

\* The node behind the tail is the first of the queue.
LEMMA DequeueGets ==
    ASSUME IInv, QueueInv, Dequeue, next[tail] # Null
    PROVE  QueueInv' /\ QueueStep
<1>1. PICK c \in Coros : c = next[tail]
  BY DEF IInv, TypeOK
<1>2. /\ cur' = c /\ tail' = c /\ freed' = freed \cup {tail} /\ loop = "drain"
      /\ UNCHANGED <<pc, head, prev>>
  BY <1>1 DEF Dequeue
<1>3. c \in Linked /\ prev[c] = tail /\ c \in Entered \ {Stub}
  BY <1>1 DEF IInv, NextInv, TypeOK, Entered, Nodes
<1>4. c \notin Passed /\ c \in Unread /\ tail \notin Unread
  BY <1>3 DEF IInv, LineInv, PassInv, Passed, Unread, Linked
<1>5. Unread' = Unread \ {c}
  BY <1>2, <1>4 DEF Unread
<1>6. PICK q : InQueue(q)
  BY DEF QueueInv
<1>7. /\ q \in Seq(Unread) /\ Queued = q /\ Len(q) \in Nat
      /\ \A d \in Unread : \E i \in 1 .. Len(q) : q[i] = d
      /\ \A i, j \in 1 .. Len(q) : q[i] = q[j] => i = j
      /\ \A i \in 1 .. Len(q) : prev[q[i]] = IF i = 1 THEN tail ELSE q[i - 1]
      /\ head = IF q = <<>> THEN tail ELSE q[Len(q)]
  BY <1>6, UnreadEntered, QueuedIs DEF InQueue, Ordered
<1>8. Len(q) # 0 /\ q # <<>> /\ q[1] = c
  <2>1. PICK i \in 1 .. Len(q) : q[i] = c
    BY <1>4, <1>7
  <2>2. i = 1
    <3>1. SUFFICES ASSUME i # 1 PROVE FALSE
      OBVIOUS
    <3>2. i - 1 \in 1 .. Len(q)
      BY <1>7, <3>1
    <3>3. q[i - 1] = tail /\ q[i - 1] \in Unread
      <4>1. prev[q[i]] = q[i - 1]
        BY <1>7, <3>1
      <4>2. q[i - 1] \in Unread
        BY <1>7, <3>2
      <4> QED
        BY <1>3, <2>1, <4>1, <4>2
    <3> QED
      BY <1>4, <3>3
  <2> QED
    BY <1>7, <2>1, <2>2
<1> DEFINE r == Tail(q)
<1>9. /\ r \in Seq(Unread) /\ Len(r) = Len(q) - 1 /\ (r = <<>> <=> Len(q) = 1)
      /\ \A i \in 1 .. Len(r) : r[i] = q[i + 1] /\ i + 1 \in 1 .. Len(q) /\ i + 1 # 1
  <2>1. /\ r \in Seq(Unread) /\ Len(r) = Len(q) - 1
        /\ \A i \in 1 .. Len(r) : r[i] = q[i + 1]
    BY <1>7, <1>8, HeadTailProperties
  <2>2. r = <<>> <=> Len(r) = 0
    BY <2>1, EmptySeq
  <2>3. \A i \in 1 .. Len(r) : i + 1 \in 1 .. Len(q) /\ i + 1 # 1
    BY <1>7, <2>1
  <2> QED
    BY <1>7, <2>1, <2>2, <2>3
<1> HIDE DEF r
<1>10. Ordered(r, Unread', tail', prev')
  <2>1. r \in Seq(Unread')
    <3>1. ASSUME NEW i \in 1 .. Len(r) PROVE r[i] \in Unread'
      <4>1. r[i] = q[i + 1] /\ i + 1 \in 1 .. Len(q) /\ i + 1 # 1
        BY <1>9
      <4>2. q[i + 1] # q[1] /\ q[i + 1] \in Unread
        <5>1. 1 \in 1 .. Len(q)
          BY <1>7, <1>8
        <5>2. \A j, k \in 1 .. Len(q) : q[j] = q[k] => j = k
          BY <1>7
        <5>3. q[i + 1] # q[1]
          BY <4>1, <5>1, <5>2
        <5>4. \A k \in 1 .. Len(q) : q[k] \in Unread
          BY <1>7
        <5> QED
          BY <4>1, <5>3, <5>4
      <4> QED
        BY <1>5, <1>8, <4>1, <4>2
    <3> DEFINE n == Len(r)
    <3>2. r \in [1 .. n -> Unread] /\ n \in Nat
      BY <1>9
    <3>3. r \in [1 .. n -> Unread']
      BY <3>1, <3>2
    <3> HIDE DEF n
    <3> QED
      BY <3>2, <3>3
  <2>2. \A d \in Unread' : \E i \in 1 .. Len(r) : r[i] = d
    <3>1. ASSUME NEW d \in Unread' PROVE \E i \in 1 .. Len(r) : r[i] = d
      <4>1. PICK i \in 1 .. Len(q) : q[i] = d
        BY <1>5, <1>7
      <4>2. i # 1
        BY <1>5, <1>8, <4>1
      <4> Len(r) = Len(q) - 1
        BY <1>9
      <4> HIDE DEF r
      <4>3. i - 1 \in 1 .. Len(r) /\ (i - 1) + 1 = i
        BY <1>7, <4>2
      <4> QED
        BY <1>9, <4>1, <4>3
    <3> QED
      BY <3>1
  <2>3. \A i, j \in 1 .. Len(r) : r[i] = r[j] => i = j
    <3>1. ASSUME NEW i \in 1 .. Len(r), NEW j \in 1 .. Len(r), r[i] = r[j] PROVE i = j
      <4>1. /\ r[i] = q[i + 1] /\ i + 1 \in 1 .. Len(q)
            /\ r[j] = q[j + 1] /\ j + 1 \in 1 .. Len(q)
        BY <1>9
      <4>2. \A k, l \in 1 .. Len(q) : q[k] = q[l] => k = l
        BY <1>7
      <4>3. i + 1 = j + 1
        BY <3>1, <4>1, <4>2
      <4> QED
        BY <4>3
    <3> QED
      BY <3>1
  <2>4. ASSUME NEW i \in 1 .. Len(r) PROVE prev'[r[i]] = IF i = 1 THEN tail' ELSE r[i - 1]
    <3>1. prev'[r[i]] = q[i]
      <4>1. r[i] = q[i + 1] /\ i + 1 \in 1 .. Len(q) /\ i + 1 # 1 /\ (i + 1) - 1 = i
        BY <1>9
      <4>2. prev[q[i + 1]] = q[(i + 1) - 1]
        BY <1>7, <4>1
      <4> QED
        BY <1>2, <4>1, <4>2
    <3>2. i # 1 => r[i - 1] = q[i]
      <4>1. i # 1 => i - 1 \in 1 .. Len(r) /\ (i - 1) + 1 = i
        BY <1>7, <1>9
      <4> QED
        BY <1>9, <4>1
    <3> QED
      BY <1>2, <1>8, <3>1, <3>2
  <2> QED
    BY <2>1, <2>2, <2>3, <2>4 DEF Ordered
<1>11. InQueue(r)'
  <2>1. head' = IF r = <<>> THEN tail' ELSE r[Len(r)]
    <3>1. CASE r = <<>>
      <4>1. Len(q) = 1
        BY <1>9, <3>1
      <4> QED
        BY <1>2, <1>7, <1>8, <3>1, <4>1
    <3>2. CASE r # <<>>
      <4>1. Len(r) = Len(q) - 1 /\ Len(q) # 1
        BY <1>9, <3>2
      <4>2. Len(r) \in 1 .. Len(r) /\ Len(r) + 1 = Len(q)
        BY <1>7, <1>8, <4>1
      <4>3. r[Len(r)] = q[Len(q)]
        BY <1>9, <4>2
      <4> QED
        BY <1>2, <1>7, <1>8, <3>2, <4>3
    <3> QED
      BY <3>1, <3>2
  <2> QED
    BY <1>10, <2>1 DEF InQueue
<1>12. Queued' = Tail(Queued) /\ Head(Queued) = c /\ Queued # <<>>
  <2>1. Queued' = r
    BY <1>2, <1>5, <1>11, UnreadEntered, QueuedWillBe
  <2> QED
    BY <1>7, <1>8, <2>1 DEF r
<1>13. /\ Offers' = Offers /\ Gets' = [Gets EXCEPT ![Loop] = c]
       /\ Offers[Loop] = Null /\ Gets[Loop] = Null
  BY <1>2 DEF Offers, Gets, IInv, FrameInv
<1>14. Abstract!Get(Loop)
  BY <1>12, <1>13 DEF Abstract!Get, Offers, Gets
<1> QED
  BY <1>11, <1>14 DEF QueueStep, Abstract!Next, QueueInv

\* The scheduler thread has done with a coroutine, or looks at it again.
LEMMA TryReleases ==
    ASSUME IInv, QueueInv, TryNotify \/ Drop
    PROVE  QueueInv' /\ QueueStep
<1>1. /\ UNCHANGED <<pc, head, tail, prev, freed>> /\ cur # Null /\ cur' \in {cur, Null}
  BY DEF TryNotify, Drop, queueVars, IInv, FrameInv
<1>2. Unread' = Unread
  BY <1>1 DEF Unread
<1>3. CASE cur' = cur
  BY <1>1, <1>2, <1>3, Hidden
<1>4. CASE cur' = Null
  <2>1. QueueInv' /\ Queued' = Queued
    BY <1>1, <1>2, SameQueue
  <2>2. Offers' = Offers /\ Gets' = [Gets EXCEPT ![Loop] = Null] /\ Gets[Loop] # Null
    BY <1>1, <1>4 DEF Offers, Gets
  <2>3. Abstract!Release(Loop)
    BY <2>1, <2>2 DEF Abstract!Release, Offers, Gets
  <2> QED
    BY <2>1, <2>3 DEF QueueStep, Abstract!Next
<1> QED
  BY <1>1, <1>3, <1>4

LEMMA QuietStep ==
    ASSUME IInv, QueueInv,
           \/ Check \/ Park \/ Spurious \/ (Dequeue /\ next[tail] = Null)
           \/ (\E c \in Coros : \/ Schedule(c) \/ ScheduleReturns(c) \/ Await(c) \/ Reply(c) \/ RpcFails(c)
                                \/ Resume(c) \/ Return(c) \/ Link(c) \/ NotifyOne(c)
                                \/ Suspend(c) \/ RunCallback(c))
    PROVE  QueueInv' /\ QueueStep
<1>1. UNCHANGED <<head, tail, prev, freed, cur>>
  BY DEF Check, Park, Spurious, Dequeue, Schedule, ScheduleReturns, Await, Reply, RpcFails, Resume, Return, Link,
         NotifyOne, Suspend, RunCallback, queueVars, loopVars
<1>2. \/ pc' = pc
      \/ \E c \in Coros, from, to \in Pcs \ {"exchange"} :
            Move(c, from, to) /\ (from \in {"link", "notify", "suspend", "done"}
                                     <=> to \in {"link", "notify", "suspend", "done"})
  BY DEF Check, Park, Spurious, Dequeue, Schedule, ScheduleReturns, Await, Reply, RpcFails, Resume, Return, Link,
         NotifyOne, Suspend, RunCallback, Pcs
<1>3. \A c \in Coros : /\ pc'[c] = "exchange" <=> pc[c] = "exchange"
                       /\ pc'[c] \in {"link", "notify", "suspend", "done"}
                             <=> pc[c] \in {"link", "notify", "suspend", "done"}
  BY <1>2 DEF Move, IInv, TypeOK
<1>4. Unread' = Unread
  BY <1>1, <1>3 DEF Unread
<1> QED
  BY <1>1, <1>3, <1>4, Hidden

LEMMA InitQueue == Init => QueueInv /\ Abstract!Init
<1> SUFFICES ASSUME Init PROVE QueueInv /\ Abstract!Init
  OBVIOUS
<1>1. Unread = {} /\ head = tail
  BY DEF Init, Unread
<1>2. InQueue(<<>>)
  BY <1>1 DEF InQueue, Ordered
<1>3. Queued = <<>>
  BY <1>1, <1>2, QueuedIs
<1> QED
  BY <1>2, <1>3 DEF QueueInv, Abstract!Init, Init

LEMMA StepQueue == ASSUME IInv, QueueInv, [Next]_vars PROVE QueueInv' /\ QueueStep
<1>1. CASE UNCHANGED vars
  BY <1>1, Hidden DEF vars, Unread
<1>2. CASE Check \/ Park \/ Spurious \/ Dequeue \/ TryNotify \/ Drop
  BY <1>2, QuietStep, DequeueGets, TryReleases
<1>3. ASSUME NEW c \in Coros, Schedule(c) \/ ScheduleReturns(c) \/ Run(c) \/ RunCallback(c)
      PROVE  QueueInv' /\ QueueStep
  BY <1>3, QuietStep, FinishOffers, ExchangePuts DEF Run
<1> QED
  BY <1>1, <1>2, <1>3 DEF Next, RunLoop

\* Finished coroutines reach the scheduler in the order of their exchanges, although
\* a node is linked after it is in the queue, and the reader may find the queue cut
\* (MPSCqueue.h, CoroutineScheduler::finish, run_loop).
THEOREM FinishedInOrder == Spec => ImplementsTaskQueue
<1>1. IInv /\ QueueInv /\ [Next]_vars => QueueInv' /\ [Abstract!Next]_(Abstract!tqVars)
  BY StepQueue DEF QueueStep
<1> QED
  BY <1>1, InitQueue, Inductive, PTL DEF Spec, ImplementsTaskQueue, Abstract!Spec

\* No producer and no reader of the queue touches a node that Dequeue has deleted, and
\* a finished coroutine is in the queue once, or with the scheduler thread.
THEOREM SchedulerConsistent == Spec => []Consistent
<1>1. ASSUME IInv, QueueInv PROVE Abstract!OnePlace
  <2>1. PICK q : InQueue(q)
    BY <1>1 DEF QueueInv
  <2>2. Queued = q
    BY <1>1, <2>1, UnreadEntered, QueuedIs
  <2>3. /\ q \in Seq(Unread) /\ Len(q) \in Nat /\ DOMAIN q = 1 .. Len(q)
        /\ \A i, j \in 1 .. Len(q) : q[i] = q[j] => i = j
    BY <2>1 DEF InQueue, Ordered
  <2>4. \A m : (\E i \in DOMAIN q : m = q[i]) => m \in Unread
    BY <2>3
  <2>5. \A c \in Coros : pc[c] = "exchange" => c \notin Unread /\ c # cur
    BY <1>1 DEF Unread, IInv, FrameInv, PassInv, Passed, Linked
  <2>6. cur # Null => cur \notin Unread
    BY <1>1 DEF Unread, IInv, FrameInv
  <2> QED
    BY <2>2, <2>3, <2>4, <2>5, <2>6 DEF Abstract!OnePlace, Abstract!IsInjective, Abstract!ToSet
<1>2. IInv /\ QueueInv => Consistent
  BY <1>1 DEF IInv, Consistent
<1>3. IInv /\ QueueInv /\ [Next]_vars => QueueInv'
  BY StepQueue
<1> QED
  BY <1>2, <1>3, InitQueue, Inductive, PTL DEF Spec
===============================================================================
