-------------------------------- MODULE Timers --------------------------------
(***************************************************************************)
(* The timers: TimerEventManager with its ids (IDhelper), and the timer    *)
(* heap of an EventDispatch, whose thread looks at it between two rounds   *)
(* of epoll_wait.  Any thread creates timers and destroys its own.         *)
(*                                                                         *)
(* The heap is touched by the thread of the dispatcher; the set of timers  *)
(* that are still wanted has a lock, and a timer that is not in it any     *)
(* more is deleted when it comes off the heap.  Popping an empty heap is   *)
(* undefined behaviour: nothing is said of the program after that.         *)
(***************************************************************************)
EXTENDS Integers, FiniteSets, Sequences

CONSTANTS Events,      \* the timers that may be created
          Never,       \* no timer
          CallTimes,   \* the calltime of a timer, -1: for ever
          Interval,    \* ticks between two calls
          MaxTick      \* bound: the clock

VARIABLES now,        \* get_tick_count
          te,         \* the timers
          heap,       \* m_timer_list
          handle_te,  \* the timers wanted
          handle_,    \* the manager's map from ids to timers
          next_id, free_ids,
          check,      \* where _CheckTimer is
          submitted,  \* the timers whose callback was submitted at least once
          undefined   \* an empty heap was popped

manager == <<handle_, next_id, free_ids>>
vars == <<now, te, heap, handle_te, manager, check, submitted, undefined>>

NotYet == [st |-> "new", id |-> 0, next_tick |-> 0, calltime |-> 0]
Outside == [pc |-> "outside", te |-> Never, tick |-> 0]

Init ==
    /\ now = 0 /\ te = [e \in Events |-> NotYet] /\ heap = {} /\ handle_te = {}
    /\ handle_ = <<>> /\ next_id = 0 /\ free_ids = <<>>
    /\ check = Outside /\ submitted = {} /\ undefined = FALSE

Tick == /\ now < MaxTick /\ now' = now + 1
        /\ UNCHANGED <<te, heap, handle_te, manager, check, submitted, undefined>>

\* IDhelper::Get: the last id given back, or the next one.
GetId == IF free_ids # <<>> THEN free_ids[Len(free_ids)] ELSE next_id + 1

\* TimerEventManager::Create, with AddTimer.
Create(e, n) ==
    /\ te[e].st = "new" /\ ~undefined
    /\ te' = [te EXCEPT ![e] = [st |-> "live", id |-> GetId, next_tick |-> now + Interval, calltime |-> n]]
    /\ IF free_ids # <<>> THEN free_ids' = SubSeq(free_ids, 1, Len(free_ids) - 1) /\ UNCHANGED next_id
                          ELSE next_id' = next_id + 1 /\ UNCHANGED free_ids
    /\ handle_' = [i \in DOMAIN handle_ \cup {GetId} |-> IF i = GetId THEN e ELSE handle_[i]]
    /\ handle_te' = handle_te \cup {e} /\ heap' = heap \cup {e}
    /\ UNCHANGED <<now, check, submitted, undefined>>

\* TimerEventManager::Destroy, with IDhelper::Del and RemoveTimer.
Destroy(id) ==
    /\ id \in DOMAIN handle_ /\ ~undefined
    /\ next_id' = IF id = next_id THEN next_id - 1 ELSE next_id
    /\ free_ids' = IF id > next_id THEN free_ids ELSE Append(free_ids, id)
    /\ handle_te' = handle_te \ {handle_[id]}
    /\ handle_' = [i \in DOMAIN handle_ \ {id} |-> handle_[i]]
    /\ UNCHANGED <<now, te, heap, check, submitted, undefined>>

-----------------------------------------------------------------------------
(* _CheckTimer.                                                            *)

EnterCheck ==
    /\ check.pc = "outside" /\ ~undefined
    /\ check' = [pc |-> "loop", te |-> Never, tick |-> now]
    /\ UNCHANGED <<now, te, heap, handle_te, manager, submitted, undefined>>

Tops == {e \in heap : \A o \in heap : te[e].next_tick <= te[o].next_tick}

\* The top comes off the heap, or the heap is empty.
PopTop ==
    /\ check.pc = "loop"
    /\ \/ heap = {} /\ check' = Outside /\ UNCHANGED heap
       \/ \E e \in Tops : heap' = heap \ {e} /\ check' = [check EXCEPT !.pc = "wanted", !.te = e]
    /\ UNCHANGED <<now, te, handle_te, manager, submitted, undefined>>

\* A timer nobody wants is deleted.
LookUp ==
    /\ check.pc = "wanted"
    /\ IF check.te \in handle_te
       THEN check' = [check EXCEPT !.pc = "due"] /\ UNCHANGED te
       ELSE te' = [te EXCEPT ![check.te].st = "deleted"] /\ check' = [check EXCEPT !.pc = "loop"]
    /\ UNCHANGED <<now, heap, handle_te, manager, submitted, undefined>>

\* Not due: the loop is left, and the timer is not in the heap any more.
NotDue ==
    /\ check.pc = "due" /\ te[check.te].next_tick > check.tick
    /\ check' = Outside
    /\ UNCHANGED <<now, te, heap, handle_te, manager, submitted, undefined>>

\* Due: the heap is popped again, which takes the next timer or is undefined;
\* the callback is submitted, and the timer pushed again or deleted.
Due ==
    /\ check.pc = "due" /\ te[check.te].next_tick <= check.tick
    /\ \/ heap = {} /\ undefined' = TRUE /\ UNCHANGED <<te, heap, handle_te, check, submitted>>
       \/ \E o \in Tops :
            LET e == check.te
                n == IF te[e].calltime = -1 THEN -1 ELSE te[e].calltime - 1
            IN  /\ submitted' = submitted \cup {e} /\ check' = [check EXCEPT !.pc = "loop"]
                /\ IF n # 0
                   THEN /\ te' = [te EXCEPT ![e].calltime = n, ![e].next_tick = check.tick + Interval]
                        /\ heap' = (heap \ {o}) \cup {e} /\ UNCHANGED handle_te
                   ELSE /\ te' = [te EXCEPT ![e].calltime = n, ![e].st = "deleted"]
                        /\ heap' = heap \ {o} /\ handle_te' = handle_te \ {e}
                /\ UNCHANGED undefined
    /\ UNCHANGED <<now, manager>>

CheckTimer == EnterCheck \/ PopTop \/ LookUp \/ NotDue \/ Due

Next ==
    \/ Tick \/ CheckTimer
    \/ \E e \in Events, n \in CallTimes : Create(e, n)
    \/ \E id \in DOMAIN handle_ : Destroy(id)

\* The clock runs, and the thread of the dispatcher goes on.
Spec == Init /\ [][Next]_vars /\ WF_vars(Tick) /\ WF_vars(CheckTimer)

\* A timer that is wanted is called once its time has come.  (EventDispatch::
\* _CheckTimer, TimerEvent)
TimerFires == \A e \in Events :
    (e \in handle_te /\ te[e].next_tick <= MaxTick) ~> (e \notin handle_te \/ e \in submitted \/ undefined)
=============================================================================
