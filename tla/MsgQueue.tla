------------------------------- MODULE MsgQueue -------------------------------
(***************************************************************************)
(* The two-list message queue of base/msgqueue.c, at the grain of its      *)
(* mutex and condition-variable calls.  Consumers share the list get_head  *)
(* points to, under get_mutex; producers share the list put_head points    *)
(* to, under put_mutex; a consumer that finds its list empty swaps the two *)
(* while it holds both.  A linked list is a sequence here, and put_tail,   *)
(* which always points to the last link of the put list, is its end.       *)
(*                                                                         *)
(* pc names the next statement of a thread.  A condition variable's        *)
(* waiters are the threads whose pc is the matching "..._wait".            *)
(***************************************************************************)
EXTENDS Integers, Sequences, SequencesExt, FiniteSets

CONSTANTS Threads,      \* the threads that call the queue
          Msgs,         \* the messages; each is in one place at a time
          NoMsg, NoThread,
          Ops,          \* Ops[t]: the functions of msgqueue.h t calls
          MaxLen,       \* msg_max
          SizeMax       \* the largest size_t

OpNames == {"put", "put_head", "get", "set_nonblock", "set_block"}

ASSUME QueueAssumption ==
    /\ NoMsg \notin Msgs /\ NoThread \notin Threads
    /\ Ops \in [Threads -> SUBSET OpNames]
    /\ SizeMax \in Nat \ {0} /\ MaxLen \in 0 .. SizeMax

VARIABLES lists,        \* the two lists, by the head (head1, head2) they hang off
          get_head, put_head,
          msg_cnt, nonblock,
          get_mutex, put_mutex,     \* the owner, or NoThread
          pc,
          arg           \* the message a call carries in, or brings back

vars == <<lists, get_head, put_head, msg_cnt, nonblock, get_mutex, put_mutex,
          pc, arg>>

Heads == {1, 2}

\* Mutant: swap does not save get_head before it moves it.
OtherNotSaved(h) == h

\* The list that list h is swapped with.
Other(h) == 3 - h

\* Mutant: the limit is one message too high.
LimitOffByOne == IF MaxLen = 0 THEN SizeMax ELSE MaxLen

\* msg_max - 1 is computed in size_t: a queue created with maxlen 0 is unbounded.
Limit == IF MaxLen = 0 THEN SizeMax ELSE MaxLen - 1
Full == msg_cnt > Limit

\* The program counters of a call that carries a message in.
PutPcs == {"put_lock", "put_check", "put_wait",
           "head_lock", "head_peek", "head_try", "head_check", "head_wait",
           "head_relock", "head_push"}
GetPcs == {"get_lock", "get_peek", "swap_lock", "swap_check", "swap_wait",
           "take", "get_unlock"}
Pcs == {"idle", "signal", "got", "set_lock", "set_held"} \cup PutPcs \cup GetPcs

\* Program counters between the lock and the unlock of each mutex.
HoldsGet == {"get_peek", "swap_lock", "swap_check", "swap_wait", "take",
             "get_unlock", "head_push"}
HoldsPut == {"put_check", "head_peek", "head_try", "head_check", "swap_check",
             "set_held"}
\* A consumer between get_head = put_head and put_head = its saved get_head.
Swapping == {"swap_lock", "swap_check", "swap_wait"}

GetWaiters == {t \in Threads : pc[t] = "swap_wait"}
PutWaiters == {t \in Threads : pc[t] \in {"put_wait", "head_wait"}}

\* A woken thread leaves the wait set and contends for put_mutex again.
Woken(p) == CASE p = "swap_wait" -> "swap_lock"
              [] p = "put_wait"  -> "put_lock"
              [] p = "head_wait" -> "head_relock"

\* Thread t goes on at p and the threads of W are woken.
Goto(t, p, W) ==
    pc' = [u \in Threads |-> IF u = t THEN p
                             ELSE IF u \in W THEN Woken(pc[u]) ELSE pc[u]]

\* Mutant: put and set_nonblock signal nobody.
SignalForgotten == {{}}

\* pthread_cond_signal on get_cond wakes one waiter, if there is one.
GetCondSignal == IF GetWaiters = {} THEN {{}} ELSE {{u} : u \in GetWaiters}

\* Mutant: swap resets msg_cnt before it tests it.
SwapTestsTooLate == IF 0 > Limit THEN PutWaiters ELSE {}

\* swap broadcasts put_cond if the list it takes away was full.
SwapBroadcast == IF Full THEN PutWaiters ELSE {}

\* The messages that are in no list and in nobody's hands.
FreeMsgs == {m \in Msgs : /\ \A h \in Heads : m \notin ToSet(lists[h])
                          /\ \A t \in Threads : arg[t] # m}

Init ==
    /\ lists = [h \in Heads |-> <<>>]
    /\ get_head = 1
    /\ put_head = 2
    /\ msg_cnt = 0
    /\ nonblock = FALSE
    /\ get_mutex = NoThread
    /\ put_mutex = NoThread
    /\ pc = [t \in Threads |-> "idle"]
    /\ arg = [t \in Threads |-> NoMsg]

-----------------------------------------------------------------------------
(* Calls, and the lock operations the functions share.                     *)

\* A thread calls put or put_head with a message nobody has, or calls get.
Call(t) ==
    /\ pc[t] = "idle"
    /\ \/ \E m \in FreeMsgs :
             /\ \/ "put" \in Ops[t] /\ Goto(t, "put_lock", {})
                \/ "put_head" \in Ops[t] /\ Goto(t, "head_lock", {})
             /\ arg' = [arg EXCEPT ![t] = m]
       \/ "get" \in Ops[t] /\ Goto(t, "get_lock", {}) /\ UNCHANGED arg
    /\ UNCHANGED <<lists, get_head, put_head, msg_cnt, nonblock, get_mutex,
                   put_mutex>>

LockPut(t) ==
    /\ put_mutex = NoThread
    /\ \/ pc[t] = "put_lock"    /\ Goto(t, "put_check", {})
       \/ pc[t] = "head_lock"   /\ Goto(t, "head_peek", {})
       \/ pc[t] = "head_relock" /\ Goto(t, "head_check", {})
       \/ pc[t] = "swap_lock"   /\ Goto(t, "swap_check", {})
       \/ pc[t] = "set_lock"    /\ Goto(t, "set_held", {})
    /\ put_mutex' = t
    /\ UNCHANGED <<lists, get_head, put_head, msg_cnt, nonblock, get_mutex, arg>>

\* POSIX lets a condition wait return without a signal.
SpuriousWakeup(t) ==
    /\ t \in GetWaiters \cup PutWaiters
    /\ Goto(t, Woken(pc[t]), {})
    /\ UNCHANGED <<lists, get_head, put_head, msg_cnt, nonblock, get_mutex,
                   put_mutex, arg>>

\* The signal on get_cond that put and put_head send after the unlock.
SignalGet(t) ==
    /\ pc[t] = "signal"
    /\ \E W \in GetCondSignal : Goto(t, "idle", W)
    /\ UNCHANGED <<lists, get_head, put_head, msg_cnt, nonblock, get_mutex,
                   put_mutex, arg>>

-----------------------------------------------------------------------------
(* msgqueue_put and msgqueue_put_head.                                     *)

\* The common loop: wait on put_cond while the put list is full.
PutWait(t) ==
    /\ Full /\ ~nonblock
    /\ \/ pc[t] = "put_check"  /\ Goto(t, "put_wait", {})
       \/ pc[t] = "head_check" /\ Goto(t, "head_wait", {})
    /\ put_mutex' = NoThread
    /\ UNCHANGED <<lists, get_head, put_head, msg_cnt, nonblock, get_mutex, arg>>

\* put links at put_tail, put_head at *put_head; both count and unlock.
PutLink(t) ==
    /\ ~Full \/ nonblock
    /\ \/ /\ pc[t] = "put_check"
          /\ lists' = [lists EXCEPT ![put_head] = Append(@, arg[t])]
       \/ /\ pc[t] = "head_check"
          /\ lists' = [lists EXCEPT ![put_head] = <<arg[t]>> \o @]
    /\ msg_cnt' = msg_cnt + 1
    /\ put_mutex' = NoThread
    /\ Goto(t, "signal", {})
    /\ arg' = [arg EXCEPT ![t] = NoMsg]
    /\ UNCHANGED <<get_head, put_head, nonblock, get_mutex>>

\* put_head looks at *get_head without get_mutex ...
HeadPeek(t) ==
    /\ pc[t] = "head_peek"
    /\ Goto(t, IF lists[get_head] # <<>> THEN "head_try" ELSE "head_check", {})
    /\ UNCHANGED <<lists, get_head, put_head, msg_cnt, nonblock, get_mutex,
                   put_mutex, arg>>

\* ... and spins on trylock(get_mutex), holding put_mutex, as long as it sees a message.
HeadTry(t) ==
    /\ pc[t] = "head_try"
    /\ \/ /\ get_mutex = NoThread
          /\ get_mutex' = t
          /\ put_mutex' = NoThread
          /\ Goto(t, "head_push", {})
       \/ /\ get_mutex # NoThread
          /\ Goto(t, "head_peek", {})
          /\ UNCHANGED <<get_mutex, put_mutex>>
    /\ UNCHANGED <<lists, get_head, put_head, msg_cnt, nonblock, arg>>

\* It then links the message in front of the get list, which msg_cnt does not count.
HeadPush(t) ==
    /\ pc[t] = "head_push"
    /\ lists' = [lists EXCEPT ![get_head] = <<arg[t]>> \o @]
    /\ get_mutex' = NoThread
    /\ Goto(t, "idle", {})
    /\ arg' = [arg EXCEPT ![t] = NoMsg]
    /\ UNCHANGED <<get_head, put_head, msg_cnt, nonblock, put_mutex>>

-----------------------------------------------------------------------------
(* msgqueue_get and __msgqueue_swap.                                       *)

GetLock(t) ==
    /\ pc[t] = "get_lock"
    /\ get_mutex = NoThread
    /\ get_mutex' = t
    /\ Goto(t, "get_peek", {})
    /\ UNCHANGED <<lists, get_head, put_head, msg_cnt, nonblock, put_mutex, arg>>

\* An empty get list starts a swap: get_head moves before put_mutex is taken.
GetPeek(t) ==
    /\ pc[t] = "get_peek"
    /\ \/ /\ lists[get_head] # <<>>
          /\ Goto(t, "take", {})
          /\ UNCHANGED get_head
       \/ /\ lists[get_head] = <<>>
          /\ get_head' = put_head
          /\ Goto(t, "swap_lock", {})
    /\ UNCHANGED <<lists, put_head, msg_cnt, nonblock, get_mutex, put_mutex, arg>>

SwapWait(t) ==
    /\ pc[t] = "swap_check"
    /\ msg_cnt = 0 /\ ~nonblock
    /\ put_mutex' = NoThread
    /\ Goto(t, "swap_wait", {})
    /\ UNCHANGED <<lists, get_head, put_head, msg_cnt, nonblock, get_mutex, arg>>

\* The saved get_head is the list the put list is not.
Swap(t) ==
    /\ pc[t] = "swap_check"
    /\ msg_cnt > 0 \/ nonblock
    /\ put_head' = Other(put_head)
    /\ msg_cnt' = 0
    /\ put_mutex' = NoThread
    /\ Goto(t, IF msg_cnt > 0 THEN "take" ELSE "get_unlock",
            SwapBroadcast)
    /\ UNCHANGED <<lists, get_head, nonblock, get_mutex, arg>>

\* Mutant: get forgets to unlink the message it returns.
TakeKeeps(t) ==
    /\ pc[t] = "take"
    /\ arg' = [arg EXCEPT ![t] = Head(lists[get_head])]
    /\ get_mutex' = NoThread
    /\ Goto(t, "got", {})
    /\ UNCHANGED <<lists, get_head, put_head, msg_cnt, nonblock, put_mutex>>

\* Mutant: get unlinks the message at the tail.
TakeNewest(t) ==
    /\ pc[t] = "take"
    /\ arg' = [arg EXCEPT ![t] = Last(lists[get_head])]
    /\ lists' = [lists EXCEPT ![get_head] = Front(@)]
    /\ get_mutex' = NoThread
    /\ Goto(t, "got", {})
    /\ UNCHANGED <<get_head, put_head, msg_cnt, nonblock, put_mutex>>

Take(t) ==
    /\ pc[t] = "take"
    /\ arg' = [arg EXCEPT ![t] = Head(lists[get_head])]
    /\ lists' = [lists EXCEPT ![get_head] = Tail(@)]
    /\ get_mutex' = NoThread
    /\ Goto(t, "got", {})
    /\ UNCHANGED <<get_head, put_head, msg_cnt, nonblock, put_mutex>>

\* get returns NULL.
GetNothing(t) ==
    /\ pc[t] = "get_unlock"
    /\ get_mutex' = NoThread
    /\ Goto(t, "idle", {})
    /\ UNCHANGED <<lists, get_head, put_head, msg_cnt, nonblock, put_mutex, arg>>

\* The caller has used the message and frees it.
Consume(t) ==
    /\ pc[t] = "got"
    /\ arg' = [arg EXCEPT ![t] = NoMsg]
    /\ Goto(t, "idle", {})
    /\ UNCHANGED <<lists, get_head, put_head, msg_cnt, nonblock, get_mutex,
                   put_mutex>>

-----------------------------------------------------------------------------
(* msgqueue_set_nonblock and msgqueue_set_block.                           *)

\* nonblock is written before put_mutex is taken.
SetNonblock(t) ==
    /\ pc[t] = "idle" /\ "set_nonblock" \in Ops[t]
    /\ nonblock' = TRUE
    /\ Goto(t, "set_lock", {})
    /\ UNCHANGED <<lists, get_head, put_head, msg_cnt, get_mutex, put_mutex, arg>>

SetNonblockWake(t) ==
    /\ pc[t] = "set_held"
    /\ \E W \in GetCondSignal : Goto(t, "idle", W \cup PutWaiters)
    /\ put_mutex' = NoThread
    /\ UNCHANGED <<lists, get_head, put_head, msg_cnt, nonblock, get_mutex, arg>>

SetBlock(t) ==
    /\ pc[t] = "idle" /\ "set_block" \in Ops[t]
    /\ nonblock' = FALSE
    /\ UNCHANGED <<lists, get_head, put_head, msg_cnt, get_mutex, put_mutex, pc,
                   arg>>

-----------------------------------------------------------------------------
\* The steps a thread takes inside a call, other than waiting for a mutex.
Inside(t) ==
    \/ SignalGet(t) \/ PutWait(t) \/ PutLink(t)
    \/ HeadPeek(t) \/ HeadTry(t) \/ HeadPush(t)
    \/ GetPeek(t) \/ SwapWait(t) \/ Swap(t) \/ Take(t) \/ GetNothing(t)
    \/ Consume(t) \/ SetNonblockWake(t)

Next == \E t \in Threads :
            \/ Call(t) \/ LockPut(t) \/ GetLock(t) \/ SpuriousWakeup(t)
            \/ Inside(t) \/ SetNonblock(t) \/ SetBlock(t)

Spec == Init /\ [][Next]_vars

\* A thread inside a call goes on; a mutex that is freed again and again is in
\* the end given to each thread that waits for it; a consumer calls get again.
Fairness ==
    \A t \in Threads :
        /\ WF_vars(Inside(t))
        /\ SF_vars(LockPut(t))
        /\ "get" \in Ops[t] => SF_vars(GetLock(t)) /\ WF_vars(Call(t))

FairSpec == Spec /\ Fairness

-----------------------------------------------------------------------------
(* Properties.                                                             *)

TypeOK ==
    /\ lists \in [Heads -> Seq(Msgs)]
    /\ get_head \in Heads /\ put_head \in Heads
    /\ msg_cnt \in Nat /\ nonblock \in BOOLEAN
    /\ get_mutex \in Threads \cup {NoThread}
    /\ put_mutex \in Threads \cup {NoThread}
    /\ pc \in [Threads -> Pcs]
    /\ arg \in [Threads -> Msgs \cup {NoMsg}]

\* get_head is written, and *get_head read, outside put_mutex; this is why it
\* is safe: the list a swap leaves behind is empty, only the swapping consumer
\* sees the two heads on one list, and msg_cnt counts exactly the put list.
SwapSafe ==
    /\ msg_cnt = Len(lists[put_head])
    /\ get_head = put_head <=> \E t \in Threads : pc[t] \in Swapping
    /\ get_head = put_head => lists[Other(put_head)] = <<>>
    /\ \A t \in Threads : pc[t] = "take" => lists[get_head] # <<>>

\* Waiting threads have something to wait for, or a wakeup is on its way: the
\* signal after put's unlock, the one broadcast in swap and the unlocked write
\* of nonblock lose no wakeup.
WakeupNotLost ==
    /\ GetWaiters # {} =>
          /\ msg_cnt = 0 \/ \E t \in Threads : pc[t] = "signal"
          /\ ~nonblock \/ \E t \in Threads : pc[t] \in {"set_lock", "set_held"}
    /\ PutWaiters # {} =>
          /\ Full
          /\ ~nonblock \/ \E t \in Threads : pc[t] \in {"set_lock", "set_held"}

\* The header: at most two times maxlen messages pend in blocking mode.  It
\* holds for a queue that nobody puts back into blocking mode, and on which
\* nobody calls put_head: that adds to the get list without counting.
PendingBound ==
    (MaxLen > 0 /\ ~nonblock
        /\ \A t \in Threads : Ops[t] \cap {"put_head", "set_block"} = {})
    => Len(lists[1]) + Len(lists[2]) <= 2 * MaxLen

\* The messages in the order the consumers will get them.
Pending == IF get_head = put_head THEN lists[put_head]
                                  ELSE lists[get_head] \o lists[put_head]

Abstract == INSTANCE TaskQueue WITH
    HeadThreads <- {t \in Threads : "put_head" \in Ops[t]},
    queue    <- Pending,
    offered  <- [t \in Threads |-> IF pc[t] \in PutPcs THEN arg[t] ELSE NoMsg],
    received <- [t \in Threads |-> IF pc[t] = "got" THEN arg[t] ELSE NoMsg]

\* The two lists and the swap are one FIFO queue to the callers: no message is
\* lost, delivered twice or overtaken.
ImplementsTaskQueue == Abstract!Spec

\* What the other claims rest on: the types, and that a message is in one place, in
\* a list or with the caller that puts or has got it.
Consistent == TypeOK /\ Abstract!OnePlace

Callers(op) == {t \in Threads : op \in Ops[t]}

\* A message that has been put is delivered to a consumer.
Delivered ==
    \A m \in Msgs : (\E h \in Heads : m \in ToSet(lists[h]))
                        ~> (\E t \in Threads : pc[t] = "got" /\ arg[t] = m)

\* While a producer is inside put, some producer gets through: a full queue is
\* never the end.  (One producer may be overtaken for ever: put_cond is a
\* broadcast and the woken threads race.)
PutProgress ==
    (\E t \in Threads : pc[t] \in PutPcs) ~> (\E t \in Threads : pc[t] = "signal")

\* "the consumer waits till put_list is not empty, and swap two lists": a
\* consumer that swaps while messages are there completes the swap.
SwapCompletes ==
    \A t \in Callers("get") :
        (pc[t] \in Swapping /\ msg_cnt > 0) ~> pc[t] \notin Swapping

\* set_nonblock makes every blocked get and put return: thread-pool shutdown
\* relies on it to empty the pool.
NonblockReleases ==
    \A t \in Callers("get") \cup Callers("put") :
        (nonblock /\ pc[t] \in GetPcs \cup PutPcs) ~> pc[t] \in {"idle", "signal", "got"}

\* Nobody is left waiting: puts get through a full queue, swaps complete and
\* set_nonblock lets everybody go.
Progress == PutProgress /\ SwapCompletes /\ NonblockReleases
=============================================================================
