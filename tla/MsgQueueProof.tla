----------------------------- MODULE MsgQueueProof -----------------------------
(***************************************************************************)
(* Proofs about MsgQueue, for any set of threads, any repertoire of calls, *)
(* any queue length and any set of messages.  The inductive invariant adds *)
(* to the checked ones who owns which mutex at which statement (LockInv),  *)
(* that a call carries a message (ArgInv), and how many messages   *)
(* each list holds when nobody leaves blocking mode (BoundInv).            *)
(***************************************************************************)
EXTENDS MsgQueue, SequenceTheorems, TLAPS

\* A thread owns a mutex exactly between the statements that lock and unlock it.
LockInv ==
    \A t \in Threads : /\ get_mutex = t <=> pc[t] \in HoldsGet
                       /\ put_mutex = t <=> pc[t] \in HoldsPut

ArgInv == \A t \in Threads : pc[t] \in PutPcs \cup {"got"} => arg[t] \in Msgs

\* Only a thread that may call put_head is ever inside it.
OpsInv ==
    \A t \in Threads :
        pc[t] \in {"head_lock", "head_peek", "head_try", "head_check",
                   "head_wait", "head_relock", "head_push"} => "put_head" \in Ops[t]

\* The queue has been in blocking mode from the start, and nobody may call put_head.
BlockingMode ==
    ~nonblock /\ \A t \in Threads : Ops[t] \cap {"put_head", "set_block"} = {}

BoundInv ==
    (MaxLen > 0 /\ BlockingMode) => \A h \in Heads : Len(lists[h]) <= MaxLen

IInv == /\ TypeOK /\ LockInv /\ ArgInv
        /\ SwapSafe /\ WakeupNotLost /\ OpsInv /\ BoundInv

-----------------------------------------------------------------------------
USE QueueAssumption

LEMMA LimitType == Limit \in Nat /\ (MaxLen > 0 => Limit = MaxLen - 1)
BY DEF Limit

LEMMA InitIInv == Init => IInv
<1> SUFFICES ASSUME Init PROVE IInv
  OBVIOUS
<1>1. TypeOK
  <2>1. lists \in [Heads -> Seq(Msgs)]
    BY DEF Init
  <2>2. pc \in [Threads -> Pcs] /\ arg \in [Threads -> Msgs \cup {NoMsg}]
    BY DEF Init, Pcs
  <2> QED
    BY <2>1, <2>2 DEF Init, TypeOK, Heads
<1>2. LockInv /\ ArgInv /\ OpsInv
  BY DEF Init, LockInv, ArgInv, OpsInv, HoldsGet, HoldsPut, PutPcs
<1>3. SwapSafe
  BY DEF Init, SwapSafe, Heads, Other, Swapping
<1>4. WakeupNotLost
  BY DEF Init, WakeupNotLost, GetWaiters, PutWaiters
<1>5. BoundInv
  BY DEF Init, BoundInv, Heads
<1> QED
  BY <1>1, <1>2, <1>3, <1>4, <1>5 DEF IInv

\* Every step but a swap, a put, a push and a take leaves the lists alone, and
\* each of those keeps them sequences of messages.
LEMMA TypePreserved == TypeOK /\ ArgInv /\ SwapSafe /\ [Next]_vars => TypeOK'
<1> SUFFICES ASSUME TypeOK, ArgInv, SwapSafe, [Next]_vars PROVE TypeOK'
  OBVIOUS
<1> USE DEF TypeOK, Heads
<1>1. ASSUME NEW t \in Threads, Call(t) PROVE TypeOK'
  BY <1>1 DEF Call, Goto, FreeMsgs, Pcs, PutPcs, GetPcs
<1>2. ASSUME NEW t \in Threads, LockPut(t) PROVE TypeOK'
  BY <1>2 DEF LockPut, Goto, Pcs, PutPcs, GetPcs
<1>3. ASSUME NEW t \in Threads, GetLock(t) PROVE TypeOK'
  BY <1>3 DEF GetLock, Goto, Pcs, GetPcs
<1>4. ASSUME NEW t \in Threads, SpuriousWakeup(t) PROVE TypeOK'
  BY <1>4 DEF SpuriousWakeup, Goto, Woken, GetWaiters, PutWaiters, Pcs, PutPcs, GetPcs
<1>5. ASSUME NEW t \in Threads, SignalGet(t) PROVE TypeOK'
  BY <1>5 DEF SignalGet, Goto, Woken, GetCondSignal, GetWaiters, Pcs, GetPcs
<1>6. ASSUME NEW t \in Threads, PutWait(t) PROVE TypeOK'
  BY <1>6 DEF PutWait, Goto, Pcs, PutPcs
<1>7. ASSUME NEW t \in Threads, PutLink(t) PROVE TypeOK'
  <2>1. arg[t] \in Msgs
    BY <1>7 DEF PutLink, ArgInv, PutPcs
  <2>2. /\ Append(lists[put_head], arg[t]) \in Seq(Msgs)
        /\ <<arg[t]>> \o lists[put_head] \in Seq(Msgs)
    BY <2>1
  <2>4. lists' \in [Heads -> Seq(Msgs)]
    BY <1>7, <2>2 DEF PutLink
  <2>3. pc' \in [Threads -> Pcs] /\ arg' \in [Threads -> Msgs \cup {NoMsg}]
    BY <1>7 DEF PutLink, Goto, Pcs
  <2> QED
    BY <1>7, <2>3, <2>4 DEF PutLink
<1>8. ASSUME NEW t \in Threads, HeadPeek(t) PROVE TypeOK'
  BY <1>8 DEF HeadPeek, Goto, Pcs, PutPcs
<1>9. ASSUME NEW t \in Threads, HeadTry(t) PROVE TypeOK'
  BY <1>9 DEF HeadTry, Goto, Pcs, PutPcs
<1>10. ASSUME NEW t \in Threads, HeadPush(t) PROVE TypeOK'
  <2>1. arg[t] \in Msgs
    BY <1>10 DEF HeadPush, ArgInv, PutPcs
  <2>2. lists' \in [Heads -> Seq(Msgs)]
    BY <1>10, <2>1 DEF HeadPush
  <2> QED
    BY <1>10, <2>2 DEF HeadPush, Goto, Pcs
<1>11. ASSUME NEW t \in Threads, GetPeek(t) PROVE TypeOK'
  BY <1>11 DEF GetPeek, Goto, Pcs, GetPcs
<1>12. ASSUME NEW t \in Threads, SwapWait(t) PROVE TypeOK'
  BY <1>12 DEF SwapWait, Goto, Pcs, GetPcs
<1>13. ASSUME NEW t \in Threads, Swap(t) PROVE TypeOK'
  BY <1>13 DEF Swap, SwapBroadcast, Goto, Woken, PutWaiters, Other, Pcs, PutPcs, GetPcs
<1>14. ASSUME NEW t \in Threads, Take(t) PROVE TypeOK'
  <2>1. lists[get_head] # <<>>
    BY <1>14 DEF Take, SwapSafe
  <2>2. Head(lists[get_head]) \in Msgs /\ Tail(lists[get_head]) \in Seq(Msgs)
    BY <2>1
  <2> QED
    BY <1>14, <2>2 DEF Take, Goto, Pcs
<1>15. ASSUME NEW t \in Threads, GetNothing(t) PROVE TypeOK'
  BY <1>15 DEF GetNothing, Goto, Pcs
<1>16. ASSUME NEW t \in Threads, Consume(t) PROVE TypeOK'
  BY <1>16 DEF Consume, Goto, Pcs
<1>17. ASSUME NEW t \in Threads, SetNonblock(t) PROVE TypeOK'
  BY <1>17 DEF SetNonblock, Goto, Pcs
<1>18. ASSUME NEW t \in Threads, SetNonblockWake(t) PROVE TypeOK'
  BY <1>18 DEF SetNonblockWake, Goto, Woken, GetCondSignal, GetWaiters, PutWaiters,
               Pcs, PutPcs, GetPcs
<1>19. ASSUME NEW t \in Threads, SetBlock(t) PROVE TypeOK'
  BY <1>19 DEF SetBlock
<1>20. CASE UNCHANGED vars
  BY <1>20 DEF vars
<1> QED
  BY <1>1, <1>2, <1>3, <1>4, <1>5, <1>6, <1>7, <1>8, <1>9, <1>10, <1>11, <1>12,
     <1>13, <1>14, <1>15, <1>16, <1>17, <1>18, <1>19, <1>20 DEF Next, Inside

\* Mutual exclusion on both mutexes; a waiter on get_cond still owns get_mutex.
LEMMA LockPreserved == TypeOK /\ LockInv /\ [Next]_vars => LockInv'
<1> SUFFICES ASSUME TypeOK, LockInv, [Next]_vars PROVE LockInv'
  OBVIOUS
<1> USE DEF TypeOK, LockInv, HoldsGet, HoldsPut
<1>1. ASSUME NEW t \in Threads, Call(t) PROVE LockInv'
  BY <1>1 DEF Call, Goto
<1>2. ASSUME NEW t \in Threads, LockPut(t) PROVE LockInv'
  BY <1>2 DEF LockPut, Goto
<1>3. ASSUME NEW t \in Threads, GetLock(t) PROVE LockInv'
  BY <1>3 DEF GetLock, Goto
<1>4. ASSUME NEW t \in Threads, SpuriousWakeup(t) PROVE LockInv'
  BY <1>4 DEF SpuriousWakeup, Goto, Woken, GetWaiters, PutWaiters
<1>5. ASSUME NEW t \in Threads, SignalGet(t) PROVE LockInv'
  BY <1>5 DEF SignalGet, Goto, Woken, GetCondSignal, GetWaiters
<1>6. ASSUME NEW t \in Threads, PutWait(t) PROVE LockInv'
  BY <1>6 DEF PutWait, Goto
<1>7. ASSUME NEW t \in Threads, PutLink(t) PROVE LockInv'
  BY <1>7 DEF PutLink, Goto
<1>8. ASSUME NEW t \in Threads, HeadPeek(t) PROVE LockInv'
  BY <1>8 DEF HeadPeek, Goto
<1>9. ASSUME NEW t \in Threads, HeadTry(t) PROVE LockInv'
  BY <1>9 DEF HeadTry, Goto
<1>10. ASSUME NEW t \in Threads, HeadPush(t) PROVE LockInv'
  BY <1>10 DEF HeadPush, Goto
<1>11. ASSUME NEW t \in Threads, GetPeek(t) PROVE LockInv'
  BY <1>11 DEF GetPeek, Goto
<1>12. ASSUME NEW t \in Threads, SwapWait(t) PROVE LockInv'
  BY <1>12 DEF SwapWait, Goto
<1>13. ASSUME NEW t \in Threads, Swap(t) PROVE LockInv'
  BY <1>13 DEF Swap, SwapBroadcast, Goto, Woken, PutWaiters
<1>14. ASSUME NEW t \in Threads, Take(t) PROVE LockInv'
  BY <1>14 DEF Take, Goto
<1>15. ASSUME NEW t \in Threads, GetNothing(t) PROVE LockInv'
  BY <1>15 DEF GetNothing, Goto
<1>16. ASSUME NEW t \in Threads, Consume(t) PROVE LockInv'
  BY <1>16 DEF Consume, Goto
<1>17. ASSUME NEW t \in Threads, SetNonblock(t) PROVE LockInv'
  BY <1>17 DEF SetNonblock, Goto
<1>18. ASSUME NEW t \in Threads, SetNonblockWake(t) PROVE LockInv'
  BY <1>18 DEF SetNonblockWake, Goto, Woken, GetCondSignal, GetWaiters, PutWaiters
<1>19. ASSUME NEW t \in Threads, SetBlock(t) PROVE LockInv'
  BY <1>19 DEF SetBlock
<1>20. CASE UNCHANGED vars
  BY <1>20 DEF vars
<1> QED
  BY <1>1, <1>2, <1>3, <1>4, <1>5, <1>6, <1>7, <1>8, <1>9, <1>10, <1>11, <1>12,
     <1>13, <1>14, <1>15, <1>16, <1>17, <1>18, <1>19, <1>20 DEF Next, Inside

\* A call keeps its message until it has linked it, and get brings one back.
LEMMA ArgPreserved == TypeOK /\ ArgInv /\ SwapSafe /\ [Next]_vars => ArgInv'
<1> SUFFICES ASSUME TypeOK, ArgInv, SwapSafe, [Next]_vars PROVE ArgInv'
  OBVIOUS
<1> USE DEF TypeOK, ArgInv, PutPcs
<1>1. ASSUME NEW t \in Threads, Call(t) PROVE ArgInv'
  BY <1>1 DEF Call, Goto, FreeMsgs
<1>2. ASSUME NEW t \in Threads, LockPut(t) PROVE ArgInv'
  BY <1>2 DEF LockPut, Goto
<1>3. ASSUME NEW t \in Threads, GetLock(t) PROVE ArgInv'
  BY <1>3 DEF GetLock, Goto
<1>4. ASSUME NEW t \in Threads, SpuriousWakeup(t) PROVE ArgInv'
  BY <1>4 DEF SpuriousWakeup, Goto, Woken, GetWaiters, PutWaiters
<1>5. ASSUME NEW t \in Threads, SignalGet(t) PROVE ArgInv'
  BY <1>5 DEF SignalGet, Goto, Woken, GetCondSignal, GetWaiters
<1>6. ASSUME NEW t \in Threads, PutWait(t) PROVE ArgInv'
  BY <1>6 DEF PutWait, Goto
<1>7. ASSUME NEW t \in Threads, PutLink(t) PROVE ArgInv'
  BY <1>7 DEF PutLink, Goto
<1>8. ASSUME NEW t \in Threads, HeadPeek(t) PROVE ArgInv'
  BY <1>8 DEF HeadPeek, Goto
<1>9. ASSUME NEW t \in Threads, HeadTry(t) PROVE ArgInv'
  BY <1>9 DEF HeadTry, Goto
<1>10. ASSUME NEW t \in Threads, HeadPush(t) PROVE ArgInv'
  BY <1>10 DEF HeadPush, Goto
<1>11. ASSUME NEW t \in Threads, GetPeek(t) PROVE ArgInv'
  BY <1>11 DEF GetPeek, Goto
<1>12. ASSUME NEW t \in Threads, SwapWait(t) PROVE ArgInv'
  BY <1>12 DEF SwapWait, Goto
<1>13. ASSUME NEW t \in Threads, Swap(t) PROVE ArgInv'
  BY <1>13 DEF Swap, SwapBroadcast, Goto, Woken, PutWaiters
<1>14. ASSUME NEW t \in Threads, Take(t) PROVE ArgInv'
  <2>1. lists[get_head] \in Seq(Msgs) /\ lists[get_head] # <<>>
    BY <1>14 DEF Take, SwapSafe
  <2>2. Head(lists[get_head]) \in Msgs
    BY <2>1
  <2> QED
    BY <1>14, <2>2 DEF Take, Goto
<1>15. ASSUME NEW t \in Threads, GetNothing(t) PROVE ArgInv'
  BY <1>15 DEF GetNothing, Goto
<1>16. ASSUME NEW t \in Threads, Consume(t) PROVE ArgInv'
  BY <1>16 DEF Consume, Goto
<1>17. ASSUME NEW t \in Threads, SetNonblock(t) PROVE ArgInv'
  BY <1>17 DEF SetNonblock, Goto
<1>18. ASSUME NEW t \in Threads, SetNonblockWake(t) PROVE ArgInv'
  BY <1>18 DEF SetNonblockWake, Goto, Woken, GetCondSignal, GetWaiters, PutWaiters
<1>19. ASSUME NEW t \in Threads, SetBlock(t) PROVE ArgInv'
  BY <1>19 DEF SetBlock
<1>20. CASE UNCHANGED vars
  BY <1>20 DEF vars
<1> QED
  BY <1>1, <1>2, <1>3, <1>4, <1>5, <1>6, <1>7, <1>8, <1>9, <1>10, <1>11, <1>12,
     <1>13, <1>14, <1>15, <1>16, <1>17, <1>18, <1>19, <1>20 DEF Next, Inside

\* Nobody gets inside a function it does not call.
LEMMA OpsPreserved == TypeOK /\ OpsInv /\ [Next]_vars => OpsInv'
<1> SUFFICES ASSUME TypeOK, OpsInv, [Next]_vars PROVE OpsInv'
  OBVIOUS
<1> USE DEF TypeOK, OpsInv
<1>1. ASSUME NEW t \in Threads, Call(t) PROVE OpsInv'
  BY <1>1 DEF Call, Goto
<1>2. ASSUME NEW t \in Threads, LockPut(t) PROVE OpsInv'
  BY <1>2 DEF LockPut, Goto
<1>3. ASSUME NEW t \in Threads, GetLock(t) PROVE OpsInv'
  BY <1>3 DEF GetLock, Goto
<1>4. ASSUME NEW t \in Threads, SpuriousWakeup(t) PROVE OpsInv'
  BY <1>4 DEF SpuriousWakeup, Goto, Woken, GetWaiters, PutWaiters
<1>5. ASSUME NEW t \in Threads, SignalGet(t) PROVE OpsInv'
  BY <1>5 DEF SignalGet, Goto, Woken, GetCondSignal, GetWaiters
<1>6. ASSUME NEW t \in Threads, PutWait(t) PROVE OpsInv'
  BY <1>6 DEF PutWait, Goto
<1>7. ASSUME NEW t \in Threads, PutLink(t) PROVE OpsInv'
  BY <1>7 DEF PutLink, Goto
<1>8. ASSUME NEW t \in Threads, HeadPeek(t) PROVE OpsInv'
  BY <1>8 DEF HeadPeek, Goto
<1>9. ASSUME NEW t \in Threads, HeadTry(t) PROVE OpsInv'
  BY <1>9 DEF HeadTry, Goto
<1>10. ASSUME NEW t \in Threads, HeadPush(t) PROVE OpsInv'
  BY <1>10 DEF HeadPush, Goto
<1>11. ASSUME NEW t \in Threads, GetPeek(t) PROVE OpsInv'
  BY <1>11 DEF GetPeek, Goto
<1>12. ASSUME NEW t \in Threads, SwapWait(t) PROVE OpsInv'
  BY <1>12 DEF SwapWait, Goto
<1>13. ASSUME NEW t \in Threads, Swap(t) PROVE OpsInv'
  BY <1>13 DEF Swap, SwapBroadcast, Goto, Woken, PutWaiters
<1>14. ASSUME NEW t \in Threads, Take(t) PROVE OpsInv'
  BY <1>14 DEF Take, Goto
<1>15. ASSUME NEW t \in Threads, GetNothing(t) PROVE OpsInv'
  BY <1>15 DEF GetNothing, Goto
<1>16. ASSUME NEW t \in Threads, Consume(t) PROVE OpsInv'
  BY <1>16 DEF Consume, Goto
<1>17. ASSUME NEW t \in Threads, SetNonblock(t) PROVE OpsInv'
  BY <1>17 DEF SetNonblock, Goto
<1>18. ASSUME NEW t \in Threads, SetNonblockWake(t) PROVE OpsInv'
  BY <1>18 DEF SetNonblockWake, Goto, Woken, GetCondSignal, GetWaiters, PutWaiters
<1>19. ASSUME NEW t \in Threads, SetBlock(t) PROVE OpsInv'
  BY <1>19 DEF SetBlock
<1>20. CASE UNCHANGED vars
  BY <1>20 DEF vars
<1> QED
  BY <1>1, <1>2, <1>3, <1>4, <1>5, <1>6, <1>7, <1>8, <1>9, <1>10, <1>11, <1>12,
     <1>13, <1>14, <1>15, <1>16, <1>17, <1>18, <1>19, <1>20 DEF Next, Inside

\* A signal on get_cond leaves nobody waiting: the waiter owns get_mutex.
LEMMA SignalWakesAll ==
    ASSUME TypeOK, LockInv, NEW W \in GetCondSignal
    PROVE  \A u \in Threads : u \in W <=> pc[u] = "swap_wait"
<1>1. \A u, v \in Threads : pc[u] = "swap_wait" /\ pc[v] = "swap_wait" => u = v
  BY DEF LockInv, HoldsGet
<1>2. CASE GetWaiters = {}
  BY <1>2 DEF GetCondSignal, GetWaiters
<1>3. CASE GetWaiters # {}
  <2>1. PICK w \in GetWaiters : W = {w}
    BY <1>3 DEF GetCondSignal
  <2> QED
    BY <1>1, <2>1 DEF GetWaiters
<1> QED
  BY <1>2, <1>3

\* Only the owner of get_mutex swaps, pushes or takes.
LEMMA SwapPreserved == TypeOK /\ LockInv /\ SwapSafe /\ [Next]_vars => SwapSafe'
<1> SUFFICES ASSUME TypeOK, LockInv, SwapSafe, [Next]_vars PROVE SwapSafe'
  OBVIOUS
<1> USE DEF TypeOK, LockInv, HoldsGet, HoldsPut, SwapSafe, Swapping, Heads, Other
<1>1. ASSUME NEW t \in Threads, Call(t) PROVE SwapSafe'
  BY <1>1 DEF Call, Goto
<1>2. ASSUME NEW t \in Threads, LockPut(t) PROVE SwapSafe'
  BY <1>2 DEF LockPut, Goto
<1>3. ASSUME NEW t \in Threads, GetLock(t) PROVE SwapSafe'
  BY <1>3 DEF GetLock, Goto
<1>4. ASSUME NEW t \in Threads, SpuriousWakeup(t) PROVE SwapSafe'
  BY <1>4 DEF SpuriousWakeup, Goto, Woken, GetWaiters, PutWaiters
<1>5. ASSUME NEW t \in Threads, SignalGet(t) PROVE SwapSafe'
  <2>1. PICK W \in GetCondSignal : Goto(t, "idle", W)
    BY <1>5 DEF SignalGet
  <2>2. \A u \in Threads : u \in W <=> pc[u] = "swap_wait"
    BY <2>1, SignalWakesAll DEF LockInv, HoldsGet, HoldsPut, TypeOK, Heads
  <2>3. \A u \in Threads : /\ pc'[u] \in Swapping <=> pc[u] \in Swapping
                           /\ pc'[u] = "take" <=> pc[u] = "take"
    BY <1>5, <2>1, <2>2 DEF SignalGet, Goto, Woken
  <2> QED
    BY <1>5, <2>3 DEF SignalGet
<1>6. ASSUME NEW t \in Threads, PutWait(t) PROVE SwapSafe'
  BY <1>6 DEF PutWait, Goto
<1>7. ASSUME NEW t \in Threads, PutLink(t) PROVE SwapSafe'
  BY <1>7 DEF PutLink, Goto
<1>8. ASSUME NEW t \in Threads, HeadPeek(t) PROVE SwapSafe'
  BY <1>8 DEF HeadPeek, Goto
<1>9. ASSUME NEW t \in Threads, HeadTry(t) PROVE SwapSafe'
  BY <1>9 DEF HeadTry, Goto
<1>10. ASSUME NEW t \in Threads, HeadPush(t) PROVE SwapSafe'
  BY <1>10 DEF HeadPush, Goto
<1>11. ASSUME NEW t \in Threads, GetPeek(t) PROVE SwapSafe'
  BY <1>11 DEF GetPeek, Goto
<1>12. ASSUME NEW t \in Threads, SwapWait(t) PROVE SwapSafe'
  BY <1>12 DEF SwapWait, Goto
<1>13. ASSUME NEW t \in Threads, Swap(t) PROVE SwapSafe'
  BY <1>13 DEF Swap, SwapBroadcast, Goto, Woken, PutWaiters
<1>14. ASSUME NEW t \in Threads, Take(t) PROVE SwapSafe'
  BY <1>14 DEF Take, Goto
<1>15. ASSUME NEW t \in Threads, GetNothing(t) PROVE SwapSafe'
  BY <1>15 DEF GetNothing, Goto
<1>16. ASSUME NEW t \in Threads, Consume(t) PROVE SwapSafe'
  BY <1>16 DEF Consume, Goto
<1>17. ASSUME NEW t \in Threads, SetNonblock(t) PROVE SwapSafe'
  BY <1>17 DEF SetNonblock, Goto
<1>18. ASSUME NEW t \in Threads, SetNonblockWake(t) PROVE SwapSafe'
  BY <1>18 DEF SetNonblockWake, Goto, Woken, GetCondSignal, GetWaiters, PutWaiters
<1>19. ASSUME NEW t \in Threads, SetBlock(t) PROVE SwapSafe'
  BY <1>19 DEF SetBlock
<1>20. CASE UNCHANGED vars
  BY <1>20 DEF vars
<1> QED
  BY <1>1, <1>2, <1>3, <1>4, <1>5, <1>6, <1>7, <1>8, <1>9, <1>10, <1>11, <1>12,
     <1>13, <1>14, <1>15, <1>16, <1>17, <1>18, <1>19, <1>20 DEF Next, Inside

\* There is one waiter on get_cond at most, so a signal is as good as a broadcast.
LEMMA WakeupPreserved == TypeOK /\ LockInv /\ WakeupNotLost /\ [Next]_vars => WakeupNotLost'
<1> SUFFICES ASSUME TypeOK, LockInv, WakeupNotLost, [Next]_vars PROVE WakeupNotLost'
  OBVIOUS
<1> USE DEF TypeOK, LockInv, HoldsGet, HoldsPut, WakeupNotLost, GetWaiters, PutWaiters, Full
<1>1. ASSUME NEW t \in Threads, Call(t) PROVE WakeupNotLost'
  BY <1>1 DEF Call, Goto
<1>2. ASSUME NEW t \in Threads, LockPut(t) PROVE WakeupNotLost'
  BY <1>2 DEF LockPut, Goto
<1>3. ASSUME NEW t \in Threads, GetLock(t) PROVE WakeupNotLost'
  BY <1>3 DEF GetLock, Goto
<1>4. ASSUME NEW t \in Threads, SpuriousWakeup(t) PROVE WakeupNotLost'
  BY <1>4 DEF SpuriousWakeup, Goto, Woken, GetWaiters, PutWaiters
<1>5. ASSUME NEW t \in Threads, SignalGet(t) PROVE WakeupNotLost'
  <2>1. PICK W \in GetCondSignal : Goto(t, "idle", W)
    BY <1>5 DEF SignalGet
  <2>2. \A u \in Threads : u \in W <=> pc[u] = "swap_wait"
    BY <2>1, SignalWakesAll DEF LockInv, HoldsGet, HoldsPut, TypeOK, Heads
  <2>3. \A u \in Threads :
            /\ pc'[u] # "swap_wait"
            /\ pc'[u] \in {"put_wait", "head_wait"} => pc[u] \in {"put_wait", "head_wait"}
            /\ pc[u] \in {"set_lock", "set_held"} => pc'[u] = pc[u]
    BY <1>5, <2>1, <2>2 DEF SignalGet, Goto, Woken
  <2> QED
    BY <1>5, <2>3 DEF SignalGet
<1>6. ASSUME NEW t \in Threads, PutWait(t) PROVE WakeupNotLost'
  BY <1>6 DEF PutWait, Goto
<1>7. ASSUME NEW t \in Threads, PutLink(t) PROVE WakeupNotLost'
  <2>1. pc' = [pc EXCEPT ![t] = "signal"] /\ t \in Threads
    BY <1>7 DEF PutLink, Goto
  <2>2. PutWaiters' = PutWaiters /\ pc'[t] = "signal"
    BY <1>7, <2>1 DEF PutLink
  <2>3. Full => Full'
    BY <1>7, LimitType DEF PutLink
  <2>4. \A u \in Threads : pc[u] \in {"set_lock", "set_held"} => pc'[u] = pc[u]
    BY <1>7, <2>1 DEF PutLink
  <2>5. GetWaiters' = GetWaiters /\ nonblock' = nonblock
    BY <1>7, <2>1 DEF PutLink
  <2> QED
    BY <2>1, <2>2, <2>3, <2>4, <2>5
<1>8. ASSUME NEW t \in Threads, HeadPeek(t) PROVE WakeupNotLost'
  BY <1>8 DEF HeadPeek, Goto
<1>9. ASSUME NEW t \in Threads, HeadTry(t) PROVE WakeupNotLost'
  BY <1>9 DEF HeadTry, Goto
<1>10. ASSUME NEW t \in Threads, HeadPush(t) PROVE WakeupNotLost'
  BY <1>10 DEF HeadPush, Goto
<1>11. ASSUME NEW t \in Threads, GetPeek(t) PROVE WakeupNotLost'
  BY <1>11 DEF GetPeek, Goto
<1>12. ASSUME NEW t \in Threads, SwapWait(t) PROVE WakeupNotLost'
  BY <1>12 DEF SwapWait, Goto
<1>13. ASSUME NEW t \in Threads, Swap(t) PROVE WakeupNotLost'
  BY <1>13 DEF Swap, SwapBroadcast, Goto, Woken, PutWaiters
<1>14. ASSUME NEW t \in Threads, Take(t) PROVE WakeupNotLost'
  BY <1>14 DEF Take, Goto
<1>15. ASSUME NEW t \in Threads, GetNothing(t) PROVE WakeupNotLost'
  BY <1>15 DEF GetNothing, Goto
<1>16. ASSUME NEW t \in Threads, Consume(t) PROVE WakeupNotLost'
  BY <1>16 DEF Consume, Goto
<1>17. ASSUME NEW t \in Threads, SetNonblock(t) PROVE WakeupNotLost'
  BY <1>17 DEF SetNonblock, Goto
<1>18. ASSUME NEW t \in Threads, SetNonblockWake(t) PROVE WakeupNotLost'
  <2>1. PICK W \in GetCondSignal : Goto(t, "idle", W \cup PutWaiters)
    BY <1>18 DEF SetNonblockWake
  <2>2. \A u \in Threads : u \in W <=> pc[u] = "swap_wait"
    BY <2>1, SignalWakesAll DEF LockInv, HoldsGet, HoldsPut, TypeOK, Heads
  <2>3. \A u \in Threads : pc'[u] \notin {"swap_wait", "put_wait", "head_wait"}
    BY <2>1, <2>2 DEF Goto, Woken
  <2> QED
    BY <2>3
<1>19. ASSUME NEW t \in Threads, SetBlock(t) PROVE WakeupNotLost'
  BY <1>19 DEF SetBlock
<1>20. CASE UNCHANGED vars
  BY <1>20 DEF vars
<1> QED
  BY <1>1, <1>2, <1>3, <1>4, <1>5, <1>6, <1>7, <1>8, <1>9, <1>10, <1>11, <1>12,
     <1>13, <1>14, <1>15, <1>16, <1>17, <1>18, <1>19, <1>20 DEF Next, Inside

\* In blocking mode each list holds maxlen messages at most; a step that leaves
\* the queue in blocking mode found it there, as nobody calls set_block.
LEMMA BoundPreserved == TypeOK /\ LockInv /\ SwapSafe /\ OpsInv /\ BoundInv /\ [Next]_vars => BoundInv'
<1> SUFFICES ASSUME TypeOK, LockInv, SwapSafe, OpsInv, BoundInv, [Next]_vars PROVE BoundInv'
  OBVIOUS
<1> USE DEF TypeOK, SwapSafe, OpsInv, BoundInv, BlockingMode, Heads, Full
<1>1. ASSUME NEW t \in Threads, Call(t) PROVE BoundInv'
  BY <1>1 DEF Call, Goto
<1>2. ASSUME NEW t \in Threads, LockPut(t) PROVE BoundInv'
  BY <1>2 DEF LockPut, Goto
<1>3. ASSUME NEW t \in Threads, GetLock(t) PROVE BoundInv'
  BY <1>3 DEF GetLock, Goto
<1>4. ASSUME NEW t \in Threads, SpuriousWakeup(t) PROVE BoundInv'
  BY <1>4 DEF SpuriousWakeup, Goto, Woken, GetWaiters, PutWaiters
<1>5. ASSUME NEW t \in Threads, SignalGet(t) PROVE BoundInv'
  BY <1>5 DEF SignalGet, Goto, Woken, GetCondSignal, GetWaiters
<1>6. ASSUME NEW t \in Threads, PutWait(t) PROVE BoundInv'
  BY <1>6 DEF PutWait, Goto
<1>7. ASSUME NEW t \in Threads, PutLink(t) PROVE BoundInv'
  <2> SUFFICES ASSUME MaxLen > 0, BlockingMode PROVE \A h \in Heads : Len(lists'[h]) <= MaxLen
    BY <1>7 DEF PutLink
  <2>1. ~nonblock /\ Limit = MaxLen - 1
    BY LimitType
  <2>2. Len(lists[put_head]) <= MaxLen - 1
    BY <1>7, <2>1, LimitType DEF PutLink
  <2>3. /\ Len(Append(lists[put_head], arg[t])) = Len(lists[put_head]) + 1
        /\ Len(<<arg[t]>> \o lists[put_head]) = Len(lists[put_head]) + 1
    OBVIOUS
  <2> QED
    BY <1>7, <2>2, <2>3 DEF PutLink
<1>8. ASSUME NEW t \in Threads, HeadPeek(t) PROVE BoundInv'
  BY <1>8 DEF HeadPeek, Goto
<1>9. ASSUME NEW t \in Threads, HeadTry(t) PROVE BoundInv'
  BY <1>9 DEF HeadTry, Goto
<1>10. ASSUME NEW t \in Threads, HeadPush(t) PROVE BoundInv'
  BY <1>10 DEF HeadPush, Goto
<1>11. ASSUME NEW t \in Threads, GetPeek(t) PROVE BoundInv'
  BY <1>11 DEF GetPeek, Goto
<1>12. ASSUME NEW t \in Threads, SwapWait(t) PROVE BoundInv'
  BY <1>12 DEF SwapWait, Goto
<1>13. ASSUME NEW t \in Threads, Swap(t) PROVE BoundInv'
  BY <1>13 DEF Swap, SwapBroadcast, Goto, Woken, PutWaiters
<1>14. ASSUME NEW t \in Threads, Take(t) PROVE BoundInv'
  BY <1>14 DEF Take, Goto
<1>15. ASSUME NEW t \in Threads, GetNothing(t) PROVE BoundInv'
  BY <1>15 DEF GetNothing, Goto
<1>16. ASSUME NEW t \in Threads, Consume(t) PROVE BoundInv'
  BY <1>16 DEF Consume, Goto
<1>17. ASSUME NEW t \in Threads, SetNonblock(t) PROVE BoundInv'
  BY <1>17 DEF SetNonblock, Goto
<1>18. ASSUME NEW t \in Threads, SetNonblockWake(t) PROVE BoundInv'
  BY <1>18 DEF SetNonblockWake, Goto, Woken, GetCondSignal, GetWaiters, PutWaiters
<1>19. ASSUME NEW t \in Threads, SetBlock(t) PROVE BoundInv'
  BY <1>19 DEF SetBlock
<1>20. CASE UNCHANGED vars
  BY <1>20 DEF vars
<1> QED
  BY <1>1, <1>2, <1>3, <1>4, <1>5, <1>6, <1>7, <1>8, <1>9, <1>10, <1>11, <1>12,
     <1>13, <1>14, <1>15, <1>16, <1>17, <1>18, <1>19, <1>20 DEF Next, Inside

LEMMA IInvPreserved == IInv /\ [Next]_vars => IInv'
BY TypePreserved, LockPreserved, ArgPreserved, OpsPreserved, SwapPreserved,
   WakeupPreserved, BoundPreserved DEF IInv

LEMMA SpecIInv == Spec => []IInv
BY InitIInv, IInvPreserved, PTL DEF Spec

\* The unlocked accesses to get_head are harmless and msg_cnt is exact, however
\* many producers, consumers and put_head callers there are.
THEOREM SwapIsSafe == Spec => []SwapSafe
BY SpecIInv, PTL DEF IInv

\* No wakeup is lost, set_nonblock and set_block included.
THEOREM NoLostWakeup == Spec => []WakeupNotLost
BY SpecIInv, PTL DEF IInv

\* Without put_head, and until set_nonblock, at most two times maxlen messages
\* pend.
THEOREM PendingIsBounded == Spec => []PendingBound
<1>1. IInv => PendingBound
  <2> SUFFICES ASSUME IInv, MaxLen > 0, BlockingMode
               PROVE  Len(lists[1]) + Len(lists[2]) <= 2 * MaxLen
    BY DEF PendingBound, BlockingMode
  <2>1. Len(lists[1]) <= MaxLen /\ Len(lists[2]) <= MaxLen
    BY DEF IInv, BoundInv, Heads
  <2>2. Len(lists[1]) \in Nat /\ Len(lists[2]) \in Nat
    BY DEF IInv, TypeOK, Heads
  <2>3. MaxLen \in Nat
    OBVIOUS
  <2>4. \A a, b, c \in Nat : a <= c /\ b <= c => a + b <= 2 * c
    OBVIOUS
  <2> QED
    BY <2>1, <2>2, <2>3, <2>4
<1> QED
  BY <1>1, SpecIInv, PTL


-----------------------------------------------------------------------------
(* MsgQueue implements TaskQueue.  Sequences first: what a link at either  *)
(* end of a list, or at the seam of the two, does to the messages pending. *)

LEMMA PendingType == TypeOK => Pending \in Seq(Msgs)
BY ConcatProperties DEF TypeOK, Pending

LEMMA SetOfConcat ==
    ASSUME NEW s \in Seq(Msgs), NEW u \in Seq(Msgs), NEW m \in ToSet(s \o u)
    PROVE  m \in ToSet(s) \cup ToSet(u)
<1>1. /\ s \o u \in Seq(Msgs) /\ Len(s \o u) = Len(s) + Len(u)
      /\ \A i \in 1 .. Len(s) + Len(u) :
            (s \o u)[i] = IF i <= Len(s) THEN s[i] ELSE u[i - Len(s)]
  BY ConcatProperties
<1>2. PICK i \in 1 .. Len(s) + Len(u) : m = (s \o u)[i]
  BY <1>1, LenProperties DEF ToSet
<1>3. Len(s) \in Nat /\ Len(u) \in Nat /\ DOMAIN s = 1 .. Len(s) /\ DOMAIN u = 1 .. Len(u)
  BY LenProperties
<1>4. CASE i <= Len(s)
  BY <1>1, <1>2, <1>3, <1>4 DEF ToSet
<1>5. CASE i > Len(s)
  <2>1. i - Len(s) \in DOMAIN u /\ m = u[i - Len(s)]
    BY <1>1, <1>2, <1>3, <1>5
  <2> QED
    BY <2>1 DEF ToSet
<1> QED
  BY <1>2, <1>3, <1>4, <1>5

\* Linking at the tail of the second list appends to both.
LEMMA AppendBehind ==
    ASSUME NEW s \in Seq(Msgs), NEW u \in Seq(Msgs), NEW m \in Msgs
    PROVE  s \o Append(u, m) = Append(s \o u, m)
<1>1. <<m>> \in Seq(Msgs) /\ s \o u \in Seq(Msgs)
  BY ConcatProperties
<1> QED
  BY <1>1, AppendIsConcat, ConcatAssociative

LEMMA InsertUnfolds ==
    \A q, i, m : InsertAt(q, i, m) = (SubSeq(q, 1, i - 1) \o <<m>>) \o SubSeq(q, i, Len(q))
<1> TAKE q, i, m
<1> QED
  BY DEF InsertAt

LEMMA InsertSplits ==
    ASSUME NEW q, NEW i \in Nat, NEW m
    PROVE  InsertAt(q, i + 1, m) = (SubSeq(q, 1, i) \o <<m>>) \o SubSeq(q, i + 1, Len(q))
<1>1. (i + 1) - 1 = i
  OBVIOUS
<1>2. SubSeq(q, 1, (i + 1) - 1) = SubSeq(q, 1, i)
  BY <1>1
<1>3. InsertAt(q, i + 1, m) = (SubSeq(q, 1, (i + 1) - 1) \o <<m>>) \o SubSeq(q, i + 1, Len(q))
  BY InsertUnfolds, Zenon
<1> QED
  BY <1>2, <1>3, Zenon

\* Linking at the head of the second list inserts at the seam.
LEMMA InsertAtSeam ==
    ASSUME NEW s \in Seq(Msgs), NEW u \in Seq(Msgs), NEW m \in Msgs
    PROVE  /\ Len(s) + 1 \in 1 .. Len(s \o u) + 1
           /\ s \o (<<m>> \o u) = InsertAt(s \o u, Len(s) + 1, m)
<1> SUFFICES ASSUME NEW q, q = s \o u
             PROVE  /\ Len(s) + 1 \in 1 .. Len(q) + 1
                    /\ s \o (<<m>> \o u) = InsertAt(q, Len(s) + 1, m)
  OBVIOUS
<1>1. /\ q \in Seq(Msgs) /\ Len(q) = Len(s) + Len(u)
      /\ \A i \in 1 .. Len(s) + Len(u) :
            q[i] = IF i <= Len(s) THEN s[i] ELSE u[i - Len(s)]
  BY ConcatProperties
<1>2. Len(s) \in Nat /\ Len(u) \in Nat
  BY LenProperties
<1>3. SubSeq(q, 1, Len(s)) = s
  <2>1. \A i \in 1 .. Len(s) : q[i] = s[i] /\ q[i] \in Msgs
    BY <1>1, <1>2, ElementOfSeq
  <2>2. /\ SubSeq(q, 1, Len(s)) \in Seq(Msgs)
        /\ Len(SubSeq(q, 1, Len(s))) = Len(s)
        /\ \A i \in 1 .. Len(s) : SubSeq(q, 1, Len(s))[i] = s[i]
    BY <1>2, <2>1, SubSeqProperties
  <2> QED
    BY <2>2, SeqEqual
<1>4. SubSeq(q, Len(s) + 1, Len(q)) = u
  <2>1. \A i \in Len(s) + 1 .. Len(q) : q[i] = u[i - Len(s)] /\ q[i] \in Msgs
    BY <1>1, <1>2, ElementOfSeq
  <2>2. /\ SubSeq(q, Len(s) + 1, Len(q)) \in Seq(Msgs)
        /\ Len(SubSeq(q, Len(s) + 1, Len(q))) = Len(u)
        /\ \A i \in 1 .. Len(u) : SubSeq(q, Len(s) + 1, Len(q))[i] = q[Len(s) + i]
    BY <1>1, <1>2, <2>1, SubSeqProperties
  <2>3. \A i \in 1 .. Len(u) : SubSeq(q, Len(s) + 1, Len(q))[i] = u[i]
    BY <1>1, <1>2, <2>1, <2>2
  <2> QED
    BY <2>2, <2>3, SeqEqual
<1>5. InsertAt(q, Len(s) + 1, m) = (s \o <<m>>) \o u
  <2>1. PICK n \in Nat : n = Len(s)
    BY <1>2
  <2>2. q \in Seq(Msgs) /\ SubSeq(q, 1, n) = s /\ SubSeq(q, n + 1, Len(q)) = u
    BY <1>1, <1>3, <1>4, <2>1
  <2>3. InsertAt(q, n + 1, m) = (SubSeq(q, 1, n) \o <<m>>) \o SubSeq(q, n + 1, Len(q))
    BY InsertSplits, Zenon
  <2> QED
    BY <2>1, <2>2, <2>3, Zenon
<1>6. (s \o <<m>>) \o u = s \o (<<m>> \o u)
  BY ConcatAssociative, <<m>> \in Seq(Msgs)
<1>7. Len(s) + 1 \in 1 .. Len(q) + 1
  BY <1>1, <1>2
<1> QED
  BY <1>5, <1>6, <1>7

\* Linking in front of the first list inserts at 1.
LEMMA InsertAtHead ==
    ASSUME NEW q \in Seq(Msgs), NEW m \in Msgs
    PROVE  1 \in 1 .. Len(q) + 1 /\ <<m>> \o q = InsertAt(q, 1, m)
<1>1. SubSeq(q, 1, 0) = <<>> /\ SubSeq(q, 1, Len(q)) = q
  BY SubSeqEmpty, SubSeqFull
<1>2. <<m>> \in Seq(Msgs) /\ <<>> \o <<m>> = <<m>>
  BY ConcatEmptySeq
<1> QED
  BY <1>1, <1>2, LenProperties DEF InsertAt

\* Linking in front of the first list links in front of both.
LEMMA PushInFront ==
    ASSUME NEW s \in Seq(Msgs), NEW u \in Seq(Msgs), NEW m \in Msgs
    PROVE  (<<m>> \o s) \o u = <<m>> \o (s \o u)
<1>1. <<m>> \in Seq(Msgs)
  OBVIOUS
<1> QED
  BY <1>1, ConcatAssociative

\* Taking from the front of the first list takes from the front of both.
LEMMA TakeInFront ==
    ASSUME NEW s \in Seq(Msgs), NEW u \in Seq(Msgs), s # <<>>
    PROVE  /\ s \o u # <<>>
           /\ Head(s \o u) = Head(s)
           /\ Tail(s \o u) = Tail(s) \o u
<1>1. /\ s \o u \in Seq(Msgs) /\ Len(s \o u) = Len(s) + Len(u)
      /\ \A i \in 1 .. Len(s) + Len(u) :
            (s \o u)[i] = IF i <= Len(s) THEN s[i] ELSE u[i - Len(s)]
  BY ConcatProperties
<1>2. Len(s) \in Nat \ {0} /\ Len(u) \in Nat
  BY LenProperties, EmptySeq
<1>3. s \o u # <<>>
  BY <1>1, <1>2, EmptySeq
<1>4. Head(s \o u) = Head(s)
  <2>1. (s \o u)[1] = s[1]
    BY <1>1, <1>2
  <2> QED
    BY <2>1, <1>1, <1>2, <1>3
<1>5. /\ Tail(s) \in Seq(Msgs) /\ Len(Tail(s)) = Len(s) - 1
      /\ \A i \in 1 .. Len(s) - 1 : Tail(s)[i] = s[i + 1]
  BY HeadTailProperties
<1>6. /\ Tail(s \o u) \in Seq(Msgs) /\ Len(Tail(s \o u)) = Len(s) + Len(u) - 1
      /\ \A i \in 1 .. Len(s) + Len(u) - 1 : Tail(s \o u)[i] = (s \o u)[i + 1]
  BY <1>1, <1>3, HeadTailProperties
<1>7. /\ Tail(s) \o u \in Seq(Msgs) /\ Len(Tail(s) \o u) = Len(s) - 1 + Len(u)
      /\ \A i \in 1 .. Len(s) - 1 + Len(u) :
            (Tail(s) \o u)[i] = IF i <= Len(s) - 1 THEN Tail(s)[i] ELSE u[i - (Len(s) - 1)]
  BY <1>5, ConcatProperties
<1>8. \A i \in 1 .. Len(s) + Len(u) - 1 : Tail(s \o u)[i] = (Tail(s) \o u)[i]
  BY <1>1, <1>2, <1>5, <1>6, <1>7
<1>9. Tail(s \o u) = Tail(s) \o u
  BY <1>2, <1>6, <1>7, <1>8, SeqEqual
<1> QED
  BY <1>3, <1>4, <1>9

\* The messages pending are those of the two lists, and those on offer or just
\* received are in a thread's hands: a free message is none of them.
LEMMA FreeIsNew ==
    ASSUME TypeOK, NEW m \in FreeMsgs
    PROVE  /\ m \in Msgs /\ m \notin ToSet(Pending)
           /\ \A u \in Threads : arg[u] # m
<1>1. m \in Msgs /\ \A h \in Heads : m \notin ToSet(lists[h])
  BY DEF FreeMsgs
<1>2. \A h \in Heads : lists[h] \in Seq(Msgs)
  BY DEF TypeOK
<1>3. m \notin ToSet(Pending)
  BY <1>1, <1>2, SetOfConcat DEF TypeOK, Pending, Heads
<1> QED
  BY <1>1, <1>3 DEF FreeMsgs

\* The hands of thread t, the way TaskQueue sees them.
Offered(t) == IF pc[t] \in PutPcs THEN arg[t] ELSE NoMsg
Received(t) == IF pc[t] = "got" THEN arg[t] ELSE NoMsg

QueueStep == [Abstract!Next]_(Abstract!tqVars)

\* A step that moves no message and takes no thread into or out of a call that
\* carries one is invisible.
LEMMA Hidden ==
    ASSUME Pending' = Pending, arg' = arg,
           \A u \in Threads : /\ pc'[u] \in PutPcs <=> pc[u] \in PutPcs
                              /\ pc'[u] = "got" <=> pc[u] = "got"
    PROVE  QueueStep
<1>1. /\ [u \in Threads |-> Offered(u)]' = [u \in Threads |-> Offered(u)]
      /\ [u \in Threads |-> Received(u)]' = [u \in Threads |-> Received(u)]
  BY DEF Offered, Received
<1> QED
  BY <1>1 DEF QueueStep, Abstract!tqVars, Offered, Received

\* A step in which one thread's hands change and pc goes on for it alone.
LEMMA HandsOfOne ==
    ASSUME TypeOK, NEW t \in Threads, NEW p, NEW a,
           pc' = [pc EXCEPT ![t] = p], arg' = [arg EXCEPT ![t] = a]
    PROVE  /\ [u \in Threads |-> Offered(u)]' =
                  [[u \in Threads |-> Offered(u)] EXCEPT
                      ![t] = IF p \in PutPcs THEN a ELSE NoMsg]
           /\ [u \in Threads |-> Received(u)]' =
                  [[u \in Threads |-> Received(u)] EXCEPT
                      ![t] = IF p = "got" THEN a ELSE NoMsg]
BY DEF TypeOK, Offered, Received

LEMMA GoesAlone == \A t, p : TypeOK /\ Goto(t, p, {}) => pc' = [pc EXCEPT ![t] = p]
BY DEF Goto, TypeOK

LEMMA CallStep == ASSUME IInv, NEW t \in Threads, Call(t) PROVE QueueStep
<1> USE DEF IInv
<1>1. pc[t] = "idle" /\ UNCHANGED <<lists, get_head, put_head>>
  BY DEF Call
<1>2. Pending' = Pending
  BY <1>1 DEF Pending
<1>3. CASE "get" \in Ops[t] /\ Goto(t, "get_lock", {}) /\ UNCHANGED arg
  BY <1>1, <1>2, <1>3, Hidden DEF Goto, PutPcs, TypeOK
<1>4. CASE \E m \in FreeMsgs :
             /\ Goto(t, "put_lock", {}) \/ Goto(t, "head_lock", {})
             /\ arg' = [arg EXCEPT ![t] = m]
  <2>1. PICK m \in FreeMsgs : /\ Goto(t, "put_lock", {}) \/ Goto(t, "head_lock", {})
                              /\ arg' = [arg EXCEPT ![t] = m]
    BY <1>4
  <2>2. PICK p \in {"put_lock", "head_lock"} : pc' = [pc EXCEPT ![t] = p]
    BY <2>1, GoesAlone
  <2>3. m \in Msgs /\ m \notin ToSet(Pending) /\ \A u \in Threads : arg[u] # m
    BY FreeIsNew
  <2>4. /\ [u \in Threads |-> Offered(u)]' = [[u \in Threads |-> Offered(u)] EXCEPT ![t] = m]
        /\ [u \in Threads |-> Received(u)]' = [[u \in Threads |-> Received(u)] EXCEPT ![t] = NoMsg]
    BY <2>1, <2>2, HandsOfOne DEF PutPcs
  <2>5. Received(t) = NoMsg /\ Offered(t) = NoMsg
    BY <1>1 DEF Offered, Received, PutPcs
  <2>6. [u \in Threads |-> Received(u)]' = [u \in Threads |-> Received(u)]
    BY <2>4, <2>5
  <2>7. /\ [u \in Threads |-> Offered(u)][t] = NoMsg
        /\ [u \in Threads |-> Received(u)][t] = NoMsg
        /\ \A u \in Threads : /\ [v \in Threads |-> Offered(v)][u] # m
                              /\ [v \in Threads |-> Received(v)][u] # m
    BY <2>3, <2>5 DEF Offered, Received
  <2>8. Abstract!Offer(t, m)
    BY <1>2, <2>3, <2>4, <2>6, <2>7 DEF Abstract!Offer, Abstract!ToSet, ToSet, Offered, Received
  <2> QED
    BY <2>3, <2>8 DEF QueueStep, Abstract!Next
<1> QED
  BY <1>3, <1>4 DEF Call

\* A thread goes on within its call, and those it wakes do: no hand changes.
LEMMA GotoIsHidden ==
    ASSUME TypeOK, NEW t \in Threads, NEW p, NEW W \in SUBSET (GetWaiters \cup PutWaiters),
           Goto(t, p, W), Pending' = Pending, arg' = arg,
           p \in PutPcs <=> pc[t] \in PutPcs, p # "got", pc[t] # "got"
    PROVE  QueueStep
<1>1. \A u \in W : /\ Woken(pc[u]) \in PutPcs <=> pc[u] \in PutPcs
                   /\ Woken(pc[u]) # "got" /\ pc[u] # "got"
  BY DEF GetWaiters, PutWaiters, Woken, PutPcs
<1>2. \A u \in Threads : /\ pc'[u] \in PutPcs <=> pc[u] \in PutPcs
                         /\ pc'[u] = "got" <=> pc[u] = "got"
  BY <1>1 DEF Goto
<1> QED
  BY <1>2, Hidden

LEMMA SignalsWaiters == \A W \in GetCondSignal : W \in SUBSET (GetWaiters \cup PutWaiters)
BY DEF GetCondSignal

\* Locking, waiting, waking and looking move no message.
LEMMA QuietStep ==
    ASSUME IInv, NEW t \in Threads,
           \/ LockPut(t) \/ GetLock(t) \/ SpuriousWakeup(t) \/ SignalGet(t)
           \/ PutWait(t) \/ HeadPeek(t) \/ HeadTry(t) \/ SwapWait(t)
           \/ GetNothing(t) \/ SetNonblock(t) \/ SetNonblockWake(t) \/ SetBlock(t)
    PROVE  QueueStep
<1> USE DEF IInv
<1>1. UNCHANGED <<lists, get_head, put_head, arg>>
  BY DEF LockPut, GetLock, SpuriousWakeup, SignalGet, PutWait, HeadPeek, HeadTry,
         SwapWait, GetNothing, SetNonblock, SetNonblockWake, SetBlock
<1>2. Pending' = Pending
  BY <1>1 DEF Pending
<1>3. CASE LockPut(t) \/ GetLock(t) \/ PutWait(t) \/ HeadPeek(t) \/ HeadTry(t)
  <2>1. PICK p : /\ Goto(t, p, {})
                 /\ p \in PutPcs <=> pc[t] \in PutPcs
                 /\ p # "got" /\ pc[t] # "got"
    BY <1>3 DEF LockPut, GetLock, PutWait, HeadPeek, HeadTry, PutPcs
  <2> QED
    BY <1>1, <1>2, <2>1, GotoIsHidden
<1>4. CASE SwapWait(t) \/ GetNothing(t) \/ SetNonblock(t)
  <2>1. PICK p : /\ Goto(t, p, {})
                 /\ p \in PutPcs <=> pc[t] \in PutPcs
                 /\ p # "got" /\ pc[t] # "got"
    BY <1>4 DEF SwapWait, GetNothing, SetNonblock, PutPcs
  <2> QED
    BY <1>1, <1>2, <2>1, GotoIsHidden
<1>5. CASE SpuriousWakeup(t)
  <2>1. /\ Goto(t, Woken(pc[t]), {})
        /\ Woken(pc[t]) \in PutPcs <=> pc[t] \in PutPcs
        /\ Woken(pc[t]) # "got" /\ pc[t] # "got"
    BY <1>5 DEF SpuriousWakeup, Woken, GetWaiters, PutWaiters, PutPcs
  <2> QED
    BY <1>1, <1>2, <2>1, GotoIsHidden
<1>6. CASE SignalGet(t)
  <2>1. PICK W \in GetCondSignal : Goto(t, "idle", W)
    BY <1>6 DEF SignalGet
  <2> QED
    BY <1>1, <1>2, <1>6, <2>1, SignalsWaiters, GotoIsHidden DEF SignalGet, PutPcs
<1>7. CASE SetNonblockWake(t)
  <2>1. PICK W \in GetCondSignal : Goto(t, "idle", W \cup PutWaiters)
    BY <1>7 DEF SetNonblockWake
  <2>2. W \cup PutWaiters \in SUBSET (GetWaiters \cup PutWaiters)
    BY SignalsWaiters
  <2> QED
    BY <1>1, <1>2, <1>7, <2>1, <2>2, GotoIsHidden DEF SetNonblockWake, PutPcs
<1>8. CASE SetBlock(t)
  BY <1>1, <1>2, <1>8, Hidden DEF SetBlock
<1> QED
  BY <1>3, <1>4, <1>5, <1>6, <1>7, <1>8

\* Moving get_head onto the put list, and later put_head off it, changes nothing
\* for the callers: the list left behind is empty.
LEMMA SwapStep ==
    ASSUME IInv, NEW t \in Threads, GetPeek(t) \/ Swap(t)
    PROVE  QueueStep
<1> USE DEF IInv
<1>1. \A h \in Heads : lists[h] \in Seq(Msgs) /\ lists[h] \o <<>> = lists[h]
                       /\ <<>> \o lists[h] = lists[h]
  BY ConcatEmptySeq DEF TypeOK
<1>2. get_head \in Heads /\ put_head \in Heads /\ Other(put_head) \in Heads
  BY DEF TypeOK, Heads, Other
<1>3. CASE GetPeek(t)
  <2>1. get_head # put_head
    BY <1>3 DEF GetPeek, SwapSafe, LockInv, HoldsGet, Swapping, TypeOK
  <2>2. Pending' = Pending
    BY <1>1, <1>2, <1>3, <2>1 DEF GetPeek, Pending
  <2>3. PICK p \in {"take", "swap_lock"} : Goto(t, p, {}) /\ arg' = arg /\ pc[t] = "get_peek"
    BY <1>3 DEF GetPeek
  <2> QED
    BY <2>2, <2>3, GotoIsHidden DEF PutPcs
<1>4. CASE Swap(t)
  <2>1. get_head = put_head /\ lists[Other(put_head)] = <<>>
    BY <1>4 DEF Swap, SwapSafe, Swapping
  <2>2. Other(put_head) # put_head
    BY DEF Other, TypeOK, Heads
  <2>3. Pending' = Pending
    BY <1>1, <1>2, <1>4, <2>1, <2>2 DEF Swap, Pending
  <2>4. PICK p \in {"take", "get_unlock"} :
            Goto(t, p, SwapBroadcast) /\ arg' = arg /\ pc[t] = "swap_check"
    BY <1>4 DEF Swap
  <2>5. SwapBroadcast \in SUBSET (GetWaiters \cup PutWaiters)
    BY DEF SwapBroadcast
  <2> QED
    BY <2>3, <2>4, <2>5, GotoIsHidden DEF PutPcs
<1> QED
  BY <1>3, <1>4

\* The message in the hands of a caller inside put leaves them for the queue.
LEMMA PutHands ==
    ASSUME IInv, NEW t \in Threads, pc[t] \in PutPcs,
           NEW p \in {"signal", "idle"}, Goto(t, p, {}), arg' = [arg EXCEPT ![t] = NoMsg]
    PROVE  /\ arg[t] \in Msgs /\ Offered(t) = arg[t]
           /\ [u \in Threads |-> Offered(u)]' = [[u \in Threads |-> Offered(u)] EXCEPT ![t] = NoMsg]
           /\ [u \in Threads |-> Received(u)]' = [u \in Threads |-> Received(u)]
<1>1. TypeOK /\ arg[t] \in Msgs /\ Offered(t) = arg[t] /\ Received(t) = NoMsg
  BY DEF IInv, ArgInv, Offered, Received, PutPcs
<1>2. pc' = [pc EXCEPT ![t] = p]
  BY <1>1, GoesAlone
<1>3. p \notin PutPcs /\ p # "got"
  BY DEF PutPcs
<1>4. /\ [u \in Threads |-> Offered(u)]' = [[u \in Threads |-> Offered(u)] EXCEPT ![t] = NoMsg]
      /\ [u \in Threads |-> Received(u)]' = [[u \in Threads |-> Received(u)] EXCEPT ![t] = NoMsg]
  BY <1>1, <1>2, <1>3, HandsOfOne
<1>5. [u \in Threads |-> Received(u)]' = [u \in Threads |-> Received(u)]
  BY <1>1, <1>4
<1> QED
  BY <1>1, <1>4, <1>5

\* put appends; put_head, which found no message to go in front of, links at the
\* head of the put list: in front, or at the seam of the two lists.
LEMMA PutLinkStep == ASSUME IInv, NEW t \in Threads, PutLink(t) PROVE QueueStep
<1> DEFINE m == arg[t]
<1>1. /\ TypeOK /\ get_head \in Heads /\ put_head \in Heads
      /\ lists[get_head] \in Seq(Msgs) /\ lists[put_head] \in Seq(Msgs)
  BY DEF IInv, TypeOK
<1>2. /\ Goto(t, "signal", {}) /\ arg' = [arg EXCEPT ![t] = NoMsg]
      /\ pc[t] \in PutPcs /\ UNCHANGED <<get_head, put_head>>
  BY DEF PutLink, PutPcs
<1>3. /\ m \in Msgs /\ Offered(t) = m
      /\ [u \in Threads |-> Offered(u)]' = [[u \in Threads |-> Offered(u)] EXCEPT ![t] = NoMsg]
      /\ [u \in Threads |-> Received(u)]' = [u \in Threads |-> Received(u)]
  BY <1>2, PutHands
<1>4. m # NoMsg
  BY <1>3
<1>5. CASE pc[t] = "put_check"
  <2>1. lists' = [lists EXCEPT ![put_head] = Append(@, m)]
    BY <1>5 DEF PutLink
  <2>2. Pending' = Append(Pending, m)
    <3>1. CASE get_head = put_head
      BY <1>1, <1>2, <2>1, <3>1 DEF Pending, TypeOK
    <3>2. CASE get_head # put_head
      <4>1. Pending' = lists[get_head] \o Append(lists[put_head], m)
        BY <1>1, <1>2, <2>1, <3>2 DEF Pending, TypeOK
      <4>2. lists[get_head] \o Append(lists[put_head], m)
                = Append(lists[get_head] \o lists[put_head], m)
        BY <1>1, <1>3, AppendBehind, Zenon
      <4>3. Pending = lists[get_head] \o lists[put_head]
        BY <3>2 DEF Pending
      <4> QED
        BY <4>1, <4>2, <4>3, Zenon
    <3> QED
      BY <3>1, <3>2
  <2>3. Abstract!Put(t)
    BY <1>3, <1>4, <2>2 DEF Abstract!Put, Offered, Received
  <2> QED
    BY <2>3 DEF QueueStep, Abstract!Next
<1>6. CASE pc[t] = "head_check"
  <2>1. lists' = [lists EXCEPT ![put_head] = <<m>> \o @] /\ "put_head" \in Ops[t]
    BY <1>6 DEF PutLink, IInv, OpsInv
  <2>2. \E i \in 1 .. Len(Pending) + 1 : Pending' = InsertAt(Pending, i, m)
    <3>1. CASE get_head = put_head
      <4>1. Pending = lists[put_head] /\ Pending' = <<m>> \o lists[put_head]
        BY <1>1, <1>2, <2>1, <3>1 DEF Pending, TypeOK
      <4> QED
        BY <1>1, <1>3, <4>1, InsertAtHead
    <3>2. CASE get_head # put_head
      <4>1. /\ Pending = lists[get_head] \o lists[put_head]
            /\ Pending' = lists[get_head] \o (<<m>> \o lists[put_head])
        BY <1>1, <1>2, <2>1, <3>2 DEF Pending, TypeOK
      <4>2. PICK s \in Seq(Msgs), u \in Seq(Msgs) : s = lists[get_head] /\ u = lists[put_head]
        BY <1>1
      <4> HIDE DEF m
      <4>3. /\ Len(s) + 1 \in 1 .. Len(s \o u) + 1
            /\ s \o (<<m>> \o u) = InsertAt(s \o u, Len(s) + 1, m)
        BY <1>3, InsertAtSeam
      <4>4. Pending = s \o u /\ Pending' = s \o (<<m>> \o u)
        BY <4>1, <4>2
      <4> QED
        BY <4>3, <4>4
    <3> QED
      BY <3>1, <3>2
  <2>3. Abstract!PutHead(t)
    BY <1>3, <1>4, <2>1, <2>2 DEF Abstract!PutHead, Abstract!InsertAt, InsertAt, Offered, Received
  <2> QED
    BY <2>3 DEF QueueStep, Abstract!Next
<1> QED
  BY <1>5, <1>6 DEF PutLink

\* With get_mutex in hand nobody swaps, so the get list is the front of the queue.
LEMMA HeadsApart ==
    ASSUME IInv, NEW t \in Threads, pc[t] \in {"head_push", "take"}
    PROVE  /\ get_head # put_head /\ get_head \in Heads /\ put_head \in Heads
           /\ lists[get_head] \in Seq(Msgs) /\ lists[put_head] \in Seq(Msgs)
           /\ Pending = lists[get_head] \o lists[put_head]
BY DEF IInv, TypeOK, SwapSafe, LockInv, HoldsGet, Swapping, Pending

\* put_head goes in front of everything.
LEMMA HeadPushStep == ASSUME IInv, NEW t \in Threads, HeadPush(t) PROVE QueueStep
<1> DEFINE m == arg[t]
<1>1. /\ Goto(t, "idle", {}) /\ arg' = [arg EXCEPT ![t] = NoMsg]
      /\ pc[t] \in PutPcs /\ UNCHANGED <<get_head, put_head>>
      /\ lists' = [lists EXCEPT ![get_head] = <<m>> \o @]
      /\ pc[t] = "head_push" /\ "put_head" \in Ops[t]
  BY DEF HeadPush, PutPcs, IInv, OpsInv
<1>2. /\ m \in Msgs /\ Offered(t) = m
      /\ [u \in Threads |-> Offered(u)]' = [[u \in Threads |-> Offered(u)] EXCEPT ![t] = NoMsg]
      /\ [u \in Threads |-> Received(u)]' = [u \in Threads |-> Received(u)]
  BY <1>1, PutHands
<1>3. /\ get_head # put_head /\ get_head \in Heads /\ put_head \in Heads
      /\ lists[get_head] \in Seq(Msgs) /\ lists[put_head] \in Seq(Msgs)
      /\ Pending = lists[get_head] \o lists[put_head]
  BY <1>1, HeadsApart
<1>4. Pending' = (<<m>> \o lists[get_head]) \o lists[put_head]
  BY <1>1, <1>3 DEF Pending, IInv, TypeOK
<1>5. Pending' = <<m>> \o Pending
  <2>1. PICK s \in Seq(Msgs), u \in Seq(Msgs) : s = lists[get_head] /\ u = lists[put_head]
    BY <1>3
  <2> HIDE DEF m
  <2>2. (<<m>> \o s) \o u = <<m>> \o (s \o u)
    BY <1>2, PushInFront
  <2> QED
    BY <1>3, <1>4, <2>1, <2>2
<1>6. \E i \in 1 .. Len(Pending) + 1 : Pending' = InsertAt(Pending, i, m)
  BY <1>2, <1>5, InsertAtHead, PendingType DEF IInv
<1>7. m # NoMsg
  BY <1>2
<1>8. Abstract!PutHead(t)
  BY <1>1, <1>2, <1>6, <1>7
     DEF Abstract!PutHead, Abstract!InsertAt, InsertAt, Offered, Received
<1> QED
  BY <1>8 DEF QueueStep, Abstract!Next

\* get takes the oldest message pending.
LEMMA TakeStep == ASSUME IInv, NEW t \in Threads, Take(t) PROVE QueueStep
<1>1. /\ TypeOK /\ Goto(t, "got", {}) /\ pc[t] = "take"
      /\ arg' = [arg EXCEPT ![t] = Head(lists[get_head])]
      /\ lists' = [lists EXCEPT ![get_head] = Tail(@)]
      /\ UNCHANGED <<get_head, put_head>>
      /\ lists[get_head] # <<>>
  BY DEF Take, IInv, SwapSafe
<1>2. /\ get_head # put_head /\ get_head \in Heads /\ put_head \in Heads
      /\ lists[get_head] \in Seq(Msgs) /\ lists[put_head] \in Seq(Msgs)
      /\ Pending = lists[get_head] \o lists[put_head]
  BY <1>1, HeadsApart
<1>3. /\ Pending # <<>> /\ Head(Pending) = Head(lists[get_head])
      /\ Tail(Pending) = Tail(lists[get_head]) \o lists[put_head]
  BY <1>1, <1>2, TakeInFront
<1>4. Pending' = Tail(Pending)
  BY <1>1, <1>2, <1>3 DEF Pending, TypeOK
<1>5. pc' = [pc EXCEPT ![t] = "got"]
  BY <1>1, GoesAlone
<1>6. /\ [u \in Threads |-> Offered(u)]' = [[u \in Threads |-> Offered(u)] EXCEPT ![t] = NoMsg]
      /\ [u \in Threads |-> Received(u)]' =
             [[u \in Threads |-> Received(u)] EXCEPT ![t] = Head(Pending)]
  BY <1>1, <1>3, <1>5, HandsOfOne DEF PutPcs
<1>7. Offered(t) = NoMsg /\ Received(t) = NoMsg
  BY <1>1 DEF Offered, Received, PutPcs
<1>8. [u \in Threads |-> Offered(u)]' = [u \in Threads |-> Offered(u)]
  BY <1>6, <1>7
<1>9. Abstract!Get(t)
  BY <1>3, <1>4, <1>6, <1>7, <1>8 DEF Abstract!Get, Offered, Received
<1> QED
  BY <1>9 DEF QueueStep, Abstract!Next

\* The caller frees the message it got; it is a message, and not NoMsg.
LEMMA ConsumeStep == ASSUME IInv, NEW t \in Threads, Consume(t) PROVE QueueStep
<1>1. /\ TypeOK /\ Goto(t, "idle", {}) /\ pc[t] = "got"
      /\ arg' = [arg EXCEPT ![t] = NoMsg] /\ UNCHANGED <<lists, get_head, put_head>>
  BY DEF Consume, IInv
<1>2. Pending' = Pending
  BY <1>1 DEF Pending
<1>3. pc' = [pc EXCEPT ![t] = "idle"]
  BY <1>1, GoesAlone
<1>4. /\ [u \in Threads |-> Offered(u)]' = [[u \in Threads |-> Offered(u)] EXCEPT ![t] = NoMsg]
      /\ [u \in Threads |-> Received(u)]' = [[u \in Threads |-> Received(u)] EXCEPT ![t] = NoMsg]
  BY <1>1, <1>3, HandsOfOne DEF PutPcs
<1>5. Offered(t) = NoMsg /\ Received(t) # NoMsg
  BY <1>1 DEF Offered, Received, PutPcs, IInv, ArgInv
<1>6. [u \in Threads |-> Offered(u)]' = [u \in Threads |-> Offered(u)]
  BY <1>4, <1>5
<1>7. Abstract!Release(t)
  BY <1>2, <1>4, <1>5, <1>6 DEF Abstract!Release, Offered, Received
<1> QED
  BY <1>7 DEF QueueStep, Abstract!Next

LEMMA InitStep == Init => Abstract!Init
BY DEF Init, Abstract!Init, Pending, Heads, PutPcs

\* Every step is a step of the queue or invisible to its callers.
LEMMA NextStep == IInv /\ [Next]_vars => QueueStep
<1> SUFFICES ASSUME IInv, [Next]_vars PROVE QueueStep
  OBVIOUS
<1>1. CASE UNCHANGED vars
  <2>1. Pending' = Pending /\ arg' = arg /\ pc' = pc
    BY <1>1 DEF vars, Pending
  <2> QED
    BY <2>1, Hidden
<1>2. ASSUME NEW t \in Threads,
             \/ LockPut(t) \/ GetLock(t) \/ SpuriousWakeup(t) \/ SignalGet(t)
             \/ PutWait(t) \/ HeadPeek(t) \/ HeadTry(t) \/ SwapWait(t)
             \/ GetNothing(t) \/ SetNonblock(t) \/ SetNonblockWake(t) \/ SetBlock(t)
      PROVE  QueueStep
  BY <1>2, QuietStep
<1>3. ASSUME NEW t \in Threads, GetPeek(t) \/ Swap(t) PROVE QueueStep
  BY <1>3, SwapStep
<1>4. ASSUME NEW t \in Threads, Call(t) PROVE QueueStep
  BY <1>4, CallStep
<1>5. ASSUME NEW t \in Threads, PutLink(t) \/ HeadPush(t) PROVE QueueStep
  BY <1>5, PutLinkStep, HeadPushStep
<1>6. ASSUME NEW t \in Threads, Take(t) \/ Consume(t) PROVE QueueStep
  BY <1>6, TakeStep, ConsumeStep
<1> QED
  BY <1>1, <1>2, <1>3, <1>4, <1>5, <1>6 DEF Next, Inside

\* The two lists, the unlocked look at *get_head and the swap are one FIFO queue
\* to the callers of put, put_head and get: no message is lost, delivered twice
\* or overtaken (base/msgqueue.c).
THEOREM OneQueue == Spec => ImplementsTaskQueue
<1>1. IInv /\ [Next]_vars => [Abstract!Next]_(Abstract!tqVars)
  BY NextStep DEF QueueStep
<1> QED
  BY <1>1, InitStep, SpecIInv, PTL DEF Spec, ImplementsTaskQueue, Abstract!Spec

-----------------------------------------------------------------------------
(* A message is in one place: what the steps of TaskQueue do to it.        *)

\* OnePlace of the queue q and of the hands o, of threads that put, and r, that have got.
Placed(q, o, r) ==
    /\ IsInjective(q)
    /\ \A t \in Threads :
          /\ o[t] # NoMsg =>
                /\ o[t] \notin ToSet(q)
                /\ \A u \in Threads : r[u] # o[t] /\ (o[u] = o[t] => u = t)
          /\ r[t] # NoMsg =>
                /\ r[t] \notin ToSet(q)
                /\ \A u \in Threads : r[u] = r[t] => u = t

Hands == [Threads -> Msgs \cup {NoMsg}]

\* A queue with the same messages in other places, and one more or one less.
LEMMA PlacesChange ==
    ASSUME NEW q, NEW o \in Hands, NEW r \in Hands, Placed(q, o, r),
           NEW p, IsInjective(p), NEW t \in Threads
    PROVE  /\ \A m \in Msgs :
                 o[t] = NoMsg /\ r[t] = NoMsg /\ m \notin ToSet(q) /\ p = q
                 /\ (\A u \in Threads : o[u] # m /\ r[u] # m)
                 => Placed(p, [o EXCEPT ![t] = m], r)
           /\ o[t] # NoMsg /\ ToSet(p) \subseteq ToSet(q) \cup {o[t]}
                 => Placed(p, [o EXCEPT ![t] = NoMsg], r)
           /\ \A m \in ToSet(q) \cap Msgs :
                 ToSet(p) \subseteq ToSet(q) \ {m} => Placed(p, o, [r EXCEPT ![t] = m])
           /\ ToSet(p) = ToSet(q) => Placed(p, o, [r EXCEPT ![t] = NoMsg])
<1> USE DEF Placed, Hands
<1>1. ASSUME NEW m \in Msgs, o[t] = NoMsg, r[t] = NoMsg, m \notin ToSet(q), p = q,
             \A u \in Threads : o[u] # m /\ r[u] # m
      PROVE  Placed(p, [o EXCEPT ![t] = m], r)
  <2> DEFINE n == [o EXCEPT ![t] = m]
  <2>1. n[t] = m /\ \A u \in Threads \ {t} : n[u] = o[u]
    OBVIOUS
  <2> HIDE DEF n
  <2>2. Placed(p, n, r)
    BY <1>1, <2>1
  <2> QED
    BY <2>2 DEF n
<1>2. ASSUME o[t] # NoMsg, ToSet(p) \subseteq ToSet(q) \cup {o[t]}
      PROVE  Placed(p, [o EXCEPT ![t] = NoMsg], r)
  <2> DEFINE n == [o EXCEPT ![t] = NoMsg]
  <2>1. n[t] = NoMsg /\ \A u \in Threads \ {t} : n[u] = o[u]
    OBVIOUS
  <2> HIDE DEF n
  <2>2. Placed(p, n, r)
    BY <1>2, <2>1
  <2> QED
    BY <2>2 DEF n
<1>3. ASSUME NEW m \in ToSet(q) \cap Msgs, ToSet(p) \subseteq ToSet(q) \ {m}
      PROVE  Placed(p, o, [r EXCEPT ![t] = m])
  <2> DEFINE n == [r EXCEPT ![t] = m]
  <2>1. n[t] = m /\ \A u \in Threads \ {t} : n[u] = r[u]
    OBVIOUS
  <2>2. m # NoMsg
    BY QueueAssumption
  <2> HIDE DEF n
  <2>3. Placed(p, o, n)
    BY <1>3, <2>1, <2>2
  <2> QED
    BY <2>3 DEF n
<1>4. ASSUME ToSet(p) = ToSet(q) PROVE Placed(p, o, [r EXCEPT ![t] = NoMsg])
  <2> DEFINE n == [r EXCEPT ![t] = NoMsg]
  <2>1. n[t] = NoMsg /\ \A u \in Threads \ {t} : n[u] = r[u]
    OBVIOUS
  <2> HIDE DEF n
  <2>2. Placed(p, o, n)
    BY <1>4, <2>1
  <2> QED
    BY <2>2 DEF n
<1> QED
  BY <1>1, <1>2, <1>3, <1>4

\* What a link at some place and an unlink in front do to the messages of a list.
LEMMA PlacesOfInsert ==
    ASSUME NEW q \in Seq(Msgs), NEW i \in 1 .. Len(q) + 1, NEW m \in Msgs, IsInjective(q),
           m \notin ToSet(q)
    PROVE  IsInjective(InsertAt(q, i, m)) /\ ToSet(InsertAt(q, i, m)) \subseteq ToSet(q) \cup {m}
<1> DEFINE p == InsertAt(q, i, m)
           n == Len(q)
<1>1. n \in Nat /\ q \in [1 .. n -> Msgs]
  OBVIOUS
<1>2. /\ Len(p) = n + 1 /\ DOMAIN p = 1 .. n + 1
      /\ \A j \in 1 .. n + 1 : p[j] = IF j < i THEN q[j] ELSE IF j = i THEN m ELSE q[j - 1]
  <2> DEFINE a == SubSeq(q, 1, i - 1)
             b == SubSeq(q, i, n)
  <2>1. /\ a \in Seq(Msgs) /\ Len(a) = i - 1 /\ \A j \in 1 .. i - 1 : a[j] = q[j]
    <3>1. i - 1 \in 0 .. n
      OBVIOUS
    <3> QED
      BY <1>1, <3>1
  <2>2. /\ b \in Seq(Msgs) /\ Len(b) = n + 1 - i /\ \A j \in 1 .. n + 1 - i : b[j] = q[i + j - 1]
    BY <1>1
  <2>3. p = (a \o <<m>>) \o b
    BY DEF InsertAt
  <2> HIDE DEF a, b, p
  <2>4. /\ a \o <<m>> \in Seq(Msgs) /\ Len(a \o <<m>>) = i
        /\ \A j \in 1 .. i : (a \o <<m>>)[j] = IF j < i THEN a[j] ELSE m
    BY <2>1
  <2>5. /\ Len(p) = n + 1 /\ DOMAIN p = 1 .. n + 1
        /\ \A j \in 1 .. n + 1 : p[j] = IF j <= i THEN (a \o <<m>>)[j] ELSE b[j - i]
    <3>1. /\ p \in Seq(Msgs) /\ Len(p) = i + (n + 1 - i)
          /\ \A j \in 1 .. i + (n + 1 - i) : p[j] = IF j <= i THEN (a \o <<m>>)[j] ELSE b[j - i]
      BY <2>2, <2>3, <2>4, ConcatProperties
    <3> HIDE DEF n
    <3>2. i + (n + 1 - i) = n + 1
      BY <1>1
    <3>3. Len(p) = n + 1 /\ 1 .. i + (n + 1 - i) = 1 .. n + 1
      BY <3>1, <3>2
    <3>4. DOMAIN p = 1 .. n + 1
      BY <3>1, <3>3
    <3> QED
      BY <3>1, <3>3, <3>4
  <2> HIDE DEF n
  <2>6. ASSUME NEW j \in 1 .. n + 1
        PROVE  p[j] = IF j < i THEN q[j] ELSE IF j = i THEN m ELSE q[j - 1]
    <3>1. CASE j < i
      BY <1>1, <2>1, <2>4, <2>5, <3>1
    <3>2. CASE j = i
      BY <1>1, <2>4, <2>5, <3>2
    <3>3. CASE i < j
      <4>1. j - i \in 1 .. n + 1 - i /\ i + (j - i) - 1 = j - 1
        BY <1>1, <3>3
      <4>2. ~ (j <= i) /\ p[j] = b[j - i]
        BY <1>1, <2>5, <3>3
      <4>3. b[j - i] = q[i + (j - i) - 1]
        BY <2>2, <4>1
      <4> QED
        BY <1>1, <3>3, <4>1, <4>2, <4>3
    <3> QED
      BY <1>1, <3>1, <3>2, <3>3
  <2> QED
    BY <2>5, <2>6
<1> HIDE DEF p, n
<1>3. \A j \in 1 .. n + 1 : j < i => j \in 1 .. n
  BY <1>1 DEF n
<1>4. \A j \in 1 .. n + 1 : ~ (j < i) /\ j # i => j - 1 \in 1 .. n
  BY <1>1 DEF n
<1>5. \A j \in 1 .. n : q[j] \in ToSet(q) /\ q[j] # m
  BY <1>1 DEF ToSet
<1>6. ToSet(p) \subseteq ToSet(q) \cup {m}
  BY <1>2, <1>3, <1>4, <1>5 DEF ToSet
<1>7. \A j, k \in 1 .. n : q[j] = q[k] => j = k
  BY <1>1 DEF IsInjective
<1>8. ASSUME NEW j \in 1 .. n + 1, NEW k \in 1 .. n + 1, p[j] = p[k], j < k PROVE FALSE
  <2>1. CASE k < i
    BY <1>1, <1>2, <1>3, <1>7, <1>8, <2>1 DEF n
  <2>2. CASE k = i
    BY <1>1, <1>2, <1>3, <1>5, <1>8, <2>2 DEF n
  <2>3. CASE i < k /\ j < i
    BY <1>1, <1>2, <1>3, <1>4, <1>7, <1>8, <2>3 DEF n
  <2>4. CASE i < k /\ j = i
    BY <1>1, <1>2, <1>4, <1>5, <1>8, <2>4 DEF n
  <2>5. CASE i < j
    BY <1>1, <1>2, <1>4, <1>7, <1>8, <2>5 DEF n
  <2> QED
    BY <1>1, <1>8, <2>1, <2>2, <2>3, <2>4, <2>5 DEF n
<1>9. IsInjective(p)
  BY <1>1, <1>2, <1>8 DEF IsInjective, n
<1> QED
  BY <1>6, <1>9 DEF p

LEMMA PlacesOfTail ==
    ASSUME NEW q \in Seq(Msgs), q # <<>>, IsInjective(q)
    PROVE  /\ IsInjective(Tail(q)) /\ Head(q) \in ToSet(q) /\ Head(q) \in Msgs
           /\ ToSet(Tail(q)) \subseteq ToSet(q) \ {Head(q)}
<1> DEFINE p == Tail(q)
           n == Len(q)
<1>1. n \in Nat \ {0} /\ DOMAIN q = 1 .. n /\ Head(q) = q[1] /\ q[1] \in Msgs
  BY EmptySeq
<1>2. DOMAIN p = 1 .. n - 1 /\ \A j \in 1 .. n - 1 : p[j] = q[j + 1]
  OBVIOUS
<1> HIDE DEF p, n
<1>3. \A j \in 1 .. n - 1 : j + 1 \in 1 .. n /\ j + 1 # 1 /\ 1 \in 1 .. n
  BY <1>1
<1>4. \A j, k \in 1 .. n : q[j] = q[k] => j = k
  BY <1>1 DEF IsInjective
<1>5. \A j, k \in 1 .. n - 1 : p[j] = p[k] => j = k
  <2>1. ASSUME NEW j \in 1 .. n - 1, NEW k \in 1 .. n - 1, p[j] = p[k] PROVE j = k
    <3>1. j + 1 = k + 1
      BY <1>2, <1>3, <1>4, <2>1
    <3> QED
      BY <1>1, <3>1
  <2> QED
    BY <2>1
<1>6. \A j \in 1 .. n - 1 : p[j] \in ToSet(q) /\ p[j] # q[1]
  BY <1>1, <1>2, <1>3, <1>4 DEF ToSet
<1> QED
  BY <1>1, <1>2, <1>3, <1>5, <1>6 DEF IsInjective, ToSet, p

LEMMA PlacesOfAppend ==
    ASSUME NEW q \in Seq(Msgs), NEW m \in Msgs, IsInjective(q), m \notin ToSet(q)
    PROVE  IsInjective(Append(q, m)) /\ ToSet(Append(q, m)) \subseteq ToSet(q) \cup {m}
<1> DEFINE p == Append(q, m)
           n == Len(q)
<1>1. n \in Nat /\ DOMAIN q = 1 .. n /\ DOMAIN p = 1 .. n + 1
  OBVIOUS
<1>2. \A j \in 1 .. n + 1 : p[j] = IF j = n + 1 THEN m ELSE q[j]
  OBVIOUS
<1> HIDE DEF p, n
<1>3. \A j \in 1 .. n + 1 : j = n + 1 \/ j \in 1 .. n
  BY <1>1
<1>4. \A j \in 1 .. n : q[j] \in ToSet(q) /\ q[j] # m
  BY <1>1 DEF ToSet
<1>5. \A j, k \in 1 .. n : q[j] = q[k] => j = k
  BY <1>1 DEF IsInjective
<1>6. \A j, k \in 1 .. n + 1 : p[j] = p[k] => j = k
  BY <1>2, <1>3, <1>4, <1>5
<1> QED
  BY <1>1, <1>2, <1>3, <1>4, <1>6 DEF IsInjective, ToSet, p

LEMMA OnePlaceStep ==
    ASSUME IInv, Abstract!OnePlace, QueueStep
    PROVE  Abstract!OnePlace'
<1> DEFINE o == [u \in Threads |-> Offered(u)]
           r == [u \in Threads |-> Received(u)]
<1>1. o \in Hands /\ r \in Hands /\ Pending \in Seq(Msgs)
  BY DEF Hands, Offered, Received, IInv, TypeOK, Pending
<1>2. Placed(Pending, o, r)
  BY DEF Abstract!OnePlace, Abstract!IsInjective, Abstract!ToSet, Placed, IsInjective, ToSet,
         Offered, Received
<1>3. Placed(Pending', o', r') => Abstract!OnePlace'
  BY DEF Abstract!OnePlace, Abstract!IsInjective, Abstract!ToSet, Placed, IsInjective, ToSet,
         Offered, Received
<1>4. CASE UNCHANGED Abstract!tqVars
  <2>1. Pending' = Pending /\ o' = o /\ r' = r
    BY <1>4 DEF Abstract!tqVars, Offered, Received
  <2> QED
    BY <1>2, <1>3, <2>1
<1>5. ASSUME NEW t \in Threads, NEW m \in Msgs, Abstract!Offer(t, m) PROVE Abstract!OnePlace'
  <2>1. /\ o[t] = NoMsg /\ r[t] = NoMsg /\ m \notin ToSet(Pending)
        /\ \A u \in Threads : o[u] # m /\ r[u] # m
        /\ Pending' = Pending /\ o' = [o EXCEPT ![t] = m] /\ r' = r
    BY <1>5 DEF Abstract!Offer, Abstract!ToSet, ToSet, Offered, Received
  <2> HIDE DEF o, r
  <2>2. IsInjective(Pending)
    BY <1>2 DEF Placed
  <2>3. Placed(Pending, [o EXCEPT ![t] = m], r)
    BY <1>1, <1>2, <2>1, <2>2, PlacesChange
  <2> QED
    BY <1>3, <2>1, <2>3
<1>6. ASSUME NEW t \in Threads, Abstract!Put(t) \/ Abstract!PutHead(t) PROVE Abstract!OnePlace'
  <2>1. /\ o[t] # NoMsg /\ o' = [o EXCEPT ![t] = NoMsg] /\ r' = r
        /\ \/ Pending' = Append(Pending, o[t])
           \/ \E i \in 1 .. Len(Pending) + 1 : Pending' = InsertAt(Pending, i, o[t])
    BY <1>6 DEF Abstract!Put, Abstract!PutHead, Abstract!InsertAt, InsertAt, Offered, Received
  <2> HIDE DEF o, r
  <2>2. IsInjective(Pending) /\ o[t] \notin ToSet(Pending) /\ o[t] \in Msgs
    BY <1>1, <1>2, <2>1 DEF Placed, Hands
  <2>3. IsInjective(Pending') /\ ToSet(Pending') \subseteq ToSet(Pending) \cup {o[t]}
    <3>1. CASE Pending' = Append(Pending, o[t])
      BY <1>1, <2>2, <3>1, PlacesOfAppend
    <3>2. ASSUME NEW i \in 1 .. Len(Pending) + 1, Pending' = InsertAt(Pending, i, o[t])
          PROVE  IsInjective(Pending') /\ ToSet(Pending') \subseteq ToSet(Pending) \cup {o[t]}
      <4>1. /\ IsInjective(InsertAt(Pending, i, o[t]))
            /\ ToSet(InsertAt(Pending, i, o[t])) \subseteq ToSet(Pending) \cup {o[t]}
        BY <1>1, <2>2, PlacesOfInsert
      <4> QED
        BY <3>2, <4>1
    <3> QED
      BY <2>1, <3>1, <3>2
  <2>4. Placed(Pending', [o EXCEPT ![t] = NoMsg], r)
    BY <1>1, <1>2, <2>1, <2>3, PlacesChange
  <2> QED
    BY <1>3, <2>1, <2>4
<1>7. ASSUME NEW t \in Threads, Abstract!Get(t) PROVE Abstract!OnePlace'
  <2>1. /\ Pending # <<>> /\ Pending' = Tail(Pending)
        /\ o' = o /\ r' = [r EXCEPT ![t] = Head(Pending)]
    BY <1>7 DEF Abstract!Get, Offered, Received
  <2> HIDE DEF o, r
  <2>2. /\ IsInjective(Pending') /\ Head(Pending) \in ToSet(Pending) \cap Msgs
        /\ ToSet(Pending') \subseteq ToSet(Pending) \ {Head(Pending)}
    BY <1>1, <1>2, <2>1, PlacesOfTail DEF Placed
  <2>3. Placed(Pending', o, [r EXCEPT ![t] = Head(Pending)])
    BY <1>1, <1>2, <2>2, PlacesChange
  <2> QED
    BY <1>3, <2>1, <2>3
<1>8. ASSUME NEW t \in Threads, Abstract!Release(t) PROVE Abstract!OnePlace'
  <2>1. Pending' = Pending /\ o' = o /\ r' = [r EXCEPT ![t] = NoMsg]
    BY <1>8 DEF Abstract!Release, Offered, Received
  <2> HIDE DEF o, r
  <2>2. IsInjective(Pending)
    BY <1>2 DEF Placed
  <2>3. Placed(Pending, o, [r EXCEPT ![t] = NoMsg])
    BY <1>1, <1>2, <2>2, PlacesChange
  <2> QED
    BY <1>3, <2>1, <2>3
<1> QED
  BY <1>4, <1>5, <1>6, <1>7, <1>8 DEF QueueStep, Abstract!Next

\* Every variable keeps its type, no list is read beyond its end, and a message is
\* in the queue once or with one caller, and nowhere else (base/msgqueue.c).
THEOREM MessageInOnePlace == Spec => []Consistent
<1>1. Init => Abstract!OnePlace
  BY DEF Init, Abstract!OnePlace, Abstract!IsInjective, Abstract!ToSet, Pending, Heads, PutPcs
<1>2. IInv /\ Abstract!OnePlace /\ [Next]_vars => Abstract!OnePlace'
  BY NextStep, OnePlaceStep
<1>3. IInv => TypeOK
  BY DEF IInv
<1> QED
  BY <1>1, <1>2, <1>3, SpecIInv, PTL DEF Spec, Consistent
=============================================================================
