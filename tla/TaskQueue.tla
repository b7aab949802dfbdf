------------------------------ MODULE TaskQueue ------------------------------
(***************************************************************************)
(* What a message queue of the base library promises to the threads that   *)
(* call it: one ordered list of messages, to which a put appends, into     *)
(* which a put_head may slip a message without disturbing the order of the *)
(* others, and from which a get takes the first message.  A message is in  *)
(* the queue or in the hands of one thread, never both, and never twice.   *)
(* Locks, condition variables and the second list of the implementation    *)
(* do not appear here: module MsgQueue is shown to implement this module.  *)
(***************************************************************************)
EXTENDS Naturals, Sequences, SequencesExt

CONSTANTS Threads,      \* the threads that call the queue
          Msgs,         \* the messages (task entries) they exchange
          HeadThreads,  \* the threads that call put_head
          NoMsg         \* an empty hand

VARIABLES queue,        \* the messages waiting, oldest first
          offered,      \* the message a thread is about to put
          received      \* the message a thread has just got

tqVars == <<queue, offered, received>>

Init ==
    /\ queue = <<>>
    /\ offered = [t \in Threads |-> NoMsg]
    /\ received = [t \in Threads |-> NoMsg]

\* A thread allocates a message that nobody else has.
Offer(t, m) ==
    /\ offered[t] = NoMsg /\ received[t] = NoMsg
    /\ m \notin ToSet(queue)
    /\ \A u \in Threads : offered[u] # m /\ received[u] # m
    /\ offered' = [offered EXCEPT ![t] = m]
    /\ UNCHANGED <<queue, received>>

Put(t) ==
    /\ offered[t] # NoMsg
    /\ queue' = Append(queue, offered[t])
    /\ offered' = [offered EXCEPT ![t] = NoMsg]
    /\ UNCHANGED received

PutHead(t) ==
    /\ t \in HeadThreads
    /\ offered[t] # NoMsg
    /\ \E i \in 1 .. Len(queue) + 1 : queue' = InsertAt(queue, i, offered[t])
    /\ offered' = [offered EXCEPT ![t] = NoMsg]
    /\ UNCHANGED received

Get(t) ==
    /\ offered[t] = NoMsg /\ received[t] = NoMsg
    /\ queue # <<>>
    /\ received' = [received EXCEPT ![t] = Head(queue)]
    /\ queue' = Tail(queue)
    /\ UNCHANGED offered

\* The message has been used and its memory freed.
Release(t) ==
    /\ received[t] # NoMsg
    /\ received' = [received EXCEPT ![t] = NoMsg]
    /\ UNCHANGED <<queue, offered>>

Next == \E t \in Threads :
            \/ \E m \in Msgs : Offer(t, m)
            \/ Put(t) \/ PutHead(t) \/ Get(t) \/ Release(t)

Spec == Init /\ [][Next]_tqVars

\* A message is in the queue once, or in one hand of one thread, and nowhere else.
OnePlace ==
    /\ IsInjective(queue)
    /\ \A t \in Threads :
          /\ offered[t] # NoMsg =>
                /\ offered[t] \notin ToSet(queue)
                /\ \A u \in Threads : received[u] # offered[t] /\ (offered[u] = offered[t] => u = t)
          /\ received[t] # NoMsg =>
                /\ received[t] \notin ToSet(queue)
                /\ \A u \in Threads : received[u] = received[t] => u = t
=============================================================================
