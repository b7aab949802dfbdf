------------------------------ MODULE MCMsgQueue ------------------------------
(* Instances of MsgQueue for model checking: who calls what.               *)
EXTENDS MsgQueue, TLC

CONSTANTS p1, p2, c1, c2, k

\* Every function of msgqueue.h.
AllOps == (p1 :> {"put", "set_block"}) @@ (p2 :> {"put_head"})
              @@ (c1 :> {"get"}) @@ (c2 :> {"get"}) @@ (k :> {"set_nonblock"})

\* A pool at work (ThreadPool::Submit and a worker) and its shutdown.
WorkOps == (p1 :> {"put"}) @@ (p2 :> {"put"}) @@ (c1 :> {"get"})
              @@ (k :> {"set_nonblock"})
=============================================================================
