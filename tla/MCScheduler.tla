----------------------------- MODULE MCScheduler -----------------------------
(* An instance of Scheduler for TLC, with every way a handler may end.     *)
EXTENDS Scheduler, TLC

CONSTANTS r1, r2, r3

\* One handler awaits an RPC, the others end in the thread that schedules them.
OneAwaits == (r1 :> 1) @@ (r2 :> 0) @@ (r3 :> 0)
=============================================================================
