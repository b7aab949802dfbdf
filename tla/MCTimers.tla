------------------------------- MODULE MCTimers -------------------------------
(* An instance of Timers for TLC: the timers of the program are periodic.  *)
EXTENDS Timers

ForEver == {-1}
=============================================================================
