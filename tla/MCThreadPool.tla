----------------------------- MODULE MCThreadPool -----------------------------
(* Instances of ThreadPool for model checking.                             *)
EXTENDS ThreadPool, TLC

\* Workers and tasks are interchangeable (used where only safety is checked).
Symmetry == Permutations(Workers) \cup Permutations(Tasks)
=============================================================================
