----------------------------- MODULE MCFdfsServer -----------------------------
(* An instance of FdfsServer for TLC: two uploads and a delete, two        *)
(* threads, one connection.                                                *)
EXTENDS FdfsServer

MCRequests == 1..3
MCMethodOf == [r \in MCRequests |-> IF r = 3 THEN "delete" ELSE "upload"]
=============================================================================
