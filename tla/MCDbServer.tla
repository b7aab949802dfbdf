------------------------------ MODULE MCDbServer ------------------------------
(* An instance of DbServer for TLC: two asynchronous requests of a method  *)
(* and a synchronous one.                                                  *)
EXTENDS DbServer

MCRequests == 1..2
MCMethodOf == [r \in MCRequests |-> IF r = 2 THEN "share" ELSE "upload"]
=============================================================================
