------------------------------ MODULE RpcService ------------------------------
(***************************************************************************)
(* What a gRPC server of this program promises, whatever its handlers do:  *)
(* it takes a request that was sent, replies to a request it has taken and *)
(* at most once, and gives up what it holds for a request only after the   *)
(* reply.  A client may leave before its answer comes, and the server may  *)
(* break down.  DbServer and FdfsServer implement it.                      *)
(***************************************************************************)
CONSTANT Requests

VARIABLES stage,    \* of a request in the server
          client,   \* what its client knows
          down      \* the server has broken down or was never up
svars == <<stage, client, down>>

Stages == {"none", "asked", "taken", "replied", "released"}

Init ==
    /\ stage = [r \in Requests |-> "none"]
    /\ client = [r \in Requests |-> "idle"]
    /\ down = FALSE

Moves(r, from, to) == stage[r] = from /\ stage' = [stage EXCEPT ![r] = to]

Ask(r) == /\ Moves(r, "none", "asked") /\ client' = [client EXCEPT ![r] = "waiting"]
          /\ UNCHANGED down
Take(r) == ~down /\ Moves(r, "asked", "taken") /\ UNCHANGED <<client, down>>
Reply(r) == ~down /\ Moves(r, "taken", "replied") /\ UNCHANGED <<client, down>>
Deliver(r) ==
    /\ ~down /\ stage[r] = "replied" /\ client[r] = "waiting"
    /\ client' = [client EXCEPT ![r] = "answered"] /\ UNCHANGED <<stage, down>>
Release(r) == /\ ~down /\ client[r] # "waiting" /\ Moves(r, "replied", "released")
              /\ UNCHANGED <<client, down>>
Leave(r) == /\ client[r] = "waiting" /\ client' = [client EXCEPT ![r] = "gone"]
            /\ UNCHANGED <<stage, down>>
BreakDown == ~down /\ down' = TRUE /\ UNCHANGED <<stage, client>>

Next ==
    \/ \E r \in Requests : Ask(r) \/ Take(r) \/ Reply(r) \/ Deliver(r) \/ Release(r) \/ Leave(r)
    \/ BreakDown

Spec == Init /\ [][Next]_svars
=============================================================================
