------------------------------ MODULE MCConnection ------------------------------
(* Connections that are accepted one after the other on the same descriptor. *)
EXTENDS Connection

\* A request without a body that keeps the connection alive, one with a body that
\* does not, and a malformed one.
MCKinds == {[body |-> FALSE, keep |-> TRUE, bad |-> FALSE],
            [body |-> TRUE, keep |-> FALSE, bad |-> FALSE],
            [body |-> FALSE, keep |-> FALSE, bad |-> TRUE]}
=============================================================================
