----------------------------- MODULE MCGateway ------------------------------
(* Instances of Gateway: requests of every kind, in every order. *)
EXTENDS Gateway, TLC

CONSTANTS r1, r2

MCRequests == {r1, r2}
=============================================================================
