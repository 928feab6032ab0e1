---------------------------- MODULE MCSubmission ----------------------------
(* Instances of Submission: two payments with one client_resource_id. *)
EXTENDS Submission, TLC

CONSTANTS r1, r2, id1, alice

MCRequests == {r1, r2}
MCIds == {id1}
MCIdOf == [r \in Requests |-> id1]
MCAccountOf == [r \in Requests |-> alice]

First == {r1}
=============================================================================
