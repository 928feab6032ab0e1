----------------------------- MODULE MCTxStore -----------------------------
(* Instances of TxStore: four saves of two client_resource_ids, where one
   identifier is used by two accounts.                                     *)
EXTENDS TxStore, TLC

CONSTANTS s1, s2, s3, s4, id1, id2, alice, bob

MCSaves == {s1, s2, s3, s4}
MCIds == {id1, id2}

\* s1 and s2 are alice's payment id1, s3 is bob's payment with the same
\* client_resource_id, s4 is bob's payment id2.
MCClientId == s1 :> id1 @@ s2 :> id1 @@ s3 :> id1 @@ s4 :> id2
MCOwner == s1 :> alice @@ s2 :> alice @@ s3 :> bob @@ s4 :> bob
=============================================================================
