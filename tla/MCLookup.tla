------------------------------ MODULE MCLookup ------------------------------
(* An instance of Lookup: two lookups of one payment. *)
EXTENDS Lookup, TLC

CONSTANTS p1, l1, l2

MCPayments == {p1}
MCLookups == {l1, l2}
=============================================================================
