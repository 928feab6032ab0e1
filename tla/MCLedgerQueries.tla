--------------------------- MODULE MCLedgerQueries ---------------------------
(* An instance of LedgerQueries: five entries, of which some come and go in
   three ledgers.                                                           *)
EXTENDS LedgerQueries

MCBooks == << <<1, 2, 3, 4>>, <<2, 3, 5>>, <<1, 3, 4, 5>> >>
=============================================================================
