--------------------------- MODULE MCShippingRuns ---------------------------
(***************************************************************************)
(* An instance of ShippingRuns for TLC: two requests for one run, or one   *)
(* request and failures of the connection or the daemon.                   *)
(***************************************************************************)
EXTENDS ShippingRuns

CONSTANTS c1, c2

OneOrTheOther == failures' = 0 \/ post'[c2] = "new"
=============================================================================
