--------------------------- MODULE MCDistribution ---------------------------
(***************************************************************************)
(* An instance of Distribution for TLC: one request at a time for each of  *)
(* two environments.                                                       *)
(***************************************************************************)
EXTENDS Distribution

CONSTANTS e1, e2, r1, r2

Targets == [r \in Req |-> IF r = r1 THEN e1 ELSE e2]
=============================================================================
