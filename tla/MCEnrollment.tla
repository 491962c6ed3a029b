---------------------------- MODULE MCEnrollment ----------------------------
(***************************************************************************)
(* An instance of Enrollment for TLC.                                      *)
(***************************************************************************)
EXTENDS Enrollment

CONSTANTS host, other
=============================================================================
