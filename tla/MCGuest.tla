------------------------------- MODULE MCGuest -------------------------------
(***************************************************************************)
(* An instance of GuestCache for TLC.                                      *)
(***************************************************************************)
EXTENDS GuestCache

CONSTANTS f, g, d, d2

\* A function without and one with a working directory, another payload in that, a
\* second one.
Jobs == {[function |-> f, dir |-> None], [function |-> g, dir |-> d],
         [function |-> None, dir |-> d], [function |-> None, dir |-> d2]}
=============================================================================
