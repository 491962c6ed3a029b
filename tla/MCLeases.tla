------------------------------ MODULE MCLeases ------------------------------
(***************************************************************************)
(* Instances of NetworkLeases for TLC.                                     *)
(***************************************************************************)
EXTENDS NetworkLeases

CONSTANTS tcp, udp

Dynamic(proto) == [proto |-> proto, host |-> None]
Fixed(proto, port) == [proto |-> proto, host |-> port]

\* A dynamic one; a dynamic and a fixed one, which lies among the dynamic ones; the
\* fixed one first, and one of the other protocol.
Lists == {<<Dynamic(tcp)>>, <<Dynamic(tcp), Fixed(tcp, 2)>>, <<Fixed(tcp, 2), Dynamic(udp)>>}

\* Nothing, or one of the ports.
OtherPrograms == {{}, {<<tcp, 1>>}}

\* Bound: rules that stay where their port is free.
CONSTANT MaxFreeRules

LeasesNext == LeaseNext /\ Cardinality(FreeRules') <= MaxFreeRules
LeasesSpec == LeaseInit /\ [][LeasesNext]_leaseVars
=============================================================================
