------------------------------- MODULE MCNodes --------------------------------
(* Instances of NodeLifetime for TLC: an inbound peer and a node that the user     *)
(* interface or ThreadOpenConnections dials, at addresses of their own or at one.  *)
EXTENDS NodeLifetime, TLC

CONSTANTS in1, out1, ui1, ip1, ip2, ip3

\* Every address is dialled, or dials us, by one party only.
ApartIps == (in1 :> ip1) @@ (out1 :> ip2) @@ (ui1 :> ip3)

\* A peer connects from the address that is being dialled.
SharedIps == (in1 :> ip1) @@ (out1 :> ip1)
================================================================================
