------------------------------ MODULE MCEtharp ------------------------------
(***************************************************************************)
(* The ARP table with two entries, fewer than the hosts that want one, and *)
(* short ages.                                                             *)
(***************************************************************************)
EXTENDS Etharp

\* The gateway may be replaced; the other hosts have an address each.
SomeMacsOf == [ip \in Lan |-> IF ip = Gateway THEN Macs ELSE {"m1"}]
=============================================================================
