-------------------------- MODULE MCAccountRegistry --------------------------
(***************************************************************************)
(* Two Jabber accounts, one of them with a gateway.                        *)
(***************************************************************************)
EXTENDS AccountRegistry

CONSTANTS work, home, gateway

MCParentOf == [t \in {gateway} |-> home]
=============================================================================
