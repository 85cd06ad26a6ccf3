----------------------------- MODULE MCAutoAway ------------------------------
(***************************************************************************)
(* Two accounts and a gateway of one of them.                              *)
(***************************************************************************)
EXTENDS AutoAway

CONSTANTS jab, icq, gateway

MCOwner == [t \in {gateway} |-> jab]
=============================================================================
