------------------------------ MODULE MCAccount ------------------------------
(***************************************************************************)
(* One Jabber account that is connected, lost, suspended and resumed.      *)
(***************************************************************************)
EXTENDS Account
=============================================================================
