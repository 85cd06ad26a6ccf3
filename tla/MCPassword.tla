----------------------------- MODULE MCPassword -----------------------------
(***************************************************************************)
(* One account's password with two calls that read, set or clear it.       *)
(***************************************************************************)
EXTENDS Password
=============================================================================
