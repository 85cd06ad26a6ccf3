--------------------------- MODULE MCFileTransfer ----------------------------
(***************************************************************************)
(* A file of up to three bytes, offered twice, so that the second transfer *)
(* can resume the first.                                                   *)
(***************************************************************************)
EXTENDS FileTransfer
=============================================================================
