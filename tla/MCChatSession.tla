---------------------------- MODULE MCChatSession ----------------------------
(***************************************************************************)
(* Two messages between the user and one or two contacts.                  *)
(***************************************************************************)
EXTENDS ChatSession
=============================================================================
