----------------------------- MODULE MCContactList -----------------------------
(* Two contacts of two protocols, in up to two metacontacts and one group. *)
EXTENDS ContactList

MCContacts == {"jim", "joe"}
MCProtocols == {"jabber", "icq"}
MCProtocolOf == [c \in MCContacts |-> IF c = "jim" THEN "jabber" ELSE "icq"]
=============================================================================
