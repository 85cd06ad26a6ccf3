--------------------------- MODULE MCPluginManager ---------------------------
(***************************************************************************)
(* PluginManager on two ordinary plugins and one protocol.  Three calls    *)
(* are enough to load, unload and shut down in every order, and to call    *)
(* shutdown() while plugins are still being loaded.                        *)
(***************************************************************************)
EXTENDS PluginManager
=============================================================================
