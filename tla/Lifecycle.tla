------------------------------ MODULE Lifecycle ------------------------------
(***************************************************************************)
(* The life of the application as the rest of Kopete sees it through the   *)
(* plugin manager, without plugins, queues, timers or deferred deletions.  *)
(***************************************************************************)
EXTENDS Naturals

VARIABLES
    mode,
    announced,      \* how often allPluginsLoaded() was emitted
    asked,          \* a shutdown was asked for
    saved,          \* the contact list and the accounts were saved
    released        \* the event loop may end

vars == <<mode, announced, asked, saved, released>>

Init ==
    /\ mode = "StartingUp" /\ announced = 0
    /\ ~asked /\ ~saved /\ ~released

(* The last plugin is in; everybody is told, this once. *)
Start ==
    /\ mode = "StartingUp" /\ mode' = "Running"
    /\ announced' = announced + 1
    /\ UNCHANGED <<asked, saved, released>>

(* A running application saves and shuts down; any other ignores it. *)
Quit ==
    /\ asked'
    /\ IF mode = "Running" THEN mode' = "ShuttingDown" /\ saved' ELSE UNCHANGED <<mode, saved>>
    /\ UNCHANGED <<announced, released>>

Release ==
    /\ mode = "ShuttingDown" /\ mode' = "DoneShutdown"
    /\ released'
    /\ UNCHANGED <<announced, asked, saved>>

Next == Start \/ Quit \/ Release

(* Startup and shutdown come to their end. *)
Progress ==
    /\ mode = "StartingUp" ~> mode # "StartingUp"
    /\ mode = "ShuttingDown" ~> released

Spec == Init /\ [][Next]_vars /\ Progress
=============================================================================
