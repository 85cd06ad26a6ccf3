------------------------------ MODULE ListStore ------------------------------
(***************************************************************************)
(* A store that is kept in memory and written back later: what the contact *)
(* list promises, without saying what is in it or when it is saved.        *)
(***************************************************************************)
CONSTANTS
    nothing,    \* the memory while the store is closed
    empty,      \* the memory of a store that could not be read
    Cleared(_)  \* what is left of a memory once its owners are gone

VARIABLES
    open,
    memory,
    dirty,      \* a write is scheduled
    disk

vars == <<open, memory, dirty, disk>>

Init == ~open /\ memory = nothing /\ ~dirty

(* What is read is worked on at once, so it is written again. *)
Open == ~open /\ open' /\ dirty' /\ UNCHANGED disk

(* The store could not be read; the file stays until something changes. *)
OpenFails == ~open /\ open' /\ memory' = empty /\ UNCHANGED <<dirty, disk>>

Change == open /\ open' /\ dirty' /\ UNCHANGED disk

Flush == open /\ dirty /\ ~dirty' /\ disk' = memory /\ UNCHANGED <<open, memory>>

(* The last write may fail; a crash does not write. *)
Close == open /\ ~open' /\ memory' = nothing /\ ~dirty' /\ disk' \in {disk, memory}

(* Those who own the contents are deleted before the last write. *)
CloseCleared == open /\ ~open' /\ memory' = nothing /\ ~dirty' /\ disk' \in {disk, Cleared(memory)}

Next == Open \/ OpenFails \/ Change \/ Flush \/ Close \/ CloseCleared

(* A write that is scheduled is made, or the store is closed before. *)
Progress == dirty ~> ~dirty

Spec == Init /\ [][Next]_vars /\ Progress
=============================================================================
