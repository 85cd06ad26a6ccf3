-------------------------------- MODULE Lists --------------------------------
(***************************************************************************)
(* Lists with some of their elements taken out, as QList::removeAll() and  *)
(* disconnect() leave them: SelectSeq with a set in the place of the test, *)
(* written out so that it can be reasoned about.                           *)
(***************************************************************************)
EXTENDS Naturals, Sequences

(* Of each prefix of s, the elements in S. *)
Selected(s, S) ==
    LET F[i \in 0..Len(s)] ==
            IF i = 0 THEN <<>>
            ELSE IF s[i] \in S THEN Append(F[i - 1], s[i]) ELSE F[i - 1]
    IN  F

Only(s, S) == Selected(s, S)[Len(s)]

(* The elements of s other than x. *)
Omit(s, x) == Only(s, {s[i] : i \in 1..Len(s)} \ {x})
=============================================================================
