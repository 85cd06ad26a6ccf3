-------------------------- MODULE ContactList_proofs --------------------------
(***************************************************************************)
(* Proofs of the safety of ContactList for any metacontacts, groups,       *)
(* contacts and protocols, and that every step of it is a step of the      *)
(* store in ListStore or leaves that store alone.                          *)
(***************************************************************************)
EXTENDS ContactList, SequenceTheorems, WellFoundedInduction, TLAPS

(* Only a metacontact made from the file waits for protocols, and the file *)
(* has no temporary ones: what a protocol brings back is saved again.      *)
ListensIsSaved == \A m \in DOMAIN meta : meta[m].listens => ~meta[m].temporary

(* Before the list is loaded nothing is there, and a list that was shut    *)
(* down is not saved any more.                                             *)
PhaseSound ==
    /\ phase = "down" => /\ meta = <<>> /\ owner = [c \in Contacts |-> Nobody]
                         /\ groups = {} /\ protocols = {}
    /\ phase # "running" => saveTimer = FALSE

(* The inductive invariant.  MembershipAgrees is needed for                *)
(* NothingForgotten: a contact whose owner is saved is written with it.    *)
Inv ==
    /\ TypeOK
    /\ MembershipAgrees
    /\ GroupsSound
    /\ NothingForgotten
    /\ ListensIsSaved
    /\ PhaseSound

-----------------------------------------------------------------------------
(* What Only and Omit leave of a list: the right elements, none of them    *)
(* twice if none was.  The proofs are by the least prefix for which the    *)
(* claim fails.                                                            *)

(* x is an element of the list s. *)
In(x, s) == \E i \in 1..Len(s) : s[i] = x

(* No element is in the list twice. *)
NoTwice(s) == \A i, j \in 1..Len(s) : s[i] = s[j] => i = j

(* Every nonempty set of natural numbers has a least element. *)
LEMMA LeastOf ==
    ASSUME NEW T \in SUBSET Nat, T # {}
    PROVE  \E x \in T : \A y \in T : x <= y
<1>1. PICK x \in T : \A y \in T : ~(<<y, x>> \in OpToRel(<, Nat))
  BY WFMin, NatLessThanWellFounded
<1>2. \A y \in T : y < x => <<y, x>> \in OpToRel(<, Nat)
  BY DEF OpToRel
<1>3. \A y \in T : ~(y < x)
  BY <1>1, <1>2, Zenon
<1> QED BY <1>3

(* Induction over the prefixes of a list of length n: G is the set of the  *)
(* lengths for which a claim holds.                                        *)
LEMMA PrefixInduction ==
    ASSUME NEW n \in Nat, NEW G, 0 \in G, \A i \in 1..n : i - 1 \in G => i \in G
    PROVE  \A i \in 0..n : i \in G
<1> SUFFICES ASSUME NEW k \in 0..n, k \notin G PROVE FALSE
  OBVIOUS
<1> DEFINE B == (0..n) \ G
<1>1. B \in SUBSET Nat /\ B # {}
  OBVIOUS
<1>2. PICK x \in B : \A y \in B : x <= y
  BY <1>1, LeastOf
<1>3. x \in 1..n /\ x - 1 \in 0..n
  BY <1>2
<1>4. x - 1 \in G
  BY <1>2, <1>3
<1> QED BY <1>2, <1>3, <1>4

(* The recursive definition of Selected defines a function. *)
LEMMA SelectedIs ==
    ASSUME NEW T, NEW s \in Seq(T), NEW S
    PROVE  /\ Selected(s, S)[0] = <<>>
           /\ \A i \in 1..Len(s) :
                 Selected(s, S)[i] = IF s[i] \in S THEN Append(Selected(s, S)[i - 1], s[i])
                                     ELSE Selected(s, S)[i - 1]
<1> DEFINE Step(i, l) == IF i = 0 THEN <<>> ELSE IF s[i] \in S THEN Append(l, s[i]) ELSE l
           Fits(g, n) == g = [i \in 0..n |-> Step(i, g[i - 1])]
           G == {n \in Nat : \E g : Fits(g, n)}
<1>0. Len(s) \in Nat
  BY LenProperties
<1>1. 0 \in G
  <2> DEFINE g == [i \in 0..0 |-> <<>>]
  <2>1. Fits(g, 0)
    OBVIOUS
  <2> QED BY <2>1
<1>2. ASSUME NEW n \in 1..Len(s), n - 1 \in G PROVE n \in G
  <2>1. PICK g : Fits(g, n - 1)
    BY <1>2
  <2> DEFINE h == [i \in 0..n |-> IF i = n THEN Step(n, g[n - 1]) ELSE g[i]]
  <2>2. n \in Nat /\ n - 1 \in 0..(n - 1)
    BY <1>0
  <2> HIDE DEF Step
  <2>3. ASSUME NEW i \in 0..n PROVE h[i] = Step(i, h[i - 1])
    <3>1. CASE i = n
      BY <2>2, <3>1
    <3>2. CASE i # n
      <4>1. i \in 0..(n - 1)
        BY <2>2, <3>2
      <4>2. g[i] = Step(i, g[i - 1])
        BY <2>1, <4>1
      <4>3. CASE i = 0
        BY <2>2, <3>2, <4>2, <4>3 DEF Step
      <4>4. CASE i # 0
        <5>1. i - 1 \in 0..n /\ i - 1 # n
          BY <2>2, <4>1, <4>4
        <5> QED BY <3>2, <4>2, <5>1
      <4> QED BY <4>3, <4>4
    <3> QED BY <3>1, <3>2
  <2>4. Fits(h, n)
    BY <2>3
  <2> QED BY <2>2, <2>4
<1>3. Len(s) \in G
  <2> HIDE DEF G
  <2>1. \A i \in 0..Len(s) : i \in G
    BY <1>0, <1>1, <1>2, PrefixInduction
  <2> QED BY <1>0, <2>1
<1>4. \E g : g = [i \in 0..Len(s) |->
                    IF i = 0 THEN <<>> ELSE IF s[i] \in S THEN Append(g[i - 1], s[i]) ELSE g[i - 1]]
  BY <1>3
<1>5. Selected(s, S) = [i \in 0..Len(s) |->
                           IF i = 0 THEN <<>>
                           ELSE IF s[i] \in S THEN Append(Selected(s, S)[i - 1], s[i])
                           ELSE Selected(s, S)[i - 1]]
  BY <1>4 DEF Selected
<1>6. 0 \in 0..Len(s) /\ \A i \in 1..Len(s) : i \in 0..Len(s) /\ i # 0
  BY <1>0
<1> HIDE DEF G
<1> QED BY <1>5, <1>6

(* An element is added at the end. *)
LEMMA AppendIn ==
    ASSUME NEW T, NEW s \in Seq(T), NEW e \in T
    PROVE  /\ Append(s, e) \in Seq(T) /\ Append(s, e) # <<>>
           /\ \A x : In(x, Append(s, e)) <=> In(x, s) \/ x = e
           /\ NoTwice(s) /\ ~In(e, s) => NoTwice(Append(s, e))
<1> DEFINE p == Append(s, e)
<1>1. /\ p \in Seq(T) /\ Len(p) = Len(s) + 1 /\ Len(s) \in Nat
      /\ \A i \in 1..Len(s) : p[i] = s[i]
      /\ p[Len(s) + 1] = e
  BY AppendProperties, LenProperties
<1>2. p # <<>>
  BY <1>1
<1> HIDE DEF p
<1>3. /\ \A i \in 1..Len(p) : i \in 1..Len(s) \/ i = Len(s) + 1
      /\ \A i \in 1..Len(s) : i \in 1..Len(p)
      /\ Len(s) + 1 \in 1..Len(p)
  BY <1>1
<1>4. ASSUME NEW x PROVE In(x, p) <=> In(x, s) \/ x = e
  BY <1>1, <1>3, Zenon DEF In
<1>5. ASSUME NoTwice(s), ~In(e, s) PROVE NoTwice(p)
  <2> SUFFICES ASSUME NEW i \in 1..Len(p), NEW j \in 1..Len(p), p[i] = p[j] PROVE i = j
    BY Zenon DEF NoTwice
  <2>1. CASE i \in 1..Len(s) /\ j \in 1..Len(s)
    BY <1>1, <1>5, <2>1 DEF NoTwice
  <2>2. CASE i \in 1..Len(s) /\ j = Len(s) + 1
    BY <1>1, <1>5, <2>2 DEF In
  <2>3. CASE i = Len(s) + 1 /\ j \in 1..Len(s)
    BY <1>1, <1>5, <2>3 DEF In
  <2> QED BY <1>3, <2>1, <2>2, <2>3
<1> QED BY <1>1, <1>2, <1>4, <1>5 DEF p

(* Only(s, S) has the elements of s that are in S, in a list of the same   *)
(* type, and none of them twice if s has none twice.                       *)
LEMMA OnlyFacts ==
    ASSUME NEW T, NEW s \in Seq(T), NEW S
    PROVE  /\ Only(s, S) \in Seq(T)
           /\ \A x : In(x, Only(s, S)) <=> In(x, s) /\ x \in S
           /\ NoTwice(s) => NoTwice(Only(s, S))
<1> DEFINE F == Selected(s, S)
           G == {n \in Nat : /\ F[n] \in Seq(T)
                             /\ \A x : In(x, F[n]) <=> x \in S /\ \E k \in 1..n : s[k] = x
                             /\ NoTwice(s) => NoTwice(F[n])}
<1>0. Len(s) \in Nat /\ \A i \in 1..Len(s) : s[i] \in T
  BY LenProperties, ElementOfSeq
<1>1. F[0] = <<>>
      /\ \A i \in 1..Len(s) : F[i] = IF s[i] \in S THEN Append(F[i - 1], s[i]) ELSE F[i - 1]
  BY SelectedIs
<1> HIDE DEF F
<1>2. 0 \in G
  <2>1. <<>> \in Seq(T) /\ Len(<<>>) = 0
    BY EmptySeq
  <2>2. \A x : ~In(x, <<>>)
    BY <2>1 DEF In
  <2>3. NoTwice(<<>>)
    BY <2>1 DEF NoTwice
  <2>4. \A x : ~(\E k \in 1..0 : s[k] = x)
    OBVIOUS
  <2> QED BY <1>1, <2>1, <2>2, <2>3, <2>4
<1>3. ASSUME NEW n \in 1..Len(s), n - 1 \in G PROVE n \in G
  <2>1. /\ F[n - 1] \in Seq(T)
        /\ \A x : In(x, F[n - 1]) <=> x \in S /\ \E k \in 1..(n - 1) : s[k] = x
        /\ NoTwice(s) => NoTwice(F[n - 1])
    BY <1>3
  <2>2. n \in Nat /\ s[n] \in T
    BY <1>0
  <2>3. /\ \A k \in 1..n : k = n \/ k \in 1..(n - 1)
        /\ \A k \in 1..(n - 1) : k \in 1..n /\ k # n /\ k \in 1..Len(s)
        /\ n \in 1..n
    BY <1>0, <2>2
  <2>4. \A x : (\E k \in 1..n : s[k] = x) <=> (\E k \in 1..(n - 1) : s[k] = x) \/ x = s[n]
    BY <2>3, Zenon
  <2>5. F[n] = IF s[n] \in S THEN Append(F[n - 1], s[n]) ELSE F[n - 1]
    BY <1>1
  <2>6. CASE s[n] \notin S
    <3>1. F[n] = F[n - 1]
      BY <2>5, <2>6
    <3>2. \A x : In(x, F[n]) <=> x \in S /\ \E k \in 1..n : s[k] = x
      BY <2>1, <2>4, <2>6, <3>1, Zenon
    <3> QED BY <2>1, <2>2, <3>1, <3>2
  <2>7. CASE s[n] \in S
    <3>1. F[n] = Append(F[n - 1], s[n])
      BY <2>5, <2>7
    <3>2. /\ F[n] \in Seq(T)
          /\ \A x : In(x, F[n]) <=> In(x, F[n - 1]) \/ x = s[n]
          /\ NoTwice(F[n - 1]) /\ ~In(s[n], F[n - 1]) => NoTwice(F[n])
      BY <2>1, <2>2, <3>1, AppendIn
    <3>3. \A x : In(x, F[n]) <=> x \in S /\ \E k \in 1..n : s[k] = x
      BY <2>1, <2>4, <2>7, <3>2, Zenon
    <3>4. NoTwice(s) => ~(\E k \in 1..(n - 1) : s[k] = s[n])
      BY <2>3 DEF NoTwice
    <3>5. NoTwice(s) => NoTwice(F[n])
      BY <2>1, <3>2, <3>4
    <3> QED BY <2>2, <3>2, <3>3, <3>5
  <2> QED BY <2>6, <2>7
<1>4. Len(s) \in G
  <2> HIDE DEF G
  <2>1. \A i \in 0..Len(s) : i \in G
    BY <1>0, <1>2, <1>3, PrefixInduction
  <2> QED BY <1>0, <2>1
<1>5. Only(s, S) = F[Len(s)]
  BY DEF Only, F
<1> QED BY <1>4, <1>5 DEF In

(* Omit(s, x) has the elements of s other than x. *)
LEMMA OmitFacts ==
    ASSUME NEW T, NEW s \in Seq(T), NEW x
    PROVE  /\ Omit(s, x) \in Seq(T)
           /\ \A y : In(y, Omit(s, x)) <=> In(y, s) /\ y # x
           /\ NoTwice(s) => NoTwice(Omit(s, x))
<1> DEFINE S == {s[i] : i \in 1..Len(s)} \ {x}
<1>1. \A y : In(y, s) => (y \in S <=> y # x)
  BY DEF In
<1>2. Omit(s, x) = Only(s, S)
  BY DEF Omit
<1> HIDE DEF S
<1> QED BY <1>1, <1>2, OnlyFacts

(* A list of one element. *)
LEMMA Single ==
    ASSUME NEW T, NEW x \in T
    PROVE  /\ <<x>> \in Seq(T) /\ <<x>> # <<>> /\ NoTwice(<<x>>)
           /\ \A y : In(y, <<x>>) <=> y = x
<1>1. <<x>> \in Seq(T) /\ Len(<<x>>) = 1 /\ <<x>>[1] = x /\ <<x>> # <<>>
  OBVIOUS
<1>2. 1..1 = {1}
  OBVIOUS
<1> QED BY <1>1, <1>2 DEF In, NoTwice

-----------------------------------------------------------------------------
(* Groups of a metacontact. *)

(* A list of groups as GroupsSound wants it, of groups that are known. *)
Sound(gs, temporary, known) ==
    /\ gs \in Seq(AllGroups) /\ gs # <<>> /\ NoTwice(gs)
    /\ \A g : In(g, gs) => g \in known \cup {Top, Temporary}
    /\ temporary => gs = <<Temporary>>

(* The library's words for lists. *)
LEMMA ListWords ==
    ASSUME NEW T, NEW s \in Seq(T)
    PROVE  /\ \A x : Contains(s, x) <=> In(x, s)
           /\ \A x : x \in ToSet(s) <=> In(x, s)
           /\ IsInjective(s) <=> NoTwice(s)
           /\ s = <<>> <=> ~\E x : In(x, s)
<1>1. DOMAIN s = 1..Len(s) /\ Len(s) \in Nat
  BY LenProperties
<1>2. s # <<>> => 1 \in 1..Len(s)
  BY <1>1, EmptySeq
<1>3. s = <<>> => Len(s) = 0
  BY EmptySeq
<1>4. s = <<>> <=> ~\E x : In(x, s)
  BY <1>1, <1>2, <1>3 DEF In
<1>5. \A x : Contains(s, x) <=> In(x, s)
  BY DEF Contains, In
<1>6. \A x : x \in ToSet(s) <=> In(x, s)
  BY <1>1 DEF ToSet, In
<1>7. IsInjective(s) <=> NoTwice(s)
  BY <1>1 DEF IsInjective, NoTwice
<1> QED BY <1>4, <1>5, <1>6, <1>7

(* addToGroup() *)
LEMMA AddToGroupFacts ==
    ASSUME NEW temporary \in BOOLEAN, NEW known \in SUBSET AllGroups, NEW gs, Sound(gs, temporary, known),
           NEW to \in known \cup {Top, Temporary}
    PROVE  /\ Sound(AddToGroup(gs, temporary, to), temporary, known)
           /\ \A g : In(g, AddToGroup(gs, temporary, to)) => In(g, gs) \/ g = to
<1>0. to \in AllGroups /\ Temporary \in AllGroups
  BY DEF AllGroups
<1>1. CASE Contains(gs, to) \/ (temporary /\ to # Temporary)
  BY <1>1 DEF AddToGroup
<1>2. CASE ~(Contains(gs, to) \/ (temporary /\ to # Temporary))
  <2>1. ~In(to, gs) /\ gs \in Seq(AllGroups)
    BY <1>2, ListWords DEF Sound
  <2>2. ~temporary
    <3>1. temporary => gs = <<Temporary>> /\ to = Temporary
      BY <1>2 DEF Sound
    <3>2. In(Temporary, <<Temporary>>)
      BY <1>0, Single
    <3> QED BY <2>1, <3>1, <3>2
  <2>3. AddToGroup(gs, temporary, to) = Append(Omit(gs, Top), to)
    BY <1>2 DEF AddToGroup
  <2> DEFINE rest == Omit(gs, Top)
  <2>4. rest \in Seq(AllGroups) /\ NoTwice(rest) /\ \A g : In(g, rest) => In(g, gs)
    BY <2>1, OmitFacts DEF Sound
  <2> HIDE DEF rest
  <2>5. /\ Append(rest, to) \in Seq(AllGroups) /\ Append(rest, to) # <<>>
        /\ \A g : In(g, Append(rest, to)) <=> In(g, rest) \/ g = to
        /\ NoTwice(Append(rest, to))
    BY <1>0, <2>1, <2>4, AppendIn
  <2> QED BY <2>2, <2>3, <2>4, <2>5 DEF Sound, rest
<1> QED BY <1>1, <1>2

(* removeFromGroup() *)
LEMMA RemoveFromGroupFacts ==
    ASSUME NEW temporary \in BOOLEAN, NEW known \in SUBSET AllGroups, NEW gs, Sound(gs, temporary, known),
           NEW g
    PROVE  /\ Sound(RemoveFromGroup(gs, temporary, g), temporary, known)
           /\ Sound(RemoveFromGroup(gs, temporary, g), temporary, known \ {g})
<1> DEFINE r == RemoveFromGroup(gs, temporary, g)
           rest == Omit(gs, g)
<1> SUFFICES Sound(r, temporary, known) /\ Sound(r, temporary, known \ {g})
  OBVIOUS
<1>0. Top \in AllGroups /\ Temporary \in AllGroups /\ gs \in Seq(AllGroups)
  BY DEF AllGroups, Sound
<1>1. CASE temporary
  <2>1. gs = <<Temporary>>
    BY <1>1 DEF Sound
  <2>2. \A h : In(h, gs) <=> h = Temporary
    BY <1>0, <2>1, Single
  <2>3. r = gs
    BY <1>0, <1>1, <2>2, ListWords DEF RemoveFromGroup
  <2> QED BY <2>2, <2>3 DEF Sound
<1>2. CASE ~temporary
  <2>1. rest \in Seq(AllGroups) /\ NoTwice(rest) /\ \A h : In(h, rest) <=> In(h, gs) /\ h # g
    BY <1>0, OmitFacts DEF Sound
  <2>2. r = IF ~In(g, gs) THEN gs ELSE IF rest = <<>> THEN <<Top>> ELSE rest
    BY <1>0, <1>2, ListWords DEF RemoveFromGroup
  <2>3. <<Top>> \in Seq(AllGroups) /\ <<Top>> # <<>> /\ NoTwice(<<Top>>) /\ \A h : In(h, <<Top>>) <=> h = Top
    BY <1>0, Single
  <2> HIDE DEF rest, r
  <2>4. CASE ~In(g, gs)
    BY <1>2, <2>2, <2>4 DEF Sound
  <2>5. CASE In(g, gs) /\ rest = <<>>
    BY <1>2, <2>2, <2>3, <2>5 DEF Sound
  <2>6. CASE In(g, gs) /\ rest # <<>>
    BY <1>2, <2>1, <2>2, <2>6 DEF Sound
  <2> QED BY <2>4, <2>5, <2>6
<1> QED BY <1>1, <1>2

(* moveToGroup() *)
LEMMA MoveToGroupFacts ==
    ASSUME NEW temporary \in BOOLEAN, NEW known \in SUBSET AllGroups, NEW gs, Sound(gs, temporary, known),
           NEW from, NEW to \in known \cup {Top, Temporary}
    PROVE  Sound(MoveToGroup(gs, temporary, from, to), temporary, known)
<1>0. to \in AllGroups /\ Temporary \in AllGroups /\ gs \in Seq(AllGroups)
  BY DEF AllGroups, Sound
<1>1. CASE ~Contains(gs, from)
  BY <1>1, AddToGroupFacts DEF MoveToGroup
<1>2. CASE Contains(gs, from) /\ (from = to \/ (~Contains(gs, to) /\ temporary /\ to # Temporary))
  BY <1>2 DEF MoveToGroup
<1>3. CASE Contains(gs, from) /\ from # to /\ Contains(gs, to)
  BY <1>3, RemoveFromGroupFacts DEF MoveToGroup
<1>4. CASE Contains(gs, from) /\ from # to /\ ~Contains(gs, to) /\ ~(temporary /\ to # Temporary)
  <2>1. MoveToGroup(gs, temporary, from, to) = Append(Omit(gs, from), to)
    BY <1>4 DEF MoveToGroup
  <2>2. ~In(to, gs)
    BY <1>0, <1>4, ListWords
  <2>3. ~temporary
    <3>1. temporary => gs = <<Temporary>> /\ to = Temporary
      BY <1>4 DEF Sound
    <3>2. In(Temporary, <<Temporary>>)
      BY <1>0, Single
    <3> QED BY <2>2, <3>1, <3>2
  <2> DEFINE rest == Omit(gs, from)
  <2>4. rest \in Seq(AllGroups) /\ NoTwice(rest) /\ \A g : In(g, rest) => In(g, gs)
    BY <1>0, OmitFacts DEF Sound
  <2> HIDE DEF rest
  <2>5. /\ Append(rest, to) \in Seq(AllGroups) /\ Append(rest, to) # <<>>
        /\ \A g : In(g, Append(rest, to)) <=> In(g, rest) \/ g = to
        /\ NoTwice(Append(rest, to))
    BY <1>0, <2>2, <2>4, AppendIn
  <2> QED BY <2>1, <2>3, <2>4, <2>5 DEF Sound, rest
<1> QED BY <1>1, <1>2, <1>3, <1>4

(* The recursive definition of AddToEach defines a function. *)
LEMMA AddToEachIs ==
    ASSUME NEW T, NEW s \in Seq(T)
    PROVE  /\ AddToEach(s)[0] = <<Top>>
           /\ \A i \in 1..Len(s) : AddToEach(s)[i] = AddToGroup(AddToEach(s)[i - 1], FALSE, s[i])
<1> DEFINE Step(i, l) == IF i = 0 THEN <<Top>> ELSE AddToGroup(l, FALSE, s[i])
           Fits(g, n) == g = [i \in 0..n |-> Step(i, g[i - 1])]
           G == {n \in Nat : \E g : Fits(g, n)}
<1>0. Len(s) \in Nat
  BY LenProperties
<1>1. 0 \in G
  <2> DEFINE g == [i \in 0..0 |-> <<Top>>]
  <2>1. Fits(g, 0)
    OBVIOUS
  <2> QED BY <2>1
<1>2. ASSUME NEW n \in 1..Len(s), n - 1 \in G PROVE n \in G
  <2>1. PICK g : Fits(g, n - 1)
    BY <1>2
  <2> DEFINE h == [i \in 0..n |-> IF i = n THEN Step(n, g[n - 1]) ELSE g[i]]
  <2>2. n \in Nat /\ n - 1 \in 0..(n - 1)
    BY <1>0
  <2> HIDE DEF Step
  <2>3. ASSUME NEW i \in 0..n PROVE h[i] = Step(i, h[i - 1])
    <3>1. CASE i = n
      BY <2>2, <3>1
    <3>2. CASE i # n
      <4>1. i \in 0..(n - 1)
        BY <2>2, <3>2
      <4>2. g[i] = Step(i, g[i - 1])
        BY <2>1, <4>1
      <4>3. CASE i = 0
        BY <2>2, <3>2, <4>2, <4>3 DEF Step
      <4>4. CASE i # 0
        <5>1. i - 1 \in 0..n /\ i - 1 # n
          BY <2>2, <4>1, <4>4
        <5> QED BY <3>2, <4>2, <5>1
      <4> QED BY <4>3, <4>4
    <3> QED BY <3>1, <3>2
  <2>4. Fits(h, n)
    BY <2>3
  <2> QED BY <2>2, <2>4
<1>3. Len(s) \in G
  <2> HIDE DEF G
  <2>1. \A i \in 0..Len(s) : i \in G
    BY <1>0, <1>1, <1>2, PrefixInduction
  <2> QED BY <1>0, <2>1
<1>4. \E g : g = [i \in 0..Len(s) |-> IF i = 0 THEN <<Top>> ELSE AddToGroup(g[i - 1], FALSE, s[i])]
  BY <1>3
<1>5. AddToEach(s) = [i \in 0..Len(s) |->
                         IF i = 0 THEN <<Top>> ELSE AddToGroup(AddToEach(s)[i - 1], FALSE, s[i])]
  BY <1>4 DEF AddToEach
<1>6. 0 \in 0..Len(s) /\ \A i \in 1..Len(s) : i \in 0..Len(s) /\ i # 0
  BY <1>0
<1> HIDE DEF G
<1> QED BY <1>5, <1>6

(* However many groups a new metacontact is added to, its list is sound. *)
LEMMA AddToAllFacts ==
    ASSUME NEW known \in SUBSET AllGroups, NEW gs \in Seq(AllGroups),
           \A g : In(g, gs) => g \in known \cup {Top, Temporary}
    PROVE  Sound(AddToAll(gs), FALSE, known)
<1> DEFINE F == AddToEach(gs)
           G == {n \in Nat : Sound(F[n], FALSE, known)}
<1>0. Len(gs) \in Nat /\ \A i \in 1..Len(gs) : gs[i] \in known \cup {Top, Temporary}
  BY LenProperties DEF In
<1>1. F[0] = <<Top>> /\ \A i \in 1..Len(gs) : F[i] = AddToGroup(F[i - 1], FALSE, gs[i])
  BY AddToEachIs
<1> HIDE DEF F
<1>2. 0 \in G
  <2>1. Top \in AllGroups
    BY DEF AllGroups
  <2>2. <<Top>> \in Seq(AllGroups) /\ <<Top>> # <<>> /\ NoTwice(<<Top>>) /\ \A h : In(h, <<Top>>) <=> h = Top
    BY <2>1, Single
  <2> QED BY <1>1, <2>2 DEF Sound
<1>3. ASSUME NEW n \in 1..Len(gs), n - 1 \in G PROVE n \in G
  <2>0. gs[n] \in known \cup {Top, Temporary} /\ n \in Nat
    BY <1>0
  <2>1. Sound(F[n - 1], FALSE, known)
    BY <1>3, Zenon
  <2>2. FALSE \in BOOLEAN
    OBVIOUS
  <2>3. Sound(AddToGroup(F[n - 1], FALSE, gs[n]), FALSE, known)
    BY <2>0, <2>1, <2>2, AddToGroupFacts
  <2> QED BY <1>1, <2>0, <2>3
<1>4. Len(gs) \in G
  <2> HIDE DEF G
  <2>1. \A i \in 0..Len(gs) : i \in G
    BY <1>0, <1>2, <1>3, PrefixInduction
  <2> QED BY <1>0, <2>1
<1> QED BY <1>4 DEF AddToAll, F

(* The groups of a contact that is new: the group given, or the temporary  *)
(* one.                                                                    *)
LEMMA NewGroups ==
    ASSUME NEW temporary \in BOOLEAN, NEW known \in SUBSET AllGroups, NEW group \in known \cup {Top}
    PROVE  Sound(AddToGroup(<<Top>>, temporary, IF temporary THEN Temporary ELSE group), temporary, known)
<1>0. Top \in AllGroups /\ Temporary \in AllGroups /\ Top # Temporary
  BY DEF AllGroups, Top, Temporary
<1>1. <<Top>> \in Seq(AllGroups) /\ <<Top>> # <<>> /\ NoTwice(<<Top>>) /\ \A h : In(h, <<Top>>) <=> h = Top
  BY <1>0, Single
<1>2. CASE ~temporary
  <2>1. Sound(<<Top>>, temporary, known)
    BY <1>1, <1>2 DEF Sound
  <2> QED BY <1>2, <2>1, AddToGroupFacts
<1>3. CASE temporary
  <2>1. ~Contains(<<Top>>, Temporary)
    BY <1>0, <1>1, ListWords
  <2>2. AddToGroup(<<Top>>, temporary, Temporary) = Append(Omit(<<Top>>, Top), Temporary)
    BY <1>3, <2>1 DEF AddToGroup
  <2>3. Omit(<<Top>>, Top) \in Seq(AllGroups) /\ \A y : ~In(y, Omit(<<Top>>, Top))
    BY <1>1, OmitFacts
  <2>4. Omit(<<Top>>, Top) = <<>>
    BY <2>3, ListWords
  <2>5. AddToGroup(<<Top>>, temporary, Temporary) = <<Temporary>>
    BY <2>2, <2>4
  <2>6. Sound(<<Temporary>>, temporary, known)
    BY <1>0, Single DEF Sound
  <2> QED BY <1>3, <2>5, <2>6
<1> QED BY <1>2, <1>3

(* GroupsSound is about such lists. *)
LEMMA SoundIs ==
    ASSUME NEW gs \in Seq(AllGroups), NEW temporary, NEW known
    PROVE  Sound(gs, temporary, known)
             <=> /\ gs # <<>> /\ IsInjective(gs)
                 /\ ToSet(gs) \subseteq known \cup {Top, Temporary}
                 /\ temporary => gs = <<Temporary>>
<1>1. /\ \A x : x \in ToSet(gs) <=> In(x, gs)
      /\ IsInjective(gs) <=> NoTwice(gs)
  BY ListWords
<1>2. ToSet(gs) \subseteq known \cup {Top, Temporary}
        <=> \A g : In(g, gs) => g \in known \cup {Top, Temporary}
  BY <1>1
<1> QED BY <1>1, <1>2, Zenon DEF Sound

-----------------------------------------------------------------------------
(* The invariant holds when the program is started for the first time. *)
LEMMA InitInv == Init => Inv
<1> SUFFICES ASSUME Init PROVE Inv
  OBVIOUS
<1>1. /\ file.groups \subseteq Groups
      /\ \E S \in SUBSET Metas :
            file.metas \in [S -> [groups : {<<Top>>} \cup {<<g>> : g \in Groups}, contacts : SUBSET Contacts]]
  BY DEF Init, InitFiles
<1>2. DOMAIN file.metas \subseteq Metas /\ file.metas \in [DOMAIN file.metas -> EntryType]
  <2>1. PICK S \in SUBSET Metas :
            file.metas \in [S -> [groups : {<<Top>>} \cup {<<g>> : g \in Groups}, contacts : SUBSET Contacts]]
    BY <1>1
  <2>2. \A g \in AllGroups : <<g>> \in Seq(AllGroups)
    OBVIOUS
  <2>3. {<<Top>>} \cup {<<g>> : g \in Groups} \subseteq Seq(AllGroups)
    BY <2>2 DEF AllGroups
  <2>4. [groups : {<<Top>>} \cup {<<g>> : g \in Groups}, contacts : SUBSET Contacts] \subseteq EntryType
    BY <2>3 DEF EntryType
  <2> QED BY <2>1, <2>4
<1>3. OnFile \subseteq Contacts
  BY <1>2 DEF OnFile, EntryType
<1>4. /\ DOMAIN meta = {} /\ meta \in [DOMAIN meta -> MetaType]
      /\ owner \in [Contacts -> DOMAIN meta \cup {Nobody}]
      /\ phase = "down" /\ groups = {} /\ protocols = {} /\ kept = OnFile
      /\ owner = [c \in Contacts |-> Nobody] /\ meta = <<>>
  BY DEF Init
<1>5. budget \in [{"ops", "failures", "ends"} -> Nat] /\ saveTimer = FALSE
  BY ContactListAssumption DEF Init
<1>6. TypeOK
  BY <1>1, <1>2, <1>3, <1>4, <1>5 DEF TypeOK
<1>7. MembershipAgrees
  BY <1>4 DEF MembershipAgrees
<1>8. GroupsSound /\ ListensIsSaved
  BY <1>4 DEF GroupsSound, ListensIsSaved
<1>9. NothingForgotten
  BY <1>4 DEF NothingForgotten
<1>10. PhaseSound
  BY <1>4, <1>5 DEF PhaseSound
<1> QED BY <1>6, <1>7, <1>8, <1>9, <1>10 DEF Inv

-----------------------------------------------------------------------------
(* A step of the running program that does not write the file. *)
LEMMA RunningStep ==
    ASSUME Inv, phase' = "running", file' = file,
           DOMAIN meta' \subseteq Metas, meta' \in [DOMAIN meta' -> MetaType],
           owner' \in [Contacts -> DOMAIN meta' \cup {Nobody}],
           groups' \subseteq Groups, protocols' \subseteq Protocols, saveTimer' \in BOOLEAN,
           kept' \subseteq Contacts, budget' \in [{"ops", "failures", "ends"} -> Nat],
           MembershipAgrees',
           \A m \in DOMAIN meta' : Sound(meta'[m].groups, meta'[m].temporary, groups'),
           \A c \in kept' : IF ProtocolOf[c] \in protocols' THEN owner'[c] \in Saved'
                            ELSE \E m \in Saved' : meta'[m].listens /\ c \in meta'[m].pluginContactData,
           ListensIsSaved'
    PROVE  Inv'
<1>1. TypeOK'
  BY DEF Inv, TypeOK
<1>2. GroupsSound'
  <2>1. \A m \in DOMAIN meta' : meta'[m].groups \in Seq(AllGroups)
    BY DEF MetaType
  <2> QED BY <2>1, SoundIs, Zenon DEF GroupsSound
<1>3. NothingForgotten'
  BY DEF NothingForgotten
<1>4. PhaseSound'
  BY DEF PhaseSound
<1> QED BY <1>1, <1>2, <1>3, <1>4 DEF Inv

(* What the invariant says of a list that is being changed. *)
LEMMA ChangeFacts ==
    ASSUME Inv, Change
    PROVE  /\ phase = "running" /\ phase' = "running" /\ protocols' = protocols /\ file' = file
           /\ budget' \in [{"ops", "failures", "ends"} -> Nat]
<1>1. budget \in [{"ops", "failures", "ends"} -> Nat]
  BY DEF Inv, TypeOK
<1>2. budget["ops"] > 0 /\ budget' = [budget EXCEPT !["ops"] = budget["ops"] - 1]
  BY DEF Change, Spend
<1>3. budget' \in [{"ops", "failures", "ends"} -> Nat]
  BY <1>1, <1>2
<1> QED BY <1>3 DEF Change

LEMMA InvFacts ==
    ASSUME Inv
    PROVE  /\ DOMAIN meta \subseteq Metas /\ meta \in [DOMAIN meta -> MetaType]
           /\ owner \in [Contacts -> DOMAIN meta \cup {Nobody}]
           /\ groups \subseteq Groups /\ groups \in SUBSET AllGroups /\ protocols \subseteq Protocols
           /\ saveTimer \in BOOLEAN /\ kept \subseteq Contacts
           /\ Nobody \notin DOMAIN meta
           /\ \A m \in DOMAIN meta : Sound(meta[m].groups, meta[m].temporary, groups)
           /\ \A m \in DOMAIN meta : meta[m].listens => ~meta[m].temporary
           /\ \A c \in Contacts, m \in DOMAIN meta : c \in meta[m].contacts <=> owner[c] = m
           /\ \A c \in Contacts : owner[c] # Nobody => ProtocolOf[c] \in protocols
<1>1. /\ DOMAIN meta \subseteq Metas /\ meta \in [DOMAIN meta -> MetaType]
      /\ owner \in [Contacts -> DOMAIN meta \cup {Nobody}]
      /\ groups \subseteq Groups /\ protocols \subseteq Protocols
      /\ saveTimer \in BOOLEAN /\ kept \subseteq Contacts
  BY DEF Inv, TypeOK
<1>2. groups \in SUBSET AllGroups
  BY <1>1 DEF AllGroups
<1>3. Nobody \notin DOMAIN meta
  BY <1>1, ContactListAssumption
<1>4. \A m \in DOMAIN meta : Sound(meta[m].groups, meta[m].temporary, groups)
  <2>1. \A m \in DOMAIN meta : meta[m].groups \in Seq(AllGroups)
    BY <1>1 DEF MetaType
  <2>2. GroupsSound
    BY DEF Inv
  <2> QED BY <2>1, <2>2, SoundIs, Zenon DEF GroupsSound
<1>5. \A m \in DOMAIN meta : meta[m].listens => ~meta[m].temporary
  BY DEF Inv, ListensIsSaved
<1>6. /\ \A c \in Contacts, m \in DOMAIN meta : c \in meta[m].contacts <=> owner[c] = m
      /\ \A c \in Contacts : owner[c] # Nobody => ProtocolOf[c] \in protocols
  BY DEF Inv, MembershipAgrees
<1> QED BY <1>1, <1>2, <1>3, <1>4, <1>5, <1>6

(* And of the contacts that must not be lost. *)
LEMMA KeptFacts ==
    ASSUME Inv, phase = "running", NEW c \in kept
    PROVE  /\ c \in Contacts
           /\ ProtocolOf[c] \in protocols => owner[c] \in DOMAIN meta /\ ~meta[owner[c]].temporary
           /\ ProtocolOf[c] \notin protocols =>
                 \E m \in DOMAIN meta : /\ ~meta[m].temporary /\ meta[m].listens
                                        /\ c \in meta[m].pluginContactData
BY DEF Inv, TypeOK, NothingForgotten, Saved

-----------------------------------------------------------------------------
(* A new contact in a metacontact of its own. *)
LEMMA AddContactStep ==
    ASSUME Inv, NEW c \in Contacts, NEW m \in Metas, NEW g \in groups \cup {Top}, NEW t \in BOOLEAN,
           AddContact(c, m, g, t)
    PROVE  Inv'
<1> DEFINE gs == AddToGroup(<<Top>>, t, IF t THEN Temporary ELSE g)
           r == [NewMeta(gs, t) EXCEPT !.contacts = {c}]
<1>1. /\ Change /\ owner[c] = Nobody /\ ProtocolOf[c] \in protocols /\ m \notin DOMAIN meta
      /\ meta' = With(meta, m, r)
      /\ owner' = [owner EXCEPT ![c] = m]
      /\ kept' = IF t THEN kept ELSE kept \cup {c}
      /\ SlotSaveLater /\ groups' = groups
  BY DEF AddContact
<1>2. phase = "running" /\ phase' = "running" /\ protocols' = protocols /\ file' = file
      /\ budget' \in [{"ops", "failures", "ends"} -> Nat]
  BY <1>1, ChangeFacts
<1>3. saveTimer' \in BOOLEAN
  BY <1>1, Zenon DEF SlotSaveLater
<1>4. Sound(gs, t, groups)
  BY InvFacts, NewGroups
<1>5. gs \in Seq(AllGroups)
  BY <1>4 DEF Sound
<1> HIDE DEF gs
<1>6. r \in MetaType /\ r.contacts = {c} /\ r.pluginContactData = {} /\ r.groups = gs
      /\ r.temporary = t /\ r.listens = FALSE
  BY <1>5 DEF NewMeta, MetaType
<1> HIDE DEF r
<1>7. /\ DOMAIN meta' = DOMAIN meta \cup {m}
      /\ \A n \in DOMAIN meta : meta'[n] = meta[n]
      /\ meta'[m] = r
      /\ meta' \in [DOMAIN meta' -> MetaType]
  BY <1>1, <1>6, InvFacts DEF With
<1>8. owner' \in [Contacts -> DOMAIN meta' \cup {Nobody}] /\ owner'[c] = m
      /\ \A d \in Contacts : d # c => owner'[d] = owner[d]
  BY <1>1, <1>7, InvFacts
<1>9. MembershipAgrees'
  <2> SUFFICES ASSUME NEW d \in Contacts
               PROVE  /\ \A n \in DOMAIN meta' : d \in meta'[n].contacts <=> owner'[d] = n
                      /\ owner'[d] # Nobody => ProtocolOf[d] \in protocols'
    BY DEF MembershipAgrees
  <2>1. /\ \A n \in DOMAIN meta : d \in meta[n].contacts <=> owner[d] = n
        /\ owner[d] # Nobody => ProtocolOf[d] \in protocols
        /\ owner[d] \in DOMAIN meta \cup {Nobody} /\ Nobody \notin DOMAIN meta /\ m # Nobody
    BY InvFacts, ContactListAssumption
  <2>2. CASE d = c
    BY <1>1, <1>2, <1>6, <1>7, <1>8, <2>1, <2>2
  <2>3. CASE d # c
    BY <1>1, <1>2, <1>6, <1>7, <1>8, <2>1, <2>3
  <2> QED BY <2>2, <2>3
<1>10. \A n \in DOMAIN meta' : Sound(meta'[n].groups, meta'[n].temporary, groups')
  BY <1>1, <1>4, <1>6, <1>7, InvFacts
<1>11. ListensIsSaved'
  BY <1>6, <1>7, InvFacts DEF ListensIsSaved
<1>12. ASSUME NEW d \in kept'
       PROVE  IF ProtocolOf[d] \in protocols' THEN owner'[d] \in Saved'
              ELSE \E n \in Saved' : meta'[n].listens /\ d \in meta'[n].pluginContactData
  <2>1. CASE d = c /\ ~t
    BY <1>1, <1>2, <1>6, <1>7, <1>8, <2>1 DEF Saved
  <2>2. CASE ~(d = c /\ ~t)
    <3>1. d \in kept
      BY <1>1, <2>2
    <3>2. d # c
      BY <1>1, <1>2, <3>1, KeptFacts, InvFacts
    <3> QED BY <1>2, <1>7, <1>8, <3>1, <3>2, KeptFacts DEF Saved
  <2> QED BY <2>1, <2>2
<1>13. kept' \subseteq Contacts
  BY <1>1, InvFacts
<1>14. DOMAIN meta' \subseteq Metas /\ groups' \subseteq Groups /\ protocols' \subseteq Protocols
  BY <1>1, <1>2, <1>7, InvFacts
<1> QED BY <1>2, <1>3, <1>7, <1>8, <1>9, <1>10, <1>11, <1>12, <1>13, <1>14, RunningStep

(* A temporary contact is added to the list. *)
LEMMA AddTemporaryStep ==
    ASSUME Inv, NEW c \in Contacts, NEW g \in groups \cup {Top}, AddTemporary(c, g)
    PROVE  Inv'
<1> DEFINE o == owner[c]
           gs == MoveToGroup(meta[o].groups, FALSE, Temporary, g)
<1>1. /\ Change /\ o # Nobody /\ meta[o].temporary
      /\ meta' = [meta EXCEPT ![o] = Permanent(meta[o], g)]
      /\ kept' = kept \cup meta[o].contacts
      /\ SlotSaveLater /\ UNCHANGED <<owner, groups>>
  BY DEF AddTemporary
<1>2. phase = "running" /\ phase' = "running" /\ protocols' = protocols /\ file' = file
      /\ budget' \in [{"ops", "failures", "ends"} -> Nat]
  BY <1>1, ChangeFacts
<1>3. saveTimer' \in BOOLEAN
  BY <1>1, Zenon DEF SlotSaveLater
<1>4. o \in DOMAIN meta /\ meta[o] \in MetaType
  BY <1>1, InvFacts
<1>5. Sound(gs, FALSE, groups)
  <2>1. Sound(meta[o].groups, FALSE, groups)
    BY <1>4, InvFacts DEF Sound
  <2>2. groups \in SUBSET AllGroups /\ g \in groups \cup {Top, Temporary} /\ FALSE \in BOOLEAN
    BY InvFacts
  <2> HIDE DEF o
  <2> QED BY <2>1, <2>2, MoveToGroupFacts
<1>6. gs \in Seq(AllGroups)
  BY <1>5 DEF Sound
<1> DEFINE r == Permanent(meta[o], g)
<1>7. /\ r \in MetaType /\ r.contacts = meta[o].contacts
      /\ r.pluginContactData = meta[o].pluginContactData /\ r.groups = gs
      /\ r.temporary = FALSE /\ r.listens = meta[o].listens
  BY <1>4, <1>6 DEF Permanent, MetaType
<1> HIDE DEF r, gs
<1>8. /\ DOMAIN meta' = DOMAIN meta
      /\ \A n \in DOMAIN meta : n # o => meta'[n] = meta[n]
      /\ meta'[o] = r
      /\ meta' \in [DOMAIN meta' -> MetaType]
  BY <1>1, <1>4, <1>7, InvFacts DEF r
<1> HIDE DEF o
<1>9. MembershipAgrees'
  <2>1. \A n \in DOMAIN meta : meta'[n].contacts = meta[n].contacts
    BY <1>7, <1>8
  <2> QED BY <1>1, <1>2, <1>8, <2>1, InvFacts DEF MembershipAgrees
<1>10. \A n \in DOMAIN meta' : Sound(meta'[n].groups, meta'[n].temporary, groups')
  <2> SUFFICES ASSUME NEW n \in DOMAIN meta PROVE Sound(meta'[n].groups, meta'[n].temporary, groups)
    BY <1>1, <1>8
  <2>1. CASE n = o
    BY <1>5, <1>7, <1>8, <2>1
  <2>2. CASE n # o
    BY <1>8, <2>2, InvFacts
  <2> QED BY <2>1, <2>2
<1>11. ListensIsSaved'
  BY <1>7, <1>8, InvFacts DEF ListensIsSaved
<1>12. ASSUME NEW d \in kept'
       PROVE  IF ProtocolOf[d] \in protocols' THEN owner'[d] \in Saved'
              ELSE \E n \in Saved' : meta'[n].listens /\ d \in meta'[n].pluginContactData
  <2>1. CASE d \in meta[o].contacts
    <3>1. d \in Contacts
      BY <1>4, <2>1 DEF MetaType
    <3>2. owner[d] = o /\ ProtocolOf[d] \in protocols
      BY <1>1, <1>4, <2>1, <3>1, InvFacts
    <3> QED BY <1>1, <1>2, <1>4, <1>7, <1>8, <3>2 DEF Saved
  <2>2. CASE d \in kept
    <3>1. /\ ProtocolOf[d] \in protocols => owner[d] \in DOMAIN meta /\ ~meta[owner[d]].temporary
          /\ ProtocolOf[d] \notin protocols =>
                \E m \in DOMAIN meta : /\ ~meta[m].temporary /\ meta[m].listens
                                       /\ d \in meta[m].pluginContactData
      BY <1>2, <2>2, KeptFacts
    <3>2. \A n \in DOMAIN meta : ~meta[n].temporary => meta'[n] = meta[n]
      BY <1>1, <1>8
    <3> QED BY <1>1, <1>2, <1>8, <3>1, <3>2 DEF Saved
  <2> QED BY <1>1, <2>1, <2>2
<1>13. kept' \subseteq Contacts
  BY <1>1, <1>4, InvFacts DEF MetaType
<1>14. /\ DOMAIN meta' \subseteq Metas /\ groups' \subseteq Groups /\ protocols' \subseteq Protocols
       /\ owner' \in [Contacts -> DOMAIN meta' \cup {Nobody}]
  BY <1>1, <1>2, <1>8, InvFacts
<1> QED BY <1>2, <1>3, <1>8, <1>9, <1>10, <1>11, <1>12, <1>13, <1>14, RunningStep

(* N is M after Contact::setMetaContact() has moved c from `old' to m. *)
Moved(N, M, c, old, m) ==
    /\ m \in DOMAIN N /\ DOMAIN N \subseteq DOMAIN M
    /\ \A n \in DOMAIN M : n # old => n \in DOMAIN N
    /\ old \notin DOMAIN N => M[old].contacts \subseteq {c}
    /\ N \in [DOMAIN N -> MetaType]
    /\ \A n \in DOMAIN N :
          /\ N[n].contacts = IF n = m THEN M[m].contacts \cup {c}
                             ELSE IF n = old THEN M[old].contacts \ {c}
                             ELSE M[n].contacts
          /\ N[n].groups = M[n].groups /\ N[n].temporary = M[n].temporary
          /\ N[n].listens = M[n].listens
          /\ n # old => N[n].pluginContactData = M[n].pluginContactData
          /\ M[n].pluginContactData \ Of(ProtocolOf[c]) \subseteq N[n].pluginContactData

LEMMA SetMetaContactFacts ==
    ASSUME NEW M, M \in [DOMAIN M -> MetaType], NEW c \in Contacts, NEW old \in DOMAIN M,
           NEW m \in DOMAIN M, m # old
    PROVE  Moved(SetMetaContact(M, c, old, m), M, c, old, m)
<1> DEFINE left == M[old].contacts \ {c}
           data == (M[old].pluginContactData \ Of(ProtocolOf[c])) \cup (left \cap Of(ProtocolOf[c]))
           q == [M[old] EXCEPT !.contacts = left, !.pluginContactData = data]
           r == [M[m] EXCEPT !.contacts = M[m].contacts \cup {c}]
           K == IF left = {} THEN Without(M, {old}) ELSE [M EXCEPT ![old] = q]
           N == [K EXCEPT ![m] = r]
<1>1. M[old] \in MetaType /\ M[m] \in MetaType
  OBVIOUS
<1>2. /\ q \in MetaType /\ q.contacts = left /\ q.pluginContactData = data
      /\ q.groups = M[old].groups /\ q.temporary = M[old].temporary /\ q.listens = M[old].listens
  <2>1. left \in SUBSET Contacts /\ data \in SUBSET Contacts
    BY <1>1 DEF MetaType, Of
  <2> HIDE DEF left, data
  <2> QED BY <1>1, <2>1 DEF MetaType
<1>3. /\ r \in MetaType /\ r.contacts = M[m].contacts \cup {c}
      /\ r.pluginContactData = M[m].pluginContactData
      /\ r.groups = M[m].groups /\ r.temporary = M[m].temporary /\ r.listens = M[m].listens
  BY <1>1 DEF MetaType
<1>4. SetMetaContact(M, c, old, m) = N
  <2>1. [M EXCEPT ![old].contacts = left, ![old].pluginContactData =
             (@ \ Of(ProtocolOf[c])) \cup (left \cap Of(ProtocolOf[c]))] = [M EXCEPT ![old] = q]
    BY <1>1 DEF MetaType
  <2>2. K[m] = M[m]
    BY DEF Without, Restrict
  <2>3. [K EXCEPT ![m].contacts = @ \cup {c}] = [K EXCEPT ![m] = r]
    BY <2>2
  <2> QED BY <2>1, <2>3 DEF SetMetaContact
<1> HIDE DEF q, r
<1>5. CASE left = {}
  <2>1. K = Without(M, {old})
    BY <1>5
  <2>2. /\ DOMAIN N = DOMAIN M \ {old} /\ N[m] = r
        /\ \A n \in DOMAIN M : n # old /\ n # m => N[n] = M[n]
        /\ N \in [DOMAIN N -> MetaType]
    BY <1>1, <1>3, <2>1 DEF Without, Restrict
  <2> HIDE DEF N, K
  <2> QED BY <1>3, <1>4, <1>5, <2>2 DEF Moved
<1>6. CASE left # {}
  <2>1. K = [M EXCEPT ![old] = q]
    BY <1>6
  <2>2. /\ DOMAIN N = DOMAIN M /\ N[m] = r /\ N[old] = q
        /\ \A n \in DOMAIN M : n # old /\ n # m => N[n] = M[n]
        /\ N \in [DOMAIN N -> MetaType]
    BY <1>1, <1>2, <1>3, <2>1
  <2>3. M[old].pluginContactData \ Of(ProtocolOf[c]) \subseteq q.pluginContactData
    BY <1>2
  <2> HIDE DEF N, K
  <2> QED BY <1>2, <1>3, <1>4, <2>2, <2>3 DEF Moved
<1> QED BY <1>5, <1>6

(* A contact moves to a metacontact that is not temporary; M are the       *)
(* metacontacts, perhaps with a new one for it.                            *)
LEMMA MoveStep ==
    ASSUME Inv, phase = "running", phase' = "running", protocols' = protocols, file' = file,
           budget' \in [{"ops", "failures", "ends"} -> Nat], saveTimer' \in BOOLEAN, groups' = groups,
           NEW M, M \in [DOMAIN M -> MetaType], DOMAIN meta \subseteq DOMAIN M, DOMAIN M \subseteq Metas,
           \A n \in DOMAIN meta : M[n] = meta[n],
           \A n \in DOMAIN M : n \notin DOMAIN meta => M[n].contacts = {} /\ ~M[n].listens,
           \A n \in DOMAIN M : Sound(M[n].groups, M[n].temporary, groups),
           NEW c \in Contacts, NEW old \in DOMAIN meta, owner[c] = old,
           NEW m \in DOMAIN M, m # old, ~M[m].temporary,
           meta' = SetMetaContact(M, c, old, m), owner' = [owner EXCEPT ![c] = m],
           kept' \subseteq kept \cup {c},
           \A d \in kept' : old \notin DOMAIN meta' /\ ~meta[old].temporary /\ d # c => d \notin Waiting({old})
    PROVE  Inv'
<1>1. /\ m \in DOMAIN meta' /\ DOMAIN meta' \subseteq DOMAIN M
      /\ \A n \in DOMAIN M : n # old => n \in DOMAIN meta'
      /\ old \notin DOMAIN meta' => M[old].contacts \subseteq {c}
      /\ meta' \in [DOMAIN meta' -> MetaType]
      /\ \A n \in DOMAIN meta' :
            /\ meta'[n].contacts = IF n = m THEN M[m].contacts \cup {c}
                               ELSE IF n = old THEN M[old].contacts \ {c}
                               ELSE M[n].contacts
            /\ meta'[n].groups = M[n].groups /\ meta'[n].temporary = M[n].temporary
            /\ meta'[n].listens = M[n].listens
            /\ n # old => meta'[n].pluginContactData = M[n].pluginContactData
            /\ M[n].pluginContactData \ Of(ProtocolOf[c]) \subseteq meta'[n].pluginContactData
  <2>1. old \in DOMAIN M
    OBVIOUS
  <2>2. Moved(meta', M, c, old, m)
    BY <2>1, SetMetaContactFacts
  <2> QED BY <2>2 DEF Moved
<1>2. DOMAIN meta' \subseteq Metas /\ Nobody \notin DOMAIN meta' /\ old # Nobody /\ m # Nobody
  BY <1>1, ContactListAssumption, InvFacts
<1>3. ProtocolOf[c] \in protocols
  BY <1>2, InvFacts
<1>4. owner'[c] = m /\ \A d \in Contacts : d # c => owner'[d] = owner[d]
  BY InvFacts
<1>5. ASSUME NEW d \in Contacts, d # c, owner[d] # Nobody PROVE owner[d] \in DOMAIN meta'
  <2>1. owner[d] \in DOMAIN meta /\ d \in meta[owner[d]].contacts
    BY <1>5, InvFacts
  <2>2. CASE owner[d] = old
    BY <1>1, <1>5, <2>1, <2>2
  <2>3. CASE owner[d] # old
    BY <1>1, <2>1, <2>3
  <2> QED BY <2>2, <2>3
<1>6. owner' \in [Contacts -> DOMAIN meta' \cup {Nobody}]
  BY <1>1, <1>4, <1>5, InvFacts
<1>7. MembershipAgrees'
  <2> SUFFICES ASSUME NEW d \in Contacts
               PROVE  /\ \A n \in DOMAIN meta' : d \in meta'[n].contacts <=> owner'[d] = n
                      /\ owner'[d] # Nobody => ProtocolOf[d] \in protocols'
    BY DEF MembershipAgrees
  <2>1. \A n \in DOMAIN M : d \in M[n].contacts <=> owner[d] = n
    <3> SUFFICES ASSUME NEW n \in DOMAIN M PROVE d \in M[n].contacts <=> owner[d] = n
      OBVIOUS
    <3>1. CASE n \in DOMAIN meta
      BY <3>1, InvFacts
    <3>2. CASE n \notin DOMAIN meta
      <4>1. owner[d] # n
        BY <3>2, InvFacts, ContactListAssumption
      <4> QED BY <3>2, <4>1
    <3> QED BY <3>1, <3>2
  <2>2. CASE d = c
    BY <1>1, <1>3, <1>4, <2>1, <2>2
  <2>3. CASE d # c
    <3>1. \A n \in DOMAIN meta' : d \in meta'[n].contacts <=> d \in M[n].contacts
      BY <1>1, <2>3
    <3> QED BY <1>1, <1>4, <2>1, <2>3, <3>1, InvFacts
  <2> QED BY <2>2, <2>3
<1>8. \A n \in DOMAIN meta' : Sound(meta'[n].groups, meta'[n].temporary, groups')
  BY <1>1
<1>9. ListensIsSaved'
  <2>1. \A n \in DOMAIN M : M[n].listens => ~M[n].temporary
    BY InvFacts
  <2> QED BY <1>1, <2>1 DEF ListensIsSaved
<1>10. ASSUME NEW d \in kept'
       PROVE  IF ProtocolOf[d] \in protocols' THEN owner'[d] \in Saved'
              ELSE \E n \in Saved' : meta'[n].listens /\ d \in meta'[n].pluginContactData
  <2>1. CASE d = c
    BY <1>1, <1>3, <1>4, <2>1 DEF Saved
  <2>2. CASE d # c
    <3>0. d \in kept
      BY <2>2
    <3>1. /\ d \in Contacts
          /\ ProtocolOf[d] \in protocols => owner[d] \in DOMAIN meta /\ ~meta[owner[d]].temporary
          /\ ProtocolOf[d] \notin protocols =>
                \E n \in DOMAIN meta : /\ ~meta[n].temporary /\ meta[n].listens
                                       /\ d \in meta[n].pluginContactData
      BY <3>0, KeptFacts
    <3>2. CASE ProtocolOf[d] \in protocols
      <4>1. owner[d] \in DOMAIN meta' /\ owner'[d] = owner[d]
        BY <1>4, <1>5, <2>2, <3>1, <3>2, InvFacts
      <4>2. ~meta'[owner[d]].temporary
        BY <1>1, <3>1, <3>2, <4>1
      <4> QED BY <3>2, <4>1, <4>2 DEF Saved
    <3>3. CASE ProtocolOf[d] \notin protocols
      <4>1. PICK n \in DOMAIN meta : /\ ~meta[n].temporary /\ meta[n].listens
                                     /\ d \in meta[n].pluginContactData
        BY <3>1, <3>3
      <4>2. n \in DOMAIN meta'
        <5>1. CASE n # old
          BY <1>1, <5>1
        <5>2. CASE n = old
          <6>1. d \in Waiting({old})
            BY <3>3, <4>1, <5>2 DEF Waiting
          <6> QED BY <2>2, <4>1, <5>2, <6>1
        <5> QED BY <5>1, <5>2
      <4>3. d \notin Of(ProtocolOf[c])
        BY <1>3, <3>3 DEF Of
      <4>4. ~meta'[n].temporary /\ meta'[n].listens /\ d \in meta'[n].pluginContactData
        BY <1>1, <4>1, <4>2, <4>3
      <4> QED BY <3>3, <4>2, <4>4 DEF Saved
    <3> QED BY <3>2, <3>3
  <2> QED BY <2>1, <2>2
<1>11. kept' \subseteq Contacts /\ groups' \subseteq Groups /\ protocols' \subseteq Protocols
  BY InvFacts
<1> QED BY <1>1, <1>2, <1>6, <1>7, <1>8, <1>9, <1>10, <1>11, RunningStep


(* A contact is added to a metacontact of the list, or moves there. *)
LEMMA AddContactToStep ==
    ASSUME Inv, NEW c \in Contacts, NEW m \in DOMAIN meta, AddContactTo(c, m)
    PROVE  Inv'
<1>1. /\ Change /\ ProtocolOf[c] \in protocols
      /\ owner' = [owner EXCEPT ![c] = m]
      /\ kept' = IF meta[m].temporary THEN kept ELSE kept \cup {c}
      /\ SlotSaveLater /\ groups' = groups
  BY DEF AddContactTo
<1>2. phase = "running" /\ phase' = "running" /\ protocols' = protocols /\ file' = file
      /\ budget' \in [{"ops", "failures", "ends"} -> Nat]
  BY <1>1, ChangeFacts
<1>3. saveTimer' \in BOOLEAN
  BY <1>1, Zenon DEF SlotSaveLater
<1>4. CASE owner[c] = Nobody
  <2> DEFINE r == [meta[m] EXCEPT !.contacts = meta[m].contacts \cup {c}]
  <2>1. meta' = [meta EXCEPT ![m] = r]
    BY <1>4 DEF AddContactTo
  <2>2. meta[m] \in MetaType
    BY InvFacts
  <2>3. /\ r \in MetaType /\ r.contacts = meta[m].contacts \cup {c}
        /\ r.pluginContactData = meta[m].pluginContactData /\ r.groups = meta[m].groups
        /\ r.temporary = meta[m].temporary /\ r.listens = meta[m].listens
    BY <2>2 DEF MetaType
  <2> HIDE DEF r
  <2>4. /\ DOMAIN meta' = DOMAIN meta
        /\ \A n \in DOMAIN meta : n # m => meta'[n] = meta[n]
        /\ meta'[m] = r
        /\ meta' \in [DOMAIN meta' -> MetaType]
    BY <2>1, <2>3, InvFacts
  <2>5. \A n \in DOMAIN meta :
            /\ meta'[n].groups = meta[n].groups /\ meta'[n].temporary = meta[n].temporary
            /\ meta'[n].listens = meta[n].listens
            /\ meta'[n].pluginContactData = meta[n].pluginContactData
            /\ meta'[n].contacts = IF n = m THEN meta[n].contacts \cup {c} ELSE meta[n].contacts
    BY <2>3, <2>4
  <2>6. owner' \in [Contacts -> DOMAIN meta' \cup {Nobody}] /\ owner'[c] = m
        /\ \A d \in Contacts : d # c => owner'[d] = owner[d]
    BY <1>1, <2>4, InvFacts
  <2>7. MembershipAgrees'
    <3> SUFFICES ASSUME NEW d \in Contacts
                 PROVE  /\ \A n \in DOMAIN meta' : d \in meta'[n].contacts <=> owner'[d] = n
                        /\ owner'[d] # Nobody => ProtocolOf[d] \in protocols'
      BY DEF MembershipAgrees
    <3>1. /\ \A n \in DOMAIN meta : d \in meta[n].contacts <=> owner[d] = n
          /\ owner[d] # Nobody => ProtocolOf[d] \in protocols
          /\ Nobody \notin DOMAIN meta
      BY InvFacts
    <3>2. DOMAIN meta' = DOMAIN meta
      BY <2>4
    <3>3. \A n \in DOMAIN meta : d \in meta'[n].contacts <=> d \in meta[n].contacts \/ (n = m /\ d = c)
      BY <2>5
    <3>4. CASE d = c
      BY <1>1, <1>2, <1>4, <2>6, <3>1, <3>4, <3>2, <3>3
    <3>5. CASE d # c
      BY <1>2, <2>6, <3>1, <3>5, <3>2, <3>3
    <3> QED BY <3>4, <3>5
  <2>8. \A n \in DOMAIN meta' : Sound(meta'[n].groups, meta'[n].temporary, groups')
    BY <1>1, <2>4, <2>5, InvFacts
  <2>9. ListensIsSaved'
    BY <2>4, <2>5, InvFacts DEF ListensIsSaved
  <2>10. ASSUME NEW d \in kept'
         PROVE  IF ProtocolOf[d] \in protocols' THEN owner'[d] \in Saved'
                ELSE \E n \in Saved' : meta'[n].listens /\ d \in meta'[n].pluginContactData
    <3>1. CASE d = c /\ ~meta[m].temporary
      BY <1>1, <1>2, <2>4, <2>5, <2>6, <3>1 DEF Saved
    <3>2. CASE ~(d = c /\ ~meta[m].temporary)
      <4>1. d \in kept
        BY <1>1, <3>2
      <4>2. d # c
        BY <1>1, <1>2, <1>4, <4>1, KeptFacts, InvFacts
      <4>3. /\ d \in Contacts
            /\ ProtocolOf[d] \in protocols => owner[d] \in DOMAIN meta /\ ~meta[owner[d]].temporary
            /\ ProtocolOf[d] \notin protocols =>
                  \E n \in DOMAIN meta : /\ ~meta[n].temporary /\ meta[n].listens
                                         /\ d \in meta[n].pluginContactData
        BY <1>2, <4>1, KeptFacts
      <4>4. /\ DOMAIN meta' = DOMAIN meta
            /\ \A n \in DOMAIN meta : /\ meta'[n].temporary = meta[n].temporary
                                      /\ meta'[n].listens = meta[n].listens
                                      /\ meta'[n].pluginContactData = meta[n].pluginContactData
        BY <2>4, <2>5
      <4> QED BY <1>2, <2>6, <4>2, <4>3, <4>4 DEF Saved
    <3> QED BY <3>1, <3>2
  <2>11. kept' \subseteq Contacts
    BY <1>1, InvFacts
  <2>12. DOMAIN meta' \subseteq Metas /\ groups' \subseteq Groups /\ protocols' \subseteq Protocols
    BY <1>1, <1>2, <2>4, InvFacts
  <2> QED BY <1>2, <1>3, <2>4, <2>6, <2>7, <2>8, <2>9, <2>10, <2>11, <2>12, RunningStep
<1>5. CASE owner[c] # Nobody
  <2> DEFINE old == owner[c]
  <2>1. /\ old # m /\ meta[old].temporary /\ ~meta[m].temporary
        /\ meta' = SetMetaContact(meta, c, old, m)
    BY <1>5 DEF AddContactTo
  <2>2. old \in DOMAIN meta /\ kept' \subseteq kept \cup {c}
    BY <1>1, <1>5, InvFacts
  <2> HIDE DEF old
  <2>3. owner[c] = old
    BY DEF old
  <2> QED BY <1>1, <1>2, <1>3, <2>1, <2>2, <2>3, InvFacts, MoveStep
<1> QED BY <1>4, <1>5

(* The user moves a contact to another metacontact or to a new one. *)
LEMMA ChangeMetaContactStep ==
    ASSUME Inv, NEW c \in Contacts, NEW m \in Metas, ChangeMetaContact(c, m)
    PROVE  Inv'
<1> DEFINE old == owner[c]
           gs == AddToAll(meta[old].groups)
           fresh == With(meta, m, NewMeta(gs, FALSE))
           M == IF m \in DOMAIN meta THEN meta ELSE fresh
<1>1. /\ Change /\ old # Nobody /\ old # m /\ ~M[m].temporary
      /\ meta' = SetMetaContact(M, c, old, m)
      /\ owner' = [owner EXCEPT ![c] = m]
      /\ kept' = (IF old \in DOMAIN meta' THEN kept ELSE kept \ Waiting({old})) \cup {c}
      /\ SlotSaveLater /\ groups' = groups
  BY DEF ChangeMetaContact
<1>2. phase = "running" /\ phase' = "running" /\ protocols' = protocols /\ file' = file
      /\ budget' \in [{"ops", "failures", "ends"} -> Nat]
  BY <1>1, ChangeFacts
<1>3. saveTimer' \in BOOLEAN
  BY <1>1, Zenon DEF SlotSaveLater
<1>4. old \in DOMAIN meta /\ owner[c] = old
  BY <1>1, InvFacts
<1>5. Sound(gs, FALSE, groups)
  <2>1. Sound(meta[old].groups, meta[old].temporary, groups) /\ groups \in SUBSET AllGroups
    BY <1>4, InvFacts
  <2>2. meta[old].groups \in Seq(AllGroups) /\ \A g : In(g, meta[old].groups) => g \in groups \cup {Top, Temporary}
    BY <2>1 DEF Sound
  <2> HIDE DEF old
  <2> QED BY <2>1, <2>2, AddToAllFacts
<1> HIDE DEF gs, old
<1>6. /\ NewMeta(gs, FALSE) \in MetaType /\ NewMeta(gs, FALSE).contacts = {}
      /\ NewMeta(gs, FALSE).groups = gs /\ NewMeta(gs, FALSE).temporary = FALSE
      /\ NewMeta(gs, FALSE).listens = FALSE
  <2>1. gs \in Seq(AllGroups)
    BY <1>5 DEF Sound
  <2> QED BY <2>1 DEF NewMeta, MetaType
<1>7. /\ M \in [DOMAIN M -> MetaType] /\ DOMAIN meta \subseteq DOMAIN M /\ DOMAIN M \subseteq Metas
      /\ m \in DOMAIN M
      /\ \A n \in DOMAIN meta : M[n] = meta[n]
      /\ \A n \in DOMAIN M : n \notin DOMAIN meta => M[n] = NewMeta(gs, FALSE)
  <2>1. CASE m \in DOMAIN meta
    BY <2>1, InvFacts
  <2>2. CASE m \notin DOMAIN meta
    <3> DEFINE r == NewMeta(gs, FALSE)
    <3>1. r \in MetaType
      BY <1>6
    <3> HIDE DEF r
    <3>2. /\ DOMAIN fresh = DOMAIN meta \cup {m} /\ fresh[m] = r
          /\ \A n \in DOMAIN meta : fresh[n] = meta[n]
          /\ fresh \in [DOMAIN fresh -> MetaType]
      <4>1. fresh = With(meta, m, r)
        BY DEF r
      <4> HIDE DEF fresh
      <4> QED BY <2>2, <3>1, <4>1, InvFacts DEF With
    <3>3. M = fresh
      BY <2>2
    <3> HIDE DEF fresh, M
    <3> QED BY <2>2, <3>2, <3>3, InvFacts DEF r
  <2> QED BY <2>1, <2>2
<1> HIDE DEF M
<1>8. \A n \in DOMAIN M : n \notin DOMAIN meta => M[n].contacts = {} /\ ~M[n].listens
  BY <1>6, <1>7
<1>9. \A n \in DOMAIN M : Sound(M[n].groups, M[n].temporary, groups)
  <2> SUFFICES ASSUME NEW n \in DOMAIN M PROVE Sound(M[n].groups, M[n].temporary, groups)
    OBVIOUS
  <2>1. CASE n \in DOMAIN meta
    BY <1>7, <2>1, InvFacts
  <2>2. CASE n \notin DOMAIN meta
    BY <1>5, <1>6, <1>7, <2>2
  <2> QED BY <2>1, <2>2
<1>10. kept' \subseteq kept \cup {c}
       /\ \A d \in kept' : old \notin DOMAIN meta' /\ ~meta[old].temporary /\ d # c => d \notin Waiting({old})
  BY <1>1
<1> QED BY <1>1, <1>2, <1>3, <1>4, <1>7, <1>8, <1>9, <1>10, MoveStep


(* What a step must not change of a metacontact whose data wait. *)
SameData(r, q) ==
    r.temporary = q.temporary /\ r.listens = q.listens /\ r.pluginContactData = q.pluginContactData

(* A contact that stays where it is, or whose data do. *)
LEMMA KeptStays ==
    ASSUME Inv, phase = "running", protocols' = protocols, NEW d \in kept,
           \A n \in DOMAIN meta : n \in DOMAIN meta' => SameData(meta'[n], meta[n]),
           owner[d] # Nobody => owner'[d] = owner[d] /\ owner[d] \in DOMAIN meta',
           \A n \in DOMAIN meta : n \notin DOMAIN meta' => d \notin Waiting({n})
    PROVE  IF ProtocolOf[d] \in protocols' THEN owner'[d] \in Saved'
           ELSE \E n \in Saved' : meta'[n].listens /\ d \in meta'[n].pluginContactData
<1>1. /\ d \in Contacts
      /\ ProtocolOf[d] \in protocols => owner[d] \in DOMAIN meta /\ ~meta[owner[d]].temporary
      /\ ProtocolOf[d] \notin protocols =>
            \E n \in DOMAIN meta : /\ ~meta[n].temporary /\ meta[n].listens
                                   /\ d \in meta[n].pluginContactData
  BY KeptFacts
<1>2. CASE ProtocolOf[d] \in protocols
  <2>1. owner[d] \in DOMAIN meta /\ ~meta[owner[d]].temporary /\ owner[d] # Nobody
    BY <1>1, <1>2, InvFacts
  <2> QED BY <1>2, <2>1 DEF Saved, SameData
<1>3. CASE ProtocolOf[d] \notin protocols
  <2>1. PICK n \in DOMAIN meta : /\ ~meta[n].temporary /\ meta[n].listens
                                 /\ d \in meta[n].pluginContactData
    BY <1>1, <1>3
  <2>2. d \in Waiting({n})
    BY <1>3, <2>1 DEF Waiting
  <2> QED BY <1>3, <2>1, <2>2 DEF Saved, SameData
<1> QED BY <1>2, <1>3

(* The metacontacts S are removed with their contacts; the others may be   *)
(* put into other groups.                                                  *)
LEMMA RemoveStep ==
    ASSUME Inv, phase = "running", phase' = "running", protocols' = protocols, file' = file,
           budget' \in [{"ops", "failures", "ends"} -> Nat], saveTimer' \in BOOLEAN, groups' \subseteq Groups,
           NEW S \in SUBSET DOMAIN meta, DOMAIN meta' = DOMAIN meta \ S, meta' \in [DOMAIN meta' -> MetaType],
           \A n \in DOMAIN meta' : /\ SameData(meta'[n], meta[n]) /\ meta'[n].contacts = meta[n].contacts
                                   /\ Sound(meta'[n].groups, meta'[n].temporary, groups'),
           owner' = [c \in Contacts |-> IF owner[c] \in S THEN Nobody ELSE owner[c]],
           kept' \subseteq kept,
           \A d \in kept' : owner[d] \notin S /\ \A n \in S : d \notin Waiting({n})
    PROVE  Inv'
<1>1. /\ DOMAIN meta \subseteq Metas /\ Nobody \notin DOMAIN meta /\ kept \subseteq Contacts
      /\ protocols \subseteq Protocols
      /\ owner \in [Contacts -> DOMAIN meta \cup {Nobody}]
  BY InvFacts
<1>2. owner' \in [Contacts -> DOMAIN meta' \cup {Nobody}]
  BY <1>1
<1>3. MembershipAgrees'
  <2> SUFFICES ASSUME NEW d \in Contacts
               PROVE  /\ \A n \in DOMAIN meta' : d \in meta'[n].contacts <=> owner'[d] = n
                      /\ owner'[d] # Nobody => ProtocolOf[d] \in protocols'
    BY DEF MembershipAgrees
  <2>1. /\ \A n \in DOMAIN meta : d \in meta[n].contacts <=> owner[d] = n
        /\ owner[d] # Nobody => ProtocolOf[d] \in protocols
    BY InvFacts
  <2>2. \A n \in DOMAIN meta' : n \in DOMAIN meta /\ n \notin S /\ meta'[n].contacts = meta[n].contacts
    OBVIOUS
  <2>3. owner'[d] = IF owner[d] \in S THEN Nobody ELSE owner[d]
    OBVIOUS
  <2> QED BY <1>1, <2>1, <2>2, <2>3
<1>4. ListensIsSaved'
  BY InvFacts DEF ListensIsSaved, SameData
<1>5. ASSUME NEW d \in kept'
      PROVE  IF ProtocolOf[d] \in protocols' THEN owner'[d] \in Saved'
             ELSE \E n \in Saved' : meta'[n].listens /\ d \in meta'[n].pluginContactData
  <2>1. d \in kept /\ d \in Contacts
    BY <1>1
  <2>2. owner[d] # Nobody => owner'[d] = owner[d] /\ owner[d] \in DOMAIN meta'
    BY <1>1, <2>1
  <2>3. \A n \in DOMAIN meta : n \notin DOMAIN meta' => d \notin Waiting({n})
    OBVIOUS
  <2>4. \A n \in DOMAIN meta : n \in DOMAIN meta' => SameData(meta'[n], meta[n])
    OBVIOUS
  <2> QED BY <2>1, <2>2, <2>3, <2>4, KeptStays
<1>6. \A n \in DOMAIN meta' : Sound(meta'[n].groups, meta'[n].temporary, groups')
  OBVIOUS
<1>7. kept' \subseteq Contacts /\ DOMAIN meta' \subseteq Metas /\ protocols' \subseteq Protocols
  BY <1>1
<1> QED BY <1>2, <1>3, <1>4, <1>5, <1>6, <1>7, RunningStep


(* The contacts destroyed are those whose metacontact is. *)
LEMMA DestroyedIs ==
    ASSUME Inv, NEW S \in SUBSET DOMAIN meta
    PROVE  /\ Destroyed(S) = [c \in Contacts |-> IF owner[c] \in S THEN Nobody ELSE owner[c]]
           /\ \A c \in Contacts : c \in UNION {meta[m].contacts : m \in S} <=> owner[c] \in S
           /\ \A n \in S : Waiting({n}) \subseteq Waiting(S)
<1>1. \A c \in Contacts, m \in DOMAIN meta : c \in meta[m].contacts <=> owner[c] = m
  BY InvFacts
<1>2. ASSUME NEW c \in Contacts
      PROVE  c \in UNION {meta[m].contacts : m \in S} <=> owner[c] \in S
  BY <1>1
<1>3. \A n \in S : Waiting({n}) \subseteq Waiting(S)
  BY DEF Waiting
<1> QED BY <1>2, <1>3 DEF Destroyed

LEMMA RemoveMetaContactStep ==
    ASSUME Inv, NEW m \in DOMAIN meta, RemoveMetaContact(m)
    PROVE  Inv'
<1> DEFINE S == {m}
<1>1. /\ Change /\ meta' = Without(meta, S) /\ owner' = Destroyed(S)
      /\ kept' = kept \ (meta[m].contacts \cup Waiting(S))
      /\ SlotSaveLater /\ groups' = groups
  BY DEF RemoveMetaContact
<1>2. phase = "running" /\ phase' = "running" /\ protocols' = protocols /\ file' = file
      /\ budget' \in [{"ops", "failures", "ends"} -> Nat]
  BY <1>1, ChangeFacts
<1>3. saveTimer' \in BOOLEAN
  BY <1>1, Zenon DEF SlotSaveLater
<1>4. /\ DOMAIN meta' = DOMAIN meta \ S /\ \A n \in DOMAIN meta' : meta'[n] = meta[n]
      /\ meta' \in [DOMAIN meta' -> MetaType]
  BY <1>1, InvFacts DEF Without, Restrict
<1>5. /\ S \in SUBSET DOMAIN meta
      /\ owner' = [c \in Contacts |-> IF owner[c] \in S THEN Nobody ELSE owner[c]]
  BY <1>1, DestroyedIs
<1>6. kept' \subseteq kept /\ \A d \in kept' : owner[d] \notin S /\ \A n \in S : d \notin Waiting({n})
  BY <1>1, InvFacts
<1>7. \A n \in DOMAIN meta' : /\ SameData(meta'[n], meta[n]) /\ meta'[n].contacts = meta[n].contacts
                              /\ Sound(meta'[n].groups, meta'[n].temporary, groups')
  BY <1>1, <1>4, InvFacts DEF SameData
<1>8. groups' \subseteq Groups
  BY <1>1, InvFacts
<1> HIDE DEF S
<1> QED BY <1>2, <1>3, <1>4, <1>5, <1>6, <1>7, <1>8, RemoveStep

(* A group is removed, and the metacontacts that are in no other. *)
LEMMA RemoveGroupStep ==
    ASSUME Inv, NEW g \in Groups, RemoveGroup(g)
    PROVE  Inv'
<1> DEFINE S == {m \in DOMAIN meta : meta[m].groups = <<g>>}
           gs(n) == RemoveFromGroup(meta[n].groups, meta[n].temporary, g)
<1>1. /\ Change /\ groups' = groups \ {g}
      /\ meta' = [m \in DOMAIN meta \ S |-> [meta[m] EXCEPT !.groups = gs(m)]]
      /\ owner' = Destroyed(S)
      /\ kept' = kept \ ((UNION {meta[m].contacts : m \in S}) \cup Waiting(S))
      /\ SlotSaveLater
  BY DEF RemoveGroup
<1>2. phase = "running" /\ phase' = "running" /\ protocols' = protocols /\ file' = file
      /\ budget' \in [{"ops", "failures", "ends"} -> Nat]
  BY <1>1, ChangeFacts
<1>3. saveTimer' \in BOOLEAN
  BY <1>1, Zenon DEF SlotSaveLater
<1>4. \A n \in DOMAIN meta : Sound(gs(n), meta[n].temporary, groups \ {g})
  <2> SUFFICES ASSUME NEW n \in DOMAIN meta PROVE Sound(gs(n), meta[n].temporary, groups \ {g})
    OBVIOUS
  <2>1. /\ Sound(meta[n].groups, meta[n].temporary, groups) /\ groups \in SUBSET AllGroups
        /\ meta[n] \in MetaType
    BY InvFacts
  <2>2. meta[n].temporary \in BOOLEAN
    BY <2>1 DEF MetaType
  <2> QED BY <2>1, <2>2, RemoveFromGroupFacts
<1>5. ASSUME NEW n \in DOMAIN meta
      PROVE  LET r == [meta[n] EXCEPT !.groups = gs(n)]
             IN  /\ r \in MetaType /\ SameData(r, meta[n])
                 /\ r.contacts = meta[n].contacts /\ r.groups = gs(n)
  <2>1. gs(n) \in Seq(AllGroups) /\ meta[n] \in MetaType
    BY <1>4, InvFacts DEF Sound
  <2> HIDE DEF gs
  <2> QED BY <2>1 DEF MetaType, SameData
<1> HIDE DEF gs
<1>6. /\ DOMAIN meta' = DOMAIN meta \ S
      /\ \A n \in DOMAIN meta' : n \in DOMAIN meta /\ meta'[n] = [meta[n] EXCEPT !.groups = gs(n)]
  BY <1>1
<1>7. meta' \in [DOMAIN meta' -> MetaType]
  BY <1>1, <1>5, <1>6
<1>8. \A n \in DOMAIN meta' : /\ SameData(meta'[n], meta[n]) /\ meta'[n].contacts = meta[n].contacts
                              /\ Sound(meta'[n].groups, meta'[n].temporary, groups')
  <2> SUFFICES ASSUME NEW n \in DOMAIN meta'
               PROVE  /\ SameData(meta'[n], meta[n]) /\ meta'[n].contacts = meta[n].contacts
                      /\ Sound(meta'[n].groups, meta'[n].temporary, groups')
    OBVIOUS
  <2>1. n \in DOMAIN meta
    BY <1>6
  <2>2. SameData(meta'[n], meta[n]) /\ meta'[n].contacts = meta[n].contacts /\ meta'[n].groups = gs(n)
    BY <1>5, <1>6, <2>1
  <2>3. meta'[n].temporary = meta[n].temporary
    BY <2>2 DEF SameData
  <2> QED BY <1>1, <1>4, <2>1, <2>2, <2>3
<1>9. S \in SUBSET DOMAIN meta
  OBVIOUS
<1> HIDE DEF S
<1>10. /\ owner' = [c \in Contacts |-> IF owner[c] \in S THEN Nobody ELSE owner[c]]
       /\ kept' \subseteq kept /\ \A d \in kept' : owner[d] \notin S /\ \A n \in S : d \notin Waiting({n})
  <2>1. /\ Destroyed(S) = [c \in Contacts |-> IF owner[c] \in S THEN Nobody ELSE owner[c]]
        /\ \A c \in Contacts : c \in UNION {meta[m].contacts : m \in S} <=> owner[c] \in S
        /\ \A n \in S : Waiting({n}) \subseteq Waiting(S)
    BY <1>9, DestroyedIs
  <2>2. kept \subseteq Contacts
    BY InvFacts
  <2>3. owner' = Destroyed(S) /\ kept' = kept \ ((UNION {meta[m].contacts : m \in S}) \cup Waiting(S))
    BY <1>1
  <2>4. ASSUME NEW d \in kept' PROVE d \in kept /\ owner[d] \notin S /\ \A n \in S : d \notin Waiting({n})
    <3> DEFINE U == UNION {meta[m].contacts : m \in S}
    <3>1. \A c \in Contacts : c \in U <=> owner[c] \in S
      BY <2>1
    <3>2. kept' = kept \ (U \cup Waiting(S))
      BY <2>3
    <3> HIDE DEF U
    <3>3. d \in kept /\ d \notin U /\ d \notin Waiting(S)
      BY <3>2
    <3> QED BY <2>1, <2>2, <3>1, <3>3
  <2>5. owner' = [c \in Contacts |-> IF owner[c] \in S THEN Nobody ELSE owner[c]]
    BY <2>1, <2>3
  <2> QED BY <2>4, <2>5
<1>11. groups' \subseteq Groups
  BY <1>1, InvFacts
<1> QED BY <1>2, <1>3, <1>6, <1>7, <1>8, <1>9, <1>10, <1>11, RemoveStep

(* Nothing of the list is lost. *)
LEMMA StayStep ==
    ASSUME Inv, phase = "running", phase' = "running", protocols' = protocols, file' = file,
           budget' \in [{"ops", "failures", "ends"} -> Nat], saveTimer' \in BOOLEAN, groups' \subseteq Groups,
           DOMAIN meta' = DOMAIN meta, meta' \in [DOMAIN meta' -> MetaType],
           \A n \in DOMAIN meta' : /\ SameData(meta'[n], meta[n]) /\ meta'[n].contacts = meta[n].contacts
                                   /\ Sound(meta'[n].groups, meta'[n].temporary, groups'),
           owner' = owner, kept' = kept
    PROVE  Inv'
<1> DEFINE S == {}
<1>1. owner' = [c \in Contacts |-> IF owner[c] \in S THEN Nobody ELSE owner[c]]
  BY InvFacts
<1>2. /\ S \in SUBSET DOMAIN meta /\ DOMAIN meta' = DOMAIN meta \ S
      /\ kept' \subseteq kept /\ \A d \in kept' : owner[d] \notin S /\ \A n \in S : d \notin Waiting({n})
  OBVIOUS
<1> HIDE DEF S
<1> QED BY <1>1, <1>2, RemoveStep

LEMMA AddGroupStep ==
    ASSUME Inv, NEW g \in Groups, AddGroup(g)
    PROVE  Inv'
<1>1. Change /\ groups' = groups \cup {g} /\ SlotSaveLater /\ UNCHANGED <<meta, owner, kept>>
  BY DEF AddGroup
<1>2. phase = "running" /\ phase' = "running" /\ protocols' = protocols /\ file' = file
      /\ budget' \in [{"ops", "failures", "ends"} -> Nat]
  BY <1>1, ChangeFacts
<1>3. saveTimer' \in BOOLEAN
  BY <1>1, Zenon DEF SlotSaveLater
<1>4. \A n \in DOMAIN meta : Sound(meta[n].groups, meta[n].temporary, groups \cup {g})
  BY InvFacts DEF Sound
<1>5. \A n \in DOMAIN meta' : /\ SameData(meta'[n], meta[n]) /\ meta'[n].contacts = meta[n].contacts
                              /\ Sound(meta'[n].groups, meta'[n].temporary, groups')
  BY <1>1, <1>4 DEF SameData
<1>6. groups' \subseteq Groups /\ DOMAIN meta' = DOMAIN meta /\ meta' \in [DOMAIN meta' -> MetaType]
      /\ owner' = owner /\ kept' = kept
  BY <1>1, InvFacts
<1> QED BY <1>2, <1>3, <1>5, <1>6, StayStep

LEMMA RegroupStep ==
    ASSUME Inv, NEW m \in DOMAIN meta, NEW gs, Sound(gs, meta[m].temporary, groups), Regroup(m, gs)
    PROVE  Inv'
<1> DEFINE r == [meta[m] EXCEPT !.groups = gs]
<1>1. Change /\ meta' = [meta EXCEPT ![m] = r] /\ SlotSaveLater /\ UNCHANGED <<owner, groups, kept>>
  BY DEF Regroup
<1>2. phase = "running" /\ phase' = "running" /\ protocols' = protocols /\ file' = file
      /\ budget' \in [{"ops", "failures", "ends"} -> Nat]
  BY <1>1, ChangeFacts
<1>3. saveTimer' \in BOOLEAN
  BY <1>1, Zenon DEF SlotSaveLater
<1>4. gs \in Seq(AllGroups) /\ meta[m] \in MetaType
  BY InvFacts DEF Sound
<1>5. r \in MetaType /\ SameData(r, meta[m]) /\ r.contacts = meta[m].contacts /\ r.groups = gs
      /\ r.temporary = meta[m].temporary
  BY <1>4 DEF MetaType, SameData
<1> HIDE DEF r
<1>6. /\ DOMAIN meta' = DOMAIN meta /\ meta' \in [DOMAIN meta' -> MetaType]
      /\ \A n \in DOMAIN meta : meta'[n] = IF n = m THEN r ELSE meta[n]
  BY <1>1, <1>5, InvFacts
<1>7. \A n \in DOMAIN meta' : /\ SameData(meta'[n], meta[n]) /\ meta'[n].contacts = meta[n].contacts
                              /\ Sound(meta'[n].groups, meta'[n].temporary, groups')
  <2> SUFFICES ASSUME NEW n \in DOMAIN meta
               PROVE  /\ SameData(meta'[n], meta[n]) /\ meta'[n].contacts = meta[n].contacts
                      /\ Sound(meta'[n].groups, meta'[n].temporary, groups')
    BY <1>6
  <2>1. CASE n = m
    BY <1>1, <1>5, <1>6, <2>1
  <2>2. CASE n # m
    BY <1>1, <1>6, <2>2, InvFacts DEF SameData
  <2> QED BY <2>1, <2>2
<1>8. groups' \subseteq Groups /\ owner' = owner /\ kept' = kept
  BY <1>1, InvFacts
<1> QED BY <1>2, <1>3, <1>6, <1>7, <1>8, StayStep

LEMMA RegroupMetaStep ==
    ASSUME Inv, NEW m \in DOMAIN meta, RegroupMeta(m)
    PROVE  Inv'
<1> DEFINE gs == meta[m].groups
           t == meta[m].temporary
<1>1. Sound(gs, t, groups) /\ groups \in SUBSET AllGroups /\ meta[m] \in MetaType
  BY InvFacts
<1>2. t \in BOOLEAN
  BY <1>1 DEF MetaType
<1>3. \/ \E g \in groups \cup {Top} : Regroup(m, AddToGroup(gs, t, g))
      \/ \E g \in ToSet(gs) : Regroup(m, RemoveFromGroup(gs, t, g))
      \/ \E f \in ToSet(gs), g \in groups \cup {Top} : Regroup(m, MoveToGroup(gs, t, f, g))
  BY DEF RegroupMeta
<1>4. \A h : Sound(h, t, groups) /\ Regroup(m, h) => Inv'
  BY RegroupStep
<1> HIDE DEF gs, t
<1>5. ASSUME NEW g \in groups \cup {Top}, Regroup(m, AddToGroup(gs, t, g)) PROVE Inv'
  <2>1. Sound(AddToGroup(gs, t, g), t, groups)
    BY <1>1, <1>2, AddToGroupFacts
  <2> QED BY <1>4, <1>5, <2>1
<1>6. ASSUME NEW g, Regroup(m, RemoveFromGroup(gs, t, g)) PROVE Inv'
  <2>1. Sound(RemoveFromGroup(gs, t, g), t, groups)
    BY <1>1, <1>2, RemoveFromGroupFacts
  <2> QED BY <1>4, <1>6, <2>1
<1>7. ASSUME NEW f, NEW g \in groups \cup {Top}, Regroup(m, MoveToGroup(gs, t, f, g)) PROVE Inv'
  <2>1. Sound(MoveToGroup(gs, t, f, g), t, groups)
    BY <1>1, <1>2, MoveToGroupFacts
  <2> QED BY <1>4, <1>7, <2>1
<1> QED BY <1>3, <1>5, <1>6, <1>7


(* A contact is destroyed. *)
LEMMA ContactDestroyedStep ==
    ASSUME Inv, NEW c \in Contacts, ContactDestroyed(c)
    PROVE  Inv'
<1> DEFINE o == owner[c]
           r == [meta[o] EXCEPT !.contacts = meta[o].contacts \ {c}]
<1>1. /\ Change /\ o # Nobody /\ meta' = [meta EXCEPT ![o] = r]
      /\ owner' = [owner EXCEPT ![c] = Nobody] /\ kept' = kept \ {c}
      /\ SlotSaveLater /\ groups' = groups
  BY DEF ContactDestroyed
<1>2. phase = "running" /\ phase' = "running" /\ protocols' = protocols /\ file' = file
      /\ budget' \in [{"ops", "failures", "ends"} -> Nat]
  BY <1>1, ChangeFacts
<1>3. saveTimer' \in BOOLEAN
  BY <1>1, Zenon DEF SlotSaveLater
<1>4. o \in DOMAIN meta /\ meta[o] \in MetaType /\ owner[c] = o
  BY <1>1, InvFacts
<1> HIDE DEF o
<1>5. /\ r \in MetaType /\ SameData(r, meta[o]) /\ r.contacts = meta[o].contacts \ {c}
      /\ r.groups = meta[o].groups /\ r.temporary = meta[o].temporary /\ r.listens = meta[o].listens
  BY <1>4 DEF MetaType, SameData
<1> HIDE DEF r
<1>6. /\ DOMAIN meta' = DOMAIN meta /\ meta' \in [DOMAIN meta' -> MetaType]
      /\ \A n \in DOMAIN meta : meta'[n] = IF n = o THEN r ELSE meta[n]
  BY <1>1, <1>4, <1>5, InvFacts
<1>7. \A n \in DOMAIN meta : /\ SameData(meta'[n], meta[n]) /\ meta'[n].groups = meta[n].groups
                             /\ meta'[n].temporary = meta[n].temporary
                             /\ meta'[n].listens = meta[n].listens
  BY <1>5, <1>6 DEF SameData
<1>8. owner' \in [Contacts -> DOMAIN meta' \cup {Nobody}] /\ owner'[c] = Nobody
      /\ \A d \in Contacts : d # c => owner'[d] = owner[d]
  BY <1>1, <1>6, InvFacts
<1>9. MembershipAgrees'
  <2> SUFFICES ASSUME NEW d \in Contacts
               PROVE  /\ \A n \in DOMAIN meta' : d \in meta'[n].contacts <=> owner'[d] = n
                      /\ owner'[d] # Nobody => ProtocolOf[d] \in protocols'
    BY DEF MembershipAgrees
  <2>1. /\ \A n \in DOMAIN meta : d \in meta[n].contacts <=> owner[d] = n
        /\ owner[d] # Nobody => ProtocolOf[d] \in protocols
        /\ Nobody \notin DOMAIN meta
    BY InvFacts
  <2>2. DOMAIN meta' = DOMAIN meta
    BY <1>6
  <2>3. \A n \in DOMAIN meta : d \in meta'[n].contacts <=> d \in meta[n].contacts /\ ~(n = o /\ d = c)
    BY <1>5, <1>6
  <2>4. CASE d = c
    BY <1>2, <1>4, <1>8, <2>1, <2>2, <2>3, <2>4
  <2>5. CASE d # c
    BY <1>2, <1>8, <2>1, <2>2, <2>3, <2>5
  <2> QED BY <2>4, <2>5
<1>10. \A n \in DOMAIN meta' : Sound(meta'[n].groups, meta'[n].temporary, groups')
  BY <1>1, <1>6, <1>7, InvFacts
<1>11. ListensIsSaved'
  BY <1>6, <1>7, InvFacts DEF ListensIsSaved
<1>12. ASSUME NEW d \in kept'
       PROVE  IF ProtocolOf[d] \in protocols' THEN owner'[d] \in Saved'
              ELSE \E n \in Saved' : meta'[n].listens /\ d \in meta'[n].pluginContactData
  <2>1. d \in kept /\ d # c /\ d \in Contacts
    BY <1>1, InvFacts
  <2>2. owner[d] # Nobody => owner'[d] = owner[d] /\ owner[d] \in DOMAIN meta'
    BY <1>6, <1>8, <2>1, InvFacts
  <2>3. /\ \A n \in DOMAIN meta : n \in DOMAIN meta' => SameData(meta'[n], meta[n])
        /\ \A n \in DOMAIN meta : n \notin DOMAIN meta' => d \notin Waiting({n})
    BY <1>6, <1>7
  <2> QED BY <1>2, <2>1, <2>2, <2>3, KeptStays
<1>13. /\ DOMAIN meta' \subseteq Metas /\ groups' \subseteq Groups /\ protocols' \subseteq Protocols
       /\ kept' \subseteq Contacts
  BY <1>1, <1>2, <1>6, InvFacts
<1> QED BY <1>2, <1>3, <1>6, <1>8, <1>9, <1>10, <1>11, <1>12, <1>13, RunningStep

(* The contacts of a metacontact are moved to another. *)
LEMMA MergeStep ==
    ASSUME Inv, NEW src \in DOMAIN meta, NEW dst \in DOMAIN meta, MergeMetaContacts(src, dst)
    PROVE  Inv'
<1> DEFINE moved == meta[src].contacts
           r == [meta[dst] EXCEPT !.contacts = meta[dst].contacts \cup moved]
<1>1. Change /\ src # dst /\ groups' = groups
  BY DEF MergeMetaContacts
<1>2. phase = "running" /\ phase' = "running" /\ protocols' = protocols /\ file' = file
      /\ budget' \in [{"ops", "failures", "ends"} -> Nat]
  BY <1>1, ChangeFacts
<1>3. meta[src] \in MetaType /\ meta[dst] \in MetaType /\ groups' \subseteq Groups /\ saveTimer \in BOOLEAN
  BY <1>1, InvFacts
<1>4. CASE moved = {}
  <2>1. UNCHANGED <<meta, owner, kept, saveTimer>>
    BY <1>4 DEF MergeMetaContacts
  <2>2. \A n \in DOMAIN meta' : /\ SameData(meta'[n], meta[n]) /\ meta'[n].contacts = meta[n].contacts
                                /\ Sound(meta'[n].groups, meta'[n].temporary, groups')
    BY <1>1, <2>1, InvFacts DEF SameData
  <2>3. DOMAIN meta' = DOMAIN meta /\ meta' \in [DOMAIN meta' -> MetaType] /\ owner' = owner /\ kept' = kept
        /\ saveTimer' \in BOOLEAN
    BY <1>3, <2>1, InvFacts
  <2> QED BY <1>2, <1>3, <2>2, <2>3, StayStep
<1>5. CASE moved # {}
  <2>1. /\ meta' = [Without(meta, {src}) EXCEPT ![dst].contacts = @ \cup moved]
        /\ owner' = [c \in Contacts |-> IF c \in moved THEN dst ELSE owner[c]]
        /\ kept' = IF meta[dst].temporary THEN kept \ (moved \cup Waiting({src}))
                   ELSE (kept \ Waiting({src})) \cup moved
        /\ SlotSaveLater
    BY <1>5 DEF MergeMetaContacts
  <2>2. saveTimer' \in BOOLEAN
    BY <2>1, Zenon DEF SlotSaveLater
  <2>3. moved \subseteq Contacts
    BY <1>3 DEF MetaType
  <2>4. \A c \in Contacts : c \in moved <=> owner[c] = src
    BY InvFacts
  <2>5. /\ r \in MetaType /\ SameData(r, meta[dst]) /\ r.contacts = meta[dst].contacts \cup moved
        /\ r.groups = meta[dst].groups /\ r.temporary = meta[dst].temporary /\ r.listens = meta[dst].listens
    <3> HIDE DEF moved
    <3> QED BY <1>3, <2>3 DEF MetaType, SameData
  <2>6. meta' = [Without(meta, {src}) EXCEPT ![dst] = r]
    <3>1. Without(meta, {src})[dst] = meta[dst]
      BY <1>1 DEF Without, Restrict
    <3> QED BY <2>1, <3>1
  <2> HIDE DEF r, moved
  <2>7. /\ DOMAIN meta' = DOMAIN meta \ {src} /\ meta' \in [DOMAIN meta' -> MetaType]
        /\ \A n \in DOMAIN meta' : meta'[n] = IF n = dst THEN r ELSE meta[n]
    BY <1>1, <2>5, <2>6, InvFacts DEF Without, Restrict
  <2>8. \A n \in DOMAIN meta' : /\ SameData(meta'[n], meta[n]) /\ meta'[n].groups = meta[n].groups
                                /\ meta'[n].temporary = meta[n].temporary
                                /\ meta'[n].listens = meta[n].listens
    BY <2>5, <2>7 DEF SameData
  <2>9. /\ \A c \in Contacts : owner'[c] = IF owner[c] = src THEN dst ELSE owner[c]
        /\ owner' \in [Contacts -> DOMAIN meta' \cup {Nobody}]
    BY <1>1, <2>1, <2>4, <2>7, InvFacts
  <2>10. MembershipAgrees'
    <3> SUFFICES ASSUME NEW d \in Contacts
                 PROVE  /\ \A n \in DOMAIN meta' : d \in meta'[n].contacts <=> owner'[d] = n
                        /\ owner'[d] # Nobody => ProtocolOf[d] \in protocols'
      BY DEF MembershipAgrees
    <3>1. /\ \A n \in DOMAIN meta : d \in meta[n].contacts <=> owner[d] = n
          /\ owner[d] # Nobody => ProtocolOf[d] \in protocols
          /\ Nobody \notin DOMAIN meta
      BY InvFacts
    <3>2. DOMAIN meta' = DOMAIN meta \ {src}
      BY <2>7
    <3>3. \A n \in DOMAIN meta' : d \in meta'[n].contacts <=> d \in meta[n].contacts \/ (n = dst /\ d \in moved)
      BY <2>5, <2>7
    <3>4. owner'[d] = IF owner[d] = src THEN dst ELSE owner[d]
      BY <2>9
    <3>5. d \in moved <=> owner[d] = src
      BY <2>4
    <3> QED BY <1>1, <1>2, <3>1, <3>2, <3>3, <3>4, <3>5
  <2>11. \A n \in DOMAIN meta' : Sound(meta'[n].groups, meta'[n].temporary, groups')
    BY <1>1, <2>7, <2>8, InvFacts
  <2>12. ListensIsSaved'
    BY <2>7, <2>8, InvFacts DEF ListensIsSaved
  <2>13. ASSUME NEW d \in kept'
         PROVE  IF ProtocolOf[d] \in protocols' THEN owner'[d] \in Saved'
                ELSE \E n \in Saved' : meta'[n].listens /\ d \in meta'[n].pluginContactData
    <3>1. CASE d \in moved
      <4>1. d \in Contacts /\ owner[d] = src /\ owner'[d] = dst
        BY <2>3, <2>4, <2>9, <3>1
      <4>2. ProtocolOf[d] \in protocols
        BY <4>1, InvFacts
      <4>3. ~meta[dst].temporary
        BY <2>1, <3>1
      <4>4. dst \in DOMAIN meta' /\ ~meta'[dst].temporary
        BY <1>1, <2>7, <2>8, <4>3
      <4> QED BY <1>2, <4>1, <4>2, <4>4 DEF Saved
    <3>2. CASE d \notin moved
      <4>1. d \in kept /\ d \in Contacts /\ d \notin Waiting({src})
        BY <2>1, <3>2, InvFacts
      <4>2. owner[d] # Nobody => owner'[d] = owner[d] /\ owner[d] \in DOMAIN meta'
        BY <2>4, <2>7, <2>9, <3>2, <4>1, InvFacts
      <4>3. /\ \A n \in DOMAIN meta : n \in DOMAIN meta' => SameData(meta'[n], meta[n])
            /\ \A n \in DOMAIN meta : n \notin DOMAIN meta' => d \notin Waiting({n})
        BY <2>7, <2>8, <4>1
      <4> QED BY <1>2, <4>1, <4>2, <4>3, KeptStays
    <3> QED BY <3>1, <3>2
  <2>14. DOMAIN meta' \subseteq Metas /\ protocols' \subseteq Protocols /\ kept' \subseteq Contacts
    BY <1>2, <2>1, <2>3, <2>7, InvFacts
  <2> QED BY <1>2, <1>3, <2>2, <2>7, <2>9, <2>10, <2>11, <2>12, <2>13, <2>14, RunningStep
<1> QED BY <1>4, <1>5

-----------------------------------------------------------------------------
(* What is in the file, as far as TypeOK tells. *)
FileOK ==
    /\ file.groups \subseteq Groups
    /\ DOMAIN file.metas \subseteq Metas /\ file.metas \in [DOMAIN file.metas -> EntryType]

(* The rest of TypeOK and GroupsSound. *)
ListOK ==
    /\ DOMAIN meta \subseteq Metas /\ meta \in [DOMAIN meta -> MetaType]
    /\ owner \in [Contacts -> DOMAIN meta \cup {Nobody}]
    /\ groups \subseteq Groups
    /\ protocols \subseteq Protocols
    /\ saveTimer \in BOOLEAN
    /\ kept \subseteq Contacts
    /\ \A m \in DOMAIN meta : Sound(meta[m].groups, meta[m].temporary, groups)

(* Any step: the parts of the invariant put together. *)
LEMMA AnyStep ==
    ASSUME phase' \in {"down", "running", "terminated"}, FileOK', ListOK',
           budget' \in [{"ops", "failures", "ends"} -> Nat],
           MembershipAgrees', NothingForgotten', ListensIsSaved', PhaseSound'
    PROVE  Inv'
<1>1. TypeOK'
  BY DEF TypeOK, FileOK, ListOK
<1>2. GroupsSound'
  <2>1. /\ meta' \in [DOMAIN meta' -> MetaType]
        /\ \A m \in DOMAIN meta' : Sound(meta'[m].groups, meta'[m].temporary, groups')
    BY DEF ListOK
  <2>2. \A m \in DOMAIN meta' : meta'[m].groups \in Seq(AllGroups)
    BY <2>1 DEF MetaType
  <2> QED BY <2>1, <2>2, SoundIs, Zenon DEF GroupsSound
<1> QED BY <1>1, <1>2 DEF Inv

LEMMA InvParts ==
    ASSUME Inv
    PROVE  /\ FileOK /\ ListOK /\ MembershipAgrees /\ NothingForgotten /\ ListensIsSaved /\ PhaseSound
           /\ phase \in {"down", "running", "terminated"}
           /\ budget \in [{"ops", "failures", "ends"} -> Nat]
<1>1. FileOK /\ budget \in [{"ops", "failures", "ends"} -> Nat] /\ phase \in {"down", "running", "terminated"}
  BY DEF Inv, TypeOK, FileOK
<1>2. ListOK
  BY InvFacts DEF ListOK
<1> QED BY <1>1, <1>2 DEF Inv

(* Something of the budget is spent. *)
LEMMA SpendFacts ==
    ASSUME budget \in [{"ops", "failures", "ends"} -> Nat], NEW w \in {"ops", "failures", "ends"}, Spend(w)
    PROVE  budget' \in [{"ops", "failures", "ends"} -> Nat]
<1>1. budget[w] > 0 /\ budget' = [budget EXCEPT ![w] = budget[w] - 1]
  BY DEF Spend
<1> QED BY <1>1

-----------------------------------------------------------------------------
(* Protocols. *)

(* A protocol makes its contacts from the data that wait for it. *)
LEMMA LoadProtocolStep ==
    ASSUME Inv, NEW p \in Protocols, LoadProtocol(p)
    PROVE  Inv'
<1> DEFINE Has(m, c) == meta[m].listens /\ c \in meta[m].pluginContactData
           claimed == {c \in Of(p) : \E m \in DOMAIN meta : Has(m, c)}
<1>1. /\ phase = "running" /\ p \notin protocols /\ protocols' = protocols \cup {p}
      /\ UNCHANGED <<phase, groups, file, budget>>
      /\ kept' \subseteq kept
      /\ \/ saveTimer' = (phase # "terminated")
         \/ saveTimer' = saveTimer
  BY DEF LoadProtocol, SlotSaveLater
<1>0. PICK made \in SUBSET claimed :
         \E first \in [made -> DOMAIN meta] :
            /\ \A c \in made : Has(first[c], c)
            /\ meta' = [m \in DOMAIN meta |->
                           [meta[m] EXCEPT !.contacts = @ \cup {c \in made : first[c] = m}]]
            /\ owner' = [c \in Contacts |-> IF c \in made THEN first[c] ELSE owner[c]]
            /\ kept' = kept \ (claimed \ made)
  BY DEF LoadProtocol
<1>2. PICK first \in [made -> DOMAIN meta] :
         /\ \A c \in made : Has(first[c], c)
         /\ meta' = [m \in DOMAIN meta |->
                        [meta[m] EXCEPT !.contacts = @ \cup {c \in made : first[c] = m}]]
         /\ owner' = [c \in Contacts |-> IF c \in made THEN first[c] ELSE owner[c]]
         /\ kept' = kept \ (claimed \ made)
  BY <1>0
<1>3. \A c \in made : /\ c \in Contacts /\ ProtocolOf[c] = p /\ first[c] \in DOMAIN meta
                      /\ meta[first[c]].listens
  BY <1>0, <1>2 DEF Of
<1>4. \A c \in Contacts, m \in DOMAIN meta :
         ProtocolOf[c] = p /\ meta[m].listens /\ c \in meta[m].pluginContactData => c \in claimed
  BY DEF Of
<1> HIDE DEF claimed
<1> DEFINE more(m) == {c \in made : first[c] = m}
<1>5. ASSUME NEW m \in DOMAIN meta
      PROVE  /\ meta'[m] \in MetaType /\ SameData(meta'[m], meta[m])
             /\ meta'[m].contacts = meta[m].contacts \cup more(m)
             /\ meta'[m].groups = meta[m].groups
             /\ meta'[m].temporary = meta[m].temporary /\ meta'[m].listens = meta[m].listens
  <2>1. meta[m] \in MetaType /\ more(m) \in SUBSET Contacts
    BY <1>3, InvFacts
  <2>2. meta'[m] = [meta[m] EXCEPT !.contacts = meta[m].contacts \cup more(m)]
    BY <1>2
  <2> HIDE DEF more
  <2> QED BY <2>1, <2>2 DEF MetaType, SameData
<1>6. DOMAIN meta' = DOMAIN meta /\ meta' \in [DOMAIN meta' -> MetaType]
  <2>1. DOMAIN meta' = DOMAIN meta /\ meta' = [m \in DOMAIN meta |-> meta'[m]]
    BY <1>2
  <2> HIDE DEF more
  <2> QED BY <1>5, <2>1
<1>7. \A c \in Contacts : owner'[c] = IF c \in made THEN first[c] ELSE owner[c]
  BY <1>2
<1>8. owner' \in [Contacts -> DOMAIN meta' \cup {Nobody}]
  BY <1>2, <1>3, <1>6, InvFacts
<1>9. MembershipAgrees'
  <2> SUFFICES ASSUME NEW d \in Contacts
               PROVE  /\ \A n \in DOMAIN meta' : d \in meta'[n].contacts <=> owner'[d] = n
                      /\ owner'[d] # Nobody => ProtocolOf[d] \in protocols'
    BY DEF MembershipAgrees
  <2>1. /\ \A n \in DOMAIN meta : d \in meta[n].contacts <=> owner[d] = n
        /\ owner[d] # Nobody => ProtocolOf[d] \in protocols
        /\ Nobody \notin DOMAIN meta
    BY InvFacts
  <2>2. \A n \in DOMAIN meta : d \in meta'[n].contacts <=> d \in meta[n].contacts \/ (d \in made /\ first[d] = n)
    BY <1>5
  <2>3. owner'[d] = IF d \in made THEN first[d] ELSE owner[d]
    BY <1>7
  <2>4. CASE d \in made
    <3>1. ProtocolOf[d] = p /\ owner[d] = Nobody
      BY <1>1, <1>3, <2>1, <2>4
    <3> QED BY <1>1, <1>6, <2>1, <2>2, <2>3, <2>4, <3>1
  <2>5. CASE d \notin made
    BY <1>1, <1>6, <2>1, <2>2, <2>3, <2>5
  <2> QED BY <2>4, <2>5
<1>10. \A n \in DOMAIN meta' : Sound(meta'[n].groups, meta'[n].temporary, groups')
  BY <1>1, <1>5, <1>6, InvFacts
<1>11. ListensIsSaved'
  BY <1>5, <1>6, InvFacts DEF ListensIsSaved
<1>12. ASSUME NEW d \in kept'
       PROVE  IF ProtocolOf[d] \in protocols' THEN owner'[d] \in Saved'
              ELSE \E n \in Saved' : meta'[n].listens /\ d \in meta'[n].pluginContactData
  <2>1. /\ d \in Contacts
        /\ ProtocolOf[d] \in protocols => owner[d] \in DOMAIN meta /\ ~meta[owner[d]].temporary
        /\ ProtocolOf[d] \notin protocols =>
              \E n \in DOMAIN meta : /\ ~meta[n].temporary /\ meta[n].listens
                                     /\ d \in meta[n].pluginContactData
    BY <1>1, KeptFacts
  <2>2. CASE ProtocolOf[d] \in protocols
    <3>1. owner'[d] = owner[d]
      BY <1>1, <1>3, <1>7, <2>1, <2>2
    <3>2. owner[d] \in DOMAIN meta' /\ ~meta'[owner[d]].temporary
      BY <1>5, <1>6, <2>1, <2>2
    <3> QED BY <1>1, <2>2, <3>1, <3>2 DEF Saved
  <2>3. CASE ProtocolOf[d] = p
    <3>1. d \in made
      <4>1. d \in claimed
        BY <1>1, <1>4, <2>1, <2>3
      <4> QED BY <1>2, <4>1
    <3>2. owner'[d] = first[d] /\ first[d] \in DOMAIN meta /\ meta[first[d]].listens
      BY <1>3, <1>7, <2>1, <3>1
    <3>3. first[d] \in DOMAIN meta' /\ ~meta'[first[d]].temporary
      BY <1>5, <1>6, <3>2, InvFacts
    <3> QED BY <1>1, <2>3, <3>2, <3>3 DEF Saved
  <2>4. CASE ProtocolOf[d] \notin protocols'
    <3>1. PICK n \in DOMAIN meta : ~meta[n].temporary /\ meta[n].listens /\ d \in meta[n].pluginContactData
      BY <1>1, <2>1, <2>4
    <3>2. n \in DOMAIN meta' /\ SameData(meta'[n], meta[n])
      BY <1>5, <1>6
    <3> QED BY <2>4, <3>1, <3>2 DEF Saved, SameData
  <2> QED BY <1>1, <2>2, <2>3, <2>4
<1>13. saveTimer' \in BOOLEAN
  <2>1. saveTimer \in BOOLEAN
    BY InvFacts
  <2> QED BY <1>1, <2>1, Zenon
<1>14. /\ phase' = "running" /\ file' = file /\ groups' \subseteq Groups /\ protocols' \subseteq Protocols
       /\ kept' \subseteq Contacts /\ DOMAIN meta' \subseteq Metas
       /\ budget' \in [{"ops", "failures", "ends"} -> Nat]
  BY <1>1, <1>6, InvFacts, InvParts
<1> QED BY <1>6, <1>8, <1>9, <1>10, <1>11, <1>12, <1>13, <1>14, RunningStep


(* A protocol goes, and its contacts with it. *)
LEMMA UnloadProtocolStep ==
    ASSUME Inv, NEW p \in Protocols, UnloadProtocol(p)
    PROVE  Inv'
<1>1. /\ phase \in {"running", "terminated"} /\ protocols' = protocols \ {p}
      /\ meta' = [m \in DOMAIN meta |-> [meta[m] EXCEPT !.contacts = @ \ Of(p)]]
      /\ owner' = [c \in Contacts |-> IF c \in Of(p) THEN Nobody ELSE owner[c]]
      /\ kept' = IF phase = "running" THEN kept \ Of(p) ELSE kept
      /\ UNCHANGED <<phase, groups, file>>
  BY DEF UnloadProtocol
<1>2. budget' \in [{"ops", "failures", "ends"} -> Nat]
  <2>1. budget \in [{"ops", "failures", "ends"} -> Nat] /\ (Spend("ops") \/ budget' = budget)
    BY InvParts DEF UnloadProtocol
  <2> QED BY <2>1, SpendFacts
<1>3. saveTimer' = (phase # "terminated") \/ saveTimer' = saveTimer
  BY DEF UnloadProtocol, SlotSaveLater
<1>4. saveTimer' \in BOOLEAN /\ (phase = "terminated" => saveTimer' = FALSE)
  <2>1. saveTimer \in BOOLEAN /\ (phase = "terminated" => saveTimer = FALSE)
    BY InvParts DEF ListOK, PhaseSound
  <2> QED BY <1>3, <2>1, Zenon
<1>5. ASSUME NEW m \in DOMAIN meta
      PROVE  /\ meta'[m] \in MetaType /\ SameData(meta'[m], meta[m])
             /\ meta'[m].contacts = meta[m].contacts \ Of(p)
             /\ meta'[m].groups = meta[m].groups
             /\ meta'[m].temporary = meta[m].temporary /\ meta'[m].listens = meta[m].listens
  <2>1. meta[m] \in MetaType
    BY InvFacts
  <2>2. meta'[m] = [meta[m] EXCEPT !.contacts = meta[m].contacts \ Of(p)]
    BY <1>1
  <2> QED BY <2>1, <2>2 DEF MetaType, SameData
<1>6. DOMAIN meta' = DOMAIN meta /\ meta' \in [DOMAIN meta' -> MetaType]
  <2>1. DOMAIN meta' = DOMAIN meta /\ meta' = [m \in DOMAIN meta |-> meta'[m]]
    BY <1>1
  <2> QED BY <1>5, <2>1
<1>7. \A c \in Contacts : owner'[c] = IF ProtocolOf[c] = p THEN Nobody ELSE owner[c]
  BY <1>1 DEF Of
<1>8. owner' \in [Contacts -> DOMAIN meta' \cup {Nobody}]
  BY <1>1, <1>6, InvFacts
<1>9. MembershipAgrees'
  <2> SUFFICES ASSUME NEW d \in Contacts
               PROVE  /\ \A n \in DOMAIN meta' : d \in meta'[n].contacts <=> owner'[d] = n
                      /\ owner'[d] # Nobody => ProtocolOf[d] \in protocols'
    BY DEF MembershipAgrees
  <2>1. /\ \A n \in DOMAIN meta : d \in meta[n].contacts <=> owner[d] = n
        /\ owner[d] # Nobody => ProtocolOf[d] \in protocols
        /\ Nobody \notin DOMAIN meta
    BY InvFacts
  <2>2. \A n \in DOMAIN meta : d \in meta'[n].contacts <=> d \in meta[n].contacts /\ ProtocolOf[d] # p
    BY <1>5 DEF Of
  <2>3. owner'[d] = IF ProtocolOf[d] = p THEN Nobody ELSE owner[d]
    BY <1>7
  <2> QED BY <1>1, <1>6, <2>1, <2>2, <2>3
<1>10. ListOK'
  <2>1. \A n \in DOMAIN meta' : Sound(meta'[n].groups, meta'[n].temporary, groups')
    <3> SUFFICES ASSUME NEW n \in DOMAIN meta PROVE Sound(meta'[n].groups, meta'[n].temporary, groups')
      BY <1>6
    <3>1. groups' = groups
      BY <1>1
    <3>2. meta'[n].groups = meta[n].groups /\ meta'[n].temporary = meta[n].temporary
      BY <1>5
    <3> QED BY <3>1, <3>2, InvFacts
  <2>2. /\ DOMAIN meta' \subseteq Metas /\ groups' \subseteq Groups /\ protocols' \subseteq Protocols
        /\ kept' \subseteq Contacts
    BY <1>1, <1>6, InvFacts
  <2> QED BY <1>4, <1>6, <1>8, <2>1, <2>2 DEF ListOK
<1>11. ListensIsSaved'
  BY <1>5, <1>6, InvFacts DEF ListensIsSaved
<1>12. NothingForgotten'
  <2>1. CASE phase = "terminated"
    BY <1>1, <2>1, InvParts DEF NothingForgotten, OnFile
  <2>2. CASE phase = "running"
    <3> SUFFICES ASSUME NEW d \in kept'
                 PROVE  IF ProtocolOf[d] \in protocols' THEN owner'[d] \in Saved'
                        ELSE \E n \in Saved' : meta'[n].listens /\ d \in meta'[n].pluginContactData
      BY <1>1, <2>2 DEF NothingForgotten
    <3>1. d \in kept /\ d \notin Of(p)
      BY <1>1, <2>2
    <3>2. /\ d \in Contacts
          /\ ProtocolOf[d] \in protocols => owner[d] \in DOMAIN meta /\ ~meta[owner[d]].temporary
          /\ ProtocolOf[d] \notin protocols =>
                \E n \in DOMAIN meta : /\ ~meta[n].temporary /\ meta[n].listens
                                       /\ d \in meta[n].pluginContactData
      BY <2>2, <3>1, KeptFacts
    <3>3. ProtocolOf[d] # p /\ owner'[d] = owner[d]
      BY <1>7, <3>1, <3>2 DEF Of
    <3>4. CASE ProtocolOf[d] \in protocols
      <4>1. owner[d] \in DOMAIN meta' /\ ~meta'[owner[d]].temporary
        BY <1>5, <1>6, <3>2, <3>4
      <4> QED BY <1>1, <3>3, <3>4, <4>1 DEF Saved
    <3>5. CASE ProtocolOf[d] \notin protocols
      <4>1. PICK n \in DOMAIN meta : ~meta[n].temporary /\ meta[n].listens /\ d \in meta[n].pluginContactData
        BY <3>2, <3>5
      <4>2. n \in DOMAIN meta' /\ SameData(meta'[n], meta[n])
        BY <1>5, <1>6
      <4> QED BY <1>1, <3>5, <4>1, <4>2 DEF Saved, SameData
    <3> QED BY <3>4, <3>5
  <2> QED BY <1>1, <2>1, <2>2
<1>13. PhaseSound'
  BY <1>1, <1>4 DEF PhaseSound
<1>14. FileOK' /\ phase' \in {"down", "running", "terminated"}
  BY <1>1, InvParts DEF FileOK
<1> QED BY <1>2, <1>9, <1>10, <1>11, <1>12, <1>13, <1>14, AnyStep

-----------------------------------------------------------------------------
(* The file. *)

(* A list as it is loaded. *)
LEMMA LoadedMetaFacts ==
    ASSUME NEW e \in EntryType, FileOK
    PROVE  /\ LoadedMeta(e) \in MetaType
           /\ LoadedMeta(e).contacts = {} /\ LoadedMeta(e).pluginContactData = e.contacts
           /\ LoadedMeta(e).temporary = FALSE /\ LoadedMeta(e).listens = TRUE
           /\ Sound(LoadedMeta(e).groups, FALSE, file.groups)
<1> DEFINE gs == Only(e.groups, file.groups \cup {Top})
           ls == AddToAll(gs)
<1>1. e.groups \in Seq(AllGroups) /\ e.contacts \in SUBSET Contacts
  BY DEF EntryType
<1>2. gs \in Seq(AllGroups) /\ \A x : In(x, gs) => x \in file.groups \cup {Top}
  BY <1>1, OnlyFacts
<1>3. file.groups \in SUBSET AllGroups
  BY DEF FileOK, AllGroups
<1> HIDE DEF gs
<1>4. Sound(ls, FALSE, file.groups)
  BY <1>2, <1>3, AddToAllFacts
<1>5. ls \in Seq(AllGroups)
  BY <1>4 DEF Sound
<1>6. LoadedGroups(e.groups) = ls
  BY DEF LoadedGroups, gs
<1> HIDE DEF ls
<1> DEFINE q == [contacts |-> {}, pluginContactData |-> {}, groups |-> ls,
                 temporary |-> FALSE, listens |-> FALSE]
           r == [q EXCEPT !.pluginContactData = e.contacts, !.listens = TRUE]
<1>7. LoadedMeta(e) = r
  BY <1>6 DEF LoadedMeta, NewMeta
<1>8. q \in MetaType
  BY <1>5 DEF MetaType
<1>9. q.contacts = {} /\ q.groups = ls /\ q.temporary = FALSE
  OBVIOUS
<1> HIDE DEF q
<1>10. r \in MetaType /\ r.contacts = {} /\ r.pluginContactData = e.contacts /\ r.groups = ls
       /\ r.temporary = FALSE /\ r.listens = TRUE
  BY <1>1, <1>8, <1>9 DEF MetaType
<1> HIDE DEF r
<1> QED BY <1>4, <1>7, <1>10

LEMMA LoadStep ==
    ASSUME Inv, Load
    PROVE  Inv'
<1>1. /\ phase = "down" /\ phase' = "running" /\ groups' = file.groups
      /\ meta' = [m \in DOMAIN file.metas |-> LoadedMeta(file.metas[m])]
      /\ saveTimer' = TRUE /\ UNCHANGED <<owner, protocols, file, kept, budget>>
  BY DEF Load
<1>2. /\ owner = [c \in Contacts |-> Nobody] /\ protocols = {} /\ FileOK
      /\ budget \in [{"ops", "failures", "ends"} -> Nat]
  BY <1>1, InvParts DEF PhaseSound
<1>3. ASSUME NEW m \in DOMAIN file.metas
      PROVE  /\ meta'[m] \in MetaType /\ meta'[m].contacts = {}
             /\ meta'[m].pluginContactData = file.metas[m].contacts
             /\ meta'[m].temporary = FALSE /\ meta'[m].listens = TRUE
             /\ Sound(meta'[m].groups, FALSE, file.groups)
  <2>1. file.metas[m] \in EntryType
    BY <1>2 DEF FileOK
  <2>2. meta'[m] = LoadedMeta(file.metas[m])
    BY <1>1
  <2> DEFINE e == file.metas[m]
  <2> HIDE DEF e
  <2> QED BY <1>2, <2>1, <2>2, LoadedMetaFacts DEF e
<1>4. DOMAIN meta' = DOMAIN file.metas /\ meta' \in [DOMAIN meta' -> MetaType]
  <2>1. DOMAIN meta' = DOMAIN file.metas /\ meta' = [m \in DOMAIN file.metas |-> meta'[m]]
    BY <1>1
  <2> QED BY <1>3, <2>1
<1>5. MembershipAgrees'
  <2>1. \A c \in Contacts : owner'[c] = Nobody
    BY <1>1, <1>2
  <2>2. Nobody \notin DOMAIN meta'
    BY <1>2, <1>4, ContactListAssumption DEF FileOK
  <2>3. \A m \in DOMAIN meta' : meta'[m].contacts = {}
    BY <1>3, <1>4
  <2> QED BY <2>1, <2>2, <2>3 DEF MembershipAgrees
<1>6. ListOK'
  <2>1. \A m \in DOMAIN meta' : Sound(meta'[m].groups, meta'[m].temporary, groups')
    BY <1>1, <1>3, <1>4
  <2>2. owner' \in [Contacts -> DOMAIN meta' \cup {Nobody}]
    BY <1>1, <1>2
  <2>3. /\ DOMAIN meta' \subseteq Metas /\ groups' \subseteq Groups /\ protocols' \subseteq Protocols
        /\ kept' \subseteq Contacts /\ saveTimer' \in BOOLEAN
    BY <1>1, <1>2, <1>4, InvFacts DEF FileOK
  <2> QED BY <1>4, <2>1, <2>2, <2>3 DEF ListOK
<1>7. ListensIsSaved'
  BY <1>3, <1>4 DEF ListensIsSaved
<1>8. NothingForgotten'
  <2> SUFFICES ASSUME NEW d \in kept'
               PROVE  \E n \in Saved' : meta'[n].listens /\ d \in meta'[n].pluginContactData
    BY <1>1, <1>2 DEF NothingForgotten
  <2>1. d \in OnFile
    BY <1>1, InvParts DEF NothingForgotten
  <2>2. PICK n \in DOMAIN file.metas : d \in file.metas[n].contacts
    BY <2>1 DEF OnFile
  <2> QED BY <1>3, <1>4, <2>2 DEF Saved
<1>9. PhaseSound' /\ FileOK'
  BY <1>1, <1>2 DEF PhaseSound, FileOK
<1> QED BY <1>1, <1>2, <1>5, <1>6, <1>7, <1>8, <1>9, AnyStep

LEMMA LoadFailsStep ==
    ASSUME Inv, LoadFails
    PROVE  Inv'
<1>1. /\ phase = "down" /\ phase' = "running" /\ Spend("failures") /\ kept' = {}
      /\ UNCHANGED <<meta, owner, groups, protocols, saveTimer, file>>
  BY DEF LoadFails
<1>2. budget' \in [{"ops", "failures", "ends"} -> Nat]
  BY <1>1, InvParts, SpendFacts
<1>3. FileOK' /\ MembershipAgrees' /\ ListensIsSaved'
  BY <1>1, InvParts DEF FileOK, MembershipAgrees, ListensIsSaved
<1>4. ListOK'
  BY <1>1, InvParts DEF ListOK
<1>5. NothingForgotten' /\ PhaseSound'
  BY <1>1 DEF NothingForgotten, PhaseSound
<1> QED BY <1>1, <1>2, <1>3, <1>4, <1>5, AnyStep


(* What save() writes and leaves in memory. *)
LEMMA SnapshotFacts ==
    ASSUME Inv
    PROVE  /\ Snapshot.groups = groups
           /\ DOMAIN Snapshot.metas = Saved
           /\ \A m \in Saved : /\ Snapshot.metas[m].groups = meta[m].groups
                               /\ Snapshot.metas[m].contacts = meta[m].contacts
           /\ Snapshot.metas \in [DOMAIN Snapshot.metas -> EntryType]
<1>1. \A m \in DOMAIN meta : meta[m].groups \in Seq(AllGroups) /\ meta[m].contacts \in SUBSET Contacts
  BY InvFacts DEF MetaType
<1> QED BY <1>1 DEF Snapshot, Saved, EntryType

LEMMA SerializedFacts ==
    ASSUME Inv
    PROVE  /\ DOMAIN Serialized = DOMAIN meta
           /\ Serialized \in [DOMAIN meta -> MetaType]
           /\ \A m \in DOMAIN meta :
                 /\ Serialized[m].contacts = meta[m].contacts /\ Serialized[m].groups = meta[m].groups
                 /\ Serialized[m].temporary = meta[m].temporary /\ Serialized[m].listens = meta[m].listens
<1>1. ASSUME NEW m \in DOMAIN meta
      PROVE  /\ Serialized[m] \in MetaType
             /\ Serialized[m].contacts = meta[m].contacts /\ Serialized[m].groups = meta[m].groups
             /\ Serialized[m].temporary = meta[m].temporary /\ Serialized[m].listens = meta[m].listens
  <2>1. meta[m] \in MetaType
    BY InvFacts
  <2>2. Serialized[m] = IF meta[m].temporary THEN meta[m]
                        ELSE [meta[m] EXCEPT !.pluginContactData = meta[m].contacts]
    BY DEF Serialized
  <2>3. CASE meta[m].temporary
    BY <2>1, <2>2, <2>3
  <2>4. CASE ~meta[m].temporary
    BY <2>1, <2>2, <2>4 DEF MetaType
  <2> QED BY <2>3, <2>4
<1>2. Serialized = [m \in DOMAIN meta |-> Serialized[m]]
  BY DEF Serialized
<1> HIDE DEF Serialized
<1> QED BY <1>1, <1>2

(* A contact that a save does not lose is there. *)
LEMMA NotDropped ==
    ASSUME Inv, phase = "running", NEW d \in kept, d \notin Dropped
    PROVE  /\ d \in Contacts /\ ProtocolOf[d] \in protocols
           /\ owner[d] \in Saved /\ d \in meta[owner[d]].contacts
<1>1. /\ d \in Contacts
      /\ ProtocolOf[d] \in protocols => owner[d] \in DOMAIN meta /\ ~meta[owner[d]].temporary
      /\ ProtocolOf[d] \notin protocols =>
            \E m \in DOMAIN meta : /\ ~meta[m].temporary /\ meta[m].listens
                                   /\ d \in meta[m].pluginContactData
  BY KeptFacts
<1>2. ProtocolOf[d] \in protocols
  <2> SUFFICES ASSUME ProtocolOf[d] \notin protocols PROVE FALSE
    OBVIOUS
  <2>1. PICK m \in DOMAIN meta : ~meta[m].temporary /\ d \in meta[m].pluginContactData
    BY <1>1
  <2>2. m \in Saved
    BY <2>1 DEF Saved
  <2> QED BY <2>1, <2>2 DEF Dropped, Waiting
<1>3. owner[d] \in Saved
  BY <1>1, <1>2 DEF Saved
<1>4. d \in meta[owner[d]].contacts
  BY <1>1, <1>2, InvFacts
<1> QED BY <1>1, <1>2, <1>3, <1>4

(* The metacontacts are serialized: what they say of groups and contacts   *)
(* stays.                                                                  *)
LEMMA SerializedParts ==
    ASSUME Inv, meta' = Serialized \/ meta' = meta, UNCHANGED <<owner, groups, protocols>>,
           saveTimer' \in BOOLEAN, kept' \subseteq kept
    PROVE  /\ ListOK' /\ MembershipAgrees' /\ ListensIsSaved'
           /\ DOMAIN meta' = DOMAIN meta
           /\ \A m \in DOMAIN meta : meta'[m].temporary = meta[m].temporary
<1>1. /\ DOMAIN meta' = DOMAIN meta
      /\ meta' \in [DOMAIN meta' -> MetaType]
      /\ \A m \in DOMAIN meta :
            /\ meta'[m].contacts = meta[m].contacts /\ meta'[m].groups = meta[m].groups
            /\ meta'[m].temporary = meta[m].temporary /\ meta'[m].listens = meta[m].listens
  BY SerializedFacts, InvFacts
<1>2. /\ DOMAIN meta' \subseteq Metas /\ groups' \subseteq Groups /\ protocols' \subseteq Protocols
      /\ kept' \subseteq Contacts /\ owner' \in [Contacts -> DOMAIN meta' \cup {Nobody}]
  BY <1>1, InvFacts
<1>3. \A m \in DOMAIN meta' : Sound(meta'[m].groups, meta'[m].temporary, groups')
  BY <1>1, InvFacts
<1>4. ListOK'
  BY <1>1, <1>2, <1>3 DEF ListOK
<1>5. MembershipAgrees'
  BY <1>1, InvFacts DEF MembershipAgrees
<1>6. ListensIsSaved'
  BY <1>1, InvFacts DEF ListensIsSaved
<1> QED BY <1>1, <1>4, <1>5, <1>6

LEMMA SaveStep ==
    ASSUME Inv, Save
    PROVE  Inv'
<1>1. /\ saveTimer /\ phase = "running" /\ phase' = "running" /\ UNCHANGED <<owner, groups, protocols>>
  BY DEF Save
<1>2. budget \in [{"ops", "failures", "ends"} -> Nat] /\ FileOK /\ saveTimer \in BOOLEAN
  BY InvParts, InvFacts
<1>3. budget' \in [{"ops", "failures", "ends"} -> Nat]
  <2>1. Spend("failures") \/ budget' = budget
    BY DEF Save
  <2> QED BY <1>2, <2>1, SpendFacts
<1>4. \/ file' = Snapshot /\ meta' = Serialized /\ saveTimer' = FALSE /\ kept' = kept \ Dropped
      \/ saveTimer' = TRUE /\ UNCHANGED <<file, meta, kept>>
      \/ saveTimer' = TRUE /\ meta' = Serialized /\ kept' = kept \ Dropped /\ file' = file
  BY DEF Save, Saves, TryAgain
<1>5. /\ meta' = Serialized \/ meta' = meta
      /\ saveTimer' \in BOOLEAN
      /\ kept' \subseteq kept
  BY <1>4
<1>6. /\ ListOK' /\ MembershipAgrees' /\ ListensIsSaved' /\ DOMAIN meta' = DOMAIN meta
      /\ \A m \in DOMAIN meta : meta'[m].temporary = meta[m].temporary
  BY <1>1, <1>5, SerializedParts
<1>7. FileOK'
  <2>1. CASE file' = file
    BY <1>2, <2>1 DEF FileOK
  <2>2. CASE file' = Snapshot
    <3>1. Saved \subseteq Metas /\ groups \subseteq Groups
      BY InvFacts DEF Saved
    <3> QED BY <2>2, <3>1, SnapshotFacts DEF FileOK
  <2> QED BY <1>4, <2>1, <2>2
<1>8. NothingForgotten'
  <2>1. CASE UNCHANGED <<meta, kept>>
    BY <1>1, <2>1, InvParts DEF NothingForgotten, Saved
  <2>2. CASE kept' = kept \ Dropped
    <3> SUFFICES ASSUME NEW d \in kept' PROVE ProtocolOf[d] \in protocols /\ owner[d] \in Saved'
      BY <1>1 DEF NothingForgotten
    <3>1. ProtocolOf[d] \in protocols /\ owner[d] \in Saved
      BY <1>1, <2>2, NotDropped
    <3> QED BY <1>6, <3>1 DEF Saved
  <2> QED BY <1>4, <2>1, <2>2
<1>9. PhaseSound'
  BY <1>1 DEF PhaseSound
<1> QED BY <1>1, <1>3, <1>6, <1>7, <1>8, <1>9, AnyStep

LEMMA ShutdownStep ==
    ASSUME Inv, Shutdown
    PROVE  Inv'
<1>1. /\ phase = "running" /\ phase' = "terminated" /\ UNCHANGED <<owner, groups, protocols>>
      /\ saveTimer' = FALSE /\ Spend("ends")
      /\ \/ file' = Snapshot /\ meta' = Serialized /\ kept' = kept \ Dropped
         \/ UNCHANGED <<file, meta>> /\ kept' = kept \cap OnFile
  BY DEF Shutdown, ShutdownSaves, Saves
<1>2. budget \in [{"ops", "failures", "ends"} -> Nat] /\ FileOK
  BY InvParts
<1>3. budget' \in [{"ops", "failures", "ends"} -> Nat]
  BY <1>1, <1>2, SpendFacts
<1>4. /\ meta' = Serialized \/ meta' = meta
      /\ saveTimer' \in BOOLEAN
      /\ kept' \subseteq kept
  BY <1>1
<1>5. ListOK' /\ MembershipAgrees' /\ ListensIsSaved'
  BY <1>1, <1>4, SerializedParts
<1>6. FileOK' /\ NothingForgotten'
  <2>1. CASE UNCHANGED <<file, meta>> /\ kept' = kept \cap OnFile
    BY <1>1, <1>2, <2>1 DEF FileOK, NothingForgotten, OnFile
  <2>2. CASE file' = Snapshot /\ kept' = kept \ Dropped
    <3>1. Saved \subseteq Metas /\ groups \subseteq Groups
      BY InvFacts DEF Saved
    <3>2. FileOK'
      BY <2>2, <3>1, SnapshotFacts DEF FileOK
    <3>3. ASSUME NEW d \in kept' PROVE d \in OnFile'
      <4>1. owner[d] \in Saved /\ d \in meta[owner[d]].contacts
        BY <1>1, <2>2, NotDropped
      <4>2. owner[d] \in DOMAIN file'.metas /\ d \in file'.metas[owner[d]].contacts
        BY <2>2, <4>1, SnapshotFacts
      <4> QED BY <4>2 DEF OnFile
    <3> QED BY <1>1, <3>2, <3>3 DEF NothingForgotten
  <2> QED BY <1>1, <2>1, <2>2
<1>7. PhaseSound'
  BY <1>1 DEF PhaseSound
<1> QED BY <1>1, <1>3, <1>5, <1>6, <1>7, AnyStep

(* The protocols are deleted and the list is saved without contacts. *)
LEMMA QuitKopeteStep ==
    ASSUME Inv, QuitKopete
    PROVE  Inv'
<1>1. /\ phase = "running" /\ phase' = "terminated" /\ groups' = groups /\ protocols' = {}
      /\ owner' = [c \in Contacts |-> Nobody]
      /\ saveTimer' = FALSE /\ Spend("ends")
      /\ kept' = kept \cap OnFile'
      /\ file' = Cleared(Snapshot) \/ file' = file
  BY DEF QuitKopete
<1>2. PICK saved \in BOOLEAN :
         meta' = [m \in DOMAIN meta |->
                    [meta[m] EXCEPT !.contacts = {},
                                    !.pluginContactData = IF saved /\ ~meta[m].temporary THEN {} ELSE @]]
  BY DEF QuitKopete
<1>3. budget' \in [{"ops", "failures", "ends"} -> Nat]
  BY <1>1, InvParts, SpendFacts
<1>4. ASSUME NEW m \in DOMAIN meta
      PROVE  /\ meta'[m] \in MetaType /\ meta'[m].contacts = {}
             /\ meta'[m].groups = meta[m].groups
             /\ meta'[m].temporary = meta[m].temporary /\ meta'[m].listens = meta[m].listens
  <2>1. meta[m] \in MetaType
    BY InvFacts
  <2> DEFINE data == IF saved /\ ~meta[m].temporary THEN {} ELSE meta[m].pluginContactData
  <2>2. meta'[m] = [meta[m] EXCEPT !.contacts = {}, !.pluginContactData = data]
    BY <1>2
  <2>3. data \in SUBSET Contacts
    BY <2>1 DEF MetaType
  <2> HIDE DEF data
  <2> QED BY <2>1, <2>2, <2>3 DEF MetaType
<1>5. DOMAIN meta' = DOMAIN meta /\ meta' \in [DOMAIN meta' -> MetaType]
  <2>1. DOMAIN meta' = DOMAIN meta /\ meta' = [m \in DOMAIN meta |-> meta'[m]]
    BY <1>2
  <2> QED BY <1>4, <2>1
<1>6. MembershipAgrees'
  BY <1>1, <1>4, <1>5, InvFacts DEF MembershipAgrees
<1>7. ListOK'
  <2>1. \A n \in DOMAIN meta' : Sound(meta'[n].groups, meta'[n].temporary, groups')
    BY <1>1, <1>4, <1>5, InvFacts
  <2>2. /\ DOMAIN meta' \subseteq Metas /\ groups' \subseteq Groups /\ protocols' \subseteq Protocols
        /\ kept' \subseteq Contacts /\ owner' \in [Contacts -> DOMAIN meta' \cup {Nobody}]
    BY <1>1, <1>5, InvFacts
  <2> QED BY <1>1, <1>5, <2>1, <2>2 DEF ListOK
<1>8. ListensIsSaved'
  BY <1>4, <1>5, InvFacts DEF ListensIsSaved
<1>9. FileOK'
  <2>1. CASE file' = file
    BY <2>1, InvParts DEF FileOK
  <2>2. CASE file' = Cleared(Snapshot)
    <3>1. /\ file'.groups = groups
          /\ DOMAIN file'.metas = Saved
          /\ \A m \in Saved : file'.metas[m] = [groups |-> meta[m].groups, contacts |-> {}]
          /\ file'.metas = [m \in Saved |-> file'.metas[m]]
      BY <2>2, SnapshotFacts DEF Cleared, Snapshot, Saved
    <3>2. \A m \in Saved : m \in Metas /\ meta[m].groups \in Seq(AllGroups)
      BY InvFacts DEF Saved, MetaType
    <3>3. ASSUME NEW m \in Saved PROVE file'.metas[m] \in EntryType
      <4> DEFINE gs == meta[m].groups
      <4>1. gs \in Seq(AllGroups) /\ {} \in SUBSET Contacts
        BY <3>2
      <4>2. file'.metas[m] = [groups |-> gs, contacts |-> {}]
        BY <3>1
      <4> HIDE DEF gs
      <4> QED BY <4>1, <4>2 DEF EntryType
    <3>4. file'.metas \in [Saved -> EntryType]
      BY <3>1, <3>3
    <3> QED BY <3>1, <3>2, <3>4, InvFacts DEF FileOK
  <2> QED BY <1>1, <2>1, <2>2
<1>10. NothingForgotten' /\ PhaseSound'
  BY <1>1 DEF NothingForgotten, PhaseSound
<1> QED BY <1>1, <1>3, <1>6, <1>7, <1>8, <1>9, <1>10, AnyStep

(* The program is gone; what must not be lost is in the file. *)
LEMMA GoneStep ==
    ASSUME Inv, Gone, kept' \subseteq kept \cap OnFile, budget' \in [{"ops", "failures", "ends"} -> Nat]
    PROVE  Inv'
<1>1. /\ phase' = "down" /\ meta' = <<>> /\ owner' = [c \in Contacts |-> Nobody]
      /\ groups' = {} /\ protocols' = {} /\ saveTimer' = FALSE /\ file' = file
  BY DEF Gone
<1>2. DOMAIN meta' = {} /\ meta' \in [DOMAIN meta' -> MetaType]
  BY <1>1
<1>3. ListOK'
  BY <1>1, <1>2, InvFacts DEF ListOK
<1>4. FileOK' /\ NothingForgotten'
  BY <1>1, InvParts DEF FileOK, NothingForgotten, OnFile
<1>5. MembershipAgrees' /\ ListensIsSaved'
  BY <1>1, <1>2 DEF MembershipAgrees, ListensIsSaved
<1>6. PhaseSound'
  BY <1>1 DEF PhaseSound
<1> QED BY <1>1, <1>3, <1>4, <1>5, <1>6, AnyStep

LEMMA EndStep ==
    ASSUME Inv, Exit \/ Crash
    PROVE  Inv'
<1>1. CASE Exit
  <2>1. phase = "terminated" /\ Gone /\ UNCHANGED <<kept, budget>>
    BY <1>1 DEF Exit
  <2>2. kept' \subseteq kept \cap OnFile
    BY <2>1, InvParts DEF NothingForgotten
  <2>3. budget' \in [{"ops", "failures", "ends"} -> Nat]
    BY <2>1, InvParts
  <2> QED BY <2>1, <2>2, <2>3, GoneStep
<1>2. CASE Crash
  <2>1. Spend("ends") /\ Gone /\ kept' = kept \cap OnFile
    BY <1>2 DEF Crash
  <2>2. budget' \in [{"ops", "failures", "ends"} -> Nat]
    BY <2>1, InvParts, SpendFacts
  <2> QED BY <2>1, <2>2, GoneStep
<1> QED BY <1>1, <1>2


-----------------------------------------------------------------------------
LEMMA ChangesInv == Inv /\ Changes => Inv'
<1> SUFFICES ASSUME Inv, Changes PROVE Inv'
  OBVIOUS
<1>1. CASE \E c \in Contacts, m \in Metas, g \in groups \cup {Top}, t \in BOOLEAN : AddContact(c, m, g, t)
  BY <1>1, AddContactStep
<1>2. CASE \E c \in Contacts, g \in groups \cup {Top} : AddTemporary(c, g)
  BY <1>2, AddTemporaryStep
<1>3. CASE \E c \in Contacts, m \in DOMAIN meta : AddContactTo(c, m)
  BY <1>3, AddContactToStep
<1>4. CASE \E c \in Contacts, m \in Metas : ChangeMetaContact(c, m)
  BY <1>4, ChangeMetaContactStep
<1>5. CASE \E src, dst \in DOMAIN meta : MergeMetaContacts(src, dst)
  BY <1>5, MergeStep
<1>6. CASE \E c \in Contacts : ContactDestroyed(c)
  BY <1>6, ContactDestroyedStep
<1>7. CASE \E m \in DOMAIN meta : RemoveMetaContact(m) \/ RegroupMeta(m)
  BY <1>7, RemoveMetaContactStep, RegroupMetaStep
<1>8. CASE \E g \in Groups : AddGroup(g) \/ RemoveGroup(g)
  BY <1>8, AddGroupStep, RemoveGroupStep
<1> QED BY <1>1, <1>2, <1>3, <1>4, <1>5, <1>6, <1>7, <1>8 DEF Changes

LEMMA NextInv == Inv /\ [Next]_vars => Inv'
<1> SUFFICES ASSUME Inv, [Next]_vars PROVE Inv'
  OBVIOUS
<1>1. CASE Changes
  BY <1>1, ChangesInv
<1>2. CASE \E p \in Protocols : LoadProtocol(p) \/ UnloadProtocol(p)
  BY <1>2, LoadProtocolStep, UnloadProtocolStep
<1>3. CASE Load \/ LoadFails \/ Save \/ Shutdown \/ QuitKopete \/ Exit \/ Crash
  BY <1>3, LoadStep, LoadFailsStep, SaveStep, ShutdownStep, QuitKopeteStep, EndStep
<1>4. CASE UNCHANGED vars
  <2>1. /\ FileOK' /\ ListOK' /\ MembershipAgrees' /\ ListensIsSaved' /\ PhaseSound'
        /\ phase' \in {"down", "running", "terminated"}
        /\ budget' \in [{"ops", "failures", "ends"} -> Nat]
    BY <1>4, InvParts DEF vars, FileOK, ListOK, MembershipAgrees, ListensIsSaved, PhaseSound
  <2>2. NothingForgotten'
    BY <1>4, InvParts DEF vars, NothingForgotten, OnFile, Saved
  <2> QED BY <2>1, <2>2, AnyStep
<1> QED BY <1>1, <1>2, <1>3, <1>4 DEF Next

(* The invariant holds in every state of the contact list. *)
THEOREM ContactListInvariance == Spec => []Inv
BY InitInv, NextInv, PTL DEF Spec

(* Every state is of its type; in particular Contact::metaContact() is     *)
(* never a metacontact that is not in the list any more.                   *)
THEOREM ContactListTypeCorrect == Spec => []TypeOK
<1>1. Inv => TypeOK
  BY DEF Inv
<1> QED BY <1>1, ContactListInvariance, PTL

(* A contact and its metacontact agree about each other after any sequence *)
(* of additions, moves, merges, removals and loading of protocols, and no  *)
(* contact outlives its protocol.                                          *)
THEOREM ContactListMembership == Spec => []MembershipAgrees
<1>1. Inv => MembershipAgrees
  BY DEF Inv
<1> QED BY <1>1, ContactListInvariance, PTL

(* A metacontact is in at least one group, in none twice, in none that was *)
(* deleted, and when it is temporary in the temporary one alone.           *)
THEOREM ContactListGroups == Spec => []GroupsSound
<1>1. Inv => GroupsSound
  BY DEF Inv
<1> QED BY <1>1, ContactListInvariance, PTL

(* A contact that nobody removed is in the list, waits there for its       *)
(* protocol, or is in the file, unless one of the losses took it that      *)
(* NothingForgotten names, File/Quit among them.                           *)
THEOREM ContactListNothingForgotten == Spec => []NothingForgotten
<1>1. Inv => NothingForgotten
  BY DEF Inv
<1> QED BY <1>1, ContactListInvariance, PTL
-----------------------------------------------------------------------------
(* The list as a store that is written back. *)

(* What would be saved depends on groups and contacts only. *)
LEMMA SnapshotSame ==
    ASSUME groups' = groups, DOMAIN meta' = DOMAIN meta,
           \A m \in DOMAIN meta : /\ meta'[m].temporary = meta[m].temporary
                                  /\ meta'[m].groups = meta[m].groups
                                  /\ meta'[m].contacts = meta[m].contacts
    PROVE  Snapshot' = Snapshot
<1>1. {x \in DOMAIN meta' : ~meta'[x].temporary} = {x \in DOMAIN meta : ~meta[x].temporary}
  OBVIOUS
<1>2. [m \in {x \in DOMAIN meta' : ~meta'[x].temporary} |->
          [groups |-> meta'[m].groups, contacts |-> meta'[m].contacts]]
        = [m \in {x \in DOMAIN meta : ~meta[x].temporary} |->
              [groups |-> meta[m].groups, contacts |-> meta[m].contacts]]
  BY <1>1
<1> QED BY <1>2 DEF Snapshot

(* A change of the list that schedules a save. *)
LEMMA SavedLater ==
    ASSUME phase = "running", phase' = "running", file' = file, saveTimer'
    PROVE  Store!Change
BY DEF Store!Change

(* Nothing of the store changes. *)
LEMMA StoreStays ==
    ASSUME UNCHANGED <<phase, file, saveTimer>>, phase = "running" => Snapshot' = Snapshot
    PROVE  UNCHANGED Store!vars
BY DEF Store!vars

(* Every step of a user or a server but the merge of an empty metacontact  *)
(* schedules a save.                                                       *)
LEMMA ChangesStore ==
    ASSUME Inv, Changes
    PROVE  Store!Change \/ UNCHANGED Store!vars
<1>1. Change
  BY DEF Changes, AddContact, AddTemporary, AddContactTo, ChangeMetaContact, MergeMetaContacts,
         ContactDestroyed, RemoveMetaContact, RegroupMeta, Regroup, AddGroup, RemoveGroup
<1>2. phase = "running" /\ phase' = "running" /\ file' = file
  BY <1>1 DEF Change
<1>3. SlotSaveLater \/ UNCHANGED <<meta, groups, saveTimer>>
  BY DEF Changes, AddContact, AddTemporary, AddContactTo, ChangeMetaContact, MergeMetaContacts,
         ContactDestroyed, RemoveMetaContact, RegroupMeta, Regroup, AddGroup, RemoveGroup
<1>4. CASE SlotSaveLater
  <2>1. saveTimer' = TRUE
    BY <1>2, <1>4 DEF SlotSaveLater
  <2> QED BY <1>2, <2>1, SavedLater
<1>5. CASE UNCHANGED <<meta, groups, saveTimer>>
  BY <1>2, <1>5, SnapshotSame, StoreStays
<1> QED BY <1>3, <1>4, <1>5, SMTT(30)

LEMMA LoadProtocolStore ==
    ASSUME Inv, NEW p \in Protocols, LoadProtocol(p)
    PROVE  Store!Change \/ UNCHANGED Store!vars
<1> DEFINE Has(m, c) == meta[m].listens /\ c \in meta[m].pluginContactData
           claimed == {c \in Of(p) : \E m \in DOMAIN meta : Has(m, c)}
<1>1. phase = "running" /\ phase' = "running" /\ file' = file /\ groups' = groups
  BY DEF LoadProtocol
<1>0. PICK made \in SUBSET claimed :
         \E first \in [made -> DOMAIN meta] :
            /\ \A c \in made : Has(first[c], c)
            /\ meta' = [m \in DOMAIN meta |-> [meta[m] EXCEPT !.contacts = @ \cup {c \in made : first[c] = m}]]
            /\ owner' = [c \in Contacts |-> IF c \in made THEN first[c] ELSE owner[c]]
            /\ kept' = kept \ (claimed \ made)
            /\ IF made # {} THEN SlotSaveLater ELSE UNCHANGED saveTimer
  BY Zenon DEF LoadProtocol
<1>2. PICK first \in [made -> DOMAIN meta] :
         /\ meta' = [m \in DOMAIN meta |-> [meta[m] EXCEPT !.contacts = @ \cup {c \in made : first[c] = m}]]
         /\ IF made # {} THEN SlotSaveLater ELSE UNCHANGED saveTimer
  BY <1>0, Zenon
<1> HIDE DEF claimed
<1>3. CASE made # {}
  <2>1. saveTimer' = TRUE
    BY <1>1, <1>2, <1>3 DEF SlotSaveLater
  <2> QED BY <1>1, <2>1, SavedLater
<1>4. CASE made = {}
  <2>1. saveTimer' = saveTimer
    BY <1>2, <1>4
  <2>2. ASSUME NEW m \in DOMAIN meta
        PROVE  /\ meta'[m].temporary = meta[m].temporary /\ meta'[m].groups = meta[m].groups
               /\ meta'[m].contacts = meta[m].contacts
    <3>1. {c \in made : first[c] = m} = {} /\ meta[m] \in MetaType
      BY <1>4, InvFacts
    <3>2. meta'[m] = [meta[m] EXCEPT !.contacts = meta[m].contacts \cup {c \in made : first[c] = m}]
      BY <1>2
    <3> QED BY <3>1, <3>2 DEF MetaType
  <2>3. DOMAIN meta' = DOMAIN meta
    BY <1>2
  <2>4. Snapshot' = Snapshot
    BY <1>1, <2>2, <2>3, SnapshotSame
  <2> QED BY <1>1, <2>1, <2>4, StoreStays
<1> QED BY <1>3, <1>4

LEMMA UnloadProtocolStore ==
    ASSUME Inv, NEW p \in Protocols, UnloadProtocol(p)
    PROVE  Store!Change \/ UNCHANGED Store!vars
<1>1. /\ phase \in {"running", "terminated"} /\ phase' = phase /\ file' = file /\ groups' = groups
      /\ meta' = [m \in DOMAIN meta |-> [meta[m] EXCEPT !.contacts = @ \ Of(p)]]
  BY DEF UnloadProtocol
<1>2. CASE phase = "terminated"
  <2>1. saveTimer = FALSE
    BY <1>2, InvParts DEF PhaseSound
  <2>2. saveTimer' = FALSE
    BY <1>2, <2>1 DEF UnloadProtocol, SlotSaveLater
  <2> QED BY <1>1, <1>2, <2>1, <2>2, StoreStays
<1>3. CASE phase = "running" /\ \E c \in Of(p) : owner[c] # Nobody
  <2>1. saveTimer' = TRUE
    BY <1>3 DEF UnloadProtocol, SlotSaveLater
  <2> QED BY <1>1, <1>3, <2>1, SavedLater
<1>4. CASE phase = "running" /\ ~\E c \in Of(p) : owner[c] # Nobody
  <2>1. saveTimer' = saveTimer
    BY <1>4 DEF UnloadProtocol
  <2>2. ASSUME NEW m \in DOMAIN meta
        PROVE  /\ meta'[m].temporary = meta[m].temporary /\ meta'[m].groups = meta[m].groups
               /\ meta'[m].contacts = meta[m].contacts
    <3>1. meta[m] \in MetaType /\ \A c \in Contacts : c \in meta[m].contacts <=> owner[c] = m
      BY InvFacts
    <3>2. meta[m].contacts \ Of(p) = meta[m].contacts
      BY <1>4, <3>1, InvFacts DEF Of
    <3>3. meta'[m] = [meta[m] EXCEPT !.contacts = meta[m].contacts \ Of(p)]
      BY <1>1
    <3> QED BY <3>1, <3>2, <3>3 DEF MetaType
  <2>3. DOMAIN meta' = DOMAIN meta
    BY <1>1
  <2>4. Snapshot' = Snapshot
    BY <1>1, <2>2, <2>3, SnapshotSame
  <2> QED BY <1>1, <2>1, <2>4, StoreStays
<1> QED BY <1>1, <1>2, <1>3, <1>4

(* What reaches the file is the list as it is at that moment. *)
LEMMA SaveStore ==
    ASSUME Inv, Save
    PROVE  Store!Next
<1>1. saveTimer /\ phase = "running" /\ phase' = "running" /\ groups' = groups
  BY DEF Save
<1>2. CASE Saves /\ saveTimer' = FALSE
  <2>1. file' = Snapshot /\ meta' = Serialized
    BY <1>2 DEF Saves
  <2>2. Snapshot' = Snapshot
    BY <1>1, <2>1, SerializedFacts, SnapshotSame
  <2>3. Store!Flush
    BY <1>1, <1>2, <2>1, <2>2 DEF Store!Flush
  <2> QED BY <2>3 DEF Store!Next
<1>3. CASE file' = file /\ saveTimer' = TRUE
  <2>1. Store!Change
    BY <1>1, <1>3, SavedLater
  <2> QED BY <2>1 DEF Store!Next
<1> QED BY <1>2, <1>3 DEF Save, TryAgain

LEMMA StoreStep ==
    Inv /\ [Next]_vars => [Store!Next]_(Store!vars)
<1> SUFFICES ASSUME Inv, [Next]_vars PROVE Store!Next \/ UNCHANGED Store!vars
  OBVIOUS
<1>1. CASE Changes
  BY <1>1, ChangesStore DEF Store!Next
<1>2. CASE \E p \in Protocols : LoadProtocol(p) \/ UnloadProtocol(p)
  BY <1>2, LoadProtocolStore, UnloadProtocolStore DEF Store!Next
<1>3. CASE Load
  <2>1. Store!Open
    BY <1>3 DEF Load, Store!Open
  <2> QED BY <2>1 DEF Store!Next
<1>4. CASE LoadFails
  <2>1. /\ phase = "down" /\ phase' = "running" /\ meta' = meta /\ groups' = groups
        /\ UNCHANGED <<saveTimer, file>>
    BY <1>4 DEF LoadFails
  <2>2. meta = <<>> /\ groups = {}
    BY <2>1, InvParts DEF PhaseSound
  <2>3. Snapshot' = [groups |-> {}, metas |-> <<>>]
    <3>1. DOMAIN meta' = {}
      BY <2>1, <2>2
    <3>2. [m \in {x \in DOMAIN meta' : ~meta'[x].temporary} |->
              [groups |-> meta'[m].groups, contacts |-> meta'[m].contacts]] = <<>>
      BY <3>1
    <3> QED BY <2>1, <2>2, <3>2 DEF Snapshot
  <2>4. Store!OpenFails
    BY <2>1, <2>3 DEF Store!OpenFails
  <2> QED BY <2>4 DEF Store!Next
<1>5. CASE Save
  BY <1>5, SaveStore
<1>6. CASE Shutdown \/ Crash
  <2>1. Store!Close
    BY <1>6 DEF Shutdown, ShutdownSaves, Saves, Crash, Gone, Store!Close
  <2> QED BY <2>1 DEF Store!Next
<1>7. CASE QuitKopete
  <2>1. Store!CloseCleared
    BY <1>7 DEF QuitKopete, Store!CloseCleared
  <2> QED BY <2>1 DEF Store!Next
<1>8. CASE Exit
  <2>1. phase = "terminated" /\ phase' = "down" /\ saveTimer' = FALSE /\ file' = file
    BY <1>8 DEF Exit, Gone
  <2>2. saveTimer = FALSE
    BY <2>1, InvParts DEF PhaseSound
  <2> QED BY <2>1, <2>2 DEF Store!vars
<1>9. CASE UNCHANGED vars
  <2>1. UNCHANGED <<phase, file, saveTimer, meta, groups>>
    BY <1>9 DEF vars
  <2>2. Snapshot' = Snapshot
    BY <2>1 DEF Snapshot
  <2> QED BY <2>1, <2>2, StoreStays
<1> QED BY <1>1, <1>2, <1>3, <1>4, <1>5, <1>6, <1>7, <1>8, <1>9 DEF Next

(* The list and its file are a store that is written back: what reaches    *)
(* the file is the whole list as it is at that moment, every change        *)
(* schedules a save, and nothing is written after shutdown(); only         *)
(* quitKopete() writes the list without its contacts.  (That a scheduled   *)
(* save comes, ListStore's Progress, is left to TLC.)                      *)
THEOREM RefinesListStore == Spec => Store!Init /\ [][Store!Next]_(Store!vars)
<1>1. Init => Store!Init
  BY DEF Init, Store!Init
<1> QED
  BY <1>1, StoreStep, ContactListInvariance, PTL DEF Spec
=============================================================================
