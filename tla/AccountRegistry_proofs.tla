----------------------- MODULE AccountRegistry_proofs -----------------------
(***************************************************************************)
(* Proofs about AccountRegistry: the types, that the protocol outlives its *)
(* accounts, and that a deleted account is used only where the comment on  *)
(* UsesLiveAccounts says so.                                               *)
(*                                                                         *)
(* The heart of it is the order of two queues, the calls that are posted   *)
(* and the accounts to be removed, which is the subject of InOrder.        *)
(***************************************************************************)
EXTENDS AccountRegistry, FiniteSetTheorems, FunctionTheorems, SequenceTheorems, WellFoundedInduction, TLAPS

(* Every nonempty set of natural numbers has a least element. *)
LEMMA LeastOf ==
    ASSUME NEW T \in SUBSET Nat, T # {}
    PROVE  \E x \in T : \A y \in T : x <= y
<1>1. PICK x \in T : \A y \in T : ~(<<y, x>> \in OpToRel(<, Nat))
  BY WFMin, NatLessThanWellFounded
<1>2. \A y \in T : y < x => <<y, x>> \in OpToRel(<, Nat)
  BY DEF OpToRel
<1>3. \A y \in T : ~(y < x)
  BY <1>1, <1>2, Zenon
<1> QED BY <1>3

(* Induction over the prefixes of a list of length n: G is the set of the  *)
(* lengths for which a claim holds.                                        *)
LEMMA PrefixInduction ==
    ASSUME NEW n \in Nat, NEW G, 0 \in G, \A i \in 1..n : i - 1 \in G => i \in G
    PROVE  \A i \in 0..n : i \in G
<1> SUFFICES ASSUME NEW k \in 0..n, k \notin G PROVE FALSE
  OBVIOUS
<1> DEFINE B == (0..n) \ G
<1>1. B \in SUBSET Nat /\ B # {}
  OBVIOUS
<1>2. PICK x \in B : \A y \in B : x <= y
  BY <1>1, LeastOf
<1>3. x \in 1..n /\ x - 1 \in 0..n
  BY <1>2
<1>4. x - 1 \in G
  BY <1>2, <1>3
<1> QED BY <1>2, <1>3, <1>4

(* Each(f, r, s) is what is left after the last of its rounds. *)
LEMMA EachIs ==
    ASSUME NEW f, NEW r, NEW T, NEW s \in Seq(T)
    PROVE  \E F : /\ F[0] = r /\ \A i \in 1..Len(s) : F[i] = f[s[i]][F[i - 1]]
                  /\ Each(f, r, s) = F[Len(s)]
<1> DEFINE Step(i, x) == IF i = 0 THEN r ELSE f[s[i]][x]
           Fits(g, n) == g = [i \in 0..n |-> Step(i, g[i - 1])]
           G == {n \in Nat : \E g : Fits(g, n)}
<1>0. Len(s) \in Nat
  BY LenProperties
<1>1. 0 \in G
  <2> DEFINE g == [i \in 0..0 |-> r]
  <2>1. Fits(g, 0)
    OBVIOUS
  <2> QED BY <2>1
<1>2. ASSUME NEW n \in 1..Len(s), n - 1 \in G PROVE n \in G
  <2>1. PICK g : Fits(g, n - 1)
    BY <1>2
  <2> DEFINE h == [i \in 0..n |-> IF i = n THEN Step(n, g[n - 1]) ELSE g[i]]
  <2>2. n \in Nat /\ n - 1 \in 0..(n - 1) /\ n # 0
    BY <1>0
  <2> HIDE DEF Step
  <2>3. ASSUME NEW i \in 0..n PROVE h[i] = Step(i, h[i - 1])
    <3>1. CASE i = n
      BY <2>2, <3>1
    <3>2. CASE i # n
      <4>1. i \in 0..(n - 1)
        BY <2>2, <3>2
      <4>2. g[i] = Step(i, g[i - 1])
        BY <2>1, <4>1
      <4>3. CASE i = 0
        BY <2>2, <3>2, <4>2, <4>3 DEF Step
      <4>4. CASE i # 0
        <5>1. i - 1 \in 0..n /\ i - 1 # n
          BY <2>2, <4>1, <4>4
        <5> QED BY <3>2, <4>2, <5>1
      <4> QED BY <4>3, <4>4
    <3> QED BY <3>1, <3>2
  <2>4. Fits(h, n)
    BY <2>3
  <2> QED BY <2>2, <2>4
<1>3. Len(s) \in G
  <2> HIDE DEF G
  <2>1. \A i \in 0..Len(s) : i \in G
    BY <1>0, <1>1, <1>2, PrefixInduction
  <2> QED BY <1>0, <2>1
<1> DEFINE F == CHOOSE g : g = [i \in 0..Len(s) |-> IF i = 0 THEN r ELSE f[s[i]][g[i - 1]]]
<1>4. \E g : g = [i \in 0..Len(s) |-> IF i = 0 THEN r ELSE f[s[i]][g[i - 1]]]
  BY <1>3
<1>5. F = [i \in 0..Len(s) |-> IF i = 0 THEN r ELSE f[s[i]][F[i - 1]]]
  BY <1>4
<1>6. Each(f, r, s) = F[Len(s)]
  BY DEF Each
<1> HIDE DEF F, G
<1>7. 0 \in 0..Len(s) /\ \A i \in 1..Len(s) : i \in 0..Len(s) /\ i # 0
  BY <1>0
<1>8. F[0] = r /\ \A i \in 1..Len(s) : F[i] = f[s[i]][F[i - 1]]
  BY <1>5, <1>7
<1> QED BY <1>6, <1>8

(* What every round preserves holds of Each(f, r, s) if it holds of r. *)
LEMMA EachKeeps ==
    ASSUME NEW f, NEW I, NEW T, NEW r \in I, NEW s \in Seq(T),
           \A x \in I, a \in T : f[a][x] \in I
    PROVE  Each(f, r, s) \in I
<1>0. Len(s) \in Nat /\ \A i \in 1..Len(s) : s[i] \in T
  BY LenProperties, ElementOfSeq
<1>1. PICK F : /\ F[0] = r /\ \A i \in 1..Len(s) : F[i] = f[s[i]][F[i - 1]]
               /\ Each(f, r, s) = F[Len(s)]
  BY EachIs
<1> DEFINE H == {n \in Nat : F[n] \in I}
<1>2. 0 \in H
  BY <1>1
<1>3. ASSUME NEW n \in 1..Len(s), n - 1 \in H PROVE n \in H
  <2>1. F[n - 1] \in I /\ n \in Nat
    BY <1>0, <1>3
  <2> QED BY <1>0, <1>1, <2>1
<1>4. \A i \in 0..Len(s) : i \in H
  <2> HIDE DEF H
  <2> QED BY <1>0, <1>2, <1>3, PrefixInduction
<1> QED BY <1>0, <1>1, <1>4

(* What the k-th round brings about and the others preserve holds of       *)
(* Each(f, r, s).                                                          *)
LEMMA EachReaches ==
    ASSUME NEW f, NEW I, NEW T, NEW r \in I, NEW s \in Seq(T),
           \A x \in I, a \in T : f[a][x] \in I,
           NEW J, \A x \in I \cap J, a \in T : f[a][x] \in J,
           NEW k \in 1..Len(s), \A x \in I : f[s[k]][x] \in J
    PROVE  Each(f, r, s) \in J
<1>0. Len(s) \in Nat /\ \A i \in 1..Len(s) : s[i] \in T
  BY LenProperties, ElementOfSeq
<1>1. PICK F : /\ F[0] = r /\ \A i \in 1..Len(s) : F[i] = f[s[i]][F[i - 1]]
               /\ Each(f, r, s) = F[Len(s)]
  BY EachIs
<1> DEFINE H == {n \in Nat : F[n] \in I /\ (n >= k => F[n] \in J)}
<1>2. 0 \in H
  BY <1>0, <1>1
<1>3. ASSUME NEW n \in 1..Len(s), n - 1 \in H PROVE n \in H
  <2>1. F[n - 1] \in I /\ n \in Nat /\ (n - 1 >= k => F[n - 1] \in J) /\ s[n] \in T
    BY <1>0, <1>3
  <2>2. F[n] = f[s[n]][F[n - 1]] /\ F[n] \in I
    BY <1>1, <2>1
  <2>3. CASE n = k
    BY <2>1, <2>2, <2>3
  <2>4. CASE n > k
    <3>1. n - 1 >= k
      BY <1>0, <2>4
    <3> QED BY <2>1, <2>2, <3>1
  <2>5. CASE n < k
    BY <1>0, <2>1, <2>2, <2>5
  <2> QED BY <1>0, <2>3, <2>4, <2>5
<1>4. \A i \in 0..Len(s) : i \in H
  <2> HIDE DEF H
  <2> QED BY <1>0, <1>2, <1>3, PrefixInduction
<1>5. Len(s) \in 0..Len(s) /\ Len(s) >= k
  BY <1>0
<1> QED BY <1>1, <1>4, <1>5
-----------------------------------------------------------------------------
(* The calls that are posted are told apart. *)
LEMMA EventFacts ==
    /\ Internal \in Events /\ Unload \in Events /\ Internal # Unload
    /\ \A a : Deletion(a) # Internal /\ Deletion(a) # Unload /\ Deletion(a).arg = a
    /\ \A a, b : Deletion(a) = Deletion(b) => a = b
    /\ \A a \in Accounts \cup {Nobody} : Deletion(a) \in Events
    /\ \A e \in Events : e.call = "delete" =>
          e = Deletion(e.arg) /\ e.arg \in Accounts \cup {Nobody}
    /\ \A e \in Events : e = Internal \/ e = Unload
          \/ \E a \in Accounts \cup {Nobody} : e = Deletion(a)
<1>1. Internal \in Events /\ Unload \in Events /\ \A a \in Accounts \cup {Nobody} : Deletion(a) \in Events
  BY DEF Events
<1>2. /\ Internal.call = "removeAccountInternal" /\ Unload.call = "deleteProtocol"
      /\ \A a : Deletion(a).call = "delete" /\ Deletion(a).arg = a
  BY DEF Internal, Unload, Deletion
<1>3. Internal # Unload /\ \A a : Deletion(a) # Internal /\ Deletion(a) # Unload
  BY <1>2
<1>4. \A a, b : Deletion(a) = Deletion(b) => a = b
  BY <1>2
<1>5. \A e \in Events : e = Internal \/ e = Unload
         \/ \E a \in Accounts \cup {Nobody} : e = Deletion(a)
  BY DEF Events
<1>6. \A e \in Events : e.call = "delete" =>
         e = Deletion(e.arg) /\ e.arg \in Accounts \cup {Nobody}
  <2> SUFFICES ASSUME NEW e \in Events, e.call = "delete"
               PROVE  e = Deletion(e.arg) /\ e.arg \in Accounts \cup {Nobody}
    OBVIOUS
  <2>1. e # Internal /\ e # Unload
    BY <1>2
  <2>2. PICK a \in Accounts \cup {Nobody} : e = Deletion(a)
    BY <1>5, <2>1
  <2> QED BY <1>2, <2>2
<1> QED BY <1>1, <1>2, <1>3, <1>4, <1>5, <1>6

(* The calls of removeAccountInternal() in the posted calls P, which f     *)
(* numbers, are as many as the accounts to be removed.                     *)
Matches(f, P, Q) ==
    /\ \A k \in 1..Len(Q) : P[f[k]] = Internal
    /\ \A i, k \in 1..Len(Q) : i < k => f[i] < f[k]
    /\ \A p \in 1..Len(P) : P[p] = Internal => \E k \in 1..Len(Q) : f[k] = p

(* Until the k-th account is removed nothing deletes it: neither the       *)
(* removal of another one nor a deletion that is posted before.            *)
Spared(f, P, Q, A) ==
    \A k \in 1..Len(Q) :
        /\ Q[k] \in A
        /\ \A i \in 1..Len(Q) : i < k => Q[i] \notin Owners(Q[k])
        /\ \A p \in 1..Len(P) : p < f[k] => \A b \in Owners(Q[k]) : P[p] # Deletion(b)

(* The order of the two queues, where nothing was done in haste. *)
InOrder(P, Q, A, hasty) ==
    \E f \in [1..Len(Q) -> 1..Len(P)] : Matches(f, P, Q) /\ (~hasty => Spared(f, P, Q, A))

LEMMA EmptyInOrder ==
    ASSUME NEW A, NEW h PROVE InOrder(<<>>, <<>>, A, h)
<1> DEFINE f == [i \in 1..0 |-> 0]
<1>1. Len(<<>>) = 0 /\ 1..0 = {}
  OBVIOUS
<1>2. f \in [1..Len(<<>>) -> 1..Len(<<>>)]
  BY <1>1
<1>3. Matches(f, <<>>, <<>>) /\ Spared(f, <<>>, <<>>, A)
  BY <1>1 DEF Matches, Spared
<1> HIDE DEF f
<1> QED BY <1>2, <1>3 DEF InOrder

(* An account that joins the removal queue. *)
LEMMA QueueInOrder ==
    ASSUME NEW P \in Seq(Events), NEW Q \in Seq(Accounts), NEW A, NEW h \in BOOLEAN,
           NEW g \in BOOLEAN, NEW a \in Accounts, a \in A, InOrder(P, Q, A, h), h => g,
           ~g => \A b \in Owners(a) : b \notin ToSet(Q) /\ Deletion(b) \notin ToSet(P)
    PROVE  InOrder(Append(P, Internal), Append(Q, a), A, g)
<1> DEFINE P2 == Append(P, Internal)
           Q2 == Append(Q, a)
           m == Len(P)
           n == Len(Q)
<1>1. /\ m \in Nat /\ n \in Nat /\ Len(P2) = m + 1 /\ Len(Q2) = n + 1
      /\ \A p \in 1..m : P2[p] = P[p]
      /\ P2[m + 1] = Internal
      /\ \A k \in 1..n : Q2[k] = Q[k]
      /\ Q2[n + 1] = a
  BY AppendProperties, LenProperties, EventFacts
<1>2. /\ \A p \in 1..m : P[p] \in ToSet(P)
      /\ \A k \in 1..n : Q[k] \in ToSet(Q)
  BY <1>1 DEF ToSet
<1>3. PICK f \in [1..n -> 1..m] : Matches(f, P, Q) /\ (~h => Spared(f, P, Q, A))
  BY DEF InOrder
<1> DEFINE f2 == [k \in 1..(n + 1) |-> IF k = n + 1 THEN m + 1 ELSE f[k]]
<1>4. /\ f2 \in [1..Len(Q2) -> 1..Len(P2)]
      /\ f2[n + 1] = m + 1
      /\ \A k \in 1..n : f2[k] = f[k] /\ f[k] \in 1..m
  <2>1. /\ n + 1 \in 1..(n + 1) /\ m + 1 \in 1..(m + 1)
        /\ \A k \in 1..n : k \in 1..(n + 1) /\ k # n + 1 /\ f[k] \in 1..m
        /\ \A k \in 1..(n + 1) : k # n + 1 => k \in 1..n
        /\ \A p \in 1..m : p \in 1..(m + 1)
    BY <1>1
  <2> QED BY <1>1, <2>1
<1>5. /\ \A k \in 1..(n + 1) : k \in 1..n \/ k = n + 1
      /\ \A p \in 1..(m + 1) : p \in 1..m \/ p = m + 1
      /\ \A k \in 1..n : k \in 1..(n + 1)
      /\ n + 1 \in 1..(n + 1)
  BY <1>1
<1> HIDE DEF P2, Q2, m, n, f2
<1>6. Matches(f2, P2, Q2)
  <2>1. ASSUME NEW k \in 1..Len(Q2) PROVE P2[f2[k]] = Internal
    <3>1. CASE k = n + 1
      BY <1>1, <1>4, <3>1
    <3>2. CASE k \in 1..n
      <4>1. P[f[k]] = Internal /\ f[k] \in 1..m
        BY <1>3, <1>4, <3>2 DEF Matches, n
      <4> QED BY <1>1, <1>4, <3>2, <4>1
    <3> QED BY <1>1, <1>5, <3>1, <3>2
  <2>2. ASSUME NEW i \in 1..Len(Q2), NEW k \in 1..Len(Q2), i < k PROVE f2[i] < f2[k]
    <3>1. i \in 1..n /\ f2[i] = f[i] /\ f[i] \in 1..m
      BY <1>1, <1>4, <1>5, <2>2
    <3>2. CASE k = n + 1
      BY <1>1, <1>4, <3>1, <3>2
    <3>3. CASE k \in 1..n
      <4>1. f[i] < f[k]
        BY <1>3, <2>2, <3>1, <3>3 DEF Matches, n
      <4> QED BY <1>4, <3>1, <3>3, <4>1
    <3> QED BY <1>1, <1>5, <3>2, <3>3
  <2>3. ASSUME NEW p \in 1..Len(P2), P2[p] = Internal
        PROVE  \E k \in 1..Len(Q2) : f2[k] = p
    <3>1. CASE p = m + 1
      BY <1>1, <1>4, <1>5, <3>1
    <3>2. CASE p \in 1..m
      <4>1. PICK k \in 1..n : f[k] = p
        BY <1>1, <1>3, <2>3, <3>2 DEF Matches, m, n
      <4> QED BY <1>1, <1>4, <1>5, <4>1
    <3> QED BY <1>1, <1>5, <3>1, <3>2
  <2> QED BY <2>1, <2>2, <2>3 DEF Matches
<1>7. ASSUME ~g PROVE Spared(f2, P2, Q2, A)
  <2>0. Spared(f, P, Q, A)
    BY <1>3, <1>7
  <2>1. ASSUME NEW k \in 1..Len(Q2)
        PROVE  /\ Q2[k] \in A
               /\ \A i \in 1..Len(Q2) : i < k => Q2[i] \notin Owners(Q2[k])
               /\ \A p \in 1..Len(P2) : p < f2[k] => \A b \in Owners(Q2[k]) : P2[p] # Deletion(b)
    <3>1. CASE k = n + 1
      <4>1. Q2[k] = a /\ f2[k] = m + 1
        BY <1>1, <1>4, <3>1
      <4>2. \A i \in 1..Len(Q2) : i < k => Q2[i] \in ToSet(Q)
        <5> SUFFICES ASSUME NEW i \in 1..Len(Q2), i < k PROVE Q2[i] \in ToSet(Q)
          OBVIOUS
        <5>1. i \in 1..n
          BY <1>1, <3>1
        <5> QED BY <1>1, <1>2, <5>1
      <4>3. \A p \in 1..(m + 1) : p < m + 1 => p \in 1..m
        BY <1>1
      <4>4. \A p \in 1..Len(P2) : p < f2[k] => P2[p] \in ToSet(P)
        BY <1>1, <1>2, <4>1, <4>3
      <4> QED BY <1>7, <4>1, <4>2, <4>4
    <3>2. CASE k \in 1..n
      <4>1. Q2[k] = Q[k] /\ f2[k] = f[k] /\ f[k] \in 1..m
        BY <1>1, <1>4, <3>2
      <4>2. \A i \in 1..Len(Q2) : i < k => i \in 1..n /\ Q2[i] = Q[i]
        BY <1>1, <1>5, <3>2
      <4>3. \A p \in 1..Len(P2) : p < f2[k] => p \in 1..m /\ P2[p] = P[p]
        BY <1>1, <1>5, <4>1
      <4>4. /\ Q[k] \in A
            /\ \A i \in 1..n : i < k => Q[i] \notin Owners(Q[k])
            /\ \A p \in 1..m : p < f[k] => \A b \in Owners(Q[k]) : P[p] # Deletion(b)
        BY <2>0, <3>2 DEF Spared, m, n
      <4> QED BY <4>1, <4>2, <4>3, <4>4
    <3> QED BY <1>1, <1>5, <3>1, <3>2
  <2> QED BY <2>1 DEF Spared
<1>8. InOrder(P2, Q2, A, g)
  BY <1>4, <1>6, <1>7 DEF InOrder
<1> QED BY <1>8 DEF P2, Q2

(* Another call that is posted: it comes after every account that waits    *)
(* for its removal.                                                        *)
LEMMA PostInOrder ==
    ASSUME NEW P \in Seq(Events), NEW Q \in Seq(Accounts), NEW A, NEW h \in BOOLEAN,
           NEW c \in Events, c # Internal, InOrder(P, Q, A, h)
    PROVE  InOrder(Append(P, c), Q, A, h)
<1> DEFINE P2 == Append(P, c)
           m == Len(P)
<1>1. /\ m \in Nat /\ Len(P2) = m + 1
      /\ \A p \in 1..m : P2[p] = P[p]
      /\ P2[m + 1] = c
  BY AppendProperties, LenProperties
<1>2. PICK f \in [1..Len(Q) -> 1..m] : Matches(f, P, Q) /\ (~h => Spared(f, P, Q, A))
  BY DEF InOrder
<1>3. /\ \A p \in 1..(m + 1) : p \in 1..m \/ p = m + 1
      /\ \A p \in 1..m : p \in 1..(m + 1) /\ p < m + 1
  BY <1>1
<1> HIDE DEF P2, m
<1>4. f \in [1..Len(Q) -> 1..Len(P2)] /\ \A k \in 1..Len(Q) : f[k] \in 1..m
  BY <1>1, <1>3
<1>5. Matches(f, P2, Q)
  <2>1. \A k \in 1..Len(Q) : P2[f[k]] = Internal
    BY <1>1, <1>2, <1>4 DEF Matches
  <2>2. \A p \in 1..Len(P2) : P2[p] = Internal => p \in 1..m /\ P[p] = Internal
    BY <1>1, <1>3
  <2> QED BY <1>2, <2>1, <2>2 DEF Matches, m
<1>6. ASSUME ~h PROVE Spared(f, P2, Q, A)
  <2>1. Spared(f, P, Q, A)
    BY <1>2, <1>6
  <2>2. ASSUME NEW k \in 1..Len(Q), NEW p \in 1..Len(P2), p < f[k]
        PROVE  p \in 1..m /\ P2[p] = P[p]
    <3>1. f[k] \in 1..m
      BY <1>4
    <3>2. p # m + 1
      BY <1>1, <2>2, <3>1
    <3> QED BY <1>1, <1>3, <3>2
  <2> QED BY <2>1, <2>2 DEF Spared, m
<1>7. InOrder(P2, Q, A, h)
  BY <1>2, <1>4, <1>5, <1>6 DEF InOrder
<1> QED BY <1>7 DEF P2

(* More accounts, or more haste. *)
LEMMA GrowInOrder ==
    ASSUME NEW P, NEW Q, NEW A, NEW B, NEW h \in BOOLEAN, NEW g \in BOOLEAN,
           A \subseteq B, h => g, InOrder(P, Q, A, h)
    PROVE  InOrder(P, Q, B, g)
<1>1. PICK f \in [1..Len(Q) -> 1..Len(P)] : Matches(f, P, Q) /\ (~h => Spared(f, P, Q, A))
  BY DEF InOrder
<1>2. ~g => Spared(f, P, Q, B)
  BY <1>1 DEF Spared
<1> QED BY <1>1, <1>2 DEF InOrder

(* What is the case when removeAccountInternal() is called: there is an    *)
(* account to remove; it exists, and its removal deletes none of those     *)
(* that follow.                                                            *)
LEMMA InternalInOrder ==
    ASSUME NEW P \in Seq(Events), NEW Q \in Seq(Accounts), NEW A, NEW h \in BOOLEAN,
           P # <<>>, Head(P) = Internal, InOrder(P, Q, A, h)
    PROVE  /\ Q # <<>> /\ InOrder(Tail(P), Tail(Q), A, h)
           /\ ~h => Head(Q) \in A /\ \A k \in 1..Len(Tail(Q)) : Head(Q) \notin Owners(Tail(Q)[k])
<1> DEFINE P2 == Tail(P)
           Q2 == Tail(Q)
           m == Len(P)
           n == Len(Q)
<1>1. /\ m \in Nat /\ n \in Nat /\ m >= 1 /\ P[1] = Internal
      /\ P2 \in Seq(Events) /\ Len(P2) = m - 1
      /\ \A p \in 1..(m - 1) : P2[p] = P[p + 1]
  BY HeadTailProperties, LenProperties, EmptySeq
<1>2. PICK f \in [1..n -> 1..m] : Matches(f, P, Q) /\ (~h => Spared(f, P, Q, A))
  BY DEF InOrder
<1>3. PICK k1 \in 1..n : f[k1] = 1
  BY <1>1, <1>2 DEF Matches
<1>4. n >= 1 /\ Q # <<>>
  BY <1>1, <1>3, EmptySeq
<1>5. /\ Len(Q2) = n - 1 /\ Head(Q) = Q[1]
      /\ \A k \in 1..(n - 1) : Q2[k] = Q[k + 1]
  BY <1>1, <1>4, HeadTailProperties
<1>6. /\ \A k \in 1..n : f[k] \in 1..m
      /\ \A k \in 1..(n - 1) : k + 1 \in 1..n /\ k + 1 # 1 /\ 1 < k + 1
      /\ 1 \in 1..n
  <2>1. \A k \in 1..n : f[k] \in 1..m
    OBVIOUS
  <2>2. n \in Nat /\ n >= 1
    BY <1>1, <1>4
  <2> HIDE DEF n
  <2>3. \A k \in 1..(n - 1) : k + 1 \in 1..n /\ k + 1 # 1 /\ 1 < k + 1
    BY <2>2
  <2>4. 1 \in 1..n
    BY <2>2
  <2> QED BY <2>1, <2>3, <2>4
<1> HIDE DEF P2, Q2, m, n
<1>7. k1 = 1
  <2>1. CASE k1 # 1
    <3>1. 1 < k1
      BY <1>1, <2>1
    <3>2. f[1] < f[k1]
      BY <1>2, <1>6, <3>1 DEF Matches, n
    <3> QED BY <1>1, <1>3, <1>6, <3>2
  <2> QED BY <2>1
<1>8. \A k \in 1..(n - 1) : f[k + 1] \in 2..m
  <2> SUFFICES ASSUME NEW k \in 1..(n - 1) PROVE f[k + 1] \in 2..m
    OBVIOUS
  <2>1. f[1] < f[k + 1]
    BY <1>2, <1>6 DEF Matches, n
  <2> QED BY <1>1, <1>3, <1>6, <1>7, <2>1
<1> DEFINE f2 == [k \in 1..(n - 1) |-> f[k + 1] - 1]
<1>13. /\ \A x \in 2..m : x - 1 \in 1..(m - 1) /\ (x - 1) + 1 = x
       /\ \A x, y \in 2..m : x < y => x - 1 < y - 1
       /\ \A x, y \in 1..(m - 1) : x < y => x + 1 < y + 1 /\ x + 1 \in 1..m
       /\ \A x, y \in 1..(n - 1) : x < y => x + 1 < y + 1
  BY <1>1
<1>9. /\ f2 \in [1..Len(Q2) -> 1..Len(P2)]
      /\ \A k \in 1..(n - 1) : f2[k] = f[k + 1] - 1 /\ f2[k] \in 1..(m - 1) /\ f2[k] + 1 = f[k + 1]
  BY <1>1, <1>5, <1>8, <1>13
<1> HIDE DEF f2
<1>10. Matches(f2, P2, Q2)
  <2>1. ASSUME NEW k \in 1..Len(Q2) PROVE P2[f2[k]] = Internal
    <3>1. P2[f2[k]] = P[f[k + 1]]
      BY <1>1, <1>5, <1>9
    <3> QED BY <1>2, <1>5, <1>6, <3>1 DEF Matches, n
  <2>2. ASSUME NEW i \in 1..Len(Q2), NEW k \in 1..Len(Q2), i < k PROVE f2[i] < f2[k]
    <3>1. i + 1 \in 1..n /\ k + 1 \in 1..n /\ i + 1 < k + 1
      BY <1>5, <1>6, <2>2, <1>1
    <3>2. f[i + 1] < f[k + 1]
      BY <1>2, <3>1 DEF Matches, n
    <3>3. f2[i] = f[i + 1] - 1 /\ f2[k] = f[k + 1] - 1 /\ f[i + 1] \in 2..m /\ f[k + 1] \in 2..m
      BY <1>5, <1>8, <1>9
    <3> QED BY <1>13, <3>2, <3>3
  <2>3. ASSUME NEW p \in 1..Len(P2), P2[p] = Internal
        PROVE  \E k \in 1..Len(Q2) : f2[k] = p
    <3>1. p \in 1..(m - 1) /\ p + 1 \in 1..m /\ p + 1 # 1 /\ P[p + 1] = Internal
      BY <1>1, <2>3
    <3>2. PICK k \in 1..n : f[k] = p + 1
      BY <1>2, <3>1 DEF Matches, m, n
    <3>3. k # 1
      BY <1>3, <1>7, <3>1, <3>2
    <3>4. k - 1 \in 1..(n - 1) /\ (k - 1) + 1 = k
      BY <1>1, <3>3
    <3>5. f2[k - 1] = p
      BY <1>9, <3>1, <3>2, <3>4
    <3> QED BY <1>5, <3>4, <3>5
  <2> QED BY <2>1, <2>2, <2>3 DEF Matches
<1>11. ASSUME ~h PROVE /\ Spared(f2, P2, Q2, A)
                       /\ Head(Q) \in A /\ \A k \in 1..Len(Q2) : Head(Q) \notin Owners(Q2[k])
  <2>0. Spared(f, P, Q, A)
    BY <1>2, <1>11
  <2>1. \A k \in 1..n :
          /\ Q[k] \in A
          /\ \A i \in 1..n : i < k => Q[i] \notin Owners(Q[k])
          /\ \A p \in 1..m : p < f[k] => \A b \in Owners(Q[k]) : P[p] # Deletion(b)
    BY <2>0 DEF Spared, m, n
  <2>2. ASSUME NEW k \in 1..Len(Q2)
        PROVE  /\ Q2[k] \in A
               /\ \A i \in 1..Len(Q2) : i < k => Q2[i] \notin Owners(Q2[k])
               /\ \A p \in 1..Len(P2) : p < f2[k] => \A b \in Owners(Q2[k]) : P2[p] # Deletion(b)
    <3>0. k \in 1..(n - 1)
      BY <1>5
    <3>1. k + 1 \in 1..n /\ Q2[k] = Q[k + 1] /\ f2[k] + 1 = f[k + 1] /\ f2[k] \in 1..(m - 1)
      BY <1>5, <1>6, <1>9, <3>0
    <3>2. \A i \in 1..Len(Q2) : i < k => i + 1 \in 1..n /\ i + 1 < k + 1 /\ Q2[i] = Q[i + 1]
      BY <1>5, <1>6, <1>13
    <3>3. ASSUME NEW p \in 1..Len(P2), p < f2[k]
          PROVE  p + 1 \in 1..m /\ p + 1 < f[k + 1] /\ P2[p] = P[p + 1]
      <4>1. p \in 1..(m - 1)
        BY <1>1
      <4> QED BY <1>1, <1>13, <3>1, <3>3, <4>1
    <3>4. Q2[k] \in A /\ \A i \in 1..Len(Q2) : i < k => Q2[i] \notin Owners(Q2[k])
      BY <2>1, <3>1, <3>2
    <3>5. \A p \in 1..Len(P2) : p < f2[k] => \A b \in Owners(Q2[k]) : P2[p] # Deletion(b)
      BY <2>1, <3>1, <3>3
    <3> QED BY <3>4, <3>5
  <2>3. \A k \in 1..Len(Q2) : Head(Q) \notin Owners(Q2[k])
    <3> SUFFICES ASSUME NEW k \in 1..Len(Q2) PROVE Head(Q) \notin Owners(Q2[k])
      OBVIOUS
    <3>1. k + 1 \in 1..n /\ 1 < k + 1 /\ Q2[k] = Q[k + 1]
      BY <1>5, <1>6
    <3> QED BY <1>5, <1>6, <2>1, <3>1
  <2> QED BY <1>5, <1>6, <2>1, <2>2, <2>3 DEF Spared
<1>12. InOrder(P2, Q2, A, h)
  BY <1>9, <1>10, <1>11 DEF InOrder
<1> QED BY <1>4, <1>11, <1>12 DEF P2, Q2

(* Any other call leaves the queue alone, and a deletion deletes no        *)
(* account that waits for its removal.                                     *)
LEMMA OtherInOrder ==
    ASSUME NEW P \in Seq(Events), NEW Q \in Seq(Accounts), NEW A, NEW h \in BOOLEAN,
           P # <<>>, Head(P) # Internal, InOrder(P, Q, A, h)
    PROVE  /\ InOrder(Tail(P), Q, A, h)
           /\ \A b : ~h /\ Head(P) = Deletion(b) => \A k \in 1..Len(Q) : b \notin Owners(Q[k])
<1> DEFINE P2 == Tail(P)
           m == Len(P)
           n == Len(Q)
<1>1. /\ m \in Nat /\ n \in Nat /\ m >= 1 /\ P[1] = Head(P)
      /\ P2 \in Seq(Events) /\ Len(P2) = m - 1
      /\ \A p \in 1..(m - 1) : P2[p] = P[p + 1]
  BY HeadTailProperties, LenProperties, EmptySeq
<1>2. PICK f \in [1..n -> 1..m] : Matches(f, P, Q) /\ (~h => Spared(f, P, Q, A))
  BY DEF InOrder
<1>3. \A k \in 1..n : f[k] \in 2..m
  <2> SUFFICES ASSUME NEW k \in 1..n PROVE f[k] \in 2..m
    OBVIOUS
  <2>1. P[f[k]] = Internal /\ f[k] \in 1..m
    BY <1>2 DEF Matches
  <2>2. f[k] # 1
    BY <1>1, <2>1
  <2> QED BY <1>1, <2>1, <2>2
<1> HIDE DEF P2, m, n
<1> DEFINE f2 == [k \in 1..n |-> f[k] - 1]
<1>8. \A x \in 2..m : x - 1 \in 1..(m - 1) /\ (x - 1) + 1 = x
  BY <1>1
<1>4. /\ f2 \in [1..n -> 1..Len(P2)]
      /\ \A k \in 1..n : f2[k] = f[k] - 1 /\ f2[k] \in 1..(m - 1) /\ f2[k] + 1 = f[k]
  BY <1>1, <1>3, <1>8
<1> HIDE DEF f2
<1>5. Matches(f2, P2, Q)
  <2>1. ASSUME NEW k \in 1..n PROVE P2[f2[k]] = Internal
    <3>1. P2[f2[k]] = P[f[k]]
      BY <1>1, <1>4
    <3> QED BY <1>2, <3>1 DEF Matches, n
  <2>2. ASSUME NEW i \in 1..n, NEW k \in 1..n, i < k PROVE f2[i] < f2[k]
    <3>1. f[i] < f[k]
      BY <1>2, <2>2 DEF Matches, n
    <3> QED BY <1>1, <1>3, <1>4, <3>1
  <2>3. ASSUME NEW p \in 1..Len(P2), P2[p] = Internal PROVE \E k \in 1..n : f2[k] = p
    <3>1. p \in 1..(m - 1) /\ p + 1 \in 1..m /\ P[p + 1] = Internal
      BY <1>1, <2>3
    <3>2. PICK k \in 1..n : f[k] = p + 1
      BY <1>2, <3>1 DEF Matches, m, n
    <3> QED BY <1>1, <1>4, <3>1, <3>2
  <2> QED BY <2>1, <2>2, <2>3 DEF Matches, n
<1>6. ASSUME ~h PROVE /\ Spared(f2, P2, Q, A)
                      /\ \A b : Head(P) = Deletion(b) => \A k \in 1..n : b \notin Owners(Q[k])
  <2>0. Spared(f, P, Q, A)
    BY <1>2, <1>6
  <2>1. \A k \in 1..n :
          /\ Q[k] \in A
          /\ \A i \in 1..n : i < k => Q[i] \notin Owners(Q[k])
          /\ \A p \in 1..m : p < f[k] => \A b \in Owners(Q[k]) : P[p] # Deletion(b)
    BY <2>0 DEF Spared, m, n
  <2>2. ASSUME NEW k \in 1..n, NEW p \in 1..Len(P2), p < f2[k]
        PROVE  p + 1 \in 1..m /\ p + 1 < f[k] /\ P2[p] = P[p + 1]
    <3>1. f2[k] + 1 = f[k] /\ f2[k] \in 1..(m - 1)
      BY <1>4
    <3>2. p \in 1..(m - 1) /\ m \in Nat
      BY <1>1
    <3>3. p + 1 \in 1..m /\ p + 1 < f[k]
      BY <2>2, <3>1, <3>2
    <3> QED BY <1>1, <3>2, <3>3
  <2>3. \A k \in 1..n : \A p \in 1..Len(P2) :
           p < f2[k] => \A b \in Owners(Q[k]) : P2[p] # Deletion(b)
    BY <2>1, <2>2
  <2>4. \A k \in 1..n : 1 \in 1..m /\ 1 < f[k]
    BY <1>1, <1>3
  <2> QED BY <1>1, <2>1, <2>3, <2>4 DEF Spared, n
<1>7. InOrder(P2, Q, A, h)
  BY <1>4, <1>5, <1>6 DEF InOrder, n
<1> QED BY <1>6, <1>7 DEF P2, n

(* Accounts leave, none of which waits for its removal, and the deletions  *)
(* posted to them become void.                                             *)
LEMMA VoidInOrder ==
    ASSUME NEW P \in Seq(Events), NEW Q \in Seq(Accounts), NEW A, NEW h \in BOOLEAN, NEW S,
           NEW P2 \in Seq(Events), Len(P2) = Len(P),
           \A p \in 1..Len(P) : P2[p] = P[p] \/ (P2[p] = Deletion(Nobody) /\ P[p] # Internal),
           \A k \in 1..Len(Q) : Nobody \notin Owners(Q[k]),
           ~h => \A k \in 1..Len(Q) : Q[k] \notin S,
           InOrder(P, Q, A, h)
    PROVE  InOrder(P2, Q, A \ S, h)
<1>1. PICK f \in [1..Len(Q) -> 1..Len(P)] : Matches(f, P, Q) /\ (~h => Spared(f, P, Q, A))
  BY DEF InOrder
<1>2. \A p \in 1..Len(P) : P2[p] = Internal <=> P[p] = Internal
  BY EventFacts
<1>3. Matches(f, P2, Q)
  BY <1>1, <1>2 DEF Matches
<1>4. ASSUME ~h PROVE Spared(f, P2, Q, A \ S)
  <2>1. Spared(f, P, Q, A)
    BY <1>1, <1>4
  <2>2. ASSUME NEW k \in 1..Len(Q), NEW p \in 1..Len(P), p < f[k], NEW b \in Owners(Q[k])
        PROVE  P2[p] # Deletion(b)
    <3>1. P[p] # Deletion(b) /\ b # Nobody
      BY <2>1, <2>2 DEF Spared
    <3> QED BY <3>1, EventFacts
  <2>3. \A k \in 1..Len(Q) : /\ Q[k] \in A \ S
                             /\ \A i \in 1..Len(Q) : i < k => Q[i] \notin Owners(Q[k])
    BY <1>4, <2>1 DEF Spared
  <2> QED BY <2>2, <2>3 DEF Spared
<1> QED BY <1>1, <1>3, <1>4 DEF InOrder
-----------------------------------------------------------------------------
(* The elements of a list that grows at the end or shrinks at the front. *)
LEMMA AppendToSet ==
    ASSUME NEW T, NEW s \in Seq(T), NEW e \in T
    PROVE  Append(s, e) \in Seq(T) /\ ToSet(Append(s, e)) = ToSet(s) \cup {e}
<1> DEFINE p == Append(s, e)
<1>1. /\ p \in Seq(T) /\ Len(p) = Len(s) + 1 /\ Len(s) \in Nat
      /\ \A i \in 1..Len(s) : p[i] = s[i]
      /\ p[Len(s) + 1] = e
      /\ DOMAIN s = 1..Len(s) /\ DOMAIN p = 1..Len(p)
  BY AppendProperties, LenProperties
<1> HIDE DEF p
<1>2. /\ \A i \in 1..Len(p) : i \in 1..Len(s) \/ i = Len(s) + 1
      /\ \A i \in 1..Len(s) : i \in 1..Len(p)
      /\ Len(s) + 1 \in 1..Len(p)
  BY <1>1
<1>3. \A x : x \in ToSet(p) <=> x \in ToSet(s) \cup {e}
  BY <1>1, <1>2 DEF ToSet
<1> QED BY <1>1, <1>3 DEF p

LEMMA TailToSet ==
    ASSUME NEW T, NEW s \in Seq(T), s # <<>>
    PROVE  /\ Head(s) \in T /\ Head(s) \in ToSet(s)
           /\ Tail(s) \in Seq(T) /\ ToSet(Tail(s)) \subseteq ToSet(s)
           /\ \A x \in ToSet(s) : x = Head(s) \/ x \in ToSet(Tail(s))
           /\ \A k \in 1..Len(Tail(s)) : Tail(s)[k] \in ToSet(Tail(s))
           /\ \A x \in ToSet(Tail(s)) : \E k \in 1..Len(Tail(s)) : x = Tail(s)[k]
<1> DEFINE p == Tail(s)
<1>1. /\ p \in Seq(T) /\ Len(p) = Len(s) - 1 /\ Len(s) \in Nat \ {0}
      /\ \A i \in 1..Len(p) : p[i] = s[i + 1]
      /\ DOMAIN s = 1..Len(s) /\ DOMAIN p = 1..Len(p)
      /\ Head(s) = s[1] /\ Head(s) \in T
  BY HeadTailProperties, LenProperties, EmptySeq
<1> HIDE DEF p
<1>2. 1 \in 1..Len(s) /\ \A i \in 1..Len(p) : i + 1 \in 1..Len(s)
  BY <1>1
<1>3. Head(s) \in ToSet(s) /\ \A x \in ToSet(p) : x \in ToSet(s)
  BY <1>1, <1>2 DEF ToSet
<1>4. /\ \A k \in 1..Len(p) : p[k] \in ToSet(p)
      /\ \A x \in ToSet(p) : \E k \in 1..Len(p) : x = p[k]
  BY <1>1 DEF ToSet
<1>5. ASSUME NEW x \in ToSet(s) PROVE x = Head(s) \/ x \in ToSet(p)
  <2>1. PICK k \in 1..Len(s) : x = s[k]
    BY <1>1 DEF ToSet
  <2>2. CASE k = 1
    BY <1>1, <2>1, <2>2
  <2>3. CASE k # 1
    <3>1. k - 1 \in 1..Len(p) /\ k - 1 + 1 = k
      BY <1>1, <2>3
    <3>2. p[k - 1] = x
      BY <1>1, <2>1, <3>1
    <3> QED BY <1>4, <3>1, <3>2
  <2> QED BY <2>2, <2>3
<1> QED BY <1>1, <1>3, <1>4, <1>5 DEF p

(* A record of accounts that the handlers may meet. *)
Good(r) ==
    /\ r \in RegistryType
    /\ r.online \cup r.watched \cup r.tracked \cup r.mourned \cup r.removing \cup r.task
          \subseteq r.accounts
    /\ r.timer \subseteq r.removing
    /\ \A t \in r.accounts \cap Transports : ParentOf[t] \in r.accounts
    /\ \A a \in Accounts : Deletion(a) \in ToSet(r.posted) => a \in r.accounts
    /\ Unload \in ToSet(r.posted) => r.accounts = {}
    /\ InOrder(r.posted, r.toBeRemoved, r.accounts, r.hasty)

(* The user may be asked about q: it exists, and unless there was haste    *)
(* nothing that has begun will delete it.                                  *)
Safe(r, q) ==
    ~r.hasty /\ q # Nobody =>
        q \in r.accounts /\ r.tracked = {} /\ \A b \in Owners(q) : ~BeingRemoved(r, b)

(* The accounts whose end the protocol will hear of. *)
Awaited(r) == r.mourned \cup r.tracked

(* The protocol waits for every account, and is ready if there is none. *)
Waiting(r) == r.accounts \subseteq Awaited(r) /\ (r.accounts = {} => Unload \in ToSet(r.posted))

(* Owners(a) are accounts. *)
LEMMA OwnersAre ==
    ASSUME NEW a \in Accounts
    PROVE  a \in Owners(a) /\ Owners(a) \subseteq Accounts /\ Nobody \notin Owners(a)
<1>1. a \in Transports => ParentOf[a] \in Jabbers
  BY RegistryAssumption
<1>2. Nobody \notin Accounts
  BY RegistryAssumption, SMTT(30)
<1> QED BY <1>1, <1>2 DEF Owners, Accounts

LEMMA QueueFields ==
    ASSUME NEW r \in RegistryType, NEW a \in Accounts
    PROVE  /\ Queue(r, a) \in RegistryType
           /\ Queue(r, a).accounts = r.accounts /\ Queue(r, a).online = r.online
           /\ Queue(r, a).watched = r.watched /\ Queue(r, a).tracked = r.tracked
           /\ Queue(r, a).mourned = r.mourned /\ Queue(r, a).removing = r.removing
           /\ Queue(r, a).timer = r.timer /\ Queue(r, a).task = r.task
           /\ Queue(r, a).posted = Append(r.posted, Internal)
           /\ Queue(r, a).toBeRemoved = Append(r.toBeRemoved, a)
           /\ Queue(r, a).hasty = (r.hasty \/ \E b \in Owners(a) : Doomed(r, b))
<1>1. r.posted \in Seq(Events) /\ r.toBeRemoved \in Seq(Accounts) /\ r.hasty \in BOOLEAN
  BY DEF RegistryType
<1>2. Append(r.posted, Internal) \in Seq(Events) /\ Append(r.toBeRemoved, a) \in Seq(Accounts)
  BY <1>1, EventFacts, AppendProperties
<1> DEFINE h == (r.hasty \/ \E b \in Owners(a) : Doomed(r, b))
<1>3. h \in BOOLEAN
  BY <1>1
<1>4. Queue(r, a) = [r EXCEPT !.posted = Append(r.posted, Internal),
                             !.toBeRemoved = Append(r.toBeRemoved, a), !.hasty = h]
  BY DEF Queue, Post, RegistryType
<1> HIDE DEF h
<1> QED BY <1>2, <1>3, <1>4 DEF RegistryType, h

(* An account that exists joins the removal queue. *)
LEMMA QueueGood ==
    ASSUME NEW r, NEW a, Good(r), a \in r.accounts PROVE Good(Queue(r, a))
<1>0. r \in RegistryType /\ a \in Accounts
  BY DEF Good, RegistryType
<1> DEFINE s == Queue(r, a)
<1>1. /\ s \in RegistryType
      /\ s.accounts = r.accounts /\ s.online = r.online
      /\ s.watched = r.watched /\ s.tracked = r.tracked
      /\ s.mourned = r.mourned /\ s.removing = r.removing
      /\ s.timer = r.timer /\ s.task = r.task
      /\ s.posted = Append(r.posted, Internal)
      /\ s.toBeRemoved = Append(r.toBeRemoved, a)
      /\ s.hasty = (r.hasty \/ \E b \in Owners(a) : Doomed(r, b))
  BY <1>0, QueueFields
<1> HIDE DEF s
<1>2. /\ r.posted \in Seq(Events) /\ r.toBeRemoved \in Seq(Accounts)
      /\ r.hasty \in BOOLEAN /\ s.hasty \in BOOLEAN
  BY <1>0, <1>1 DEF RegistryType
<1>3. ToSet(s.posted) = ToSet(r.posted) \cup {Internal}
  BY <1>1, <1>2, AppendToSet, EventFacts
<1>4. InOrder(s.posted, s.toBeRemoved, s.accounts, s.hasty)
  <2>1. /\ r.hasty => s.hasty
        /\ ~s.hasty => \A b \in Owners(a) : b \notin ToSet(r.toBeRemoved)
                                            /\ Deletion(b) \notin ToSet(r.posted)
    BY <1>1 DEF Doomed
  <2>2. InOrder(r.posted, r.toBeRemoved, r.accounts, r.hasty)
    BY DEF Good
  <2>3. InOrder(Append(r.posted, Internal), Append(r.toBeRemoved, a), r.accounts, s.hasty)
    BY <1>0, <1>2, <2>1, <2>2, QueueInOrder
  <2> QED BY <1>1, <2>3
<1>5. /\ \A b \in Accounts : Deletion(b) \in ToSet(s.posted) => b \in s.accounts
      /\ Unload \in ToSet(s.posted) => s.accounts = {}
  BY <1>1, <1>3, EventFacts DEF Good
<1>6. Good(s)
  BY <1>1, <1>4, <1>5 DEF Good
<1> QED BY <1>6 DEF s

(* The question about q is safe if the account that joins is neither q nor *)
(* its owner.                                                              *)
LEMMA QueueSafe ==
    ASSUME NEW r, NEW a, NEW q, Good(r), a \in r.accounts, Safe(r, q),
           r.hasty \/ q = Nobody \/ a \notin Owners(q)
    PROVE  Safe(Queue(r, a), q)
<1>0. r \in RegistryType /\ a \in Accounts
  BY DEF Good, RegistryType
<1> DEFINE s == Queue(r, a)
<1>1. /\ s.accounts = r.accounts /\ s.watched = r.watched /\ s.tracked = r.tracked
      /\ s.removing = r.removing /\ s.task = r.task
      /\ s.posted = Append(r.posted, Internal)
      /\ s.toBeRemoved = Append(r.toBeRemoved, a)
      /\ s.hasty = (r.hasty \/ \E b \in Owners(a) : Doomed(r, b))
  BY <1>0, QueueFields
<1> HIDE DEF s
<1>2. r.posted \in Seq(Events) /\ r.toBeRemoved \in Seq(Accounts)
  BY <1>0 DEF RegistryType
<1>3. /\ ToSet(s.posted) = ToSet(r.posted) \cup {Internal}
      /\ ToSet(s.toBeRemoved) = ToSet(r.toBeRemoved) \cup {a}
  BY <1>0, <1>1, <1>2, AppendToSet, EventFacts
<1>4. ASSUME ~s.hasty, q # Nobody
      PROVE  q \in s.accounts /\ s.tracked = {} /\ \A b \in Owners(q) : ~BeingRemoved(s, b)
  <2>1. ~r.hasty /\ a \notin Owners(q)
    BY <1>1, <1>4
  <2>2. q \in r.accounts /\ r.tracked = {} /\ \A b \in Owners(q) : ~BeingRemoved(r, b)
    BY <1>4, <2>1 DEF Safe
  <2>3. ASSUME NEW b \in Owners(q) PROVE ~BeingRemoved(s, b)
    <3>1. ~BeingRemoved(r, b) /\ b # a
      BY <2>1, <2>2
    <3>2. b \notin ToSet(s.toBeRemoved) /\ Deletion(b) \notin ToSet(s.posted)
      BY <1>3, <3>1, EventFacts DEF BeingRemoved, Doomed
    <3> QED BY <1>1, <3>1, <3>2 DEF BeingRemoved, Doomed
  <2> QED BY <1>1, <2>2, <2>3
<1>5. Safe(s, q)
  BY <1>4 DEF Safe
<1> QED BY <1>5 DEF s

(* What the sets of the record may become while the queues stay. *)
LEMMA GoodFrame ==
    ASSUME NEW r, NEW s \in RegistryType, Good(r), s.accounts = r.accounts,
           s.posted = r.posted, s.toBeRemoved = r.toBeRemoved, s.hasty = r.hasty,
           s.online \cup s.watched \cup s.tracked \cup s.mourned \cup s.removing \cup s.task
              \subseteq s.accounts,
           s.timer \subseteq s.removing
    PROVE  Good(s)
BY DEF Good

LEMMA SafeFrame ==
    ASSUME NEW r, NEW s, NEW q, Safe(r, q), s.accounts = r.accounts,
           s.posted = r.posted, s.toBeRemoved = r.toBeRemoved, s.hasty = r.hasty,
           s.tracked \subseteq r.tracked,
           ~r.hasty /\ q # Nobody =>
              (s.watched \cup s.removing \cup s.task) \cap Owners(q)
                 \subseteq r.watched \cup r.removing \cup r.task
    PROVE  Safe(s, q)
BY DEF Safe, BeingRemoved, Doomed

(* deleteLater() of an account that exists, with somebody waiting for      *)
(* destroyed().                                                            *)
Deleting(r, a) == [Post(r, Deletion(a)) EXCEPT !.mourned = @ \cup {a}]

LEMMA DeletingFields ==
    ASSUME NEW r \in RegistryType, NEW a \in Accounts
    PROVE  /\ Deleting(r, a) \in RegistryType
           /\ Deleting(r, a).accounts = r.accounts /\ Deleting(r, a).online = r.online
           /\ Deleting(r, a).watched = r.watched /\ Deleting(r, a).tracked = r.tracked
           /\ Deleting(r, a).mourned = r.mourned \cup {a} /\ Deleting(r, a).removing = r.removing
           /\ Deleting(r, a).timer = r.timer /\ Deleting(r, a).task = r.task
           /\ Deleting(r, a).posted = Append(r.posted, Deletion(a))
           /\ Deleting(r, a).toBeRemoved = r.toBeRemoved
           /\ Deleting(r, a).hasty = r.hasty
<1>1. r.posted \in Seq(Events) /\ r.mourned \cup {a} \in SUBSET Accounts
  BY DEF RegistryType
<1>2. Append(r.posted, Deletion(a)) \in Seq(Events)
  BY <1>1, EventFacts, AppendProperties
<1>3. Deleting(r, a) = [r EXCEPT !.posted = Append(r.posted, Deletion(a)),
                                !.mourned = r.mourned \cup {a}]
  BY DEF Deleting, Post, RegistryType
<1> QED BY <1>1, <1>2, <1>3 DEF RegistryType

LEMMA DeletingGood ==
    ASSUME NEW r, NEW a, Good(r), a \in r.accounts PROVE Good(Deleting(r, a))
<1>0. r \in RegistryType /\ a \in Accounts
  BY DEF Good, RegistryType
<1> DEFINE s == Deleting(r, a)
<1>1. /\ s \in RegistryType
      /\ s.accounts = r.accounts /\ s.online = r.online
      /\ s.watched = r.watched /\ s.tracked = r.tracked
      /\ s.mourned = r.mourned \cup {a} /\ s.removing = r.removing
      /\ s.timer = r.timer /\ s.task = r.task
      /\ s.posted = Append(r.posted, Deletion(a))
      /\ s.toBeRemoved = r.toBeRemoved /\ s.hasty = r.hasty
  BY <1>0, DeletingFields
<1> HIDE DEF s
<1>2. /\ r.posted \in Seq(Events) /\ r.toBeRemoved \in Seq(Accounts) /\ r.hasty \in BOOLEAN
      /\ Deletion(a) \in Events /\ Deletion(a) # Internal
  BY <1>0, EventFacts DEF RegistryType
<1>3. ToSet(s.posted) = ToSet(r.posted) \cup {Deletion(a)}
  BY <1>1, <1>2, AppendToSet
<1>4. InOrder(s.posted, s.toBeRemoved, s.accounts, s.hasty)
  <2>1. InOrder(r.posted, r.toBeRemoved, r.accounts, r.hasty)
    BY DEF Good
  <2>2. InOrder(Append(r.posted, Deletion(a)), r.toBeRemoved, r.accounts, r.hasty)
    BY <1>2, <2>1, PostInOrder
  <2> QED BY <1>1, <2>2
<1>5. /\ \A b \in Accounts : Deletion(b) \in ToSet(s.posted) => b \in s.accounts
      /\ Unload \in ToSet(s.posted) => s.accounts = {}
  BY <1>1, <1>3, EventFacts DEF Good
<1>6. s.online \cup s.watched \cup s.tracked \cup s.mourned \cup s.removing \cup s.task
          \subseteq s.accounts
  BY <1>1 DEF Good
<1>7. Good(s)
  BY <1>1, <1>4, <1>5, <1>6 DEF Good
<1> QED BY <1>7 DEF s

(* An account goes offline: what waited for that happens, and nothing new  *)
(* threatens the account that the user is asked about.                     *)
LEMMA GoOfflineGood ==
    ASSUME NEW r, NEW a, NEW q, Good(r), a \in r.accounts, Safe(r, q)
    PROVE  /\ Good(GoOffline(r, a)) /\ Safe(GoOffline(r, a), q)
           /\ GoOffline(r, a).accounts = r.accounts
           /\ GoOffline(r, a).watched = r.watched \ {a}
           /\ GoOffline(r, a).tracked = r.tracked \ {a}
           /\ Awaited(GoOffline(r, a)) = Awaited(r)
           /\ r.hasty => GoOffline(r, a).hasty
<1>0. r \in RegistryType /\ a \in Accounts
  BY DEF Good, RegistryType
<1> DEFINE r1 == [r EXCEPT !.online = @ \ {a}, !.watched = @ \ {a}, !.tracked = @ \ {a}]
<1>1. /\ r1 \in RegistryType /\ r1.accounts = r.accounts /\ r1.online = r.online \ {a}
      /\ r1.watched = r.watched \ {a} /\ r1.tracked = r.tracked \ {a}
      /\ r1.mourned = r.mourned /\ r1.removing = r.removing
      /\ r1.timer = r.timer /\ r1.task = r.task
      /\ r1.posted = r.posted /\ r1.toBeRemoved = r.toBeRemoved /\ r1.hasty = r.hasty
  BY <1>0 DEF RegistryType
<1> DEFINE r2 == IF a \in r.watched THEN Queue(r1, a) ELSE r1
<1>2. GoOffline(r, a) = IF a \in r.tracked THEN Deleting(r2, a) ELSE r2
  BY DEF GoOffline, Deleting
<1> HIDE DEF r1
<1>3. Good(r1)
  <2>1. /\ r1.online \cup r1.watched \cup r1.tracked \cup r1.mourned \cup r1.removing \cup r1.task
             \subseteq r1.accounts
        /\ r1.timer \subseteq r1.removing
    BY <1>1 DEF Good
  <2> QED BY <1>1, <2>1, GoodFrame
<1>4. Safe(r1, q)
  <2>1. /\ r1.tracked \subseteq r.tracked
        /\ (r1.watched \cup r1.removing \cup r1.task) \cap Owners(q)
              \subseteq r.watched \cup r.removing \cup r.task
    BY <1>1
  <2> QED BY <1>1, <2>1, SafeFrame
<1>5. /\ Good(r2) /\ Safe(r2, q) /\ r2.accounts = r.accounts
      /\ r2.watched = r.watched \ {a} /\ r2.tracked = r.tracked \ {a} /\ r2.mourned = r.mourned
      /\ r.hasty => r2.hasty
  <2>1. CASE a \notin r.watched
    BY <1>1, <1>3, <1>4, <2>1
  <2>2. CASE a \in r.watched
    <3>1. r1.hasty \/ q = Nobody \/ a \notin Owners(q)
      BY <1>1, <2>2 DEF Safe, BeingRemoved
    <3>2. a \in r1.accounts
      BY <1>1
    <3>3. Good(Queue(r1, a)) /\ Safe(Queue(r1, a), q)
      BY <1>3, <1>4, <3>1, <3>2, QueueGood, QueueSafe
    <3>4. /\ Queue(r1, a).accounts = r1.accounts /\ Queue(r1, a).watched = r1.watched
          /\ Queue(r1, a).tracked = r1.tracked /\ Queue(r1, a).mourned = r1.mourned
          /\ r1.hasty => Queue(r1, a).hasty
      BY <1>0, <1>1, QueueFields
    <3> QED BY <1>1, <2>2, <3>3, <3>4
  <2> QED BY <2>1, <2>2
<1> HIDE DEF r2
<1>6. CASE a \notin r.tracked
  <2>1. Awaited(r2) = Awaited(r)
    BY <1>5, <1>6 DEF Awaited
  <2> QED BY <1>2, <1>5, <1>6, <2>1
<1>7. CASE a \in r.tracked
  <2>1. GoOffline(r, a) = Deleting(r2, a)
    BY <1>2, <1>7
  <2>2. a \in r2.accounts /\ r2 \in RegistryType
    BY <1>5 DEF Good
  <2>3. Good(Deleting(r2, a))
    BY <1>5, <2>2, DeletingGood
  <2>4. /\ Deleting(r2, a).accounts = r2.accounts /\ Deleting(r2, a).watched = r2.watched
        /\ Deleting(r2, a).tracked = r2.tracked /\ Deleting(r2, a).hasty = r2.hasty
        /\ Deleting(r2, a).mourned = r2.mourned \cup {a}
    BY <1>0, <2>2, DeletingFields
  <2>5. r.hasty \/ q = Nobody
    BY <1>7 DEF Safe
  <2>6. Safe(Deleting(r2, a), q)
    BY <1>5, <2>4, <2>5 DEF Safe
  <2>7. Awaited(Deleting(r2, a)) = Awaited(r)
    BY <1>5, <1>7, <2>4 DEF Awaited
  <2> QED BY <1>5, <2>1, <2>3, <2>4, <2>6, <2>7
<1> QED BY <1>6, <1>7

(* AccountManager::removeAccount(): only a transport is left to be waited  *)
(* for.                                                                    *)
LEMMA ManagerRemovesGood ==
    ASSUME NEW r, NEW a, NEW q, Good(r), a \in r.accounts, Safe(r, q),
           r.hasty \/ q = Nobody \/ a \notin Owners(q)
    PROVE  /\ Good(ManagerRemoves(r, a)) /\ Safe(ManagerRemoves(r, a), q)
           /\ ManagerRemoves(r, a).accounts = r.accounts
           /\ ManagerRemoves(r, a).watched \subseteq r.watched \cup ({a} \cap Transports)
           /\ ManagerRemoves(r, a).tracked \subseteq r.tracked
           /\ Awaited(ManagerRemoves(r, a)) = Awaited(r)
           /\ r.hasty => ManagerRemoves(r, a).hasty
<1>0. r \in RegistryType /\ a \in Accounts
  BY DEF Good, RegistryType
<1>1. CASE a \notin r.online
  <2>1. ManagerRemoves(r, a) = Queue(r, a)
    BY <1>1 DEF ManagerRemoves
  <2>2. Good(Queue(r, a)) /\ Safe(Queue(r, a), q)
    BY QueueGood, QueueSafe
  <2>3. /\ Queue(r, a).accounts = r.accounts /\ Queue(r, a).watched = r.watched
        /\ Queue(r, a).tracked = r.tracked /\ Queue(r, a).mourned = r.mourned
        /\ r.hasty => Queue(r, a).hasty
    BY <1>0, QueueFields
  <2>4. Awaited(Queue(r, a)) = Awaited(r)
    BY <2>3 DEF Awaited
  <2> QED BY <2>1, <2>2, <2>3, <2>4
<1>2. CASE a \in r.online
  <2> DEFINE w == [r EXCEPT !.watched = @ \cup {a}]
  <2>0. r.watched \cup {a} \in SUBSET Accounts
    BY <1>0 DEF RegistryType
  <2>1. /\ w \in RegistryType /\ w.accounts = r.accounts /\ w.online = r.online
        /\ w.watched = r.watched \cup {a} /\ w.tracked = r.tracked
        /\ w.mourned = r.mourned /\ w.removing = r.removing
        /\ w.timer = r.timer /\ w.task = r.task
        /\ w.posted = r.posted /\ w.toBeRemoved = r.toBeRemoved /\ w.hasty = r.hasty
    BY <1>0, <2>0 DEF RegistryType
  <2>2. ManagerRemoves(r, a) = IF a \in Jabbers THEN GoOffline(w, a) ELSE w
    BY <1>2, <2>1 DEF ManagerRemoves, Disconnect
  <2> HIDE DEF w
  <2>3. Good(w)
    <3>1. /\ w.online \cup w.watched \cup w.tracked \cup w.mourned \cup w.removing \cup w.task
               \subseteq w.accounts
          /\ w.timer \subseteq w.removing
      BY <2>1 DEF Good
    <3> QED BY <2>1, <3>1, GoodFrame
  <2>4. Safe(w, q)
    <3>1. /\ w.tracked \subseteq r.tracked
          /\ ~r.hasty /\ q # Nobody =>
                (w.watched \cup w.removing \cup w.task) \cap Owners(q)
                   \subseteq r.watched \cup r.removing \cup r.task
      BY <2>1
    <3> QED BY <2>1, <3>1, SafeFrame
  <2>5. Awaited(w) = Awaited(r)
    BY <2>1 DEF Awaited
  <2>6. CASE a \in Jabbers
    <3>1. a \in w.accounts
      BY <2>1
    <3>2. /\ Good(GoOffline(w, a)) /\ Safe(GoOffline(w, a), q)
          /\ GoOffline(w, a).accounts = w.accounts
          /\ GoOffline(w, a).watched = w.watched \ {a}
          /\ GoOffline(w, a).tracked = w.tracked \ {a}
          /\ Awaited(GoOffline(w, a)) = Awaited(w)
          /\ w.hasty => GoOffline(w, a).hasty
      BY <2>3, <2>4, <3>1, GoOfflineGood
    <3> QED BY <2>1, <2>2, <2>6, <2>5, <3>2
  <2>7. CASE a \notin Jabbers
    <3>1. a \in Transports
      BY <1>0, <2>7 DEF Accounts
    <3> QED BY <2>1, <2>2, <2>3, <2>4, <2>7, <2>5, <3>1
  <2> QED BY <2>6, <2>7
<1> QED BY <1>1, <1>2
-----------------------------------------------------------------------------
(* The loops of the handlers. *)

Sound(r, q) == Good(r) /\ Safe(r, q) /\ r.watched \cup r.tracked \subseteq Transports

(* What a handler that deletes nothing keeps. *)
Keeps(r, s) ==
    /\ s.accounts = r.accounts /\ s.tracked \subseteq r.tracked /\ Awaited(s) = Awaited(r)
    /\ r.hasty => s.hasty

LEMMA SetToSeqIs ==
    ASSUME NEW S, IsFiniteSet(S) PROVE SetToSeq(S) \in Seq(S)
<1>1. Cardinality(S) \in Nat /\ ExistsBijection(1..Cardinality(S), S)
  BY FS_CardinalityType
<1>2. \E f \in [1..Cardinality(S) -> S] : IsInjective(f)
  BY <1>1 DEF ExistsBijection, Bijection, Injection
<1>3. SetToSeq(S) \in [1..Cardinality(S) -> S]
  BY <1>2 DEF SetToSeq
<1> QED BY <1>1, <1>3, SeqDef

LEMMA ChildrenAre ==
    ASSUME NEW r, NEW j, Good(r)
    PROVE  /\ SetToSeq(Children(r, j)) \in Seq(Children(r, j))
           /\ \A t \in Children(r, j) : t \in Transports /\ t \in r.accounts /\ ParentOf[t] = j
<1>1. IsFiniteSet(Children(r, j))
  <2>1. Children(r, j) \in SUBSET Accounts
    BY DEF Children, Accounts
  <2> QED BY <2>1, RegistryAssumption, FS_Subset
<1> QED BY <1>1, SetToSeqIs DEF Children

(* The owners of an account that is a child of j or j itself. *)
LEMMA ChildOwned ==
    ASSUME NEW t \in Transports, NEW q \in Accounts \cup {Nobody}, t \in Owners(q)
    PROVE  ParentOf[t] \in Owners(q)
BY RegistryAssumption DEF Owners, Accounts

(* JabberAccount::removeAccount() and the removal it asks for. *)
LEMMA RemoveJabberSound ==
    ASSUME NEW r, NEW j \in Jabbers, NEW q \in Accounts \cup {Nobody}, Sound(r, q),
           j \in r.accounts, r.hasty \/ q = Nobody \/ j \notin Owners(q)
    PROVE  Sound(RemoveJabber(r, j), q) /\ Keeps(r, RemoveJabber(r, j))
<1> DEFINE I == {x \in RegistryType : Sound(x, q) /\ Keeps(r, x)}
           T == Children(r, j)
           s == Each(JabberAccountRemoved, r, SetToSeq(T))
<1>1. Good(r)
  BY DEF Sound
<1>2. SetToSeq(T) \in Seq(T) /\ \A t \in T : t \in Transports /\ t \in r.accounts /\ ParentOf[t] = j
  BY <1>1, ChildrenAre
<1>3. r \in I
  BY <1>1 DEF Keeps, Good
<1>4. ASSUME NEW x \in I, NEW t \in T PROVE JabberAccountRemoved[t][x] \in I
  <2> DEFINE y == [x EXCEPT !.status[t] = "AccountRemoved"]
  <2>1. /\ x \in RegistryType /\ Good(x) /\ Safe(x, q) /\ t \in Transports /\ t \in x.accounts
        /\ x.watched \cup x.tracked \subseteq Transports
        /\ x.accounts = r.accounts /\ x.tracked \subseteq r.tracked /\ (r.hasty => x.hasty)
        /\ Awaited(x) = Awaited(r)
    BY <1>2 DEF Sound, Keeps
  <2>2. JabberAccountRemoved[t][x] = ManagerRemoves(y, t)
    BY <2>1 DEF JabberAccountRemoved
  <2>3. /\ y \in RegistryType /\ y.accounts = x.accounts /\ y.online = x.online
        /\ y.watched = x.watched /\ y.tracked = x.tracked
        /\ y.mourned = x.mourned /\ y.removing = x.removing
        /\ y.timer = x.timer /\ y.task = x.task
        /\ y.posted = x.posted /\ y.toBeRemoved = x.toBeRemoved /\ y.hasty = x.hasty
    BY <2>1 DEF RegistryType
  <2> HIDE DEF y, T, I
  <2>4. Good(y) /\ Safe(y, q)
    <3>1. /\ y.online \cup y.watched \cup y.tracked \cup y.mourned \cup y.removing \cup y.task
               \subseteq y.accounts
          /\ y.timer \subseteq y.removing
          /\ y.tracked \subseteq x.tracked
          /\ (y.watched \cup y.removing \cup y.task) \cap Owners(q)
                \subseteq x.watched \cup x.removing \cup x.task
      BY <2>1, <2>3 DEF Good
    <3> QED BY <2>1, <2>3, <3>1, GoodFrame, SafeFrame
  <2>5. y.hasty \/ q = Nobody \/ t \notin Owners(q)
    BY <1>2, <2>1, <2>3, ChildOwned
  <2>6. t \in y.accounts
    BY <2>1, <2>3
  <2> DEFINE z == ManagerRemoves(y, t)
  <2>7. /\ Good(z) /\ Safe(z, q) /\ z.accounts = y.accounts
        /\ z.watched \subseteq y.watched \cup ({t} \cap Transports)
        /\ z.tracked \subseteq y.tracked /\ Awaited(z) = Awaited(y)
        /\ y.hasty => z.hasty
    BY <2>4, <2>5, <2>6, ManagerRemovesGood
  <2> HIDE DEF z
  <2>8. Awaited(y) = Awaited(x)
    BY <2>3 DEF Awaited
  <2>9. Sound(z, q) /\ Keeps(r, z) /\ z \in RegistryType
    BY <2>1, <2>3, <2>7, <2>8 DEF Sound, Keeps, Good
  <2> QED BY <2>2, <2>9 DEF I, z
<1>5. s \in I
  <2> HIDE DEF I, T
  <2> QED BY <1>2, <1>3, <1>4, EachKeeps
<1>6. RemoveJabber(r, j) = ManagerRemoves(s, j)
  BY DEF RemoveJabber
<1>7. Sound(s, q) /\ Keeps(r, s)
  BY <1>5
<1> HIDE DEF s
<1> DEFINE z == ManagerRemoves(s, j)
<1>8. /\ Good(s) /\ Safe(s, q) /\ j \in s.accounts
      /\ s.hasty \/ q = Nobody \/ j \notin Owners(q)
  BY <1>7 DEF Sound, Keeps
<1>9. /\ Good(z) /\ Safe(z, q) /\ z.accounts = s.accounts
      /\ z.watched \subseteq s.watched \cup ({j} \cap Transports)
      /\ z.tracked \subseteq s.tracked /\ Awaited(z) = Awaited(s)
      /\ s.hasty => z.hasty
  BY <1>8, ManagerRemovesGood
<1> HIDE DEF z
<1>10. {j} \cap Transports = {}
  BY RegistryAssumption
<1>11. Sound(z, q) /\ Keeps(r, z)
  BY <1>7, <1>9, <1>10 DEF Sound, Keeps
<1> QED BY <1>6, <1>11 DEF z

(* One account after another goes offline. *)
LEMMA GoOfflineNextSound ==
    ASSUME NEW r, NEW x, NEW a \in Accounts, NEW q, Sound(x, q), Keeps(r, x), a \in r.accounts
    PROVE  Sound(GoOfflineNext[a][x], q) /\ Keeps(r, GoOfflineNext[a][x])
<1>1. /\ x \in RegistryType /\ Good(x) /\ Safe(x, q) /\ a \in x.accounts
      /\ x.watched \cup x.tracked \subseteq Transports
      /\ x.accounts = r.accounts /\ x.tracked \subseteq r.tracked /\ (r.hasty => x.hasty)
      /\ Awaited(x) = Awaited(r)
  BY DEF Sound, Keeps, Good
<1>2. GoOfflineNext[a][x] = IF a \in x.online THEN GoOffline(x, a) ELSE x
  BY <1>1 DEF GoOfflineNext
<1> DEFINE z == GoOffline(x, a)
<1>3. /\ Good(z) /\ Safe(z, q) /\ z.accounts = x.accounts
      /\ z.watched = x.watched \ {a} /\ z.tracked = x.tracked \ {a}
      /\ Awaited(z) = Awaited(x)
      /\ x.hasty => z.hasty
  BY <1>1, GoOfflineGood
<1> HIDE DEF z
<1>4. Sound(z, q) /\ Keeps(r, z)
  BY <1>1, <1>3 DEF Sound, Keeps
<1> QED BY <1>2, <1>4 DEF z

(* slotCSDisconnected() *)
AllOffline(r, j) == Each(GoOfflineNext, GoOfflineNext[j][r], SetToSeq(Children(r, j)))

LEMMA AllOfflineSound ==
    ASSUME NEW r, NEW j \in Jabbers, NEW q, Sound(r, q), j \in r.accounts
    PROVE  Sound(AllOffline(r, j), q) /\ Keeps(r, AllOffline(r, j))
<1> DEFINE I == {x \in RegistryType : Sound(x, q) /\ Keeps(r, x)}
           T == Children(r, j)
<1>1. Good(r) /\ Keeps(r, r) /\ j \in Accounts
  BY DEF Sound, Keeps, Accounts
<1>2. /\ SetToSeq(T) \in Seq(T)
      /\ \A t \in T : t \in Accounts /\ t \in r.accounts
  BY <1>1, ChildrenAre DEF Accounts
<1>3. GoOfflineNext[j][r] \in I
  <2>1. Sound(GoOfflineNext[j][r], q) /\ Keeps(r, GoOfflineNext[j][r])
    BY <1>1, GoOfflineNextSound
  <2> QED BY <2>1 DEF Sound, Good
<1>4. ASSUME NEW x \in I, NEW t \in T PROVE GoOfflineNext[t][x] \in I
  <2>1. Sound(GoOfflineNext[t][x], q) /\ Keeps(r, GoOfflineNext[t][x])
    BY <1>2, GoOfflineNextSound
  <2> QED BY <2>1 DEF Sound, Good
<1>5. AllOffline(r, j) \in I
  <2> HIDE DEF I
  <2>1. Each(GoOfflineNext, GoOfflineNext[j][r], SetToSeq(T)) \in I
    <3> HIDE DEF T
    <3> QED BY <1>2, <1>3, <1>4, EachKeeps
  <2> QED BY <2>1 DEF AllOffline
<1> QED BY <1>5

(* Protocol::aboutToUnload() *)
LEMMA AboutToUnloadGood ==
    ASSUME NEW r, Good(r), r.watched \cup r.tracked \subseteq Transports,
           NEW order \in SetToSeqs(r.accounts)
    PROVE  /\ Good(AboutToUnload(r, order))
           /\ AboutToUnload(r, order).watched \cup AboutToUnload(r, order).tracked
                 \subseteq Transports
           /\ AboutToUnload(r, order).accounts = r.accounts /\ Waiting(AboutToUnload(r, order))
           /\ r.hasty => AboutToUnload(r, order).hasty
<1> DEFINE I == {x \in RegistryType : /\ Good(x) /\ x.watched \cup x.tracked \subseteq Transports
                                      /\ x.accounts = r.accounts /\ (r.hasty => x.hasty)}
<1>0. r \in RegistryType /\ r.accounts \in SUBSET Accounts /\ IsFiniteSet(r.accounts)
  <2>1. r \in RegistryType /\ r.accounts \in SUBSET Accounts
    BY DEF Good, RegistryType
  <2> QED BY <2>1, RegistryAssumption, FS_Subset
<1>1. Cardinality(r.accounts) \in Nat /\ order \in [1..Cardinality(r.accounts) -> r.accounts]
  BY <1>0, FS_CardinalityType DEF SetToSeqs
<1>2. order \in Seq(r.accounts)
  BY <1>1, SeqDef
<1>3. \A a \in r.accounts : \E k \in 1..Len(order) : order[k] = a
  <2> DEFINE D == 1..Cardinality(r.accounts)
  <2>1. \A i, j \in D : i # j => order[i] # order[j]
    BY DEF SetToSeqs
  <2>2. order \in Injection(D, r.accounts)
    BY <1>1, <2>1, Fun_IsInj
  <2>3. Cardinality(D) = Cardinality(r.accounts)
    BY <1>1, FS_Interval
  <2>4. DOMAIN order = D /\ DOMAIN order = 1..Len(order)
    BY <1>1, <1>2, LenProperties
  <2> HIDE DEF D
  <2>5. order \in Surjection(D, r.accounts)
    BY <1>0, <2>2, <2>3, FS_Injection
  <2> QED BY <2>4, <2>5, Fun_SurjectionProperties
<1>4. CASE order = <<>>
  <2>1. Cardinality(r.accounts) = 0
    <3>1. DOMAIN order = 1..Cardinality(r.accounts)
      BY <1>1
    <3>2. DOMAIN order = 1..Len(order) /\ Len(order) = 0
      BY <1>2, <1>4, LenProperties, EmptySeq
    <3>3. 1..Cardinality(r.accounts) = {}
      BY <3>1, <3>2
    <3> QED BY <1>1, <3>3
  <2>2. r.accounts = {}
    BY <1>0, <2>1, FS_EmptySet
  <2> DEFINE z == Post(r, Unload)
  <2>3. /\ r.posted \in Seq(Events) /\ r.toBeRemoved \in Seq(Accounts) /\ r.hasty \in BOOLEAN
        /\ Append(r.posted, Unload) \in Seq(Events)
        /\ ToSet(Append(r.posted, Unload)) = ToSet(r.posted) \cup {Unload}
    BY <1>0, EventFacts, AppendToSet DEF RegistryType
  <2>4. /\ z \in RegistryType /\ z.accounts = r.accounts /\ z.online = r.online
        /\ z.watched = r.watched /\ z.tracked = r.tracked
        /\ z.mourned = r.mourned /\ z.removing = r.removing
        /\ z.timer = r.timer /\ z.task = r.task
        /\ z.posted = Append(r.posted, Unload)
        /\ z.toBeRemoved = r.toBeRemoved /\ z.hasty = r.hasty
    BY <1>0, <2>3 DEF RegistryType, Post
  <2>5. AboutToUnload(r, order) = z
    BY <1>4 DEF AboutToUnload
  <2> HIDE DEF z
  <2>6. InOrder(z.posted, z.toBeRemoved, z.accounts, z.hasty)
    <3>1. InOrder(r.posted, r.toBeRemoved, r.accounts, r.hasty)
      BY DEF Good
    <3>2. InOrder(Append(r.posted, Unload), r.toBeRemoved, r.accounts, r.hasty)
      BY <2>3, <3>1, PostInOrder, EventFacts
    <3> QED BY <2>4, <3>2
  <2>7. \A b \in Accounts : Deletion(b) \in ToSet(z.posted) => b \in z.accounts
    BY <2>3, <2>4, EventFacts DEF Good
  <2>8. Good(z)
    BY <2>2, <2>4, <2>6, <2>7 DEF Good
  <2>9. Waiting(z)
    BY <2>2, <2>3, <2>4 DEF Waiting
  <2> QED BY <2>4, <2>5, <2>8, <2>9
<1>5. CASE order # <<>>
  <2>0. r.accounts # {}
    <3>1. Len(order) \in Nat /\ Len(order) # 0
      BY <1>2, <1>5, LenProperties, EmptySeq
    <3>2. 1 \in 1..Len(order)
      BY <3>1
    <3> QED BY <1>2, <3>2, ElementOfSeq
  <2>1. r \in I
    BY <1>0
  <2>2. ASSUME NEW x \in I, NEW a \in r.accounts
        PROVE  UnloadAccount[a][x] \in I /\ Awaited(UnloadAccount[a][x]) = Awaited(x) \cup {a}
    <3>1. /\ x \in RegistryType /\ Good(x) /\ x.watched \cup x.tracked \subseteq Transports
          /\ x.accounts = r.accounts /\ (r.hasty => x.hasty) /\ a \in Accounts
      BY <1>0
    <3> DEFINE w == [x EXCEPT !.tracked = @ \cup {a}]
    <3>2. UnloadAccount[a][x] = IF a \in x.online THEN Disconnect(w, a) ELSE Deleting(x, a)
      BY <3>1 DEF UnloadAccount, Deleting
    <3>3. CASE a \notin x.online
      <4>1. Good(Deleting(x, a))
        BY <3>1, DeletingGood
      <4>2. /\ Deleting(x, a) \in RegistryType
            /\ Deleting(x, a).accounts = x.accounts /\ Deleting(x, a).watched = x.watched
            /\ Deleting(x, a).tracked = x.tracked /\ Deleting(x, a).hasty = x.hasty
            /\ Deleting(x, a).mourned = x.mourned \cup {a}
        BY <3>1, DeletingFields
      <4>3. Deleting(x, a) \in I
        BY <3>1, <4>1, <4>2
      <4>4. Awaited(Deleting(x, a)) = Awaited(x) \cup {a}
        BY <4>2 DEF Awaited
      <4> QED BY <3>2, <3>3, <4>3, <4>4
    <3>4. CASE a \in x.online
      <4>0. x.tracked \cup {a} \in SUBSET Accounts
        BY <3>1 DEF RegistryType
      <4>1. /\ w \in RegistryType /\ w.accounts = x.accounts /\ w.online = x.online
            /\ w.watched = x.watched /\ w.tracked = x.tracked \cup {a}
            /\ w.mourned = x.mourned /\ w.removing = x.removing
            /\ w.timer = x.timer /\ w.task = x.task
            /\ w.posted = x.posted /\ w.toBeRemoved = x.toBeRemoved /\ w.hasty = x.hasty
        BY <3>1, <4>0 DEF RegistryType
      <4>2. UnloadAccount[a][x] = IF a \in Jabbers THEN GoOffline(w, a) ELSE w
        BY <3>2, <3>4, <4>1 DEF Disconnect
      <4> HIDE DEF w
      <4>3. Good(w)
        <5>1. /\ w.online \cup w.watched \cup w.tracked \cup w.mourned \cup w.removing \cup w.task
                   \subseteq w.accounts
              /\ w.timer \subseteq w.removing
          BY <3>1, <4>1 DEF Good
        <5> QED BY <3>1, <4>1, <5>1, GoodFrame
      <4>4. Awaited(w) = Awaited(x) \cup {a}
        BY <4>1 DEF Awaited
      <4>5. CASE a \in Jabbers
        <5> DEFINE z == GoOffline(w, a)
        <5>1. Safe(w, Nobody) /\ a \in w.accounts
          BY <3>1, <4>1 DEF Safe
        <5>2. /\ Good(z) /\ z.accounts = w.accounts
              /\ z.watched = w.watched \ {a} /\ z.tracked = w.tracked \ {a}
              /\ Awaited(z) = Awaited(w)
              /\ w.hasty => z.hasty
          BY <4>3, <5>1, GoOfflineGood
        <5> HIDE DEF z
        <5>3. z \in I
          BY <3>1, <4>1, <5>2 DEF Good
        <5> QED BY <4>2, <4>5, <4>4, <5>2, <5>3 DEF z
      <4>6. CASE a \notin Jabbers
        <5>1. a \in Transports
          BY <3>1, <4>6 DEF Accounts
        <5>2. w \in I
          BY <3>1, <4>1, <4>3, <5>1
        <5> QED BY <4>2, <4>6, <4>4, <5>2
      <4> QED BY <4>5, <4>6
    <3> QED BY <3>3, <3>4
  <2>3. Each(UnloadAccount, r, order) \in I
    <3> HIDE DEF I
    <3> QED BY <1>2, <2>1, <2>2, EachKeeps
  <2>4. AboutToUnload(r, order) = Each(UnloadAccount, r, order)
    BY <1>5 DEF AboutToUnload
  <2> DEFINE z == Each(UnloadAccount, r, order)
  <2>5. ASSUME NEW a \in r.accounts PROVE a \in Awaited(z)
    <3> DEFINE J == {x \in I : a \in Awaited(x)}
    <3>1. PICK k \in 1..Len(order) : order[k] = a
      BY <1>3
    <3>2. \A x \in I \cap J, b \in r.accounts : UnloadAccount[b][x] \in J
      BY <2>2
    <3>3. \A x \in I : UnloadAccount[order[k]][x] \in J
      <4>1. ASSUME NEW x \in I PROVE UnloadAccount[a][x] \in J
        <5>1. UnloadAccount[a][x] \in I /\ a \in Awaited(UnloadAccount[a][x])
          <6> HIDE DEF I, J
          <6> QED BY <2>2
        <5> HIDE DEF I
        <5> QED BY <5>1
      <4> HIDE DEF I, J
      <4> QED BY <3>1, <4>1
    <3>4. \A x \in I, b \in r.accounts : UnloadAccount[b][x] \in I
      BY <2>2
    <3>5. z \in J
      <4> HIDE DEF I, J
      <4> QED BY <1>2, <2>1, <3>2, <3>3, <3>4, EachReaches
    <3> QED BY <3>5
  <2>6. z.accounts = r.accounts
    BY <2>3
  <2> HIDE DEF z
  <2>7. Waiting(z)
    BY <2>0, <2>5, <2>6 DEF Waiting
  <2> QED BY <2>3, <2>4, <2>7 DEF z
<1> QED BY <1>4, <1>5
-----------------------------------------------------------------------------
(* The deletion of accounts. *)

(* The calls posted to the accounts of S become void. *)
Voided(P, S) ==
    [i \in 1..Len(P) |-> IF \E b \in S : P[i] = Deletion(b) THEN Deletion(Nobody) ELSE P[i]]

LEMMA VoidedFacts ==
    ASSUME NEW P \in Seq(Events), NEW S \in SUBSET Accounts
    PROVE  /\ Voided(P, S) \in Seq(Events) /\ Len(Voided(P, S)) = Len(P)
           /\ \A p \in 1..Len(P) : \/ Voided(P, S)[p] = P[p]
                                   \/ Voided(P, S)[p] = Deletion(Nobody) /\ P[p] # Internal
           /\ \A b \in Accounts :
                 Deletion(b) \in ToSet(Voided(P, S)) => b \notin S /\ Deletion(b) \in ToSet(P)
           /\ Unload \in ToSet(Voided(P, S)) => Unload \in ToSet(P)
<1> DEFINE V == Voided(P, S)
<1>1. Len(P) \in Nat /\ DOMAIN P = 1..Len(P) /\ \A p \in 1..Len(P) : P[p] \in Events
  BY LenProperties, ElementOfSeq
<1>2. \A p \in 1..Len(P) :
         V[p] = IF \E b \in S : P[p] = Deletion(b) THEN Deletion(Nobody) ELSE P[p]
  BY DEF Voided
<1>3. V \in [1..Len(P) -> Events]
  BY <1>1, EventFacts DEF Voided
<1>4. V \in Seq(Events)
  BY <1>1, <1>3, SeqDef
<1>5. DOMAIN V = 1..Len(P) /\ Len(V) = Len(P)
  BY <1>1, <1>3, <1>4, LenProperties
<1> HIDE DEF V
<1>6. \A p \in 1..Len(P) : V[p] = P[p] \/ (V[p] = Deletion(Nobody) /\ P[p] # Internal)
  BY <1>2, EventFacts
<1>7. ASSUME NEW b \in Accounts, Deletion(b) \in ToSet(V)
      PROVE  b \notin S /\ Deletion(b) \in ToSet(P)
  <2>1. PICK p \in 1..Len(P) : V[p] = Deletion(b)
    BY <1>5, <1>7 DEF ToSet
  <2>2. b # Nobody /\ Deletion(b) # Deletion(Nobody)
    BY RegistryAssumption, EventFacts
  <2>3. P[p] = Deletion(b) /\ b \notin S
    BY <1>2, <2>1, <2>2
  <2> QED BY <1>1, <2>3 DEF ToSet
<1>8. ASSUME Unload \in ToSet(V) PROVE Unload \in ToSet(P)
  <2>1. PICK p \in 1..Len(P) : V[p] = Unload
    BY <1>5, <1>8 DEF ToSet
  <2>2. P[p] = Unload
    BY <1>2, <2>1, EventFacts
  <2> QED BY <1>1, <2>2 DEF ToSet
<1> QED BY <1>4, <1>5, <1>6, <1>7, <1>8 DEF V

(* An account is deleted, and the transports it owns: those that wait for  *)
(* their removal and the one that the user is asked about are others,      *)
(* unless there was haste.                                                 *)
LEMMA DestroyGood ==
    ASSUME NEW r, NEW a, NEW q \in Accounts \cup {Nobody}, Good(r), Safe(r, q), a \in r.accounts,
           ~r.hasty => \A k \in 1..Len(r.toBeRemoved) : a \notin Owners(r.toBeRemoved[k]),
           ~r.hasty /\ q # Nobody => a \notin Owners(q)
    PROVE  /\ Good(Destroy(r, a)) /\ Safe(Destroy(r, a), q)
           /\ Destroy(r, a).watched \subseteq r.watched
           /\ Destroy(r, a).tracked \subseteq r.tracked
           /\ Destroy(r, a).hasty = r.hasty
           /\ Waiting(r) /\ r.tracked \subseteq Transports => Waiting(Destroy(r, a))
<1> DEFINE S == {a} \cup Children(r, a)
           P == r.posted
           Q == r.toBeRemoved
           d == [r EXCEPT !.accounts = @ \ S, !.online = @ \ S,
                          !.watched = @ \ S, !.tracked = @ \ S, !.mourned = @ \ S,
                          !.timer = @ \ S, !.task = @ \ S, !.removing = @ \ S,
                          !.posted = Voided(r.posted, S)]
           e == Post(d, Unload)
<1>0. /\ r \in RegistryType /\ a \in Accounts /\ S \in SUBSET Accounts
      /\ P \in Seq(Events) /\ Q \in Seq(Accounts) /\ r.hasty \in BOOLEAN
  BY DEF Good, RegistryType, Children
<1>1. /\ Voided(P, S) \in Seq(Events) /\ Len(Voided(P, S)) = Len(P)
      /\ \A p \in 1..Len(P) : \/ Voided(P, S)[p] = P[p]
                              \/ Voided(P, S)[p] = Deletion(Nobody) /\ P[p] # Internal
      /\ \A b \in Accounts :
            Deletion(b) \in ToSet(Voided(P, S)) => b \notin S /\ Deletion(b) \in ToSet(P)
      /\ Unload \in ToSet(Voided(P, S)) => Unload \in ToSet(P)
  <2> HIDE DEF S, P
  <2> QED BY <1>0, VoidedFacts
<1>2. Destroy(r, a) = IF a \in r.mourned /\ d.accounts = {} THEN e ELSE d
  BY DEF Destroy, DestroyAll, SlotAccountDestroyed, Voided
<1>3. /\ d \in RegistryType
      /\ d.accounts = r.accounts \ S /\ d.online = r.online \ S
      /\ d.watched = r.watched \ S /\ d.tracked = r.tracked \ S
      /\ d.mourned = r.mourned \ S /\ d.removing = r.removing \ S
      /\ d.timer = r.timer \ S /\ d.task = r.task \ S
      /\ d.posted = Voided(P, S) /\ d.toBeRemoved = Q /\ d.hasty = r.hasty
  <2> HIDE DEF S
  <2> QED BY <1>0, <1>1 DEF RegistryType
<1>4. /\ e \in RegistryType
      /\ e.accounts = d.accounts /\ e.online = d.online
      /\ e.watched = d.watched /\ e.tracked = d.tracked
      /\ e.mourned = d.mourned /\ e.removing = d.removing
      /\ e.timer = d.timer /\ e.task = d.task
      /\ e.posted = Append(Voided(P, S), Unload) /\ e.toBeRemoved = Q /\ e.hasty = r.hasty
  <2>1. Append(d.posted, Unload) \in Seq(Events)
    BY <1>1, <1>3, EventFacts, AppendProperties
  <2> HIDE DEF d
  <2> QED BY <1>3, <2>1 DEF RegistryType, Post
<1> HIDE DEF d, e
<1>5. \A k \in 1..Len(Q) : Q[k] \in Accounts /\ Nobody \notin Owners(Q[k]) /\ Q[k] \in Owners(Q[k])
  BY <1>0, ElementOfSeq, OwnersAre
<1>6. \A x \in Accounts : a \notin Owners(x) => x \notin S
  BY DEF Owners, Children
<1>7. InOrder(d.posted, Q, d.accounts, r.hasty)
  <2>1. ~r.hasty => \A k \in 1..Len(Q) : Q[k] \notin S
    BY <1>5, <1>6
  <2>2. InOrder(P, Q, r.accounts, r.hasty)
    BY DEF Good
  <2>3. InOrder(Voided(P, S), Q, r.accounts \ S, r.hasty)
    <3> HIDE DEF P, Q, S
    <3> QED BY <1>0, <1>1, <1>5, <2>1, <2>2, VoidInOrder
  <2> QED BY <1>3, <2>3
<1>8. /\ \A b \in Accounts : Deletion(b) \in ToSet(d.posted) => b \in d.accounts
      /\ Unload \in ToSet(d.posted) => d.accounts = {}
  BY <1>1, <1>3 DEF Good
<1>9. /\ d.online \cup d.watched \cup d.tracked \cup d.mourned \cup d.removing \cup d.task
           \subseteq d.accounts
      /\ d.timer \subseteq d.removing
  <2> HIDE DEF S
  <2> QED BY <1>3 DEF Good
<1>10. \A t \in d.accounts \cap Transports : ParentOf[t] \in d.accounts
  <2> SUFFICES ASSUME NEW t \in Transports, t \in r.accounts, t \notin S
               PROVE  ParentOf[t] \in r.accounts /\ ParentOf[t] \notin S
    BY <1>3
  <2>1. ParentOf[t] \in r.accounts
    BY DEF Good
  <2>2. ParentOf[t] \notin Transports
    BY RegistryAssumption
  <2>3. ParentOf[t] # a
    BY DEF Children
  <2> QED BY <2>1, <2>2, <2>3 DEF Children
<1>11. Good(d)
  BY <1>3, <1>7, <1>8, <1>9, <1>10 DEF Good
<1>12. ToSet(e.posted) = ToSet(d.posted) \cup {Unload}
  BY <1>1, <1>3, <1>4, AppendToSet, EventFacts
<1>13. d.accounts = {} => Good(e)
  <2>1. InOrder(e.posted, Q, e.accounts, r.hasty)
    <3>1. InOrder(Append(d.posted, Unload), Q, d.accounts, r.hasty)
      <4> HIDE DEF Q
      <4> QED BY <1>0, <1>1, <1>3, <1>7, PostInOrder, EventFacts
    <3> QED BY <1>3, <1>4, <3>1
  <2>2. \A b \in Accounts : Deletion(b) \in ToSet(e.posted) => b \in e.accounts
    BY <1>4, <1>8, <1>12, EventFacts
  <2> QED BY <1>3, <1>4, <1>9, <1>10, <2>1, <2>2 DEF Good
<1>14. ASSUME NEW z, z = d \/ z = e PROVE Safe(z, q)
  <2>1. SUFFICES ASSUME ~z.hasty, q # Nobody
                 PROVE  /\ q \in z.accounts /\ z.tracked = {}
                        /\ \A b \in Owners(q) : ~BeingRemoved(z, b)
    BY DEF Safe
  <2>2. /\ z.accounts = d.accounts /\ z.tracked = d.tracked /\ z.watched = d.watched
        /\ z.removing = d.removing /\ z.task = d.task /\ z.toBeRemoved = Q /\ z.hasty = r.hasty
    BY <1>3, <1>4, <1>14
  <2>3. q \in r.accounts /\ r.tracked = {} /\ \A b \in Owners(q) : ~BeingRemoved(r, b)
    BY <2>1, <2>2 DEF Safe
  <2>4. q \in Accounts /\ q \notin S
    BY <1>6, <2>1, <2>2
  <2>5. ToSet(z.posted) \subseteq ToSet(Voided(P, S)) \cup {Unload}
    BY <1>3, <1>12, <1>14
  <2>6. \A b \in Accounts : Deletion(b) \in ToSet(z.posted) => Deletion(b) \in ToSet(P)
    BY <1>1, <2>5, EventFacts
  <2>7. ASSUME NEW b \in Owners(q) PROVE ~BeingRemoved(z, b)
    <3>1. b \in Accounts /\ ~BeingRemoved(r, b)
      BY <2>3, <2>4, OwnersAre
    <3>2. ~Doomed(z, b)
      BY <2>2, <2>6, <3>1 DEF BeingRemoved, Doomed
    <3>3. b \notin z.watched \cup z.removing \cup z.task
      BY <1>3, <2>2, <3>1 DEF BeingRemoved
    <3> QED BY <3>2, <3>3 DEF BeingRemoved
  <2> QED BY <1>3, <2>2, <2>3, <2>4, <2>7
<1>15. Safe(d, q) /\ Safe(e, q)
  BY <1>14
<1>16. ASSUME Waiting(r), r.tracked \subseteq Transports PROVE Waiting(Destroy(r, a))
  <2>1. d.accounts \subseteq Awaited(d) /\ Awaited(e) = Awaited(d)
    <3> HIDE DEF S
    <3> QED BY <1>3, <1>4, <1>16 DEF Waiting, Awaited
  <2>2. CASE d.accounts # {}
    BY <1>2, <2>1, <2>2 DEF Waiting
  <2>3. CASE d.accounts = {}
    <3>1. a \notin Transports
      <4> SUFFICES ASSUME a \in Transports PROVE FALSE
        OBVIOUS
      <4>1. ParentOf[a] \in r.accounts /\ ParentOf[a] \notin Transports
        BY RegistryAssumption DEF Good
      <4>2. ParentOf[a] \notin S
        BY <4>1 DEF Children
      <4> QED BY <1>3, <2>3, <4>1, <4>2
    <3>2. a \in r.mourned
      BY <1>16, <3>1 DEF Waiting, Awaited
    <3>3. Destroy(r, a) = e
      BY <1>2, <2>3, <3>2
    <3> QED BY <1>4, <1>12, <2>1, <3>3 DEF Waiting
  <2> QED BY <2>2, <2>3
<1> QED BY <1>2, <1>3, <1>4, <1>11, <1>13, <1>15, <1>16
-----------------------------------------------------------------------------
(* The inductive invariant. *)

(* The types of the variables other than reg. *)
Others ==
    /\ phase \in {"running", "quitting", "ending", "down"}
    /\ config \subseteq Accounts /\ enabled \in BOOLEAN
    /\ asking \in Accounts \cup {Nobody} /\ crashed \in BOOLEAN
    /\ wanted \subseteq Jabbers
    /\ budget \in [{"asks", "news", "starts"} -> Nat]

(* What goes with the phases: the user is asked while the program runs,    *)
(* the protocol waits for all accounts when it ends, and then nothing is   *)
(* left.                                                                   *)
Course ==
    /\ ~reg.hasty /\ asking # Nobody => phase = "running"
    /\ phase = "running" => reg.tracked = {}
    /\ phase = "quitting" => Waiting(reg)
    /\ phase = "down" => reg = NewRegistry({}) /\ asking = Nobody /\ ~crashed
    /\ crashed => reg.hasty

RegistryInv == Others /\ Sound(reg, asking) /\ Course

LEMMA NewRegistrySound ==
    ASSUME NEW S \in SUBSET Accounts, \A t \in S \cap Transports : ParentOf[t] \in S
    PROVE  /\ Sound(NewRegistry(S), Nobody)
           /\ NewRegistry(S).tracked = {} /\ NewRegistry(S).accounts = S
           /\ NewRegistry(S).posted = <<>>
<1> DEFINE r == NewRegistry(S)
<1>1. /\ r.accounts = S /\ r.online = {} /\ r.watched = {} /\ r.tracked = {} /\ r.mourned = {}
      /\ r.removing = {} /\ r.timer = {} /\ r.task = {}
      /\ r.posted = <<>> /\ r.toBeRemoved = <<>>
  BY DEF NewRegistry
<1>2. <<>> \in Seq(Events) /\ <<>> \in Seq(Accounts) /\ DOMAIN <<>> = {}
  BY EmptySeq
<1>3. r \in RegistryType
  BY <1>2 DEF NewRegistry, RegistryType
<1>4. \A x : x \notin ToSet(<<>>)
  BY <1>2 DEF ToSet
<1>5. InOrder(r.posted, r.toBeRemoved, r.accounts, r.hasty)
  BY <1>1, EmptyInOrder
<1> HIDE DEF r
<1>6. Good(r)
  BY <1>1, <1>3, <1>4, <1>5 DEF Good
<1>7. Safe(r, Nobody)
  BY DEF Safe
<1>8. Sound(r, Nobody)
  BY <1>1, <1>6, <1>7 DEF Sound
<1> QED BY <1>1, <1>8 DEF r

(* When the program is down there is nobody to act. *)
LEMMA NotDown ==
    ASSUME RegistryInv, reg.accounts # {} \/ reg.posted # <<>> \/ asking # Nobody
    PROVE  phase # "down"
<1>1. NewRegistry({}).accounts = {} /\ NewRegistry({}).posted = <<>>
  BY DEF NewRegistry
<1> QED BY <1>1 DEF RegistryInv, Course

(* The account of a transport is there, and so are the accounts in whose   *)
(* name something happens.                                                 *)
LEMMA Facts ==
    ASSUME RegistryInv
    PROVE  /\ reg \in RegistryType /\ Good(reg) /\ Safe(reg, asking)
           /\ reg.watched \cup reg.tracked \subseteq Transports
           /\ reg.online \cup reg.removing \cup reg.timer \cup reg.task \subseteq reg.accounts
           /\ reg.timer \subseteq reg.removing
           /\ reg.accounts \subseteq Accounts /\ reg.timer \subseteq Jabbers
           /\ reg.task \subseteq Transports
           /\ reg.posted \in Seq(Events) /\ reg.toBeRemoved \in Seq(Accounts)
           /\ reg.hasty \in BOOLEAN
           /\ asking \in Accounts \cup {Nobody}
<1>1. reg \in RegistryType /\ Good(reg) /\ Safe(reg, asking) /\ asking \in Accounts \cup {Nobody}
  BY DEF RegistryInv, Sound, Good, Others
<1>2. reg.watched \cup reg.tracked \subseteq Transports
  BY DEF RegistryInv, Sound
<1>3. /\ reg.accounts \subseteq Accounts /\ reg.timer \subseteq Jabbers
      /\ reg.task \subseteq Transports
      /\ reg.posted \in Seq(Events) /\ reg.toBeRemoved \in Seq(Accounts)
      /\ reg.hasty \in BOOLEAN
  BY <1>1 DEF RegistryType
<1>4. /\ reg.online \cup reg.removing \cup reg.timer \cup reg.task \subseteq reg.accounts
      /\ reg.timer \subseteq reg.removing
  BY <1>1 DEF Good
<1> QED BY <1>1, <1>2, <1>3, <1>4

(* A step in which the program goes on. *)
LEMMA CourseKept ==
    ASSUME Course, phase # "down", phase' = phase, crashed' = crashed,
           asking' = asking \/ asking' = Nobody,
           reg'.tracked \subseteq reg.tracked, reg.hasty => reg'.hasty,
           phase = "quitting" /\ Waiting(reg) => Waiting(reg')
    PROVE  Course'
BY DEF Course

(* A step that deletes nothing. *)
LEMMA KeepsCourse ==
    ASSUME Course, phase # "down", phase' = phase, crashed' = crashed,
           asking' = asking \/ asking' = Nobody, reg.accounts # {}, Keeps(reg, reg')
    PROVE  Course'
<1>1. Waiting(reg) => Waiting(reg')
  BY DEF Keeps, Waiting
<1> QED BY <1>1, CourseKept DEF Keeps

(* The user's question is over. *)
LEMMA SafeNobody == \A r : Safe(r, Nobody)
BY DEF Safe

LEMMA SoundNobody ==
    ASSUME NEW r, NEW q, Sound(r, q) PROVE Sound(r, Nobody)
BY SafeNobody DEF Sound

(* A change of the sets of the record only. *)
LEMMA SoundFrame ==
    ASSUME NEW r, NEW s \in RegistryType, NEW q, Sound(r, q), s.accounts = r.accounts,
           s.posted = r.posted, s.toBeRemoved = r.toBeRemoved, s.hasty = r.hasty,
           s.online \cup s.watched \cup s.tracked \cup s.mourned \cup s.removing \cup s.task
              \subseteq s.accounts,
           s.timer \subseteq s.removing, s.watched = r.watched, s.tracked = r.tracked, s.mourned = r.mourned,
           ~r.hasty /\ q # Nobody =>
              (s.watched \cup s.removing \cup s.task) \cap Owners(q)
                 \subseteq r.watched \cup r.removing \cup r.task
    PROVE  Sound(s, q) /\ Keeps(r, s)
<1>1. Good(r) /\ Safe(r, q) /\ r.watched \cup r.tracked \subseteq Transports
  BY DEF Sound
<1>2. Good(s)
  BY <1>1, GoodFrame
<1>3. s.tracked \subseteq r.tracked
  OBVIOUS
<1>4. Safe(s, q)
  BY <1>1, <1>3, SafeFrame
<1>5. Awaited(s) = Awaited(r)
  BY DEF Awaited
<1> QED BY <1>1, <1>2, <1>3, <1>4, <1>5 DEF Sound, Keeps
-----------------------------------------------------------------------------
(* The user. *)

LEMMA AskToRemoveStep ==
    ASSUME RegistryInv, NEW a \in Accounts, AskToRemove(a) PROVE RegistryInv'
<1> USE DEF AskToRemove
<1> DEFINE h == (reg.hasty \/ \E b \in Owners(a) : BeingRemoved(reg, b))
<1>1. /\ reg \in RegistryType /\ Good(reg) /\ reg.hasty \in BOOLEAN
      /\ reg.watched \cup reg.tracked \subseteq Transports
  BY Facts
<1>2. h \in BOOLEAN /\ (reg.hasty => h) /\ (~h => \A b \in Owners(a) : ~BeingRemoved(reg, b))
  BY <1>1
<1>3. reg' = [reg EXCEPT !.hasty = h]
  BY <1>1 DEF RegistryType
<1> HIDE DEF h
<1>4. /\ reg' \in RegistryType
      /\ reg'.accounts = reg.accounts /\ reg'.online = reg.online
      /\ reg'.watched = reg.watched /\ reg'.tracked = reg.tracked
      /\ reg'.mourned = reg.mourned /\ reg'.removing = reg.removing
      /\ reg'.timer = reg.timer /\ reg'.task = reg.task
      /\ reg'.posted = reg.posted /\ reg'.toBeRemoved = reg.toBeRemoved
      /\ reg'.hasty = h
  BY <1>1, <1>2, <1>3 DEF RegistryType
<1>5. InOrder(reg'.posted, reg'.toBeRemoved, reg'.accounts, reg'.hasty)
  <2>1. InOrder(reg.posted, reg.toBeRemoved, reg.accounts, reg.hasty)
    BY <1>1 DEF Good
  <2>2. InOrder(reg.posted, reg.toBeRemoved, reg.accounts, h)
    BY <1>1, <1>2, <2>1, GrowInOrder
  <2> QED BY <1>4, <2>2
<1>6. Good(reg')
  BY <1>1, <1>4, <1>5 DEF Good
<1>7. reg.tracked = {} /\ phase = "running" /\ ~crashed
  BY DEF RegistryInv, Course
<1>8. Safe(reg', asking')
  BY <1>2, <1>4, <1>7 DEF Safe, BeingRemoved, Doomed
<1>9. Sound(reg', asking')
  BY <1>1, <1>4, <1>6, <1>8 DEF Sound
<1>10. Course'
  BY <1>4, <1>7 DEF Course
<1>11. Others'
  BY DEF RegistryInv, Others, Spend
<1> QED BY <1>9, <1>10, <1>11 DEF RegistryInv

LEMMA CancelStep ==
    ASSUME RegistryInv, Cancel PROVE RegistryInv'
<1> USE DEF Cancel, Answered
<1>1. phase # "down"
  BY NotDown
<1>2. Sound(reg', asking')
  BY SoundNobody DEF RegistryInv
<1>3. Course'
  BY <1>1 DEF RegistryInv, Course
<1>4. Others'
  BY DEF RegistryInv, Others
<1> QED BY <1>2, <1>3, <1>4 DEF RegistryInv

LEMMA AnswerTooLateStep ==
    ASSUME RegistryInv, AnswerTooLate PROVE RegistryInv'
<1> USE DEF AnswerTooLate, Answered
<1>1. phase # "down"
  BY NotDown
<1>2. Sound(reg', asking')
  BY SoundNobody DEF RegistryInv
<1>3. reg.hasty
  BY DEF RegistryInv, Sound, Safe
<1>4. Course'
  BY <1>1, <1>3 DEF RegistryInv, Course
<1>5. Others'
  BY DEF RegistryInv, Others
<1> QED BY <1>2, <1>4, <1>5 DEF RegistryInv

LEMMA RemoveOnlyStep ==
    ASSUME RegistryInv, RemoveOnly PROVE RegistryInv'
<1> USE DEF RemoveOnly, Answered
<1>1. phase # "down"
  BY NotDown
<1>2. Sound(reg, Nobody) /\ asking \in Jabbers /\ asking \in reg.accounts
  BY SoundNobody DEF RegistryInv
<1>3. Sound(RemoveJabber(reg, asking), Nobody) /\ Keeps(reg, RemoveJabber(reg, asking))
  BY <1>2, RemoveJabberSound
<1>4. Sound(reg', asking') /\ Keeps(reg, reg')
  BY <1>3
<1>5. Course'
  BY <1>1, <1>2, <1>4, KeepsCourse DEF RegistryInv
<1>6. Others'
  BY <1>2 DEF RegistryInv, Others
<1> QED BY <1>4, <1>5, <1>6 DEF RegistryInv

LEMMA RemoveAndUnregisterStep ==
    ASSUME RegistryInv, RemoveAndUnregister PROVE RegistryInv'
<1> USE DEF RemoveAndUnregister, Answered
<1>1. phase # "down"
  BY NotDown
<1>2. Sound(reg, Nobody) /\ asking \in Jabbers /\ asking \in reg.accounts /\ reg \in RegistryType
  BY SoundNobody, Facts DEF RegistryInv
<1>3. Sound(reg', Nobody) /\ Keeps(reg, reg')
  <2>1. CASE asking \notin reg.online
    BY <1>2, <2>1 DEF Keeps
  <2>2. CASE asking \in reg.online
    <3>1. reg' = [reg EXCEPT !.removing = @ \cup {asking}, !.timer = @ \cup {asking}]
      BY <2>2
    <3>2. reg.removing \cup {asking} \in SUBSET Jabbers /\ reg.timer \cup {asking} \in SUBSET Jabbers
      BY <1>2 DEF RegistryType
    <3>3. /\ reg' \in RegistryType
          /\ reg'.accounts = reg.accounts /\ reg'.online = reg.online
          /\ reg'.watched = reg.watched /\ reg'.tracked = reg.tracked
          /\ reg'.mourned = reg.mourned /\ reg'.removing = reg.removing \cup {asking}
          /\ reg'.timer = reg.timer \cup {asking} /\ reg'.task = reg.task
          /\ reg'.posted = reg.posted /\ reg'.toBeRemoved = reg.toBeRemoved
          /\ reg'.hasty = reg.hasty
      BY <1>2, <3>1, <3>2 DEF RegistryType
    <3>4. /\ reg'.online \cup reg'.watched \cup reg'.tracked \cup reg'.mourned
               \cup reg'.removing \cup reg'.task \subseteq reg'.accounts
          /\ reg'.timer \subseteq reg'.removing
      BY <1>2, <3>3 DEF Sound, Good
    <3> QED BY <1>2, <3>3, <3>4, SoundFrame
  <2> QED BY <2>1, <2>2
<1>4. Sound(reg', asking') /\ Keeps(reg, reg')
  BY <1>3
<1>5. Course'
  BY <1>1, <1>2, <1>4, KeepsCourse DEF RegistryInv
<1>6. Others'
  BY <1>2 DEF RegistryInv, Others
<1> QED BY <1>4, <1>5, <1>6 DEF RegistryInv

LEMMA RemoveTransportStep ==
    ASSUME RegistryInv, RemoveTransport PROVE RegistryInv'
<1> USE DEF RemoveTransport, Answered
<1>1. phase # "down"
  BY NotDown
<1>2. /\ Sound(reg, Nobody) /\ Good(reg) /\ Safe(reg, Nobody) /\ asking \in Transports
      /\ asking \in reg.accounts /\ reg \in RegistryType
  BY SoundNobody, Facts, SafeNobody DEF RegistryInv
<1>3. Sound(reg', Nobody) /\ Keeps(reg, reg')
  <2>1. CASE reg.status[asking] # "Normal"
    <3> DEFINE z == ManagerRemoves(reg, asking)
    <3>1. /\ Good(z) /\ Safe(z, Nobody) /\ z.accounts = reg.accounts
          /\ z.watched \subseteq reg.watched \cup ({asking} \cap Transports)
          /\ z.tracked \subseteq reg.tracked
          /\ Awaited(z) = Awaited(reg)
          /\ reg.hasty => z.hasty
      BY <1>2, ManagerRemovesGood
    <3>2. reg' = z
      BY <2>1
    <3> HIDE DEF z
    <3> QED BY <1>2, <3>1, <3>2 DEF Sound, Keeps
  <2>2. CASE reg.status[asking] = "Normal" /\ ParentOf[asking] \notin reg.online
    BY <1>2, <2>2 DEF Keeps
  <2>3. CASE reg.status[asking] = "Normal" /\ ParentOf[asking] \in reg.online
    <3> DEFINE st == [reg.status EXCEPT ![asking] = "Removing"]
    <3>1. reg' = [reg EXCEPT !.status = st, !.task = @ \cup {asking}]
      BY <2>3
    <3>2. /\ reg.task \cup {asking} \in SUBSET Transports
          /\ st \in [Transports -> {"Normal", "Removing", "AccountRemoved"}]
      BY <1>2 DEF RegistryType
    <3> HIDE DEF st
    <3>3. /\ reg' \in RegistryType
          /\ reg'.accounts = reg.accounts /\ reg'.online = reg.online
          /\ reg'.watched = reg.watched /\ reg'.tracked = reg.tracked
          /\ reg'.mourned = reg.mourned /\ reg'.removing = reg.removing
          /\ reg'.timer = reg.timer /\ reg'.task = reg.task \cup {asking}
          /\ reg'.posted = reg.posted /\ reg'.toBeRemoved = reg.toBeRemoved
          /\ reg'.hasty = reg.hasty
      <4>1. reg \in RegistryType
        BY <1>2
      <4> DEFINE z == [reg EXCEPT !.status = st, !.task = reg.task \cup {asking}]
      <4>2. z \in RegistryType
        BY <4>1, <3>2 DEF RegistryType
      <4>3. reg' = z
        BY <3>1
      <4> QED BY <4>1, <4>2, <4>3 DEF RegistryType
    <3>4. /\ reg'.online \cup reg'.watched \cup reg'.tracked \cup reg'.mourned
               \cup reg'.removing \cup reg'.task \subseteq reg'.accounts
          /\ reg'.timer \subseteq reg'.removing
      BY <1>2, <3>3 DEF Good
    <3> QED BY <1>2, <3>3, <3>4, SoundFrame
  <2> QED BY <2>1, <2>2, <2>3
<1>4. Sound(reg', asking') /\ Keeps(reg, reg')
  BY <1>3
<1>5. Course'
  BY <1>1, <1>2, <1>4, KeepsCourse DEF RegistryInv
<1>6. Others'
  BY <1>2 DEF RegistryInv, Others
<1> QED BY <1>4, <1>5, <1>6 DEF RegistryInv

LEMMA SaveStep ==
    ASSUME RegistryInv, Save PROVE RegistryInv'
<1> USE DEF Save
<1>1. reg.accounts \subseteq Accounts
  BY Facts
<1>2. Others'
  BY <1>1 DEF RegistryInv, Others
<1>3. Course' /\ Sound(reg', asking')
  BY DEF RegistryInv, Course
<1> QED BY <1>2, <1>3 DEF RegistryInv

(* The end of the program: a question that is open makes it hasty. *)
LEMMA ShutdownStep ==
    ASSUME RegistryInv, NEW order \in SetToSeqs(reg.accounts), Shutdown(order)
    PROVE  RegistryInv'
<1> USE DEF Shutdown
<1> DEFINE r == AboutToUnload(reg, order)
           h == (r.hasty \/ asking # Nobody)
<1>1. Good(reg) /\ reg.watched \cup reg.tracked \subseteq Transports /\ reg.accounts \subseteq Accounts
  BY Facts
<1>2. /\ Good(r) /\ r.watched \cup r.tracked \subseteq Transports /\ r.accounts = reg.accounts
      /\ Waiting(r)
  BY <1>1, AboutToUnloadGood
<1>3. reg' = [r EXCEPT !.hasty = h]
  OBVIOUS
<1> HIDE DEF r
<1>4. r \in RegistryType /\ r.hasty \in BOOLEAN
  BY <1>2 DEF Good, RegistryType
<1>5. h \in BOOLEAN /\ (r.hasty => h)
  BY <1>4
<1>6. /\ reg' \in RegistryType
      /\ reg'.accounts = r.accounts /\ reg'.online = r.online
      /\ reg'.watched = r.watched /\ reg'.tracked = r.tracked
      /\ reg'.mourned = r.mourned /\ reg'.removing = r.removing
      /\ reg'.timer = r.timer /\ reg'.task = r.task
      /\ reg'.posted = r.posted /\ reg'.toBeRemoved = r.toBeRemoved
      /\ reg'.hasty = h
  <2> HIDE DEF h
  <2> QED BY <1>3, <1>4, <1>5 DEF RegistryType
<1>7. InOrder(reg'.posted, reg'.toBeRemoved, reg'.accounts, reg'.hasty)
  <2>1. InOrder(r.posted, r.toBeRemoved, r.accounts, r.hasty)
    BY <1>2 DEF Good
  <2>2. InOrder(r.posted, r.toBeRemoved, r.accounts, h)
    <3> HIDE DEF h
    <3> QED BY <1>4, <1>5, <2>1, GrowInOrder
  <2> QED BY <1>6, <2>2
<1>8. Good(reg')
  <2> HIDE DEF h
  <2> QED BY <1>2, <1>6, <1>7 DEF Good
<1>9. Safe(reg', asking')
  BY <1>6 DEF Safe
<1>10. Sound(reg', asking')
  <2> HIDE DEF h
  <2> QED BY <1>2, <1>6, <1>8, <1>9 DEF Sound
<1>11. Course'
  BY <1>2, <1>6 DEF Course, Waiting, Awaited
<1>12. Others'
  BY <1>1 DEF RegistryInv, Others
<1> QED BY <1>10, <1>11, <1>12 DEF RegistryInv

(* quitKopete(): no account is left, and unless there was haste nobody     *)
(* holds on to one.                                                        *)
LEMMA QuitKopeteStep ==
    ASSUME RegistryInv, NEW order, QuitKopete(order) PROVE RegistryInv'
<1> DEFINE P == reg.posted
           Q == reg.toBeRemoved
           V == [i \in 1..Len(P) |-> IF P[i] = Internal THEN Internal ELSE Deletion(Nobody)]
           dangling == \E i, k \in 1..Len(order) :
                          i < k /\ order[k] \in Transports /\ ParentOf[order[k]] = order[i]
           h == (reg.hasty \/ dangling \/ asking # Nobody \/ Q # <<>>)
<1>1. /\ phase' = "ending" /\ asking' = asking /\ crashed' = dangling
      /\ UNCHANGED <<config, enabled, wanted, budget>>
      /\ reg' = [NewRegistry({}) EXCEPT !.toBeRemoved = Q, !.posted = V, !.hasty = h]
  BY DEF QuitKopete
<1>2. /\ Good(reg) /\ P \in Seq(Events) /\ Q \in Seq(Accounts) /\ reg.hasty \in BOOLEAN
      /\ asking \in Accounts \cup {Nobody}
  BY Facts
<1>3. Len(P) \in Nat /\ Deletion(Nobody) \in Events /\ Internal \in Events
  BY <1>2, LenProperties, EventFacts
<1>4. V \in Seq(Events) /\ Len(V) = Len(P) /\ DOMAIN V = 1..Len(P)
  <2>1. V \in [1..Len(P) -> Events]
    BY <1>3
  <2>2. V \in Seq(Events)
    BY <1>3, <2>1, SeqDef
  <2> QED BY <1>3, <2>1, <2>2, LenProperties
<1>5. \A i \in 1..Len(P) : V[i] = IF P[i] = Internal THEN Internal ELSE Deletion(Nobody)
  OBVIOUS
<1>6. h \in BOOLEAN /\ dangling \in BOOLEAN
  BY <1>2
<1>7. (~h => asking = Nobody /\ Q = <<>>) /\ (dangling => h)
  OBVIOUS
<1> HIDE DEF V, h, dangling
<1>8. /\ reg' \in RegistryType
      /\ reg'.accounts = {} /\ reg'.online = {} /\ reg'.watched = {} /\ reg'.tracked = {}
      /\ reg'.mourned = {} /\ reg'.removing = {} /\ reg'.timer = {} /\ reg'.task = {}
      /\ reg'.posted = V /\ reg'.toBeRemoved = Q /\ reg'.hasty = h
  BY <1>1, <1>2, <1>4, <1>6 DEF NewRegistry, RegistryType
<1>9. InOrder(V, Q, {}, h)
  <2>1. PICK f \in [1..Len(Q) -> 1..Len(P)] : Matches(f, P, Q)
    BY <1>2 DEF Good, InOrder
  <2>2. \A p \in 1..Len(P) : V[p] = Internal <=> P[p] = Internal
    BY <1>5, EventFacts
  <2>3. Matches(f, V, Q)
    BY <1>4, <2>1, <2>2 DEF Matches
  <2>4. ~h => Len(Q) = 0 /\ 1..Len(Q) = {}
    BY <1>7, EmptySeq
  <2>5. ~h => Spared(f, V, Q, {})
    BY <2>4 DEF Spared
  <2> QED BY <1>4, <2>1, <2>3, <2>5 DEF InOrder
<1>10. \A e \in ToSet(V) : e = Internal \/ e = Deletion(Nobody)
  BY <1>4, <1>5 DEF ToSet
<1>11. Unload \notin ToSet(V) /\ \A a \in Accounts : Deletion(a) \notin ToSet(V)
  BY <1>10, EventFacts, RegistryAssumption
<1>12. Good(reg')
  BY <1>8, <1>9, <1>11 DEF Good
<1>13. Safe(reg', asking')
  BY <1>1, <1>7, <1>8 DEF Safe
<1>14. Sound(reg', asking')
  BY <1>8, <1>12, <1>13 DEF Sound
<1>15. Course'
  BY <1>1, <1>7, <1>8 DEF Course
<1>16. Others'
  BY <1>1, <1>6 DEF RegistryInv, Others
<1> QED BY <1>14, <1>15, <1>16 DEF RegistryInv

LEMMA SlotShutdownDoneStep ==
    ASSUME RegistryInv, SlotShutdownDone PROVE RegistryInv'
<1> USE DEF SlotShutdownDone
<1>1. Sound(reg', asking')
  BY NewRegistrySound
<1>2. Course'
  BY DEF RegistryInv, Course
<1>3. Others'
  BY DEF RegistryInv, Others
<1> QED BY <1>1, <1>2, <1>3 DEF RegistryInv

LEMMA StartStep ==
    ASSUME RegistryInv, Start PROVE RegistryInv'
<1> USE DEF Start
<1> DEFINE S == IF enabled THEN config \cup {ParentOf[t] : t \in config \cap Transports} ELSE {}
<1>1. config \subseteq Accounts /\ asking = Nobody /\ ~crashed
  BY DEF RegistryInv, Others, Course
<1>2. S \in SUBSET Accounts /\ \A t \in S \cap Transports : ParentOf[t] \in S
  BY <1>1, RegistryAssumption DEF Accounts
<1>3. reg' = NewRegistry(S)
  OBVIOUS
<1> HIDE DEF S
<1>4. Sound(reg', Nobody) /\ reg'.tracked = {}
  BY <1>2, <1>3, NewRegistrySound
<1>5. Sound(reg', asking')
  BY <1>1, <1>4
<1>6. Course'
  BY <1>1, <1>4 DEF Course
<1>7. Others'
  BY DEF RegistryInv, Others, Spend
<1> QED BY <1>5, <1>6, <1>7 DEF RegistryInv

(* The timer: a question about the account or its transports is hasty. *)
LEMMA SlotUnregisterFinishedStep ==
    ASSUME RegistryInv, NEW j \in Jabbers, SlotUnregisterFinished(j) PROVE RegistryInv'
<1> USE DEF SlotUnregisterFinished
<1> DEFINE r == [reg EXCEPT !.timer = @ \ {j}]
<1>1. /\ Sound(reg, asking) /\ reg \in RegistryType /\ j \in reg.removing /\ j \in reg.accounts
      /\ asking \in Accounts \cup {Nobody}
  BY Facts DEF RegistryInv
<1>2. phase # "down"
  BY <1>1, NotDown
<1>3. /\ r \in RegistryType
      /\ r.accounts = reg.accounts /\ r.online = reg.online
      /\ r.watched = reg.watched /\ r.tracked = reg.tracked
      /\ r.mourned = reg.mourned /\ r.removing = reg.removing
      /\ r.timer = reg.timer \ {j} /\ r.task = reg.task
      /\ r.posted = reg.posted /\ r.toBeRemoved = reg.toBeRemoved
      /\ r.hasty = reg.hasty
  BY <1>1 DEF RegistryType
<1>4. reg' = RemoveJabber(r, j)
  OBVIOUS
<1> HIDE DEF r
<1>5. Sound(r, asking) /\ Keeps(reg, r)
  <2>1. /\ r.online \cup r.watched \cup r.tracked \cup r.mourned \cup r.removing \cup r.task
             \subseteq r.accounts
        /\ r.timer \subseteq r.removing
        /\ (r.watched \cup r.removing \cup r.task) \cap Owners(asking)
              \subseteq reg.watched \cup reg.removing \cup reg.task
    BY <1>1, <1>3 DEF Sound, Good
  <2> QED BY <1>1, <1>3, <2>1, SoundFrame
<1>6. r.hasty \/ asking = Nobody \/ j \notin Owners(asking)
  BY <1>1, <1>3 DEF Sound, Safe, BeingRemoved
<1>7. j \in r.accounts
  BY <1>1, <1>3
<1>8. Sound(reg', asking) /\ Keeps(r, reg')
  BY <1>1, <1>4, <1>5, <1>6, <1>7, RemoveJabberSound
<1>9. Keeps(reg, reg')
  BY <1>5, <1>8 DEF Keeps
<1>10. Course'
  BY <1>1, <1>2, <1>9, KeepsCourse DEF RegistryInv
<1>11. Others'
  BY DEF RegistryInv, Others
<1> QED BY <1>8, <1>10, <1>11 DEF RegistryInv

LEMMA RemoveAllContactsStep ==
    ASSUME RegistryInv, NEW t \in Transports, RemoveAllContacts(t) PROVE RegistryInv'
<1> USE DEF RemoveAllContacts
<1> DEFINE st == [reg.status EXCEPT ![t] = "Removing"]
           r == [reg EXCEPT !.task = @ \ {t}, !.status = st]
<1>1. /\ Sound(reg, asking) /\ reg \in RegistryType /\ t \in reg.task /\ t \in reg.accounts
      /\ asking \in Accounts \cup {Nobody}
  BY Facts DEF RegistryInv
<1>2. phase # "down"
  BY <1>1, NotDown
<1>3. reg' = ManagerRemoves(r, t)
  BY <1>1
<1>4. st \in [Transports -> {"Normal", "Removing", "AccountRemoved"}]
  BY <1>1 DEF RegistryType
<1> HIDE DEF st
<1>5. /\ r \in RegistryType
      /\ r.accounts = reg.accounts /\ r.online = reg.online
      /\ r.watched = reg.watched /\ r.tracked = reg.tracked
      /\ r.mourned = reg.mourned /\ r.removing = reg.removing
      /\ r.timer = reg.timer /\ r.task = reg.task \ {t}
      /\ r.posted = reg.posted /\ r.toBeRemoved = reg.toBeRemoved
      /\ r.hasty = reg.hasty
  BY <1>1, <1>4 DEF RegistryType
<1> HIDE DEF r
<1>6. Sound(r, asking) /\ Keeps(reg, r)
  <2>1. /\ r.online \cup r.watched \cup r.tracked \cup r.mourned \cup r.removing \cup r.task
             \subseteq r.accounts
        /\ r.timer \subseteq r.removing
        /\ (r.watched \cup r.removing \cup r.task) \cap Owners(asking)
              \subseteq reg.watched \cup reg.removing \cup reg.task
    BY <1>1, <1>5 DEF Sound, Good
  <2> QED BY <1>1, <1>5, <2>1, SoundFrame
<1>7. r.hasty \/ asking = Nobody \/ t \notin Owners(asking)
  BY <1>1, <1>5 DEF Sound, Safe, BeingRemoved
<1>8. t \in r.accounts /\ Good(r) /\ Safe(r, asking)
  BY <1>1, <1>5, <1>6 DEF Sound
<1> DEFINE z == ManagerRemoves(r, t)
<1>9. /\ Good(z) /\ Safe(z, asking) /\ z.accounts = r.accounts
      /\ z.watched \subseteq r.watched \cup ({t} \cap Transports)
      /\ z.tracked \subseteq r.tracked /\ Awaited(z) = Awaited(r)
      /\ r.hasty => z.hasty
  BY <1>7, <1>8, ManagerRemovesGood
<1>10. reg' = z
  BY <1>3
<1> HIDE DEF z
<1>11. Sound(reg', asking) /\ Keeps(reg, reg')
  BY <1>6, <1>9, <1>10 DEF Sound, Keeps
<1>12. Course'
  BY <1>1, <1>2, <1>11, KeepsCourse DEF RegistryInv
<1>13. Others'
  BY DEF RegistryInv, Others
<1> QED BY <1>11, <1>12, <1>13 DEF RegistryInv
-----------------------------------------------------------------------------
(* The event loop. *)

(* A posted call is taken out, with the account to be removed if it is one *)
(* of removeAccountInternal().                                             *)
LEMMA TakeGood ==
    ASSUME NEW r, NEW s, NEW q \in Accounts \cup {Nobody}, Good(r), Safe(r, q), r.posted # <<>>,
           s \in RegistryType,
           s.accounts = r.accounts, s.online = r.online,
           s.watched = r.watched, s.tracked = r.tracked,
           s.mourned = r.mourned, s.removing = r.removing,
           s.timer = r.timer, s.task = r.task,
           s.posted = Tail(r.posted), s.hasty = r.hasty,
           ToSet(s.toBeRemoved) \subseteq ToSet(r.toBeRemoved),
           InOrder(s.posted, s.toBeRemoved, s.accounts, s.hasty)
    PROVE  /\ Good(s) /\ Safe(s, q)
           /\ Head(r.posted) # Unload /\ Waiting(r) => Waiting(s)
<1>1. r.posted \in Seq(Events)
  BY DEF Good, RegistryType
<1>2. /\ ToSet(s.posted) \subseteq ToSet(r.posted)
      /\ \A x \in ToSet(r.posted) : x = Head(r.posted) \/ x \in ToSet(s.posted)
  BY <1>1, TailToSet
<1>3. Good(s)
  BY <1>2 DEF Good
<1>4. ASSUME NEW b, BeingRemoved(s, b) PROVE BeingRemoved(r, b)
  BY <1>2, <1>4 DEF BeingRemoved, Doomed
<1>5. Safe(s, q)
  BY <1>4 DEF Safe
<1>6. Head(r.posted) # Unload /\ Waiting(r) => Waiting(s)
  BY <1>2 DEF Waiting, Awaited
<1> QED BY <1>3, <1>5, <1>6

LEMMA RemoveAccountInternalStep ==
    ASSUME RegistryInv, RemoveAccountInternal PROVE RegistryInv'
<1> USE DEF Delivered
<1> DEFINE P == reg.posted
           Q == reg.toBeRemoved
           a == Head(Q)
           s == [reg EXCEPT !.posted = Tail(P), !.toBeRemoved = Tail(Q)]
<1>1. /\ reg \in RegistryType /\ Good(reg) /\ Safe(reg, asking) /\ asking \in Accounts \cup {Nobody}
      /\ reg.watched \cup reg.tracked \subseteq Transports /\ reg.hasty \in BOOLEAN
      /\ P \in Seq(Events) /\ Q \in Seq(Accounts) /\ P # <<>> /\ Head(P) = Internal /\ ~crashed
  BY Facts DEF RemoveAccountInternal
<1>2. InOrder(P, Q, reg.accounts, reg.hasty)
  BY <1>1 DEF Good
<1>3. /\ Q # <<>> /\ InOrder(Tail(P), Tail(Q), reg.accounts, reg.hasty)
      /\ ~reg.hasty => a \in reg.accounts
                       /\ \A k \in 1..Len(Tail(Q)) : a \notin Owners(Tail(Q)[k])
  <2> HIDE DEF P, Q
  <2> QED BY <1>1, <1>2, InternalInOrder
<1>4. /\ Tail(P) \in Seq(Events) /\ Tail(Q) \in Seq(Accounts)
      /\ a \in Accounts /\ a \in ToSet(Q) /\ ToSet(Tail(Q)) \subseteq ToSet(Q)
  BY <1>1, <1>3, TailToSet
<1>5. /\ s \in RegistryType
      /\ s.accounts = reg.accounts /\ s.online = reg.online
      /\ s.watched = reg.watched /\ s.tracked = reg.tracked
      /\ s.mourned = reg.mourned /\ s.removing = reg.removing
      /\ s.timer = reg.timer /\ s.task = reg.task
      /\ s.posted = Tail(P) /\ s.toBeRemoved = Tail(Q) /\ s.hasty = reg.hasty
  BY <1>1, <1>4 DEF RegistryType
<1>6. Rest.toBeRemoved = Q /\ [Rest EXCEPT !.toBeRemoved = Tail(@)] = s
  BY <1>1 DEF Rest, RegistryType
<1>7. /\ \/ a \notin reg.accounts /\ reg' = s /\ crashed' = TRUE
            /\ UNCHANGED <<config, enabled, wanted>>
         \/ a \in reg.accounts /\ reg' = s /\ wanted' = wanted \ {a}
            /\ UNCHANGED <<config, enabled, crashed>>
         \/ /\ a \in reg.accounts /\ reg' = Destroy(s, a) /\ config' = config \ {a}
            /\ enabled' = (enabled /\ reg'.accounts # {})
            /\ UNCHANGED <<crashed, wanted>>
      /\ UNCHANGED <<phase, asking, budget>>
  BY <1>3, <1>6 DEF RemoveAccountInternal
<1> HIDE DEF s
<1>8. phase # "down"
  BY <1>1, NotDown
<1>9. Good(s) /\ Safe(s, asking) /\ (Waiting(reg) => Waiting(s))
  <2>1. InOrder(s.posted, s.toBeRemoved, s.accounts, s.hasty)
    BY <1>3, <1>5
  <2>2. ToSet(s.toBeRemoved) \subseteq ToSet(reg.toBeRemoved)
    BY <1>4, <1>5
  <2>3. Head(reg.posted) # Unload
    BY <1>1, EventFacts
  <2> QED BY <1>1, <1>5, <2>1, <2>2, <2>3, TakeGood
<1>10. Sound(s, asking)
  BY <1>1, <1>5, <1>9 DEF Sound
<1>11. Others'
  BY <1>4, <1>7 DEF RegistryInv, Others
<1>12. CASE a \notin reg.accounts /\ reg' = s /\ crashed' = TRUE
  <2>1. reg.hasty /\ reg'.hasty
    BY <1>3, <1>5, <1>12
  <2>2. Course'
    BY <1>5, <1>7, <1>8, <1>9, <1>12, <2>1 DEF RegistryInv, Course
  <2> QED BY <1>7, <1>10, <1>11, <1>12, <2>2 DEF RegistryInv
<1>13. CASE reg' = s /\ crashed' = crashed
  <2>1. Course'
    BY <1>5, <1>7, <1>8, <1>9, <1>13, CourseKept DEF RegistryInv
  <2> QED BY <1>7, <1>10, <1>11, <1>13, <2>1 DEF RegistryInv
<1>14. CASE a \in reg.accounts /\ reg' = Destroy(s, a) /\ crashed' = crashed
  <2>1. ~s.hasty => \A k \in 1..Len(s.toBeRemoved) : a \notin Owners(s.toBeRemoved[k])
    BY <1>3, <1>5
  <2>2. ~s.hasty /\ asking # Nobody => a \notin Owners(asking)
    BY <1>1, <1>4, <1>5 DEF Safe, BeingRemoved, Doomed
  <2>3. a \in s.accounts /\ s.tracked \subseteq Transports
    BY <1>1, <1>5, <1>14
  <2>4. /\ Good(reg') /\ Safe(reg', asking)
        /\ reg'.watched \subseteq s.watched /\ reg'.tracked \subseteq s.tracked
        /\ reg'.hasty = s.hasty
        /\ Waiting(s) => Waiting(reg')
    <3> HIDE DEF a
    <3> QED BY <1>1, <1>9, <1>14, <2>1, <2>2, <2>3, DestroyGood
  <2>5. Sound(reg', asking')
    BY <1>1, <1>5, <1>7, <2>4 DEF Sound
  <2>6. Course'
    BY <1>5, <1>7, <1>8, <1>9, <1>14, <2>4, CourseKept DEF RegistryInv
  <2> QED BY <1>11, <2>5, <2>6 DEF RegistryInv
<1> QED BY <1>7, <1>12, <1>13, <1>14

LEMMA DeferredDeleteStep ==
    ASSUME RegistryInv, DeferredDelete PROVE RegistryInv'
<1> USE DEF Delivered
<1> DEFINE P == reg.posted
           a == Head(P).arg
           s == [reg EXCEPT !.posted = Tail(P)]
<1>1. /\ reg \in RegistryType /\ Good(reg) /\ Safe(reg, asking) /\ asking \in Accounts \cup {Nobody}
      /\ reg.watched \cup reg.tracked \subseteq Transports /\ reg.hasty \in BOOLEAN
      /\ P \in Seq(Events) /\ reg.toBeRemoved \in Seq(Accounts) /\ P # <<>>
      /\ Head(P).call = "delete" /\ ~crashed
  BY Facts DEF DeferredDelete
<1>2. Head(P) \in Events /\ Head(P) \in ToSet(P) /\ Tail(P) \in Seq(Events)
  BY <1>1, TailToSet
<1>3. Head(P) = Deletion(a) /\ a \in Accounts \cup {Nobody} /\ Head(P) # Internal
  BY <1>1, <1>2, EventFacts
<1>4. /\ InOrder(Tail(P), reg.toBeRemoved, reg.accounts, reg.hasty)
      /\ ~reg.hasty => \A k \in 1..Len(reg.toBeRemoved) : a \notin Owners(reg.toBeRemoved[k])
  <2>1. InOrder(P, reg.toBeRemoved, reg.accounts, reg.hasty)
    BY <1>1 DEF Good
  <2> HIDE DEF P
  <2> QED BY <1>1, <1>3, <2>1, OtherInOrder
<1>5. /\ s \in RegistryType
      /\ s.accounts = reg.accounts /\ s.online = reg.online
      /\ s.watched = reg.watched /\ s.tracked = reg.tracked
      /\ s.mourned = reg.mourned /\ s.removing = reg.removing
      /\ s.timer = reg.timer /\ s.task = reg.task
      /\ s.posted = Tail(P) /\ s.toBeRemoved = reg.toBeRemoved /\ s.hasty = reg.hasty
  BY <1>1, <1>2 DEF RegistryType
<1>6. reg' = IF a = Nobody THEN s ELSE Destroy(s, a)
  BY DEF DeferredDelete, Rest
<1> HIDE DEF s
<1>7. phase # "down"
  BY <1>1, NotDown
<1>8. Good(s) /\ Safe(s, asking) /\ (Waiting(reg) => Waiting(s))
  <2>1. InOrder(s.posted, s.toBeRemoved, s.accounts, s.hasty)
    BY <1>4, <1>5
  <2>2. Head(reg.posted) # Unload
    BY <1>3, EventFacts
  <2> QED BY <1>1, <1>5, <2>1, <2>2, TakeGood
<1>9. /\ Sound(reg', asking) /\ reg'.tracked \subseteq reg.tracked /\ reg'.hasty = reg.hasty
      /\ Waiting(reg) => Waiting(reg')
  <2>1. CASE a = Nobody
    BY <1>1, <1>5, <1>6, <1>8, <2>1 DEF Sound
  <2>2. CASE a # Nobody
    <3>1. a \in Accounts /\ a \in s.accounts /\ s.tracked \subseteq Transports
      BY <1>1, <1>2, <1>3, <1>5, <2>2 DEF Good
    <3>2. ~s.hasty => \A k \in 1..Len(s.toBeRemoved) : a \notin Owners(s.toBeRemoved[k])
      BY <1>4, <1>5
    <3>3. ~s.hasty /\ asking # Nobody => a \notin Owners(asking)
      BY <1>1, <1>2, <1>3, <1>5 DEF Safe, BeingRemoved, Doomed
    <3>4. reg' = Destroy(s, a)
      BY <1>6, <2>2
    <3>5. /\ Good(reg') /\ Safe(reg', asking)
          /\ reg'.watched \subseteq s.watched /\ reg'.tracked \subseteq s.tracked
          /\ reg'.hasty = s.hasty
          /\ Waiting(s) => Waiting(reg')
      <4> HIDE DEF a
      <4> QED BY <1>1, <1>8, <3>1, <3>2, <3>3, <3>4, DestroyGood
    <3> QED BY <1>1, <1>5, <1>8, <3>5 DEF Sound
  <2> QED BY <2>1, <2>2
<1>10. /\ UNCHANGED <<phase, config, enabled, asking, crashed, wanted, budget>>
  BY DEF DeferredDelete
<1>11. Course'
  BY <1>7, <1>9, <1>10, CourseKept DEF RegistryInv
<1>12. Others'
  BY <1>10 DEF RegistryInv, Others
<1> QED BY <1>9, <1>10, <1>11, <1>12 DEF RegistryInv

LEMMA DeleteProtocolStep ==
    ASSUME RegistryInv, DeleteProtocol PROVE RegistryInv'
<1> USE DEF DeleteProtocol, Delivered
<1>1. Sound(reg', asking')
  BY NewRegistrySound
<1>2. Course'
  BY DEF RegistryInv, Course
<1>3. Others'
  BY DEF RegistryInv, Others
<1> QED BY <1>1, <1>2, <1>3 DEF RegistryInv
-----------------------------------------------------------------------------
(* The network. *)

(* An account that comes online. *)
LEMMA OnlineSound ==
    ASSUME RegistryInv, NEW a, a \in reg.accounts, reg' = [reg EXCEPT !.online = @ \cup {a}],
           phase' = phase, crashed' = crashed, asking' = asking
    PROVE  Sound(reg', asking') /\ Course'
<1>1. Sound(reg, asking) /\ reg \in RegistryType /\ reg.accounts \subseteq Accounts
  BY Facts DEF RegistryInv
<1>2. phase # "down"
  BY NotDown
<1>3. reg.online \cup {a} \in SUBSET Accounts
  BY <1>1 DEF RegistryType
<1>4. /\ reg' \in RegistryType
      /\ reg'.accounts = reg.accounts /\ reg'.online = reg.online \cup {a}
      /\ reg'.watched = reg.watched /\ reg'.tracked = reg.tracked
      /\ reg'.mourned = reg.mourned /\ reg'.removing = reg.removing
      /\ reg'.timer = reg.timer /\ reg'.task = reg.task
      /\ reg'.posted = reg.posted /\ reg'.toBeRemoved = reg.toBeRemoved
      /\ reg'.hasty = reg.hasty
  BY <1>1, <1>3 DEF RegistryType
<1>5. /\ reg'.online \cup reg'.watched \cup reg'.tracked \cup reg'.mourned
           \cup reg'.removing \cup reg'.task \subseteq reg'.accounts
      /\ reg'.timer \subseteq reg'.removing
  BY <1>1, <1>4 DEF Sound, Good
<1>6. Sound(reg', asking) /\ Keeps(reg, reg')
  BY <1>1, <1>4, <1>5, SoundFrame
<1>7. Course'
  BY <1>2, <1>6, KeepsCourse DEF RegistryInv
<1> QED BY <1>6, <1>7

LEMMA LoggedInStep ==
    ASSUME RegistryInv, NEW j \in Jabbers, LoggedIn(j) PROVE RegistryInv'
<1>1. Sound(reg', asking') /\ Course'
  BY OnlineSound DEF LoggedIn
<1>2. Others'
  BY DEF RegistryInv, Others, LoggedIn, Spend
<1> QED BY <1>1, <1>2 DEF RegistryInv

LEMMA GatewayAvailableStep ==
    ASSUME RegistryInv, NEW t \in Transports, GatewayAvailable(t) PROVE RegistryInv'
<1>1. Sound(reg', asking') /\ Course'
  BY OnlineSound DEF GatewayAvailable
<1>2. Others'
  BY DEF RegistryInv, Others, GatewayAvailable, Spend
<1> QED BY <1>1, <1>2 DEF RegistryInv

LEMMA SlotCSDisconnectedStep ==
    ASSUME RegistryInv, NEW j \in Jabbers, SlotCSDisconnected(j) PROVE RegistryInv'
<1> USE DEF SlotCSDisconnected
<1>1. Sound(reg, asking) /\ j \in reg.accounts /\ phase # "down"
  BY NotDown DEF RegistryInv
<1>2. reg' = AllOffline(reg, j)
  BY DEF AllOffline
<1>3. Sound(reg', asking) /\ Keeps(reg, reg')
  BY <1>1, <1>2, AllOfflineSound
<1>4. Course'
  BY <1>1, <1>3, KeepsCourse DEF RegistryInv
<1>5. Others'
  BY DEF RegistryInv, Others
<1> QED BY <1>3, <1>4, <1>5 DEF RegistryInv

LEMMA GatewayUnavailableStep ==
    ASSUME RegistryInv, NEW t \in Transports, GatewayUnavailable(t) PROVE RegistryInv'
<1> USE DEF GatewayUnavailable
<1>1. /\ Good(reg) /\ Safe(reg, asking) /\ t \in reg.accounts
      /\ reg.watched \cup reg.tracked \subseteq Transports
  BY Facts
<1>2. phase # "down"
  BY <1>1, NotDown
<1> DEFINE z == GoOffline(reg, t)
<1>3. /\ Good(z) /\ Safe(z, asking) /\ z.accounts = reg.accounts
      /\ z.watched = reg.watched \ {t} /\ z.tracked = reg.tracked \ {t}
      /\ Awaited(z) = Awaited(reg)
      /\ reg.hasty => z.hasty
  BY <1>1, GoOfflineGood
<1>4. reg' = z
  OBVIOUS
<1> HIDE DEF z
<1>5. Sound(reg', asking)
  BY <1>1, <1>3, <1>4 DEF Sound
<1>6. Keeps(reg, reg')
  BY <1>3, <1>4 DEF Keeps
<1>7. Course'
  BY <1>1, <1>2, <1>6, KeepsCourse DEF RegistryInv
<1>8. Others'
  BY DEF RegistryInv, Others
<1> QED BY <1>5, <1>7, <1>8 DEF RegistryInv

(* A new transport: the protocol is not ready to be unloaded, because the  *)
(* account of the transport exists.                                        *)
LEMMA GatewayFoundStep ==
    ASSUME RegistryInv, NEW t \in Transports, GatewayFound(t) PROVE RegistryInv'
<1> USE DEF GatewayFound
<1> DEFINE st == [reg.status EXCEPT ![t] = "Normal"]
<1>1. /\ reg \in RegistryType /\ Good(reg) /\ Safe(reg, asking) /\ reg.hasty \in BOOLEAN
      /\ reg.watched \cup reg.tracked \subseteq Transports
      /\ ParentOf[t] \in reg.accounts /\ ParentOf[t] \in reg.online
  BY Facts
<1>2. phase # "down"
  BY <1>1, NotDown
<1>3. reg' = [reg EXCEPT !.accounts = @ \cup {t}, !.online = @ \cup {t}, !.status = st]
  BY <1>1
<1>4. /\ st \in [Transports -> {"Normal", "Removing", "AccountRemoved"}]
      /\ reg.accounts \cup {t} \in SUBSET Accounts /\ reg.online \cup {t} \in SUBSET Accounts
  BY <1>1 DEF RegistryType, Accounts
<1> HIDE DEF st
<1>5. /\ reg' \in RegistryType
      /\ reg'.accounts = reg.accounts \cup {t} /\ reg'.online = reg.online \cup {t}
      /\ reg'.watched = reg.watched /\ reg'.tracked = reg.tracked
      /\ reg'.mourned = reg.mourned /\ reg'.removing = reg.removing
      /\ reg'.timer = reg.timer /\ reg'.task = reg.task
      /\ reg'.posted = reg.posted /\ reg'.toBeRemoved = reg.toBeRemoved
      /\ reg'.hasty = reg.hasty
  BY <1>1, <1>3, <1>4 DEF RegistryType
<1>6. InOrder(reg'.posted, reg'.toBeRemoved, reg'.accounts, reg'.hasty)
  <2>1. InOrder(reg.posted, reg.toBeRemoved, reg.accounts, reg.hasty)
    BY <1>1 DEF Good
  <2>2. reg.accounts \subseteq reg.accounts \cup {t}
    OBVIOUS
  <2>3. InOrder(reg.posted, reg.toBeRemoved, reg.accounts \cup {t}, reg.hasty)
    BY <1>1, <2>1, <2>2, GrowInOrder
  <2> QED BY <1>5, <2>3
<1>7. Good(reg')
  <2>1. Unload \notin ToSet(reg.posted)
    BY <1>1 DEF Good
  <2>2. /\ reg'.online \cup reg'.watched \cup reg'.tracked \cup reg'.mourned
             \cup reg'.removing \cup reg'.task \subseteq reg'.accounts
        /\ reg'.timer \subseteq reg'.removing
        /\ \A u \in reg'.accounts \cap Transports : ParentOf[u] \in reg'.accounts
        /\ \A a \in Accounts : Deletion(a) \in ToSet(reg'.posted) => a \in reg'.accounts
    BY <1>1, <1>5 DEF Good
  <2> QED BY <1>5, <1>6, <2>1, <2>2 DEF Good
<1>8. Safe(reg', asking)
  BY <1>1, <1>5 DEF Safe, BeingRemoved, Doomed
<1>9. Sound(reg', asking)
  BY <1>1, <1>5, <1>7, <1>8 DEF Sound
<1>10. Course'
  BY <1>2, <1>5, CourseKept DEF RegistryInv
<1>11. Others'
  BY DEF RegistryInv, Others, Spend
<1> QED BY <1>9, <1>10, <1>11 DEF RegistryInv
-----------------------------------------------------------------------------
LEMMA InitRegistryInv ==
    ASSUME Init PROVE RegistryInv
<1> USE DEF Init
<1>1. PICK S \in SUBSET Transports : config = Jabbers \cup S
  OBVIOUS
<1>2. config \in SUBSET Accounts /\ \A t \in config \cap Transports : ParentOf[t] \in config
  BY <1>1, RegistryAssumption DEF Accounts
<1>3. Sound(reg, asking) /\ reg.tracked = {}
  BY <1>2, NewRegistrySound
<1>4. Course
  BY <1>3 DEF Course
<1>5. MaxAsks \in Nat /\ MaxNews \in Nat /\ MaxStarts \in Nat
  BY RegistryAssumption
<1>6. budget \in [{"asks", "news", "starts"} -> Nat]
  <2>1. budget = [asks |-> MaxAsks, news |-> MaxNews, starts |-> MaxStarts]
    OBVIOUS
  <2>2. /\ DOMAIN budget = {"asks", "news", "starts"}
        /\ budget["asks"] \in Nat /\ budget["news"] \in Nat /\ budget["starts"] \in Nat
        /\ budget = [x \in {"asks", "news", "starts"} |-> budget[x]]
    BY <1>5, <2>1
  <2> QED BY <2>2
<1>7. Others
  BY <1>2, <1>6 DEF Others
<1> QED BY <1>3, <1>4, <1>7 DEF RegistryInv

LEMMA NextRegistryInv ==
    ASSUME RegistryInv, [Next]_vars PROVE RegistryInv'
<1>1. ASSUME NEW a \in Accounts, AskToRemove(a) PROVE RegistryInv'
  BY <1>1, AskToRemoveStep
<1>2. CASE Cancel
  BY <1>2, CancelStep
<1>3. CASE AnswerTooLate
  BY <1>3, AnswerTooLateStep
<1>4. CASE RemoveOnly
  BY <1>4, RemoveOnlyStep
<1>5. CASE RemoveAndUnregister
  BY <1>5, RemoveAndUnregisterStep
<1>6. CASE RemoveTransport
  BY <1>6, RemoveTransportStep
<1>7. CASE Save
  BY <1>7, SaveStep
<1>8. CASE Start
  BY <1>8, StartStep
<1>9. ASSUME NEW order \in SetToSeqs(reg.accounts), Shutdown(order) PROVE RegistryInv'
  BY <1>9, ShutdownStep
<1>10. CASE RemoveAccountInternal
  BY <1>10, RemoveAccountInternalStep
<1>11. CASE DeferredDelete
  BY <1>11, DeferredDeleteStep
<1>12. CASE DeleteProtocol
  BY <1>12, DeleteProtocolStep
<1>13. ASSUME NEW j \in Jabbers, LoggedIn(j) \/ SlotCSDisconnected(j) \/ SlotUnregisterFinished(j)
       PROVE  RegistryInv'
  BY <1>13, LoggedInStep, SlotCSDisconnectedStep, SlotUnregisterFinishedStep
<1>14. ASSUME NEW t \in Transports,
              \/ GatewayAvailable(t) \/ GatewayUnavailable(t)
              \/ GatewayFound(t) \/ RemoveAllContacts(t)
       PROVE  RegistryInv'
  BY <1>14, GatewayAvailableStep, GatewayUnavailableStep, GatewayFoundStep, RemoveAllContactsStep
<1>15. CASE UNCHANGED vars
  BY <1>15 DEF vars, RegistryInv, Others, Course
<1>16. ASSUME NEW order \in SetToSeqs(reg.accounts), QuitKopete(order) PROVE RegistryInv'
  BY <1>16, QuitKopeteStep
<1>17. CASE SlotShutdownDone
  BY <1>17, SlotShutdownDoneStep
<1> QED
  BY <1>1, <1>2, <1>3, <1>4, <1>5, <1>6, <1>7, <1>8, <1>9, <1>10, <1>11, <1>12, <1>13, <1>14,
     <1>15, <1>16, <1>17 DEF Next, User, EventLoop, Network

(* The removal queue, the posted calls, the questions to the user and the  *)
(* end of the program stay in the order that RegistryInv describes.        *)
THEOREM RegistryInvariance == Spec => []RegistryInv
<1>1. Init => RegistryInv
  BY InitRegistryInv
<1>2. RegistryInv /\ [Next]_vars => RegistryInv'
  BY NextRegistryInv
<1> QED BY <1>1, <1>2, PTL DEF Spec

(* The types, and that a transport never outlives its account. *)
THEOREM RegistryTypeCorrect == Spec => []TypeOK
<1>1. RegistryInv => TypeOK
  BY DEF RegistryInv, Others, Sound, Good, TypeOK
<1> QED BY <1>1, RegistryInvariance, PTL

(* readyForUnload() is emitted when the last account is gone, whoever      *)
(* deleted it: neither before, nor, after shutdown(), never.  This is of   *)
(* protocols that are asked to unload; quitKopete() does not ask.          *)
THEOREM RegistryReadyMeansEmpty == Spec => []ReadyMeansEmpty
<1>1. RegistryInv => ReadyMeansEmpty
  BY DEF RegistryInv, Sound, Good, Course, Waiting, ReadyMeansEmpty
<1> QED BY <1>1, RegistryInvariance, PTL

(* A deleted account is used only in the ways that UsesLiveAccounts names. *)
THEOREM RegistryUsesLiveAccounts == Spec => []UsesLiveAccounts
<1>1. RegistryInv => UsesLiveAccounts
  BY DEF RegistryInv, Course, UsesLiveAccounts
<1> QED BY <1>1, RegistryInvariance, PTL
=============================================================================
