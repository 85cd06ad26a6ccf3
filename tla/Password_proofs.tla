--------------------------- MODULE Password_proofs ---------------------------
(***************************************************************************)
(* Proofs of the safety of Password for any passwords and any number of    *)
(* calls, wallets and wrong passwords.                                     *)
(***************************************************************************)
EXTENDS Password, SequenceTheorems, TLAPS

(* x is an element of the list s. *)
In(x, s) == \E i \in 1..Len(s) : s[i] = x

(* No element is in the list twice. *)
NoTwice(s) == \A i, j \in 1..Len(s) : s[i] = s[j] => i = j

(* A request waits in one place only: in the signal or in one emission of  *)
(* it, once.                                                               *)
Disjoint(W, S) ==
    /\ NoTwice(W)
    /\ \A i \in 1..Len(S) : NoTwice(S[i].rest) /\ \A r \in Ids : In(r, S[i].rest) => ~In(r, W)
    /\ \A i, j \in 1..Len(S) : i # j => \A r \in Ids : ~(In(r, S[i].rest) /\ In(r, S[j].rest))

(* A request that waits somewhere exists and does not show its dialog. *)
Busy(q, W, S) ==
    /\ \A r \in Ids : In(r, W) => q[r].state \notin {"free", "dialog"}
    /\ \A i \in 1..Len(S) : \A r \in Ids : In(r, S[i].rest) => q[r].state \notin {"free", "dialog"}

(* A box is shown for a request to set that is still being served. *)
BoxOK(q, S) ==
    \A i \in 1..Len(S) :
        S[i].box # 0 => /\ S[i].rest # <<>> /\ S[i].box = Head(S[i].rest)
                        /\ q[S[i].box].kind = "set" /\ q[S[i].box].state = "waiting"

Sound(q, W, S) == Disjoint(W, S) /\ Busy(q, W, S) /\ BoxOK(q, S)

(* Only requests to read get beyond waiting. *)
ReadersOnly(q) == \A r \in Ids : q[r].state \notin {"free", "waiting"} => q[r].kind \in Reads

(* As long as no box was shown: the event loop runs when no emission does, *)
(* every emission carries no wallet or the one there is, w, and a request  *)
(* that calls set() is the one its emission serves.                        *)
NothingStale(q, S, w) ==
    /\ \A i \in 1..Len(S) : S[i].box = 0 /\ S[i].wal \in {0, w}
    /\ \A r \in Ids :
          /\ q[r].state # "dangling"
          /\ q[r].state \in {"grabbed", "entered"} =>
                \E i \in 1..Len(S) : S[i].rest # <<>> /\ Head(S[i].rest) = r

(* Only requests to read are in s; the last in s that is none sets v. *)
Reading(q, s) == \A i \in 1..Len(s) : q[s[i]].kind \in Reads
EndsInSet(q, s, v) ==
    \E i \in 1..Len(s) :
        /\ q[s[i]].kind = "set" /\ q[s[i]].value = v
        /\ \A j \in 1..Len(s) : j > i => q[s[j]].kind \in Reads

AllReading(q, S) == \A i \in 1..Len(S) : Reading(q, S[i].rest)

(* As long as no box was shown and nothing was moved: what sets and clears *)
(* is together, in the signal or in the emission on top, and if it was a   *)
(* set() that was called last, it is the last there or the password in     *)
(* effect, e, is its.                                                      *)
SetsInOrder(q, W, S, l, e) ==
    /\ Len(S) <= 2
    /\ W # <<>> => AllReading(q, S)
    /\ Len(S) = 2 => Reading(q, S[1].rest)
    /\ l[1] = "set" =>
          \/ EndsInSet(q, W, l[2])
          \/ S # <<>> /\ W = <<>> /\ EndsInSet(q, S[Len(S)].rest, l[2])
          \/ Reading(q, W) /\ AllReading(q, S) /\ e = l[2]

(* All of this, with b for boxed, m for migrated and n for enabled: an     *)
(* emission carries a wallet only if wallets are enabled.                  *)
Consistent(q, W, S, w, n, b, m, l, e) ==
    /\ q \in [Ids -> Request] /\ W \in Seq(Ids) /\ S \in Seq(Frame)
    /\ Sound(q, W, S)
    /\ ReadersOnly(q)
    /\ \A i \in 1..Len(S) : S[i].wal # 0 => n
    /\ ~b => NothingStale(q, S, w)
    /\ ~b /\ ~m => SetsInOrder(q, W, S, l, e)

(* The inductive invariant. *)
Inv ==
    /\ TypeOK
    /\ Consistent(req, waiters, stack, wallet, enabled, boxed, migrated, last, Effective)
    /\ open => enabled
    /\ DanglingOnlyAfterBox

-----------------------------------------------------------------------------
(* Lists of requests. *)

(* What is left of a list without its first element. *)
LEMMA TailFacts ==
    ASSUME NEW T, NEW s \in Seq(T), s # <<>>
    PROVE  /\ Tail(s) \in Seq(T) /\ Head(s) \in T /\ Head(s) = s[1]
           /\ Len(s) \in Nat /\ Len(s) > 0 /\ Len(Tail(s)) = Len(s) - 1
           /\ \A i \in 1..Len(Tail(s)) : i + 1 \in 1..Len(s) /\ Tail(s)[i] = s[i + 1]
           /\ In(Head(s), s)
           /\ \A x : In(x, Tail(s)) => In(x, s)
           /\ NoTwice(s) => NoTwice(Tail(s)) /\ ~In(Head(s), Tail(s))
<1>1. /\ Tail(s) \in Seq(T) /\ Head(s) \in T /\ Head(s) = s[1]
      /\ Len(s) \in Nat /\ Len(s) > 0 /\ Len(Tail(s)) = Len(s) - 1
      /\ \A i \in 1..(Len(s) - 1) : Tail(s)[i] = s[i + 1]
  BY HeadTailProperties, LenProperties, EmptySeq
<1>2. \A i \in 1..Len(Tail(s)) : i + 1 \in 1..Len(s) /\ i + 1 # 1 /\ Tail(s)[i] = s[i + 1]
  BY <1>1
<1>3. In(Head(s), s)
  BY <1>1 DEF In
<1>4. \A x : In(x, Tail(s)) => In(x, s)
  BY <1>2 DEF In
<1>5. ASSUME NoTwice(s) PROVE NoTwice(Tail(s)) /\ ~In(Head(s), Tail(s))
  <2>1. ASSUME NEW i \in 1..Len(Tail(s)), NEW j \in 1..Len(Tail(s)), Tail(s)[i] = Tail(s)[j] PROVE i = j
    <3>1. i + 1 = j + 1
      BY <1>2, <1>5, <2>1 DEF NoTwice
    <3> QED BY <3>1
  <2>2. 1 \in 1..Len(s)
    BY <1>1
  <2>3. ASSUME NEW i \in 1..Len(Tail(s)), Tail(s)[i] = Head(s) PROVE FALSE
    BY <1>1, <1>2, <1>5, <2>2, <2>3 DEF NoTwice
  <2>4. NoTwice(Tail(s))
    BY <2>1 DEF NoTwice
  <2> QED BY <2>3, <2>4 DEF In
<1> QED BY <1>1, <1>2, <1>3, <1>4, <1>5

(* An element is added at the end. *)
LEMMA AppendIn ==
    ASSUME NEW T, NEW s \in Seq(T), NEW e \in T
    PROVE  /\ Append(s, e) \in Seq(T) /\ Append(s, e) # <<>>
           /\ \A x : In(x, Append(s, e)) <=> In(x, s) \/ x = e
           /\ NoTwice(s) /\ ~In(e, s) => NoTwice(Append(s, e))
<1> DEFINE p == Append(s, e)
<1>1. /\ p \in Seq(T) /\ Len(p) = Len(s) + 1 /\ Len(s) \in Nat
      /\ \A i \in 1..Len(s) : p[i] = s[i]
      /\ p[Len(s) + 1] = e
  BY AppendProperties, LenProperties
<1>2. p # <<>>
  BY <1>1
<1> HIDE DEF p
<1>3. /\ \A i \in 1..Len(p) : i \in 1..Len(s) \/ i = Len(s) + 1
      /\ \A i \in 1..Len(s) : i \in 1..Len(p)
      /\ Len(s) + 1 \in 1..Len(p)
  BY <1>1
<1>4. ASSUME NEW x PROVE In(x, p) <=> In(x, s) \/ x = e
  BY <1>1, <1>3, Zenon DEF In
<1>5. ASSUME NoTwice(s), ~In(e, s) PROVE NoTwice(p)
  <2> SUFFICES ASSUME NEW i \in 1..Len(p), NEW j \in 1..Len(p), p[i] = p[j] PROVE i = j
    BY Zenon DEF NoTwice
  <2>1. CASE i \in 1..Len(s) /\ j \in 1..Len(s)
    BY <1>1, <1>5, <2>1 DEF NoTwice
  <2>2. CASE i \in 1..Len(s) /\ j = Len(s) + 1
    BY <1>1, <1>5, <2>2 DEF In
  <2>3. CASE i = Len(s) + 1 /\ j \in 1..Len(s)
    BY <1>1, <1>5, <2>3 DEF In
  <2> QED BY <1>3, <2>1, <2>2, <2>3
<1> QED BY <1>1, <1>2, <1>4, <1>5 DEF p

(* A list of one element. *)
LEMMA Single ==
    ASSUME NEW T, NEW x \in T
    PROVE  /\ <<x>> \in Seq(T) /\ <<x>> # <<>> /\ NoTwice(<<x>>)
           /\ \A y : In(y, <<x>>) <=> y = x
<1>1. <<x>> \in Seq(T) /\ Len(<<x>>) = 1 /\ <<x>>[1] = x /\ <<x>> # <<>>
  OBVIOUS
<1>2. 1..1 = {1}
  OBVIOUS
<1> QED BY <1>1, <1>2 DEF In, NoTwice

-----------------------------------------------------------------------------
(* How the steps change what waits where. *)

LEMMA FrameFacts ==
    ASSUME NEW S \in Seq(Frame), NEW i \in 1..Len(S)
    PROVE  /\ S[i] \in Frame /\ S[i].rest \in Seq(Ids) /\ S[i].wal \in Wallets
           /\ S[i].box \in Ids \cup {0} /\ 0 \notin Ids
<1>1. S[i] \in Frame
  BY ElementOfSeq
<1>2. 0 \notin Ids
  BY PasswordAssumption DEF Ids
<1> QED BY <1>1, <1>2 DEF Frame

LEMMA EmissionFacts ==
    ASSUME NEW w \in Wallets, NEW W \in Seq(Ids)
    PROVE  /\ Emission(w, W) \in Frame
           /\ Emission(w, W).wal = w /\ Emission(w, W).rest = W /\ Emission(w, W).box = 0
BY DEF Emission, Frame

(* A frame on top of a stack. *)
LEMMA PushFacts ==
    ASSUME NEW T, NEW S \in Seq(T), NEW f \in T
    PROVE  /\ Append(S, f) \in Seq(T) /\ Append(S, f) # <<>>
           /\ Len(S) \in Nat /\ Len(Append(S, f)) = Len(S) + 1
           /\ \A i \in 1..Len(S) : Append(S, f)[i] = S[i]
           /\ Append(S, f)[Len(S) + 1] = f
           /\ \A i \in 1..(Len(S) + 1) : i \in 1..Len(S) \/ i = Len(S) + 1
BY AppendProperties, LenProperties

LEMMA EmptyList ==
    /\ \A T : <<>> \in Seq(T)
    /\ \A x : ~In(x, <<>>)
    /\ NoTwice(<<>>) /\ Len(<<>>) = 0
<1>1. Len(<<>>) = 0
  OBVIOUS
<1>2. 1..0 = {}
  OBVIOUS
<1> QED BY <1>1, <1>2 DEF In, NoTwice

(* A new request joins those that wait for the wallet. *)
LEMMA JoinSound ==
    ASSUME NEW q \in [Ids -> Request], NEW W \in Seq(Ids), NEW S \in Seq(Frame), Sound(q, W, S),
           NEW r \in Ids, q[r].state = "free", NEW x \in Request, x.state = "waiting"
    PROVE  Sound([q EXCEPT ![r] = x], Append(W, r), S)
<1> DEFINE p == [q EXCEPT ![r] = x]
           V == Append(W, r)
<1>1. p[r] = x /\ \A k \in Ids : k # r => p[k] = q[k]
  OBVIOUS
<1>2. ~In(r, W) /\ \A i \in 1..Len(S) : ~In(r, S[i].rest)
  BY DEF Sound, Busy
<1>3. (\A k : In(k, V) <=> In(k, W) \/ k = r) /\ NoTwice(V)
  BY <1>2, AppendIn DEF Sound, Disjoint
<1> HIDE DEF p, V
<1>4. Disjoint(V, S)
  BY <1>2, <1>3 DEF Sound, Disjoint
<1>5. Busy(p, V, S)
  BY <1>1, <1>3 DEF Sound, Busy
<1>6. BoxOK(p, S)
  <2> SUFFICES ASSUME NEW i \in 1..Len(S), S[i].box # 0
               PROVE  /\ S[i].rest # <<>> /\ S[i].box = Head(S[i].rest)
                      /\ p[S[i].box].kind = "set" /\ p[S[i].box].state = "waiting"
    BY DEF BoxOK
  <2>1. /\ S[i].rest # <<>> /\ S[i].box = Head(S[i].rest)
        /\ q[S[i].box].kind = "set" /\ q[S[i].box].state = "waiting"
    BY DEF Sound, BoxOK
  <2>2. S[i].box \in Ids
    BY FrameFacts
  <2> QED BY <1>1, <2>1, <2>2
<1> QED BY <1>4, <1>5, <1>6 DEF Sound, p, V

(* The signal is emitted. *)
LEMMA EmitSound ==
    ASSUME NEW q, NEW W \in Seq(Ids), NEW S \in Seq(Frame), Sound(q, W, S), NEW w \in Wallets
    PROVE  Sound(q, <<>>, Append(S, Emission(w, W)))
<1> DEFINE f == Emission(w, W)
           P == Append(S, f)
           n == Len(S) + 1
<1>1. f \in Frame /\ f.rest = W /\ f.box = 0
  BY EmissionFacts
<1> HIDE DEF f
<1>2. /\ Len(S) \in Nat /\ Len(P) = n /\ P[n] = f /\ n \notin 1..Len(S)
      /\ \A i \in 1..Len(S) : P[i] = S[i]
      /\ \A i \in 1..n : i \in 1..Len(S) \/ i = n
  BY <1>1, PushFacts
<1> HIDE DEF P, n
<1>3. Disjoint(<<>>, P)
  <2>1. ASSUME NEW i \in 1..Len(P) PROVE NoTwice(P[i].rest) /\ \A r \in Ids : In(r, P[i].rest) => ~In(r, <<>>)
    BY <1>1, <1>2, EmptyList DEF Sound, Disjoint
  <2>2. ASSUME NEW i \in 1..Len(P), NEW j \in 1..Len(P), i # j, NEW r \in Ids
        PROVE  ~(In(r, P[i].rest) /\ In(r, P[j].rest))
    BY <1>1, <1>2, <2>2 DEF Sound, Disjoint
  <2> QED BY <2>1, <2>2, EmptyList DEF Disjoint
<1>4. Busy(q, <<>>, P)
  BY <1>1, <1>2, EmptyList DEF Sound, Busy
<1>5. BoxOK(q, P)
  BY <1>1, <1>2 DEF Sound, BoxOK
<1> QED BY <1>3, <1>4, <1>5 DEF Sound, P, f

(* The first request of the emission on top has been served, and is        *)
(* whatever that made it.                                                  *)
LEMMA ServedSound ==
    ASSUME NEW q \in [Ids -> Request], NEW W \in Seq(Ids), NEW S \in Seq(Frame), Sound(q, W, S),
           NEW n \in 1..Len(S), n = Len(S), S[n].rest # <<>>,
           NEW P \in Seq(Frame), Len(P) = n, \A i \in 1..n : i # n => P[i] = S[i],
           P[n].rest = Tail(S[n].rest), P[n].box = 0, NEW x
    PROVE  Sound([q EXCEPT ![Head(S[n].rest)] = x], W, P)
<1> DEFINE s == S[n].rest
           r == Head(s)
           p == [q EXCEPT ![r] = x]
<1>1. s \in Seq(Ids) /\ s # <<>>
  BY FrameFacts
<1>2. NoTwice(s)
  BY DEF Sound, Disjoint
<1> HIDE DEF s
<1>3. r \in Ids /\ In(r, s) /\ NoTwice(Tail(s)) /\ ~In(r, Tail(s)) /\ \A y : In(y, Tail(s)) => In(y, s)
  BY <1>1, <1>2, TailFacts
<1>4. \A k \in Ids : k # r => p[k] = q[k]
  BY <1>3
<1> HIDE DEF r, p
<1>5. ~In(r, W) /\ \A i \in 1..n : i # n => ~In(r, S[i].rest)
  BY <1>3 DEF Sound, Disjoint, s
<1>6. /\ P[n].rest = Tail(s)
      /\ \A i \in 1..n : \A y : In(y, P[i].rest) => In(y, S[i].rest)
      /\ \A i \in 1..n : ~In(r, P[i].rest) /\ NoTwice(P[i].rest)
  <2>1. P[n].rest = Tail(s)
    BY DEF s
  <2>2. ASSUME NEW i \in 1..n PROVE /\ \A y : In(y, P[i].rest) => In(y, S[i].rest)
                                    /\ ~In(r, P[i].rest) /\ NoTwice(P[i].rest)
    <3>1. CASE i = n
      BY <1>3, <2>1, <3>1 DEF s
    <3>2. CASE i # n
      BY <1>5, <3>2 DEF Sound, Disjoint
    <3> QED BY <3>1, <3>2
  <2> QED BY <2>1, <2>2
<1>7. Disjoint(W, P)
  <2>1. ASSUME NEW i \in 1..n PROVE NoTwice(P[i].rest) /\ \A y \in Ids : In(y, P[i].rest) => ~In(y, W)
    BY <1>6 DEF Sound, Disjoint
  <2>2. ASSUME NEW i \in 1..n, NEW j \in 1..n, i # j, NEW y \in Ids
        PROVE  ~(In(y, P[i].rest) /\ In(y, P[j].rest))
    <3>1. ~(In(y, S[i].rest) /\ In(y, S[j].rest))
      BY <2>2 DEF Sound, Disjoint
    <3> QED BY <1>6, <3>1
  <2>3. NoTwice(W)
    BY DEF Sound, Disjoint
  <2> QED BY <2>1, <2>2, <2>3 DEF Disjoint
<1>8. Busy(p, W, P)
  BY <1>4, <1>5, <1>6, ZenonT(40) DEF Sound, Busy
<1>9. BoxOK(p, P)
  <2> SUFFICES ASSUME NEW i \in 1..n, P[i].box # 0
               PROVE  /\ P[i].rest # <<>> /\ P[i].box = Head(P[i].rest)
                      /\ p[P[i].box].kind = "set" /\ p[P[i].box].state = "waiting"
    BY DEF BoxOK
  <2>1. i # n /\ P[i] = S[i]
    OBVIOUS
  <2>2. /\ S[i].rest # <<>> /\ S[i].box = Head(S[i].rest)
        /\ q[S[i].box].kind = "set" /\ q[S[i].box].state = "waiting"
    BY <2>1 DEF Sound, BoxOK
  <2>3. S[i].rest \in Seq(Ids) /\ S[i].box \in Ids
    BY <2>1, FrameFacts
  <2>4. In(S[i].box, S[i].rest)
    BY <2>2, <2>3, TailFacts
  <2>5. S[i].box # r
    BY <1>5, <2>1, <2>4
  <2> QED BY <1>4, <2>1, <2>2, <2>3, <2>5
<1> QED BY <1>7, <1>8, <1>9 DEF Sound, p, r, s

(* A request goes on where it is. *)
LEMMA ChangeSound ==
    ASSUME NEW q \in [Ids -> Request], NEW W \in Seq(Ids), NEW S \in Seq(Frame), Sound(q, W, S),
           NEW r \in Ids, NEW x, x.state \notin {"free", "dialog"}, \A i \in 1..Len(S) : S[i].box # r
    PROVE  Sound([q EXCEPT ![r] = x], W, S)
<1> DEFINE p == [q EXCEPT ![r] = x]
<1>1. p[r] = x /\ \A k \in Ids : k # r => p[k] = q[k]
  OBVIOUS
<1> HIDE DEF p
<1>2. Busy(p, W, S)
  BY <1>1 DEF Sound, Busy
<1>3. BoxOK(p, S)
  BY <1>1, FrameFacts DEF Sound, BoxOK
<1> QED BY <1>2, <1>3 DEF Sound, p

(* An emission is over. *)
LEMMA PopFacts ==
    ASSUME NEW T, NEW S \in Seq(T), S # <<>>
    PROVE  LET P == SubSeq(S, 1, Len(S) - 1)
           IN  /\ P \in Seq(T) /\ Len(S) \in Nat /\ Len(S) > 0 /\ Len(P) = Len(S) - 1
               /\ \A i \in 1..Len(P) : i \in 1..Len(S) /\ P[i] = S[i]
<1>1. Len(S) \in Nat /\ Len(S) > 0 /\ \A i \in 1..Len(S) : S[i] \in T
  BY TailFacts, ElementOfSeq
<1>2. \A i \in 1..(Len(S) - 1) : i \in 1..Len(S)
  BY <1>1
<1>3. /\ SubSeq(S, 1, Len(S) - 1) \in Seq(T)
      /\ Len(SubSeq(S, 1, Len(S) - 1)) = Len(S) - 1
      /\ \A i \in 1..(Len(S) - 1) : SubSeq(S, 1, Len(S) - 1)[i] = S[i]
  <2> DEFINE n == Len(S) - 1
  <2>1. n \in Int /\ 1 \in Int /\ n \in Nat /\ \A i \in 1..n : S[i] \in T
    BY <1>1, <1>2
  <2> HIDE DEF n
  <2>2. /\ n - 1 + 1 = n /\ (IF 1 <= n THEN n ELSE 0) = n
        /\ \A i \in 1..n : 1 + i - 1 = i
    BY <2>1
  <2>3. /\ SubSeq(S, 1, n) \in Seq(T)
        /\ Len(SubSeq(S, 1, n)) = IF 1 <= n THEN n - 1 + 1 ELSE 0
        /\ \A i \in 1..(n - 1 + 1) : SubSeq(S, 1, n)[i] = S[1 + i - 1]
    BY <2>1, SubSeqProperties
  <2>4. /\ Len(SubSeq(S, 1, n)) = n
        /\ \A i \in 1..n : SubSeq(S, 1, n)[i] = S[i]
    BY <2>1, <2>2, <2>3
  <2> QED BY <2>3, <2>4 DEF n
<1> QED BY <1>1, <1>2, <1>3

LEMMA PopSound ==
    ASSUME NEW q, NEW W \in Seq(Ids), NEW S \in Seq(Frame), Sound(q, W, S), S # <<>>
    PROVE  Sound(q, W, SubSeq(S, 1, Len(S) - 1))
<1> DEFINE P == SubSeq(S, 1, Len(S) - 1)
<1>1. \A i \in 1..Len(P) : i \in 1..Len(S) /\ P[i] = S[i]
  BY PopFacts
<1> HIDE DEF P
<1>2. Disjoint(W, P)
  <2>1. ASSUME NEW i \in 1..Len(P) PROVE NoTwice(P[i].rest) /\ \A y \in Ids : In(y, P[i].rest) => ~In(y, W)
    BY <1>1 DEF Sound, Disjoint
  <2>2. ASSUME NEW i \in 1..Len(P), NEW j \in 1..Len(P), i # j, NEW y \in Ids
        PROVE  ~(In(y, P[i].rest) /\ In(y, P[j].rest))
    BY <1>1, <2>2 DEF Sound, Disjoint
  <2>3. NoTwice(W)
    BY DEF Sound, Disjoint
  <2> QED BY <2>1, <2>2, <2>3 DEF Disjoint
<1>3. Busy(q, W, P) /\ BoxOK(q, P)
  BY <1>1 DEF Sound, Busy, BoxOK
<1> QED BY <1>2, <1>3 DEF Sound, P

(* A request whose dialog was answered calls set(). *)
LEMMA EnterSound ==
    ASSUME NEW q \in [Ids -> Request], NEW W \in Seq(Ids), NEW S \in Seq(Frame), Sound(q, W, S),
           NEW r \in Ids, q[r].state = "dialog", NEW x, x.state = "entered"
    PROVE  Sound([q EXCEPT ![r] = x], W, Append(S, Emission(0, <<r>>)))
<1> DEFINE p == [q EXCEPT ![r] = x]
           f == Emission(0, <<r>>)
           P == Append(S, f)
           n == Len(S) + 1
<1>1. p[r] = x /\ \A k \in Ids : k # r => p[k] = q[k]
  OBVIOUS
<1>2. /\ <<r>> \in Seq(Ids) /\ NoTwice(<<r>>) /\ \A y : In(y, <<r>>) <=> y = r
  BY Single
<1>3. 0 \in Wallets
  BY PasswordAssumption DEF Wallets
<1>4. f \in Frame /\ f.rest = <<r>> /\ f.box = 0
  BY <1>2, <1>3, EmissionFacts
<1> HIDE DEF f
<1>5. /\ Len(S) \in Nat /\ Len(P) = n /\ P[n] = f /\ n \notin 1..Len(S)
      /\ \A i \in 1..Len(S) : P[i] = S[i]
      /\ \A i \in 1..n : i \in 1..Len(S) \/ i = n
  BY <1>4, PushFacts
<1> HIDE DEF P, n, p
<1>6. ~In(r, W) /\ \A i \in 1..Len(S) : ~In(r, S[i].rest)
  BY DEF Sound, Busy
<1>7. Disjoint(W, P)
  <2>1. ASSUME NEW i \in 1..Len(P) PROVE NoTwice(P[i].rest) /\ \A y \in Ids : In(y, P[i].rest) => ~In(y, W)
    BY <1>2, <1>4, <1>5, <1>6 DEF Sound, Disjoint
  <2>2. ASSUME NEW i \in 1..Len(P), NEW j \in 1..Len(P), i # j, NEW y \in Ids
        PROVE  ~(In(y, P[i].rest) /\ In(y, P[j].rest))
    <3>1. CASE i \in 1..Len(S) /\ j \in 1..Len(S)
      BY <1>5, <2>2, <3>1 DEF Sound, Disjoint
    <3>2. CASE i = n /\ j \in 1..Len(S)
      BY <1>2, <1>4, <1>5, <1>6, <3>2
    <3>3. CASE j = n /\ i \in 1..Len(S)
      BY <1>2, <1>4, <1>5, <1>6, <3>3
    <3> QED BY <1>5, <2>2, <3>1, <3>2, <3>3
  <2>3. NoTwice(W)
    BY DEF Sound, Disjoint
  <2> QED BY <2>1, <2>2, <2>3 DEF Disjoint
<1>8. Busy(p, W, P)
  <2>1. ASSUME NEW y \in Ids, In(y, W) PROVE p[y].state \notin {"free", "dialog"}
    BY <1>1, <1>6, <2>1 DEF Sound, Busy
  <2>2. ASSUME NEW i \in 1..Len(P), NEW y \in Ids, In(y, P[i].rest) PROVE p[y].state \notin {"free", "dialog"}
    <3>1. CASE i = n
      BY <1>1, <1>2, <1>4, <1>5, <2>2, <3>1
    <3>2. CASE i \in 1..Len(S)
      BY <1>1, <1>5, <1>6, <2>2, <3>2 DEF Sound, Busy
    <3> QED BY <1>5, <3>1, <3>2
  <2> QED BY <2>1, <2>2 DEF Busy
<1>9. BoxOK(p, P)
  <2> SUFFICES ASSUME NEW i \in 1..Len(P), P[i].box # 0
               PROVE  /\ P[i].rest # <<>> /\ P[i].box = Head(P[i].rest)
                      /\ p[P[i].box].kind = "set" /\ p[P[i].box].state = "waiting"
    BY DEF BoxOK
  <2>1. i \in 1..Len(S) /\ P[i] = S[i]
    BY <1>4, <1>5
  <2>2. /\ S[i].rest # <<>> /\ S[i].box = Head(S[i].rest)
        /\ q[S[i].box].kind = "set" /\ q[S[i].box].state = "waiting"
    BY <2>1 DEF Sound, BoxOK
  <2>3. S[i].box \in Ids
    BY <2>1, FrameFacts
  <2> QED BY <1>1, <2>1, <2>2, <2>3
<1> QED BY <1>7, <1>8, <1>9 DEF Sound, P, p, f

(* A message box is shown for the request that is served. *)
LEMMA BoxSound ==
    ASSUME NEW q, NEW W \in Seq(Ids), NEW S \in Seq(Frame), Sound(q, W, S), NEW n \in 1..Len(S),
           S[n].rest # <<>>, NEW r \in Ids, r = Head(S[n].rest), q[r].kind = "set", q[r].state = "waiting"
    PROVE  [S EXCEPT ![n].box = r] \in Seq(Frame) /\ Sound(q, W, [S EXCEPT ![n].box = r])
<1> DEFINE f == [S[n] EXCEPT !.box = r]
           P == [S EXCEPT ![n] = f]
<1>1. f \in Frame /\ f.rest = S[n].rest /\ f.box = r
  <2>1. S[n] \in Frame
    BY FrameFacts
  <2> QED BY <2>1 DEF Frame
<1> HIDE DEF f
<1>2. P \in Seq(Frame) /\ Len(P) = Len(S) /\ \A i \in 1..Len(S) : P[i] = IF i = n THEN f ELSE S[i]
  BY <1>1, ExceptSeq
<1>3. [S EXCEPT ![n].box = r] = P
  BY DEF f
<1> HIDE DEF P
<1>4. \A i \in 1..Len(S) : P[i].rest = S[i].rest
  BY <1>1, <1>2
<1>5. Disjoint(W, P) /\ Busy(q, W, P)
  BY <1>2, <1>4 DEF Sound, Disjoint, Busy
<1>6. BoxOK(q, P)
  BY <1>1, <1>2 DEF Sound, BoxOK
<1> QED BY <1>2, <1>3, <1>5, <1>6 DEF Sound

-----------------------------------------------------------------------------
(* What sets and what only reads. *)

(* Only the kinds and values of the requests in a list matter. *)
LEMMA Agree ==
    ASSUME NEW q, NEW p, NEW s \in Seq(Ids),
           \A x \in Ids : In(x, s) => p[x].kind = q[x].kind /\ p[x].value = q[x].value
    PROVE  /\ Reading(q, s) => Reading(p, s)
           /\ \A v : EndsInSet(q, s, v) => EndsInSet(p, s, v)
<1>1. \A i \in 1..Len(s) : p[s[i]].kind = q[s[i]].kind /\ p[s[i]].value = q[s[i]].value
  BY ElementOfSeq DEF In
<1>2. Reading(q, s) => Reading(p, s)
  BY <1>1 DEF Reading
<1>3. ASSUME NEW v, EndsInSet(q, s, v) PROVE EndsInSet(p, s, v)
  <2>1. PICK i \in 1..Len(s) : /\ q[s[i]].kind = "set" /\ q[s[i]].value = v
                               /\ \A j \in 1..Len(s) : j > i => q[s[j]].kind \in Reads
    BY <1>3 DEF EndsInSet
  <2> QED BY <1>1, <2>1 DEF EndsInSet
<1> QED BY <1>2, <1>3

LEMMA EmptyReads ==
    ASSUME NEW q
    PROVE  Reading(q, <<>>) /\ \A v : ~EndsInSet(q, <<>>, v)
<1>1. 1..Len(<<>>) = {}
  OBVIOUS
<1> QED BY <1>1 DEF Reading, EndsInSet

(* A request that sets makes the end of a list, one that reads leaves it.  *)
LEMMA AppendReads ==
    ASSUME NEW q, NEW s \in Seq(Ids), NEW r \in Ids
    PROVE  /\ q[r].kind \in Reads /\ Reading(q, s) => Reading(q, Append(s, r))
           /\ q[r].kind = "set" => EndsInSet(q, Append(s, r), q[r].value)
           /\ \A v : q[r].kind \in Reads /\ EndsInSet(q, s, v) => EndsInSet(q, Append(s, r), v)
<1> DEFINE p == Append(s, r)
<1>1. /\ Len(p) = Len(s) + 1 /\ Len(s) \in Nat
      /\ \A i \in 1..Len(s) : p[i] = s[i]
      /\ p[Len(s) + 1] = r
      /\ \A i \in 1..Len(p) : i \in 1..Len(s) \/ i = Len(s) + 1
  BY PushFacts
<1> HIDE DEF p
<1>2. ASSUME q[r].kind \in Reads, Reading(q, s) PROVE Reading(q, p)
  BY <1>1, <1>2 DEF Reading
<1>3. ASSUME q[r].kind = "set" PROVE EndsInSet(q, p, q[r].value)
  <2>1. Len(p) \in 1..Len(p) /\ p[Len(p)] = r /\ \A j \in 1..Len(p) : ~(j > Len(p))
    BY <1>1
  <2> QED BY <1>3, <2>1 DEF EndsInSet
<1>4. ASSUME NEW v, q[r].kind \in Reads, EndsInSet(q, s, v) PROVE EndsInSet(q, p, v)
  <2>1. PICK i \in 1..Len(s) : /\ q[s[i]].kind = "set" /\ q[s[i]].value = v
                               /\ \A j \in 1..Len(s) : j > i => q[s[j]].kind \in Reads
    BY <1>4 DEF EndsInSet
  <2>2. i \in 1..Len(p) /\ p[i] = s[i]
    BY <1>1
  <2>3. ASSUME NEW j \in 1..Len(p), j > i PROVE q[p[j]].kind \in Reads
    BY <1>1, <1>4, <2>1, <2>3
  <2> QED BY <2>1, <2>2, <2>3 DEF EndsInSet
<1> QED BY <1>2, <1>3, <1>4 DEF p

(* The end is still there when the first is served, unless it was that.    *)
LEMMA TailReads ==
    ASSUME NEW q, NEW s \in Seq(Ids), s # <<>>
    PROVE  /\ Reading(q, s) => Reading(q, Tail(s)) /\ q[Head(s)].kind \in Reads
           /\ \A v : EndsInSet(q, s, v) => \/ EndsInSet(q, Tail(s), v)
                                           \/ /\ q[Head(s)].kind = "set" /\ q[Head(s)].value = v
                                              /\ Reading(q, Tail(s))
<1> DEFINE p == Tail(s)
<1>1. /\ Len(s) \in Nat /\ Len(s) > 0 /\ Len(p) = Len(s) - 1 /\ Head(s) = s[1]
      /\ \A i \in 1..Len(p) : i + 1 \in 1..Len(s) /\ p[i] = s[i + 1]
  BY TailFacts
<1> HIDE DEF p
<1>2. ASSUME Reading(q, s) PROVE Reading(q, p) /\ q[Head(s)].kind \in Reads
  <2>1. 1 \in 1..Len(s)
    BY <1>1
  <2> QED BY <1>1, <1>2, <2>1 DEF Reading
<1>3. ASSUME NEW v, EndsInSet(q, s, v)
      PROVE  \/ EndsInSet(q, p, v)
             \/ q[Head(s)].kind = "set" /\ q[Head(s)].value = v /\ Reading(q, p)
  <2>1. PICK i \in 1..Len(s) : /\ q[s[i]].kind = "set" /\ q[s[i]].value = v
                               /\ \A j \in 1..Len(s) : j > i => q[s[j]].kind \in Reads
    BY <1>3 DEF EndsInSet
  <2>2. CASE i = 1
    <3>1. ASSUME NEW j \in 1..Len(p) PROVE q[p[j]].kind \in Reads
      <4>1. j + 1 > i
        BY <2>2
      <4> QED BY <1>1, <2>1, <4>1
    <3> QED BY <1>1, <2>1, <2>2, <3>1 DEF Reading
  <2>3. CASE i # 1
    <3>1. i - 1 \in 1..Len(p) /\ i - 1 + 1 = i
      BY <1>1, <2>3
    <3>2. p[i - 1] = s[i]
      BY <1>1, <3>1
    <3>3. ASSUME NEW j \in 1..Len(p), j > i - 1 PROVE q[p[j]].kind \in Reads
      <4>1. j + 1 > i
        BY <3>3
      <4> QED BY <1>1, <2>1, <4>1
    <3> QED BY <2>1, <3>1, <3>2, <3>3 DEF EndsInSet
  <2> QED BY <2>2, <2>3
<1> QED BY <1>2, <1>3 DEF p

-----------------------------------------------------------------------------
(* The same of the whole order. *)

LEMMA AgreeOrder ==
    ASSUME NEW q, NEW p, NEW W \in Seq(Ids), NEW S \in Seq(Frame), NEW l, NEW e,
           \A x \in Ids : In(x, W) => p[x].kind = q[x].kind /\ p[x].value = q[x].value,
           \A i \in 1..Len(S) : \A x \in Ids :
               In(x, S[i].rest) => p[x].kind = q[x].kind /\ p[x].value = q[x].value
    PROVE  /\ AllReading(q, S) => AllReading(p, S)
           /\ SetsInOrder(q, W, S, l, e) => SetsInOrder(p, W, S, l, e)
<1>1. /\ Reading(q, W) => Reading(p, W)
      /\ \A v : EndsInSet(q, W, v) => EndsInSet(p, W, v)
  BY Agree
<1>2. ASSUME NEW i \in 1..Len(S)
      PROVE  /\ Reading(q, S[i].rest) => Reading(p, S[i].rest)
             /\ \A v : EndsInSet(q, S[i].rest, v) => EndsInSet(p, S[i].rest, v)
  <2>1. S[i].rest \in Seq(Ids)
    BY FrameFacts
  <2> QED BY <2>1, Agree
<1>3. AllReading(q, S) => AllReading(p, S)
  BY <1>2 DEF AllReading
<1>4. ASSUME SetsInOrder(q, W, S, l, e) PROVE SetsInOrder(p, W, S, l, e)
  <2>0. Len(S) \in Nat /\ (S # <<>> => Len(S) > 0)
    BY LenProperties, TailFacts
  <2>1. (S # <<>> => Len(S) \in 1..Len(S)) /\ (Len(S) = 2 => 1 \in 1..Len(S))
    <3>1. \A i \in Nat : (i > 0 => i \in 1..i) /\ (i = 2 => 1 \in 1..i)
      OBVIOUS
    <3> QED BY <2>0, <3>1
  <2>2. W # <<>> => AllReading(p, S)
    BY <1>3, <1>4 DEF SetsInOrder
  <2>3. Len(S) = 2 => Reading(p, S[1].rest)
    BY <1>2, <1>4, <2>1 DEF SetsInOrder
  <2>4. l[1] = "set" =>
          \/ EndsInSet(p, W, l[2])
          \/ S # <<>> /\ W = <<>> /\ EndsInSet(p, S[Len(S)].rest, l[2])
          \/ Reading(p, W) /\ AllReading(p, S) /\ e = l[2]
    BY <1>1, <1>2, <1>3, <1>4, <2>1 DEF SetsInOrder
  <2> QED BY <1>4, <2>2, <2>3, <2>4 DEF SetsInOrder
<1> QED BY <1>3, <1>4

(* A new request joins, while emissions below it only read. *)
LEMMA JoinOrder ==
    ASSUME NEW q, NEW W \in Seq(Ids), NEW S \in Seq(Frame), NEW l, NEW e, SetsInOrder(q, W, S, l, e),
           AllReading(q, S), NEW r \in Ids, NEW k,
           \/ q[r].kind = "set" /\ k[2] = q[r].value
           \/ q[r].kind \in Reads /\ k = l
           \/ k[1] # "set"
    PROVE  SetsInOrder(q, Append(W, r), S, k, e)
<1>1. /\ q[r].kind \in Reads /\ Reading(q, W) => Reading(q, Append(W, r))
      /\ q[r].kind = "set" => EndsInSet(q, Append(W, r), q[r].value)
      /\ \A v : q[r].kind \in Reads /\ EndsInSet(q, W, v) => EndsInSet(q, Append(W, r), v)
  BY AppendReads
<1>2. ASSUME S # <<>>, NEW v, EndsInSet(q, S[Len(S)].rest, v) PROVE FALSE
  <2>1. Len(S) \in 1..Len(S)
    BY <1>2, TailFacts
  <2>2. Reading(q, S[Len(S)].rest)
    BY <2>1 DEF AllReading
  <2> QED BY <1>2, <2>2 DEF Reading, EndsInSet, Reads
<1>3. ASSUME k[1] = "set"
      PROVE  \/ EndsInSet(q, Append(W, r), k[2])
             \/ Reading(q, Append(W, r)) /\ AllReading(q, S) /\ e = k[2]
  BY <1>1, <1>2, <1>3 DEF SetsInOrder
<1> QED BY <1>3 DEF SetsInOrder

(* The signal is emitted. *)
LEMMA EmitOrder ==
    ASSUME NEW q, NEW W \in Seq(Ids), NEW S \in Seq(Frame), NEW l, NEW e, SetsInOrder(q, W, S, l, e),
           Len(S) <= 1, W # <<>> \/ S = <<>>, NEW w \in Wallets
    PROVE  SetsInOrder(q, <<>>, Append(S, Emission(w, W)), l, e)
<1> DEFINE f == Emission(w, W)
           P == Append(S, f)
           n == Len(S) + 1
<1>1. f \in Frame /\ f.rest = W
  BY EmissionFacts
<1> HIDE DEF f
<1>2. /\ Len(S) \in Nat /\ Len(P) = n /\ P[n] = f /\ P # <<>>
      /\ \A i \in 1..Len(S) : P[i] = S[i]
      /\ \A i \in 1..n : i \in 1..Len(S) \/ i = n
  BY <1>1, PushFacts
<1>3. n <= 2 /\ (n = 2 => 1 \in 1..Len(S))
  BY <1>2
<1>4. Len(<<>>) = 0 /\ (S = <<>> => n = 1)
  OBVIOUS
<1> HIDE DEF P, n
<1>5. Len(P) = 2 => Reading(q, P[1].rest)
  BY <1>2, <1>3, <1>4 DEF SetsInOrder, AllReading
<1>6. ASSUME Reading(q, W), AllReading(q, S) PROVE AllReading(q, P)
  BY <1>1, <1>2, <1>6 DEF AllReading
<1>7. ASSUME l[1] = "set"
      PROVE  \/ EndsInSet(q, P[Len(P)].rest, l[2])
             \/ AllReading(q, P) /\ e = l[2]
  BY <1>1, <1>2, <1>6, <1>7 DEF SetsInOrder
<1>8. Reading(q, <<>>)
  BY EmptyReads
<1> QED BY <1>2, <1>3, <1>5, <1>7, <1>8 DEF SetsInOrder, P, f

(* The first request of the emission on top is served. *)
LEMMA ServedOrder ==
    ASSUME NEW q, NEW W \in Seq(Ids), NEW S \in Seq(Frame), NEW l, NEW e, SetsInOrder(q, W, S, l, e),
           NEW n \in 1..Len(S), n = Len(S), S[n].rest # <<>>,
           NEW P \in Seq(Frame), Len(P) = n, \A i \in 1..n : i # n => P[i] = S[i],
           P[n].rest = Tail(S[n].rest), NEW d,
           q[Head(S[n].rest)].kind \in Reads => d = e,
           q[Head(S[n].rest)].kind = "set" => d = q[Head(S[n].rest)].value
    PROVE  SetsInOrder(q, W, P, l, d)
<1> DEFINE s == S[n].rest
<1>0. S[n].rest \in Seq(Ids)
  BY FrameFacts
<1>1. /\ Reading(q, s) => Reading(q, Tail(s)) /\ q[Head(s)].kind \in Reads
      /\ \A v : EndsInSet(q, s, v) => \/ EndsInSet(q, Tail(s), v)
                                      \/ /\ q[Head(s)].kind = "set" /\ q[Head(s)].value = v
                                         /\ Reading(q, Tail(s))
  BY <1>0, TailReads
<1>2. AllReading(q, S) => AllReading(q, P) /\ q[Head(s)].kind \in Reads
  BY <1>1 DEF AllReading
<1>3. Len(P) <= 2 /\ P # <<>> /\ n \in Nat /\ S # <<>>
  <2>1. Len(S) \in Nat
    BY LenProperties
  <2> QED BY <2>1 DEF SetsInOrder
<1>4. Len(P) = 2 => Reading(q, P[1].rest)
  <2>1. n = 2 => 1 \in 1..n /\ 1 # n
    BY <1>3
  <2> QED BY <2>1 DEF SetsInOrder
<1>5. ASSUME Reading(q, Tail(s)) PROVE AllReading(q, P)
  <2> SUFFICES ASSUME NEW i \in 1..n PROVE Reading(q, P[i].rest)
    BY DEF AllReading
  <2>1. CASE i = n
    BY <1>5, <2>1
  <2>2. CASE i # n
    <3>1. i = 1 /\ n = 2
      BY <1>3, <2>2
    <3> QED BY <1>4, <3>1
  <2> QED BY <2>1, <2>2
<1> HIDE DEF s
<1>6. ASSUME l[1] = "set"
      PROVE  \/ EndsInSet(q, W, l[2])
             \/ P # <<>> /\ W = <<>> /\ EndsInSet(q, P[Len(P)].rest, l[2])
             \/ Reading(q, W) /\ AllReading(q, P) /\ d = l[2]
  <2>1. CASE EndsInSet(q, W, l[2])
    BY <2>1
  <2>2. CASE S # <<>> /\ W = <<>> /\ EndsInSet(q, s, l[2])
    BY <1>1, <1>3, <1>5, <2>2, EmptyReads DEF s
  <2>3. CASE Reading(q, W) /\ AllReading(q, S) /\ e = l[2]
    BY <1>2, <2>3 DEF s
  <2> QED BY <1>6, <2>1, <2>2, <2>3 DEF SetsInOrder, s
<1> QED BY <1>2, <1>3, <1>4, <1>6 DEF SetsInOrder

(* The emission on top is over. *)
LEMMA PopOrder ==
    ASSUME NEW q, NEW W \in Seq(Ids), NEW S \in Seq(Frame), NEW l, NEW e, SetsInOrder(q, W, S, l, e),
           S # <<>>, S[Len(S)].rest = <<>>
    PROVE  SetsInOrder(q, W, SubSeq(S, 1, Len(S) - 1), l, e)
<1> DEFINE P == SubSeq(S, 1, Len(S) - 1)
<1>1. /\ P \in Seq(Frame) /\ Len(S) \in Nat /\ Len(S) > 0 /\ Len(P) = Len(S) - 1
      /\ \A i \in 1..Len(P) : i \in 1..Len(S) /\ P[i] = S[i]
  BY PopFacts
<1> HIDE DEF P
<1>2. Len(P) <= 2 /\ Len(P) # 2
  BY <1>1 DEF SetsInOrder
<1>3. AllReading(q, S) => AllReading(q, P)
  BY <1>1 DEF AllReading
<1>4. ~EndsInSet(q, S[Len(S)].rest, l[2])
  BY EmptyReads
<1> QED BY <1>2, <1>3, <1>4 DEF SetsInOrder, P

-----------------------------------------------------------------------------
(* All of it together, one lemma for each thing a step may do. *)

LEMMA JoinConsistent ==
    ASSUME NEW q, NEW W, NEW S, NEW w, NEW n, NEW b, NEW m, NEW l, NEW e,
           Consistent(q, W, S, w, n, b, m, l, e),
           NEW r \in Ids, q[r].state = "free", NEW x \in Request, x.state = "waiting", NEW k,
           ~b /\ ~m => /\ AllReading(q, S)
                       /\ \/ x.kind = "set" /\ k[2] = x.value
                          \/ x.kind \in Reads /\ k = l
                          \/ k[1] # "set"
    PROVE  Consistent([q EXCEPT ![r] = x], Append(W, r), S, w, n, b, m, k, e)
<1> DEFINE p == [q EXCEPT ![r] = x]
<1>1. /\ q \in [Ids -> Request] /\ W \in Seq(Ids) /\ S \in Seq(Frame)
      /\ Sound(q, W, S) /\ ReadersOnly(q)
      /\ \A i \in 1..Len(S) : S[i].wal # 0 => n
      /\ ~b => NothingStale(q, S, w)
      /\ ~b /\ ~m => SetsInOrder(q, W, S, l, e)
  BY DEF Consistent
<1>2. p \in [Ids -> Request] /\ p[r] = x /\ \A y \in Ids : y # r => p[y] = q[y]
  BY <1>1
<1>3. Append(W, r) \in Seq(Ids)
  BY <1>1, AppendIn
<1>4. Sound(p, Append(W, r), S)
  BY <1>1, JoinSound
<1>5. ~In(r, W) /\ \A i \in 1..Len(S) : ~In(r, S[i].rest)
  BY <1>1 DEF Sound, Busy
<1> HIDE DEF p
<1>6. ReadersOnly(p)
  BY <1>1, <1>2 DEF ReadersOnly
<1>7. ASSUME ~b PROVE NothingStale(p, S, w)
  <2>1. NothingStale(q, S, w)
    BY <1>1, <1>7
  <2>2. ASSUME NEW y \in Ids
        PROVE  /\ p[y].state # "dangling"
               /\ p[y].state \in {"grabbed", "entered"} =>
                     \E i \in 1..Len(S) : S[i].rest # <<>> /\ Head(S[i].rest) = y
    <3>1. CASE y = r
      BY <1>2, <3>1
    <3>2. CASE y # r
      BY <1>2, <2>1, <3>2 DEF NothingStale
    <3> QED BY <3>1, <3>2
  <2> QED BY <2>1, <2>2 DEF NothingStale
<1>8. ASSUME ~b, ~m PROVE SetsInOrder(p, Append(W, r), S, k, e)
  <2>1. SetsInOrder(q, W, S, l, e) /\ AllReading(q, S)
    BY <1>1, <1>8
  <2>2. SetsInOrder(p, W, S, l, e) /\ AllReading(p, S)
    <3>1. \A y \in Ids : In(y, W) => p[y].kind = q[y].kind /\ p[y].value = q[y].value
      BY <1>2, <1>5
    <3>2. \A i \in 1..Len(S) : \A y \in Ids :
              In(y, S[i].rest) => p[y].kind = q[y].kind /\ p[y].value = q[y].value
      BY <1>2, <1>5
    <3> QED BY <1>1, <2>1, <3>1, <3>2, AgreeOrder
  <2>3. \/ p[r].kind = "set" /\ k[2] = p[r].value
        \/ p[r].kind \in Reads /\ k = l
        \/ k[1] # "set"
    BY <1>2, <1>8
  <2> QED BY <1>1, <2>2, <2>3, JoinOrder
<1> QED BY <1>1, <1>2, <1>3, <1>4, <1>6, <1>7, <1>8 DEF Consistent, p

(* The signal is emitted with the wallet v, when the wallet is then u. *)
LEMMA EmitConsistent ==
    ASSUME NEW q, NEW W, NEW S, NEW w, NEW n, NEW b, NEW m, NEW l, NEW e,
           Consistent(q, W, S, w, n, b, m, l, e),
           NEW v \in Wallets, v # 0 => n, NEW u, v \in {0, u},
           ~b => w = u \/ S = <<>>,
           ~b /\ ~m => Len(S) <= 1 /\ (W # <<>> \/ S = <<>>)
    PROVE  Consistent(q, <<>>, Append(S, Emission(v, W)), u, n, b, m, l, e)
<1> DEFINE f == Emission(v, W)
           P == Append(S, f)
           z == Len(S) + 1
<1>1. /\ q \in [Ids -> Request] /\ W \in Seq(Ids) /\ S \in Seq(Frame)
      /\ Sound(q, W, S) /\ ReadersOnly(q)
      /\ \A i \in 1..Len(S) : S[i].wal # 0 => n
      /\ ~b => NothingStale(q, S, w)
      /\ ~b /\ ~m => SetsInOrder(q, W, S, l, e)
  BY DEF Consistent
<1>2. f \in Frame /\ f.rest = W /\ f.box = 0 /\ f.wal = v
  BY <1>1, EmissionFacts
<1>3. Sound(q, <<>>, P)
  BY <1>1, EmitSound
<1>4. ASSUME ~b, ~m PROVE SetsInOrder(q, <<>>, P, l, e)
  BY <1>1, <1>4, EmitOrder
<1> HIDE DEF f
<1>5. /\ Len(S) \in Nat /\ Len(P) = z /\ P[z] = f /\ P \in Seq(Frame)
      /\ \A i \in 1..Len(S) : P[i] = S[i]
      /\ \A i \in 1..z : i \in 1..Len(S) \/ i = z
      /\ \A i \in 1..Len(S) : i \in 1..z
  BY <1>1, <1>2, PushFacts
<1> HIDE DEF P, z
<1>6. \A i \in 1..Len(P) : P[i].wal # 0 => n
  BY <1>1, <1>2, <1>5
<1>7. ASSUME ~b PROVE NothingStale(q, P, u)
  <2>1. NothingStale(q, S, w)
    BY <1>1, <1>7
  <2>2. ASSUME NEW i \in 1..Len(P) PROVE P[i].box = 0 /\ P[i].wal \in {0, u}
    <3>1. CASE i = z
      BY <1>2, <1>5, <3>1
    <3>2. CASE i \in 1..Len(S)
      <4>1. S # <<>>
        BY <3>2
      <4>2. w = u
        BY <1>7, <4>1
      <4> QED BY <1>5, <2>1, <3>2, <4>2 DEF NothingStale
    <3> QED BY <1>5, <3>1, <3>2
  <2>3. ASSUME NEW y \in Ids
        PROVE  /\ q[y].state # "dangling"
               /\ q[y].state \in {"grabbed", "entered"} =>
                     \E i \in 1..Len(P) : P[i].rest # <<>> /\ Head(P[i].rest) = y
    BY <1>5, <2>1 DEF NothingStale
  <2> QED BY <2>2, <2>3 DEF NothingStale
<1> QED BY <1>1, <1>3, <1>4, <1>5, <1>6, <1>7, EmptyList DEF Consistent, P, f

(* The wallet changes while no emission runs, or was none. *)
LEMMA WalletConsistent ==
    ASSUME NEW q, NEW W, NEW S, NEW w, NEW n, NEW b, NEW m, NEW l, NEW e,
           Consistent(q, W, S, w, n, b, m, l, e), NEW u, ~b => S = <<>> \/ w = 0
    PROVE  Consistent(q, W, S, u, n, b, m, l, e)
<1>1. ASSUME ~b PROVE NothingStale(q, S, u)
  <2>1. NothingStale(q, S, w)
    BY <1>1 DEF Consistent
  <2>2. S = <<>> => 1..Len(S) = {}
    OBVIOUS
  <2> QED BY <1>1, <2>1, <2>2 DEF NothingStale
<1> QED BY <1>1 DEF Consistent

(* The first request of the emission on top has been served. *)
LEMMA ServedConsistent ==
    ASSUME NEW q, NEW W, NEW S, NEW w, NEW n, NEW b, NEW m, NEW l, NEW e,
           Consistent(q, W, S, w, n, b, m, l, e),
           NEW z \in 1..Len(S), z = Len(S), S[z].rest # <<>>,
           NEW P \in Seq(Frame), Len(P) = z, \A i \in 1..z : i # z => P[i] = S[i],
           P[z].rest = Tail(S[z].rest), P[z].box = 0, P[z].wal = S[z].wal,
           NEW r, r = Head(S[z].rest),
           NEW x \in Request, x.state = "free" \/ (x.state = "dialog" /\ x.kind \in Reads),
           NEW d, ~b /\ ~m => /\ q[r].kind \in Reads => d = e
                              /\ q[r].kind = "set" => d = q[r].value
    PROVE  Consistent([q EXCEPT ![r] = x], W, P, w, n, b, m, l, d)
<1> DEFINE p == [q EXCEPT ![r] = x]
<1>1. /\ q \in [Ids -> Request] /\ W \in Seq(Ids) /\ S \in Seq(Frame)
      /\ Sound(q, W, S) /\ ReadersOnly(q)
      /\ \A i \in 1..Len(S) : S[i].wal # 0 => n
      /\ ~b => NothingStale(q, S, w)
      /\ ~b /\ ~m => SetsInOrder(q, W, S, l, e)
  BY DEF Consistent
<1>2. Sound(p, W, P)
  BY <1>1, ServedSound
<1>3. S[z].rest \in Seq(Ids)
  BY <1>1, FrameFacts
<1>4. r \in Ids /\ ~In(r, Tail(S[z].rest)) /\ In(r, S[z].rest)
  BY <1>1, <1>3, TailFacts DEF Sound, Disjoint
<1>5. p \in [Ids -> Request] /\ p[r] = x /\ \A y \in Ids : y # r => p[y] = q[y]
  BY <1>1, <1>4
<1>6. ~In(r, W) /\ \A i \in 1..z : ~In(r, P[i].rest)
  <2>1. ~In(r, W) /\ \A i \in 1..z : i # z => ~In(r, S[i].rest)
    BY <1>1, <1>4 DEF Sound, Disjoint
  <2>2. ASSUME NEW i \in 1..z PROVE ~In(r, P[i].rest)
    BY <1>4, <2>1
  <2> QED BY <2>1, <2>2
<1> HIDE DEF p
<1>7. ReadersOnly(p)
  BY <1>1, <1>5 DEF ReadersOnly
<1>8. \A i \in 1..z : P[i].wal = S[i].wal
  OBVIOUS
<1>9. ASSUME ~b PROVE NothingStale(p, P, w)
  <2>1. NothingStale(q, S, w)
    BY <1>1, <1>9
  <2>2. ASSUME NEW i \in 1..z PROVE P[i].box = 0 /\ P[i].wal \in {0, w}
    BY <1>8, <2>1 DEF NothingStale
  <2>3. ASSUME NEW y \in Ids, p[y].state \in {"grabbed", "entered"}
        PROVE  \E i \in 1..z : P[i].rest # <<>> /\ Head(P[i].rest) = y
    <3>1. y # r /\ q[y].state \in {"grabbed", "entered"}
      BY <1>5, <2>3
    <3>2. PICK i \in 1..z : S[i].rest # <<>> /\ Head(S[i].rest) = y
      BY <2>1, <3>1 DEF NothingStale
    <3>3. i # z
      BY <3>1, <3>2
    <3> QED BY <3>2, <3>3
  <2>4. ASSUME NEW y \in Ids PROVE p[y].state # "dangling"
    BY <1>5, <2>1 DEF NothingStale
  <2> QED BY <2>2, <2>3, <2>4 DEF NothingStale
<1>10. ASSUME ~b, ~m PROVE SetsInOrder(p, W, P, l, d)
  <2>0. SetsInOrder(q, W, S, l, e)
    BY <1>1, <1>10
  <2>1. SetsInOrder(q, W, P, l, d)
    BY <1>1, <1>10, <2>0, ServedOrder
  <2>2. \A y \in Ids : In(y, W) => p[y].kind = q[y].kind /\ p[y].value = q[y].value
    BY <1>5, <1>6
  <2>3. \A i \in 1..Len(P) : \A y \in Ids :
            In(y, P[i].rest) => p[y].kind = q[y].kind /\ p[y].value = q[y].value
    BY <1>5, <1>6
  <2> QED BY <1>1, <2>1, <2>2, <2>3, AgreeOrder
<1> QED BY <1>1, <1>2, <1>5, <1>7, <1>8, <1>9, <1>10 DEF Consistent, p

(* The request that is served found a password in the configuration. *)
LEMMA GrabConsistent ==
    ASSUME NEW q, NEW W, NEW S, NEW w, NEW n, NEW b, NEW m, NEW l, NEW e,
           Consistent(q, W, S, w, n, b, m, l, e),
           NEW z \in 1..Len(S), S[z].rest # <<>>, NEW r, r = Head(S[z].rest),
           q[r].kind \in Reads, NEW x \in Request, x.state = "grabbed", x.kind = q[r].kind
    PROVE  Consistent([q EXCEPT ![r] = x], W, S, w, n, b, TRUE, l, e) /\ r \in Ids
<1> DEFINE p == [q EXCEPT ![r] = x]
<1>1. /\ q \in [Ids -> Request] /\ W \in Seq(Ids) /\ S \in Seq(Frame)
      /\ Sound(q, W, S) /\ ReadersOnly(q)
      /\ \A i \in 1..Len(S) : S[i].wal # 0 => n
      /\ ~b => NothingStale(q, S, w)
  BY DEF Consistent
<1>2. S[z].rest \in Seq(Ids)
  BY <1>1, FrameFacts
<1>3. r \in Ids
  BY <1>2, TailFacts
<1>4. p \in [Ids -> Request] /\ p[r] = x /\ \A y \in Ids : y # r => p[y] = q[y]
  BY <1>1, <1>3
<1>5. \A i \in 1..Len(S) : S[i].box # r
  <2> SUFFICES ASSUME NEW i \in 1..Len(S), S[i].box = r PROVE FALSE
    OBVIOUS
  <2>1. r # 0
    BY <1>1, <1>3, FrameFacts
  <2>2. q[r].kind = "set"
    BY <1>1, <2>1 DEF Sound, BoxOK
  <2> QED BY <2>2 DEF Reads
<1>6. Sound(p, W, S)
  BY <1>1, <1>3, <1>5, ChangeSound
<1> HIDE DEF p
<1>7. ReadersOnly(p)
  BY <1>1, <1>4 DEF ReadersOnly
<1>8. ASSUME ~b PROVE NothingStale(p, S, w)
  <2>1. NothingStale(q, S, w)
    BY <1>1, <1>8
  <2>2. ASSUME NEW y \in Ids
        PROVE  /\ p[y].state # "dangling"
               /\ p[y].state \in {"grabbed", "entered"} =>
                     \E i \in 1..Len(S) : S[i].rest # <<>> /\ Head(S[i].rest) = y
    <3>1. CASE y = r
      BY <1>4, <3>1
    <3>2. CASE y # r
      BY <1>4, <2>1, <3>2 DEF NothingStale
    <3> QED BY <3>1, <3>2
  <2> QED BY <2>1, <2>2 DEF NothingStale
<1> QED BY <1>1, <1>3, <1>4, <1>6, <1>7, <1>8 DEF Consistent, p

(* The request that is served shows a message box. *)
LEMMA BoxConsistent ==
    ASSUME NEW q, NEW W, NEW S, NEW w, NEW n, NEW b, NEW m, NEW l, NEW e,
           Consistent(q, W, S, w, n, b, m, l, e),
           NEW z \in 1..Len(S), S[z].rest # <<>>, NEW r \in Ids, r = Head(S[z].rest),
           q[r].kind = "set", q[r].state = "waiting"
    PROVE  Consistent(q, W, [S EXCEPT ![z].box = r], w, n, TRUE, m, l, e)
<1> DEFINE P == [S EXCEPT ![z].box = r]
<1>1. /\ q \in [Ids -> Request] /\ W \in Seq(Ids) /\ S \in Seq(Frame)
      /\ Sound(q, W, S) /\ ReadersOnly(q)
      /\ \A i \in 1..Len(S) : S[i].wal # 0 => n
  BY DEF Consistent
<1>2. P \in Seq(Frame) /\ Sound(q, W, P)
  BY <1>1, BoxSound
<1>3. \A i \in 1..Len(P) : P[i].wal # 0 => n
  <2>1. S[z] \in Frame
    BY <1>1, FrameFacts
  <2>2. [S[z] EXCEPT !.box = r] \in Frame /\ [S[z] EXCEPT !.box = r].wal = S[z].wal
    BY <2>1 DEF Frame
  <2>3. Len(P) = Len(S) /\ \A i \in 1..Len(S) : P[i] = IF i = z THEN [S[z] EXCEPT !.box = r] ELSE S[i]
    BY <1>1, <2>2, ExceptSeq
  <2> QED BY <1>1, <2>2, <2>3
<1> QED BY <1>1, <1>2, <1>3 DEF Consistent

(* The emission on top is over. *)
LEMMA PopConsistent ==
    ASSUME NEW q, NEW W, NEW S, NEW w, NEW n, NEW b, NEW m, NEW l, NEW e,
           Consistent(q, W, S, w, n, b, m, l, e), S # <<>>, S[Len(S)].rest = <<>>
    PROVE  Consistent(q, W, SubSeq(S, 1, Len(S) - 1), w, n, b, m, l, e)
<1> DEFINE P == SubSeq(S, 1, Len(S) - 1)
<1>1. /\ q \in [Ids -> Request] /\ W \in Seq(Ids) /\ S \in Seq(Frame)
      /\ Sound(q, W, S) /\ ReadersOnly(q)
      /\ \A i \in 1..Len(S) : S[i].wal # 0 => n
      /\ ~b => NothingStale(q, S, w)
      /\ ~b /\ ~m => SetsInOrder(q, W, S, l, e)
  BY DEF Consistent
<1>2. /\ P \in Seq(Frame) /\ Len(S) \in Nat /\ Len(S) > 0 /\ Len(P) = Len(S) - 1
      /\ \A i \in 1..Len(P) : i \in 1..Len(S) /\ P[i] = S[i]
  BY <1>1, PopFacts
<1>3. Sound(q, W, P)
  BY <1>1, PopSound
<1>4. ~b /\ ~m => SetsInOrder(q, W, P, l, e)
  BY <1>1, PopOrder
<1> HIDE DEF P
<1>5. ASSUME ~b PROVE NothingStale(q, P, w)
  <2>1. NothingStale(q, S, w)
    BY <1>1, <1>5
  <2>2. ASSUME NEW y \in Ids, q[y].state \in {"grabbed", "entered"}
        PROVE  \E i \in 1..Len(P) : P[i].rest # <<>> /\ Head(P[i].rest) = y
    <3>1. PICK i \in 1..Len(S) : S[i].rest # <<>> /\ Head(S[i].rest) = y
      BY <2>1, <2>2 DEF NothingStale
    <3>2. i # Len(S)
      BY <3>1
    <3>3. i \in 1..Len(P)
      BY <1>2, <3>2
    <3> QED BY <1>2, <3>1, <3>3
  <2> QED BY <1>2, <2>1, <2>2 DEF NothingStale
<1>6. \A i \in 1..Len(P) : P[i].wal # 0 => n
  BY <1>1, <1>2
<1> QED BY <1>1, <1>2, <1>3, <1>4, <1>5, <1>6 DEF Consistent, P

(* A request that shows its dialog ends. *)
LEMMA EndConsistent ==
    ASSUME NEW q, NEW W, NEW S, NEW w, NEW n, NEW b, NEW m, NEW l, NEW e,
           Consistent(q, W, S, w, n, b, m, l, e), NEW r \in Ids, q[r].state = "dialog"
    PROVE  Consistent([q EXCEPT ![r] = Free], W, S, w, n, b, m, l, e)
<1> DEFINE p == [q EXCEPT ![r] = Free]
<1>1. /\ q \in [Ids -> Request] /\ W \in Seq(Ids) /\ S \in Seq(Frame)
      /\ Sound(q, W, S) /\ ReadersOnly(q)
      /\ \A i \in 1..Len(S) : S[i].wal # 0 => n
      /\ ~b => NothingStale(q, S, w)
      /\ ~b /\ ~m => SetsInOrder(q, W, S, l, e)
  BY DEF Consistent
<1>2. Free \in Request /\ Free.state = "free"
  BY DEF Free, Request, Values
<1>3. p \in [Ids -> Request] /\ p[r] = Free /\ \A y \in Ids : y # r => p[y] = q[y]
  BY <1>1, <1>2
<1> HIDE DEF p
<1>4. ~In(r, W) /\ \A i \in 1..Len(S) : ~In(r, S[i].rest)
  BY <1>1 DEF Sound, Busy
<1>5. Disjoint(W, S) /\ Busy(p, W, S)
  BY <1>1, <1>3, <1>4 DEF Sound, Busy
<1>6. BoxOK(p, S)
  <2> SUFFICES ASSUME NEW i \in 1..Len(S), S[i].box # 0
               PROVE  /\ S[i].rest # <<>> /\ S[i].box = Head(S[i].rest)
                      /\ p[S[i].box].kind = "set" /\ p[S[i].box].state = "waiting"
    BY DEF BoxOK
  <2>1. /\ S[i].rest # <<>> /\ S[i].box = Head(S[i].rest)
        /\ q[S[i].box].kind = "set" /\ q[S[i].box].state = "waiting"
    BY <1>1 DEF Sound, BoxOK
  <2>2. S[i].box \in Ids
    BY <1>1, FrameFacts
  <2>3. S[i].box # r
    BY <2>1
  <2> QED BY <1>3, <2>1, <2>2, <2>3
<1>7. ReadersOnly(p)
  BY <1>1, <1>2, <1>3 DEF ReadersOnly
<1>8. ASSUME ~b PROVE NothingStale(p, S, w)
  <2>1. NothingStale(q, S, w)
    BY <1>1, <1>8
  <2>2. ASSUME NEW y \in Ids
        PROVE  /\ p[y].state # "dangling"
               /\ p[y].state \in {"grabbed", "entered"} =>
                     \E i \in 1..Len(S) : S[i].rest # <<>> /\ Head(S[i].rest) = y
    <3>1. CASE y = r
      BY <1>2, <1>3, <3>1
    <3>2. CASE y # r
      BY <1>3, <2>1, <3>2 DEF NothingStale
    <3> QED BY <3>1, <3>2
  <2> QED BY <2>1, <2>2 DEF NothingStale
<1>9. ASSUME ~b, ~m PROVE SetsInOrder(p, W, S, l, e)
  <2>0. SetsInOrder(q, W, S, l, e)
    BY <1>1, <1>9
  <2>1. \A y \in Ids : In(y, W) => p[y].kind = q[y].kind /\ p[y].value = q[y].value
    BY <1>3, <1>4
  <2>2. \A i \in 1..Len(S) : \A y \in Ids :
            In(y, S[i].rest) => p[y].kind = q[y].kind /\ p[y].value = q[y].value
    BY <1>3, <1>4
  <2> QED BY <1>1, <2>0, <2>1, <2>2, AgreeOrder
<1> QED BY <1>1, <1>3, <1>5, <1>6, <1>7, <1>8, <1>9 DEF Consistent, Sound, p

(* A request whose dialog was answered calls set(). *)
LEMMA EnterConsistent ==
    ASSUME NEW q, NEW W, NEW S, NEW w, NEW n, NEW b, NEW m, NEW l, NEW e,
           Consistent(q, W, S, w, n, b, m, l, e), ~b => S = <<>>, NEW r \in Ids, q[r].state = "dialog",
           NEW x \in Request, x.state = "entered", x.kind = q[r].kind
    PROVE  LET p == [q EXCEPT ![r] = x]
               P == Append(S, Emission(0, <<r>>))
           IN  /\ Consistent(p, W, P, w, n, b, m, l, e)
               /\ ~b => AllReading(p, P) /\ Len(P) = 1
<1> DEFINE p == [q EXCEPT ![r] = x]
           f == Emission(0, <<r>>)
           P == Append(S, f)
           z == Len(S) + 1
<1>1. /\ q \in [Ids -> Request] /\ W \in Seq(Ids) /\ S \in Seq(Frame)
      /\ Sound(q, W, S) /\ ReadersOnly(q)
      /\ \A i \in 1..Len(S) : S[i].wal # 0 => n
      /\ ~b => NothingStale(q, S, w)
      /\ ~b /\ ~m => SetsInOrder(q, W, S, l, e)
  BY DEF Consistent
<1>2. p \in [Ids -> Request] /\ p[r] = x /\ \A y \in Ids : y # r => p[y] = q[y]
  BY <1>1
<1>3. Sound(p, W, P)
  BY <1>1, EnterSound
<1>4. /\ <<r>> \in Seq(Ids) /\ <<r>> # <<>> /\ Head(<<r>>) = r
      /\ Len(<<r>>) = 1 /\ <<r>>[1] = r /\ 1..1 = {1}
  OBVIOUS
<1>5. 0 \in Wallets
  BY PasswordAssumption DEF Wallets
<1>6. f \in Frame /\ f.rest = <<r>> /\ f.box = 0 /\ f.wal = 0
  BY <1>4, <1>5, EmissionFacts
<1> HIDE DEF f
<1>7. /\ Len(S) \in Nat /\ Len(P) = z /\ P[z] = f /\ P \in Seq(Frame)
      /\ \A i \in 1..Len(S) : P[i] = S[i]
      /\ \A i \in 1..z : i \in 1..Len(S) \/ i = z
  BY <1>1, <1>6, PushFacts
<1>8. ASSUME S = <<>> PROVE z = 1 /\ \A i \in 1..z : i = 1
  BY <1>8
<1> HIDE DEF P, z, p
<1>9. ReadersOnly(p)
  BY <1>1, <1>2 DEF ReadersOnly
<1>10. \A i \in 1..Len(P) : P[i].wal # 0 => n
  BY <1>1, <1>6, <1>7
<1>11. ASSUME ~b PROVE NothingStale(p, P, w)
  <2>1. NothingStale(q, S, w) /\ S = <<>>
    BY <1>1, <1>11
  <2>2. 1..Len(<<>>) = {} /\ 1 \in 1..1
    OBVIOUS
  <2>3. ASSUME NEW y \in Ids
        PROVE  /\ p[y].state # "dangling"
               /\ p[y].state \in {"grabbed", "entered"} =>
                     \E i \in 1..Len(P) : P[i].rest # <<>> /\ Head(P[i].rest) = y
    <3>1. CASE y = r
      BY <1>2, <1>4, <1>6, <1>7, <1>8, <2>1, <2>2, <3>1
    <3>2. CASE y # r
      BY <1>2, <2>1, <2>2, <3>2 DEF NothingStale
    <3> QED BY <3>1, <3>2
  <2>4. \A i \in 1..Len(P) : P[i].box = 0 /\ P[i].wal = 0
    BY <1>6, <1>7, <1>8, <2>1
  <2> QED BY <2>3, <2>4 DEF NothingStale
<1>12. ASSUME ~b PROVE AllReading(p, P) /\ Len(P) = 1
  <2>1. S = <<>> /\ p[r].kind \in Reads
    BY <1>1, <1>2, <1>12 DEF ReadersOnly
  <2>2. Reading(p, <<r>>)
    BY <1>4, <2>1 DEF Reading
  <2> QED BY <1>6, <1>7, <1>8, <2>1, <2>2 DEF AllReading
<1>13. ASSUME ~b, ~m PROVE SetsInOrder(p, W, P, l, e)
  <2>0. SetsInOrder(q, W, S, l, e) /\ S = <<>>
    BY <1>1, <1>13
  <2>1. ~In(r, W)
    BY <1>1 DEF Sound, Busy
  <2>2. \A y \in Ids : In(y, W) => p[y].kind = q[y].kind /\ p[y].value = q[y].value
    BY <1>2, <2>1
  <2>3. (Reading(q, W) => Reading(p, W)) /\ \A v : EndsInSet(q, W, v) => EndsInSet(p, W, v)
    BY <1>1, <2>2, Agree
  <2>4. AllReading(p, P) /\ Len(P) <= 2 /\ Len(P) # 2
    <3>1. Len(P) = 1
      BY <1>12, <1>13
    <3> QED BY <1>12, <1>13, <3>1
  <2>5. l[1] = "set" => EndsInSet(p, W, l[2]) \/ (Reading(p, W) /\ AllReading(p, P) /\ e = l[2])
    BY <2>0, <2>3, <2>4 DEF SetsInOrder
  <2> QED BY <2>4, <2>5 DEF SetsInOrder
<1>14. Consistent(p, W, P, w, n, b, m, l, e)
  BY <1>1, <1>2, <1>3, <1>7, <1>9, <1>10, <1>11, <1>13 DEF Consistent
<1> QED BY <1>12, <1>14 DEF P, p, f

(* The account is destroyed: requests to read end, go or dangle. *)
Ended(q) ==
    [r \in Ids |->
        CASE q[r].kind \in Reads /\ q[r].state = "waiting" -> [q[r] EXCEPT !.state = "gone"]
          [] q[r].state = "dialog" -> Free
          [] q[r].state \in {"grabbed", "entered"} -> [q[r] EXCEPT !.state = "dangling"]
          [] OTHER -> q[r]]

LEMMA EndedFacts ==
    ASSUME NEW q \in [Ids -> Request], ReadersOnly(q), NEW r \in Ids
    PROVE  /\ Ended(q)[r] \in Request
           /\ q[r].kind \notin Reads => Ended(q)[r] = q[r]
           /\ q[r].state # "dialog" => /\ Ended(q)[r].kind = q[r].kind
                                       /\ Ended(q)[r].value = q[r].value
           /\ q[r].state \notin {"free", "dialog"} => Ended(q)[r].state \notin {"free", "dialog"}
           /\ q[r].state \in {"free", "dialog"} => Ended(q)[r].state = "free"
           /\ q[r].state \notin {"dangling", "grabbed", "entered"} =>
                 Ended(q)[r].state \notin {"dangling", "grabbed", "entered"}
<1> DEFINE x == Ended(q)[r]
<1>1. q[r] \in Request /\ (q[r].state \notin {"free", "waiting"} => q[r].kind \in Reads)
  BY DEF ReadersOnly
<1>2. Free \in Request /\ Free.state = "free"
  BY DEF Free, Request, Values
<1>3. CASE q[r].kind \in Reads /\ q[r].state = "waiting"
  <2>1. x = [q[r] EXCEPT !.state = "gone"]
    BY <1>3 DEF Ended
  <2>2. x \in Request /\ x.kind = q[r].kind /\ x.value = q[r].value /\ x.state = "gone"
    BY <1>1, <2>1 DEF Request
  <2> HIDE DEF x
  <2> QED BY <1>3, <2>2 DEF x
<1>4. CASE q[r].state = "dialog"
  <2>1. x = Free
    BY <1>4 DEF Ended
  <2> HIDE DEF x
  <2> QED BY <1>1, <1>2, <1>4, <2>1 DEF x
<1>5. CASE q[r].state \in {"grabbed", "entered"}
  <2>1. x = [q[r] EXCEPT !.state = "dangling"]
    BY <1>5 DEF Ended
  <2>2. x \in Request /\ x.kind = q[r].kind /\ x.value = q[r].value /\ x.state = "dangling"
    BY <1>1, <2>1 DEF Request
  <2> HIDE DEF x
  <2> QED BY <1>1, <1>5, <2>2 DEF x
<1>6. CASE /\ ~(q[r].kind \in Reads /\ q[r].state = "waiting")
           /\ q[r].state \notin {"dialog", "grabbed", "entered"}
  <2>1. x = q[r]
    BY <1>6 DEF Ended
  <2> HIDE DEF x
  <2> QED BY <1>1, <1>6, <2>1 DEF x
<1> QED BY <1>3, <1>4, <1>5, <1>6

LEMMA DestroyConsistent ==
    ASSUME NEW q, NEW W, NEW S, NEW w, NEW n, NEW b, NEW m, NEW l, NEW e,
           Consistent(q, W, S, w, n, b, m, l, e), ~b => S = <<>>
    PROVE  Consistent(Ended(q), W, S, w, n, b, m, l, e)
<1> DEFINE p == Ended(q)
<1>1. /\ q \in [Ids -> Request] /\ W \in Seq(Ids) /\ S \in Seq(Frame)
      /\ Sound(q, W, S) /\ ReadersOnly(q)
      /\ \A i \in 1..Len(S) : S[i].wal # 0 => n
      /\ ~b => NothingStale(q, S, w)
      /\ ~b /\ ~m => SetsInOrder(q, W, S, l, e)
  BY DEF Consistent
<1>2. \A r \in Ids :
        /\ p[r] \in Request
        /\ q[r].kind \notin Reads => p[r] = q[r]
        /\ q[r].state # "dialog" => p[r].kind = q[r].kind /\ p[r].value = q[r].value
        /\ q[r].state \notin {"free", "dialog"} => p[r].state \notin {"free", "dialog"}
        /\ q[r].state \in {"free", "dialog"} => p[r].state = "free"
        /\ q[r].state \notin {"dangling", "grabbed", "entered"} =>
              p[r].state \notin {"dangling", "grabbed", "entered"}
  BY <1>1, EndedFacts
<1>3. p \in [Ids -> Request]
  <2>1. p = [r \in Ids |-> p[r]]
    BY DEF Ended
  <2> HIDE DEF p
  <2> QED BY <1>2, <2>1
<1> HIDE DEF p
<1>4. Busy(p, W, S)
  BY <1>1, <1>2 DEF Sound, Busy
<1>5. BoxOK(p, S)
  <2> SUFFICES ASSUME NEW i \in 1..Len(S), S[i].box # 0
               PROVE  /\ S[i].rest # <<>> /\ S[i].box = Head(S[i].rest)
                      /\ p[S[i].box].kind = "set" /\ p[S[i].box].state = "waiting"
    BY DEF BoxOK
  <2>1. /\ S[i].rest # <<>> /\ S[i].box = Head(S[i].rest)
        /\ q[S[i].box].kind = "set" /\ q[S[i].box].state = "waiting"
    BY <1>1 DEF Sound, BoxOK
  <2>2. S[i].box \in Ids /\ q[S[i].box].kind \notin Reads
    BY <1>1, <2>1, FrameFacts DEF Reads
  <2> QED BY <1>2, <2>1, <2>2
<1>6. ReadersOnly(p)
  <2> SUFFICES ASSUME NEW r \in Ids, p[r].state \notin {"free", "waiting"}, p[r].kind \notin Reads
               PROVE  FALSE
    BY DEF ReadersOnly
  <2>1. q[r].kind \notin Reads
    BY <1>2
  <2> QED BY <1>1, <1>2, <2>1 DEF ReadersOnly
<1>7. ASSUME ~b PROVE NothingStale(p, S, w)
  <2>1. S = <<>> /\ 1..Len(S) = {}
    BY <1>7
  <2>2. \A r \in Ids : q[r].state \notin {"dangling", "grabbed", "entered"}
    BY <1>1, <1>7, <2>1 DEF NothingStale
  <2> QED BY <1>2, <2>1, <2>2 DEF NothingStale
<1>8. ASSUME ~b, ~m PROVE SetsInOrder(p, W, S, l, e)
  <2>1. \A x \in Ids : In(x, W) => p[x].kind = q[x].kind /\ p[x].value = q[x].value
    BY <1>1, <1>2 DEF Sound, Busy
  <2>2. \A i \in 1..Len(S) : \A x \in Ids :
            In(x, S[i].rest) => p[x].kind = q[x].kind /\ p[x].value = q[x].value
    BY <1>1, <1>2 DEF Sound, Busy
  <2> QED BY <1>1, <1>8, <2>1, <2>2, AgreeOrder
<1> QED BY <1>1, <1>3, <1>4, <1>5, <1>6, <1>7, <1>8 DEF Consistent, Sound, p

-----------------------------------------------------------------------------
(* The steps. *)

(* The type of what is no list and no request. *)
Plain ==
    /\ remembered \in BOOLEAN /\ isWrong \in BOOLEAN /\ enabled \in BOOLEAN
    /\ allowBlank \in BOOLEAN /\ owner \in BOOLEAN
    /\ fromConfig \in Values /\ cached \in Values /\ entry \in Values
    /\ crashed \in BOOLEAN /\ boxed \in BOOLEAN /\ migrated \in BOOLEAN
    /\ nCalls \in 0..MaxCalls /\ nWrong \in 0..MaxWrong

WalletOK ==
    /\ wallet \in Wallets /\ nWallets \in Wallets /\ posted \in Nat
    /\ open \in BOOLEAN /\ (open => enabled)

All == Consistent(req, waiters, stack, wallet, enabled, boxed, migrated, last, Effective)

LEMMA InvFacts == Inv <=> Plain /\ WalletOK /\ All /\ DanglingOnlyAfterBox
<1>1. Inv => Plain /\ WalletOK /\ All /\ DanglingOnlyAfterBox
  BY DEF Inv, TypeOK, Plain, WalletOK, All
<1>2. ASSUME All
      PROVE  /\ req \in [Ids -> Request] /\ waiters \in Seq(Ids) /\ stack \in Seq(Frame)
             /\ \A i \in 1..Len(stack) :
                   stack[i].box # 0 => stack[i].rest # <<>> /\ stack[i].box = Head(stack[i].rest)
  BY <1>2 DEF All, Consistent, Sound, BoxOK
<1>3. ASSUME Plain, WalletOK, All PROVE TypeOK
  BY <1>2, <1>3 DEF TypeOK, Plain, WalletOK
<1> QED BY <1>1, <1>3 DEF Inv, All, WalletOK

LEMMA InvFactsNext == Inv' <=> Plain' /\ WalletOK' /\ All' /\ DanglingOnlyAfterBox'
<1>1. Inv' => Plain' /\ WalletOK' /\ All' /\ DanglingOnlyAfterBox'
  BY DEF Inv, TypeOK, Plain, WalletOK, All
<1>2. ASSUME All'
      PROVE  /\ req' \in [Ids -> Request] /\ waiters' \in Seq(Ids) /\ stack' \in Seq(Frame)
             /\ \A i \in 1..Len(stack') :
                   stack'[i].box # 0 => stack'[i].rest # <<>> /\ stack'[i].box = Head(stack'[i].rest)
  BY <1>2 DEF All, Consistent, Sound, BoxOK
<1>3. ASSUME Plain', WalletOK', All' PROVE TypeOK'
  BY <1>2, <1>3 DEF TypeOK, Plain, WalletOK
<1> QED BY <1>1, <1>3 DEF Inv, All, WalletOK

LEMMA EffectiveSame ==
    ASSUME UNCHANGED <<remembered, fromConfig, entry, enabled>>
    PROVE  Effective' = Effective
BY DEF Effective

(* As long as no box was shown, the event loop runs when no emission does. *)
LEMMA LoopFree ==
    ASSUME All, Responsive, ~boxed
    PROVE  stack = <<>>
<1> SUFFICES ASSUME stack # <<>> PROVE FALSE
  OBVIOUS
<1>1. stack \in Seq(Frame) /\ NothingStale(req, stack, wallet)
  BY DEF All, Consistent
<1>2. Len(stack) \in 1..Len(stack)
  BY <1>1, TailFacts
<1>3. Top.box = 0
  BY <1>1, <1>2 DEF NothingStale, Top
<1> QED BY <1>3 DEF Responsive

LEMMA InitInv == Init => Inv
<1> SUFFICES ASSUME Init PROVE Inv
  OBVIOUS
<1>0. NoPassword \in Values /\ Passwords \subseteq Values /\ 0 \in Wallets
      /\ 0 \in 0..MaxCalls /\ 0 \in 0..MaxWrong
  BY PasswordAssumption DEF Values, Wallets
<1>1. Plain
  BY <1>0 DEF Init, Plain
<1>2. WalletOK
  BY <1>0 DEF Init, WalletOK
<1>3. DanglingOnlyAfterBox
  BY DEF Init, DanglingOnlyAfterBox
<1>4. req \in [Ids -> Request] /\ \A r \in Ids : req[r].state = "free"
  <2>1. Free \in Request /\ Free.state = "free"
    BY <1>0 DEF Free, Request
  <2> QED BY <2>1 DEF Init
<1>5. stack = <<>> /\ waiters = <<>> /\ last[1] # "set"
  BY DEF Init
<1>6. <<>> \in Seq(Ids) /\ <<>> \in Seq(Frame) /\ Len(<<>>) = 0 /\ 1..Len(<<>>) = {}
      /\ 0 <= 2 /\ 0 # 2
  OBVIOUS
<1>7. Sound(req, waiters, stack)
  BY <1>5, <1>6, EmptyList DEF Sound, Disjoint, Busy, BoxOK
<1>8. ReadersOnly(req) /\ NothingStale(req, stack, wallet)
  BY <1>4, <1>5, <1>6 DEF ReadersOnly, NothingStale
<1>9. SetsInOrder(req, waiters, stack, last, Effective)
  BY <1>5, <1>6 DEF SetsInOrder
<1>10. All
  BY <1>4, <1>5, <1>6, <1>7, <1>8, <1>9 DEF All, Consistent
<1> QED BY <1>1, <1>2, <1>3, <1>10, InvFacts

(* openWalletInner(): the requests wait on, or the signal is emitted       *)
(* without a wallet.                                                       *)
LEMMA OpenConsistent ==
    ASSUME WalletOK, NEW q, NEW W, NEW S, NEW p \in Nat, NEW b, NEW m, NEW l, NEW e,
           Consistent(q, W, S, wallet, enabled, b, m, l, e),
           ~b /\ ~m => Len(S) <= 1 /\ (W # <<>> \/ S = <<>>),
           OpenWalletInner(S, W, p)
    PROVE  /\ Consistent(q, waiters', stack', wallet', enabled, b, m, l, e)
           /\ wallet' \in Wallets /\ nWallets' \in Wallets /\ posted' \in Nat
           /\ open' \in BOOLEAN /\ (open' => enabled)
<1>1. CASE /\ posted' = IF open THEN p + 1 ELSE p
           /\ waiters' = W /\ stack' = S
           /\ UNCHANGED <<wallet, open, nWallets>>
  <2>1. posted' \in Nat
    BY <1>1
  <2> QED BY <1>1, <2>1 DEF WalletOK
<1>2. CASE /\ wallet = 0 /\ nWallets < MaxWallets
           /\ nWallets' = nWallets + 1 /\ wallet' = nWallets + 1 /\ open' = FALSE
           /\ waiters' = W /\ stack' = S /\ posted' = p
  <2>1. nWallets + 1 \in Wallets
    BY <1>2, PasswordAssumption DEF WalletOK, Wallets
  <2>2. Consistent(q, W, S, wallet', enabled, b, m, l, e)
    BY <1>2, WalletConsistent
  <2> QED BY <1>2, <2>1, <2>2
<1>3. CASE /\ wallet = 0
           /\ waiters' = <<>> /\ stack' = Append(S, Emission(0, W)) /\ posted' = p
           /\ UNCHANGED <<wallet, open, nWallets>>
  <2>1. 0 \in Wallets
    BY PasswordAssumption DEF Wallets
  <2>2. Consistent(q, <<>>, Append(S, Emission(0, W)), wallet, enabled, b, m, l, e)
    BY <2>1, EmitConsistent
  <2> QED BY <1>3, <2>2 DEF WalletOK
<1> QED BY <1>1, <1>2, <1>3 DEF OpenWalletInner

(* begin() *)
LEMMA BeginConsistent ==
    ASSUME WalletOK, NEW k \in Reads \cup {"set", "clear"}, NEW v \in Values, NEW S, NEW R,
           NEW b, NEW m, NEW l, NEW j, NEW e,
           Consistent(R, waiters, S, wallet, enabled, b, m, l, e),
           ~b /\ ~m => /\ AllReading(R, S) /\ Len(S) <= 1
                       /\ \/ k = "set" /\ j[2] = v
                          \/ k \in Reads /\ j = l
                          \/ j[1] # "set",
           Begin(k, v, S, R)
    PROVE  /\ Consistent(req', waiters', stack', wallet', enabled, b, m, j, e)
           /\ wallet' \in Wallets /\ nWallets' \in Wallets /\ posted' \in Nat
           /\ open' \in BOOLEAN /\ (open' => enabled)
<1> DEFINE x == [kind |-> k, value |-> v, state |-> "waiting"]
<1>1. PICK r \in Ids : /\ R[r] = Free
                       /\ req' = [R EXCEPT ![r] = x]
                       /\ OpenWalletInner(S, Append(waiters, r), posted)
  BY DEF Begin
<1>2. x \in Request /\ x.kind = k /\ x.value = v /\ x.state = "waiting"
  BY DEF Request
<1>3. R[r].state = "free"
  BY <1>1 DEF Free
<1> HIDE DEF x
<1>4. Consistent(req', Append(waiters, r), S, wallet, enabled, b, m, j, e)
  BY <1>1, <1>2, <1>3, JoinConsistent
<1>5. Append(waiters, r) # <<>>
  <2>1. waiters \in Seq(Ids)
    BY DEF Consistent
  <2> QED BY <2>1, AppendIn
<1>6. posted \in Nat
  BY DEF WalletOK
<1> QED BY <1>1, <1>4, <1>5, <1>6, OpenConsistent

LEMMA CallInv ==
    ASSUME Inv, Responsive, NEW k \in Reads \cup {"set", "clear"}, NEW v \in Values, Call(k, v),
           nCalls' \in 0..MaxCalls,
           \/ k = "set" /\ last'[2] = v
           \/ k \in Reads /\ last' = last
           \/ last'[1] # "set"
    PROVE  Inv'
<1>1. Plain /\ WalletOK /\ All /\ DanglingOnlyAfterBox
  BY InvFacts
<1>2. /\ UNCHANGED <<remembered, fromConfig, isWrong, cached, entry, enabled, allowBlank>>
      /\ UNCHANGED <<owner, nWrong, boxed, migrated, crashed>>
      /\ Begin(k, v, stack, req)
  BY DEF Call, storeVars, prefVars
<1>3. ASSUME ~boxed PROVE AllReading(req, stack) /\ Len(stack) <= 1
  <2>1. stack = <<>>
    BY <1>1, <1>3, LoopFree
  <2>2. Len(stack) = 0 /\ 1..Len(stack) = {} /\ 0 <= 1
    BY <2>1
  <2> QED BY <2>2 DEF AllReading
<1>4. /\ Consistent(req', waiters', stack', wallet', enabled, boxed, migrated, last', Effective)
      /\ wallet' \in Wallets /\ nWallets' \in Wallets /\ posted' \in Nat
      /\ open' \in BOOLEAN /\ (open' => enabled)
  BY <1>1, <1>2, <1>3, BeginConsistent DEF All
<1>5. All'
  BY <1>2, <1>4, EffectiveSame DEF All
<1>6. WalletOK'
  BY <1>2, <1>4 DEF WalletOK
<1>7. Plain' /\ DanglingOnlyAfterBox'
  BY <1>1, <1>2 DEF Plain, DanglingOnlyAfterBox
<1> QED BY <1>5, <1>6, <1>7, InvFactsNext

LEMMA CanCallFacts ==
    ASSUME Inv, CanCall
    PROVE  Responsive /\ nCalls' \in 0..MaxCalls
<1>1. nCalls \in 0..MaxCalls
  BY InvFacts DEF Plain
<1> QED BY <1>1, PasswordAssumption DEF CanCall

LEMMA ConnectInv == Inv /\ Connect => Inv'
<1> SUFFICES ASSUME Inv, Connect PROVE Inv'
  OBVIOUS
<1>1. Responsive /\ nCalls' \in 0..MaxCalls
  BY CanCallFacts DEF Connect
<1>2. PICK k \in Reads : Call(k, NoPassword) /\ last' = last
  BY DEF Connect, Reads
<1>3. NoPassword \in Values
  BY DEF Values
<1> QED BY <1>1, <1>2, <1>3, CallInv

LEMMA RequestWithoutPromptInv == Inv /\ RequestWithoutPrompt => Inv'
<1> SUFFICES ASSUME Inv, RequestWithoutPrompt PROVE Inv'
  OBVIOUS
<1>1. Responsive /\ nCalls' \in 0..MaxCalls
  BY CanCallFacts DEF RequestWithoutPrompt
<1>2. PICK k \in Reads : Call(k, NoPassword) /\ last' = last
  BY DEF RequestWithoutPrompt, Reads
<1>3. NoPassword \in Values
  BY DEF Values
<1> QED BY <1>1, <1>2, <1>3, CallInv

LEMMA ClearInv == Inv /\ Clear => Inv'
<1> SUFFICES ASSUME Inv, Clear PROVE Inv'
  OBVIOUS
<1>1. Responsive /\ nCalls' \in 0..MaxCalls
  BY CanCallFacts DEF Clear
<1>2. Call("clear", NoPassword) /\ last'[1] # "set" /\ NoPassword \in Values
  BY DEF Clear, Values
<1> QED BY <1>1, <1>2, CallInv

LEMMA SetInv == ASSUME NEW p \in Passwords PROVE Inv /\ Set(p) => Inv'
<1> SUFFICES ASSUME Inv, Set(p) PROVE Inv'
  OBVIOUS
<1>1. Responsive /\ nCalls' \in 0..MaxCalls
  BY CanCallFacts DEF Set
<1>2. Call("set", p) /\ last'[2] = p /\ p \in Values
  BY DEF Set, Values
<1> QED BY <1>1, <1>2, CallInv

LEMMA SetNullInv == Inv /\ SetNull => Inv'
<1> SUFFICES ASSUME Inv, SetNull PROVE Inv'
  OBVIOUS
<1>1. Responsive /\ nCalls' \in 0..MaxCalls
  BY CanCallFacts DEF SetNull
<1>2. NoPassword \in Values /\ last'[2] = NoPassword
  BY DEF SetNull, Values
<1>3. CASE allowBlank /\ Call("set", NoPassword)
  BY <1>1, <1>2, <1>3, CallInv
<1>4. CASE ~allowBlank /\ Call("clear", NoPassword)
  <2>1. last'[1] # "set"
    BY <1>4 DEF SetNull
  <2> QED BY <1>1, <1>2, <1>4, <2>1, CallInv
<1>5. CASE /\ ~allowBlank /\ ~remembered
           /\ UNCHANGED <<storeVars, prefVars, walVars, req, owner, nWrong, boxed, migrated,
                          stack, crashed>>
  <2>1. last'[1] # "set"
    BY <1>5 DEF SetNull
  <2>2. Plain /\ WalletOK /\ All /\ DanglingOnlyAfterBox
    BY InvFacts
  <2>3. /\ UNCHANGED <<remembered, fromConfig, isWrong, cached, entry, enabled, allowBlank>>
        /\ UNCHANGED <<wallet, open, waiters, posted, nWallets, req, stack>>
        /\ UNCHANGED <<owner, nWrong, boxed, migrated, crashed>>
    BY <1>5 DEF storeVars, prefVars, walVars
  <2>4. Plain' /\ WalletOK' /\ DanglingOnlyAfterBox'
    BY <1>1, <2>2, <2>3 DEF Plain, WalletOK, DanglingOnlyAfterBox
  <2>5. Consistent(req, waiters, stack, wallet, enabled, boxed, migrated, last', Effective)
    BY <2>1, <2>2 DEF All, Consistent, SetsInOrder
  <2>6. All'
    BY <2>3, <2>5, EffectiveSame DEF All
  <2> QED BY <2>4, <2>6, InvFactsNext
<1> QED BY <1>3, <1>4, <1>5 DEF SetNull

LEMMA SetWrongInv == Inv /\ SetWrong => Inv'
<1> SUFFICES ASSUME Inv, SetWrong PROVE Inv'
  OBVIOUS
<1>1. Plain /\ WalletOK /\ All /\ DanglingOnlyAfterBox
  BY InvFacts
<1>2. /\ UNCHANGED <<remembered, fromConfig, entry, enabled, allowBlank>>
      /\ UNCHANGED <<wallet, open, waiters, posted, nWallets, req, stack>>
      /\ UNCHANGED <<owner, nCalls, last, boxed, migrated, crashed>>
  BY DEF SetWrong, prefVars, walVars
<1>3. nWrong' \in 0..MaxWrong /\ isWrong' \in BOOLEAN /\ cached' \in Values
  <2>1. nWrong \in 0..MaxWrong /\ nWrong < MaxWrong
    BY <1>1 DEF Plain, SetWrong
  <2> QED BY <2>1, PasswordAssumption DEF SetWrong, Values
<1>4. Plain' /\ WalletOK' /\ DanglingOnlyAfterBox'
  BY <1>1, <1>2, <1>3 DEF Plain, WalletOK, DanglingOnlyAfterBox
<1>5. All'
  BY <1>1, <1>2, EffectiveSame DEF All
<1> QED BY <1>4, <1>5, InvFactsNext

LEMMA DestroyOwnerInv == Inv /\ DestroyOwner => Inv'
<1> SUFFICES ASSUME Inv, DestroyOwner PROVE Inv'
  OBVIOUS
<1>1. Plain /\ WalletOK /\ All /\ DanglingOnlyAfterBox
  BY InvFacts
<1>2. /\ UNCHANGED <<remembered, fromConfig, isWrong, cached, entry, enabled, allowBlank>>
      /\ UNCHANGED <<wallet, open, waiters, posted, nWallets, stack, crashed>>
      /\ UNCHANGED <<nCalls, nWrong, last, boxed, migrated>>
      /\ owner' \in BOOLEAN /\ Responsive
  BY DEF DestroyOwner, storeVars, prefVars, walVars, histVars
<1>3. req' = Ended(req)
  BY DEF DestroyOwner, Ended
<1>4. ~boxed => stack = <<>>
  BY <1>1, <1>2, LoopFree
<1>5. Consistent(req', waiters, stack, wallet, enabled, boxed, migrated, last, Effective)
  BY <1>1, <1>3, <1>4, DestroyConsistent DEF All
<1>6. All'
  BY <1>2, <1>5, EffectiveSame DEF All
<1>7. Plain' /\ WalletOK' /\ DanglingOnlyAfterBox'
  BY <1>1, <1>2 DEF Plain, WalletOK, DanglingOnlyAfterBox
<1> QED BY <1>6, <1>7, InvFactsNext

(* A request gets on and remembers a password. *)
Advance(q, r, s, v) == [q EXCEPT ![r].state = s, ![r].value = v]

LEMMA AdvanceIs ==
    ASSUME NEW q \in [Ids -> Request], NEW r \in Ids, NEW s, NEW v
    PROVE  Advance(q, r, s, v) = [q EXCEPT ![r] = [kind |-> q[r].kind, value |-> v, state |-> s]]
<1> DEFINE y == [q[r] EXCEPT !.state = s]
<1>1. y = [kind |-> q[r].kind, value |-> q[r].value, state |-> s]
  BY DEF Request
<1>2. [y EXCEPT !.value = v] = [kind |-> q[r].kind, value |-> v, state |-> s]
  <2> HIDE DEF y
  <2> QED BY <1>1
<1>3. Advance(q, r, s, v) = [q EXCEPT ![r] = [y EXCEPT !.value = v]]
  BY DEF Advance
<1> QED BY <1>2, <1>3

LEMMA SlotWalletChangedStatusInv ==
    ASSUME NEW usable \in BOOLEAN
    PROVE  Inv /\ SlotWalletChangedStatus(usable) => Inv'
<1> SUFFICES ASSUME Inv, SlotWalletChangedStatus(usable) PROVE Inv'
  OBVIOUS
<1>1. Plain /\ WalletOK /\ All /\ DanglingOnlyAfterBox
  BY InvFacts
<1>2. /\ UNCHANGED <<remembered, fromConfig, isWrong, cached, entry, enabled, allowBlank>>
      /\ UNCHANGED <<posted, nWallets, req, owner, crashed>>
      /\ UNCHANGED <<nCalls, nWrong, last, boxed, migrated>>
      /\ Responsive
  BY DEF SlotWalletChangedStatus, storeVars, prefVars, histVars
<1>3. /\ stack' = Append(stack, Emission(wallet', waiters)) /\ waiters' = <<>>
      /\ wallet' = IF usable THEN wallet ELSE 0
      /\ open' = usable /\ (usable => enabled)
  BY DEF SlotWalletChangedStatus
<1>4. wallet' \in Wallets /\ (wallet' # 0 => enabled) /\ wallet' \in {0, wallet'}
  <2>1. 0 \in Wallets /\ wallet \in Wallets
    BY <1>1, PasswordAssumption DEF Wallets, WalletOK
  <2> QED BY <1>3, <2>1
<1>5. ~boxed => stack = <<>>
  BY <1>1, <1>2, LoopFree
<1>6. ~boxed => Len(stack) <= 1
  <2>1. Len(<<>>) = 0 /\ 0 <= 1
    OBVIOUS
  <2> QED BY <1>5, <2>1
<1>7. Consistent(req, <<>>, Append(stack, Emission(wallet', waiters)), wallet', enabled, boxed, migrated, last, Effective)
  BY <1>1, <1>4, <1>5, <1>6, EmitConsistent DEF All
<1>8. All'
  BY <1>2, <1>3, <1>7, EffectiveSame DEF All
<1>9. WalletOK'
  BY <1>1, <1>2, <1>3, <1>4 DEF WalletOK
<1>10. Plain' /\ DanglingOnlyAfterBox'
  BY <1>1, <1>2 DEF Plain, DanglingOnlyAfterBox
<1> QED BY <1>8, <1>9, <1>10, InvFactsNext

LEMMA SlotGiveExistingWalletInv == Inv /\ SlotGiveExistingWallet => Inv'
<1> SUFFICES ASSUME Inv, SlotGiveExistingWallet PROVE Inv'
  OBVIOUS
<1>1. Plain /\ WalletOK /\ All /\ DanglingOnlyAfterBox
  BY InvFacts
<1>2. /\ UNCHANGED <<remembered, fromConfig, isWrong, cached, entry, enabled, allowBlank>>
      /\ UNCHANGED <<req, owner, crashed>>
      /\ UNCHANGED <<nCalls, nWrong, last, boxed, migrated>>
      /\ Responsive
  BY DEF SlotGiveExistingWallet, storeVars, prefVars, histVars
<1>3. posted - 1 \in Nat
  BY <1>1 DEF SlotGiveExistingWallet, WalletOK
<1>4. ~boxed => stack = <<>>
  BY <1>1, <1>2, LoopFree
<1>5. ~boxed => Len(stack) <= 1
  <2>1. Len(<<>>) = 0 /\ 0 <= 1
    OBVIOUS
  <2> QED BY <1>4, <2>1
<1>6. Plain' /\ DanglingOnlyAfterBox'
  BY <1>1, <1>2 DEF Plain, DanglingOnlyAfterBox
<1>7. Consistent(req, waiters, stack, wallet, enabled, boxed, migrated, last, Effective)
  BY <1>1 DEF All
<1>8. CASE OpenWalletInner(stack, waiters, posted - 1)
  <2>1. /\ Consistent(req, waiters', stack', wallet', enabled, boxed, migrated, last, Effective)
        /\ wallet' \in Wallets /\ nWallets' \in Wallets /\ posted' \in Nat
        /\ open' \in BOOLEAN /\ (open' => enabled)
    BY <1>1, <1>3, <1>4, <1>5, <1>7, <1>8, OpenConsistent
  <2>2. All' /\ WalletOK'
    BY <1>2, <2>1, EffectiveSame DEF All, WalletOK
  <2> QED BY <1>6, <2>2, InvFactsNext
<1>9. CASE /\ posted' = posted - 1 /\ open
           /\ stack' = Append(stack, Emission(wallet, waiters))
           /\ waiters' = <<>>
           /\ UNCHANGED <<wallet, open, nWallets>>
  <2>1. wallet \in Wallets /\ (wallet # 0 => enabled) /\ wallet \in {0, wallet}
    BY <1>1, <1>9 DEF WalletOK
  <2>2. Consistent(req, <<>>, Append(stack, Emission(wallet, waiters)), wallet, enabled, boxed, migrated, last, Effective)
    BY <1>4, <1>5, <1>7, <2>1, EmitConsistent
  <2>3. All' /\ WalletOK'
    BY <1>1, <1>2, <1>3, <1>9, <2>2, EffectiveSame DEF All, WalletOK
  <2> QED BY <1>6, <2>3, InvFactsNext
<1>10. CASE posted' = posted - 1 /\ UNCHANGED <<stack, waiters, wallet, open, nWallets>>
  <2>1. All' /\ WalletOK'
    BY <1>1, <1>2, <1>3, <1>7, <1>10, EffectiveSame DEF All, WalletOK
  <2> QED BY <1>6, <2>1, InvFactsNext
<1> QED BY <1>8, <1>9, <1>10 DEF SlotGiveExistingWallet

LEMMA CloseWalletInv == Inv /\ CloseWallet => Inv'
<1> SUFFICES ASSUME Inv, CloseWallet PROVE Inv'
  OBVIOUS
<1>1. Plain /\ WalletOK /\ All /\ DanglingOnlyAfterBox
  BY InvFacts
<1>2. /\ UNCHANGED <<remembered, fromConfig, isWrong, cached, entry, enabled, allowBlank>>
      /\ UNCHANGED <<waiters, posted, nWallets, req, owner, stack, crashed>>
      /\ UNCHANGED <<nCalls, nWrong, last, boxed, migrated>>
      /\ Responsive /\ wallet' = 0 /\ open' = FALSE
  BY DEF CloseWallet, storeVars, prefVars, histVars
<1>3. ~boxed => stack = <<>>
  BY <1>1, <1>2, LoopFree
<1>4. Consistent(req, waiters, stack, wallet', enabled, boxed, migrated, last, Effective)
  BY <1>1, <1>3, WalletConsistent DEF All
<1>5. All'
  BY <1>2, <1>4, EffectiveSame DEF All
<1>6. WalletOK'
  <2>1. 0 \in Wallets
    BY PasswordAssumption DEF Wallets
  <2>2. open' \in BOOLEAN /\ (open' => enabled')
    BY <1>2
  <2> QED BY <1>1, <1>2, <2>1, <2>2 DEF WalletOK
<1>7. Plain' /\ DanglingOnlyAfterBox'
  BY <1>1, <1>2 DEF Plain, DanglingOnlyAfterBox
<1> QED BY <1>5, <1>6, <1>7, InvFactsNext

LEMMA EndEmissionInv == Inv /\ EndEmission => Inv'
<1> SUFFICES ASSUME Inv, EndEmission PROVE Inv'
  OBVIOUS
<1>1. Plain /\ WalletOK /\ All /\ DanglingOnlyAfterBox
  BY InvFacts
<1>2. /\ UNCHANGED <<remembered, fromConfig, isWrong, cached, entry, enabled, allowBlank>>
      /\ UNCHANGED <<wallet, open, waiters, posted, nWallets, req, owner, crashed>>
      /\ UNCHANGED <<nCalls, nWrong, last, boxed, migrated>>
  BY DEF EndEmission, storeVars, prefVars, walVars, histVars
<1>3. /\ stack # <<>> /\ stack[Len(stack)].rest = <<>>
      /\ stack' = SubSeq(stack, 1, Len(stack) - 1)
  BY DEF EndEmission, Running, Top, Below
<1>4. Consistent(req, waiters, stack', wallet, enabled, boxed, migrated, last, Effective)
  BY <1>1, <1>3, PopConsistent DEF All
<1>5. All'
  BY <1>2, <1>4, EffectiveSame DEF All
<1>6. Plain' /\ WalletOK' /\ DanglingOnlyAfterBox'
  BY <1>1, <1>2 DEF Plain, WalletOK, DanglingOnlyAfterBox
<1> QED BY <1>5, <1>6, InvFactsNext

LEMMA CancelPressedInv == ASSUME NEW r \in Ids PROVE Inv /\ CancelPressed(r) => Inv'
<1> SUFFICES ASSUME Inv, CancelPressed(r) PROVE Inv'
  OBVIOUS
<1>1. Plain /\ WalletOK /\ All /\ DanglingOnlyAfterBox
  BY InvFacts
<1>2. /\ UNCHANGED <<remembered, fromConfig, isWrong, entry, enabled, allowBlank>>
      /\ UNCHANGED <<wallet, open, waiters, posted, nWallets, stack, owner, crashed>>
      /\ UNCHANGED <<nCalls, nWrong, last, boxed, migrated>>
      /\ cached' = NoPassword /\ req' = [req EXCEPT ![r] = Free] /\ req[r].state = "dialog"
  BY DEF CancelPressed, Finish, prefVars, walVars, histVars
<1>3. Consistent(req', waiters, stack, wallet, enabled, boxed, migrated, last, Effective)
  BY <1>1, <1>2, EndConsistent DEF All
<1>4. All'
  BY <1>2, <1>3, EffectiveSame DEF All
<1>5. Plain' /\ WalletOK' /\ DanglingOnlyAfterBox'
  BY <1>1, <1>2 DEF Plain, WalletOK, DanglingOnlyAfterBox, Values
<1> QED BY <1>4, <1>5, InvFactsNext

LEMMA GotPasswordInv ==
    ASSUME NEW r \in Ids, NEW p \in Passwords, NEW keep \in BOOLEAN
    PROVE  Inv /\ GotPassword(r, p, keep) => Inv'
<1> SUFFICES ASSUME Inv, GotPassword(r, p, keep) PROVE Inv'
  OBVIOUS
<1>1. Plain /\ WalletOK /\ All /\ DanglingOnlyAfterBox
  BY InvFacts
<1>2. /\ UNCHANGED <<remembered, fromConfig, isWrong, entry, enabled, allowBlank>>
      /\ UNCHANGED <<owner, nCalls, nWrong, boxed, migrated, crashed>>
      /\ Responsive /\ req[r].state = "dialog"
  BY DEF GotPassword, prefVars
<1>3. p \in Values
  BY DEF Values
<1>4. CASE keep
  <2> DEFINE x == [kind |-> req[r].kind, value |-> p, state |-> "entered"]
             R == [req EXCEPT ![r] = x]
             S == Append(stack, Emission(0, <<r>>))
  <2>1. req \in [Ids -> Request] /\ req[r] \in Request
    BY <1>1 DEF All, Consistent
  <2>2. x \in Request /\ x.state = "entered" /\ x.kind = req[r].kind
    BY <1>3, <2>1 DEF Request
  <2>3. Advance(req, r, "entered", p) = R
    BY <2>1, AdvanceIs
  <2>4. Begin("set", p, S, R) /\ last' = <<"set", p>> /\ cached' = cached
    <3>1. Begin("set", p, S, Advance(req, r, "entered", p)) /\ last' = <<"set", p>> /\ cached' = cached
      BY <1>4 DEF GotPassword, Advance
    <3> QED BY <2>3, <3>1
  <2>5. ~boxed => stack = <<>>
    BY <1>1, <1>2, LoopFree
  <2> HIDE DEF x
  <2>6. /\ Consistent(R, waiters, S, wallet, enabled, boxed, migrated, last, Effective)
        /\ ~boxed => AllReading(R, S) /\ Len(S) = 1
    BY <1>1, <1>2, <2>2, <2>5, EnterConsistent DEF All
  <2> HIDE DEF R, S
  <2>7. ASSUME ~boxed PROVE Len(S) <= 1
    <3>1. Len(S) = 1
      BY <2>6, <2>7
    <3> QED BY <3>1
  <2>8. last'[2] = p
    BY <2>4
  <2>9. /\ Consistent(req', waiters', stack', wallet', enabled, boxed, migrated, last', Effective)
        /\ wallet' \in Wallets /\ nWallets' \in Wallets /\ posted' \in Nat
        /\ open' \in BOOLEAN /\ (open' => enabled)
    BY <1>1, <1>3, <2>4, <2>6, <2>7, <2>8, BeginConsistent
  <2>10. All'
    BY <1>2, <2>9, EffectiveSame DEF All
  <2>11. WalletOK'
    BY <1>2, <2>9 DEF WalletOK
  <2>12. Plain' /\ DanglingOnlyAfterBox'
    BY <1>1, <1>2, <2>4 DEF Plain, DanglingOnlyAfterBox
  <2> QED BY <2>10, <2>11, <2>12, InvFactsNext
<1>5. CASE ~keep
  <2>1. /\ UNCHANGED <<wallet, open, waiters, posted, nWallets, stack, last>>
        /\ cached' = p /\ req' = [req EXCEPT ![r] = Free]
    BY <1>5 DEF GotPassword, Finish, walVars
  <2>2. Consistent(req', waiters, stack, wallet, enabled, boxed, migrated, last, Effective)
    BY <1>1, <1>2, <2>1, EndConsistent DEF All
  <2>3. All'
    BY <1>2, <2>1, <2>2, EffectiveSame DEF All
  <2>4. Plain' /\ WalletOK' /\ DanglingOnlyAfterBox'
    BY <1>1, <1>2, <1>3, <2>1 DEF Plain, WalletOK, DanglingOnlyAfterBox
  <2> QED BY <2>3, <2>4, InvFactsNext
<1> QED BY <1>4, <1>5

(* The request that is served. *)
LEMMA TopFacts ==
    ASSUME All, stack # <<>>, Top.rest # <<>>
    PROVE  /\ stack \in Seq(Frame) /\ Len(stack) \in 1..Len(stack) /\ Top = stack[Len(stack)]
           /\ Top \in Frame /\ Top.rest \in Seq(Ids) /\ Head(Top.rest) \in Ids
           /\ req[Head(Top.rest)] \in Request /\ req \in [Ids -> Request]
<1>1. stack \in Seq(Frame) /\ req \in [Ids -> Request]
  BY DEF All, Consistent
<1>2. Len(stack) \in 1..Len(stack) /\ Top = stack[Len(stack)]
  BY <1>1, TailFacts DEF Top
<1>3. Top \in Frame /\ Top.rest \in Seq(Ids)
  BY <1>1, <1>2, FrameFacts
<1>4. Head(Top.rest) \in Ids
  BY <1>3, TailFacts
<1> QED BY <1>1, <1>2, <1>3, <1>4

(* Its turn is over. *)
LEMMA ServedIs ==
    ASSUME All, Running, Top.rest # <<>>, NEW r, r = Head(Top.rest),
           NEW x \in Request, x.state = "free" \/ (x.state = "dialog" /\ x.kind \in Reads),
           NEW d, ~boxed /\ ~migrated => /\ req[r].kind \in Reads => d = Effective
                                         /\ req[r].kind = "set" => d = req[r].value
    PROVE  Consistent([req EXCEPT ![r] = x], waiters, Served, wallet, enabled, boxed, migrated, last, d)
<1>0. stack # <<>> /\ Top.box = 0
  BY DEF Running
<1>1. /\ stack \in Seq(Frame) /\ Len(stack) \in 1..Len(stack) /\ Top = stack[Len(stack)]
      /\ Top \in Frame /\ Top.rest \in Seq(Ids)
  BY <1>0, TopFacts
<1> DEFINE z == Len(stack)
           f == [Top EXCEPT !.rest = Tail(@)]
<1>2. f \in Frame /\ f.rest = Tail(Top.rest) /\ f.box = 0 /\ f.wal = Top.wal
  <2>1. Tail(Top.rest) \in Seq(Ids)
    BY <1>1, TailFacts
  <2> QED BY <1>0, <1>1, <2>1 DEF Frame
<1>3. Served = [stack EXCEPT ![z] = f]
  BY <1>1 DEF Served
<1> HIDE DEF f
<1>4. /\ Served \in Seq(Frame) /\ Len(Served) = z
      /\ \A i \in 1..z : Served[i] = IF i = z THEN f ELSE stack[i]
  BY <1>1, <1>2, <1>3, ExceptSeq
<1>5. /\ \A i \in 1..z : i # z => Served[i] = stack[i]
      /\ Served[z].rest = Tail(stack[z].rest) /\ Served[z].box = 0 /\ Served[z].wal = stack[z].wal
  BY <1>1, <1>2, <1>4
<1>6. Consistent(req, waiters, stack, wallet, enabled, boxed, migrated, last, Effective)
  BY DEF All
<1>7. z \in 1..Len(stack) /\ stack[z].rest # <<>> /\ r = Head(stack[z].rest)
  BY <1>1
<1> HIDE DEF z
<1> QED BY <1>4, <1>5, <1>6, <1>7, ServedConsistent DEF z

LEMMA FreeFacts == Free \in Request /\ Free.state = "free"
BY DEF Free, Request, Values

(* processRequest() of a request to read *)
LEMMA GrabbedFacts ==
    ASSUME All, Plain, Running, Top.rest # <<>>, NEW r, r = Head(Top.rest), req[r].kind \in Reads,
           NEW result \in Values, Grabbed(r, result)
    PROVE  /\ Consistent(req', waiters, stack', wallet, enabled, boxed, migrated, last, Effective)
           /\ cached' \in Values
<1>0. stack # <<>>
  BY DEF Running
<1>1. req[r] \in Request /\ r \in Ids
  BY <1>0, TopFacts
<1>2. stack' = Served /\ req[r].kind # "set"
  BY DEF Grabbed, Reads
<1>3. CASE req' = [req EXCEPT ![r] = Free] /\ cached' = result
  <2>1. Consistent([req EXCEPT ![r] = Free], waiters, Served, wallet, enabled, boxed, migrated, last, Effective)
    BY <1>2, FreeFacts, ServedIs
  <2> QED BY <1>2, <1>3, <2>1
<1>4. CASE req' = [req EXCEPT ![r].state = "dialog"] /\ cached' = cached
  <2> DEFINE x == [req[r] EXCEPT !.state = "dialog"]
  <2>1. x \in Request /\ x.state = "dialog" /\ x.kind = req[r].kind
    BY <1>1 DEF Request
  <2>2. req' = [req EXCEPT ![r] = x]
    BY <1>4
  <2> HIDE DEF x
  <2>3. Consistent([req EXCEPT ![r] = x], waiters, Served, wallet, enabled, boxed, migrated, last, Effective)
    BY <1>2, <2>1, ServedIs
  <2>4. cached' \in Values
    BY <1>4 DEF Plain
  <2> QED BY <1>2, <2>2, <2>3, <2>4
<1> QED BY <1>3, <1>4 DEF Grabbed, Finish

LEMMA ServeGetInv ==
    ASSUME Inv, Running, Top.rest # <<>>, ServeGet(Head(Top.rest)),
           UNCHANGED <<prefVars, owner, nCalls, nWrong, last, crashed>>
    PROVE  Inv'
<1> DEFINE r == Head(Top.rest)
<1>1. Plain /\ WalletOK /\ All /\ DanglingOnlyAfterBox
  BY InvFacts
<1>2. /\ UNCHANGED <<remembered, fromConfig, isWrong, entry, enabled, allowBlank>>
      /\ UNCHANGED <<owner, nCalls, nWrong, boxed, last, crashed>>
      /\ req[r].kind \in Reads
  BY DEF ServeGet, prefVars
<1>3. stack # <<>>
  BY DEF Running
<1>4. /\ Len(stack) \in 1..Len(stack) /\ Top = stack[Len(stack)] /\ r \in Ids
      /\ req[r] \in Request /\ req \in [Ids -> Request]
  BY <1>1, <1>3, TopFacts
<1>5. fromConfig \in Values /\ entry \in Values /\ NoPassword \in Values
  BY <1>1 DEF Plain, Values
<1>6. CASE /\ Begin("set", fromConfig, stack, [req EXCEPT ![r].state = "grabbed", ![r].value = fromConfig])
           /\ migrated' = TRUE
           /\ UNCHANGED cached
  <2> DEFINE x == [kind |-> req[r].kind, value |-> fromConfig, state |-> "grabbed"]
             R == [req EXCEPT ![r] = x]
  <2>1. x \in Request /\ x.state = "grabbed" /\ x.kind = req[r].kind
    BY <1>4, <1>5 DEF Request
  <2>2. Begin("set", fromConfig, stack, Advance(req, r, "grabbed", fromConfig))
    BY <1>6 DEF Advance
  <2>3. Advance(req, r, "grabbed", fromConfig) = R
    <3> HIDE DEF r
    <3> QED BY <1>4, AdvanceIs
  <2>4. Begin("set", fromConfig, stack, R)
    BY <2>2, <2>3
  <2> HIDE DEF x
  <2>5. Consistent(R, waiters, stack, wallet, enabled, boxed, TRUE, last, Effective)
    <3>1. Consistent(req, waiters, stack, wallet, enabled, boxed, migrated, last, Effective)
      BY <1>1 DEF All
    <3>2. stack[Len(stack)].rest # <<>> /\ r = Head(stack[Len(stack)].rest)
      BY <1>4
    <3> HIDE DEF r
    <3> QED BY <1>2, <1>4, <2>1, <3>1, <3>2, GrabConsistent
  <2> HIDE DEF R
  <2>6. /\ Consistent(req', waiters', stack', wallet', enabled, boxed, TRUE, last, Effective)
        /\ wallet' \in Wallets /\ nWallets' \in Wallets /\ posted' \in Nat
        /\ open' \in BOOLEAN /\ (open' => enabled)
    BY <1>1, <1>5, <2>4, <2>5, BeginConsistent
  <2>7. All'
    BY <1>2, <1>6, <2>6, EffectiveSame DEF All
  <2>8. WalletOK'
    BY <1>2, <2>6 DEF WalletOK
  <2>9. Plain' /\ DanglingOnlyAfterBox'
    BY <1>1, <1>2, <1>6 DEF Plain, DanglingOnlyAfterBox
  <2> QED BY <2>7, <2>8, <2>9, InvFactsNext
<1>7. CASE /\ \E result \in Values : Grabbed(r, result)
           /\ UNCHANGED <<walVars, migrated>>
  <2>1. PICK result \in Values : Grabbed(r, result)
    BY <1>7
  <2>2. UNCHANGED <<wallet, open, waiters, posted, nWallets, migrated>>
    BY <1>7 DEF walVars
  <2>3. /\ Consistent(req', waiters, stack', wallet, enabled, boxed, migrated, last, Effective)
        /\ cached' \in Values
    BY <1>1, <1>2, <2>1, GrabbedFacts
  <2>4. All'
    BY <1>2, <2>2, <2>3, EffectiveSame DEF All
  <2>5. Plain' /\ WalletOK' /\ DanglingOnlyAfterBox'
    BY <1>1, <1>2, <2>2, <2>3 DEF Plain, WalletOK, DanglingOnlyAfterBox
  <2> QED BY <2>4, <2>5, InvFactsNext
<1> QED BY <1>5, <1>6, <1>7 DEF ServeGet

LEMMA ServeReturnInv ==
    ASSUME Inv, Running, Top.rest # <<>>, ServeReturn(Head(Top.rest)),
           UNCHANGED <<prefVars, owner, nCalls, nWrong, last, crashed>>
    PROVE  Inv'
<1> DEFINE r == Head(Top.rest)
<1>1. Plain /\ WalletOK /\ All /\ DanglingOnlyAfterBox
  BY InvFacts
<1>2. /\ UNCHANGED <<remembered, fromConfig, isWrong, entry, enabled, allowBlank>>
      /\ UNCHANGED <<wallet, open, waiters, posted, nWallets, migrated>>
      /\ UNCHANGED <<owner, nCalls, nWrong, boxed, last, crashed>>
      /\ req[r].state \in {"grabbed", "entered"}
  BY DEF ServeReturn, prefVars, walVars
<1>3. stack # <<>>
  BY DEF Running
<1>4. r \in Ids /\ req[r] \in Request
  BY <1>1, <1>3, TopFacts
<1>5. req[r].kind \in Reads /\ req[r].kind # "set"
  BY <1>1, <1>2, <1>4 DEF All, Consistent, ReadersOnly, Reads
<1>6. req[r].value \in Values
  BY <1>4 DEF Request
<1>7. /\ Consistent(req', waiters, stack', wallet, enabled, boxed, migrated, last, Effective)
      /\ cached' \in Values
  <2>1. CASE Grabbed(r, req[r].value)
    BY <1>1, <1>5, <1>6, <2>1, GrabbedFacts
  <2>2. CASE stack' = Served /\ Finish(r, req[r].value)
    <3>1. Consistent([req EXCEPT ![r] = Free], waiters, Served, wallet, enabled, boxed, migrated, last, Effective)
      BY <1>1, <1>5, FreeFacts, ServedIs
    <3> QED BY <1>6, <2>2, <3>1 DEF Finish
  <2> QED BY <2>1, <2>2 DEF ServeReturn
<1>8. All'
  BY <1>2, <1>7, EffectiveSame DEF All
<1>9. Plain' /\ WalletOK' /\ DanglingOnlyAfterBox'
  BY <1>1, <1>2, <1>7 DEF Plain, WalletOK, DanglingOnlyAfterBox
<1> QED BY <1>8, <1>9, InvFactsNext

(* What a stored password leaves in effect. *)
LEMMA StoreEffective ==
    ASSUME NEW r, remembered' = TRUE, enabled' = enabled,
           \/ enabled /\ fromConfig' = NoPassword /\ entry' = req[r].value
           \/ ~enabled /\ fromConfig' = req[r].value
    PROVE  Effective' = req[r].value
BY DEF Effective

LEMMA ServeSetInv ==
    ASSUME Inv, Running, Top.rest # <<>>, ServeSet(Head(Top.rest)),
           UNCHANGED <<prefVars, owner, nCalls, nWrong, last, crashed>>
    PROVE  Inv'
<1> DEFINE r == Head(Top.rest)
<1>1. Plain /\ WalletOK /\ All /\ DanglingOnlyAfterBox
  BY InvFacts
<1>2. /\ UNCHANGED <<enabled, allowBlank, wallet, open, waiters, posted, nWallets, migrated>>
      /\ UNCHANGED <<owner, nCalls, nWrong, last, crashed>>
      /\ req[r].kind = "set" /\ req[r].state = "waiting"
  BY DEF ServeSet, prefVars, walVars
<1>3. stack # <<>>
  BY DEF Running
<1>4. /\ Len(stack) \in 1..Len(stack) /\ Top = stack[Len(stack)] /\ r \in Ids
      /\ req[r] \in Request /\ stack \in Seq(Frame)
  BY <1>1, <1>3, TopFacts
<1>5. req[r].value \in Values /\ NoPassword \in Values
  BY <1>4 DEF Request, Values
<1>6. ASSUME NEW c \in Values, NEW w \in Values, Store(r, c, w), stack' = Served, UNCHANGED boxed,
             \/ enabled /\ c = NoPassword /\ w = req[r].value
             \/ ~enabled /\ c = req[r].value
      PROVE  Inv'
  <2>1. /\ remembered' = TRUE /\ fromConfig' = c /\ entry' = w /\ isWrong' = FALSE
        /\ cached' = req[r].value /\ req' = [req EXCEPT ![r] = Free]
    BY <1>6 DEF Store
  <2>2. Effective' = req[r].value
    BY <1>2, <1>6, <2>1, StoreEffective
  <2>3. req[r].kind \notin Reads
    BY <1>2 DEF Reads
  <2>4. Consistent([req EXCEPT ![r] = Free], waiters, Served, wallet, enabled, boxed, migrated, last, Effective')
    BY <1>1, <2>2, <2>3, FreeFacts, ServedIs
  <2>5. All'
    BY <1>2, <1>6, <2>1, <2>4 DEF All
  <2>6. Plain'
    BY <1>1, <1>2, <1>5, <1>6, <2>1 DEF Plain
  <2>7. WalletOK' /\ DanglingOnlyAfterBox'
    BY <1>1, <1>2, <1>6 DEF WalletOK, DanglingOnlyAfterBox
  <2> QED BY <2>5, <2>6, <2>7, InvFactsNext
<1>7. CASE Top.wal # 0 /\ Store(r, NoPassword, req[r].value) /\ stack' = Served /\ UNCHANGED boxed
  <2>1. enabled
    BY <1>1, <1>4, <1>7 DEF All, Consistent
  <2> QED BY <1>5, <1>6, <1>7, <2>1
<1>8. CASE ~enabled /\ Store(r, req[r].value, entry) /\ stack' = Served /\ UNCHANGED boxed
  <2>1. entry \in Values
    BY <1>1 DEF Plain
  <2> QED BY <1>5, <1>6, <1>8, <2>1
<1>9. CASE ShowBox(r) /\ UNCHANGED <<storeVars, req>>
  <2>1. /\ UNCHANGED <<remembered, fromConfig, isWrong, cached, entry, req>>
        /\ boxed' = TRUE /\ stack' = [stack EXCEPT ![Len(stack)].box = r]
    BY <1>9 DEF ShowBox, storeVars
  <2>2. stack[Len(stack)].rest # <<>> /\ r = Head(stack[Len(stack)].rest)
    BY <1>4
  <2>3. Consistent(req, waiters, stack, wallet, enabled, boxed, migrated, last, Effective)
    BY <1>1 DEF All
  <2>4. Consistent(req, waiters, stack', wallet, enabled, TRUE, migrated, last, Effective)
    <3> HIDE DEF r
    <3> QED BY <1>2, <1>4, <2>1, <2>2, <2>3, BoxConsistent
  <2>5. All'
    BY <1>2, <2>1, <2>4, EffectiveSame DEF All
  <2>6. Plain'
    BY <1>1, <1>2, <2>1 DEF Plain
  <2>7. WalletOK' /\ DanglingOnlyAfterBox'
    BY <1>1, <1>2, <2>1 DEF WalletOK, DanglingOnlyAfterBox
  <2> QED BY <2>5, <2>6, <2>7, InvFactsNext
<1> QED BY <1>7, <1>8, <1>9 DEF ServeSet

LEMMA ServeClearInv ==
    ASSUME Inv, Running, Top.rest # <<>>, ServeClear(Head(Top.rest)),
           UNCHANGED <<prefVars, owner, nCalls, nWrong, last, crashed>>
    PROVE  Inv'
<1> DEFINE r == Head(Top.rest)
<1>1. Plain /\ WalletOK /\ All /\ DanglingOnlyAfterBox
  BY InvFacts
<1>2. /\ UNCHANGED <<enabled, allowBlank, wallet, open, waiters, posted, nWallets, migrated>>
      /\ UNCHANGED <<owner, nCalls, nWrong, last, crashed, boxed>>
      /\ req[r].kind = "clear" /\ stack' = Served /\ req' = [req EXCEPT ![r] = Free]
  BY DEF ServeClear, prefVars, walVars
<1>3. /\ remembered' = FALSE /\ fromConfig' = NoPassword /\ isWrong' = TRUE /\ cached' = NoPassword
      /\ entry' = IF Top.wal # 0 THEN NoPassword ELSE entry
  BY DEF ServeClear
<1>4. req[r].kind \notin Reads /\ req[r].kind # "set"
  BY <1>2 DEF Reads
<1>5. Consistent([req EXCEPT ![r] = Free], waiters, Served, wallet, enabled, boxed, migrated, last, Effective')
  BY <1>1, <1>4, FreeFacts, ServedIs
<1>6. All'
  BY <1>2, <1>5 DEF All
<1>7. Plain'
  <2>1. NoPassword \in Values /\ entry' \in Values
    BY <1>1, <1>3 DEF Values, Plain
  <2> QED BY <1>1, <1>2, <1>3, <2>1 DEF Plain
<1>8. WalletOK' /\ DanglingOnlyAfterBox'
  BY <1>1, <1>2 DEF WalletOK, DanglingOnlyAfterBox
<1> QED BY <1>6, <1>7, <1>8, InvFactsNext

LEMMA ServeGoneInv ==
    ASSUME Inv, Running, Top.rest # <<>>, ServeGone(Head(Top.rest)),
           UNCHANGED <<prefVars, owner, nCalls, nWrong, last, crashed>>
    PROVE  Inv'
<1> DEFINE r == Head(Top.rest)
<1>1. Plain /\ WalletOK /\ All /\ DanglingOnlyAfterBox
  BY InvFacts
<1>2. /\ UNCHANGED <<remembered, fromConfig, isWrong, cached, entry, enabled, allowBlank>>
      /\ UNCHANGED <<wallet, open, waiters, posted, nWallets, migrated>>
      /\ UNCHANGED <<owner, nCalls, nWrong, last, crashed, boxed>>
      /\ req[r].state = "gone" /\ stack' = Served /\ req' = [req EXCEPT ![r] = Free]
  BY DEF ServeGone, storeVars, prefVars, walVars
<1>3. r \in Ids
  BY <1>1, TopFacts DEF Running
<1>4. req[r].kind \in Reads /\ req[r].kind # "set"
  BY <1>1, <1>2, <1>3 DEF All, Consistent, ReadersOnly, Reads
<1>5. Consistent([req EXCEPT ![r] = Free], waiters, Served, wallet, enabled, boxed, migrated, last, Effective)
  BY <1>1, <1>4, FreeFacts, ServedIs
<1>6. All'
  BY <1>2, <1>5, EffectiveSame DEF All
<1>7. Plain' /\ WalletOK' /\ DanglingOnlyAfterBox'
  BY <1>1, <1>2 DEF Plain, WalletOK, DanglingOnlyAfterBox
<1> QED BY <1>6, <1>7, InvFactsNext

(* A deleted object is used, and that after a message box only. *)
LEMMA CrashInv ==
    ASSUME Inv, Running, Top.rest # <<>>, UsesDeleted(Head(Top.rest)), crashed' = TRUE,
           UNCHANGED <<storeVars, walVars, req, boxed, migrated, stack>>,
           UNCHANGED <<prefVars, owner, nCalls, nWrong, last>>
    PROVE  Inv'
<1> DEFINE r == Head(Top.rest)
<1>1. Plain /\ WalletOK /\ All /\ DanglingOnlyAfterBox
  BY InvFacts
<1>2. /\ UNCHANGED <<remembered, fromConfig, isWrong, cached, entry, enabled, allowBlank>>
      /\ UNCHANGED <<wallet, open, waiters, posted, nWallets, req, stack>>
      /\ UNCHANGED <<owner, nCalls, nWrong, boxed, migrated, last>>
  BY DEF storeVars, walVars, prefVars
<1>3. stack # <<>>
  BY DEF Running
<1>4. /\ Len(stack) \in 1..Len(stack) /\ Top = stack[Len(stack)] /\ r \in Ids
  BY <1>1, <1>3, TopFacts
<1>5. ASSUME ~boxed PROVE FALSE
  <2>1. NothingStale(req, stack, wallet)
    BY <1>1, <1>5 DEF All, Consistent
  <2>2. req[r].state # "dangling" /\ Top.wal \in {0, wallet}
    BY <1>4, <2>1 DEF NothingStale
  <2> QED BY <2>2 DEF UsesDeleted
<1>6. All'
  BY <1>1, <1>2, EffectiveSame DEF All
<1>7. Plain' /\ WalletOK'
  BY <1>1, <1>2 DEF Plain, WalletOK
<1>8. DanglingOnlyAfterBox'
  BY <1>2, <1>5 DEF DanglingOnlyAfterBox
<1> QED BY <1>6, <1>7, <1>8, InvFactsNext

LEMMA ServeInv == Inv /\ Serve => Inv'
<1> SUFFICES ASSUME Inv, Serve PROVE Inv'
  OBVIOUS
<1>1. Running /\ Top.rest # <<>>
  BY DEF Serve
<1>2. CASE UsesDeleted(Head(Top.rest))
  BY <1>1, <1>2, CrashInv DEF Serve
<1>3. CASE ~UsesDeleted(Head(Top.rest))
  <2>1. UNCHANGED <<prefVars, owner, nCalls, nWrong, last, crashed>>
    BY <1>3 DEF Serve
  <2> QED
    BY <1>1, <1>3, <2>1, ServeGoneInv, ServeGetInv, ServeReturnInv, ServeSetInv, ServeClearInv
       DEF Serve
<1> QED BY <1>2, <1>3

LEMMA AnswerBoxInv == ASSUME NEW unsafe \in BOOLEAN PROVE Inv /\ AnswerBox(unsafe) => Inv'
<1> SUFFICES ASSUME Inv, AnswerBox(unsafe) PROVE Inv'
  OBVIOUS
<1> DEFINE z == Len(stack)
           f == Emission(Top.wal, Tail(Top.rest))
           P == Append(Below, f)
           r == Top.box
<1>1. Plain /\ WalletOK /\ All /\ DanglingOnlyAfterBox
  BY InvFacts
<1>2. /\ UNCHANGED <<enabled, allowBlank, wallet, open, waiters, posted, nWallets>>
      /\ UNCHANGED <<owner, crashed, nCalls, nWrong, last, boxed, migrated>>
      /\ stack # <<>> /\ r # 0 /\ stack' = P
  BY DEF AnswerBox, prefVars, walVars, histVars
<1>3. stack \in Seq(Frame) /\ z \in 1..z /\ Top = stack[z] /\ z \in Nat
  <2>1. stack \in Seq(Frame)
    BY <1>1 DEF All, Consistent
  <2> QED BY <1>2, <2>1, TailFacts DEF Top
<1>4. Top.rest # <<>> /\ r = Head(Top.rest)
  BY <1>1, <1>2, <1>3 DEF All, Consistent, Sound, BoxOK
<1>5. Top \in Frame /\ Top.rest \in Seq(Ids) /\ Top.wal \in Wallets
  BY <1>3, FrameFacts
<1>6. r \in Ids /\ req[r] \in Request
  BY <1>1, <1>2, <1>4, TopFacts
<1>7. f \in Frame /\ f.wal = Top.wal /\ f.rest = Tail(Top.rest) /\ f.box = 0
  <2>1. Tail(Top.rest) \in Seq(Ids)
    BY <1>4, <1>5, TailFacts
  <2> QED BY <1>5, <2>1, EmissionFacts
<1>8. /\ Below \in Seq(Frame) /\ Len(Below) = z - 1
      /\ \A i \in 1..(z - 1) : Below[i] = stack[i]
  BY <1>2, <1>3, PopFacts DEF Below
<1> HIDE DEF f
<1>9. /\ P \in Seq(Frame) /\ Len(P) = z - 1 + 1
      /\ \A i \in 1..(z - 1) : P[i] = Below[i]
      /\ P[z - 1 + 1] = f
  BY <1>7, <1>8, PushFacts
<1>10. z - 1 + 1 = z /\ \A i \in 1..z : i # z => i \in 1..(z - 1)
  BY <1>3
<1> HIDE DEF P, z
<1>11. /\ P \in Seq(Frame) /\ Len(P) = z /\ (\A i \in 1..z : i # z => P[i] = stack[i])
       /\ P[z].rest = Tail(stack[z].rest) /\ P[z].box = 0 /\ P[z].wal = stack[z].wal
  BY <1>3, <1>7, <1>8, <1>9, <1>10
<1>12. boxed
  <2> SUFFICES ASSUME ~boxed PROVE FALSE
    BY <1>1 DEF Plain
  <2>1. NothingStale(req, stack, wallet)
    BY <1>1 DEF All, Consistent
  <2> QED BY <1>2, <1>3, <2>1 DEF NothingStale, z
<1>13. Consistent([req EXCEPT ![r] = Free], waiters, P, wallet, enabled, boxed, migrated, last, Effective')
  <2>1. Consistent(req, waiters, stack, wallet, enabled, boxed, migrated, last, Effective)
    BY <1>1 DEF All
  <2>2. z = Len(stack) /\ z \in 1..Len(stack) /\ stack[z].rest # <<>> /\ r = Head(stack[z].rest)
    BY <1>3, <1>4 DEF z
  <2> HIDE DEF r
  <2> QED BY <1>11, <1>12, <2>1, <2>2, FreeFacts, ServedConsistent
<1>14. /\ req' = [req EXCEPT ![r] = Free]
       /\ remembered' \in BOOLEAN /\ isWrong' \in BOOLEAN
       /\ fromConfig' \in Values /\ cached' \in Values /\ entry' \in Values
  <2>1. req[r].value \in Values
    BY <1>6 DEF Request
  <2>2. CASE unsafe
    BY <1>1, <2>1, <2>2 DEF AnswerBox, Store, Plain
  <2>3. CASE ~unsafe
    BY <1>1, <2>3 DEF AnswerBox, storeVars, Plain
  <2> QED BY <2>2, <2>3
<1>15. All'
  BY <1>2, <1>13, <1>14 DEF All
<1>16. Plain' /\ WalletOK' /\ DanglingOnlyAfterBox'
  BY <1>1, <1>2, <1>14 DEF Plain, WalletOK, DanglingOnlyAfterBox
<1> QED BY <1>15, <1>16, InvFactsNext

LEMMA NextInv == Inv /\ [Next]_vars => Inv'
<1> SUFFICES ASSUME Inv, [Next]_vars PROVE Inv'
  OBVIOUS
<1>1. CASE UNCHANGED vars
  <2>1. /\ UNCHANGED <<remembered, fromConfig, isWrong, cached, entry, enabled, allowBlank>>
        /\ UNCHANGED <<wallet, open, waiters, posted, nWallets, req, stack>>
        /\ UNCHANGED <<owner, nCalls, nWrong, boxed, migrated, last, crashed>>
    BY <1>1 DEF vars, storeVars, walVars, prefVars, histVars
  <2>2. Plain /\ WalletOK /\ All /\ DanglingOnlyAfterBox
    BY InvFacts
  <2>3. All'
    BY <2>1, <2>2, EffectiveSame DEF All
  <2>4. Plain' /\ WalletOK' /\ DanglingOnlyAfterBox'
    BY <2>1, <2>2 DEF Plain, WalletOK, DanglingOnlyAfterBox
  <2> QED BY <2>3, <2>4, InvFactsNext
<1>2. CASE Thread
  BY <1>2, ServeInv, EndEmissionInv DEF Thread
<1>3. CASE Calls
  BY <1>3, ConnectInv, RequestWithoutPromptInv, SetNullInv, ClearInv, SetWrongInv, DestroyOwnerInv, SetInv
     DEF Calls
<1>4. CASE User
  BY <1>4, CancelPressedInv, GotPasswordInv, AnswerBoxInv DEF User
<1>5. CASE WalletAnswers
  BY <1>5, SlotWalletChangedStatusInv DEF WalletAnswers
<1>6. CASE SlotGiveExistingWallet
  BY <1>6, SlotGiveExistingWalletInv
<1>7. CASE CloseWallet
  BY <1>7, CloseWalletInv
<1> QED BY <1>1, <1>2, <1>3, <1>4, <1>5, <1>6, <1>7 DEF Next
-----------------------------------------------------------------------------
(* Inv holds in every reachable state. *)
THEOREM PasswordInvariance == Spec => []Inv
<1>1. Init => Inv
  BY InitInv
<1>2. Inv /\ [Next]_vars => Inv'
  BY NextInv
<1> QED BY <1>1, <1>2, PTL DEF Spec

(* The state of Kopete::Password, WalletManager and the requests is always *)
(* well formed: a message box belongs to the request whose                 *)
(* walletReceived() its emission is executing.                             *)
THEOREM PasswordTypeCorrect == Spec => []TypeOK
<1>1. Inv => TypeOK
  BY DEF Inv
<1> QED BY <1>1, PasswordInvariance, PTL

(* However the calls, the wallet and the user interleave, a deleted wallet *)
(* or request is used only after a message box of SetRequest has run its   *)
(* nested event loop.                                                      *)
THEOREM PasswordDangling == Spec => []DanglingOnlyAfterBox
<1>1. Inv => DanglingOnlyAfterBox
  BY DEF Inv
<1> QED BY <1>1, PasswordInvariance, PTL

(* When all requests are done the password that grabPassword() will find   *)
(* is the one that set() was called with last, for any number of calls and *)
(* of wallets lost in between, unless a message box or the move from the   *)
(* configuration file came in between.                                     *)
THEOREM PasswordLastSetWins == Spec => []LastSetWins
<1>1. Inv => LastSetWins
  <2> SUFFICES ASSUME Inv, Quiet, last[1] = "set", ~boxed, ~migrated PROVE Effective = last[2]
    BY DEF LastSetWins
  <2>1. SetsInOrder(req, waiters, stack, last, Effective)
    BY DEF Inv, Consistent
  <2>2. ~EndsInSet(req, waiters, last[2])
    BY EmptyReads DEF Quiet
  <2> QED BY <2>1, <2>2 DEF SetsInOrder, Quiet
<1> QED BY <1>1, PasswordInvariance, PTL
=============================================================================
