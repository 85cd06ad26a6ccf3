------------------------- MODULE ChatSession_proofs -------------------------
(***************************************************************************)
(* Proofs of the safety of ChatSession for any contacts and any number of  *)
(* sessions, messages and changes of preferences.                          *)
(*                                                                         *)
(* The argument is about the events of one message.  A message has an      *)
(* event in the chain first and an event in the unread list afterwards,    *)
(* never both at once, so that what is scheduled for deletion was in the   *)
(* list once and is not about to enter it.                                 *)
(***************************************************************************)
EXTENDS ChatSession, FiniteSetTheorems, SequenceTheorems, WellFoundedInduction, TLAPS

(* Sessions are created in the order of their numbers and not used before. *)
SessionsInOrder ==
    \A s \in Sessions :
        /\ s > nSess <=> status[s] = "unused"
        /\ status[s] = "unused" => refs[s] = 0 /\ view[s] = "none"

(* Messages are, too.  A message that was appended belongs to a session    *)
(* that was created, and comes from its contact or from the user.          *)
MessagesInOrder ==
    \A m \in Msgs :
        /\ m > nMsgs => chain[m] = "none"
        /\ chain[m] # "none" =>
               /\ status[manager[m]] # "unused"
               /\ sender[m] \in {partner[manager[m]], Myself}

(* A message joins the unread list only when it has left the chain. *)
QueuedAfterChain == \A m \in Msgs : Queued(m) => chain[m] = "gone"

(* Every deletion of events that is posted is about some. *)
NonEmpty(q) == \A i \in 1..Len(q) : q[i].type = "deleteEvents" => q[i].ids # {}

(* What is scheduled for deletion as an event left the chain before, and   *)
(* what is scheduled as a session was created.                             *)
PostedSound ==
    /\ NonEmpty(posted)
    /\ \A m \in Dying(posted, "deleteEvents") : m \in Msgs /\ chain[m] = "gone"
    /\ \A s \in Sessions : s \in Dying(posted, "deleteSession") => status[s] # "unused"

(* An event that keeps its hidden chat from being forgotten: it is not     *)
(* going to be deleted, or its deletion is going to show the chat.         *)
Keeps(m, s) ==
    /\ manager[m] = s /\ Queued(m)
    /\ \/ m \notin Dying(posted, "deleteEvents")
       \/ queue[m] = "applied" /\ hooked[m]

HiddenKept ==
    \A s \in Sessions :
        status[s] = "alive" /\ view[s] = "hidden" =>
            \/ \E m \in Msgs : Keeps(m, s)
            \/ s \in dismissed
            \/ s \in unnoticed
            \/ s \in Dying(posted, "deleteSession")

(* The inductive invariant.  The order of the sessions and messages makes  *)
(* a new one fresh; the reference counts make the type of refs inductive;  *)
(* the order of a message's two events makes deletions harmless.           *)
Inv ==
    /\ TypeOK
    /\ SessionsInOrder
    /\ MessagesInOrder
    /\ QueuedAfterChain
    /\ PostedSound
    /\ RefsCountTasks
    /\ EventListSound
    /\ HiddenKept

-----------------------------------------------------------------------------
(* Every nonempty set of natural numbers has a least element. *)
LEMMA LeastNumber ==
    ASSUME NEW T \in SUBSET Nat, T # {}
    PROVE  \E x \in T : \A y \in T : x <= y
<1>1. PICK x \in T : \A y \in T : ~(<<y, x>> \in OpToRel(<, Nat))
  BY WFMin, NatLessThanWellFounded
<1>2. \A y \in T : y < x => <<y, x>> \in OpToRel(<, Nat)
  BY DEF OpToRel
<1>3. \A y \in T : ~(y < x)
  BY <1>1, <1>2, Zenon
<1>4. \A y \in T : x <= y
  BY <1>3
<1> QED BY <1>4

(* A list of events that is not empty has a first one. *)
LEMMA OldestIn ==
    ASSUME arrival \in [Msgs -> Nat], NEW S \in SUBSET Msgs, S # {}
    PROVE  Oldest(S) \in S
<1> DEFINE T == {arrival[m] : m \in S}
<1>1. T \in SUBSET Nat /\ T # {}
  OBVIOUS
<1>2. PICK x \in T : \A y \in T : x <= y
  BY <1>1, LeastNumber
<1>3. PICK m \in S : x = arrival[m]
  OBVIOUS
<1>4. \A n \in S : arrival[m] <= arrival[n]
  BY <1>2, <1>3
<1> QED BY <1>4 DEF Oldest

(* What it means to be scheduled for deletion. *)
LEMMA DyingIs ==
    ASSUME NEW q, NEW kind, NEW x
    PROVE  x \in Dying(q, kind) <=> \E i \in 1..Len(q) : q[i].type = kind /\ x \in q[i].ids
BY DEF Dying

(* A posted event adds what it is about. *)
LEMMA DyingAppend ==
    ASSUME NEW q \in Seq(PostedType), NEW e \in PostedType, NEW kind
    PROVE  /\ Append(q, e) \in Seq(PostedType)
           /\ \A x : x \in Dying(Append(q, e), kind)
                       <=> x \in Dying(q, kind) \/ (e.type = kind /\ x \in e.ids)
<1> DEFINE p == Append(q, e)
<1>1. /\ p \in Seq(PostedType) /\ Len(p) = Len(q) + 1 /\ Len(q) \in Nat
      /\ \A i \in 1..Len(q) : p[i] = q[i]
      /\ p[Len(q) + 1] = e
  BY AppendProperties, LenProperties
<1> HIDE DEF p
<1>2. ASSUME NEW x PROVE x \in Dying(p, kind) <=> x \in Dying(q, kind) \/ (e.type = kind /\ x \in e.ids)
  <2>1. (\E i \in 1..Len(p) : p[i].type = kind /\ x \in p[i].ids)
          <=> \/ \E i \in 1..Len(q) : q[i].type = kind /\ x \in q[i].ids
              \/ e.type = kind /\ x \in e.ids
    <3>1. \A i \in 1..Len(p) : i \in 1..Len(q) \/ i = Len(q) + 1
      BY <1>1
    <3>2. \A i \in 1..Len(q) : i \in 1..Len(p)
      BY <1>1
    <3>3. Len(q) + 1 \in 1..Len(p)
      BY <1>1
    <3> QED BY <1>1, <3>1, <3>2, <3>3, Zenon
  <2> QED BY <2>1, DyingIs
<1> QED BY <1>1, <1>2 DEF p

(* deleteLater() schedules the objects given and no others. *)
LEMMA DeleteLaterFacts ==
    ASSUME NEW q \in Seq(PostedType), NEW S \in SUBSET (Sessions \cup Msgs),
           NEW kind \in {"deleteEvents", "deleteView", "deleteSession"}
    PROVE  LET p == DeleteLater(q, kind, S)
           IN  /\ p \in Seq(PostedType)
               /\ \A x : x \in Dying(p, kind) <=> x \in Dying(q, kind) \/ x \in S
               /\ \A k : k # kind => \A x : x \in Dying(p, k) <=> x \in Dying(q, k)
<1>1. CASE S \subseteq Dying(q, kind)
  BY <1>1 DEF DeleteLater
<1>2. CASE ~(S \subseteq Dying(q, kind))
  <2> DEFINE e == [type |-> kind, ids |-> S \ Dying(q, kind)]
  <2>1. e \in PostedType /\ e.type = kind /\ e.ids = S \ Dying(q, kind)
    BY DEF PostedType
  <2>2. DeleteLater(q, kind, S) = Append(q, e)
    BY <1>2 DEF DeleteLater
  <2> HIDE DEF e
  <2> QED BY <2>1, <2>2, DyingAppend
<1> QED BY <1>1, <1>2

(* The head of the queue leaves it. *)
LEMMA DyingTail ==
    ASSUME NEW q \in Seq(PostedType), q # <<>>, NEW kind
    PROVE  /\ Tail(q) \in Seq(PostedType) /\ Head(q) \in PostedType
           /\ \A x : x \in Dying(q, kind)
                       <=> x \in Dying(Tail(q), kind) \/ (Head(q).type = kind /\ x \in Head(q).ids)
<1> DEFINE p == Tail(q)
           h == Head(q)
<1>1. /\ p \in Seq(PostedType) /\ h \in PostedType /\ Len(p) = Len(q) - 1
      /\ Len(q) \in Nat \ {0} /\ q[1] = h
      /\ \A i \in 1..Len(p) : p[i] = q[i + 1]
  BY HeadTailProperties, EmptySeq
<1> HIDE DEF p, h
<1>2. ASSUME NEW x PROVE x \in Dying(q, kind) <=> x \in Dying(p, kind) \/ (h.type = kind /\ x \in h.ids)
  <2>1. \A i \in 1..Len(q) : i = 1 \/ (i - 1 \in 1..Len(p) /\ p[i - 1] = q[i])
    BY <1>1
  <2>2. \A i \in 1..Len(p) : i + 1 \in 1..Len(q) /\ q[i + 1] = p[i]
    BY <1>1
  <2>3. 1 \in 1..Len(q)
    BY <1>1
  <2>4. (\E i \in 1..Len(q) : q[i].type = kind /\ x \in q[i].ids)
          <=> \/ \E i \in 1..Len(p) : p[i].type = kind /\ x \in p[i].ids
              \/ h.type = kind /\ x \in h.ids
    BY <1>1, <2>1, <2>2, <2>3, Zenon
  <2> QED BY <2>4, DyingIs
<1> QED BY <1>1, <1>2 DEF p, h

(* The head event loses one of the objects it is about; nothing else       *)
(* changes in the queue.                                                   *)
LEMMA HandledFacts ==
    ASSUME NEW q \in Seq(PostedType), q # <<>>, NEW x, NEW kind
    PROVE  /\ Handled(q, x) \in Seq(PostedType)
           /\ \A y : y \in Dying(Handled(q, x), kind) => y \in Dying(q, kind)
           /\ \A y : y # x /\ y \in Dying(q, kind) => y \in Dying(Handled(q, x), kind)
           /\ Head(q).type # kind =>
                  \A y : y \in Dying(Handled(q, x), kind) <=> y \in Dying(q, kind)
<1>1. CASE Head(q).ids = {x}
  BY <1>1, DyingTail DEF Handled
<1>2. CASE Head(q).ids # {x}
  <2> DEFINE e == [q[1] EXCEPT !.ids = @ \ {x}]
             p == [q EXCEPT ![1] = e]
  <2>1. Len(q) \in Nat \ {0} /\ q[1] = Head(q) /\ 1 \in 1..Len(q) /\ q[1] \in PostedType
    BY HeadTailProperties, EmptySeq
  <2>2. e \in PostedType /\ e.type = q[1].type /\ e.ids = q[1].ids \ {x}
    BY <2>1 DEF PostedType
  <2>3. Handled(q, x) = p
    BY <1>2 DEF Handled
  <2> HIDE DEF e
  <2>4. /\ p \in Seq(PostedType) /\ Len(p) = Len(q)
        /\ \A j \in 1..Len(q) : p[j] = IF j = 1 THEN e ELSE q[j]
    BY <2>1, <2>2, ExceptSeq
  <2> HIDE DEF p
  <2>5. \A y : y \in Dying(p, kind) => y \in Dying(q, kind)
    BY <2>1, <2>2, <2>4, DyingIs
  <2>6. \A y : (y # x \/ Head(q).type # kind) /\ y \in Dying(q, kind) => y \in Dying(p, kind)
    BY <2>1, <2>2, <2>4, DyingIs
  <2> QED BY <2>3, <2>4, <2>5, <2>6
<1> QED BY <1>1, <1>2

(* No event is posted about nothing. *)
LEMMA NonEmptyKept ==
    ASSUME NEW q \in Seq(PostedType), NonEmpty(q)
    PROVE  /\ \A e \in PostedType : e.ids # {} => NonEmpty(Append(q, e))
           /\ \A kind \in {"deleteEvents", "deleteView", "deleteSession"},
                 S \in SUBSET (Sessions \cup Msgs) : NonEmpty(DeleteLater(q, kind, S))
           /\ q # <<>> => NonEmpty(Tail(q))
           /\ q # <<>> => \A x : NonEmpty(Handled(q, x))
<1>1. ASSUME NEW e \in PostedType, e.ids # {} PROVE NonEmpty(Append(q, e))
  <2> DEFINE p == Append(q, e)
  <2>1. /\ Len(p) = Len(q) + 1 /\ Len(q) \in Nat
        /\ \A i \in 1..Len(q) : p[i] = q[i]
        /\ p[Len(q) + 1] = e
    BY AppendProperties, LenProperties
  <2> HIDE DEF p
  <2>2. \A i \in 1..Len(p) : i \in 1..Len(q) \/ i = Len(q) + 1
    BY <2>1
  <2>3. NonEmpty(p)
    BY <1>1, <2>1, <2>2, Zenon DEF NonEmpty
  <2> QED BY <2>3 DEF p
<1>2. ASSUME NEW kind \in {"deleteEvents", "deleteView", "deleteSession"},
             NEW S \in SUBSET (Sessions \cup Msgs)
      PROVE  NonEmpty(DeleteLater(q, kind, S))
  <2>1. CASE S \subseteq Dying(q, kind)
    BY <2>1 DEF DeleteLater
  <2>2. CASE ~(S \subseteq Dying(q, kind))
    <3> DEFINE e == [type |-> kind, ids |-> S \ Dying(q, kind)]
    <3>1. e \in PostedType /\ e.ids # {}
      BY <2>2 DEF PostedType
    <3>2. DeleteLater(q, kind, S) = Append(q, e)
      BY <2>2 DEF DeleteLater
    <3> HIDE DEF e
    <3> QED BY <1>1, <3>1, <3>2
  <2> QED BY <2>1, <2>2
<1>3. ASSUME q # <<>> PROVE NonEmpty(Tail(q))
  <2> DEFINE p == Tail(q)
  <2>1. /\ Len(p) = Len(q) - 1 /\ Len(q) \in Nat \ {0}
        /\ \A i \in 1..Len(p) : p[i] = q[i + 1]
    BY <1>3, HeadTailProperties, EmptySeq
  <2> HIDE DEF p
  <2>2. \A i \in 1..Len(p) : i + 1 \in 1..Len(q) /\ q[i + 1] = p[i]
    BY <2>1
  <2>3. NonEmpty(p)
    BY <2>2, Zenon DEF NonEmpty
  <2> QED BY <2>3 DEF p
<1>4. ASSUME q # <<>>, NEW x PROVE NonEmpty(Handled(q, x))
  <2>1. CASE Head(q).ids = {x}
    BY <1>3, <1>4, <2>1 DEF Handled
  <2>2. CASE Head(q).ids # {x}
    <3> DEFINE e == [q[1] EXCEPT !.ids = @ \ {x}]
               p == [q EXCEPT ![1] = e]
    <3>1. Len(q) \in Nat \ {0} /\ q[1] = Head(q) /\ 1 \in 1..Len(q) /\ q[1] \in PostedType
      BY <1>4, HeadTailProperties, EmptySeq
    <3>2. e \in PostedType /\ e.type = q[1].type /\ e.ids = q[1].ids \ {x}
      BY <3>1 DEF PostedType
    <3>3. Handled(q, x) = p
      BY <2>2 DEF Handled
    <3> HIDE DEF e
    <3>4. Len(p) = Len(q) /\ \A j \in 1..Len(q) : p[j] = IF j = 1 THEN e ELSE q[j]
      BY <3>1, <3>2, ExceptSeq
    <3>5. e.type = "deleteEvents" => e.ids # {}
      BY <2>2, <3>1, <3>2 DEF NonEmpty
    <3> HIDE DEF p
    <3> QED BY <3>3, <3>4, <3>5 DEF NonEmpty
  <2> QED BY <2>1, <2>2
<1> QED BY <1>1, <1>2, <1>3, <1>4

(* The messages are finitely many, and so are those of a session. *)
LEMMA TasksFinite ==
    ASSUME NEW T \in SUBSET Msgs
    PROVE  IsFiniteSet(T) /\ Cardinality(T) \in Nat
<1>1. IsFiniteSet(Msgs)
  BY ChatAssumption, FS_Interval DEF Msgs
<1>2. IsFiniteSet(T)
  BY <1>1, FS_Subset
<1> QED BY <1>2, FS_CardinalityType

-----------------------------------------------------------------------------
(* The messages of session s in the chain. *)
Tasks(s) == {m \in Msgs : InChain(m) /\ manager[m] = s}

(* The invariant holds when the program starts. *)
LEMMA InitInv == Init => Inv
<1> SUFFICES ASSUME Init PROVE Inv
  OBVIOUS
<1>0. 1 \in Sessions /\ MaxSessions \in Nat /\ MaxMsgs \in Nat /\ MaxChanges \in Nat
  BY ChatAssumption DEF Sessions
<1>1. TypeOK
  <2>1. (CHOOSE c \in Contacts : TRUE) \in Contacts
    BY ChatAssumption
  <2>2. partner \in [Sessions -> Contacts]
    BY <2>1 DEF Init
  <2>3. /\ status \in [Sessions -> {"unused", "alive", "deleted"}] /\ refs \in [Sessions -> Nat]
        /\ view \in [Sessions -> {"none", "hidden", "visible", "closing"}]
        /\ chain \in [Msgs -> {"none", "waiting", "held", "gone"}]
        /\ queue \in [Msgs -> {"none", "pending", "applied", "gone"}]
        /\ arrival \in [Msgs -> Nat]
        /\ manager \in [Msgs -> Sessions]
        /\ sender \in [Msgs -> Contacts \cup {Myself}]
    BY <1>0 DEF Init
  <2>4. hooked \in [Msgs -> BOOLEAN] /\ useQueue \in BOOLEAN /\ otherDesktop \in BOOLEAN
        /\ crashed \in BOOLEAN
    BY DEF Init
  <2>5. /\ eventList \subseteq Msgs /\ contacts \subseteq Contacts /\ dismissed \subseteq Sessions
        /\ unnoticed \subseteq Sessions /\ posted \in Seq(PostedType)
    BY EmptySeq DEF Init
  <2>6. nSess \in 0..MaxSessions /\ nMsgs \in 0..MaxMsgs /\ nAppended \in Nat /\ nChanges \in 0..MaxChanges
    BY <1>0 DEF Init
  <2> QED BY <2>2, <2>3, <2>4, <2>5, <2>6 DEF TypeOK
<1>2. SessionsInOrder /\ MessagesInOrder /\ QueuedAfterChain /\ EventListSound
  BY <1>0 DEF Init, SessionsInOrder, MessagesInOrder, QueuedAfterChain, EventListSound, Queued, Sessions
<1>3. PostedSound
  BY DEF Init, PostedSound, NonEmpty, Dying
<1>4. RefsCountTasks /\ HiddenKept
  BY DEF Init, RefsCountTasks, HiddenKept
<1> QED BY <1>1, <1>2, <1>3, <1>4 DEF Inv

-----------------------------------------------------------------------------
(* A message that is appended takes one reference on its session. *)
LEMMA AppendRefs ==
    ASSUME Inv, NEW m \in Msgs, NEW s \in Sessions, NEW from, AppendMessage(m, s, from),
           status[s] \in {"alive", "unused"},
           \A x \in Sessions \ {s} : status'[x] = status[x]
    PROVE  refs' \in [Sessions -> Nat] /\ RefsCountTasks'
<1>0. /\ refs \in [Sessions -> Nat] /\ manager \in [Msgs -> Sessions]
      /\ chain \in [Msgs -> {"none", "waiting", "held", "gone"}]
      /\ nMsgs \in Nat /\ m > nMsgs
  BY ChatAssumption DEF Inv, TypeOK, AppendMessage, Msgs
<1>1. chain[m] = "none"
  BY <1>0 DEF Inv, MessagesInOrder
<1>2. refs' = [refs EXCEPT ![s] = @ + 1] /\ manager' = [manager EXCEPT ![m] = s]
      /\ chain' = [chain EXCEPT ![m] = "waiting"]
  BY DEF AppendMessage
<1>3. refs' \in [Sessions -> Nat]
  BY <1>0, <1>2
<1>4. ASSUME NEW x \in Sessions, status'[x] = "alive" PROVE refs'[x] = Cardinality(Tasks(x)')
  <2>1. CASE x = s
    <3>1. Tasks(x)' = Tasks(x) \cup {m} /\ m \notin Tasks(x)
      BY <1>0, <1>1, <1>2, <2>1 DEF Tasks, InChain
    <3>2. IsFiniteSet(Tasks(x)) /\ Cardinality(Tasks(x)) \in Nat
      BY TasksFinite DEF Tasks
    <3>3. Cardinality(Tasks(x)') = Cardinality(Tasks(x)) + 1
      BY <3>1, <3>2, FS_AddElement
    <3>4. refs[x] = Cardinality(Tasks(x))
      <4>1. CASE status[s] = "alive"
        BY <2>1, <4>1 DEF Inv, RefsCountTasks, Tasks
      <4>2. CASE status[s] = "unused"
        <5>1. refs[x] = 0
          BY <2>1, <4>2 DEF Inv, SessionsInOrder
        <5>2. Tasks(x) = {}
          BY <2>1, <4>2 DEF Inv, MessagesInOrder, Tasks, InChain
        <5> QED BY <5>1, <5>2, FS_EmptySet
      <4> QED BY <4>1, <4>2
    <3> QED BY <1>0, <1>2, <2>1, <3>3, <3>4
  <2>2. CASE x # s
    <3>1. Tasks(x)' = Tasks(x)
      BY <1>0, <1>1, <1>2, <2>2 DEF Tasks, InChain
    <3>2. refs[x] = Cardinality(Tasks(x))
      BY <1>4, <2>2 DEF Inv, RefsCountTasks, Tasks
    <3> QED BY <1>0, <1>2, <2>2, <3>1, <3>2
  <2> QED BY <2>1, <2>2
<1> QED BY <1>3, <1>4 DEF RefsCountTasks, Tasks

(* A message that leaves the chain gives it back. *)
LEMMA ChainDoneRefs ==
    ASSUME Inv, NEW m \in Msgs, InChain(m), ChainDone(m), UNCHANGED <<status, manager>>
    PROVE  /\ refs' \in [Sessions -> Nat] /\ RefsCountTasks'
           /\ \A s \in Sessions : status[s] = "unused" => refs'[s] = refs[s]
           /\ chain' = [chain EXCEPT ![m] = "gone"]
<1> DEFINE s == manager[m]
<1>0. /\ refs \in [Sessions -> Nat] /\ s \in Sessions
      /\ chain \in [Msgs -> {"none", "waiting", "held", "gone"}]
  BY DEF Inv, TypeOK
<1>1. chain' = [chain EXCEPT ![m] = "gone"]
  BY DEF ChainDone
<1>2. status[s] = "alive" => refs[s] = Cardinality(Tasks(s))
  BY <1>0 DEF Inv, RefsCountTasks, Tasks
<1>3. m \in Tasks(s) /\ IsFiniteSet(Tasks(s)) /\ Cardinality(Tasks(s)) \in Nat
  BY TasksFinite DEF Tasks
<1>4. Cardinality(Tasks(s) \ {m}) = Cardinality(Tasks(s)) - 1 /\ Cardinality(Tasks(s) \ {m}) \in Nat
  <2>1. Tasks(s) \ {m} \in SUBSET Msgs
    BY DEF Tasks
  <2> QED BY <1>3, <2>1, FS_RemoveElement, TasksFinite
<1>5. refs' = IF status[s] = "alive" THEN [refs EXCEPT ![s] = refs[s] - 1] ELSE refs
  BY DEF ChainDone
<1>6. refs' \in [Sessions -> Nat]
  BY <1>0, <1>2, <1>3, <1>4, <1>5
<1>7. ASSUME NEW x \in Sessions, status[x] = "alive" PROVE refs'[x] = Cardinality(Tasks(x)')
  <2>1. CASE x = s
    <3>1. Tasks(x)' = Tasks(x) \ {m}
      BY <1>0, <1>1, <2>1 DEF Tasks, InChain
    <3> QED BY <1>0, <1>2, <1>4, <1>5, <1>7, <2>1, <3>1
  <2>2. CASE x # s
    <3>1. Tasks(x)' = Tasks(x)
      BY <1>0, <1>1, <2>2 DEF Tasks, InChain
    <3>2. refs[x] = Cardinality(Tasks(x))
      BY <1>7 DEF Inv, RefsCountTasks, Tasks
    <3> QED BY <1>0, <1>5, <2>2, <3>1, <3>2
  <2> QED BY <2>1, <2>2
<1>8. \A x \in Sessions : status[x] = "unused" => refs'[x] = refs[x]
  BY <1>0, <1>5
<1> QED BY <1>1, <1>6, <1>7, <1>8 DEF RefsCountTasks, Tasks

(* ChatSessionManager::create() gives a session with the contact, and      *)
(* leaves the others alone.                                                *)
LEMMA FindOrCreateFacts ==
    ASSUME Inv, NEW c \in Contacts, NEW s \in Sessions, FindOrCreate(c, s)
    PROVE  /\ status' \in [Sessions -> {"unused", "alive", "deleted"}]
           /\ partner' \in [Sessions -> Contacts]
           /\ nSess' \in 0..MaxSessions
           /\ status'[s] = "alive" /\ partner'[s] = c
           /\ (status[s] = "alive" /\ partner[s] = c) \/ status[s] = "unused"
           /\ \A x \in Sessions \ {s} : status'[x] = status[x] /\ partner'[x] = partner[x]
           /\ \A x \in Sessions : x > nSess' <=> status'[x] = "unused"
<1>0. /\ status \in [Sessions -> {"unused", "alive", "deleted"}]
      /\ partner \in [Sessions -> Contacts] /\ nSess \in 0..MaxSessions /\ MaxSessions \in Nat
      /\ \A x \in Sessions : x > nSess <=> status[x] = "unused"
  BY ChatAssumption DEF Inv, TypeOK, SessionsInOrder
<1>1. CASE s \in Registered(c) /\ UNCHANGED <<status, partner, nSess>>
  BY <1>0, <1>1 DEF Registered
<1>2. CASE /\ nSess < MaxSessions /\ s = nSess + 1 /\ nSess' = s
           /\ status' = [status EXCEPT ![s] = "alive"]
           /\ partner' = [partner EXCEPT ![s] = c]
  <2>1. status[s] = "unused"
    BY <1>0, <1>2
  <2>2. \A x \in Sessions : x > nSess' <=> status'[x] = "unused"
    BY <1>0, <1>2 DEF Sessions
  <2> QED BY <1>0, <1>2, <2>1, <2>2
<1> QED BY <1>1, <1>2 DEF FindOrCreate

(* A new message keeps the invariant: it is not in any list yet. *)
LEMMA AppendStep ==
    ASSUME Inv, NEW m \in Msgs, NEW s \in Sessions, NEW from \in Contacts \cup {Myself},
           AppendMessage(m, s, from),
           status' \in [Sessions -> {"unused", "alive", "deleted"}],
           partner' \in [Sessions -> Contacts],
           nSess' \in 0..MaxSessions,
           status'[s] = "alive", from \in {partner'[s], Myself},
           (status[s] = "alive" /\ partner'[s] = partner[s]) \/ status[s] = "unused",
           \A x \in Sessions \ {s} : status'[x] = status[x] /\ partner'[x] = partner[x],
           \A x \in Sessions : x > nSess' <=> status'[x] = "unused",
           UNCHANGED <<view, queueVars, prefVars, contacts, dismissed, crashed>>
    PROVE  Inv'
<1>0. TypeOK /\ MaxMsgs \in Nat /\ MaxSessions \in Nat
  BY ChatAssumption DEF Inv
<1>1. refs' \in [Sessions -> Nat] /\ RefsCountTasks'
  BY AppendRefs
<1>2. /\ nMsgs' = m /\ m = nMsgs + 1
      /\ manager' = [manager EXCEPT ![m] = s] /\ sender' = [sender EXCEPT ![m] = from]
      /\ chain' = [chain EXCEPT ![m] = "waiting"] /\ refs' = [refs EXCEPT ![s] = @ + 1]
  BY DEF AppendMessage
<1>3. /\ chain \in [Msgs -> {"none", "waiting", "held", "gone"}]
      /\ manager \in [Msgs -> Sessions] /\ sender \in [Msgs -> Contacts \cup {Myself}]
      /\ queue \in [Msgs -> {"none", "pending", "applied", "gone"}]
      /\ eventList \subseteq Msgs
      /\ nMsgs \in 0..MaxMsgs /\ refs \in [Sessions -> Nat]
      /\ posted \in Seq(PostedType)
  BY <1>0 DEF TypeOK
<1>4. chain[m] = "none"
  BY <1>0, <1>2, <1>3 DEF Inv, MessagesInOrder
<1>5. ~Queued(m) /\ m \notin eventList
  BY <1>4 DEF Inv, QueuedAfterChain, EventListSound
<1>6. UNCHANGED <<view, queue, hooked, arrival, eventList, nAppended, unnoticed, useQueue,
                  otherDesktop, nChanges, contacts,
                  dismissed, crashed>>
  BY DEF queueVars, prefVars
<1> DEFINE e == [type |-> "start", ids |-> {m}]
<1>7. /\ posted' \in Seq(PostedType) /\ NonEmpty(posted')
      /\ \A k : k # "start" => \A x : x \in Dying(posted', k) <=> x \in Dying(posted, k)
  <2>1. e \in PostedType /\ e.type = "start" /\ e.ids # {}
    BY DEF PostedType
  <2>2. posted' = Append(posted, e)
    BY DEF AppendMessage, PostStart
  <2>3. NonEmpty(posted)
    BY DEF Inv, PostedSound
  <2> HIDE DEF e
  <2> QED BY <1>3, <2>1, <2>2, <2>3, DyingAppend, NonEmptyKept
<1>8. TypeOK'
  <2>1. /\ chain' \in [Msgs -> {"none", "waiting", "held", "gone"}]
        /\ manager' \in [Msgs -> Sessions] /\ sender' \in [Msgs -> Contacts \cup {Myself}]
        /\ nMsgs' \in 0..MaxMsgs
    BY <1>0, <1>2, <1>3 DEF Msgs
  <2> QED BY <1>0, <1>1, <1>6, <1>7, <2>1 DEF TypeOK
<1>9. SessionsInOrder'
  BY <1>2, <1>3 DEF Inv, SessionsInOrder
<1>10. MessagesInOrder'
  <2> SUFFICES ASSUME NEW n \in Msgs
               PROVE  /\ n > nMsgs' => chain'[n] = "none"
                      /\ chain'[n] # "none" =>
                            /\ status'[manager'[n]] # "unused"
                            /\ sender'[n] \in {partner'[manager'[n]], Myself}
    BY DEF MessagesInOrder
  <2>1. CASE n = m
    BY <1>2, <1>3, <2>1 DEF Msgs
  <2>2. CASE n # m
    <3>1. chain'[n] = chain[n] /\ manager'[n] = manager[n] /\ sender'[n] = sender[n]
          /\ manager[n] \in Sessions
      BY <1>2, <1>3, <2>2
    <3>2. n > nMsgs' => n > nMsgs
      BY <1>2, <1>3 DEF Msgs
    <3> QED BY <3>1, <3>2 DEF Inv, MessagesInOrder
  <2> QED BY <2>1, <2>2
<1>11. QueuedAfterChain'
  BY <1>2, <1>3, <1>5, <1>6 DEF Inv, QueuedAfterChain, Queued
<1>12. PostedSound'
  BY <1>2, <1>3, <1>4, <1>7, ZenonT(40) DEF Inv, PostedSound
<1>13. EventListSound'
  <2> SUFFICES ASSUME NEW n \in eventList
               PROVE  Queued(n)' /\ hooked'[n] /\ status'[manager'[n]] = "alive"
    BY <1>6 DEF EventListSound
  <2>1. Queued(n) /\ hooked[n] /\ status[manager[n]] = "alive"
    BY DEF Inv, EventListSound
  <2>2. manager'[n] = manager[n] /\ manager[n] \in Sessions
    BY <1>2, <1>3, <1>5
  <2> QED BY <1>6, <2>1, <2>2 DEF Queued
<1>14. HiddenKept'
  <2> SUFFICES ASSUME NEW x \in Sessions, status'[x] = "alive", view'[x] = "hidden"
               PROVE  \/ \E n \in Msgs : Keeps(n, x)'
                      \/ x \in dismissed'
                      \/ x \in unnoticed'
                      \/ x \in Dying(posted', "deleteSession")
    BY DEF HiddenKept
  <2>1. CASE status[x] = "alive"
    <3>1. \A n \in Msgs : Keeps(n, x) => Keeps(n, x)'
      BY <1>2, <1>3, <1>5, <1>6, <1>7 DEF Keeps, Queued
    <3> QED BY <1>6, <1>7, <2>1, <3>1 DEF Inv, HiddenKept
  <2>2. CASE status[x] # "alive"
    <3>1. x = s /\ status[x] = "unused"
      BY <2>2
    <3> QED BY <1>6, <3>1 DEF Inv, SessionsInOrder
  <2> QED BY <2>1, <2>2
<1> QED BY <1>1, <1>8, <1>9, <1>10, <1>11, <1>12, <1>13, <1>14 DEF Inv

(* A message arrives from a contact. *)
LEMMA ReceiveStep ==
    ASSUME Inv, NEW m \in Msgs, NEW c \in Contacts, NEW s \in Sessions, Receive(m, c, s)
    PROVE  Inv'
<1>1. FindOrCreate(c, s) /\ AppendMessage(m, s, c)
      /\ UNCHANGED <<view, queueVars, prefVars, contacts, dismissed, crashed>>
  BY DEF Receive
<1> QED BY <1>1, FindOrCreateFacts, AppendStep

(* A message of the user is reflected. *)
LEMMA ReflectStep ==
    ASSUME Inv, NEW m \in Msgs, NEW s \in Sessions, Reflect(m, s)
    PROVE  Inv'
<1>1. AppendMessage(m, s, Myself) /\ status[s] = "alive"
      /\ UNCHANGED <<status, partner, nSess>>
      /\ UNCHANGED <<view, queueVars, prefVars, contacts, dismissed, crashed>>
  BY DEF Reflect
<1>2. /\ status \in [Sessions -> {"unused", "alive", "deleted"}]
      /\ partner \in [Sessions -> Contacts] /\ nSess \in 0..MaxSessions
      /\ \A x \in Sessions : x > nSess <=> status[x] = "unused"
  BY DEF Inv, TypeOK, SessionsInOrder
<1> QED BY <1>1, <1>2, AppendStep

-----------------------------------------------------------------------------
(* The event loop's queue q in the middle of a step: what is scheduled for *)
(* deletion is what `posted' said.                                         *)
Follows(q) ==
    /\ q \in Seq(PostedType) /\ NonEmpty(q)
    /\ \A x : x \in Dying(q, "deleteEvents") <=> x \in Dying(posted, "deleteEvents")
    /\ \A x : x \in Dying(q, "deleteSession") <=> x \in Dying(posted, "deleteSession")

(* So it is with the queue itself, and once a start() has been taken from  *)
(* its head.                                                               *)
LEMMA FollowsPosted == Inv => Follows(posted)
BY DEF Inv, TypeOK, PostedSound, Follows

LEMMA FollowsStart ==
    ASSUME Inv, IsHead("start") \/ IsHead("deleteView")
    PROVE  Follows(Tail(posted))
<1>1. posted \in Seq(PostedType) /\ posted # <<>> /\ NonEmpty(posted)
      /\ Head(posted).type \notin {"deleteEvents", "deleteSession"}
  BY DEF Inv, TypeOK, PostedSound, IsHead
<1> QED BY <1>1, DyingTail, NonEmptyKept DEF Follows

(* What readMessages() leaves: the view is shown, and the session's part   *)
(* of the list L is applied, scheduled for deletion and no longer in the   *)
(* list.                                                                   *)
HasRead(s, q, L, Q) ==
    /\ view' \in [Sessions -> {"none", "hidden", "visible", "closing"}]
    /\ view'[s] \in {"visible", "closing"}
    /\ \A x \in Sessions : x # s => view'[x] = view[x]
    /\ queue' \in [Msgs -> {"none", "pending", "applied", "gone"}]
    /\ \A n \in Msgs : queue'[n] = IF n \in L /\ manager[n] = s THEN "applied" ELSE Q[n]
    /\ eventList' \subseteq Msgs
    /\ \A n : n \in eventList' <=> n \in L /\ manager[n] # s
    /\ posted' \in Seq(PostedType) /\ NonEmpty(posted')
    /\ \A x : x \in Dying(posted', "deleteEvents")
                <=> x \in Dying(q, "deleteEvents") \/ (x \in L /\ manager[x] = s)
    /\ \A x : x \in Dying(posted', "deleteSession") <=> x \in Dying(q, "deleteSession")

(* readMessages() shows the view and empties the session's part of the     *)
(* list.                                                                   *)
LEMMA ReadFacts ==
    ASSUME NEW s \in Sessions, NEW q \in Seq(PostedType), NonEmpty(q), NEW L \in SUBSET Msgs,
           NEW Q \in [Msgs -> {"none", "pending", "applied", "gone"}],
           view \in [Sessions -> {"none", "hidden", "visible", "closing"}],
           ReadMessages(s, q, L, Q)
    PROVE  HasRead(s, q, L, Q)
<1>1. /\ view' = [view EXCEPT ![s] = Shown(view[s])]
      /\ queue' = [m \in Msgs |-> IF m \in ListOf(L, s) THEN "applied" ELSE Q[m]]
      /\ eventList' = L \ ListOf(L, s)
      /\ posted' = DeleteLater(q, "deleteEvents", ListOf(L, s))
  BY DEF ReadMessages
<1>2. Shown(view[s]) \in {"visible", "closing"}
  BY DEF Shown
<1>3. ListOf(L, s) \in SUBSET (Sessions \cup Msgs) /\ \A n : n \in ListOf(L, s) <=> n \in L /\ manager[n] = s
  BY DEF ListOf
<1>4. /\ posted' \in Seq(PostedType) /\ NonEmpty(posted')
      /\ \A x : x \in Dying(posted', "deleteEvents")
                  <=> x \in Dying(q, "deleteEvents") \/ (x \in L /\ manager[x] = s)
      /\ \A x : x \in Dying(posted', "deleteSession") <=> x \in Dying(q, "deleteSession")
  <2> DEFINE S == ListOf(L, s)
  <2> HIDE DEF S
  <2>1. S \in SUBSET (Sessions \cup Msgs) /\ posted' = DeleteLater(q, "deleteEvents", S)
    BY <1>1, <1>3 DEF S
  <2>2. /\ posted' \in Seq(PostedType) /\ NonEmpty(posted')
        /\ \A x : x \in Dying(posted', "deleteEvents") <=> x \in Dying(q, "deleteEvents") \/ x \in S
        /\ \A x : x \in Dying(posted', "deleteSession") <=> x \in Dying(q, "deleteSession")
    BY <2>1, DeleteLaterFacts, NonEmptyKept
  <2>3. \A n : n \in S <=> n \in L /\ manager[n] = s
    BY <1>3 DEF S
  <2> QED BY <2>2, <2>3
<1> QED BY <1>1, <1>2, <1>3, <1>4 DEF HasRead

(* deref() may schedule the session for deletion and nothing else. *)
LEMMA DerefFacts ==
    ASSUME NEW s \in Sessions, NEW q \in Seq(PostedType), NonEmpty(q)
    PROVE  LET p == Deref(s, q)
           IN  /\ p \in Seq(PostedType) /\ NonEmpty(p)
               /\ \A x : x \in Dying(p, "deleteEvents") <=> x \in Dying(q, "deleteEvents")
               /\ \A x : x \in Dying(q, "deleteSession") => x \in Dying(p, "deleteSession")
               /\ \A x : x \in Dying(p, "deleteSession") => x \in Dying(q, "deleteSession") \/ x = s
<1>1. {s} \in SUBSET (Sessions \cup Msgs)
  OBVIOUS
<1> QED BY <1>1, DeleteLaterFacts, NonEmptyKept DEF Deref

(* What stays as it is while a message goes through the chain. *)
Steady ==
    UNCHANGED <<status, partner, nSess, manager, sender, nMsgs, useQueue,
                otherDesktop, nChanges, contacts,
                dismissed, crashed>>

(* A message moves on in the chain, or leaves it, without reaching the     *)
(* view manager.                                                           *)
LEMMA ChainStep ==
    ASSUME Inv, NEW m \in Msgs, InChain(m), NEW to \in {"held", "gone"},
           chain' = [chain EXCEPT ![m] = to],
           refs' \in [Sessions -> Nat], RefsCountTasks',
           \A s \in Sessions : status[s] = "unused" => refs'[s] = refs[s],
           Steady, UNCHANGED <<view, queueVars>>,
           posted' \in Seq(PostedType), NonEmpty(posted'),
           \A x : x \in Dying(posted', "deleteEvents") <=> x \in Dying(posted, "deleteEvents"),
           \A x : x \in Dying(posted, "deleteSession") => x \in Dying(posted', "deleteSession"),
           \A x \in Sessions : x \in Dying(posted', "deleteSession")
                                => x \in Dying(posted, "deleteSession") \/ status[x] = "alive"
    PROVE  Inv'
<1>1. /\ UNCHANGED <<status, partner, nSess, manager, sender, nMsgs, useQueue,
                     otherDesktop, nChanges, contacts,
                     dismissed, crashed>>
      /\ UNCHANGED <<view, queue, hooked, arrival, eventList, nAppended, unnoticed>>
  BY DEF Steady, queueVars
<1>2. chain \in [Msgs -> {"none", "waiting", "held", "gone"}] /\ chain[m] \in {"waiting", "held"}
  BY DEF Inv, TypeOK, InChain
<1>3. TypeOK'
  <2>1. chain' \in [Msgs -> {"none", "waiting", "held", "gone"}]
    BY <1>2
  <2> QED BY <1>1, <2>1 DEF Inv, TypeOK
<1>4. SessionsInOrder'
  BY <1>1 DEF Inv, SessionsInOrder
<1>5. MessagesInOrder'
  BY <1>1, <1>2 DEF Inv, MessagesInOrder
<1>6. QueuedAfterChain'
  BY <1>1, <1>2 DEF Inv, QueuedAfterChain, Queued
<1>7. PostedSound'
  BY <1>1, <1>2 DEF Inv, PostedSound
<1>8. EventListSound'
  BY <1>1 DEF Inv, EventListSound, Queued
<1>9. HiddenKept'
  <2>1. \A n \in Msgs, x \in Sessions : Keeps(n, x) => Keeps(n, x)'
    BY <1>1 DEF Keeps, Queued
  <2> QED BY <1>1, <2>1 DEF Inv, HiddenKept
<1> QED BY <1>3, <1>4, <1>5, <1>6, <1>7, <1>8, <1>9 DEF Inv

(* A handler keeps the message. *)
LEMMA HoldStep ==
    ASSUME Inv, NEW m \in Msgs, chain[m] = "waiting", chain' = [chain EXCEPT ![m] = "held"],
           Steady, UNCHANGED <<refs, view, queueVars>>, Follows(posted')
    PROVE  Inv'
<1>1. InChain(m) /\ chain \in [Msgs -> {"none", "waiting", "held", "gone"}]
      /\ refs \in [Sessions -> Nat]
  BY DEF InChain, Inv, TypeOK
<1>2. UNCHANGED <<status, manager, refs>>
  BY DEF Steady
<1>3. \A s \in Sessions : Tasks(s)' = Tasks(s)
  BY <1>1, <1>2 DEF Tasks, InChain
<1>4. RefsCountTasks'
  BY <1>2, <1>3 DEF Inv, RefsCountTasks, Tasks
<1>5. "held" \in {"held", "gone"}
  OBVIOUS
<1>6. /\ posted' \in Seq(PostedType) /\ NonEmpty(posted')
      /\ \A x : x \in Dying(posted', "deleteEvents") <=> x \in Dying(posted, "deleteEvents")
      /\ \A x : x \in Dying(posted, "deleteSession") => x \in Dying(posted', "deleteSession")
      /\ \A x \in Sessions : x \in Dying(posted', "deleteSession")
                               => x \in Dying(posted, "deleteSession") \/ status[x] = "alive"
  BY DEF Follows
<1>7. refs' \in [Sessions -> Nat] /\ \A s \in Sessions : status[s] = "unused" => refs'[s] = refs[s]
  BY <1>1, <1>2
<1>8. UNCHANGED <<view, queueVars>>
  OBVIOUS
<1> QED BY <1>1, <1>4, <1>5, <1>6, <1>7, <1>8, ChainStep

(* A handler discards it. *)
LEMMA DropStep ==
    ASSUME Inv, NEW m \in Msgs, InChain(m), NEW q, Follows(q), Drop(m, q), Steady
    PROVE  Inv'
<1>1. /\ ChainDone(m) /\ UNCHANGED <<view, queueVars>>
      /\ posted' = IF status[manager[m]] = "alive" THEN Deref(manager[m], q) ELSE q
  BY DEF Drop
<1>2. UNCHANGED <<status, manager>>
  BY DEF Steady
<1>3. manager[m] \in Sessions
  BY DEF Inv, TypeOK
<1>4. /\ posted' \in Seq(PostedType) /\ NonEmpty(posted')
      /\ \A x : x \in Dying(posted', "deleteEvents") <=> x \in Dying(posted, "deleteEvents")
      /\ \A x : x \in Dying(posted, "deleteSession") => x \in Dying(posted', "deleteSession")
      /\ \A x \in Sessions : x \in Dying(posted', "deleteSession")
                               => x \in Dying(posted, "deleteSession") \/ status[x] = "alive"
  BY <1>1, <1>3, DerefFacts DEF Follows
<1>5. "gone" \in {"held", "gone"}
  OBVIOUS
<1>6. /\ refs' \in [Sessions -> Nat] /\ RefsCountTasks'
      /\ \A s \in Sessions : status[s] = "unused" => refs'[s] = refs[s]
      /\ chain' = [chain EXCEPT ![m] = "gone"]
  BY <1>1, <1>2, ChainDoneRefs
<1> QED BY <1>1, <1>4, <1>5, <1>6, ChainStep

(* The view manager gets a message of a session that exists.  Either the   *)
(* new event joins the list and its chat, if hidden, is kept by it; or the *)
(* chat is shown and its part of the list is emptied.                      *)
LEMMA AppendedStep ==
    ASSUME Inv, NEW m \in Msgs, InChain(m), NEW q, Follows(q), NEW notify \in BOOLEAN,
           ChainDone(m), Steady,
           status[manager[m]] = "alive", sender[m] = Myself => view[manager[m]] # "none",
           hooked' = [hooked EXCEPT ![m] = MakesEvent(m, notify) /\ useQueue],
           arrival' = [arrival EXCEPT ![m] = nAppended + 1],
           nAppended' = nAppended + 1,
           unnoticed' = IF GoesUnnoticed(m, notify) THEN unnoticed \cup {manager[m]} ELSE unnoticed,
           NEW L, L = IF MakesEvent(m, notify) THEN eventList \cup {m} ELSE eventList,
           NEW Q, Q = IF MakesEvent(m, notify) THEN [queue EXCEPT ![m] = "pending"] ELSE queue,
           IF useQueue
           THEN /\ view' = [view EXCEPT ![manager[m]] = IF @ = "none" THEN "hidden" ELSE @]
                /\ queue' = Q
                /\ eventList' = L
                /\ posted' = q
           ELSE ReadMessages(manager[m], q, L, Q)
    PROVE  Inv'
<1> DEFINE s == manager[m]
           E == MakesEvent(m, notify)
<1>0. /\ chain \in [Msgs -> {"none", "waiting", "held", "gone"}] /\ chain[m] \in {"waiting", "held"}
      /\ queue \in [Msgs -> {"none", "pending", "applied", "gone"}]
      /\ view \in [Sessions -> {"none", "hidden", "visible", "closing"}]
      /\ hooked \in [Msgs -> BOOLEAN] /\ arrival \in [Msgs -> Nat] /\ nAppended \in Nat
      /\ eventList \subseteq Msgs /\ manager \in [Msgs -> Sessions] /\ s \in Sessions
      /\ status \in [Sessions -> {"unused", "alive", "deleted"}]
  BY DEF Inv, TypeOK, InChain
<1>1. /\ refs' \in [Sessions -> Nat] /\ RefsCountTasks'
      /\ \A x \in Sessions : status[x] = "unused" => refs'[x] = refs[x]
      /\ chain' = [chain EXCEPT ![m] = "gone"]
  BY ChainDoneRefs DEF Steady
<1>2. UNCHANGED <<status, partner, nSess, manager, sender, nMsgs, useQueue,
                  otherDesktop, nChanges, contacts,
                  dismissed, crashed>>
  BY DEF Steady
<1>3. ~Queued(m) /\ m \notin eventList
  BY <1>0 DEF Inv, QueuedAfterChain, EventListSound
<1>4. /\ q \in Seq(PostedType) /\ NonEmpty(q)
      /\ \A x : x \in Dying(q, "deleteEvents") <=> x \in Dying(posted, "deleteEvents")
      /\ \A x : x \in Dying(q, "deleteSession") <=> x \in Dying(posted, "deleteSession")
  BY DEF Follows
<1>5. L \in SUBSET Msgs /\ Q \in [Msgs -> {"none", "pending", "applied", "gone"}]
  BY <1>0
<1>6. /\ \A n \in Msgs : n # m => Q[n] = queue[n]
      /\ \A n : n # m => (n \in L <=> n \in eventList)
      /\ m \in L <=> E
      /\ Q[m] = IF E THEN "pending" ELSE queue[m]
  BY <1>0, <1>3
<1>7. hooked' \in [Msgs -> BOOLEAN] /\ \A n \in Msgs : n # m => hooked'[n] = hooked[n]
  <2> HIDE DEF E
  <2>1. (E /\ useQueue) \in BOOLEAN
    BY Zenon DEF E
  <2> QED BY <1>0, <2>1, Zenon DEF E
<1>8. hooked'[m] <=> E /\ useQueue
  BY <1>0, Zenon
<1>9. /\ arrival' \in [Msgs -> Nat] /\ nAppended' \in Nat
      /\ unnoticed' \subseteq Sessions /\ \A x \in unnoticed : x \in unnoticed'
  <2>1. unnoticed \subseteq Sessions
    BY DEF Inv, TypeOK
  <2> QED BY <1>0, <2>1
<1>10. \A n \in Msgs : chain'[n] = IF n = m THEN "gone" ELSE chain[n]
  BY <1>0, <1>1
<1>11. /\ chain' \in [Msgs -> {"none", "waiting", "held", "gone"}]
       /\ MessagesInOrder'
  <2>1. chain' \in [Msgs -> {"none", "waiting", "held", "gone"}]
    BY <1>0, <1>1
  <2>2. MessagesInOrder'
    BY <1>0, <1>2, <1>10 DEF Inv, MessagesInOrder
  <2> QED BY <2>1, <2>2
<1> HIDE DEF E
<1>12. CASE useQueue
  <2>1. /\ view' = [view EXCEPT ![s] = IF view[s] = "none" THEN "hidden" ELSE view[s]]
        /\ queue' = Q /\ eventList' = L /\ posted' = q
    BY <1>12
  <2>2. view' \in [Sessions -> {"none", "hidden", "visible", "closing"}]
    BY <1>0, <2>1
  <2>3. TypeOK'
    BY <1>1, <1>2, <1>4, <1>5, <1>7, <1>9, <1>11, <2>1, <2>2 DEF Inv, TypeOK
  <2>4. SessionsInOrder'
    BY <1>0, <1>1, <1>2, <2>1 DEF Inv, SessionsInOrder
  <2>5. QueuedAfterChain'
    BY <1>6, <1>10, <2>1 DEF Inv, QueuedAfterChain, Queued
  <2>6. PostedSound'
    BY <1>2, <1>4, <1>10, <2>1 DEF Inv, PostedSound
  <2>7. EventListSound'
    <3> SUFFICES ASSUME NEW n \in L PROVE Queued(n)' /\ hooked'[n] /\ status'[manager'[n]] = "alive"
      BY <2>1 DEF EventListSound
    <3>1. CASE n = m
      BY <1>2, <1>6, <1>8, <1>12, <2>1, <3>1 DEF Queued
    <3>2. CASE n # m
      <4>1. n \in eventList /\ n \in Msgs
        BY <1>5, <1>6, <3>2
      <4>2. Queued(n) /\ hooked[n] /\ status[manager[n]] = "alive"
        BY <4>1 DEF Inv, EventListSound
      <4> QED BY <1>2, <1>6, <1>7, <2>1, <3>2, <4>1, <4>2 DEF Queued
    <3> QED BY <3>1, <3>2
  <2>8. HiddenKept'
    <3> SUFFICES ASSUME NEW x \in Sessions, status'[x] = "alive", view'[x] = "hidden"
                 PROVE  \/ \E n \in Msgs : Keeps(n, x)'
                        \/ x \in dismissed'
                        \/ x \in unnoticed'
                        \/ x \in Dying(posted', "deleteSession")
      BY DEF HiddenKept
    <3>1. CASE view[x] = "hidden"
      <4>1. \A n \in Msgs : Keeps(n, x) => n # m
        BY <1>3 DEF Keeps
      <4>2. \A n \in Msgs : Keeps(n, x) => Keeps(n, x)'
        BY <1>2, <1>4, <1>6, <1>7, <2>1, <4>1 DEF Keeps, Queued
      <4> QED BY <1>2, <1>4, <1>9, <2>1, <3>1, <4>2 DEF Inv, HiddenKept
    <3>2. CASE view[x] # "hidden"
      <4>1. x = s /\ view[s] = "none"
        BY <1>0, <2>1, <3>2
      <4>2. E \/ s \in unnoticed'
        BY <1>12, <4>1 DEF E, MakesEvent, GoesUnnoticed
      <4>3. m \notin Dying(posted, "deleteEvents")
        BY <1>0 DEF Inv, PostedSound
      <4>4. E => Keeps(m, x)'
        BY <1>2, <1>4, <1>6, <2>1, <4>1, <4>3 DEF Keeps, Queued
      <4> QED BY <4>1, <4>2, <4>4
    <3> QED BY <3>1, <3>2
  <2> QED BY <1>1, <1>11, <2>3, <2>4, <2>5, <2>6, <2>7, <2>8 DEF Inv
<1>13. CASE ~useQueue
  <2>0. ReadMessages(s, q, L, Q)
    BY <1>13
  <2>1. /\ view' \in [Sessions -> {"none", "hidden", "visible", "closing"}]
        /\ view'[s] \in {"visible", "closing"}
        /\ \A x \in Sessions : x # s => view'[x] = view[x]
        /\ queue' \in [Msgs -> {"none", "pending", "applied", "gone"}]
        /\ \A n \in Msgs : queue'[n] = IF n \in L /\ manager[n] = s THEN "applied" ELSE Q[n]
        /\ eventList' \subseteq Msgs
        /\ \A n : n \in eventList' <=> n \in L /\ manager[n] # s
        /\ posted' \in Seq(PostedType) /\ NonEmpty(posted')
        /\ \A x : x \in Dying(posted', "deleteEvents")
                    <=> x \in Dying(q, "deleteEvents") \/ (x \in L /\ manager[x] = s)
        /\ \A x : x \in Dying(posted', "deleteSession") <=> x \in Dying(q, "deleteSession")
    <3>1. s \in Sessions /\ view \in [Sessions -> {"none", "hidden", "visible", "closing"}]
      BY <1>0
    <3>2. q \in Seq(PostedType) /\ NonEmpty(q)
      BY <1>4
    <3> HIDE DEF s
    <3>3. HasRead(s, q, L, Q)
      BY <1>5, <2>0, <3>1, <3>2, ReadFacts
    <3> QED BY <3>3 DEF HasRead
  <2>2. \A n \in L : n = m \/ (n \in eventList /\ Queued(n) /\ chain[n] = "gone" /\ n \in Msgs)
    BY <1>0, <1>6 DEF Inv, EventListSound, QueuedAfterChain
  <2>3. TypeOK'
    BY <1>1, <1>2, <1>7, <1>9, <1>11, <2>1 DEF Inv, TypeOK
  <2>4. SessionsInOrder'
    BY <1>0, <1>1, <1>2, <2>1, SMTT(30) DEF Inv, SessionsInOrder
  <2>5. QueuedAfterChain'
    BY <1>6, <1>10, <2>1, <2>2 DEF Inv, QueuedAfterChain, Queued
  <2>6. PostedSound'
    BY <1>2, <1>4, <1>10, <2>1, <2>2 DEF Inv, PostedSound
  <2>7. EventListSound'
    <3> SUFFICES ASSUME NEW n \in L, manager[n] # s
                 PROVE  Queued(n)' /\ hooked'[n] /\ status'[manager'[n]] = "alive"
      BY <2>1 DEF EventListSound
    <3>1. n # m /\ n \in eventList /\ n \in Msgs
      BY <2>2
    <3>2. Queued(n) /\ hooked[n] /\ status[manager[n]] = "alive"
      BY <3>1 DEF Inv, EventListSound
    <3> QED BY <1>2, <1>6, <1>7, <2>1, <3>1, <3>2 DEF Queued
  <2>8. HiddenKept'
    <3> SUFFICES ASSUME NEW x \in Sessions, status'[x] = "alive", view'[x] = "hidden"
                 PROVE  \/ \E n \in Msgs : Keeps(n, x)'
                        \/ x \in dismissed'
                        \/ x \in unnoticed'
                        \/ x \in Dying(posted', "deleteSession")
      BY DEF HiddenKept
    <3>1. x # s /\ view[x] = "hidden"
      BY <2>1
    <3>2. \A n \in Msgs : Keeps(n, x) => n # m /\ manager[n] # s
      BY <3>1 DEF Keeps
    <3>3. \A n \in Msgs : Keeps(n, x) => Keeps(n, x)'
      BY <1>2, <1>4, <1>6, <1>7, <2>1, <3>2 DEF Keeps, Queued
    <3> QED BY <1>2, <1>4, <1>9, <2>1, <3>1, <3>3 DEF Inv, HiddenKept
  <2> QED BY <1>1, <1>11, <2>3, <2>4, <2>5, <2>6, <2>7, <2>8 DEF Inv
<1> QED BY <1>12, <1>13

(* The last handler. *)
LEMMA DeliverStep ==
    ASSUME Inv, NEW m \in Msgs, InChain(m), NEW q, Follows(q), NEW notify \in BOOLEAN,
           Deliver(m, q, notify), Steady
    PROVE  Inv'
<1> DEFINE s == manager[m]
           L == IF MakesEvent(m, notify) THEN eventList \cup {m} ELSE eventList
           Q == IF MakesEvent(m, notify) THEN [queue EXCEPT ![m] = "pending"] ELSE queue
<1>0. s \in Sessions /\ ChainDone(m)
  BY DEF Inv, TypeOK, Deliver
<1>1. /\ refs' \in [Sessions -> Nat] /\ RefsCountTasks'
      /\ \A x \in Sessions : status[x] = "unused" => refs'[x] = refs[x]
      /\ chain' = [chain EXCEPT ![m] = "gone"]
  BY <1>0, ChainDoneRefs DEF Steady
<1>2. "gone" \in {"held", "gone"}
  OBVIOUS
<1>3. CASE /\ posted' = q \/ (status[s] = "alive" /\ posted' = Deref(s, q))
           /\ UNCHANGED <<view, queueVars>>
  <2>1. /\ posted' \in Seq(PostedType) /\ NonEmpty(posted')
        /\ \A x : x \in Dying(posted', "deleteEvents") <=> x \in Dying(posted, "deleteEvents")
        /\ \A x : x \in Dying(posted, "deleteSession") => x \in Dying(posted', "deleteSession")
        /\ \A x \in Sessions : x \in Dying(posted', "deleteSession")
                                 => x \in Dying(posted, "deleteSession") \/ status[x] = "alive"
    BY <1>0, <1>3, DerefFacts DEF Follows
  <2> QED BY <1>1, <1>2, <1>3, <2>1, ChainStep
<1>4. CASE /\ status[s] = "alive" /\ (sender[m] = Myself => view[s] # "none")
           /\ hooked' = [hooked EXCEPT ![m] = MakesEvent(m, notify) /\ useQueue]
           /\ arrival' = [arrival EXCEPT ![m] = nAppended + 1]
           /\ nAppended' = nAppended + 1
           /\ unnoticed' = IF GoesUnnoticed(m, notify)
                           THEN unnoticed \cup {manager[m]} ELSE unnoticed
           /\ IF useQueue
              THEN /\ view' = [view EXCEPT ![s] = IF @ = "none" THEN "hidden" ELSE @]
                   /\ queue' = Q
                   /\ eventList' = L
                   /\ posted' = q
              ELSE ReadMessages(s, q, L, Q)
  BY <1>0, <1>4, AppendedStep
<1> QED BY <1>3, <1>4 DEF Deliver

-----------------------------------------------------------------------------
(* Steps that leave sessions, contacts and the chain alone disturb neither *)
(* the order of creation nor the reference counts.                         *)
LEMMA OrderKept ==
    ASSUME Inv,
           UNCHANGED <<status, partner, refs, nSess, chain, manager, sender, nMsgs>>,
           \A x \in Sessions : status[x] = "unused" => view'[x] = view[x]
    PROVE  SessionsInOrder' /\ MessagesInOrder' /\ RefsCountTasks'
<1>1. SessionsInOrder'
  BY DEF Inv, SessionsInOrder
<1>2. MessagesInOrder'
  BY DEF Inv, MessagesInOrder
<1>3. \A x \in Sessions : Tasks(x)' = Tasks(x)
  BY DEF Tasks, InChain
<1>4. RefsCountTasks'
  BY <1>3 DEF Inv, RefsCountTasks, Tasks
<1> QED BY <1>1, <1>2, <1>4

(* A queued event is deleted: by its notification, which counts as the     *)
(* user's dismissal, or because it was scheduled for deletion.  In the     *)
(* latter case an event that kept its chat from being forgotten shows it.  *)
LEMMA EventDeletedStep ==
    ASSUME Inv, NEW m \in Msgs, Queued(m),
           NEW q \in Seq(PostedType), NonEmpty(q),
           \A x : x \in Dying(q, "deleteEvents") => x \in Dying(posted, "deleteEvents"),
           \A x : x \in Dying(q, "deleteSession") <=> x \in Dying(posted, "deleteSession"),
           EventDeleted(m, q),
           UNCHANGED <<status, partner, refs, nSess, chain, manager, sender, nMsgs, hooked, arrival,
                       nAppended, unnoticed, useQueue, otherDesktop, nChanges, contacts, crashed>>,
           dismissed' \subseteq Sessions, dismissed \subseteq dismissed',
           manager[m] \in dismissed' \/ m \in Dying(posted, "deleteEvents")
    PROVE  Inv'
<1> DEFINE s == manager[m]
           L == eventList \ {m}
           Q == [queue EXCEPT ![m] = "gone"]
           C == hooked[m] /\ queue[m] = "applied" /\ status[s] = "alive"
<1>0. /\ queue \in [Msgs -> {"none", "pending", "applied", "gone"}]
      /\ view \in [Sessions -> {"none", "hidden", "visible", "closing"}]
      /\ eventList \subseteq Msgs /\ manager \in [Msgs -> Sessions] /\ s \in Sessions
      /\ TypeOK
  BY DEF Inv, TypeOK
<1>1. L \in SUBSET Msgs /\ Q \in [Msgs -> {"none", "pending", "applied", "gone"}]
      /\ \A n \in Msgs : Q[n] = IF n = m THEN "gone" ELSE queue[n]
  BY <1>0
<1>2. \A n \in L : n \in Msgs /\ n # m /\ Queued(n) /\ hooked[n] /\ chain[n] = "gone"
                     /\ status[manager[n]] = "alive"
  BY <1>0 DEF Inv, EventListSound, QueuedAfterChain
<1>3. CASE C
  <2>1. HasRead(s, q, L, Q)
    <3>1. ReadMessages(s, q, L, Q)
      BY <1>3 DEF EventDeleted
    <3> HIDE DEF s, L, Q, C
    <3> QED BY <1>0, <1>1, <3>1, ReadFacts
  <2>2. /\ view' \in [Sessions -> {"none", "hidden", "visible", "closing"}]
        /\ view'[s] \in {"visible", "closing"}
        /\ \A x \in Sessions : x # s => view'[x] = view[x]
        /\ queue' \in [Msgs -> {"none", "pending", "applied", "gone"}]
        /\ \A n \in Msgs : queue'[n] = IF n \in L /\ manager[n] = s THEN "applied" ELSE Q[n]
        /\ eventList' \subseteq Msgs
        /\ \A n : n \in eventList' <=> n \in L /\ manager[n] # s
        /\ posted' \in Seq(PostedType) /\ NonEmpty(posted')
        /\ \A x : x \in Dying(posted', "deleteEvents")
                    <=> x \in Dying(q, "deleteEvents") \/ (x \in L /\ manager[x] = s)
        /\ \A x : x \in Dying(posted', "deleteSession") <=> x \in Dying(q, "deleteSession")
    <3> HIDE DEF s, L, Q, C
    <3> QED BY <2>1 DEF HasRead
  <2> HIDE DEF L, Q
  <2>3. TypeOK'
    BY <1>0, <2>2 DEF TypeOK
  <2>4. SessionsInOrder' /\ MessagesInOrder' /\ RefsCountTasks'
    <3>1. \A x \in Sessions : status[x] = "unused" => view'[x] = view[x]
      BY <1>3, <2>2
    <3> QED BY <3>1, OrderKept
  <2>5. QueuedAfterChain'
    BY <1>1, <1>2, <2>2 DEF Inv, QueuedAfterChain, Queued
  <2>6. PostedSound'
    BY <1>2, <2>2 DEF Inv, PostedSound
  <2>7. EventListSound'
    BY <1>1, <1>2, <2>2 DEF EventListSound, Queued
  <2>8. HiddenKept'
    <3> SUFFICES ASSUME NEW x \in Sessions, status'[x] = "alive", view'[x] = "hidden"
                 PROVE  \/ \E n \in Msgs : Keeps(n, x)'
                        \/ x \in dismissed'
                        \/ x \in unnoticed'
                        \/ x \in Dying(posted', "deleteSession")
      BY DEF HiddenKept
    <3>1. x # s /\ view[x] = "hidden"
      BY <2>2
    <3>2. \A n \in Msgs : Keeps(n, x) => n # m /\ manager[n] # s
      BY <3>1 DEF Keeps
    <3>3. \A n \in Msgs : Keeps(n, x) => Keeps(n, x)'
      BY <1>1, <2>2, <3>2 DEF Keeps, Queued
    <3> QED BY <2>2, <3>1, <3>3 DEF Inv, HiddenKept
  <2> QED BY <2>3, <2>4, <2>5, <2>6, <2>7, <2>8 DEF Inv
<1>4. CASE ~C
  <2>1. queue' = Q /\ posted' = q /\ UNCHANGED view
        /\ eventList' = IF hooked[m] THEN L ELSE eventList
    BY <1>4 DEF EventDeleted
  <2>2. eventList' = L
    <3>1. CASE hooked[m]
      BY <2>1, <3>1
    <3>2. CASE ~hooked[m]
      <4>1. m \notin eventList
        BY <3>2 DEF Inv, EventListSound
      <4> QED BY <2>1, <3>2, <4>1
    <3> QED BY <3>1, <3>2
  <2> HIDE DEF L, Q
  <2>3. TypeOK'
    BY <1>0, <1>1, <2>1, <2>2 DEF TypeOK
  <2>4. SessionsInOrder' /\ MessagesInOrder' /\ RefsCountTasks'
    BY <2>1, OrderKept
  <2>5. QueuedAfterChain'
    BY <1>1, <2>1 DEF Inv, QueuedAfterChain, Queued
  <2>6. PostedSound'
    BY <2>1 DEF Inv, PostedSound
  <2>7. EventListSound'
    BY <1>1, <1>2, <2>1, <2>2 DEF EventListSound, Queued
  <2>8. HiddenKept'
    <3> SUFFICES ASSUME NEW x \in Sessions, status'[x] = "alive", view'[x] = "hidden"
                 PROVE  \/ \E n \in Msgs : Keeps(n, x)'
                        \/ x \in dismissed'
                        \/ x \in unnoticed'
                        \/ x \in Dying(posted', "deleteSession")
      BY DEF HiddenKept
    <3>1. ASSUME NEW n \in Msgs, Keeps(n, x) PROVE Keeps(n, x)' \/ x \in dismissed'
      <4>1. CASE n = m
        <5>1. manager[m] = x
          BY <3>1, <4>1 DEF Keeps
        <5>2. m \in Dying(posted, "deleteEvents") => C
          BY <3>1, <4>1, <5>1 DEF Keeps
        <5> QED BY <1>4, <5>1, <5>2
      <4>2. CASE n # m
        <5>1. queue'[n] = queue[n]
          BY <1>1, <2>1, <4>2
        <5> QED BY <2>1, <3>1, <5>1 DEF Keeps, Queued
      <4> QED BY <4>1, <4>2
    <3> QED BY <2>1, <3>1 DEF Inv, HiddenKept
  <2> QED BY <2>3, <2>4, <2>5, <2>6, <2>7, <2>8 DEF Inv
<1> QED BY <1>3, <1>4

(* A notification is closed. *)
LEMMA CloseNotificationStep ==
    ASSUME Inv, NEW m \in Msgs, CloseNotification(m)
    PROVE  Inv'
<1>1. /\ Queued(m) /\ EventDeleted(m, posted)
      /\ UNCHANGED <<status, partner, refs, nSess, chain, manager, sender, nMsgs, hooked, arrival,
                     nAppended, unnoticed, useQueue, otherDesktop, nChanges, contacts, crashed>>
      /\ dismissed' = dismissed \cup {manager[m]}
  BY DEF CloseNotification, msgVars, prefVars
<1>2. posted \in Seq(PostedType) /\ NonEmpty(posted) /\ manager[m] \in Sessions
      /\ dismissed \subseteq Sessions
  BY DEF Inv, TypeOK, PostedSound
<1>3. dismissed' \subseteq Sessions /\ dismissed \subseteq dismissed' /\ manager[m] \in dismissed'
  BY <1>1, <1>2
<1> QED BY <1>1, <1>2, <1>3, EventDeletedStep

(* A step that at most takes something from the head of the event loop's   *)
(* queue.                                                                  *)
LEMMA PostedStep ==
    ASSUME Inv, UNCHANGED <<sessVars, msgVars, queueVars, prefVars, contacts, dismissed>>,
           crashed' \in BOOLEAN,
           posted' \in Seq(PostedType), NonEmpty(posted'),
           \A x : x \in Dying(posted', "deleteEvents") => x \in Dying(posted, "deleteEvents"),
           \A x : x \in Dying(posted, "deleteSession") <=> x \in Dying(posted', "deleteSession")
    PROVE  Inv'
<1>1. UNCHANGED <<status, partner, refs, view, nSess, chain, manager, sender, nMsgs, queue, hooked,
                  arrival, eventList, nAppended, unnoticed, useQueue,
                  otherDesktop, nChanges, contacts, dismissed>>
  BY DEF sessVars, msgVars, queueVars, prefVars
<1>2. TypeOK'
  BY <1>1 DEF Inv, TypeOK
<1>3. SessionsInOrder' /\ MessagesInOrder' /\ RefsCountTasks'
  BY <1>1, OrderKept
<1>4. QueuedAfterChain' /\ EventListSound'
  BY <1>1 DEF Inv, QueuedAfterChain, EventListSound, Queued
<1>5. PostedSound'
  BY <1>1 DEF Inv, PostedSound
<1>6. HiddenKept'
  <2>1. \A n \in Msgs, x \in Sessions : Keeps(n, x) => Keeps(n, x)'
    BY <1>1 DEF Keeps, Queued
  <2> QED BY <1>1, <2>1 DEF Inv, HiddenKept
<1> QED BY <1>2, <1>3, <1>4, <1>5, <1>6 DEF Inv

(* An event scheduled for deletion is deleted. *)
LEMMA DeleteEventsStep ==
    ASSUME Inv, DeleteEvents
    PROVE  Inv'
<1> DEFINE S == Head(posted).ids
           m == Oldest(S)
           q == Handled(posted, m)
<1>1. /\ posted # <<>> /\ Head(posted).type = "deleteEvents"
      /\ IF Queued(m) THEN EventDeleted(m, q) ELSE posted' = q /\ UNCHANGED <<view, queue, eventList>>
      /\ UNCHANGED <<status, partner, refs, nSess, chain, manager, sender, nMsgs, hooked, arrival,
                     nAppended, unnoticed, useQueue,
                     otherDesktop, nChanges, contacts, dismissed, crashed>>
  BY DEF DeleteEvents, IsHead, msgVars, prefVars
<1>2. posted \in Seq(PostedType) /\ NonEmpty(posted) /\ arrival \in [Msgs -> Nat]
      /\ dismissed \subseteq Sessions
  BY DEF Inv, TypeOK, PostedSound
<1>3. Len(posted) \in Nat \ {0} /\ posted[1] = Head(posted) /\ 1 \in 1..Len(posted)
  BY <1>1, <1>2, HeadTailProperties, EmptySeq
<1>4. S # {}
  BY <1>1, <1>2, <1>3 DEF NonEmpty
<1>5. \A x \in S : x \in Dying(posted, "deleteEvents")
  BY <1>1, <1>3, DyingIs
<1>6. S \in SUBSET Msgs
  BY <1>5 DEF Inv, PostedSound
<1>7. m \in S
  BY <1>2, <1>4, <1>6, OldestIn
<1> HIDE DEF S, m
<1>8. m \in Msgs /\ m \in Dying(posted, "deleteEvents")
  BY <1>5, <1>6, <1>7
<1>9. /\ q \in Seq(PostedType) /\ NonEmpty(q)
      /\ \A x : x \in Dying(q, "deleteEvents") => x \in Dying(posted, "deleteEvents")
      /\ \A x : x \in Dying(q, "deleteSession") <=> x \in Dying(posted, "deleteSession")
  BY <1>1, <1>2, HandledFacts, NonEmptyKept
<1> HIDE DEF q
<1>10. CASE Queued(m)
  <2>1. EventDeleted(m, q) /\ dismissed' \subseteq Sessions /\ dismissed \subseteq dismissed'
    BY <1>1, <1>2, <1>10
  <2> QED BY <1>1, <1>8, <1>9, <1>10, <2>1, EventDeletedStep
<1>11. CASE ~Queued(m)
  <2>1. posted' = q /\ UNCHANGED <<view, queue, eventList>>
    BY <1>1, <1>11
  <2>2. UNCHANGED <<sessVars, msgVars, queueVars, prefVars, contacts, dismissed>>
    BY <1>1, <2>1 DEF sessVars, msgVars, queueVars, prefVars
  <2>3. crashed' \in BOOLEAN
    BY <1>1 DEF Inv, TypeOK
  <2> QED BY <1>9, <2>1, <2>2, <2>3, PostedStep
<1> QED BY <1>10, <1>11

(* The view of a session is deleted. *)
LEMMA DeleteViewStep ==
    ASSUME Inv, NEW s \in Sessions, DeleteView(s)
    PROVE  Inv'
<1> DEFINE q == Tail(posted)
<1>1. /\ IsHead("deleteView")
      /\ IF status[s] = "alive" THEN ViewDestroyed(s) ELSE posted' = q /\ UNCHANGED view
      /\ UNCHANGED <<status, partner, refs, nSess, msgVars, queueVars, prefVars,
                     contacts, dismissed, crashed>>
  BY DEF DeleteView
<1>2. UNCHANGED <<status, partner, refs, nSess, chain, manager, sender, nMsgs, queue, hooked, arrival,
                  eventList, nAppended, unnoticed, useQueue,
                  otherDesktop, nChanges, contacts, dismissed, crashed>>
  BY <1>1 DEF msgVars, queueVars, prefVars
<1>3. /\ q \in Seq(PostedType) /\ NonEmpty(q)
      /\ \A x : x \in Dying(q, "deleteEvents") <=> x \in Dying(posted, "deleteEvents")
      /\ \A x : x \in Dying(q, "deleteSession") <=> x \in Dying(posted, "deleteSession")
  BY <1>1, FollowsStart DEF Follows
<1> HIDE DEF q
<1>4. CASE status[s] # "alive"
  <2>1. posted' = q /\ UNCHANGED view
    BY <1>1, <1>4
  <2>2. UNCHANGED <<sessVars, msgVars, queueVars, prefVars, contacts, dismissed>>
    BY <1>2, <2>1 DEF sessVars, msgVars, queueVars, prefVars
  <2>3. crashed' \in BOOLEAN
    BY <1>2 DEF Inv, TypeOK
  <2> QED BY <1>3, <2>1, <2>2, <2>3, PostedStep
<1>5. CASE status[s] = "alive"
  <2>1. /\ view' = [view EXCEPT ![s] = "none"]
        /\ posted' = IF refs[s] = 0 THEN DeleteLater(q, "deleteSession", {s}) ELSE q
    BY <1>1, <1>5 DEF ViewDestroyed, q
  <2>2. view \in [Sessions -> {"none", "hidden", "visible", "closing"}]
    BY DEF Inv, TypeOK
  <2>3. {s} \in SUBSET (Sessions \cup Msgs)
    OBVIOUS
  <2>4. /\ posted' \in Seq(PostedType) /\ NonEmpty(posted')
        /\ \A x : x \in Dying(posted', "deleteEvents") <=> x \in Dying(posted, "deleteEvents")
        /\ \A x : x \in Dying(posted, "deleteSession") => x \in Dying(posted', "deleteSession")
        /\ \A x : x \in Dying(posted', "deleteSession") => x \in Dying(posted, "deleteSession") \/ x = s
    BY <1>3, <2>1, <2>3, DeleteLaterFacts, NonEmptyKept
  <2>5. /\ view' \in [Sessions -> {"none", "hidden", "visible", "closing"}]
        /\ \A x \in Sessions : x # s => view'[x] = view[x]
        /\ view'[s] = "none"
    BY <2>1, <2>2
  <2>6. TypeOK'
    BY <1>2, <2>4, <2>5 DEF Inv, TypeOK
  <2>7. SessionsInOrder' /\ MessagesInOrder' /\ RefsCountTasks'
    <3>1. \A x \in Sessions : status[x] = "unused" => view'[x] = view[x]
      BY <1>5, <2>5
    <3> QED BY <1>2, <3>1, OrderKept
  <2>8. QueuedAfterChain' /\ EventListSound'
    BY <1>2 DEF Inv, QueuedAfterChain, EventListSound, Queued
  <2>9. PostedSound'
    BY <1>2, <1>5, <2>4 DEF Inv, PostedSound
  <2>10. HiddenKept'
    <3>1. \A n \in Msgs, x \in Sessions : Keeps(n, x) => Keeps(n, x)'
      BY <1>2, <2>4 DEF Keeps, Queued
    <3>2. ASSUME NEW x \in Sessions, view'[x] = "hidden" PROVE view[x] = "hidden"
      <4>1. x # s
        BY <2>5, <3>2
      <4> QED BY <2>5, <3>2, <4>1
    <3> QED BY <1>2, <2>4, <3>1, <3>2 DEF Inv, HiddenKept
  <2> QED BY <2>6, <2>7, <2>8, <2>9, <2>10 DEF Inv
<1> QED BY <1>4, <1>5

(* A session is deleted, and what depends on it. *)
LEMMA DeleteSessionStep ==
    ASSUME Inv, NEW s \in Sessions, DeleteSession(s)
    PROVE  Inv'
<1>1. /\ posted # <<>> /\ Head(posted).type = "deleteSession" /\ s \in Head(posted).ids
      /\ posted' = Handled(posted, s)
      /\ status' = [status EXCEPT ![s] = "deleted"]
      /\ view' = [view EXCEPT ![s] = "none"]
      /\ queue' = [m \in Msgs |-> IF Queued(m) /\ manager[m] = s THEN "gone" ELSE queue[m]]
      /\ eventList' = eventList \ ListOf(eventList, s)
      /\ UNCHANGED <<partner, refs, nSess, chain, manager, sender, nMsgs, hooked, arrival, nAppended,
                     unnoticed,
                     useQueue, otherDesktop, nChanges, contacts, dismissed, crashed>>
  BY DEF DeleteSession, IsHead, msgVars, prefVars
<1>2. /\ posted \in Seq(PostedType) /\ NonEmpty(posted)
      /\ status \in [Sessions -> {"unused", "alive", "deleted"}]
      /\ view \in [Sessions -> {"none", "hidden", "visible", "closing"}]
      /\ queue \in [Msgs -> {"none", "pending", "applied", "gone"}]
      /\ eventList \subseteq Msgs /\ manager \in [Msgs -> Sessions]
  BY DEF Inv, TypeOK, PostedSound
<1>3. /\ posted' \in Seq(PostedType) /\ NonEmpty(posted')
      /\ \A x : x \in Dying(posted', "deleteEvents") <=> x \in Dying(posted, "deleteEvents")
      /\ \A x : x # s /\ x \in Dying(posted, "deleteSession") => x \in Dying(posted', "deleteSession")
      /\ \A x : x \in Dying(posted', "deleteSession") => x \in Dying(posted, "deleteSession")
  BY <1>1, <1>2, HandledFacts, NonEmptyKept
<1>4. status[s] # "unused"
  <2>1. posted[1] = Head(posted) /\ 1 \in 1..Len(posted)
    BY <1>1, <1>2, HeadTailProperties, EmptySeq
  <2>2. s \in Dying(posted, "deleteSession")
    BY <1>1, <2>1, DyingIs
  <2> QED BY <2>2 DEF Inv, PostedSound
<1>5. /\ status' \in [Sessions -> {"unused", "alive", "deleted"}] /\ status'[s] = "deleted"
      /\ view' \in [Sessions -> {"none", "hidden", "visible", "closing"}] /\ view'[s] = "none"
      /\ \A x \in Sessions : x # s => status'[x] = status[x] /\ view'[x] = view[x]
  BY <1>1, <1>2
<1>6. /\ queue' \in [Msgs -> {"none", "pending", "applied", "gone"}]
      /\ \A n \in Msgs : manager[n] # s => queue'[n] = queue[n]
      /\ \A n \in Msgs : Queued(n)' => Queued(n)
      /\ eventList' \subseteq Msgs
      /\ \A n : n \in eventList' => n \in eventList /\ manager[n] # s
  BY <1>1, <1>2 DEF Queued, ListOf
<1>7. TypeOK'
  BY <1>1, <1>3, <1>5, <1>6 DEF Inv, TypeOK
<1>8. SessionsInOrder'
  <2> SUFFICES ASSUME NEW x \in Sessions
               PROVE  /\ x > nSess <=> status'[x] = "unused"
                      /\ status'[x] = "unused" => refs[x] = 0 /\ view'[x] = "none"
    BY <1>1 DEF SessionsInOrder
  <2>1. /\ x > nSess <=> status[x] = "unused"
        /\ status[x] = "unused" => refs[x] = 0 /\ view[x] = "none"
    BY DEF Inv, SessionsInOrder
  <2>2. CASE x = s
    BY <1>4, <1>5, <2>1, <2>2
  <2>3. CASE x # s
    BY <1>5, <2>1, <2>3
  <2> QED BY <2>2, <2>3
<1>9. MessagesInOrder'
  <2>1. \A x \in Sessions : status[x] # "unused" => status'[x] # "unused"
    BY <1>5
  <2> QED BY <1>1, <1>2, <2>1 DEF Inv, MessagesInOrder
<1>10. QueuedAfterChain'
  BY <1>1, <1>6 DEF Inv, QueuedAfterChain
<1>11. PostedSound'
  <2>1. \A x \in Sessions : status[x] # "unused" => status'[x] # "unused"
    BY <1>5
  <2> QED BY <1>1, <1>3, <2>1 DEF Inv, PostedSound
<1>12. RefsCountTasks'
  <2>1. \A x \in Sessions : Tasks(x)' = Tasks(x)
    BY <1>1 DEF Tasks, InChain
  <2>2. \A x \in Sessions : status'[x] = "alive" => status[x] = "alive"
    BY <1>5
  <2> QED BY <1>1, <2>1, <2>2 DEF Inv, RefsCountTasks, Tasks
<1>13. EventListSound'
  <2> SUFFICES ASSUME NEW n \in eventList'
               PROVE  Queued(n)' /\ hooked'[n] /\ status'[manager'[n]] = "alive"
    BY DEF EventListSound
  <2>1. n \in eventList /\ n \in Msgs /\ manager[n] # s /\ manager[n] \in Sessions
    BY <1>2, <1>6
  <2>2. Queued(n) /\ hooked[n] /\ status[manager[n]] = "alive"
    BY <2>1 DEF Inv, EventListSound
  <2> QED BY <1>1, <1>5, <1>6, <2>1, <2>2 DEF Queued
<1>14. HiddenKept'
  <2> SUFFICES ASSUME NEW x \in Sessions, status'[x] = "alive", view'[x] = "hidden"
               PROVE  \/ \E n \in Msgs : Keeps(n, x)'
                      \/ x \in dismissed'
                      \/ x \in unnoticed'
                      \/ x \in Dying(posted', "deleteSession")
    BY DEF HiddenKept
  <2>1. x # s
    BY <1>5
  <2>2. status[x] = "alive" /\ view[x] = "hidden"
    BY <1>5, <2>1
  <2>3. \A n \in Msgs : Keeps(n, x) => Keeps(n, x)'
    BY <1>1, <1>3, <1>6, <2>1 DEF Keeps, Queued
  <2> QED BY <1>1, <1>3, <2>1, <2>2, <2>3 DEF Inv, HiddenKept
<1> QED BY <1>7, <1>8, <1>9, <1>10, <1>11, <1>12, <1>13, <1>14 DEF Inv

(* A contact is destroyed: its messages leave the chain and the list, and  *)
(* the sessions that lose an event are about to be deleted.                *)
LEMMA DestroyContactStep ==
    ASSUME Inv, NEW c \in Contacts, DestroyContact(c)
    PROVE  Inv'
<1> DEFINE own    == {m \in Msgs : sender[m] = c}
           reads  == {manager[m] : m \in {n \in own : hooked[n] /\ queue[n] = "applied"}}
           tasks(s) == {m \in own : InChain(m) /\ manager[m] = s}
<1>1. /\ contacts' = contacts \ {c}
      /\ chain' = [m \in Msgs |-> IF m \in own /\ InChain(m) THEN "gone" ELSE chain[m]]
      /\ refs' = [s \in Sessions |-> IF status[s] = "alive"
                                     THEN refs[s] - Cardinality(tasks(s)) ELSE refs[s]]
      /\ queue' = [m \in Msgs |-> IF m \in own /\ Queued(m) THEN "gone" ELSE queue[m]]
      /\ eventList' = eventList \ own
      /\ view' = [s \in Sessions |-> IF s \in reads /\ status[s] = "alive"
                                     THEN Shown(view[s]) ELSE view[s]]
      /\ posted' = DeleteLater(posted, "deleteSession", Registered(c))
      /\ UNCHANGED <<status, partner, nSess, manager, sender, nMsgs, hooked, arrival,
                     nAppended, unnoticed, useQueue, otherDesktop, nChanges, dismissed, crashed>>
  BY DEF DestroyContact, prefVars
<1>2. /\ posted \in Seq(PostedType) /\ NonEmpty(posted)
      /\ status \in [Sessions -> {"unused", "alive", "deleted"}]
      /\ view \in [Sessions -> {"none", "hidden", "visible", "closing"}]
      /\ queue \in [Msgs -> {"none", "pending", "applied", "gone"}]
      /\ chain \in [Msgs -> {"none", "waiting", "held", "gone"}]
      /\ refs \in [Sessions -> Nat]
      /\ eventList \subseteq Msgs /\ manager \in [Msgs -> Sessions]
  BY DEF Inv, TypeOK, PostedSound
<1>3. /\ posted' \in Seq(PostedType) /\ NonEmpty(posted')
      /\ \A x : x \in Dying(posted', "deleteEvents") <=> x \in Dying(posted, "deleteEvents")
      /\ \A x : x \in Dying(posted', "deleteSession")
                  <=> x \in Dying(posted, "deleteSession") \/ x \in Registered(c)
  <2>1. Registered(c) \in SUBSET (Sessions \cup Msgs)
    BY DEF Registered
  <2> QED BY <1>1, <1>2, <2>1, DeleteLaterFacts, NonEmptyKept
<1>4. ASSUME NEW s \in Sessions, status[s] = "alive"
      PROVE  refs'[s] \in Nat /\ refs'[s] = Cardinality(Tasks(s)')
  <2>1. tasks(s) \in SUBSET Tasks(s) /\ Tasks(s)' = Tasks(s) \ tasks(s)
    BY <1>1, <1>2 DEF Tasks, InChain
  <2>2. Tasks(s) \in SUBSET Msgs /\ tasks(s) \in SUBSET Msgs
    BY DEF Tasks
  <2>3. refs[s] = Cardinality(Tasks(s)) /\ refs'[s] = refs[s] - Cardinality(tasks(s))
    BY <1>1, <1>4 DEF Inv, RefsCountTasks, Tasks
  <2> DEFINE t == tasks(s)
             T == Tasks(s)
  <2> HIDE DEF own, reads, t, T
  <2>4. IsFiniteSet(T) /\ Cardinality(T) \in Nat /\ Cardinality(t) \in Nat
        /\ Cardinality(T \ t) \in Nat
    <3>1. T \ t \in SUBSET Msgs /\ T \in SUBSET Msgs /\ t \in SUBSET Msgs
      BY <2>2 DEF t, T
    <3> QED BY <3>1, TasksFinite
  <2>5. Cardinality(T \ t) = Cardinality(T) - Cardinality(t)
    <3>1. T \cap t = t
      BY <2>1 DEF t, T
    <3> QED BY <2>4, <3>1, FS_Difference
  <2>6. refs'[s] = Cardinality(T) - Cardinality(t) /\ Tasks(s)' = T \ t
    BY <2>1, <2>3 DEF t, T
  <2> QED BY <2>4, <2>5, <2>6
<1>5. refs' \in [Sessions -> Nat] /\ \A s \in Sessions : status[s] # "alive" => refs'[s] = refs[s]
  <2>1. \A s \in Sessions : status[s] # "alive" => refs'[s] = refs[s]
    BY <1>1
  <2>2. \A s \in Sessions : refs'[s] \in Nat
    BY <1>2, <1>4, <2>1
  <2>3. refs' = [s \in Sessions |-> refs'[s]]
    BY <1>1
  <2> QED BY <2>1, <2>2, <2>3
<1>6. RefsCountTasks'
  BY <1>1, <1>4 DEF RefsCountTasks, Tasks
<1>7. /\ view' \in [Sessions -> {"none", "hidden", "visible", "closing"}]
      /\ \A x \in Sessions : view'[x] = "hidden" => view[x] = "hidden"
      /\ \A x \in Sessions : status[x] = "unused" => view'[x] = view[x]
  <2> HIDE DEF reads
  <2> QED BY <1>1, <1>2 DEF Shown
<1>8. /\ queue' \in [Msgs -> {"none", "pending", "applied", "gone"}]
      /\ \A n \in Msgs : sender[n] # c => queue'[n] = queue[n]
      /\ \A n \in Msgs : Queued(n)' => Queued(n)
      /\ eventList' \subseteq Msgs
      /\ \A n : n \in eventList' => n \in eventList /\ sender[n] # c
  BY <1>1, <1>2 DEF Queued
<1>9. /\ chain' \in [Msgs -> {"none", "waiting", "held", "gone"}]
      /\ \A n \in Msgs : chain[n] = "gone" => chain'[n] = "gone"
      /\ \A n \in Msgs : chain[n] = "none" <=> chain'[n] = "none"
  BY <1>1, <1>2 DEF InChain
<1>10. contacts' \subseteq Contacts
  BY <1>1 DEF Inv, TypeOK
<1> HIDE DEF own, reads, tasks
<1>11. TypeOK'
  BY <1>1, <1>3, <1>5, <1>7, <1>8, <1>9, <1>10 DEF Inv, TypeOK
<1>12. SessionsInOrder'
  BY <1>1, <1>5, <1>7 DEF Inv, SessionsInOrder
<1>13. MessagesInOrder'
  BY <1>1, <1>9 DEF Inv, MessagesInOrder
<1>14. QueuedAfterChain'
  BY <1>8, <1>9 DEF Inv, QueuedAfterChain
<1>15. PostedSound'
  BY <1>1, <1>3, <1>9 DEF Inv, PostedSound, Registered
<1>16. EventListSound'
  BY <1>1, <1>2, <1>8 DEF Inv, EventListSound, Queued
<1>17. HiddenKept'
  <2> SUFFICES ASSUME NEW x \in Sessions, status'[x] = "alive", view'[x] = "hidden"
               PROVE  \/ \E n \in Msgs : Keeps(n, x)'
                      \/ x \in dismissed'
                      \/ x \in unnoticed'
                      \/ x \in Dying(posted', "deleteSession")
    BY DEF HiddenKept
  <2>1. status[x] = "alive" /\ view[x] = "hidden"
    BY <1>1, <1>7
  <2>2. ASSUME NEW n \in Msgs, Keeps(n, x) PROVE Keeps(n, x)' \/ x \in Registered(c)
    <3>1. CASE sender[n] = c
      <4>1. manager[n] = x /\ chain[n] = "gone"
        BY <2>2 DEF Keeps, Inv, QueuedAfterChain
      <4>2. sender[n] \in {partner[x], Myself}
        BY <4>1 DEF Inv, MessagesInOrder
      <4> QED BY <2>1, <3>1, <4>2, ChatAssumption DEF Registered
    <3>2. CASE sender[n] # c
      BY <1>1, <1>3, <1>8, <2>2, <3>2 DEF Keeps, Queued
    <3> QED BY <3>1, <3>2
  <2> QED BY <1>1, <1>3, <2>1, <2>2 DEF Inv, HiddenKept
<1> QED BY <1>6, <1>11, <1>12, <1>13, <1>14, <1>15, <1>16, <1>17 DEF Inv

(* The chat of a session, created if need be, is shown or closed by the    *)
(* user; events of that session alone may be scheduled for deletion.       *)
LEMMA ShowStep ==
    ASSUME Inv, NEW s \in Sessions,
           status' \in [Sessions -> {"unused", "alive", "deleted"}],
           partner' \in [Sessions -> Contacts],
           nSess' \in 0..MaxSessions,
           status'[s] = "alive",
           (status[s] = "alive" /\ partner'[s] = partner[s]) \/ status[s] = "unused",
           \A x \in Sessions \ {s} : status'[x] = status[x] /\ partner'[x] = partner[x],
           \A x \in Sessions : x > nSess' <=> status'[x] = "unused",
           UNCHANGED <<refs, msgVars, queueVars, prefVars, contacts, dismissed, crashed>>,
           NEW v \in {"visible", "closing"}, view' = [view EXCEPT ![s] = v],
           posted' \in Seq(PostedType), NonEmpty(posted'),
           \A x : x \in Dying(posted', "deleteEvents")
                    => x \in Dying(posted, "deleteEvents") \/ (x \in eventList /\ manager[x] = s),
           \A x : x \in Dying(posted', "deleteSession") <=> x \in Dying(posted, "deleteSession")
    PROVE  Inv'
<1>1. UNCHANGED <<refs, chain, manager, sender, nMsgs, queue, hooked, arrival, eventList, nAppended,
                  unnoticed,
                  useQueue, otherDesktop, nChanges, contacts, dismissed, crashed>>
  BY DEF msgVars, queueVars, prefVars
<1>2. /\ view \in [Sessions -> {"none", "hidden", "visible", "closing"}]
      /\ eventList \subseteq Msgs /\ manager \in [Msgs -> Sessions]
  BY DEF Inv, TypeOK
<1>3. /\ view' \in [Sessions -> {"none", "hidden", "visible", "closing"}]
      /\ view'[s] \in {"visible", "closing"}
      /\ \A x \in Sessions : x # s => view'[x] = view[x]
  BY <1>2
<1>4. TypeOK'
  BY <1>1, <1>3 DEF Inv, TypeOK
<1>5. SessionsInOrder'
  BY <1>1, <1>3 DEF Inv, SessionsInOrder
<1>6. MessagesInOrder'
  <2> SUFFICES ASSUME NEW n \in Msgs, chain[n] # "none"
               PROVE  /\ status'[manager[n]] # "unused"
                      /\ sender[n] \in {partner'[manager[n]], Myself}
    BY <1>1 DEF Inv, MessagesInOrder
  <2>1. status[manager[n]] # "unused" /\ sender[n] \in {partner[manager[n]], Myself}
        /\ manager[n] \in Sessions
    BY <1>2 DEF Inv, MessagesInOrder
  <2> QED BY <2>1
<1>7. RefsCountTasks'
  <2> SUFFICES ASSUME NEW x \in Sessions, status'[x] = "alive" PROVE refs'[x] = Cardinality(Tasks(x)')
    BY DEF RefsCountTasks, Tasks
  <2>1. Tasks(x)' = Tasks(x)
    BY <1>1 DEF Tasks, InChain
  <2>2. CASE status[x] = "alive"
    BY <1>1, <2>1, <2>2 DEF Inv, RefsCountTasks, Tasks
  <2>3. CASE status[x] # "alive"
    <3>1. status[x] = "unused"
      BY <2>3
    <3>2. refs[x] = 0 /\ Tasks(x) = {}
      BY <3>1 DEF Inv, SessionsInOrder, MessagesInOrder, Tasks, InChain
    <3> QED BY <1>1, <2>1, <3>2, FS_EmptySet
  <2> QED BY <2>2, <2>3
<1>8. QueuedAfterChain'
  BY <1>1 DEF Inv, QueuedAfterChain, Queued
<1>9. PostedSound'
  <2>1. \A n \in eventList : n \in Msgs /\ chain[n] = "gone"
    BY <1>2 DEF Inv, EventListSound, QueuedAfterChain
  <2>2. \A x \in Sessions : status[x] # "unused" => status'[x] # "unused"
    OBVIOUS
  <2> QED BY <1>1, <2>1, <2>2 DEF Inv, PostedSound
<1>10. EventListSound'
  <2> SUFFICES ASSUME NEW n \in eventList
               PROVE  Queued(n)' /\ hooked'[n] /\ status'[manager'[n]] = "alive"
    BY <1>1 DEF EventListSound
  <2>1. Queued(n) /\ hooked[n] /\ status[manager[n]] = "alive" /\ manager[n] \in Sessions
    BY <1>2 DEF Inv, EventListSound
  <2> QED BY <1>1, <2>1 DEF Queued
<1>11. HiddenKept'
  <2> SUFFICES ASSUME NEW x \in Sessions, status'[x] = "alive", view'[x] = "hidden"
               PROVE  \/ \E n \in Msgs : Keeps(n, x)'
                      \/ x \in dismissed'
                      \/ x \in unnoticed'
                      \/ x \in Dying(posted', "deleteSession")
    BY DEF HiddenKept
  <2>1. x # s
    BY <1>3
  <2>2. status[x] = "alive" /\ view[x] = "hidden"
    BY <1>3, <2>1
  <2>3. \A n \in Msgs : Keeps(n, x) => Keeps(n, x)'
    BY <1>1, <2>1 DEF Keeps, Queued
  <2> QED BY <1>1, <2>2, <2>3 DEF Inv, HiddenKept
<1> QED BY <1>4, <1>5, <1>6, <1>7, <1>8, <1>9, <1>10, <1>11 DEF Inv

(* slotViewActivated() schedules the session's part of the list. *)
LEMMA ActivatedFacts ==
    ASSUME Inv, NEW s \in Sessions
    PROVE  LET p == Activated(s)
           IN  /\ p \in Seq(PostedType) /\ NonEmpty(p)
               /\ \A x : x \in Dying(p, "deleteEvents")
                           => x \in Dying(posted, "deleteEvents") \/ (x \in eventList /\ manager[x] = s)
               /\ \A x : x \in Dying(p, "deleteSession") <=> x \in Dying(posted, "deleteSession")
<1> DEFINE S == ListOf(eventList, s)
<1>1. posted \in Seq(PostedType) /\ NonEmpty(posted) /\ eventList \subseteq Msgs
  BY DEF Inv, TypeOK, PostedSound
<1>2. S \in SUBSET (Sessions \cup Msgs) /\ \A x \in S : x \in eventList /\ manager[x] = s
  BY <1>1 DEF ListOf
<1>3. Activated(s) = DeleteLater(posted, "deleteEvents", S)
  BY DEF Activated
<1> HIDE DEF S
<1> QED BY <1>1, <1>2, <1>3, DeleteLaterFacts, NonEmptyKept

(* The sessions as they are. *)
LEMMA SessionsFacts ==
    ASSUME Inv
    PROVE  /\ status \in [Sessions -> {"unused", "alive", "deleted"}]
           /\ partner \in [Sessions -> Contacts] /\ nSess \in 0..MaxSessions
           /\ \A x \in Sessions : x > nSess <=> status[x] = "unused"
           /\ posted \in Seq(PostedType) /\ NonEmpty(posted)
           /\ view \in [Sessions -> {"none", "hidden", "visible", "closing"}]
BY DEF Inv, TypeOK, SessionsInOrder, PostedSound

(* A chat is brought up by the user. *)
LEMMA RaiseFacts ==
    ASSUME Inv, NEW s \in Sessions, Raise(s)
    PROVE  /\ UNCHANGED <<refs, msgVars, queueVars, prefVars, contacts, dismissed, crashed>>
           /\ Shown(view[s]) \in {"visible", "closing"}
           /\ view' = [view EXCEPT ![s] = Shown(view[s])]
           /\ posted' \in Seq(PostedType) /\ NonEmpty(posted')
           /\ \A x : x \in Dying(posted', "deleteEvents")
                       => x \in Dying(posted, "deleteEvents") \/ (x \in eventList /\ manager[x] = s)
           /\ \A x : x \in Dying(posted', "deleteSession") <=> x \in Dying(posted, "deleteSession")
<1>1. /\ UNCHANGED <<refs, msgVars, queueVars, prefVars, contacts, dismissed, crashed>>
      /\ view' = [view EXCEPT ![s] = Shown(view[s])]
      /\ posted' = IF view[s] = "visible" THEN posted ELSE Activated(s)
  BY DEF Raise
<1>2. Shown(view[s]) \in {"visible", "closing"}
  BY DEF Shown
<1>3. posted \in Seq(PostedType) /\ NonEmpty(posted)
  BY SessionsFacts
<1>4. CASE view[s] = "visible"
  BY <1>1, <1>2, <1>3, <1>4
<1>5. CASE view[s] # "visible"
  <2>1. posted' = Activated(s)
    BY <1>1, <1>5
  <2> QED BY <1>1, <1>2, <2>1, ActivatedFacts
<1> QED BY <1>4, <1>5

LEMMA OpenChatStep ==
    ASSUME Inv, NEW c \in Contacts, NEW s \in Sessions, OpenChat(c, s)
    PROVE  Inv'
<1>1. FindOrCreate(c, s) /\ Raise(s)
  BY DEF OpenChat
<1> QED BY <1>1, FindOrCreateFacts, RaiseFacts, ShowStep

LEMMA RaiseViewStep ==
    ASSUME Inv, NEW s \in Sessions, RaiseView(s)
    PROVE  Inv'
<1>1. status[s] = "alive" /\ Raise(s) /\ UNCHANGED <<status, partner, nSess>>
  BY DEF RaiseView
<1> QED BY <1>1, SessionsFacts, RaiseFacts, ShowStep

LEMMA ActivateViewStep ==
    ASSUME Inv, NEW s \in Sessions, ActivateView(s)
    PROVE  Inv'
<1>1. /\ status[s] = "alive" /\ posted' = Activated(s)
      /\ UNCHANGED <<status, partner, nSess>>
      /\ UNCHANGED <<refs, msgVars, queueVars, prefVars, contacts, dismissed, crashed>>
  BY DEF ActivateView, sessVars
<1>2. view' = [view EXCEPT ![s] = "visible"] /\ "visible" \in {"visible", "closing"}
  BY SessionsFacts DEF ActivateView, sessVars
<1> QED BY <1>1, <1>2, SessionsFacts, ActivatedFacts, ShowStep

LEMMA CloseViewStep ==
    ASSUME Inv, NEW s \in Sessions, CloseView(s)
    PROVE  Inv'
<1>1. /\ status[s] = "alive" /\ posted' = DeleteLater(posted, "deleteView", {s})
      /\ view' = [view EXCEPT ![s] = "closing"] /\ "closing" \in {"visible", "closing"}
      /\ UNCHANGED <<status, partner, nSess>>
      /\ UNCHANGED <<refs, msgVars, queueVars, prefVars, contacts, dismissed, crashed>>
  BY DEF CloseView
<1>2. {s} \in SUBSET (Sessions \cup Msgs)
  OBVIOUS
<1>3. /\ posted' \in Seq(PostedType) /\ NonEmpty(posted')
      /\ \A x : x \in Dying(posted', "deleteEvents") <=> x \in Dying(posted, "deleteEvents")
      /\ \A x : x \in Dying(posted', "deleteSession") <=> x \in Dying(posted, "deleteSession")
  BY <1>1, <1>2, SessionsFacts, DeleteLaterFacts, NonEmptyKept
<1> QED BY <1>1, <1>3, SessionsFacts, ShowStep

(* The oldest event is applied.  It was in the list and hence is hooked:   *)
(* its deletion is going to show the chat.                                 *)
LEMMA NextEventStep ==
    ASSUME Inv, NextEvent
    PROVE  Inv'
<1> DEFINE m == Oldest(eventList)
<1>1. /\ eventList # {}
      /\ queue' = [queue EXCEPT ![m] = "applied"]
      /\ posted' = DeleteLater(posted, "deleteEvents", {m})
      /\ UNCHANGED <<status, partner, refs, view, nSess, chain, manager, sender, nMsgs, hooked, arrival,
                     eventList, nAppended, unnoticed, useQueue,
                     otherDesktop, nChanges, contacts, dismissed, crashed>>
  BY DEF NextEvent, sessVars, msgVars, prefVars
<1>2. /\ posted \in Seq(PostedType) /\ NonEmpty(posted)
      /\ queue \in [Msgs -> {"none", "pending", "applied", "gone"}]
      /\ eventList \in SUBSET Msgs /\ arrival \in [Msgs -> Nat]
  BY DEF Inv, TypeOK, PostedSound
<1>3. m \in eventList
  BY <1>1, <1>2, OldestIn
<1> HIDE DEF m
<1>4. m \in Msgs /\ Queued(m) /\ hooked[m] /\ chain[m] = "gone" /\ {m} \in SUBSET (Sessions \cup Msgs)
  BY <1>2, <1>3 DEF Inv, EventListSound, QueuedAfterChain
<1>5. /\ posted' \in Seq(PostedType) /\ NonEmpty(posted')
      /\ \A x : x \in Dying(posted', "deleteEvents") <=> x \in Dying(posted, "deleteEvents") \/ x = m
      /\ \A x : x \in Dying(posted', "deleteSession") <=> x \in Dying(posted, "deleteSession")
  BY <1>1, <1>2, <1>4, DeleteLaterFacts, NonEmptyKept
<1>6. /\ queue' \in [Msgs -> {"none", "pending", "applied", "gone"}]
      /\ queue'[m] = "applied"
      /\ \A n \in Msgs : n # m => queue'[n] = queue[n]
  BY <1>1, <1>2, <1>4
<1>7. TypeOK'
  BY <1>1, <1>5, <1>6 DEF Inv, TypeOK
<1>8. SessionsInOrder' /\ MessagesInOrder' /\ RefsCountTasks'
  BY <1>1, OrderKept
<1>9. \A n \in Msgs : Queued(n) <=> Queued(n)'
  BY <1>4, <1>6 DEF Queued
<1>10. QueuedAfterChain' /\ EventListSound'
  BY <1>1, <1>2, <1>9 DEF Inv, QueuedAfterChain, EventListSound
<1>11. PostedSound'
  BY <1>1, <1>4, <1>5 DEF Inv, PostedSound
<1>12. HiddenKept'
  <2>1. ASSUME NEW n \in Msgs, NEW x \in Sessions, Keeps(n, x) PROVE Keeps(n, x)'
    <3>1. CASE n = m
      BY <1>1, <1>4, <1>6, <1>9, <2>1, <3>1 DEF Keeps
    <3>2. CASE n # m
      BY <1>1, <1>5, <1>6, <1>9, <2>1, <3>2 DEF Keeps
    <3> QED BY <3>1, <3>2
  <2> QED BY <1>1, <1>5, <2>1 DEF Inv, HiddenKept
<1> QED BY <1>7, <1>8, <1>10, <1>11, <1>12 DEF Inv

LEMMA PrefsChangedStep ==
    ASSUME Inv, PrefsChanged
    PROVE  Inv'
<1>1. /\ UNCHANGED <<status, partner, refs, view, nSess, chain, manager, sender, nMsgs, queue, hooked,
                     arrival, eventList, nAppended, unnoticed, posted, contacts, dismissed, crashed>>
      /\ nChanges < MaxChanges /\ nChanges' = nChanges + 1
  BY DEF PrefsChanged, sessVars, msgVars, queueVars
<1>2. useQueue' \in BOOLEAN /\ otherDesktop' \in BOOLEAN
  BY Zenon DEF PrefsChanged
<1>3. nChanges' \in 0..MaxChanges
  BY <1>1, ChatAssumption DEF Inv, TypeOK
<1>4. TypeOK'
  BY <1>1, <1>2, <1>3 DEF Inv, TypeOK
<1>5. SessionsInOrder' /\ MessagesInOrder' /\ RefsCountTasks'
  BY <1>1, OrderKept
<1>6. QueuedAfterChain' /\ EventListSound' /\ PostedSound'
  BY <1>1 DEF Inv, QueuedAfterChain, EventListSound, Queued, PostedSound
<1>7. HiddenKept'
  <2>1. \A n \in Msgs, x \in Sessions : Keeps(n, x) => Keeps(n, x)'
    BY <1>1 DEF Keeps, Queued
  <2> QED BY <1>1, <2>1 DEF Inv, HiddenKept
<1> QED BY <1>4, <1>5, <1>6, <1>7 DEF Inv

(* start() of a task. *)
LEMMA StartStep ==
    ASSUME Inv, NEW m \in Msgs, NEW notify \in BOOLEAN, Start(m, notify)
    PROVE  Inv'
<1> DEFINE q == Tail(posted)
<1>1. /\ IsHead("start") /\ chain[m] = "waiting"
      /\ \/ Deliver(m, q, notify)
         \/ Drop(m, q)
         \/ chain' = [chain EXCEPT ![m] = "held"] /\ posted' = q /\ UNCHANGED <<refs, view, queueVars>>
      /\ Steady
  BY DEF Start, Steady, prefVars
<1>2. InChain(m) /\ Follows(q)
  BY <1>1, FollowsStart DEF InChain
<1> HIDE DEF q
<1>3. CASE Deliver(m, q, notify)
  BY <1>1, <1>2, <1>3, DeliverStep
<1>4. CASE Drop(m, q)
  BY <1>1, <1>2, <1>4, DropStep
<1>5. CASE chain' = [chain EXCEPT ![m] = "held"] /\ posted' = q /\ UNCHANGED <<refs, view, queueVars>>
  <2>1. Follows(posted')
    BY <1>2, <1>5
  <2> QED BY <1>1, <1>5, <2>1, HoldStep
<1> QED BY <1>1, <1>3, <1>4, <1>5

(* The answer of a handler that kept a message. *)
LEMMA AnswerStep ==
    ASSUME Inv, NEW m \in Msgs, NEW notify \in BOOLEAN, Answer(m, notify)
    PROVE  Inv'
<1>1. InChain(m) /\ (Deliver(m, posted, notify) \/ Drop(m, posted)) /\ Steady
  BY DEF Answer, Steady, prefVars, InChain
<1>2. Follows(posted)
  BY FollowsPosted
<1> QED BY <1>1, <1>2, DeliverStep, DropStep

LEMMA StartDanglingStep ==
    ASSUME Inv, NEW m \in Msgs, StartDangling(m)
    PROVE  Inv'
<1>1. /\ UNCHANGED <<sessVars, msgVars, queueVars, prefVars, contacts, dismissed>>
      /\ posted' = posted /\ crashed' \in BOOLEAN
  BY DEF StartDangling
<1> QED BY <1>1, SessionsFacts, PostedStep

-----------------------------------------------------------------------------
(* Every step keeps the invariant. *)
LEMMA NextInv == Inv /\ [Next]_vars => Inv'
<1> SUFFICES ASSUME Inv, [Next]_vars PROVE Inv'
  OBVIOUS
<1>1. CASE EventLoop
  BY <1>1, StartDanglingStep, StartStep, DeleteEventsStep, DeleteViewStep, DeleteSessionStep
     DEF EventLoop
<1>2. CASE Handlers
  BY <1>2, AnswerStep DEF Handlers
<1>3. CASE Network
  BY <1>3, ReceiveStep, ReflectStep, DestroyContactStep DEF Network
<1>4. CASE User
  BY <1>4, NextEventStep, PrefsChangedStep, CloseNotificationStep, OpenChatStep, RaiseViewStep,
     ActivateViewStep, CloseViewStep DEF User
<1>5. CASE UNCHANGED vars
  <2>1. /\ UNCHANGED <<sessVars, msgVars, queueVars, prefVars, contacts, dismissed>>
        /\ posted' = posted /\ UNCHANGED crashed
    BY <1>5 DEF vars
  <2>2. crashed' \in BOOLEAN
    BY <2>1 DEF Inv, TypeOK
  <2> QED BY <2>1, <2>2, SessionsFacts, PostedStep
<1> QED BY <1>1, <1>2, <1>3, <1>4, <1>5 DEF Next

(* The inductive invariant holds throughout every behaviour. *)
THEOREM ChatInvariance == Spec => []Inv
BY InitInv, NextInv, PTL DEF Spec

(* The state is well formed; in particular reference counts do not go      *)
(* below zero, whatever contacts are destroyed while handlers keep their   *)
(* messages.                                                               *)
THEOREM ChatTypeCorrect == Spec => []TypeOK
<1>1. Inv => TypeOK
  BY DEF Inv
<1> QED BY <1>1, ChatInvariance, PTL

(* ref() and deref() balance: a session's count is the number of its       *)
(* messages in the handler chain.                                          *)
THEOREM ChatRefsCount == Spec => []RefsCountTasks
<1>1. Inv => RefsCountTasks
  BY DEF Inv
<1> QED BY <1>1, ChatInvariance, PTL

(* The view manager's list of unread events holds no deleted event and no  *)
(* event of a deleted session.                                             *)
THEOREM ChatEventListSound == Spec => []EventListSound
<1>1. Inv => EventListSound
  BY DEF Inv
<1> QED BY <1>1, ChatInvariance, PTL

(* A chat that received messages in a hidden view still has an unread      *)
(* event, unless the user dismissed one, the session is going away, or the *)
(* preference for messages on another desktop kept one out of the queue.   *)
THEOREM ChatHiddenHasUnread == Spec => []HiddenHasUnread
<1>1. Inv => HiddenHasUnread
  BY DEF Inv, HiddenKept, HiddenHasUnread, Keeps
<1> QED BY <1>1, ChatInvariance, PTL
=============================================================================
