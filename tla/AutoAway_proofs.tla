--------------------------- MODULE AutoAway_proofs ----------------------------
(***************************************************************************)
(* Proofs, for any accounts and bounds, that the idle timer's entry        *)
(* follows the accounts and the settings, that auto-away remembers what it *)
(* has set, and that the user's return is noticed unless the entry is new. *)
(***************************************************************************)
EXTENDS AutoAway, SequenceTheorems, TLAPS

(* An entry of the idle timer has a slot to call when the user is back. *)
ReceiverHasSlot == receiver # NoReceiver => receiver.memberActive # "none"

(* What is marked as set by auto-away is remembered, online or not: an     *)
(* account that is offline now may come back with the status Away.         *)
MarkedRemembered ==
    /\ autoAwayAccounts \subseteq accounts
    /\ \A a \in accounts : setBy[a] = "auto" => a \in autoAwayAccounts

(* After each setAutoAway() to be called there is a setActive(). *)
Followed(p) ==
    \A i \in 1..Len(p) : p[i] = "setAutoAway" => \E j \in 1..Len(p) : j > i /\ p[j] = "setActive"

Promised(p) == \E j \in 1..Len(p) : p[j] = "setActive"

(* An entry that is not new is active once the user was seen, and then     *)
(* setActive() is the last of what changes `away': it is still to be       *)
(* called if auto-away is on.                                              *)
ReturnPosted ==
    /\ receiver # NoReceiver /\ ~renewed /\ tick = "active" => receiver.active
    /\ receiver.memberActive = "setActive" /\ receiver.active /\ ~renewed =>
           Followed(posted) /\ (away => Promised(posted))

(* The inductive invariant. *)
IInv == TypeOK /\ IdleWatched /\ ReceiverHasSlot /\ MarkedRemembered /\ ReturnPosted

Statuses == Connected \cup {"Offline"}
Receivers == [active : BOOLEAN, memberActive : {"none", "setActive", "askAndSetActive"}]

(* The receiver rc is what checkIdleTimer() made it, up to `active', when  *)
(* the accounts in A are registered, their statuses are st and the         *)
(* settings cf.                                                            *)
Watches(rc, A, st, cf) ==
    /\ rc \in Receivers
    /\ cf.useAutoAway /\ (\E a \in A : st[a] \in Connected) => rc # NoReceiver
    /\ rc # NoReceiver =>
           /\ cf.useAutoAway
           /\ \E a \in A \cup Transports : st[a] \in Connected
           /\ (rc.memberActive = "askAndSetActive") = cf.askAvailable
           /\ rc.memberActive # "none"

(* The entry is as it was, or new. *)
KeptOrNew == UNCHANGED <<receiver, renewed>> \/ renewed' = TRUE
-----------------------------------------------------------------------------
(* checkIdleTimer() registers or removes the receiver as it should. *)
LEMMA CheckIdleTimerWatches ==
    ASSUME NEW st, NEW cf \in Settings
    PROVE  Watches(CheckIdleTimer(st, cf), accounts, st, cf)
<1>1. cf.useAutoAway \in BOOLEAN /\ cf.askAvailable \in BOOLEAN
  BY DEF Settings
<1>2. CASE cf.useAutoAway /\ \E a \in accounts : st[a] \in Connected
  BY <1>1, <1>2 DEF CheckIdleTimer, Watches, Receivers, NoReceiver
<1>3. CASE ~(cf.useAutoAway /\ \E a \in accounts : st[a] \in Connected)
  BY <1>1, <1>3 DEF CheckIdleTimer, Watches, Receivers, NoReceiver
<1> QED
  BY <1>2, <1>3

(* Setting the status of some accounts keeps the types and the receiver.   *)
LEMMA SetOnlineStatusKeeps ==
    ASSUME IInv, NEW D \in SUBSET Accounts, NEW s \in Statuses, SetOnlineStatus(D, s),
           settings' = settings
    PROVE  /\ status' = [a \in Accounts |-> IF a \in D THEN s ELSE status[a]]
           /\ status' \in [Accounts -> Statuses]
           /\ restoreStatus' \in [Accounts -> Connected]
           /\ Watches(receiver', accounts, status', settings')
           /\ renewed' \in BOOLEAN /\ KeptOrNew
<1> DEFINE new == [a \in Accounts |-> IF a \in D THEN s ELSE status[a]]
<1>1. status' = new
  BY DEF SetOnlineStatus
<1>2. new \in [Accounts -> Statuses]
  BY DEF IInv, TypeOK, Statuses
<1>3. restoreStatus' \in [Accounts -> Connected]
  BY DEF SetOnlineStatus, IInv, TypeOK
<1>4. CASE new = status
  <2>1. receiver' = receiver /\ renewed' = renewed
    BY <1>4 DEF SetOnlineStatus
  <2>2. Watches(receiver, accounts, status, settings)
    BY DEF IInv, TypeOK, IdleWatched, ReceiverHasSlot, Watches, Receivers
  <2>3. renewed \in BOOLEAN
    BY DEF IInv, TypeOK
  <2> QED
    BY <1>1, <1>2, <1>3, <1>4, <2>1, <2>2, <2>3 DEF KeptOrNew
<1>5. CASE new # status
  <2>1. receiver' = CheckIdleTimer(new, settings) /\ renewed' = TRUE
    BY <1>5 DEF SetOnlineStatus
  <2>2. Watches(CheckIdleTimer(new, settings), accounts, new, settings)
    BY CheckIdleTimerWatches DEF IInv, TypeOK
  <2> QED
    BY <1>1, <1>2, <1>3, <2>1, <2>2 DEF KeptOrNew
<1> QED
  BY <1>4, <1>5

(* A step that posts and calls nothing keeps ReturnPosted. *)
LEMMA ReturnPostedKept ==
    ASSUME ReturnPosted, KeptOrNew, UNCHANGED <<tick, posted, away>>
    PROVE  ReturnPosted'
BY DEF ReturnPosted, KeptOrNew, Followed, Promised

(* What is left to be called when the first slot has been. *)
LEMMA TailFollowed ==
    ASSUME NEW p \in Seq(Slots), p # <<>>
    PROVE  /\ Followed(p) => Followed(Tail(p))
           /\ Followed(p) /\ Head(p) = "setAutoAway" => Promised(Tail(p))
           /\ Promised(p) /\ Head(p) # "setActive" => Promised(Tail(p))
<1>1. /\ Len(p) \in Nat \ {0} /\ Len(Tail(p)) = Len(p) - 1 /\ Head(p) = p[1]
      /\ \A i \in 1..Len(p) - 1 : Tail(p)[i] = p[i + 1]
  BY HeadTailProperties, EmptySeq, LenProperties
<1>2. ASSUME NEW j \in 1..Len(p), j > 1
      PROVE  j - 1 \in 1..Len(Tail(p)) /\ Tail(p)[j - 1] = p[j]
  BY <1>1, <1>2
<1>3. ASSUME Followed(p) PROVE Followed(Tail(p))
  <2> SUFFICES ASSUME NEW i \in 1..Len(Tail(p)), Tail(p)[i] = "setAutoAway"
               PROVE  \E j \in 1..Len(Tail(p)) : j > i /\ Tail(p)[j] = "setActive"
    BY DEF Followed
  <2>1. i + 1 \in 1..Len(p) /\ p[i + 1] = "setAutoAway"
    BY <1>1
  <2>2. PICK j \in 1..Len(p) : j > i + 1 /\ p[j] = "setActive"
    BY <1>3, <2>1 DEF Followed
  <2>3. j - 1 > i /\ j - 1 \in 1..Len(Tail(p)) /\ Tail(p)[j - 1] = "setActive"
    BY <1>1, <1>2, <2>2
  <2> QED
    BY <2>3
<1>4. ASSUME Followed(p), Head(p) = "setAutoAway" PROVE Promised(Tail(p))
  <2>1. 1 \in 1..Len(p) /\ p[1] = "setAutoAway"
    BY <1>1, <1>4
  <2>2. PICK j \in 1..Len(p) : j > 1 /\ p[j] = "setActive"
    BY <1>4, <2>1 DEF Followed
  <2> QED
    BY <1>2, <2>2 DEF Promised
<1>5. ASSUME Promised(p), Head(p) # "setActive" PROVE Promised(Tail(p))
  <2>1. PICK j \in 1..Len(p) : p[j] = "setActive"
    BY <1>5 DEF Promised
  <2>2. j > 1
    BY <1>1, <1>5, <2>1
  <2> QED
    BY <1>2, <2>1, <2>2 DEF Promised
<1> QED
  BY <1>3, <1>4, <1>5

(* A setActive() posted last ends what was posted before. *)
LEMMA AppendFollowed ==
    ASSUME NEW p \in Seq(Slots)
    PROVE  Followed(Append(p, "setActive")) /\ Promised(Append(p, "setActive"))
<1> DEFINE q == Append(p, "setActive")
<1>1. Len(p) \in Nat /\ Len(q) = Len(p) + 1 /\ q[Len(p) + 1] = "setActive"
  OBVIOUS
<1>2. ASSUME NEW i \in 1..Len(q), q[i] = "setAutoAway" PROVE Len(p) + 1 > i
  BY <1>1, <1>2
<1>3. Len(p) + 1 \in 1..Len(q)
  BY <1>1
<1> HIDE DEF q
<1> QED
  BY <1>1, <1>2, <1>3 DEF Followed, Promised, q

(* Spending of a bound keeps its type. *)
LEMMA SpendType ==
    ASSUME budget \in [{"user", "news", "settings"} -> Nat],
           NEW what \in {"user", "news", "settings"}, Spend(what)
    PROVE  budget' \in [{"user", "news", "settings"} -> Nat]
BY DEF Spend

-----------------------------------------------------------------------------
(* Init. *)
LEMMA InitIInv == Init => IInv
<1> SUFFICES ASSUME Init PROVE IInv
  OBVIOUS
<1>1. status \in [Accounts -> Statuses] /\ restoreStatus \in [Accounts -> Connected]
      /\ setBy \in [Accounts -> {"user", "auto"}]
  BY DEF Init, Statuses, Connected
<1>2. settings \in Settings
  BY DEF Init, DefaultSettings, Settings
<1>3. receiver \in Receivers /\ ~\E a \in Accounts : status[a] \in Connected
  BY DEF Init, NoReceiver, Receivers, Connected, AwayStatuses
<1>4. budget \in [{"user", "news", "settings"} -> Nat]
  BY AutoAwayAssumption DEF Init
<1>5. present \in BOOLEAN /\ away \in BOOLEAN /\ renewed \in BOOLEAN
  BY Zenon DEF Init
<1>6. TypeOK
  BY <1>1, <1>2, <1>3, <1>4, <1>5 DEF Init, TypeOK, Statuses, Receivers
<1> QED
  BY <1>1, <1>3, <1>6, AutoAwayAssumption
  DEF Init, IInv, IdleWatched, ReceiverHasSlot, MarkedRemembered, ReturnPosted, NoReceiver

(* Every step keeps the invariant. *)
LEMMA NextIInv == IInv /\ [Next]_vars => IInv'
<1> SUFFICES ASSUME IInv, [Next]_vars PROVE IInv'
  OBVIOUS
<1>0. Watches(receiver', accounts', status', settings') /\ TypeOK' /\ MarkedRemembered' /\ ReturnPosted' => IInv'
  BY DEF Watches, IInv, IdleWatched, ReceiverHasSlot
<1>1. ASSUME NEW a \in Accounts, NEW s \in Statuses, UserSetStatus(a, s)
      PROVE  IInv'
  <2>1. /\ status' \in [Accounts -> Statuses] /\ restoreStatus' \in [Accounts -> Connected]
        /\ Watches(receiver', accounts', status', settings') /\ renewed' \in BOOLEAN /\ KeptOrNew
    BY <1>1, SetOnlineStatusKeeps DEF UserSetStatus
  <2>2. budget' \in [{"user", "news", "settings"} -> Nat]
    BY <1>1, SpendType DEF UserSetStatus, IInv, TypeOK
  <2>3. TypeOK'
    BY <1>1, <2>1, <2>2 DEF UserSetStatus, IInv, TypeOK, Statuses, Watches, Receivers
  <2>4. MarkedRemembered'
    BY <1>1 DEF UserSetStatus, IInv, TypeOK, MarkedRemembered
  <2>5. ReturnPosted'
    BY <1>1, <2>1, ReturnPostedKept DEF UserSetStatus, IInv
  <2> QED
    BY <1>0, <2>1, <2>3, <2>4, <2>5
<1>2. ASSUME NEW cf \in Settings, LoadBehaviorSettings(cf)
      PROVE  IInv'
  <2>1. Watches(receiver', accounts', status', settings')
    BY <1>2, CheckIdleTimerWatches DEF LoadBehaviorSettings
  <2>2. budget' \in [{"user", "news", "settings"} -> Nat]
    BY <1>2, SpendType DEF LoadBehaviorSettings, IInv, TypeOK
  <2>3. TypeOK'
    <3>1. present' \in BOOLEAN /\ away' \in BOOLEAN /\ renewed' \in BOOLEAN
      BY <1>2, Zenon DEF LoadBehaviorSettings, IInv, TypeOK
    <3> QED
      BY <1>2, <2>1, <2>2, <3>1 DEF LoadBehaviorSettings, IInv, TypeOK, Watches, Receivers
  <2>4. MarkedRemembered'
    BY <1>2 DEF LoadBehaviorSettings, IInv, MarkedRemembered
  <2>5. ReturnPosted'
    BY <1>2, ReturnPostedKept DEF LoadBehaviorSettings, KeptOrNew, IInv
  <2> QED
    BY <1>0, <2>1, <2>3, <2>4, <2>5
<1>3. ASSUME NEW a \in Accounts,
             ConnectionLost(a) \/ Reconnected(a) \/ GatewayAvailable(a)
      PROVE  IInv'
  <2>0. restoreStatus[a] \in Statuses /\ "Offline" \in Statuses /\ "Online" \in Statuses
    BY DEF IInv, TypeOK, Statuses, Connected
  <2>1. /\ status' \in [Accounts -> Statuses] /\ restoreStatus' \in [Accounts -> Connected]
        /\ Watches(receiver', accounts', status', settings') /\ renewed' \in BOOLEAN /\ KeptOrNew
    BY <1>3, <2>0, SetOnlineStatusKeeps DEF ConnectionLost, Reconnected, GatewayAvailable
  <2>2. budget' \in [{"user", "news", "settings"} -> Nat]
    BY <1>3, SpendType DEF ConnectionLost, Reconnected, GatewayAvailable, IInv, TypeOK
  <2>3. TypeOK'
    BY <1>3, <2>1, <2>2 DEF ConnectionLost, Reconnected, GatewayAvailable, IInv, TypeOK, Statuses, Watches, Receivers
  <2>4. MarkedRemembered'
    BY <1>3 DEF ConnectionLost, Reconnected, GatewayAvailable, IInv, MarkedRemembered
  <2>5. ReturnPosted'
    BY <1>3, <2>1, ReturnPostedKept DEF ConnectionLost, Reconnected, GatewayAvailable, IInv
  <2> QED
    BY <1>0, <2>1, <2>3, <2>4, <2>5
<1>4. ASSUME NEW a \in Accounts, AccountUnregistered(a)
      PROVE  IInv'
  <2> DEFINE gone == {a} \cup {t \in Transports : Owner[t] = a}
  <2>1. /\ status' = [b \in Accounts |-> IF b \in {a} THEN "Offline" ELSE status[b]]
        /\ status' \in [Accounts -> Statuses] /\ restoreStatus' \in [Accounts -> Connected]
        /\ Watches(receiver', accounts, status', settings')
        /\ renewed' \in BOOLEAN /\ KeptOrNew
    BY <1>4, SetOnlineStatusKeeps DEF AccountUnregistered, Statuses
  <2>2. budget' \in [{"user", "news", "settings"} -> Nat]
    BY <1>4, SpendType DEF AccountUnregistered, IInv, TypeOK
  <2>3. Watches(receiver', accounts', status', settings')
    <3>1. accounts' = accounts \ gone
      BY <1>4 DEF AccountUnregistered
    <3>2. status'[a] \notin Connected
      BY <2>1 DEF Connected, AwayStatuses
    <3>3. ASSUME NEW b \in accounts \cup Transports, status'[b] \in Connected
          PROVE  b \in accounts' \cup Transports
      BY <3>1, <3>2, <3>3
    <3> QED
      BY <2>1, <3>1, <3>3 DEF Watches
  <2>4. TypeOK'
    BY <1>4, <2>1, <2>2 DEF AccountUnregistered, IInv, TypeOK, Statuses, Watches, Receivers
  <2>5. MarkedRemembered'
    BY <1>4 DEF AccountUnregistered, IInv, MarkedRemembered
  <2>6. ReturnPosted'
    BY <1>4, <2>1, ReturnPostedKept DEF AccountUnregistered, IInv
  <2> QED
    BY <1>0, <2>3, <2>4, <2>5, <2>6
<1>5. ASSUME NEW seen \in {"active", "short", "long"}, UpdateIdleTime(seen)
      PROVE  IInv'
  <2>0. CASE /\ ~(receiver # NoReceiver /\ receiver.active # (seen = "active")
                  /\ (seen = "active" \/ seen = "long"))
             /\ UNCHANGED <<receiver, posted>>
    <3>1. Watches(receiver', accounts', status', settings') /\ posted' \in Seq(Slots)
      BY <1>5, <2>0 DEF UpdateIdleTime, IInv, TypeOK, IdleWatched, ReceiverHasSlot, Watches, Receivers
    <3>2. renewed' = (renewed /\ seen # "long") /\ tick' = seen /\ away' = away
      BY <1>5 DEF UpdateIdleTime
    <3>3. TypeOK'
      BY <1>5, <3>1, <3>2 DEF UpdateIdleTime, IInv, TypeOK, Watches, Receivers
    <3>4. ReturnPosted'
      BY <2>0, <3>2 DEF IInv, TypeOK, ReturnPosted, NoReceiver
    <3>5. MarkedRemembered'
      BY <1>5 DEF UpdateIdleTime, IInv, MarkedRemembered
    <3> QED
      BY <1>0, <3>1, <3>3, <3>4, <3>5
  <2>1. CASE /\ receiver # NoReceiver
             /\ seen = "active" \/ seen = "long"
             /\ receiver' = [receiver EXCEPT !.active = (seen = "active")]
             /\ posted' = Append(posted, IF seen = "active" THEN receiver.memberActive ELSE "setAutoAway")
    <3>1. receiver.memberActive \in {"setActive", "askAndSetActive"}
      BY <2>1 DEF IInv, TypeOK, ReceiverHasSlot
    <3>2. /\ receiver' \in Receivers /\ receiver' # NoReceiver
          /\ receiver'.memberActive = receiver.memberActive /\ receiver'.active = (seen = "active")
      BY <2>1, <3>1 DEF IInv, TypeOK, Receivers, NoReceiver
    <3>3. posted' \in Seq(Slots)
      BY <2>1, <3>1 DEF IInv, TypeOK, Slots
    <3>4. Watches(receiver', accounts', status', settings')
      BY <1>5, <2>1, <3>1, <3>2 DEF UpdateIdleTime, IInv, IdleWatched, Watches
    <3>5. renewed' = (renewed /\ seen # "long") /\ tick' = seen /\ away' = away
      BY <1>5 DEF UpdateIdleTime
    <3>6. TypeOK'
      BY <1>5, <3>2, <3>3, <3>5 DEF UpdateIdleTime, IInv, TypeOK, Watches, Receivers
    <3>7. ReturnPosted'
      <4>1. CASE seen = "active" /\ receiver.memberActive = "setActive"
        <5>1. Followed(posted') /\ Promised(posted')
          BY <2>1, <4>1, AppendFollowed DEF IInv, TypeOK
        <5> QED
          BY <3>2, <4>1, <5>1 DEF ReturnPosted
      <4>2. CASE ~(seen = "active" /\ receiver.memberActive = "setActive")
        BY <3>2, <3>5, <4>2 DEF ReturnPosted
      <4> QED
        BY <4>1, <4>2
    <3>8. MarkedRemembered'
      BY <1>5 DEF UpdateIdleTime, IInv, MarkedRemembered
    <3> QED
      BY <1>0, <3>4, <3>6, <3>7, <3>8
  <2> QED
    BY <1>5, <2>0, <2>1 DEF UpdateIdleTime
<1>6. CASE SetAutoAway
  <2> DEFINE D == {a \in accounts : status[a] = "Online"}
  <2>0. posted # <<>> /\ Head(posted) = "setAutoAway" /\ posted' = Tail(posted) /\ posted' \in Seq(Slots)
    BY <1>6 DEF SetAutoAway, Called, IInv, TypeOK
  <2>1. Watches(receiver', accounts', status', settings') /\ TypeOK' /\ MarkedRemembered' /\ KeptOrNew
    <3>1. CASE away
      BY <1>6, <2>0, <3>1 DEF SetAutoAway, IInv, TypeOK, IdleWatched, ReceiverHasSlot, MarkedRemembered, Watches,
         Receivers, KeptOrNew
    <3>2. CASE ~away
      <4>1. D \ Transports \in SUBSET Accounts /\ "Away" \in Statuses
        BY DEF IInv, TypeOK, Statuses, Connected, AwayStatuses
      <4>2. /\ status' \in [Accounts -> Statuses] /\ restoreStatus' \in [Accounts -> Connected]
            /\ Watches(receiver', accounts', status', settings') /\ renewed' \in BOOLEAN /\ KeptOrNew
        BY <1>6, <3>2, <4>1, SetOnlineStatusKeeps DEF SetAutoAway
      <4>3. TypeOK'
        BY <1>6, <2>0, <3>2, <4>2 DEF SetAutoAway, IInv, TypeOK, Statuses, Watches, Receivers
      <4>4. MarkedRemembered'
        BY <1>6, <3>2 DEF SetAutoAway, IInv, TypeOK, MarkedRemembered
      <4> QED
        BY <4>2, <4>3, <4>4
    <3> QED
      BY <3>1, <3>2
  <2>2. ReturnPosted'
    <3>1. Followed(posted) => Followed(posted') /\ Promised(posted')
      BY <2>0, TailFollowed DEF IInv, TypeOK
    <3> QED
      BY <1>6, <2>1, <3>1 DEF SetAutoAway, KeptOrNew, IInv, ReturnPosted
  <2> QED
    BY <1>0, <2>1, <2>2
<1>7. CASE SetActive
  <2> DEFINE D == {a \in autoAwayAccounts : status[a] \in AwayStatuses}
  <2>0. posted # <<>> /\ posted' = Tail(posted) /\ posted' \in Seq(Slots) /\ away' = FALSE
    BY <1>7 DEF SetActive, Called, IInv, TypeOK
  <2>1. Watches(receiver', accounts', status', settings') /\ TypeOK' /\ MarkedRemembered' /\ KeptOrNew
    <3>1. CASE ~(away /\ settings.goAvailable)
      BY <1>7, <2>0, <3>1 DEF SetActive, IInv, TypeOK, IdleWatched, ReceiverHasSlot, MarkedRemembered, Watches,
         Receivers, KeptOrNew
    <3>2. CASE away /\ settings.goAvailable
      <4>1. D \ Transports \in SUBSET Accounts /\ "Online" \in Statuses
        BY DEF IInv, TypeOK, Statuses, Connected
      <4>2. /\ status' \in [Accounts -> Statuses] /\ restoreStatus' \in [Accounts -> Connected]
            /\ Watches(receiver', accounts', status', settings') /\ renewed' \in BOOLEAN /\ KeptOrNew
        BY <1>7, <3>2, <4>1, SetOnlineStatusKeeps DEF SetActive
      <4>3. TypeOK'
        <5>1. present' \in BOOLEAN /\ away' \in BOOLEAN
          BY <1>7, Zenon DEF SetActive, IInv, TypeOK
        <5> QED
          BY <1>7, <2>0, <3>2, <4>2, <5>1 DEF SetActive, IInv, TypeOK, Statuses, Watches, Receivers
      <4>4. MarkedRemembered'
        BY <1>7, <3>2 DEF SetActive, IInv, TypeOK, MarkedRemembered
      <4> QED
        BY <4>2, <4>3, <4>4
    <3> QED
      BY <3>1, <3>2
  <2>2. ReturnPosted'
    <3>1. Followed(posted) => Followed(posted')
      BY <2>0, TailFollowed DEF IInv, TypeOK
    <3> QED
      BY <1>7, <2>0, <2>1, <3>1 DEF SetActive, KeptOrNew, IInv, ReturnPosted
  <2> QED
    BY <1>0, <2>1, <2>2
<1>8. CASE AskAndSetActive
  <2>1. /\ posted # <<>> /\ Head(posted) # "setActive" /\ posted' = Tail(posted)
        /\ posted' \in Seq(Slots)
    BY <1>8 DEF AskAndSetActive, Called, IInv, TypeOK
  <2>2. /\ Followed(posted) => Followed(posted')
        /\ Promised(posted) => Promised(posted')
    BY <2>1, TailFollowed DEF IInv, TypeOK
  <2>3. ReturnPosted'
    BY <1>8, <2>2 DEF AskAndSetActive, IInv, ReturnPosted
  <2> QED
    BY <1>8, <2>1, <2>3 DEF AskAndSetActive, IInv, TypeOK, IdleWatched, ReceiverHasSlot, MarkedRemembered
<1>9. CASE UNCHANGED vars
  BY <1>9 DEF vars, IInv, TypeOK, IdleWatched, ReceiverHasSlot, MarkedRemembered, ReturnPosted, Followed, Promised
<1> QED
  BY <1>1, <1>2, <1>3, <1>4, <1>5, <1>6, <1>7, <1>8, <1>9 DEF Next, Slot, Statuses

(* The specification keeps the inductive invariant. *)
THEOREM AutoAwayInvariance == Spec => []IInv
<1> QED
  BY InitIInv, NextIInv, PTL DEF Spec

(* The type invariant. *)
THEOREM AutoAwayTypeCorrect == Spec => []TypeOK
<1>1. IInv => TypeOK
  BY DEF IInv
<1> QED
  BY <1>1, AutoAwayInvariance, PTL

(* Whoever changes an account's status or the settings, the idle timer has *)
(* an entry while auto-away is wanted and a registered account is online,  *)
(* and it has none once all are offline; an entry left over has a gateway  *)
(* that was deleted while online to blame.                                 *)
THEOREM AutoAwayWatches == Spec => []IdleWatched
<1>1. IInv => IdleWatched
  BY DEF IInv
<1> QED
  BY <1>1, AutoAwayInvariance, PTL

(* updateIdleTime() has posted setActive() when it has seen the user back  *)
(* during auto-away, unless the entry was registered anew and the timer    *)
(* has not seen the user idle since, as after setAutoAway().               *)
THEOREM AutoAwayReturnNoticed == Spec => []ReturnNoticed
<1>1. IInv => ReturnNoticed
  <2> SUFFICES ASSUME IInv, BackAgain, ~renewed PROVE "setActive" \in ToSet(posted)
    BY DEF ReturnNoticed
  <2>1. receiver # NoReceiver
    BY DEF BackAgain, NoReceiver
  <2>2. Promised(posted)
    BY <2>1 DEF IInv, ReturnPosted, BackAgain
  <2> QED
    BY <2>2, LenProperties DEF Promised, ToSet, IInv, TypeOK
<1> QED
  BY <1>1, AutoAwayInvariance, PTL

(* No account that auto-away has set away is forgotten before setActive()  *)
(* has gone through the list, and no deleted account is remembered.        *)
THEOREM AutoAwayRemembers == Spec => []Remembered
<1>1. IInv => Remembered
  BY DEF IInv, MarkedRemembered, Remembered
<1> QED
  BY <1>1, AutoAwayInvariance, PTL
=============================================================================
