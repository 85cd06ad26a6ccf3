--------------------------- MODULE Account_proofs ---------------------------
(***************************************************************************)
(* Proofs of the safety of Account that do not depend on how many accounts *)
(* there are, on the number of attempts or on the bounds.  Each method     *)
(* maps sound records to sound records; the actions compose methods.       *)
(***************************************************************************)
EXTENDS Account, TLAPS

(* What one account must satisfy: its type, and that its status, its       *)
(* stream and its suspension agree.                                        *)
Sound(r) ==
    /\ r \in AccountType
    /\ r.suspended => r.status = "Offline"
    /\ IsConnected(r) <=> r.stream = "ready"
    /\ IsConnecting(r) => r.stream \in {"connecting", "active"} \/ r.noTLS

(* All accounts are sound. *)
AllSound(A) == A \in [Accounts -> AccountType] /\ \A a \in Accounts : Sound(A[a])

(* Types of the network, the manager and the global status. *)
ManagerTypes ==
    /\ net \in {"up", "down"}
    /\ manager \in [suspended : BOOLEAN, suspendedStatusCategory : Online \cup {"Offline"}]
    /\ global \in Online \cup {"Offline"}

(* Types of the history variable and of the bounds. *)
HistoryTypes ==
    /\ wish \in [Accounts -> Online \cup {"Offline", "none"}]
    /\ budget \in [{"calls", "outages", "losses", "wrong"} -> Nat]

(* The inductive invariant: the two properties of one account support each *)
(* other, since a status change is what ends a suspension and hanging up   *)
(* relies on the status to tell whether there is a session to close.       *)
Inv == AllSound(acct) /\ ManagerTypes /\ HistoryTypes

-----------------------------------------------------------------------------
(* slotOnlineStatusChanged() sets the status, ends a suspension and leaves *)
(* the stream alone.                                                       *)
LEMMA StatusChangedFacts ==
    ASSUME NEW r \in AccountType, NEW s \in Statuses
    PROVE  /\ SlotOnlineStatusChanged(r, s) \in AccountType
           /\ SlotOnlineStatusChanged(r, s).status = s
           /\ SlotOnlineStatusChanged(r, s).stream = r.stream
           /\ ~SlotOnlineStatusChanged(r, s).suspended
           /\ SlotOnlineStatusChanged(r, s).noTLS = r.noTLS
BY ZenonT(40) DEF AccountType, SlotOnlineStatusChanged, Statuses, Online, IsConnected

(* Preparing another attempt changes neither status, stream nor            *)
(* suspension.                                                             *)
LEMMA RetryFacts ==
    ASSUME NEW r \in AccountType
    PROVE  /\ Retry(r) \in AccountType
           /\ Retry(r).status = r.status
           /\ Retry(r).stream = r.stream
           /\ Retry(r).suspended = r.suspended
<1> r.connectionTry \in Nat /\ r.connectionTry + 1 \in Nat
  BY DEF AccountType
<1> DEFINE k == r.connectionTry + 1
<1> k \in Nat
  OBVIOUS
<1> HIDE DEF k
<1>1. Retry(r) \in {r, [r EXCEPT !.connectionTry = k, !.reconnectTimer = TRUE], [r EXCEPT !.connectionTry = k]}
  BY Zenon DEF Retry, k
<1>2. [r EXCEPT !.connectionTry = k, !.reconnectTimer = TRUE] \in AccountType
  BY DEF AccountType
<1>3. [r EXCEPT !.connectionTry = k] \in AccountType
  BY DEF AccountType
<1> QED BY <1>1, <1>2, <1>3 DEF AccountType

(* Nor does disconnected(), whatever the reason. *)
LEMMA DisconnectedFacts ==
    ASSUME NEW r \in AccountType, NEW n, NEW reason
    PROVE  /\ Disconnected(r, reason, n) \in AccountType
           /\ Disconnected(r, reason, n).status = r.status
           /\ Disconnected(r, reason, n).stream = r.stream
           /\ Disconnected(r, reason, n).suspended = r.suspended
BY RetryFacts DEF Disconnected, AccountType

(* setPresence() sets the status; a suspension survives it only when the   *)
(* status was the same already.                                            *)
LEMMA SetPresenceFacts ==
    ASSUME NEW r \in AccountType, NEW s \in Statuses
    PROVE  /\ SetPresence(r, s) \in AccountType
           /\ SetPresence(r, s).status = s
           /\ SetPresence(r, s).stream = r.stream
           /\ SetPresence(r, s).suspended => r.suspended /\ s = r.status
           /\ SetPresence(r, s).noTLS = r.noTLS
<1>1. CASE s = r.status
  <2>1. SetPresence(r, s) = r
    BY <1>1 DEF SetPresence
  <2> QED BY <1>1, <2>1
<1>2. CASE s # r.status
  <2>1. SetPresence(r, s) = SlotOnlineStatusChanged(r, s)
    BY <1>2 DEF SetPresence
  <2> QED BY <2>1, StatusChangedFacts
<1> QED BY <1>1, <1>2

(* Closing the stream leaves the status to be adjusted. *)
LEMMA CloseStreamFacts ==
    ASSUME NEW r \in AccountType
    PROVE  /\ CloseStream(r) \in AccountType
           /\ CloseStream(r).status = r.status
           /\ CloseStream(r).stream = "closed"
           /\ CloseStream(r).suspended = r.suspended
           /\ CloseStream(r).noTLS = r.noTLS
<1> DEFINE k == IF r.stream \in {"active", "ready"} THEN r.closing + 1 ELSE r.closing
<1>1. k \in Nat
  BY DEF AccountType
<1>2. CloseStream(r) = [r EXCEPT !.stream = "closed", !.closing = k]
  BY Zenon DEF CloseStream
<1> HIDE DEF k
<1> QED BY <1>1, <1>2 DEF AccountType

(* Hangup closes the stream of an account that is connected and no other. *)
LEMMA HangupFacts ==
    ASSUME NEW r \in AccountType
    PROVE  /\ Hangup(r) \in AccountType
           /\ Hangup(r).status = r.status
           /\ Hangup(r).stream = IF IsConnected(r) THEN "closed" ELSE r.stream
           /\ Hangup(r).suspended = r.suspended
BY CloseStreamFacts DEF Hangup

(* A record with another stream. *)
LEMMA WithStream ==
    ASSUME NEW r \in AccountType, NEW x \in {"closed", "connecting", "active", "ready"}
    PROVE  LET q == [r EXCEPT !.stream = x]
           IN  /\ q \in AccountType /\ q.status = r.status /\ q.stream = x
               /\ q.suspended = r.suspended /\ q.noTLS = r.noTLS
BY DEF AccountType

(* A record with another m_initialPresence. *)
LEMMA WithInitialPresence ==
    ASSUME NEW r \in AccountType, NEW x \in Online
    PROVE  LET q == [r EXCEPT !.initialPresence = x]
           IN  /\ q \in AccountType /\ q.status = r.status /\ q.stream = r.stream
               /\ q.suspended = r.suspended /\ q.noTLS = r.noTLS
BY DEF AccountType

(* disconnect() needs only that an established stream belongs to a         *)
(* connected account, and leaves the account offline.                      *)
LEMMA DisconnectSound ==
    ASSUME NEW r, r \in AccountType, r.stream = "ready" => IsConnected(r),
           NEW reason, NEW n
    PROVE  Sound(Disconnect(r, reason, n)) /\ Disconnect(r, reason, n).status = "Offline"
<1> DEFINE h == Hangup(r)
           p == SetPresence(h, "Offline")
           q == [p EXCEPT !.initialPresence = "Online"]
<1>1. h \in AccountType /\ h.stream # "ready"
  BY HangupFacts
<1>2. p \in AccountType /\ p.status = "Offline" /\ p.stream = h.stream
  BY <1>1, SetPresenceFacts DEF Statuses
<1>3. q \in AccountType /\ q.status = "Offline" /\ q.stream = h.stream
  BY <1>2, WithInitialPresence DEF Online
<1>4. Disconnect(r, reason, n) = Disconnected(q, reason, n)
  BY Zenon DEF Disconnect
<1> HIDE DEF h, p, q
<1> QED BY <1>1, <1>3, <1>4, DisconnectedFacts DEF Sound, IsConnected, IsConnecting, Online

(* connectWithPassword() keeps an account sound. *)
LEMMA ConnectWithPasswordSound ==
    ASSUME NEW r, Sound(r)
    PROVE  Sound(ConnectWithPassword(r))
<1>1. CASE IsConnected(r)
  BY <1>1 DEF ConnectWithPassword
<1>2. CASE ~IsConnected(r)
  <2> DEFINE c == CloseStream(r)
             p == SetPresence(c, "Connecting")
             x == IF r.noTLS THEN "closed" ELSE "connecting"
             q == [p EXCEPT !.stream = x]
  <2>1. c \in AccountType /\ c.status = r.status /\ c.suspended = r.suspended /\ c.noTLS = r.noTLS
    BY CloseStreamFacts DEF Sound
  <2>2. p \in AccountType /\ p.status = "Connecting" /\ ~p.suspended /\ p.noTLS = r.noTLS
    BY <2>1, SetPresenceFacts DEF Statuses, Sound
  <2>3. /\ q \in AccountType /\ q.status = "Connecting" /\ ~q.suspended
        /\ q.stream # "ready" /\ (q.stream = "connecting" \/ q.noTLS)
    <3>1. x \in {"closed", "connecting", "active", "ready"} /\ x # "ready"
          /\ (x = "connecting" \/ r.noTLS)
      OBVIOUS
    <3> HIDE DEF p, x
    <3>2. q \in AccountType /\ q.status = p.status /\ q.stream = x /\ q.suspended = p.suspended
          /\ q.noTLS = p.noTLS
      BY <2>2, <3>1, WithStream
    <3> HIDE DEF q
    <3> QED BY <2>2, <3>1, <3>2
  <2>4. ConnectWithPassword(r) = q
    BY <1>2, Zenon DEF ConnectWithPassword
  <2> HIDE DEF q
  <2> QED BY <2>3, <2>4 DEF Sound, IsConnected, IsConnecting, Online
<1> QED BY <1>1, <1>2

(* So does connect(), which may only ask for the password. *)
LEMMA ConnectSound ==
    ASSUME NEW r, Sound(r)
    PROVE  Sound(Connect(r))
<1>1. CASE r.cached
  BY <1>1, ConnectWithPasswordSound DEF Connect
<1>2. CASE ~r.cached
  <2> DEFINE k == r.requests + 1
  <2>1. k \in Nat
    BY DEF Sound, AccountType
  <2>2. Connect(r) = [r EXCEPT !.requests = k]
    BY <1>2, Zenon DEF Connect
  <2> HIDE DEF k
  <2>3. Connect(r) \in AccountType /\ Connect(r).status = r.status /\ Connect(r).noTLS = r.noTLS
        /\ Connect(r).stream = r.stream /\ Connect(r).suspended = r.suspended
    BY <2>1, <2>2 DEF Sound, AccountType
  <2> QED BY <2>3 DEF Sound, IsConnected, IsConnecting
<1> QED BY <1>1, <1>2

(* Setting an account offline keeps it sound and makes it offline. *)
LEMMA OfflineSound ==
    ASSUME NEW r, Sound(r), NEW n
    PROVE  /\ Sound(SetOnlineStatus(r, "Offline", n))
           /\ SetOnlineStatus(r, "Offline", n).status = "Offline"
<1> DEFINE h == Hangup(r)
           p == SetPresence(h, "Offline")
<1>1. h \in AccountType /\ h.stream # "ready"
  BY HangupFacts DEF Sound
<1>2. p \in AccountType /\ p.status = "Offline" /\ p.stream = h.stream
  BY <1>1, SetPresenceFacts DEF Statuses
<1>3. SetOnlineStatus(r, "Offline", n) = Disconnected(p, "Manual", n)
  BY Zenon DEF SetOnlineStatus
<1> HIDE DEF h, p
<1> QED BY <1>1, <1>2, <1>3, DisconnectedFacts DEF Sound, IsConnected, IsConnecting, Online

(* JabberAccount::setOnlineStatus() keeps an account sound. *)
LEMMA SetOnlineStatusSound ==
    ASSUME NEW r, Sound(r), NEW s \in Online \cup {"Offline"}, NEW n
    PROVE  Sound(SetOnlineStatus(r, s, n))
<1>1. CASE s = "Offline"
  BY <1>1, OfflineSound
<1>2. CASE s # "Offline" /\ IsConnecting(r)
  BY <1>2 DEF SetOnlineStatus
<1>3. CASE s # "Offline" /\ ~IsConnecting(r) /\ IsConnected(r)
  <2>1. SetOnlineStatus(r, s, n) = SetPresence(r, s)
    BY <1>3 DEF SetOnlineStatus
  <2>2. s \in Online /\ s \in Statuses /\ s # "Connecting"
    BY <1>3 DEF Statuses, Online
  <2>3. ~r.suspended
    BY <1>3 DEF Sound, IsConnected, Online
  <2> QED BY <1>3, <2>1, <2>2, <2>3, SetPresenceFacts DEF Sound, IsConnected, IsConnecting
<1>4. CASE s # "Offline" /\ ~IsConnecting(r) /\ ~IsConnected(r)
  <2> DEFINE q == [r EXCEPT !.initialPresence = s]
  <2>1. s \in Online
    BY <1>4
  <2>2. Sound(q)
    BY <2>1, WithInitialPresence DEF Sound, IsConnected, IsConnecting
  <2>3. SetOnlineStatus(r, s, n) = Connect(q)
    BY <1>4, Zenon DEF SetOnlineStatus
  <2> QED BY <2>2, <2>3, ConnectSound
<1> QED BY <1>1, <1>2, <1>3, <1>4

(* So does Account::reconnect(). *)
LEMMA ReconnectSound ==
    ASSUME NEW r, Sound(r), NEW n
    PROVE  Sound(Reconnect(r, n))
<1>1. r.restoreStatus \in Online \cup {"Offline"}
  BY DEF Sound, AccountType
<1> QED BY <1>1, SetOnlineStatusSound DEF Reconnect

(* So does Account::networkingStatusChanged(). *)
LEMMA NetworkingStatusChangedSound ==
    ASSUME NEW a, NEW r, Sound(r), NEW n
    PROVE  Sound(NetworkingStatusChanged(a, r, n))
<1>1. CASE n = "down"
  <2> DEFINE q == SetOnlineStatus(r, "Offline", n)
  <2>1. Sound(q)
    BY OfflineSound
  <2>2. NetworkingStatusChanged(a, r, n) = [q EXCEPT !.reconnectOnNetworkIsOnline = TRUE]
    BY <1>1, Zenon DEF NetworkingStatusChanged
  <2> HIDE DEF q
  <2> QED BY <2>1, <2>2 DEF Sound, AccountType, IsConnected, IsConnecting
<1>2. CASE n # "down"
  BY <1>2, ReconnectSound DEF NetworkingStatusChanged
<1> QED BY <1>1, <1>2

(* suspend() sets `suspended' only once the account is offline. *)
LEMMA SuspendSound ==
    ASSUME NEW r, Sound(r), NEW n
    PROVE  Sound(Suspend(r, n))
<1>1. CASE r.suspended
  BY <1>1 DEF Suspend
<1>2. CASE ~r.suspended
  <2> DEFINE x == IF IsConnecting(r) THEN r.restoreStatus ELSE r.status
             p == [r EXCEPT !.suspendStatus = x]
             q == SetOnlineStatus(p, "Offline", n)
  <2>1. x \in Online \cup {"Offline"}
    BY DEF Sound, AccountType, Statuses, IsConnecting
  <2>2. Sound(p)
    <3> HIDE DEF x
    <3> QED BY <2>1 DEF Sound, AccountType, IsConnected, IsConnecting
  <2>3. Sound(q) /\ q.status = "Offline"
    <3> HIDE DEF p
    <3> QED BY <2>2, OfflineSound
  <2>4. Suspend(r, n) = [q EXCEPT !.suspended = TRUE]
    BY <1>2, Zenon DEF Suspend
  <2> HIDE DEF q
  <2> QED BY <2>3, <2>4 DEF Sound, AccountType, IsConnected, IsConnecting
<1> QED BY <1>1, <1>2

(* resume() keeps an account sound. *)
LEMMA ResumeSound ==
    ASSUME NEW r, Sound(r), NEW n
    PROVE  Sound(Resume(r, n))
<1>1. r.suspendStatus \in Online \cup {"Offline"}
  BY DEF Sound, AccountType
<1> QED BY <1>1, SetOnlineStatusSound DEF Resume

(* A request is answered. *)
LEMMA AnsweredSound ==
    ASSUME NEW r, Sound(r), r.requests > 0
    PROVE  Sound(Answered(r))
<1> DEFINE k == r.requests - 1
<1>1. k \in Nat
  BY DEF Sound, AccountType
<1>2. Answered(r) = [r EXCEPT !.requests = k]
  BY Zenon DEF Answered
<1> HIDE DEF k
<1> QED BY <1>1, <1>2 DEF Sound, AccountType, IsConnected, IsConnecting

(* The end of an earlier stream is signalled. *)
LEMMA EndSignalledSound ==
    ASSUME NEW r, Sound(r), r.closing > 0
    PROVE  Sound(EndSignalled(r))
<1> DEFINE k == r.closing - 1
<1>1. k \in Nat
  BY DEF Sound, AccountType
<1>2. EndSignalled(r) = [r EXCEPT !.closing = k]
  BY Zenon DEF EndSignalled
<1> HIDE DEF k
<1> QED BY <1>1, <1>2 DEF Sound, AccountType, IsConnected, IsConnecting

(* The end of a stream, once the stream itself is closed or still belongs  *)
(* to a connected account, leaves the account sound.                       *)
LEMMA StreamEndedSound ==
    ASSUME NEW r, r \in AccountType, NEW reason, NEW n,
           r.suspended => r.status = "Offline",
           r.stream = "ready" => IsConnected(r)
    PROVE  Sound(StreamEnded(r, reason, n))
<1>1. CASE IsConnected(r) \/ IsConnecting(r)
  BY <1>1, DisconnectSound DEF StreamEnded
<1>2. CASE ~(IsConnected(r) \/ IsConnecting(r))
  BY <1>2 DEF StreamEnded, Sound
<1> QED BY <1>1, <1>2

-----------------------------------------------------------------------------
(* Soundness of all accounts, shown one by one. *)
LEMMA PointwiseSound ==
    ASSUME NEW A, A = [a \in Accounts |-> A[a]], \A a \in Accounts : Sound(A[a])
    PROVE  AllSound(A)
<1>1. \A a \in Accounts : A[a] \in AccountType
  BY DEF Sound
<1> QED BY <1>1 DEF AllSound

(* One account changes. *)
LEMMA OneChanged ==
    ASSUME NEW A, AllSound(A), NEW a \in Accounts, NEW r, Sound(r)
    PROVE  AllSound([A EXCEPT ![a] = r])
<1> r \in AccountType
  BY DEF Sound
<1> QED BY DEF AllSound

(* AccountManager::setOnlineStatus() keeps all accounts sound. *)
LEMMA SetAllSound ==
    ASSUME NEW A, AllSound(A), NEW S, NEW s \in Online \cup {"Offline"}, NEW n
    PROVE  AllSound(SetAll(A, S, s, n))
<1> DEFINE B == SetAll(A, S, s, n)
<1>1. \A a \in Accounts : B[a] = IF a \in S THEN SetOnlineStatus(A[a], s, n) ELSE A[a]
  BY DEF SetAll
<1>2. \A a \in Accounts : Sound(B[a])
  BY <1>1, SetOnlineStatusSound DEF AllSound
<1>3. B = [a \in Accounts |-> B[a]]
  BY DEF SetAll
<1> HIDE DEF B
<1> QED BY <1>2, <1>3, PointwiseSound DEF B

(* AccountManager::suspend() does. *)
LEMMA SuspendAllSound ==
    ASSUME NEW A, AllSound(A), NEW n
    PROVE  AllSound(SuspendAll(A, n))
<1>1. CASE manager.suspended
  BY <1>1 DEF SuspendAll
<1>2. CASE ~manager.suspended
  <2> DEFINE B == SuspendAll(A, n)
  <2>1. B = [a \in Accounts |-> Suspend(A[a], n)]
    BY <1>2 DEF SuspendAll
  <2>2. \A a \in Accounts : Sound(B[a])
    BY <2>1, SuspendSound DEF AllSound
  <2>3. B = [a \in Accounts |-> B[a]]
    BY <2>1
  <2> HIDE DEF B
  <2> QED BY <2>2, <2>3, PointwiseSound DEF B
<1> QED BY <1>1, <1>2

(* AccountManager::resume() does. *)
LEMMA ResumeAllSound ==
    ASSUME NEW A, AllSound(A), NEW n
    PROVE  AllSound(ResumeAll(A, n))
<1> DEFINE B == ResumeAll(A, n)
<1>1. \A a \in Accounts : Sound(B[a])
  BY ResumeSound DEF AllSound, ResumeAll
<1>2. B = [a \in Accounts |-> B[a]]
  BY DEF ResumeAll
<1> HIDE DEF B
<1> QED BY <1>1, <1>2, PointwiseSound DEF B

(* The accounts' reactions to the network do. *)
LEMMA StatusChangedSound ==
    ASSUME NEW A, AllSound(A), NEW n
    PROVE  AllSound(StatusChanged(A, n))
<1> DEFINE B == StatusChanged(A, n)
<1>1. \A a \in Accounts : Sound(B[a])
  BY NetworkingStatusChangedSound DEF AllSound, StatusChanged
<1>2. B = [a \in Accounts |-> B[a]]
  BY DEF StatusChanged
<1> HIDE DEF B
<1> QED BY <1>1, <1>2, PointwiseSound DEF B

(* AccountManager::networkConnected() does. *)
LEMMA NetworkConnectedSound ==
    ASSUME NEW A, AllSound(A), global \in Online \cup {"Offline"}
    PROVE  AllSound(NetworkConnected(A))
BY SetAllSound, ResumeAllSound DEF NetworkConnected

(* The bounds stay natural numbers. *)
LEMMA SpendType ==
    ASSUME HistoryTypes, NEW what \in {"calls", "outages", "losses", "wrong"}, Spend(what)
    PROVE  budget' \in [{"calls", "outages", "losses", "wrong"} -> Nat]
BY DEF HistoryTypes, Spend

(* The history variable records a status or nothing. *)
LEMMA WishedType ==
    ASSUME NEW r, NEW s \in Online \cup {"Offline"}
    PROVE  Wished(r, s) \in Online \cup {"Offline", "none"}
BY DEF Wished

(* suspend() and resume() keep the manager's types. *)
LEMMA ManagerMoves ==
    ASSUME ManagerTypes, SuspendManager \/ ResumeManager
    PROVE  /\ manager' \in [suspended : BOOLEAN, suspendedStatusCategory : Online \cup {"Offline"}]
           /\ global' \in Online \cup {"Offline"}
<1>1. CASE SuspendManager /\ manager.suspended
  BY <1>1 DEF ManagerTypes, SuspendManager
<1>2. CASE SuspendManager /\ ~manager.suspended
  <2>1. manager' = [suspended |-> TRUE, suspendedStatusCategory |-> global] /\ global' = "Offline"
    BY <1>2 DEF SuspendManager
  <2>2. global \in Online \cup {"Offline"}
    BY DEF ManagerTypes
  <2>3. [suspended |-> TRUE, suspendedStatusCategory |-> global]
          \in [suspended : BOOLEAN, suspendedStatusCategory : Online \cup {"Offline"}]
    BY <2>2
  <2> QED BY <2>1, <2>3, Zenon
<1>3. CASE ResumeManager
  BY <1>3 DEF ManagerTypes, ResumeManager
<1> QED BY <1>1, <1>2, <1>3

-----------------------------------------------------------------------------
(* The invariant holds when the manager is created. *)
LEMMA InitInv == Init => Inv
<1> SUFFICES ASSUME Init PROVE Inv
  OBVIOUS
<1>1. \A noTLS \in BOOLEAN : Sound(NewAccount(noTLS))
  BY DEF Sound, NewAccount, AccountType, Statuses, Online, IsConnected, IsConnecting
<1>2. AllSound(acct)
  <2>1. \A a \in Accounts : \E noTLS \in BOOLEAN : acct[a] = NewAccount(noTLS)
    BY DEF Init
  <2>2. acct = [a \in Accounts |-> acct[a]]
    BY DEF Init
  <2> QED BY <1>1, <2>1, <2>2, PointwiseSound
<1>3. ManagerTypes
  BY DEF Init, ManagerTypes
<1>4. wish \in [Accounts -> Online \cup {"Offline", "none"}]
  BY DEF Init
<1>5. budget \in [{"calls", "outages", "losses", "wrong"} -> Nat]
  BY AccountAssumption DEF Init
<1> QED BY <1>2, <1>3, <1>4, <1>5 DEF Inv, HistoryTypes

(* The user's requests keep the invariant. *)
LEMMA UserStep ==
    ASSUME Inv, User
    PROVE  Inv'
<1>1. ASSUME NEW a \in Accounts, NEW s \in Online \cup {"Offline"}, UserSetAccount(a, s)
      PROVE  Inv'
  <2> DEFINE q == SetOnlineStatus(acct[a], s, net)
  <2>1. Sound(q)
    BY SetOnlineStatusSound DEF Inv, AllSound
  <2>2. acct' = [acct EXCEPT ![a] = q]
    BY <1>1 DEF UserSetAccount
  <2>3. AllSound(acct')
    <3> HIDE DEF q
    <3> QED BY <2>1, <2>2, OneChanged DEF Inv
  <2>4. Wished(acct[a], s) \in Online \cup {"Offline", "none"}
    BY WishedType
  <2>5. wish' \in [Accounts -> Online \cup {"Offline", "none"}]
    BY <1>1, <2>4 DEF UserSetAccount, Inv, HistoryTypes
  <2>6. budget' \in [{"calls", "outages", "losses", "wrong"} -> Nat]
    BY <1>1, SpendType DEF UserSetAccount, Inv
  <2>7. ManagerTypes'
    BY <1>1 DEF UserSetAccount, Inv, ManagerTypes
  <2> QED BY <2>3, <2>5, <2>6, <2>7 DEF Inv, HistoryTypes, AllSound
<1>2. ASSUME NEW s \in Online \cup {"Offline"}, NEW c \in BOOLEAN, NEW f \in BOOLEAN,
             UserSetGlobal(s, c, f)
      PROVE  Inv'
  <2> DEFINE S == Addressed(acct, s, c, f)
  <2>1. /\ acct' = SetAll(acct, S, s, net)
        /\ manager' = [manager EXCEPT !.suspended = FALSE]
        /\ global' = s
        /\ wish' = [a \in Accounts |-> IF a \in S THEN Wished(acct[a], s) ELSE wish[a]]
        /\ UNCHANGED net
    BY <1>2, Zenon DEF UserSetGlobal
  <2>2. budget' \in [{"calls", "outages", "losses", "wrong"} -> Nat]
    BY <1>2, SpendType DEF UserSetGlobal, Inv
  <2> HIDE DEF S
  <2>3. AllSound(acct')
    BY <2>1, SetAllSound DEF Inv
  <2>4. wish' \in [Accounts -> Online \cup {"Offline", "none"}]
    BY <2>1, WishedType DEF Inv, HistoryTypes
  <2>5. ManagerTypes'
    BY <2>1 DEF Inv, ManagerTypes
  <2> QED BY <2>2, <2>3, <2>4, <2>5 DEF Inv, HistoryTypes, AllSound
<1> QED BY <1>1, <1>2 DEF User

(* Sleep, wake-up and the network keep it. *)
LEMMA MachineStep ==
    ASSUME Inv, Machine
    PROVE  Inv'
<1>1. CASE Sleeping
  <2>1. AllSound(acct')
    BY <1>1, SuspendAllSound DEF Sleeping, Inv
  <2>2. ManagerTypes'
    BY <1>1, ManagerMoves DEF Sleeping, Inv, ManagerTypes
  <2>3. wish' \in [Accounts -> Online \cup {"Offline", "none"}]
    BY <1>1 DEF Sleeping, Inv, HistoryTypes
  <2>4. budget' \in [{"calls", "outages", "losses", "wrong"} -> Nat]
    BY <1>1, SpendType DEF Sleeping, Inv
  <2> QED BY <2>1, <2>2, <2>3, <2>4 DEF Inv, HistoryTypes, AllSound
<1>2. CASE ResumingFromSuspend
  <2>1. AllSound(acct')
    BY <1>2, ResumeAllSound DEF ResumingFromSuspend, Inv
  <2>2. ManagerTypes'
    BY <1>2, ManagerMoves DEF ResumingFromSuspend, Inv, ManagerTypes
  <2>3. wish' \in [Accounts -> Online \cup {"Offline", "none"}]
    BY <1>2 DEF ResumingFromSuspend, WishAfterResume, Inv, HistoryTypes
  <2> QED BY <1>2, <2>1, <2>2, <2>3 DEF ResumingFromSuspend, Inv, HistoryTypes, AllSound
<1>3. CASE NetworkDown
  <2>1. AllSound(acct')
    BY <1>3, SuspendAllSound, StatusChangedSound DEF NetworkDown, Inv
  <2>2. ManagerTypes'
    BY <1>3, ManagerMoves DEF NetworkDown, Inv, ManagerTypes
  <2>3. wish' \in [Accounts -> Online \cup {"Offline", "none"}]
    BY <1>3 DEF NetworkDown, Inv, HistoryTypes
  <2>4. budget' \in [{"calls", "outages", "losses", "wrong"} -> Nat]
    BY <1>3, SpendType DEF NetworkDown, Inv
  <2> QED BY <2>1, <2>2, <2>3, <2>4 DEF Inv, HistoryTypes, AllSound
<1>4. CASE NetworkUp
  <2>1. AllSound(acct')
    BY <1>4, NetworkConnectedSound, StatusChangedSound DEF NetworkUp, Inv, ManagerTypes
  <2>2. ManagerTypes'
    <3>1. CASE manager.suspended
      BY <1>4, <3>1, ManagerMoves DEF NetworkUp, Inv, ManagerTypes
    <3>2. CASE ~manager.suspended
      BY <1>4, <3>2 DEF NetworkUp, Inv, ManagerTypes
    <3> QED BY <3>1, <3>2
  <2>3. wish' \in [Accounts -> Online \cup {"Offline", "none"}]
    <3>1. CASE manager.suspended
      BY <1>4, <3>1 DEF NetworkUp, WishAfterResume, Inv, HistoryTypes
    <3>2. CASE ~manager.suspended
      <4> DEFINE seen == IF ManagerFirst THEN acct ELSE StatusChanged(acct, "up")
                 S == Addressed(seen, global, FALSE, TRUE)
      <4>1. wish' = [a \in Accounts |-> IF a \in S THEN Wished(seen[a], global) ELSE wish[a]]
        BY <1>4, <3>2, Zenon DEF NetworkUp
      <4> HIDE DEF S, seen
      <4> QED BY <4>1, WishedType DEF Inv, HistoryTypes, ManagerTypes
    <3> QED BY <3>1, <3>2
  <2> QED BY <1>4, <2>1, <2>2, <2>3 DEF NetworkUp, Inv, HistoryTypes, AllSound
<1> QED BY <1>1, <1>2, <1>3, <1>4 DEF Machine

(* Everything that happens to one account by itself keeps it. *)
LEMMA ConnectionStep ==
    ASSUME Inv, NEW a \in Accounts, Losing(a) \/ Proceed(a)
    PROVE  Inv'
<1> DEFINE r == acct[a]
<1>1. Sound(r) /\ acct \in [Accounts -> AccountType]
  BY DEF Inv, AllSound
<1>2. ASSUME NEW q, Sound(q), acct' = [acct EXCEPT ![a] = q] PROVE AllSound(acct')
  BY <1>2, OneChanged DEF Inv
<1>3. UNCHANGED <<net, manager, global>>
  BY DEF Losing, Proceed, EnterPassword, CancelPassword, SlotConnected, SlotRosterRequestFinished,
         SlotCSError, NotAuthorized, SlotCSDisconnected, ReconnectTimeout, SlotStopSuppression
<1>4. ManagerTypes'
  BY <1>3 DEF Inv, ManagerTypes
<1>5. CASE EnterPassword(a)
  <2> DEFINE q == [Answered(r) EXCEPT !.cached = TRUE]
  <2>1. Sound(Answered(r))
    BY <1>1, <1>5, AnsweredSound DEF EnterPassword
  <2>2. Sound(q)
    BY <2>1 DEF Sound, AccountType, IsConnected, IsConnecting
  <2>3. acct' = [acct EXCEPT ![a] = ConnectWithPassword(q)]
    BY <1>5, Zenon DEF EnterPassword
  <2> HIDE DEF q, r
  <2>4. AllSound(acct')
    BY <1>2, <2>2, <2>3, ConnectWithPasswordSound
  <2> QED BY <1>4, <1>5, <2>4 DEF EnterPassword, Inv, HistoryTypes, AllSound
<1>6. CASE CancelPassword(a)
  <2> DEFINE q == Answered(r)
  <2>2. Sound(q)
    BY <1>1, <1>6, AnsweredSound DEF CancelPassword
  <2>3. acct' = [acct EXCEPT ![a] = Disconnect(q, "Manual", net)]
    BY <1>6, Zenon DEF CancelPassword
  <2> HIDE DEF q, r
  <2>4. Sound(Disconnect(q, "Manual", net))
    BY <2>2, DisconnectSound DEF Sound
  <2>5. AllSound(acct')
    BY <1>2, <2>3, <2>4
  <2> QED BY <1>4, <1>6, <2>5 DEF CancelPassword, Inv, HistoryTypes, AllSound
<1>7. CASE SlotConnected(a)
  <2> DEFINE q == [r EXCEPT !.stream = "active"]
  <2>1. q \in AccountType /\ q.status = r.status /\ q.stream = "active" /\ q.suspended = r.suspended
    BY <1>1, WithStream DEF Sound
  <2>2. Sound(q)
    <3> HIDE DEF q
    <3> QED BY <1>1, <1>7, <2>1 DEF SlotConnected, Sound, IsConnected, IsConnecting, Online
  <2>3. acct' = [acct EXCEPT ![a] = q]
    BY <1>7, Zenon DEF SlotConnected
  <2> HIDE DEF q, r
  <2>4. AllSound(acct')
    BY <1>2, <2>2, <2>3
  <2> QED BY <1>4, <1>7, <2>4 DEF SlotConnected, Inv, HistoryTypes, AllSound
<1>8. CASE SlotRosterRequestFinished(a)
  <2> DEFINE q == [r EXCEPT !.stream = "ready"]
             p == SetPresence(q, r.initialPresence)
  <2>1. q \in AccountType /\ q.status = r.status /\ q.stream = "ready" /\ q.suspended = r.suspended
    BY <1>1, WithStream DEF Sound
  <2>2. r.initialPresence \in Online /\ r.initialPresence \in Statuses
    BY <1>1 DEF Sound, AccountType, Statuses
  <2>3. acct' = [acct EXCEPT ![a] = p]
    BY <1>8, Zenon DEF SlotRosterRequestFinished
  <2>4. Sound(p)
    <3> HIDE DEF q
    <3>1. p \in AccountType /\ p.status = r.initialPresence /\ p.stream = "ready"
      BY <2>1, <2>2, SetPresenceFacts
    <3>2. p.suspended => r.suspended /\ r.initialPresence = r.status
      BY <2>1, <2>2, SetPresenceFacts
    <3>3. ~p.suspended
      BY <3>2, <2>2, <1>1 DEF Sound, Online
    <3> HIDE DEF p
    <3> QED BY <2>2, <3>1, <3>3 DEF Sound, IsConnected, IsConnecting, Online
  <2> HIDE DEF p, q, r
  <2>5. AllSound(acct')
    BY <1>2, <2>3, <2>4
  <2> QED BY <1>4, <1>8, <2>5 DEF SlotRosterRequestFinished, Inv, HistoryTypes, AllSound
<1>9. ASSUME NEW reason, SlotCSError(a, reason) PROVE Inv'
  <2> DEFINE q == [r EXCEPT !.stream = "closed"]
  <2>1. q \in AccountType /\ q.status = r.status /\ q.stream = "closed" /\ q.suspended = r.suspended
    BY <1>1, WithStream DEF Sound
  <2>2. acct' = [acct EXCEPT ![a] = StreamEnded(q, reason, net)]
    BY <1>9, Zenon DEF SlotCSError
  <2>3. Sound(StreamEnded(q, reason, net))
    <3> HIDE DEF q
    <3> QED BY <1>1, <2>1, StreamEndedSound DEF Sound
  <2> HIDE DEF q, r
  <2>4. AllSound(acct')
    BY <1>2, <2>2, <2>3
  <2>5. wish' \in [Accounts -> Online \cup {"Offline", "none"}]
    BY <1>9 DEF SlotCSError, Inv, HistoryTypes
  <2>6. budget' \in [{"calls", "outages", "losses", "wrong"} -> Nat]
    BY <1>9, SpendType DEF SlotCSError, Inv, HistoryTypes
  <2> QED BY <1>4, <2>4, <2>5, <2>6 DEF Inv, HistoryTypes, AllSound
<1>10. CASE NotAuthorized(a)
  <2> DEFINE q == [r EXCEPT !.stream = "closed"]
  <2>1. q \in AccountType /\ q.stream = "closed"
    BY <1>1, WithStream DEF Sound
  <2>2. acct' = [acct EXCEPT ![a] = Disconnect(q, "BadPassword", net)]
    BY <1>10, Zenon DEF NotAuthorized
  <2>3. Sound(Disconnect(q, "BadPassword", net))
    <3> HIDE DEF q
    <3> QED BY <2>1, DisconnectSound
  <2> HIDE DEF q, r
  <2>4. AllSound(acct')
    BY <1>2, <2>2, <2>3
  <2>5. budget' \in [{"calls", "outages", "losses", "wrong"} -> Nat]
    BY <1>10, SpendType DEF NotAuthorized, Inv
  <2> QED BY <1>4, <1>10, <2>4, <2>5 DEF NotAuthorized, Inv, HistoryTypes, AllSound
<1>11. CASE SlotCSDisconnected(a)
  <2> DEFINE q == EndSignalled(r)
  <2>2. Sound(q)
    BY <1>1, <1>11, EndSignalledSound DEF SlotCSDisconnected
  <2>3. acct' = [acct EXCEPT ![a] = StreamEnded(q, "Unknown", net)]
    BY <1>11, Zenon DEF SlotCSDisconnected
  <2> HIDE DEF q, r
  <2>4. Sound(StreamEnded(q, "Unknown", net))
    BY <2>2, StreamEndedSound DEF Sound
  <2>5. AllSound(acct')
    BY <1>2, <2>3, <2>4
  <2>6. budget' \in [{"calls", "outages", "losses", "wrong"} -> Nat]
    BY <1>11, SpendType DEF SlotCSDisconnected, Inv, HistoryTypes
  <2> QED BY <1>4, <1>11, <2>5, <2>6 DEF SlotCSDisconnected, Inv, HistoryTypes, AllSound
<1>12. CASE ReconnectTimeout(a)
  <2> DEFINE q == [r EXCEPT !.reconnectTimer = FALSE]
  <2>1. Sound(q)
    <3> HIDE DEF r
    <3> QED BY <1>1 DEF Sound, AccountType, IsConnected, IsConnecting
  <2>2. acct' = [acct EXCEPT ![a] = Reconnect(q, net)]
    BY <1>12, Zenon DEF ReconnectTimeout
  <2> HIDE DEF q, r
  <2>3. AllSound(acct')
    BY <1>2, <2>1, <2>2, ReconnectSound
  <2> QED BY <1>4, <1>12, <2>3 DEF ReconnectTimeout, Inv, HistoryTypes, AllSound
<1>13. CASE SlotStopSuppression(a)
  <2> DEFINE k == IF IsConnected(r) THEN 0 ELSE r.connectionTry
             q == [r EXCEPT !.suppressStatusTimer = FALSE, !.connectionTry = k]
  <2>1. k \in Nat
    BY <1>1 DEF Sound, AccountType
  <2>2. Sound(q)
    <3> HIDE DEF k, r
    <3> QED BY <1>1, <2>1 DEF Sound, AccountType, IsConnected, IsConnecting
  <2>3. acct' = [acct EXCEPT ![a] = q]
    BY <1>1, <1>13 DEF SlotStopSuppression
  <2> HIDE DEF q, r
  <2>4. AllSound(acct')
    BY <1>2, <2>2, <2>3
  <2> QED BY <1>4, <1>13, <2>4 DEF SlotStopSuppression, Inv, HistoryTypes, AllSound
<1> QED
  BY <1>5, <1>6, <1>7, <1>8, <1>9, <1>10, <1>11, <1>12, <1>13 DEF Losing, Proceed

(* The invariant is inductive. *)
LEMMA InvNext == Inv /\ [Next]_vars => Inv'
<1> SUFFICES ASSUME Inv, [Next]_vars PROVE Inv'
  OBVIOUS
<1>1. CASE UNCHANGED vars
  BY <1>1 DEF vars, Inv, AllSound, ManagerTypes, HistoryTypes
<1>2. CASE Next
  BY <1>2, UserStep, MachineStep, ConnectionStep DEF Next
<1> QED BY <1>1, <1>2

(* The invariant implies the properties. *)
LEMMA InvImplies == Inv => TypeOK /\ SessionMatchesStatus /\ SuspendedIsOffline
BY DEF Stuck, Inv, AllSound, Sound, ManagerTypes, HistoryTypes, TypeOK, SessionMatchesStatus, SuspendedIsOffline

(* Every reachable state of any set of accounts, whatever the bounds and   *)
(* in whichever order the notifier calls manager and accounts, satisfies   *)
(* the invariant.                                                          *)
THEOREM AccountInvariance == Spec => []Inv
BY InitInv, InvNext, PTL DEF Spec

(* The type invariant; in particular suspend() never remembers             *)
(* "Connecting" as the status for resume() to restore.                     *)
THEOREM AccountTypeCorrect == Spec => []TypeOK
BY AccountInvariance, InvImplies, PTL

(* An account is shown online exactly while its session is established,    *)
(* and as connecting only while an attempt is under way or when connect()  *)
(* returned NoTLS (Account::slotOnlineStatusChanged, JabberAccount's       *)
(* signals and connectWithPassword()).                                     *)
THEOREM AccountSessionMatches == Spec => []SessionMatchesStatus
BY AccountInvariance, InvImplies, PTL

(* An account marked by suspend() is offline until it is resumed or comes  *)
(* back by itself, which clears the mark.                                  *)
THEOREM AccountSuspendedOffline == Spec => []SuspendedIsOffline
BY AccountInvariance, InvImplies, PTL
-----------------------------------------------------------------------------
(* What the user asked for.  The two invariants below are about one        *)
(* account at a time, so their preservation is a fact about each method.   *)

(* An account that keeps trying without help from outside.  A stream that  *)
(* is opening does not count when the account is offline: its failure is   *)
(* then ignored (StreamEnded).                                             *)
Trying(r) ==
    \/ IsConnected(r) \/ IsConnecting(r) \/ r.requests > 0
    \/ r.reconnectTimer
    \/ r.connectionTry > LastTry

(* The return of the network n, or resume() while the manager is suspended *)
(* (ms), starts an attempt.                                                *)
Waiting(r, n, ms) ==
    \/ r.reconnectOnNetworkIsOnline /\ n = "down"
    \/ r.suspended /\ r.suspendStatus # "Offline" /\ ms

(* Nothing is left that could bring the account online by itself: also no  *)
(* suspension, and no mark for the return of the network.                  *)
Settled(r) ==
    /\ r.status = "Offline" /\ r.stream = "closed" /\ r.requests = 0
    /\ ~r.reconnectTimer /\ ~r.suspended /\ ~r.reconnectOnNetworkIsOnline

(* What a suspended manager relies on: setting the global status then      *)
(* addresses every account, because it counts as offline.                  *)
SuspendedGlobal == manager.suspended => global = "Offline"

WishKept ==
    \A a \in Accounts \ Excluded :
        wish[a] \in Online => Trying(acct[a]) \/ Waiting(acct[a], net, manager.suspended)

OfflineKept == \A a \in Accounts : wish[a] = "Offline" => Settled(acct[a])

-----------------------------------------------------------------------------
(* setPresence() leaves alone what the two invariants read besides status  *)
(* and suspension.                                                         *)
LEMMA SetPresenceRest ==
    ASSUME NEW r \in AccountType, NEW s \in Statuses
    PROVE  LET q == SetPresence(r, s)
           IN  /\ q.requests = r.requests
               /\ q.reconnectTimer = r.reconnectTimer
               /\ q.connectionTry = r.connectionTry
               /\ q.reconnectOnNetworkIsOnline = r.reconnectOnNetworkIsOnline
               /\ q.suspendStatus = r.suspendStatus
BY DEF SetPresence, SlotOnlineStatusChanged, AccountType

(* So does closing the stream. *)
LEMMA CloseStreamRest ==
    ASSUME NEW r \in AccountType
    PROVE  LET q == CloseStream(r)
           IN  /\ q.requests = r.requests
               /\ q.reconnectTimer = r.reconnectTimer
               /\ q.connectionTry = r.connectionTry
               /\ q.reconnectOnNetworkIsOnline = r.reconnectOnNetworkIsOnline
               /\ q.suspendStatus = r.suspendStatus
BY DEF CloseStream, AccountType

LEMMA HangupRest ==
    ASSUME NEW r \in AccountType
    PROVE  LET q == Hangup(r)
           IN  /\ q.requests = r.requests
               /\ q.reconnectTimer = r.reconnectTimer
               /\ q.connectionTry = r.connectionTry
               /\ q.reconnectOnNetworkIsOnline = r.reconnectOnNetworkIsOnline
               /\ q.suspendStatus = r.suspendStatus
BY CloseStreamRest DEF Hangup

(* connectWithPassword() leaves the account connected or connecting. *)
LEMMA ConnectWithPasswordTries ==
    ASSUME NEW r, Sound(r)
    PROVE  Trying(ConnectWithPassword(r))
<1>1. CASE IsConnected(r)
  BY <1>1 DEF ConnectWithPassword, Trying
<1>2. CASE ~IsConnected(r)
  <2> DEFINE c == CloseStream(r)
             p == SetPresence(c, "Connecting")
             x == IF r.noTLS THEN "closed" ELSE "connecting"
             q == [p EXCEPT !.stream = x]
  <2>1. c \in AccountType
    BY CloseStreamFacts DEF Sound
  <2>2. p \in AccountType /\ p.status = "Connecting"
    BY <2>1, SetPresenceFacts DEF Statuses
  <2>3. q.status = "Connecting"
    BY <2>2, WithStream
  <2>4. ConnectWithPassword(r) = q
    BY <1>2, Zenon DEF ConnectWithPassword
  <2> HIDE DEF q
  <2> QED BY <2>3, <2>4 DEF Trying, IsConnecting
<1> QED BY <1>1, <1>2

(* connect() does, or asks for the password. *)
LEMMA ConnectTries ==
    ASSUME NEW r, Sound(r)
    PROVE  Trying(Connect(r))
<1>1. CASE r.cached
  BY <1>1, ConnectWithPasswordTries DEF Connect
<1>2. CASE ~r.cached
  <2> DEFINE k == r.requests + 1
  <2>1. k \in Nat /\ k > 0
    BY DEF Sound, AccountType
  <2>2. Connect(r) = [r EXCEPT !.requests = k]
    BY <1>2, Zenon DEF Connect
  <2> HIDE DEF k
  <2>3. Connect(r).requests > 0
    BY <2>1, <2>2 DEF Sound, AccountType
  <2> QED BY <2>3 DEF Trying
<1> QED BY <1>1, <1>2

(* Setting an account online makes it try. *)
LEMMA OnlineTries ==
    ASSUME NEW r, Sound(r), NEW s \in Online, NEW n
    PROVE  Trying(SetOnlineStatus(r, s, n))
<1>0. s # "Offline" /\ s \in Statuses
  BY DEF Online, Statuses
<1>1. CASE IsConnecting(r)
  BY <1>0, <1>1 DEF SetOnlineStatus, Trying
<1>2. CASE ~IsConnecting(r) /\ IsConnected(r)
  <2>1. SetOnlineStatus(r, s, n) = SetPresence(r, s)
    BY <1>0, <1>2 DEF SetOnlineStatus
  <2>2. SetPresence(r, s).status = s
    BY <1>0, SetPresenceFacts DEF Sound
  <2> QED BY <2>1, <2>2 DEF Trying, IsConnected
<1>3. CASE ~IsConnecting(r) /\ ~IsConnected(r)
  <2> DEFINE q == [r EXCEPT !.initialPresence = s]
  <2>1. Sound(q)
    BY WithInitialPresence DEF Sound, IsConnected, IsConnecting
  <2>2. SetOnlineStatus(r, s, n) = Connect(q)
    BY <1>0, <1>3, Zenon DEF SetOnlineStatus
  <2> QED BY <2>1, <2>2, ConnectTries
<1> QED BY <1>1, <1>2, <1>3

(* So does reconnect(): the status to restore is never "Offline". *)
LEMMA ReconnectTries ==
    ASSUME NEW r, Sound(r), NEW n
    PROVE  Trying(Reconnect(r, n))
<1>1. CASE IsConnected(r)
  BY <1>1 DEF Reconnect, Trying
<1>2. CASE ~IsConnected(r)
  <2>1. r.restoreStatus \in Online
    BY DEF Sound, AccountType
  <2> QED BY <1>2, <2>1, OnlineTries DEF Reconnect
<1> QED BY <1>1, <1>2

(* A connection that is lost is tried again, is marked for the return of   *)
(* the network, or has been tried often enough.                            *)
LEMMA DisconnectTries ==
    ASSUME NEW r \in AccountType, NEW n, NEW ms,
           NEW reason \in {"ConnectionReset", "Unknown", "BadPassword"}
    PROVE  Trying(Disconnect(r, reason, n)) \/ Waiting(Disconnect(r, reason, n), n, ms)
<1> DEFINE h == Hangup(r)
           p == SetPresence(h, "Offline")
           q == [p EXCEPT !.initialPresence = "Online"]
<1>1. h \in AccountType
  BY HangupFacts
<1>2. p \in AccountType
  BY <1>1, SetPresenceFacts DEF Statuses
<1>3. q \in AccountType
  BY <1>2, WithInitialPresence DEF Online
<1>4. Disconnect(r, reason, n) = Disconnected(q, reason, n)
  BY Zenon DEF Disconnect
<1> HIDE DEF h, p, q
<1> DEFINE d == Disconnected(q, reason, n)
<1>5. CASE reason = "BadPassword"
  <2>1. d.reconnectTimer
    BY <1>3, <1>5 DEF Disconnected, AccountType
  <2> QED BY <1>4, <2>1 DEF Trying
<1>6. CASE reason = "ConnectionReset" /\ n = "down"
  <2>1. d.reconnectOnNetworkIsOnline
    BY <1>3, <1>6 DEF Disconnected, AccountType
  <2> QED BY <1>4, <1>6, <2>1 DEF Waiting
<1>7. CASE reason # "BadPassword" /\ ~(reason = "ConnectionReset" /\ n = "down")
  <2>1. d = Retry(q)
    BY <1>7 DEF Disconnected
  <2>2. Retry(q).reconnectTimer \/ Retry(q).connectionTry > LastTry
    BY <1>3, AccountAssumption DEF Retry, AccountType
  <2> QED BY <1>4, <2>1, <2>2 DEF Trying
<1> QED BY <1>5, <1>6, <1>7

(* suspend() remembers an account that is not offline. *)
LEMMA SuspendWaits ==
    ASSUME NEW r, Sound(r), r.status # "Offline", NEW n
    PROVE  Suspend(r, n).suspended /\ Suspend(r, n).suspendStatus # "Offline"
<1> DEFINE x == IF IsConnecting(r) THEN r.restoreStatus ELSE r.status
           p == [r EXCEPT !.suspendStatus = x]
           h == Hangup(p)
           o == SetPresence(h, "Offline")
           q == Disconnected(o, "Manual", n)
<1>0. ~r.suspended
  BY DEF Sound
<1>1. x \in Online
  BY DEF Sound, AccountType, Statuses, IsConnecting, Online
<1>2. p \in AccountType /\ p.suspendStatus = x
  <2> HIDE DEF x
  <2> QED BY <1>1 DEF Sound, AccountType
<1> HIDE DEF p, x
<1>3. h \in AccountType /\ h.suspendStatus = x
  BY <1>2, HangupFacts, HangupRest
<1> HIDE DEF h
<1>4. o \in AccountType /\ o.suspendStatus = x
  BY <1>3, SetPresenceFacts, SetPresenceRest DEF Statuses
<1> HIDE DEF o
<1>5. q \in AccountType /\ q.suspendStatus = x
  BY <1>4 DEF Disconnected, AccountType
<1>6. Suspend(r, n) = [q EXCEPT !.suspended = TRUE]
  BY <1>0, Zenon DEF Suspend, SetOnlineStatus, q, o, h, p, x
<1> HIDE DEF q
<1> QED BY <1>1, <1>5, <1>6 DEF AccountType, Online

(* The loss of the network marks an account, whatever suspend() did        *)
(* before.                                                                 *)
LEMMA NetworkDownMarks ==
    ASSUME NEW a, NEW r, Sound(r)
    PROVE  NetworkingStatusChanged(a, r, "down").reconnectOnNetworkIsOnline
<1> DEFINE q == SetOnlineStatus(r, "Offline", "down")
<1>1. q \in AccountType
  BY OfflineSound DEF Sound
<1>2. NetworkingStatusChanged(a, r, "down") = [q EXCEPT !.reconnectOnNetworkIsOnline = TRUE]
  BY Zenon DEF NetworkingStatusChanged
<1> HIDE DEF q
<1> QED BY <1>1, <1>2 DEF AccountType

(* When the network returns, no account stops trying, and one that is      *)
(* marked and may be connected begins to.                                  *)
LEMMA NetworkUpTries ==
    ASSUME NEW a \in Accounts \ Excluded, NEW r, Sound(r),
           Trying(r) \/ r.reconnectOnNetworkIsOnline
    PROVE  Trying(NetworkingStatusChanged(a, r, "up"))
BY ReconnectTries DEF NetworkingStatusChanged

(* Taken offline with nothing under way, an account is settled. *)
LEMMA OfflineSettles ==
    ASSUME NEW r, Sound(r), NEW n, Wished(r, "Offline") = "Offline"
    PROVE  Settled(SetOnlineStatus(r, "Offline", n))
<1> DEFINE h == Hangup(r)
           o == SetPresence(h, "Offline")
<1>0. r.stream \in {"closed", "ready"} /\ r.requests = 0 /\ ~r.suspended /\ r \in AccountType
  BY DEF Wished, Sound
<1>1. h \in AccountType /\ h.stream = "closed" /\ h.requests = 0 /\ ~h.suspended
  BY <1>0, HangupFacts, HangupRest DEF Sound
<1> HIDE DEF h
<1>2. o \in AccountType /\ o.status = "Offline" /\ o.stream = "closed" /\ o.requests = 0 /\ ~o.suspended
  BY <1>1, SetPresenceFacts, SetPresenceRest DEF Statuses
<1>3. SetOnlineStatus(r, "Offline", n) = Disconnected(o, "Manual", n)
  BY Zenon DEF SetOnlineStatus, o, h
<1> HIDE DEF o
<1>4. Disconnected(o, "Manual", n) = [o EXCEPT !.reconnectOnNetworkIsOnline = FALSE, !.reconnectTimer = FALSE]
  BY Zenon DEF Disconnected
<1> DEFINE d == [o EXCEPT !.reconnectOnNetworkIsOnline = FALSE, !.reconnectTimer = FALSE]
<1>5. d.status = "Offline" /\ d.stream = "closed" /\ d.requests = 0 /\ ~d.suspended
  BY <1>2 DEF AccountType
<1>6. d.reconnectTimer = FALSE /\ d.reconnectOnNetworkIsOnline = FALSE
  BY <1>2 DEF AccountType
<1> HIDE DEF d
<1> QED BY <1>3, <1>4, <1>5, <1>6 DEF Settled, d

(* The network's return does nothing to a settled account. *)
LEMMA SettledStays ==
    ASSUME NEW a, NEW r, Settled(r), NEW n
    PROVE  NetworkingStatusChanged(a, r, "up") = r /\ Resume(r, n) = r
BY DEF Settled, NetworkingStatusChanged, Resume

-----------------------------------------------------------------------------
(* While the manager is suspended the global status is "Offline". *)
LEMMA SuspendedGlobalStep ==
    ASSUME Inv, SuspendedGlobal, [Next]_vars
    PROVE  SuspendedGlobal'
<1>0. manager \in [suspended : BOOLEAN, suspendedStatusCategory : Online \cup {"Offline"}]
  BY DEF Inv, ManagerTypes
<1>1. CASE UNCHANGED <<manager, global>>
  BY <1>1 DEF SuspendedGlobal
<1>2. CASE SuspendManager
  BY <1>2 DEF SuspendManager, SuspendedGlobal
<1>3. CASE manager' = [manager EXCEPT !.suspended = FALSE]
  BY <1>0, <1>3 DEF SuspendedGlobal
<1>4. UNCHANGED <<manager, global>> \/ SuspendManager \/ manager' = [manager EXCEPT !.suspended = FALSE]
  <2>1. CASE UNCHANGED vars
    BY <2>1 DEF vars
  <2>2. CASE User
    BY <2>2 DEF User, UserSetAccount, UserSetGlobal
  <2>3. CASE Machine
    BY <2>3 DEF Machine, Sleeping, ResumingFromSuspend, NetworkDown, NetworkUp, ResumeManager
  <2>4. ASSUME NEW a \in Accounts, Losing(a) \/ Proceed(a) PROVE UNCHANGED <<manager, global>>
    BY <2>4 DEF Losing, Proceed, EnterPassword, CancelPassword, SlotConnected,
           SlotRosterRequestFinished, SlotCSError, NotAuthorized, SlotCSDisconnected,
           ReconnectTimeout, SlotStopSuppression
  <2> QED BY <2>1, <2>2, <2>3, <2>4 DEF Next
<1> QED BY <1>1, <1>2, <1>3, <1>4

(* The user's requests: an account that is addressed tries or is not       *)
(* wanted online; one that is not addressed is left as it was, and the     *)
(* manager was not suspended.                                              *)
LEMMA WishUser ==
    ASSUME Inv, SuspendedGlobal, WishKept, User
    PROVE  WishKept'
<1> SUFFICES ASSUME NEW b \in Accounts \ Excluded, wish'[b] \in Online
             PROVE  Trying(acct'[b]) \/ Waiting(acct'[b], net', manager'.suspended)
  BY DEF WishKept, Trying, Waiting, IsConnected, IsConnecting
<1>0. /\ acct \in [Accounts -> AccountType] /\ Sound(acct[b])
      /\ wish \in [Accounts -> Online \cup {"Offline", "none"}]
      /\ wish[b] \in Online => Trying(acct[b]) \/ Waiting(acct[b], net, manager.suspended)
  BY DEF Inv, AllSound, HistoryTypes, WishKept
<1>1. ASSUME NEW a \in Accounts, NEW s \in Online \cup {"Offline"}, UserSetAccount(a, s)
      PROVE  Trying(acct'[b]) \/ Waiting(acct'[b], net', manager'.suspended)
  <2> DEFINE q == SetOnlineStatus(acct[a], s, net)
             w == Wished(acct[a], s)
  <2>1. acct' = [acct EXCEPT ![a] = q] /\ wish' = [wish EXCEPT ![a] = w] /\ UNCHANGED <<net, manager>>
    BY <1>1 DEF UserSetAccount
  <2>2. CASE a = b
    <3>1. w \in Online /\ acct'[b] = q
      <4> HIDE DEF q, w
      <4> QED BY <1>0, <2>1, <2>2
    <3>2. s \in Online
      BY <3>1 DEF Wished, Online
    <3> QED BY <1>0, <2>2, <3>1, <3>2, OnlineTries
  <2>3. CASE a # b
    <3>1. acct'[b] = acct[b] /\ wish'[b] = wish[b]
      <4> HIDE DEF q, w
      <4> QED BY <1>0, <2>1, <2>3
    <3> QED BY <1>0, <2>1, <3>1
  <2> QED BY <2>2, <2>3
<1>2. ASSUME NEW s \in Online \cup {"Offline"}, NEW c \in BOOLEAN, NEW f \in BOOLEAN,
             UserSetGlobal(s, c, f)
      PROVE  Trying(acct'[b]) \/ Waiting(acct'[b], net', manager'.suspended)
  <2> DEFINE S == Addressed(acct, s, c, f)
  <2>1. /\ acct' = SetAll(acct, S, s, net)
        /\ wish' = [a \in Accounts |-> IF a \in S THEN Wished(acct[a], s) ELSE wish[a]]
        /\ manager' = [manager EXCEPT !.suspended = FALSE]
        /\ UNCHANGED net
    BY <1>2, Zenon DEF UserSetGlobal
  <2>2. CASE b \in S
    <3>1. acct'[b] = SetOnlineStatus(acct[b], s, net) /\ Wished(acct[b], s) \in Online
      <4> HIDE DEF S
      <4> QED BY <2>1, <2>2 DEF SetAll
    <3>2. s \in Online
      BY <3>1 DEF Wished, Online
    <3> QED BY <1>0, <3>1, <3>2, OnlineTries
  <2>3. CASE b \notin S
    <3>1. acct'[b] = acct[b] /\ wish'[b] = wish[b]
      <4> HIDE DEF S
      <4> QED BY <2>1, <2>3 DEF SetAll
    <3>2. global # "Offline"
      BY <2>3 DEF Addressed
    <3>3. ~manager.suspended
      BY <3>2 DEF SuspendedGlobal
    <3>4. Trying(acct[b]) \/ (acct[b].reconnectOnNetworkIsOnline /\ net = "down")
      BY <1>0, <3>1, <3>3 DEF Waiting
    <3> QED BY <2>1, <3>1, <3>4 DEF Waiting
  <2> QED BY <2>2, <2>3
<1> QED BY <1>1, <1>2 DEF User

(* Sleep, wake-up and the network. *)
LEMMA WishMachine ==
    ASSUME ManagerFirst, Inv, WishKept, Machine
    PROVE  WishKept'
<1> SUFFICES ASSUME NEW b \in Accounts \ Excluded, wish'[b] \in Online
             PROVE  Trying(acct'[b]) \/ Waiting(acct'[b], net', manager'.suspended)
  BY DEF WishKept, Trying, Waiting, IsConnected, IsConnecting
<1>0. /\ Sound(acct[b]) /\ AllSound(acct)
      /\ wish[b] \in Online => Trying(acct[b]) \/ Waiting(acct[b], net, manager.suspended)
  BY DEF Inv, AllSound, HistoryTypes, WishKept
<1>1. CASE Sleeping
  <2>1. acct[b].status # "Offline" /\ wish[b] \in Online
    BY <1>1 DEF Sleeping, Online
  <2>2. CASE manager.suspended
    BY <1>0, <1>1, <2>1, <2>2 DEF Sleeping, SuspendAll, SuspendManager
  <2>3. CASE ~manager.suspended
    <3>1. acct'[b] = Suspend(acct[b], net)
      BY <1>1, <2>3 DEF Sleeping, SuspendAll
    <3>2. manager'.suspended
      BY <1>1, <2>3 DEF Sleeping, SuspendManager
    <3> QED BY <1>0, <2>1, <3>1, <3>2, SuspendWaits DEF Waiting
  <2> QED BY <2>2, <2>3
<1>2. CASE ResumingFromSuspend
  <2>1. /\ acct'[b] = Resume(acct[b], net) /\ net = "up" /\ wish[b] \in Online
        /\ ~(acct[b].suspended /\ acct[b].suspendStatus = "Offline")
    BY <1>2 DEF ResumingFromSuspend, WishAfterResume, ResumeAll, Online
  <2>2. CASE acct[b].suspended /\ acct[b].suspendStatus # "Offline"
    <3>1. acct[b].suspendStatus \in Online
      BY <1>0, <2>2 DEF Sound, AccountType
    <3>2. acct'[b] = SetOnlineStatus(acct[b], acct[b].suspendStatus, net)
      BY <2>1, <2>2 DEF Resume
    <3> QED BY <1>0, <3>1, <3>2, OnlineTries
  <2>3. CASE ~(acct[b].suspended /\ acct[b].suspendStatus # "Offline")
    <3>1. acct'[b] = acct[b]
      BY <2>1, <2>3 DEF Resume
    <3>2. Trying(acct[b])
      BY <1>0, <2>1, <2>3 DEF Waiting
    <3> QED BY <3>1, <3>2
  <2> QED BY <2>2, <2>3
<1>3. CASE NetworkDown
  <2> DEFINE B == SuspendAll(acct, "down")
  <2>1. AllSound(B)
    BY <1>0, SuspendAllSound
  <2>2. acct' = StatusChanged(B, "down") /\ net' = "down"
    BY <1>3 DEF NetworkDown
  <2> HIDE DEF B
  <2>3. acct'[b] = NetworkingStatusChanged(b, B[b], "down") /\ Sound(B[b])
    BY <2>1, <2>2 DEF StatusChanged, AllSound
  <2> QED BY <2>2, <2>3, NetworkDownMarks DEF Waiting
<1>4. CASE NetworkUp
  <2> DEFINE B == NetworkConnected(acct)
  <2>1. AllSound(B)
    BY <1>0, NetworkConnectedSound DEF Inv, ManagerTypes
  <2>2. acct' = StatusChanged(B, "up")
    BY <1>4 DEF NetworkUp
  <2>3. acct'[b] = NetworkingStatusChanged(b, B[b], "up") /\ Sound(B[b])
    <3> HIDE DEF B
    <3> QED BY <2>1, <2>2 DEF StatusChanged, AllSound
  <2>4. CASE manager.suspended
    <3>1. /\ B[b] = Resume(acct[b], "up") /\ wish[b] \in Online
          /\ ~(acct[b].suspended /\ acct[b].suspendStatus = "Offline")
      BY <1>4, <2>4 DEF NetworkUp, WishAfterResume, NetworkConnected, ResumeAll, Online
    <3>2. Trying(B[b]) \/ B[b].reconnectOnNetworkIsOnline
      <4>1. CASE acct[b].suspended /\ acct[b].suspendStatus # "Offline"
        <5>1. acct[b].suspendStatus \in Online
          BY <1>0, <4>1 DEF Sound, AccountType
        <5>2. B[b] = SetOnlineStatus(acct[b], acct[b].suspendStatus, "up")
          BY <3>1, <4>1 DEF Resume
        <5> HIDE DEF B
        <5> QED BY <1>0, <5>1, <5>2, OnlineTries
      <4>2. CASE ~(acct[b].suspended /\ acct[b].suspendStatus # "Offline")
        <5>1. B[b] = acct[b]
          BY <3>1, <4>2 DEF Resume
        <5>2. Trying(acct[b]) \/ acct[b].reconnectOnNetworkIsOnline
          BY <1>0, <3>1, <4>2 DEF Waiting
        <5> HIDE DEF B
        <5> QED BY <5>1, <5>2
      <4> QED BY <4>1, <4>2
    <3> HIDE DEF B
    <3> QED BY <2>3, <3>2, NetworkUpTries
  <2>5. CASE ~manager.suspended
    <3>1. Addressed(acct, global, FALSE, TRUE) = IF global = "Offline" THEN Accounts ELSE Accounts \ Excluded
      BY DEF Addressed
    <3>2. b \in Addressed(acct, global, FALSE, TRUE)
      BY <3>1
    <3>3. Wished(acct[b], global) \in Online
      BY <1>4, <2>5, <3>2 DEF NetworkUp
    <3>4. global \in Online
      BY <3>3 DEF Wished, Online
    <3>5. B[b] = SetOnlineStatus(acct[b], global, "up")
      BY <2>5, <3>2 DEF NetworkConnected, SetAll
    <3> HIDE DEF B
    <3>6. Trying(B[b])
      BY <1>0, <3>4, <3>5, OnlineTries
    <3> QED BY <2>3, <3>6, NetworkUpTries
  <2> QED BY <2>4, <2>5
<1> QED BY <1>1, <1>2, <1>3, <1>4 DEF Machine

(* What happens to one account by itself: an attempt or a session that     *)
(* ends leaves a timer, a mark or a count behind.                          *)
LEMMA WishConnection ==
    ASSUME Inv, WishKept, NEW a \in Accounts, Losing(a) \/ Proceed(a)
    PROVE  WishKept'
<1> SUFFICES ASSUME NEW b \in Accounts \ Excluded, wish'[b] \in Online
             PROVE  Trying(acct'[b]) \/ Waiting(acct'[b], net', manager'.suspended)
  BY DEF WishKept, Trying, Waiting, IsConnected, IsConnecting
<1> DEFINE r == acct[a]
           ms == manager.suspended
<1>0. /\ acct \in [Accounts -> AccountType] /\ Sound(r) /\ r \in AccountType
      /\ wish \in [Accounts -> Online \cup {"Offline", "none"}]
      /\ wish[b] \in Online => Trying(acct[b]) \/ Waiting(acct[b], net, ms)
  BY DEF Inv, AllSound, HistoryTypes, WishKept
<1>1. UNCHANGED <<net, manager>>
  BY DEF Losing, Proceed, EnterPassword, CancelPassword, SlotConnected, SlotRosterRequestFinished,
         SlotCSError, NotAuthorized, SlotCSDisconnected, ReconnectTimeout, SlotStopSuppression
<1>2. \A c \in Accounts : c # a => acct'[c] = acct[c] /\ wish'[c] = wish[c]
  BY <1>0 DEF Losing, Proceed, EnterPassword, CancelPassword, SlotConnected, SlotRosterRequestFinished,
         SlotCSError, NotAuthorized, SlotCSDisconnected, ReconnectTimeout, SlotStopSuppression
<1>3. CASE a # b
  BY <1>0, <1>1, <1>2, <1>3
<1>4. SUFFICES ASSUME a = b, wish'[a] \in Online
               PROVE  Trying(acct'[a]) \/ Waiting(acct'[a], net, ms)
  BY <1>1, <1>3
<1>5. CASE EnterPassword(a)
  <2> DEFINE q == [Answered(r) EXCEPT !.cached = TRUE]
  <2>1. Sound(Answered(r))
    BY <1>0, <1>5, AnsweredSound DEF EnterPassword
  <2>2. Sound(q)
    BY <2>1 DEF Sound, AccountType, IsConnected, IsConnecting
  <2>3. acct' = [acct EXCEPT ![a] = ConnectWithPassword(q)]
    BY <1>5, Zenon DEF EnterPassword
  <2> HIDE DEF q
  <2>4. acct'[a] = ConnectWithPassword(q)
    BY <1>0, <2>3
  <2> QED BY <2>2, <2>4, ConnectWithPasswordTries
<1>6. CASE CancelPassword(a)
  <2>1. wish'[a] = "none"
    BY <1>0, <1>6 DEF CancelPassword
  <2> QED BY <1>4, <2>1 DEF Online
<1>7. CASE SlotConnected(a)
  <2>1. wish[a] \in Online
    BY <1>4, <1>7 DEF SlotConnected
  <2>2. acct'[a] = [r EXCEPT !.stream = "active"]
    BY <1>0, <1>7 DEF SlotConnected
  <2> QED BY <1>0, <1>4, <2>1, <2>2 DEF Trying, Waiting, IsConnected, IsConnecting, AccountType
<1>8. CASE SlotRosterRequestFinished(a)
  <2> DEFINE q == [r EXCEPT !.stream = "ready"]
  <2>1. q \in AccountType /\ r.initialPresence \in Online /\ r.initialPresence \in Statuses
    BY <1>0, WithStream DEF AccountType, Statuses
  <2>2. acct' = [acct EXCEPT ![a] = SetPresence(q, r.initialPresence)]
    BY <1>8, Zenon DEF SlotRosterRequestFinished
  <2> HIDE DEF q
  <2>3. acct'[a].status = r.initialPresence
    BY <1>0, <2>1, <2>2, SetPresenceFacts
  <2> QED BY <2>1, <2>3 DEF Trying, IsConnected
<1>9. ASSUME NEW reason \in {"InvalidHost", "ConnectionReset", "Unknown"}, SlotCSError(a, reason)
      PROVE  Trying(acct'[a]) \/ Waiting(acct'[a], net, ms)
  <2> DEFINE q == [r EXCEPT !.stream = "closed"]
  <2>1. q \in AccountType
    BY <1>0, WithStream
  <2>2. reason # "InvalidHost"
    BY <1>0, <1>4, <1>9 DEF SlotCSError, Online
  <2>3. wish[a] \in Online
    BY <1>4, <1>9, <2>2 DEF SlotCSError
  <2>4. acct' = [acct EXCEPT ![a] = StreamEnded(q, reason, net)]
    BY <1>9, Zenon DEF SlotCSError
  <2>5. CASE IsConnected(q) \/ IsConnecting(q)
    <3> HIDE DEF q
    <3>1. acct'[a] = Disconnect(q, reason, net)
      BY <1>0, <2>4, <2>5 DEF StreamEnded
    <3> QED BY <2>1, <2>2, <3>1, DisconnectTries
  <2>6. CASE ~(IsConnected(q) \/ IsConnecting(q))
    <3>1. acct'[a] = q
      BY <1>0, <2>4, <2>6 DEF StreamEnded
    <3> QED BY <1>0, <1>4, <2>3, <2>6, <3>1 DEF Trying, Waiting, IsConnected, IsConnecting, AccountType
  <2> QED BY <2>5, <2>6
<1>10. CASE NotAuthorized(a)
  <2> DEFINE q == [r EXCEPT !.stream = "closed"]
  <2>1. q \in AccountType
    BY <1>0, WithStream
  <2>2. acct' = [acct EXCEPT ![a] = Disconnect(q, "BadPassword", net)]
    BY <1>10, Zenon DEF NotAuthorized
  <2> HIDE DEF q
  <2>3. acct'[a] = Disconnect(q, "BadPassword", net)
    BY <1>0, <2>2
  <2> QED BY <2>1, <2>3, DisconnectTries
<1>11. CASE SlotCSDisconnected(a)
  <2> DEFINE k == r.closing - 1
             q == [r EXCEPT !.closing = k]
  <2>1. k \in Nat
    BY <1>0, <1>11 DEF SlotCSDisconnected, AccountType
  <2>2. wish[a] \in Online
    BY <1>4, <1>11 DEF SlotCSDisconnected
  <2>3. acct' = [acct EXCEPT ![a] = StreamEnded(q, "Unknown", net)]
    BY <1>11, Zenon DEF SlotCSDisconnected, EndSignalled
  <2> HIDE DEF k
  <2>4. q \in AccountType
    BY <1>0, <2>1 DEF AccountType
  <2>5. CASE IsConnected(q) \/ IsConnecting(q)
    <3> HIDE DEF q
    <3>1. acct'[a] = Disconnect(q, "Unknown", net)
      BY <1>0, <2>3, <2>5 DEF StreamEnded
    <3> QED BY <2>4, <3>1, DisconnectTries
  <2>6. CASE ~(IsConnected(q) \/ IsConnecting(q))
    <3>1. acct'[a] = q
      BY <1>0, <2>3, <2>6 DEF StreamEnded
    <3> QED BY <1>0, <1>4, <2>2, <3>1 DEF Trying, Waiting, IsConnected, IsConnecting, AccountType
  <2> QED BY <2>5, <2>6
<1>12. CASE ReconnectTimeout(a)
  <2> DEFINE q == [r EXCEPT !.reconnectTimer = FALSE]
  <2>1. Sound(q)
    <3> HIDE DEF r
    <3> QED BY <1>0 DEF Sound, AccountType, IsConnected, IsConnecting
  <2>2. acct' = [acct EXCEPT ![a] = Reconnect(q, net)]
    BY <1>12, Zenon DEF ReconnectTimeout
  <2> HIDE DEF q
  <2>3. acct'[a] = Reconnect(q, net)
    BY <1>0, <2>2
  <2> QED BY <2>1, <2>3, ReconnectTries
<1>13. CASE SlotStopSuppression(a)
  <2> DEFINE k == IF IsConnected(r) THEN 0 ELSE r.connectionTry
             q == [r EXCEPT !.suppressStatusTimer = FALSE, !.connectionTry = k]
  <2>1. k \in Nat
    BY <1>0 DEF AccountType
  <2>2. acct'[a] = q
    BY <1>0, <1>13 DEF SlotStopSuppression
  <2>3. wish[a] \in Online
    BY <1>4, <1>13 DEF SlotStopSuppression
  <2>4. CASE IsConnected(r)
    <3>1. q.status = r.status
      <4> HIDE DEF k
      <4> QED BY <1>0 DEF AccountType
    <3> QED BY <2>2, <2>4, <3>1 DEF Trying, IsConnected
  <2>5. CASE ~IsConnected(r)
    <3>1. k = r.connectionTry
      BY <2>5
    <3> HIDE DEF k
    <3>2. /\ q.status = r.status /\ q.requests = r.requests /\ q.reconnectTimer = r.reconnectTimer
          /\ q.connectionTry = r.connectionTry /\ q.suspended = r.suspended
          /\ q.suspendStatus = r.suspendStatus
          /\ q.reconnectOnNetworkIsOnline = r.reconnectOnNetworkIsOnline
      BY <1>0, <3>1 DEF AccountType
    <3> HIDE DEF q
    <3> QED BY <1>0, <1>4, <2>2, <2>3, <3>2 DEF Trying, Waiting, IsConnected, IsConnecting
  <2> QED BY <2>4, <2>5
<1> QED
  BY <1>5, <1>6, <1>7, <1>8, <1>9, <1>10, <1>11, <1>12, <1>13 DEF Losing, Proceed

(* An account that the user took offline stays settled. *)
LEMMA OfflineStep ==
    ASSUME Inv, OfflineKept, Next
    PROVE  OfflineKept'
<1> SUFFICES ASSUME NEW b \in Accounts, wish'[b] = "Offline" PROVE Settled(acct'[b])
  BY DEF OfflineKept, Settled
<1>0. /\ acct \in [Accounts -> AccountType] /\ AllSound(acct) /\ Sound(acct[b])
      /\ wish \in [Accounts -> Online \cup {"Offline", "none"}]
      /\ global \in Online \cup {"Offline"}
      /\ wish[b] = "Offline" => Settled(acct[b])
  BY DEF Inv, AllSound, HistoryTypes, ManagerTypes, OfflineKept
<1>1. ASSUME NEW a \in Accounts, NEW s \in Online \cup {"Offline"}, UserSetAccount(a, s)
      PROVE  Settled(acct'[b])
  <2> DEFINE q == SetOnlineStatus(acct[a], s, net)
             w == Wished(acct[a], s)
  <2>1. acct' = [acct EXCEPT ![a] = q] /\ wish' = [wish EXCEPT ![a] = w]
    BY <1>1 DEF UserSetAccount
  <2>2. CASE a = b
    <3>1. w = "Offline" /\ acct'[b] = q
      <4> HIDE DEF q, w
      <4> QED BY <1>0, <2>1, <2>2
    <3>2. s = "Offline"
      BY <3>1 DEF Wished, Online
    <3> QED BY <1>0, <2>2, <3>1, <3>2, OfflineSettles
  <2>3. CASE a # b
    <3>1. acct'[b] = acct[b] /\ wish'[b] = wish[b]
      <4> HIDE DEF q, w
      <4> QED BY <1>0, <2>1, <2>3
    <3> QED BY <1>0, <3>1
  <2> QED BY <2>2, <2>3
<1>2. ASSUME NEW s \in Online \cup {"Offline"}, NEW c \in BOOLEAN, NEW f \in BOOLEAN,
             UserSetGlobal(s, c, f)
      PROVE  Settled(acct'[b])
  <2> DEFINE S == Addressed(acct, s, c, f)
  <2>1. /\ acct' = SetAll(acct, S, s, net)
        /\ wish' = [a \in Accounts |-> IF a \in S THEN Wished(acct[a], s) ELSE wish[a]]
    BY <1>2, Zenon DEF UserSetGlobal
  <2> HIDE DEF S
  <2>2. CASE b \in S
    <3>1. acct'[b] = SetOnlineStatus(acct[b], s, net) /\ Wished(acct[b], s) = "Offline"
      BY <2>1, <2>2 DEF SetAll
    <3>2. s = "Offline"
      BY <3>1 DEF Wished, Online
    <3> QED BY <1>0, <3>1, <3>2, OfflineSettles
  <2>3. CASE b \notin S
    <3>1. acct'[b] = acct[b] /\ wish'[b] = wish[b]
      BY <2>1, <2>3 DEF SetAll
    <3> QED BY <1>0, <3>1
  <2> QED BY <2>2, <2>3
<1>3. CASE Sleeping
  <2>1. wish[b] = "Offline" /\ acct[b].status # "Offline"
    BY <1>3 DEF Sleeping
  <2> QED BY <1>0, <2>1 DEF Settled
<1>4. CASE ResumingFromSuspend
  <2>1. acct'[b] = Resume(acct[b], net) /\ wish[b] = "Offline"
    BY <1>4 DEF ResumingFromSuspend, WishAfterResume, ResumeAll
  <2> QED BY <1>0, <2>1, SettledStays
<1>5. CASE NetworkDown
  BY <1>5 DEF NetworkDown
<1>6. CASE NetworkUp
  <2>1. CASE manager.suspended
    <3>1. wish[b] = "Offline"
      BY <1>6, <2>1 DEF NetworkUp, WishAfterResume
    <3>2. Settled(acct[b])
      BY <1>0, <3>1
    <3>3. NetworkingStatusChanged(b, acct[b], "up") = acct[b] /\ Resume(acct[b], "up") = acct[b]
      BY <3>2, SettledStays
    <3>4. acct'[b] = NetworkingStatusChanged(b, Resume(acct[b], "up"), "up")
             \/ acct'[b] = Resume(NetworkingStatusChanged(b, acct[b], "up"), "up")
      BY <1>6, <2>1 DEF NetworkUp, NetworkConnected, StatusChanged, ResumeAll
    <3> QED BY <3>2, <3>3, <3>4
  <2>2. CASE ~manager.suspended
    <3> DEFINE seen == IF ManagerFirst THEN acct ELSE StatusChanged(acct, "up")
               S == Addressed(seen, global, FALSE, TRUE)
               B == SetAll(seen, S, global, "up")
    <3>1. wish' = [a \in Accounts |-> IF a \in S THEN Wished(seen[a], global) ELSE wish[a]]
      BY <1>6, <2>2, Zenon DEF NetworkUp
    <3>2. acct' = IF ManagerFirst THEN StatusChanged(B, "up") ELSE B
      BY <1>6, <2>2, Zenon DEF NetworkUp, NetworkConnected
    <3>3. AllSound(seen)
      BY <1>0, StatusChangedSound
    <3>4. wish[b] = "Offline" => seen[b] = acct[b]
      BY <1>0, SettledStays DEF StatusChanged
    <3> HIDE DEF seen, S
    <3>5. B[b] = IF b \in S THEN SetOnlineStatus(seen[b], global, "up") ELSE seen[b]
      BY DEF SetAll
    <3> HIDE DEF B
    <3>6. Settled(B[b])
      <4>1. CASE b \in S
        <5>1. Wished(seen[b], global) = "Offline" /\ Sound(seen[b])
          BY <3>1, <3>3, <4>1 DEF AllSound
        <5>2. global = "Offline"
          BY <5>1 DEF Wished
        <5> QED BY <3>5, <4>1, <5>1, <5>2, OfflineSettles
      <4>2. CASE b \notin S
        BY <1>0, <3>1, <3>4, <3>5, <4>2
      <4> QED BY <4>1, <4>2
    <3>7. acct'[b] = B[b]
      <4>1. CASE ManagerFirst
        <5>1. acct'[b] = NetworkingStatusChanged(b, B[b], "up")
          BY <3>2, <4>1 DEF StatusChanged
        <5> QED BY <3>6, <5>1, SettledStays
      <4>2. CASE ~ManagerFirst
        BY <3>2, <4>2
      <4> QED BY <4>1, <4>2
    <3> QED BY <3>6, <3>7
  <2> QED BY <2>1, <2>2
<1>7. ASSUME NEW a \in Accounts, Losing(a) \/ Proceed(a)
      PROVE  Settled(acct'[b])
  <2>1. \A c \in Accounts : c # a => acct'[c] = acct[c] /\ wish'[c] = wish[c]
    BY <1>0, <1>7 DEF Losing, Proceed, EnterPassword, CancelPassword, SlotConnected,
           SlotRosterRequestFinished, SlotCSError, NotAuthorized, SlotCSDisconnected,
           ReconnectTimeout, SlotStopSuppression
  <2>2. CASE a # b
    BY <1>0, <2>1, <2>2
  <2>3. CASE a = b
    <3>1. wish[b] = "Offline"
      BY <1>0, <1>7, <2>3 DEF Losing, Proceed, EnterPassword, CancelPassword, SlotConnected,
             SlotRosterRequestFinished, SlotCSError, NotAuthorized, SlotCSDisconnected,
             ReconnectTimeout, SlotStopSuppression
    <3>2. Settled(acct[b]) /\ acct[b] \in AccountType
      BY <1>0, <3>1 DEF Sound
    <3>3. SlotCSDisconnected(b) \/ SlotStopSuppression(b)
      BY <1>7, <2>3, <3>2 DEF Settled, Losing, Proceed, EnterPassword, CancelPassword, SlotConnected,
             SlotRosterRequestFinished, SlotCSError, NotAuthorized, ReconnectTimeout
    <3>4. CASE SlotCSDisconnected(b)
      <4> DEFINE k == acct[b].closing - 1
                 q == [acct[b] EXCEPT !.closing = k]
      <4>1. k \in Nat
        BY <3>2, <3>4 DEF SlotCSDisconnected, AccountType
      <4>2. acct' = [acct EXCEPT ![b] = StreamEnded(q, "Unknown", net)]
        BY <3>4, Zenon DEF SlotCSDisconnected, EndSignalled
      <4> HIDE DEF k
      <4>3. Settled(q)
        BY <3>2, <4>1 DEF Settled, AccountType
      <4> HIDE DEF q
      <4>4. acct'[b] = q
        BY <1>0, <4>2, <4>3 DEF StreamEnded, Settled, IsConnected, IsConnecting, Online
      <4> QED BY <4>3, <4>4
    <3>5. CASE SlotStopSuppression(b)
      <4> DEFINE k == IF IsConnected(acct[b]) THEN 0 ELSE acct[b].connectionTry
                 q == [acct[b] EXCEPT !.suppressStatusTimer = FALSE, !.connectionTry = k]
      <4>1. acct'[b] = q
        BY <1>0, <3>5 DEF SlotStopSuppression
      <4>2. Settled(q)
        <5> HIDE DEF k
        <5> QED BY <3>2 DEF Settled, AccountType
      <4> QED BY <4>1, <4>2
    <3> QED BY <3>3, <3>4, <3>5
  <2> QED BY <2>2, <2>3
<1> QED BY <1>1, <1>2, <1>3, <1>4, <1>5, <1>6, <1>7 DEF Next, User, Machine

-----------------------------------------------------------------------------
(* An account that the user took offline stays offline, for any accounts,  *)
(* bounds and order of the notifier's calls: no retry, no late end of a    *)
(* stream and no resume() brings it back.                                  *)
THEOREM AccountOfflineIsFinal == Spec => []OfflineIsFinal
<1>1. Init => OfflineKept
  BY DEF Init, OfflineKept
<1>2. Inv /\ OfflineKept /\ [Next]_vars => OfflineKept'
  <2>1. ASSUME OfflineKept, UNCHANGED vars PROVE OfflineKept'
    BY <2>1 DEF OfflineKept, vars, Settled
  <2> QED BY <2>1, OfflineStep
<1>3. OfflineKept => OfflineIsFinal
  BY DEF OfflineKept, Settled, OfflineIsFinal, Quiet
<1> QED BY <1>1, <1>2, <1>3, AccountInvariance, PTL DEF Spec

(* An account that the user wants online is never forgotten, for any       *)
(* accounts and bounds, when the notifier calls the manager before the     *)
(* accounts: a retry, the return of the network or resume() is due         *)
(* (Account::disconnected(), networkingStatusChanged(), suspend()).  What  *)
(* ends the wish is named with NoLostWish, among it resume() of an account *)
(* that was suspended offline; without TLS an account may stay connecting. *)
THEOREM AccountNoLostWish ==
    ASSUME ManagerFirst
    PROVE  Spec => []NoLostWish
<1> DEFINE W == SuspendedGlobal /\ WishKept
<1>1. Init => W
  BY DEF Init, SuspendedGlobal, WishKept, Online
<1>2. Inv /\ W /\ [Next]_vars => W'
  <2> SUFFICES ASSUME Inv, SuspendedGlobal, WishKept, [Next]_vars PROVE SuspendedGlobal' /\ WishKept'
    OBVIOUS
  <2>1. SuspendedGlobal'
    BY SuspendedGlobalStep
  <2>2. CASE UNCHANGED vars
    BY <2>1, <2>2 DEF WishKept, vars, Trying, Waiting, IsConnected, IsConnecting
  <2>3. CASE Next
    BY <2>1, <2>3, WishUser, WishMachine, WishConnection DEF Next
  <2> QED BY <2>2, <2>3
<1>3. Inv /\ W => NoLostWish
  <2> SUFFICES ASSUME Inv, WishKept, NEW a \in Accounts \ Excluded, wish[a] \in Online
               PROVE  UnderWay(acct[a]) \/ WillResume(a) \/ Stuck(acct[a])
    BY DEF NoLostWish
  <2>1. Sound(acct[a])
    BY DEF Inv, AllSound
  <2>2. IsConnecting(acct[a]) => acct[a].stream # "closed" \/ Stuck(acct[a])
    BY <2>1 DEF Sound, Stuck
  <2> QED BY <2>2 DEF WishKept, Trying, Waiting, UnderWay, WillResume
<1> QED BY <1>1, <1>2, <1>3, AccountInvariance, PTL DEF Spec
=============================================================================
