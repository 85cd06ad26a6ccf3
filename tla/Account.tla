------------------------------- MODULE Account -------------------------------
(***************************************************************************)
(* The connection of accounts: Kopete::Account with its reconnect timer,   *)
(* suspend() and resume(), Kopete::AccountManager and the global status,   *)
(* on top of one protocol, JabberAccount (a PasswordedAccount).            *)
(*                                                                         *)
(* Every handler runs to completion in the event loop and may call several *)
(* of an account's methods one after the other, so the state of an account *)
(* is one record and each method an operator from records to records.      *)
(* A status is what myself()->onlineStatus() says: a Jabber account        *)
(* updates it synchronously (setPresence() -> resource pool ->             *)
(* reevaluateStatus()).                                                    *)
(*                                                                         *)
(* The XMPP stream is external: it opens or fails in its own time, and the *)
(* end of a stream that was closed while active is signalled later, when   *)
(* the next one may already be in use.                                     *)
(***************************************************************************)
EXTENDS Naturals

CONSTANTS
    Accounts,       \* AccountManager::accounts()
    Excluded,       \* those with excludeConnect()
    ManagerFirst,   \* Solid's notifier calls the manager before the accounts
    LastTry,        \* the last attempt disconnected() starts the timer for: 10
    MaxCalls,       \* bound on what the user asks for
    MaxOutages,     \* bound on the outages of the network and on the times the machine sleeps
    MaxLosses,      \* bound on the established sessions that are lost
    MaxWrong        \* bound on the passwords that turn out to be wrong

ASSUME AccountAssumption ==
    /\ Excluded \subseteq Accounts
    /\ ManagerFirst \in BOOLEAN
    /\ {LastTry, MaxCalls, MaxOutages, MaxLosses, MaxWrong} \subseteq Nat

VARIABLES
    acct,           \* the state of each account
    net,            \* Solid::Networking::status(): "up" or "down"
    manager,        \* AccountManager::Private
    global,         \* StatusManager::globalStatusCategory()
    wish,           \* history: what the user last asked of an account
    budget          \* what is left of the bounds

vars == <<acct, net, manager, global, wish, budget>>

Online == {"Online", "Away"}
Statuses == Online \cup {"Offline", "Connecting"}

AccountType ==
    [status : Statuses,             \* myself()->onlineStatus()
     initialPresence : Online,      \* JabberAccount::m_initialPresence
     stream : {"closed", "connecting", "active", "ready"},
     noTLS : BOOLEAN,               \* UseSSL is set and QCA does not support "tls"
     closing : Nat,                 \* streams closed whose end is not yet signalled
     requests : Nat,                \* password requests not yet answered
     cached : BOOLEAN,              \* Password::cachedValue() is not null
     restoreStatus : Online,
     suspended : BOOLEAN,
     suspendStatus : Online \cup {"Offline"},
     reconnectTimer : BOOLEAN,      \* is active
     reconnectOnNetworkIsOnline : BOOLEAN,
     connectionTry : Nat,
     suppressStatusTimer : BOOLEAN] \* is active

NewAccount(noTLS) ==
    [status |-> "Offline", initialPresence |-> "Online", stream |-> "closed", noTLS |-> noTLS,
     closing |-> 0, requests |-> 0, cached |-> FALSE,
     restoreStatus |-> "Online", suspended |-> FALSE, suspendStatus |-> "Offline",
     reconnectTimer |-> FALSE, reconnectOnNetworkIsOnline |-> FALSE,
     connectionTry |-> 0, suppressStatusTimer |-> FALSE]

IsConnected(r) == r.status \in Online
IsConnecting(r) == r.status = "Connecting"
-----------------------------------------------------------------------------
(* Definitions named Mutant... are the forms a slip in the code would give *)
(* the definition that follows; the specification never uses them.         *)

(* `suspended' is not cleared. *)
MutantSlotOnlineStatusChanged(r, new) ==
    [r EXCEPT !.status = new,
              !.suppressStatusTimer = @ \/ ~IsConnected(r) \/ new \notin Online,
              !.restoreStatus = IF new \in Online THEN new ELSE @]

(* slotOnlineStatusChanged(): the status of myself() becomes `new'.  With  *)
(* setAllContactsStatus() the timer starts whenever the account was not    *)
(* connected or no longer is.                                              *)
SlotOnlineStatusChanged(r, new) ==
    [r EXCEPT !.status = new,
              !.suspended = FALSE,
              !.suppressStatusTimer = @ \/ ~IsConnected(r) \/ new \notin Online,
              !.restoreStatus = IF new \in Online THEN new ELSE @]

(* JabberAccount::setPresence(); Contact::setOnlineStatus() says nothing   *)
(* unless the status changes.                                              *)
SetPresence(r, s) == IF s = r.status THEN r ELSE SlotOnlineStatusChanged(r, s)

(* The attempts are not counted. *)
MutantRetry(r) ==
    IF r.reconnectTimer THEN r ELSE [r EXCEPT !.reconnectTimer = TRUE]

(* A connection is lost and will be tried again, up to a limit. *)
Retry(r) ==
    IF r.reconnectTimer THEN r
    ELSE IF r.connectionTry < LastTry
         THEN [r EXCEPT !.connectionTry = @ + 1, !.reconnectTimer = TRUE]
         ELSE [r EXCEPT !.connectionTry = @ + 1]

(* A timer that is running is left alone. *)
MutantDisconnected(r, reason, n) ==
    IF reason = "BadPassword" THEN [r EXCEPT !.cached = FALSE, !.reconnectTimer = TRUE]
    ELSE IF reason = "ConnectionReset" /\ n = "down"
         THEN [r EXCEPT !.reconnectOnNetworkIsOnline = TRUE, !.reconnectTimer = FALSE]
    ELSE IF reason \in {"ConnectionReset", "Unknown"} THEN Retry(r)
    ELSE [r EXCEPT !.reconnectOnNetworkIsOnline = FALSE]

(* PasswordedAccount::disconnected() and Account::disconnected(), with the *)
(* default setting of reconnectOnDisconnect and n the network's status.    *)
Disconnected(r, reason, n) ==
    IF reason = "BadPassword" THEN [r EXCEPT !.cached = FALSE, !.reconnectTimer = TRUE]
    ELSE IF reason = "ConnectionReset" /\ n = "down"
         THEN [r EXCEPT !.reconnectOnNetworkIsOnline = TRUE, !.reconnectTimer = FALSE]
    ELSE IF reason \in {"ConnectionReset", "Unknown"} THEN Retry(r)
    ELSE [r EXCEPT !.reconnectOnNetworkIsOnline = FALSE, !.reconnectTimer = FALSE]

(* JabberClient::disconnect() closes the stream, whatever its state. *)
CloseStream(r) ==
    [r EXCEPT !.stream = "closed",
              !.closing = IF r.stream \in {"active", "ready"} THEN @ + 1 ELSE @]

(* The session is left open. *)
MutantHangup(r) == r

(* Only an established session is closed: a stream that is opening is not. *)
Hangup(r) == IF IsConnected(r) THEN CloseStream(r) ELSE r

(* JabberAccount::disconnect(reason) *)
Disconnect(r, reason, n) ==
    Disconnected([SetPresence(Hangup(r), "Offline") EXCEPT !.initialPresence = "Online"],
                 reason, n)

(* JabberAccount::connectWithPassword() with a password.  The status is    *)
(* "connecting" before connect() is called, and when that returns NoTLS    *)
(* there is a message and no stream, and the status stays.                 *)
ConnectWithPassword(r) ==
    IF IsConnected(r) THEN r
    ELSE [SetPresence(CloseStream(r), "Connecting") EXCEPT
            !.stream = IF r.noTLS THEN "closed" ELSE "connecting"]

(* PasswordedAccount::connect() *)
Connect(r) ==
    IF r.cached THEN ConnectWithPassword(r) ELSE [r EXCEPT !.requests = @ + 1]

(* JabberAccount::setOnlineStatus() *)
SetOnlineStatus(r, s, n) ==
    IF s = "Offline" THEN Disconnected(SetPresence(Hangup(r), "Offline"), "Manual", n)
    ELSE IF IsConnecting(r) THEN r
    ELSE IF IsConnected(r) THEN SetPresence(r, s)
    ELSE Connect([r EXCEPT !.initialPresence = s])

(* Account::reconnect() *)
Reconnect(r, n) == IF IsConnected(r) THEN r ELSE SetOnlineStatus(r, r.restoreStatus, n)

(* The flag is set first, and going offline takes it back. *)
MutantNetworkingStatusChanged(a, r, n) ==
    IF n = "down"
    THEN SetOnlineStatus([r EXCEPT !.reconnectOnNetworkIsOnline = TRUE], "Offline", n)
    ELSE IF r.reconnectOnNetworkIsOnline /\ a \notin Excluded THEN Reconnect(r, n) ELSE r

(* Account::networkingStatusChanged() of account a. *)
NetworkingStatusChanged(a, r, n) ==
    IF n = "down"
    THEN [SetOnlineStatus(r, "Offline", n) EXCEPT !.reconnectOnNetworkIsOnline = TRUE]
    ELSE IF r.reconnectOnNetworkIsOnline /\ a \notin Excluded THEN Reconnect(r, n) ELSE r

(* An account that is connecting is not treated differently. *)
MutantSuspend(r, n) ==
    IF r.suspended THEN r
    ELSE [SetOnlineStatus([r EXCEPT !.suspendStatus = r.status], "Offline", n)
          EXCEPT !.suspended = TRUE]

(* Account::suspend() *)
Suspend(r, n) ==
    IF r.suspended THEN r
    ELSE [SetOnlineStatus([r EXCEPT !.suspendStatus =
                             IF IsConnecting(r) THEN r.restoreStatus ELSE r.status],
                          "Offline", n)
          EXCEPT !.suspended = TRUE]

(* Account::resume().  It means to leave alone an account that was         *)
(* suspended offline, but compares suspendStatus with the built-in Offline *)
(* status, which no status of a protocol equals: such an account is set    *)
(* offline again, which ends what was to reconnect it.                     *)
Resume(r, n) == IF r.suspended THEN SetOnlineStatus(r, r.suspendStatus, n) ELSE r

(* The accounts AccountManager::setOnlineStatus() passes `category' on to, *)
(* A being their states.                                                   *)
Addressed(A, category, connectIfOffline, forced) ==
    LET onlyChangeConnectedAccounts == ~forced /\ \E a \in Accounts : IsConnected(A[a])
    IN  IF category = "Offline" THEN Accounts
        ELSE IF onlyChangeConnectedAccounts
             THEN {a \in Accounts : \/ IsConnected(A[a])
                                    \/ /\ connectIfOffline \/ global = "Offline"
                                       /\ a \notin Excluded}
             ELSE Accounts \ Excluded

SetAll(A, S, s, n) == [a \in Accounts |-> IF a \in S THEN SetOnlineStatus(A[a], s, n) ELSE A[a]]

Init ==
    /\ acct \in [Accounts -> {NewAccount(noTLS) : noTLS \in BOOLEAN}]
    /\ net = "up"
    /\ manager = [suspended |-> FALSE, suspendedStatusCategory |-> "Offline"]
    /\ global = "Offline"
    /\ wish = [a \in Accounts |-> "none"]
    /\ budget = [calls |-> MaxCalls, outages |-> MaxOutages, losses |-> MaxLosses, wrong |-> MaxWrong]

(* Setting an account offline is taken as final when it ends nothing that  *)
(* goes on behind the account's back: an attempt to connect, a request for *)
(* the password, a suspension.                                             *)
Wished(r, s) ==
    IF s = "Offline" /\ ~(r.stream \in {"closed", "ready"} /\ r.requests = 0 /\ ~r.suspended)
    THEN "none" ELSE s

Spend(what) == budget[what] > 0 /\ budget' = [budget EXCEPT ![what] = @ - 1]
-----------------------------------------------------------------------------
(* What the user does. *)

(* The account's status menu. *)
UserSetAccount(a, s) ==
    /\ Spend("calls")
    /\ acct' = [acct EXCEPT ![a] = SetOnlineStatus(@, s, net)]
    /\ wish' = [wish EXCEPT ![a] = Wished(acct[a], s)]
    /\ UNCHANGED <<net, manager, global>>

(* AccountManager::setOnlineStatus() *)
UserSetGlobal(category, connectIfOffline, forced) ==
    LET S == Addressed(acct, category, connectIfOffline, forced)
    IN  /\ Spend("calls")
        /\ acct' = SetAll(acct, S, category, net)
        /\ manager' = [manager EXCEPT !.suspended = FALSE]
        /\ global' = category
        /\ wish' = [a \in Accounts |-> IF a \in S THEN Wished(acct[a], category) ELSE wish[a]]
        /\ UNCHANGED net

(* A request for the password is answered: the user enters a password,     *)
(* connectWithPassword(), or cancels.                                      *)
Answered(r) == [r EXCEPT !.requests = @ - 1]

EnterPassword(a) ==
    /\ acct[a].requests > 0
    /\ acct' = [acct EXCEPT ![a] = ConnectWithPassword([Answered(@) EXCEPT !.cached = TRUE])]
    /\ UNCHANGED <<net, manager, global, wish, budget>>

CancelPassword(a) ==
    /\ acct[a].requests > 0
    /\ acct' = [acct EXCEPT ![a] = Disconnect(Answered(@), "Manual", net)]
    /\ wish' = [wish EXCEPT ![a] = "none"]
    /\ UNCHANGED <<net, manager, global, budget>>
-----------------------------------------------------------------------------
(* The machine sleeps and wakes, the network goes and comes back.          *)

(* AccountManager::suspend() on the accounts' states A, n the network. *)
SuspendAll(A, n) ==
    IF manager.suspended THEN A ELSE [a \in Accounts |-> Suspend(A[a], n)]

SuspendManager ==
    IF manager.suspended THEN UNCHANGED <<manager, global>>
    ELSE /\ manager' = [suspended |-> TRUE, suspendedStatusCategory |-> global]
         /\ global' = "Offline"

(* AccountManager::resume(): restoring the accounts and the global status. *)
ResumeAll(A, n) == [a \in Accounts |-> Resume(A[a], n)]

ResumeManager ==
    /\ global' = manager.suspendedStatusCategory
    /\ manager' = [manager EXCEPT !.suspended = FALSE]

(* resume() sets an account that was suspended offline to Offline, and     *)
(* with that forgets that the network's return was to reconnect it.        *)
WishAfterResume ==
    wish' = [a \in Accounts |-> IF acct[a].suspended /\ acct[a].suspendStatus = "Offline"
                               THEN "none" ELSE wish[a]]

(* suspend() remembers the status only: an account that was offline, even  *)
(* one waiting for its next attempt, is not tried again by resume().       *)
Sleeping ==
    /\ Spend("outages")
    /\ acct' = SuspendAll(acct, net)
    /\ SuspendManager
    /\ wish' = [a \in Accounts |-> IF acct[a].status = "Offline" THEN "none" ELSE wish[a]]
    /\ UNCHANGED net

ResumingFromSuspend ==
    /\ manager.suspended /\ net = "up"
    /\ acct' = ResumeAll(acct, net)
    /\ ResumeManager /\ WishAfterResume
    /\ UNCHANGED <<net, budget>>

StatusChanged(A, n) == [a \in Accounts |-> NetworkingStatusChanged(a, A[a], n)]

(* Both the accounts and the manager hear of the change, the accounts      *)
(* through statusChanged(), the manager through shouldDisconnect() or      *)
(* shouldConnect().                                                        *)
NetworkDown ==
    /\ net = "up" /\ net' = "down"
    /\ Spend("outages")
    /\ acct' = IF ManagerFirst THEN StatusChanged(SuspendAll(acct, "down"), "down")
               ELSE SuspendAll(StatusChanged(acct, "down"), "down")
    /\ SuspendManager
    /\ wish' = [a \in Accounts |-> IF wish[a] = "Offline" THEN "none" ELSE wish[a]]

(* AccountManager::networkConnected(): unless there is something to        *)
(* resume, the global status is what the user wants of the accounts.       *)
NetworkConnected(A) ==
    IF manager.suspended THEN ResumeAll(A, "up")
    ELSE SetAll(A, Addressed(A, global, FALSE, TRUE), global, "up")

NetworkUp ==
    /\ net = "down" /\ net' = "up"
    /\ acct' = IF ManagerFirst THEN StatusChanged(NetworkConnected(acct), "up")
               ELSE NetworkConnected(StatusChanged(acct, "up"))
    /\ IF manager.suspended
       THEN ResumeManager /\ WishAfterResume
       ELSE /\ UNCHANGED <<manager, global>>
            /\ LET seen == IF ManagerFirst THEN acct ELSE StatusChanged(acct, "up")
               IN  wish' = [a \in Accounts |-> IF a \in Addressed(seen, global, FALSE, TRUE)
                                              THEN Wished(seen[a], global) ELSE wish[a]]
    /\ UNCHANGED budget
-----------------------------------------------------------------------------
(* The stream, and the account's timers. *)

SlotConnected(a) ==
    /\ acct[a].stream = "connecting"
    /\ acct' = [acct EXCEPT ![a].stream = "active"]
    /\ UNCHANGED <<net, manager, global, wish, budget>>

SlotRosterRequestFinished(a) ==
    /\ acct[a].stream = "active"
    /\ acct' = [acct EXCEPT ![a] = SetPresence([@ EXCEPT !.stream = "ready"], @.initialPresence)]
    /\ UNCHANGED <<net, manager, global, wish, budget>>

(* An account that is neither connected nor connecting does not care. *)
StreamEnded(r, reason, n) ==
    IF IsConnected(r) \/ IsConnecting(r) THEN Disconnect(r, reason, n) ELSE r

(* slotCSError(): the stream is reset, then says so.  A server that closes *)
(* the stream, slotCSDisconnected(), counts as an unknown error.           *)
SlotCSError(a, reason) ==
    /\ acct[a].stream # "closed"
    /\ acct[a].stream # "connecting" => reason # "InvalidHost"
    /\ IF acct[a].stream = "ready" THEN Spend("losses") ELSE UNCHANGED budget
    /\ acct' = [acct EXCEPT ![a] = StreamEnded([@ EXCEPT !.stream = "closed"], reason, net)]
    /\ wish' = IF reason = "InvalidHost" THEN [wish EXCEPT ![a] = "none"] ELSE wish
    /\ UNCHANGED <<net, manager, global>>

(* slotCSError() when the server does not accept the password. *)
NotAuthorized(a) ==
    /\ acct[a].stream = "connecting"
    /\ Spend("wrong")
    /\ acct' = [acct EXCEPT ![a] = Disconnect([@ EXCEPT !.stream = "closed"], "BadPassword", net)]
    /\ UNCHANGED <<net, manager, global, wish>>

(* slotCSDisconnected() when a stream that was closed earlier ends. *)
EndSignalled(r) == [r EXCEPT !.closing = @ - 1]

SlotCSDisconnected(a) ==
    /\ acct[a].closing > 0
    /\ IF IsConnected(acct[a]) THEN Spend("losses") ELSE UNCHANGED budget
    /\ acct' = [acct EXCEPT ![a] = StreamEnded(EndSignalled(@), "Unknown", net)]
    /\ UNCHANGED <<net, manager, global, wish>>

ReconnectTimeout(a) ==
    /\ acct[a].reconnectTimer
    /\ acct' = [acct EXCEPT ![a] = Reconnect([@ EXCEPT !.reconnectTimer = FALSE], net)]
    /\ UNCHANGED <<net, manager, global, wish, budget>>

SlotStopSuppression(a) ==
    /\ acct[a].suppressStatusTimer
    /\ acct' = [acct EXCEPT ![a].suppressStatusTimer = FALSE,
                            ![a].connectionTry = IF IsConnected(acct[a]) THEN 0 ELSE @]
    /\ UNCHANGED <<net, manager, global, wish, budget>>
-----------------------------------------------------------------------------
User ==
    \/ \E a \in Accounts, s \in Online \cup {"Offline"} : UserSetAccount(a, s)
    \/ \E s \in Online \cup {"Offline"}, connectIfOffline, forced \in BOOLEAN :
         UserSetGlobal(s, connectIfOffline, forced)

Machine == Sleeping \/ ResumingFromSuspend \/ NetworkDown \/ NetworkUp

Losing(a) == acct[a].stream = "ready" /\ \E reason \in {"ConnectionReset", "Unknown"} : SlotCSError(a, reason)

(* What goes on by itself once it has begun. *)
Proceed(a) ==
    \/ EnterPassword(a) \/ CancelPassword(a)
    \/ SlotConnected(a) \/ SlotRosterRequestFinished(a)
    \/ acct[a].stream # "ready" /\ \E reason \in {"InvalidHost", "ConnectionReset", "Unknown"} : SlotCSError(a, reason)
    \/ NotAuthorized(a)
    \/ SlotCSDisconnected(a)
    \/ ReconnectTimeout(a)
    \/ SlotStopSuppression(a)

Next ==
    \/ User \/ Machine
    \/ \E a \in Accounts : Losing(a) \/ Proceed(a)

Spec == Init /\ [][Next]_vars
FairSpec == Spec /\ \A a \in Accounts : WF_vars(Proceed(a))
-----------------------------------------------------------------------------
(* Every variable keeps its type; no account is to be resumed to           *)
(* "Connecting".                                                           *)
TypeOK ==
    /\ acct \in [Accounts -> AccountType]
    /\ net \in {"up", "down"}
    /\ manager \in [suspended : BOOLEAN, suspendedStatusCategory : Online \cup {"Offline"}]
    /\ global \in Online \cup {"Offline"}
    /\ wish \in [Accounts -> Online \cup {"Offline", "none"}]
    /\ budget \in [{"calls", "outages", "losses", "wrong"} -> Nat]

(* connectWithPassword() got NoTLS: the account stays connecting with no   *)
(* attempt behind it, until the user sets it offline.                      *)
Stuck(r) == IsConnecting(r) /\ r.noTLS

(* What the contact list shows is what the stream is: an account is online *)
(* exactly while its session is established, and one that is connecting    *)
(* has an attempt under way, or needs a TLS library that is missing (see   *)
(* Stuck).  Late signals of earlier streams, timers and late passwords do  *)
(* not tear the two apart.                                                 *)
SessionMatchesStatus ==
    \A a \in Accounts :
        /\ IsConnected(acct[a]) <=> acct[a].stream = "ready"
        /\ IsConnecting(acct[a]) => acct[a].stream \in {"connecting", "active"} \/ Stuck(acct[a])

(* resume() never acts on an account that has come back by itself since    *)
(* suspend(): an account that is suspended is offline.                     *)
SuspendedIsOffline == \A a \in Accounts : acct[a].suspended => acct[a].status = "Offline"

(* Something will bring r online, or it has given up after LastTry. *)
UnderWay(r) ==
    \/ IsConnected(r) \/ r.stream # "closed" \/ r.requests > 0
    \/ r.reconnectTimer
    \/ r.connectionTry > LastTry

(* The end of the outage or of the suspension will. *)
WillResume(a) ==
    \/ acct[a].reconnectOnNetworkIsOnline /\ a \notin Excluded /\ net = "down"
    \/ acct[a].suspended /\ acct[a].suspendStatus # "Offline" /\ manager.suspended

(* An account the user wants online is never forgotten: it is online, an   *)
(* attempt is under way, or a timer, the return of the network or resume() *)
(* is going to start one.  The wish ends with a cancelled password, an     *)
(* unknown host, when the machine goes to sleep while the account is       *)
(* offline between two attempts, and when resume() sets to offline an      *)
(* account that the outage found between two attempts (see Resume).  An    *)
(* account without the TLS it needs stays connecting.  The return of the   *)
(* network does not bring back an account with excludeConnect(), nor any   *)
(* account if the notifier called the accounts before the manager:         *)
(* suspend() then takes back the mark that networkingStatusChanged() set.  *)
NoLostWish ==
    \A a \in Accounts \ Excluded : wish[a] \in Online =>
        UnderWay(acct[a]) \/ WillResume(a) \/ Stuck(acct[a])

(* Nothing goes on that would change r's status by itself. *)
Quiet(r) == ~r.reconnectTimer /\ r.requests = 0 /\ r.stream \in {"closed", "ready"}

(* An account that the user took offline, with nothing left under way,     *)
(* stays offline: no retry, no late signal of a stream and no resume()     *)
(* brings it back.  An outage of the network does (see Wished and          *)
(* NetworkDown): networkingStatusChanged() marks every account for         *)
(* reconnection, whatever its status was.                                  *)
OfflineIsFinal ==
    \A a \in Accounts : wish[a] = "Offline" =>
        acct[a].status = "Offline" /\ Quiet(acct[a])

(* kopeteaccount.h of disconnect(): "If the service is connecting, you     *)
(* should abort the connection."                                           *)
AbortAborts ==
    [][\A a \in Accounts : UserSetAccount(a, "Offline") => acct'[a].stream = "closed"]_vars

(* However the attempts fail, an account does not try for ever: once the   *)
(* user, the network and the established sessions leave it alone it is     *)
(* online or has given up.                                                 *)
ComesToRest == \A a \in Accounts : <>[]Quiet(acct[a])
=============================================================================
