------------------------------ MODULE AutoAway -------------------------------
(***************************************************************************)
(* Auto-away: Kopete::StatusManager and Kopete::IdleTimer, over accounts   *)
(* that apply a status at once, as a JabberAccount that is connected does, *)
(* or that ignore it, as a JabberTransport does.                           *)
(*                                                                         *)
(* The idle timer looks every four seconds how long the user has been idle *)
(* and tells its one receiver, the status manager, when that changes       *)
(* sides; the slots are posted (QTimer::singleShot(0)).  The receiver is   *)
(* registered anew, as active, each time an account's status changes, also *)
(* when the status manager itself changes it: the timer then does not know *)
(* any more that the user was idle.                                        *)
(***************************************************************************)
EXTENDS Naturals, Sequences, SequencesExt

CONSTANTS
    Accounts,
    Transports,     \* those that ignore setOnlineStatus()
    Owner,          \* JabberTransport::m_account
    MaxUser,        \* bound on the statuses the user sets
    MaxNews,        \* bound on connections lost and regained, and accounts deleted
    MaxSettings,    \* bound on the changes of the settings
    MaxPosted       \* bound on the slots not yet called when the timer looks again

ASSUME AutoAwayAssumption ==
    /\ Transports \subseteq Accounts
    /\ Owner \in [Transports -> Accounts \ Transports]
    /\ {MaxUser, MaxNews, MaxSettings, MaxPosted} \subseteq Nat

VARIABLES
    accounts,           \* AccountManager::accounts()
    status,             \* myself()->onlineStatus() of each account
    restoreStatus,      \* Account::Private::restoreStatus
    lost,               \* accounts that will reconnect
    settings,           \* BehaviorSettings
    receiver,           \* the status manager's entry in receiverList, or NoReceiver
    tick,               \* what updateIdleTime() saw last: "active", "short" or "long"
    present,            \* the user did something in Kopete since
    renewed,            \* history: the timer has not seen the user idle since it was registered
    posted,             \* the slots of the status manager to be called
    away,               \* StatusManager::Private::away
    autoAwayAccounts,
    setBy,              \* history: "auto" from auto-away to its end, or to what the user sets
    budget              \* what is left of the bounds

vars == <<accounts, status, restoreStatus, lost, settings, receiver, tick, present,
          renewed, posted, away, autoAwayAccounts, setBy, budget>>

AwayStatuses == {"Away", "Busy"}
Connected == {"Online"} \cup AwayStatuses
Settings == [useAutoAway : BOOLEAN, goAvailable : BOOLEAN, askAvailable : BOOLEAN]
DefaultSettings == [useAutoAway |-> TRUE, goAvailable |-> TRUE, askAvailable |-> FALSE]
Slots == {"setActive", "askAndSetActive", "setAutoAway"}
NoReceiver == [active |-> FALSE, memberActive |-> "none"]
-----------------------------------------------------------------------------
(* Definitions named Mutant... are the forms a slip in the code would give *)
(* the definition that follows; the specification never uses them.         *)

(* checkIdleTimer(), when the accounts' statuses are st and the settings   *)
(* cf: only the accounts that are registered count.                        *)
CheckIdleTimer(st, cf) ==
    IF cf.useAutoAway /\ \E a \in accounts : st[a] \in Connected
    THEN [active |-> TRUE,
          memberActive |-> IF cf.askAvailable THEN "askAndSetActive" ELSE "setActive"]
    ELSE NoReceiver

(* Offline is remembered too. *)
MutantSetOnlineStatus(S, s) ==
    LET new == [a \in Accounts |-> IF a \in S THEN s ELSE status[a]]
    IN  /\ status' = new /\ restoreStatus' = new
        /\ IF new = status THEN UNCHANGED <<receiver, renewed>>
           ELSE receiver' = CheckIdleTimer(new, settings) /\ renewed' = TRUE

(* The accounts in S get the status s.  Only a change is signalled, to     *)
(* Account, which remembers it, and to the status manager.                 *)
SetOnlineStatus(S, s) ==
    LET new == [a \in Accounts |-> IF a \in S THEN s ELSE status[a]]
    IN  /\ status' = new
        /\ restoreStatus' = [a \in Accounts |-> IF new[a] \in Connected THEN new[a] ELSE restoreStatus[a]]
        /\ IF new = status THEN UNCHANGED <<receiver, renewed>>
           ELSE receiver' = CheckIdleTimer(new, settings) /\ renewed' = TRUE

Spend(what) == budget[what] > 0 /\ budget' = [budget EXCEPT ![what] = @ - 1]

Init ==
    /\ accounts = Accounts
    /\ status = [a \in Accounts |-> "Offline"]
    /\ restoreStatus = [a \in Accounts |-> "Online"]
    /\ lost = {}
    /\ settings = DefaultSettings
    /\ receiver = NoReceiver
    /\ tick = "active" /\ present = TRUE /\ renewed = FALSE
    /\ posted = <<>>
    /\ away = FALSE /\ autoAwayAccounts = {}
    /\ setBy = [a \in Accounts |-> "user"]
    /\ budget = [user |-> MaxUser, news |-> MaxNews, settings |-> MaxSettings]
-----------------------------------------------------------------------------
(* The user, who is not idle then. *)
UserSetStatus(a, s) ==
    /\ a \in accounts \ Transports /\ s # status[a]
    /\ Spend("user")
    /\ SetOnlineStatus({a}, s)
    /\ lost' = lost \ {a}
    /\ setBy' = [setBy EXCEPT ![a] = "user"]
    /\ present' = TRUE
    /\ UNCHANGED <<accounts, settings, tick, posted, away, autoAwayAccounts>>

(* The idle timer is not told. *)
MutantLoadBehaviorSettings(cf) ==
    /\ cf # settings
    /\ Spend("settings")
    /\ settings' = cf
    /\ present' = TRUE
    /\ UNCHANGED <<accounts, status, restoreStatus, lost, receiver, renewed, tick, posted, away,
                   autoAwayAccounts, setBy>>

(* loadBehaviorSettings() *)
LoadBehaviorSettings(cf) ==
    /\ cf # settings
    /\ Spend("settings")
    /\ settings' = cf
    /\ receiver' = CheckIdleTimer(status, cf) /\ renewed' = TRUE
    /\ present' = TRUE
    /\ UNCHANGED <<accounts, status, restoreStatus, lost, tick, posted, away, autoAwayAccounts, setBy>>
-----------------------------------------------------------------------------
(* The network, and the end of an account. *)

ConnectionLost(a) ==
    /\ a \in accounts /\ status[a] \in Connected
    /\ Spend("news")
    /\ SetOnlineStatus({a}, "Offline")
    /\ lost' = lost \cup {a}
    /\ UNCHANGED <<accounts, settings, tick, present, posted, away, autoAwayAccounts, setBy>>

(* Account::reconnect(), or the presence of a gateway. *)
Reconnected(a) ==
    /\ a \in lost
    /\ SetOnlineStatus({a}, restoreStatus[a])
    /\ lost' = lost \ {a}
    /\ UNCHANGED <<accounts, settings, tick, present, posted, away, autoAwayAccounts, setBy, budget>>

GatewayAvailable(a) ==
    /\ a \in accounts \cap Transports /\ status[a] = "Offline" /\ a \notin lost
    /\ Spend("news")
    /\ SetOnlineStatus({a}, "Online")
    /\ UNCHANGED <<accounts, lost, settings, tick, present, posted, away, autoAwayAccounts, setBy>>

(* An account is deleted, accountUnregistered(): it disconnects first,     *)
(* unless it is a transport removed by itself, which must be offline.  Its *)
(* transports are deleted with it, whatever their status is, and nobody    *)
(* looks at the idle timer for that.                                       *)
AccountUnregistered(a) ==
    LET gone == {a} \cup {t \in Transports : Owner[t] = a}
    IN  /\ a \in accounts
        /\ a \in Transports => status[a] = "Offline"
        /\ Spend("news")
        /\ SetOnlineStatus({a}, "Offline")
        /\ accounts' = accounts \ gone /\ lost' = lost \ gone
        /\ autoAwayAccounts' = autoAwayAccounts \ gone
        /\ UNCHANGED <<settings, tick, present, posted, away, setBy>>
-----------------------------------------------------------------------------
(* The entry stays active when the user has become idle. *)
MutantUpdateIdleTime(seen) ==
    LET activity == seen = "active"
        slot == IF activity THEN receiver.memberActive ELSE "setAutoAway"
    IN  /\ Len(posted) < MaxPosted
        /\ seen = "long" => ~present /\ tick # "active"
        /\ tick' = seen /\ present' = FALSE
        /\ renewed' = (renewed /\ seen # "long")
        /\ IF receiver # NoReceiver /\ receiver.active # activity /\ (activity \/ seen = "long")
           THEN receiver' = [receiver EXCEPT !.active = TRUE] /\ posted' = Append(posted, slot)
           ELSE UNCHANGED <<receiver, posted>>
        /\ UNCHANGED <<accounts, status, restoreStatus, lost, settings, away, autoAwayAccounts, setBy, budget>>

(* updateIdleTime(), every four seconds: the user was active within the    *)
(* last second ("active"), or has been idle for longer than the timeout    *)
(* ("long"), or neither.  The timeout is longer than four seconds.         *)
UpdateIdleTime(seen) ==
    LET activity == seen = "active"
        slot == IF activity THEN receiver.memberActive ELSE "setAutoAway"
    IN  /\ Len(posted) < MaxPosted
        /\ seen = "long" => ~present /\ tick # "active"
        /\ tick' = seen /\ present' = FALSE
        /\ renewed' = (renewed /\ seen # "long")
        /\ IF receiver # NoReceiver /\ receiver.active # activity /\ (activity \/ seen = "long")
           THEN receiver' = [receiver EXCEPT !.active = activity] /\ posted' = Append(posted, slot)
           ELSE UNCHANGED <<receiver, posted>>
        /\ UNCHANGED <<accounts, status, restoreStatus, lost, settings, away, autoAwayAccounts, setBy, budget>>

Called(slot) == posted # <<>> /\ Head(posted) = slot /\ posted' = Tail(posted)

(* The accounts remembered earlier are forgotten. *)
MutantSetAutoAway ==
    LET S == {a \in accounts : status[a] = "Online"}
    IN  /\ Called("setAutoAway")
        /\ away' = TRUE
        /\ IF away THEN UNCHANGED <<status, restoreStatus, receiver, renewed, autoAwayAccounts, setBy>>
           ELSE /\ autoAwayAccounts' = S
                /\ SetOnlineStatus(S \ Transports, "Away")
                /\ setBy' = [a \in Accounts |-> IF a \in S THEN "auto" ELSE setBy[a]]
        /\ UNCHANGED <<accounts, lost, settings, tick, present, budget>>

(* setAutoAway(): the status for the category Idle is Away where the       *)
(* protocol has none of its own.                                           *)
SetAutoAway ==
    LET S == {a \in accounts : status[a] = "Online"}
    IN  /\ Called("setAutoAway")
        /\ away' = TRUE
        /\ IF away THEN UNCHANGED <<status, restoreStatus, receiver, renewed, autoAwayAccounts, setBy>>
           ELSE /\ autoAwayAccounts' = autoAwayAccounts \cup S
                /\ SetOnlineStatus(S \ Transports, "Away")
                /\ setBy' = [a \in Accounts |-> IF a \in S THEN "auto" ELSE setBy[a]]
        /\ UNCHANGED <<accounts, lost, settings, tick, present, budget>>

(* setActive() *)
SetActive ==
    LET S == {a \in autoAwayAccounts : status[a] \in AwayStatuses}
    IN  /\ Called("setActive")
        /\ away' = FALSE
        /\ IF away /\ settings.goAvailable
           THEN /\ SetOnlineStatus(S \ Transports, "Online")
                /\ autoAwayAccounts' = {}
                /\ setBy' = [a \in Accounts |-> IF a \in autoAwayAccounts THEN "user" ELSE setBy[a]]
           ELSE UNCHANGED <<status, restoreStatus, receiver, renewed, autoAwayAccounts, setBy>>
        /\ UNCHANGED <<accounts, lost, settings, tick, present, budget>>

(* askAndSetActive() opens a box.  Its answer changes nothing: the signal  *)
(* yesClicked() that setActive() is to be connected to does not exist.     *)
AskAndSetActive ==
    /\ Called("askAndSetActive")
    /\ UNCHANGED <<accounts, status, restoreStatus, lost, settings, receiver, renewed, tick,
                   present, away, autoAwayAccounts, setBy, budget>>
-----------------------------------------------------------------------------
Slot == SetAutoAway \/ SetActive \/ AskAndSetActive

Next ==
    \/ \E a \in Accounts, s \in Connected \cup {"Offline"} : UserSetStatus(a, s)
    \/ \E cf \in Settings : LoadBehaviorSettings(cf)
    \/ \E a \in Accounts : ConnectionLost(a) \/ Reconnected(a) \/ GatewayAvailable(a) \/ AccountUnregistered(a)
    \/ \E seen \in {"active", "short", "long"} : UpdateIdleTime(seen)
    \/ Slot

Spec == Init /\ [][Next]_vars
-----------------------------------------------------------------------------
(* Every variable keeps its type. *)
TypeOK ==
    /\ accounts \subseteq Accounts /\ lost \subseteq accounts
    /\ status \in [Accounts -> Connected \cup {"Offline"}]
    /\ restoreStatus \in [Accounts -> Connected]
    /\ settings \in Settings
    /\ receiver \in [active : BOOLEAN, memberActive : {"none", "setActive", "askAndSetActive"}]
    /\ tick \in {"active", "short", "long"} /\ {present, renewed} \subseteq BOOLEAN
    /\ posted \in Seq(Slots)
    /\ away \in BOOLEAN /\ autoAwayAccounts \subseteq Accounts
    /\ setBy \in [Accounts -> {"user", "auto"}]
    /\ budget \in [{"user", "news", "settings"} -> Nat]

(* The idle timer's one entry follows the accounts and the settings,       *)
(* whoever changes them: there is one while auto-away is wanted and an     *)
(* account is online, it calls the slot that is wanted now, and it goes    *)
(* when the last account goes offline.  Only an entry for the sake of a    *)
(* gateway that was deleted with its account, still online, is left over   *)
(* until a status or a setting changes.                                    *)
IdleWatched ==
    /\ settings.useAutoAway /\ (\E a \in accounts : status[a] \in Connected) => receiver # NoReceiver
    /\ receiver # NoReceiver =>
           /\ settings.useAutoAway
           /\ \E a \in accounts \cup Transports : status[a] \in Connected
           /\ (receiver.memberActive = "askAndSetActive") = settings.askAvailable

(* An account that auto-away set away stays remembered until setActive()   *)
(* has gone through the list or the user set another status: also when it  *)
(* is offline meanwhile, when the user does not want to become available   *)
(* and auto-away begins again, and when the settings change.  No account   *)
(* is remembered that was deleted, setActive() would use it.               *)
Remembered ==
    /\ autoAwayAccounts \subseteq accounts
    /\ {a \in accounts : setBy[a] = "auto" /\ status[a] = "Away"} \subseteq autoAwayAccounts

(* Auto-away is on, the timer has seen the user at the last look, and the  *)
(* user need not be asked.                                                 *)
BackAgain == away /\ tick = "active" /\ receiver.memberActive = "setActive"

(* updateIdleTime() sees the user's return, however statuses, connections, *)
(* accounts and settings change during the absence and however late the    *)
(* slots are called, unless the entry was registered anew and the user has *)
(* not been idle for the whole timeout since.  setAutoAway() itself causes *)
(* that by changing a status: see GoesAvailable.                           *)
ReturnNoticed == BackAgain /\ ~renewed => "setActive" \in ToSet(posted)

(* kopetebehaviorsettings.kcfg of autoAwayGoAvailable: "Go available after *)
(* detecting an activity."                                                 *)
GoesAvailable == BackAgain /\ settings.goAvailable => "setActive" \in ToSet(posted)
=============================================================================
