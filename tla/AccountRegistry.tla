--------------------------- MODULE AccountRegistry ---------------------------
(***************************************************************************)
(* The life of accounts: Kopete::AccountManager's list and its removal     *)
(* queue, Kopete::Protocol waiting for its accounts before it is unloaded, *)
(* the account page of the settings, and the two kinds of account of the   *)
(* Jabber protocol: JabberAccount and the JabberTransport of a gateway,    *)
(* an account that its JabberAccount owns and deletes.                     *)
(*                                                                         *)
(* Objects delete each other through the event loop: `posted' is the queue *)
(* of calls and deletions (QTimer::singleShot(0), deleteLater()), which    *)
(* the user, the network and other timers may get ahead of.  What is in    *)
(* several handlers' hands is one record, `reg', and each method an        *)
(* operator from records to records.                                       *)
(*                                                                         *)
(* The contacts of a removed account are the contact list's business (see  *)
(* ContactList) and connecting is Account's: here an account is online or  *)
(* not.                                                                    *)
(***************************************************************************)
EXTENDS Naturals, FiniteSets, SequencesExt

CONSTANTS
    Jabbers,        \* JabberAccounts
    Transports,     \* JabberTransports
    ParentOf,       \* the JabberAccount of each transport
    Nobody,         \* no account
    MaxAsks,        \* bound on the accounts the user asks to remove
    MaxNews,        \* bound on what the network changes
    MaxStarts       \* bound on the times the program is started again

Accounts == Jabbers \cup Transports

ASSUME RegistryAssumption ==
    /\ Jabbers \cap Transports = {} /\ Nobody \notin Accounts /\ IsFiniteSet(Accounts)
    /\ ParentOf \in [Transports -> Jabbers]
    /\ {MaxAsks, MaxNews, MaxStarts} \subseteq Nat

VARIABLES
    phase,          \* "running", "quitting" after shutdown(), "ending" after
                    \* quitKopete(), or "down"
    reg,            \* the accounts and who waits for them
    config,         \* accounts with a group in the configuration file
    enabled,        \* the protocol's plugin is enabled in it
    asking,         \* the account the user is asked about, or Nobody
    crashed,        \* a deleted account was used
    wanted,         \* history: accounts whose removal was confirmed
    budget          \* what is left of the bounds

vars == <<phase, reg, config, enabled, asking, crashed, wanted, budget>>

Internal == [call |-> "removeAccountInternal", arg |-> Nobody]
Unload == [call |-> "deleteProtocol", arg |-> Nobody]
Deletion(a) == [call |-> "delete", arg |-> a]   \* of Nobody: void, see Destroy
Events == {Internal, Unload} \cup {Deletion(a) : a \in Accounts \cup {Nobody}}

RegistryType ==
    [accounts : SUBSET Accounts,        \* AccountManager::accounts(), all that exist
     online : SUBSET Accounts,          \* isConnected()
     toBeRemoved : Seq(Accounts),       \* accountsToBeRemoved
     watched : SUBSET Accounts,         \* isConnectedChanged() -> removeAccountConnectedChanged()
     tracked : SUBSET Accounts,         \* onlineStatusChanged() -> Protocol
     mourned : SUBSET Accounts,         \* destroyed() -> Protocol::slotAccountDestroyed()
     removing : SUBSET Jabbers,         \* JabberAccount::m_removing
     timer : SUBSET Jabbers,            \* the timer of 1111 ms behind it
     task : SUBSET Transports,          \* asked the gateway to forget the user
     status : [Transports -> {"Normal", "Removing", "AccountRemoved"}],
     posted : Seq(Events),
     hasty : BOOLEAN]                   \* history, see UsesLiveAccounts

NewRegistry(S) ==
    [accounts |-> S, online |-> {}, toBeRemoved |-> <<>>, watched |-> {},
     tracked |-> {}, mourned |-> {}, removing |-> {}, timer |-> {}, task |-> {},
     status |-> [t \in Transports |-> "Normal"], posted |-> <<>>, hasty |-> FALSE]

Children(r, j) == {t \in r.accounts \cap Transports : ParentOf[t] = j}

(* The accounts whose deletion deletes a. *)
Owners(a) == {a} \cup (IF a \in Transports THEN {ParentOf[a]} ELSE {})

(* The functions of the elements of s applied to r in turn. *)
Each(f, r, s) ==
    LET F[i \in 0..Len(s)] == IF i = 0 THEN r ELSE f[s[i]][F[i - 1]]
    IN  F[Len(s)]

(* b is going to be deleted; somebody has asked for its removal. *)
Doomed(r, b) == b \in ToSet(r.toBeRemoved) \/ Deletion(b) \in ToSet(r.posted)
BeingRemoved(r, b) == Doomed(r, b) \/ b \in r.watched \cup r.removing \cup r.task
-----------------------------------------------------------------------------
(* Definitions named Mutant... are the forms a slip in the code would give *)
(* the definition that follows; the specification never uses them.         *)

Post(r, call) == [r EXCEPT !.posted = Append(@, call)]

(* The call is not posted. *)
MutantQueue(r, a) == [r EXCEPT !.toBeRemoved = Append(@, a)]

(* An account joins the removal queue.  It does so in haste if it, or its  *)
(* owner, is already going to be deleted.                                  *)
Queue(r, a) ==
    [Post(r, Internal) EXCEPT
        !.toBeRemoved = Append(@, a),
        !.hasty = @ \/ \E b \in Owners(a) : Doomed(r, b)]

(* The manager's removeAccountConnectedChanged() hears of it first, then   *)
(* the protocol's slotAccountOnlineStatusChanged().                        *)
GoOffline(r, a) ==
    LET r1 == [r EXCEPT !.online = @ \ {a}, !.watched = @ \ {a}, !.tracked = @ \ {a}]
        r2 == IF a \in r.watched THEN Queue(r1, a) ELSE r1
    IN  IF a \in r.tracked
        THEN [Post(r2, Deletion(a)) EXCEPT !.mourned = @ \cup {a}] ELSE r2

(* disconnect(): a transport's does nothing. *)
Disconnect(r, a) == IF a \in Jabbers /\ a \in r.online THEN GoOffline(r, a) ELSE r

(* AccountManager::removeAccount() once the account agrees. *)
ManagerRemoves(r, a) ==
    IF a \notin r.online THEN Queue(r, a)
    ELSE Disconnect([r EXCEPT !.watched = @ \cup {a}], a)

(* JabberTransport::jabberAccountRemoved() *)
JabberAccountRemoved ==
    [t \in Transports |-> [r \in RegistryType |->
        ManagerRemoves([r EXCEPT !.status[t] = "AccountRemoved"], t)]]

(* JabberAccount::removeAccount() when nothing is left to ask: its         *)
(* transports are removed, then the account itself.                        *)
RemoveJabber(r, j) ==
    ManagerRemoves(Each(JabberAccountRemoved, r, SetToSeq(Children(r, j))), j)

(* Another account of the protocol is not looked for. *)
MutantSlotAccountDestroyed(r) == Post(r, Unload)

(* Protocol::slotAccountDestroyed(): readyForUnload(), on which the plugin *)
(* manager calls deleteLater().                                            *)
SlotAccountDestroyed(r) == IF r.accounts = {} THEN Post(r, Unload) ELSE r

(* ~Account() of a, and of the accounts S that it deletes before: they     *)
(* leave the list, their timers go and the deletions posted to them are    *)
(* void, and if somebody waits for destroyed() it hears of it.             *)
DestroyAll(r, a, S) ==
    LET r1 == [r EXCEPT !.accounts = @ \ S, !.online = @ \ S,
                        !.watched = @ \ S, !.tracked = @ \ S, !.mourned = @ \ S,
                        !.timer = @ \ S, !.task = @ \ S, !.removing = @ \ S,
                        !.posted = [i \in 1..Len(@) |-> IF \E b \in S : @[i] = Deletion(b)
                                                        THEN Deletion(Nobody) ELSE @[i]]]
    IN  IF a \in r.mourned THEN SlotAccountDestroyed(r1) ELSE r1

(* The transports are left behind. *)
MutantDestroy(r, a) == DestroyAll(r, a, {a})

(* ~JabberAccount() disconnects, which nobody waits for any more, and      *)
(* deletes the transports it still has; the protocol, which waits for      *)
(* every account if it waits for one, is ready at the last one only.       *)
Destroy(r, a) == DestroyAll(r, a, {a} \cup Children(r, a))

(* Offline accounts are not waited for. *)
MutantUnloadAccount ==
    [a \in Accounts |-> [r \in RegistryType |->
        IF a \in r.online THEN Disconnect([r EXCEPT !.tracked = @ \cup {a}], a)
        ELSE Post(r, Deletion(a))]]

(* Protocol::aboutToUnload() for one account. *)
UnloadAccount ==
    [a \in Accounts |-> [r \in RegistryType |->
        IF a \in r.online THEN Disconnect([r EXCEPT !.tracked = @ \cup {a}], a)
        ELSE [Post(r, Deletion(a)) EXCEPT !.mourned = @ \cup {a}]]]

(* Protocol::aboutToUnload(), the accounts in the order of their list. *)
AboutToUnload(r, order) ==
    IF order = <<>> THEN Post(r, Unload) ELSE Each(UnloadAccount, r, order)

Spend(what) == budget[what] > 0 /\ budget' = [budget EXCEPT ![what] = @ - 1]
-----------------------------------------------------------------------------
Init ==
    /\ phase = "running"
    /\ \E S \in SUBSET Transports : config = Jabbers \cup S
    /\ reg = NewRegistry(config)
    /\ enabled = TRUE
    /\ asking = Nobody /\ crashed = FALSE
    /\ wanted = {}
    /\ budget = [asks |-> MaxAsks, news |-> MaxNews, starts |-> MaxStarts]

(* KopeteAccountConfig::removeAccount(): a box asks the user, and for a    *)
(* JabberAccount a second one; the event loop runs meanwhile.  The         *)
(* question is hasty if a removal that may delete the account has begun.   *)
AskToRemove(a) ==
    /\ phase = "running" /\ ~crashed /\ asking = Nobody /\ a \in reg.accounts
    /\ Spend("asks")
    /\ asking' = a
    /\ reg' = [reg EXCEPT !.hasty = @ \/ \E b \in Owners(a) : BeingRemoved(reg, b)]
    /\ UNCHANGED <<phase, config, enabled, crashed, wanted>>

Answered == asking # Nobody /\ ~crashed /\ asking' = Nobody

Cancel ==
    /\ Answered
    /\ UNCHANGED <<phase, reg, config, enabled, crashed, wanted, budget>>

(* Any answer but Cancel calls a method of the account. *)
AnswerTooLate ==
    /\ Answered
    /\ asking \notin reg.accounts
    /\ crashed' = TRUE
    /\ UNCHANGED <<phase, reg, config, enabled, wanted, budget>>

(* "Remove only from Kopete", or the account is already being removed and  *)
(* there is no second box.                                                 *)
RemoveOnly ==
    /\ Answered
    /\ asking \in reg.accounts \cap Jabbers
    /\ reg' = RemoveJabber(reg, asking)
    /\ wanted' = wanted \cup {asking}
    /\ UNCHANGED <<phase, config, enabled, crashed, budget>>

(* "Remove and Unregister": only an account that is connected can, and it  *)
(* is removed when the timer expires (the signal of the task is not        *)
(* connected to anything).                                                 *)
RemoveAndUnregister ==
    /\ Answered
    /\ asking \in (reg.accounts \cap Jabbers) \ reg.removing
    /\ IF asking \in reg.online
       THEN /\ reg' = [reg EXCEPT !.removing = @ \cup {asking}, !.timer = @ \cup {asking}]
            /\ wanted' = wanted \cup {asking}
       ELSE UNCHANGED <<reg, wanted>>
    /\ UNCHANGED <<phase, config, enabled, crashed, budget>>

(* JabberAccount::slotUnregisterFinished(), called by the timer. *)
SlotUnregisterFinished(j) ==
    /\ j \in reg.timer /\ ~crashed
    /\ reg' = RemoveJabber([reg EXCEPT !.timer = @ \ {j}], j)
    /\ UNCHANGED <<phase, config, enabled, asking, crashed, wanted, budget>>

(* JabberTransport::removeAccount(): the gateway is asked first, which     *)
(* takes a connection.                                                     *)
RemoveTransport ==
    /\ Answered
    /\ asking \in reg.accounts \cap Transports
    /\ reg' = IF reg.status[asking] # "Normal" THEN ManagerRemoves(reg, asking)
              ELSE IF ParentOf[asking] \notin reg.online THEN reg
              ELSE [reg EXCEPT !.status[asking] = "Removing", !.task = @ \cup {asking}]
    /\ UNCHANGED <<phase, config, enabled, crashed, wanted, budget>>

(* JabberTransport::removeAllContacts(): the task is finished, or failed. *)
RemoveAllContacts(t) ==
    /\ t \in reg.task /\ ~crashed
    /\ reg' = ManagerRemoves([reg EXCEPT !.task = @ \ {t}, !.status[t] = "Removing"], t)
    /\ UNCHANGED <<phase, config, enabled, asking, crashed, wanted, budget>>
-----------------------------------------------------------------------------
(* The event loop. *)

Delivered == reg.posted # <<>> /\ ~crashed
Rest == [reg EXCEPT !.posted = Tail(@)]

(* The account stays in the queue. *)
MutantRemoveAccountInternal ==
    /\ Delivered /\ Head(reg.posted) = Internal
    /\ LET a == Head(Rest.toBeRemoved)
       IN  IF a \notin reg.accounts
           THEN reg' = Rest /\ crashed' = TRUE /\ UNCHANGED <<config, enabled, wanted>>
           ELSE IF a \in reg.online
           THEN reg' = Rest /\ wanted' = wanted \ {a} /\ UNCHANGED <<config, enabled, crashed>>
           ELSE /\ reg' = Destroy(Rest, a)
                /\ config' = config \ {a}
                /\ enabled' = (enabled /\ reg'.accounts # {})
                /\ UNCHANGED <<crashed, wanted>>
    /\ UNCHANGED <<phase, asking, budget>>

(* removeAccountInternal().  The protocol is disabled with its last        *)
(* account; unloadPlugin() does not find it, because the name it is given  *)
(* lacks the prefix that setPluginEnabled() adds.                          *)
RemoveAccountInternal ==
    /\ Delivered /\ Head(reg.posted) = Internal
    /\ LET a == Head(Rest.toBeRemoved)
           r == [Rest EXCEPT !.toBeRemoved = Tail(@)]
       IN  IF Rest.toBeRemoved = <<>>
           THEN reg' = Rest /\ UNCHANGED <<config, enabled, crashed, wanted>>
           ELSE IF a \notin reg.accounts
           THEN reg' = r /\ crashed' = TRUE /\ UNCHANGED <<config, enabled, wanted>>
           ELSE IF a \in reg.online
           THEN reg' = r /\ wanted' = wanted \ {a} /\ UNCHANGED <<config, enabled, crashed>>
           ELSE /\ reg' = Destroy(r, a)
                /\ config' = config \ {a}
                /\ enabled' = (enabled /\ reg'.accounts # {})
                /\ UNCHANGED <<crashed, wanted>>
    /\ UNCHANGED <<phase, asking, budget>>

DeferredDelete ==
    /\ Delivered /\ Head(reg.posted).call = "delete"
    /\ LET a == Head(reg.posted).arg
       IN  reg' = IF a = Nobody THEN Rest ELSE Destroy(Rest, a)
    /\ UNCHANGED <<phase, config, enabled, asking, crashed, wanted, budget>>

(* The deletion that readyForUnload() led to; with the last plugin gone    *)
(* the program ends.                                                       *)
DeleteProtocol ==
    /\ Delivered /\ Head(reg.posted) = Unload
    /\ phase' = "down"
    /\ reg' = NewRegistry({})
    /\ asking' = Nobody
    /\ UNCHANGED <<config, enabled, crashed, wanted, budget>>

(* AccountManager::save(), from the settings. *)
Save ==
    /\ phase = "running" /\ ~crashed
    /\ ~(reg.accounts \subseteq config)
    /\ config' = config \cup reg.accounts
    /\ UNCHANGED <<phase, reg, enabled, asking, crashed, wanted, budget>>

(* PluginManager::shutdown(): aboutToUnload(), then save(). *)
Shutdown(order) ==
    /\ phase = "running" /\ ~crashed
    /\ phase' = "quitting"
    /\ reg' = [AboutToUnload(reg, order) EXCEPT !.hasty = @ \/ asking # Nobody]
    /\ config' = config \cup reg.accounts
    /\ UNCHANGED <<enabled, asking, crashed, wanted, budget>>

(* KopeteApplication::quitKopete() and ~KopeteApplication() delete the     *)
(* protocol as it is, and ~Protocol() the accounts it finds: it goes       *)
(* through a copy of their list, in which a transport that comes after its *)
(* account is deleted already.  What was posted to the accounts and the    *)
(* protocol is void; the removal queue and the question stay.              *)
QuitKopete(order) ==
    LET dangling == \E i, k \in 1..Len(order) :
                        i < k /\ order[k] \in Transports /\ ParentOf[order[k]] = order[i]
    IN  /\ phase \in {"running", "quitting"} /\ ~crashed
        /\ phase' = "ending"
        /\ crashed' = dangling
        /\ reg' = [NewRegistry({}) EXCEPT
                      !.toBeRemoved = reg.toBeRemoved,
                      !.posted = [i \in 1..Len(reg.posted) |->
                                     IF reg.posted[i] = Internal THEN Internal ELSE Deletion(Nobody)],
                      !.hasty = reg.hasty \/ dangling \/ asking # Nobody \/ reg.toBeRemoved # <<>>]
        /\ UNCHANGED <<config, enabled, asking, wanted, budget>>

(* slotShutdownTimeout(), or slotShutdownDone() if shutdown() was called   *)
(* before the protocol was deleted.                                        *)
SlotShutdownDone ==
    /\ phase = "ending" /\ ~crashed
    /\ phase' = "down"
    /\ reg' = NewRegistry({})
    /\ asking' = Nobody
    /\ UNCHANGED <<config, enabled, crashed, wanted, budget>>

(* AccountManager::load() and slotPluginLoaded(): the accounts of the file *)
(* are created, and JabberProtocol::createNewAccount() creates the account *)
(* of a transport that has none.                                           *)
Start ==
    /\ phase = "down"
    /\ Spend("starts")
    /\ phase' = "running"
    /\ reg' = NewRegistry(IF enabled
                          THEN config \cup {ParentOf[t] : t \in config \cap Transports} ELSE {})
    /\ wanted' = {}
    /\ UNCHANGED <<config, enabled, asking, crashed>>
-----------------------------------------------------------------------------
(* The network. *)

LoggedIn(j) ==
    /\ j \in (reg.accounts \cap Jabbers) \ reg.online /\ ~crashed
    /\ Spend("news")
    /\ reg' = [reg EXCEPT !.online = @ \cup {j}]
    /\ UNCHANGED <<phase, config, enabled, asking, crashed, wanted>>

GoOfflineNext ==
    [a \in Accounts |-> [r \in RegistryType |-> IF a \in r.online THEN GoOffline(r, a) ELSE r]]

(* slotCSDisconnected(): the account, if it is still online, and what the  *)
(* resource pool knows of, its transports included, go offline.            *)
SlotCSDisconnected(j) ==
    LET S == Children(reg, j)
    IN  /\ j \in reg.accounts /\ (S \cup {j}) \cap reg.online # {} /\ ~crashed
        /\ reg' = Each(GoOfflineNext, GoOfflineNext[j][reg], SetToSeq(S))
        /\ UNCHANGED <<phase, config, enabled, asking, crashed, wanted, budget>>

(* The presence of a gateway. *)
GatewayAvailable(t) ==
    /\ t \in reg.accounts \ reg.online /\ ParentOf[t] \in reg.online /\ ~crashed
    /\ Spend("news")
    /\ reg' = [reg EXCEPT !.online = @ \cup {t}]
    /\ UNCHANGED <<phase, config, enabled, asking, crashed, wanted>>

GatewayUnavailable(t) ==
    /\ {t, ParentOf[t]} \subseteq reg.online /\ ~crashed
    /\ reg' = GoOffline(reg, t)
    /\ UNCHANGED <<phase, config, enabled, asking, crashed, wanted, budget>>

(* JabberContact::slotDiscoFinished(): what looked like a contact is a     *)
(* gateway.  A deleted transport's address is not reused while a pointer   *)
(* to it waits.                                                            *)
GatewayFound(t) ==
    /\ phase = "running" /\ t \notin reg.accounts /\ ParentOf[t] \in reg.online /\ ~crashed
    /\ t # asking /\ t \notin ToSet(reg.toBeRemoved)
    /\ Spend("news")
    /\ reg' = [reg EXCEPT !.accounts = @ \cup {t}, !.online = @ \cup {t}, !.status[t] = "Normal"]
    /\ UNCHANGED <<phase, config, enabled, asking, crashed, wanted>>
-----------------------------------------------------------------------------
User ==
    \/ \E a \in Accounts : AskToRemove(a)
    \/ Cancel \/ AnswerTooLate \/ RemoveOnly \/ RemoveAndUnregister \/ RemoveTransport
    \/ Save \/ Start
    \/ \E order \in SetToSeqs(reg.accounts) : Shutdown(order) \/ QuitKopete(order)

EventLoop == RemoveAccountInternal \/ DeferredDelete \/ DeleteProtocol \/ SlotShutdownDone

Network ==
    \/ \E j \in Jabbers : LoggedIn(j) \/ SlotCSDisconnected(j)
    \/ \E t \in Transports : GatewayAvailable(t) \/ GatewayUnavailable(t) \/ GatewayFound(t) \/ RemoveAllContacts(t)

Next == User \/ EventLoop \/ Network \/ \E j \in Jabbers : SlotUnregisterFinished(j)

Spec == Init /\ [][Next]_vars

(* The event loop goes on and timers expire; nothing is asked of the user  *)
(* and the network.                                                        *)
FairSpec == Spec /\ WF_vars(EventLoop) /\ \A j \in Jabbers : WF_vars(SlotUnregisterFinished(j))
-----------------------------------------------------------------------------
(* Every variable keeps its type; only accounts that exist are online or   *)
(* waited for, and a transport has its account.                            *)
TypeOK ==
    /\ phase \in {"running", "quitting", "ending", "down"}
    /\ reg \in RegistryType
    /\ reg.online \cup reg.watched \cup reg.tracked \cup reg.mourned \subseteq reg.accounts
    /\ \A t \in reg.accounts \cap Transports : ParentOf[t] \in reg.accounts
    /\ config \subseteq Accounts /\ enabled \in BOOLEAN
    /\ asking \in Accounts \cup {Nobody} /\ crashed \in BOOLEAN
    /\ wanted \subseteq Jabbers
    /\ budget \in [{"asks", "news", "starts"} -> Nat]

(* A protocol that is unloaded by aboutToUnload() is deleted after its     *)
(* accounts: in whatever order they go offline and are deleted, by the     *)
(* protocol, by the removal queue or by their owner, the deletion that     *)
(* readyForUnload() asks for finds none.  And after shutdown() it is ready *)
(* as soon as none is left: the last account is always one that it waits   *)
(* for.  (quitKopete() deletes the protocol without asking it, and then    *)
(* ~Protocol() does find accounts: "Did the account unloading go wrong?")  *)
ReadyMeansEmpty ==
    /\ Unload \in ToSet(reg.posted) => reg.accounts = {}
    /\ phase = "quitting" /\ reg.accounts = {} => Unload \in ToSet(reg.posted)

(* A deleted account is used in these ways only: it joined the removal     *)
(* queue when its deletion or its owner's was already certain; the user    *)
(* was asked about it while its removal or its owner's was going on; the   *)
(* program was ended while the user was being asked, or by quitKopete()    *)
(* while a removal was queued; ~Protocol() met a transport in its copy of  *)
(* the list after the account that owned it.                               *)
UsesLiveAccounts == crashed => reg.hasty

(* A removal the user confirmed is carried out, also where it waits for a  *)
(* timer and a disconnection: the account leaves the configuration, unless *)
(* it came online again before its turn (which ends the wish), the program *)
(* ends or the user interferes.                                            *)
RemovalCompletes ==
    \A j \in Jabbers :
        j \in wanted ~> (j \notin config \/ j \notin wanted \/ phase # "running" \/ crashed)

(* Quitting does not hang on an account: all are deleted and the protocol  *)
(* with them, although a transport ignores disconnect() and only goes with *)
(* its owner.                                                              *)
UnloadCompletes == phase \in {"quitting", "ending"} ~> (phase = "down" \/ crashed)
=============================================================================
