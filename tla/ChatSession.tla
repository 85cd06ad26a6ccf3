----------------------------- MODULE ChatSession -----------------------------
(***************************************************************************)
(* The path of a message from the protocol to the chat window:             *)
(* Kopete::ChatSession with its reference count and its deferred deletion, *)
(* the message handler chain, and KopeteViewManager with its queue of      *)
(* unread messages and its views.                                          *)
(*                                                                         *)
(* Everything runs in one thread.  `posted' is the event loop's queue: it  *)
(* holds what QTimer::singleShot(0) and deleteLater() postponed, and       *)
(* between any two of its events the network or the user may act.          *)
(*                                                                         *)
(* Sessions are one to one.  A message m has up to two MessageEvents: the  *)
(* one that travels down the chain (chain[m]) and the one the view manager *)
(* queues until the user reads it (queue[m]).                              *)
(*                                                                         *)
(* Definitions named Mutant... are the forms a slip in the code would give *)
(* the definition that follows; the specification never uses them.         *)
(***************************************************************************)
EXTENDS Naturals, Sequences, FiniteSets

CONSTANTS
    Contacts,      \* the contacts messages come from
    Myself,        \* the sender of outbound messages
    MaxSessions,   \* bound on the chat sessions ever created
    MaxMsgs,       \* bound on the messages
    MaxChanges     \* bound on the changes of preferences

ASSUME ChatAssumption ==
    /\ Contacts # {} /\ Myself \notin Contacts
    /\ MaxSessions \in Nat \ {0}
    /\ MaxMsgs \in Nat
    /\ MaxChanges \in Nat

VARIABLES
    status,     \* life of each session: "unused", "alive" or "deleted"
    partner,    \* the contact the session is with
    refs,       \* ChatSession d->refcount
    view,       \* d->view: "none", "hidden", "visible" or "closing"
    chain,      \* the chain's event: "none", "waiting", "held" or "gone"
    queue,      \* the queued event: "none", "pending", "applied" or "gone"
    hooked,     \* done() of the queued event reaches slotEventDeleted()
    arrival,    \* when the message was displayed, the order of eventList
    manager,    \* Message::manager()
    sender,     \* Message::from()
    eventList,  \* KopeteViewManager d->eventList, ordered by arrival
    posted,     \* the event loop's queue
    contacts,   \* the contacts not yet destroyed
    useQueue,   \* "use the message queue" rather than open messages at once
    otherDesktop, \* queue unread messages, but only those on another desktop
    dismissed,  \* the sessions in which the user closed a notification (history)
    unnoticed,  \* the sessions with a message that was queued nowhere (history)
    nSess, nMsgs, nAppended, nChanges,
    crashed     \* a deleted object was used

sessVars  == <<status, partner, refs, view, nSess>>
msgVars   == <<chain, manager, sender, nMsgs>>
queueVars == <<queue, hooked, arrival, eventList, nAppended, unnoticed>>
prefVars  == <<useQueue, otherDesktop, nChanges>>
vars == <<sessVars, msgVars, queueVars, prefVars, posted, contacts, dismissed,
          crashed>>

Sessions == 1..MaxSessions
Msgs     == 1..MaxMsgs

PostedType == [type : {"start", "deleteEvents", "deleteView", "deleteSession"},
               ids  : SUBSET (Sessions \cup Msgs)]

MutantPostStart(q, m) == q

(* QTimer::singleShot(0, task, SLOT(start())) *)
PostStart(q, m) == Append(q, [type |-> "start", ids |-> {m}])

(* deleteLater() on the objects in S of one kind; repeated requests are    *)
(* compressed.                                                             *)
Dying(q, kind) == UNION {q[i].ids : i \in {j \in 1..Len(q) : q[j].type = kind}}

DeleteLater(q, kind, S) ==
    IF S \subseteq Dying(q, kind) THEN q
    ELSE Append(q, [type |-> kind, ids |-> S \ Dying(q, kind)])

(* The head event, less the object x it was about. *)
Handled(q, x) ==
    IF Head(q).ids = {x} THEN Tail(q) ELSE [q EXCEPT ![1].ids = @ \ {x}]

IsHead(kind) == ~crashed /\ posted # <<>> /\ Head(posted).type = kind

(* The first of a list of events. *)
Oldest(S) == CHOOSE m \in S : \A n \in S : arrival[m] <= arrival[n]

InChain(m) == chain[m] \in {"waiting", "held"}
Queued(m)  == queue[m] \in {"pending", "applied"}
-----------------------------------------------------------------------------
Init ==
    /\ status = [s \in Sessions |-> "unused"]
    /\ partner \in [Sessions -> {CHOOSE c \in Contacts : TRUE}]
    /\ refs = [s \in Sessions |-> 0]
    /\ view = [s \in Sessions |-> "none"]
    /\ chain = [m \in Msgs |-> "none"]
    /\ queue = [m \in Msgs |-> "none"]
    /\ hooked = [m \in Msgs |-> FALSE]
    /\ arrival = [m \in Msgs |-> 0]
    /\ manager = [m \in Msgs |-> 1]
    /\ sender = [m \in Msgs |-> Myself]
    /\ eventList = {}
    /\ posted = <<>>
    /\ contacts = Contacts
    /\ dismissed = {} /\ unnoticed = {}
    /\ useQueue \in BOOLEAN /\ otherDesktop \in BOOLEAN
    /\ nSess = 0 /\ nMsgs = 0 /\ nAppended = 0 /\ nChanges = 0
    /\ crashed = FALSE

(* ChatSessionManager::create(): the registered session with c, or a new   *)
(* one.  A session is registered until its destructor runs.                *)
Registered(c) == {s \in Sessions : status[s] = "alive" /\ partner[s] = c}

FindOrCreate(c, s) ==
    \/ /\ s \in Registered(c)
       /\ UNCHANGED <<status, partner, nSess>>
    \/ /\ Registered(c) = {}
       /\ nSess < MaxSessions
       /\ s = nSess + 1
       /\ nSess' = s
       /\ status' = [status EXCEPT ![s] = "alive"]
       /\ partner' = [partner EXCEPT ![s] = c]
-----------------------------------------------------------------------------
(* Messages coming from the protocol. *)

(***************************************************************************)
(* appendMessage() of a new message m in session s: processMessage() makes *)
(* its MessageEvent and a ProcessMessageTask, which takes a reference on   *)
(* the session and schedules start().                                      *)
(***************************************************************************)
AppendMessage(m, s, from) ==
    /\ nMsgs < MaxMsgs
    /\ m = nMsgs + 1
    /\ nMsgs' = m
    /\ manager' = [manager EXCEPT ![m] = s]
    /\ sender' = [sender EXCEPT ![m] = from]
    /\ chain' = [chain EXCEPT ![m] = "waiting"]
    /\ refs' = [refs EXCEPT ![s] = @ + 1]
    /\ posted' = PostStart(posted, m)

(* A contact's message arrives. *)
Receive(m, c, s) ==
    /\ ~crashed /\ c \in contacts
    /\ FindOrCreate(c, s)
    /\ AppendMessage(m, s, c)
    /\ UNCHANGED <<view, queueVars, prefVars, contacts, dismissed, crashed>>

(* A message the user has sent is reflected back to the chat window. *)
Reflect(m, s) ==
    /\ ~crashed /\ status[s] = "alive"
    /\ AppendMessage(m, s, Myself)
    /\ UNCHANGED <<status, partner, view, nSess, queueVars, prefVars, contacts,
                   dismissed, crashed>>
-----------------------------------------------------------------------------
(* What the view manager does with the queued events of a session. *)

ListOf(L, s) == {m \in L : manager[m] = s}

(* makeVisible() on the session's view, created if there is none.  A view  *)
(* that was closed stays scheduled for deletion.                           *)
Shown(v) == IF v = "closing" THEN v ELSE "visible"

(* readMessages(): show the view and apply() every queued event of s; q is *)
(* the event loop's queue, L the event list and Q the events' states.      *)
ReadMessages(s, q, L, Q) ==
    /\ view' = [view EXCEPT ![s] = Shown(@)]
    /\ queue' = [m \in Msgs |-> IF m \in ListOf(L, s) THEN "applied" ELSE Q[m]]
    /\ eventList' = L \ ListOf(L, s)
    /\ posted' = DeleteLater(q, "deleteEvents", ListOf(L, s))

MutantEventDeleted(m, q) ==
    /\ queue' = [queue EXCEPT ![m] = "gone"]
    /\ eventList' = eventList \ {m}
    /\ posted' = q
    /\ UNCHANGED view

(* ~MessageEvent() of the queued event m emits done(): slotEventDeleted(). *)
EventDeleted(m, q) ==
    LET s == manager[m]
        L == eventList \ {m}
        Q == [queue EXCEPT ![m] = "gone"]
    IN  IF hooked[m] /\ queue[m] = "applied" /\ status[s] = "alive"
        THEN ReadMessages(s, q, L, Q)
        ELSE /\ queue' = Q
             /\ eventList' = IF hooked[m] THEN L ELSE eventList
             /\ posted' = q
             /\ UNCHANGED view
-----------------------------------------------------------------------------
(* The message handler chain. *)

MutantDeref(s, q) == q

(* slotDone() of the task of m: the session, if it still exists, loses a   *)
(* reference, and is scheduled for deletion with the last one when it has  *)
(* no view.                                                                *)
Deref(s, q) ==
    IF refs[s] = 1 /\ view'[s] = "none"
    THEN DeleteLater(q, "deleteSession", {s}) ELSE q

MutantChainDoneTwice(m) ==
    /\ chain' = [chain EXCEPT ![m] = "gone"]
    /\ refs' = [refs EXCEPT ![manager[m]] = @ - 2]

MutantChainDoneKeep(m) ==
    /\ chain' = [chain EXCEPT ![m] = "gone"]
    /\ UNCHANGED refs

ChainDone(m) ==
    /\ chain' = [chain EXCEPT ![m] = "gone"]
    /\ refs' = IF status[manager[m]] = "alive"
               THEN [refs EXCEPT ![manager[m]] = @ - 1] ELSE refs

MutantMakesEvent(m, notify) == sender[m] # Myself /\ notify

(* An inbound message makes an event when nothing shows its chat in queue  *)
(* mode, and in any case when the user is to be notified of it (not while  *)
(* the account is away with events switched off, nor of an internal        *)
(* message).  "Only messages on another desktop" keeps every view out of   *)
(* the queue, the hidden ones too: without Q_WS_X11 each counts as on the  *)
(* current desktop.                                                        *)
MakesEvent(m, notify) ==
    /\ sender[m] # Myself
    /\ \/ useQueue /\ ~otherDesktop /\ view[manager[m]] \in {"none", "hidden"}
       \/ notify

(* The message goes to a view nobody sees and that preference is the only  *)
(* reason why no event tells of it.                                        *)
GoesUnnoticed(m, notify) ==
    /\ sender[m] # Myself /\ ~notify
    /\ useQueue /\ otherDesktop /\ view[manager[m]] \in {"none", "hidden"}

(* The last handler: messageAppended() of the session, which the view      *)
(* manager handles; then the event is deleted.                             *)
Deliver(m, q, notify) ==
    LET s == manager[m]
        L == IF MakesEvent(m, notify) THEN eventList \cup {m} ELSE eventList
        Q == IF MakesEvent(m, notify) THEN [queue EXCEPT ![m] = "pending"] ELSE queue
    IN  /\ ChainDone(m)
        /\ \/ /\ status[s] = "deleted"
              /\ posted' = q
              /\ UNCHANGED <<view, queueVars>>
           \/ /\ status[s] = "alive" /\ sender[m] = Myself /\ view[s] = "none"
              /\ UNCHANGED <<view, queueVars>>
              /\ posted' = Deref(s, q)
           \/ /\ status[s] = "alive" /\ (sender[m] = Myself => view[s] # "none")
              /\ hooked' = [hooked EXCEPT ![m] = MakesEvent(m, notify) /\ useQueue]
              /\ arrival' = [arrival EXCEPT ![m] = nAppended + 1]
              /\ nAppended' = nAppended + 1
              /\ unnoticed' = IF GoesUnnoticed(m, notify)
                              THEN unnoticed \cup {s} ELSE unnoticed
              /\ IF useQueue
                 THEN /\ view' = [view EXCEPT ![s] = IF @ = "none" THEN "hidden" ELSE @]
                      /\ queue' = Q
                      /\ eventList' = L
                      /\ posted' = q
                 ELSE ReadMessages(s, q, L, Q)

(* A handler discards the message. *)
Drop(m, q) ==
    /\ ChainDone(m)
    /\ UNCHANGED <<view, queueVars>>
    /\ posted' = IF status[manager[m]] = "alive" THEN Deref(manager[m], q) ELSE q

(* start() of the task whose event was deleted meanwhile: the task's plain *)
(* pointer dangles.                                                        *)
StartDangling(m) ==
    /\ IsHead("start") /\ Head(posted).ids = {m} /\ chain[m] = "gone"
    /\ crashed' = TRUE
    /\ UNCHANGED <<sessVars, msgVars, queueVars, prefVars, posted, contacts, dismissed>>

(* start(): the handlers pass the message on, drop it, or keep it to       *)
(* answer later.                                                           *)
Start(m, notify) ==
    /\ IsHead("start") /\ Head(posted).ids = {m} /\ chain[m] = "waiting"
    /\ \/ Deliver(m, Tail(posted), notify)
       \/ Drop(m, Tail(posted))
       \/ /\ chain' = [chain EXCEPT ![m] = "held"]
          /\ posted' = Tail(posted)
          /\ UNCHANGED <<refs, view, queueVars>>
    /\ UNCHANGED <<status, partner, nSess, manager, sender, nMsgs, prefVars,
                   contacts, dismissed, crashed>>

(* The handler that kept the event calls accept() or discard(). *)
Answer(m, notify) ==
    /\ ~crashed /\ chain[m] = "held"
    /\ Deliver(m, posted, notify) \/ Drop(m, posted)
    /\ UNCHANGED <<status, partner, nSess, manager, sender, nMsgs, prefVars,
                   contacts, dismissed, crashed>>
-----------------------------------------------------------------------------
(* The user. *)

(* A click on the system tray: apply() the oldest queued event. *)
NextEvent ==
    /\ ~crashed /\ eventList # {}
    /\ queue' = [queue EXCEPT ![Oldest(eventList)] = "applied"]
    /\ posted' = DeleteLater(posted, "deleteEvents", {Oldest(eventList)})
    /\ UNCHANGED <<sessVars, msgVars, hooked, arrival, eventList, nAppended,
                   unnoticed, prefVars, contacts, dismissed, crashed>>

(* "Close" in a notification: discard() of its event. *)
CloseNotification(m) ==
    /\ ~crashed /\ Queued(m)
    /\ EventDeleted(m, posted)
    /\ dismissed' = dismissed \cup {manager[m]}
    /\ UNCHANGED <<status, partner, refs, nSess, msgVars, hooked, arrival, nAppended,
                   unnoticed, prefVars, contacts, crashed>>

(* slotViewActivated(): the view became the active one of its window. *)
Activated(s) == DeleteLater(posted, "deleteEvents", ListOf(eventList, s))

(* raise(true) on the view, created if there is none. *)
Raise(s) ==
    /\ view' = [view EXCEPT ![s] = Shown(@)]
    /\ posted' = IF view[s] = "visible" THEN posted ELSE Activated(s)
    /\ UNCHANGED <<refs, msgVars, queueVars, prefVars, contacts, dismissed, crashed>>

(* The user opens a chat with c (startChat()), or chooses "View" in a      *)
(* notification (raiseView()).                                             *)
OpenChat(c, s) ==
    /\ ~crashed /\ c \in contacts
    /\ FindOrCreate(c, s)
    /\ Raise(s)

RaiseView(s) ==
    /\ ~crashed /\ status[s] = "alive"
    /\ Raise(s)
    /\ UNCHANGED <<status, partner, nSess>>

(* The user switches to a chat in its window. *)
ActivateView(s) ==
    /\ ~crashed /\ status[s] = "alive" /\ view[s] = "visible"
    /\ posted' = Activated(s)
    /\ UNCHANGED <<sessVars, msgVars, queueVars, prefVars, contacts, dismissed, crashed>>

(* closeView(): the view leaves its window and is deleted later. *)
CloseView(s) ==
    /\ ~crashed /\ status[s] = "alive" /\ view[s] = "visible"
    /\ view' = [view EXCEPT ![s] = "closing"]
    /\ posted' = DeleteLater(posted, "deleteView", {s})
    /\ UNCHANGED <<status, partner, refs, nSess, msgVars, queueVars, prefVars,
                   contacts, dismissed, crashed>>

(* slotPrefsChanged() *)
PrefsChanged ==
    /\ ~crashed /\ nChanges < MaxChanges
    /\ useQueue' \in BOOLEAN /\ otherDesktop' \in BOOLEAN
    /\ nChanges' = nChanges + 1
    /\ UNCHANGED <<sessVars, msgVars, queueVars, posted, contacts, dismissed, crashed>>
-----------------------------------------------------------------------------
(* Deferred deletions.  Qt drops what is posted to an object with the      *)
(* object; here such an event is skipped when its turn comes.              *)

DeleteEvents ==
    /\ IsHead("deleteEvents")
    /\ LET m == Oldest(Head(posted).ids)
       IN  IF Queued(m) THEN EventDeleted(m, Handled(posted, m))
           ELSE /\ posted' = Handled(posted, m)
                /\ UNCHANGED <<view, queue, eventList>>
    /\ UNCHANGED <<status, partner, refs, nSess, msgVars, hooked, arrival, nAppended,
                   unnoticed, prefVars, contacts, dismissed, crashed>>

(* ~ChatView() emits closing(): slotViewDestroyed(). *)
ViewDestroyed(s) ==
    /\ view' = [view EXCEPT ![s] = "none"]
    /\ posted' = IF refs[s] = 0
                 THEN DeleteLater(Tail(posted), "deleteSession", {s}) ELSE Tail(posted)

DeleteView(s) ==
    /\ IsHead("deleteView") /\ Head(posted).ids = {s}
    /\ IF status[s] = "alive" THEN ViewDestroyed(s)
       ELSE posted' = Tail(posted) /\ UNCHANGED view
    /\ UNCHANGED <<status, partner, refs, nSess, msgVars, queueVars, prefVars,
                   contacts, dismissed, crashed>>

MutantDeleteSession(s) ==
    /\ IsHead("deleteSession") /\ s \in Head(posted).ids
    /\ posted' = Handled(posted, s)
    /\ status' = [status EXCEPT ![s] = "deleted"]
    /\ view' = [view EXCEPT ![s] = "none"]
    /\ queue' = [m \in Msgs |-> IF Queued(m) /\ manager[m] = s THEN "gone" ELSE queue[m]]
    /\ UNCHANGED <<partner, refs, nSess, msgVars, hooked, arrival, nAppended,
                   unnoticed, eventList, prefVars, contacts, dismissed, crashed>>

(* ~ChatSession(): the session leaves the manager's list, its view is      *)
(* closed and deleted on the spot, and its queued events, its children, go *)
(* with it.                                                                *)
DeleteSession(s) ==
    /\ IsHead("deleteSession") /\ s \in Head(posted).ids
    /\ posted' = Handled(posted, s)
    /\ status' = [status EXCEPT ![s] = "deleted"]
    /\ view' = [view EXCEPT ![s] = "none"]
    /\ queue' = [m \in Msgs |-> IF Queued(m) /\ manager[m] = s THEN "gone" ELSE queue[m]]
    /\ eventList' = eventList \ ListOf(eventList, s)
    /\ UNCHANGED <<partner, refs, nSess, msgVars, hooked, arrival, nAppended,
                   unnoticed, prefVars, contacts, dismissed, crashed>>

(* ~Contact(): its sessions have no member left and delete themselves, and *)
(* every event with a message from it discards itself.                     *)
DestroyContact(c) ==
    LET own    == {m \in Msgs : sender[m] = c}
        reads  == {manager[m] : m \in {n \in own : hooked[n] /\ queue[n] = "applied"}}
        tasks(s) == {m \in own : InChain(m) /\ manager[m] = s}
    IN  /\ ~crashed /\ c \in contacts
        /\ contacts' = contacts \ {c}
        /\ chain' = [m \in Msgs |-> IF m \in own /\ InChain(m) THEN "gone" ELSE chain[m]]
        /\ refs' = [s \in Sessions |-> IF status[s] = "alive"
                                       THEN refs[s] - Cardinality(tasks(s)) ELSE refs[s]]
        /\ queue' = [m \in Msgs |-> IF m \in own /\ Queued(m) THEN "gone" ELSE queue[m]]
        /\ eventList' = eventList \ own
        /\ view' = [s \in Sessions |-> IF s \in reads /\ status[s] = "alive"
                                       THEN Shown(view[s]) ELSE view[s]]
        /\ posted' = DeleteLater(posted, "deleteSession", Registered(c))
        /\ UNCHANGED <<status, partner, nSess, manager, sender, nMsgs, hooked, arrival,
                       nAppended, unnoticed, prefVars, dismissed, crashed>>
-----------------------------------------------------------------------------
EventLoop ==
    \/ \E m \in Msgs : StartDangling(m) \/ \E notify \in BOOLEAN : Start(m, notify)
    \/ DeleteEvents
    \/ \E s \in Sessions : DeleteView(s) \/ DeleteSession(s)

Handlers == \E m \in Msgs, notify \in BOOLEAN : Answer(m, notify)

Network ==
    \/ \E m \in Msgs, s \in Sessions : \/ \E c \in Contacts : Receive(m, c, s)
                                      \/ Reflect(m, s)
    \/ \E c \in Contacts : DestroyContact(c)

User ==
    \/ NextEvent
    \/ PrefsChanged
    \/ \E m \in Msgs : CloseNotification(m)
    \/ \E s \in Sessions : \/ \E c \in Contacts : OpenChat(c, s)
                           \/ RaiseView(s)
                           \/ ActivateView(s)
                           \/ CloseView(s)

Next == EventLoop \/ Handlers \/ Network \/ User

(* The event loop keeps running, and a handler that keeps an event answers *)
(* it: MessageHandler asks it to call accept() or discard() on the event.  *)
Fairness ==
    /\ WF_vars(EventLoop)
    /\ \A m \in Msgs : WF_vars(\E notify \in BOOLEAN : Answer(m, notify))

Spec == Init /\ [][Next]_vars /\ Fairness
-----------------------------------------------------------------------------
(* The state is well formed, in particular posted events. *)
TypeOK ==
    /\ status \in [Sessions -> {"unused", "alive", "deleted"}]
    /\ partner \in [Sessions -> Contacts]
    /\ refs \in [Sessions -> Nat]
    /\ view \in [Sessions -> {"none", "hidden", "visible", "closing"}]
    /\ chain \in [Msgs -> {"none", "waiting", "held", "gone"}]
    /\ queue \in [Msgs -> {"none", "pending", "applied", "gone"}]
    /\ hooked \in [Msgs -> BOOLEAN]
    /\ arrival \in [Msgs -> Nat]
    /\ manager \in [Msgs -> Sessions]
    /\ sender \in [Msgs -> Contacts \cup {Myself}]
    /\ eventList \subseteq Msgs
    /\ posted \in Seq(PostedType)
    /\ contacts \subseteq Contacts
    /\ dismissed \subseteq Sessions /\ unnoticed \subseteq Sessions
    /\ useQueue \in BOOLEAN /\ otherDesktop \in BOOLEAN
    /\ nSess \in 0..MaxSessions /\ nMsgs \in 0..MaxMsgs
    /\ nAppended \in Nat /\ nChanges \in 0..MaxChanges
    /\ crashed \in BOOLEAN

(* A session's reference count is the number of its messages that are      *)
(* still in the handler chain: no path through ref() and deref(), with     *)
(* handlers that answer late and contacts destroyed meanwhile, loses or    *)
(* repeats a reference.                                                    *)
RefsCountTasks ==
    \A s \in Sessions : status[s] = "alive" =>
        refs[s] = Cardinality({m \in Msgs : InChain(m) /\ manager[m] = s})

(* The unread list never holds a deleted event, or an event of a deleted   *)
(* session: nextEvent(), pendingMessages() and readMessages() dereference  *)
(* what they find in it.                                                   *)
EventListSound ==
    \A m \in eventList :
        Queued(m) /\ hooked[m] /\ status[manager[m]] = "alive"

(* In a chat that received messages the user cannot see, an event is still *)
(* in the unread list (or about to be deleted and so to show the chat),    *)
(* unless the user dismissed its notification, the session is going away,  *)
(* or messageAppended() itself made no event: with the preference "only    *)
(* messages on another desktop" it queues nothing although the view is     *)
(* hidden, and while the account is away with events switched off nothing  *)
(* else tells of the message.  In every other case no message is left      *)
(* unseen behind the user's back.                                          *)
HiddenHasUnread ==
    \A s \in Sessions :
        status[s] = "alive" /\ view[s] = "hidden" =>
            \/ \E m \in Msgs : Queued(m) /\ manager[m] = s
            \/ s \in dismissed
            \/ s \in unnoticed
            \/ s \in Dying(posted, "deleteSession")

(* A task leaves the chain: every message is handled.                      *)
MessagesHandled ==
    \A m \in Msgs : InChain(m) ~> (chain[m] = "gone" \/ crashed)

(* A closed chat window goes away with its session, unless something       *)
(* opened the chat again.                                                  *)
ClosedGoesAway ==
    \A s \in Sessions :
        view[s] = "closing" ~> (status[s] = "deleted" \/ view[s] \in {"hidden", "visible"}
                                  \/ crashed)

(* An event the user asked to see brings up its chat, although only the    *)
(* deferred deletion of the event does so.                                 *)
AppliedIsShown ==
    \A m \in Msgs :
        queue[m] = "applied" /\ hooked[m]
            ~> \/ view[manager[m]] \in {"visible", "closing"}
               \/ status[manager[m]] = "deleted"
               \/ crashed

(* kopetechatsession.h of ref(): "the chat session may be deleted only if  *)
(* the count reach 0" (of a session whose contact still exists).           *)
DeletedOnlyUnreferenced ==
    [][\A s \in Sessions :
          status[s] = "alive" /\ status'[s] = "deleted" /\ partner[s] \in contacts
              => refs[s] = 0]_vars
=============================================================================
