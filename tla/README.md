# A verification project for Kopete's core

Kopete is KDE's instant messenger. Its core, `src/libkopete`, keeps accounts,
contacts and chats for every protocol; the protocols and plugins under
`src/protocols` and `src/plugins` are loaded into it at run time. The core is
single threaded and driven by Qt's event loop. What makes it hard is not threads
but *deferred* work: `deleteLater()`, single-shot timers, message boxes that run
a nested event loop, and answers of a server or a wallet that arrive after the
object they were meant for has changed or gone.

The project models the parts of the core where this matters, checks the models
with TLC on small instances, and proves the safety of all of them with TLAPS
for every value of their constants. `PROJECT.json` maps each definition to the lines
it models and lists runs, mutants, hazards, findings and theorems.

## Inventory

### Parts that are modelled

| Part | State it keeps | Operations | Hard behaviour | What makes it correct |
|---|---|---|---|---|
| Plugin manager (`kopetepluginmanager.cpp`), application start and quit | shutdown mode, loaded plugins, stack of plugins to load, reference on the event loop | load all, load, unload, set enabled, quit, shutdown, and the slots for a plugin's readiness and destruction | loading by chained single shots, deferred deletion, a timer of 3 s against plugins that never finish | nothing deleted is unloaded again, the shutdown saves, then releases the event loop, and always ends |
| Chat session, handler chain, view manager (`kopetechatsession.cpp`, `kopetemessagehandlerchain.cpp`, `private/kopeteviewmanager.cpp`) | sessions with reference counts and views, events in the chain, unread events | create, append a message, each handler's answer, open, raise, read, discard and close a chat, the destruction of contacts | sessions and events die in the event loop while messages arrive | references balance, no dangling entry in the unread list, no message left unseen, every message is handled and shown, closed chats go away |
| Password and wallet manager (`kopetepassword.cpp`, `kopetewalletmanager.cpp`) | remembered password, configuration entry, wallet, waiting requests | request, set, clear, and the wallet's answers | requests made inside the emission they wait for, nested event loops, a wallet that is lost and reopened | no request is stranded, the password set last is in effect |
| Account, account manager, Jabber account (`kopeteaccount.cpp`, `kopetepasswordedaccount.cpp`, `kopeteaccountmanager.cpp`, `jabberaccount.cpp`) | status, stream, reconnect and suppression timers, suspension, password requests | going online and offline, reconnecting, suspending and resuming, all signals of the stream and the network | timers race the user; the end of an old stream is signalled while the next is in use; two subscribers react to one outage | status and stream agree, a wish to be online is not lost, offline is final, retries end |
| Contact list, metacontacts, groups, storage (`kopetecontactlist.cpp`, `kopetemetacontact.cpp`, `kopetecontact.cpp`, `contactlist/xmlcontactstorage.cpp`, `kopeteprotocol.cpp`) | who is in which metacontact and group, data waiting for a protocol, the save timer, the file | add, move, merge, remove; group changes; load, save, shut down; protocols come and go | the list is loaded before the protocols; saves are delayed and may fail; crashes | membership is consistent, every change reaches the file, no contact is forgotten |
| Life of accounts: account manager, protocol, Jabber account and transport, settings page (`kopeteaccountmanager.cpp`, `kopeteprotocol.cpp`, `jabberaccount.cpp`, `jabbertransport.cpp`, `kopeteaccountconfig.cpp`) | the accounts, the removal queue, who waits for whose disconnection or destruction, the configuration groups | remove from the settings, unregister, discover a gateway, save, load, unload the protocol | accounts are deleted by the queue, by the protocol and by the account that owns them; boxes and timers between the wish and the deed | no deleted account is used, a protocol asked to unload outlives its accounts, removals and unloading complete |
| Status manager and idle timer (`kopetestatusmanager.cpp`, `kopeteidletimer.cpp`) | whether auto-away is on, the accounts it set, the idle timer's receiver | look at the idle time, set away, set active, ask, load settings | the receiver is registered anew by the changes its own slots make; accounts go and come meanwhile | the timer is watched when it should be, no account is forgotten, the user's return is seen |
| Transfer manager, Jabber file transfer (`kopetetransfermanager.cpp`, `jabberfiletransfer.cpp`, iris' `filetransfer.cpp`) | requests and jobs; ranges and bytes left at both ends; the file | offer, ask, accept, resume, overwrite, refuse, cancel, send and receive bytes | dialogs with nested event loops, plain pointers to jobs that delete themselves, timeouts, lost stanzas, broken streams | no deleted job is used, a file reported complete is whole, transfers end |

How they interact: the application loads the contact list, then asks the plugin
manager to load plugins. A protocol that is loaded makes the account manager create
its accounts (`AccountManager::slotPluginLoaded`) and the metacontacts create their
contacts (`MetaContact::slotProtocolLoaded`). An account connects through its
`Password`; a contact that receives a message gets a chat session. `PluginManager::shutdown()`
saves contact list and accounts, asks each plugin to unload, and a
protocol is ready when its accounts are gone, with their contacts. But File/Quit
(`KopeteApplication::quitKopete()`) first deletes every plugin as it is: `~Protocol()` deletes the accounts it
finds, these their contacts, and only then does `shutdown()` save. Removing an
account takes its transports, its contacts and its configuration with it. An offered
file becomes a message of a chat session; its answer makes a job.

### Not modelled

Identities repeat the account manager's loops. Messages, properties, online
statuses, avatars, pictures, the blacklist and information events are value types
and registries without interleavings. The command handler is text processing; the
socket timeout watcher, audio and video, address book and MIME handlers are I/O;
dialogs, windows and views are user interface, and what they may ask of the core
appears as inputs of the models. The wire protocols and the bundled libraries (iris,
jdns, RTF and codec code: most of the repository's lines) are external: their streams
appear in `Account` and `FileTransfer` by what the core sees of them. `PROJECT.json`
lists all of them with reasons, and for each part that is modelled what is left out of it.

## Modules

Each component module has its variables, `Init`, one action per handler, `Next`,
`Spec` and its properties; the `MC…` module and `.cfg` of the same name instantiate
it. Operators named `Mutant…` are slips that a plausible change of the code would
introduce; the specifications do not use them, and each property is violated when
its mutant takes the place of the original.

**PluginManager.** `posted` is the event loop's queue: `QTimer::singleShot(0)` and
`deleteLater()` append to it. The deletions one handler asks for form one event.
`pluginsToLoad` is the stack, `unloading` the protocols that wait for their
accounts, `refReleases` counts `KGlobal::deref()`. The 3 s timer may fire at any time.

**ChatSession.** One-to-one sessions. A message has up to two `MessageEvent`s: the one in
the chain (`chain`) and the one the view manager keeps until it is read (`queue`).
A handler may answer at once or later, pass a message on or discard it. `otherDesktop` is
the preference to queue only messages on another desktop, which keeps hidden views out of the
queue too; `notify` is the choice whether the account's status lets the message notify the user.
`unnoticed` is history: the sessions whose message got no event for that preference alone.
`crashed` records the use of a deleted object.

**Password.** `stack` is the call stack of the only thread: each frame is one
emission of `walletOpened()` with the requests it still has to serve. A message box
lets anything happen on top of its frame; any other frame runs to its end first. A request
that dies with its account keeps its place and is passed over (`gone`), as Qt passes over a
connection whose receiver was deleted.

**Account.** The state of an account is a record and every method an operator from
records to records, so that a handler that calls several methods is their
composition, in the code's order. The XMPP stream is external: it opens or fails in
its own time, and the end of a closed stream comes late (`closing`). `noTLS` is an
installation without the TLS library that the account requires: `connect()` then returns before
there is a stream, and the account is `Stuck` connecting. `resume()` is as the code
compares it: an account suspended offline is set offline once more, which ends the wish for
it (`WishAfterResume`).
`ManagerFirst` says which of the two subscribers of Solid's notifier is called
first. The manager listens to `shouldConnect()` and `shouldDisconnect()`, the accounts to
`statusChanged()`, so the order is that in which the notifier emits them, which is outside
this repository; kdelibs' notifier emits `statusChanged()` last, hence `TRUE` in the runs.

**ContactList.** `meta` maps the listed metacontacts to their contacts, their
groups (a sequence, as in the code), the temporary flag and `pluginContactData`, the
data that wait for a protocol. Only metacontacts read from the file listen to
protocols (`listens`), as in `parseMetaContact()`. `file` is `contactlist.xml`. An
action is a handler together with the deferred deletions it asks for. A protocol that is
loaded makes those of the waiting contacts that it can: an account may be missing and
`deserializeContact()` may give none. `Shutdown` saves what is there; `QuitKopete` deletes the
protocols first and saves what that leaves (`Cleared`). `kept` is
history: the contacts that nothing known should have taken away.

**AccountRegistry.** An account is online or not; how it gets there is `Account`'s
business. `reg` holds the accounts and every list or connection in which one is named:
the removal queue, the signals the manager and the protocol listen to, the timer of
"Remove and Unregister", the events posted. `asking` is the pointer the settings page keeps
while its box is open. A transport is an account that its JabberAccount owns and deletes
and whose `disconnect()` is empty. `DeleteProtocol` is where `PluginManager`'s
`PluginReady` ends: the two modules meet at `readyForUnload()`. `QuitKopete` deletes the
protocol without asking it, with the accounts it finds; what is posted and queued then still runs (`phase`
is "ending") until `SlotShutdownDone`. A handler that calls another
for each account of a list is `Each` over that list; the deletions posted to an account
that is destroyed before them become void, as Qt's do, and keep their place. The histories `hasty`
and `wanted` only say which cases the properties are about.

**AutoAway.** Of the time only three cases are told apart at each look of the idle timer:
active within the last second, idle for longer than the timeout, neither.
`receiver` is the status manager's entry in the timer's list. Accounts apply a status at once, as
a connected JabberAccount does, or ignore it, as a transport does. A transport has an `Owner` and is
deleted with it, also while online, which nobody tells the idle timer. `renewed` is history: the entry was registered
anew and the user has not been idle for the whole timeout since. The slots are posted; `MaxPosted = 2`
lets the timer look again before they have run.

**FileTransfer.** Both ends of one transfer after another. `jft`, `ft` and `job`
are the three objects of an end, which die at different times; `dialog` is the nested
event loop the receiver's user is in. The byte stream is external: it connects or
fails, delivers in order, and may break with part of the data under way. A byte is its position
in the sender's file, so that a byte out of place shows. A read that fails sends bytes that are none of the file's
(`Alien`), as many as were asked for, and what is read after it starts where that one should have.

**Lists** has the two operators with which `ContactList` takes elements out of a list, as
`removeAll()` does. They are written as a recursive function over the
prefixes of the list, which the prover can unfold where `SelectSeq` cannot be.

### Abstract specifications

**Lifecycle** is what the rest of Kopete relies on: startup ends and is announced
once, a shutdown in the running application saves, then releases the event loop. No
plugins, queues or timers. `PluginManager` implements it with `mode <- shutdownMode`,
`announced <- allLoadedSignals`, `asked <- shutdownCalled` and
`released <- refReleases > 0`; loading, unloading and deleting plugins, the timer and a second
`slotShutdownDone()` are stuttering steps.

**ListStore** is a store in memory that is written back later: every change schedules a write,
a write makes disk and memory equal, only closing may lose what was scheduled. It may also be
closed after its contents were deleted, and then writes what is left (`CloseCleared`: `quitKopete()`).
`ContactList` implements it; its `Store` instance maps the disk to the file, the memory to
what a save would write, and `dirty` to the timer. That a handler changes what
would be saved and starts no timer is a step the abstraction does not allow, wherever
in the code the change is made.

## Runs

| Run | Bounds | Checks |
|---|---|---|
| `plugin_manager` | two plugins and a protocol, 3 calls; 124 thousand states | deletions and unloads refer to loaded plugins; `slotShutdownDone()` overtakes no deletion; released only after saving; implements `Lifecycle`, with its progress |
| `chat_session` | one contact, two sessions, two messages, one change of preferences; 122 thousand states | references equal messages in the chain; the unread list holds live events; hidden chats have unread events, but for one preference; messages are handled, closed chats go away, applied events show their chat |
| `chat_deleted_while_referenced` | the same | finding: a session is deleted with references |
| `password` | two calls, two wallets, one wrong password; 640 thousand states | deleted objects are used only after a message box; the last `set()` wins; requests are served |
| `account` | one account, two requests, one outage or sleep, one lost session, one wrong password, 3 attempts, with and without TLS; 396 thousand states | status and stream agree; a suspended account is offline; no wish is lost; offline is final; accounts come to rest |
| `account_abort` | the same | finding: going offline while connecting aborts nothing |
| `contact_list` | two contacts of two protocols, two metacontacts, one group, two changes, one failure, one end; every such file to start from; 281 thousand states | membership agrees on both sides; groups are sound; no contact is forgotten; implements `ListStore`, with its progress |
| `contact_list_quit` | the same | finding: File/Quit saves a list without contacts |
| `account_registry` | two accounts and a gateway, two removals asked for, three changes by the network, one restart; 122 thousand states | accounts are owned and waited for only while they exist; a protocol asked to unload is deleted after them, and is ready for it as soon as none is left; a deleted account is used in named cases only; removals and unloading complete |
| `auto_away` | two accounts and a gateway, two statuses set by the user, two changes by the network, one of the settings, two slots posted; 419 thousand states | the idle timer's entry follows accounts and settings; accounts set away are remembered; a return is noticed unless the entry is new |
| `auto_away_return` | the same | finding: a return right after auto-away began is missed |
| `file_transfer` | files of 0 to 3 bytes, a receiver's file of 0 to 4, two offers, two faults, one failed read, one failed write; 184 thousand states | deleted jobs and contacts are used in two named cases only; a file reported complete is whole; transfers end |

Why these bounds are enough to be interesting: each hazard needs at most two
overlapping operations and one disturbance. Two messages let one wait in the chain while
the other's session is closed, and two sessions let a second follow a deleted one. Two calls
of `Password` make up to six requests, since a read may store and migrate. Two wallets let
one be lost and opened again. One account is enough because accounts meet only in
the manager's loops; `LastTry` is 10 in the code, and 3 leaves a retry before, at
and after the limit. A contact list of two metacontacts has merges, moves and a
contact that waits while another exists. In `AccountRegistry` the second account keeps the
protocol loaded when the first is removed, and the gateway is an account with an owner; two removals let
one overtake the other. In `FileTransfer` three bytes allow a prefix, a rest and a break between
them, and the second offer resumes what the first left; the receiver's first file may be
shorter than, as long as or longer than the sender's. In `AutoAway` one account can be lost or
deleted while auto-away sets or restores the other.

Larger instances were run by hand and agree: two contacts in `ChatSession` (4.2 million
states, without a change of preferences, the invariants only), `LastTry = 10` (1.1 million) and two
outages (1.9 million) in `Account`, three changes (907 thousand) and two contacts of the
same protocol (154 thousand) in `ContactList`.

The bounds end every behaviour of the models, and a user may cease to act,
so the configurations do not check for deadlock (but for `AutoAway`'s, whose timer looks at the
idle time for ever); the liveness properties say what must still happen.

### Fairness

- `PluginManager`, `ChatSession`: weak fairness of the event loop, which handles
  what is posted, and of the 3 s timer. In `ChatSession` also of each handler's
  answer: a handler that never answers keeps its message for ever, and nothing in
  the code would notice.
- `Password`: the thread runs, posted calls are delivered, KWallet answers.
  Nothing is assumed of the user, who may leave a message box open:
  `RequestsServed` has that as an outcome.
- `Account`: each account's timers run out, its stream ends or opens and password
  requests are answered. The network need not come back.
- `ContactList`: the save timer runs out. The code starts it again at every
  change, so a list that never ceases to change is never saved; the model's changes are
  bounded.
- `AccountRegistry`: the event loop goes on and the timer of 1111 ms expires. Nothing is
  assumed of the user and the network: a transport that ignores `disconnect()` must not hold up
  the unloading.
- `AutoAway`: none. That a return is noticed is an invariant of what is posted at the look
  that finds the user active (`ReturnNoticed`).
- `FileTransfer`: the sender's request times out (`Task::onTimeout()`), its stream connects or
  fails, bytes under way are signalled and deferred deletions run. Neither user need answer, and
  nothing is assumed of a receiver that waits for a stream: the code has no timeout for it.

## Findings

1. `ChatSession::deref()` asks for the deletion of a session that a message may
   take a reference to before it is deleted (`kopetechatsession.cpp:630`); the header says
   it may be deleted only if the count reaches 0.
2. `JabberAccount::disconnect()` does not abort a connection attempt
   (`jabberaccount.cpp:694`), as `kopeteaccount.h:544` asks.
3. `KopeteApplication::quitKopete()` deletes the protocols, and with them accounts and contacts,
   before `shutdown()` makes the last save (`kopeteapplication.cpp:375`, and the destructor at 121): the list is written
   without its contacts. The comment at that save (`kopetepluginmanager.cpp:187`) says it is there to
   keep the most recent changes.
4. `setAutoAway()` changes statuses, and each change registers the idle timer's entry anew as
   active (`kopetestatusmanager.cpp:466`). A return that the next look would notice is then missed, and the
   user stays away until the return after the next absence; `kopetebehaviorsettings.kcfg:152` says "Go
   available after detecting an activity."

Behaviour the models have, which the properties state as an exception or leave out.

Plugin manager, passwords, chats, accounts, contact list:

- `PluginManager::shutdown()` during startup returns without effect and is not repeated
  (`kopetepluginmanager.cpp:163`), although the header says it derefs the event loop; `Lifecycle` has this as
  "any other ignores it".
- The 3 s timer between the posting and the delivery of `slotShutdownDone()` releases the event
  loop twice.
- `Password::set(QString())` does nothing while nothing is remembered, also when a `set()` is
  waiting; a read that moves a password from the configuration to the wallet overwrites a `set()` that
  was already waiting (`kopetepassword.cpp:148`, an exception of `LastSetWins`); `clear()` without a wallet leaves the wallet's entry; when `openWallet()` fails at once the
  answer comes inside the call that asked.
- `ProcessMessageTask::start()` uses an event whose sender may have been destroyed (`StartDangling`).
- With the preference to queue "only messages on another desktop" a message for a hidden view makes no event
  (`kopeteviewmanager.cpp:253`); if the account is away and events are then switched off, nothing tells
  of it (the exception `unnoticed` of `HiddenHasUnread`).
- An account that requires TLS where there is none stays connecting, with a message box and no attempt, until the
  user takes it offline (`jabberaccount.cpp:420`; `Stuck`).
- `Account::resume()` means to pass over an account that was suspended offline, but compares with the built-in
  status Offline, which no status of a protocol equals (`kopeteaccount.cpp:605`): the account is set offline,
  which stops its timer and ends its reconnection.
- An outage marks every account for reconnection, also those the user took offline. A machine that
  goes to sleep while an account waits between two attempts leaves it offline. If Solid called the
  accounts before the manager, `NoLostWish` would fail.
- `MetaContact::serialize()` drops from the next save the data of contacts whose
  protocol is not loaded; so do moving the last contact out of their metacontact
  and disabling their protocol, and a protocol that makes no contact of its data (`NothingForgotten` counts these, finding 3 and what a
  crash or a failed save costs as known losses and shows that there are no others). A list that cannot be read counts as loaded and is overwritten at the
  first change. `mergeMetaContacts()` leaves sources without contacts in the list, although its comment
  says they are removed (`kopetecontactlist.cpp:281`). `changeMetaContact()` uses the contact after
  a dialog in which it may have been deleted; the model takes the dialog as one step.

Accounts' lives:

- `SLOT (slotUnregisterFinished)` lacks its parentheses (`jabberaccount.cpp:1725`), so only the timer ever
  removes an unregistered account; quitting within its 1.1 s keeps the account.
- A removal is dropped if the account is online again at its turn.
- `unloadPlugin("jabber")` finds no plugin, because the name lacks the prefix `kopete_`: with the last account the
  protocol is only disabled, although the comment says "we can unload it".
- An account queued twice, or queued when its owner is about to be deleted, is used after its
  deletion, and so is one the user is asked about while it is being removed or the program ends, one that is queued when
  `quitKopete()` deletes it, and a transport that `~Protocol()` finds in its copy of the list after the
  account that owned it (the cases `UsesLiveAccounts` names).
- Removing a Jabber account whose gateway is online leaves the gateway's configuration group,
  and `JabberProtocol::createNewAccount()` makes the removed account anew at the next start
  (`jabberaccount.cpp:156`), although `removeAccount()` is documented to clean the configuration.

Auto-away:

- A return is missed whenever the entry was registered anew during the absence (`renewed`): by `setAutoAway()` itself
  (finding 4), a lost connection, a new setting.
- A gateway deleted online with its account leaves the idle timer's entry until the next change of a status or a
  setting (`kopetestatusmanager.cpp:457` does not look at the timer), also when no account is online.
- An account that is offline when `setActive()` runs is forgotten and reconnects as away.
- The box of `askAndSetActive()` never calls `setActive()`: `QDialog` has no signal `yesClicked()`
  (`kopetestatusmanager.cpp:387`).
- A status Busy that the user sets after auto-away set the account away is taken back by `setActive()`.

File transfer:

- An empty file is never reported as received; resuming a file that is already complete is reported complete
  by the sender and as an error by the receiver; if the receiver's file is longer than the sender's, the sender's
  transfer fails and the receiver waits for ever.
- A receiver that accepts after the sender timed out or cancelled waits for ever for the stream.
- "Cancel" in the resume box leaves the job without an end (`jabberfiletransfer.cpp:213`); a job cancelled
  while the box is open is used after its deletion (`:223`, `:227`), as is a contact deleted while
  its thumbnail is awaited (`:103`). A request whose contact is deleted is never answered.
- A file that cannot be opened for sending leaves its `JabberFileTransfer` behind (`:150`).
- The results of `write()` (`:298`) and of the sender's `read()` (`:332`) are not looked at: a transfer is
  reported complete with bytes missing or wrong (the exception of `CompleteIsWhole`).

## Proofs

What is proved holds for every value of the constants that the named assumptions
allow: any number of plugins, contacts, requests, messages or bytes, and any bounds. TLC
evaluates those assumptions in the runs. The inductive invariants were checked
with TLC on the runs' instances before they were proved. Each proof module has one lemma per
action, or per method where actions compose methods, under the lemma `NextInv` or
`NextIInv`.

**`PluginManager_proofs`** (`Invariance`, and from it `TypeCorrect`, `UnloadSafety`,
`ShutdownOrder`, `ShutdownSafety`, `RefinesLifecycle`), from `PluginAssumption`: the plugins are
finitely many. The properties are not inductive by themselves. That `slotShutdownDone()`
overtakes no deletion needs to know that it is posted only when no plugin is left, hence that
every deletion still posted is of a loaded plugin (`QueueOK`, `UnloadsAreLoaded`); that the
event loop is released only after saving needs to know that the timer and the final event
exist only in a shutdown (`ShutdownPhase`). The conjunction, `IInv`, is inductive. It is also what
shows every step to be a step of `Lifecycle` or a stutter: `Start` happens once, `Release` only in
a shutdown that has saved.

**`Account_proofs`** (`AccountInvariance`, and from it `AccountTypeCorrect`,
`AccountSessionMatches`, `AccountSuspendedOffline`), from `AccountAssumption`, for any
set of accounts, both orders of the network's subscribers and any limit of attempts. The
invariant `Inv` is `Sound` for each account: type, status and stream agree (`Stuck` excepted), and a
suspended account is offline. The parts need each other: hanging up closes the
stream only if the status says there is a session, and a suspension ends because the
status changes. Two theorems about the history of the user's wishes stand on it.
`AccountOfflineIsFinal`: an account taken offline has no timer, request or marker left
that could bring it back (`OfflineKept`), in both orders. `AccountNoLostWish`: an account wanted online is
trying or waits for something that will come (`WishKept`; `SuspendedGlobal`: while the manager
is suspended the global status is offline), or is stuck without TLS; a wish ends where `resume()`
takes the account offline. It has the hypothesis `ManagerFirst`, because it
is false otherwise: `networkingStatusChanged()` would mark the account for
reconnection and `suspend()`, called after it, would take the mark back. It speaks of the accounts
without `excludeConnect()`, the only ones the network's return reconnects.

**`Password_proofs`** (`PasswordInvariance`, and from it `PasswordTypeCorrect`,
`PasswordDangling`, `PasswordLastSetWins`), from `PasswordAssumption`: for any passwords and
any number of calls, of wallets lost and reopened and of wrong passwords. The invariant says of the
requests where each of them is (`Sound`): in the signal or in one emission, once, and not while
it shows its dialog or after its end, and that a message box belongs to the request its emission
serves. As long as no box was shown (`NothingStale`) the event loop runs only when no emission
does, so that the wallet cannot go away under one, and every request that is inside
`set()` is at the head of its emission: this is why nothing deleted is used. That the last `set()` wins needs the
order of what waits (`SetsInOrder`): the requests that set or clear are all in the signal or all in
the topmost emission, never in both, and the last of them is the call made last, or it was served
and nothing but reads is left. A move from the configuration file breaks exactly
this, and is the exception of `LastSetWins`. `Ids` are enough names for the requests of `MaxCalls` calls; that a
name is always free is checked by TLC and not proved.

**`ChatSession_proofs`** (`ChatInvariance`, and from it `ChatTypeCorrect`, `ChatRefsCount`,
`ChatEventListSound`, `ChatHiddenHasUnread`): for any contacts and any number of sessions,
messages and changes of preferences. A message's event in the chain and its event in the unread
list never exist at once (`QueuedAfterChain`), so that what is posted for deletion cannot enter the
list again (`PostedSound`); sessions and messages are made in order, so that a new one
is fresh. `HiddenKept` names for each hidden chat an event that keeps it from being
forgotten: one that will not be deleted, or whose deletion shows the chat. Its exceptions are those of
`HiddenHasUnread`, dismissed notifications and the preference of other desktops, and each is recorded where it arises. The reference count is
a cardinality; that it never goes below zero is part of the type.

**`ContactList_proofs`** (`ContactListInvariance`, and from it `ContactListTypeCorrect`,
`ContactListMembership`, `ContactListGroups`, `ContactListNothingForgotten`, `RefinesListStore`): for any
contacts, metacontacts, groups and protocols, and for every file to start from.
`NothingForgotten` needs `MembershipAgrees`, because a contact is saved with the metacontact
that lists it and not with the one it points to, `ListensIsSaved`, because what a
protocol brings back must be in a metacontact that is saved, and `PhaseSound`, because a save after the
shutdown would write an empty list; what `QuitKopete` may leave out of the file leaves `kept`, and finding 3 is about
that step. `RefinesListStore` is one step per action: either what a save would write is unchanged, or the
save timer runs afterwards; `QuitKopete` is `CloseCleared`.

**`AutoAway_proofs`** (`AutoAwayInvariance`, and from it `AutoAwayTypeCorrect`,
`AutoAwayWatches`, `AutoAwayRemembers`, `AutoAwayReturnNoticed`): for any accounts and bounds. `Remembered` is about connected
accounts only and so not inductive: an account that was set away, lost its connection and got it back
must still be in the list (`MarkedRemembered`). That `unregisterTimeout()` finds the entry
needs that an entry has a slot (`ReceiverHasSlot`). A return is noticed at one look and acted upon
when the slots posted before have run; `ReturnPosted` says what lies between: while an entry that is not new counts the user as active,
every `setAutoAway()` posted is followed by a `setActive()`, and one is posted if auto-away is on.

**`FileTransfer_proofs`** (`TransferInvariance`, and from it `TransferTypeCorrect`,
`TransferUsesLiveObjects`, `TransferCompleteIsWhole`): for a file of any size and any number of offers and
faults. That no deleted object is used needs to know which objects an end holds
while its transfer can still signal (`SignalsHeld`), that a dialog is open only for a pending
request (`RequestOpen`), and that the two ways to lose an object are recorded (`HazardKnown`). That a complete file
is whole needs that both ends agree on the range (`RangesAgree`) and that the bytes under way continue the
receiver's file (`BytesContinue`), which a resumed transfer relies on; both as long as no read or write failed (`NoDiskError`).

**`AccountRegistry_proofs`** (`RegistryInvariance`, and from it `RegistryTypeCorrect`,
`RegistryReadyMeansEmpty`, `RegistryUsesLiveAccounts`), from `RegistryAssumption`: for any finite set of
accounts, any number of gateways on each, and any number of removals, changes by the network and restarts. That a deleted account
is used only in haste is a fact about two queues that run in step: the calls of `removeAccountInternal()` among
the events posted and the accounts to be removed. `InOrder` says that they are equally many, in the
same order, and that as long as nobody was hasty the k-th account is deleted by nothing that
comes before the k-th call: not by an earlier removal of its owner, and not by a posted deletion.
`Safe` says the same of the account the user is asked about. That a protocol which was asked to unload is deleted last needs
that deletions are posted to live accounts only and that an account which is waited
for exists (`Good`), and which of this can be the case while the program runs, quits, ends and is down (`Course`); `QuitKopete` asks nobody, and leaves no account.
That it is not forgotten when the last account goes needs the converse: once the program quits, every account that
is left is one the protocol waits for (`Waiting`, part of `Course`), because the loop of `aboutToUnload()` came to each of them
(`EachReaches`, and every account is in the order that the loop takes) and nothing but its deletion takes an account
out of `Awaited`. The loops are dealt with once, in `EachKeeps`: what every round preserves, the loop preserves. It is this that
needs finitely many accounts, since a loop is over a list.

**Induction.** Induction over the length of a list is out of the prover's reach as a rule (it would have to
instantiate a predicate), but not as a fact about sets: a set of numbers that has 0 and is closed under
successor up to n has all of them (`PrefixInduction`, from the least element of the complement). What
`Only` and `Omit` leave of a list (`ContactList_proofs`) and what `Each` computes
(`AccountRegistry_proofs`) are memberships in such a set.

### What is only model-checked

- Liveness, in every module: fairness and `ENABLED` are out of the prover's reach. Of the two
  refinements this is the progress; their initial states and steps are proved.
- The four findings: a counterexample is an execution, and TLC gives it.

## Plan

What is left:

1. `Password`: a proof that `Ids` suffice, by counting the requests a call can cause.
2. Identities, the managed connections and the command handler as modules of their own.
