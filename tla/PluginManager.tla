---------------------------- MODULE PluginManager ----------------------------
(***************************************************************************)
(* Kopete::PluginManager: asynchronous loading of plugins, unloading by    *)
(* deleteLater(), and the shutdown protocol that ends by releasing the     *)
(* manager's reference on the application's event loop.                    *)
(*                                                                         *)
(* The event loop is the sequence `posted': QTimer::singleShot(0) and      *)
(* deleteLater() append to it and the loop handles its head.  The deferred *)
(* deletions one handler requests form one event, whose plugins are        *)
(* deleted one at a time.  The 3 second timer of shutdown() is not ordered *)
(* with respect to posted events.                                          *)
(***************************************************************************)
EXTENDS Naturals, Sequences, FiniteSets

CONSTANTS
    Plugins,      \* availablePlugins(): every known plugin
    Protocols,    \* those whose category is "Protocols"
    DefaultOn,    \* those with isPluginEnabledByDefault()
    MaxCalls      \* bound on the calls users of the manager make

ASSUME PluginAssumption ==
    /\ IsFiniteSet(Plugins)
    /\ Protocols \subseteq Plugins
    /\ DefaultOn \subseteq Plugins
    /\ MaxCalls \in Nat

VARIABLES
    shutdownMode,      \* PluginManagerPrivate::shutdownMode
    loadedPlugins,     \* keys of PluginManagerPrivate::loadedPlugins
    pluginsToLoad,     \* the QStack; its top is the last element
    allLoadedSignals,  \* how often allPluginsLoaded() was emitted
    unloading,         \* protocols told to unload that still have accounts
    posted,            \* events posted to the event loop
    shutdownTimer,     \* the 3 s single shot of shutdown() is running
    refReleases,       \* how often the manager called KGlobal::deref()
    hasGroup,          \* the configuration has a "Plugins" group
    enabled,           \* the plugins that group enables
    saved,             \* contact list and accounts were saved by shutdown()
    shutdownCalled,    \* some caller asked for the shutdown
    managerAlive,      \* ~PluginManagerPrivate() has not run
    calls              \* calls made so far

config == <<hasGroup, enabled>>
vars == <<shutdownMode, loadedPlugins, pluginsToLoad, allLoadedSignals,
          unloading, posted, shutdownTimer, refReleases, config,
          saved, shutdownCalled, managerAlive, calls>>

Modes == {"StartingUp", "Running", "ShuttingDown", "DoneShutdown"}

EventType == [type : {"loadNext", "shutdownDone", "delete"},
              plugins : SUBSET Plugins]

LoadNext     == [type |-> "loadNext", plugins |-> {}]
ShutdownDone == [type |-> "shutdownDone", plugins |-> {}]
Delete(S)    == [type |-> "delete", plugins |-> S]

(* The plugins with a deferred deletion among the events of q. *)
Dying(q) == UNION {q[i].plugins : i \in 1..Len(q)}

(* slotPluginReadyForUnload() for each of S calls deleteLater(); a second  *)
(* request for one object is compressed by Qt.                             *)
ReadyForUnload(q, S) ==
    IF S \subseteq Dying(q) THEN q ELSE Append(q, Delete(S \ Dying(q)))

(* The posted events of a destroyed object go with it. *)
Purge(q, S) == [i \in 1..Len(q) |-> [q[i] EXCEPT !.plugins = @ \ S]]

(* The orders in which the plugins of S can be pushed. *)
Pushes(S) == {s \in [1..Cardinality(S) -> S] : S \subseteq {s[i] : i \in DOMAIN s}}

(* What loadAllPlugins() pushes, and what it unloads, when the plugins of  *)
(* `loaded' are in and a "Plugins" group, if there is one, enables `on'.   *)
ToLoad(group, on, loaded) ==
    IF group THEN on \ (Protocols \cup loaded) ELSE DefaultOn

ToUnload(group, on, loaded) ==
    IF group THEN loaded \ (Protocols \cup on) ELSE {}
-----------------------------------------------------------------------------
(* Definitions named Mutant... are the forms a slip in the code would give *)
(* the definition that follows; the specification never uses them.         *)

(* The member initialiser of PluginManagerPrivate() is forgotten. *)
MutantInitialMode == "garbage"

InitialMode == "StartingUp"

(* KopeteApplication::slotLoadPlugins() has run: AccountManager::load()    *)
(* asked for the protocols of the accounts, then loadAllPlugins() ran.     *)
Init ==
    /\ shutdownMode = InitialMode
    /\ loadedPlugins = {}
    /\ hasGroup \in BOOLEAN
    /\ enabled \in SUBSET (Plugins \ Protocols)
    /\ \E used \in SUBSET Protocols :
         /\ \E s \in Pushes(used), t \in Pushes(ToLoad(hasGroup, enabled, {})) : pluginsToLoad = s \o t
         /\ posted = [i \in 1..Cardinality(used) + 1 |-> LoadNext]
    /\ allLoadedSignals = 0
    /\ unloading = {}
    /\ shutdownTimer = FALSE
    /\ refReleases = 0
    /\ saved = FALSE
    /\ shutdownCalled = FALSE
    /\ managerAlive = TRUE
    /\ calls = 0

Call == managerAlive /\ calls < MaxCalls /\ calls' = calls + 1

(* loadPluginInternal(): creating the plugin may fail. *)
LoadPluginInternal(p) == loadedPlugins' \in {loadedPlugins, loadedPlugins \cup {p}}

(***************************************************************************)
(* aboutToUnload() on each plugin of S.                                    *)
(* An ordinary plugin answers readyForUnload() at once and so does a       *)
(* protocol without accounts; the protocols in `slow' first wait for their *)
(* accounts to disconnect and be deleted.                                  *)
(***************************************************************************)
AboutToUnload(S) ==
    \E slow \in SUBSET (S \cap Protocols) :
        /\ unloading' = unloading \cup slow
        /\ posted' = ReadyForUnload(posted, S \ slow)

(* loadedPlugins.isEmpty() is not tested. *)
MutantSlotPluginDestroyed(S, q) ==
    /\ loadedPlugins' = loadedPlugins \ S
    /\ unloading' = unloading \ S
    /\ posted' = IF shutdownMode = "ShuttingDown" THEN Append(q, ShutdownDone) ELSE q

(* slotPluginDestroyed() for the plugins of S, with q the events left. *)
SlotPluginDestroyed(S, q) ==
    /\ loadedPlugins' = loadedPlugins \ S
    /\ unloading' = unloading \ S
    /\ posted' = IF shutdownMode = "ShuttingDown" /\ loadedPlugins' = {}
                 THEN Append(q, ShutdownDone) ELSE q
-----------------------------------------------------------------------------
(* Calls from users of the manager. *)

(* loadAllPlugins(), which the plugin page calls once it has written the   *)
(* configuration.                                                          *)
LoadAllPlugins ==
    /\ Call
    /\ hasGroup' = TRUE
    /\ \E on \in SUBSET (Plugins \ Protocols) :
         /\ enabled' = on
         /\ \E s \in Pushes(ToLoad(TRUE, on, loadedPlugins)) :
              pluginsToLoad' = pluginsToLoad \o s
         /\ posted' = Append(ReadyForUnload(posted, ToUnload(TRUE, on, loadedPlugins)),
                             LoadNext)
    /\ UNCHANGED <<shutdownMode, loadedPlugins, allLoadedSignals, unloading,
                   shutdownTimer, refReleases, saved, shutdownCalled, managerAlive>>

LoadPluginSync(p) ==
    /\ Call
    /\ LoadPluginInternal(p)
    /\ UNCHANGED <<shutdownMode, pluginsToLoad, allLoadedSignals, unloading,
                   posted, shutdownTimer, refReleases, config, saved,
                   shutdownCalled, managerAlive>>

LoadPluginAsync(p) ==
    /\ Call
    /\ pluginsToLoad' = Append(pluginsToLoad, p)
    /\ posted' = Append(posted, LoadNext)
    /\ UNCHANGED <<shutdownMode, loadedPlugins, allLoadedSignals, unloading,
                   shutdownTimer, refReleases, config, saved, shutdownCalled,
                   managerAlive>>

(* The null check on the plugin is missing. *)
MutantUnloadPlugin(p) ==
    /\ Call
    /\ AboutToUnload({p})
    /\ UNCHANGED <<shutdownMode, loadedPlugins, pluginsToLoad, allLoadedSignals,
                   shutdownTimer, refReleases, config, saved, shutdownCalled,
                   managerAlive>>

UnloadPlugin(p) ==
    /\ Call
    /\ p \in loadedPlugins
    /\ AboutToUnload({p})
    /\ UNCHANGED <<shutdownMode, loadedPlugins, pluginsToLoad, allLoadedSignals,
                   shutdownTimer, refReleases, config, saved, shutdownCalled,
                   managerAlive>>

(* No timer is started. *)
MutantBeginShutdownNoTimer ==
    \/ /\ shutdownMode = "Running"
       /\ shutdownMode' = "ShuttingDown"
       /\ pluginsToLoad' = <<>>
       /\ saved' = TRUE
       /\ UNCHANGED shutdownTimer
    \/ /\ shutdownMode # "Running"
       /\ UNCHANGED <<shutdownMode, pluginsToLoad, saved, shutdownTimer>>

(***************************************************************************)
(* shutdown(): ignored unless the manager is running.  Otherwise clears    *)
(* the load queue, tells the plugins to unload, saves the contact list and *)
(* the accounts and starts the 3 s timer.                                  *)
(***************************************************************************)
BeginShutdown ==
    \/ /\ shutdownMode = "Running"
       /\ shutdownMode' = "ShuttingDown"
       /\ pluginsToLoad' = <<>>
       /\ saved' = TRUE
       /\ shutdownTimer' = TRUE
    \/ /\ shutdownMode # "Running"
       /\ UNCHANGED <<shutdownMode, pluginsToLoad, saved, shutdownTimer>>

(* A window was closed: KopeteWindow::queryClose() and others. *)
Shutdown ==
    /\ Call
    /\ shutdownCalled' = TRUE
    /\ BeginShutdown
    /\ IF shutdownMode = "Running"
       THEN AboutToUnload(loadedPlugins)
       ELSE UNCHANGED <<unloading, posted>>
    /\ UNCHANGED <<loadedPlugins, allLoadedSignals, refReleases, config, managerAlive>>

(* KopeteApplication::quitKopete(): deletes every plugin on the spot, then *)
(* calls shutdown().                                                       *)
QuitKopete ==
    /\ Call
    /\ shutdownCalled' = TRUE
    /\ IF loadedPlugins = {}
       THEN UNCHANGED <<loadedPlugins, unloading, posted>>
       ELSE SlotPluginDestroyed(loadedPlugins, Purge(posted, loadedPlugins))
    /\ BeginShutdown
    /\ UNCHANGED <<allLoadedSignals, refReleases, config, managerAlive>>
-----------------------------------------------------------------------------
(* Steps of the event loop. *)

(* slotLoadNextPlugin(), the queue being empty: startup is over. *)
QueueDrained ==
    /\ pluginsToLoad = <<>>
    /\ posted' = Tail(posted)
    /\ IF shutdownMode = "StartingUp"
       THEN /\ shutdownMode' = "Running"
            /\ allLoadedSignals' = allLoadedSignals + 1
       ELSE UNCHANGED <<shutdownMode, allLoadedSignals>>
    /\ UNCHANGED <<pluginsToLoad, loadedPlugins>>

(* slotLoadNextPlugin(), popping the next plugin and rescheduling itself. *)
LoadFromQueue ==
    /\ pluginsToLoad # <<>>
    /\ LoadPluginInternal(pluginsToLoad[Len(pluginsToLoad)])
    /\ pluginsToLoad' = SubSeq(pluginsToLoad, 1, Len(pluginsToLoad) - 1)
    /\ posted' = Append(Tail(posted), LoadNext)
    /\ UNCHANGED <<shutdownMode, allLoadedSignals>>

SlotLoadNextPlugin ==
    /\ managerAlive /\ posted # <<>> /\ Head(posted).type = "loadNext"
    /\ QueueDrained \/ LoadFromQueue
    /\ UNCHANGED <<unloading, shutdownTimer, refReleases, config, saved,
                   shutdownCalled, managerAlive, calls>>

(* The head event is a deferred deletion: one of its plugins goes. *)
DeletePlugin ==
    /\ managerAlive /\ posted # <<>> /\ Head(posted).type = "delete"
    /\ \/ /\ Head(posted).plugins = {}
          /\ posted' = Tail(posted)
          /\ UNCHANGED <<loadedPlugins, unloading>>
       \/ \E p \in Head(posted).plugins :
             SlotPluginDestroyed({p}, Purge(posted, {p}))
    /\ UNCHANGED <<shutdownMode, pluginsToLoad, allLoadedSignals, shutdownTimer,
                   refReleases, config, saved, shutdownCalled, managerAlive, calls>>

(* The last account of an unloading protocol was destroyed. *)
PluginReady(p) ==
    /\ managerAlive /\ p \in unloading
    /\ unloading' = unloading \ {p}
    /\ posted' = ReadyForUnload(posted, {p})
    /\ UNCHANGED <<shutdownMode, loadedPlugins, pluginsToLoad, allLoadedSignals,
                   shutdownTimer, refReleases, config, saved, shutdownCalled,
                   managerAlive, calls>>

(* The event loop is released although the manager is still shutting down. *)
MutantShutdownDoneSteps ==
    /\ refReleases' = refReleases + 1
    /\ UNCHANGED shutdownMode

(* slotShutdownDone() *)
ShutdownDoneSteps ==
    /\ shutdownMode' = "DoneShutdown"
    /\ refReleases' = refReleases + 1

SlotShutdownDone ==
    /\ managerAlive /\ posted # <<>> /\ Head(posted).type = "shutdownDone"
    /\ posted' = Tail(posted)
    /\ ShutdownDoneSteps
    /\ UNCHANGED <<loadedPlugins, pluginsToLoad, allLoadedSignals, unloading,
                   shutdownTimer, config, saved, shutdownCalled, managerAlive, calls>>

(* slotShutdownTimeout() *)
SlotShutdownTimeout ==
    /\ managerAlive /\ shutdownTimer
    /\ shutdownTimer' = FALSE
    /\ IF shutdownMode = "DoneShutdown"
       THEN UNCHANGED <<shutdownMode, refReleases>>
       ELSE ShutdownDoneSteps
    /\ UNCHANGED <<loadedPlugins, pluginsToLoad, allLoadedSignals, unloading,
                   posted, config, saved, shutdownCalled, managerAlive, calls>>

(* ~PluginManagerPrivate(): the event loop has ended; plugins still loaded *)
(* are deleted, without slotPluginDestroyed().                             *)
DestroyManager ==
    /\ managerAlive /\ refReleases > 0
    /\ managerAlive' = FALSE
    /\ loadedPlugins' = {}
    /\ unloading' = {}
    /\ posted' = <<>>
    /\ shutdownTimer' = FALSE
    /\ UNCHANGED <<shutdownMode, pluginsToLoad, allLoadedSignals, refReleases,
                   config, saved, shutdownCalled, calls>>
-----------------------------------------------------------------------------
EventLoop == SlotLoadNextPlugin \/ DeletePlugin \/ SlotShutdownDone

Next ==
    \/ LoadAllPlugins
    \/ \E p \in Plugins :
         LoadPluginSync(p) \/ LoadPluginAsync(p) \/ UnloadPlugin(p) \/ PluginReady(p)
    \/ Shutdown
    \/ QuitKopete
    \/ EventLoop
    \/ SlotShutdownTimeout
    \/ DestroyManager

(* The event loop handles what is posted and timers fire; neither users    *)
(* nor the network behind a protocol's disconnect have to do anything.     *)
Fairness == WF_vars(EventLoop) /\ WF_vars(SlotShutdownTimeout)

Spec == Init /\ [][Next]_vars /\ Fairness
-----------------------------------------------------------------------------
(* Type invariant of the manager's state and of the posted events. *)
TypeOK ==
    /\ shutdownMode \in Modes
    /\ loadedPlugins \subseteq Plugins
    /\ pluginsToLoad \in Seq(Plugins)
    /\ allLoadedSignals \in Nat
    /\ unloading \subseteq Plugins
    /\ posted \in Seq(EventType)
    /\ shutdownTimer \in BOOLEAN
    /\ refReleases \in Nat
    /\ hasGroup \in BOOLEAN
    /\ enabled \subseteq Plugins
    /\ saved \in BOOLEAN
    /\ shutdownCalled \in BOOLEAN
    /\ managerAlive \in BOOLEAN
    /\ calls \in 0..MaxCalls

(* Every deferred deletion and every pending unload is for a plugin that   *)
(* loadedPlugins still holds: no event ever reaches a plugin that          *)
(* quitKopete() deleted on the spot or that was deleted before.            *)
UnloadsAreLoaded == Dying(posted) \cup unloading \subseteq loadedPlugins

(* slotPluginDestroyed() uses a timer "to make sure any pending            *)
(* deleteLater() calls have been handled first": slotShutdownDone() never  *)
(* overtakes the deferred deletion of a plugin.                            *)
DoneAfterDeletes ==
    \A i, j \in 1..Len(posted) :
        i < j /\ posted[j].type = "shutdownDone" => posted[i].plugins = {}

(* allPluginsLoaded() is emitted exactly once on the way out of StartingUp *)
(* and never again, whatever is queued and drained later.                  *)
AllPluginsLoadedOnce == allLoadedSignals = IF shutdownMode = "StartingUp" THEN 0 ELSE 1

(* The manager lets go of the event loop only in DoneShutdown and after    *)
(* shutdown() saved the contact list and the accounts.                     *)
ReleasedAfterSave == refReleases > 0 => shutdownMode = "DoneShutdown" /\ saved

(* The application's life, as the users of the manager see it. *)
Life ==
    INSTANCE Lifecycle WITH
        mode <- shutdownMode,
        announced <- allLoadedSignals,
        asked <- shutdownCalled,
        released <- refReleases > 0

(* The manager implements it: however plugins are loaded, unloaded and     *)
(* deleted meanwhile, startup ends and is announced once, a shutdown saves *)
(* before it releases the event loop and releases it even when a           *)
(* protocol's accounts never disconnect, and no mode comes back.           *)
ImplementsLifecycle == Life!Spec
=============================================================================
