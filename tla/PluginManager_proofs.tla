------------------------- MODULE PluginManager_proofs -------------------------
(***************************************************************************)
(* Proofs, for any finite set of plugins and any number of calls, of the   *)
(* safety invariants of PluginManager.                                     *)
(***************************************************************************)
EXTENDS PluginManager, FiniteSetTheorems, TLAPS

(* The posted events q presuppose that the plugins about to be deleted are *)
(* among `loaded' and that the final event, if there is one, comes after   *)
(* their deletion and belongs to a shutdown that has saved everything.     *)
QueueOK(q, loaded, done) ==
    /\ q \in Seq(EventType)
    /\ Dying(q) \subseteq loaded
    /\ \A i, j \in 1..Len(q) : i < j /\ q[j].type = "shutdownDone" => q[i].plugins = {}
    /\ \A i \in 1..Len(q) : q[i].type = "shutdownDone" => done

(* Everything was saved exactly when shutdown() has begun, and only then   *)
(* can its timer run.                                                      *)
ShutdownPhase ==
    /\ saved <=> shutdownMode \in {"ShuttingDown", "DoneShutdown"}
    /\ shutdownTimer => saved

(* The Boolean part of the type invariant. *)
FlagTypes ==
    /\ shutdownTimer \in BOOLEAN /\ hasGroup \in BOOLEAN /\ saved \in BOOLEAN
    /\ shutdownCalled \in BOOLEAN /\ managerAlive \in BOOLEAN

(* The inductive invariant. *)
IInv ==
    /\ TypeOK
    /\ QueueOK(posted, loadedPlugins, saved)
    /\ unloading \subseteq loadedPlugins
    /\ AllPluginsLoadedOnce
    /\ ReleasedAfterSave
    /\ ShutdownPhase

-----------------------------------------------------------------------------
(* Pushing the plugins of a set, in any order, gives a sequence of them. *)
LEMMA PushesType ==
    ASSUME NEW S \in SUBSET Plugins, NEW s \in Pushes(S)
    PROVE  s \in Seq(Plugins)
<1>1. IsFiniteSet(S)
  BY PluginAssumption, FS_Subset
<1>2. Cardinality(S) \in Nat
  BY <1>1, FS_CardinalityType
<1> QED
  BY <1>2 DEF Pushes

(* The events are of EventType. *)
LEMMA EventTypes ==
    /\ LoadNext \in EventType
    /\ ShutdownDone \in EventType
    /\ \A S \in SUBSET Plugins : Delete(S) \in EventType
BY DEF LoadNext, ShutdownDone, Delete, EventType

(* Appending an event adds its plugins to the dying ones. *)
LEMMA DyingAppend ==
    ASSUME NEW q \in Seq(EventType), NEW e \in EventType
    PROVE  Dying(Append(q, e)) = Dying(q) \cup e.plugins
<1> DEFINE r == Append(q, e)
<1>1. /\ Len(r) = Len(q) + 1
      /\ \A i \in 1..Len(q) : r[i] = q[i]
      /\ r[Len(q) + 1] = e
  OBVIOUS
<1>2. 1..Len(r) = 1..Len(q) \cup {Len(q) + 1}
  BY <1>1
<1>3. {r[i].plugins : i \in 1..Len(r)} =
        {q[i].plugins : i \in 1..Len(q)} \cup {e.plugins}
  BY <1>1, <1>2
<1> HIDE DEF r
<1> QED
  BY <1>3 DEF Dying, r

(* Handling the head event leaves at most the plugins that were dying. *)
LEMMA DyingTail ==
    ASSUME NEW q \in Seq(EventType), q # <<>>
    PROVE  /\ Tail(q) \in Seq(EventType)
           /\ Dying(Tail(q)) \subseteq Dying(q)
<1>1. \A i \in 1..Len(Tail(q)) : Tail(q)[i] = q[i + 1] /\ i + 1 \in 1..Len(q)
  OBVIOUS
<1> QED
  BY <1>1 DEF Dying

(* readyForUnload() from the plugins of S makes them die, and no others; a *)
(* pending slotShutdownDone() keeps its place.                             *)
LEMMA ReadyForUnloadEffect ==
    ASSUME NEW q \in Seq(EventType), NEW S \in SUBSET Plugins
    PROVE  LET r == ReadyForUnload(q, S)
           IN  /\ r \in Seq(EventType)
               /\ Dying(r) = Dying(q) \cup S
               /\ Len(r) >= Len(q)
               /\ \A i \in 1..Len(q) : r[i] = q[i]
               /\ \A i \in 1..Len(r) : i > Len(q) => r[i].type # "shutdownDone"
<1>1. CASE S \subseteq Dying(q)
  BY <1>1 DEF ReadyForUnload
<1>2. CASE ~(S \subseteq Dying(q))
  <2> DEFINE e == Delete(S \ Dying(q))
  <2>1. e \in EventType /\ e.type # "shutdownDone" /\ e.plugins = S \ Dying(q)
    BY EventTypes DEF Delete
  <2>2. ReadyForUnload(q, S) = Append(q, e)
    BY <1>2 DEF ReadyForUnload
  <2> HIDE DEF e
  <2>3. Dying(Append(q, e)) = Dying(q) \cup S
    BY <2>1, DyingAppend
  <2> QED
    BY <2>1, <2>2, <2>3
<1> QED
  BY <1>1, <1>2

(* Destroying the plugins of S removes their deletions and nothing else. *)
LEMMA PurgeEffect ==
    ASSUME NEW q \in Seq(EventType), NEW S \in SUBSET Plugins
    PROVE  LET r == Purge(q, S)
           IN  /\ r \in Seq(EventType)
               /\ Dying(r) = Dying(q) \ S
               /\ Len(r) = Len(q)
               /\ \A i \in 1..Len(q) : /\ r[i].plugins = q[i].plugins \ S
                                       /\ r[i].type = q[i].type
<1> DEFINE r == Purge(q, S)
<1>1. \A i \in 1..Len(q) : q[i] \in EventType
  OBVIOUS
<1>2. Len(q) \in Nat
  OBVIOUS
<1>3. \A i \in 1..Len(q) : /\ r[i] \in EventType
                           /\ r[i].plugins = q[i].plugins \ S
                           /\ r[i].type = q[i].type
  BY <1>1 DEF Purge, EventType
<1>4. r \in Seq(EventType) /\ Len(r) = Len(q)
  BY <1>2, <1>3 DEF Purge
<1>5. Dying(r) = Dying(q) \ S
  BY <1>3, <1>4 DEF Dying
<1> QED
  BY <1>3, <1>4, <1>5

(* Appending a slotLoadNextPlugin() event. *)
LEMMA QueueLoadNext ==
    ASSUME NEW q, NEW loaded, NEW done, QueueOK(q, loaded, done)
    PROVE  QueueOK(Append(q, LoadNext), loaded, done)
<1>1. LoadNext \in EventType /\ LoadNext.plugins = {} /\ LoadNext.type # "shutdownDone"
  BY EventTypes DEF LoadNext
<1>2. Dying(Append(q, LoadNext)) = Dying(q)
  BY <1>1, DyingAppend DEF QueueOK
<1> QED
  BY <1>1, <1>2 DEF QueueOK

(* Removing the event just handled. *)
LEMMA QueueTail ==
    ASSUME NEW q, NEW loaded, NEW done, QueueOK(q, loaded, done), q # <<>>
    PROVE  QueueOK(Tail(q), loaded, done)
<1>1. \A i \in 1..Len(Tail(q)) : Tail(q)[i] = q[i + 1] /\ i + 1 \in 1..Len(q)
  BY DEF QueueOK
<1> QED
  BY <1>1, DyingTail DEF QueueOK

(* Deferred deletions are appended only for loaded plugins. *)
LEMMA QueueReady ==
    ASSUME NEW q, NEW loaded \in SUBSET Plugins, NEW done, QueueOK(q, loaded, done),
           NEW S \in SUBSET loaded
    PROVE  QueueOK(ReadyForUnload(q, S), loaded, done)
<1> DEFINE r == ReadyForUnload(q, S)
<1>1. /\ r \in Seq(EventType)
      /\ Dying(r) = Dying(q) \cup S
      /\ Len(r) >= Len(q)
      /\ \A i \in 1..Len(q) : r[i] = q[i]
      /\ \A i \in 1..Len(r) : i > Len(q) => r[i].type # "shutdownDone"
  BY ReadyForUnloadEffect DEF QueueOK
<1> HIDE DEF r
<1>2. \A j \in 1..Len(r) : r[j].type = "shutdownDone" => j \in 1..Len(q)
  BY <1>1 DEF QueueOK
<1>3. Dying(r) \subseteq loaded
  BY <1>1 DEF QueueOK
<1>4. ASSUME NEW i \in 1..Len(r), NEW j \in 1..Len(r), i < j, r[j].type = "shutdownDone"
      PROVE  r[i].plugins = {}
  <2>1. j \in 1..Len(q) /\ i \in 1..Len(q)
    BY <1>1, <1>2, <1>4 DEF QueueOK
  <2> QED
    BY <1>1, <1>4, <2>1 DEF QueueOK
<1> QED
  BY <1>1, <1>2, <1>3, <1>4 DEF QueueOK, r

(* Destroying plugins leaves a queue that is right for the remaining ones. *)
LEMMA QueuePurge ==
    ASSUME NEW q, NEW loaded \in SUBSET Plugins, NEW done, QueueOK(q, loaded, done),
           NEW S \in SUBSET Plugins
    PROVE  QueueOK(Purge(q, S), loaded \ S, done)
<1> DEFINE r == Purge(q, S)
<1>1. /\ r \in Seq(EventType)
      /\ Dying(r) = Dying(q) \ S
      /\ Len(r) = Len(q)
      /\ \A i \in 1..Len(q) : r[i].plugins = q[i].plugins \ S /\ r[i].type = q[i].type
  BY PurgeEffect DEF QueueOK
<1> HIDE DEF r
<1> QED
  BY <1>1 DEF QueueOK, r

(* slotShutdownDone() is posted when no plugin is left. *)
LEMMA QueueDone ==
    ASSUME NEW q, NEW done, QueueOK(q, {}, done), done
    PROVE  QueueOK(Append(q, ShutdownDone), {}, done)
<1>1. ShutdownDone \in EventType /\ ShutdownDone.plugins = {}
  BY EventTypes DEF ShutdownDone
<1>2. Dying(Append(q, ShutdownDone)) = {}
  BY <1>1, DyingAppend DEF QueueOK
<1>3. \A i \in 1..Len(q) : q[i].plugins = {}
  BY DEF QueueOK, Dying
<1> QED
  BY <1>1, <1>2, <1>3 DEF QueueOK
-----------------------------------------------------------------------------
(* The event loop starts with slotLoadNextPlugin() events only. *)
LEMMA InitIInv == Init => IInv
<1> SUFFICES ASSUME Init PROVE IInv
  OBVIOUS
<1>1. PICK used \in SUBSET Protocols :
        /\ \E s \in Pushes(used), t \in Pushes(ToLoad(hasGroup, enabled, {})) :
              pluginsToLoad = s \o t
        /\ posted = [i \in 1..Cardinality(used) + 1 |-> LoadNext]
  BY DEF Init
<1>2. used \subseteq Plugins /\ ToLoad(hasGroup, enabled, {}) \subseteq Plugins
  BY PluginAssumption DEF Init, ToLoad
<1>3. pluginsToLoad \in Seq(Plugins)
  <2>1. PICK s \in Pushes(used), t \in Pushes(ToLoad(hasGroup, enabled, {})) :
              pluginsToLoad = s \o t
    BY <1>1
  <2>2. s \in Seq(Plugins) /\ t \in Seq(Plugins)
    BY <1>2, PushesType
  <2> QED
    BY <2>1, <2>2
<1> DEFINE n == Cardinality(used) + 1
<1>4. n \in Nat
  BY <1>2, PluginAssumption, FS_Subset, FS_CardinalityType
<1> HIDE DEF n
<1>5. /\ posted \in Seq(EventType)
      /\ \A i \in 1..Len(posted) : posted[i].plugins = {} /\ posted[i].type = "loadNext"
  <2>1. posted = [i \in 1..n |-> LoadNext]
    BY <1>1 DEF n
  <2>2. LoadNext \in EventType /\ LoadNext.plugins = {} /\ LoadNext.type = "loadNext"
    BY EventTypes DEF LoadNext
  <2> QED
    BY <1>4, <2>1, <2>2
<1>6. QueueOK(posted, loadedPlugins, saved)
  BY <1>5 DEF QueueOK, Dying, Init
<1>7. TypeOK
  <2>1. /\ shutdownMode \in Modes /\ loadedPlugins \subseteq Plugins
        /\ allLoadedSignals \in Nat /\ unloading \subseteq Plugins
        /\ refReleases \in Nat /\ enabled \subseteq Plugins /\ calls \in 0..MaxCalls
    BY PluginAssumption DEF Init, InitialMode, Modes
  <2>2. /\ shutdownTimer \in BOOLEAN /\ hasGroup \in BOOLEAN /\ saved \in BOOLEAN
        /\ shutdownCalled \in BOOLEAN /\ managerAlive \in BOOLEAN
    BY Zenon DEF Init
  <2> QED
    BY <1>3, <1>5, <2>1, <2>2 DEF TypeOK
<1> QED
  BY <1>6, <1>7 DEF Init, InitialMode, IInv, AllPluginsLoadedOnce, ReleasedAfterSave, ShutdownPhase

(* Telling plugins to unload keeps the queue and the waiting protocols     *)
(* within the loaded ones.                                                 *)
LEMMA AboutToUnloadKeeps ==
    ASSUME NEW S \in SUBSET loadedPlugins, loadedPlugins \subseteq Plugins,
           unloading \subseteq loadedPlugins, NEW done,
           QueueOK(posted, loadedPlugins, done), AboutToUnload(S)
    PROVE  unloading' \subseteq loadedPlugins /\ QueueOK(posted', loadedPlugins, done)
<1>1. PICK slow \in SUBSET (S \cap Protocols) :
        unloading' = unloading \cup slow /\ posted' = ReadyForUnload(posted, S \ slow)
  BY DEF AboutToUnload
<1>2. QueueOK(ReadyForUnload(posted, S \ slow), loadedPlugins, done)
  BY QueueReady
<1> QED
  BY <1>1, <1>2

(* So does the destruction of plugins. *)
LEMMA DestroyedKeeps ==
    ASSUME NEW S \in SUBSET Plugins, loadedPlugins \subseteq Plugins,
           unloading \subseteq loadedPlugins, NEW done,
           QueueOK(posted, loadedPlugins, done),
           shutdownMode = "ShuttingDown" => done,
           SlotPluginDestroyed(S, Purge(posted, S))
    PROVE  /\ loadedPlugins' \subseteq Plugins
           /\ unloading' \subseteq loadedPlugins'
           /\ QueueOK(posted', loadedPlugins', done)
<1> DEFINE q == Purge(posted, S)
<1>1. QueueOK(q, loadedPlugins \ S, done)
  BY QueuePurge
<1>2. QueueOK(posted', loadedPlugins', done)
  <2>1. CASE shutdownMode = "ShuttingDown" /\ loadedPlugins' = {}
    <3>1. posted' = Append(q, ShutdownDone) /\ loadedPlugins \ S = {}
      BY <2>1 DEF SlotPluginDestroyed
    <3>2. QueueOK(Append(q, ShutdownDone), {}, done)
      BY <1>1, <2>1, <3>1, QueueDone
    <3> QED
      BY <2>1, <3>1, <3>2
  <2>2. CASE ~(shutdownMode = "ShuttingDown" /\ loadedPlugins' = {})
    BY <1>1, <2>2 DEF SlotPluginDestroyed
  <2> QED
    BY <2>1, <2>2
<1> QED
  BY <1>2 DEF SlotPluginDestroyed

(* Calls stay within their bound. *)
LEMMA CallType == calls \in 0..MaxCalls /\ Call => calls' \in 0..MaxCalls
BY PluginAssumption DEF Call

(* shutdown() leaves a legal mode and a legal load queue. *)
LEMMA BeginShutdownTypes ==
    ASSUME shutdownMode \in Modes, pluginsToLoad \in Seq(Plugins), BeginShutdown
    PROVE  shutdownMode' \in Modes /\ pluginsToLoad' \in Seq(Plugins)
<1>1. \/ shutdownMode' = "ShuttingDown" /\ pluginsToLoad' = <<>>
      \/ shutdownMode' = shutdownMode /\ pluginsToLoad' = pluginsToLoad
  BY Zenon DEF BeginShutdown
<1>2. "ShuttingDown" \in Modes /\ <<>> \in Seq(Plugins)
  BY DEF Modes
<1> QED
  BY <1>1, <1>2

(* Every step preserves the inductive invariant. *)
LEMMA NextIInv == IInv /\ [Next]_vars => IInv'
<1> SUFFICES ASSUME IInv, [Next]_vars PROVE IInv'
  OBVIOUS
<1> USE PluginAssumption
<1>0. /\ loadedPlugins \subseteq Plugins /\ unloading \subseteq loadedPlugins
      /\ QueueOK(posted, loadedPlugins, saved)
      /\ (shutdownMode = "ShuttingDown" => saved)
  BY DEF IInv, TypeOK, ShutdownPhase
<1>1. CASE LoadAllPlugins
  <2>1. PICK on \in SUBSET (Plugins \ Protocols) :
          /\ enabled' = on
          /\ \E s \in Pushes(ToLoad(TRUE, on, loadedPlugins)) : pluginsToLoad' = pluginsToLoad \o s
          /\ posted' = Append(ReadyForUnload(posted, ToUnload(TRUE, on, loadedPlugins)), LoadNext)
    BY <1>1 DEF LoadAllPlugins
  <2>2. pluginsToLoad' \in Seq(Plugins)
    <3>1. ToLoad(TRUE, on, loadedPlugins) \in SUBSET Plugins
      BY DEF ToLoad
    <3> QED
      <4>1. PICK s \in Pushes(ToLoad(TRUE, on, loadedPlugins)) : pluginsToLoad' = pluginsToLoad \o s
        BY <2>1
      <4>2. s \in Seq(Plugins)
        BY <3>1, PushesType
      <4> QED
        BY <4>1, <4>2 DEF IInv, TypeOK
  <2>3. QueueOK(posted', loadedPlugins, saved)
    <3>1. ToUnload(TRUE, on, loadedPlugins) \subseteq loadedPlugins
      BY DEF ToUnload
    <3>2. QueueOK(ReadyForUnload(posted, ToUnload(TRUE, on, loadedPlugins)), loadedPlugins, saved)
      BY <1>0, <3>1, QueueReady
    <3> QED
      BY <2>1, <3>2, QueueLoadNext
  <2>4. posted' \in Seq(EventType)
    BY <2>3 DEF QueueOK
  <2>5. TypeOK'
    <3>1. FlagTypes'
      BY <1>1, Zenon DEF LoadAllPlugins, IInv, TypeOK, FlagTypes
    <3>2. calls' \in 0..MaxCalls
      BY <1>1, CallType DEF LoadAllPlugins, IInv, TypeOK
    <3>3. UNCHANGED <<shutdownMode, loadedPlugins, allLoadedSignals, unloading, refReleases>>
      BY <1>1 DEF LoadAllPlugins
    <3> QED
      BY <2>1, <2>2, <2>4, <3>1, <3>2, <3>3 DEF IInv, TypeOK, FlagTypes
  <2>6. /\ QueueOK(posted, loadedPlugins, saved)'
        /\ UNCHANGED <<unloading, loadedPlugins, allLoadedSignals, shutdownMode, refReleases,
                       saved, shutdownTimer>>
    BY <1>1, <2>3 DEF LoadAllPlugins
  <2> QED
    BY <2>5, <2>6 DEF IInv, AllPluginsLoadedOnce, ReleasedAfterSave, ShutdownPhase
<1>2. ASSUME NEW p \in Plugins, LoadPluginSync(p) PROVE IInv'
  BY <1>0, <1>2 DEF LoadPluginSync, LoadPluginInternal, Call, QueueOK, config, IInv, TypeOK, AllPluginsLoadedOnce, ReleasedAfterSave, ShutdownPhase
<1>3. ASSUME NEW p \in Plugins, LoadPluginAsync(p) PROVE IInv'
  <2>1. QueueOK(posted', loadedPlugins, saved)
    BY <1>0, <1>3, QueueLoadNext DEF LoadPluginAsync
  <2>2. posted' \in Seq(EventType)
    BY <2>1 DEF QueueOK
  <2> QED
    BY <1>3, <2>1, <2>2 DEF LoadPluginAsync, Call, config, IInv, TypeOK, AllPluginsLoadedOnce, ReleasedAfterSave, ShutdownPhase
<1>4. ASSUME NEW p \in Plugins, UnloadPlugin(p) PROVE IInv'
  <2>1. unloading' \subseteq loadedPlugins /\ QueueOK(posted', loadedPlugins, saved)
    <3>1. {p} \in SUBSET loadedPlugins /\ AboutToUnload({p})
      BY <1>4 DEF UnloadPlugin
    <3> QED
      BY <1>0, <3>1, AboutToUnloadKeeps
  <2>2. posted' \in Seq(EventType)
    BY <2>1 DEF QueueOK
  <2> QED
    BY <1>4, <2>1, <2>2 DEF UnloadPlugin, Call, config, IInv, TypeOK, AllPluginsLoadedOnce, ReleasedAfterSave, ShutdownPhase
<1>5. ASSUME NEW p \in Plugins, PluginReady(p) PROVE IInv'
  <2>1. QueueOK(posted', loadedPlugins, saved)
    <3>1. {p} \in SUBSET loadedPlugins /\ posted' = ReadyForUnload(posted, {p})
      BY <1>0, <1>5 DEF PluginReady
    <3> QED
      BY <1>0, <3>1, QueueReady
  <2>2. posted' \in Seq(EventType)
    BY <2>1 DEF QueueOK
  <2> QED
    BY <1>0, <1>5, <2>1, <2>2 DEF PluginReady, config, IInv, TypeOK, AllPluginsLoadedOnce, ReleasedAfterSave, ShutdownPhase
<1>6. CASE Shutdown
  <2>1. unloading' \subseteq loadedPlugins /\ QueueOK(posted', loadedPlugins, saved)
    <3>1. CASE shutdownMode = "Running"
      <4>1. loadedPlugins \in SUBSET loadedPlugins /\ AboutToUnload(loadedPlugins)
        BY <1>6, <3>1 DEF Shutdown
      <4> QED
        BY <1>0, <4>1, AboutToUnloadKeeps
    <3>2. CASE shutdownMode # "Running"
      BY <1>0, <1>6, <3>2 DEF Shutdown
    <3> QED
      BY <3>1, <3>2
  <2>2. QueueOK(posted', loadedPlugins', saved')
    BY <1>6, <2>1 DEF Shutdown, BeginShutdown, QueueOK
  <2>3. posted' \in Seq(EventType)
    BY <2>1 DEF QueueOK
  <2>4. FlagTypes'
    BY <1>6, Zenon DEF Shutdown, BeginShutdown, config, IInv, TypeOK, FlagTypes
  <2>5. TypeOK'
    <3>1. calls' \in 0..MaxCalls
      BY <1>6, CallType DEF Shutdown, IInv, TypeOK
    <3>2. shutdownMode' \in Modes /\ pluginsToLoad' \in Seq(Plugins)
      BY <1>6, BeginShutdownTypes DEF Shutdown, IInv, TypeOK
    <3>3. UNCHANGED <<loadedPlugins, allLoadedSignals, refReleases, enabled>>
      BY <1>6 DEF Shutdown, config
    <3> QED
      BY <2>1, <2>3, <2>4, <3>1, <3>2, <3>3 DEF IInv, TypeOK, FlagTypes
  <2>6. (AllPluginsLoadedOnce /\ ReleasedAfterSave /\ ShutdownPhase)'
    BY <1>6 DEF Shutdown, BeginShutdown, IInv, TypeOK, AllPluginsLoadedOnce, ReleasedAfterSave, ShutdownPhase
  <2>7. loadedPlugins' = loadedPlugins
    BY <1>6 DEF Shutdown
  <2> QED
    BY <2>1, <2>2, <2>5, <2>6, <2>7 DEF IInv
<1>7. CASE QuitKopete
  <2>1. /\ loadedPlugins' \subseteq Plugins
        /\ unloading' \subseteq loadedPlugins'
        /\ QueueOK(posted', loadedPlugins', saved)
    <3>1. CASE loadedPlugins = {}
      BY <1>0, <1>7, <3>1 DEF QuitKopete
    <3>2. CASE loadedPlugins # {}
      <4>1. SlotPluginDestroyed(loadedPlugins, Purge(posted, loadedPlugins))
        BY <1>7, <3>2 DEF QuitKopete
      <4> QED
        BY <1>0, <4>1, DestroyedKeeps
    <3> QED
      BY <3>1, <3>2
  <2>2. QueueOK(posted', loadedPlugins', saved')
    BY <1>7, <2>1 DEF QuitKopete, BeginShutdown, QueueOK
  <2>3. posted' \in Seq(EventType)
    BY <2>1 DEF QueueOK
  <2>4. TypeOK'
    <3>1. calls' \in 0..MaxCalls
      BY <1>7, CallType DEF QuitKopete, IInv, TypeOK
    <3>2. shutdownMode' \in Modes /\ pluginsToLoad' \in Seq(Plugins)
      BY <1>7, BeginShutdownTypes DEF QuitKopete, IInv, TypeOK
    <3>3. UNCHANGED <<allLoadedSignals, refReleases, enabled>>
      BY <1>7 DEF QuitKopete, config
    <3>4. FlagTypes'
      BY <1>7, Zenon DEF QuitKopete, BeginShutdown, config, IInv, TypeOK, FlagTypes
    <3> QED
      BY <2>1, <2>3, <3>1, <3>2, <3>3, <3>4 DEF IInv, TypeOK, FlagTypes
  <2>5. (AllPluginsLoadedOnce /\ ReleasedAfterSave /\ ShutdownPhase)'
    BY <1>7 DEF QuitKopete, BeginShutdown, IInv, TypeOK, AllPluginsLoadedOnce, ReleasedAfterSave, ShutdownPhase
  <2> QED
    BY <2>1, <2>2, <2>4, <2>5 DEF IInv
<1>8. CASE SlotLoadNextPlugin
  <2>1. QueueOK(Tail(posted), loadedPlugins, saved)
    BY <1>0, <1>8, QueueTail DEF SlotLoadNextPlugin
  <2>2. CASE QueueDrained
    <3>1. QueueOK(posted, loadedPlugins, saved)' /\ (unloading \subseteq loadedPlugins)'
      BY <1>0, <1>8, <2>1, <2>2 DEF SlotLoadNextPlugin, QueueDrained
    <3>2. TypeOK'
      <4>1. FlagTypes'
        BY <1>8, Zenon DEF SlotLoadNextPlugin, config, IInv, TypeOK, FlagTypes
      <4> QED
        BY <1>8, <2>2, <3>1, <4>1
        DEF SlotLoadNextPlugin, QueueDrained, QueueOK, config, Modes, IInv, TypeOK, FlagTypes
    <3>3. (AllPluginsLoadedOnce /\ ReleasedAfterSave /\ ShutdownPhase)'
      BY <1>8, <2>2 DEF SlotLoadNextPlugin, QueueDrained, IInv, TypeOK, AllPluginsLoadedOnce, ReleasedAfterSave, ShutdownPhase
    <3> QED
      BY <3>1, <3>2, <3>3 DEF IInv
  <2>3. CASE LoadFromQueue
    <3>1. QueueOK(posted', loadedPlugins, saved)
      BY <2>1, <2>3, QueueLoadNext DEF LoadFromQueue
    <3>2. pluginsToLoad[Len(pluginsToLoad)] \in Plugins /\ pluginsToLoad' \in Seq(Plugins)
      BY <2>3 DEF LoadFromQueue, IInv, TypeOK
    <3>3. loadedPlugins \subseteq loadedPlugins' /\ loadedPlugins' \subseteq Plugins
      BY <1>0, <2>3, <3>2 DEF LoadFromQueue, LoadPluginInternal
    <3>4. QueueOK(posted', loadedPlugins', saved)
      BY <3>1, <3>3 DEF QueueOK
    <3> QED
      BY <1>8, <2>3, <3>2, <3>3, <3>4 DEF SlotLoadNextPlugin, LoadFromQueue, QueueOK, config, IInv, TypeOK, AllPluginsLoadedOnce, ReleasedAfterSave, ShutdownPhase
  <2> QED
    BY <1>8, <2>2, <2>3 DEF SlotLoadNextPlugin
<1>9. CASE DeletePlugin
  <2>1. /\ loadedPlugins' \subseteq Plugins
        /\ unloading' \subseteq loadedPlugins'
        /\ QueueOK(posted', loadedPlugins', saved)
    <3>1. CASE Head(posted).plugins = {} /\ posted' = Tail(posted) /\ UNCHANGED <<loadedPlugins, unloading>>
      BY <1>0, <1>9, <3>1, QueueTail DEF DeletePlugin
    <3>2. ASSUME NEW p \in Head(posted).plugins, SlotPluginDestroyed({p}, Purge(posted, {p}))
          PROVE  /\ loadedPlugins' \subseteq Plugins
                 /\ unloading' \subseteq loadedPlugins'
                 /\ QueueOK(posted', loadedPlugins', saved)
      <4>1. {p} \in SUBSET Plugins
        <5>1. Head(posted) \in EventType
          BY <1>0, <1>9 DEF DeletePlugin, QueueOK
        <5> QED
          BY <3>2, <5>1 DEF EventType
      <4> QED
        BY <1>0, <3>2, <4>1, DestroyedKeeps
    <3> QED
      BY <1>9, <3>1, <3>2 DEF DeletePlugin
  <2>2. posted' \in Seq(EventType)
    BY <2>1 DEF QueueOK
  <2> QED
    BY <1>9, <2>1, <2>2 DEF DeletePlugin, config, IInv, TypeOK, AllPluginsLoadedOnce, ReleasedAfterSave, ShutdownPhase
<1>10. CASE SlotShutdownDone
  <2>1. QueueOK(Tail(posted), loadedPlugins, saved)
    BY <1>0, <1>10, QueueTail DEF SlotShutdownDone
  <2>2. saved
    <3>1. Head(posted) = posted[1] /\ 1 \in 1..Len(posted)
      BY <1>0, <1>10 DEF SlotShutdownDone, QueueOK
    <3> QED
      BY <1>0, <1>10, <3>1 DEF SlotShutdownDone, QueueOK
  <2> QED
    BY <1>10, <2>1, <2>2 DEF SlotShutdownDone, ShutdownDoneSteps, QueueOK, config, Modes, IInv, TypeOK, AllPluginsLoadedOnce, ReleasedAfterSave, ShutdownPhase
<1>11. CASE SlotShutdownTimeout
  <2>1. QueueOK(posted, loadedPlugins, saved)' /\ (unloading \subseteq loadedPlugins)'
    BY <1>0, <1>11 DEF SlotShutdownTimeout
  <2>2. TypeOK'
    <3>1. FlagTypes'
      BY <1>11, Zenon DEF SlotShutdownTimeout, config, IInv, TypeOK, FlagTypes
    <3> QED
      BY <1>11, <3>1 DEF SlotShutdownTimeout, ShutdownDoneSteps, config, Modes, IInv, TypeOK, FlagTypes
  <2>3. (AllPluginsLoadedOnce /\ ReleasedAfterSave /\ ShutdownPhase)'
    BY <1>11 DEF SlotShutdownTimeout, ShutdownDoneSteps, IInv, TypeOK, AllPluginsLoadedOnce, ReleasedAfterSave, ShutdownPhase
  <2> QED
    BY <2>1, <2>2, <2>3 DEF IInv
<1>12. CASE DestroyManager
  <2>1. QueueOK(posted', loadedPlugins', saved')
    BY <1>12 DEF DestroyManager, QueueOK, Dying
  <2> QED
    BY <1>12, <2>1 DEF DestroyManager, QueueOK, config, IInv, TypeOK, AllPluginsLoadedOnce, ReleasedAfterSave, ShutdownPhase
<1>13. CASE UNCHANGED vars
  BY <1>0, <1>13 DEF vars, config, QueueOK, IInv, TypeOK, AllPluginsLoadedOnce, ReleasedAfterSave, ShutdownPhase
<1> QED
  BY <1>1, <1>2, <1>3, <1>4, <1>5, <1>6, <1>7, <1>8, <1>9, <1>10, <1>11, <1>12, <1>13
  DEF Next, EventLoop

(* The specification keeps the inductive invariant. *)
THEOREM Invariance == Spec => []IInv
<1> QED
  BY InitIInv, NextIInv, PTL DEF Spec

(* The manager's state and its posted events are always well formed. *)
THEOREM TypeCorrect == Spec => []TypeOK
<1>1. IInv => TypeOK
  BY DEF IInv
<1> QED
  BY <1>1, Invariance, PTL

(* No deferred deletion and no pending unload outlives its plugin, whether *)
(* deleted by the event loop or on the spot by quitKopete().               *)
THEOREM UnloadSafety == Spec => []UnloadsAreLoaded
<1>1. IInv => UnloadsAreLoaded
  BY DEF IInv, QueueOK, UnloadsAreLoaded
<1> QED
  BY <1>1, Invariance, PTL

(* slotShutdownDone() never overtakes the deletion of a plugin. *)
THEOREM ShutdownOrder == Spec => []DoneAfterDeletes
<1>1. IInv => DoneAfterDeletes
  BY DEF IInv, QueueOK, DoneAfterDeletes
<1> QED
  BY <1>1, Invariance, PTL

(* allPluginsLoaded() is emitted once; the event loop is released only     *)
(* after everything was saved.                                             *)
THEOREM ShutdownSafety == Spec => [](AllPluginsLoadedOnce /\ ReleasedAfterSave)
<1>1. IInv => AllPluginsLoadedOnce /\ ReleasedAfterSave
  BY DEF IInv
<1> QED
  BY <1>1, Invariance, PTL

(* Once the manager is done with the shutdown it has released the loop. *)
DoneIsReleased == shutdownMode = "DoneShutdown" => refReleases > 0

(* DoneIsReleased is inductive relative to IInv. *)
LEMMA DoneReleases == Spec => []DoneIsReleased
<1>1. Init => DoneIsReleased
  BY DEF Init, InitialMode, DoneIsReleased
<1>2. IInv /\ DoneIsReleased /\ [Next]_vars => DoneIsReleased'
  <2> SUFFICES ASSUME IInv, DoneIsReleased, [Next]_vars  PROVE DoneIsReleased'
    OBVIOUS
  <2>0. refReleases \in Nat
    BY DEF IInv, TypeOK
  <2>1. \/ UNCHANGED <<shutdownMode, refReleases>>
        \/ ShutdownDoneSteps
        \/ shutdownMode' \in {"Running", "ShuttingDown"}
    BY DEF Next, EventLoop, LoadAllPlugins, LoadPluginSync, LoadPluginAsync, UnloadPlugin, PluginReady,
           Shutdown, QuitKopete, BeginShutdown, SlotLoadNextPlugin, QueueDrained, LoadFromQueue,
           DeletePlugin, SlotShutdownDone, SlotShutdownTimeout, DestroyManager, vars
  <2> QED
    BY <2>0, <2>1 DEF DoneIsReleased, ShutdownDoneSteps
<1> QED
  BY <1>1, <1>2, Invariance, PTL DEF Spec

(* The steps of a shutdown that the rest of Kopete sees: shutdown() is     *)
(* ignored unless the manager is running.                                  *)
LEMMA QuitStep ==
    ASSUME BeginShutdown, shutdownCalled' = TRUE, UNCHANGED <<allLoadedSignals, refReleases>>
    PROVE  Life!Quit
BY DEF BeginShutdown, Life!Quit

(* slotShutdownDone() releases the event loop once; a second call, by the  *)
(* timer or by the event of the last plugin, is not seen.                  *)
LEMMA ReleaseStep ==
    ASSUME IInv, DoneIsReleased, ShutdownDoneSteps,
           shutdownMode \in {"ShuttingDown", "DoneShutdown"},
           UNCHANGED <<allLoadedSignals, shutdownCalled, saved>>
    PROVE  Life!Release \/ UNCHANGED Life!vars
<1>0. refReleases \in Nat
  BY DEF IInv, TypeOK
<1>1. (refReleases > 0)' = TRUE
  BY <1>0 DEF ShutdownDoneSteps
<1>2. CASE shutdownMode = "ShuttingDown"
  BY <1>1, <1>2 DEF ShutdownDoneSteps, Life!Release
<1>3. CASE shutdownMode = "DoneShutdown"
  <2>1. (refReleases > 0) = TRUE
    BY <1>0, <1>3 DEF DoneIsReleased
  <2> QED
    BY <1>1, <1>3, <2>1 DEF ShutdownDoneSteps, Life!vars
<1> QED
  BY <1>2, <1>3

(* Every step of the manager is a step of the life of the application or   *)
(* is not seen by the rest of Kopete.                                      *)
LEMMA LifeStep == IInv /\ DoneIsReleased /\ [Next]_vars => [Life!Next]_(Life!vars)
<1> SUFFICES ASSUME IInv, DoneIsReleased, [Next]_vars  PROVE Life!Next \/ UNCHANGED Life!vars
  OBVIOUS
<1>1. CASE UNCHANGED <<shutdownMode, allLoadedSignals, shutdownCalled, saved, refReleases>>
  BY <1>1 DEF Life!vars
<1>2. CASE Shutdown \/ QuitKopete
  BY <1>2, QuitStep DEF Shutdown, QuitKopete, Life!Next
<1>3. CASE SlotLoadNextPlugin
  <2>1. CASE shutdownMode = "StartingUp" /\ QueueDrained
    BY <1>3, <2>1 DEF SlotLoadNextPlugin, QueueDrained, Life!Next, Life!Start
  <2> QED
    BY <1>1, <1>3, <2>1 DEF SlotLoadNextPlugin, QueueDrained, LoadFromQueue
<1>4. CASE SlotShutdownDone
  <2>1. posted \in Seq(EventType) /\ posted # <<>> /\ Head(posted).type = "shutdownDone"
    BY <1>4 DEF SlotShutdownDone, IInv, TypeOK
  <2>2. 1 \in 1..Len(posted) /\ posted[1].type = "shutdownDone"
    BY <2>1
  <2>3. shutdownMode \in {"ShuttingDown", "DoneShutdown"}
    BY <2>2 DEF IInv, QueueOK, ShutdownPhase
  <2> QED
    BY <1>4, <2>3, ReleaseStep DEF SlotShutdownDone, Life!Next
<1>5. CASE SlotShutdownTimeout
  <2>1. shutdownMode \in {"ShuttingDown", "DoneShutdown"}
    BY <1>5 DEF SlotShutdownTimeout, IInv, ShutdownPhase
  <2> QED
    BY <1>1, <1>5, <2>1, ReleaseStep DEF SlotShutdownTimeout, Life!Next
<1>6. CASE ~(Shutdown \/ QuitKopete \/ SlotLoadNextPlugin \/ SlotShutdownDone \/ SlotShutdownTimeout)
  BY <1>1, <1>6 DEF Next, EventLoop, LoadAllPlugins, LoadPluginSync, LoadPluginAsync, UnloadPlugin,
                    PluginReady, DeletePlugin, DestroyManager, vars
<1> QED
  BY <1>2, <1>3, <1>4, <1>5, <1>6

(* The manager's steps are those of the abstract life of the application:  *)
(* it starts once and says so once, a shutdown saves before the event loop *)
(* is released, and no mode comes back.  (The liveness half of Life!Spec   *)
(* is left to TLC.)                                                        *)
THEOREM RefinesLifecycle == Spec => Life!Init /\ [][Life!Next]_(Life!vars)
<1>1. Init => Life!Init
  BY DEF Init, InitialMode, Life!Init
<1> QED
  BY <1>1, LifeStep, Invariance, DoneReleases, PTL DEF Spec
=============================================================================
