----------------------------- MODULE ContactList -----------------------------
(***************************************************************************)
(* The contact list and its file: Kopete::ContactList, MetaContact and     *)
(* Contact as far as they make up the list, XmlContactStorage, and the     *)
(* protocols that turn what the file says of a contact into the contact.   *)
(*                                                                         *)
(* The list is loaded before the protocols are, so a metacontact keeps the *)
(* data of its contacts (pluginContactData) until their protocol comes.    *)
(* Changes are saved later, by a timer, and at the end of the program.     *)
(*                                                                         *)
(* Every action is a handler together with the deferred deletions it asks  *)
(* for, which run before the next event.  Names, photos, icons and the     *)
(* address book are left out.                                              *)
(***************************************************************************)
EXTENDS Naturals, SequencesExt, Lists

CONSTANTS
    Metas,          \* metacontacts, by metaContactId()
    Groups,         \* groups of type Normal, by groupId()
    Contacts,       \* contacts, by account and contactId()
    Protocols,
    ProtocolOf,     \* the protocol of each contact
    Nobody,         \* the metacontact of a contact that does not exist
    MaxOps,         \* bound on what the user or a server changes
    MaxFailures,    \* bound on the times a file cannot be read or written
    MaxEnds         \* bound on the times the program ends or crashes

ASSUME ContactListAssumption ==
    /\ ProtocolOf \in [Contacts -> Protocols]
    /\ Nobody \notin Metas
    /\ {MaxOps, MaxFailures, MaxEnds} \subseteq Nat

VARIABLES
    phase,          \* "down", "running" or, after shutdown(), "terminated"
    meta,           \* the metacontacts of the list
    owner,          \* Contact::metaContact(), Nobody if there is no such contact
    groups,         \* the groups of the list, Top aside
    protocols,      \* the protocols that are loaded
    saveTimer,      \* is active
    file,           \* contactlist.xml
    kept,           \* history: contacts that nothing known should have taken away
    budget          \* what is left of the bounds

vars == <<phase, meta, owner, groups, protocols, saveTimer, file, kept, budget>>

Top == "top-level"
Temporary == "temporary"
AllGroups == Groups \cup {Top, Temporary}

(* A metacontact.  One made from the file listens to the loading of        *)
(* protocols; groups() is a list.                                          *)
MetaType ==
    [contacts : SUBSET Contacts,
     pluginContactData : SUBSET Contacts,
     groups : Seq(AllGroups),
     temporary : BOOLEAN,
     listens : BOOLEAN]

EntryType == [groups : Seq(AllGroups), contacts : SUBSET Contacts]

Of(p) == {c \in Contacts : ProtocolOf[c] = p}
-----------------------------------------------------------------------------
(* Definitions named Mutant... are the forms a slip in the code would give *)
(* the definition that follows; the specification never uses them.         *)

(* MetaContact::addToGroup() and removeFromGroup() on the groups gs of a   *)
(* metacontact.                                                            *)
AddToGroup(gs, temporary, to) ==
    IF Contains(gs, to) \/ (temporary /\ to # Temporary) THEN gs
    ELSE Append(Omit(gs, Top), to)

(* The last group can be left. *)
MutantRemoveFromGroup(gs, temporary, g) ==
    IF ~Contains(gs, g) \/ (temporary /\ g = Temporary) THEN gs
    ELSE Omit(gs, g)

RemoveFromGroup(gs, temporary, g) ==
    IF ~Contains(gs, g) \/ (temporary /\ g = Temporary) THEN gs
    ELSE IF Omit(gs, g) = <<>> THEN <<Top>> ELSE Omit(gs, g)

MoveToGroup(gs, temporary, from, to) ==
    IF ~Contains(gs, from) THEN AddToGroup(gs, temporary, to)
    ELSE IF from = to THEN gs
    ELSE IF Contains(gs, to) THEN RemoveFromGroup(gs, temporary, from)
    ELSE IF temporary /\ to # Temporary THEN gs
    ELSE Append(Omit(gs, from), to)

(* A new metacontact is added to the groups gs, one after the other; its   *)
(* constructor put it into the top-level group.                            *)
AddToEach(gs) ==
    LET F[i \in 0..Len(gs)] ==
            IF i = 0 THEN <<Top>> ELSE AddToGroup(F[i - 1], FALSE, gs[i])
    IN  F

AddToAll(gs) == AddToEach(gs)[Len(gs)]

NewMeta(gs, temporary) ==
    [contacts |-> {}, pluginContactData |-> {}, groups |-> gs,
     temporary |-> temporary, listens |-> FALSE]

(* MetaContact::setTemporary(false, group) *)
Permanent(r, group) ==
    [r EXCEPT !.temporary = FALSE,
              !.groups = MoveToGroup(r.groups, FALSE, Temporary, group)]

(* The list of metacontacts with one more, and without some. *)
With(M, m, r) == [n \in DOMAIN M \cup {m} |-> IF n = m THEN r ELSE M[n]]

Without(M, S) == Restrict(M, DOMAIN M \ S)

(* The contact is put into the new metacontact before it leaves the old,   *)
(* which it then leaves for good.                                          *)
MutantSetMetaContact(M, c, old, m) ==
    LET left == M[old].contacts \ {c}
        N == IF left = {} THEN Without(M, {old})
             ELSE [M EXCEPT ![old].pluginContactData = (@ \ Of(ProtocolOf[c])) \cup (left \cap Of(ProtocolOf[c]))]
    IN  [N EXCEPT ![m].contacts = @ \cup {c}]

(* Contact::setMetaContact(m), with M the metacontacts and `old' the       *)
(* contact's so far: a metacontact without contacts is removed, in another *)
(* the data of the protocol's contacts are renewed.                        *)
SetMetaContact(M, c, old, m) ==
    LET left == M[old].contacts \ {c}
        N == IF left = {} THEN Without(M, {old})
             ELSE [M EXCEPT ![old].contacts = left,
                            ![old].pluginContactData =
                                (@ \ Of(ProtocolOf[c])) \cup (left \cap Of(ProtocolOf[c]))]
    IN  [N EXCEPT ![m].contacts = @ \cup {c}]

(* What XmlContactStorage::save() writes. *)
Snapshot ==
    [groups |-> groups,
     metas |-> [m \in {x \in DOMAIN meta : ~meta[x].temporary} |->
                   [groups |-> meta[m].groups, contacts |-> meta[m].contacts]]]

(* MetaContact::serialize(), of every metacontact that is saved: all data  *)
(* are cleared, those of the contacts there are set again.                 *)
Serialized ==
    [m \in DOMAIN meta |-> IF meta[m].temporary THEN meta[m]
                           ELSE [meta[m] EXCEPT !.pluginContactData = meta[m].contacts]]

(* The contacts whose data wait for their protocol in a metacontact of D;  *)
(* they are lost with it.                                                  *)
Waiting(D) ==
    {c \in UNION {meta[m].pluginContactData : m \in D} : ProtocolOf[c] \notin protocols}

Saved == {m \in DOMAIN meta : ~meta[m].temporary}
OnFile == UNION {file.metas[m].contacts : m \in DOMAIN file.metas}

(* slotSaveLater(): every change starts the timer. *)
SlotSaveLater == saveTimer' = (phase # "terminated")

Spend(what) == budget[what] > 0 /\ budget' = [budget EXCEPT ![what] = @ - 1]
-----------------------------------------------------------------------------
(* Contacts, as the user, a server or a chat adds, moves and removes them. *)

Change == phase = "running" /\ Spend("ops") /\ UNCHANGED <<phase, protocols, file>>

(* Account::addContact() of a contact that does not exist. *)
AddContact(c, m, group, temporary) ==
    /\ Change
    /\ owner[c] = Nobody /\ ProtocolOf[c] \in protocols /\ m \notin DOMAIN meta
    /\ LET gs == AddToGroup(<<Top>>, temporary, IF temporary THEN Temporary ELSE group)
       IN  meta' = With(meta, m, [NewMeta(gs, temporary) EXCEPT !.contacts = {c}])
    /\ owner' = [owner EXCEPT ![c] = m]
    /\ kept' = IF temporary THEN kept ELSE kept \cup {c}
    /\ SlotSaveLater /\ UNCHANGED groups

(* Account::addContact() of one that was temporary. *)
AddTemporary(c, group) ==
    /\ Change
    /\ owner[c] # Nobody /\ meta[owner[c]].temporary
    /\ meta' = [meta EXCEPT ![owner[c]] = Permanent(@, group)]
    /\ kept' = kept \cup meta[owner[c]].contacts
    /\ SlotSaveLater /\ UNCHANGED <<owner, groups>>

(* Account::addContact() to a metacontact; a contact that exists moves if  *)
(* it was temporary.                                                       *)
AddContactTo(c, m) ==
    /\ Change
    /\ ProtocolOf[c] \in protocols
    /\ IF owner[c] = Nobody THEN meta' = [meta EXCEPT ![m].contacts = @ \cup {c}]
       ELSE /\ owner[c] # m /\ meta[owner[c]].temporary /\ ~meta[m].temporary
            /\ meta' = SetMetaContact(meta, c, owner[c], m)
    /\ owner' = [owner EXCEPT ![c] = m]
    /\ kept' = IF meta[m].temporary THEN kept ELSE kept \cup {c}
    /\ SlotSaveLater /\ UNCHANGED groups

(* Contact::changeMetaContact() to a metacontact the dialog offers or to a *)
(* new one in the same groups.                                             *)
ChangeMetaContact(c, m) ==
    LET old == owner[c]
        M == IF m \in DOMAIN meta THEN meta
             ELSE With(meta, m, NewMeta(AddToAll(meta[old].groups), FALSE))
    IN  /\ Change
        /\ old # Nobody /\ old # m /\ ~M[m].temporary
        /\ meta' = SetMetaContact(M, c, old, m)
        /\ owner' = [owner EXCEPT ![c] = m]
        /\ kept' = (IF old \in DOMAIN meta' THEN kept ELSE kept \ Waiting({old})) \cup {c}
        /\ SlotSaveLater /\ UNCHANGED groups

(* ContactList::mergeMetaContacts() of one metacontact into another: every *)
(* contact is moved, and with the last one the metacontact is removed.     *)
MergeMetaContacts(src, dst) ==
    LET moved == meta[src].contacts
    IN  /\ Change
        /\ src # dst
        /\ IF moved = {} THEN UNCHANGED <<meta, owner, kept, saveTimer>>
           ELSE /\ meta' = [Without(meta, {src}) EXCEPT ![dst].contacts = @ \cup moved]
                /\ owner' = [c \in Contacts |-> IF c \in moved THEN dst ELSE owner[c]]
                /\ kept' = IF meta[dst].temporary THEN kept \ (moved \cup Waiting({src}))
                           ELSE (kept \ Waiting({src})) \cup moved
                /\ SlotSaveLater
        /\ UNCHANGED groups

(* A contact is destroyed; its metacontact stays. *)
ContactDestroyed(c) ==
    /\ Change
    /\ owner[c] # Nobody
    /\ meta' = [meta EXCEPT ![owner[c]].contacts = @ \ {c}]
    /\ owner' = [owner EXCEPT ![c] = Nobody]
    /\ kept' = kept \ {c}
    /\ SlotSaveLater /\ UNCHANGED groups

(* The contacts left stay behind. *)
MutantDestroyed(S) == owner

(* A metacontact's contacts are its children and are deleted with it. *)
Destroyed(S) ==
    [c \in Contacts |-> IF c \in UNION {meta[m].contacts : m \in S} THEN Nobody ELSE owner[c]]

RemoveMetaContact(m) ==
    /\ Change
    /\ meta' = Without(meta, {m})
    /\ owner' = Destroyed({m})
    /\ kept' = kept \ (meta[m].contacts \cup Waiting({m}))
    /\ SlotSaveLater /\ UNCHANGED groups
-----------------------------------------------------------------------------
(* Groups. *)

AddGroup(g) ==
    /\ Change
    /\ g \notin groups /\ groups' = groups \cup {g}
    /\ SlotSaveLater /\ UNCHANGED <<meta, owner, kept>>

(* ContactList::removeGroup() removes the metacontacts that are in no      *)
(* other group.                                                            *)
RemoveGroup(g) ==
    LET only == {m \in DOMAIN meta : meta[m].groups = <<g>>}
    IN  /\ Change
        /\ g \in groups /\ groups' = groups \ {g}
        /\ meta' = [m \in DOMAIN meta \ only |->
                       [meta[m] EXCEPT !.groups = RemoveFromGroup(@, meta[m].temporary, g)]]
        /\ owner' = Destroyed(only)
        /\ kept' = kept \ ((UNION {meta[m].contacts : m \in only}) \cup Waiting(only))
        /\ SlotSaveLater

Regroup(m, gs) ==
    /\ Change
    /\ gs # meta[m].groups
    /\ meta' = [meta EXCEPT ![m].groups = gs]
    /\ SlotSaveLater /\ UNCHANGED <<owner, groups, kept>>

(* The contact list view and the protocols. *)
RegroupMeta(m) ==
    LET r == meta[m]
        known == groups \cup {Top}
    IN  \/ \E g \in known : Regroup(m, AddToGroup(r.groups, r.temporary, g))
        \/ \E g \in ToSet(r.groups) : Regroup(m, RemoveFromGroup(r.groups, r.temporary, g))
        \/ \E f \in ToSet(r.groups), g \in known : Regroup(m, MoveToGroup(r.groups, r.temporary, f, g))
-----------------------------------------------------------------------------
(* Protocols. *)

(* MetaContact::slotProtocolLoaded(): contacts are made from the data; of  *)
(* a myself contact, or without an account for it, none is made.  Of two   *)
(* metacontacts with data of the same contact only the first gets it.      *)
LoadProtocol(p) ==
    LET Has(m, c) == meta[m].listens /\ c \in meta[m].pluginContactData
        claimed == {c \in Of(p) : \E m \in DOMAIN meta : Has(m, c)}
    IN  /\ phase = "running" /\ p \notin protocols
        /\ protocols' = protocols \cup {p}
        /\ \E made \in SUBSET claimed : \E first \in [made -> DOMAIN meta] :
             /\ \A c \in made : Has(first[c], c)
             /\ meta' = [m \in DOMAIN meta |->
                            [meta[m] EXCEPT !.contacts = @ \cup {c \in made : first[c] = m}]]
             /\ owner' = [c \in Contacts |-> IF c \in made THEN first[c] ELSE owner[c]]
             /\ kept' = kept \ (claimed \ made)
             /\ IF made # {} THEN SlotSaveLater ELSE UNCHANGED saveTimer
        /\ UNCHANGED <<phase, groups, file, budget>>

(* The accounts of the protocol are deleted and their contacts with them:  *)
(* after the user removed the last account, or after shutdown().           *)
UnloadProtocol(p) ==
    /\ IF phase = "running" THEN Spend("ops") ELSE phase = "terminated" /\ UNCHANGED budget
    /\ p \in protocols /\ protocols' = protocols \ {p}
    /\ meta' = [m \in DOMAIN meta |-> [meta[m] EXCEPT !.contacts = @ \ Of(p)]]
    /\ owner' = [c \in Contacts |-> IF c \in Of(p) THEN Nobody ELSE owner[c]]
    /\ kept' = IF phase = "running" THEN kept \ Of(p) ELSE kept
    /\ IF \E c \in Of(p) : owner[c] # Nobody THEN SlotSaveLater ELSE UNCHANGED saveTimer
    /\ UNCHANGED <<phase, groups, file>>
-----------------------------------------------------------------------------
(* The file. *)

(* XmlContactStorage::load(): groups that are not in the file are ignored. *)
LoadedGroups(gs) == AddToAll(Only(gs, file.groups \cup {Top}))

LoadedMeta(e) ==
    [NewMeta(LoadedGroups(e.groups), FALSE) EXCEPT !.pluginContactData = e.contacts, !.listens = TRUE]

(* ContactList::load() when the program starts.  Adding the groups and     *)
(* metacontacts starts the timer.                                          *)
Load ==
    /\ phase = "down" /\ phase' = "running"
    /\ groups' = file.groups
    /\ meta' = [m \in DOMAIN file.metas |-> LoadedMeta(file.metas[m])]
    /\ saveTimer' = TRUE
    /\ UNCHANGED <<owner, protocols, file, kept, budget>>

(* A file that cannot be read or is too old leaves the list empty. *)
LoadFails ==
    /\ phase = "down" /\ phase' = "running"
    /\ Spend("failures")
    /\ kept' = {}
    /\ UNCHANGED <<meta, owner, groups, protocols, saveTimer, file>>

(* A retry is not scheduled. *)
MutantTryAgain == FALSE

(* save() starts the timer again when it fails. *)
TryAgain == TRUE

(* What a save does not write although nobody removed it. *)
Dropped == Waiting(Saved)

(* XmlContactStorage::save() when everything goes well. *)
Saves == file' = Snapshot /\ meta' = Serialized

(* ContactList::save() from the timer.  The file may not open, or what was *)
(* written may not be committed.                                           *)
Save ==
    /\ saveTimer /\ phase = "running"
    /\ \/ Saves /\ saveTimer' = FALSE /\ kept' = kept \ Dropped /\ UNCHANGED budget
       \/ Spend("failures") /\ saveTimer' = TryAgain /\ UNCHANGED <<file, meta, kept>>
       \/ Spend("failures") /\ saveTimer' = TryAgain /\ meta' = Serialized
          /\ kept' = kept \ Dropped /\ UNCHANGED file
    /\ UNCHANGED <<phase, owner, groups, protocols>>

(* The list is terminated before it is saved. *)
MutantShutdownSaves == UNCHANGED <<file, meta>> /\ kept' = kept \ Dropped

ShutdownSaves == Saves /\ kept' = kept \ Dropped

(* ContactList::shutdown() *)
Shutdown ==
    /\ phase = "running" /\ phase' = "terminated"
    /\ Spend("ends")
    /\ \/ ShutdownSaves
       \/ UNCHANGED <<file, meta>> /\ kept' = kept \cap OnFile
    /\ saveTimer' = FALSE
    /\ UNCHANGED <<owner, groups, protocols>>

(* The list without its contacts. *)
Cleared(list) ==
    [groups |-> list.groups,
     metas |-> [m \in DOMAIN list.metas |-> [groups |-> list.metas[m].groups, contacts |-> {}]]]

(* KopeteApplication::quitKopete() and ~KopeteApplication() delete every   *)
(* protocol, and with it the accounts and their contacts, and only then    *)
(* call shutdown(): what that saves is a list without contacts.            *)
QuitKopete ==
    /\ phase = "running" /\ phase' = "terminated"
    /\ Spend("ends")
    /\ protocols' = {} /\ owner' = [c \in Contacts |-> Nobody]
    /\ \E saved \in BOOLEAN :
         /\ file' = IF saved THEN Cleared(Snapshot) ELSE file
         /\ meta' = [m \in DOMAIN meta |->
                       [meta[m] EXCEPT !.contacts = {},
                                       !.pluginContactData = IF saved /\ ~meta[m].temporary THEN {} ELSE @]]
    /\ kept' = kept \cap OnFile'
    /\ saveTimer' = FALSE
    /\ UNCHANGED groups

Gone ==
    /\ phase' = "down"
    /\ meta' = <<>> /\ owner' = [c \in Contacts |-> Nobody]
    /\ groups' = {} /\ protocols' = {} /\ saveTimer' = FALSE
    /\ UNCHANGED file

Exit == phase = "terminated" /\ Gone /\ UNCHANGED <<kept, budget>>

Crash == phase = "running" /\ Spend("ends") /\ Gone /\ kept' = kept \cap OnFile
-----------------------------------------------------------------------------
(* The file of an earlier session: every contact in at most one            *)
(* metacontact.                                                            *)
InitFiles ==
    {f \in [groups : SUBSET Groups,
            metas : UNION {[S -> [groups : {<<Top>>} \cup {<<g>> : g \in Groups}, contacts : SUBSET Contacts]] : S \in SUBSET Metas}] :
        /\ \A m \in DOMAIN f.metas : ToSet(f.metas[m].groups) \subseteq f.groups \cup {Top}
        /\ \A m, n \in DOMAIN f.metas : m # n => f.metas[m].contacts \cap f.metas[n].contacts = {}}

Init ==
    /\ phase = "down"
    /\ meta = <<>> /\ owner = [c \in Contacts |-> Nobody]
    /\ groups = {} /\ protocols = {}
    /\ saveTimer = FALSE
    /\ file \in InitFiles
    /\ kept = OnFile
    /\ budget = [ops |-> MaxOps, failures |-> MaxFailures, ends |-> MaxEnds]

Changes ==
    \/ \E c \in Contacts, m \in Metas, g \in groups \cup {Top}, t \in BOOLEAN : AddContact(c, m, g, t)
    \/ \E c \in Contacts, g \in groups \cup {Top} : AddTemporary(c, g)
    \/ \E c \in Contacts, m \in DOMAIN meta : AddContactTo(c, m)
    \/ \E c \in Contacts, m \in Metas : ChangeMetaContact(c, m)
    \/ \E src, dst \in DOMAIN meta : MergeMetaContacts(src, dst)
    \/ \E c \in Contacts : ContactDestroyed(c)
    \/ \E m \in DOMAIN meta : RemoveMetaContact(m) \/ RegroupMeta(m)
    \/ \E g \in Groups : AddGroup(g) \/ RemoveGroup(g)

Next ==
    \/ Changes
    \/ \E p \in Protocols : LoadProtocol(p) \/ UnloadProtocol(p)
    \/ Load \/ LoadFails \/ Save
    \/ Shutdown \/ QuitKopete \/ Exit \/ Crash

Spec == Init /\ [][Next]_vars
FairSpec == Spec /\ WF_vars(Save)
-----------------------------------------------------------------------------
(* Properties. *)

(* Types; no contact points to a metacontact that was deleted. *)
TypeOK ==
    /\ phase \in {"down", "running", "terminated"}
    /\ DOMAIN meta \subseteq Metas /\ meta \in [DOMAIN meta -> MetaType]
    /\ owner \in [Contacts -> DOMAIN meta \cup {Nobody}]
    /\ groups \subseteq Groups
    /\ protocols \subseteq Protocols
    /\ saveTimer \in BOOLEAN
    /\ file.groups \subseteq Groups
    /\ DOMAIN file.metas \subseteq Metas /\ file.metas \in [DOMAIN file.metas -> EntryType]
    /\ kept \subseteq Contacts
    /\ budget \in [{"ops", "failures", "ends"} -> Nat]

(* MetaContact::contacts() and Contact::metaContact() are kept by          *)
(* different objects and changed one after the other: they agree, and no   *)
(* contact outlives its protocol.                                          *)
MembershipAgrees ==
    \A c \in Contacts :
        /\ \A m \in DOMAIN meta : c \in meta[m].contacts <=> owner[c] = m
        /\ owner[c] # Nobody => ProtocolOf[c] \in protocols

(* Whatever is added, moved, removed or read back, a metacontact is in at  *)
(* least one group, in none twice and in none that was deleted, and a      *)
(* temporary one is in the temporary group alone.                          *)
GroupsSound ==
    \A m \in DOMAIN meta :
        LET gs == meta[m].groups
        IN  /\ gs # <<>> /\ IsInjective(gs)
            /\ ToSet(gs) \subseteq groups \cup {Top, Temporary}
            /\ meta[m].temporary => gs = <<Temporary>>

(* A contact of the list is there, or its data wait for its protocol, or,  *)
(* when the program has ended, it is in the file.  Contacts leave `kept'   *)
(* where somebody removes them and where the code is known to lose them:   *)
(* a save while their protocol is not loaded, a protocol that does not     *)
(* make them from their data, the end of their metacontact before it is    *)
(* loaded, a merge into a temporary metacontact, an end of the program     *)
(* with changes not saved, a file that cannot be read, and a quitKopete()  *)
(* that deletes the protocols and then saves (see SavesWhatIsThere).       *)
NothingForgotten ==
    \A c \in kept :
        IF phase # "running" THEN c \in OnFile
        ELSE IF ProtocolOf[c] \in protocols THEN owner[c] \in Saved
        ELSE \E m \in Saved : meta[m].listens /\ c \in meta[m].pluginContactData

(* The comment in PluginManager::shutdown() (kopetepluginmanager.cpp:187): *)
(* the list is saved there "just in case a change was made very recently   *)
(* and it hasn't autosaved yet".  So what the end of the program writes is *)
(* the list as the user left it.  quitKopete() does not keep to that.      *)
SavesWhatIsThere ==
    [][phase = "running" /\ phase' = "terminated" => file' \in {file, Snapshot}]_vars

(* What the list promises its users: it is a store that is written back,   *)
(* as ListStore describes, whatever fails and whenever the program ends.   *)
Store ==
    INSTANCE ListStore WITH
        open <- phase = "running",
        memory <- IF phase = "running" THEN Snapshot ELSE Nobody,
        nothing <- Nobody,
        empty <- [groups |-> {}, metas |-> <<>>],
        Cleared <- Cleared,
        dirty <- saveTimer,
        disk <- file

(* The list implements that store: what reaches the file is the whole list *)
(* as it was at one moment, no change goes without a save being scheduled, *)
(* nothing is written after shutdown(), and once changes and failures      *)
(* cease the file is up to date.                                           *)
ImplementsStore == Store!Spec
=============================================================================
