--------------------------- MODULE KnowledgeStore ---------------------------
(***************************************************************************)
(* The knowledge layer as a state machine: the in-memory entities of       *)
(* services/KnowledgeStore.cpp and the files of                            *)
(* persistence/FileKnowledgeStore.cpp, through discoveries, credential     *)
(* updates, archiving, communication records, process stops at any point   *)
(* and restarts.                                                           *)
(*                                                                         *)
(* Every handler ends in PersistEntity.  SaveEntityData opens the file     *)
(* with std::ios::trunc and then writes it; the two are separate steps     *)
(* here, because the process can stop between them.  The handlers are      *)
(* synchronous: none starts while a save is under way.                     *)
(***************************************************************************)
EXTENDS KnowledgeEntity, FiniteSets

CONSTANTS
    Network,    \* NetworkFingerprint::CalculateId() values
    File,       \* names of entity files inside a network directory
    FileOf,     \* GetEntityFilePath: the file of an id; ids may share one
    NoFile,     \* no such file
    EmptyFile,  \* a file without content
    NoEntity,   \* an id without entry in m_entities
    Live,       \* bound: the devices discovery may report
    Outcome,    \* bound: results a communication may be recorded with
    Archivable  \* bound: the entities a user may archive

ASSUME StoreAssumption ==
    /\ FileOf \in [Id -> File]
    /\ NoEntity \notin Entity
    /\ NoFile \notin Text /\ EmptyFile \notin Text
    /\ Live \subseteq LiveDevice
    /\ Outcome \subseteq {"success", "failure"}
    /\ Archivable \subseteq Id

VARIABLES
    up,          \* a process runs and has resolved its network
    net,         \* m_currentNetwork
    m_entities,  \* m_entities, NoEntity for an id that is not a key
    disk,        \* the files below the base directory
    saving,      \* the entity PersistEntity was called for, or NoId
    opened,      \* its file is open, and therefore truncated
    unsaved,     \* history: entities whose last save failed
    now          \* the clock, in days

vars == <<up, net, m_entities, disk, saving, opened, unsaved, now>>

TypeOK ==
    /\ up \in BOOLEAN
    /\ net \in Network
    /\ m_entities \in [Id -> Entity \cup {NoEntity}]
    /\ disk \in [Network -> [File -> Text \cup {NoFile, EmptyFile}]]
    /\ saving \in Id \cup {NoId}
    /\ opened \in BOOLEAN
    /\ unsaved \subseteq Id
    /\ now \in Time

Known(i) == m_entities[i] # NoEntity

Idle == up /\ saving = NoId

HasText(content) == content \notin {NoFile, EmptyFile}

Init ==
    /\ up = FALSE
    /\ net \in Network
    /\ m_entities = [i \in Id |-> NoEntity]
    /\ disk = [n \in Network |-> [f \in File |-> NoFile]]
    /\ saving = NoId
    /\ opened = FALSE
    /\ unsaved = {}
    /\ now \in Time \ {0}

-----------------------------------------------------------------------------
(* Loading.                                                                *)

\* Fault: the directory is still that of the previous network.
LoadAllEntitiesOfPrevious(n) ==
    {disk[net][f] : f \in {g \in File : HasText(disk[net][g])}}

\* LoadAllEntities: the records of the files that are there and not empty.
LoadAllEntities(n) == {disk[n][f] : f \in {g \in File : HasText(disk[n][g])}}

\* The records that name i.  By FilesHoldTheirOwn there is at most one.
RecordsOf(n, i) == {t \in LoadAllEntities(n) : t.pid = i}

\* ResolveKnownNetwork: the first thing a process does; the interface also
\* allows it later, for another network.  It replaces all that is in memory.
ResolveKnownNetwork(n) ==
    /\ saving = NoId
    /\ up' = TRUE
    /\ net' = n
    /\ m_entities' =
         [i \in Id |->
            IF RecordsOf(n, i) = {} THEN NoEntity
            ELSE DeserializeEntity(CHOOSE t \in RecordsOf(n, i) : TRUE)]
    /\ unsaved' = {}
    /\ UNCHANGED <<disk, saving, opened, now>>

-----------------------------------------------------------------------------
(* Handlers.                                                               *)

\* Fault: the change stays in memory.
PersistEntityLater(i) ==
    /\ saving' = NoId
    /\ opened' = FALSE

PersistEntity(i) ==
    /\ saving' = i
    /\ opened' = FALSE

UpdateFromDiscovery(d) ==
    /\ Idle
    /\ m_entities' = [m_entities EXCEPT ![d.id] =
                        IF Known(d.id) THEN MergedEntity(@, d, now)
                        ELSE NewEntity(d, now)]
    /\ PersistEntity(d.id)
    /\ UNCHANGED <<up, net, disk, unsaved, now>>

\* Fault: an entity that was not observed yet has an empty last identity,
\* and the empty id is taken for any id.
MatchesUnobserved(i, deviceId) ==
    Known(i) /\ (i = deviceId \/ m_entities[i].last \in {deviceId, NoId})

\* The test by which UpdateCredentials and InjectCredentials find an entity.
Matches(i, deviceId) ==
    Known(i) /\ (i = deviceId \/ m_entities[i].last = deviceId)

\* A strategy hands the store the credential the device answered with.  The
\* code takes the first match; by OneEntityPerDevice there is only one.
UpdateCredentials(deviceId, serial) ==
    /\ Idle
    /\ \E i \in Id :
         /\ Matches(i, deviceId)
         /\ m_entities' = [m_entities EXCEPT ![i].cred =
                             [issuer |-> deviceId, serial |-> serial]]
         /\ PersistEntity(i)
    /\ UNCHANGED <<up, net, disk, unsaved, now>>

\* AuthenticationManager::InjectCredentials: what a request to a device may
\* be sent with.
InjectCredentials(deviceId) ==
    {m_entities[i].cred : i \in {j \in Id : Matches(j, deviceId)}} \ {NoToken}

ArchiveEntity(i) ==
    /\ Idle
    /\ Known(i)
    /\ m_entities' = [m_entities EXCEPT ![i].archived = TRUE]
    /\ PersistEntity(i)
    /\ UNCHANGED <<up, net, disk, unsaved, now>>

AppendCommunicationRecord(i, status) ==
    /\ Idle
    /\ Known(i)
    /\ m_entities' = [m_entities EXCEPT ![i].comm = status]
    /\ PersistEntity(i)
    /\ UNCHANGED <<up, net, disk, unsaved, now>>

-----------------------------------------------------------------------------
(* SaveEntityData.                                                         *)

Content(i) == disk[net][FileOf[i]]

\* Fault: the path is that of the first entity in the map.
StoreContentInFirst(i, content) ==
    disk' = [disk EXCEPT ![net][FileOf[CHOOSE j \in Id : Known(j)]] = content]

StoreContent(i, content) ==
    disk' = [disk EXCEPT ![net][FileOf[i]] = content]

\* The directory or the file cannot be opened: a message, and no error for
\* the caller.
OpenFails ==
    /\ saving # NoId /\ ~ opened
    /\ saving' = NoId
    /\ unsaved' = unsaved \cup {saving}
    /\ UNCHANGED <<up, net, m_entities, disk, opened, now>>

OpenTruncates ==
    /\ saving # NoId /\ ~ opened
    /\ StoreContent(saving, EmptyFile)
    /\ opened' = TRUE
    /\ UNCHANGED <<up, net, m_entities, saving, unsaved, now>>

WriteCompletes ==
    /\ opened
    /\ StoreContent(saving, SerializeEntity(saving, m_entities[saving]))
    /\ saving' = NoId
    /\ opened' = FALSE
    /\ unsaved' = unsaved \ {saving}
    /\ UNCHANGED <<up, net, m_entities, now>>

\* A full disk: the stream goes bad, nobody looks, the file keeps nothing or
\* a prefix.
WriteStopsShort ==
    /\ opened
    /\ \E t \in {EmptyFile} \cup
                CutTexts(SerializeEntity(saving, m_entities[saving])) :
          StoreContent(saving, t)
    /\ saving' = NoId
    /\ opened' = FALSE
    /\ unsaved' = unsaved \cup {saving}
    /\ UNCHANGED <<up, net, m_entities, now>>

-----------------------------------------------------------------------------
(* The environment.                                                        *)

\* main returns or the process is killed; a file that is open then keeps
\* what has reached it: nothing, a prefix or all of the text.
Stop ==
    /\ up
    /\ up' = FALSE
    /\ m_entities' = [i \in Id |-> NoEntity]
    /\ saving' = NoId
    /\ opened' = FALSE
    /\ unsaved' = {}
    /\ \/ UNCHANGED disk
       \/ /\ opened
          /\ LET text == SerializeEntity(saving, m_entities[saving])
             IN \E t \in {text} \cup CutTexts(text) : StoreContent(saving, t)
    /\ UNCHANGED <<net, now>>

Tick ==
    /\ saving = NoId
    /\ now < MaxNow
    /\ now' = now + 1
    /\ UNCHANGED <<up, net, m_entities, disk, saving, opened, unsaved>>

Next ==
    \/ \E n \in Network : ResolveKnownNetwork(n)
    \/ \E d \in Live : UpdateFromDiscovery(d)
    \/ \E i \in Id, s \in Serial : UpdateCredentials(i, s)
    \/ \E i \in Archivable : ArchiveEntity(i)
    \/ \E i \in Id, status \in Outcome : AppendCommunicationRecord(i, status)
    \/ OpenFails
    \/ OpenTruncates
    \/ WriteCompletes
    \/ WriteStopsShort
    \/ Stop
    \/ Tick

Spec == Init /\ [][Next]_vars

-----------------------------------------------------------------------------
(* What must hold.                                                         *)

\* A record is found only in the file its own id maps to, so that loading a
\* directory yields at most one record of a device and two devices never
\* exchange their files (GetEntityFilePath, PersistEntity).
FilesHoldTheirOwn ==
    \A n \in Network, f \in File :
        HasText(disk[n][f]) => FileOf[disk[n][f].pid] = f

\* A device id selects one entity at most, although it is compared with two
\* fields of each (UpdateCredentials, InjectCredentials).
OneEntityPerDevice ==
    \A i, deviceId \in Id : Matches(i, deviceId) => i = deviceId

\* No request to a device carries a credential that another device issued
\* (UpdateCredentials, then InjectCredentials, with reloads between them).
CredentialsStayWithTheirDevice ==
    \A deviceId \in Id :
        \A t \in InjectCredentials(deviceId) : t.issuer = deviceId

\* The entity has its file for itself.
Alone(i) == \A j \in Id : FileOf[j] = FileOf[i] => j = i

\* The file of i says what memory says: it is what SerializeEntity makes of
\* the entity, or the entity is what DeserializeEntity made of the file.
UpToDate(i) ==
    \/ Content(i) = SerializeEntity(i, m_entities[i])
    \/ /\ HasText(Content(i))
       /\ Content(i).pid = i
       /\ m_entities[i] = DeserializeEntity(Content(i))

\* Every handler saves what it changed: between two handlers the file of an
\* entity is up to date, unless its last save failed or the sanitised name
\* is shared with another id.
DiskIsCurrent ==
    \A i \in Id :
        Known(i) /\ Alone(i) /\ saving # i /\ i \notin unsaved => UpToDate(i)

\* A device that has a record on disk is never taken for a new one: the
\* process knows every device the directory of its network has a record of.
RecordsAreKnown ==
    up => \A f \in File : HasText(disk[net][f]) => Known(disk[net][f].pid)

\* An address at which all endpoints have a uuid stays an address of the
\* entity, over merges and over a reload of what was saved (MergeEndpoints,
\* SerializeEntity, DeserializeEntity).
AddressesAreKept ==
    [][\A i \in Id, ip \in Ip :
          LET old == m_entities[i].eps[ip]
          IN /\ Known(i) /\ Known(i)' /\ Alone(i)
             /\ i \notin unsaved /\ net' = net
             /\ Occupied(old) # {}
             /\ \A p \in Occupied(old) : old[p].uuid
             => Occupied(m_entities'[i].eps[ip]) # {}]_vars

\* What was learnt of an action of a capability is never unlearnt: a later
\* observation that does not list the action, and a reload of what was saved,
\* leave it listed (MergeCapabilityProfiles, SerializeEntity,
\* DeserializeEntity).
ActionsStayLearnt ==
    [][\A i \in Id, c \in Cap, a \in Action :
          LET Listed(e) == /\ e.profiles[c].present
                           /\ e.profiles[c].support[a] # "unlisted"
          IN /\ Known(i) /\ Known(i)' /\ Alone(i)
             /\ i \notin unsaved /\ net' = net
             /\ Listed(m_entities[i])
             => Listed(m_entities'[i])]_vars

-----------------------------------------------------------------------------
(* The abstract view: what a process that starts now would know.  While    *)
(* the file of an entity is open its text is still on its way, so that the *)
(* entity stands for it.                                                   *)

Facts(r) == [first |-> r.first, caps |-> r.caps, ctrls |-> r.ctrls]

DurablyKnown ==
    [n \in Network |-> [i \in Id |->
        IF opened /\ n = net /\ i = saving THEN Facts(m_entities[i])
        ELSE IF HasText(disk[n][FileOf[i]]) /\ disk[n][FileOf[i]].pid = i
             THEN Facts(disk[n][FileOf[i]])
        ELSE NoEntity]]

Durable == INSTANCE DurableKnowledge WITH
    Unknown <- NoEntity, running <- up, known <- DurablyKnown

\* The store keeps the promise of DurableKnowledge, when no two ids share a
\* file.
KeepsDurableKnowledge == Durable!AbstractSpec

-----------------------------------------------------------------------------
(* What comments of the code say and the code does not do.                 *)

\* KnowledgeEntity.h:47 calls the credentials "Persisted authentication
\* data": a reload right after a successful save keeps them.
CredentialsArePersisted ==
    [][\A i \in Id :
          /\ ResolveKnownNetwork(net) /\ up
          /\ Known(i) /\ i \notin unsaved
          => m_entities'[i].cred = m_entities[i].cred]_vars
=============================================================================
