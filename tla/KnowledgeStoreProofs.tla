------------------------ MODULE KnowledgeStoreProofs ------------------------
(***************************************************************************)
(* The safety of KnowledgeStore, for every value of its constants: first   *)
(* what a merge and a round trip through the text return, keep and lose,   *)
(* then the invariants.  They are not inductive one by one: that a reload  *)
(* leaves memory and disk in agreement needs that a file holds no foreign  *)
(* record, which needs that a save writes an entity that is known.  IInv   *)
(* joins them.  Then the action properties, from what a step may make of   *)
(* an entity, and the refinement of DurableKnowledge.                      *)
(***************************************************************************)
EXTENDS KnowledgeStore, WellFoundedInduction, TLAPS

-----------------------------------------------------------------------------
(* The operators of KnowledgeEntity.                                       *)

\* A non-empty set of positions has a greatest element, so that Latest picks
\* one of them.
LEMMA GreatestPosition ==
    ASSUME NEW S \in SUBSET Pos, S # {}
    PROVE  \E p \in S : \A q \in S : q <= p
<1> DEFINE T == {MaxSlots - p : p \in S}
<1>1. MaxSlots \in Nat
  BY EntityAssumption
<1>2. T \subseteq Nat
  BY <1>1 DEF Pos
<1>3. T # {}
  <2>1. PICK p \in S : TRUE
    OBVIOUS
  <2>2. MaxSlots - p \in T
    BY <2>1
  <2>3. QED
    BY <2>2
<1>4. PICK x \in T : \A y \in T : ~ (<<y, x>> \in OpToRel(<, Nat))
  BY <1>2, <1>3, WFMin, NatLessThanWellFounded
<1>5. PICK p \in S : x = MaxSlots - p
  OBVIOUS
<1>6. ASSUME NEW q \in S
      PROVE  q <= p
  <2>1. MaxSlots - q \in T
    OBVIOUS
  <2>2. ~ (MaxSlots - q < MaxSlots - p)
    BY <1>2, <1>4, <1>5, <2>1 DEF OpToRel
  <2>3. QED
    BY <1>1, <2>2 DEF Pos
<1>7. QED
  BY <1>6

\* MergeEndpoints yields endpoints again.
LEMMA MergeEndpointsType ==
    ASSUME NEW old \in Endpoints, NEW live \in Endpoints
    PROVE  MergeEndpoints(old, live) \in Endpoints
<1>1. ASSUME NEW ip \in Ip, Occupied(live[ip]) # {}
      PROVE  live[ip][Latest(live[ip])] \in Slot
  <2>1. Occupied(live[ip]) \in SUBSET Pos
    BY DEF Occupied
  <2>2. \E p \in Occupied(live[ip]) : \A q \in Occupied(live[ip]) : q <= p
    BY <1>1, <2>1, GreatestPosition
  <2>3. Latest(live[ip]) \in Occupied(live[ip])
    BY <2>2 DEF Latest
  <2>4. live[ip] \in [Pos -> Slot \cup {NoSlot}]
    BY DEF Endpoints
  <2>5. QED
    BY <2>3, <2>4 DEF Occupied
<1>2. ASSUME NEW ip \in Ip, Occupied(live[ip]) # {}, NEW at
      PROVE  [old[ip] EXCEPT ![at] = live[ip][Latest(live[ip])]]
               \in [Pos -> Slot \cup {NoSlot}]
  <2>1. old[ip] \in [Pos -> Slot \cup {NoSlot}]
    BY DEF Endpoints
  <2>2. QED
    BY <1>1, <1>2, <2>1
<1>3. ASSUME NEW ip \in Ip
      PROVE  MergeEndpoints(old, live)[ip] \in [Pos -> Slot \cup {NoSlot}]
  <2>1. CASE Occupied(live[ip]) = {}
    BY <2>1 DEF MergeEndpoints, Endpoints
  <2>2. CASE Occupied(live[ip]) # {}
    BY <1>2, <2>2 DEF MergeEndpoints
  <2>3. QED
    BY <2>1, <2>2
<1>4. QED
  BY <1>3 DEF MergeEndpoints, Endpoints

\* The blank profiles, and a merge of profiles, are profiles.
LEMMA NoProfilesType == NoProfiles \in Profiles
  BY EntityAssumption DEF NoProfiles, Profiles, Profile, SupportState

LEMMA MergeCapabilityProfilesType ==
    ASSUME NEW old \in Profiles, NEW live \in Profiles
    PROVE  MergeCapabilityProfiles(old, live) \in Profiles
<1>1. ASSUME NEW c \in Cap
      PROVE  MergeCapabilityProfiles(old, live)[c] \in Profile
  <2>1. old[c] \in Profile /\ live[c] \in Profile
    BY DEF Profiles
  <2> DEFINE support == [a \in Action |-> IF live[c].support[a] # "unlisted"
                                          THEN live[c].support[a]
                                          ELSE old[c].support[a]]
  <2>2. support \in [Action -> SupportState]
    BY <2>1 DEF Profile
  <2> HIDE DEF support
  <2>3. [old[c] EXCEPT !.support = support] \in Profile
    BY <2>1, <2>2 DEF Profile
  <2>4. QED
    BY <2>1, <2>3 DEF MergeCapabilityProfiles, support
<1>2. QED
  BY <1>1 DEF MergeCapabilityProfiles, Profiles

\* What a handler makes of a live device is an entity.
LEMMA NewEntityType ==
    ASSUME NEW d \in LiveDevice, NEW day \in Time
    PROVE  NewEntity(d, day) \in Entity
  BY DEF LiveDevice, NewEntity, Entity

LEMMA MergedEntityType ==
    ASSUME NEW e \in Entity, NEW d \in LiveDevice, NEW day \in Time
    PROVE  MergedEntity(e, d, day) \in Entity
<1>1. e.eps \in Endpoints /\ d.eps \in Endpoints
  BY DEF Entity, LiveDevice
<1>2. MergeEndpoints(e.eps, d.eps) \in Endpoints
  BY <1>1, MergeEndpointsType
<1>3. e.profiles \in Profiles /\ d.profiles \in Profiles
  BY DEF Entity, LiveDevice
<1>4. MergeCapabilityProfiles(e.profiles, d.profiles) \in Profiles
  BY <1>3, MergeCapabilityProfilesType
<1>5. MergeCapabilities(e.caps, d.caps) \in SUBSET Cap
  BY DEF Entity, LiveDevice, MergeCapabilities
<1>6. QED
  BY <1>2, <1>4, <1>5 DEF MergedEntity, Entity, LiveDevice

\* So is what the handlers that set one field make of an entity.
LEMMA FieldType ==
    ASSUME NEW e \in Entity
    PROVE  /\ \A tok \in Token : [e EXCEPT !.cred = tok] \in Entity
           /\ [e EXCEPT !.archived = TRUE] \in Entity
           /\ \A c \in {"none", "success", "failure"} :
                [e EXCEPT !.comm = c] \in Entity
  BY DEF Entity

LEMMA TokenType ==
    ASSUME NEW j \in Id, NEW s \in Serial
    PROVE  [issuer |-> j, serial |-> s] \in Token
  BY DEF Token

\* A round trip stays within the types.
LEMMA SerializeEntityType ==
    ASSUME NEW i \in Id, NEW e \in Entity
    PROVE  SerializeEntity(i, e) \in Text
  BY DEF SerializeEntity, Text, Entity

LEMMA ReadEndpointsType ==
    ASSUME NEW eps \in Endpoints
    PROVE  ReadEndpoints(eps) \in Endpoints
<1>1. ASSUME NEW s \in Slot
      PROVE  [s EXCEPT !.urls = "none"] \in Slot
  BY DEF Slot
<1>2. ASSUME NEW ip \in Ip, NEW p \in Pos
      PROVE  ReadEndpoints(eps)[ip][p] \in Slot \cup {NoSlot}
  <2>1. eps[ip][p] \in Slot \cup {NoSlot}
    BY DEF Endpoints
  <2>2. QED
    BY <1>1, <2>1 DEF ReadEndpoints
<1>3. QED
  BY <1>2 DEF ReadEndpoints, Endpoints

LEMMA DeserializeEntityType ==
    ASSUME NEW t \in Text
    PROVE  DeserializeEntity(t) \in Entity
<1>1. ReadEndpoints(t.eps) \in Endpoints
  BY ReadEndpointsType DEF Text
<1>2. QED
  BY <1>1 DEF DeserializeEntity, Entity, Text

LEMMA CutTextsType ==
    ASSUME NEW t \in Text
    PROVE  /\ CutTexts(t) \subseteq Text
           /\ \A u \in CutTexts(t) : u.pid = t.pid
<1>1. CutProfiles(t.profiles) \subseteq Profiles
  <2>1. ASSUME NEW c \in Cap
        PROVE  TornProfiles(t.profiles[c]) \subseteq Profile
    <3>1. t.profiles[c] \in Profile
      BY DEF Text, Profiles
    <3> DEFINE support == t.profiles[c].support
               Some(kept) == [a \in Action |-> IF a \in kept THEN support[a]
                                                ELSE "unlisted"]
               None == [a \in Action |-> "unlisted"]
    <3>2. None \in [Action -> SupportState]
      BY DEF SupportState
    <3>3. \A kept : Some(kept) \in [Action -> SupportState]
      BY <3>1 DEF Profile, SupportState
    <3>4. \A f \in [Action -> SupportState] :
            /\ [t.profiles[c] EXCEPT !.support = f] \in Profile
            /\ \A l \in Limit :
                 [t.profiles[c] EXCEPT !.limits = l, !.support = f] \in Profile
      BY <3>1 DEF Profile
    <3>5. TornProfiles(t.profiles[c]) =
            {[t.profiles[c] EXCEPT !.support = Some(kept)] :
               kept \in SUBSET Action}
            \cup {[t.profiles[c] EXCEPT !.limits = l, !.support = None] :
               l \in Limit}
      BY DEF TornProfiles
    <3> HIDE DEF Some, None
    <3>6. QED
      BY <3>2, <3>3, <3>4, <3>5
  <2> DEFINE Left(kept, torn, rest) ==
        [c \in Cap |-> IF c \in kept THEN t.profiles[c]
                       ELSE IF c = torn THEN rest
                       ELSE NoProfiles[c]]
  <2>2. \A kept, torn : \A rest \in Profile :
            Left(kept, torn, rest) \in Profiles
    BY NoProfilesType DEF Profiles, Text
  <2>3. CutProfiles(t.profiles) =
            UNION {{Left(kept, torn, rest) : kept \in SUBSET Cap,
                      rest \in TornProfiles(t.profiles[torn])} : torn \in Cap}
    BY DEF CutProfiles
  <2> HIDE DEF Left
  <2>4. QED
    BY <2>1, <2>2, <2>3
<1>2. CutEndpoints(t.eps) \subseteq Endpoints
  <2> DEFINE Lines == {l \in Ip \X Pos : t.eps[l[1]][l[2]] # NoSlot}
  <2>1. ASSUME NEW kept \in SUBSET Lines, NEW torn,
               NEW ip \in Ip, NEW p \in Pos
        PROVE  (IF <<ip, p>> \notin kept THEN NoSlot
                ELSE IF <<ip, p>> \in torn
                     THEN [t.eps[ip][p] EXCEPT !.urls = "none"]
                ELSE t.eps[ip][p]) \in Slot \cup {NoSlot}
    <3>1. t.eps[ip][p] \in Slot \cup {NoSlot}
      BY DEF Text, Endpoints
    <3>2. <<ip, p>> \in kept => t.eps[ip][p] \in Slot
      BY <3>1
    <3>3. t.eps[ip][p] \in Slot
            => [t.eps[ip][p] EXCEPT !.urls = "none"] \in Slot
      BY DEF Slot
    <3>4. QED
      BY <3>1, <3>2, <3>3
  <2> DEFINE Left(kept, torn) ==
        [ip \in Ip |-> [p \in Pos |->
           IF <<ip, p>> \notin kept THEN NoSlot
           ELSE IF <<ip, p>> \in torn
                THEN [t.eps[ip][p] EXCEPT !.urls = "none"]
           ELSE t.eps[ip][p]]]
  <2>2. \A kept \in SUBSET Lines : \A torn : Left(kept, torn) \in Endpoints
    BY <2>1 DEF Endpoints
  <2>3. CutEndpoints(t.eps) = {Left(kept, torn) : kept \in SUBSET Lines,
                                 torn \in {{}} \cup {{l} : l \in Lines}}
    BY DEF CutEndpoints
  <2> HIDE DEF Left
  <2>4. QED
    BY <2>2, <2>3
<1>3. NoEndpoints \in Endpoints
  BY DEF NoEndpoints, Endpoints
<1>4. QED
  BY <1>1, <1>2, <1>3 DEF CutTexts, Text

-----------------------------------------------------------------------------
(* The inductive invariant.                                                *)

\* A save is for an entity of the running process, and a file is open only
\* during a save.
SaveInOrder ==
    /\ saving # NoId => up /\ Known(saving)
    /\ opened => saving # NoId
    /\ ~ up => \A i \in Id : ~ Known(i)

\* The two identities of an entity agree, once it has the second one.
LastIsOwn == \A i \in Id : Known(i) => m_entities[i].last \in {i, NoId}

\* An entity holds credentials of its own device only.
CredentialIsOwn ==
    \A i \in Id : Known(i) /\ m_entities[i].cred # NoToken
                  => m_entities[i].cred.issuer = i

IInv ==
    /\ TypeOK
    /\ SaveInOrder
    /\ LastIsOwn
    /\ CredentialIsOwn
    /\ FilesHoldTheirOwn
    /\ RecordsAreKnown
    /\ DiskIsCurrent

-----------------------------------------------------------------------------
(* Type correctness.                                                       *)

LEMMA InitType == Init => TypeOK
<1> SUFFICES ASSUME Init PROVE TypeOK
  OBVIOUS
<1>1. /\ net \in Network /\ saving \in Id \cup {NoId} /\ opened \in BOOLEAN
      /\ up \in BOOLEAN /\ unsaved \subseteq Id /\ now \in Time
  BY StoreAssumption DEF Init, Time
<1>2. /\ m_entities \in [Id -> Entity \cup {NoEntity}]
      /\ disk \in [Network -> [File -> Text \cup {NoFile, EmptyFile}]]
  BY DEF Init
<1>. QED
  BY <1>1, <1>2 DEF TypeOK

\* Storing a text or the empty file keeps the disk well typed.
LEMMA StoreContentType ==
    ASSUME TypeOK, NEW i \in Id, NEW t \in Text \cup {NoFile, EmptyFile},
           StoreContent(i, t)
    PROVE  disk' \in [Network -> [File -> Text \cup {NoFile, EmptyFile}]]
<1> DEFINE Contents == Text \cup {NoFile, EmptyFile}
<1>1. disk \in [Network -> [File -> Contents]] /\ t \in Contents
  BY DEF TypeOK
<1>2. disk' = [disk EXCEPT ![net][FileOf[i]] = t]
  BY DEF StoreContent
<1> HIDE DEF Contents
<1>3. disk' \in [Network -> [File -> Contents]]
  BY <1>1, <1>2
<1>. QED
  BY <1>3 DEF Contents

\* The record a reload takes for i.
LEMMA RecordOf ==
    ASSUME TypeOK, NEW n \in Network, NEW i \in Id, RecordsOf(n, i) # {}
    PROVE  LET t == CHOOSE u \in RecordsOf(n, i) : TRUE
           IN /\ t \in Text
              /\ t.pid = i
              /\ \E f \in File : disk[n][f] = t /\ HasText(disk[n][f])
<1> DEFINE t == CHOOSE u \in RecordsOf(n, i) : TRUE
<1>1. t \in RecordsOf(n, i)
  OBVIOUS
<1> HIDE DEF t
<1>2. t.pid = i /\ \E f \in File : disk[n][f] = t /\ HasText(disk[n][f])
  BY <1>1 DEF RecordsOf, LoadAllEntities
<1>3. t \in Text
  BY <1>2 DEF TypeOK, HasText
<1>4. QED
  BY <1>2, <1>3 DEF t

LEMMA NextType == TypeOK /\ SaveInOrder /\ [Next]_vars => TypeOK'
<1> SUFFICES ASSUME TypeOK, SaveInOrder, [Next]_vars
             PROVE  TypeOK'
  OBVIOUS
<1> USE DEF TypeOK
<1>1. ASSUME NEW n \in Network, ResolveKnownNetwork(n)
      PROVE  TypeOK'
  <2>1. ASSUME NEW i \in Id
        PROVE  m_entities'[i] \in Entity \cup {NoEntity}
    BY <1>1, <2>1, RecordOf, DeserializeEntityType DEF ResolveKnownNetwork
  <2>2. m_entities' \in [Id -> Entity \cup {NoEntity}]
    BY <1>1, <2>1 DEF ResolveKnownNetwork
  <2>3. QED
    BY <1>1, <2>2 DEF ResolveKnownNetwork
<1>2. ASSUME NEW d \in Live, UpdateFromDiscovery(d)
      PROVE  TypeOK'
  <2>1. d \in LiveDevice /\ d.id \in Id
    BY StoreAssumption DEF LiveDevice
  <2>2. NewEntity(d, now) \in Entity
    BY <2>1, NewEntityType
  <2>3. Known(d.id) => MergedEntity(m_entities[d.id], d, now) \in Entity
    BY <2>1, MergedEntityType DEF Known
  <2>4. m_entities' \in [Id -> Entity \cup {NoEntity}]
    BY <1>2, <2>1, <2>2, <2>3 DEF UpdateFromDiscovery
  <2>5. QED
    BY <1>2, <2>1, <2>4 DEF UpdateFromDiscovery, PersistEntity
<1>3. ASSUME NEW j \in Id, NEW s \in Serial, UpdateCredentials(j, s)
      PROVE  TypeOK'
  <2>1. PICK i \in Id :
          /\ Matches(i, j)
          /\ m_entities' = [m_entities EXCEPT ![i].cred =
                              [issuer |-> j, serial |-> s]]
          /\ PersistEntity(i)
    BY <1>3 DEF UpdateCredentials
  <2>2. m_entities[i] \in Entity
    BY <2>1 DEF Matches, Known
  <2>3. [m_entities[i] EXCEPT !.cred = [issuer |-> j, serial |-> s]] \in Entity
    BY <2>2, FieldType, TokenType
  <2>4. QED
    BY <1>3, <2>1, <2>3 DEF UpdateCredentials, PersistEntity
<1>4. ASSUME NEW i \in Archivable, ArchiveEntity(i)
      PROVE  TypeOK'
  <2>1. i \in Id
    BY StoreAssumption
  <2>2. m_entities[i] \in Entity
    BY <1>4, <2>1 DEF ArchiveEntity, Known
  <2>3. [m_entities[i] EXCEPT !.archived = TRUE] \in Entity
    BY <2>2, FieldType
  <2>4. QED
    BY <1>4, <2>1, <2>3 DEF ArchiveEntity, PersistEntity
<1>5. ASSUME NEW i \in Id, NEW status \in Outcome,
             AppendCommunicationRecord(i, status)
      PROVE  TypeOK'
  <2>1. status \in {"none", "success", "failure"}
    BY StoreAssumption
  <2>2. m_entities[i] \in Entity
    BY <1>5 DEF AppendCommunicationRecord, Known
  <2>3. [m_entities[i] EXCEPT !.comm = status] \in Entity
    BY <2>1, <2>2, FieldType
  <2>4. QED
    BY <1>5, <2>3 DEF AppendCommunicationRecord, PersistEntity
<1>6. CASE OpenFails
  BY <1>6 DEF OpenFails
<1>7. CASE OpenTruncates
  BY <1>7, StoreContentType DEF OpenTruncates
<1>8. ASSUME opened
      PROVE  /\ saving \in Id
             /\ SerializeEntity(saving, m_entities[saving]) \in Text
             /\ CutTexts(SerializeEntity(saving, m_entities[saving]))
                  \subseteq Text
  <2>1. saving \in Id /\ m_entities[saving] \in Entity
    BY <1>8 DEF SaveInOrder, Known
  <2>2. SerializeEntity(saving, m_entities[saving]) \in Text
    BY <2>1, SerializeEntityType
  <2>3. QED
    BY <2>1, <2>2, CutTextsType
<1>9. CASE WriteCompletes
  BY <1>8, <1>9, StoreContentType DEF WriteCompletes
<1>10. CASE WriteStopsShort
  <2>1. PICK t \in {EmptyFile} \cup
                   CutTexts(SerializeEntity(saving, m_entities[saving])) :
          StoreContent(saving, t)
    BY <1>10 DEF WriteStopsShort
  <2>2. t \in Text \cup {NoFile, EmptyFile}
    BY <1>8, <1>10, <2>1 DEF WriteStopsShort
  <2>3. QED
    BY <1>8, <1>10, <2>1, <2>2, StoreContentType DEF WriteStopsShort
<1>11. CASE Stop
  <2>1. disk' \in [Network -> [File -> Text \cup {NoFile, EmptyFile}]]
    <3>1. CASE UNCHANGED disk
      BY <3>1
    <3>2. CASE ~ UNCHANGED disk
      <4> DEFINE text == SerializeEntity(saving, m_entities[saving])
      <4>1. opened /\ \E t \in {text} \cup CutTexts(text) :
                         StoreContent(saving, t)
        BY <1>11, <3>2 DEF Stop
      <4>2. PICK t \in {text} \cup CutTexts(text) : StoreContent(saving, t)
        BY <4>1
      <4>3. t \in Text \cup {NoFile, EmptyFile}
        BY <1>8, <4>1
      <4>4. QED
        BY <1>8, <4>1, <4>2, <4>3, StoreContentType
    <3>3. QED
      BY <3>1, <3>2
  <2>2. QED
    BY <1>11, <2>1 DEF Stop
<1>12. CASE Tick
  BY <1>12, EntityAssumption DEF Tick, Time
<1>13. CASE UNCHANGED vars
  BY <1>13 DEF vars
<1>14. QED
  BY <1>1, <1>2, <1>3, <1>4, <1>5, <1>6, <1>7, <1>9, <1>10, <1>11, <1>12,
     <1>13 DEF Next

-----------------------------------------------------------------------------
(* The control part and the identities.                                    *)

\* What a handler does to the entity it is called for, in the form the
\* following proofs use: only entity i changes, it stays known, and a save
\* of i begins.
Touches(i) ==
    /\ Idle
    /\ m_entities' = [m_entities EXCEPT ![i] = m_entities'[i]]
    /\ Known(i)'
    /\ saving' = i /\ opened' = FALSE
    /\ UNCHANGED <<up, net, disk, unsaved, now>>

\* Every handler of the interface touches one entity.
LEMMA HandlersTouch ==
    ASSUME TypeOK, TypeOK'
    PROVE  /\ \A d \in Live : UpdateFromDiscovery(d) => Touches(d.id)
           /\ \A j \in Id, s \in Serial :
                UpdateCredentials(j, s) =>
                  \E i \in Id :
                    /\ Touches(i) /\ Matches(i, j)
                    /\ m_entities'[i] = [m_entities[i] EXCEPT !.cred =
                                           [issuer |-> j, serial |-> s]]
           /\ \A i \in Archivable : ArchiveEntity(i) => Touches(i)
           /\ \A i \in Id, status \in Outcome :
                AppendCommunicationRecord(i, status) => Touches(i)
<1>1. ASSUME NEW d \in Live, UpdateFromDiscovery(d)
      PROVE  Touches(d.id)
  <2>1. d \in LiveDevice /\ d.id \in Id
    BY StoreAssumption DEF LiveDevice
  <2>2. NewEntity(d, now) \in Entity
    BY <2>1, NewEntityType DEF TypeOK
  <2>3. Known(d.id) => MergedEntity(m_entities[d.id], d, now) \in Entity
    BY <2>1, MergedEntityType DEF Known, TypeOK
  <2>4. m_entities'[d.id] # NoEntity
    BY <1>1, <2>1, <2>2, <2>3, StoreAssumption DEF UpdateFromDiscovery, TypeOK
  <2>5. QED
    BY <1>1, <2>1, <2>4
    DEF UpdateFromDiscovery, PersistEntity, Touches, Known, TypeOK
<1>2. ASSUME NEW j \in Id, NEW s \in Serial, UpdateCredentials(j, s)
      PROVE  \E i \in Id :
               /\ Touches(i) /\ Matches(i, j)
               /\ m_entities'[i] = [m_entities[i] EXCEPT !.cred =
                                      [issuer |-> j, serial |-> s]]
  <2>1. PICK i \in Id :
          /\ Matches(i, j)
          /\ m_entities' = [m_entities EXCEPT ![i].cred =
                              [issuer |-> j, serial |-> s]]
          /\ PersistEntity(i)
    BY <1>2 DEF UpdateCredentials
  <2>2. [m_entities[i] EXCEPT !.cred = [issuer |-> j, serial |-> s]] \in Entity
    BY <2>1, FieldType, TokenType DEF Matches, Known, TypeOK
  <2>3. m_entities'[i] = [m_entities[i] EXCEPT !.cred =
                            [issuer |-> j, serial |-> s]]
    BY <2>1 DEF TypeOK
  <2>4. m_entities'[i] # NoEntity
    BY <2>2, <2>3, StoreAssumption
  <2>5. QED
    BY <1>2, <2>1, <2>3, <2>4
    DEF UpdateCredentials, PersistEntity, Touches, Known, TypeOK
<1>3. ASSUME NEW i \in Archivable, ArchiveEntity(i)
      PROVE  Touches(i)
  <2>1. i \in Id
    BY StoreAssumption
  <2>2. [m_entities[i] EXCEPT !.archived = TRUE] \in Entity
    BY <1>3, <2>1, FieldType DEF ArchiveEntity, Known, TypeOK
  <2>3. m_entities'[i] # NoEntity
    BY <1>3, <2>1, <2>2, StoreAssumption DEF ArchiveEntity, TypeOK
  <2>4. QED
    BY <1>3, <2>1, <2>3 DEF ArchiveEntity, PersistEntity, Touches, Known, TypeOK
<1>4. ASSUME NEW i \in Id, NEW status \in Outcome,
             AppendCommunicationRecord(i, status)
      PROVE  Touches(i)
  <2>1. [m_entities[i] EXCEPT !.comm = status] \in Entity
    BY <1>4, StoreAssumption, FieldType
    DEF AppendCommunicationRecord, Known, TypeOK
  <2>2. m_entities'[i] # NoEntity
    BY <1>4, <2>1, StoreAssumption DEF AppendCommunicationRecord, TypeOK
  <2>3. QED
    BY <1>4, <2>2
    DEF AppendCommunicationRecord, PersistEntity, Touches, Known, TypeOK
<1>5. QED
  BY <1>1, <1>2, <1>3, <1>4

\* A step is a handler, a reload, a step of a save, a stop, or nothing of all
\* that.
LEMMA StepCases ==
    ASSUME TypeOK, TypeOK', [Next]_vars
    PROVE  \/ \E i \in Id : Touches(i)
           \/ \E n \in Network : ResolveKnownNetwork(n)
           \/ OpenFails \/ OpenTruncates \/ WriteCompletes \/ WriteStopsShort
           \/ Stop
           \/ UNCHANGED <<up, net, m_entities, disk, saving, opened, unsaved>>
<1>1. \A d \in Live : d.id \in Id
  BY StoreAssumption DEF LiveDevice
<1>2. Archivable \subseteq Id
  BY StoreAssumption
<1>3. CASE Next
  BY <1>1, <1>2, <1>3, HandlersTouch DEF Next, Tick
<1>4. CASE UNCHANGED vars
  BY <1>4 DEF vars
<1>5. QED
  BY <1>3, <1>4

LEMMA NextSaveInOrder ==
    TypeOK /\ TypeOK' /\ SaveInOrder /\ [Next]_vars => SaveInOrder'
<1> SUFFICES ASSUME TypeOK, TypeOK', SaveInOrder, [Next]_vars
             PROVE  SaveInOrder'
  OBVIOUS
<1>1. ASSUME NEW i \in Id, Touches(i)
      PROVE  SaveInOrder'
  BY <1>1 DEF Touches, SaveInOrder, Idle, Known, TypeOK
<1>2. ASSUME NEW n \in Network, ResolveKnownNetwork(n)
      PROVE  SaveInOrder'
  BY <1>2 DEF ResolveKnownNetwork, SaveInOrder
<1>3. CASE OpenFails \/ OpenTruncates \/ WriteCompletes \/ WriteStopsShort
  BY <1>3 DEF OpenFails, OpenTruncates, WriteCompletes, WriteStopsShort,
              SaveInOrder, Known
<1>4. CASE Stop
  BY <1>4 DEF Stop, SaveInOrder, Known
<1>5. CASE UNCHANGED <<up, net, m_entities, disk, saving, opened, unsaved>>
  BY <1>5 DEF SaveInOrder, Known
<1>6. QED
  BY <1>1, <1>2, <1>3, <1>4, <1>5, StepCases

LEMMA NextIdentities ==
    TypeOK /\ TypeOK' /\ LastIsOwn /\ CredentialIsOwn /\ [Next]_vars
      => LastIsOwn' /\ CredentialIsOwn'
<1> SUFFICES ASSUME TypeOK, TypeOK', LastIsOwn, CredentialIsOwn, [Next]_vars
             PROVE  LastIsOwn' /\ CredentialIsOwn'
  OBVIOUS
<1> DEFINE Owns(k, e) == /\ e.last \in {k, NoId}
                         /\ e.cred # NoToken => e.cred.issuer = k
<1>1. \A k \in Id : Known(k) => Owns(k, m_entities[k])
  BY DEF LastIsOwn, CredentialIsOwn
<1>2. SUFFICES \A k \in Id : Known(k)' => Owns(k, m_entities'[k])
  BY DEF LastIsOwn, CredentialIsOwn
<1>3. SUFFICES ASSUME NEW k \in Id, Known(k)'
               PROVE  Owns(k, m_entities'[k])
  OBVIOUS
<1>4. ASSUME m_entities'[k] = m_entities[k]
      PROVE  Owns(k, m_entities'[k])
  BY <1>1, <1>3, <1>4 DEF Known
<1>5. ASSUME NEW n \in Network, ResolveKnownNetwork(n)
      PROVE  Owns(k, m_entities'[k])
  BY <1>3, <1>5 DEF ResolveKnownNetwork, DeserializeEntity, Known, TypeOK
<1>6. ASSUME NEW d \in Live, UpdateFromDiscovery(d)
      PROVE  Owns(k, m_entities'[k])
  <2>1. CASE k # d.id
    BY <1>4, <1>6, <2>1 DEF UpdateFromDiscovery, TypeOK
  <2>2. CASE k = d.id /\ ~ Known(k)
    <3>1. m_entities'[k] = NewEntity(d, now)
      BY <1>6, <2>2 DEF UpdateFromDiscovery, TypeOK
    <3>2. QED
      BY <2>2, <3>1 DEF NewEntity
  <2>3. CASE k = d.id /\ Known(k)
    <3>1. m_entities'[k] = MergedEntity(m_entities[k], d, now)
      BY <1>6, <2>3 DEF UpdateFromDiscovery, TypeOK
    <3>2. m_entities[k] \in Entity
      BY <2>3 DEF Known, TypeOK
    <3>3. /\ m_entities'[k].last = d.id
          /\ m_entities'[k].cred = m_entities[k].cred
      BY <3>1, <3>2 DEF MergedEntity, Entity
    <3>4. QED
      BY <1>1, <2>3, <3>3
  <2>4. QED
    BY <2>1, <2>2, <2>3
<1>7. ASSUME NEW j \in Id, NEW s \in Serial, UpdateCredentials(j, s)
      PROVE  Owns(k, m_entities'[k])
  <2>1. PICK i \in Id :
          /\ Touches(i) /\ Matches(i, j)
          /\ m_entities'[i] = [m_entities[i] EXCEPT !.cred =
                                 [issuer |-> j, serial |-> s]]
    BY <1>7, HandlersTouch
  <2>2. CASE k # i
    BY <1>4, <2>1, <2>2 DEF Touches, TypeOK
  <2>3. CASE k = i
    <3>1. m_entities[k] \in Entity /\ Owns(k, m_entities[k])
      BY <1>1, <2>1, <2>3 DEF Matches, Known, TypeOK
    <3>2. k = j
      BY <2>1, <2>3, <3>1, EntityAssumption DEF Matches
    <3>3. /\ m_entities'[k].last = m_entities[k].last
          /\ m_entities'[k].cred = [issuer |-> j, serial |-> s]
      BY <2>1, <2>3, <3>1 DEF Entity
    <3>4. QED
      BY <3>1, <3>2, <3>3
  <2>4. QED
    BY <2>2, <2>3
<1>8. ASSUME NEW i \in Archivable, ArchiveEntity(i)
      PROVE  Owns(k, m_entities'[k])
  <2>1. CASE k # i
    BY <1>4, <1>8, <2>1 DEF ArchiveEntity, TypeOK
  <2>2. CASE k = i
    <3>1. m_entities[k] \in Entity
      BY <1>8, <2>2 DEF ArchiveEntity, Known, TypeOK
    <3>2. m_entities'[k] = [m_entities[k] EXCEPT !.archived = TRUE]
      BY <1>8, <2>2 DEF ArchiveEntity, TypeOK
    <3>3. QED
      BY <1>1, <1>8, <2>2, <3>1, <3>2 DEF ArchiveEntity, Entity
  <2>3. QED
    BY <2>1, <2>2
<1>9. ASSUME NEW i \in Id, NEW status \in Outcome,
             AppendCommunicationRecord(i, status)
      PROVE  Owns(k, m_entities'[k])
  <2>1. CASE k # i
    BY <1>4, <1>9, <2>1 DEF AppendCommunicationRecord, TypeOK
  <2>2. CASE k = i
    <3>1. m_entities[k] \in Entity
      BY <1>9, <2>2 DEF AppendCommunicationRecord, Known, TypeOK
    <3>2. m_entities'[k] = [m_entities[k] EXCEPT !.comm = status]
      BY <1>9, <2>2 DEF AppendCommunicationRecord, TypeOK
    <3>3. QED
      BY <1>1, <1>9, <2>2, <3>1, <3>2 DEF AppendCommunicationRecord, Entity
  <2>3. QED
    BY <2>1, <2>2
<1>10. CASE Stop
  BY <1>3, <1>10 DEF Stop, Known
<1>11. CASE \/ OpenFails \/ OpenTruncates \/ WriteCompletes
            \/ WriteStopsShort \/ Tick \/ UNCHANGED vars
  BY <1>4, <1>11 DEF OpenFails, OpenTruncates, WriteCompletes,
                     WriteStopsShort, Tick, vars
<1>12. QED
  BY <1>5, <1>6, <1>7, <1>8, <1>9, <1>10, <1>11 DEF Next

-----------------------------------------------------------------------------
(* Memory and disk.                                                        *)

\* What a step of a save leaves of the disk: only the file of the entity
\* that is saved changes, and to a text of that entity or to no text.
LEMMA SaveStores ==
    ASSUME TypeOK, SaveInOrder,
           \/ OpenTruncates \/ WriteCompletes \/ WriteStopsShort
           \/ Stop /\ ~ UNCHANGED disk
    PROVE  /\ saving \in Id
           /\ \E t \in Text \cup {EmptyFile} :
                /\ StoreContent(saving, t)
                /\ t \in Text => t.pid = saving
<1> DEFINE text == SerializeEntity(saving, m_entities[saving])
<1>1. saving \in Id /\ Known(saving)
  BY DEF OpenTruncates, WriteCompletes, WriteStopsShort, Stop, SaveInOrder,
         TypeOK
<1>2. text \in Text /\ text.pid = saving
  <2>1. m_entities[saving] \in Entity
    BY <1>1 DEF Known, TypeOK
  <2>2. QED
    BY <1>1, <2>1, SerializeEntityType DEF SerializeEntity
<1>3. \A u \in CutTexts(text) : u \in Text /\ u.pid = saving
  BY <1>2, CutTextsType
<1> HIDE DEF text
<1>4. CASE OpenTruncates
  BY <1>1, <1>4, StoreAssumption DEF OpenTruncates
<1>5. CASE WriteCompletes
  BY <1>1, <1>2, <1>5 DEF WriteCompletes, text
<1>6. CASE WriteStopsShort
  BY <1>1, <1>3, <1>6, StoreAssumption DEF WriteStopsShort, text
<1>7. CASE Stop /\ ~ UNCHANGED disk
  BY <1>1, <1>2, <1>3, <1>7 DEF Stop, text
<1>8. QED
  BY <1>4, <1>5, <1>6, <1>7

\* Storing a text of an entity in its own file keeps the files in order.
LEMMA StoreKeepsOwnership ==
    ASSUME TypeOK, FilesHoldTheirOwn, NEW i \in Id,
           NEW t \in Text \cup {EmptyFile}, StoreContent(i, t),
           t \in Text => t.pid = i
    PROVE  FilesHoldTheirOwn'
<1> SUFFICES ASSUME NEW n \in Network, NEW f \in File, HasText(disk'[n][f])
             PROVE  FileOf[disk'[n][f].pid] = f
  BY DEF FilesHoldTheirOwn, HasText
<1>1. CASE n = net /\ f = FileOf[i]
  <2>1. disk'[n][f] = t
    BY <1>1, StoreAssumption DEF StoreContent, TypeOK
  <2>2. QED
    BY <1>1, <2>1 DEF HasText
<1>2. CASE ~ (n = net /\ f = FileOf[i])
  <2>1. disk'[n][f] = disk[n][f]
    BY <1>2 DEF StoreContent, TypeOK
  <2>2. QED
    BY <2>1 DEF FilesHoldTheirOwn
<1>3. QED
  BY <1>1, <1>2

LEMMA NextOwnership ==
    /\ TypeOK /\ TypeOK' /\ SaveInOrder /\ FilesHoldTheirOwn /\ [Next]_vars
    => FilesHoldTheirOwn'
<1> SUFFICES ASSUME TypeOK, TypeOK', SaveInOrder, FilesHoldTheirOwn,
                    [Next]_vars
             PROVE  FilesHoldTheirOwn'
  OBVIOUS
<1>1. CASE UNCHANGED disk
  BY <1>1 DEF FilesHoldTheirOwn, HasText
<1>2. CASE \/ OpenTruncates \/ WriteCompletes \/ WriteStopsShort
           \/ Stop /\ ~ UNCHANGED disk
  BY <1>2, SaveStores, StoreKeepsOwnership
<1>3. QED
  BY <1>1, <1>2, StepCases DEF Touches, ResolveKnownNetwork, OpenFails

LEMMA NextRecordsAreKnown ==
    /\ TypeOK /\ TypeOK' /\ SaveInOrder /\ RecordsAreKnown /\ [Next]_vars
    => RecordsAreKnown'
<1> SUFFICES ASSUME TypeOK, TypeOK', SaveInOrder, RecordsAreKnown,
                    [Next]_vars, up',
                    NEW f \in File, HasText(disk'[net'][f])
             PROVE  m_entities'[disk'[net'][f].pid] # NoEntity
  BY DEF RecordsAreKnown, HasText, Known
<1> DEFINE t == disk'[net'][f]
<1>1. t \in Text /\ t.pid \in Id
  BY DEF TypeOK, HasText, Text
<1>2. ASSUME up, UNCHANGED <<net, disk>>
      PROVE  Known(t.pid)
  BY <1>2 DEF RecordsAreKnown
<1>3. ASSUME NEW i \in Id, Touches(i)
      PROVE  m_entities'[t.pid] # NoEntity
  <2>1. Known(t.pid)
    BY <1>2, <1>3 DEF Touches, Idle
  <2>2. QED
    BY <1>1, <1>3, <2>1 DEF Touches, Known, TypeOK
<1>4. ASSUME NEW n \in Network, ResolveKnownNetwork(n)
      PROVE  m_entities'[t.pid] # NoEntity
  <2>1. t = disk[n][f]
    BY <1>4 DEF ResolveKnownNetwork
  <2>2. t \in RecordsOf(n, t.pid)
    BY <2>1 DEF RecordsOf, LoadAllEntities
  <2>3. DeserializeEntity(CHOOSE u \in RecordsOf(n, t.pid) : TRUE) \in Entity
    BY <1>1, <2>2, RecordOf, DeserializeEntityType
  <2>4. QED
    BY <1>1, <1>4, <2>2, <2>3, StoreAssumption DEF ResolveKnownNetwork
<1>5. CASE OpenFails
  BY <1>2, <1>5, EntityAssumption DEF OpenFails, SaveInOrder, Known
<1>6. CASE OpenTruncates \/ WriteCompletes \/ WriteStopsShort
  <2>1. saving \in Id /\ \E u \in Text \cup {EmptyFile} :
                           /\ StoreContent(saving, u)
                           /\ u \in Text => u.pid = saving
    BY <1>6, SaveStores
  <2>2. PICK u \in Text \cup {EmptyFile} :
          StoreContent(saving, u) /\ (u \in Text => u.pid = saving)
    BY <2>1
  <2>3. up /\ Known(saving) /\ UNCHANGED <<net, m_entities>>
    BY <1>6, <2>1, EntityAssumption
    DEF SaveInOrder, OpenTruncates, WriteCompletes, WriteStopsShort
  <2>4. CASE f = FileOf[saving]
    <3>1. t = u
      BY <2>2, <2>3, <2>4 DEF StoreContent, TypeOK
    <3>2. QED
      BY <1>1, <2>2, <2>3, <3>1 DEF Known
  <2>5. CASE f # FileOf[saving]
    <3>1. t = disk[net][f]
      BY <2>2, <2>3, <2>5 DEF StoreContent, TypeOK
    <3>2. QED
      BY <2>3, <3>1 DEF RecordsAreKnown, Known
  <2>6. QED
    BY <2>4, <2>5
<1>7. CASE Stop
  BY <1>7 DEF Stop
<1>8. CASE UNCHANGED <<up, net, m_entities, disk, saving, opened, unsaved>>
  BY <1>2, <1>8 DEF Known
<1>9. QED
  BY <1>3, <1>4, <1>5, <1>6, <1>7, <1>8, StepCases

LEMMA NextDiskIsCurrent ==
    /\ TypeOK /\ TypeOK' /\ SaveInOrder /\ FilesHoldTheirOwn
    /\ DiskIsCurrent /\ [Next]_vars
    => DiskIsCurrent'
<1> SUFFICES ASSUME TypeOK, TypeOK', SaveInOrder, FilesHoldTheirOwn,
                    DiskIsCurrent, [Next]_vars,
                    NEW i \in Id, Known(i)', Alone(i), saving' # i,
                    i \notin unsaved'
             PROVE  UpToDate(i)'
  BY DEF DiskIsCurrent, Alone
\* What an entity needs that the step does not concern.
<1>1. ASSUME saving # i, i \notin unsaved,
             m_entities'[i] = m_entities[i], Content(i)' = Content(i)
      PROVE  UpToDate(i)'
  BY <1>1 DEF DiskIsCurrent, UpToDate, Known, HasText
<1>2. ASSUME NEW k \in Id, Touches(k)
      PROVE  UpToDate(i)'
  <2>1. i # k /\ saving = NoId
    BY <1>2 DEF Touches, Idle
  <2>2. QED
    BY <1>1, <1>2, <2>1, EntityAssumption DEF Touches, Content, TypeOK
<1>3. ASSUME NEW n \in Network, ResolveKnownNetwork(n)
      PROVE  UpToDate(i)'
  <2> DEFINE t == CHOOSE u \in RecordsOf(n, i) : TRUE
  <2>1. /\ RecordsOf(n, i) # {}
        /\ m_entities'[i] = DeserializeEntity(t)
    BY <1>3 DEF ResolveKnownNetwork, Known
  <2>2. /\ t \in Text
        /\ t.pid = i
        /\ \E f \in File : disk[n][f] = t /\ HasText(disk[n][f])
    BY <2>1, RecordOf
  <2> HIDE DEF t
  <2>3. t = disk[n][FileOf[i]] /\ HasText(t)
    BY <2>2 DEF FilesHoldTheirOwn
  <2>4. Content(i)' = t
    BY <1>3, <2>3 DEF ResolveKnownNetwork, Content
  <2>5. QED
    BY <2>1, <2>2, <2>3, <2>4 DEF UpToDate, HasText
<1>4. CASE OpenFails
  BY <1>1, <1>4 DEF OpenFails, Content
\* Only the file of the entity that is saved changes.
<1>5. ASSUME OpenTruncates \/ WriteCompletes \/ WriteStopsShort,
             saving # i
      PROVE  UpToDate(i)'
  <2>1. /\ saving \in Id
        /\ \E u \in Text \cup {EmptyFile} : StoreContent(saving, u)
    BY <1>5, SaveStores
  <2>2. FileOf[saving] # FileOf[i]
    BY <1>5, <2>1 DEF Alone
  <2>3. /\ UNCHANGED <<net, m_entities>>
        /\ i \notin unsaved
    BY <1>5 DEF OpenTruncates, WriteCompletes, WriteStopsShort
  <2>4. Content(i)' = Content(i)
    BY <2>1, <2>2, <2>3, StoreAssumption DEF StoreContent, Content, TypeOK
  <2>5. QED
    BY <1>1, <1>5, <2>3, <2>4
<1>6. ASSUME OpenTruncates \/ WriteCompletes \/ WriteStopsShort,
             saving = i
      PROVE  UpToDate(i)'
  <2>1. WriteCompletes
    BY <1>6 DEF OpenTruncates, WriteStopsShort
  <2>2. /\ net' = net /\ m_entities' = m_entities
        /\ StoreContent(i, SerializeEntity(i, m_entities[i]))
    BY <1>6, <2>1 DEF WriteCompletes
  <2>3. Content(i)' = SerializeEntity(i, m_entities[i])
    BY <2>2, StoreAssumption DEF StoreContent, Content, TypeOK
  <2>4. QED
    BY <2>2, <2>3 DEF UpToDate
<1>7. CASE Stop
  BY <1>7 DEF Stop, Known
<1>8. CASE UNCHANGED <<up, net, m_entities, disk, saving, opened, unsaved>>
  BY <1>1, <1>8 DEF Content
<1>9. QED
  BY <1>2, <1>3, <1>4, <1>5, <1>6, <1>7, <1>8, StepCases

-----------------------------------------------------------------------------
(* The inductive invariant, and what follows from it.                      *)

LEMMA InitInv == Init => IInv
<1> SUFFICES ASSUME Init
             PROVE  IInv
  OBVIOUS
<1>1. TypeOK
  BY InitType
<1>2. \A i \in Id : ~ Known(i)
  BY DEF Init, Known
<1>3. \A n \in Network, f \in File : ~ HasText(disk[n][f])
  BY DEF Init, HasText
<1>4. QED
  BY <1>1, <1>2, <1>3
  DEF Init, IInv, SaveInOrder, LastIsOwn, CredentialIsOwn, FilesHoldTheirOwn,
      RecordsAreKnown, DiskIsCurrent

LEMMA NextInv == IInv /\ [Next]_vars => IInv'
<1> SUFFICES ASSUME IInv, [Next]_vars
             PROVE  IInv'
  OBVIOUS
<1>1. TypeOK'
  BY NextType DEF IInv
<1>2. SaveInOrder'
  BY <1>1, NextSaveInOrder DEF IInv
<1>3. LastIsOwn' /\ CredentialIsOwn'
  BY <1>1, NextIdentities DEF IInv
<1>4. FilesHoldTheirOwn'
  BY <1>1, NextOwnership DEF IInv
<1>5. RecordsAreKnown'
  BY <1>1, NextRecordsAreKnown DEF IInv
<1>6. DiskIsCurrent'
  BY <1>1, NextDiskIsCurrent DEF IInv
<1>7. QED
  BY <1>1, <1>2, <1>3, <1>4, <1>5, <1>6 DEF IInv

\* The inductive invariant holds in every reachable state: memory, the files
\* and the save that is under way fit together at every point at which the
\* process can stop.
THEOREM Inductive == Spec => []IInv
  BY InitInv, NextInv, PTL DEF Spec

\* Every handler, every step of a save and every reload keeps the types: in
\* particular the entity a reload builds from a cut file is a whole entity.
THEOREM TypeCorrect == Spec => []TypeOK
<1>1. IInv => TypeOK
  BY DEF IInv
<1>2. QED
  BY <1>1, Inductive, PTL

\* SaveEntityData only ever leaves a record in the file of its own id,
\* however many ids share a sanitised name and wherever a save stops.
THEOREM FilesStayInOrder == Spec => []FilesHoldTheirOwn
<1>1. IInv => FilesHoldTheirOwn
  BY DEF IInv
<1>2. QED
  BY <1>1, Inductive, PTL

\* Between two handlers the file of a known entity says what memory says,
\* unless its save failed or its file name is shared.
THEOREM DiskStaysCurrent == Spec => []DiskIsCurrent
<1>1. IInv => DiskIsCurrent
  BY DEF IInv
<1>2. QED
  BY <1>1, Inductive, PTL

\* Whatever the directory of the network holds is in memory, so that
\* UpdateFromDiscovery never takes a recorded device for a new one.
THEOREM RecordsStayKnown == Spec => []RecordsAreKnown
<1>1. IInv => RecordsAreKnown
  BY DEF IInv
<1>2. QED
  BY <1>1, Inductive, PTL

\* A device id matches its own entity and no other one, although it is
\* compared with the key and with the last observed identity.
THEOREM EntityIsUnique == Spec => []OneEntityPerDevice
<1>1. IInv => OneEntityPerDevice
  BY EntityAssumption
  DEF IInv, LastIsOwn, OneEntityPerDevice, Matches
<1>2. QED
  BY <1>1, Inductive, PTL

\* InjectCredentials never puts a credential of one device into a request to
\* another one.
THEOREM CredentialsStay == Spec => []CredentialsStayWithTheirDevice
<1>1. IInv => CredentialsStayWithTheirDevice
  <2> SUFFICES ASSUME IInv, NEW j \in Id, NEW t \in InjectCredentials(j)
               PROVE  t.issuer = j
    BY DEF CredentialsStayWithTheirDevice
  <2>1. PICK i \in Id : Matches(i, j) /\ t = m_entities[i].cred /\ t # NoToken
    BY DEF InjectCredentials
  <2>2. i = j
    BY <2>1, EntityAssumption DEF IInv, LastIsOwn, Matches
  <2>3. QED
    BY <2>1, <2>2 DEF IInv, CredentialIsOwn, Matches
<1>2. QED
  BY <1>1, Inductive, PTL

-----------------------------------------------------------------------------
(* What an entity keeps.                                                   *)

\* What a step may make of the endpoints and profiles of an entity that is
\* saved: nothing else, what a merge does, or what a reload does.
Follows(e, old) ==
    \/ e.eps = old.eps /\ e.profiles = old.profiles
    \/ \E d \in LiveDevice :
         /\ e.eps = MergeEndpoints(old.eps, d.eps)
         /\ e.profiles = MergeCapabilityProfiles(old.profiles, d.profiles)
    \/ e.eps = ReadEndpoints(old.eps) /\ e.profiles = old.profiles

LEMMA ReloadFollows ==
    ASSUME IInv, NEW n \in Network, ResolveKnownNetwork(n), net' = net,
           NEW i \in Id, Known(i), Known(i)', Alone(i), i \notin unsaved
    PROVE  Follows(m_entities'[i], m_entities[i])
<1> DEFINE t == CHOOSE u \in RecordsOf(n, i) : TRUE
           old == m_entities[i]
<1>1. /\ RecordsOf(n, i) # {} /\ n = net /\ saving = NoId
      /\ m_entities'[i] = DeserializeEntity(t)
  BY DEF ResolveKnownNetwork, Known
<1>2. /\ t \in Text
      /\ t.pid = i
      /\ \E f \in File : disk[n][f] = t /\ HasText(disk[n][f])
  BY <1>1, RecordOf DEF IInv
<1> HIDE DEF t
<1>3. t = Content(i)
  BY <1>1, <1>2 DEF IInv, FilesHoldTheirOwn, Content
<1>4. UpToDate(i)
  BY <1>1, EntityAssumption DEF IInv, DiskIsCurrent
<1>5. CASE t = SerializeEntity(i, old)
  <2>1. t.eps = old.eps /\ t.profiles = old.profiles
    BY <1>5 DEF SerializeEntity
  <2>2. /\ m_entities'[i].eps = ReadEndpoints(t.eps)
        /\ m_entities'[i].profiles = t.profiles
    BY <1>1 DEF DeserializeEntity
  <2>. QED
    BY <2>1, <2>2 DEF Follows
<1>6. CASE old = DeserializeEntity(t)
  BY <1>1, <1>6 DEF Follows
<1>. QED
  BY <1>3, <1>4, <1>5, <1>6 DEF UpToDate

LEMMA HandlerFollows ==
    ASSUME IInv, NEW i \in Id, Known(i),
           \/ \E d \in Live : UpdateFromDiscovery(d)
           \/ \E k \in Id, s \in Serial : UpdateCredentials(k, s)
           \/ \E k \in Archivable : ArchiveEntity(k)
           \/ \E k \in Id, status \in Outcome : AppendCommunicationRecord(k, status)
    PROVE  Follows(m_entities'[i], m_entities[i])
<1> DEFINE old == m_entities[i]
<1>0. old \in Entity /\ m_entities \in [Id -> Entity \cup {NoEntity}]
  BY DEF IInv, TypeOK, Known
<1>1. CASE m_entities'[i] = old
  BY <1>1 DEF Follows
<1>2. ASSUME NEW d \in Live, UpdateFromDiscovery(d)
      PROVE  Follows(m_entities'[i], old)
  <2>1. d \in LiveDevice /\ d.id \in Id
    BY StoreAssumption DEF LiveDevice
  <2>2. CASE d.id # i
    BY <1>0, <1>1, <1>2, <2>1, <2>2 DEF UpdateFromDiscovery
  <2>3. CASE d.id = i
    <3>1. m_entities'[i] = MergedEntity(old, d, now)
      BY <1>0, <1>2, <2>3 DEF UpdateFromDiscovery
    <3>2. /\ MergedEntity(old, d, now).eps = MergeEndpoints(old.eps, d.eps)
          /\ MergedEntity(old, d, now).profiles
                = MergeCapabilityProfiles(old.profiles, d.profiles)
      BY <1>0 DEF MergedEntity, Entity
    <3>. QED
      BY <2>1, <3>1, <3>2 DEF Follows
  <2>. QED
    BY <2>2, <2>3
<1>3. ASSUME NEW k \in Id, NEW e \in Entity,
             m_entities' = [m_entities EXCEPT ![k] = e],
             e.eps = m_entities[k].eps, e.profiles = m_entities[k].profiles
      PROVE  Follows(m_entities'[i], old)
  <2>1. CASE k # i
    BY <1>0, <1>1, <1>3, <2>1
  <2>2. CASE k = i
    BY <1>0, <1>3, <2>2 DEF Follows
  <2>. QED
    BY <2>1, <2>2
<1>4. ASSUME NEW k \in Id, Known(k)
      PROVE  /\ m_entities[k] \in Entity
             /\ \A c : /\ [m_entities[k] EXCEPT !.cred = c].eps = m_entities[k].eps
                       /\ [m_entities[k] EXCEPT !.cred = c].profiles
                             = m_entities[k].profiles
                       /\ [m_entities[k] EXCEPT !.comm = c].eps = m_entities[k].eps
                       /\ [m_entities[k] EXCEPT !.comm = c].profiles
                             = m_entities[k].profiles
                       /\ [m_entities[k] EXCEPT !.archived = c].eps = m_entities[k].eps
                       /\ [m_entities[k] EXCEPT !.archived = c].profiles
                             = m_entities[k].profiles
  <2>1. m_entities[k] \in Entity
    BY <1>0, <1>4 DEF Known
  <2>. QED
    BY <2>1 DEF Entity
<1>5. ASSUME NEW k \in Id, NEW s \in Serial, UpdateCredentials(k, s)
      PROVE  Follows(m_entities'[i], old)
  <2>1. PICK j \in Id :
           /\ Matches(j, k)
           /\ m_entities' = [m_entities EXCEPT ![j].cred = [issuer |-> k, serial |-> s]]
    BY <1>5 DEF UpdateCredentials
  <2>2. Known(j)
    BY <2>1 DEF Matches
  <2>3. [m_entities[j] EXCEPT !.cred = [issuer |-> k, serial |-> s]] \in Entity
    BY <1>4, <2>2, FieldType, TokenType
  <2>. QED
    BY <1>3, <1>4, <2>1, <2>2, <2>3
<1>6. ASSUME NEW k \in Archivable, ArchiveEntity(k)
      PROVE  Follows(m_entities'[i], old)
  <2>1. k \in Id /\ Known(k)
    BY <1>6, StoreAssumption DEF ArchiveEntity
  <2>2. m_entities' = [m_entities EXCEPT ![k].archived = TRUE]
    BY <1>6 DEF ArchiveEntity
  <2>3. [m_entities[k] EXCEPT !.archived = TRUE] \in Entity
    BY <1>4, <2>1, FieldType
  <2>. QED
    BY <1>3, <1>4, <2>1, <2>2, <2>3
<1>7. ASSUME NEW k \in Id, NEW status \in Outcome, AppendCommunicationRecord(k, status)
      PROVE  Follows(m_entities'[i], old)
  <2>1. Known(k) /\ status \in {"none", "success", "failure"}
    BY <1>7, StoreAssumption DEF AppendCommunicationRecord
  <2>2. m_entities' = [m_entities EXCEPT ![k].comm = status]
    BY <1>7 DEF AppendCommunicationRecord
  <2>3. [m_entities[k] EXCEPT !.comm = status] \in Entity
    BY <1>4, <2>1, FieldType
  <2>. QED
    BY <1>3, <1>4, <2>1, <2>2, <2>3
<1>. QED
  BY <1>2, <1>5, <1>6, <1>7

LEMMA StepFollows ==
    ASSUME IInv, [Next]_vars, net' = net,
           NEW i \in Id, Known(i), Known(i)', Alone(i), i \notin unsaved
    PROVE  Follows(m_entities'[i], m_entities[i])
<1>1. CASE UNCHANGED m_entities
  BY <1>1 DEF Follows
<1>2. CASE \/ OpenFails \/ OpenTruncates \/ WriteCompletes \/ WriteStopsShort
           \/ Tick \/ UNCHANGED vars
  BY <1>1, <1>2 DEF OpenFails, OpenTruncates, WriteCompletes, WriteStopsShort, Tick, vars
<1>3. CASE Stop
  BY <1>3 DEF Stop, Known
<1>. QED
  BY <1>2, <1>3, ReloadFollows, HandlerFollows DEF Next

\* A merge fills an occupied list at a place of its own, or leaves it.
LEMMA MergeKeepsOccupied ==
    ASSUME NEW old \in Endpoints, NEW live \in Endpoints, NEW ip \in Ip,
           Occupied(old[ip]) # {}
    PROVE  Occupied(MergeEndpoints(old, live)[ip]) # {}
<1> DEFINE slots == old[ip]
           latest == live[ip][Latest(live[ip])]
           at == IF Occupied(slots) = {} THEN 1 ELSE First(slots)
<1>1. slots \in [Pos -> Slot \cup {NoSlot}]
  BY DEF Endpoints
<1>2. PICK p \in Pos : slots[p] # NoSlot
  BY DEF Occupied
<1>3. CASE Occupied(live[ip]) = {}
  BY <1>3 DEF MergeEndpoints
<1>4. CASE Occupied(live[ip]) # {}
  <2>1. latest \in Slot
    <3>1. Occupied(live[ip]) \in SUBSET Pos
      BY DEF Occupied
    <3>2. \E q \in Occupied(live[ip]) : \A r \in Occupied(live[ip]) : r <= q
      BY <1>4, <3>1, GreatestPosition
    <3>3. Latest(live[ip]) \in Occupied(live[ip])
      BY <3>2 DEF Latest
    <3>4. live[ip] \in [Pos -> Slot \cup {NoSlot}]
      BY DEF Endpoints
    <3>. QED
      BY <3>3, <3>4 DEF Occupied
  <2>2. MergeEndpoints(old, live)[ip] = [slots EXCEPT ![at] = latest]
    BY <1>4 DEF MergeEndpoints
  <2> HIDE DEF slots, latest, at
  <2>3. [slots EXCEPT ![at] = latest][p] # NoSlot
    BY <1>1, <1>2, <2>1, EntityAssumption
  <2>. QED
    BY <1>2, <2>2, <2>3 DEF Occupied
<1>. QED
  BY <1>3, <1>4

\* A reload keeps an endpoint that has a uuid.
LEMMA ReadKeepsNamed ==
    ASSUME NEW eps \in Endpoints, NEW ip \in Ip, NEW p \in Occupied(eps[ip]),
           eps[ip][p].uuid
    PROVE  p \in Occupied(ReadEndpoints(eps)[ip])
<1> DEFINE s == eps[ip][p]
<1>1. p \in Pos /\ s # NoSlot /\ s \in Slot
  BY DEF Occupied, Endpoints
<1>2. ~ (Parts(s) < 3)
  <2>1. s.uuid /\ s.urls \in {"none", "location", "application"}
    BY <1>1 DEF Slot
  <2> HIDE DEF s
  <2>2. Parts(s) \in {3, 4, 5}
    BY <2>1 DEF Parts
  <2>. QED
    BY <2>2
<1>3. [s EXCEPT !.urls = "none"] \in Slot
  BY <1>1 DEF Slot
<1>4. ReadEndpoints(eps)[ip][p] \in {s, [s EXCEPT !.urls = "none"]}
  BY <1>1, <1>2 DEF ReadEndpoints
<1>. QED
  BY <1>1, <1>3, <1>4, EntityAssumption DEF Occupied

LEMMA StepKeepsAddresses ==
    ASSUME IInv, [Next]_vars, net' = net,
           NEW i \in Id, Known(i), Known(i)', Alone(i), i \notin unsaved,
           NEW ip \in Ip, Occupied(m_entities[i].eps[ip]) # {},
           \A p \in Occupied(m_entities[i].eps[ip]) : m_entities[i].eps[ip][p].uuid
    PROVE  Occupied(m_entities'[i].eps[ip]) # {}
<1>1. m_entities[i].eps \in Endpoints
  BY DEF IInv, TypeOK, Known, Entity
<1>2. Follows(m_entities'[i], m_entities[i])
  BY StepFollows
<1>3. PICK p : p \in Occupied(m_entities[i].eps[ip])
  OBVIOUS
<1>4. Occupied(ReadEndpoints(m_entities[i].eps)[ip]) # {}
  BY <1>1, <1>3, ReadKeepsNamed
<1>5. \A d \in LiveDevice : Occupied(MergeEndpoints(m_entities[i].eps, d.eps)[ip]) # {}
  BY <1>1, MergeKeepsOccupied DEF LiveDevice
<1>. QED
  BY <1>2, <1>4, <1>5 DEF Follows

LEMMA StepKeepsActions ==
    ASSUME IInv, [Next]_vars, net' = net,
           NEW i \in Id, Known(i), Known(i)', Alone(i), i \notin unsaved,
           NEW c \in Cap, NEW a \in Action,
           m_entities[i].profiles[c].present,
           m_entities[i].profiles[c].support[a] # "unlisted"
    PROVE  /\ m_entities'[i].profiles[c].present
           /\ m_entities'[i].profiles[c].support[a] # "unlisted"
<1> DEFINE old == m_entities[i].profiles
<1>1. old \in Profiles /\ old[c] \in Profile
  BY DEF IInv, TypeOK, Known, Entity, Profiles
<1>2. Follows(m_entities'[i], m_entities[i])
  BY StepFollows
<1>3. ASSUME NEW live \in Profiles
      PROVE  /\ MergeCapabilityProfiles(old, live)[c].present
             /\ MergeCapabilityProfiles(old, live)[c].support[a] # "unlisted"
  <2> DEFINE support == [b \in Action |-> IF live[c].support[b] # "unlisted"
                                          THEN live[c].support[b]
                                          ELSE old[c].support[b]]
  <2>1. MergeCapabilityProfiles(old, live)[c]
           = IF ~ live[c].present THEN old[c] ELSE [old[c] EXCEPT !.support = support]
    BY DEF MergeCapabilityProfiles
  <2>2. support[a] # "unlisted"
    OBVIOUS
  <2> HIDE DEF support
  <2>3. /\ [old[c] EXCEPT !.support = support].present
        /\ [old[c] EXCEPT !.support = support].support = support
    BY <1>1 DEF Profile
  <2>. QED
    BY <2>1, <2>2, <2>3
<1>. QED
  BY <1>2, <1>3 DEF Follows, LiveDevice

\* An address at which all endpoints have a uuid stays an address of the
\* entity, over merges and reloads, as long as no save of it has failed and no
\* other id has its file.
THEOREM AddressesStay == Spec => AddressesAreKept
<1>1. IInv /\ [Next]_vars
        => [\A i \in Id, ip \in Ip :
              LET old == m_entities[i].eps[ip]
              IN /\ Known(i) /\ Known(i)' /\ Alone(i)
                 /\ i \notin unsaved /\ net' = net
                 /\ Occupied(old) # {}
                 /\ \A p \in Occupied(old) : old[p].uuid
                 => Occupied(m_entities'[i].eps[ip]) # {}]_vars
  BY StepKeepsAddresses
<1>. QED
  BY <1>1, Inductive, PTL DEF Spec, AddressesAreKept

\* What was learnt of an action of a capability is never unlearnt, under the
\* same conditions.
THEOREM LearntForGood == Spec => ActionsStayLearnt
<1>1. IInv /\ [Next]_vars
        => [\A i \in Id, c \in Cap, a \in Action :
              LET Listed(e) == /\ e.profiles[c].present
                               /\ e.profiles[c].support[a] # "unlisted"
              IN /\ Known(i) /\ Known(i)' /\ Alone(i)
                 /\ i \notin unsaved /\ net' = net
                 /\ Listed(m_entities[i])
                 => Listed(m_entities'[i])]_vars
  BY StepKeepsActions
<1>. QED
  BY <1>1, Inductive, PTL DEF Spec, ActionsStayLearnt

-----------------------------------------------------------------------------
(* KnowledgeStore implements DurableKnowledge when no two ids share a      *)
(* file.  Every handler and every reload leaves the durable knowledge      *)
(* alone; opening the file is the step that learns, and only a write that  *)
(* stops short or a stop with the file open can damage.                    *)

\* The file of i holds a record of i.
Recorded(i) == HasText(Content(i)) /\ Content(i).pid = i

\* Memory never knows less of an entity than its record does: the merge keeps
\* what was there, and an entity is only made anew when it has no record.
MemoryExtendsDisk ==
    \A i \in Id : Known(i) /\ Recorded(i)
                  => Durable!Extends(Facts(m_entities[i]), Facts(Content(i)))

\* An open file has been truncated and has no text yet.
OpenIsEmpty == opened => Content(saving) = EmptyFile

RInv == IInv /\ MemoryExtendsDisk /\ OpenIsEmpty

-----------------------------------------------------------------------------
(* Facts.                                                                  *)

LEMMA FactsType ==
    /\ \A e \in Entity : Facts(e) \in Durable!Fact
    /\ \A t \in Text : Facts(t) \in Durable!Fact
  BY DEF Facts, Durable!Fact, Entity, Text, Time

\* A text that was cut has lost no fact.
LEMMA CutKeepsFacts ==
    ASSUME NEW t \in Text, NEW u \in CutTexts(t)
    PROVE  Facts(u) = Facts(t)
  BY DEF CutTexts, Facts, Text

\* Writing and reading a record keep the facts.
LEMMA TextKeepsFacts ==
    /\ \A i \in Id, e \in Entity : Facts(SerializeEntity(i, e)) = Facts(e)
    /\ \A t \in Text : Facts(DeserializeEntity(t)) = Facts(t)
  BY DEF SerializeEntity, DeserializeEntity, Facts

\* Extends is a partial order on facts, as far as it is needed here.
LEMMA ExtendsOrder ==
    /\ \A r : Durable!Extends(r, r)
    /\ \A r, q, o : Durable!Extends(r, q) /\ Durable!Extends(q, o)
                    => Durable!Extends(r, o)
  BY DEF Durable!Extends

\* A handler never takes a fact away from an entity that was known.
LEMMA HandlersExtend ==
    ASSUME TypeOK, TypeOK', NEW k \in Id, Touches(k), [Next]_vars, Known(k)
    PROVE  Durable!Extends(Facts(m_entities'[k]), Facts(m_entities[k]))
<1> DEFINE Goal == Durable!Extends(Facts(m_entities'[k]), Facts(m_entities[k]))
<1>1. m_entities[k] \in Entity
  BY DEF Known, TypeOK
<1>2. saving' # NoId /\ saving = NoId
  BY EntityAssumption DEF Touches, Idle
<1>3. ASSUME NEW d \in Live, UpdateFromDiscovery(d)
      PROVE  Goal
  <2>1. k = d.id /\ d.id \in Id
    BY <1>3 DEF Touches, UpdateFromDiscovery, PersistEntity
  <2>2. m_entities'[k] = MergedEntity(m_entities[k], d, now)
    BY <1>3, <2>1 DEF UpdateFromDiscovery, TypeOK
  <2>3. /\ m_entities'[k].first = m_entities[k].first
        /\ m_entities'[k].ctrls = m_entities[k].ctrls
        /\ m_entities'[k].caps = m_entities[k].caps \cup d.caps
    BY <1>1, <2>2 DEF MergedEntity, MergeCapabilities, Entity
  <2>4. QED
    BY <2>3 DEF Facts, Durable!Extends
<1>4. ASSUME NEW j \in Id, NEW s \in Serial, UpdateCredentials(j, s)
      PROVE  Goal
  <2>1. PICK i \in Id :
          /\ Touches(i)
          /\ m_entities'[i] = [m_entities[i] EXCEPT !.cred =
                                 [issuer |-> j, serial |-> s]]
    BY <1>4, HandlersTouch
  <2>2. i = k
    BY <2>1 DEF Touches
  <2>3. Facts(m_entities'[k]) = Facts(m_entities[k])
    BY <1>1, <2>1, <2>2 DEF Entity, Facts
  <2>4. QED
    BY <2>3, ExtendsOrder
<1>5. ASSUME NEW i \in Archivable, ArchiveEntity(i)
      PROVE  Goal
  <2>1. i = k
    BY <1>5 DEF ArchiveEntity, PersistEntity, Touches
  <2>2. m_entities'[k] = [m_entities[k] EXCEPT !.archived = TRUE]
    BY <1>5, <2>1 DEF ArchiveEntity, TypeOK
  <2>3. Facts(m_entities'[k]) = Facts(m_entities[k])
    BY <1>1, <2>2 DEF Entity, Facts
  <2>4. QED
    BY <2>3, ExtendsOrder
<1>6. ASSUME NEW i \in Id, NEW status \in Outcome,
             AppendCommunicationRecord(i, status)
      PROVE  Goal
  <2>1. i = k
    BY <1>6 DEF AppendCommunicationRecord, PersistEntity, Touches
  <2>2. m_entities'[k] = [m_entities[k] EXCEPT !.comm = status]
    BY <1>6, <2>1 DEF AppendCommunicationRecord, TypeOK
  <2>3. Facts(m_entities'[k]) = Facts(m_entities[k])
    BY <1>1, <2>2 DEF Entity, Facts
  <2>4. QED
    BY <2>3, ExtendsOrder
<1>7. QED
  BY <1>2, <1>3, <1>4, <1>5, <1>6
  DEF Next, vars, ResolveKnownNetwork, OpenFails, OpenTruncates,
      WriteCompletes, WriteStopsShort, Stop, Tick

-----------------------------------------------------------------------------
(* The strengthened invariant.                                             *)

\* A step of a save changes the file of the saved entity, to a text that has
\* the facts of the entity or to no text.
LEMMA SaveStoresFacts ==
    ASSUME TypeOK, SaveInOrder,
           \/ OpenTruncates \/ WriteCompletes \/ WriteStopsShort
           \/ Stop /\ ~ UNCHANGED disk
    PROVE  /\ saving \in Id
           /\ \E t \in Text \cup {EmptyFile} :
                /\ StoreContent(saving, t)
                /\ t \in Text => /\ t.pid = saving
                                 /\ Facts(t) = Facts(m_entities[saving])
<1> DEFINE text == SerializeEntity(saving, m_entities[saving])
<1>1. saving \in Id /\ Known(saving)
  BY DEF OpenTruncates, WriteCompletes, WriteStopsShort, Stop, SaveInOrder,
         TypeOK
<1>2. m_entities[saving] \in Entity
  BY <1>1 DEF Known, TypeOK
<1>3. /\ text \in Text /\ text.pid = saving
      /\ Facts(text) = Facts(m_entities[saving])
  BY <1>1, <1>2, SerializeEntityType, TextKeepsFacts DEF SerializeEntity
<1>4. \A u \in CutTexts(text) : /\ u \in Text /\ u.pid = saving
                                /\ Facts(u) = Facts(m_entities[saving])
  BY <1>3, CutTextsType, CutKeepsFacts
<1> HIDE DEF text
<1>5. CASE OpenTruncates
  BY <1>1, <1>5, StoreAssumption DEF OpenTruncates
<1>6. CASE WriteCompletes
  BY <1>1, <1>3, <1>6 DEF WriteCompletes, text
<1>7. CASE WriteStopsShort
  BY <1>1, <1>4, <1>7, StoreAssumption DEF WriteStopsShort, text
<1>8. CASE Stop /\ ~ UNCHANGED disk
  BY <1>1, <1>3, <1>4, <1>8 DEF Stop, text
<1>9. QED
  BY <1>5, <1>6, <1>7, <1>8

LEMMA NextMemoryExtendsDisk ==
    IInv /\ IInv' /\ MemoryExtendsDisk /\ [Next]_vars => MemoryExtendsDisk'
<1> SUFFICES ASSUME IInv, IInv', MemoryExtendsDisk, [Next]_vars,
                    NEW i \in Id, Known(i)', Recorded(i)'
             PROVE  Durable!Extends(Facts(m_entities'[i]), Facts(Content(i)'))
  BY DEF MemoryExtendsDisk, Recorded, Content, Facts, Durable!Extends
<1> DEFINE Goal == Durable!Extends(Facts(m_entities'[i]), Facts(Content(i)'))
<1> USE DEF IInv
<1>1. ASSUME Content(i)' = Content(i), m_entities'[i] = m_entities[i]
      PROVE  Goal
  BY <1>1 DEF MemoryExtendsDisk, Recorded, Known, HasText
<1>2. ASSUME NEW k \in Id, Touches(k)
      PROVE  Goal
  <2>1. Content(i)' = Content(i)
    BY <1>2 DEF Touches, Content
  <2>2. CASE i # k
    BY <1>1, <1>2, <2>1, <2>2 DEF Touches, TypeOK
  <2>3. CASE i = k
    <3>1. Recorded(i)
      BY <2>1 DEF Recorded, HasText
    <3>2. Known(i)
      BY <1>2, <3>1, StoreAssumption
      DEF Recorded, RecordsAreKnown, Touches, Idle, Content
    <3>3. Durable!Extends(Facts(m_entities[i]), Facts(Content(i)))
      BY <3>1, <3>2 DEF MemoryExtendsDisk
    <3>4. Durable!Extends(Facts(m_entities'[i]), Facts(m_entities[i]))
      BY <1>2, <2>3, <3>2, HandlersExtend
    <3>5. QED
      BY <2>1, <3>3, <3>4, ExtendsOrder
  <2>4. QED
    BY <2>2, <2>3
<1>3. ASSUME NEW n \in Network, ResolveKnownNetwork(n)
      PROVE  Goal
  <2> DEFINE t == CHOOSE u \in RecordsOf(n, i) : TRUE
  <2>1. /\ RecordsOf(n, i) # {}
        /\ m_entities'[i] = DeserializeEntity(t)
    BY <1>3 DEF ResolveKnownNetwork, Known
  <2>2. /\ t \in Text
        /\ t.pid = i
        /\ \E f \in File : disk[n][f] = t /\ HasText(disk[n][f])
    BY <2>1, RecordOf
  <2> HIDE DEF t
  <2>3. Content(i)' = t
    BY <1>3, <2>2 DEF ResolveKnownNetwork, Content, FilesHoldTheirOwn
  <2>4. QED
    BY <2>1, <2>2, <2>3, TextKeepsFacts, ExtendsOrder
<1>4. CASE OpenFails
  BY <1>1, <1>4 DEF OpenFails, Content
<1>5. CASE OpenTruncates \/ WriteCompletes \/ WriteStopsShort
  <2>1. saving \in Id /\ \E t \in Text \cup {EmptyFile} :
          /\ StoreContent(saving, t)
          /\ t \in Text => /\ t.pid = saving
                           /\ Facts(t) = Facts(m_entities[saving])
    BY <1>5, SaveStoresFacts
  <2>2. PICK t \in Text \cup {EmptyFile} :
          /\ StoreContent(saving, t)
          /\ t \in Text => /\ t.pid = saving
                           /\ Facts(t) = Facts(m_entities[saving])
    BY <2>1
  <2>3. UNCHANGED <<net, m_entities>>
    BY <1>5 DEF OpenTruncates, WriteCompletes, WriteStopsShort
  <2>4. CASE FileOf[i] = FileOf[saving]
    <3>1. Content(i)' = t
      BY <2>1, <2>2, <2>3, <2>4, StoreAssumption
      DEF StoreContent, Content, TypeOK
    <3>2. t \in Text /\ saving = i
      BY <2>2, <3>1 DEF Recorded, HasText
    <3>3. QED
      BY <2>2, <2>3, <3>1, <3>2, ExtendsOrder
  <2>5. CASE FileOf[i] # FileOf[saving]
    <3>1. Content(i)' = Content(i)
      BY <2>1, <2>2, <2>3, <2>5, StoreAssumption
      DEF StoreContent, Content, TypeOK
    <3>2. QED
      BY <1>1, <2>3, <3>1
  <2>6. QED
    BY <2>4, <2>5
<1>6. CASE Stop
  BY <1>6 DEF Stop, Known
<1>7. CASE UNCHANGED <<up, net, m_entities, disk, saving, opened, unsaved>>
  BY <1>1, <1>7 DEF Content
<1>8. QED
  BY <1>2, <1>3, <1>4, <1>5, <1>6, <1>7, StepCases

LEMMA NextOpenIsEmpty ==
    IInv /\ OpenIsEmpty /\ [Next]_vars => OpenIsEmpty'
<1> SUFFICES ASSUME IInv, OpenIsEmpty, [Next]_vars, opened'
             PROVE  Content(saving)' = EmptyFile
  BY DEF OpenIsEmpty
<1>1. CASE OpenTruncates
  <2>1. saving \in Id
    BY <1>1 DEF OpenTruncates, IInv, TypeOK
  <2>2. QED
    BY <1>1, <2>1, StoreAssumption
    DEF OpenTruncates, StoreContent, Content, IInv, TypeOK
<1>2. CASE ~ OpenTruncates
  <2>1. opened /\ UNCHANGED <<saving, disk, net>>
    BY <1>2, EntityAssumption
    DEF Next, vars, ResolveKnownNetwork, UpdateFromDiscovery,
        UpdateCredentials, ArchiveEntity, AppendCommunicationRecord,
        PersistEntity, OpenFails, WriteCompletes, WriteStopsShort, Stop, Tick,
        Idle, IInv, SaveInOrder
  <2>2. QED
    BY <2>1 DEF OpenIsEmpty, Content
<1>3. QED
  BY <1>1, <1>2

LEMMA RefinementInv == Spec => []RInv
<1>1. Init => RInv
  <2>1. Init => \A i \in Id : ~ Known(i)
    BY DEF Init, Known
  <2>2. QED
    BY <2>1, InitInv DEF Init, RInv, MemoryExtendsDisk, OpenIsEmpty
<1>2. RInv /\ [Next]_vars => RInv'
  BY NextInv, NextMemoryExtendsDisk, NextOpenIsEmpty DEF RInv
<1>3. QED
  BY <1>1, <1>2, PTL DEF Spec

-----------------------------------------------------------------------------
(* The step simulation.                                                    *)

OwnFile == \A i \in Id : Alone(i)

LEMMA RowIs ==
    \A n \in Network, i \in Id :
        DurablyKnown[n][i] =
            IF opened /\ n = net /\ i = saving THEN Facts(m_entities[i])
            ELSE IF HasText(disk[n][FileOf[i]]) /\ disk[n][FileOf[i]].pid = i
            THEN Facts(disk[n][FileOf[i]])
            ELSE NoEntity
  BY DEF DurablyKnown

LEMMA RowIsNext ==
    \A n \in Network, i \in Id :
        DurablyKnown'[n][i] =
            IF opened' /\ n = net' /\ i = saving'
            THEN Facts(m_entities'[i])
            ELSE IF HasText(disk'[n][FileOf[i]])
                    /\ disk'[n][FileOf[i]].pid = i
            THEN Facts(disk'[n][FileOf[i]])
            ELSE NoEntity
  BY DEF DurablyKnown, HasText, Facts

\* The durable knowledge is given by its rows.
LEMMA Rows ==
    /\ DurablyKnown =
         [m \in Network |-> [j \in Id |-> DurablyKnown[m][j]]]
    /\ DurablyKnown' =
         [m \in Network |-> [j \in Id |-> DurablyKnown'[m][j]]]
  BY DEF DurablyKnown, HasText, Facts

\* A step that leaves every row but one alone changes the durable knowledge
\* at that row only.
LEMMA OneRow ==
    ASSUME NEW n \in Network, NEW i \in Id, NEW r,
           DurablyKnown'[n][i] = r,
           \A m \in Network, j \in Id :
               ~ (m = n /\ j = i) => DurablyKnown'[m][j] = DurablyKnown[m][j]
    PROVE  DurablyKnown' = [DurablyKnown EXCEPT ![n][i] = r]
<1> DEFINE D == DurablyKnown
           E == DurablyKnown'
<1>1. /\ D = [m \in Network |-> [j \in Id |-> D[m][j]]]
      /\ E = [m \in Network |-> [j \in Id |-> E[m][j]]]
  BY Rows
<1>2. /\ E[n][i] = r
      /\ \A m \in Network, j \in Id :
           ~ (m = n /\ j = i) => E[m][j] = D[m][j]
  OBVIOUS
<1> HIDE DEF D, E
<1>3. [D EXCEPT ![n][i] = r] =
        [m \in Network |-> [j \in Id |->
           IF m = n /\ j = i THEN r ELSE D[m][j]]]
  <2>1. \A m \in Network : D[m] = [j \in Id |-> D[m][j]]
    BY <1>1
  <2>2. [D[n] EXCEPT ![i] = r] = [j \in Id |-> IF j = i THEN r ELSE D[n][j]]
    BY <2>1
  <2>3. [D EXCEPT ![n][i] = r] =
          [m \in Network |-> IF m = n THEN [D[n] EXCEPT ![i] = r] ELSE D[m]]
    BY <1>1
  <2>4. ASSUME NEW m \in Network
        PROVE  (IF m = n THEN [D[n] EXCEPT ![i] = r] ELSE D[m]) =
               [j \in Id |-> IF m = n /\ j = i THEN r ELSE D[m][j]]
    <3>1. CASE m = n
      BY <2>2, <3>1
    <3>2. CASE m # n
      BY <2>1, <3>2
    <3>3. QED
      BY <3>1, <3>2
  <2>5. QED
    BY <2>3, <2>4
<1>4. E = [m \in Network |-> [j \in Id |->
             IF m = n /\ j = i THEN r ELSE D[m][j]]]
  BY <1>1, <1>2
<1>5. QED
  BY <1>3, <1>4 DEF D, E

LEMMA SameRows ==
    ASSUME \A m \in Network, j \in Id : DurablyKnown'[m][j] = DurablyKnown[m][j]
    PROVE  DurablyKnown' = DurablyKnown
<1> DEFINE D == DurablyKnown
           E == DurablyKnown'
<1>1. /\ D = [m \in Network |-> [j \in Id |-> D[m][j]]]
      /\ E = [m \in Network |-> [j \in Id |-> E[m][j]]]
      /\ \A m \in Network, j \in Id : E[m][j] = D[m][j]
  BY Rows
<1> HIDE DEF D, E
<1>2. [m \in Network |-> [j \in Id |-> E[m][j]]] =
      [m \in Network |-> [j \in Id |-> D[m][j]]]
  BY <1>1
<1>3. QED
  BY <1>1, <1>2 DEF D, E

\* A step of a save, or a stop during one, moves no row but the one of the
\* entity that is saved.
LEMMA OtherRows ==
    ASSUME TypeOK, OwnFile, UNCHANGED net, saving \in Id,
           \/ UNCHANGED disk
           \/ \E t \in Text \cup {EmptyFile} : StoreContent(saving, t),
           opened' => saving' = saving /\ UNCHANGED m_entities,
           NEW m \in Network, NEW j \in Id, ~ (m = net /\ j = saving)
    PROVE  DurablyKnown'[m][j] = DurablyKnown[m][j]
<1>1. disk'[m][FileOf[j]] = disk[m][FileOf[j]]
  BY StoreAssumption DEF OwnFile, Alone, StoreContent, TypeOK
<1>2. QED
  BY <1>1, RowIs, RowIsNext

LEMMA StepRefines ==
    ASSUME RInv, RInv', OwnFile, [Next]_vars
    PROVE  [Durable!AbstractNext]_<<up, DurablyKnown>>
<1> DEFINE Goal == [Durable!AbstractNext]_<<up, DurablyKnown>>
<1> USE DEF RInv, IInv
<1>1. ASSUME UNCHANGED <<up, DurablyKnown>>
      PROVE  Goal
  BY <1>1
<1>2. ASSUME UNCHANGED <<net, disk>>, ~ opened, ~ opened'
      PROVE  UNCHANGED DurablyKnown
  BY <1>2 DEF DurablyKnown, HasText, Facts
<1>3. ASSUME NEW k \in Id, Touches(k)
      PROVE  Goal
  BY <1>1, <1>2, <1>3, EntityAssumption DEF Touches, Idle, SaveInOrder
<1>4. ASSUME NEW n \in Network, ResolveKnownNetwork(n)
      PROVE  Goal
  <2>1. ~ opened /\ ~ opened'
    BY <1>4 DEF ResolveKnownNetwork, SaveInOrder
  <2>2. DurablyKnown' = DurablyKnown
    BY <1>4, <2>1 DEF DurablyKnown, ResolveKnownNetwork, HasText, Facts
  <2>3. Durable!Start
    BY <1>4, <2>2 DEF ResolveKnownNetwork, Durable!Start
  <2>4. QED
    BY <2>3 DEF Durable!AbstractNext
<1>5. CASE OpenFails
  BY <1>1, <1>2, <1>5 DEF OpenFails
<1>6. CASE OpenTruncates
  <2> DEFINE e == m_entities[saving]
  <2>1. /\ saving \in Id /\ net \in Network /\ up
        /\ Known(saving) /\ e \in Entity
    BY <1>6 DEF OpenTruncates, SaveInOrder, TypeOK, Known
  <2>2. DurablyKnown'[net][saving] = Facts(e)
    BY <1>6, <2>1, RowIsNext DEF OpenTruncates
  <2>3. DurablyKnown' = [DurablyKnown EXCEPT ![net][saving] = Facts(e)]
    BY <1>6, <2>1, <2>2, OneRow, OtherRows DEF OpenTruncates
  <2>4. DurablyKnown[net][saving] # NoEntity
          => Durable!Extends(Facts(e), DurablyKnown[net][saving])
    BY <1>6, <2>1, RowIs
    DEF OpenTruncates, MemoryExtendsDisk, Recorded, Content
  <2>5. Durable!Learn(net, saving)
    BY <1>6, <2>1, <2>3, <2>4, FactsType
    DEF OpenTruncates, Durable!Learn
  <2>6. QED
    BY <2>1, <2>5 DEF Durable!AbstractNext
\* With the file open, the row is that of the entity; afterwards it is that
\* of the text, which has the same facts, or there is none.
<1>7. ASSUME opened, UNCHANGED net, ~ opened',
             \/ UNCHANGED disk
             \/ \E t \in Text \cup {EmptyFile} :
                  /\ StoreContent(saving, t)
                  /\ t \in Text => /\ t.pid = saving
                                   /\ Facts(t) = Facts(m_entities[saving])
      PROVE  \/ UNCHANGED DurablyKnown
             \/ DurablyKnown' = [DurablyKnown EXCEPT ![net][saving] = NoEntity]
  <2>1. saving \in Id /\ net \in Network
    BY <1>7 DEF SaveInOrder, TypeOK
  <2>2. DurablyKnown[net][saving] = Facts(m_entities[saving])
    BY <1>7, <2>1, RowIs
  <2>3. \A m \in Network, j \in Id :
          ~ (m = net /\ j = saving) => DurablyKnown'[m][j] = DurablyKnown[m][j]
    BY <1>7, <2>1, OtherRows
  <2>4. DurablyKnown'[net][saving] = IF HasText(disk'[net][FileOf[saving]])
                               /\ disk'[net][FileOf[saving]].pid = saving
                            THEN Facts(disk'[net][FileOf[saving]]) ELSE NoEntity
    BY <1>7, <2>1, RowIsNext
  <2>5. DurablyKnown'[net][saving] \in {DurablyKnown[net][saving], NoEntity}
    <3>1. CASE UNCHANGED disk
      BY <1>7, <2>4, <3>1 DEF OpenIsEmpty, Content, HasText
    <3>2. CASE \E t \in Text \cup {EmptyFile} :
                 /\ StoreContent(saving, t)
                 /\ t \in Text => /\ t.pid = saving
                                  /\ Facts(t) = Facts(m_entities[saving])
      <4>1. PICK t \in Text \cup {EmptyFile} :
              /\ StoreContent(saving, t)
              /\ t \in Text => /\ t.pid = saving
                               /\ Facts(t) = Facts(m_entities[saving])
        BY <3>2
      <4>2. disk'[net][FileOf[saving]] = t
        BY <1>7, <2>1, <4>1, StoreAssumption
        DEF StoreContent, Content, TypeOK
      <4>3. QED
        BY <2>2, <2>4, <4>1, <4>2 DEF HasText
    <3>3. QED
      BY <1>7, <3>1, <3>2
  <2>6. CASE DurablyKnown'[net][saving] = DurablyKnown[net][saving]
    BY <2>3, <2>6, SameRows
  <2>7. CASE DurablyKnown'[net][saving] = NoEntity
    BY <2>1, <2>3, <2>7, OneRow
  <2>8. QED
    BY <2>5, <2>6, <2>7
<1>8. ASSUME opened, saving \in Id, net \in Network, up, up' \in BOOLEAN,
             DurablyKnown' = [DurablyKnown EXCEPT ![net][saving] = NoEntity]
      PROVE  Goal
  <2>1. CASE DurablyKnown[net][saving] # NoEntity
    <3>1. Durable!Damage(net, saving)
      BY <1>8, <2>1 DEF Durable!Damage
    <3>2. QED
      BY <1>8, <3>1 DEF Durable!AbstractNext
  <2>2. CASE DurablyKnown[net][saving] = NoEntity
    <3>1. DurablyKnown' = DurablyKnown
      <4>1. \A m \in Network, j \in Id :
              DurablyKnown'[m][j] = DurablyKnown[m][j]
        BY <1>8, <2>2, Rows
      <4>2. QED
        BY <4>1, SameRows
    <3>2. Durable!Leave \/ UNCHANGED up
      BY <1>8, <3>1 DEF Durable!Leave
    <3>3. QED
      BY <3>1, <3>2 DEF Durable!AbstractNext
  <2>3. QED
    BY <2>1, <2>2
<1>9. ASSUME opened
      PROVE  saving \in Id /\ net \in Network /\ up
  BY <1>9 DEF SaveInOrder, TypeOK
<1>10. CASE WriteCompletes \/ WriteStopsShort
  <2>1. opened /\ ~ opened' /\ UNCHANGED <<up, net>>
    BY <1>10 DEF WriteCompletes, WriteStopsShort
  <2>2. \/ UNCHANGED DurablyKnown
        \/ DurablyKnown' = [DurablyKnown EXCEPT ![net][saving] = NoEntity]
    BY <1>7, <1>10, <2>1, SaveStoresFacts
  <2>3. QED
    BY <1>1, <1>8, <1>9, <2>1, <2>2
<1>11. CASE Stop /\ ~ opened
  <2>1. UNCHANGED <<net, disk>> /\ ~ opened' /\ up' = FALSE
    BY <1>11 DEF Stop
  <2>2. Durable!Leave
    BY <1>2, <1>11, <2>1 DEF Durable!Leave
  <2>3. QED
    BY <2>2 DEF Durable!AbstractNext
<1>12. CASE Stop /\ opened
  <2>1. ~ opened' /\ UNCHANGED net /\ up' = FALSE
    BY <1>12 DEF Stop
  <2>2. \/ UNCHANGED DurablyKnown
        \/ DurablyKnown' = [DurablyKnown EXCEPT ![net][saving] = NoEntity]
    BY <1>7, <1>12, <2>1, SaveStoresFacts
  <2>3. CASE UNCHANGED DurablyKnown
    <3>1. Durable!Leave
      BY <2>1, <2>3 DEF Durable!Leave
    <3>2. QED
      BY <3>1 DEF Durable!AbstractNext
  <2>4. QED
    BY <1>8, <1>9, <1>12, <2>1, <2>2, <2>3
<1>13. CASE UNCHANGED <<up, net, m_entities, disk, saving, opened, unsaved>>
  BY <1>1, <1>13 DEF DurablyKnown, HasText, Facts
<1>14. QED
  BY <1>3, <1>4, <1>5, <1>6, <1>10, <1>11, <1>12, <1>13, StepCases

\* When no two ids are sanitised to one file name, the knowledge layer keeps
\* the promise of DurableKnowledge: whatever a later process finds of a
\* device only grows, a fault costs the facts of the device that is being
\* written and of no other one, and a start or a stop costs nothing.
THEOREM KeepsKnowledge == ASSUME OwnFile PROVE Spec => KeepsDurableKnowledge
<1>1. Init => Durable!AbstractInit
  BY StoreAssumption DEF Init, Durable!AbstractInit, DurablyKnown, HasText
<1>2. RInv /\ RInv' /\ [Next]_vars
        => [Durable!AbstractNext]_(Durable!abstractVars)
  BY StepRefines DEF Durable!abstractVars
<1>3. QED
  BY <1>1, <1>2, RefinementInv, PTL
  DEF Spec, KeepsDurableKnowledge, Durable!AbstractSpec
=============================================================================
