--------------------------- MODULE KnowledgeEntity ---------------------------
(***************************************************************************)
(* The knowledge record of one device (core/KnowledgeEntity.h), the merge  *)
(* of a live observation into it, its text form on disk and what a later   *)
(* process reads back from that text (services/KnowledgeStore.cpp).        *)
(*                                                                         *)
(* Only data is defined here; the module KnowledgeStore gives the actions. *)
(* The aliases, roles and device class of a record, and the diagnostics    *)
(* the code prints, are left out: they are copied along and nothing in the *)
(* knowledge layer decides on them.                                        *)
(***************************************************************************)
EXTENDS Integers

CONSTANTS
    Id,         \* LogicalDevice::id values, never the empty string
    NoId,       \* the empty string
    Name,       \* display names
    NoName,     \* the empty display name
    Cap,        \* Capability values
    Action,     \* ActionId values a capability profile may list
    Limit,      \* values of CapabilityProfile::globalConstraints
    Ctrl,       \* controller names
    Ip,         \* endpoint addresses
    Server,     \* values of ProtocolEndpoint::serverHeader
    NoSlot,     \* a free place in an endpoint list
    MaxSlots,   \* bound: endpoints of one entity that share an address
    MaxNow,     \* bound: the last value of the clock, in days
    Serial,     \* serial numbers of the tokens a device hands out
    NoToken     \* no "auth_token" entry in the credentials map

-----------------------------------------------------------------------------
(* Values.                                                                 *)

Time == 0 .. MaxNow

Pos == 1 .. MaxSlots

\* A ProtocolEndpoint, without its address.  "uuid" says whether the uuid is
\* non-empty; "urls" tells the UPnP evidence apart: there is none, there is
\* one whose applicationUrl is empty, or one with an applicationUrl.
Slot == [server : Server, uuid : BOOLEAN,
         urls : {"none", "location", "application"}]

\* The endpoints of an entity, grouped by address; for one address the
\* positions keep the order of the vector, and free positions do not count.
Endpoints == [Ip -> [Pos -> Slot \cup {NoSlot}]]

NoEndpoints == [ip \in Ip |-> [p \in Pos |-> NoSlot]]

SupportState == {"unlisted", "supported", "unsupported"}

\* A CapabilityProfile.  "present" is FALSE for a capability without one.
Profile == [present : BOOLEAN, limits : Limit,
            support : [Action -> SupportState]]

Profiles == [Cap -> Profile]

NoProfiles ==
    [c \in Cap |-> [present |-> FALSE, limits |-> CHOOSE l \in Limit : TRUE,
                    support |-> [a \in Action |-> "unlisted"]]]

\* A credential, with the device that issued it.
Token == [issuer : Id, serial : Serial]

\* A LogicalDevice as the discovery pipeline hands it over.
LiveDevice == [id : Id, name : Name \cup {NoName}, caps : SUBSET Cap,
               profiles : Profiles, ctrls : SUBSET Ctrl, eps : Endpoints]

\* The fields SerializeEntity writes.
Text == [pid : Id, name : Name \cup {NoName}, first : Time, seen : Time,
         ctrls : SUBSET Ctrl, caps : SUBSET Cap, profiles : Profiles,
         eps : Endpoints]

\* KnowledgeEntity.  "last" is lastObservedIdentity; "comm" is the status of
\* the last element of commHistory; "archived" says whether the journal has
\* an entry of type Archived.
Entity == [name : Name \cup {NoName}, first : Time, seen : Time,
           ctrls : SUBSET Ctrl, caps : SUBSET Cap, profiles : Profiles,
           eps : Endpoints,
           last : Id \cup {NoId}, cred : Token \cup {NoToken},
           comm : {"none", "success", "failure"}, archived : BOOLEAN]

ASSUME EntityAssumption ==
    /\ NoId \notin Id
    /\ NoName \notin Name
    /\ NoSlot \notin Slot
    /\ NoToken \notin Token
    /\ Limit # {}
    /\ MaxSlots \in Nat \ {0}
    /\ MaxNow \in Nat

-----------------------------------------------------------------------------
(* Merging a live observation.                                             *)

Occupied(slots) == {p \in Pos : slots[p] # NoSlot}

First(slots) == CHOOSE p \in Occupied(slots) :
                    \A q \in Occupied(slots) : p <= q

Latest(slots) == CHOOSE p \in Occupied(slots) :
                    \A q \in Occupied(slots) : q <= p

\* Every live endpoint of an address overwrites the first endpoint the entity
\* has there, so that the last live one stays and the others are lost.
MergeEndpoints(old, live) ==
    [ip \in Ip |->
        IF Occupied(live[ip]) = {} THEN old[ip]
        ELSE [old[ip] EXCEPT
                ![IF Occupied(old[ip]) = {} THEN 1 ELSE First(old[ip])] =
                    live[ip][Latest(live[ip])]]]

\* Fault: a merge that overwrites, as MergeEndpoints does.
MergeCapabilitiesOverwrites(old, live) == live

MergeCapabilities(old, live) == old \cup live

\* Fault: only the live profiles stay.
MergeCapabilityProfilesReplaces(old, live) == live

\* The actions of a live profile replace or join the known ones; the global
\* constraints of a profile that is already known stay as they are.
MergeCapabilityProfiles(old, live) ==
    [c \in Cap |->
        IF ~ live[c].present THEN old[c]
        ELSE IF ~ old[c].present THEN live[c]
        ELSE [old[c] EXCEPT !.support =
                [a \in Action |->
                    IF live[c].support[a] # "unlisted"
                    THEN live[c].support[a] ELSE old[c].support[a]]]]

\* UpdateFromDiscovery, branch "New Entity".
NewEntity(d, now) ==
    [name |-> d.name, first |-> now, seen |-> now,
     ctrls |-> d.ctrls, caps |-> d.caps, profiles |-> d.profiles,
     eps |-> d.eps, last |-> d.id, cred |-> NoToken,
     comm |-> "none", archived |-> FALSE]

\* UpdateFromDiscovery, branch "Merge Existing Entity".
MergedEntity(e, d, now) ==
    [e EXCEPT
        !.last = d.id,
        !.seen = now,
        !.name = IF d.name # NoName THEN d.name ELSE e.name,
        !.caps = MergeCapabilities(e.caps, d.caps),
        !.profiles = MergeCapabilityProfiles(e.profiles, d.profiles),
        !.eps = MergeEndpoints(e.eps, d.eps)]

-----------------------------------------------------------------------------
(* The text form.                                                          *)

\* The credentials, the communication history, the journal and the last
\* observed identity have no line of their own.
SerializeEntity(i, e) ==
    [pid |-> i, name |-> e.name, first |-> e.first, seen |-> e.seen,
     ctrls |-> e.ctrls, caps |-> e.caps, profiles |-> e.profiles,
     eps |-> e.eps]

\* The parts std::getline(ess, token, '|') finds in an ENDPOINT line: a last
\* part that is empty is not one.
Parts(s) ==
    CASE s.urls = "application"    -> 5   \* ip|server|uuid|location|application
      [] s.urls = "location"       -> 4   \* ip|server|uuid|location|
      [] s.urls = "none" /\ s.uuid -> 3   \* ip|server|uuid
      [] OTHER                     -> 2   \* ip|server|

\* Fault: a line is read only if it has all five parts.
ReadEndpointsWholeOnly(eps) ==
    [ip \in Ip |-> [p \in Pos |->
        IF eps[ip][p] = NoSlot THEN NoSlot
        ELSE IF Parts(eps[ip][p]) < 5 THEN NoSlot
        ELSE eps[ip][p]]]

ReadEndpoints(eps) ==
    [ip \in Ip |-> [p \in Pos |->
        IF eps[ip][p] = NoSlot THEN NoSlot
        ELSE IF Parts(eps[ip][p]) < 3 THEN NoSlot
        ELSE IF Parts(eps[ip][p]) < 5
             THEN [eps[ip][p] EXCEPT !.urls = "none"]
        ELSE eps[ip][p]]]

\* Fault: the status of a communication that is not recorded reads as one
\* that is not a status.
DeserializeEntityUnset(t) ==
    [name |-> t.name, first |-> t.first, seen |-> t.seen, ctrls |-> t.ctrls,
     caps |-> t.caps, profiles |-> t.profiles, eps |-> ReadEndpoints(t.eps),
     last |-> NoId, cred |-> NoToken, comm |-> "unset", archived |-> FALSE]

\* A field without a line keeps the default of the struct.
DeserializeEntity(t) ==
    [name |-> t.name, first |-> t.first, seen |-> t.seen,
     ctrls |-> t.ctrls, caps |-> t.caps, profiles |-> t.profiles,
     eps |-> ReadEndpoints(t.eps), last |-> NoId, cred |-> NoToken,
     comm |-> "none", archived |-> FALSE]

\* What is left of a text that was cut short.  The stream hands its text to
\* the system in pieces of a buffer, and the lines of the identity, the
\* dates, the controllers and the capabilities fill less than one: a cut
\* falls between or inside the lines of the profiles or, after them, of the
\* endpoints.  A line that is cut is lost, or an endpoint loses its URLs, or
\* a profile loses actions and, with all of them, digits of its constraints.
TornProfiles(profile) ==
    {[profile EXCEPT !.support =
        [a \in Action |-> IF a \in kept THEN @[a] ELSE "unlisted"]] :
        kept \in SUBSET Action}
    \cup {[profile EXCEPT !.limits = l,
                          !.support = [a \in Action |-> "unlisted"]] :
        l \in Limit}

CutProfiles(profiles) ==
    UNION {{[c \in Cap |-> IF c \in kept THEN profiles[c]
                           ELSE IF c = torn THEN rest
                           ELSE NoProfiles[c]] :
              kept \in SUBSET Cap, rest \in TornProfiles(profiles[torn])} :
           torn \in Cap}

CutEndpoints(eps) ==
    LET Lines == {l \in Ip \X Pos : eps[l[1]][l[2]] # NoSlot}
    IN {[ip \in Ip |-> [p \in Pos |->
           IF <<ip, p>> \notin kept THEN NoSlot
           ELSE IF <<ip, p>> \in torn THEN [eps[ip][p] EXCEPT !.urls = "none"]
           ELSE eps[ip][p]]] :
        kept \in SUBSET Lines, torn \in {{}} \cup {{l} : l \in Lines}}

CutTexts(t) ==
    {[t EXCEPT !.profiles = profiles, !.eps = NoEndpoints] :
        profiles \in CutProfiles(t.profiles)}
    \cup {[t EXCEPT !.eps = eps] : eps \in CutEndpoints(t.eps)}
=============================================================================
