--------------------------- MODULE DeviceRegistry ---------------------------
(***************************************************************************)
(* The evidence that discovery collects: what SSDPAnalyzer.cpp takes from  *)
(* a packet and how DeviceRegistry.cpp keeps it.  The registry is a        *)
(* sequence, as m_evidence is; the operators return the registry after a   *)
(* call.                                                                   *)
(***************************************************************************)
EXTENDS Naturals, SequencesExt

CONSTANTS
    Uuid,       \* UDNs, and the uuids of USN headers
    NoUuid,     \* an empty uuid
    Service,    \* service types
    Generic,    \* targets that name no service: ssdp:all, upnp:rootdevice
    Ip,         \* addresses
    Location,   \* URLs of descriptions
    NoLocation  \* no LOCATION header

\* DetectType.
PacketType == {"HTTP Response", "NOTIFY", "M-SEARCH", "Unknown"}

Packet ==
    [type : PacketType, st : Service \cup Generic, uuid : Uuid \cup {NoUuid},
     ip : Ip, location : Location \cup {NoLocation}]

Evidence ==
    [source   : {"SSDP", "UPnP_XML"},
     uuid     : Uuid,
     ip       : Ip,
     services : SUBSET Service,
     location : Location \cup {NoLocation},
     named    : BOOLEAN]

-----------------------------------------------------------------------------
(* DeviceRegistry.                                                         *)

SameKey(e, f) == e.source = f.source /\ e.uuid = f.uuid /\ e.ip = f.ip

\* Fault: what is there stays.
RegisterOnce(evidences, e) ==
    IF \E k \in DOMAIN evidences : SameKey(evidences[k], e)
    THEN evidences
    ELSE Append(evidences, e)

\* Fault: every packet is evidence of its own.
RegisterAlways(evidences, e) == Append(evidences, e)

\* Register: the first evidence with the same key is replaced as a whole.
Register(evidences, e) ==
    LET found == {k \in DOMAIN evidences : SameKey(evidences[k], e)}
    IN IF found = {} THEN Append(evidences, e)
       ELSE [evidences EXCEPT ![CHOOSE k \in found : \A j \in found : k <= j] = e]

\* A description is announced, and nothing of it is known.
IsPending(e) == e.location # NoLocation /\ ~ e.named

AddPending(list, e) == IF IsPending(e) THEN Append(list, e) ELSE list

\* GetEvidencePendingDescription.
Pending(evidences) == FoldLeft(AddPending, <<>>, evidences)

-----------------------------------------------------------------------------
(* SSDPAnalyzer.                                                           *)

SsdpEvidence(p) ==
    [source |-> "SSDP", uuid |-> p.uuid, ip |-> p.ip,
     services |-> {p.st} \ Generic, location |-> p.location, named |-> FALSE]

\* Answers and announcements of who has a uuid.  The NTS header does not
\* matter: a device that says good-bye is evidence as well.
IsEvidence(p) == p.type \notin {"M-SEARCH", "Unknown"} /\ p.uuid # NoUuid

\* Fault: the tests are missing.
AnalyzeSsdpAnyway(evidences, p) == Register(evidences, SsdpEvidence(p))

\* Analyze.
AnalyzeSsdp(evidences, p) ==
    IF IsEvidence(p) THEN Register(evidences, SsdpEvidence(p)) ELSE evidences
=============================================================================
