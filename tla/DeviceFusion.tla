---------------------------- MODULE DeviceFusion ----------------------------
(***************************************************************************)
(* DeviceFusionEngine::Fuse: which pieces of evidence belong to one        *)
(* device.  Evidence with one uuid is one device with an endpoint for each *)
(* address; devices that resemble each other enough become one.            *)
(*                                                                         *)
(* No evidence has a parent: nothing but the embedded devices of a         *)
(* description would have one, and XmlAnalyzer finds none (see             *)
(* DeviceDescription), so that each uuid is a group of its own.  The       *)
(* analysers register no evidence without a uuid.                          *)
(***************************************************************************)
EXTENDS Integers, SequencesExt

CONSTANTS
    Uuid,           \* numbered in the order of their texts, as in a std::map
    Ip,             \* likewise
    Location,       \* URLs of descriptions
    NoLocation,     \* an empty URL
    Base,           \* the scheme, host and port of a URL
    Text,           \* values of the traits
    NoText,         \* an empty value
    Urn,            \* device and service types
    NoUrn           \* an empty type

ASSUME FusionAssumption ==
    /\ Uuid \subseteq Nat /\ Ip \subseteq Nat
    /\ NoLocation \notin Location
    /\ NoText \notin Text
    /\ NoUrn \notin Urn
    /\ \A u \in Urn : /\ u.kind \in {"service", "device"}
                      /\ {"domain", "name", "version"} \subseteq DOMAIN u

\* What an IdentityScoringPolicy weighs of the texts about a device.
Trait ==
    {"serialNumber", "presentationUrl", "displayName", "manufacturer", "model"}

Weight ==
    [serialNumber |-> 100, presentationUrl |-> 60, displayName |-> 50,
     manufacturer |-> 30, model |-> 30]

SameUrlWeight == 70     \* sameLocationUrlMatch and sameBaseUrlMatch
SameUuidWeight == 70
SameIpWeight == 15
FusionThreshold == 80

\* A service has a control URL and an id if a description gave it.
Service == [type : Urn, control : Location \cup {NoLocation}]

IdentityEvidence ==
    [source     : {"SSDP", "UPnP_XML"},
     uuid       : Uuid,
     ip         : Ip,
     location   : Location \cup {NoLocation},
     deviceType : Urn \cup {NoUrn},
     services   : Seq(Service),
     traits     : [Trait -> Text \cup {NoText}]]

ProtocolEndpoint ==
    [ip         : Ip,
     uuid       : Uuid,
     location   : Location \cup {NoLocation},
     deviceType : Urn \cup {NoUrn},
     services   : Seq(Service)]

-----------------------------------------------------------------------------
(* One device for each uuid.                                               *)

\* A set of numbers, in order.
Ascending(S) ==
    CHOOSE f \in [1 .. Cardinality(S) -> S] :
        \A j, k \in DOMAIN f : j < k => f[j] < f[k]

\* What a sequence holds at some positions, in order.
Selected(s, positions) ==
    LET order == Ascending(positions)
    IN [k \in DOMAIN order |-> s[order[k]]]

FirstOf(value, other, none) == IF value = none THEN other ELSE value

FirstTraits(mine, others) ==
    [t \in Trait |-> FirstOf(mine[t], others[t], NoText)]

\* The first service of a type stays as it is.
AddService(services, service) ==
    IF \E k \in DOMAIN services : services[k].type = service.type
    THEN services
    ELSE Append(services, service)

NewEndpoint(e) ==
    [ip |-> e.ip, uuid |-> e.uuid, location |-> e.location,
     deviceType |-> e.deviceType, services |-> e.services]

MergeUpnp(endpoint, e) ==
    [endpoint EXCEPT
        !.location = FirstOf(@, e.location, NoLocation),
        !.deviceType = FirstOf(@, e.deviceType, NoUrn),
        !.services = FoldLeft(AddService, @, e.services)]

\* What the evidence of one uuid says, the first that says something first.
AddTraits(traits, e) == FirstTraits(traits, e.traits)

\* The endpoint of the evidence of one uuid and one address.
Endpoint(evidences) ==
    FoldLeft(MergeUpnp, NewEndpoint(Head(evidences)), Tail(evidences))

\* The addresses of a group, one endpoint each.
Endpoints(group) ==
    LET ips == Ascending({e.ip : e \in Range(group)})
    IN [n \in DOMAIN ips |->
            Endpoint(Selected(group, {k \in DOMAIN group : group[k].ip = ips[n]}))]

BaseDevice(group) ==
    [id        |-> Head(group).uuid,
     primaryIp |-> Head(group).ip,
     traits    |-> FoldLeft(AddTraits, Head(group).traits, Tail(group)),
     endpoints |-> Endpoints(group)]

Group(evidences, uuid) ==
    Selected(evidences, {k \in DOMAIN evidences : evidences[k].uuid = uuid})

BaseDevices(evidences) ==
    LET uuids == Ascending({e.uuid : e \in Range(evidences)})
    IN [n \in DOMAIN uuids |-> BaseDevice(Group(evidences, uuids[n]))]

-----------------------------------------------------------------------------
(* One device for all that resemble each other.                            *)

LocationUrl(device) ==
    LET located == {k \in DOMAIN device.endpoints :
                        device.endpoints[k].location # NoLocation}
    IN IF located = {} THEN NoLocation ELSE device.endpoints[Min(located)].location

SameUrl(l, m) == {l, m} \subseteq Location /\ Base[l] = Base[m]

\* Fault: two that say nothing say the same.
ScoreOfNothing(base, device) ==
    SumFunction([t \in Trait |-> IF base.traits[t] = device.traits[t]
                                 THEN Weight[t] ELSE 0])

Score(base, device) ==
    SumFunction([t \in Trait |-> IF /\ base.traits[t] # NoText
                                    /\ base.traits[t] = device.traits[t]
                                 THEN Weight[t] ELSE 0])
    + (IF base.id = device.id THEN SameUuidWeight ELSE 0)
    + (IF SameUrl(LocationUrl(base), LocationUrl(device)) THEN SameUrlWeight ELSE 0)
    + (IF base.primaryIp = device.primaryIp THEN SameIpWeight ELSE 0)

Absorb(device, base) ==
    [device EXCEPT !.endpoints = @ \o base.endpoints,
                   !.traits = FirstTraits(@, base.traits)]

Alike(devices, base) ==
    {k \in DOMAIN devices : Score(base, devices[k]) >= FusionThreshold}

\* Fault: the loop does not stop at the first match.
PlaceEverywhere(devices, base) ==
    IF Alike(devices, base) = {} THEN Append(devices, base)
    ELSE [k \in DOMAIN devices |-> IF k \in Alike(devices, base)
                                   THEN Absorb(devices[k], base)
                                   ELSE devices[k]]

\* The first device that is like it takes it in.
Place(devices, base) ==
    IF Alike(devices, base) = {} THEN Append(devices, base)
    ELSE [devices EXCEPT ![Min(Alike(devices, base))] = Absorb(@, base)]

-----------------------------------------------------------------------------
(* The services of a device.                                               *)

\* A service nobody described has an empty id, as all of its kind.
ServiceId(service) ==
    IF service.control = NoLocation THEN "" ELSE service.type.name

AddDescriptor(services, service) ==
    IF \E k \in DOMAIN services : ServiceId(services[k]) = ServiceId(service)
    THEN services
    ELSE Append(services, service)

Services(device) ==
    FoldLeft(AddDescriptor, <<>>,
             FlattenSeq([k \in DOMAIN device.endpoints |->
                            device.endpoints[k].services]))

Fuse(evidences) ==
    LET devices == FoldLeft(Place, <<>>, BaseDevices(evidences))
    IN [k \in DOMAIN devices |->
            [id        |-> devices[k].id,
             primaryIp |-> devices[k].primaryIp,
             traits    |-> devices[k].traits,
             endpoints |-> devices[k].endpoints,
             services  |-> Services(devices[k])]]
=============================================================================
