--------------------------- MODULE DevicePipeline ---------------------------
(***************************************************************************)
(* What main.cpp makes of the registry after the downloads: it fuses the   *)
(* evidence to devices, takes each device through the stages of the        *)
(* intelligence pipeline, and hands the devices to the knowledge store.    *)
(*                                                                         *)
(* Each stage reads what the ones before it left in the device, and some   *)
(* clear what an earlier one wrote.                                        *)
(***************************************************************************)
EXTENDS DeviceFusion

CONSTANTS
    Registries,     \* inputs: what the registry may hold
    SamsungText,    \* manufacturers whose text contains "samsung"
    RokuText        \* manufacturers whose text contains "roku"

\* Evidence of an answer comes before that of a description and gives no
\* device type, and no two pieces share source, uuid and address (Discovery).
ASSUME PipelineAssumption ==
    /\ SamsungText \subseteq Text /\ RokuText \subseteq Text
    /\ \A r \in Registries :
         /\ r \in Seq(IdentityEvidence)
         /\ \A j \in DOMAIN r : r[j].source = "SSDP" => r[j].deviceType = NoUrn
         /\ \A j, k \in DOMAIN r : j < k =>
              /\ r[j].source = "UPnP_XML" => r[k].source = "UPnP_XML"
              /\ \/ r[j].source # r[k].source
                 \/ r[j].uuid # r[k].uuid
                 \/ r[j].ip # r[k].ip

VARIABLES
    registry,   \* the evidence, in the order of registration
    devices,    \* logicalDevices
    stage,      \* the stage that comes next
    at,         \* the device it is for
    merged      \* what the knowledge store was given

vars == <<registry, devices, stage, at, merged>>

Init ==
    /\ registry \in Registries
    /\ devices = <<>>
    /\ stage = "fuse"
    /\ at = 1
    /\ merged = <<>>

-----------------------------------------------------------------------------
(* ProtocolNormalizer.                                                     *)

Domain(urn) ==
    IF urn.domain = "urn:schemas-upnp-org" THEN "upnp" ELSE urn.domain

Normalized(urn) ==
    [name |-> urn.name, domain |-> Domain(urn), version |-> urn.version]

\* The types an endpoint names, those of its services and its own.
Types(ep) ==
    {s.type : s \in Range(ep.services)} \cup ({ep.deviceType} \ {NoUrn})

\* Fault: the first endpoint speaks for the device.
NormalizeFirst(device) == {Normalized(u) : u \in Types(Head(device.endpoints))}

\* normalizedServices; no stage reads their order.
Normalize(device) ==
    {Normalized(u) : u \in UNION {Types(ep) : ep \in Range(device.endpoints)}}

-----------------------------------------------------------------------------
(* DeviceClassifier and CapabilityResolver.                                *)

RouterName ==
    {"WANDevice", "WANConnectionDevice", "InternetGatewayDevice",
     "WANCommonInterfaceConfig", "WANIPConnection", "WANIPv6FirewallControl",
     "WANPPPConnection", "Layer3Forwarding"}

\* The names that tell a role.
RoleNames ==
    [MediaRenderer       |-> {"RenderingControl", "AVTransport",
                              "ConnectionManager", "MediaRenderer"},
     MediaServer         |-> {"ContentDirectory", "MediaServer"},
     DIALReceiver        |-> {"dial"},
     RemoteControlTarget |-> {"RemoteControlReceiver"},
     NetworkRouter       |-> RouterName]

Role == DOMAIN RoleNames

DeviceTypes(device) ==
    {ep.deviceType : ep \in Range(device.endpoints)} \ {NoUrn}

\* The other words a type is searched for name a role as services do.
Roles(device) ==
    {r \in Role : \E s \in device.normalizedServices : s.name \in RoleNames[r]}
    \cup {r \in {"DIALReceiver"} :
            \E u \in DeviceTypes(device) :
                u.name = "dialreceiver" \/ u.domain = "urn:dial-multiscreen-org"}

\* Namespaces of a device type and of services; the device types among the
\* services have none.
Namespaces(device) ==
    {u.domain : u \in DeviceTypes(device)
                        \cup {v \in UNION {Types(ep) : ep \in Range(device.endpoints)} :
                                v.kind = "service"}}

PrimaryClass(device, roles) ==
    LET names == {u.name : u \in DeviceTypes(device)}
        maker == device.traits["manufacturer"]
    IN IF "NetworkRouter" \in roles THEN "InternetGateway"
       ELSE IF \/ "urn:samsung.com" \in Namespaces(device)
               \/ /\ maker \in SamsungText
                  /\ roles \cap {"RemoteControlTarget", "MediaRenderer",
                                 "DIALReceiver"} # {}
            THEN "SmartTV"
       ELSE IF "DIALReceiver" \in roles /\ maker \in RokuText
            THEN "StreamingDevice"
       \* signature.deviceTypes is sorted: a renderer comes first.
       ELSE IF "MediaRenderer" \in names THEN "MediaRenderer"
       ELSE IF "MediaServer" \in names THEN "MediaServer"
       ELSE IF "MediaRenderer" \in roles THEN "MediaRenderer"
       ELSE IF "MediaServer" \in roles THEN "MediaServer"
       ELSE "Unknown"

\* What a service or a role is good for.
NameCapabilities ==
    [RenderingControl      |-> {"VolumeControl", "Mute"},
     AVTransport           |-> {"MediaPlayback", "MediaTransport"},
     ConnectionManager     |-> {"InputSelection"},
     dial                  |-> {"ApplicationLaunching"},
     RemoteControlReceiver |-> {"RemoteControl"}]

RoleCapabilities ==
    [DIALReceiver        |-> {"ApplicationLaunching"},
     RemoteControlTarget |-> {"PowerControl", "VolumeControl", "Mute",
                              "InputSelection"},
     MediaRenderer       |-> {"MediaPlayback", "MediaTransport",
                              "VolumeControl", "Mute"}]

Capabilities(device) ==
    (UNION {NameCapabilities[n] :
              n \in DOMAIN NameCapabilities
                      \cap {s.name : s \in device.normalizedServices}})
    \cup (UNION {RoleCapabilities[r] : r \in DOMAIN RoleCapabilities \cap device.roles})

-----------------------------------------------------------------------------
(* ControllerResolver and the controllers.                                 *)

\* In the order of registration.
Controllers == <<"SamsungController", "GenericDLNAController", "UnknownController">>

\* The domain of a normalised Samsung type is "urn:samsung.com".
SamsungDomain(device) ==
    \E s \in device.normalizedServices : s.domain \in {"samsung.com", "samsung"}

SamsungMaker(device) == device.traits["manufacturer"] \in SamsungText

IsMatch(controller, device) ==
    CASE controller = "SamsungController" ->
            /\ device.primaryClass = "SmartTV"
            /\ SamsungMaker(device) \/ SamsungDomain(device)
      [] controller = "GenericDLNAController" ->
            device.primaryClass \in {"MediaRenderer", "MediaServer", "SmartTV"}
      [] controller = "UnknownController" -> TRUE

\* The points of the services a controller knows.
Points(device, known) ==
    SumFunction([s \in device.normalizedServices |->
                    IF s.name \in DOMAIN known THEN known[s.name] ELSE 0])

Evaluate(controller, device) ==
    CASE controller = "SamsungController" ->
            (IF SamsungMaker(device) THEN 100 ELSE 0)
            + (IF SamsungDomain(device) THEN 30 ELSE 0)
            + Points(device, [RenderingControl |-> 5, AVTransport |-> 5, dial |-> 2])
      [] controller = "GenericDLNAController" ->
            (IF \E s \in device.normalizedServices :
                    s.domain \in {"schemas-upnp-org", "upnp"} THEN 20 ELSE 0)
            + Points(device, [MediaRenderer |-> 40, AVTransport |-> 30,
                              RenderingControl |-> 10, DIAL |-> 30])
      [] controller = "UnknownController" -> 1

ValidateEndpoints(controller, device) ==
    LET names == {s.name : s \in device.normalizedServices}
    IN CASE controller = "SamsungController" ->
               names \cap {"RemoteControlReceiver", "MultiScreenService"} # {}
         [] controller = "GenericDLNAController" ->
               names \cap {"RenderingControl", "AVTransport", "ContentDirectory",
                           "DIAL"} # {}
         [] controller = "UnknownController" -> TRUE

VendorActions ==
    [SamsungController     |-> {"PowerOn", "PowerOff"},
     GenericDLNAController |-> {},
     UnknownController     |-> {}]

\* A controller that does not match is rejected without a score.
Candidate(controller, device) ==
    IF IsMatch(controller, device)
    THEN [name |-> controller, confidence |-> Evaluate(controller, device),
          isRejected |-> ~ ValidateEndpoints(controller, device)]
    ELSE [name |-> controller, confidence |-> 0, isRejected |-> TRUE]

\* Fault: the first sort is the only one, by score alone.
ByScore(a, b) == a.confidence > b.confidence

Better(a, b) ==
    IF a.isRejected # b.isRejected THEN b.isRejected
    ELSE a.confidence > b.confidence

\* The candidates, the best first.  So few elements are sorted by insertion:
\* equals keep their order.
Candidates(device) ==
    LET candidate == [k \in DOMAIN Controllers |-> Candidate(Controllers[k], device)]
        Before(j, k) == \/ Better(candidate[j], candidate[k])
                        \/ ~ Better(candidate[k], candidate[j]) /\ j < k
        order == CHOOSE f \in [DOMAIN Controllers -> DOMAIN Controllers] :
                    \A j, k \in DOMAIN f : j < k => Before(f[j], f[k])
    IN [k \in DOMAIN order |-> candidate[order[k]]]

ActionsOf ==
    [PowerControl         |-> {"PowerOn", "PowerOff"},
     VolumeControl        |-> {"VolumeUp", "VolumeDown", "SetVolume", "GetVolume"},
     Mute                 |-> {"Mute", "Unmute"},
     MediaPlayback        |-> {"Play", "Pause", "Stop"},
     MediaTransport       |-> {"Next", "Previous", "Seek"},
     ApplicationLaunching |-> {"LaunchApplication"},
     InputSelection       |-> {"SelectInput"},
     RemoteControl        |-> {"SendKey"}]

-----------------------------------------------------------------------------
(* The stages.                                                             *)

\* A fused device, with the fields no stage has filled yet.
Unresolved(fused) ==
    [id                 |-> fused.id,
     primaryIp          |-> fused.primaryIp,
     traits             |-> fused.traits,
     endpoints          |-> fused.endpoints,
     services           |-> fused.services,
     normalizedServices |-> {},
     primaryClass       |-> "Unknown",
     roles              |-> {},
     capabilities       |-> {},
     candidates         |-> <<>>,
     actions            |-> {}]

Resolve ==
    /\ stage = "fuse"
    /\ LET fused == Fuse(registry)
       IN devices' = [k \in DOMAIN fused |-> Unresolved(fused[k])]
    /\ stage' = IF devices' = <<>> THEN "merge" ELSE "normalize"
    /\ UNCHANGED <<registry, at, merged>>

ProtocolNormalizer ==
    /\ stage = "normalize"
    /\ devices' = [devices EXCEPT ![at].normalizedServices = Normalize(devices[at])]
    /\ stage' = "classify"
    /\ UNCHANGED <<registry, at, merged>>

DeviceClassifier ==
    /\ stage = "classify"
    /\ LET roles == Roles(devices[at])
       IN devices' = [devices EXCEPT
                        ![at].roles = roles,
                        ![at].primaryClass = PrimaryClass(devices[at], roles)]
    /\ stage' = "capabilities"
    /\ UNCHANGED <<registry, at, merged>>

CapabilityResolver ==
    /\ stage = "capabilities"
    /\ devices' = [devices EXCEPT ![at].capabilities = Capabilities(devices[at])]
    /\ stage' = "controllers"
    /\ UNCHANGED <<registry, at, merged>>

\* The first accepted candidate adds its vendor's actions.
ControllerResolver ==
    /\ stage = "controllers"
    /\ LET candidates == Candidates(devices[at])
       IN devices' = [devices EXCEPT
                        ![at].candidates = candidates,
                        ![at].actions = @ \cup VendorActions[candidates[1].name]]
    /\ stage' = "actions"
    /\ UNCHANGED <<registry, at, merged>>

\* Fault: off by one.
AfterDevicePast ==
    IF at <= Len(devices) THEN [stage |-> "normalize", at |-> at + 1]
    ELSE [stage |-> "merge", at |-> 1]

\* The stage that follows the last one of a device.
AfterDevice ==
    IF at < Len(devices) THEN [stage |-> "normalize", at |-> at + 1]
    ELSE [stage |-> "merge", at |-> 1]

\* The actions are cleared first.  The profiles, one for each capability, say of
\* each of its actions that it is supported.
ActionResolver ==
    /\ stage = "actions"
    /\ devices' = [devices EXCEPT
                    ![at].actions = UNION {ActionsOf[c] : c \in devices[at].capabilities}]
    /\ stage' = AfterDevice.stage
    /\ at' = AfterDevice.at
    /\ UNCHANGED <<registry, merged>>

\* KnowledgeStore::UpdateFromDiscovery for one device after the other.
UpdateFromDiscovery ==
    /\ stage = "merge"
    /\ at <= Len(devices)
    /\ merged' = Append(merged, devices[at])
    /\ at' = at + 1
    /\ UNCHANGED <<registry, devices, stage>>

Next ==
    \/ Resolve
    \/ ProtocolNormalizer
    \/ DeviceClassifier
    \/ CapabilityResolver
    \/ ControllerResolver
    \/ ActionResolver
    \/ UpdateFromDiscovery

Spec == Init /\ [][Next]_vars

-----------------------------------------------------------------------------
(* What must hold.                                                         *)

Stage == {"normalize", "classify", "capabilities", "controllers", "actions"}

PrimaryDeviceClass ==
    {"InternetGateway", "SmartTV", "StreamingDevice", "MediaRenderer",
     "MediaServer", "Unknown"}

ControllerCandidate ==
    [name : Range(Controllers), confidence : Nat, isRejected : BOOLEAN]

DeviceOK(d) ==
    /\ d.id \in Uuid
    /\ d.primaryIp \in Ip
    /\ d.traits \in [Trait -> Text \cup {NoText}]
    /\ d.endpoints \in Seq(ProtocolEndpoint)
    /\ d.services \in Seq(Service)
    /\ d.primaryClass \in PrimaryDeviceClass
    /\ d.roles \subseteq Role
    /\ d.capabilities \subseteq DOMAIN ActionsOf
    /\ d.candidates \in Seq(ControllerCandidate)
    /\ d.actions \subseteq UNION Range(ActionsOf)

TypeOK ==
    /\ registry \in Seq(IdentityEvidence)
    /\ \A d \in Range(devices) \cup Range(merged) : DeviceOK(d)
    /\ \/ stage \in Stage /\ at \in DOMAIN devices
       \/ stage = "fuse" /\ at = 1 /\ devices = <<>>
       \/ stage = "merge" /\ at = Len(merged) + 1

Finished == stage = "merge" /\ at > Len(devices)

TypesOf(services) == {s.type : s \in Range(services)}

Holds(d, e) ==
    \E ep \in Range(d.endpoints) : ep.uuid = e.uuid /\ ep.ip = e.ip

\* The evidence a device was made of.
EvidenceOf(d) == {e \in Range(registry) : Holds(d, e)}

Holders(list, e) == {k \in DOMAIN list : Holds(list[k], e)}

Placed(list) ==
    \A e \in Range(registry) :
        /\ Cardinality(Holders(list, e)) = 1
        /\ \A k \in Holders(list, e) :
             \E ep \in Range(list[k].endpoints) :
                /\ ep.uuid = e.uuid /\ ep.ip = e.ip
                /\ TypesOf(e.services) \subseteq TypesOf(ep.services)

\* Every piece of evidence is part of one device, and of one only, with all
\* the services it names: after the fusion, and again in what the knowledge
\* store is given (Fuse, main).
EvidenceIsPlaced ==
    /\ stage # "fuse" => Placed(devices)
    /\ Finished => Placed(merged)

\* What two sets of evidence have in common, by the weights of the policy.
Resemblance(some, others) ==
    LET Says(evidences, t) == {e.traits[t] : e \in evidences} \ {NoText}
        At(evidences) == {e.ip : e \in evidences}
        Bases(evidences) == {Base[e.location] :
                                e \in {f \in evidences : f.location # NoLocation}}
    IN SumFunction([t \in Trait |-> IF Says(some, t) \cap Says(others, t) # {}
                                    THEN Weight[t] ELSE 0])
       + (IF Bases(some) \cap Bases(others) # {} THEN SameUrlWeight ELSE 0)
       + (IF At(some) \cap At(others) # {} THEN SameIpWeight ELSE 0)

\* A uuid is only taken into a device of other uuids if its evidence and
\* theirs have enough in common, whatever the order of the evidence: what two
\* descriptions leave out is nothing they share (Fuse).
FusionIsJustified ==
    \A d \in Range(devices) :
        \A e \in EvidenceOf(d) :
            e.uuid # d.id =>
                LET own == {f \in EvidenceOf(d) : f.uuid = e.uuid}
                IN Resemblance(own, EvidenceOf(d) \ own) >= FusionThreshold

\* The types a piece of evidence names.
Named(e) == TypesOf(e.services) \cup ({e.deviceType} \ {NoUrn})

\* What evidence says a device can do, without the stages in between.
ActionsFrom(evidences) ==
    LET types == UNION {Named(e) : e \in evidences}
        names == {u.name : u \in types}
        dials == {u \in {e.deviceType : e \in evidences} \ {NoUrn} :
                    u.name = "dialreceiver" \/ u.domain = "urn:dial-multiscreen-org"}
        roles == {r \in Role : names \cap RoleNames[r] # {}}
                    \cup (IF dials = {} THEN {} ELSE {"DIALReceiver"})
        able == (UNION {NameCapabilities[n] : n \in names \cap DOMAIN NameCapabilities})
                \cup (UNION {RoleCapabilities[r] : r \in roles \cap DOMAIN RoleCapabilities})
    IN UNION {ActionsOf[c] : c \in able}

\* A device ends up with every action its evidence speaks for and with no
\* other, but for those of a controller that accepted it: none is lost on the
\* way through fusion, normalisation, roles, capabilities and resolution, and
\* none comes from the evidence of another device (Normalize, Classify,
\* Resolve).  That the vendor's actions stay is VendorActionsAreKept, below.
ActionsMirrorEvidence ==
    \A d \in Range(merged) :
        LET spoken == ActionsFrom(EvidenceOf(d))
            accepted == {c \in Range(d.candidates) : ~ c.isRejected}
        IN /\ spoken \subseteq d.actions
           /\ d.actions \subseteq spoken \cup UNION {VendorActions[c.name] : c \in accepted}

\* The engine tries the candidates in their order: those that were accepted
\* come first, the higher score before the lower, and the vendor's controller
\* only for a device of which some evidence names the vendor, as the maker or
\* by a type of its own (ControllerResolver::Resolve,
\* ExecutionEngine::Execute).
BestControllerFirst ==
    \A d \in Range(merged) :
        /\ \A j, k \in DOMAIN d.candidates :
             j < k /\ ~ d.candidates[k].isRejected =>
                /\ ~ d.candidates[j].isRejected
                /\ d.candidates[j].confidence >= d.candidates[k].confidence
        /\ \A c \in Range(d.candidates) :
             c.name = "SamsungController" /\ ~ c.isRejected =>
                \E e \in EvidenceOf(d) :
                    \/ e.traits["manufacturer"] \in SamsungText
                    \/ \E u \in Named(e) : u.domain \in {"samsung.com", "samsung"}

-----------------------------------------------------------------------------
(* What comments of the code say and the code does not do.                 *)

\* ControllerResolver.cpp:61, "Add vendor actions to the device": what the
\* best candidate adds (IDeviceController.h:63) is among its actions in the
\* end.
VendorActionsAreKept ==
    \A d \in Range(merged) :
        ~ d.candidates[1].isRejected =>
            VendorActions[d.candidates[1].name] \subseteq d.actions
=============================================================================
