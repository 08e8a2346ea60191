-------------------------- MODULE MCDevicePipeline --------------------------
(***************************************************************************)
(* Registries for DevicePipeline: a television that announces itself under *)
(* two uuids with descriptions on one host and may move, and a third       *)
(* device, a server or a router.  Any of the answers may be missing, those *)
(* of one uuid come in either order, and any of the descriptions may not  *)
(* be fetched.                                                             *)
(***************************************************************************)
EXTENDS DevicePipeline

CONSTANTS la, lb, lc, host1, host2, samsung, tv, renderer, other, sn

UPnP(kind, name) ==
    [domain |-> "urn:schemas-upnp-org", kind |-> kind, name |-> name, version |-> 1]
SamsungType(kind, name) ==
    [domain |-> "urn:samsung.com", kind |-> kind, name |-> name, version |-> 1]
Dial == [domain |-> "urn:dial-multiscreen-org", kind |-> "service", name |-> "dial",
         version |-> 1]

AVTransport == UPnP("service", "AVTransport")
RenderingControl == UPnP("service", "RenderingControl")
ContentDirectory == UPnP("service", "ContentDirectory")
MediaRenderer == UPnP("device", "MediaRenderer")
MediaServer == UPnP("device", "MediaServer")
Gateway == UPnP("device", "InternetGatewayDevice")
RemoteControl == SamsungType("device", "RemoteControlReceiver")
MultiScreen == SamsungType("service", "MultiScreenService")

Urns ==
    {AVTransport, RenderingControl, ContentDirectory, MediaRenderer, MediaServer,
     Gateway, RemoteControl, MultiScreen, Dial}

Bases == [l \in Location |-> IF l = lc THEN host2 ELSE host1]

Silent == [t \in Trait |-> NoText]

Answer(uuid, ip, location, types) ==
    [source |-> "SSDP", uuid |-> uuid, ip |-> ip, location |-> location,
     deviceType |-> NoUrn, traits |-> Silent,
     services |-> [k \in DOMAIN types |-> [type |-> types[k], control |-> NoLocation]]]

Answers ==
    {Answer(1, 1, la, <<RemoteControl>>), Answer(1, 1, la, <<MultiScreen>>),
     Answer(2, 1, lb, <<AVTransport>>), Answer(2, 1, lb, <<>>),
     Answer(2, 2, lb, <<MediaRenderer>>),
     Answer(3, 2, lc, <<>>), Answer(3, 2, lc, <<Dial>>)}

Described(uuid, ip, location, deviceType, types, name, maker, serial) ==
    [source |-> "UPnP_XML", uuid |-> uuid, ip |-> ip, location |-> location,
     deviceType |-> deviceType,
     services |-> [k \in DOMAIN types |-> [type |-> types[k], control |-> location]],
     traits |-> [Silent EXCEPT !["displayName"] = name, !["manufacturer"] = maker,
                               !["serialNumber"] = serial]]

\* What each location may serve, if it is fetched.
Descriptions ==
    [l \in Location |->
        CASE l = la -> {Described(1, 1, la, RemoteControl, <<MultiScreen>>,
                                  tv, samsung, NoText),
                        Described(1, 1, la, RemoteControl, <<MultiScreen>>,
                                  renderer, other, sn)}
          [] l = lb -> {Described(2, 1, lb, MediaRenderer,
                                  <<RenderingControl, AVTransport>>,
                                  tv, samsung, NoText)}
          [] l = lc -> {Described(3, 2, lc, MediaServer, <<ContentDirectory>>,
                                  renderer, other, NoText),
                        Described(3, 2, lc, Gateway, <<>>, tv, other, NoText),
                        Described(3, 2, lc, Gateway, <<>>, tv, samsung, sn)}]

\* One answer for each uuid and address.
Heard ==
    {A \in SUBSET Answers :
        \A a, b \in A : a.uuid = b.uuid /\ a.ip = b.ip => a = b}

\* Only the order of evidence of one uuid can matter: those of different uuids
\* go to different groups.
Forward(a, b) == a.uuid < b.uuid \/ (a.uuid = b.uuid /\ a.ip < b.ip)
Backward(a, b) == Forward(b, a)

\* At most one description of each location of a set.
Fetched(locations) ==
    {D \in SUBSET UNION {Descriptions[l] : l \in locations} :
        \A c, d \in D : c.location = d.location => c = d}

MCRegistries ==
    UNION {{SetToSortSeq(A, Forward) \o SetToSortSeq(D, Forward),
            SetToSortSeq(A, Backward) \o SetToSortSeq(D, Forward)} :
           <<A, D>> \in {p \in Heard \X Fetched(Location) :
                           \A d \in p[2] : \E a \in p[1] : a.location = d.location}}
=============================================================================
