------------------------- MODULE DeviceDescription -------------------------
(***************************************************************************)
(* How XmlAnalyzer.cpp reads a UPnP device description.  A description is  *)
(* a sequence of tokens: the tags that nest, and the elements that only    *)
(* hold a text as one token each.  The analyzer has no parser: an element  *)
(* reaches from its first opening tag to the next closing tag of the same  *)
(* name, whatever is nested in between.                                    *)
(***************************************************************************)
EXTENDS DeviceRegistry

ASSUME DescriptionAssumption == NoUuid \notin Uuid

OpenTag(tag)  == [mark |-> "open", tag |-> tag]
CloseTag(tag) == [mark |-> "close", tag |-> tag]
Leaf(tag, text) == [mark |-> "leaf", tag |-> tag, text |-> text]

-----------------------------------------------------------------------------
(* What a device serves.                                                   *)

\* No icon list, icons whose sizes are numbers, or a size that is none.
IconList == {"none", "sized", "unsized"}

\* A device without embedded devices, and a root device.
Node == [uuid     : Uuid \cup {NoUuid}, named : BOOLEAN, icons : IconList,
         services : SUBSET Service]

\* Tags in the order the UPnP architecture gives them; an empty element is
\* left out.
DeviceTokens(node, inner) ==
    <<OpenTag("device")>>
    \o (IF node.named THEN <<Leaf("friendlyName", "name")>> ELSE <<>>)
    \o (IF node.uuid = NoUuid THEN <<>> ELSE <<Leaf("UDN", node.uuid)>>)
    \o (IF node.icons = "none" THEN <<>> ELSE <<Leaf("iconList", node.icons)>>)
    \o (IF node.services = {} THEN <<>>
        ELSE <<Leaf("serviceList", node.services)>>)
    \o inner
    \o <<CloseTag("device")>>

\* The description of a root device with embedded devices.
Description(root, embedded) ==
    DeviceTokens(root,
        IF embedded = <<>> THEN <<>>
        ELSE <<OpenTag("deviceList")>>
             \o FlattenSeq([k \in DOMAIN embedded |->
                                DeviceTokens(embedded[k], <<>>)])
             \o <<CloseTag("deviceList")>>)

-----------------------------------------------------------------------------
(* XmlAnalyzer.                                                            *)

Positions(xml, token, from) == {k \in DOMAIN xml : k >= from /\ xml[k] = token}

\* find: where the token is next.
Find(xml, token, from) ==
    CHOOSE k \in Positions(xml, token, from) :
        \A j \in Positions(xml, token, from) : k <= j

HasElement(xml, tag, from) ==
    /\ Positions(xml, OpenTag(tag), from) # {}
    /\ Positions(xml, CloseTag(tag), Find(xml, OpenTag(tag), from)) # {}

ContentStart(xml, tag, from) == Find(xml, OpenTag(tag), from) + 1

ElementEnd(xml, tag, from) ==
    Find(xml, CloseTag(tag), ContentStart(xml, tag, from))

\* Empty if the element is not there, or not closed.
ExtractElement(xml, tag) ==
    IF HasElement(xml, tag, 1)
    THEN SubSeq(xml, ContentStart(xml, tag, 1), ElementEnd(xml, tag, 1) - 1)
    ELSE <<>>

\* Each search goes on behind the closing tag of the element before.
ExtractElements(xml, tag) ==
    LET from[p \in 1 .. Len(xml) + 1] ==
            IF HasElement(xml, tag, p)
            THEN <<SubSeq(xml, ContentStart(xml, tag, p),
                          ElementEnd(xml, tag, p) - 1)>>
                 \o from[ElementEnd(xml, tag, p) + 1]
            ELSE <<>>
    IN from[1]

\* Fault: the last element of that name.
LastText(xml, tag, none) ==
    LET there == {k \in DOMAIN xml : xml[k].mark = "leaf" /\ xml[k].tag = tag}
    IN IF there = {} THEN none
       ELSE xml[CHOOSE k \in there : \A j \in there : j <= k].text

\* ExtractElement for an element that holds a text.
ExtractText(xml, tag, none) ==
    LET there == {k \in DOMAIN xml : xml[k].mark = "leaf" /\ xml[k].tag = tag}
    IN IF there = {} THEN none
       ELSE xml[CHOOSE k \in there : \A j \in there : k <= j].text

ParseDeviceNode(xml) ==
    [uuid     |-> ExtractText(xml, "UDN", NoUuid),
     named    |-> ExtractText(xml, "friendlyName", "none") # "none",
     icons    |-> ExtractText(xml, "iconList", "none"),
     services |-> ExtractText(xml, "serviceList", {})]

EmbeddedDevices(rootXml) ==
    LET list == ExtractElements(ExtractElement(rootXml, "deviceList"), "device")
    IN [k \in DOMAIN list |-> ParseDeviceNode(list[k])]

\* The root device comes first.
DescribedDevices(xml) ==
    LET rootXml == ExtractElement(xml, "device")
    IN IF rootXml = <<>> THEN <<>>
       ELSE <<ParseDeviceNode(rootXml)>> \o EmbeddedDevices(rootXml)

XmlEvidence(node, ip, location) ==
    [source |-> "UPnP_XML", uuid |-> node.uuid, ip |-> ip,
     services |-> node.services, location |-> location, named |-> node.named]

\* A device without a UDN is left out.
RegisterNamed(evidences, e) ==
    IF e.uuid = NoUuid THEN evidences ELSE Register(evidences, e)

RegisterAll(evidences, list) == FoldLeft(RegisterNamed, evidences, list)

\* ExtractIcons: std::stoi throws at a size that is no number, out of
\* ParseDeviceNode and of Analyze.
ParseThrows(devices) == \E k \in DOMAIN devices : devices[k].icons = "unsized"

\* Analyze: ip is the address in the location.  Nothing is registered before
\* all devices are parsed.
AnalyzeXml(evidences, xml, ip, location) ==
    LET devices == DescribedDevices(xml)
    IN IF ParseThrows(devices)
       THEN evidences
       ELSE RegisterAll(evidences,
                [k \in DOMAIN devices |-> XmlEvidence(devices[k], ip, location)])
=============================================================================
