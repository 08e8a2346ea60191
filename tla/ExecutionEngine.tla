--------------------------- MODULE ExecutionEngine --------------------------
(***************************************************************************)
(* How ExecutionEngine::Execute turns an action on a device into a         *)
(* command for a transport: the controllers' GetExecutionRoute, the        *)
(* Samsung strategy's BuildRequest and TransportRegistry::GetTransport.    *)
(*                                                                         *)
(* A route is determined by the device, the action and the category of the *)
(* ActionDescriptor.  WorkflowPlanner.cpp:57 and ExecutionValidator.cpp:35 *)
(* never initialise that category, so that it is a parameter here, and     *)
(* whoever executes a step chooses it.                                     *)
(***************************************************************************)
EXTENDS Naturals, Sequences

CONSTANT Registered  \* the families of the registered transports

ASSUME RegisteredAssumption ==
    Registered \subseteq {"SOAP", "DIAL", "WebSocket", "WakeOnLAN", "Unknown"}

\* The actions an intent can be canonicalised to, and GetVolume and Seek,
\* which only a caller of the engine can ask for.
ActionId ==
    {"PowerOn", "PowerOff", "VolumeUp", "VolumeDown", "SetVolume", "GetVolume",
     "Mute", "Unmute", "LaunchApplication", "Play", "Pause", "Stop", "Next",
     "Previous", "Seek", "SendKey", "CheckReachable"}

\* The two services GenericDLNAController derives from a category.
Category == {"AVTransport", "RenderingControl"}

Controller ==
    {"SamsungController", "GenericDLNAController", "UnknownController"}

\* What routing reads of an endpoint: has it UPnP evidence, a DIAL service,
\* and which URL does DIAL start from.
Endpoint ==
    [upnp : BOOLEAN, dial : BOOLEAN, url : {"none", "location", "application"}]

\* What routing reads of a device; ctrls are the candidates that were not
\* rejected, the best first.
LogicalDevice ==
    [ctrls    : Seq(Controller),
     mac      : BOOLEAN,
     dial     : BOOLEAN,
     services : [Category -> {"absent", "none", "control"}],
     eps      : Seq(Endpoint),
     caps     : SUBSET {"PowerControl", "VolumeControl", "Mute",
                        "MediaPlayback", "MediaTransport",
                        "ApplicationLaunching", "RemoteControl"}]

-----------------------------------------------------------------------------
(* Routes.  A std::optional route is a set with one route or none.         *)

Nothing == "nothing"

\* What a device can be told: the magic packet, a key, a SOAP action, a launch.
Command ==
    {"MagicPacket", "KEY_POWER", "KEY_VOLUP", "KEY_VOLDOWN", "KEY_MUTE",
     "KEY_UNKNOWN", "SetVolume", "GetVolume", "SetMuteOn", "SetMuteOff", "Play",
     "Pause", "Stop", "Next", "Previous", "Seek", "Launch"}

Route(transport, command, url) ==
    [transport |-> transport, command |-> command, url |-> url]

RouteType ==
    [transport : {"SOAP", "DIAL", "WebSocket", "WakeOnLAN", "Unknown"},
     command   : Command \cup {Nothing},
     url       : {"none", "location", "application", "control"}]

Probe == Route("Unknown", Nothing, "none")

\* The least index of a set, as a set: the loops that stop at a match.
FirstOf(indices) == {k \in indices : \A j \in indices : k <= j}

\* Fault: the key of the line above, copied.
KeyFromActionCopied ==
    [PowerOff   |-> "KEY_POWER",
     SendKey    |-> "KEY_UNKNOWN",
     VolumeUp   |-> "KEY_VOLUP",
     VolumeDown |-> "KEY_VOLUP",
     Mute       |-> "KEY_MUTE"]

\* SamsungWebSocketStrategy::BuildRequest: the key it puts into the payload.
\* It has none for SetVolume.
KeyFromAction ==
    [PowerOff   |-> "KEY_POWER",
     SendKey    |-> "KEY_UNKNOWN",
     VolumeUp   |-> "KEY_VOLUP",
     VolumeDown |-> "KEY_VOLDOWN",
     Mute       |-> "KEY_MUTE"]

Payload(action) ==
    IF action \in DOMAIN KeyFromAction THEN KeyFromAction[action] ELSE Nothing

\* SamsungController: the actions it implements with a key.
SamsungKeyed == DOMAIN KeyFromAction \cup {"SetVolume"}

SamsungRoute(device, action) ==
    {r \in {Probe} : action = "CheckReachable"}
    \cup {r \in {Route("WakeOnLAN", "MagicPacket", "none")} :
             action = "PowerOn" /\ device.mac}
    \cup {r \in {Route("WebSocket", Payload(action), "none")} :
             action \in SamsungKeyed /\ device.eps # <<>>}

\* What GenericDLNAController asks of each service.  Volume up and down only
\* read the volume.
SoapAction ==
    [RenderingControl |->
        [SetVolume |-> "SetVolume", GetVolume |-> "GetVolume",
         VolumeUp  |-> "GetVolume", VolumeDown |-> "GetVolume",
         Mute      |-> "SetMuteOn", Unmute    |-> "SetMuteOff"],
     AVTransport |->
        [Play |-> "Play", Pause    |-> "Pause",    Stop |-> "Stop",
         Next |-> "Next", Previous |-> "Previous", Seek |-> "Seek"]]

\* DIAL at the first of some endpoints.
DialRoute(device, indices) ==
    {Route("DIAL", "Launch", device.eps[k].url) : k \in FirstOf(indices)}

DLNARoute(device, action, service) ==
    {r \in {Probe} : action = "CheckReachable"}
    \cup {r \in DialRoute(device,
                {k \in DOMAIN device.eps : device.eps[k].upnp}) :
             action = "LaunchApplication" /\ device.dial}
    \cup {Route("SOAP", SoapAction[service][a], device.services[service]) :
             a \in {b \in DOMAIN SoapAction[service] :
                      b = action /\ device.services[service] # "absent"}}

UnknownRoute(device, action) ==
    {r \in {Probe} : action = "CheckReachable"}
    \cup {r \in DialRoute(device,
                {k \in DOMAIN device.eps :
                    /\ device.eps[k].upnp
                    /\ device.eps[k].dial \/ device.eps[k].url = "application"}) :
             action = "LaunchApplication"}

GetExecutionRoute(controller, device, action, service) ==
    CASE controller = "SamsungController" -> SamsungRoute(device, action)
      [] controller = "GenericDLNAController" ->
            DLNARoute(device, action, service)
      [] controller = "UnknownController" -> UnknownRoute(device, action)

\* The first candidate that has a route decides.
SelectRoute(device, action, service) ==
    LET RouteOf(k) ==
            GetExecutionRoute(device.ctrls[k], device, action, service)
    IN UNION {RouteOf(k) :
                k \in FirstOf({j \in DOMAIN device.ctrls : RouteOf(j) # {}})}

\* The statuses of an action without a route: no candidates at all, or none
\* with a route.
Unroutable(device) ==
    {"UnsupportedAction"} \cup {s \in {"ExecutionFailed"} : device.ctrls = <<>>}

-----------------------------------------------------------------------------
(* Transports.                                                             *)

\* GetTransport: a family without a transport falls back to the one that is
\* registered for Unknown.
GetTransport(family) ==
    CASE family \in Registered    -> family
      [] "Unknown" \in Registered -> "Unknown"
      [] OTHER                    -> "none"

ExecutionStatus ==
    {"Success", "UnsupportedAction", "TransportUnavailable", "Timeout",
     "AuthenticationRequired", "ProtocolError", "ParseError",
     "ExecutionFailed"}

\* The statuses a transport may derive from the end of an exchange, a broken
\* connection included.  The SOAP parsers know Get actions only.
Verdicts(transport, command) ==
    CASE transport = "SOAP" ->
            {"TransportUnavailable", "ProtocolError", "ExecutionFailed",
             "ParseError"} \cup
            (IF command = "GetVolume" THEN {"Success"} ELSE {})
      [] transport = "DIAL" ->
            {"Success", "UnsupportedAction", "AuthenticationRequired",
             "ExecutionFailed", "ProtocolError", "TransportUnavailable",
             "Timeout"}
      [] transport = "WebSocket" ->
            {"Success", "AuthenticationRequired", "TransportUnavailable"}
=============================================================================
