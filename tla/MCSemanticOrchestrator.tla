----------------------- MODULE MCSemanticOrchestrator -----------------------
(***************************************************************************)
(* Devices for SemanticOrchestrator: a Samsung TV that both the Samsung    *)
(* and the DLNA controller accept, and a player only the generic           *)
(* controllers accept.                                                     *)
(***************************************************************************)
EXTENDS SemanticOrchestrator

EndpointWith(dial, url) == [upnp |-> TRUE, dial |-> dial, url |-> url]

Services(rendering, transport) ==
    [RenderingControl |-> rendering, AVTransport |-> transport]

Tv ==
    [ctrls    |-> <<"SamsungController", "GenericDLNAController",
                    "UnknownController">>,
     mac      |-> TRUE,
     dial     |-> TRUE,
     services |-> Services("control", "none"),
     eps      |-> <<EndpointWith(FALSE, "location"),
                    EndpointWith(TRUE, "application")>>,
     caps     |-> {"PowerControl", "VolumeControl", "Mute", "RemoteControl",
                   "ApplicationLaunching", "MediaPlayback"}]

Player ==
    [ctrls    |-> <<"GenericDLNAController", "UnknownController">>,
     mac      |-> FALSE,
     dial     |-> FALSE,
     services |-> Services("control", "control"),
     eps      |-> <<[upnp |-> FALSE, dial |-> FALSE, url |-> "none"],
                    EndpointWith(TRUE, "none"),
                    EndpointWith(FALSE, "application")>>,
     caps     |-> {"VolumeControl", "Mute", "MediaPlayback", "MediaTransport",
                   "ApplicationLaunching"}]

TvAndPlayer == {Tv, Player}
=============================================================================
