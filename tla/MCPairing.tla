----------------------------- MODULE MCPairing -----------------------------
(***************************************************************************)
(* Devices for Pairing: two TVs that the Samsung controller routes to a    *)
(* WebSocket, one of which the DLNA controller knows as well.  To main's   *)
(* scenarios comes one of keys for the second TV and one no device is      *)
(* capable of.                                                             *)
(***************************************************************************)
EXTENDS Pairing

CONSTANTS tv1, tv2

Television(ctrls, caps) ==
    [ctrls    |-> ctrls,
     mac      |-> FALSE,
     dial     |-> TRUE,
     services |-> [c \in Category |-> "control"],
     eps      |-> <<[upnp |-> TRUE, dial |-> TRUE, url |-> "application"]>>,
     caps     |-> caps]

Televisions ==
    [id \in Id |->
        IF id = tv1
        THEN Television(<<"SamsungController", "GenericDLNAController">>,
                        {"VolumeControl", "ApplicationLaunching"})
        ELSE Television(<<"SamsungController">>, {"VolumeControl", "RemoteControl"})]

Fused == <<tv1, tv2>>

Scenario(capability, actions) == [capability |-> capability, actions |-> actions]

Validated ==
    <<Scenario("VolumeControl", <<"GetVolume", "Mute", "SetVolume">>),
      Scenario("PowerControl", <<"PowerOff">>),
      Scenario("RemoteControl", <<"SendKey">>),
      Scenario("ApplicationLaunching", <<"LaunchApplication">>),
      Scenario("VolumeControl", <<"Mute">>)>>
=============================================================================
