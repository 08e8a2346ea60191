SPECIFICATION FairSpec
CONSTANTS
  Registered = {"SOAP", "DIAL", "WebSocket", "WakeOnLAN", "Unknown"}
  Device <- TvAndPlayer
  MaxWait = 2
  UnknownOutcome = {"Success", "TransportUnavailable"}
PROPERTY SuccessMeansDone
CHECK_DEADLOCK FALSE
