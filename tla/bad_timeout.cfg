SPECIFICATION LiveSpec
CONSTANTS
  Registered = {"SOAP", "DIAL", "WebSocket", "WakeOnLAN", "Unknown"}
  Device <- TvAndPlayer
  MaxWait = 2
  UnknownOutcome = {"Success", "TransportUnavailable"}
PROPERTY CallsEnd
CHECK_DEADLOCK FALSE
