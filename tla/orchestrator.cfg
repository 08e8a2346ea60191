SPECIFICATION FairSpec
CONSTANTS
  Registered = {"SOAP", "DIAL", "WebSocket", "WakeOnLAN", "Unknown"}
  Device <- TvAndPlayer
  MaxWait = 2
  UnknownOutcome = {"Success", "TransportUnavailable"}
INVARIANTS TypeOK OncePerStep NothingElseIsDone
PROPERTIES KeepsPromise Terminates
CHECK_DEADLOCK FALSE
