SPECIFICATION FairSpec
CONSTANTS
  tv1 = tv1
  tv2 = tv2
  Registered = {"SOAP", "DIAL", "WebSocket", "WakeOnLAN", "Unknown"}
  Id = {tv1, tv2}
  DeviceOf <- Televisions
  Devices <- Fused
  Scenarios <- Validated
  Token = {k1, k2}
  NoToken = NoToken
  MaxLength = 10
CHECK_DEADLOCK FALSE
INVARIANTS TypeOK TokensAreWhole ActionsAreTried
PROPERTIES NotAskedAgain ScenariosEnd
