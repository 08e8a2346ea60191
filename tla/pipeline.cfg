SPECIFICATION Spec
CONSTANTS
  la = la
  lb = lb
  lc = lc
  host1 = host1
  host2 = host2
  samsung = samsung
  tv = tv
  renderer = renderer
  other = other
  sn = sn
  NoLocation = NoLocation
  NoText = NoText
  NoUrn = NoUrn
  Uuid = {1, 2, 3}
  Ip = {1, 2}
  Location = {la, lb, lc}
  Text = {samsung, tv, renderer, other, sn}
  SamsungText = {samsung}
  RokuText = {}
  Base <- Bases
  Urn <- Urns
  Registries <- MCRegistries
CHECK_DEADLOCK FALSE
INVARIANTS TypeOK EvidenceIsPlaced FusionIsJustified ActionsMirrorEvidence BestControllerFirst
