SPECIFICATION FairSpec
CONSTANTS
  u1 = u1
  u2 = u2
  all = all
  s1 = s1
  s2 = s2
  ip1 = ip1
  ip2 = ip2
  l1 = l1
  l2 = l2
  l3 = l3
  NoUuid = NoUuid
  NoLocation = NoLocation
  All = all
  Generic = {all}
  Uuid = {u1, u2}
  Service = {s1, s2}
  Ip = {ip1, ip2}
  Location = {l1, l2, l3}
  SearchTargets <- Targets
  Host <- Hosts
  Answer <- Packets
  Served <- Descriptions
  Pages <- Answering
  MaxHeard = 2
CHECK_DEADLOCK FALSE
INVARIANTS TypeOK SearchesAreListed RegistryIsTheDigest NoDoubles LocationsAreTried BodyIsServed RootsAreKnown
PROPERTIES DownloadsEnd
