SPECIFICATION FairSpec
CONSTANTS
  u1 = u1
  all = all
  s1 = s1
  ip1 = ip1
  ip2 = ip2
  l1 = l1
  NoUuid = NoUuid
  NoLocation = NoLocation
  NoPacket = NoPacket
  Generic = {all}
  Uuid = {u1}
  Service = {s1}
  Ip = {ip1, ip2}
  Location = {l1}
  Thread = {t1, t2}
  Traffic <- Datagrams
  Duration = {0, 2}
  Earlier <- Left
  MaxFiles = 3
  MaxLate = 2
CHECK_DEADLOCK FALSE
INVARIANTS TypeOK AtMostOneMore CapturesMatchEvidence NoDoubles
PROPERTIES CapturesAreKept StopsWhenTold LimitIsKept
