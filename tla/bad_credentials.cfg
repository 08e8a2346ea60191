SPECIFICATION Spec
CONSTANTS
  d1 = d1
  d2 = d2
  d3 = d3
  c1 = c1
  c2 = c2
  k1 = k1
  k2 = k2
  ip1 = ip1
  ip2 = ip2
  a1 = a1
  s1 = s1
  s2 = s2
  l1 = l1
  tv = tv
  f1 = f1
  f2 = f2
  NoId = NoId
  NoName = NoName
  NoSlot = NoSlot
  NoToken = NoToken
  NoFile = NoFile
  EmptyFile = EmptyFile
  NoEntity = NoEntity
  Name = {tv}
  Id = {d1}
  Cap = {c1}
  Action = {}
  Limit = {l1}
  Ctrl = {k1}
  Ip = {}
  Server = {}
  MaxSlots = 1
  MaxNow = 1
  Serial = {1}
  Network = {n1}
  File = {f1, f2}
  FileOf <- OwnFiles
  Live <- LiveSingle
  Outcome = {}
  Archivable = {}
PROPERTY CredentialsArePersisted
