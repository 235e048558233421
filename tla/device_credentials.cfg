SPECIFICATION FairSpec
CONSTANTS
  k1 = k1  k2 = k2  k3 = k3
  d1 = d1
  s1 = s1  s2 = s2
  NoDevice = NoDevice
  NoSocket = NoSocket
  Devices <- OneDevice
  Keys <- ThreeKeys
  Sockets <- TwoSockets
  MaxPairings = 2
  MaxMigrations = 1
INVARIANTS
  TypeOK
  KeysStayUnique
PROPERTIES
  KeyChangesByRecovery
  KeyOfSessionStays
  EndedKeysStayEnded
  NewerChannelStays
  StaleChannelLeaves
CHECK_DEADLOCK FALSE
