SPECIFICATION MCSpec
CONSTANTS
  m1 = m1
  m2 = m2
  s1 = s1
  s2 = s2
  s3 = s3
  extra = extra
  Service <- MCService
  Mux <- MCMux
  MuxOf <- MCMuxOf
  None = None
  User = User
  Input = Input
  Primary = Primary
  Secondary <- MCSecondary
  Stream <- MCStream
  FirstOfKind <- MCFirst
  Infos <- MCInfos
  MaxCommands = 3
  Commander = {t1, t2}
  OutputName = {o1, o2}
  MaxOrders = 4
  Watched = {"news", "film"}
  PMTLength <- MCPMTLength
  PMT_PACKETS = 2
  MAX_TS_PACKETS_PER_DATAGRAM = 2
  SequenceMod = 2
  MaxFed = 3
  MaxChanges = 2
  Address <- MCAddress
  MaxSessions = 3
  MaxAnnounced = 5
  MRLs <- MCMRLs
  Behind <- MCBehind
  HOST_ROOM = 3
  PORT_ROOM = 2
  NAME_ROOM = 3
INVARIANT StreamsSound
INVARIANT SettledFiltersFollow
INVARIANT DeliveriesOwned
SYMMETRY Alike
CHECK_DEADLOCK FALSE
