SPECIFICATION Spec
CONSTANTS
  root = root
  d1 = d1
  d2 = d2
  d3 = d3
  f0 = f0
  f1 = f1
  f2 = f2
  f3 = f3
  k1 = k1
  k2 = k2
  k3 = k3
  k4 = k4
  g1 = g1
  g2 = g2
  s1 = s1
  s2 = s2
  m1 = m1
  m2 = m2
  p1 = p1
  p2 = p2
  Root = root
  Dir <- MCDir
  File <- MCFile
  Module <- MCModule
  Content <- MCContent
  Blocks <- MCBlocks
  Compressed = {k4}
  NoData = NoData
  MaxUpdates = 2
  Filter <- MCFilter
  Channel <- MCChannel
  Multiplexes <- MCMultiplexes
  On <- MCOn
  Pid <- MCPid
  DataPids <- MCDataPids
  Off = Off
  Null = Null
  Freed = Freed
  MaxDownloads = 3
  slot = slot
  pr1 = pr1
  pr2 = pr2
  pr3 = pr3
  other = other
  Slot = {slot}
  CA = CA
  MMI = MMI
  Resource = {CA, MMI, other}
  Known = {CA, MMI}
  Program = {pr1, pr2, pr3}
  Scrambled = {pr1, pr2}
  Compatible = {pr1, pr2}
  Nothing = Nothing
  Released = Released
  MaxSessions = 3
  MaxPrograms = 2
  Client = {q1, q2}
  Label = {ls}
  src = src
  ev = ev
  Event = {ev}
  All = All
  Selects <- MCSelects
  MaxListeners = 2
  MaxFilters = 1
  MaxFired = 2
  e1 = e1
  e2 = e2
  OnAir <- MCOnAir
  DVBPids = {e1, e2}
  Caller = {q1, q2}
  MaxGroups = 2
  MaxEvents = 1
  Contents <- MCContents
  Slots = 2
  Retries = 2
  MaxSaid = 2
  MaxLate = 2
  MaxSwaps = 1
  Menus <- MCMenus
  Intervals = {0, 1, 2}
  MaxClock = 6
  MaxDialogs = 4
SYMMETRY SameClients
INVARIANT FilesArrive
INVARIANT SessionsServed
INVARIANT ModuleServed
INVARIANT ListenersServed
CHECK_DEADLOCK FALSE
INVARIANT CaptureSound
INVARIANT LinkSound
