SPECIFICATION MCSpec
CONSTANTS
  p1 = p1
  p2 = p2
  v = v
  a = a
  Params <- MCParams
  None = None
  Pid <- MCPid
  MaxPipe = 2
  MaxEvents = 2
  Freq = {5, 6, 7}
  Listed = {5, 6}
  Contents <- MCContents
  FilterPid = {2, 8192}
  Everything = 8192
  Slots = 2
  Batch = 2
  Room = 2
  MaxSent = 2
  MaxPasses = 2
INVARIANTS TunedAsRequested FiltersStream FileAdapterSound
PROPERTY LocksInTheEnd
