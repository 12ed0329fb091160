SPECIFICATION Spec
CONSTANTS
  m1 = m1
  m2 = m2
  s1 = s1
  s2 = s2
  Service <- MCService
  Mux <- MCMux
  MuxOf <- MCMuxOf
  None = None
  User = User
  Input = Input
  FirstRows <- MCFirstRows
  Spectrum <- MCSpectrum
  Alive <- MCAlive
  Programs <- MCPrograms
  Announced <- MCAnnounced
  Attempts = 2
  LockTicks = 1
  TablesTicks = 1
  MaxPMTs = 2
  Kinds = {"one", "net"}
  MaxEntries = 2
  MaxCommands = 1
INVARIANT EveryEntryTried
CHECK_DEADLOCK FALSE
