SPECIFICATION MCSpec
CONSTANTS
  m1 = m1
  m2 = m2
  a = a
  b = b
  old = old
  new = new
  Mux <- TwoMux
  NoMux = NoMux
  Id <- MCId
  Absent = Absent
  Field <- MCField
  Default = old
  Value <- MCValue
  Broadcast <- Mixed
  TunesWithJobs = FALSE
  MaxJobs = 1
  MaxStale = 2
INVARIANT WritebackConverges
INVARIANT ListedServicesStay
INVARIANT NoForeignServices
CHECK_DEADLOCK FALSE
