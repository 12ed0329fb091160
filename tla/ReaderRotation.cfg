SPECIFICATION RotationSpec
CONSTANTS
  Pid = {p1, p2, p3, p4}
  PidAll = PidAll
  NoPid = NoPid
  g1 = g1
  g2 = g2
  Group = {g1}
  SectionList = SectionList
  Nobody = Nobody
  Priority <- MCPriority
  HardwareRestricted = TRUE
  MaxFilters = 1
  MinSectionPids = 1
  FilterSetupMayFail = FALSE
INVARIANT NoSlotLeaked
PROPERTY EveryListGetsATurn
