SPECIFICATION Spec
CONSTANTS
  Pid = {p1, p2, p3}
  PidAll = PidAll
  NoPid = NoPid
  g1 = g1
  g2 = g2
  Group = {g1}
  SectionList = SectionList
  Nobody = Nobody
  Priority <- MCPriority
  HardwareRestricted = TRUE
  MaxFilters = 2
  MinSectionPids = 0
  FilterSetupMayFail = TRUE
SYMMETRY PidSymmetry
INVARIANTS SectionListsConsistent FiltersHaveSlots
