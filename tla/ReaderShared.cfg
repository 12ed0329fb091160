SPECIFICATION Spec
CONSTANTS
  Pid = {p1, p2}
  PidAll = PidAll
  NoPid = NoPid
  g1 = g1
  g2 = g2
  Group = {g1, g2}
  SectionList = SectionList
  Nobody = Nobody
  Priority <- MCPriority
  HardwareRestricted = FALSE
  MaxFilters = 1
  MinSectionPids = 0
  FilterSetupMayFail = TRUE
SYMMETRY PidSymmetry
PROPERTY NoCallAfterRemoval
