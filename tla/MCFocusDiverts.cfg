SPECIFICATION Spec
CONSTANTS
  NDOMAIN_MAX = 3
  Domids = {1, 2, 3}
  VmSlot <- MCSharedSlot
  Pvms = {3}
  PvDomains = {2}
  VkbdDomains = {}
  GpuDomains = {}
  Viewers = {2}
  Seamless = {3}
  Sleepers = {}
  Rebooters = {}
  SlotCalls = {}
  KeyboardFollowsMouse = FALSE
  UivmDiverts = FALSE
INVARIANTS
  TypeOK
  SurfaceAlive
  DivertTargetsAlive
  ParentHasDivert
  ParentNamesDestination
  DestinationsAlive
  RestoreIsSafe
