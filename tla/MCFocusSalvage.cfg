SPECIFICATION SalvageSpec
CHECK_DEADLOCK FALSE
CONSTANTS
  NDOMAIN_MAX = 3
  Domids = {2, 3, 4}
  VmSlot <- MCVmSlot
  Pvms = {4}
  PvDomains = {2}
  VkbdDomains = {2}
  GpuDomains = {}
  Viewers = {2, 3}
  Seamless = {4}
  Sleepers = {}
  Rebooters = {}
  SlotCalls <- MCSlots
  KeyboardFollowsMouse = FALSE
  UivmDiverts = FALSE
INVARIANTS
  RestoreIsSafe
