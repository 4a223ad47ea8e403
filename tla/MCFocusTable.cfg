SPECIFICATION Spec
CONSTANTS
  NDOMAIN_MAX = 2
  Domids = {1, 2, 4}
  VmSlot <- MCSharedSlot
  Pvms = {4}
  PvDomains = {2}
  VkbdDomains = {2}
  GpuDomains = {2}
  Viewers = {}
  Seamless = {}
  Sleepers = {4}
  Rebooters = {4}
  SlotCalls <- MCSlots
  KeyboardFollowsMouse = FALSE
  UivmDiverts = FALSE
INVARIANTS
  DomidsUnique
  SlotsUnique
  ClickBringsKeyboard
