INIT MCInit
NEXT PointerNext
CONSTANTS
  NDOMAIN_MAX = 3
  Domids = {1, 2, 3}
  VmSlot <- MCVmSlot
  Pvms = {}
  PvDomains = {3}
  VkbdDomains = {}
  GpuDomains = {}
  Viewers = {2}
  Seamless = {}
  Sleepers = {}
  Rebooters = {}
  SlotCalls = {}
  KeyboardFollowsMouse = FALSE
  UivmDiverts = FALSE
  Mice <- MCMice
  Modes = {{}, {"CLICKHOLDFOCUS"}, {"CLICKHOLDFOCUS", "CLONEEVENTS"}}
  Mortal = {3}
  MAX_NUM_PRESSED = 5
  MayInterrupt = FALSE
INVARIANTS
  NothingStuck
  ListedAreHeld
  TouchSettles
PROPERTIES
  HoldKeepsGuest
