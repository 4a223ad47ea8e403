INIT MCInit
NEXT MCNext
CONSTANTS
  NDOMAIN_MAX = 3
  Domids = {1, 2, 3}
  VmSlot <- MCVmSlot
  Pvms = {}
  PvDomains = {}
  VkbdDomains = {}
  GpuDomains = {}
  Viewers = {2}
  Seamless = {3}
  Sleepers = {}
  Rebooters = {}
  SlotCalls = {}
  KeyboardFollowsMouse = FALSE
  UivmDiverts = FALSE
  Keyboards <- MCKeyboards
  MaxHeld = 2
  Bindings <- MCBindings
  Shortcuts <- MCShortcuts
  Mortal = {2}
  Lamps = {3}
  Receivers = {3}
  FORCE_TICKS = 0
  numlock_restore = FALSE
INVARIANTS
  NoKeyStuck
  MatchIsHeld
  ModbitsHeld
PROPERTIES
  NumlockOff
