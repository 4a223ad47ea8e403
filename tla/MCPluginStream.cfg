SPECIFICATION Spec
CONSTANTS
  N_DEVS = 2
  NDOMAIN_MAX = 1
  Domids = {1}
  PvDomains = {1}
  DeviceTypes = {"POINTER"}
  Destinations = {}
  PluginSlots = {}
  TakeWhenStale = FALSE
INVARIANTS
  LossReported
  NoGhostDevices
