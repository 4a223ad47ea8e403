SPECIFICATION Spec
CONSTANTS
  N_DEVS = 1
  NDOMAIN_MAX = 2
  Domids = {1, 2}
  PvDomains = {2}
  DeviceTypes = {"KEYBOARD"}
  Destinations = {1}
  PluginSlots = {1}
  TakeWhenStale = TRUE
INVARIANTS
  TypeOK
  PluginPointsBack
