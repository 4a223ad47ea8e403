SPECIFICATION TouchpadSpec
CONSTANTS
  MinX = 0
  MaxX = 10
  RightEdge = 8
  LeftButtonMaxX = 5
  MinY = 0
  MaxY = 10
  TopEdge = 0
  BottomEdge = 8
  TapMove = 3
  MaxDropped = 1
  MinScrollPackets = 0
  Xs <- PadXs
  Ys <- PadYs
  PadButtons = {"left"}
INVARIANTS
  TapsMatchClicks
  DownButtonsAreHeld
  AutoscrollHasFinger
  MovesOnlyTravellers
PROPERTY
  TapClicks
