INIT Init
NEXT Next
CONSTANTS
  SCREEN = 60
  MIN_DIST = 1
  Fingers = {0}
  Slots = {0, 1}
  MONOTOUCH = TRUE
  Points <- TabletPoints
  GesturePoints <- DrawnPoints
INVARIANTS
  SilentForAGesture
  LeftFollowsTouch
  GestureWasDrawn
