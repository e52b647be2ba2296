\* Vehicles close behind each other, every hull found.
CONSTANTS
  Cars = {1, 2}
  Area <- MCArea
  BoundaryY = 6
  EndY = 8
  MaxDiffDistance = 3
  HullAreaThreshold = 50
  MaxFramesNotSeen = 1
  MaxId = 9
  MaxStep = 1
  TurnOffY = {}
  MinGap = 2
  MaxLost = 0
SPECIFICATION Spec
INVARIANTS CountsCrossings
