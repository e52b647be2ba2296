\* Vehicles further apart than the tracker looks, and misses it bridges.
CONSTANTS
  Cars = {1, 2, 3, 4}
  Area <- MCArea
  BoundaryY = 6
  EndY = 8
  MaxDiffDistance = 3
  HullAreaThreshold = 50
  MaxFramesNotSeen = 1
  MaxId = 2
  MaxStep = 1
  TurnOffY = {1, 2}
  MinGap = 6
  MaxLost = 1
SPECIFICATION Spec
INVARIANTS TypeOK NeverOvercounts NeverUndercounts CountedWhenSeen
