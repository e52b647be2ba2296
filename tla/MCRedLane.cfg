\* A stream that delivers every frame.
CONSTANTS
  NumPhases = 5
  NumVehicle = 1
  NumPedestrian = 0
  Phases <- MCPhases
  Lane = 0
  LosesFrames = FALSE
  MaxAge = 8
SPECIFICATION Spec
INVARIANTS DensityOfPreviousPhase
