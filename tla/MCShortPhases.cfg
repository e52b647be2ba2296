\* Configured durations so short that the timer never reaches the transition
\* row, and a minimum phase duration above the cycle.
CONSTANTS
  NumPhases = 3
  NumVehicle = 2
  NumPedestrian = 1
  Phases <- MCPhases
  OriginalDurations <- MCShortDurations
  MinPhaseDurationMs = 5000
  MinPedestrianDurationMs = 3000
  DensityMin = 0
  DensityMax = 2
  DensityMultiplierGreenPhase = 1
  DensityMultiplierRedPhase = 1
  DensityUnit = 3
  RawDensity = {0, 2}
SPECIFICATION FairSpec
INVARIANTS DurationBounded
PROPERTIES EveryApproachServed
