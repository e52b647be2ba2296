\* Every phase lasts at least five seconds.
CONSTANTS
  NumPhases = 3
  NumVehicle = 2
  NumPedestrian = 1
  Phases <- MCPhases
  OriginalDurations <- MCDurations
  MinPhaseDurationMs = 5000
  MinPedestrianDurationMs = 7000
  DensityMin = 0
  DensityMax = 2
  DensityMultiplierGreenPhase = 1
  DensityMultiplierRedPhase = 1
  DensityUnit = 3
  RawDensity = {0, 2}
SPECIFICATION Spec
INVARIANTS TypeOK NoConflict SharesPartitionCycle
PROPERTIES ImplementsSignalHeads
