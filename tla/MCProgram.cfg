\* Two rows of up to two entries, the last entry a misspelled one; then two
\* children and one disturbance of the connection. The program really ends.
CONSTANTS
  NumChildren = 2
  MaxFlashes = 1
  MaxDisturbances = 1
  Entry = {"GREEN_PHASE", "RED_PHASE", "GREEN_PED", "GREEN_PEDS"}
  MaxRows = 2
  MaxColumns = 2
  Followed <- MCFollowed
SPECIFICATION ProgramSpec
CHECK_DEADLOCK FALSE
INVARIANTS TypeOK NoneLeftBehind VehiclesLeftDark BoardObeys LoaderTypeOK EveryVehicleLit
PROPERTIES CrashEndsProgram
