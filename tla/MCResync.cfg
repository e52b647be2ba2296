\* One vehicle lane and a crossing; one bad measurement.
CONSTANTS
  NumPhases = 2
  NumVehicle = 1
  NumPedestrian = 1
  Phases <- MCPhases
  ReplyBytes = 2
  ReadBytes = 3
  PipeBytes = 8
  MaxBacklog = 2
  MaxLag = 3
  MaxBad = 1
SPECIFICATION FairSpec
PROPERTIES Resynchronises
