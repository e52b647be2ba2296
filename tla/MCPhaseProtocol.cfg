\* Two bad measurements; a read takes two replies and a half.
CONSTANTS
  NumPhases = 2
  NumVehicle = 2
  NumPedestrian = 1
  Phases <- MCPhases
  ReplyBytes = 2
  ReadBytes = 5
  PipeBytes = 8
  MaxBacklog = 2
  MaxLag = 3
  MaxBad = 2
SPECIFICATION FairSpec
INVARIANTS TypeOK NoLostReply StalenessBounded RepliesMatchPhase
PROPERTIES PhasesKeepRunning
