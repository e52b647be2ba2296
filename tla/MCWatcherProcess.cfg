\* A stream that loses frames, three in a row at most; pipelines of up to two
\* steps. The operator's tools and the child may end.
CONSTANTS
  NumPhases = 5
  NumVehicle = 1
  NumPedestrian = 0
  Phases <- MCPhases
  Lane = 0
  LosesFrames = TRUE
  MaxAge = 8
  Point <- MCPoint
  HandWrittenCalibration <- MCHandWrittenCalibration
  MaxEmptyFrames = 3
  StepType = {"Grayscale", "GaussianBlur", "MOG2BackgroundSubtraction", "Dilation"}
  KernelSize <- MCKernelSize
  Level = {1, 2}
  DefaultKernelSize = 3
  DefaultLevel = 1
  HandWritten <- MCHandWritten
  Malformed = Malformed
  MaxSteps = 2
  Followed = {"Grayscale"}
SPECIFICATION FairWatcherSpec
CHECK_DEADLOCK FALSE
INVARIANTS TypeOK GreenReportOfItsPhase QueueOfTheMoment StreamTypeOK PipelineTypeOK
INVARIANTS KernelsUsable ReportsWhatIsApplied SavedFileReloads PreviewOfItsStrategy
INVARIANTS SavedCalibrationServes MaskFitsFrames OutlinedClockwise MeasuresOnlyWhenReady
INVARIANTS WholePipelineLoaded
PROPERTIES SilentStreamEnds
