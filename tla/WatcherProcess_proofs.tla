------------------------- MODULE WatcherProcess_proofs -------------------------
(* A camera from its calibration to its measurements, for every column of  *)
(* every table, every loss of frames, every file someone may write and     *)
(* pipelines of any size.                                                  *)
EXTENDS WatcherProcess, VehicleLane_proofs, SequenceTheorems, FiniteSetTheorems

-----------------------------------------------------------------------------
(* The lane: what is proved of VehicleLane holds of a lane that had to be  *)
(* initialised first and may die. Only the first frame of initialize() is  *)
(* a step of the watcher that VehicleLane does not know.                   *)
SetBoundaries ==
  /\ watcher' \in {[watcher EXCEPT !.bounded = set] : set \in BOOLEAN}
  /\ UNCHANGED <<isStateGreen, phaseIndex, reply>>

LEMMA LaneStep ==
  ASSUME [WatcherNext]_processVars
  PROVE  [Next]_vars \/ SetBoundaries
<1>1. ASSUME NEW arrives \in Frames, FirstFrame(arrives) PROVE SetBoundaries
  <2> DEFINE set == kind = "vehicle" /\ arrives /\ stage' # "dead"
  <2>1. arrives \in BOOLEAN
    BY LaneAssumption DEF Frames
  <2>2. set \in BOOLEAN
    BY <2>1
  <2>3. watcher' = [watcher EXCEPT !.bounded = set]
    BY <1>1 DEF FirstFrame
  <2> HIDE DEF set
  <2> QED  BY <1>1, <2>2, <2>3 DEF FirstFrame, SetBoundaries
<1>2. ASSUME NEW arrives \in Frames, TakeFrame(arrives) PROVE [Next]_vars
  BY <1>2 DEF TakeFrame, Next
<1>3. CASE AnswerWithoutFrame
  BY <1>3 DEF AnswerWithoutFrame, Next
<1>4. ASSUME NEW arrives \in Frames, CountPedestrians(arrives) PROVE UNCHANGED vars
  BY <1>4 DEF CountPedestrians
<1>5. ASSUME NEW k \in {"vehicle", "pedestrian"}, StartWatcher(k) PROVE UNCHANGED vars
  BY <1>5 DEF StartWatcher
<1>6. ASSUME \/ TunePipeline \/ StartCalibration \/ CalibrationWindow \/ SaveCalibration
             \/ OpenAndReadCalibration \/ LoadPipeline \/ FinishInitialize
      PROVE  UNCHANGED vars
  BY <1>6 DEF TunePipeline, StartCalibration, CalibrationWindow, SaveCalibration,
              OpenAndReadCalibration, LoadPipeline, FinishInitialize
<1>7. CASE UNCHANGED processVars
  BY <1>7 DEF processVars
<1> QED  BY <1>1, <1>2, <1>3, <1>4, <1>5, <1>6, <1>7 DEF WatcherNext

LEMMA BoundariesKeep ==
  ASSUME TypeOK, SetBoundaries
  PROVE  TypeOK' /\ (GreenInv => GreenInv') /\ (QueueOfTheMoment => QueueOfTheMoment')
<1>1. PICK set \in BOOLEAN : watcher' = [watcher EXCEPT !.bounded = set]
  BY DEF SetBoundaries
<1>2. watcher' \in Watcher
  BY <1>1 DEF TypeOK, Watcher
<1>3. TypeOK'
  BY <1>2 DEF SetBoundaries, TypeOK
<1>4. GreenInv => GreenInv'
  BY <1>1 DEF SetBoundaries, TypeOK, Watcher, GreenInv, FreshTracker, GreenReportOfItsPhase
<1>5. QueueOfTheMoment => QueueOfTheMoment'
  BY DEF SetBoundaries, QueueOfTheMoment
<1> QED  BY <1>3, <1>4, <1>5

(* Every variable of a lane keeps its type, as the watcher is set up and   *)
(* afterwards.                                                             *)
THEOREM WatcherTypes == WatcherSpec => []TypeOK
<1>1. WatcherInit => TypeOK
  BY InitType DEF WatcherInit
<1>2. ASSUME TypeOK, [WatcherNext]_processVars PROVE TypeOK'
  BY <1>2, LaneStep, TypeStep, BoundariesKeep
<1> QED  BY <1>1, <1>2, PTL DEF WatcherSpec

(* What a watcher reports of a green phase is of that phase.               *)
THEOREM WatcherGreenReports == WatcherSpec => []GreenReportOfItsPhase
<1>1. WatcherInit => GreenInv
  BY DEF WatcherInit, GreenInv, Init, FreshTracker, GreenReportOfItsPhase, NoReply
<1>2. ASSUME TypeOK, GreenInv, [WatcherNext]_processVars PROVE GreenInv'
  BY <1>2, LaneStep, GreenStep, BoundariesKeep
<1>3. GreenInv => GreenReportOfItsPhase
  BY DEF GreenInv
<1> QED  BY <1>1, <1>2, <1>3, WatcherTypes, PTL DEF WatcherSpec

(* The queue a watcher reports is of the moment, unless its frame was lost *)
(* or the lane stays red.                                                  *)
THEOREM WatcherQueueReports == WatcherSpec => []QueueOfTheMoment
<1>1. WatcherInit => QueueOfTheMoment
  BY DEF WatcherInit, Init, QueueOfTheMoment, NoReply
<1>2. ASSUME TypeOK, QueueOfTheMoment, [WatcherNext]_processVars PROVE QueueOfTheMoment'
  BY <1>2, LaneStep, QueueStep, BoundariesKeep
<1> QED  BY <1>1, <1>2, WatcherTypes, PTL DEF WatcherSpec

-----------------------------------------------------------------------------
(* The stream, and what initialize() left of it.                           *)
Perspectives == {"pipeline", "first", "trim", "second", "model", "ready"}

Calibrated ==
  /\ calibration \in [by : {"nobody", "hand", "calibrator"}, points : Nat, dimensions : Nat,
                      model : BOOLEAN]
  /\ calibration.by = "calibrator" => calibration.points = 4 /\ Stream!Readable(calibration)
  /\ kind \in {"vehicle", "pedestrian"}
  /\ emptyFrameCount \in Nat
  /\ roi.by \in {"none", "warp", "trim"}
  /\ stage # "calibrating" => preview = Stream!NoPreview
  /\ stage \in {"idle", "open", "read", "perspective"} => roi = Stream!NoRoi
  /\ stage \in {"perspective"} \cup (Perspectives \ {"ready"}) => Stream!Readable(calibration)

(* Past the perspective there is a matrix exactly if there are four points *)
(* in a readable file; it is a warp, until a pedestrian watcher trims.     *)
HasMatrix ==
  stage \in Perspectives =>
    /\ roi.by # "none" <=> Stream!Readable(calibration) /\ calibration.points = 4
    /\ roi.by = "trim" => kind = "pedestrian" /\ stage \in {"second", "model", "ready"}
    /\ kind = "vehicle" => stage \notin {"trim", "second"}
    /\ stage = "trim" /\ emptyFrameCount = 0 => hasFrame

StreamInv == Calibrated /\ HasMatrix /\ PreviewOfItsStrategy /\ MaskFitsFrames

LEMMA StreamInit == WatcherInit => StreamInv
BY DEF WatcherInit, StreamInv, Calibrated, HasMatrix, PreviewOfItsStrategy, MaskFitsFrames,
       Perspectives, Stream!Init, Stream!NoCalibration, Stream!NoPreview, Stream!NoRoi,
       Stream!PreviewOfItsStrategy, Stream!MaskFitsFrames, Stream!Readable

(* In the calibration window only the preview has a matrix.                *)
LEMMA WindowStep ==
  ASSUME StreamInv, CalibrationWindow \/ StartCalibration \/ SaveCalibration
  PROVE  StreamInv'
<1> USE DEF StreamInv, Calibrated, HasMatrix, PreviewOfItsStrategy, MaskFitsFrames,
            Perspectives, Stream!NoPreview, Stream!NoRoi, Stream!PreviewOfItsStrategy,
            Stream!MaskFitsFrames, Stream!Readable, Stream!CloseWindow
<1>1. CASE Stream!EndCalibration
  BY <1>1 DEF Stream!EndCalibration
<1>2. ASSUME NEW point \in Point, Stream!OnMouseClick(point) PROVE StreamInv'
  BY <1>2 DEF Stream!OnMouseClick
<1>3. CASE Stream!ResetCalibrationPoints
  BY <1>3 DEF Stream!ResetCalibrationPoints
<1>4. CASE Stream!TogglePreview
  BY <1>4 DEF Stream!TogglePreview
<1>5. CASE StartCalibration
  BY <1>5 DEF StartCalibration, Stream!StartCalibration
<1>6. CASE SaveCalibration
  BY <1>6 DEF SaveCalibration, Stream!SaveCalibrationData, Stream!Saving
<1> QED  BY <1>1, <1>2, <1>3, <1>4, <1>5, <1>6 DEF CalibrationWindow

(* initialize() goes through its stages, and leaves a matrix or none.      *)
LEMMA InitializeStep ==
  ASSUME StreamInv,
         \/ \E k \in {"vehicle", "pedestrian"} : StartWatcher(k)
         \/ OpenAndReadCalibration \/ LoadPipeline \/ FinishInitialize
         \/ \E arrives \in Frames : FirstFrame(arrives)
  PROVE  StreamInv'
<1> USE DEF StreamInv, Calibrated, HasMatrix, PreviewOfItsStrategy, MaskFitsFrames,
            Perspectives, Stream!NoPreview, Stream!NoRoi, Stream!PreviewOfItsStrategy,
            Stream!MaskFitsFrames, Stream!Readable, Stream!Dies
<1>1. ASSUME NEW k \in {"vehicle", "pedestrian"}, StartWatcher(k) PROVE StreamInv'
  BY <1>1 DEF StartWatcher, Stream!StartWatcher
<1>2. CASE Stream!OpenVideoStream
  BY <1>2 DEF Stream!OpenVideoStream
<1>3. ASSUME NEW content \in {calibration} \cup HandWrittenCalibration,
             Stream!ReadCalibrationData(content)
      PROVE  StreamInv'
  <2>1. content \in [by : {"nobody", "hand", "calibrator"}, points : Nat, dimensions : Nat,
                     model : BOOLEAN]
    BY CalibrationAssumption
  <2>2. content.by = "calibrator" => content = calibration
    BY CalibrationAssumption
  <2> QED  BY <1>3, <2>1, <2>2 DEF Stream!ReadCalibrationData
<1>4. CASE Stream!InitializeWarp
  BY <1>4 DEF Stream!InitializeWarp, Stream!InitializePerspectiveTransform
<1>5. CASE LoadPipeline
  BY <1>5 DEF LoadPipeline
<1>6. ASSUME NEW arrives \in Frames, FirstFrame(arrives) PROVE StreamInv'
  <2>1. arrives \in BOOLEAN
    BY LaneAssumption DEF Frames
  <2> QED  BY <1>6, <2>1, CalibrationAssumption
           DEF FirstFrame, Stream!FirstFrame, Stream!ApplyFrameRoi, Stream!ApplyWithoutMatrix
<1>7. CASE Stream!InitializeTrim
  BY <1>7 DEF Stream!InitializeTrim, Stream!InitializePerspectiveTransform
<1>8. ASSUME NEW arrives \in Frames, Stream!SecondFrame(arrives) PROVE StreamInv'
  <2>1. arrives \in BOOLEAN
    BY LaneAssumption DEF Frames
  <2> QED  BY <1>8, <2>1, CalibrationAssumption
           DEF Stream!SecondFrame, Stream!ApplyFrameRoi, Stream!ApplyWithoutMatrix
<1>9. CASE Stream!InitializeModel
  BY <1>9 DEF Stream!InitializeModel
<1> QED  BY <1>1, <1>2, <1>3, <1>4, <1>5, <1>6, <1>7, <1>8, <1>9
         DEF OpenAndReadCalibration, FinishInitialize

LEMMA LoopStep ==
  ASSUME StreamInv, NEW arrives \in Frames,
         TakeFrame(arrives) \/ CountPedestrians(arrives) \/ AnswerWithoutFrame
  PROVE  StreamInv'
<1>1. arrives \in BOOLEAN
  BY LaneAssumption DEF Frames
<1> QED  BY <1>1, CalibrationAssumption
         DEF StreamInv, Calibrated, HasMatrix, PreviewOfItsStrategy, MaskFitsFrames,
             Perspectives, Stream!NoPreview, Stream!NoRoi, Stream!PreviewOfItsStrategy,
             Stream!MaskFitsFrames, Stream!Readable, Stream!Dies, Stream!ApplyFrameRoi,
             Stream!ApplyWithoutMatrix, TakeFrame, CountPedestrians, AnswerWithoutFrame,
             streamVars

LEMMA StreamStep ==
  ASSUME StreamInv, [WatcherNext]_processVars
  PROVE  StreamInv'
<1>1. ASSUME UNCHANGED streamVars PROVE StreamInv'
  BY <1>1 DEF streamVars, StreamInv, Calibrated, HasMatrix, PreviewOfItsStrategy,
              MaskFitsFrames, Stream!PreviewOfItsStrategy, Stream!MaskFitsFrames
<1>2. TunePipeline \/ UNCHANGED processVars => UNCHANGED streamVars
  BY DEF TunePipeline, processVars
<1>3. CASE AnswerWithoutFrame
  BY <1>1, <1>3 DEF AnswerWithoutFrame
<1> QED  BY <1>1, <1>2, <1>3, WindowStep, InitializeStep, LoopStep DEF WatcherNext

LEMMA StreamInvariant == WatcherSpec => []StreamInv
BY StreamInit, StreamStep, PTL DEF WatcherSpec

(* However often the operator switches, a preview applies the perspective  *)
(* its matrix is for.                                                      *)
THEOREM PreviewsItsStrategy == WatcherSpec => []PreviewOfItsStrategy
<1>1. StreamInv => PreviewOfItsStrategy
  BY DEF StreamInv
<1> QED  BY <1>1, StreamInvariant, PTL

(* The trimming mask has the size of the frames unless a frame was lost.   *)
THEOREM MasksFit == WatcherSpec => []MaskFitsFrames
<1>1. StreamInv => MaskFitsFrames
  BY DEF StreamInv
<1> QED  BY <1>1, StreamInvariant, PTL

(* A file the calibration window wrote gives every watcher its matrix.     *)
THEOREM CalibrationServes == WatcherSpec => []SavedCalibrationServes
<1>1. StreamInv => SavedCalibrationServes
  BY DEF StreamInv, Calibrated, HasMatrix, Perspectives, SavedCalibrationServes,
         Stream!SavedCalibrationServes
<1> QED  BY <1>1, StreamInvariant, PTL

-----------------------------------------------------------------------------
(* What is measured is measured by what was set up.                        *)
Measured == watcher.tracked \cup watcher.mask # {}

MeasureInv ==
  /\ Measured => stage \in {"ready", "dead"} /\ kind = "vehicle"
  /\ kind = "vehicle" /\ stage \in {"first", "model", "ready"} /\ roi.by # "none" =>
       state = "idle"
  /\ MeasuresOnlyWhenReady

LEMMA OlderEmpty == \A ages : (Older(ages) = {} <=> ages = {}) 
BY DEF Older

(* What an answer leaves of a measurement, and what a frame adds to it.    *)
LEMMA AnswerMeasures ==
  ASSUME NEW w \in Watcher, NEW type \in VehicleTypes
  PROVE  LET left == [Aged(AfterDensity(w)) EXCEPT !.state = type] IN
         /\ left.tracked # {} => w.tracked # {}
         /\ left.mask # {} => w.mask # {}
         /\ left.bounded = w.bounded
<1> DEFINE after == AfterDensity(w)
<1>1. after \in Watcher /\ after.tracked \subseteq w.tracked /\ after.mask = w.mask
      /\ after.bounded = w.bounded
  BY DEF AfterDensity, AfterDensityKeepsSample, Watcher
<1> HIDE DEF after
<1>2. /\ Aged(after).tracked = Older(after.tracked) /\ Aged(after).mask = Older(after.mask)
      /\ Aged(after).bounded = after.bounded
      /\ Aged(after) \in Watcher
  BY <1>1, OlderType DEF Aged, Watcher
<1>3. LET left == [Aged(after) EXCEPT !.state = type] IN
      left.tracked = Older(after.tracked) /\ left.mask = Older(after.mask)
      /\ left.bounded = after.bounded
  BY <1>2 DEF Watcher
<1> QED  BY <1>1, <1>3, OlderEmpty DEF after

LEMMA FrameAdds ==
  ASSUME NEW w \in Watcher, NEW arrives \in BOOLEAN
  PROVE  LET seen == ProcessFrame(w, arrives) IN
         /\ seen.tracked # {} => w.tracked # {} \/ (arrives /\ w.state = "GREEN_PHASE" /\ w.bounded)
         /\ seen.mask # {} => w.mask # {} \/ arrives
         /\ seen.bounded = w.bounded
BY DEF ProcessFrame, Watcher

LEMMA FrameMeasures ==
  ASSUME TypeOK, NEW arrives \in BOOLEAN, TrackFrame(arrives) \/ AnswerGreen(arrives)
  PROVE  /\ watcher'.tracked # {} =>
              watcher.tracked # {} \/ (arrives /\ watcher.state = "GREEN_PHASE" /\ watcher.bounded)
         /\ watcher'.bounded = watcher.bounded
<1>1. CASE TrackFrame(arrives)
  BY <1>1, FrameAdds DEF TrackFrame, TypeOK
<1>2. CASE AnswerGreen(arrives)
  <2>1. ProcessFrame(watcher, arrives) \in Watcher
    BY FrameType DEF TypeOK
  <2> QED  BY <1>2, <2>1, FrameAdds, AnswerMeasures
           DEF AnswerGreen, Answer, TypeOK, VehicleTypes
<1> QED  BY <1>1, <1>2

LEMMA RedMeasures ==
  ASSUME TypeOK, AnswerRed
  PROVE  /\ watcher'.tracked # {} => watcher.tracked # {}
         /\ watcher'.mask # {} => watcher.mask # {}
         /\ watcher'.bounded = watcher.bounded
BY AnswerMeasures DEF AnswerRed, Answer, TypeOK, VehicleTypes

LEMMA MeasureInit == WatcherInit => MeasureInv
BY DEF WatcherInit, Init, Stream!Init, MeasureInv, Measured, MeasuresOnlyWhenReady

LEMMA MeasureStep ==
  ASSUME TypeOK, StreamInv, MeasureInv, [WatcherNext]_processVars
  PROVE  MeasureInv'
<1>1. ASSUME NEW arrives \in Frames, TakeFrame(arrives) PROVE MeasureInv'
  <2>1. arrives \in BOOLEAN
    BY LaneAssumption DEF Frames
  <2>2. stage' \in {"ready", "dead"} /\ stage = "ready" /\ kind = "vehicle"
        /\ UNCHANGED <<kind, calibration, roi, pipelineVars>>
    BY <1>1 DEF TakeFrame, Stream!Dies, Stream!ApplyFrameRoi, Stream!ApplyWithoutMatrix
  <2>3. CASE stage' = "dead"
    BY <1>1, <2>2, <2>3
       DEF TakeFrame, vars, pipelineVars, MeasureInv, Measured, MeasuresOnlyWhenReady, SingleChannel
  <2>4. CASE stage' = "ready"
    <3>1. roi.by # "none" /\ ~ (arrives /\ HullsRejectFrame)
      BY <1>1, <2>2, <2>4 DEF TakeFrame, Stream!Dies, Stream!ApplyFrameRoi
    <3>2. TrackFrame(arrives) \/ AnswerGreen(arrives)
      BY <1>1, <2>4 DEF TakeFrame
    <3>3. Stream!Readable(calibration) /\ calibration.points = 4 /\ roi.by = "warp" /\ state = "idle"
      BY <2>2, <3>1 DEF StreamInv, Calibrated, HasMatrix, Perspectives, MeasureInv,
                        Stream!NoRoi
    <3>4. watcher'.tracked # {} => SingleChannel /\ watcher'.bounded
      BY <2>1, <3>1, <3>2, FrameMeasures DEF HullsRejectFrame, MeasureInv, MeasuresOnlyWhenReady
    <3> QED  BY <2>2, <2>4, <3>3, <3>4
             DEF pipelineVars, MeasureInv, Measured, MeasuresOnlyWhenReady, SingleChannel,
                 Stream!Readable
  <2> QED  BY <2>2, <2>3, <2>4
<1>2. CASE AnswerWithoutFrame
  <2>1. UNCHANGED <<streamVars, pipelineVars>>
    BY <1>2 DEF AnswerWithoutFrame
  <2> QED  BY <1>2, <2>1, RedMeasures
           DEF AnswerWithoutFrame, streamVars, pipelineVars, MeasureInv, Measured,
               MeasuresOnlyWhenReady, SingleChannel, Stream!Readable
<1>3. ASSUME NEW arrives \in Frames, FirstFrame(arrives) PROVE MeasureInv'
  <2>1. ~ Measured /\ ~ Measured'
    BY <1>3 DEF FirstFrame, Stream!FirstFrame, MeasureInv, Measured, TypeOK, Watcher
  <2> QED  BY <1>3, <2>1
           DEF FirstFrame, Stream!FirstFrame, Stream!ApplyFrameRoi, Stream!ApplyWithoutMatrix,
               Stream!Dies, pipelineVars, MeasureInv, Measured, MeasuresOnlyWhenReady
<1>4. ASSUME NEW arrives \in Frames, CountPedestrians(arrives) PROVE MeasureInv'
  <2>1. ~ Measured /\ ~ Measured' /\ kind = "pedestrian" /\ kind' = kind
    BY <1>4 DEF CountPedestrians, Stream!ApplyFrameRoi, Stream!ApplyWithoutMatrix,
                Stream!Dies, MeasureInv, Measured, vars
  <2> QED  BY <2>1 DEF MeasureInv, Measured, MeasuresOnlyWhenReady
<1>5. ASSUME stage \notin {"ready", "dead"}, UNCHANGED vars,
             kind' = "vehicle" /\ stage' \in {"first", "model", "ready"} /\ roi'.by # "none" =>
               state' = "idle"
      PROVE  MeasureInv'
  BY <1>5 DEF MeasureInv, Measured, MeasuresOnlyWhenReady, vars
<1>6. ASSUME NEW k \in {"vehicle", "pedestrian"}, StartWatcher(k) PROVE MeasureInv'
  BY <1>5, <1>6 DEF StartWatcher, Stream!StartWatcher
<1>7. CASE TunePipeline \/ StartCalibration \/ CalibrationWindow \/ SaveCalibration
  <2>1. stage \in {"idle", "calibrating"} /\ stage' \in {"idle", "calibrating"} /\ UNCHANGED vars
    BY <1>7 DEF TunePipeline, StartCalibration, CalibrationWindow, SaveCalibration,
                Stream!StartCalibration, Stream!EndCalibration, Stream!OnMouseClick,
                Stream!ResetCalibrationPoints, Stream!TogglePreview,
                Stream!SaveCalibrationData, Stream!Saving, streamVars
  <2> QED  BY <1>5, <2>1
<1>8. CASE OpenAndReadCalibration
  <2>1. stage \in {"open", "read", "perspective"} /\ UNCHANGED <<vars, pipelineVars, kind>>
        /\ (kind = "vehicle" /\ stage' \in {"first", "model", "ready"} => UNCHANGED roi)
    BY <1>8 DEF OpenAndReadCalibration, Stream!OpenVideoStream, Stream!ReadCalibrationData,
                Stream!InitializeWarp, Stream!InitializePerspectiveTransform, Stream!Dies
  <2>2. roi.by = "none"
    BY <2>1 DEF StreamInv, Calibrated, Stream!NoRoi
  <2> QED  BY <1>5, <2>1, <2>2
<1>9. CASE LoadPipeline
  BY <1>5, <1>9 DEF LoadPipeline
<1>10. CASE FinishInitialize
  <2>1. stage \in {"trim", "second", "model"} /\ UNCHANGED <<vars, pipelineVars, kind>>
    BY <1>10 DEF FinishInitialize, Stream!InitializeTrim, Stream!SecondFrame,
                 Stream!InitializeModel, Stream!InitializePerspectiveTransform, Stream!Dies,
                 Stream!ApplyFrameRoi, Stream!ApplyWithoutMatrix
  <2>2. kind = "vehicle" => stage = "model" /\ UNCHANGED roi
    BY <1>10, <2>1 DEF StreamInv, HasMatrix, Perspectives, FinishInitialize,
                 Stream!InitializeTrim, Stream!SecondFrame, Stream!InitializeModel, Stream!Dies
  <2> QED  BY <1>5, <2>1, <2>2 DEF MeasureInv, pipelineVars
<1>11. CASE UNCHANGED processVars
  BY <1>11 DEF processVars, vars, streamVars, pipelineVars, MeasureInv, Measured,
               MeasuresOnlyWhenReady, SingleChannel, Stream!Readable
<1> QED  BY <1>1, <1>2, <1>3, <1>4, <1>6, <1>7, <1>8, <1>9, <1>10, <1>11 DEF WatcherNext

(* Whatever of initialize() fails or returns early, what is measured is    *)
(* measured with a matrix of four points, by a pipeline loaded to its end. *)
THEOREM MeasuresReady == WatcherSpec => []MeasuresOnlyWhenReady
<1>1. MeasureInv => MeasuresOnlyWhenReady
  BY DEF MeasureInv
<1> QED  BY <1>1, MeasureInit, MeasureStep, WatcherTypes, StreamInvariant, PTL DEF WatcherSpec

-----------------------------------------------------------------------------
(* The steps of a pipeline: what a step reports is what it applies, except *)
(* for background subtraction, with a kernel OpenCV accepts.               *)
Values == UNION {[Pipeline!ParameterOf(type) -> Int] : type \in StepType}

GoodStep ==
  {step \in [type : StepType, params : Values, applied : Values] :
     /\ step.params \in [Pipeline!ParameterOf(step.type) -> Int]
     /\ step.applied \in [Pipeline!ParameterOf(step.type) -> Int]
     /\ step.type # "MOG2BackgroundSubtraction" => step.params = step.applied
     /\ "kernelSize" \in Pipeline!ParameterOf(step.type) =>
          /\ step.applied["kernelSize"] >= 1
          /\ step.type = "GaussianBlur" => step.applied["kernelSize"] % 2 = 1}

LEMMA KernelOwners ==
  ASSUME NEW type \in StepType
  PROVE  /\ "kernelSize" \in Pipeline!ParameterOf(type) <=>
              type = "GaussianBlur" \/ type \in Pipeline!Morphology
         /\ type = "GaussianBlur" => type \notin Pipeline!Morphology
<1>1. type \in {"Grayscale", "GaussianBlur", "MOG2BackgroundSubtraction",
               "Threshold", "Dilation", "Erosion"}
  BY PipelineAssumption DEF Pipeline!KnownStepType
<1> USE DEF Pipeline!Morphology
<1>2. type = "Grayscale" => Pipeline!ParameterOf(type) = {}
  BY DEF Pipeline!ParameterOf
<1>3. type = "GaussianBlur" => Pipeline!ParameterOf(type) = {"kernelSize", "sigma"}
  BY DEF Pipeline!ParameterOf
<1>4. type = "MOG2BackgroundSubtraction" =>
        Pipeline!ParameterOf(type) = {"history", "varThreshold"}
  BY DEF Pipeline!ParameterOf
<1>5. type = "Threshold" => Pipeline!ParameterOf(type) = {"thresholdValue"}
  BY DEF Pipeline!ParameterOf
<1>6. type \in Pipeline!Morphology => Pipeline!ParameterOf(type) = {"kernelSize", "iterations"}
  BY DEF Pipeline!ParameterOf
<1> QED  BY <1>1, <1>2, <1>3, <1>4, <1>5, <1>6

(* The checks of a kernel size yield one OpenCV accepts, and leave such a  *)
(* one alone.                                                              *)
LEMMA CheckedUsable ==
  ASSUME NEW type \in StepType, NEW values \in [Pipeline!ParameterOf(type) -> Int]
  PROVE  LET checked == Pipeline!Checked(type, values)
             size == "kernelSize"
         IN
         /\ checked \in [Pipeline!ParameterOf(type) -> Int]
         /\ size \in Pipeline!ParameterOf(type) =>
              checked[size] >= 1 /\ (type = "GaussianBlur" => checked[size] % 2 = 1)
         /\ (size \in Pipeline!ParameterOf(type) =>
               values[size] >= 1 /\ (type = "GaussianBlur" => values[size] % 2 = 1))
            => checked = values
<1>1. ASSUME NEW n \in Int
      PROVE  /\ Pipeline!CheckKernel(type, n) \in Int
             /\ type = "GaussianBlur" =>
                  /\ Pipeline!CheckKernel(type, n) >= 1
                  /\ Pipeline!CheckKernel(type, n) % 2 = 1
                  /\ n >= 1 /\ n % 2 = 1 => Pipeline!CheckKernel(type, n) = n
             /\ type \in Pipeline!Morphology =>
                  /\ Pipeline!CheckKernel(type, n) >= 1
                  /\ n >= 1 => Pipeline!CheckKernel(type, n) = n
  BY KernelOwners DEF Pipeline!CheckKernel, Pipeline!Morphology
<1> QED  BY <1>1, KernelOwners DEF Pipeline!Checked

LEMMA AsValues ==
  ASSUME NEW type \in StepType, NEW values \in [Pipeline!ParameterOf(type) -> Int]
  PROVE  values \in Values
BY KernelOwners DEF Values

(* A constructor that returns makes such a step.                           *)
LEMMA CreatedGood ==
  ASSUME NEW type \in StepType, NEW values \in [Pipeline!ParameterOf(type) -> Int],
         ~ Pipeline!Throws(type, values)
  PROVE  Pipeline!CreateStep(type, values) \in GoodStep
<1> DEFINE checked == Pipeline!Checked(type, values)
<1>1. type \in Pipeline!Morphology => checked = values
  BY KernelOwners, CheckedUsable DEF Pipeline!Throws
<1>2. checked \in [Pipeline!ParameterOf(type) -> Int] /\ checked \in Values /\ values \in Values
  BY CheckedUsable, AsValues
<1>3. "kernelSize" \in Pipeline!ParameterOf(type) =>
        checked["kernelSize"] >= 1 /\ (type = "GaussianBlur" => checked["kernelSize"] % 2 = 1)
  BY CheckedUsable
<1>4. Pipeline!CreateStep(type, values) = [type |-> type, params |-> checked, applied |-> checked]
  BY <1>1 DEF Pipeline!CreateStep
<1> HIDE DEF checked
<1> QED  BY <1>2, <1>3, <1>4 DEF GoodStep

(* What a step reports is written, read and accepted as it was.            *)
LEMMA ReportedReloads ==
  ASSUME NEW step \in GoodStep
  PROVE  /\ Pipeline!Deserialize(step.type, step.params) = step.params
         /\ ~ Pipeline!Throws(step.type, step.params)
         /\ Pipeline!Serialize(Pipeline!CreateStep(step.type, step.params))
              = Pipeline!Serialize(step)
<1>1. step.type \in StepType /\ step.params \in [Pipeline!ParameterOf(step.type) -> Int]
  BY DEF GoodStep
<1>2. "kernelSize" \in Pipeline!ParameterOf(step.type) =>
        /\ step.params["kernelSize"] >= 1
        /\ step.type = "GaussianBlur" => step.params["kernelSize"] % 2 = 1
  BY <1>1, KernelOwners DEF GoodStep, Pipeline!Morphology
<1>3. Pipeline!Checked(step.type, step.params) = step.params
  BY <1>1, <1>2, CheckedUsable
<1>4. Pipeline!Deserialize(step.type, step.params) = step.params
  BY <1>1 DEF Pipeline!Deserialize
<1>5. ~ Pipeline!Throws(step.type, step.params)
  BY <1>1, <1>2, KernelOwners DEF Pipeline!Throws
<1> QED  BY <1>3, <1>4, <1>5 DEF Pipeline!Serialize, Pipeline!CreateStep

-----------------------------------------------------------------------------
(* The pipeline, its file, and how far a saved file has been loaded.       *)
WellWritten(content) ==
  /\ content.entries \in Seq({content.entries[i] : i \in DOMAIN content.entries})
  /\ \A i \in DOMAIN content.entries : \A id \in DOMAIN content.entries[i].params :
       content.entries[i].params[id] \in Int \cup {Malformed}

AsReported(content) ==
  \A i \in DOMAIN content.entries :
    \E step \in GoodStep : content.entries[i] = Pipeline!Serialize(step)

LoadedSoFar ==
  /\ Len(steps) = entry - 1
  /\ entry - 1 <= Len(file.entries)
  /\ \A i \in 1 .. Len(steps) : Pipeline!Serialize(steps[i]) = file.entries[i]

PipelineInv ==
  /\ state \in {"unborn", "idle", "loading", "dead"}
  /\ steps \in Seq(GoodStep)
  /\ WellWritten(file)
  /\ saved \in BOOLEAN
  /\ saved => AsReported(file)
  /\ entry \in Nat
  /\ state \in {"unborn", "idle"} => entry = 0
  /\ state = "unborn" => steps = <<>>
  /\ state = "loading" => entry > 0
  /\ saved /\ entry > 0 => state = "loading" /\ LoadedSoFar
  /\ stage = "calibrating" => state = "unborn"

LEMMA ParamsType ==
  ASSUME NEW type \in StepType, NEW values \in Pipeline!ParamsOf(type)
  PROVE  values \in [Pipeline!ParameterOf(type) -> Int]
BY PipelineAssumption DEF Pipeline!ParamsOf

LEMMA WrittenType ==
  ASSUME PipelineInv, NEW i \in DOMAIN file.entries, file.entries[i].type \in StepType,
         Pipeline!ParametersParse(file.entries[i])
  PROVE  Pipeline!Deserialize(file.entries[i].type, file.entries[i].params)
           \in [Pipeline!ParameterOf(file.entries[i].type) -> Int]
BY PipelineAssumption
   DEF PipelineInv, WellWritten, Pipeline!ParametersParse, Pipeline!Deserialize, Pipeline!Default

(* Everything but loading leaves the index alone.                          *)
LEMMA StepsChange ==
  ASSUME PipelineInv, state = "idle", steps' \in Seq(GoodStep), state' \in {"idle", "dead"},
         UNCHANGED <<file, saved, entry, stage>>
  PROVE  PipelineInv'
BY DEF PipelineInv, WellWritten, AsReported

LEMMA AddStepKeeps ==
  ASSUME PipelineInv, NEW type \in StepType, NEW values \in Pipeline!ParamsOf(type),
         Pipeline!AddStep(type, values), UNCHANGED stage
  PROVE  PipelineInv'
<1>1. CASE Pipeline!Throws(type, values)
  BY <1>1, StepsChange DEF Pipeline!AddStep, Pipeline!AppendStep, PipelineInv
<1>2. CASE ~ Pipeline!Throws(type, values)
  <2>1. Pipeline!CreateStep(type, values) \in GoodStep
    BY <1>2, ParamsType, CreatedGood
  <2>2. steps' \in Seq(GoodStep)
    BY <1>2, <2>1 DEF Pipeline!AddStep, Pipeline!AppendStep, PipelineInv
  <2> QED  BY <1>2, <2>2, StepsChange DEF Pipeline!AddStep, Pipeline!AppendStep
<1> QED  BY <1>1, <1>2

LEMMA ReplacedStep ==
  ASSUME PipelineInv, NEW i \in DOMAIN steps, NEW params, NEW applied,
         [steps[i] EXCEPT !.params = params, !.applied = applied] \in GoodStep
  PROVE  [steps EXCEPT ![i].params = params, ![i].applied = applied] \in Seq(GoodStep)
<1>1. [steps EXCEPT ![i].params = params, ![i].applied = applied]
       = [steps EXCEPT ![i] = [steps[i] EXCEPT !.params = params, !.applied = applied]]
  BY DEF PipelineInv
<1> QED  BY <1>1 DEF PipelineInv

LEMMA SetParametersKeeps ==
  ASSUME PipelineInv, NEW i \in DOMAIN steps, NEW values \in Pipeline!ParamsOf(steps[i].type),
         Pipeline!SetStepParameters(i, values), UNCHANGED stage
  PROVE  PipelineInv'
<1> DEFINE type == steps[i].type
           checked == Pipeline!Checked(type, values)
<1>1. steps[i] \in GoodStep
  BY DEF PipelineInv
<1>2. type \in StepType
  BY <1>1 DEF GoodStep
<1>3. values \in [Pipeline!ParameterOf(type) -> Int] /\ values \in Values
  BY <1>2, ParamsType, AsValues
<1>4. checked \in [Pipeline!ParameterOf(type) -> Int] /\ checked \in Values
  BY <1>2, <1>3, CheckedUsable, AsValues
<1>5. "kernelSize" \in Pipeline!ParameterOf(type) =>
        checked["kernelSize"] >= 1 /\ (type = "GaussianBlur" => checked["kernelSize"] % 2 = 1)
  BY <1>2, <1>3, CheckedUsable
<1>6. CASE type = "MOG2BackgroundSubtraction"
  <2>1. "kernelSize" \notin Pipeline!ParameterOf(type)
    BY <1>2, <1>6, KernelOwners DEF Pipeline!Morphology
  <2>2. [steps[i] EXCEPT !.applied = values] \in GoodStep
    BY <1>1, <1>3, <1>6, <2>1 DEF GoodStep
  <2>3. [steps EXCEPT ![i].applied = values] \in Seq(GoodStep)
    <3>1. [steps EXCEPT ![i].applied = values]
           = [steps EXCEPT ![i] = [steps[i] EXCEPT !.applied = values]]
      BY DEF PipelineInv
    <3> QED  BY <2>2, <3>1 DEF PipelineInv
  <2> QED  BY <1>6, <2>3, StepsChange DEF Pipeline!SetStepParameters
<1>7. CASE type # "MOG2BackgroundSubtraction"
  <2> HIDE DEF checked
  <2>1. [steps[i] EXCEPT !.params = checked, !.applied = checked] \in GoodStep
    BY <1>1, <1>4, <1>5, <1>7 DEF GoodStep
  <2>2. [steps EXCEPT ![i].params = checked, ![i].applied = checked] \in Seq(GoodStep)
    BY <2>1, ReplacedStep
  <2>3. steps' = [steps EXCEPT ![i].params = checked, ![i].applied = checked]
    BY <1>7 DEF Pipeline!SetStepParameters, checked
  <2> QED  BY <2>2, <2>3, StepsChange DEF Pipeline!SetStepParameters
<1> QED  BY <1>6, <1>7

LEMMA UpdateKeeps ==
  ASSUME PipelineInv, NEW i \in DOMAIN steps, NEW id \in Pipeline!ParameterOf(steps[i].type),
         NEW value \in Pipeline!ValueOf(id),
         Pipeline!UpdateStepParameterById(i, id, value), UNCHANGED stage
  PROVE  PipelineInv'
<1> DEFINE type == steps[i].type
           params == Pipeline!Changed(i, steps[i].params, id, value)
           applied == Pipeline!Changed(i, steps[i].applied, id, value)
<1>1. steps[i] \in GoodStep
  BY DEF PipelineInv
<1>2. type \in StepType
  BY <1>1 DEF GoodStep
<1>3. value \in Int
  BY PipelineAssumption DEF Pipeline!ValueOf
<1>4. /\ [steps[i].params EXCEPT ![id] = value] \in [Pipeline!ParameterOf(type) -> Int]
      /\ [steps[i].applied EXCEPT ![id] = value] \in [Pipeline!ParameterOf(type) -> Int]
  BY <1>1, <1>3 DEF GoodStep
<1>5. /\ params \in [Pipeline!ParameterOf(type) -> Int] /\ params \in Values
      /\ applied \in [Pipeline!ParameterOf(type) -> Int] /\ applied \in Values
  BY <1>2, <1>4, CheckedUsable, AsValues DEF Pipeline!Changed
<1>6. "kernelSize" \in Pipeline!ParameterOf(type) =>
        applied["kernelSize"] >= 1 /\ (type = "GaussianBlur" => applied["kernelSize"] % 2 = 1)
  BY <1>2, <1>4, CheckedUsable DEF Pipeline!Changed
<1>7. type # "MOG2BackgroundSubtraction" => params = applied
  BY <1>1 DEF GoodStep
<1>8. steps' = [steps EXCEPT ![i].params = params, ![i].applied = applied]
  BY DEF Pipeline!UpdateStepParameterById
<1> HIDE DEF params, applied
<1>9. [steps[i] EXCEPT !.params = params, !.applied = applied] \in GoodStep
  BY <1>1, <1>5, <1>6, <1>7 DEF GoodStep
<1>10. steps' \in Seq(GoodStep)
  BY <1>8, <1>9, ReplacedStep
<1> QED  BY <1>10, StepsChange DEF Pipeline!UpdateStepParameterById

(* What is saved is the list of what the steps report.                     *)
LEMMA SaveKeeps ==
  ASSUME PipelineInv, Pipeline!SavePipelineConfig, UNCHANGED stage
  PROVE  PipelineInv'
<1> DEFINE reported == Pipeline!Reported
<1>1. file'.entries = reported /\ saved' /\ UNCHANGED <<state, steps, entry>> /\ entry = 0
  BY DEF Pipeline!SavePipelineConfig, Pipeline!Section, PipelineInv
<1>2. Len(steps) \in Nat /\ DOMAIN steps = 1 .. Len(steps)
  BY DEF PipelineInv
<1>3. reported \in Seq({reported[i] : i \in DOMAIN reported})
  <2>1. reported \in [1 .. Len(steps) -> {reported[i] : i \in DOMAIN reported}]
    BY <1>2 DEF Pipeline!Reported
  <2> QED  BY <1>2, <2>1, SeqDef
<1>4. \A i \in DOMAIN reported : steps[i] \in GoodStep /\ reported[i] = Pipeline!Serialize(steps[i])
  BY <1>2 DEF Pipeline!Reported, PipelineInv
<1>5. \A i \in DOMAIN reported : \A id \in DOMAIN reported[i].params : reported[i].params[id] \in Int
  BY <1>4 DEF GoodStep, Pipeline!Serialize
<1> HIDE DEF reported
<1>6. WellWritten(file')
  BY <1>1, <1>3, <1>5 DEF WellWritten
<1>7. AsReported(file')
  BY <1>1, <1>4 DEF AsReported
<1> QED  BY <1>1, <1>6, <1>7 DEF PipelineInv

(* loadPipelineConfig: it starts, takes an entry, and ends.                *)
LEMMA BeginKeeps ==
  ASSUME PipelineInv, NEW content, WellWritten(content), file' = content,
         saved' = (saved /\ content = file), state \in {"unborn", "idle"},
         Pipeline!BeginLoad(content, <<>>), stage' # "calibrating"
  PROVE  PipelineInv'
<1>1. CASE content.section
  <2>1. state' = "loading" /\ steps' = <<>> /\ entry' = 1
    BY <1>1 DEF Pipeline!BeginLoad
  <2>2. Len(file'.entries) \in Nat
    BY DEF WellWritten
  <2>3. LoadedSoFar'
    BY <2>1, <2>2 DEF LoadedSoFar
  <2>4. saved' \in BOOLEAN /\ (saved' => AsReported(file'))
    BY DEF PipelineInv
  <2> QED  BY <2>1, <2>3, <2>4 DEF PipelineInv
<1>2. CASE ~ content.section
  <2>1. state' = "idle" /\ UNCHANGED <<steps, entry>> /\ entry = 0
    BY <1>2 DEF Pipeline!BeginLoad, PipelineInv
  <2>2. saved' \in BOOLEAN /\ (saved' => AsReported(file'))
    BY DEF PipelineInv
  <2> QED  BY <2>1, <2>2 DEF PipelineInv
<1> QED  BY <1>1, <1>2

LEMMA EntryKeeps ==
  ASSUME PipelineInv, Pipeline!LoadEntry, stage' # "calibrating"
  PROVE  PipelineInv'
<1> DEFINE written == file.entries[entry]
           values == Pipeline!Deserialize(written.type, written.params)
           step == Pipeline!CreateStep(written.type, values)
<1>1. /\ state = "loading" /\ entry \in 1 .. Len(file.entries) /\ written.type \in StepType
      /\ Pipeline!ParametersParse(written)
      /\ UNCHANGED <<file, saved>>
  BY DEF Pipeline!LoadEntry, PipelineInv
<1>2. DOMAIN file.entries = 1 .. Len(file.entries) /\ Len(file.entries) \in Nat
  BY DEF PipelineInv, WellWritten
<1>3. values \in [Pipeline!ParameterOf(written.type) -> Int]
  BY <1>1, <1>2, WrittenType
<1>4. saved => /\ ~ Pipeline!Throws(written.type, values)
               /\ Pipeline!Serialize(step) = written
  <2>1. SUFFICES ASSUME saved
                 PROVE  /\ ~ Pipeline!Throws(written.type, values)
                        /\ Pipeline!Serialize(step) = written
    OBVIOUS
  <2>2. PICK before \in GoodStep : written = Pipeline!Serialize(before)
    BY <1>1, <1>2, <2>1 DEF PipelineInv, AsReported
  <2>3. written.type = before.type /\ written.params = before.params
    BY <2>2 DEF Pipeline!Serialize
  <2> QED  BY <2>2, <2>3, ReportedReloads
<1>5. CASE Pipeline!Throws(written.type, values)
  <2>1. state' = "dead" /\ entry' = entry /\ steps' = steps
    BY <1>5 DEF Pipeline!LoadEntry, Pipeline!AppendStep
  <2> QED  BY <1>1, <1>4, <1>5, <2>1 DEF PipelineInv, WellWritten, AsReported
<1>6. CASE ~ Pipeline!Throws(written.type, values)
  <2>1. state' = "loading" /\ entry' = entry + 1 /\ steps' = Append(steps, step)
    BY <1>1, <1>6 DEF Pipeline!LoadEntry, Pipeline!AppendStep
  <2>2. step \in GoodStep
    BY <1>1, <1>3, <1>6, CreatedGood
  <2> HIDE DEF values, step
  <2>3. /\ steps' \in Seq(GoodStep) /\ Len(steps') = Len(steps) + 1
        /\ \A i \in 1 .. Len(steps) : steps'[i] = steps[i]
        /\ steps'[Len(steps) + 1] = step
    BY <2>1, <2>2 DEF PipelineInv
  <2>4. saved => LoadedSoFar'
    <3>1. SUFFICES ASSUME saved PROVE LoadedSoFar'
      OBVIOUS
    <3>2. LoadedSoFar /\ Len(steps) \in Nat
      BY <1>1, <3>1 DEF PipelineInv
    <3>3. \A i \in 1 .. Len(steps') : Pipeline!Serialize(steps'[i]) = file.entries[i]
      <4>1. ASSUME NEW i \in 1 .. Len(steps')
            PROVE  Pipeline!Serialize(steps'[i]) = file.entries[i]
        <5>1. CASE i \in 1 .. Len(steps)
          BY <2>3, <3>2, <5>1 DEF LoadedSoFar
        <5>2. CASE i = Len(steps) + 1
          <6>1. i = entry
            BY <1>1, <3>2, <5>2 DEF LoadedSoFar
          <6>2. steps'[i] = step
            BY <2>3, <5>2
          <6>3. Pipeline!Serialize(step) = file.entries[entry]
            BY <1>4, <3>1
          <6> QED  BY <6>1, <6>2, <6>3
        <5> QED  BY <2>3, <3>2, <4>1, <5>1, <5>2
      <4> QED  BY <4>1
    <3> QED  BY <1>1, <1>2, <2>1, <2>3, <3>2, <3>3 DEF LoadedSoFar
  <2> QED  BY <1>1, <2>1, <2>3, <2>4 DEF PipelineInv, WellWritten, AsReported
<1> QED  BY <1>5, <1>6

(* A new process has no steps and no index; saving a calibration leaves no *)
(* section.                                                                *)
LEMMA NewPipelineKeeps ==
  ASSUME PipelineInv, NewPipeline, UNCHANGED <<file, saved>>
  PROVE  PipelineInv'
BY DEF PipelineInv, NewPipeline, WellWritten, AsReported

LEMMA CalibrationSavedKeeps ==
  ASSUME PipelineInv, SaveCalibration
  PROVE  PipelineInv'
<1>1. /\ file'.entries = <<>> /\ saved' = FALSE /\ stage' = "idle"
      /\ UNCHANGED <<state, steps, entry>> /\ state = "unborn" /\ entry = 0
  BY DEF SaveCalibration, PipelineInv, Stream!SaveCalibrationData, Stream!Saving,
         Pipeline!NoSection
<1>2. WellWritten(file')
  BY <1>1 DEF WellWritten
<1> QED  BY <1>1, <1>2 DEF PipelineInv

(* The steps of loading, in a watcher or in the tuning tool.               *)
LEMMA LoadingKeeps ==
  ASSUME PipelineInv, stage' # "calibrating",
         \/ \E content \in {file} \cup HandWritten : Pipeline!Initialize(content)
         \/ Pipeline!LoadPipelineConfig \/ Pipeline!LoadEntry \/ Pipeline!SkipEntry
         \/ Pipeline!UnknownType \/ Pipeline!MalformedParameter \/ Pipeline!EndLoad
  PROVE  PipelineInv'
<1>1. ASSUME NEW content \in {file} \cup HandWritten, Pipeline!Initialize(content)
      PROVE  PipelineInv'
  <2>1. WellWritten(content)
    BY PipelineAssumption DEF PipelineInv, WellWritten
  <2> QED  BY <1>1, <2>1, BeginKeeps DEF Pipeline!Initialize
<1>2. CASE Pipeline!LoadPipelineConfig
  <2>1. WellWritten(file) /\ saved \in BOOLEAN
    BY DEF PipelineInv
  <2> QED  BY <1>2, <2>1, BeginKeeps DEF Pipeline!LoadPipelineConfig
<1>3. CASE Pipeline!LoadEntry
  BY <1>3, EntryKeeps
<1>4. ASSUME saved,
             Pipeline!SkipEntry \/ Pipeline!UnknownType \/ Pipeline!MalformedParameter
      PROVE  FALSE
  <2>1. entry \in DOMAIN file.entries
    <3>1. state = "loading" /\ entry <= Len(file.entries)
      BY <1>4 DEF Pipeline!SkipEntry, Pipeline!UnknownType, Pipeline!MalformedParameter
    <3>2. DOMAIN file.entries = 1 .. Len(file.entries) /\ Len(file.entries) \in Nat
      BY DEF PipelineInv, WellWritten
    <3> QED  BY <3>1, <3>2 DEF PipelineInv
  <2>2. PICK step \in GoodStep : file.entries[entry] = Pipeline!Serialize(step)
    BY <1>4, <2>1 DEF PipelineInv, AsReported
  <2>3. file.entries[entry].type \in StepType
    BY <2>2 DEF Pipeline!Serialize, GoodStep
  <2>4. Pipeline!ParametersParse(file.entries[entry])
    BY <2>2, PipelineAssumption DEF Pipeline!Serialize, Pipeline!ParametersParse, GoodStep
  <2> QED  BY <1>4, <2>3, <2>4, PipelineAssumption
           DEF Pipeline!KnownStepType, Pipeline!SkipEntry, Pipeline!UnknownType,
               Pipeline!MalformedParameter
<1>5. CASE Pipeline!SkipEntry
  BY <1>4, <1>5 DEF Pipeline!SkipEntry, PipelineInv, WellWritten, AsReported
<1>6. CASE Pipeline!UnknownType
  BY <1>4, <1>6 DEF Pipeline!UnknownType, PipelineInv, WellWritten, AsReported
<1>7. CASE Pipeline!EndLoad
  BY <1>7 DEF Pipeline!EndLoad, PipelineInv, WellWritten, AsReported
<1>8. CASE Pipeline!MalformedParameter
  BY <1>4, <1>8 DEF Pipeline!MalformedParameter, PipelineInv, WellWritten, AsReported
<1> QED  BY <1>1, <1>2, <1>3, <1>5, <1>6, <1>7, <1>8

LEMMA TuningKeeps ==
  ASSUME PipelineInv, UNCHANGED stage, stage # "calibrating", Pipeline!Next
  PROVE  PipelineInv'
<1>1. CASE Pipeline!ClearAllSteps
  BY <1>1, StepsChange DEF Pipeline!ClearAllSteps
<1>2. CASE Pipeline!SavePipelineConfig
  BY <1>2, SaveKeeps
<1>3. ASSUME NEW i \in DOMAIN steps, NEW values \in Pipeline!ParamsOf(steps[i].type),
             Pipeline!SetStepParameters(i, values)
      PROVE  PipelineInv'
  BY <1>3, SetParametersKeeps
<1>4. ASSUME NEW i \in DOMAIN steps, NEW id \in Pipeline!ParameterOf(steps[i].type),
             NEW value \in Pipeline!ValueOf(id), Pipeline!UpdateStepParameterById(i, id, value)
      PROVE  PipelineInv'
  BY <1>4, UpdateKeeps
<1>5. ASSUME NEW type \in StepType, NEW values \in Pipeline!ParamsOf(type),
             Pipeline!AddStep(type, values)
      PROVE  PipelineInv'
  BY <1>5, AddStepKeeps
<1> QED  BY <1>1, <1>2, <1>3, <1>4, <1>5, LoadingKeeps DEF Pipeline!Next

LEMMA PipelineUnchanged ==
  ASSUME PipelineInv, UNCHANGED pipelineVars, stage' = "calibrating" => stage = "calibrating"
  PROVE  PipelineInv'
BY DEF pipelineVars, PipelineInv, WellWritten, AsReported, LoadedSoFar

LEMMA PipelineStep ==
  ASSUME PipelineInv, [WatcherNext]_processVars
  PROVE  PipelineInv'
<1>1. CASE TunePipeline
  BY <1>1, TuningKeeps DEF TunePipeline, streamVars
<1>2. CASE StartCalibration
  BY <1>2, NewPipelineKeeps DEF StartCalibration
<1>3. ASSUME NEW k \in {"vehicle", "pedestrian"}, StartWatcher(k) PROVE PipelineInv'
  BY <1>3, NewPipelineKeeps DEF StartWatcher
<1>4. CASE SaveCalibration
  BY <1>4, CalibrationSavedKeeps
<1>5. CASE LoadPipeline
  <2>1. stage' # "calibrating"
    BY <1>5 DEF LoadPipeline
  <2> QED  BY <1>5, <2>1, LoadingKeeps DEF LoadPipeline
<1>6. CASE CalibrationWindow
  BY <1>6, PipelineUnchanged
     DEF CalibrationWindow, Stream!EndCalibration, Stream!OnMouseClick,
         Stream!ResetCalibrationPoints, Stream!TogglePreview
<1>7. CASE OpenAndReadCalibration
  BY <1>7, PipelineUnchanged
     DEF OpenAndReadCalibration, Stream!OpenVideoStream, Stream!ReadCalibrationData,
         Stream!InitializeWarp, Stream!InitializePerspectiveTransform, Stream!Dies
<1>8. ASSUME NEW arrives \in Frames,
             FirstFrame(arrives) \/ TakeFrame(arrives) \/ CountPedestrians(arrives)
      PROVE  PipelineInv'
  BY <1>8, PipelineUnchanged
     DEF FirstFrame, TakeFrame, CountPedestrians, Stream!FirstFrame, Stream!Dies,
         Stream!ApplyFrameRoi, Stream!ApplyWithoutMatrix
<1>9. CASE FinishInitialize
  BY <1>9, PipelineUnchanged
     DEF FinishInitialize, Stream!InitializeTrim, Stream!SecondFrame, Stream!InitializeModel,
         Stream!InitializePerspectiveTransform, Stream!Dies,
         Stream!ApplyFrameRoi, Stream!ApplyWithoutMatrix
<1>10. CASE AnswerWithoutFrame \/ UNCHANGED processVars
  BY <1>10, PipelineUnchanged DEF AnswerWithoutFrame, processVars, streamVars
<1> QED  BY <1>1, <1>2, <1>3, <1>4, <1>5, <1>6, <1>7, <1>8, <1>9, <1>10 DEF WatcherNext

LEMMA PipelineInvariant == WatcherSpec => []PipelineInv
<1>1. ASSUME WatcherInit PROVE PipelineInv
  <2>1. /\ state = "unborn" /\ steps = <<>> /\ file.entries = <<>> /\ saved = FALSE
        /\ entry = 0 /\ stage = "idle"
    BY <1>1 DEF WatcherInit, Stream!Init, Pipeline!Init, Pipeline!NoSection
  <2>2. WellWritten(file)
    BY <2>1 DEF WellWritten
  <2>3. steps \in Seq(GoodStep)
    BY <2>1
  <2>4. ~ saved /\ saved \in BOOLEAN
    BY <2>1
  <2> QED  BY <2>1, <2>2, <2>3, <2>4 DEF PipelineInv
<1> QED  BY <1>1, PipelineStep, PTL DEF WatcherSpec

(* However a kernel size came into the pipeline, OpenCV accepts it.        *)
THEOREM KernelsAccepted == WatcherSpec => []KernelsUsable
<1>1. PipelineInv => KernelsUsable
  BY DEF PipelineInv, GoodStep, KernelsUsable, Pipeline!KernelsUsable
<1> QED  BY <1>1, PipelineInvariant, PTL

(* Every step but the background subtractor reports what it applies.       *)
THEOREM ReportsApplied == WatcherSpec => []ReportsWhatIsApplied
<1>1. PipelineInv => ReportsWhatIsApplied
  BY DEF PipelineInv, GoodStep, ReportsWhatIsApplied, Pipeline!ReportsWhatIsApplied
<1> QED  BY <1>1, PipelineInvariant, PTL

(* A saved pipeline is loaded as it was reported, and its loading never    *)
(* ends the process.                                                       *)
THEOREM SavedReloads == WatcherSpec => []SavedFileReloads
<1>1. ASSUME PipelineInv, saved, entry > 0
      PROVE  state = "loading" /\ Pipeline!Reported = SubSeq(file.entries, 1, entry - 1)
  <2>1. state = "loading" /\ LoadedSoFar /\ entry \in Nat
    BY <1>1 DEF PipelineInv
  <2>2. DOMAIN steps = 1 .. (entry - 1)
    BY <1>1, <2>1 DEF PipelineInv, LoadedSoFar
  <2>3. SubSeq(file.entries, 1, entry - 1) = [i \in 1 .. (entry - 1) |-> file.entries[i]]
    <3>1. file.entries \in Seq({file.entries[i] : i \in DOMAIN file.entries})
          /\ Len(file.entries) \in Nat
      BY <1>1 DEF PipelineInv, WellWritten
    <3> QED  BY <2>1, <3>1 DEF LoadedSoFar
  <2> QED  BY <2>1, <2>2, <2>3 DEF LoadedSoFar, Pipeline!Reported
<1>2. PipelineInv => SavedFileReloads
  BY <1>1 DEF SavedFileReloads, Pipeline!SavedFileReloads
<1> QED  BY <1>2, PipelineInvariant, PTL

(* Whatever a tool or a child does with it, a pipeline keeps its types and *)
(* stays as short as the bound and the files someone wrote.                *)
ShortFiles ==
  MaxSteps \in Nat /\ \A content \in HandWritten : Len(content.entries) <= MaxSteps

Lengths ==
  /\ Len(steps) <= MaxSteps
  /\ Len(file.entries) <= MaxSteps
  /\ entry <= Len(file.entries) + 1
  /\ state = "loading" => Len(steps) < entry

LEMMA LengthsAreNumbers ==
  ASSUME PipelineInv
  PROVE  Len(steps) \in Nat /\ Len(file.entries) \in Nat /\ entry \in Nat
BY DEF PipelineInv, WellWritten

LEMMA EditLengths ==
  ASSUME PipelineInv, PipelineInv', Lengths, ShortFiles, state = "idle",
         \/ \E type \in StepType : \E values \in Pipeline!ParamsOf(type) :
              Pipeline!AddStep(type, values)
         \/ \E i \in DOMAIN steps : \E values \in Pipeline!ParamsOf(steps[i].type) :
              Pipeline!SetStepParameters(i, values)
         \/ \E i \in DOMAIN steps : \E id \in Pipeline!ParameterOf(steps[i].type) :
              \E value \in Pipeline!ValueOf(id) : Pipeline!UpdateStepParameterById(i, id, value)
         \/ Pipeline!ClearAllSteps \/ Pipeline!SavePipelineConfig
  PROVE  Lengths'
<1>1. Len(steps) \in Nat /\ Len(file.entries) \in Nat /\ entry = 0
  BY LengthsAreNumbers DEF PipelineInv
<1>2. steps \in Seq(GoodStep) /\ steps' \in Seq(GoodStep)
  BY DEF PipelineInv
<1>3. Len(<<>>) = 0
  OBVIOUS
<1>4. ASSUME NEW type \in StepType, NEW values \in Pipeline!ParamsOf(type),
             Pipeline!AddStep(type, values)
      PROVE  Lengths'
  <2>1. file' = file /\ entry' = entry /\ state' \in {"idle", "dead"} /\ Len(steps) < MaxSteps
    BY <1>4 DEF Pipeline!AddStep, Pipeline!AppendStep
  <2>2. CASE Pipeline!Throws(type, values)
    BY <1>4, <2>1, <2>2 DEF Pipeline!AddStep, Pipeline!AppendStep, Lengths
  <2>3. CASE ~ Pipeline!Throws(type, values)
    <3>1. steps' = Append(steps, Pipeline!CreateStep(type, values))
      BY <1>4, <2>3 DEF Pipeline!AddStep, Pipeline!AppendStep
    <3>2. Len(steps') = Len(steps) + 1
      BY <1>2, <3>1
    <3> QED  BY <1>1, <2>1, <3>2 DEF Lengths, ShortFiles
  <2> QED  BY <2>2, <2>3
<1>5. ASSUME NEW i \in DOMAIN steps, NEW values, Pipeline!SetStepParameters(i, values)
      PROVE  Lengths'
  <2>1. DOMAIN steps' = DOMAIN steps /\ UNCHANGED <<file, entry, state>>
    BY <1>2, <1>5 DEF Pipeline!SetStepParameters
  <2>2. Len(steps') = Len(steps)
    BY <1>2, <2>1
  <2> QED  BY <2>1, <2>2 DEF Lengths
<1>6. ASSUME NEW i \in DOMAIN steps, NEW id, NEW value, Pipeline!UpdateStepParameterById(i, id, value)
      PROVE  Lengths'
  <2>1. DOMAIN steps' = DOMAIN steps /\ UNCHANGED <<file, entry, state>>
    BY <1>2, <1>6 DEF Pipeline!UpdateStepParameterById
  <2>2. Len(steps') = Len(steps)
    BY <1>2, <2>1
  <2> QED  BY <2>1, <2>2 DEF Lengths
<1>7. CASE Pipeline!ClearAllSteps
  BY <1>3, <1>7 DEF Pipeline!ClearAllSteps, Lengths, ShortFiles
<1>8. CASE Pipeline!SavePipelineConfig
  <2>1. Len(file'.entries) = Len(steps)
    <3>1. DOMAIN Pipeline!Reported = 1 .. Len(steps)
      BY <1>2 DEF Pipeline!Reported
    <3>2. Len(Pipeline!Reported) = Len(steps)
      BY <1>2 DEF Pipeline!Reported
    <3> QED  BY <1>8, <3>2 DEF Pipeline!SavePipelineConfig, Pipeline!Section
  <2>2. UNCHANGED <<state, steps, entry>>
    BY <1>8 DEF Pipeline!SavePipelineConfig
  <2> QED  BY <1>1, <2>1, <2>2 DEF Lengths
<1> QED  BY <1>4, <1>5, <1>6, <1>7, <1>8

LEMMA LoadLengths ==
  ASSUME PipelineInv, Lengths, ShortFiles,
         \/ \E content \in {file} \cup HandWritten : Pipeline!Initialize(content)
         \/ Pipeline!LoadPipelineConfig \/ Pipeline!LoadEntry \/ Pipeline!SkipEntry
         \/ Pipeline!UnknownType \/ Pipeline!MalformedParameter \/ Pipeline!EndLoad
  PROVE  Lengths'
<1>1. Len(steps) \in Nat /\ Len(file.entries) \in Nat /\ entry \in Nat /\ steps \in Seq(GoodStep)
  BY LengthsAreNumbers DEF PipelineInv
<1>2. Len(<<>>) = 0
  OBVIOUS
<1>3. ASSUME NEW content \in {file} \cup HandWritten, file' = content,
             Pipeline!BeginLoad(content, <<>>), state \in {"unborn", "idle"}
      PROVE  Lengths'
  <2>1. Len(content.entries) \in Nat /\ Len(content.entries) <= MaxSteps
    BY <1>1, PipelineAssumption DEF Lengths, ShortFiles
  <2>2. entry = 0
    BY <1>3 DEF PipelineInv
  <2>3. CASE content.section
    BY <1>2, <1>3, <2>1, <2>3 DEF Pipeline!BeginLoad, Lengths, ShortFiles
  <2>4. CASE ~ content.section
    BY <1>3, <2>1, <2>2, <2>4 DEF Pipeline!BeginLoad, Lengths
  <2> QED  BY <2>3, <2>4
<1>4. ASSUME NEW content \in {file} \cup HandWritten, Pipeline!Initialize(content)
      PROVE  Lengths'
  BY <1>3, <1>4 DEF Pipeline!Initialize
<1>5. CASE Pipeline!LoadPipelineConfig
  <2>1. file' = file /\ Pipeline!BeginLoad(file, <<>>) /\ state = "idle"
    BY <1>5 DEF Pipeline!LoadPipelineConfig
  <2> QED  BY <1>3, <2>1
<1>6. CASE Pipeline!LoadEntry
  <2> DEFINE written == file.entries[entry]
             values == Pipeline!Deserialize(written.type, written.params)
  <2>1. file' = file /\ state = "loading" /\ entry <= Len(file.entries)
        /\ Pipeline!AppendStep(written.type, values)
        /\ entry' = IF state' = "dead" THEN entry ELSE entry + 1
    BY <1>6 DEF Pipeline!LoadEntry
  <2>2. CASE Pipeline!Throws(written.type, values)
    BY <2>1, <2>2 DEF Pipeline!AppendStep, Lengths
  <2>3. CASE ~ Pipeline!Throws(written.type, values)
    <3>1. state' = "loading" /\ steps' = Append(steps, Pipeline!CreateStep(written.type, values))
      BY <2>1, <2>3 DEF Pipeline!AppendStep
    <3>2. Len(steps') = Len(steps) + 1
      BY <1>1, <3>1
    <3> QED  BY <1>1, <2>1, <3>1, <3>2 DEF Lengths, ShortFiles
  <2> QED  BY <2>2, <2>3
<1>7. CASE Pipeline!SkipEntry
  BY <1>1, <1>7 DEF Pipeline!SkipEntry, Lengths
<1>8. CASE Pipeline!UnknownType
  BY <1>1, <1>8 DEF Pipeline!UnknownType, Lengths
<1>9. CASE Pipeline!EndLoad
  BY <1>1, <1>9 DEF Pipeline!EndLoad, Lengths
<1>10. CASE Pipeline!MalformedParameter
  BY <1>1, <1>10 DEF Pipeline!MalformedParameter, Lengths
<1> QED  BY <1>4, <1>5, <1>6, <1>7, <1>8, <1>9, <1>10

LEMMA LengthStep ==
  ASSUME PipelineInv, PipelineInv', Lengths, ShortFiles, [WatcherNext]_processVars
  PROVE  Lengths'
<1>1. CASE TunePipeline
  <2>1. Pipeline!Next
    BY <1>1 DEF TunePipeline
  <2>2. CASE state = "idle"
    BY <2>1, <2>2, EditLengths, LoadLengths DEF Pipeline!Next
  <2>3. CASE state # "idle"
    <3>1. \/ \E content \in HandWritten : Pipeline!Initialize(content)
          \/ Pipeline!LoadPipelineConfig \/ Pipeline!LoadEntry \/ Pipeline!SkipEntry
          \/ Pipeline!UnknownType \/ Pipeline!MalformedParameter \/ Pipeline!EndLoad
      BY <2>1, <2>3 DEF Pipeline!Next, Pipeline!AddStep, Pipeline!SetStepParameters,
         Pipeline!UpdateStepParameterById, Pipeline!ClearAllSteps, Pipeline!SavePipelineConfig
    <3> QED  BY <3>1, LoadLengths
  <2> QED  BY <2>2, <2>3
<1>2. CASE LoadPipeline
  BY <1>2, LoadLengths DEF LoadPipeline
<1>3. ASSUME NewPipeline, UNCHANGED file
      PROVE  Lengths'
  <2>1. Len(<<>>) = 0 /\ Len(file.entries) \in Nat
    BY LengthsAreNumbers
  <2> QED  BY <1>3, <2>1 DEF NewPipeline, Lengths, ShortFiles
<1>4. CASE SaveCalibration
  <2>1. /\ file'.entries = <<>> /\ UNCHANGED <<state, steps, entry>>
        /\ state = "unborn" /\ entry = 0
    BY <1>4 DEF SaveCalibration, PipelineInv, Stream!SaveCalibrationData, Stream!Saving,
           Pipeline!NoSection
  <2>2. Len(<<>>) = 0
    OBVIOUS
  <2> QED  BY <2>1, <2>2 DEF Lengths, ShortFiles
<1>5. ASSUME UNCHANGED <<state, steps, file, saved, entry>>
      PROVE  Lengths'
  BY <1>5 DEF Lengths
<1> QED  BY <1>1, <1>2, <1>3, <1>4, <1>5
        DEF WatcherNext, StartCalibration, StartWatcher, CalibrationWindow, OpenAndReadCalibration,
            FirstFrame, FinishInitialize, TakeFrame, AnswerWithoutFrame, CountPedestrians,
            processVars, pipelineVars

(* See PipelineTypeOK: whatever the operator does with the trackbars and   *)
(* the buttons and whatever the files hold, as long as a file someone wrote*)
(* is no longer than the pipelines that are followed.                      *)
THEOREM PipelineTypes == ShortFiles => (WatcherSpec => []PipelineTypeOK)
<1> SUFFICES ASSUME ShortFiles
             PROVE  WatcherSpec => []PipelineTypeOK
  OBVIOUS
<1>1. ASSUME WatcherInit PROVE Lengths
  <2>1. state = "unborn" /\ steps = <<>> /\ file.entries = <<>> /\ entry = 0
    BY <1>1 DEF WatcherInit, Pipeline!Init, Pipeline!NoSection
  <2>2. Len(<<>>) = 0
    OBVIOUS
  <2> QED  BY <2>1, <2>2 DEF Lengths, ShortFiles
<1>2. ASSUME PipelineInv, Lengths, [WatcherNext]_processVars
      PROVE  Lengths'
  BY <1>2, LengthStep, PipelineStep
<1>3. ASSUME PipelineInv, Lengths
      PROVE  PipelineTypeOK
  <2>1. \A i \in DOMAIN steps : steps[i] \in GoodStep
    BY <1>3 DEF PipelineInv
  <2>2. Len(file.entries) \in Nat /\ entry \in Nat
    BY <1>3, LengthsAreNumbers
  <2>3. state \in {"unborn", "idle", "loading", "dead"} /\ saved \in BOOLEAN
    BY <1>3 DEF PipelineInv
  <2> QED  BY <1>3, <2>1, <2>2, <2>3 DEF PipelineTypeOK, Pipeline!TypeOK, Lengths, GoodStep
<1> QED  BY <1>1, <1>2, <1>3, PipelineInvariant, PTL DEF WatcherSpec

-----------------------------------------------------------------------------
(* The pipeline a lane goes on with: at every round of the loop the steps  *)
(* are those of the entries gone through, and no way but the end of the    *)
(* loop leads past loadPipelineConfig with a section in the file.          *)
Halfway ==
  state = "loading" =>
    file.section /\ entry <= Len(file.entries) + 1 /\ Pipeline!LoadedUpTo(entry - 1)

WholeInv ==
  /\ Halfway
  /\ stage \in {"open", "read", "perspective"} => state = "unborn"
  /\ stage = "pipeline" => state \in {"unborn", "loading"}
  /\ WholePipelineLoaded

(* The cardinality of the pipeline's module is that of the library.        *)
LEMMA SameCardinality ==
  ASSUME NEW S
  PROVE  Pipeline!Cardinality(S) = Cardinality(S)
BY DEF Pipeline!Cardinality, Cardinality

(* Going one entry further counts it if it has a type.                     *)
LEMMA TypedCounts ==
  ASSUME NEW n \in Nat
  PROVE  /\ Cardinality(Pipeline!Typed(n)) \in Nat
         /\ Cardinality(Pipeline!Typed(n + 1)) =
              IF file.entries[n + 1].type # "missing"
              THEN Cardinality(Pipeline!Typed(n)) + 1 ELSE Cardinality(Pipeline!Typed(n))
         /\ \A i \in Pipeline!Typed(n) :
              Cardinality(Pipeline!Typed(i)) \in 1 .. Cardinality(Pipeline!Typed(n))
<1>1. ASSUME NEW m \in Nat
      PROVE  IsFiniteSet(Pipeline!Typed(m)) /\ Cardinality(Pipeline!Typed(m)) \in Nat
  <2>1. IsFiniteSet(1 .. m)
    BY FS_Interval
  <2>2. IsFiniteSet(Pipeline!Typed(m))
    BY <2>1, FS_Subset DEF Pipeline!Typed
  <2> QED  BY <2>2, FS_CardinalityType
<1>2. n + 1 \notin Pipeline!Typed(n)
  BY DEF Pipeline!Typed
<1>3. Pipeline!Typed(n + 1) =
        IF file.entries[n + 1].type # "missing" THEN Pipeline!Typed(n) \cup {n + 1}
        ELSE Pipeline!Typed(n)
  BY DEF Pipeline!Typed
<1>4. Cardinality(Pipeline!Typed(n) \cup {n + 1}) = Cardinality(Pipeline!Typed(n)) + 1
  BY <1>1, <1>2, FS_AddElement
<1>5. ASSUME NEW i \in Pipeline!Typed(n)
      PROVE  Cardinality(Pipeline!Typed(i)) \in 1 .. Cardinality(Pipeline!Typed(n))
  <2>1. i \in Nat /\ i \in Pipeline!Typed(i) /\ Pipeline!Typed(i) \in SUBSET Pipeline!Typed(n)
    BY DEF Pipeline!Typed
  <2>2. Cardinality(Pipeline!Typed(i)) <= Cardinality(Pipeline!Typed(n))
    BY <1>1, <2>1, FS_Subset
  <2>3. Cardinality(Pipeline!Typed(i)) # 0
    BY <1>1, <2>1, FS_EmptySet
  <2> QED  BY <1>1, <2>1, <2>2, <2>3
<1> QED  BY <1>1, <1>3, <1>4, <1>5

(* Loading begins with no step and no entry.                               *)
LEMMA BeginsWithNone ==
  ASSUME NEW content, file' = content, Pipeline!BeginLoad(content, <<>>),
         content.section, content.entries \in Seq({content.entries[i] : i \in DOMAIN content.entries})
  PROVE  Halfway'
<1>1. steps' = <<>> /\ entry' = 1
  BY DEF Pipeline!BeginLoad
<1>2. Pipeline!Typed(0)' = {}
  BY DEF Pipeline!Typed
<1>3. Cardinality({}) = 0
  BY FS_EmptySet
<1>4. Len(<<>>) = 0
  OBVIOUS
<1>5. entry' - 1 = 0
  BY <1>1
<1>6. Pipeline!LoadedUpTo(0)'
  BY <1>1, <1>2, <1>3, <1>4, SameCardinality DEF Pipeline!LoadedUpTo
<1> QED  BY <1>1, <1>5, <1>6 DEF Halfway

(* What has been gone through depends on the steps and the entries only.   *)
LEMMA SameSteps ==
  ASSUME NEW n, Pipeline!LoadedUpTo(n), UNCHANGED <<steps, file>>
  PROVE  Pipeline!LoadedUpTo(n)'
BY DEF Pipeline!LoadedUpTo, Pipeline!Typed

LEMMA RoundDone ==
  ASSUME NEW n, Pipeline!LoadedUpTo(n)', n = entry' - 1,
         file'.section, entry' <= Len(file'.entries) + 1
  PROVE  Halfway'
BY DEF Halfway, Pipeline!LoadedUpTo, Pipeline!Typed

(* An entry that is read adds its step behind those there are.             *)
LEMMA EntryAddsItsStep ==
  ASSUME PipelineInv, Halfway, Pipeline!LoadEntry, state' = "loading"
  PROVE  Halfway'
<1>1. SUFFICES ASSUME NEW n \in Nat, entry = n + 1
               PROVE  Halfway'
  <2>1. entry \in Nat /\ entry > 0
    BY DEF PipelineInv, Pipeline!LoadEntry
  <2>2. entry - 1 \in Nat /\ entry = (entry - 1) + 1
    BY <2>1
  <2> QED  BY <1>1, <2>2
<1> DEFINE step == Pipeline!StepOf(file.entries[n + 1])
<1>2. /\ file' = file /\ entry' = n + 2 /\ n + 1 <= Len(file.entries) /\ file.section
      /\ steps' = Append(steps, step)
  BY <1>1 DEF Pipeline!LoadEntry, Pipeline!AppendStep, Pipeline!StepOf, Halfway
<1>3. file.entries[n + 1].type # "missing"
  BY <1>1, PipelineAssumption DEF Pipeline!LoadEntry, Pipeline!KnownStepType
<1>4. Pipeline!LoadedUpTo(n)
  <2>1. entry - 1 = n
    BY <1>1
  <2> QED  BY <2>1 DEF Halfway, Pipeline!LoadEntry
<1>5. steps \in Seq(GoodStep) /\ Len(file.entries) \in Nat
  BY DEF PipelineInv, WellWritten
<1> HIDE DEF step
<1>6. Cardinality(Pipeline!Typed(n + 1)) = Len(steps) + 1
      /\ \A i \in Pipeline!Typed(n) : Cardinality(Pipeline!Typed(i)) \in 1 .. Len(steps)
  BY <1>3, <1>4, TypedCounts, SameCardinality DEF Pipeline!LoadedUpTo
<1>7. Len(steps') = Len(steps) + 1 /\ steps'[Len(steps) + 1] = step
      /\ \A k \in 1 .. Len(steps) : steps'[k] = steps[k]
  BY <1>2, <1>5, AppendProperties
<1>8. ASSUME NEW i \in Pipeline!Typed(n + 1)
      PROVE  steps'[Cardinality(Pipeline!Typed(i))] = Pipeline!StepOf(file.entries[i])
  <2>1. CASE i = n + 1
    BY <1>6, <1>7, <2>1 DEF step
  <2>2. CASE i # n + 1
    <3>1. i \in Pipeline!Typed(n)
      BY <2>2 DEF Pipeline!Typed
    <3>2. steps[Cardinality(Pipeline!Typed(i))] = Pipeline!StepOf(file.entries[i])
      BY <1>4, <3>1, SameCardinality DEF Pipeline!LoadedUpTo
    <3> QED  BY <1>6, <1>7, <3>1, <3>2
  <2> QED  BY <2>1, <2>2
<1>9. Pipeline!LoadedUpTo(n + 1)'
  BY <1>2, <1>6, <1>7, <1>8, SameCardinality DEF Pipeline!LoadedUpTo, Pipeline!Typed
<1> QED  BY <1>2, <1>5, <1>9, RoundDone

(* One without a type adds nothing.                                        *)
LEMMA SkippedAddsNothing ==
  ASSUME PipelineInv, Halfway, Pipeline!SkipEntry
  PROVE  Halfway'
<1>1. SUFFICES ASSUME NEW n \in Nat, entry = n + 1
               PROVE  Halfway'
  <2>1. entry \in Nat /\ entry > 0
    BY DEF PipelineInv, Pipeline!SkipEntry
  <2>2. entry - 1 \in Nat /\ entry = (entry - 1) + 1
    BY <2>1
  <2> QED  BY <1>1, <2>2
<1>2. /\ UNCHANGED <<steps, file>> /\ entry' = n + 2 /\ n + 1 <= Len(file.entries) /\ file.section
      /\ file.entries[n + 1].type = "missing"
  BY <1>1 DEF Pipeline!SkipEntry, Halfway
<1>3. Pipeline!LoadedUpTo(n)
  <2>1. entry - 1 = n
    BY <1>1
  <2> QED  BY <2>1 DEF Halfway, Pipeline!SkipEntry
<1>4. Pipeline!Typed(n + 1) = Pipeline!Typed(n)
  BY <1>2 DEF Pipeline!Typed
<1>5. Pipeline!LoadedUpTo(n + 1)
  BY <1>3, <1>4 DEF Pipeline!LoadedUpTo
<1>6. Pipeline!LoadedUpTo(n + 1)'
  BY <1>2, <1>5, SameSteps
<1>7. Len(file.entries) \in Nat
  BY DEF PipelineInv, WellWritten
<1> QED  BY <1>2, <1>6, <1>7, RoundDone

(* Whatever step of the pipeline is taken, loading is halfway through the  *)
(* file as it says, and when it ends the file has been gone through.       *)
LEMMA LoadingSteps ==
  ASSUME PipelineInv, Halfway,
         \/ \E content \in {file} \cup HandWritten : Pipeline!Initialize(content)
         \/ Pipeline!LoadPipelineConfig \/ Pipeline!LoadEntry \/ Pipeline!SkipEntry
         \/ Pipeline!UnknownType \/ Pipeline!MalformedParameter \/ Pipeline!EndLoad
  PROVE  Halfway'
<1>1. ASSUME NEW content, WellWritten(content), file' = content,
             Pipeline!BeginLoad(content, <<>>)
      PROVE  Halfway'
  <2>1. CASE content.section
    BY <1>1, <2>1, BeginsWithNone DEF WellWritten
  <2>2. CASE ~ content.section
    BY <1>1, <2>2 DEF Pipeline!BeginLoad, Halfway
  <2> QED  BY <2>1, <2>2
<1>2. ASSUME NEW content \in {file} \cup HandWritten, Pipeline!Initialize(content)
      PROVE  Halfway'
  <2>1. WellWritten(content)
    BY PipelineAssumption DEF PipelineInv, WellWritten
  <2> QED  BY <1>1, <1>2, <2>1 DEF Pipeline!Initialize
<1>3. CASE Pipeline!LoadPipelineConfig
  <2>1. WellWritten(file)
    BY DEF PipelineInv
  <2> QED  BY <1>1, <1>3, <2>1 DEF Pipeline!LoadPipelineConfig
<1>4. CASE Pipeline!LoadEntry
  BY <1>4, EntryAddsItsStep DEF Halfway
<1>5. CASE Pipeline!UnknownType \/ Pipeline!MalformedParameter \/ Pipeline!EndLoad
  BY <1>5 DEF Pipeline!UnknownType, Pipeline!MalformedParameter, Pipeline!EndLoad, Halfway
<1> QED  BY <1>2, <1>3, <1>4, <1>5, SkippedAddsNothing

LEMMA LoadingEnds ==
  ASSUME PipelineInv, PipelineInv', Halfway, stage = "pipeline",
         state \in {"unborn", "loading"}, LoadPipeline
  PROVE  WholePipelineLoaded'
<1>1. SUFFICES ASSUME stage' \notin {"pipeline", "dead"}
               PROVE  IF file'.section THEN Pipeline!LoadedUpTo(Len(file.entries))' ELSE steps' = <<>>
  BY DEF WholePipelineLoaded, LoadPipeline
<1>2. state' = "idle"
  BY <1>1 DEF LoadPipeline
<1>3. ASSUME NEW content, Pipeline!Initialize(content)
      PROVE  ~ file'.section /\ steps' = <<>>
  BY <1>2, <1>3 DEF Pipeline!Initialize, Pipeline!BeginLoad, PipelineInv
<1>4. ASSUME Pipeline!EndLoad
      PROVE  Pipeline!LoadedUpTo(Len(file.entries))' /\ file'.section
  <2>1. entry - 1 = Len(file.entries) /\ file.section /\ Pipeline!LoadedUpTo(entry - 1)
    BY <1>4 DEF Pipeline!EndLoad, Halfway, PipelineInv, WellWritten
  <2>2. Pipeline!LoadedUpTo(Len(file.entries)) /\ UNCHANGED <<steps, file>>
    BY <1>4, <2>1 DEF Pipeline!EndLoad
  <2> QED  BY <2>1, <2>2 DEF Pipeline!LoadedUpTo, Pipeline!Typed
<1>5. ~ Pipeline!LoadEntry /\ ~ Pipeline!SkipEntry /\ ~ Pipeline!UnknownType
      /\ ~ Pipeline!MalformedParameter
  BY <1>2 DEF Pipeline!LoadEntry, Pipeline!AppendStep, Pipeline!SkipEntry, Pipeline!UnknownType,
              Pipeline!MalformedParameter
<1> QED  BY <1>1, <1>3, <1>4, <1>5 DEF LoadPipeline

(* Beside loading, the pipeline and the file stay, or a lane is not yet    *)
(* past it.                                                                *)
LEMMA PipelineStays ==
  ASSUME WholeInv, UNCHANGED pipelineVars, kind' = kind,
         stage' \in {"open", "read", "perspective"} =>
           stage \in {"open", "read", "perspective"},
         stage' = "pipeline" => stage \in {"pipeline", "perspective"},
         kind' = "vehicle" /\ (stage' \in {"first", "model"} \/ (stage' = "ready" /\ roi'.by # "none"))
           => stage \in {"first", "model"} \/ (stage = "ready" /\ roi.by # "none")
  PROVE  WholeInv'
BY DEF WholeInv, Halfway, WholePipelineLoaded, pipelineVars, Pipeline!LoadedUpTo, Pipeline!Typed

LEMMA TuningWhole ==
  ASSUME PipelineInv, PipelineInv', WholeInv, TunePipeline
  PROVE  WholeInv'
<1>1. stage = "idle" /\ stage' = "idle"
  BY DEF TunePipeline, streamVars
<1>2. Halfway'
  <2>1. CASE \/ \E content \in {file} \cup HandWritten : Pipeline!Initialize(content)
             \/ Pipeline!LoadPipelineConfig \/ Pipeline!LoadEntry \/ Pipeline!SkipEntry
             \/ Pipeline!UnknownType \/ Pipeline!MalformedParameter \/ Pipeline!EndLoad
    BY <2>1, LoadingSteps DEF WholeInv
  <2>2. ASSUME state' # "loading" PROVE Halfway'
    BY <2>2 DEF Halfway
  <2> QED  BY <2>1, <2>2 DEF TunePipeline, Pipeline!Next, Pipeline!AddStep, Pipeline!AppendStep,
              Pipeline!SetStepParameters, Pipeline!UpdateStepParameterById,
              Pipeline!ClearAllSteps, Pipeline!SavePipelineConfig
<1> QED  BY <1>1, <1>2 DEF WholeInv, WholePipelineLoaded

LEMMA WholeStep ==
  ASSUME StreamInv, PipelineInv, PipelineInv', WholeInv, [WatcherNext]_processVars
  PROVE  WholeInv'
<1>1. CASE TunePipeline
  BY <1>1, TuningWhole
<1>2. CASE LoadPipeline
  <2>1. stage = "pipeline" /\ state \in {"unborn", "loading"} /\ Halfway
        /\ stage' \in {"pipeline", "first", "dead"}
        /\ (stage' = "pipeline" => state' \in {"unborn", "loading"})
    BY <1>2 DEF LoadPipeline, WholeInv, PipelineInv
  <2>2. WholePipelineLoaded'
    BY <1>2, <2>1, LoadingEnds
  <2>3. Halfway'
    BY <1>2, <2>1, LoadingSteps DEF LoadPipeline
  <2> QED  BY <2>1, <2>2, <2>3 DEF WholeInv
<1>3. ASSUME NewPipeline, stage' \in {"calibrating", "open"} PROVE WholeInv'
  BY <1>3 DEF NewPipeline, WholeInv, Halfway, WholePipelineLoaded
<1>4. CASE StartCalibration
  BY <1>3, <1>4 DEF StartCalibration, Stream!StartCalibration
<1>5. ASSUME NEW k \in {"vehicle", "pedestrian"}, StartWatcher(k) PROVE WholeInv'
  BY <1>3, <1>5 DEF StartWatcher, Stream!StartWatcher
<1>6. CASE SaveCalibration
  <2>1. stage' = "idle" /\ state' = "unborn"
    BY <1>6 DEF SaveCalibration, Stream!SaveCalibrationData, Stream!Saving, PipelineInv
  <2> QED  BY <2>1 DEF WholeInv, Halfway, WholePipelineLoaded
<1>7. CASE CalibrationWindow
  BY <1>7, PipelineStays DEF CalibrationWindow, Stream!EndCalibration, Stream!OnMouseClick,
     Stream!ResetCalibrationPoints, Stream!TogglePreview
<1>8. CASE OpenAndReadCalibration
  <2>1. UNCHANGED <<pipelineVars, kind>> /\ stage \in {"open", "read", "perspective"}
        /\ (stage' = "pipeline" => stage = "perspective")
        /\ (kind = "vehicle" => stage' \notin {"first", "model"})
        /\ (stage' = "ready" => roi' = roi)
    BY <1>8 DEF OpenAndReadCalibration, Stream!OpenVideoStream, Stream!ReadCalibrationData,
           Stream!InitializeWarp, Stream!InitializePerspectiveTransform, Stream!Dies
  <2>2. roi.by = "none"
    BY <2>1 DEF StreamInv, Calibrated, Stream!NoRoi
  <2> QED  BY <2>1, <2>2, PipelineStays
<1>9. ASSUME NEW arrives \in Frames,
             FirstFrame(arrives) \/ TakeFrame(arrives) \/ CountPedestrians(arrives)
      PROVE  WholeInv'
  <2>1. UNCHANGED <<pipelineVars, kind, roi>>
        /\ \/ stage' = "dead"
           \/ stage = "first" /\ stage' \in {"model", "trim"}
           \/ stage = "ready" /\ stage' = "ready"
    BY <1>9 DEF FirstFrame, TakeFrame, CountPedestrians, Stream!FirstFrame, Stream!Dies,
           Stream!ApplyFrameRoi, Stream!ApplyWithoutMatrix
  <2> QED  BY <2>1, PipelineStays
<1>10. CASE FinishInitialize
  <2>1. stage \in {"trim", "second", "model"} /\ stage' \in {"second", "model", "ready", "dead"}
        /\ UNCHANGED <<pipelineVars, kind>>
    BY <1>10 DEF FinishInitialize, Stream!InitializeTrim, Stream!SecondFrame,
                 Stream!InitializeModel, Stream!InitializePerspectiveTransform, Stream!Dies,
                 Stream!ApplyFrameRoi, Stream!ApplyWithoutMatrix
  <2>2. kind = "vehicle" => stage = "model"
    BY <2>1 DEF StreamInv, HasMatrix, Perspectives
  <2> QED  BY <2>1, <2>2, PipelineStays
<1>11. CASE AnswerWithoutFrame \/ UNCHANGED processVars
  BY <1>11, PipelineStays DEF AnswerWithoutFrame, processVars, streamVars
<1> QED  BY <1>1, <1>2, <1>4, <1>5, <1>6, <1>7, <1>8, <1>9, <1>10, <1>11 DEF WatcherNext

(* Whatever a file holds, a lane that gets past its loading has one step   *)
(* for each entry with a type, in their order and with their parameters.   *)
THEOREM PipelineWhole == WatcherSpec => []WholePipelineLoaded
<1>1. WatcherInit => WholeInv
  BY DEF WatcherInit, Stream!Init, Pipeline!Init, WholeInv, Halfway, WholePipelineLoaded
<1>2. WholeInv => WholePipelineLoaded
  BY DEF WholeInv
<1> QED  BY <1>1, <1>2, WholeStep, StreamInvariant, PipelineInvariant, PTL DEF WatcherSpec

-----------------------------------------------------------------------------
(* The corners of the region.                                              *)
LEMMA OrdersReachAll ==
  ASSUME NEW f \in Stream!Orders, NEW n \in 1 .. 4
  PROVE  \E j \in 1 .. 4 : f[j] = n
<1>1. f[1] \in 1 .. 4 /\ f[2] \in 1 .. 4 /\ f[3] \in 1 .. 4 /\ f[4] \in 1 .. 4
  BY DEF Stream!Orders
<1>2. /\ f[1] # f[2] /\ f[1] # f[3] /\ f[1] # f[4]
      /\ f[2] # f[3] /\ f[2] # f[4] /\ f[3] # f[4]
  BY DEF Stream!Orders
<1>3. f[1] = n \/ f[2] = n \/ f[3] = n \/ f[4] = n
  BY <1>1, <1>2
<1> QED  BY <1>3

(* One arrangement of the points is an order of another.                   *)
LEMMA Rearranged ==
  ASSUME NEW points, NEW p \in Stream!Arrangements(points), NEW q \in Stream!Arrangements(points)
  PROVE  \E h \in Stream!Orders : \A k \in 1 .. 4 : q[k] = p[h[k]]
<1>1. PICK f \in Stream!Orders : p = [k \in 1 .. 4 |-> points[f[k]]]
  BY DEF Stream!Arrangements
<1>2. PICK g \in Stream!Orders : q = [k \in 1 .. 4 |-> points[g[k]]]
  BY DEF Stream!Arrangements
<1> DEFINE h == [k \in 1 .. 4 |-> CHOOSE j \in 1 .. 4 : f[j] = g[k]]
<1>3. \A k \in 1 .. 4 : h[k] \in 1 .. 4 /\ f[h[k]] = g[k]
  <2>1. ASSUME NEW k \in 1 .. 4 PROVE h[k] \in 1 .. 4 /\ f[h[k]] = g[k]
    <3>1. g[k] \in 1 .. 4
      BY DEF Stream!Orders
    <3>2. \E j \in 1 .. 4 : f[j] = g[k]
      BY <3>1, OrdersReachAll
    <3> QED  BY <3>2
  <2> QED  BY <2>1
<1>4. h \in [1 .. 4 -> 1 .. 4]
  BY <1>3
<1> HIDE DEF h
<1>5. h \in Stream!Orders
  BY <1>3, <1>4 DEF Stream!Orders
<1>6. \A k \in 1 .. 4 : q[k] = p[h[k]]
  BY <1>1, <1>2, <1>3
<1> QED  BY <1>5, <1>6

(* Corners that can be told apart are sorted into their places.            *)
LEMMA SortedApart ==
  ASSUME NEW p \in [1 .. 4 -> [x : Int, y : Int]], NEW h \in Stream!Orders,
         Stream!ToldApart(p),
         \A top \in 1 .. 2, bottom \in 3 .. 4 : p[h[top]].y <= p[h[bottom]].y,
         p[h[1]].x <= p[h[2]].x, p[h[3]].x <= p[h[4]].x
  PROVE  h[1] = 1 /\ h[2] = 2 /\ h[3] = 3 /\ h[4] = 4
<1>1. h[1] \in 1 .. 4 /\ h[2] \in 1 .. 4 /\ h[3] \in 1 .. 4 /\ h[4] \in 1 .. 4
  BY DEF Stream!Orders
<1>2. /\ h[1] # h[2] /\ h[1] # h[3] /\ h[1] # h[4]
      /\ h[2] # h[3] /\ h[2] # h[4] /\ h[3] # h[4]
  BY DEF Stream!Orders
<1>3. \A k \in 1 .. 4 : p[k].x \in Int /\ p[k].y \in Int
  OBVIOUS
<1>4. ASSUME NEW top \in 1 .. 2, NEW bottom \in 3 .. 4
      PROVE  ~ (h[top] \in 3 .. 4 /\ h[bottom] \in 1 .. 2)
  <2>1. p[h[top]].y <= p[h[bottom]].y
    OBVIOUS
  <2>2. h[top] \in 3 .. 4 /\ h[bottom] \in 1 .. 2 => p[h[bottom]].y < p[h[top]].y
    BY DEF Stream!ToldApart
  <2>3. p[h[top]].y \in Int /\ p[h[bottom]].y \in Int
    BY <1>3 DEF Stream!Orders
  <2> QED  BY <2>1, <2>2, <2>3
<1>5. h[1] \in 1 .. 2 /\ h[2] \in 1 .. 2 /\ h[3] \in 3 .. 4 /\ h[4] \in 3 .. 4
  <2>1. /\ ~ (h[1] \in 3 .. 4 /\ h[3] \in 1 .. 2) /\ ~ (h[1] \in 3 .. 4 /\ h[4] \in 1 .. 2)
        /\ ~ (h[2] \in 3 .. 4 /\ h[3] \in 1 .. 2) /\ ~ (h[2] \in 3 .. 4 /\ h[4] \in 1 .. 2)
    BY <1>4
  <2> QED  BY <1>1, <1>2, <2>1
<1>6. p[1].x < p[2].x /\ p[3].x < p[4].x
  BY DEF Stream!ToldApart
<1>7. h[1] = 1
  <2>1. h[1] = 2 => h[2] = 1
    BY <1>2, <1>5
  <2>2. h[1] # 2
    BY <1>3, <1>6, <2>1
  <2> QED  BY <1>5, <2>2
<1>8. h[3] = 3
  <2>1. h[3] = 4 => h[4] = 3
    BY <1>2, <1>5
  <2>2. h[3] # 4
    BY <1>3, <1>6, <2>1
  <2> QED  BY <1>5, <2>2
<1> QED  BY <1>2, <1>5, <1>7, <1>8

LEMMA PositiveProduct ==
  ASSUME NEW a \in Int, NEW b \in Int, NEW c \in Int, NEW d \in Int,
         a > 0, b > 0, c > 0, d > 0
  PROVE  a * b + c * d > 0
OBVIOUS

LEMMA ClockwiseArea ==
  ASSUME NEW q \in [1 .. 4 -> [x : Int, y : Int]], Stream!ToldApart(q)
  PROVE  Stream!TwiceArea(Stream!Outline(q)) > 0
<1> DEFINE a == q[4].x - q[1].x
           b == q[3].y - q[2].y
           c == q[2].x - q[3].x
           d == q[4].y - q[1].y
<1>1. \A k \in 1 .. 4 : q[k].x \in Int /\ q[k].y \in Int
  OBVIOUS
<1>2. a \in Int /\ b \in Int /\ c \in Int /\ d \in Int
  BY <1>1
<1>3. q[1].x < q[4].x /\ q[2].y < q[3].y /\ q[3].x < q[2].x /\ q[1].y < q[4].y
  BY DEF Stream!ToldApart
<1>4. a > 0 /\ b > 0 /\ c > 0 /\ d > 0
  BY <1>1, <1>3
<1>5. Stream!TwiceArea(Stream!Outline(q)) = a * b - (q[3].x - q[2].x) * d
  BY DEF Stream!TwiceArea, Stream!Outline
<1>6. q[3].x - q[2].x = 0 - c
  BY <1>1
<1>7. Stream!TwiceArea(Stream!Outline(q)) = a * b - (0 - c) * d
  BY <1>5, <1>6
<1> HIDE DEF a, b, c, d
<1>8. a * b - (0 - c) * d = a * b + c * d
  BY <1>2
<1> QED  BY <1>2, <1>4, <1>7, <1>8, PositiveProduct

-----------------------------------------------------------------------------
(* The types of the stream.                                                *)
LEMMA WindowTypes ==
  ASSUME Stream!TypeOK, CalibrationWindow \/ StartCalibration \/ SaveCalibration
  PROVE  Stream!TypeOK'
<1> USE DEF Stream!TypeOK
<1>1. ASSUME NEW point \in Point, Stream!OnMouseClick(point) PROVE Stream!TypeOK'
  BY <1>1 DEF Stream!OnMouseClick
<1>2. CASE Stream!EndCalibration
  <2>1. clicked' = <<>> /\ roi' = Stream!NoRoi /\ preview' = Stream!NoPreview
        /\ stage' = "idle" /\ UNCHANGED <<kind, calibration, hasFrame, emptyFrameCount>>
    BY <1>2 DEF Stream!EndCalibration, Stream!CloseWindow
  <2>2. roi' \in Stream!Rois /\ preview' \in [shown : BOOLEAN, warp : BOOLEAN]
        /\ clicked' \in Seq(Point) /\ Len(clicked') <= 4
    BY <2>1 DEF Stream!NoRoi, Stream!NoPreview, Stream!Rois
  <2> QED  BY <2>1, <2>2 DEF Stream!Stage
<1>3. CASE Stream!ResetCalibrationPoints
  <2>1. clicked' = <<>> /\ UNCHANGED <<stage, kind, calibration, preview, hasFrame, emptyFrameCount>>
    BY <1>3 DEF Stream!ResetCalibrationPoints
  <2>2. roi' \in Stream!Rois
    BY <1>3 DEF Stream!ResetCalibrationPoints, Stream!Rois
  <2>3. clicked' \in Seq(Point) /\ Len(clicked') <= 4
    BY <2>1
  <2> QED  BY <2>1, <2>2, <2>3
<1>4. CASE Stream!TogglePreview
  <2>1. roi' \in Stream!Rois
    BY <1>4 DEF Stream!TogglePreview, Stream!Rois
  <2>2. preview' \in [shown : BOOLEAN, warp : BOOLEAN]
    BY <1>4 DEF Stream!TogglePreview
  <2>3. UNCHANGED <<stage, kind, calibration, clicked, hasFrame, emptyFrameCount>>
    BY <1>4 DEF Stream!TogglePreview
  <2> QED  BY <2>1, <2>2, <2>3
<1>5. CASE StartCalibration
  BY <1>5 DEF StartCalibration, Stream!StartCalibration, Stream!Stage
<1>6. CASE SaveCalibration
  <2>1. clicked' = <<>> /\ roi' = Stream!NoRoi /\ preview' = Stream!NoPreview
        /\ stage' = "idle" /\ UNCHANGED <<kind, hasFrame, emptyFrameCount>>
        /\ calibration' = [by |-> "calibrator", points |-> 4, dimensions |-> 1, model |-> TRUE]
    BY <1>6 DEF SaveCalibration, Stream!SaveCalibrationData, Stream!Saving, Stream!CloseWindow
  <2>2. roi' \in Stream!Rois /\ preview' \in [shown : BOOLEAN, warp : BOOLEAN]
        /\ clicked' \in Seq(Point) /\ Len(clicked') <= 4
    BY <2>1 DEF Stream!NoRoi, Stream!NoPreview, Stream!Rois
  <2>3. calibration' \in Stream!Calibrations
    BY <2>1 DEF Stream!Calibrations
  <2> QED  BY <2>1, <2>2, <2>3 DEF Stream!Stage
<1> QED  BY <1>1, <1>2, <1>3, <1>4, <1>5, <1>6 DEF CalibrationWindow

LEMMA PerspectiveTypes ==
  ASSUME Stream!TypeOK, NEW perspective \in {"warp", "trim"}, NEW next \in Stream!Stage,
         Stream!InitializePerspectiveTransform(perspective, next)
  PROVE  Stream!TypeOK'
<1> DEFINE sized == perspective = "warp" \/ hasFrame
           made == [by |-> perspective, of |-> "file", sized |-> sized]
<1>1. made \in Stream!Rois
  <2>1. sized \in BOOLEAN
    BY DEF Stream!TypeOK
  <2> HIDE DEF sized
  <2> QED  BY <2>1 DEF Stream!Rois
<1>2. CASE Stream!Dies
  BY <1>2 DEF Stream!Dies, Stream!TypeOK, Stream!Stage
<1>3. CASE ~ Stream!Dies
  <2>1. roi' \in {roi, made} /\ stage' = next
        /\ UNCHANGED <<kind, calibration, clicked, preview, hasFrame, emptyFrameCount>>
    BY <1>3 DEF Stream!InitializePerspectiveTransform
  <2> HIDE DEF made
  <2> QED  BY <1>1, <2>1 DEF Stream!TypeOK
<1> QED  BY <1>2, <1>3

LEMMA InitializeTypes ==
  ASSUME Stream!TypeOK,
         \/ \E k \in {"vehicle", "pedestrian"} : StartWatcher(k)
         \/ OpenAndReadCalibration \/ LoadPipeline \/ FinishInitialize
         \/ \E arrives \in Frames :
              FirstFrame(arrives) \/ TakeFrame(arrives) \/ CountPedestrians(arrives)
  PROVE  Stream!TypeOK'
<1> USE DEF Stream!TypeOK, Stream!Stage, Stream!Dies
<1>1. ASSUME NEW k \in {"vehicle", "pedestrian"}, StartWatcher(k) PROVE Stream!TypeOK'
  BY <1>1 DEF StartWatcher, Stream!StartWatcher
<1>2. ASSUME NEW content \in {calibration} \cup HandWrittenCalibration,
             Stream!ReadCalibrationData(content)
      PROVE  Stream!TypeOK'
  <2>1. calibration' \in Stream!Calibrations
    BY <1>2 DEF Stream!ReadCalibrationData, Stream!Calibrations
  <2> QED  BY <1>2, <2>1 DEF Stream!ReadCalibrationData
<1>3. CASE Stream!OpenVideoStream \/ Stream!InitializeModel
  BY <1>3 DEF Stream!OpenVideoStream, Stream!InitializeModel
<1>4. CASE Stream!InitializeWarp
  BY <1>4, PerspectiveTypes DEF Stream!InitializeWarp
<1>5. CASE Stream!InitializeTrim
  BY <1>5, PerspectiveTypes DEF Stream!InitializeTrim
<1>6. CASE LoadPipeline
  BY <1>6 DEF LoadPipeline
<1>7. ASSUME NEW arrives \in Frames, NEW next \in Stream!Stage,
             Stream!ApplyFrameRoi(arrives, next)
      PROVE  Stream!TypeOK'
  <2>1. arrives \in BOOLEAN
    BY LaneAssumption DEF Frames
  <2> QED  BY <1>7, <2>1, CalibrationAssumption
           DEF Stream!ApplyFrameRoi, Stream!ApplyWithoutMatrix
<1>8. ASSUME NEW arrives \in Frames,
             FirstFrame(arrives) \/ TakeFrame(arrives) \/ CountPedestrians(arrives)
               \/ Stream!SecondFrame(arrives)
      PROVE  Stream!TypeOK'
  <2>1. CASE Stream!Dies
    BY <2>1
  <2>2. CASE \E next \in Stream!Stage : Stream!ApplyFrameRoi(arrives, next)
    BY <1>7, <2>2
  <2> QED  BY <1>8, <2>1, <2>2
           DEF FirstFrame, TakeFrame, CountPedestrians, Stream!FirstFrame, Stream!SecondFrame
<1> QED  BY <1>1, <1>2, <1>3, <1>4, <1>5, <1>6, <1>8 DEF OpenAndReadCalibration, FinishInitialize

(* Every variable of the stream keeps its type: no more than four clicks   *)
(* are kept and no more frames in a row are lost than are borne.           *)
THEOREM StreamTypes == WatcherSpec => []StreamTypeOK
<1>1. ASSUME WatcherInit PROVE StreamTypeOK
  <2>1. clicked = <<>>
    BY <1>1 DEF WatcherInit, Stream!Init
  <2>2. clicked \in Seq(Point) /\ Len(clicked) <= 4
    BY <2>1
  <2>3. roi \in Stream!Rois /\ calibration \in Stream!Calibrations
    BY <1>1 DEF WatcherInit, Stream!Init, Stream!NoRoi, Stream!Rois, Stream!Calibrations
  <2>4. preview \in [shown : BOOLEAN, warp : BOOLEAN]
    BY <1>1 DEF WatcherInit, Stream!Init, Stream!NoPreview
  <2>5. stage \in Stream!Stage /\ kind \in {"vehicle", "pedestrian"} /\ hasFrame \in BOOLEAN
        /\ emptyFrameCount \in 0 .. MaxEmptyFrames
    <3>1. stage = "idle" /\ kind = "vehicle" /\ hasFrame = FALSE /\ emptyFrameCount = 0
      BY <1>1 DEF WatcherInit, Stream!Init
    <3>2. MaxEmptyFrames \in Nat
      BY CalibrationAssumption
    <3>3. 0 \in 0 .. MaxEmptyFrames
      BY <3>2
    <3>4. stage \in Stream!Stage
      BY <3>1 DEF Stream!Stage
    <3> QED  BY <3>1, <3>3, <3>4
  <2> QED  BY <2>2, <2>3, <2>4, <2>5 DEF StreamTypeOK, Stream!TypeOK
<1>2. ASSUME StreamTypeOK, [WatcherNext]_processVars PROVE StreamTypeOK'
  <2>1. ASSUME UNCHANGED streamVars PROVE StreamTypeOK'
    BY <1>2, <2>1 DEF streamVars, StreamTypeOK, Stream!TypeOK
  <2>2. TunePipeline \/ AnswerWithoutFrame \/ UNCHANGED processVars => UNCHANGED streamVars
    BY DEF TunePipeline, AnswerWithoutFrame, processVars
  <2> QED  BY <1>2, <2>1, <2>2, WindowTypes, InitializeTypes DEF StreamTypeOK, WatcherNext
<1> QED  BY <1>1, <1>2, PTL DEF WatcherSpec

(* Four corners are outlined clockwise in whatever order they were clicked,*)
(* if they can be told apart.                                              *)
THEOREM OutlinesClockwise == WatcherSpec => []OutlinedClockwise
<1>1. ASSUME clicked \in Seq(Point), Len(clicked) = 4,
             NEW p \in Stream!Arrangements(clicked), Stream!ToldApart(p),
             NEW q \in Stream!SortQuadPoints(clicked)
      PROVE  Stream!TwiceArea(Stream!Outline(q)) > 0
  <2>1. PICK f \in Stream!Orders : p = [k \in 1 .. 4 |-> clicked[f[k]]]
    BY DEF Stream!Arrangements
  <2>2. \A k \in 1 .. 4 : clicked[f[k]] \in [x : Int, y : Int]
    <3>1. \A k \in 1 .. 4 : f[k] \in 1 .. 4
      BY DEF Stream!Orders
    <3>2. \A k \in 1 .. 4 : clicked[k] \in Point
      BY <1>1
    <3> QED  BY <3>1, <3>2, CalibrationAssumption
  <2>3. p \in [1 .. 4 -> [x : Int, y : Int]]
    BY <2>1, <2>2
  <2>4. /\ q \in Stream!Arrangements(clicked)
        /\ \A top \in 1 .. 2, bottom \in 3 .. 4 : q[top].y <= q[bottom].y
        /\ q[1].x <= q[2].x /\ q[3].x <= q[4].x
    BY DEF Stream!SortQuadPoints, Stream!SortByRowOnly
  <2>5. PICK h \in Stream!Orders : \A k \in 1 .. 4 : q[k] = p[h[k]]
    BY <2>4, Rearranged
  <2>6. h[1] = 1 /\ h[2] = 2 /\ h[3] = 3 /\ h[4] = 4
    <3>1. \A top \in 1 .. 2, bottom \in 3 .. 4 : p[h[top]].y <= p[h[bottom]].y
      BY <2>4, <2>5
    <3>2. p[h[1]].x <= p[h[2]].x /\ p[h[3]].x <= p[h[4]].x
      BY <2>4, <2>5
    <3> QED  BY <1>1, <2>3, <3>1, <3>2, SortedApart
  <2>7. q = p
    <3>1. \A k \in 1 .. 4 : q[k] = p[k]
      BY <2>5, <2>6
    <3>2. DOMAIN q = 1 .. 4 /\ q = [k \in 1 .. 4 |-> q[k]]
      BY <2>4 DEF Stream!Arrangements
    <3> QED  BY <2>3, <3>1, <3>2
  <2> QED  BY <1>1, <2>3, <2>7, ClockwiseArea
<1>2. StreamTypeOK => OutlinedClockwise
  BY <1>1 DEF StreamTypeOK, Stream!TypeOK, OutlinedClockwise, Stream!OutlinedClockwise
<1> QED  BY <1>2, StreamTypes, PTL
=============================================================================
