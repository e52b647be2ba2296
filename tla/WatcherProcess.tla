---------------------------- MODULE WatcherProcess ----------------------------
(***************************************************************************)
(* One camera from its calibration to its measurements: the operator       *)
(* calibrates the stream and tunes the preprocessing pipeline, which both  *)
(* leave their part in the same file; a child process initialises its      *)
(* watcher from that file and then measures what VehicleLane says, on the  *)
(* frames the stream delivers.                                             *)
(***************************************************************************)
EXTENDS VehicleLane, Sequences

CONSTANTS
  Point, HandWrittenCalibration, MaxEmptyFrames,
  StepType, KernelSize, Level, DefaultKernelSize, DefaultLevel, HandWritten,
  Malformed, MaxSteps,
  Followed        (* bound: the types of the steps of a pipeline that is   *)
                  (* followed beside a calibration, or into a lane         *)

VARIABLES
  stage, kind, calibration, clicked, preview, roi, hasFrame, emptyFrameCount,
  state, steps, file, saved, entry

streamVars   == <<stage, kind, calibration, clicked, preview, roi, hasFrame, emptyFrameCount>>
pipelineVars == <<state, steps, file, saved, entry>>
processVars  == <<vars, streamVars, pipelineVars>>

Stream   == INSTANCE VideoStreamer
Pipeline == INSTANCE PreprocessPipeline

ASSUME CalibrationAssumption ==
  /\ Point \subseteq [x : Int, y : Int]
  /\ HandWrittenCalibration \subseteq
       [by : {"hand"}, points : Nat, dimensions : Nat, model : BOOLEAN]
  /\ MaxEmptyFrames \in Nat

ASSUME PipelineAssumption ==
  /\ StepType \subseteq Pipeline!KnownStepType
  /\ KernelSize \cup Level \cup {DefaultKernelSize, DefaultLevel} \subseteq Int
  /\ Malformed \notin Int
  /\ \A content \in HandWritten :
       /\ content.entries \in Seq({content.entries[i] : i \in DOMAIN content.entries})
       /\ \A i \in DOMAIN content.entries : \A id \in DOMAIN content.entries[i].params :
            content.entries[i].params[id] \in Int \cup {Malformed}

WatcherInit ==
  /\ Init /\ ~ watcher.bounded
  /\ Stream!Init
  /\ Pipeline!Init

FollowedPipeline ==
  /\ \A i \in DOMAIN steps : steps[i].type \in Followed
  /\ \A i \in DOMAIN file.entries : file.entries[i].type \in Followed

-----------------------------------------------------------------------------
(* Before the program: the operator's tools.                               *)
TunePipeline ==
  /\ stage = "idle"
  /\ Pipeline!Next
  /\ calibration # Stream!NoCalibration => FollowedPipeline'
  /\ UNCHANGED <<vars, streamVars>>

(* A new process has no steps yet.                                         *)
NewPipeline == state' = "unborn" /\ steps' = <<>> /\ entry' = 0

CalibrationWindow ==
  /\ \/ Stream!EndCalibration
     \/ \E point \in Point : Stream!OnMouseClick(point)
     \/ Stream!ResetCalibrationPoints
     \/ Stream!TogglePreview
  /\ UNCHANGED <<vars, pipelineVars>>

StartCalibration ==
  /\ FollowedPipeline
  /\ Stream!StartCalibration
  /\ NewPipeline
  /\ UNCHANGED <<vars, file, saved>>

(* The file is truncated: a pipeline_config section it had is gone.        *)
SaveCalibration ==
  /\ Stream!SaveCalibrationData
  /\ file' = Pipeline!NoSection
  /\ saved' = FALSE
  /\ UNCHANGED <<vars, state, steps, entry>>

-----------------------------------------------------------------------------
(* initialize() of the watcher.                                            *)
StartWatcher(k) ==
  /\ FollowedPipeline
  /\ Stream!StartWatcher(k)
  /\ NewPipeline
  /\ UNCHANGED <<vars, file, saved>>

OpenAndReadCalibration ==
  /\ \/ Stream!OpenVideoStream
     \/ \E content \in {calibration} \cup HandWrittenCalibration :
          Stream!ReadCalibrationData(content)
     \/ Stream!InitializeWarp
  /\ UNCHANGED <<vars, pipelineVars>>

LoadPipeline ==
  /\ stage = "pipeline"
  /\ \/ \E content \in {file} \cup HandWritten : Pipeline!Initialize(content)
     \/ Pipeline!LoadEntry
     \/ Pipeline!SkipEntry
     \/ Pipeline!UnknownType
     \/ Pipeline!MalformedParameter
     \/ Pipeline!EndLoad
  /\ stage' = CASE state' = "idle" -> "first"
                [] state' = "dead" -> "dead"
                [] OTHER           -> stage
  /\ UNCHANGED <<vars, kind, calibration, clicked, preview, roi, hasFrame, emptyFrameCount>>

(* The detection boundaries come from the height of the first frame.       *)
FirstFrame(arrives) ==
  /\ FollowedPipeline
  /\ Stream!FirstFrame(arrives)
  /\ watcher' = [watcher EXCEPT !.bounded = kind = "vehicle" /\ arrives /\ stage' # "dead"]
  /\ UNCHANGED <<isStateGreen, phaseIndex, reply, pipelineVars>>

FinishInitialize ==
  /\ \/ Stream!InitializeTrim
     \/ \E arrives \in Frames : Stream!SecondFrame(arrives)
     \/ Stream!InitializeModel
  /\ UNCHANGED <<vars, pipelineVars>>

-----------------------------------------------------------------------------
(* The loop of the child. Contours are only found in a frame of a single   *)
(* channel, which two types of step make; any other is an exception.       *)
SingleChannel ==
  \E i \in DOMAIN steps : steps[i].type \in {"Grayscale", "MOG2BackgroundSubtraction"}

HullsRejectFrame == watcher.state = "GREEN_PHASE" /\ watcher.bounded /\ ~ SingleChannel

TakeFrame(arrives) ==
  /\ stage = "ready" /\ kind = "vehicle"
  /\ isStateGreen \/ Phases[phaseIndex][Lane] = "GREEN_PHASE"
  /\ IF arrives /\ HullsRejectFrame THEN Stream!Dies ELSE Stream!ApplyFrameRoi(arrives, "ready")
  /\ IF stage' = "dead" THEN UNCHANGED vars ELSE TrackFrame(arrives) \/ AnswerGreen(arrives)
  /\ UNCHANGED pipelineVars

AnswerWithoutFrame ==
  /\ stage = "ready" /\ kind = "vehicle"
  /\ AnswerRed
  /\ UNCHANGED <<streamVars, pipelineVars>>

(* A pedestrian watcher takes a frame for each RED_PED.                    *)
CountPedestrians(arrives) ==
  /\ stage = "ready" /\ kind = "pedestrian"
  /\ Stream!ApplyFrameRoi(arrives, "ready")
  /\ UNCHANGED <<vars, pipelineVars>>

WatcherNext ==
  \/ TunePipeline
  \/ StartCalibration
  \/ CalibrationWindow
  \/ SaveCalibration
  \/ \E k \in {"vehicle", "pedestrian"} : StartWatcher(k)
  \/ OpenAndReadCalibration
  \/ LoadPipeline
  \/ \E arrives \in Frames : FirstFrame(arrives)
  \/ FinishInitialize
  \/ \E arrives \in Frames : TakeFrame(arrives)
  \/ AnswerWithoutFrame
  \/ \E arrives \in Frames : CountPedestrians(arrives)

WatcherSpec == WatcherInit /\ [][WatcherNext]_processVars

(* The loop of a lane that is green reads one frame after the other.       *)
FairWatcherSpec ==
  /\ WatcherSpec
  /\ WF_processVars(\E arrives \in Frames : TakeFrame(arrives))

-----------------------------------------------------------------------------
(* The type of every variable of the stream, and of the pipeline, in this  *)
(* composition.                                                            *)
StreamTypeOK == Stream!TypeOK
PipelineTypeOK == Pipeline!TypeOK

(* See PreprocessPipeline: OpenCV accepts every kernel a step applies.     *)
KernelsUsable == Pipeline!KernelsUsable

(* See PreprocessPipeline: a step reports what it applies to a frame.      *)
ReportsWhatIsApplied == Pipeline!ReportsWhatIsApplied

(* See PreprocessPipeline: a saved pipeline is loaded as it was reported.  *)
SavedFileReloads == Pipeline!SavedFileReloads

(* See VideoStreamer: a preview applies the perspective that is set up.    *)
PreviewOfItsStrategy == Stream!PreviewOfItsStrategy

(* See VideoStreamer: a watcher started from a file the calibration window *)
(* wrote gets its matrix.                                                  *)
SavedCalibrationServes == Stream!SavedCalibrationServes

(* See VideoStreamer: the trimming mask has the size of the frames.        *)
MaskFitsFrames == Stream!MaskFitsFrames

(* See VideoStreamer: the region clicked is outlined clockwise.            *)
OutlinedClockwise == Stream!OutlinedClockwise

(* Whatever of initialize() failed or returned early, a lane that has      *)
(* measured anything has a matrix from a readable file of four points and  *)
(* a pipeline loaded to its end, and hulls come from one it can find hulls *)
(* behind, with boundaries.                                                *)
MeasuresOnlyWhenReady ==
  watcher.tracked \cup watcher.mask # {} =>
    /\ Stream!Readable(calibration) /\ calibration.points = 4 /\ roi.by = "warp"
    /\ state = "idle"
    /\ watcher.tracked # {} => SingleChannel /\ watcher.bounded

(* The pipeline a lane goes on with is the one its file describes, step by *)
(* step, or empty if it describes none: whatever entry is skipped or       *)
(* throws, no lane measures through a part of its pipeline                 *)
(* (PipelineDirector.cpp:95 clears the old steps before the loop).         *)
WholePipelineLoaded ==
  kind = "vehicle" /\ (stage \in {"first", "model"} \/ (stage = "ready" /\ roi.by # "none")) =>
    IF file.section THEN Pipeline!LoadedUpTo(Len(file.entries)) ELSE steps = <<>>

(* A stream that stays silent does not leave a green lane counting nothing:*)
(* the child exits, if no frame arrives and the phase does not end before. *)
SilentStreamEnds ==
  emptyFrameCount > 0 ~> (emptyFrameCount = 0 \/ stage = "dead" \/ ~ isStateGreen)
=============================================================================
