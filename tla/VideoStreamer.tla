---------------------------- MODULE VideoStreamer -----------------------------
(***************************************************************************)
(* A camera's stream: the window the operator calibrates it in             *)
(* (CalibrateGui with CalibrateVideoStreamer), the calibration that leaves *)
(* in a file, and the watcher of a child process, which is initialised     *)
(* from that file (initialize() of the watchers, VideoStreamer) and then   *)
(* takes frames that may not arrive.                                       *)
(***************************************************************************)
EXTENDS Integers, Sequences

CONSTANTS
  Point,                   (* where the operator may click, [x, y]         *)
  HandWrittenCalibration,  (* what someone may write into the file         *)
  MaxEmptyFrames           (* MAX_EMPTY_FRAMES: so many in a row are borne *)

VARIABLES
  stage,       (* of the process on the stream, see Stage                  *)
  kind,        (* of the watcher                                           *)
  calibration, (* the calibration keys of the file                         *)
  clicked,     (* mouseCalibrationPoints                                   *)
  preview,     (* previewToggle and perspectiveToggle of the window        *)
  roi,         (* roiMatrix: the perspective it was initialised for, from  *)
               (* which points, with a frame that had a size               *)
  hasFrame,    (* inputFrame is not empty                                  *)
  emptyFrameCount

vars == <<stage, kind, calibration, clicked, preview, roi, hasFrame, emptyFrameCount>>

(* No process, the calibration window, or what a watcher does next up to   *)
(* its loop. An exit and an exception both leave the process "dead".       *)
Stage == {"idle", "calibrating", "open", "read", "perspective", "pipeline",
          "first", "trim", "second", "model", "ready", "dead"}

NoCalibration == [by |-> "nobody", points |-> 0, dimensions |-> 0, model |-> FALSE]
NoPreview == [shown |-> FALSE, warp |-> FALSE]
NoRoi == [by |-> "none", of |-> "none", sized |-> FALSE]

Init ==
  /\ stage = "idle"
  /\ kind = "vehicle"
  /\ calibration = NoCalibration
  /\ clicked = <<>>
  /\ preview = NoPreview
  /\ roi = NoRoi
  /\ hasFrame = FALSE
  /\ emptyFrameCount = 0

(* sortQuadPoints: by y, then the upper and the lower two by x. Points     *)
(* with equal coordinates may come out in any order.                       *)
Orders == {f \in [1 .. 4 -> 1 .. 4] : \A j, k \in 1 .. 4 : f[j] = f[k] => j = k}
Arrangements(points) == {[k \in 1 .. 4 |-> points[order[k]]] : order \in Orders}

SortByRowOnly(points) ==
  {q \in Arrangements(points) : \A top \in 1 .. 2, bottom \in 3 .. 4 : q[top].y <= q[bottom].y}
SortQuadPoints(points) ==
  {q \in SortByRowOnly(points) : q[1].x <= q[2].x /\ q[3].x <= q[4].x}

(* The order TrimPerspective fills the region in.                          *)
Outline(q) == <<q[1], q[2], q[4], q[3]>>

-----------------------------------------------------------------------------
(* The calibration window. Its loop ends when a frame does not arrive, on  *)
(* Esc, and after saving; the streamer goes with it.                       *)
CloseWindow == clicked' = <<>> /\ preview' = NoPreview /\ roi' = NoRoi

StartCalibration ==
  /\ stage = "idle"
  /\ stage' = "calibrating"
  /\ UNCHANGED <<kind, calibration, clicked, preview, roi, hasFrame, emptyFrameCount>>

EndCalibration ==
  /\ stage = "calibrating"
  /\ stage' = "idle"
  /\ CloseWindow
  /\ UNCHANGED <<kind, calibration, hasFrame, emptyFrameCount>>

OnAnyMouseClick(point) ==
  /\ stage = "calibrating"
  /\ clicked' = Append(clicked, point)
  /\ UNCHANGED <<stage, kind, calibration, preview, roi, hasFrame, emptyFrameCount>>
OnMouseClick(point) ==
  /\ stage = "calibrating"
  /\ Len(clicked) < 4
  /\ clicked' = Append(clicked, point)
  /\ UNCHANGED <<stage, kind, calibration, preview, roi, hasFrame, emptyFrameCount>>

ResetCalibrationPoints ==
  /\ stage = "calibrating"
  /\ clicked' = <<>>
  /\ roi' = IF roi.of = "clicked" THEN [roi EXCEPT !.of = "earlier"] ELSE roi
  /\ UNCHANGED <<stage, kind, calibration, preview, hasFrame, emptyFrameCount>>

(* The 'p' key: showing alternates between the perspectives, and hands the *)
(* points over each time.                                                  *)
TogglePreviewOnce ==
  /\ stage = "calibrating"
  /\ Len(clicked) = 4
  /\ preview' = [shown |-> ~ preview.shown,
                 warp  |-> IF preview.shown THEN preview.warp ELSE ~ preview.warp]
  /\ roi' = IF preview'.shown /\ roi = NoRoi
            THEN [by |-> IF preview'.warp THEN "warp" ELSE "trim", of |-> "clicked", sized |-> TRUE]
            ELSE roi
  /\ UNCHANGED <<stage, kind, calibration, clicked, hasFrame, emptyFrameCount>>
TogglePreview ==
  /\ stage = "calibrating"
  /\ Len(clicked) = 4
  /\ preview' = [shown |-> ~ preview.shown,
                 warp  |-> IF preview.shown THEN preview.warp ELSE ~ preview.warp]
  /\ roi' = IF preview'.shown
            THEN [by |-> IF preview'.warp THEN "warp" ELSE "trim", of |-> "clicked", sized |-> TRUE]
            ELSE roi
  /\ UNCHANGED <<stage, kind, calibration, clicked, hasFrame, emptyFrameCount>>

(* The 's' key: the file is truncated and written with these keys only.    *)
Saving ==
  /\ stage = "calibrating"
  /\ calibration' = [by |-> "calibrator", points |-> Len(clicked), dimensions |-> 1, model |-> TRUE]
  /\ stage' = "idle"
  /\ CloseWindow
  /\ UNCHANGED <<kind, hasFrame, emptyFrameCount>>

SaveAnyPoints == Saving
SaveCalibrationData == Len(clicked) = 4 /\ Saving

-----------------------------------------------------------------------------
(* initialize() of a watcher.                                              *)
Dies ==
  /\ stage' = "dead"
  /\ UNCHANGED <<kind, calibration, clicked, preview, roi, hasFrame, emptyFrameCount>>

StartWatcher(k) ==
  /\ stage = "idle"
  /\ stage' = "open"
  /\ kind' = k
  /\ UNCHANGED <<calibration, clicked, preview, roi, hasFrame, emptyFrameCount>>

OpenVideoStream ==
  /\ stage = "open"
  /\ \/ Dies
     \/ /\ stage' = "read"
        /\ UNCHANGED <<kind, calibration, clicked, preview, roi, hasFrame, emptyFrameCount>>

(* readCalibrationData needs one lane dimension and a model's name, but    *)
(* takes any number of points. Without it initialize() returns, and the    *)
(* child enters its loop all the same.                                     *)
Readable(content) == content.by # "nobody" /\ content.dimensions = 1 /\ content.model

ReadCalibrationData(content) ==
  /\ stage = "read"
  /\ calibration' = content
  /\ stage' = IF Readable(content) THEN "perspective" ELSE "ready"
  /\ UNCHANGED <<kind, clicked, preview, roi, hasFrame, emptyFrameCount>>

(* initializePerspectiveTransform(inputFrame, ...): nothing is done with   *)
(* less than four points; with more sortQuadPoints returns none, and the   *)
(* access to them ends the process.                                        *)
InitializePerspectiveTransform(perspective, next) ==
  IF calibration.points > 4 THEN Dies
  ELSE
    /\ roi' = IF calibration.points < 4 THEN roi
              ELSE [by |-> perspective, of |-> "file", sized |-> perspective = "warp" \/ hasFrame]
    /\ stage' = next
    /\ UNCHANGED <<kind, calibration, clicked, preview, hasFrame, emptyFrameCount>>

(* The pipeline of a vehicle watcher is loaded next (PreprocessPipeline).  *)
InitializeWithoutWarp ==
  /\ stage = "perspective"
  /\ IF kind = "vehicle"
     THEN InitializePerspectiveTransform("warp", "pipeline")
     ELSE InitializePerspectiveTransform("trim", "second")
InitializeWarp ==
  /\ stage = "perspective"
  /\ InitializePerspectiveTransform("warp", IF kind = "vehicle" THEN "pipeline" ELSE "first")

(* getNextFrame and applyFrameRoi: an exit without a matrix or with too    *)
(* many frames lost in a row. A frame masked with a mask of another size   *)
(* is an exception.                                                        *)
ApplyWithoutMatrix(arrives, next) ==
  IF (~ arrives /\ emptyFrameCount = MaxEmptyFrames) \/ (arrives /\ roi.by = "trim" /\ ~ roi.sized)
  THEN Dies
  ELSE
    /\ hasFrame' = arrives
    /\ emptyFrameCount' = IF arrives THEN 0 ELSE emptyFrameCount + 1
    /\ stage' = next
    /\ UNCHANGED <<kind, calibration, clicked, preview, roi>>
ApplyPatiently(arrives, next) ==
  IF roi.by = "none" \/ (arrives /\ roi.by = "trim" /\ ~ roi.sized) THEN Dies
  ELSE
    /\ hasFrame' = arrives
    /\ emptyFrameCount' = IF arrives THEN 0 ELSE (emptyFrameCount % MaxEmptyFrames) + 1
    /\ stage' = next
    /\ UNCHANGED <<kind, calibration, clicked, preview, roi>>
ApplyFrameRoi(arrives, next) ==
  IF roi.by = "none" THEN Dies ELSE ApplyWithoutMatrix(arrives, next)

FirstFrame(arrives) ==
  /\ stage = "first"
  /\ ApplyFrameRoi(arrives, IF kind = "vehicle" THEN "model" ELSE "trim")

InitializeTrim ==
  /\ stage = "trim"
  /\ InitializePerspectiveTransform("trim", "second")

SecondFrame(arrives) ==
  /\ stage = "second"
  /\ ApplyFrameRoi(arrives, "model")

(* The segmentation model's constructor throws when it cannot be loaded.   *)
InitializeModel ==
  /\ stage = "model"
  /\ \/ Dies
     \/ /\ stage' = "ready"
        /\ UNCHANGED <<kind, calibration, clicked, preview, roi, hasFrame, emptyFrameCount>>

-----------------------------------------------------------------------------
(* What a file and a matrix can be.                                        *)
Calibrations ==
  {NoCalibration} \cup HandWrittenCalibration \cup
    [by : {"calibrator"}, points : 0 .. 4, dimensions : {1}, model : {TRUE}]
Rois ==
  [by : {"none", "warp", "trim"}, of : {"none", "clicked", "earlier", "file"}, sized : BOOLEAN]

(* The type of every variable.                                             *)
TypeOK ==
  /\ stage \in Stage
  /\ kind \in {"vehicle", "pedestrian"}
  /\ calibration \in Calibrations
  /\ clicked \in Seq(Point) /\ Len(clicked) <= 4
  /\ preview \in [shown : BOOLEAN, warp : BOOLEAN]
  /\ roi \in Rois
  /\ hasFrame \in BOOLEAN
  /\ emptyFrameCount \in 0 .. MaxEmptyFrames

(* The preview applies the perspective its matrix was initialised for:     *)
(* "Important: this should be the same strategy with initialize"           *)
(* (VideoStreamer.cpp:266), however often the operator switches.           *)
PreviewOfItsStrategy ==
  preview.shown => roi.by = IF preview.warp THEN "warp" ELSE "trim"

(* A file the calibration window has written serves the watcher started    *)
(* from it: past reading it, it has its matrix and need not exit at its    *)
(* first frame, whatever was clicked and reset before.                     *)
SavedCalibrationServes ==
  /\ stage \in {"pipeline", "first", "trim", "second", "model", "ready"}
  /\ calibration.by = "calibrator"
  => roi.by # "none"

(* Taking one warped frame first gives the trimming mask the size of the   *)
(* frames, unless that frame was lost ("process one frame of warp to       *)
(* initialize correctly", PedestrianHeadless.cpp:15).                      *)
MaskFitsFrames ==
  stage = "second" /\ roi.by = "trim" /\ emptyFrameCount = 0 => roi.sized

(* Four points that can be told apart as the corners of the region, two    *)
(* above and two to the left of the others, are sorted so that the region  *)
(* is outlined clockwise ("because we want to order clockwise",            *)
(* TrimPerspective.cpp:23), in whatever order they were clicked.           *)
ToldApart(q) ==
  /\ \A upper \in 1 .. 2, lower \in 3 .. 4 : q[upper].y < q[lower].y
  /\ \A left \in {1, 3}, right \in {2, 4} : q[left].x < q[right].x

(* Twice the signed area of a quadrilateral: positive if it is clockwise   *)
(* with y downwards.                                                       *)
TwiceArea(q) ==
  (q[3].x - q[1].x) * (q[4].y - q[2].y) - (q[4].x - q[2].x) * (q[3].y - q[1].y)

OutlinedClockwise ==
  Len(clicked) = 4 /\ (\E q \in Arrangements(clicked) : ToldApart(q)) =>
    \A q \in SortQuadPoints(clicked) : TwiceArea(Outline(q)) > 0
=============================================================================
