-------------------------- MODULE VehicleLane_proofs --------------------------
(* A lane reports a green phase from that phase, for every column of every *)
(* table and whatever frames the stream loses.                             *)
EXTENDS VehicleLane, Junction_proofs

LEMMA OlderType == \A ages \in SUBSET Age : Older(ages) \in SUBSET Age
<1>1. \A age \in Age : (IF age < MaxAge THEN age + 1 ELSE age) \in Age
  BY LaneAssumption DEF Age
<1>2. ASSUME NEW ages \in SUBSET Age
      PROVE  Older(ages) \in SUBSET Age
  <2>1. \A age \in ages : (IF age < MaxAge THEN age + 1 ELSE age) \in Age
    BY <1>1, <1>2
  <2> QED  BY <2>1 DEF Older
<1> QED  BY <1>2

LEMMA ZeroAge == {0} \subseteq Age
BY LaneAssumption DEF Age

(* One frame keeps the type of the watcher, and a density read from it is  *)
(* one a reply can carry.                                                  *)
LEMMA FrameType ==
  ASSUME NEW w \in Watcher, NEW arrives \in BOOLEAN
  PROVE  ProcessFrame(w, arrives) \in Watcher
BY ZeroAge DEF ProcessFrame, Watcher

LEMMA AfterType ==
  ASSUME NEW w \in Watcher, NEW type \in VehicleTypes
  PROVE  [Aged(AfterDensity(w)) EXCEPT !.state = type] \in Watcher
BY OlderType DEF Aged, AfterDensity, AfterDensityKeepsSample, Watcher

LEMMA ReplyType ==
  ASSUME NEW counted \in Watcher, NEW measured \in Watcher
  PROVE  /\ Density(measured) \in
              [by : {"tracker", "mask"}, from : SUBSET Age, since : SUBSET Age]
         /\ Counts(counted) \in SUBSET Age
BY DEF Density, Counts, Watcher

LEMMA InitType ==
  ASSUME Init
  PROVE  TypeOK
<1>1. watcher \in Watcher
  <2>1. PICK arrives \in Frames : watcher =
          [state |-> "GREEN_PHASE", isTracking |-> FALSE, bounded |-> arrives,
           sample |-> {}, tracked |-> {}, mask |-> {}]
    BY DEF Init
  <2>2. arrives \in BOOLEAN
    BY LaneAssumption DEF Frames
  <2> QED  BY <2>1, <2>2 DEF Watcher, VehicleTypes
<1>2. phaseIndex \in Phase
  BY JunctionAssumption DEF Init, Phase
<1> QED  BY <1>1, <1>2 DEF Init, TypeOK

LEMMA TypeStep ==
  ASSUME TypeOK, [Next]_vars
  PROVE  TypeOK'
<1>1. ASSUME NEW arrives \in Frames, TrackFrame(arrives)
      PROVE  TypeOK'
  <2>1. arrives \in BOOLEAN
    BY LaneAssumption DEF Frames
  <2> QED  BY <1>1, <2>1, FrameType DEF TypeOK, TrackFrame
<1>2. ASSUME NEW type \in VehicleTypes, NEW arrives \in BOOLEAN,
             NEW counted \in Watcher, NEW measured \in Watcher,
             Answer(type, arrives, counted, measured)
      PROVE  TypeOK'
  <2>1. reply' \in [to : VehicleTypes, frame : BOOLEAN,
           density : [by : {"tracker", "mask"}, from : SUBSET Age, since : SUBSET Age],
           counts : SUBSET Age]
    BY <1>2, ReplyType DEF Answer
  <2> QED  BY <1>2, <2>1, AfterType, NextPhaseType DEF TypeOK, Answer
<1>3. CASE AnswerRed
  BY <1>2, <1>3 DEF AnswerRed, TypeOK, VehicleTypes
<1>4. ASSUME NEW arrives \in Frames, AnswerGreen(arrives)
      PROVE  TypeOK'
  <2>1. arrives \in BOOLEAN
    BY LaneAssumption DEF Frames
  <2>2. ProcessFrame(watcher, arrives) \in Watcher
    BY <2>1, FrameType DEF TypeOK
  <2> QED  BY <1>2, <1>4, <2>1, <2>2 DEF AnswerGreen, TypeOK, VehicleTypes
<1>5. CASE UNCHANGED vars
  BY <1>5 DEF vars, TypeOK
<1> QED  BY <1>1, <1>3, <1>4, <1>5 DEF Next

(* Every variable of a lane keeps its type.                                *)
THEOREM TypeCorrect == Spec => []TypeOK
BY InitType, TypeStep, PTL DEF Spec

(* Why a green report is of its phase: the tracker holds frames of this    *)
(* phase only and none while the lane is red, and once it holds one the    *)
(* sample of this phase has begun.                                         *)
FreshTracker(w) ==
  /\ w.tracked \subseteq {0}
  /\ w.state = "RED_PHASE" => w.tracked = {}
  /\ w.isTracking => w.sample = {0}
  /\ w.tracked # {} => w.isTracking

LEMMA FrameKeepsFresh ==
  ASSUME NEW w \in Watcher, NEW arrives \in BOOLEAN, FreshTracker(w)
  PROVE  FreshTracker(ProcessFrame(w, arrives))
BY DEF FreshTracker, ProcessFrame, Watcher, VehicleTypes

LEMMA AnswerKeepsFresh ==
  ASSUME NEW w \in Watcher, NEW type \in VehicleTypes, FreshTracker(w)
  PROVE  FreshTracker([Aged(AfterDensity(w)) EXCEPT !.state = type])
<1>1. AfterDensity(w).tracked = {}
  BY DEF FreshTracker, AfterDensity, AfterDensityKeepsSample, Watcher, VehicleTypes
<1>2. Older({}) = {}
  BY DEF Older
<1> QED  BY <1>1, <1>2 DEF FreshTracker, Aged, AfterDensity, AfterDensityKeepsSample, Watcher

(* The invariant behind a green report.                                    *)
GreenInv == FreshTracker(watcher) /\ GreenReportOfItsPhase

LEMMA GreenStep ==
  ASSUME TypeOK, GreenInv, [Next]_vars
  PROVE  GreenInv'
<1>1. ASSUME NEW arrives \in Frames, TrackFrame(arrives)
      PROVE  GreenInv'
  <2>1. arrives \in BOOLEAN
    BY LaneAssumption DEF Frames
  <2> QED  BY <1>1, <2>1, FrameKeepsFresh
           DEF GreenInv, TypeOK, TrackFrame, GreenReportOfItsPhase
<1>2. ASSUME NEW type \in VehicleTypes, NEW arrives \in BOOLEAN,
             NEW measured \in Watcher, FreshTracker(measured),
             measured.state = watcher.state,
             Answer(type, arrives, watcher, measured)
      PROVE  GreenInv'
  <2>1. FreshTracker(watcher')
    BY <1>2, AnswerKeepsFresh DEF Answer
  <2>2. GreenReportOfItsPhase'
    BY <1>2
       DEF GreenInv, Answer, GreenReportOfItsPhase, Density, Counts, FreshTracker, NoReply
  <2> QED  BY <2>1, <2>2 DEF GreenInv
<1>3. CASE AnswerRed
  BY <1>2, <1>3 DEF GreenInv, AnswerRed, TypeOK, VehicleTypes
<1>4. ASSUME NEW arrives \in Frames, AnswerGreen(arrives)
      PROVE  GreenInv'
  <2>1. arrives \in BOOLEAN
    BY LaneAssumption DEF Frames
  <2>2. ProcessFrame(watcher, arrives) \in Watcher
    BY <2>1, FrameType DEF TypeOK
  <2>3. FreshTracker(ProcessFrame(watcher, arrives))
    BY <2>1, FrameKeepsFresh DEF GreenInv, TypeOK
  <2>4. ProcessFrame(watcher, arrives).state = watcher.state
    BY DEF ProcessFrame, TypeOK, Watcher
  <2> QED  BY <1>2, <1>4, <2>1, <2>2, <2>3, <2>4 DEF AnswerGreen, VehicleTypes
<1>5. CASE UNCHANGED vars
  BY <1>5 DEF GreenInv, vars, GreenReportOfItsPhase
<1> QED  BY <1>1, <1>3, <1>4, <1>5 DEF Next

(* A report of a green phase is made of frames of that phase.              *)
THEOREM GreenReports == Spec => []GreenReportOfItsPhase
<1>1. Init => GreenInv
  BY DEF GreenInv, Init, FreshTracker, GreenReportOfItsPhase, NoReply
<1>2. GreenInv => GreenReportOfItsPhase
  BY DEF GreenInv
<1> QED  BY <1>1, <1>2, GreenStep, TypeCorrect, PTL DEF Spec

LEMMA QueueStep ==
  ASSUME TypeOK, QueueOfTheMoment, [Next]_vars
  PROVE  QueueOfTheMoment'
<1>1. ASSUME NEW arrives \in Frames, TrackFrame(arrives)
      PROVE  QueueOfTheMoment'
  BY <1>1 DEF TrackFrame, QueueOfTheMoment
<1>2. CASE AnswerRed
  BY <1>2 DEF AnswerRed, Answer, QueueOfTheMoment
<1>3. ASSUME NEW arrives \in Frames, AnswerGreen(arrives)
      PROVE  QueueOfTheMoment'
  <2>1. arrives \in BOOLEAN
    BY LaneAssumption DEF Frames
  <2>2. CASE arrives /\ watcher.state = "RED_PHASE"
    <3>1. Density(ProcessFrame(watcher, arrives)).from = {0}
      BY <2>2 DEF Density, ProcessFrame, TypeOK, Watcher
    <3> QED  BY <1>3, <3>1 DEF AnswerGreen, Answer, QueueOfTheMoment
  <2>3. CASE watcher.state = "GREEN_PHASE"
    <3>1. Density(ProcessFrame(watcher, arrives)).by = "tracker"
      BY <2>3 DEF Density, ProcessFrame, TypeOK, Watcher
    <3> QED  BY <1>3, <3>1 DEF AnswerGreen, Answer, QueueOfTheMoment
  <2>4. CASE ~ arrives
    BY <1>3, <2>4 DEF AnswerGreen, Answer, QueueOfTheMoment
  <2> QED  BY <2>1, <2>2, <2>3, <2>4 DEF TypeOK, Watcher, VehicleTypes
<1>4. CASE UNCHANGED vars
  BY <1>4 DEF vars, QueueOfTheMoment
<1> QED  BY <1>1, <1>2, <1>3, <1>4 DEF Next

(* The queue reported at the end of red is of the moment, unless its frame *)
(* was lost or the lane stays red.                                         *)
THEOREM QueueReports == Spec => []QueueOfTheMoment
<1>1. Init => QueueOfTheMoment
  BY DEF Init, QueueOfTheMoment, NoReply
<1> QED  BY <1>1, QueueStep, TypeCorrect, PTL DEF Spec
=============================================================================
