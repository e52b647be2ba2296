----------------------------- MODULE VehicleLane -----------------------------
(***************************************************************************)
(* The child process of one vehicle lane (ChildProcess::runVehicle) and    *)
(* the watcher it owns (VehicleHeadless; VehicleGui measures the same way):*)
(* while the lane is green every frame is tracked; every message is        *)
(* answered with what the watcher measured in the state it is in, and then *)
(* changes the state.                                                      *)
(*                                                                         *)
(* A measurement is represented by its age: how many messages the lane has *)
(* answered since the frame it comes from. Age 0 is the phase the answer   *)
(* is about.                                                               *)
(***************************************************************************)
EXTENDS Junction

CONSTANTS
  Lane,        (* the vehicle approach watched                             *)
  LosesFrames, (* whether the stream may fail to deliver a frame           *)
  MaxAge       (* bound: ages are counted up to here                       *)

ASSUME LaneAssumption ==
  /\ Lane \in Vehicle
  /\ LosesFrames \in BOOLEAN
  /\ MaxAge \in Nat \ {0}

Age == 0 .. MaxAge
NoReply == [none |-> TRUE]

VARIABLES
  isStateGreen,   (* the loop's flag: track every frame                    *)
  watcher,        (* the watcher, see Watcher                              *)
  phaseIndex,     (* the phase whose message comes next                    *)
  reply           (* the last reply                                        *)

vars == <<isStateGreen, watcher, phaseIndex, reply>>

(* currentTrafficState and isTracking; whether the detection boundaries    *)
(* were set, from the height of the first frame; the ages of the frame the *)
(* sample started with, of the frames hullTracker has added up, and of the *)
(* frame warpedMask and the counts by class come from, if there is one.    *)
Watcher ==
  [state : VehicleTypes, isTracking : BOOLEAN, bounded : BOOLEAN,
   sample : SUBSET Age, tracked : SUBSET Age, mask : SUBSET Age]

Frames == {TRUE} \cup {~ LosesFrames}

(* `new VehicleHeadless()` zeroes the object: GREEN_PHASE is 0.            *)
Init ==
  /\ isStateGreen = FALSE
  /\ \E arrives \in Frames :
       watcher = [state |-> "GREEN_PHASE", isTracking |-> FALSE, bounded |-> arrives,
                  sample |-> {}, tracked |-> {}, mask |-> {}]
  /\ phaseIndex = 0
  /\ reply = NoReply

(* process: a frame that does not arrive changes nothing, and without      *)
(* boundaries no hulls are detected.                                       *)
ProcessFrame(w, arrives) ==
  IF ~ arrives THEN w
  ELSE [w EXCEPT
          !.isTracking = TRUE,
          !.sample = IF w.isTracking THEN @ ELSE {0},
          !.tracked = IF w.state = "GREEN_PHASE" /\ w.bounded THEN @ \cup {0} ELSE @,
          !.mask = IF w.state = "RED_PHASE" THEN {0} ELSE @]

(* getTrafficDensity: what the density is computed from ...                *)
Density(w) ==
  IF w.state = "GREEN_PHASE"
  THEN [by |-> "tracker", from |-> w.tracked, since |-> w.sample]
  ELSE [by |-> "mask", from |-> w.mask, since |-> {}]

(* getVehicleTypeAndCount: and the counts.                                 *)
Counts(w) == IF w.state = "GREEN_PHASE" THEN w.tracked ELSE w.mask

(* ... and what reading it leaves of the watcher: the next frame starts a  *)
(* new sample.                                                             *)
AfterDensityKeepsSample(w) ==
  IF w.state = "GREEN_PHASE" THEN [w EXCEPT !.tracked = {}] ELSE w
AfterDensity(w) == [AfterDensityKeepsSample(w) EXCEPT !.isTracking = FALSE]

(* Bookkeeping of the representation: an answered message makes every      *)
(* measurement one older.                                                  *)
Older(ages) == {IF age < MaxAge THEN age + 1 ELSE age : age \in ages}
Aged(w) == [w EXCEPT !.sample = Older(@), !.tracked = Older(@), !.mask = Older(@)]

-----------------------------------------------------------------------------
(* One round of the loop without a message.                                *)
TrackFrame(arrives) ==
  /\ isStateGreen
  /\ watcher' = ProcessFrame(watcher, arrives)
  /\ UNCHANGED <<isStateGreen, phaseIndex, reply>>

(* The reply made of the counts of one watcher state and the density of    *)
(* another, with a frame taken for it or not, and the state the message    *)
(* asks for.                                                               *)
Answer(type, arrives, counted, measured) ==
  /\ Phases[phaseIndex][Lane] = type
  /\ reply' = [to |-> type, frame |-> arrives,
             density |-> Density(measured), counts |-> Counts(counted)]
  /\ watcher' = [Aged(AfterDensity(measured)) EXCEPT !.state = type]
  /\ isStateGreen' = (type = "GREEN_PHASE")
  /\ phaseIndex' = NextPhase(phaseIndex)

AnswerRed == Answer("RED_PHASE", FALSE, watcher, watcher)

AnswerGreenFrameLate(arrives) ==
  Answer("GREEN_PHASE", arrives, watcher, watcher)
AnswerGreen(arrives) ==
  Answer("GREEN_PHASE", arrives, watcher, ProcessFrame(watcher, arrives))

Next ==
  \/ \E arrives \in Frames : TrackFrame(arrives)
  \/ AnswerRed
  \/ \E arrives \in Frames : AnswerGreen(arrives)

Spec == Init /\ [][Next]_vars

-----------------------------------------------------------------------------
(* The type of every variable.                                             *)
TypeOK ==
  /\ isStateGreen \in BOOLEAN
  /\ watcher \in Watcher
  /\ phaseIndex \in Phase
  /\ reply \in {NoReply} \cup
       [to : VehicleTypes, frame : BOOLEAN,
        density : [by : {"tracker", "mask"}, from : SUBSET Age, since : SUBSET Age],
        counts : SUBSET Age]

(* What a lane reports of a green phase is of that phase only: the hulls   *)
(* added up, and the time their flow is computed with, which started after *)
(* the message that began the phase.                                       *)
GreenReportOfItsPhase ==
  reply # NoReply /\ reply.density.by = "tracker" =>
    /\ reply.density.from \cup reply.counts \subseteq {0}
    /\ reply.density.from # {} => reply.density.since = {0}

(* The queue a lane reports at the end of a red phase is seen in that      *)
(* phase, unless the stream lost the frame or the lane stays red.          *)
QueueOfTheMoment ==
  reply # NoReply /\ reply.density.by = "mask" /\ reply.density.from # {0} =>
    ~ reply.frame

(* A reply is about the phase its message ends: "send the previous green   *)
(* vehicle density", "send the previous red vehicle density"               *)
(* (ChildProcess.cpp:152, 168).                                            *)
DensityOfPreviousPhase == reply # NoReply => reply.density.from \subseteq {0}
=============================================================================
