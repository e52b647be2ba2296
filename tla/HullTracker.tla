----------------------------- MODULE HullTracker -----------------------------
(***************************************************************************)
(* Counting the vehicles that leave a lane (HullTracker::update), frame by *)
(* frame: the hulls found in a frame are matched with the hulls tracked so *)
(* far, what was not seen for too long is dropped, what crossed the exit   *)
(* line is counted and dropped, and hulls that match nothing are tracked   *)
(* from then on.                                                           *)
(*                                                                         *)
(* The lane is one-dimensional: y grows towards the exit. The hulls are    *)
(* those of vehicles that move forward; the order in which the detector    *)
(* lists them and the tracker visits its map is arbitrary. The totals of   *)
(* area and speed are added up over the hulls counted and left out.        *)
(***************************************************************************)
EXTENDS Integers, Sequences, FiniteSets, SequencesExt

CONSTANTS
  Cars,              (* vehicles, numbered in the order they drive         *)
  Area,              (* the area of each one's hull                        *)
  BoundaryY,         (* boundaryLineY - boundaryCushionPixels              *)
  EndY,              (* endDetectionY: the last y the detector reports     *)
  MaxDiffDistance,
  HullAreaThreshold, (* percent                                            *)
  MaxFramesNotSeen,
  MaxId,
  MaxStep,           (* how far a vehicle drives between two frames        *)
  MinGap,            (* between two vehicles that can be seen              *)
  TurnOffY,          (* where a vehicle may leave the lane                 *)
  MaxLost            (* how many frames on end the detector misses a hull  *)

ASSUME TrackerAssumption ==
  /\ Cars \subseteq Nat /\ IsFiniteSet(Cars)
  /\ Area \in [Cars -> Nat \ {0}]
  /\ BoundaryY \in Nat /\ EndY \in Nat /\ BoundaryY < EndY
  /\ MaxDiffDistance \in Nat /\ HullAreaThreshold \in Nat
  /\ MaxFramesNotSeen \in Nat /\ MaxId \in Nat
  /\ TurnOffY \subseteq Nat \ {0}
  /\ MaxStep \in Nat \ {0} /\ MinGap \in Nat \ {0} /\ MaxLost \in Nat

Ahead == 0               \* y of a vehicle that has not come into view yet
Gone  == EndY + 1        \* ... that has left it
Seen  == 1 .. EndY

VARIABLES
  pc,            (* "frame", "match", "remove", "count" or "add"           *)
  y,             (* where each vehicle is                                  *)
  lost,          (* for how many frames the detector has missed it         *)
  newHulls,      (* the hulls of the frame, each the vehicle it is of      *)
  matched,       (* indices of newHulls that a tracked hull has taken      *)
  todo,          (* tracked hulls still to be matched in this frame        *)
  trackedHulls,  (* id -> hull                                             *)
  currentId,
  hullCount,
  sighted        (* vehicles seen since the last reset: "before" the line, *)
                 (* "beyond" it after that, or beyond it only: "late"      *)

world == <<y, lost, sighted>>
vars == <<pc, world, newHulls, matched, todo, trackedHulls, currentId, hullCount>>

Init ==
  /\ pc = "frame"
  /\ y = [c \in Cars |-> Ahead]
  /\ lost = [c \in Cars |-> 0]
  /\ newHulls = <<>>
  /\ matched = {}
  /\ todo = {}
  /\ trackedHulls = <<>>
  /\ currentId = 0
  /\ hullCount = 0
  /\ sighted = [c \in Cars |-> "no"]

Ids == DOMAIN trackedHulls
Without(ids) == [id \in Ids \ ids |-> trackedHulls[id]]

-----------------------------------------------------------------------------
(* Traffic and camera: every vehicle drives on, or waits, or turns off the *)
(* lane, and keeps its distance; every hull in view is found, or missed    *)
(* once more.                                                              *)
KeepsDistance(at) ==
  \A c, d \in Cars : c < d =>
    /\ at[c] \in Seen /\ at[d] \in Seen => at[c] - at[d] >= MinGap
    /\ at[c] = Ahead => at[d] = Ahead

NewFrame(driving, turning, found) ==
  LET next == [c \in Cars |->
        IF c \in turning THEN Gone
        ELSE IF c \notin driving THEN y[c]
        ELSE IF y[c] + MaxStep < Gone THEN y[c] + MaxStep ELSE Gone]
  IN
  /\ pc = "frame"
  /\ \A c \in turning : y[c] \in TurnOffY
  /\ KeepsDistance(next)
  /\ y' = next
  /\ found \subseteq {c \in Cars : next[c] \in Seen}
  /\ lost' = [c \in Cars |->
       IF next[c] \notin Seen \/ c \in found THEN 0 ELSE lost[c] + 1]
  /\ \A c \in Cars : lost'[c] <= MaxLost
  /\ newHulls' \in SetToSeqs(found)
  /\ sighted' = [c \in Cars |->
       IF c \in found /\ next[c] <= BoundaryY THEN "before"
       ELSE IF c \in found THEN (IF sighted[c] = "no" THEN "late"
                                 ELSE IF sighted[c] = "before" THEN "beyond" ELSE sighted[c])
       ELSE sighted[c]]
  /\ matched' = {}
  /\ todo' = Ids
  /\ pc' = IF Ids = {} THEN "add" ELSE "match"
  /\ UNCHANGED <<trackedHulls, currentId, hullCount>>

(* getTrafficDensity has read the totals of a green phase.                 *)
ResetTrackerVariables ==
  /\ pc = "frame"
  /\ currentId' = 0
  /\ hullCount' = 0
  /\ trackedHulls' = <<>>
  /\ sighted' = [c \in Cars |-> "no"]
  /\ UNCHANGED <<pc, y, lost, newHulls, matched, todo>>

-----------------------------------------------------------------------------
Abs(n) == IF n < 0 THEN -n ELSE n

(* A new hull a tracked one may be: of similar area, and not far.          *)
Candidate(hull, car) ==
  /\ 100 * Abs(hull.area - Area[car]) <= HullAreaThreshold * hull.area
  /\ Abs(hull.y - y[car]) < MaxDiffDistance

Candidates(hull) ==
  {i \in DOMAIN newHulls \ matched : Candidate(hull, newHulls[i])}

(* matchAndUpdateTrackables for one tracked hull: it takes the first       *)
(* candidate of the list, not the nearest.                                 *)
MatchTrackable(id) ==
  LET hull == trackedHulls[id] IN
  /\ pc = "match"
  /\ id \in todo
  /\ \/ \E i \in Candidates(hull) :
          /\ \A j \in Candidates(hull) : i <= j
          /\ matched' = matched \cup {i}
          /\ trackedHulls' = [trackedHulls EXCEPT ![id] =
               [y |-> y[newHulls[i]], area |-> Area[newHulls[i]], framesSinceSeen |-> 0]]
     \/ /\ Candidates(hull) = {}
        /\ trackedHulls' = [trackedHulls EXCEPT ![id].framesSinceSeen = @ + 1]
        /\ UNCHANGED matched
  /\ todo' = todo \ {id}
  /\ pc' = IF todo' = {} THEN "remove" ELSE "match"
  /\ UNCHANGED <<world, newHulls, currentId, hullCount>>

Removing(stale) ==
  /\ pc = "remove"
  /\ trackedHulls' = Without(stale)
  /\ pc' = "count"
  /\ UNCHANGED <<world, newHulls, matched, todo, currentId, hullCount>>

RemoveOneFrameEarly ==
  Removing({id \in Ids : trackedHulls[id].framesSinceSeen >= MaxFramesNotSeen})
RemoveStaleTrackables ==
  Removing({id \in Ids : trackedHulls[id].framesSinceSeen > MaxFramesNotSeen})

Crossed == {id \in Ids : trackedHulls[id].y > BoundaryY}

KeepingCrossed ==      \* counted hulls stay in the map
  /\ pc = "count"
  /\ hullCount' = hullCount + Cardinality(Crossed)
  /\ pc' = "add"
  /\ UNCHANGED <<world, newHulls, matched, todo, trackedHulls, currentId>>

ProcessCrossedTrackables ==
  /\ pc = "count"
  /\ hullCount' = hullCount + Cardinality(Crossed)
  /\ trackedHulls' = Without(Crossed)
  /\ pc' = "add"
  /\ UNCHANGED <<world, newHulls, matched, todo, currentId>>

(* createAndAddNewTrackables, one unmatched hull at a time, in order. A    *)
(* hull beyond the line is not tracked (any more); ids start again at 0    *)
(* after MaxId, whoever still has them.                                    *)
Unmatched == DOMAIN newHulls \ matched
WrappedLate == IF currentId > MaxId + 1 THEN 0 ELSE currentId
WrappedId == IF currentId > MaxId THEN 0 ELSE currentId

AddTrackable ==
  /\ pc = "add"
  /\ \E i \in Unmatched :
       /\ \A j \in Unmatched : i <= j
       /\ matched' = matched \cup {i}
       /\ IF y[newHulls[i]] > BoundaryY
          THEN /\ currentId' = WrappedId
               /\ UNCHANGED trackedHulls
          ELSE /\ currentId' = WrappedId + 1
               /\ trackedHulls' = [id \in Ids \cup {WrappedId} |->
                    IF id = WrappedId
                    THEN [y |-> y[newHulls[i]], area |-> Area[newHulls[i]],
                          framesSinceSeen |-> 0]
                    ELSE trackedHulls[id]]
  /\ UNCHANGED <<pc, world, newHulls, todo, hullCount>>

UpdateReturns ==
  /\ pc = "add"
  /\ Unmatched = {}
  /\ pc' = "frame"
  /\ newHulls' = <<>>
  /\ matched' = {}
  /\ UNCHANGED <<world, todo, trackedHulls, currentId, hullCount>>

Next ==
  \/ \E driving, found \in SUBSET Cars, turning \in {{}} \cup {{c} : c \in Cars} :
       NewFrame(driving, turning, found)
  \/ ResetTrackerVariables
  \/ \E id \in todo : MatchTrackable(id)
  \/ RemoveStaleTrackables
  \/ ProcessCrossedTrackables
  \/ AddTrackable
  \/ UpdateReturns

Spec == Init /\ [][Next]_vars

-----------------------------------------------------------------------------
(* The type of every variable.                                             *)
TypeOK ==
  /\ pc \in {"frame", "match", "remove", "count", "add"}
  /\ y \in [Cars -> 0 .. Gone]
  /\ lost \in [Cars -> 0 .. MaxLost]
  /\ newHulls \in Seq(Cars)
  /\ matched \subseteq DOMAIN newHulls
  /\ todo \subseteq Ids
  /\ Ids \subseteq 0 .. MaxId
  /\ \A id \in Ids : trackedHulls[id] \in
       [y : Seen, area : Nat, framesSinceSeen : 0 .. MaxFramesNotSeen + 1]
  /\ currentId \in 0 .. MaxId + 1
  /\ hullCount \in Nat
  /\ sighted \in [Cars -> {"no", "before", "beyond", "late"}]

Exits == {c \in Cars : sighted[c] = "beyond"}

(* No vehicle is counted that has not been seen on both sides of the line, *)
(* and none twice.                                                         *)
NeverOvercounts == hullCount <= Cardinality(Exits)

(* getHullCount: "Number of hulls (vehicles) that crossed the boundary     *)
(* line" (HullTracker.cpp:63): no more than have been seen beyond it.      *)
CountsCrossings ==
  hullCount <= Cardinality({c \in Cars : sighted[c] \in {"beyond", "late"}})

(* Between two frames every vehicle seen on both sides of the line has     *)
(* been counted. (One that is first seen beyond it, because it was reset   *)
(* away just before it crossed, never is.)                                 *)
NeverUndercounts == pc = "frame" => hullCount >= Cardinality(Exits)

(* After an update whatever is tracked is on its way to the line, and was  *)
(* seen recently: only a hull seen in a frame can be counted in it.        *)
CountedWhenSeen ==
  pc = "count" => \A id \in Crossed : trackedHulls[id].framesSinceSeen = 0
=============================================================================
