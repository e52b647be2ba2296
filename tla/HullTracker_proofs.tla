-------------------------- MODULE HullTracker_proofs --------------------------
(* The count of the tracker. For any traffic and any detector, only a hull  *)
(* seen in a frame is counted in it. Where vehicles keep further apart than *)
(* a hull can be mistaken while it is kept, none is counted twice; where    *)
(* besides none is missed for longer than that, and there are ids for those *)
(* seen since a reset, none that has passed is left out.                    *)
EXTENDS HullTracker, FiniteSetTheorems, TLAPS

Hull == [y : Seen, area : Nat, framesSinceSeen : 0 .. MaxFramesNotSeen + 1]

(* What the tracker takes over of a hull of the frame.                     *)
HullOf(i) == [y |-> y[newHulls[i]], area |-> Area[newHulls[i]], framesSinceSeen |-> 0]

(* Where update() is in a frame, and what is still in the map there.       *)
InUpdate ==
  /\ pc # "match" => todo = {}
  /\ pc = "frame" => newHulls = <<>>
  /\ \A i \in DOMAIN newHulls : y[newHulls[i]] \in Seen
  /\ \A id \in todo : trackedHulls[id].framesSinceSeen <= MaxFramesNotSeen
  /\ pc \notin {"match", "remove"} =>
       \A id \in Ids : trackedHulls[id].framesSinceSeen <= MaxFramesNotSeen

Typed == TypeOK /\ InUpdate

-----------------------------------------------------------------------------
(* What the steps do to the map, from outside.                             *)

LEMMA NoHulls ==
  /\ DOMAIN <<>> = {}
  /\ \A S : <<>> \in Seq(S)
OBVIOUS

LEMMA InitTyped ==
  ASSUME Init
  PROVE  Typed
<1>1. Ids = {}
  BY NoHulls DEF Init, Ids
<1>2. 0 \in 0 .. MaxLost /\ 0 \in 0 .. MaxId + 1 /\ 0 \in 0 .. Gone
  BY TrackerAssumption DEF Gone
<1> QED  BY <1>1, <1>2, NoHulls DEF Init, Typed, TypeOK, InUpdate, Ahead

LEMMA FoundSequence ==
  ASSUME NEW found \in SUBSET Cars, NEW s \in SetToSeqs(found)
  PROVE  /\ s \in Seq(Cars)
         /\ \A i \in DOMAIN s : s[i] \in found
         /\ \A i, j \in DOMAIN s : s[i] = s[j] => i = j
<1>1. IsFiniteSet(found)
  BY TrackerAssumption, FS_Subset
<1>2. Cardinality(found) \in Nat
  BY <1>1, FS_CardinalityType
<1>3. /\ s \in [1 .. Cardinality(found) -> found]
      /\ \A i, j \in 1 .. Cardinality(found) : i # j => s[i] # s[j]
  BY Zenon DEF SetToSeqs
<1> QED  BY <1>2, <1>3

LEMMA FrameEffect ==
  ASSUME Typed, NEW driving \in SUBSET Cars, NEW found \in SUBSET Cars, NEW turning,
         turning = {} \/ \E c \in Cars : turning = {c},
         NewFrame(driving, turning, found)
  PROVE  /\ y' \in [Cars -> 0 .. Gone]
         /\ \A c \in Cars :
              \/ c \in turning /\ y'[c] = Gone
              \/ c \notin turning /\ c \notin driving /\ y'[c] = y[c]
              \/ c \notin turning /\ y[c] + MaxStep < Gone /\ y'[c] = y[c] + MaxStep
              \/ c \notin turning /\ y[c] + MaxStep >= Gone /\ y'[c] = Gone
         /\ \A i \in DOMAIN newHulls' : newHulls'[i] \in found
         /\ \A i, j \in DOMAIN newHulls' : newHulls'[i] = newHulls'[j] => i = j
         /\ newHulls' \in Seq(Cars)
         /\ lost' \in [Cars -> 0 .. MaxLost]
         /\ sighted' \in [Cars -> {"no", "before", "beyond", "late"}]
         /\ \A c \in found : y'[c] \in Seen
         /\ UNCHANGED <<trackedHulls, currentId, hullCount>>
         /\ todo' = Ids /\ matched' = {} /\ pc' \in {"add", "match"}
         /\ pc' = "add" => Ids = {}
         /\ pc = "frame"
<1>1. /\ newHulls' \in Seq(Cars)
      /\ \A i \in DOMAIN newHulls' : newHulls'[i] \in found
      /\ \A i, j \in DOMAIN newHulls' : newHulls'[i] = newHulls'[j] => i = j
  BY FoundSequence, Zenon DEF NewFrame
<1>2. /\ y' \in [Cars -> 0 .. Gone]
      /\ \A c \in Cars :
              \/ c \in turning /\ y'[c] = Gone
              \/ c \notin turning /\ c \notin driving /\ y'[c] = y[c]
              \/ c \notin turning /\ y[c] + MaxStep < Gone /\ y'[c] = y[c] + MaxStep
              \/ c \notin turning /\ y[c] + MaxStep >= Gone /\ y'[c] = Gone
  BY TrackerAssumption DEF NewFrame, Typed, TypeOK, Gone
<1>3. lost' \in [Cars -> 0 .. MaxLost]
  BY TrackerAssumption DEF NewFrame, Typed, TypeOK, Gone
<1>4. sighted' \in [Cars -> {"no", "before", "beyond", "late"}]
  BY TrackerAssumption DEF NewFrame, Typed, TypeOK, Gone
<1>5. \A c \in found : y'[c] \in Seen
  BY DEF NewFrame
<1> QED  BY <1>1, <1>2, <1>3, <1>4, <1>5 DEF NewFrame

LEMMA ConstantTypes ==
  /\ BoundaryY \in Nat /\ EndY \in Nat /\ BoundaryY < EndY
  /\ MaxFramesNotSeen \in Nat /\ MaxId \in Nat /\ MaxLost \in Nat
  /\ \A c \in Cars : Area[c] \in Nat
BY TrackerAssumption

LEMMA PlaceType ==
  ASSUME Typed, NEW c \in Cars
  PROVE  y[c] \in 0 .. EndY + 1 /\ y[c] \in Int
<1>1. y \in [Cars -> 0 .. Gone]
  BY DEF Typed, TypeOK
<1> QED  BY <1>1, TrackerAssumption DEF Gone

LEMMA MatchEffect ==
  ASSUME Typed, NEW id \in todo, MatchTrackable(id)
  PROVE  /\ UNCHANGED <<y, lost, sighted, newHulls, currentId, hullCount>>
         /\ id \in Ids /\ pc = "match" /\ pc' \in {"match", "remove"}
         /\ Ids' = Ids /\ todo' = todo \ {id}
         /\ pc' = "remove" => todo' = {}
         /\ \A k \in Ids : k # id => trackedHulls'[k] = trackedHulls[k]
         /\ \/ \E i \in Unmatched :
                 /\ Candidate(trackedHulls[id], newHulls[i])
                 /\ matched' = matched \cup {i}
                 /\ trackedHulls'[id] = HullOf(i)
            \/ /\ \A i \in Unmatched : ~ Candidate(trackedHulls[id], newHulls[i])
               /\ matched' = matched
               /\ trackedHulls'[id] = [trackedHulls[id] EXCEPT !.framesSinceSeen = @ + 1]
BY DEF MatchTrackable, Candidates, Unmatched, Ids, Typed, TypeOK, world, HullOf

LEMMA RemovingEffect ==
  ASSUME NEW gone, trackedHulls' = Without(gone)
  PROVE  /\ Ids' = Ids \ gone
         /\ \A k \in Ids' : trackedHulls'[k] = trackedHulls[k]
BY DEF Without, Ids

LEMMA AddEffect ==
  ASSUME Typed, AddTrackable
  PROVE  /\ UNCHANGED <<pc, y, lost, sighted, newHulls, todo, hullCount>>
         /\ pc = "add" /\ WrappedId \in 0 .. MaxId
         /\ \E i \in Unmatched :
              /\ matched' = matched \cup {i}
              /\ \/ /\ y[newHulls[i]] > BoundaryY
                    /\ currentId' = WrappedId
                    /\ UNCHANGED trackedHulls
                 \/ /\ y[newHulls[i]] <= BoundaryY
                    /\ currentId' = WrappedId + 1
                    /\ Ids' = Ids \cup {WrappedId}
                    /\ trackedHulls'[WrappedId] = HullOf(i)
                    /\ \A k \in Ids \ {WrappedId} : trackedHulls'[k] = trackedHulls[k]
<1>1. WrappedId \in 0 .. MaxId
  BY TrackerAssumption DEF WrappedId, Typed, TypeOK
<1>2. \A i \in Unmatched : newHulls[i] \in Cars
  BY DEF Unmatched, Typed, TypeOK
<1>3. \A c \in Cars : y[c] \in Int
  BY PlaceType
<1>4. PICK i \in Unmatched :
        /\ matched' = matched \cup {i}
        /\ IF y[newHulls[i]] > BoundaryY
           THEN /\ currentId' = WrappedId
                /\ UNCHANGED trackedHulls
           ELSE /\ currentId' = WrappedId + 1
                /\ trackedHulls' = [id \in Ids \cup {WrappedId} |->
                     IF id = WrappedId
                     THEN HullOf(i)
                     ELSE trackedHulls[id]]
  BY Zenon DEF AddTrackable, HullOf
<1>7. y[newHulls[i]] \in Int /\ BoundaryY \in Int
  <2>1. newHulls[i] \in Cars
    BY <1>2
  <2> QED  BY <2>1, <1>3, ConstantTypes
<1>5. CASE y[newHulls[i]] > BoundaryY
  BY <1>1, <1>4, <1>5 DEF AddTrackable, world
<1>6. CASE y[newHulls[i]] <= BoundaryY
  <2>1. ~ (y[newHulls[i]] > BoundaryY)
    BY <1>6, <1>7
  <2>2. /\ Ids' = Ids \cup {WrappedId}
        /\ trackedHulls'[WrappedId] = HullOf(i)
        /\ \A k \in Ids \ {WrappedId} : trackedHulls'[k] = trackedHulls[k]
    BY <1>4, <2>1 DEF Ids
  <2> QED  BY <1>1, <1>4, <1>6, <2>1, <2>2 DEF AddTrackable, world
<1> QED  BY <1>5, <1>6, <1>7

-----------------------------------------------------------------------------
(* Types.                                                                  *)

LEMMA HullKept ==
  ASSUME Typed, NEW k \in Ids
  PROVE  trackedHulls[k] \in Hull
BY DEF Typed, TypeOK, Hull

LEMMA CarOfHull ==
  ASSUME Typed, NEW i \in DOMAIN newHulls
  PROVE  /\ newHulls[i] \in Cars
         /\ y[newHulls[i]] \in Seen
         /\ HullOf(i) \in Hull
<1>1. newHulls[i] \in Cars /\ y[newHulls[i]] \in Seen
  BY DEF Typed, TypeOK, InUpdate
<1>2. Area[newHulls[i]] \in Nat /\ 0 \in 0 .. MaxFramesNotSeen + 1
  BY <1>1, ConstantTypes
<1> QED  BY <1>1, <1>2 DEF Hull, HullOf

LEMMA TypedStep ==
  ASSUME Typed, [Next]_vars
  PROVE  Typed'
<1>1. ASSUME NEW driving \in SUBSET Cars, NEW found \in SUBSET Cars,
             NEW turning \in {{}} \cup {{c} : c \in Cars}, NewFrame(driving, turning, found)
      PROVE  Typed'
  <2>1. turning = {} \/ \E c \in Cars : turning = {c}
    OBVIOUS
  <2>2. Ids' = Ids
    BY <1>1, <2>1, FrameEffect DEF Ids
  <2>3. TypeOK'
    BY <1>1, <2>1, <2>2, FrameEffect DEF Typed, TypeOK, Ids
  <2>4. InUpdate'
    <3>1. /\ \A i \in DOMAIN newHulls' : newHulls'[i] \in found
          /\ \A c \in found : y'[c] \in Seen
          /\ UNCHANGED trackedHulls /\ todo' = Ids /\ pc' \in {"add", "match"}
          /\ pc' = "add" => Ids = {} /\ pc = "frame"
      BY <1>1, <2>1, FrameEffect
    <3>2. \A id \in Ids : trackedHulls[id].framesSinceSeen <= MaxFramesNotSeen
      BY <1>1 DEF NewFrame, Typed, InUpdate
    <3> QED  BY <2>2, <3>1, <3>2 DEF InUpdate, Seen
  <2> QED  BY <2>3, <2>4 DEF Typed
<1>2. CASE ResetTrackerVariables
  <2>1. Ids' = {}
    BY <1>2, NoHulls DEF ResetTrackerVariables, Ids
  <2> QED  BY <1>2, <2>1, TrackerAssumption DEF ResetTrackerVariables, Typed, TypeOK, InUpdate
<1>3. ASSUME NEW id \in todo, MatchTrackable(id)
      PROVE  Typed'
  <2>1. \A k \in Ids' : trackedHulls'[k] \in Hull
    <3>1. trackedHulls[id] \in Hull /\ trackedHulls[id].framesSinceSeen <= MaxFramesNotSeen
      BY <1>3, HullKept, MatchEffect DEF Typed, InUpdate
    <3>2. [trackedHulls[id] EXCEPT !.framesSinceSeen = @ + 1] \in Hull
      BY <3>1, TrackerAssumption DEF Hull
    <3>3. trackedHulls'[id] \in Hull
      <4>1. CASE \E i \in Unmatched : trackedHulls'[id] = HullOf(i)
        BY <4>1, CarOfHull DEF Unmatched
      <4> QED  BY <1>3, <3>2, <4>1, MatchEffect
    <3>4. \A k \in Ids \ {id} : trackedHulls'[k] = trackedHulls[k] /\ trackedHulls[k] \in Hull
      BY <1>3, MatchEffect, HullKept
    <3> QED  BY <1>3, <3>3, <3>4, MatchEffect
  <2>2. matched' \subseteq DOMAIN newHulls
    <3>1. matched' = matched \/ \E i \in Unmatched : matched' = matched \cup {i}
      BY <1>3, MatchEffect
    <3> QED  BY <3>1 DEF Unmatched, Typed, TypeOK
  <2>3. TypeOK'
    BY <1>3, <2>1, <2>2, MatchEffect DEF Typed, TypeOK, Hull, world
  <2>4. InUpdate'
    BY <1>3, MatchEffect DEF Typed, TypeOK, InUpdate, world
  <2> QED  BY <2>3, <2>4 DEF Typed
<1>4. CASE RemoveStaleTrackables
  <2> DEFINE stale == {id \in Ids : trackedHulls[id].framesSinceSeen > MaxFramesNotSeen}
  <2>1. trackedHulls' = Without(stale) /\ pc = "remove" /\ pc' = "count"
    BY <1>4 DEF RemoveStaleTrackables, Removing
  <2>2. Ids' = Ids \ stale /\ \A k \in Ids' : trackedHulls'[k] = trackedHulls[k]
    BY <2>1, RemovingEffect
  <2>3. \A k \in Ids' : trackedHulls'[k].framesSinceSeen <= MaxFramesNotSeen
    BY <2>2, TrackerAssumption DEF Typed, TypeOK
  <2>4. TypeOK' /\ InUpdate'
    BY <1>4, <2>1, <2>2, <2>3 DEF RemoveStaleTrackables, Removing, Typed, TypeOK, InUpdate, world
  <2> QED  BY <2>4 DEF Typed
<1>5. CASE ProcessCrossedTrackables
  <2>1. trackedHulls' = Without(Crossed) /\ pc = "count" /\ pc' = "add"
    BY <1>5 DEF ProcessCrossedTrackables
  <2>2. Ids' = Ids \ Crossed /\ \A k \in Ids' : trackedHulls'[k] = trackedHulls[k]
    BY <2>1, RemovingEffect
  <2>3. Cardinality(Crossed) \in Nat
    <3>1. IsFiniteSet(0 .. MaxId)
      BY TrackerAssumption, FS_Interval
    <3>2. Crossed \subseteq 0 .. MaxId
      BY DEF Crossed, Typed, TypeOK
    <3> QED  BY <3>1, <3>2, FS_Subset, FS_CardinalityType
  <2>4. hullCount' \in Nat
    BY <1>5, <2>3 DEF ProcessCrossedTrackables, Typed, TypeOK
  <2>5. TypeOK' /\ InUpdate'
    BY <1>5, <2>1, <2>2, <2>4 DEF ProcessCrossedTrackables, Typed, TypeOK, InUpdate, world
  <2> QED  BY <2>5 DEF Typed
<1>6. CASE AddTrackable
  <2>1. PICK i \in Unmatched :
          /\ matched' = matched \cup {i}
          /\ \/ currentId' = WrappedId /\ UNCHANGED trackedHulls
             \/ /\ currentId' = WrappedId + 1
                /\ Ids' = Ids \cup {WrappedId}
                /\ trackedHulls'[WrappedId] = HullOf(i)
                /\ \A k \in Ids \ {WrappedId} : trackedHulls'[k] = trackedHulls[k]
    BY <1>6, AddEffect
  <2>2. i \in DOMAIN newHulls
    BY DEF Unmatched
  <2>3. WrappedId \in 0 .. MaxId /\ pc = "add" /\ UNCHANGED <<pc, y, lost, sighted, newHulls, todo, hullCount>>
    BY <1>6, AddEffect
  <2>4. Ids \subseteq Ids' /\ Ids' \subseteq 0 .. MaxId
    BY <2>1, <2>3 DEF Ids, Typed, TypeOK
  <2>5. \A k \in Ids' : trackedHulls'[k] \in Hull /\ trackedHulls'[k].framesSinceSeen <= MaxFramesNotSeen
    BY <2>1, <2>2, <2>3, HullKept, CarOfHull, TrackerAssumption DEF Ids, Typed, InUpdate, HullOf
  <2>6. TypeOK'
    <3>1. matched' \subseteq DOMAIN newHulls'
      BY <2>1, <2>2, <2>3 DEF Typed, TypeOK
    <3>2. currentId' \in 0 .. MaxId + 1
      BY <2>1, <2>3, ConstantTypes
    <3> QED  BY <2>3, <2>4, <2>5, <3>1, <3>2 DEF Typed, TypeOK, Hull
  <2>7. InUpdate'
    BY <2>3, <2>5, TrackerAssumption DEF Typed, TypeOK, InUpdate, world
  <2> QED  BY <2>6, <2>7 DEF Typed
<1>7. CASE UpdateReturns
  <2>1. Ids' = Ids
    BY <1>7 DEF UpdateReturns, Ids
  <2> QED  BY <1>7, <2>1, NoHulls DEF UpdateReturns, Typed, TypeOK, InUpdate, world
<1>8. CASE UNCHANGED vars
  BY <1>8 DEF vars, world, Typed, TypeOK, InUpdate, Ids
<1> QED  BY <1>1, <1>2, <1>3, <1>4, <1>5, <1>6, <1>7, <1>8 DEF Next

(* The type of every variable, for any traffic.                            *)
THEOREM TypeCorrect == Spec => []TypeOK
<1>1. Typed => TypeOK
  BY DEF Typed
<1> QED  BY <1>1, InitTyped, TypedStep, PTL DEF Spec

-----------------------------------------------------------------------------
(* Only what was seen in this frame is beyond the line.                    *)
BeforeLine ==
  /\ pc \in {"frame", "add"} => \A id \in Ids : trackedHulls[id].y <= BoundaryY
  /\ \A id \in Ids : trackedHulls[id].y > BoundaryY =>
       id \notin todo /\ trackedHulls[id].framesSinceSeen = 0

LEMMA BeforeLineStep ==
  ASSUME Typed, BeforeLine, [Next]_vars
  PROVE  BeforeLine'
<1>0. BoundaryY \in Int /\ \A k \in Ids : trackedHulls[k].y \in Int
  BY ConstantTypes, HullKept DEF Hull, Seen
<1>1. ASSUME NEW driving \in SUBSET Cars, NEW found \in SUBSET Cars,
             NEW turning \in {{}} \cup {{c} : c \in Cars}, NewFrame(driving, turning, found)
      PROVE  BeforeLine'
  <2>1. turning = {} \/ \E c \in Cars : turning = {c}
    OBVIOUS
  <2>2. UNCHANGED trackedHulls /\ pc = "frame"
    BY <1>1, <2>1, FrameEffect
  <2> QED  BY <1>0, <2>2 DEF BeforeLine, Ids
<1>2. CASE ResetTrackerVariables
  BY <1>2, NoHulls DEF ResetTrackerVariables, BeforeLine, Ids
<1>3. ASSUME NEW id \in todo, MatchTrackable(id)
      PROVE  BeforeLine'
  <2>1. /\ id \in Ids /\ pc' \in {"match", "remove"} /\ Ids' = Ids /\ todo' = todo \ {id}
        /\ \A k \in Ids : k # id => trackedHulls'[k] = trackedHulls[k]
    BY <1>3, MatchEffect
  <2>2. trackedHulls'[id].framesSinceSeen = 0 \/ trackedHulls'[id].y = trackedHulls[id].y
    <3>1. trackedHulls[id] \in Hull
      BY <2>1, HullKept
    <3>2. CASE trackedHulls'[id] = [trackedHulls[id] EXCEPT !.framesSinceSeen = @ + 1]
      BY <3>1, <3>2 DEF Hull
    <3>3. CASE \E i \in Unmatched : trackedHulls'[id] = HullOf(i)
      BY <3>3 DEF HullOf
    <3> QED  BY <1>3, <3>2, <3>3, MatchEffect
  <2>3. trackedHulls[id].y <= BoundaryY
    BY <1>0, <1>3, <2>1 DEF BeforeLine
  <2>4. trackedHulls'[id].y > BoundaryY => trackedHulls'[id].framesSinceSeen = 0
    BY <1>0, <2>1, <2>2, <2>3
  <2> QED  BY <2>1, <2>4 DEF BeforeLine
<1>4. CASE RemoveStaleTrackables
  <2>1. PICK gone : trackedHulls' = Without(gone)
    BY <1>4 DEF RemoveStaleTrackables, Removing
  <2> QED  BY <1>4, <2>1, RemovingEffect DEF RemoveStaleTrackables, Removing, BeforeLine
<1>5. CASE ProcessCrossedTrackables
  <2>1. Ids' = Ids \ Crossed /\ \A k \in Ids' : trackedHulls'[k] = trackedHulls[k]
    BY <1>5, RemovingEffect DEF ProcessCrossedTrackables
  <2>2. \A k \in Ids' : trackedHulls'[k].y <= BoundaryY
    BY <1>0, <2>1 DEF Crossed
  <2> QED  BY <1>0, <2>1, <2>2 DEF BeforeLine
<1>6. CASE AddTrackable
  <2>1. \A k \in Ids' : trackedHulls'[k].y <= BoundaryY
    <3>1. pc = "add" /\ \A k \in Ids : trackedHulls[k].y <= BoundaryY
      BY <1>6, AddEffect DEF BeforeLine
    <3>2. CASE UNCHANGED trackedHulls
      BY <3>1, <3>2 DEF Ids
    <3>3. CASE \E i \in Unmatched :
                 /\ y[newHulls[i]] <= BoundaryY
                 /\ Ids' = Ids \cup {WrappedId}
                 /\ trackedHulls'[WrappedId] = HullOf(i)
                 /\ \A k \in Ids \ {WrappedId} : trackedHulls'[k] = trackedHulls[k]
      BY <3>1, <3>3 DEF HullOf
    <3> QED  BY <1>6, <3>2, <3>3, AddEffect
  <2>2. \A k \in Ids' : trackedHulls'[k].y \in Int
    BY <1>6, TypedStep, HullKept DEF Typed, TypeOK, Seen, Next
  <2> QED  BY <1>0, <2>1, <2>2 DEF BeforeLine
<1>7. CASE UpdateReturns
  BY <1>7 DEF UpdateReturns, BeforeLine, Ids
<1>8. CASE UNCHANGED vars
  BY <1>8 DEF vars, BeforeLine, Ids
<1> QED  BY <1>1, <1>2, <1>3, <1>4, <1>5, <1>6, <1>7, <1>8 DEF Next

(* See CountedWhenSeen: for any traffic.                                   *)
THEOREM CountsTheSeen == Spec => []CountedWhenSeen
<1>1. Init => BeforeLine
  BY NoHulls DEF Init, BeforeLine, Ids
<1>2. BeforeLine => CountedWhenSeen
  BY DEF BeforeLine, CountedWhenSeen, Crossed
<1> QED  BY <1>1, <1>2, InitTyped, TypedStep, BeforeLineStep, PTL DEF Spec

-----------------------------------------------------------------------------
(* Traffic the tracker can tell apart.                                     *)

Alike(area, other) == 100 * Abs(area - other) <= HullAreaThreshold * area
AllAlike == \A c, d \in Cars : Alike(Area[c], Area[d])

(* How far a vehicle drives in n frames, and while its hull is kept.       *)
Drift(n) == MaxStep * n
Reach == Drift(MaxFramesNotSeen + 1)

(* The hull of a vehicle that has left is in reach of one that has just    *)
(* come into view if it was last seen before here.                         *)
Entrance == MaxDiffDistance + MaxStep

Separated ==
  /\ Reach < MaxDiffDistance
  /\ MaxDiffDistance + Reach <= MinGap
  /\ Reach <= BoundaryY
  /\ MinGap + MaxStep <= EndY + 1
  /\ \A t \in TurnOffY : t >= MinGap \/ (t < Entrance /\ AllAlike)

Near(at, age, place) ==
  /\ place \in Seen
  /\ place - at <= Drift(age)
  /\ at <= place \/ at < Entrance
Far(at, age, place) ==
  \/ place - at >= MinGap
  \/ at - place >= MinGap - Drift(age)

LEMMA MoreConstantTypes ==
  /\ MaxStep \in Nat /\ MaxStep > 0 /\ MinGap \in Nat /\ MinGap > 0
  /\ MaxDiffDistance \in Nat /\ HullAreaThreshold \in Nat
BY TrackerAssumption

LEMMA DriftTypes ==
  ASSUME NEW n \in Nat
  PROVE  /\ Drift(n) \in Nat
         /\ Drift(n + 1) = Drift(n) + MaxStep
         /\ n <= MaxFramesNotSeen + 1 => Drift(n) <= Reach
<1>1. Drift(n) \in Nat /\ Drift(n + 1) = Drift(n) + MaxStep
  BY MoreConstantTypes DEF Drift
<1>2. ASSUME n <= MaxFramesNotSeen + 1
      PROVE  Drift(n) <= Reach
  <2>1. PICK k \in Nat : MaxFramesNotSeen + 1 = n + k
    <3>1. MaxFramesNotSeen + 1 - n \in Nat /\ MaxFramesNotSeen + 1 = n + (MaxFramesNotSeen + 1 - n)
      BY <1>2, ConstantTypes
    <3> QED  BY <3>1
  <2>2. MaxStep * (n + k) = MaxStep * n + MaxStep * k /\ MaxStep * k \in Nat /\ MaxStep * n \in Nat
    BY MoreConstantTypes
  <2> QED  BY <2>1, <2>2 DEF Drift, Reach
<1> QED  BY <1>1, <1>2

LEMMA DriftZero == Drift(0) = 0 /\ Reach \in Nat /\ Reach >= MaxStep
<1>1. Drift(0) = 0
  BY MoreConstantTypes DEF Drift
<1>2. 0 \in Nat /\ 0 + 1 = 1 /\ 1 \in Nat /\ 1 <= MaxFramesNotSeen + 1 /\ MaxFramesNotSeen + 1 \in Nat
  BY ConstantTypes
<1>3. Drift(1) = MaxStep
  BY <1>1, <1>2, DriftTypes, MoreConstantTypes
<1>4. Drift(1) <= Reach /\ Reach \in Nat
  BY <1>2, DriftTypes DEF Reach
<1> QED  BY <1>1, <1>3, <1>4, MoreConstantTypes

LEMMA NearAndFarMove ==
  ASSUME NEW at \in Seen, NEW age \in Nat, NEW place \in Seen, NEW next \in Seen,
         place <= next, next <= place + MaxStep
  PROVE  /\ Near(at, age, place) => Near(at, age + 1, next)
         /\ Far(at, age, place) => Far(at, age + 1, next)
<1>1. Drift(age) \in Nat /\ Drift(age + 1) = Drift(age) + MaxStep
  BY DriftTypes
<1> QED  BY <1>1, ConstantTypes, MoreConstantTypes DEF Near, Far, Seen, Entrance

LEMMA NearIsInReach ==
  ASSUME Separated, NEW at \in Seen, NEW age \in 0 .. MaxFramesNotSeen + 1, NEW place \in Seen,
         place >= MaxStep
  PROVE  /\ Near(at, age, place) => Abs(at - place) < MaxDiffDistance
         /\ Far(at, age, place) => ~ (Abs(at - place) < MaxDiffDistance)
<1>1. age \in Nat /\ age <= MaxFramesNotSeen + 1
  BY ConstantTypes
<1>2. Drift(age) \in Nat /\ Drift(age) <= Reach /\ Reach \in Nat
  BY <1>1, DriftTypes, DriftZero
<1> QED  BY <1>2, ConstantTypes, MoreConstantTypes DEF Near, Far, Seen, Entrance, Separated, Abs

-----------------------------------------------------------------------------
(* Which hull is of which vehicle.                                         *)

(* The frames since the hull was last seen, this one included.             *)
Age(id) == trackedHulls[id].framesSinceSeen + (IF id \in todo THEN 1 ELSE 0)
Follows(id, c) == Near(trackedHulls[id].y, Age(id), y[c])
Apart(id, c) == Far(trackedHulls[id].y, Age(id), y[c])
Followed(c) == \E id \in Ids : Follows(id, c)

Traffic ==
  /\ KeepsDistance(y)
  /\ \A c \in Cars :
       /\ y[c] \in Seen => y[c] >= MaxStep
       /\ y[c] = Ahead => sighted[c] = "no"
       /\ sighted[c] \in {"beyond", "late"} => y[c] > BoundaryY

Listed ==
  \A i \in DOMAIN newHulls :
    /\ \A j \in DOMAIN newHulls : newHulls[i] = newHulls[j] => i = j
    /\ y[newHulls[i]] <= BoundaryY => sighted[newHulls[i]] = "before"
    /\ y[newHulls[i]] > BoundaryY => sighted[newHulls[i]] \in {"beyond", "late"}

LEMMA FrameMoves ==
  ASSUME Typed, NEW driving \in SUBSET Cars, NEW found \in SUBSET Cars, NEW turning,
         turning = {} \/ \E c \in Cars : turning = {c},
         NewFrame(driving, turning, found), NEW c \in Cars
  PROVE  /\ y[c] = Ahead => y'[c] \in {Ahead, MaxStep, Gone}
         /\ y[c] \in Seen /\ y'[c] \in Seen => y[c] <= y'[c] /\ y'[c] <= y[c] + MaxStep
         /\ y[c] \in Seen /\ y'[c] \notin Seen => y[c] \in TurnOffY \/ y[c] + MaxStep >= Gone
         /\ y[c] = Gone => y'[c] = Gone
         /\ y'[c] = Ahead => y[c] = Ahead
         /\ c \in found => y'[c] \in Seen
         /\ c \in found /\ y'[c] <= BoundaryY => sighted'[c] = "before"
         /\ c \in found /\ y'[c] > BoundaryY =>
              sighted'[c] = (IF sighted[c] = "no" THEN "late"
                             ELSE IF sighted[c] = "before" THEN "beyond" ELSE sighted[c])
         /\ c \notin found => sighted'[c] = sighted[c]
<1>1. /\ y' = [d \in Cars |->
               IF d \in turning THEN Gone
               ELSE IF d \notin driving THEN y[d]
               ELSE IF y[d] + MaxStep < Gone THEN y[d] + MaxStep ELSE Gone]
      /\ \A d \in turning : y[d] \in TurnOffY
      /\ found \subseteq {d \in Cars : y'[d] \in Seen}
  BY DEF NewFrame
<1>2. sighted' = [d \in Cars |->
         IF d \in found /\ y'[d] <= BoundaryY THEN "before"
         ELSE IF d \in found THEN (IF sighted[d] = "no" THEN "late"
                                   ELSE IF sighted[d] = "before" THEN "beyond" ELSE sighted[d])
         ELSE sighted[d]]
  BY DEF NewFrame
<1>3. y[c] \in 0 .. EndY + 1 /\ y[c] \in Int /\ TurnOffY \subseteq Nat \ {0}
  BY PlaceType, TrackerAssumption
<1>4. y'[c] = (IF c \in turning THEN Gone
               ELSE IF c \notin driving THEN y[c]
               ELSE IF y[c] + MaxStep < Gone THEN y[c] + MaxStep ELSE Gone)
  BY <1>1
<1>5. c \in turning => y[c] \in TurnOffY
  BY <1>1
<1>6. sighted'[c] = (IF c \in found /\ y'[c] <= BoundaryY THEN "before"
         ELSE IF c \in found THEN (IF sighted[c] = "no" THEN "late"
                                   ELSE IF sighted[c] = "before" THEN "beyond" ELSE sighted[c])
         ELSE sighted[c])
  BY <1>2
<1>7. c \in found => y'[c] \in Seen
  BY <1>1
<1>8. y'[c] \in Int
  BY <1>3, <1>4, ConstantTypes, MoreConstantTypes DEF Gone
<1>9. /\ c \in found /\ y'[c] <= BoundaryY => sighted'[c] = "before"
      /\ c \in found /\ y'[c] > BoundaryY =>
              sighted'[c] = (IF sighted[c] = "no" THEN "late"
                             ELSE IF sighted[c] = "before" THEN "beyond" ELSE sighted[c])
      /\ c \notin found => sighted'[c] = sighted[c]
  BY <1>6, <1>8, ConstantTypes
<1>10. /\ y[c] = Ahead => y'[c] \in {Ahead, MaxStep, Gone}
       /\ y[c] \in Seen /\ y'[c] \in Seen => y[c] <= y'[c] /\ y'[c] <= y[c] + MaxStep
       /\ y[c] \in Seen /\ y'[c] \notin Seen => y[c] \in TurnOffY \/ y[c] + MaxStep >= Gone
       /\ y[c] = Gone => y'[c] = Gone
       /\ y'[c] = Ahead => y[c] = Ahead
  BY <1>3, <1>4, <1>5, ConstantTypes, MoreConstantTypes DEF Gone, Seen, Ahead
<1> QED  BY <1>7, <1>9, <1>10

LEMMA TrafficStep ==
  ASSUME Typed, Traffic, Listed, [Next]_vars
  PROVE  Traffic' /\ Listed'
<1>1. ASSUME NEW driving \in SUBSET Cars, NEW found \in SUBSET Cars,
             NEW turning \in {{}} \cup {{c} : c \in Cars}, NewFrame(driving, turning, found)
      PROVE  Traffic' /\ Listed'
  <2>1. turning = {} \/ \E c \in Cars : turning = {c}
    OBVIOUS
  <2>2. KeepsDistance(y')
    BY <1>1 DEF NewFrame
  <2>3. ASSUME NEW c \in Cars
        PROVE  /\ y'[c] \in Seen => y'[c] >= MaxStep
               /\ y'[c] = Ahead => sighted'[c] = "no"
               /\ sighted'[c] \in {"beyond", "late"} => y'[c] > BoundaryY
    <3>1. y[c] \in 0 .. EndY + 1 /\ y'[c] \in 0 .. EndY + 1 /\ y[c] \in Int
      BY <1>1, <2>1, PlaceType, FrameEffect, ConstantTypes DEF Gone
    <3>2. /\ y[c] \in Seen => y[c] >= MaxStep
          /\ y[c] = Ahead => sighted[c] = "no"
          /\ sighted[c] \in {"beyond", "late"} => y[c] > BoundaryY
      BY DEF Traffic
    <3> DEFINE moves == /\ y[c] = Ahead => y'[c] \in {Ahead, MaxStep, Gone}
                        /\ y[c] \in Seen /\ y'[c] \in Seen => y[c] <= y'[c]
                        /\ y[c] = Gone => y'[c] = Gone
                        /\ y'[c] = Ahead => y[c] = Ahead
                        /\ c \in found => y'[c] \in Seen
                        /\ c \notin found => sighted'[c] = sighted[c]
    <3>0. moves
      BY <1>1, <2>1, FrameMoves
    <3>3. y'[c] \in Seen => y'[c] >= MaxStep
      BY <3>0, <3>1, <3>2, ConstantTypes, MoreConstantTypes DEF Seen, Ahead, Gone
    <3>4. y'[c] = Ahead => sighted'[c] = "no"
      BY <3>0, <3>1, <3>2, ConstantTypes DEF Seen, Ahead
    <3>5. ASSUME sighted'[c] \in {"beyond", "late"}
          PROVE  y'[c] > BoundaryY
      <4>1. CASE c \in found
        BY <1>1, <2>1, <3>1, <3>5, <4>1, FrameMoves, ConstantTypes
      <4>2. CASE c \notin found
        <5>1. y[c] > BoundaryY
          BY <1>1, <2>1, <3>2, <3>5, <4>2, FrameMoves
        <5> QED  BY <3>0, <3>1, <5>1, ConstantTypes DEF Seen, Ahead, Gone
      <4> QED  BY <4>1, <4>2
    <3> QED  BY <3>3, <3>4, <3>5
  <2>4. Traffic'
    BY <2>2, <2>3 DEF Traffic, KeepsDistance
  <2>5. Listed'
    <3> SUFFICES ASSUME NEW i \in DOMAIN newHulls'
                 PROVE  /\ \A j \in DOMAIN newHulls' : newHulls'[i] = newHulls'[j] => i = j
                        /\ y'[newHulls'[i]] <= BoundaryY => sighted'[newHulls'[i]] = "before"
                        /\ y'[newHulls'[i]] > BoundaryY => sighted'[newHulls'[i]] \in {"beyond", "late"}
      BY Zenon DEF Listed
    <3>1. newHulls'[i] \in found /\ \A j \in DOMAIN newHulls' : newHulls'[i] = newHulls'[j] => i = j
      BY <1>1, <2>1, FrameEffect
    <3>2. sighted[newHulls'[i]] \in {"no", "before", "beyond", "late"}
      BY <3>1 DEF Typed, TypeOK
    <3> QED  BY <1>1, <2>1, <3>1, <3>2, FrameMoves
  <2> QED  BY <2>4, <2>5
<1>2. CASE ResetTrackerVariables
  <2>1. newHulls = <<>>
    BY <1>2 DEF ResetTrackerVariables, Typed, InUpdate
  <2> QED  BY <1>2, <2>1, NoHulls DEF ResetTrackerVariables, Traffic, KeepsDistance, Listed, Typed, TypeOK
<1>3. ASSUME NEW id \in todo, MatchTrackable(id)
      PROVE  Traffic' /\ Listed'
  <2>1. UNCHANGED <<y, sighted, newHulls>>
    BY <1>3, MatchEffect
  <2> QED  BY <2>1 DEF Traffic, KeepsDistance, Listed
<1>4. CASE RemoveStaleTrackables
  BY <1>4 DEF RemoveStaleTrackables, Removing, world, Traffic, KeepsDistance, Listed
<1>5. CASE ProcessCrossedTrackables
  BY <1>5 DEF ProcessCrossedTrackables, world, Traffic, KeepsDistance, Listed
<1>6. CASE AddTrackable
  BY <1>6, AddEffect DEF Traffic, KeepsDistance, Listed
<1>7. CASE UpdateReturns
  BY <1>7, NoHulls DEF UpdateReturns, world, Traffic, KeepsDistance, Listed
<1>8. CASE UNCHANGED vars
  BY <1>8 DEF vars, world, Traffic, KeepsDistance, Listed
<1> QED  BY <1>1, <1>2, <1>3, <1>4, <1>5, <1>6, <1>7, <1>8 DEF Next

-----------------------------------------------------------------------------
(* A vehicle is followed by one hull at most, and every other hull is too  *)
(* far from it to be taken for its own.                                    *)

Pairs == \A id \in Ids, c \in Cars : y[c] \in Seen => Follows(id, c) \/ Apart(id, c)
Alone == \A id, k \in Ids, c \in Cars : Follows(id, c) /\ Follows(k, c) => id = k
OneAtEntrance == \A id, k \in Ids :
  trackedHulls[id].y < Entrance /\ trackedHulls[k].y < Entrance => id = k

(* A hull whose vehicle has left is at the entrance, or clear of it for as *)
(* long as it is kept.                                                     *)
Clear(id) == trackedHulls[id].y >= MinGap + MaxStep - Drift(Age(id))
Leaving == \A id \in Ids :
  \/ \E c \in Cars : Follows(id, c)
  \/ Clear(id)
  \/ trackedHulls[id].y < Entrance /\ AllAlike

Resembling == \A id \in Ids :
  /\ \E c \in Cars : trackedHulls[id].area = Area[c]
  /\ \A c \in Cars : Follows(id, c) => Alike(trackedHulls[id].area, Area[c])

(* Nobody crosses the line unseen and then revives an old hull.            *)
Sightings == \A id \in Ids, c \in Cars :
  Follows(id, c) =>
    /\ sighted[c] # "late"
    /\ sighted[c] = "no" => y[c] <= Drift(Age(id))

(* What the matching loop is through with has taken what it follows.       *)
MatchedOwn == \A id \in Ids \ todo, i \in Unmatched : ~ Follows(id, newHulls[i])

CrossedExits == \A id \in Ids :
  trackedHulls[id].y > BoundaryY => \E c \in Exits : Follows(id, c)

Following ==
  /\ Pairs /\ Alone /\ OneAtEntrance /\ Leaving /\ Resembling
  /\ Sightings /\ MatchedOwn /\ CrossedExits

LEMMA AgeType ==
  ASSUME Typed, NEW id \in Ids
  PROVE  /\ Age(id) \in 0 .. MaxFramesNotSeen + 1 /\ Age(id) \in Nat
         /\ Drift(Age(id)) \in Nat /\ Drift(Age(id)) <= Reach
         /\ trackedHulls[id].y \in Seen /\ trackedHulls[id].y \in Int
         /\ trackedHulls[id].area \in Nat
         /\ id \notin todo => Age(id) = trackedHulls[id].framesSinceSeen
<1>1. trackedHulls[id] \in Hull
  BY HullKept
<1>2. id \in todo => trackedHulls[id].framesSinceSeen <= MaxFramesNotSeen
  BY DEF Typed, InUpdate
<1>3. Age(id) \in 0 .. MaxFramesNotSeen + 1 /\ Age(id) \in Nat
  BY <1>1, <1>2, ConstantTypes DEF Hull, Age
<1>4. Drift(Age(id)) \in Nat /\ Drift(Age(id)) <= Reach
  BY <1>3, DriftTypes, ConstantTypes
<1>5. id \notin todo => Age(id) = trackedHulls[id].framesSinceSeen
  BY <1>1, ConstantTypes DEF Hull, Age
<1> QED  BY <1>1, <1>3, <1>4, <1>5, ConstantTypes DEF Hull, Seen

LEMMA FollowsOrApart ==
  ASSUME Typed, Traffic, Separated, NEW id \in Ids, NEW c \in Cars
  PROVE  /\ Follows(id, c) => y[c] \in Seen /\ Abs(trackedHulls[id].y - y[c]) < MaxDiffDistance
         /\ y[c] \in Seen /\ Apart(id, c) =>
              ~ Follows(id, c) /\ ~ (Abs(trackedHulls[id].y - y[c]) < MaxDiffDistance)
<1>1. Follows(id, c) => y[c] \in Seen
  BY DEF Follows, Near
<1>2. y[c] \in Seen => y[c] >= MaxStep
  BY DEF Traffic
<1> QED  BY <1>1, <1>2, AgeType, NearIsInReach DEF Follows, Apart

(* The hull just seen is that of one vehicle.                              *)
LEMMA OwnHull ==
  ASSUME Typed, Traffic, Separated, NEW i \in DOMAIN newHulls, NEW c \in Cars
  PROVE  /\ c = newHulls[i] => Near(y[newHulls[i]], 0, y[c])
         /\ c # newHulls[i] => ~ Near(y[newHulls[i]], 0, y[c])
         /\ c # newHulls[i] /\ y[c] \in Seen => Far(y[newHulls[i]], 0, y[c])
<1>1. newHulls[i] \in Cars /\ y[newHulls[i]] \in Seen
  BY CarOfHull
<1>2. Drift(0) = 0
  BY DriftZero
<1>3. c = newHulls[i] => Near(y[newHulls[i]], 0, y[c])
  BY <1>1, <1>2, ConstantTypes DEF Near, Seen
<1>4. ASSUME c # newHulls[i], y[c] \in Seen
      PROVE  Far(y[newHulls[i]], 0, y[c])
  <2>1. c < newHulls[i] \/ newHulls[i] < c
    <3>1. c \in Nat /\ newHulls[i] \in Nat
      BY <1>1, TrackerAssumption
    <3> QED  BY <1>4, <3>1
  <2>2. y[c] - y[newHulls[i]] >= MinGap \/ y[newHulls[i]] - y[c] >= MinGap
    BY <1>1, <1>4, <2>1 DEF Traffic, KeepsDistance
  <2> QED  BY <1>2, <2>2, MoreConstantTypes DEF Far
<1>5. ASSUME c # newHulls[i], y[c] \in Seen
      PROVE  ~ Near(y[newHulls[i]], 0, y[c])
  <2>1. 0 \in 0 .. MaxFramesNotSeen + 1 /\ y[c] >= MaxStep
    BY <1>5, ConstantTypes DEF Traffic
  <2> QED  BY <1>1, <1>4, <1>5, <2>1, NearIsInReach
<1> QED  BY <1>3, <1>4, <1>5 DEF Near

LEMMA AlikeItself ==
  ASSUME NEW c \in Cars
  PROVE  Alike(Area[c], Area[c])
<1>1. Area[c] \in Nat /\ HullAreaThreshold \in Nat
  BY ConstantTypes, MoreConstantTypes
<1>2. HullAreaThreshold * Area[c] \in Nat /\ Abs(Area[c] - Area[c]) = 0
  BY <1>1 DEF Abs
<1> QED  BY <1>2 DEF Alike

-----------------------------------------------------------------------------
(* A new frame: a vehicle that was in view is followed or apart as before, *)
(* and one that comes into view meets a hull at the entrance or none.      *)

LEMMA FrameKeeps ==
  ASSUME Typed, Separated, NEW driving \in SUBSET Cars, NEW found \in SUBSET Cars, NEW turning,
         turning = {} \/ \E c \in Cars : turning = {c},
         NewFrame(driving, turning, found)
  PROVE  /\ UNCHANGED <<trackedHulls, hullCount>> /\ Ids' = Ids /\ todo' = Ids
         /\ \A id \in Ids : Age(id)' = Age(id) + 1 /\ Age(id) <= MaxFramesNotSeen
<1>1. /\ UNCHANGED <<trackedHulls, hullCount>> /\ todo' = Ids /\ pc = "frame"
  BY FrameEffect
<1>2. todo = {} /\ \A id \in Ids : trackedHulls[id].framesSinceSeen <= MaxFramesNotSeen
  BY <1>1 DEF Typed, InUpdate
<1>3. \A id \in Ids : trackedHulls[id].framesSinceSeen \in Nat
  BY HullKept, ConstantTypes DEF Hull
<1> QED  BY <1>1, <1>2, <1>3 DEF Age, Ids

LEMMA InViewKept ==
  ASSUME Typed, Traffic, Separated, NEW driving \in SUBSET Cars, NEW found \in SUBSET Cars, NEW turning,
         turning = {} \/ \E c \in Cars : turning = {c},
         NewFrame(driving, turning, found), Typed', Traffic',
         NEW id \in Ids, NEW c \in Cars, y[c] \in Seen, y'[c] \in Seen
  PROVE  /\ Follows(id, c) => Follows(id, c)'
         /\ Apart(id, c) => Apart(id, c)'
<1>1. y[c] <= y'[c] /\ y'[c] <= y[c] + MaxStep
  BY FrameMoves
<1>2. Age(id)' = Age(id) + 1 /\ Age(id) \in Nat /\ trackedHulls' = trackedHulls /\ trackedHulls[id].y \in Seen
  BY FrameKeeps, AgeType
<1> QED  BY <1>1, <1>2, NearAndFarMove DEF Follows, Apart

LEMMA ApartNext ==
  ASSUME Typed, Traffic', Separated, NEW driving \in SUBSET Cars, NEW found \in SUBSET Cars, NEW turning,
         turning = {} \/ \E c \in Cars : turning = {c},
         NewFrame(driving, turning, found),
         NEW id \in Ids, NEW c \in Cars, y'[c] \in Seen, Apart(id, c)'
  PROVE  ~ Follows(id, c)'
<1>1. /\ Age(id)' = Age(id) + 1 /\ Age(id) <= MaxFramesNotSeen /\ Age(id) \in Nat
      /\ trackedHulls' = trackedHulls /\ trackedHulls[id].y \in Seen
  BY FrameKeeps, AgeType
<1>2. Age(id)' \in 0 .. MaxFramesNotSeen + 1
  BY <1>1, ConstantTypes
<1>3. y'[c] >= MaxStep
  BY DEF Traffic
<1>4. ~ Near(trackedHulls[id].y, Age(id)', y'[c])
  <2>1. Far(trackedHulls[id].y, Age(id)', y'[c])
    BY <1>1 DEF Apart
  <2> QED  BY <1>1, <1>2, <1>3, <2>1, NearIsInReach
<1> QED  BY <1>1, <1>4 DEF Follows

(* Who comes into view is apart from every hull, or meets one left at the  *)
(* entrance.                                                               *)
LEMMA LeavesClear ==
  ASSUME Typed, Traffic, Traffic', Separated, NEW driving \in SUBSET Cars, NEW found \in SUBSET Cars,
         NEW turning, turning = {} \/ \E c \in Cars : turning = {c},
         NewFrame(driving, turning, found),
         NEW id \in Ids, NEW e \in Cars, Follows(id, e), y'[e] \notin Seen
  PROVE  Clear(id)' \/ (trackedHulls[id].y < Entrance /\ AllAlike)
<1>1. /\ y[e] \in Seen /\ y[e] - trackedHulls[id].y <= Drift(Age(id))
      /\ trackedHulls[id].y <= y[e] \/ trackedHulls[id].y < Entrance
  BY DEF Follows, Near
<1>2. /\ Age(id)' = Age(id) + 1 /\ Age(id) \in Nat /\ trackedHulls' = trackedHulls
      /\ trackedHulls[id].y \in Int
      /\ Drift(Age(id)) \in Nat /\ Drift(Age(id) + 1) = Drift(Age(id)) + MaxStep
  BY FrameKeeps, AgeType, DriftTypes
<1>3. y[e] \in TurnOffY \/ y[e] + MaxStep >= Gone
  BY <1>1, FrameMoves
<1>4. y[e] \in Int
  BY PlaceType
<1>5. y[e] >= MinGap \/ (y[e] < Entrance /\ AllAlike)
  BY <1>3, <1>4, ConstantTypes, MoreConstantTypes DEF Separated, Gone
<1>6. CASE y[e] >= MinGap
  <2>1. trackedHulls[id].y >= MinGap + MaxStep - Drift(Age(id) + 1)
    BY <1>1, <1>2, <1>4, <1>6, MoreConstantTypes
  <2> QED  BY <1>2, <2>1 DEF Clear
<1>7. CASE y[e] < Entrance /\ AllAlike
  <2>1. Entrance \in Int
    BY MoreConstantTypes DEF Entrance
  <2> QED  BY <1>1, <1>2, <1>4, <1>7, <2>1
<1> QED  BY <1>5, <1>6, <1>7

LEMMA ClearStays ==
  ASSUME Typed, Separated, NEW driving \in SUBSET Cars, NEW found \in SUBSET Cars,
         NEW turning, turning = {} \/ \E c \in Cars : turning = {c},
         NewFrame(driving, turning, found), NEW id \in Ids, Clear(id)
  PROVE  Clear(id)'
<1>1. /\ Age(id)' = Age(id) + 1 /\ Age(id) \in Nat /\ trackedHulls' = trackedHulls
      /\ trackedHulls[id].y \in Int
      /\ Drift(Age(id)) \in Nat /\ Drift(Age(id) + 1) = Drift(Age(id)) + MaxStep
  BY FrameKeeps, AgeType, DriftTypes
<1>2. trackedHulls[id].y >= MinGap + MaxStep - Drift(Age(id) + 1)
  BY <1>1, MoreConstantTypes DEF Clear
<1> QED  BY <1>1, <1>2 DEF Clear

LEMMA LeavingStays ==
  ASSUME Typed, Traffic, Typed', Traffic', Separated, Leaving,
         NEW driving \in SUBSET Cars, NEW found \in SUBSET Cars,
         NEW turning, turning = {} \/ \E c \in Cars : turning = {c},
         NewFrame(driving, turning, found)
  PROVE  Leaving'
<1>1. Ids' = Ids /\ trackedHulls' = trackedHulls
  BY FrameKeeps
<1>2. ASSUME NEW id \in Ids
      PROVE  \/ \E c \in Cars : Follows(id, c)'
             \/ Clear(id)'
             \/ trackedHulls[id].y < Entrance /\ AllAlike
  <2>1. CASE Clear(id) \/ (trackedHulls[id].y < Entrance /\ AllAlike)
    BY <2>1, ClearStays
  <2>2. ASSUME NEW e \in Cars, Follows(id, e)
        PROVE  \/ Follows(id, e)'
               \/ Clear(id)'
               \/ trackedHulls[id].y < Entrance /\ AllAlike
    <3>1. y[e] \in Seen
      BY <2>2 DEF Follows, Near
    <3> QED  BY <2>2, <3>1, InViewKept, LeavesClear
  <2> QED  BY <2>1, <2>2 DEF Leaving
<1> QED  BY <1>1, <1>2 DEF Leaving

LEMMA ComesIntoView ==
  ASSUME Typed, Traffic, Typed', Traffic', Separated, Leaving,
         NEW driving \in SUBSET Cars, NEW found \in SUBSET Cars,
         NEW turning, turning = {} \/ \E c \in Cars : turning = {c},
         NewFrame(driving, turning, found),
         NEW id \in Ids, NEW c \in Cars, y[c] = Ahead, y'[c] \in Seen
  PROVE  \/ Apart(id, c)'
         \/ Follows(id, c)' /\ trackedHulls[id].y < Entrance /\ AllAlike
<1>1. y'[c] = MaxStep
  <2>1. y'[c] \in {Ahead, MaxStep, Gone}
    BY FrameMoves
  <2> QED  BY <2>1, ConstantTypes DEF Ahead, Gone, Seen
<1>2. /\ Age(id)' = Age(id) + 1 /\ Age(id) \in Nat /\ trackedHulls' = trackedHulls
      /\ trackedHulls[id].y \in Int /\ trackedHulls[id].y \in Seen
      /\ Drift(Age(id)) \in Nat /\ Drift(Age(id) + 1) = Drift(Age(id)) + MaxStep
  BY FrameKeeps, AgeType, DriftTypes
<1>3. CASE Clear(id)'
  <2>1. trackedHulls[id].y - MaxStep >= MinGap - Drift(Age(id) + 1)
    BY <1>2, <1>3, MoreConstantTypes DEF Clear
  <2> QED  BY <1>1, <1>2, <2>1 DEF Apart, Far
<1>4. CASE trackedHulls[id].y < Entrance /\ AllAlike
  <2>1. MaxStep - trackedHulls[id].y <= Drift(Age(id) + 1)
    BY <1>2, MoreConstantTypes DEF Seen
  <2>2. Near(trackedHulls[id].y, Age(id) + 1, MaxStep)
    BY <1>1, <1>4, <2>1 DEF Near
  <2> QED  BY <1>1, <1>2, <1>4, <2>2 DEF Follows
<1>5. ASSUME NEW e \in Cars, Follows(id, e)
      PROVE  Apart(id, c)' \/ Clear(id)' \/ (trackedHulls[id].y < Entrance /\ AllAlike)
  <2>1. y[e] \in Seen
    BY <1>5 DEF Follows, Near
  <2>2. CASE y'[e] \in Seen
    <3>1. Follows(id, e)'
      BY <1>5, <2>1, <2>2, InViewKept
    <3>2. y'[e] - trackedHulls[id].y <= Drift(Age(id) + 1)
      BY <1>2, <3>1 DEF Follows, Near
    <3>3. e < c
      <4>1. ~ (c < e) /\ c # e
        <5>1. y[e] # Ahead
          BY <2>1 DEF Seen, Ahead
        <5> QED  BY <2>1, <5>1 DEF Traffic, KeepsDistance
      <4>2. c \in Nat /\ e \in Nat
        BY TrackerAssumption
      <4> QED  BY <4>1, <4>2
    <3>4. y'[e] - y'[c] >= MinGap
      BY <2>2, <3>3 DEF Traffic, KeepsDistance
    <3>5. y'[e] \in Int
      BY <2>2 DEF Seen
    <3>6. trackedHulls[id].y - MaxStep >= MinGap - Drift(Age(id) + 1)
      BY <1>1, <1>2, <3>2, <3>4, <3>5, MoreConstantTypes
    <3> QED  BY <1>1, <1>2, <3>6 DEF Apart, Far
  <2> QED  BY <1>5, <2>2, LeavesClear
<1>6. Clear(id) => Clear(id)'
  BY ClearStays
<1> QED  BY <1>3, <1>4, <1>5, <1>6 DEF Leaving

LEMMA GoneForGood ==
  ASSUME Typed, NEW driving \in SUBSET Cars, NEW found \in SUBSET Cars,
         NEW turning, turning = {} \/ \E c \in Cars : turning = {c},
         NewFrame(driving, turning, found), NEW c \in Cars, y'[c] \in Seen
  PROVE  y[c] # Gone
<1>1. y[c] = Gone => y'[c] = Gone
  BY FrameMoves
<1>2. Gone \notin Seen
  BY ConstantTypes DEF Gone, Seen
<1> QED  BY <1>1, <1>2

LEMMA FollowedBefore ==
  ASSUME Typed, Traffic, Typed', Traffic', Separated, Pairs,
         NEW driving \in SUBSET Cars, NEW found \in SUBSET Cars,
         NEW turning, turning = {} \/ \E c \in Cars : turning = {c},
         NewFrame(driving, turning, found), Leaving,
         NEW id \in Ids, NEW c \in Cars, Follows(id, c)'
  PROVE  /\ y'[c] \in Seen /\ y[c] \in Seen \cup {Ahead}
         /\ y[c] \in Seen => Follows(id, c)
         /\ y[c] = Ahead => trackedHulls[id].y < Entrance /\ AllAlike
<1>1. y'[c] \in Seen
  BY DEF Follows, Near
<1>2. y[c] \in Seen \cup {Ahead}
  <2>1. y[c] \in 0 .. EndY + 1 /\ y[c] # Gone
    BY <1>1, PlaceType, GoneForGood
  <2> QED  BY <2>1, ConstantTypes DEF Seen, Ahead, Gone
<1>3. ~ Apart(id, c)'
  BY <1>1, ApartNext
<1>4. y[c] \in Seen => Follows(id, c)
  <2> SUFFICES ASSUME y[c] \in Seen, ~ Follows(id, c)
               PROVE  FALSE
    OBVIOUS
  <2>1. Apart(id, c)
    BY DEF Pairs
  <2> QED  BY <1>1, <1>3, <2>1, InViewKept
<1>5. ASSUME y[c] = Ahead
      PROVE  trackedHulls[id].y < Entrance /\ AllAlike
  BY <1>1, <1>3, <1>5, ComesIntoView
<1> QED  BY <1>1, <1>2, <1>4, <1>5

LEMMA FollowingFrame ==
  ASSUME Typed, BeforeLine, Traffic, Listed, Separated, Following,
         Typed', Traffic', BeforeLine',
         NEW driving \in SUBSET Cars, NEW found \in SUBSET Cars,
         NEW turning, turning = {} \/ \E c \in Cars : turning = {c},
         NewFrame(driving, turning, found)
  PROVE  Following'
<1>1. Ids' = Ids /\ todo' = Ids /\ trackedHulls' = trackedHulls
  BY FrameKeeps
<1>2. ASSUME NEW id \in Ids, NEW c \in Cars, Follows(id, c)'
      PROVE  /\ y'[c] \in Seen /\ y[c] \in Seen \cup {Ahead}
             /\ y[c] \in Seen => Follows(id, c)
             /\ y[c] = Ahead => trackedHulls[id].y < Entrance /\ AllAlike
  BY <1>2, FollowedBefore DEF Following
<1>3. Pairs'
  <2> SUFFICES ASSUME NEW id \in Ids, NEW c \in Cars, y'[c] \in Seen
               PROVE  Follows(id, c)' \/ Apart(id, c)'
    BY <1>1 DEF Pairs
  <2>1. y[c] \in Seen \/ y[c] = Ahead
    <3>1. y[c] \in 0 .. EndY + 1 /\ y[c] # Gone
      BY PlaceType, GoneForGood
    <3> QED  BY <3>1, ConstantTypes DEF Seen, Ahead, Gone
  <2>2. CASE y[c] \in Seen
    BY <2>2, InViewKept DEF Following, Pairs
  <2>3. CASE y[c] = Ahead
    BY <2>3, ComesIntoView DEF Following
  <2> QED  BY <2>1, <2>2, <2>3
<1>4. Alone'
  <2> SUFFICES ASSUME NEW id \in Ids, NEW k \in Ids, NEW c \in Cars, Follows(id, c)', Follows(k, c)'
               PROVE  id = k
    BY <1>1 DEF Alone
  <2>1. CASE y[c] \in Seen
    BY <2>1, <1>2 DEF Following, Alone
  <2>2. CASE y[c] = Ahead
    BY <2>2, <1>2 DEF Following, OneAtEntrance
  <2> QED  BY <1>2, <2>1, <2>2
<1>5. OneAtEntrance'
  BY <1>1 DEF Following, OneAtEntrance
<1>6. Leaving'
  BY LeavingStays DEF Following
<1>7. Resembling'
  <2> SUFFICES ASSUME NEW id \in Ids
               PROVE  /\ \E c \in Cars : trackedHulls[id].area = Area[c]
                      /\ \A c \in Cars : Follows(id, c)' => Alike(trackedHulls[id].area, Area[c])
    BY <1>1 DEF Resembling
  <2>1. PICK d \in Cars : trackedHulls[id].area = Area[d]
    BY DEF Following, Resembling
  <2>2. ASSUME NEW c \in Cars, Follows(id, c)'
        PROVE  Alike(trackedHulls[id].area, Area[c])
    <3>1. CASE y[c] \in Seen
      BY <2>2, <3>1, <1>2 DEF Following, Resembling
    <3>2. CASE y[c] = Ahead
      BY <2>1, <2>2, <3>2, <1>2 DEF AllAlike
    <3> QED  BY <2>2, <1>2, <3>1, <3>2
  <2> QED  BY <2>1, <2>2
<1>8. Sightings'
  <2> SUFFICES ASSUME NEW id \in Ids, NEW c \in Cars, Follows(id, c)'
               PROVE  /\ sighted'[c] # "late"
                      /\ sighted'[c] = "no" => y'[c] <= Drift(Age(id)')
    BY <1>1 DEF Sightings
  <2>0. Age(id)' = Age(id) + 1 /\ Age(id) <= MaxFramesNotSeen /\ Age(id) \in Nat
    BY FrameKeeps, AgeType
  <2>1. /\ Age(id)' = Age(id) + 1 /\ Age(id) <= MaxFramesNotSeen /\ Age(id) \in Nat
        /\ Drift(Age(id)) \in Nat /\ Drift(Age(id) + 1) = Drift(Age(id)) + MaxStep
        /\ Age(id) + 1 \in Nat /\ Age(id) + 1 <= MaxFramesNotSeen + 1
    BY <2>0, DriftTypes, ConstantTypes
  <2>2. Drift(Age(id) + 1) <= Reach /\ Reach \in Nat /\ Reach <= BoundaryY
    BY <2>1, DriftTypes, DriftZero DEF Separated
  <2>3. y'[c] \in Int /\ y[c] \in Int
    BY <2>1, <1>2, PlaceType DEF Seen
  <2>4. sighted[c] # "late" /\ (sighted[c] = "no" => y'[c] <= Drift(Age(id) + 1))
    <3>1. CASE y[c] \in Seen
      <4>1. Follows(id, c) /\ y'[c] <= y[c] + MaxStep
        BY <1>2, <3>1, FrameMoves
      <4>2. sighted[c] # "late" /\ (sighted[c] = "no" => y[c] <= Drift(Age(id)))
        BY <4>1 DEF Following, Sightings
      <4> QED  BY <2>1, <2>3, <4>1, <4>2, MoreConstantTypes
    <3>2. CASE y[c] = Ahead
      <4>1. sighted[c] = "no" /\ y'[c] = MaxStep
        <5>1. y'[c] \in {Ahead, MaxStep, Gone} /\ y'[c] \in Seen
          BY <1>2, <3>2, FrameMoves
        <5> QED  BY <3>2, <5>1, ConstantTypes DEF Ahead, Gone, Seen, Traffic
      <4> QED  BY <2>1, <4>1, MoreConstantTypes
    <3> QED  BY <1>2, <3>1, <3>2
  <2>5. CASE c \in found /\ y'[c] <= BoundaryY
    BY <2>5, FrameMoves
  <2>6. CASE c \in found /\ y'[c] > BoundaryY
    <3>0. Drift(Age(id) + 1) \in Nat
      BY <2>1, DriftTypes
    <3>1. sighted[c] # "no"
      BY <3>0, <2>2, <2>3, <2>4, <2>6, ConstantTypes
    <3>2. sighted'[c] = (IF sighted[c] = "before" THEN "beyond" ELSE sighted[c])
      BY <2>6, <3>1, FrameMoves
    <3> QED  BY <2>4, <3>1, <3>2
  <2>7. CASE c \notin found
    BY <2>1, <2>4, <2>7, FrameMoves
  <2> QED  BY <2>3, <2>5, <2>6, <2>7, ConstantTypes
<1>9. MatchedOwn'
  BY <1>1 DEF MatchedOwn
<1>10. CrossedExits'
  <2>1. \A id \in Ids : trackedHulls[id].y <= BoundaryY /\ trackedHulls[id].y \in Int
    BY FrameEffect, AgeType DEF BeforeLine
  <2> QED  BY <1>1, <2>1, ConstantTypes DEF CrossedExits
<1> QED  BY <1>3, <1>4, <1>5, <1>6, <1>7, <1>8, <1>9, <1>10 DEF Following

(* Who has been seen beyond the line, and is not followed any more, stays so. *)
LEMMA UnfollowedFrame ==
  ASSUME Typed, Traffic, Typed', Traffic', Separated, Pairs,
         NEW driving \in SUBSET Cars, NEW found \in SUBSET Cars,
         NEW turning, turning = {} \/ \E c \in Cars : turning = {c},
         NewFrame(driving, turning, found), Leaving,
         NEW c \in Exits, ~ Followed(c)
  PROVE  c \in Exits' /\ ~ Followed(c)'
<1>1. c \in Cars /\ sighted[c] = "beyond" /\ y[c] > BoundaryY
  BY DEF Exits, Traffic
<1>2. Ids' = Ids
  BY FrameKeeps
<1>3. y[c] # Ahead
  BY <1>1, ConstantTypes DEF Ahead
<1>4. ~ Followed(c)'
  BY <1>1, <1>2, <1>3, FollowedBefore DEF Followed
<1>5. sighted'[c] = "beyond"
  <2>1. CASE c \in found
    <3>1. y[c] \in Int /\ y[c] \in 0 .. EndY + 1 /\ y'[c] \in Seen
      BY <1>1, <2>1, PlaceType, FrameMoves
    <3>2. y[c] \in Seen
      <4>1. y[c] # Gone
        BY <1>1, <3>1, GoneForGood
      <4> QED  BY <3>1, <4>1, <1>3, ConstantTypes DEF Gone, Seen, Ahead
    <3>4. y[c] <= y'[c]
      BY <1>1, <3>1, <3>2, FrameMoves
    <3>3. y'[c] > BoundaryY
      BY <1>1, <3>1, <3>4, ConstantTypes DEF Seen
    <3> QED  BY <1>1, <2>1, <3>3, FrameMoves
  <2>2. CASE c \notin found
    BY <1>1, <2>2, FrameMoves
  <2> QED  BY <2>1, <2>2
<1> QED  BY <1>1, <1>4, <1>5 DEF Exits

-----------------------------------------------------------------------------
(* The matching loop: a hull takes the one vehicle it follows, or misses   *)
(* it; whatever it takes, it was following.                                *)

LEMMA MatchLeavesOthers ==
  ASSUME Typed, NEW id \in todo, MatchTrackable(id), NEW k \in Ids, k # id, NEW c \in Cars
  PROVE  /\ trackedHulls'[k] = trackedHulls[k] /\ Age(k)' = Age(k)
         /\ Follows(k, c)' <=> Follows(k, c)
         /\ Apart(k, c)' <=> Apart(k, c)
         /\ k \in Ids' /\ (k \in todo' <=> k \in todo)
<1>1. /\ trackedHulls'[k] = trackedHulls[k] /\ y' = y
      /\ k \in Ids' /\ (k \in todo' <=> k \in todo)
  BY MatchEffect
<1>2. Age(k)' = Age(k)
  BY <1>1 DEF Age
<1> QED  BY <1>1, <1>2 DEF Follows, Apart

(* A hull that misses its vehicle follows it as before.                    *)
LEMMA MissKeeps ==
  ASSUME Typed, NEW id \in todo, MatchTrackable(id),
         trackedHulls'[id] = [trackedHulls[id] EXCEPT !.framesSinceSeen = @ + 1],
         NEW k \in Ids
  PROVE  /\ trackedHulls'[k].y = trackedHulls[k].y /\ trackedHulls'[k].area = trackedHulls[k].area
         /\ Age(k)' = Age(k)
         /\ \A c \in Cars : (Follows(k, c)' <=> Follows(k, c)) /\ (Apart(k, c)' <=> Apart(k, c))
<1>1. CASE k # id
  BY <1>1, MatchLeavesOthers, MatchEffect DEF Age
<1>2. CASE k = id
  <2>1. trackedHulls[id] \in Hull /\ id \notin todo' /\ y' = y
    BY MatchEffect, HullKept
  <2>2. /\ trackedHulls'[id].y = trackedHulls[id].y /\ trackedHulls'[id].area = trackedHulls[id].area
        /\ trackedHulls'[id].framesSinceSeen = trackedHulls[id].framesSinceSeen + 1
    BY <2>1 DEF Hull
  <2>3. Age(id)' = Age(id)
    <3>1. trackedHulls[id].framesSinceSeen + 1 \in Nat
      BY <2>1, ConstantTypes DEF Hull
    <3> QED  BY <2>1, <2>2, <3>1 DEF Age
  <2> QED  BY <1>2, <2>1, <2>2, <2>3 DEF Follows, Apart
<1> QED  BY <1>1, <1>2

(* A hull in reach of a vehicle, and of its size, is a candidate for it.   *)
LEMMA FollowedIsCandidate ==
  ASSUME Typed, Traffic, Separated, Resembling, Pairs, NEW id \in Ids, NEW i \in DOMAIN newHulls
  PROVE  Follows(id, newHulls[i]) <=> Candidate(trackedHulls[id], newHulls[i])
<1>1. newHulls[i] \in Cars /\ y[newHulls[i]] \in Seen
  BY CarOfHull
<1>2. Follows(id, newHulls[i]) => Candidate(trackedHulls[id], newHulls[i])
  BY <1>1, FollowsOrApart DEF Candidate, Resembling, Alike
<1>3. Candidate(trackedHulls[id], newHulls[i]) => Follows(id, newHulls[i])
  BY <1>1, FollowsOrApart DEF Candidate, Pairs
<1> QED  BY <1>2, <1>3

LEMMA TakeFollows ==
  ASSUME Typed, Traffic, Separated, Following, Typed', Traffic', NEW id \in todo, MatchTrackable(id),
         NEW i \in Unmatched, Candidate(trackedHulls[id], newHulls[i]),
         trackedHulls'[id] = HullOf(i)
  PROVE  /\ newHulls[i] \in Cars /\ y[newHulls[i]] \in Seen
         /\ id \in Ids /\ Follows(id, newHulls[i])
         /\ trackedHulls'[id].y = y[newHulls[i]] /\ trackedHulls'[id].area = Area[newHulls[i]]
         /\ Age(id)' = 0
         /\ \A c \in Cars : Follows(id, c)' <=> c = newHulls[i]
         /\ \A c \in Cars \ {newHulls[i]} : y[c] \in Seen => Apart(id, c)'
<1>1. id \in Ids /\ i \in DOMAIN newHulls /\ id \notin todo' /\ y' = y
  <2>1. id \in Ids /\ id \notin todo' /\ y' = y
    BY MatchEffect
  <2> QED  BY <2>1 DEF Unmatched
<1>2. newHulls[i] \in Cars /\ y[newHulls[i]] \in Seen /\ Follows(id, newHulls[i])
  BY <1>1, CarOfHull, FollowedIsCandidate DEF Following
<1>3. /\ trackedHulls'[id].y = y[newHulls[i]] /\ trackedHulls'[id].area = Area[newHulls[i]]
      /\ Age(id)' = 0
  BY <1>1 DEF HullOf, Age
<1>4. ASSUME NEW c \in Cars
      PROVE  /\ Follows(id, c)' <=> c = newHulls[i]
             /\ c # newHulls[i] /\ y[c] \in Seen => Apart(id, c)'
  BY <1>1, <1>3, OwnHull DEF Follows, Apart
<1> QED  BY <1>1, <1>2, <1>3, <1>4

LEMMA FollowingMatch ==
  ASSUME Typed, Traffic, Listed, Separated, Following, Typed', Traffic',
         NEW id \in todo, MatchTrackable(id)
  PROVE  Following' /\ \A c \in Cars : Followed(c)' => Followed(c)
<1>1. /\ y' = y /\ sighted' = sighted /\ newHulls' = newHulls
      /\ id \in Ids /\ Ids' = Ids /\ todo' = todo \ {id}
  BY MatchEffect
<1>2. ASSUME trackedHulls'[id] = [trackedHulls[id] EXCEPT !.framesSinceSeen = @ + 1],
             matched' = matched,
             \A i \in Unmatched : ~ Candidate(trackedHulls[id], newHulls[i])
      PROVE  Following' /\ \A c \in Cars : Followed(c)' => Followed(c)
  <2>1. \A k \in Ids :
          /\ trackedHulls'[k].y = trackedHulls[k].y /\ trackedHulls'[k].area = trackedHulls[k].area
          /\ Age(k)' = Age(k)
          /\ \A c \in Cars : (Follows(k, c)' <=> Follows(k, c)) /\ (Apart(k, c)' <=> Apart(k, c))
    BY <1>2, MissKeeps
  <2>2. Pairs' /\ Alone' /\ OneAtEntrance' /\ Resembling' /\ Sightings'
    BY <1>1, <2>1 DEF Following, Pairs, Alone, OneAtEntrance, Resembling, Sightings
  <2>3. Leaving'
    BY <1>1, <2>1 DEF Following, Leaving, Clear
  <2>4. Exits' = Exits /\ Unmatched' = Unmatched
    BY <1>1, <1>2 DEF Exits, Unmatched
  <2>5. CrossedExits'
    BY <1>1, <2>1, <2>4 DEF Following, CrossedExits, Exits
  <2>6. MatchedOwn'
    <3> SUFFICES ASSUME NEW k \in Ids \ todo', NEW i \in Unmatched
                 PROVE  ~ Follows(k, newHulls[i])'
      BY <1>1, <2>4 DEF MatchedOwn
    <3>1. i \in DOMAIN newHulls /\ newHulls[i] \in Cars
      BY CarOfHull DEF Unmatched
    <3>2. CASE k = id
      BY <1>2, <2>1, <3>1, <3>2, <1>1, FollowedIsCandidate DEF Following
    <3>3. CASE k # id
      BY <1>1, <2>1, <3>1, <3>3 DEF Following, MatchedOwn
    <3> QED  BY <3>2, <3>3
  <2> QED  BY <1>1, <2>1, <2>2, <2>3, <2>5, <2>6 DEF Following, Followed
<1>3. ASSUME NEW i \in Unmatched, Candidate(trackedHulls[id], newHulls[i]),
             matched' = matched \cup {i}, trackedHulls'[id] = HullOf(i)
      PROVE  Following' /\ \A c \in Cars : Followed(c)' => Followed(c)
  <2> DEFINE own == newHulls[i]
  <2>1. /\ own \in Cars /\ y[own] \in Seen /\ Follows(id, own)
        /\ trackedHulls'[id].y = y[own] /\ trackedHulls'[id].area = Area[own]
        /\ \A c \in Cars : Follows(id, c)' <=> c = own
        /\ \A c \in Cars \ {own} : y[c] \in Seen => Apart(id, c)'
    BY <1>3, TakeFollows
  <2>2. \A k \in Ids \ {id} :
          /\ trackedHulls'[k] = trackedHulls[k] /\ Age(k)' = Age(k)
          /\ \A c \in Cars : (Follows(k, c)' <=> Follows(k, c)) /\ (Apart(k, c)' <=> Apart(k, c))
          /\ k \in todo' <=> k \in todo
    <3> TAKE k \in Ids \ {id}
    <3>1. trackedHulls'[k] = trackedHulls[k] /\ (k \in todo' <=> k \in todo) /\ Age(k)' = Age(k)
      BY MatchEffect, <1>1 DEF Age
    <3> QED  BY <3>1, MatchLeavesOthers
  <2> HIDE DEF own
  <2>3. Pairs'
    BY <1>1, <2>1, <2>2 DEF Following, Pairs
  <2>4. Alone'
    BY <1>1, <2>1, <2>2 DEF Following, Alone
  <2>5. OneAtEntrance'
    <3>1. trackedHulls'[id].y < Entrance => trackedHulls[id].y < Entrance
      <4>1. trackedHulls[id].y <= y[own] \/ trackedHulls[id].y < Entrance
        BY <2>1 DEF Follows, Near
      <4>2. Entrance \in Int /\ trackedHulls[id].y \in Int /\ y[own] \in Int
        BY <1>1, <2>1, MoreConstantTypes, AgeType, PlaceType DEF Entrance
      <4> QED  BY <2>1, <4>1, <4>2
    <3> QED  BY <1>1, <2>2, <3>1 DEF Following, OneAtEntrance
  <2>6. Leaving'
    BY <1>1, <2>1, <2>2 DEF Following, Leaving, Clear
  <2>7. Resembling'
    BY <1>1, <2>1, <2>2, AlikeItself DEF Following, Resembling
  <2>8. sighted[own] # "no" /\ sighted[own] # "late" /\ (y[own] > BoundaryY => own \in Exits)
    <3>1. sighted[own] # "late"
      BY <1>1, <2>1 DEF Following, Sightings
    <3>2. /\ y[own] <= BoundaryY => sighted[own] = "before"
          /\ y[own] > BoundaryY => sighted[own] \in {"beyond", "late"}
      BY DEF Listed, Unmatched, own
    <3>3. y[own] \in Int
      BY <2>1, PlaceType
    <3> QED  BY <2>1, <3>1, <3>2, <3>3, ConstantTypes DEF Exits
  <2>9. Sightings'
    BY <1>1, <2>1, <2>2, <2>8 DEF Following, Sightings
  <2>10. CrossedExits'
    <3>1. Exits' = Exits /\ Exits \subseteq Cars
      BY <1>1 DEF Exits
    <3> QED  BY <1>1, <2>1, <2>2, <2>8, <3>1 DEF Following, CrossedExits
  <2>11. MatchedOwn'
    <3> SUFFICES ASSUME NEW k \in Ids \ todo', NEW j \in Unmatched \ {i}
                 PROVE  ~ Follows(k, newHulls[j])'
      BY <1>1, <1>3 DEF MatchedOwn, Unmatched
    <3>1. j \in DOMAIN newHulls /\ newHulls[j] \in Cars
      BY CarOfHull DEF Unmatched
    <3>2. newHulls[j] # own
      BY <3>1 DEF Listed, own, Unmatched
    <3>3. CASE k = id
      BY <1>1, <2>1, <3>1, <3>2, <3>3
    <3>4. CASE k # id
      BY <1>1, <2>2, <3>1, <3>4 DEF Following, MatchedOwn
    <3> QED  BY <3>3, <3>4
  <2>12. \A c \in Cars : Followed(c)' => Followed(c)
    BY <1>1, <2>1, <2>2 DEF Followed
  <2> QED  BY <2>3, <2>4, <2>5, <2>6, <2>7, <2>9, <2>10, <2>11, <2>12 DEF Following
<1> QED  BY <1>2, <1>3, MatchEffect

LEMMA ApartAtEntrance ==
  ASSUME Typed, Traffic, Separated, NEW id \in Ids, NEW c \in Cars, Apart(id, c), y[c] \in Seen,
         trackedHulls[id].y < Entrance
  PROVE  ~ (y[c] < Entrance)
<1>1. /\ trackedHulls[id].y \in Seen /\ Drift(Age(id)) \in Nat /\ Drift(Age(id)) <= Reach
      /\ y[c] >= MaxStep
  BY AgeType DEF Traffic
<1>2. Reach \in Nat
  BY DriftZero
<1>3. Reach >= MaxStep /\ y[c] \in Int /\ trackedHulls[id].y \in Int
  BY DriftZero, PlaceType, AgeType
<1>4. CASE y[c] - trackedHulls[id].y >= MinGap
  BY <1>1, <1>2, <1>3, <1>4, ConstantTypes, MoreConstantTypes DEF Seen, Entrance, Separated
<1>5. CASE trackedHulls[id].y - y[c] >= MinGap - Drift(Age(id))
  BY <1>1, <1>2, <1>3, <1>5, ConstantTypes, MoreConstantTypes DEF Seen, Entrance, Separated
<1> QED  BY <1>4, <1>5 DEF Apart, Far

-----------------------------------------------------------------------------
(* The end of an update: hulls are dropped, counted and made.              *)

(* Whoever drops hulls while nothing moves keeps the rest of Following.    *)
LEMMA FollowingFewer ==
  ASSUME Typed, Following, Ids' \subseteq Ids, \A k \in Ids' : trackedHulls'[k] = trackedHulls[k],
         UNCHANGED <<y, sighted, newHulls, matched, todo>>, todo = {}
  PROVE  /\ Following'
         /\ \A c \in Cars : Followed(c)' => Followed(c)
<1>1. \A k \in Ids' : k \in Ids /\ Age(k)' = Age(k) /\ trackedHulls'[k] = trackedHulls[k]
  BY DEF Age
<1>2. \A k \in Ids', c \in Cars : (Follows(k, c)' <=> Follows(k, c)) /\ (Apart(k, c)' <=> Apart(k, c))
  BY <1>1 DEF Follows, Apart
<1>3. Pairs' /\ Alone' /\ OneAtEntrance' /\ Resembling' /\ Sightings'
  BY <1>1, <1>2 DEF Following, Pairs, Alone, OneAtEntrance, Resembling, Sightings
<1>4. Leaving'
  BY <1>1, <1>2 DEF Following, Leaving, Clear
<1>5. CrossedExits'
  <2>1. Exits' = Exits /\ Exits \subseteq Cars
    BY DEF Exits
  <2> QED  BY <1>1, <1>2, <2>1 DEF Following, CrossedExits
<1>6. MatchedOwn'
  <2>1. Unmatched' = Unmatched /\ \A i \in Unmatched : newHulls[i] \in Cars
    BY CarOfHull DEF Unmatched
  <2> QED  BY <1>1, <1>2, <2>1 DEF Following, MatchedOwn
<1>7. \A c \in Cars : Followed(c)' => Followed(c)
  BY <1>1, <1>2 DEF Followed
<1> QED  BY <1>3, <1>4, <1>5, <1>6, <1>7 DEF Following

LEMMA FollowingAdd ==
  ASSUME Typed, BeforeLine, Traffic, Listed, Separated, Following, Typed', Traffic', AddTrackable
  PROVE  /\ Following'
         /\ \A c \in Exits : Followed(c)' => Followed(c)
<1>1. /\ UNCHANGED <<pc, y, lost, sighted, newHulls, todo, hullCount>> /\ pc = "add"
      /\ todo = {} /\ todo' = {} /\ Exits' = Exits /\ Exits \subseteq Cars
  BY AddEffect DEF Typed, InUpdate, Exits
<1>2. PICK i \in Unmatched :
        /\ matched' = matched \cup {i}
        /\ \/ UNCHANGED trackedHulls
           \/ /\ y[newHulls[i]] <= BoundaryY
              /\ Ids' = Ids \cup {WrappedId}
              /\ trackedHulls'[WrappedId] = HullOf(i)
              /\ \A k \in Ids \ {WrappedId} : trackedHulls'[k] = trackedHulls[k]
  BY AddEffect
<1>3. /\ Unmatched' = Unmatched \ {i} /\ i \in DOMAIN newHulls
      /\ \A j \in Unmatched : newHulls[j] \in Cars
  BY <1>1, <1>2, CarOfHull DEF Unmatched
<1>4. CASE UNCHANGED trackedHulls
  <2>1. /\ Ids' = Ids /\ \A k \in Ids : Age(k)' = Age(k)
        /\ \A k \in Ids, c \in Cars : (Follows(k, c)' <=> Follows(k, c)) /\ (Apart(k, c)' <=> Apart(k, c))
    BY <1>1, <1>4 DEF Ids, Age, Follows, Apart
  <2>2. Pairs' /\ Alone' /\ OneAtEntrance' /\ Resembling' /\ Sightings'
    BY <1>1, <1>4, <2>1 DEF Following, Pairs, Alone, OneAtEntrance, Resembling, Sightings
  <2>3. Leaving'
    BY <1>1, <1>4, <2>1 DEF Following, Leaving, Clear
  <2>4. MatchedOwn' /\ CrossedExits'
    BY <1>1, <1>3, <1>4, <2>1 DEF Following, MatchedOwn, CrossedExits
  <2>5. \A c \in Exits : Followed(c)' => Followed(c)
    BY <1>1, <2>1 DEF Followed
  <2> QED  BY <2>2, <2>3, <2>4, <2>5 DEF Following
<1>5. ASSUME y[newHulls[i]] <= BoundaryY, Ids' = Ids \cup {WrappedId},
             trackedHulls'[WrappedId] = HullOf(i),
             \A k \in Ids \ {WrappedId} : trackedHulls'[k] = trackedHulls[k]
      PROVE  Following' /\ \A c \in Exits : Followed(c)' => Followed(c)
  <2> DEFINE own == newHulls[i]
  <2>0. PICK new : new = WrappedId
    OBVIOUS
  <2>1. /\ own \in Cars /\ y[own] \in Seen /\ sighted[own] = "before" /\ own \notin Exits
    BY <1>3, <1>5, CarOfHull DEF Listed, Exits
  <2>2. /\ trackedHulls'[new].y = y[own] /\ trackedHulls'[new].area = Area[own]
        /\ Age(new)' = 0
    BY <1>1, <1>5, <2>0 DEF HullOf, Age
  <2>3. \A c \in Cars : /\ Follows(new, c)' <=> c = own
                        /\ c # own /\ y[c] \in Seen => Apart(new, c)'
    BY <1>1, <1>3, <2>2, OwnHull DEF Follows, Apart
  <2>4. \A k \in Ids \ {new} :
          /\ trackedHulls'[k] = trackedHulls[k] /\ Age(k)' = Age(k)
          /\ \A c \in Cars : (Follows(k, c)' <=> Follows(k, c)) /\ (Apart(k, c)' <=> Apart(k, c))
    <3> TAKE k \in Ids \ {new}
    <3>1. trackedHulls'[k] = trackedHulls[k] /\ Age(k)' = Age(k)
      BY <1>1, <1>5, <2>0 DEF Age
    <3> QED  BY <1>1, <3>1 DEF Follows, Apart
  <2>5. \A k \in Ids : ~ Follows(k, own) /\ Apart(k, own)
    BY <1>1, <2>1 DEF Following, MatchedOwn, Pairs
  <2>6. Ids' = (Ids \ {new}) \cup {new}
    BY <1>5, <2>0
  <2> HIDE DEF own
  <2>7. Pairs'
    BY <1>1, <2>3, <2>4, <2>6 DEF Following, Pairs
  <2>8. Alone'
    BY <1>1, <2>1, <2>3, <2>4, <2>5, <2>6 DEF Following, Alone
  <2>9. OneAtEntrance'
    <3>1. \A k \in Ids : trackedHulls[k].y < Entrance => ~ (y[own] < Entrance)
      BY <1>1, <2>1, <2>5, ApartAtEntrance
    <3> QED  BY <2>2, <2>4, <2>6, <3>1 DEF Following, OneAtEntrance
  <2>10. Leaving'
    BY <1>1, <2>1, <2>3, <2>4, <2>6 DEF Following, Leaving, Clear
  <2>11. Resembling'
    BY <2>1, <2>2, <2>3, <2>4, <2>6, AlikeItself DEF Following, Resembling
  <2>12. Sightings'
    BY <1>1, <2>1, <2>3, <2>4, <2>6 DEF Following, Sightings
  <2>13. CrossedExits'
    <3>1. \A k \in Ids' : trackedHulls'[k].y <= BoundaryY /\ trackedHulls'[k].y \in Int
      <4>1. \A k \in Ids : trackedHulls[k].y <= BoundaryY /\ trackedHulls[k].y \in Int
        BY <1>1, AgeType DEF BeforeLine
      <4>2. y[own] \in Int
        BY <2>1, PlaceType
      <4> QED  BY <1>5, <2>2, <2>4, <2>6, <4>1, <4>2 DEF own
    <3> QED  BY <3>1, ConstantTypes DEF CrossedExits
  <2>14. MatchedOwn'
    <3> SUFFICES ASSUME NEW k \in Ids', NEW j \in Unmatched \ {i}
                 PROVE  ~ Follows(k, newHulls[j])'
      BY <1>1, <1>3 DEF MatchedOwn
    <3>1. newHulls[j] \in Cars /\ newHulls[j] # own
      <4>1. j \in DOMAIN newHulls
        BY DEF Unmatched
      <4> QED  BY <1>3, <4>1 DEF Listed, own
    <3> QED  BY <1>1, <2>3, <2>4, <2>6, <3>1 DEF Following, MatchedOwn
  <2>15. \A c \in Exits : Followed(c)' => Followed(c)
    BY <1>1, <2>1, <2>3, <2>4, <2>6 DEF Followed
  <2> QED  BY <2>7, <2>8, <2>9, <2>10, <2>11, <2>12, <2>13, <2>14, <2>15 DEF Following
<1> QED  BY <1>2, <1>4, <1>5

(* Everything but counting keeps who was counted: a vehicle that has been  *)
(* seen beyond the line and that no hull follows any more.                 *)
Done == {c \in Exits : ~ Followed(c)}
Counted == hullCount <= Cardinality(Done)

LEMMA FinitelyMany ==
  /\ \A S \in SUBSET Cars : IsFiniteSet(S) /\ Cardinality(S) \in Nat
  /\ \A S, T \in SUBSET Cars : S \subseteq T => Cardinality(S) <= Cardinality(T)
  /\ IsFiniteSet(0 .. MaxId)
<1>1. IsFiniteSet(Cars) /\ IsFiniteSet(0 .. MaxId)
  BY TrackerAssumption, FS_Interval
<1>2. \A S \in SUBSET Cars : IsFiniteSet(S) /\ Cardinality(S) \in Nat
  BY <1>1, FS_Subset, FS_CardinalityType
<1>3. \A S, T \in SUBSET Cars : S \subseteq T => Cardinality(S) <= Cardinality(T)
  BY <1>2, FS_Subset
<1> QED  BY <1>1, <1>2, <1>3

LEMMA NoMoreThan ==
  ASSUME NEW S, NEW T, IsFiniteSet(T), NEW f \in [S -> T],
         \A a, b \in S : f[a] = f[b] => a = b
  PROVE  IsFiniteSet(S) /\ Cardinality(S) <= Cardinality(T)
<1>1. f \in Injection(S, T)
  BY DEF Injection, IsInjective
<1> QED  BY <1>1, FS_Injection

LEMMA SumOfParts ==
  ASSUME NEW S, NEW T, IsFiniteSet(S), IsFiniteSet(T), S \cap T = {}
  PROVE  Cardinality(S \cup T) = Cardinality(S) + Cardinality(T)
<1>1. Cardinality(S \cup T) = Cardinality(S) + Cardinality(T) - Cardinality(S \cap T)
  BY FS_Union
<1>2. Cardinality(S) \in Nat /\ Cardinality(T) \in Nat /\ Cardinality(S \cap T) = 0
  BY FS_CardinalityType, FS_EmptySet
<1> QED  BY <1>1, <1>2

LEMMA DoneGrows ==
  ASSUME Counted, hullCount \in Nat, hullCount' = hullCount, Done \subseteq Done'
  PROVE  Counted'
<1>1. Cardinality(Done) \in Nat /\ Cardinality(Done') \in Nat /\ Cardinality(Done) <= Cardinality(Done')
  BY FinitelyMany DEF Done, Exits
<1> QED  BY <1>1 DEF Counted

(* Counting: every hull beyond the line follows a vehicle of its own that  *)
(* has not been counted, and is gone then.                                 *)
LEMMA CountsOnce ==
  ASSUME Typed, Following, Counted, ProcessCrossedTrackables
  PROVE  Counted'
<1>1. /\ UNCHANGED <<y, sighted, todo>> /\ hullCount' = hullCount + Cardinality(Crossed)
      /\ trackedHulls' = Without(Crossed)
  BY DEF ProcessCrossedTrackables, world
<1>2. Ids' = Ids \ Crossed /\ \A k \in Ids' : trackedHulls'[k] = trackedHulls[k]
  BY <1>1, RemovingEffect
<1>3. \A k \in Ids', c \in Cars : Follows(k, c)' <=> Follows(k, c)
  BY <1>1, <1>2 DEF Follows, Age
<1> DEFINE own == [id \in Crossed |-> CHOOSE c \in Exits : Follows(id, c)]
           S == {c \in Exits : \E id \in Crossed : Follows(id, c)}
<1>4. \A id \in Crossed : own[id] \in S /\ Follows(id, own[id])
  <2> SUFFICES ASSUME NEW id \in Crossed
               PROVE  own[id] \in S /\ Follows(id, own[id])
    OBVIOUS
  <2>1. \E c \in Exits : Follows(id, c)
    BY DEF Crossed, Following, CrossedExits
  <2> QED  BY <2>1
<1>5. \A a, b \in Crossed : own[a] = own[b] => a = b
  <2> SUFFICES ASSUME NEW a \in Crossed, NEW b \in Crossed, own[a] = own[b]
               PROVE  a = b
    OBVIOUS
  <2>1. own[a] \in Cars /\ Follows(a, own[a]) /\ Follows(b, own[a])
    BY <1>4 DEF Exits
  <2> HIDE DEF own
  <2> QED  BY <2>1 DEF Following, Alone, Crossed
<1>6. IsFiniteSet(S) /\ IsFiniteSet(Done) /\ IsFiniteSet(S \cup Done)
  <2>1. S \in SUBSET Cars /\ Done \in SUBSET Cars /\ S \cup Done \in SUBSET Cars
    BY DEF Exits, Done
  <2> QED  BY <2>1, FinitelyMany
<1>7. Cardinality(Crossed) <= Cardinality(S) /\ IsFiniteSet(Crossed)
  <2>1. own \in [Crossed -> S]
    BY <1>4
  <2> HIDE DEF own, S
  <2> QED  BY <1>5, <1>6, <2>1, NoMoreThan
<1>8. Cardinality(S \cup Done) = Cardinality(S) + Cardinality(Done)
  <2>1. S \cap Done = {}
    BY DEF Done, Followed, Crossed
  <2> QED  BY <1>6, <2>1, SumOfParts
<1>9. S \cup Done \subseteq Done'
  <2>1. Exits' = Exits /\ Exits \subseteq Cars
    BY <1>1 DEF Exits
  <2>2. ASSUME NEW c \in S
        PROVE  ~ Followed(c)'
    BY <1>2, <1>3, <2>1 DEF Followed, Following, Alone, Crossed
  <2>3. ASSUME NEW c \in Done
        PROVE  ~ Followed(c)'
    BY <1>2, <1>3, <2>1 DEF Followed, Done
  <2> QED  BY <2>1, <2>2, <2>3 DEF Done
<1>10. Cardinality(S \cup Done) <= Cardinality(Done')
  BY <1>9, FinitelyMany DEF Done, Exits
<1>11. /\ Cardinality(S) \in Nat /\ Cardinality(Done) \in Nat /\ Cardinality(Crossed) \in Nat
       /\ Cardinality(Done') \in Nat /\ hullCount \in Nat
  BY <1>6, <1>7, FS_CardinalityType, FinitelyMany DEF Done, Exits, Typed, TypeOK
<1> QED  BY <1>1, <1>7, <1>8, <1>10, <1>11 DEF Counted

Tracking == Typed /\ BeforeLine /\ Traffic /\ Listed /\ Following /\ Counted

LEMMA InitTracking ==
  ASSUME Init
  PROVE  Tracking
<1>1. Ids = {} /\ Unmatched = {}
  BY NoHulls DEF Init, Ids, Unmatched
<1>2. Following
  BY <1>1 DEF Following, Pairs, Alone, OneAtEntrance, Leaving, Resembling, Sightings, MatchedOwn, CrossedExits
<1>3. BeforeLine
  BY <1>1 DEF BeforeLine
<1>4. Traffic /\ Listed
  <2>1. Ahead \notin Seen
    BY ConstantTypes DEF Ahead, Seen
  <2> QED  BY <2>1, NoHulls DEF Init, Traffic, Listed, KeepsDistance
<1>5. Counted
  <2>1. Cardinality(Done) \in Nat
    BY FinitelyMany DEF Done, Exits
  <2> QED  BY <2>1 DEF Init, Counted
<1> QED  BY <1>2, <1>3, <1>4, <1>5, InitTyped DEF Tracking

LEMMA TrackingStep ==
  ASSUME Separated, Tracking, [Next]_vars
  PROVE  Tracking'
<1>1. Typed' /\ BeforeLine' /\ Traffic' /\ Listed'
  BY TypedStep, BeforeLineStep, TrafficStep DEF Tracking
<1>0. Typed /\ BeforeLine /\ Traffic /\ Listed /\ Following /\ Counted /\ hullCount \in Nat
  BY DEF Tracking, Typed, TypeOK
<1> SUFFICES Following' /\ Counted'
  BY <1>1 DEF Tracking
<1>2. ASSUME NEW driving \in SUBSET Cars, NEW found \in SUBSET Cars,
             NEW turning \in {{}} \cup {{c} : c \in Cars}, NewFrame(driving, turning, found)
      PROVE  Following' /\ Counted'
  <2>1. turning = {} \/ \E c \in Cars : turning = {c}
    OBVIOUS
  <2>2. Following'
    BY <1>0, <1>1, <1>2, <2>1, FollowingFrame
  <2>3. Done \subseteq Done'
    BY <1>0, <1>1, <1>2, <2>1, UnfollowedFrame DEF Done, Following
  <2>4. hullCount' = hullCount
    BY <1>0, <1>2, <2>1, FrameEffect
  <2> QED  BY <1>0, <2>2, <2>3, <2>4, DoneGrows
<1>3. CASE ResetTrackerVariables
  <2>1. Ids' = {} /\ hullCount' = 0
    BY <1>3, NoHulls DEF ResetTrackerVariables, Ids
  <2>2. Following'
    BY <2>1 DEF Following, Pairs, Alone, OneAtEntrance, Leaving, Resembling, Sightings, MatchedOwn, CrossedExits
  <2>3. Cardinality(Done') \in Nat
    BY FinitelyMany DEF Done, Exits
  <2> QED  BY <2>1, <2>2, <2>3 DEF Counted
<1>4. ASSUME NEW id \in todo, MatchTrackable(id)
      PROVE  Following' /\ Counted'
  <2>1. Following' /\ \A c \in Cars : Followed(c)' => Followed(c)
    BY <1>0, <1>1, <1>4, FollowingMatch
  <2>2. hullCount' = hullCount /\ sighted' = sighted
    BY <1>0, <1>4, MatchEffect
  <2>3. Done \subseteq Done'
    BY <2>1, <2>2 DEF Done, Exits
  <2> QED  BY <1>0, <2>1, <2>2, <2>3, DoneGrows
<1>5. CASE RemoveStaleTrackables
  <2>1. PICK gone : trackedHulls' = Without(gone)
    BY <1>5 DEF RemoveStaleTrackables, Removing
  <2>2. /\ UNCHANGED <<y, sighted, newHulls, matched, todo, hullCount>>
        /\ todo = {}
    BY <1>0, <1>5 DEF RemoveStaleTrackables, Removing, world, Typed, InUpdate
  <2>3. Following' /\ \A c \in Cars : Followed(c)' => Followed(c)
    BY <1>0, <2>1, <2>2, RemovingEffect, FollowingFewer
  <2>4. Done \subseteq Done'
    BY <2>2, <2>3 DEF Done, Exits
  <2> QED  BY <1>0, <2>2, <2>3, <2>4, DoneGrows
<1>6. CASE ProcessCrossedTrackables
  <2>1. /\ UNCHANGED <<y, sighted, newHulls, matched, todo>>
        /\ todo = {} /\ trackedHulls' = Without(Crossed)
    BY <1>0, <1>6 DEF ProcessCrossedTrackables, world, Typed, InUpdate
  <2>2. Following'
    BY <1>0, <2>1, RemovingEffect, FollowingFewer
  <2> QED  BY <1>0, <1>6, <2>2, CountsOnce
<1>7. CASE AddTrackable
  <2>1. Following' /\ \A c \in Exits : Followed(c)' => Followed(c)
    BY <1>0, <1>1, <1>7, FollowingAdd
  <2>2. hullCount' = hullCount /\ sighted' = sighted
    BY <1>0, <1>7, AddEffect
  <2>3. Done \subseteq Done'
    BY <2>1, <2>2 DEF Done, Exits
  <2> QED  BY <1>0, <2>1, <2>2, <2>3, DoneGrows
<1>8. CASE UpdateReturns \/ UNCHANGED vars
  <2>1. /\ UNCHANGED <<y, sighted, todo, trackedHulls, hullCount>>
        /\ Unmatched' \subseteq Unmatched /\ \A i \in Unmatched' : newHulls'[i] = newHulls[i]
    BY <1>8, NoHulls DEF UpdateReturns, vars, world, Unmatched
  <2>2. /\ Ids' = Ids /\ Exits' = Exits /\ \A k \in Ids : Age(k)' = Age(k)
        /\ Exits \subseteq Cars
        /\ \A k \in Ids, c \in Cars : (Follows(k, c)' <=> Follows(k, c)) /\ (Apart(k, c)' <=> Apart(k, c))
    BY <2>1 DEF Ids, Exits, Age, Follows, Apart
  <2>3. Pairs' /\ Alone' /\ OneAtEntrance' /\ Resembling' /\ Sightings' /\ CrossedExits'
    BY <1>0, <2>1, <2>2 DEF Following, Pairs, Alone, OneAtEntrance, Resembling, Sightings, CrossedExits
  <2>4. Leaving'
    BY <1>0, <2>1, <2>2 DEF Following, Leaving, Clear
  <2>5. MatchedOwn'
    <3>1. \A i \in Unmatched : newHulls[i] \in Cars
      BY <1>0, CarOfHull DEF Unmatched
    <3> QED  BY <1>0, <2>1, <2>2, <3>1 DEF Following, MatchedOwn
  <2>6. Done \subseteq Done'
    BY <2>2 DEF Done, Followed
  <2> QED  BY <1>0, <2>1, <2>3, <2>4, <2>5, <2>6, DoneGrows DEF Following
<1> QED  BY <1>2, <1>3, <1>4, <1>5, <1>6, <1>7, <1>8 DEF Next

(* See NeverOvercounts: for any traffic that keeps so much distance, while *)
(* a hull is kept, that the tracker can tell who is who.                   *)
THEOREM CountsNobodyTwice ==
  ASSUME Separated
  PROVE  Spec => []NeverOvercounts
<1>1. Tracking => NeverOvercounts
  <2> SUFFICES ASSUME Tracking PROVE NeverOvercounts
    OBVIOUS
  <2>1. Cardinality(Done) <= Cardinality(Exits) /\ Cardinality(Done) \in Nat /\ Cardinality(Exits) \in Nat
    BY FinitelyMany DEF Done, Exits
  <2> QED  BY <2>1 DEF Tracking, Counted, NeverOvercounts, Typed, TypeOK
<1>2. Tracking /\ [Next]_vars => Tracking'
  BY TrackingStep
<1> QED  BY <1>1, <1>2, InitTracking, PTL DEF Spec

-----------------------------------------------------------------------------
(* Nobody is forgotten: a vehicle seen before the line is followed for as  *)
(* long as the tracker allows for misses, by a hull whose id nobody else   *)
(* gets.                                                                   *)

Complete == MaxLost <= MaxFramesNotSeen

(* The vehicles seen before the line since the last reset: there are ids   *)
(* for all of them.                                                        *)
Entered == {c \in Cars : sighted[c] \in {"before", "beyond"}}
IdsSuffice == Cardinality(Entered) <= MaxId + 1

Waiting == {newHulls[i] : i \in Unmatched}

(* Whoever has crossed is followed only until it is counted.               *)
ExitsFound == \A c \in Exits : Followed(c) =>
  /\ pc \in {"match", "remove", "count"}
  /\ \E i \in DOMAIN newHulls : c = newHulls[i]

Matched == pc \in {"match", "remove", "count"} =>
  \A i \in matched : \E id \in Ids \ todo :
    /\ trackedHulls[id].framesSinceSeen = 0
    /\ trackedHulls[id].y = y[newHulls[i]]
    /\ Follows(id, newHulls[i])

Remembered == \A c \in Cars :
  y[c] \in Seen /\ sighted[c] = "before" /\ c \notin Waiting =>
    \E id \in Ids : Follows(id, c) /\ Age(id) <= lost[c]

(* The vehicles a hull has been made for since the last reset.             *)
Made == {c \in Cars : \/ sighted[c] = "beyond"
                      \/ sighted[c] = "before" /\ (c \in Waiting => Followed(c))}

IdsFresh == \/ (\A id \in Ids : id < currentId) /\ currentId <= Cardinality(Made)
            \/ Cardinality(Made) > MaxId

CountedAll == hullCount >= Cardinality(Done)

Remembering == ExitsFound /\ Matched /\ Remembered /\ IdsFresh /\ CountedAll

(* A hull follows one vehicle at most.                                     *)
LEMMA FollowsOne ==
  ASSUME Typed, Traffic, Separated, NEW id \in Ids, NEW c \in Cars, NEW d \in Cars,
         Follows(id, c), Follows(id, d)
  PROVE  c = d
<1>1. /\ trackedHulls[id].y \in Int /\ Drift(Age(id)) \in Nat /\ Drift(Age(id)) <= Reach
      /\ Reach \in Nat /\ y[c] \in Int /\ y[d] \in Int
  BY AgeType, DriftZero, PlaceType
<1>2. /\ y[c] \in Seen /\ y[d] \in Seen /\ y[c] >= MaxStep /\ y[d] >= MaxStep
      /\ y[c] - trackedHulls[id].y <= Drift(Age(id))
      /\ y[d] - trackedHulls[id].y <= Drift(Age(id))
      /\ trackedHulls[id].y <= y[c] \/ trackedHulls[id].y < Entrance
      /\ trackedHulls[id].y <= y[d] \/ trackedHulls[id].y < Entrance
  BY DEF Follows, Near, Traffic
<1>3. MaxDiffDistance + Reach <= MinGap /\ Reach < MaxDiffDistance
  BY DEF Separated
<1>4. ~ (y[c] - y[d] >= MinGap) /\ ~ (y[d] - y[c] >= MinGap)
  BY <1>1, <1>2, <1>3, MoreConstantTypes DEF Entrance
<1>5. ~ (c < d) /\ ~ (d < c)
  BY <1>2, <1>4 DEF Traffic, KeepsDistance
<1>6. c \in Nat /\ d \in Nat
  BY TrackerAssumption
<1> QED  BY <1>5, <1>6

LEMMA FoundIsListed ==
  ASSUME NEW found \in SUBSET Cars, NEW s \in SetToSeqs(found), NEW c \in found
  PROVE  \E i \in DOMAIN s : s[i] = c
<1>1. IsFiniteSet(found) /\ Cardinality(found) \in Nat
  BY FinitelyMany
<1>2. /\ s \in [1 .. Cardinality(found) -> found]
      /\ \A i, j \in 1 .. Cardinality(found) : i # j => s[i] # s[j]
  BY Zenon DEF SetToSeqs
<1>3. s \in Injection(1 .. Cardinality(found), found)
  BY <1>2 DEF Injection, IsInjective
<1>4. Cardinality(1 .. Cardinality(found)) = Cardinality(found)
  BY <1>1, FS_Interval
<1>5. s \in Surjection(1 .. Cardinality(found), found)
  BY <1>1, <1>3, <1>4, FS_Injection
<1> QED  BY <1>2, <1>5 DEF Surjection

LEMMA FewerDone ==
  ASSUME CountedAll, hullCount \in Nat, hullCount' = hullCount, Done' \subseteq Done
  PROVE  CountedAll'
<1>1. Cardinality(Done) \in Nat /\ Cardinality(Done') \in Nat /\ Cardinality(Done') <= Cardinality(Done)
  BY FinitelyMany DEF Done, Exits
<1> QED  BY <1>1 DEF CountedAll

(* No id is given away by a step that forgets no vehicle a hull was made   *)
(* for.                                                                    *)
LEMMA FreshStays ==
  ASSUME IdsFresh, Ids' \subseteq Ids, currentId' = currentId, currentId \in Nat, Made \subseteq Made'
  PROVE  IdsFresh'
<1>1. Made \subseteq Cars /\ Made' \subseteq Cars
  BY DEF Made
<1>2. Cardinality(Made) \in Nat /\ Cardinality(Made') \in Nat /\ Cardinality(Made) <= Cardinality(Made')
  BY <1>1, FinitelyMany
<1>3. CASE (\A id \in Ids : id < currentId) /\ currentId <= Cardinality(Made)
  <2>1. currentId' <= Cardinality(Made')
    BY <1>2, <1>3
  <2> QED  BY <1>3, <2>1 DEF IdsFresh
<1>4. CASE Cardinality(Made) > MaxId
  <2>1. Cardinality(Made') > MaxId
    BY <1>2, <1>4, ConstantTypes
  <2> QED  BY <2>1 DEF IdsFresh
<1> QED  BY <1>3, <1>4 DEF IdsFresh

LEMMA RememberingFrame ==
  ASSUME Tracking, Tracking', Separated, Remembering,
         NEW driving \in SUBSET Cars, NEW found \in SUBSET Cars,
         NEW turning, turning = {} \/ \E c \in Cars : turning = {c},
         NewFrame(driving, turning, found)
  PROVE  Remembering'
<1>0. Typed /\ Traffic /\ Typed' /\ Traffic' /\ Pairs /\ Leaving /\ Remembered
  BY DEF Tracking, Following, Remembering
<1>1. /\ pc = "frame" /\ newHulls = <<>> /\ Waiting = {} /\ matched' = {}
      /\ Ids' = Ids /\ hullCount' = hullCount /\ currentId' = currentId /\ trackedHulls' = trackedHulls
      /\ pc' = "add" => Ids = {}
      /\ pc' \in {"add", "match"}
  <2>1. pc = "frame" /\ matched' = {} /\ Ids' = Ids /\ UNCHANGED <<trackedHulls, hullCount, currentId>>
    BY <1>0, FrameEffect, FrameKeeps
  <2>2. newHulls = <<>>
    BY <1>0, <2>1 DEF Typed, InUpdate
  <2>3. Waiting = {}
    BY <2>2, NoHulls DEF Waiting, Unmatched
  <2> QED  BY <1>0, <2>1, <2>2, <2>3, FrameEffect
<1>2. Waiting' = found /\ \A c \in found : \E i \in DOMAIN newHulls' : newHulls'[i] = c
  <2>1. newHulls' \in SetToSeqs(found)
    BY DEF NewFrame
  <2>2. \A c \in found : \E i \in DOMAIN newHulls' : newHulls'[i] = c
    BY <2>1, FoundIsListed
  <2>3. \A i \in DOMAIN newHulls' : newHulls'[i] \in found
    BY <1>0, FrameEffect
  <2> QED  BY <1>1, <2>2, <2>3 DEF Waiting, Unmatched
<1>3. \A c \in Exits : ~ Followed(c) /\ c \in Exits' /\ ~ Followed(c)'
  <2>1. \A c \in Exits : ~ Followed(c)
    BY <1>1 DEF Remembering, ExitsFound
  <2> QED  BY <1>0, <2>1, UnfollowedFrame
<1>4. ASSUME NEW c \in Cars, y'[c] \in Seen, sighted[c] = "before"
      PROVE  \E id \in Ids : /\ Follows(id, c)' /\ Age(id) <= lost[c] /\ Age(id)' = Age(id) + 1
                             /\ Age(id) \in Nat
  <2>1. y[c] \in Seen
    <3>1. y[c] # Gone /\ y[c] # Ahead /\ y[c] \in 0 .. EndY + 1
      BY <1>0, <1>4, GoneForGood, PlaceType DEF Traffic
    <3> QED  BY <3>1, ConstantTypes DEF Gone, Ahead, Seen
  <2>2. PICK id \in Ids : Follows(id, c) /\ Age(id) <= lost[c]
    BY <1>0, <1>1, <1>4, <2>1 DEF Remembered
  <2>3. Follows(id, c)'
    BY <1>0, <1>4, <2>1, <2>2, InViewKept
  <2> QED  BY <1>0, <2>2, <2>3, FrameKeeps, AgeType
<1>5. ExitsFound'
  <2> SUFFICES ASSUME NEW c \in Exits', Followed(c)'
               PROVE  /\ pc' \in {"match", "remove", "count"}
                      /\ \E i \in DOMAIN newHulls' : c = newHulls'[i]
    BY DEF ExitsFound
  <2>1. pc' = "match"
    BY <1>1 DEF Followed
  <2>2. c \notin Exits
    BY <1>3
  <2>3. c \in Cars /\ c \in found
    BY <1>0, <2>2, FrameMoves DEF Exits
  <2> QED  BY <1>2, <2>1, <2>3
<1>6. Matched'
  BY <1>1 DEF Matched
<1>7. Remembered'
  <2> SUFFICES ASSUME NEW c \in Cars, y'[c] \in Seen, sighted'[c] = "before", c \notin found
               PROVE  \E id \in Ids : Follows(id, c)' /\ Age(id)' <= lost'[c]
    BY <1>1, <1>2 DEF Remembered
  <2>1. sighted[c] = "before" /\ lost'[c] = lost[c] + 1 /\ lost[c] \in Nat
    BY <1>0, FrameMoves DEF NewFrame, Typed, TypeOK
  <2> QED  BY <1>4, <2>1
<1>8. Done' \subseteq Done
  <2> SUFFICES ASSUME NEW c \in Done', c \notin Done
               PROVE  FALSE
    OBVIOUS
  <2>1. c \in Cars /\ sighted'[c] = "beyond" /\ ~ Followed(c)'
    BY DEF Done, Exits
  <2>2. c \notin Exits
    BY <1>3 DEF Done
  <2>3. y'[c] \in Seen /\ sighted[c] = "before"
    <3>1. sighted[c] # "beyond"
      BY <2>1, <2>2 DEF Exits
    <3>2. c \in found
      BY <1>0, <2>1, <3>1, FrameMoves
    <3>3. y'[c] \in Seen /\ y'[c] \in Int
      BY <1>0, <3>2, FrameMoves, ConstantTypes DEF Seen
    <3>4. y'[c] > BoundaryY
      BY <1>0, <2>1, <3>2, <3>3, FrameMoves, ConstantTypes
    <3> QED  BY <1>0, <2>1, <3>1, <3>2, <3>3, <3>4, FrameMoves
  <2> QED  BY <1>1, <1>4, <2>1, <2>3 DEF Followed
<1>9. Made \subseteq Made'
  <2> SUFFICES ASSUME NEW c \in Cars, sighted[c] \in {"before", "beyond"}
               PROVE  \/ sighted'[c] = "beyond"
                      \/ sighted'[c] = "before" /\ (c \in found => Followed(c)')
    BY <1>2 DEF Made
  <2>1. CASE sighted[c] = "beyond"
    BY <1>3, <2>1 DEF Exits
  <2>2. CASE sighted[c] = "before"
    <3>1. CASE c \notin found
      BY <1>0, <2>2, <3>1, FrameMoves
    <3>2. CASE c \in found
      <4>1. y'[c] \in Seen /\ y'[c] \in Int
        BY <1>0, <3>2, FrameMoves, ConstantTypes DEF Seen
      <4>2. Followed(c)'
        BY <1>1, <1>4, <2>2, <4>1 DEF Followed
      <4>3. y'[c] <= BoundaryY => sighted'[c] = "before"
        BY <1>0, <3>2, FrameMoves
      <4>4. y'[c] > BoundaryY => sighted'[c] = "beyond"
        BY <1>0, <2>2, <3>2, FrameMoves
      <4> QED  BY <4>1, <4>2, <4>3, <4>4, ConstantTypes
    <3> QED  BY <3>1, <3>2
  <2> QED  BY <2>1, <2>2
<1>10. hullCount \in Nat /\ currentId \in Nat
  BY <1>0, ConstantTypes DEF Typed, TypeOK
<1>11. CountedAll'
  BY <1>1, <1>8, <1>10, FewerDone DEF Remembering
<1>12. IdsFresh'
  BY <1>1, <1>9, <1>10, FreshStays DEF Remembering
<1> QED  BY <1>5, <1>6, <1>7, <1>11, <1>12 DEF Remembering

LEMMA RememberingMatch ==
  ASSUME Tracking, Tracking', Separated, Remembering, NEW id \in todo, MatchTrackable(id)
  PROVE  Remembering'
<1>0. Typed /\ Traffic /\ Listed /\ Following /\ Typed' /\ Traffic' /\ Following'
  BY DEF Tracking
<1>1. /\ UNCHANGED <<y, lost, sighted, newHulls, hullCount, currentId>>
      /\ pc = "match" /\ pc' \in {"match", "remove"}
      /\ id \in Ids /\ Ids' = Ids /\ todo' = todo \ {id}
  BY <1>0, MatchEffect
<1>2. \A c \in Cars : Followed(c)' => Followed(c)
  BY <1>0, FollowingMatch
<1>3. \A k \in Ids, c \in Cars : Follows(k, c) =>
        Follows(k, c)' /\ (Age(k)' = 0 \/ Age(k)' = Age(k))
  <2> SUFFICES ASSUME NEW k \in Ids, NEW c \in Cars, Follows(k, c)
               PROVE  Follows(k, c)' /\ (Age(k)' = 0 \/ Age(k)' = Age(k))
    OBVIOUS
  <2>1. CASE trackedHulls'[id] = [trackedHulls[id] EXCEPT !.framesSinceSeen = @ + 1]
    BY <1>0, <2>1, MissKeeps
  <2>2. ASSUME NEW i \in Unmatched, Candidate(trackedHulls[id], newHulls[i]), trackedHulls'[id] = HullOf(i)
        PROVE  Follows(k, c)' /\ (Age(k)' = 0 \/ Age(k)' = Age(k))
    <3>1. CASE k # id
      BY <1>0, <3>1, MatchLeavesOthers
    <3>2. CASE k = id
      <4>1. /\ newHulls[i] \in Cars /\ Follows(id, newHulls[i]) /\ Age(id)' = 0
            /\ Follows(id, c)' <=> c = newHulls[i]
        BY <1>0, <2>2, TakeFollows
      <4>2. c = newHulls[i]
        BY <1>0, <1>1, <3>2, <4>1, FollowsOne
      <4> QED  BY <3>2, <4>1, <4>2
    <3> QED  BY <3>1, <3>2
  <2> QED  BY <1>0, <2>1, <2>2, MatchEffect
<1>4. Exits' = Exits /\ Exits \subseteq Cars /\ \A c \in Cars : Followed(c)' <=> Followed(c)
  BY <1>1, <1>2, <1>3 DEF Exits, Followed
<1>5. ExitsFound'
  BY <1>1, <1>4 DEF Remembering, ExitsFound
<1>6. Matched'
  <2> SUFFICES ASSUME NEW i \in matched'
               PROVE  \E k \in Ids \ todo' :
                        /\ trackedHulls'[k].framesSinceSeen = 0
                        /\ trackedHulls'[k].y = y[newHulls[i]]
                        /\ Follows(k, newHulls[i])'
    BY <1>1 DEF Matched
  <2>1. CASE i \in matched
    <3>1. newHulls[i] \in Cars
      BY <1>0, <2>1, CarOfHull DEF Typed, TypeOK
    <3>2. PICK k \in Ids \ todo : /\ trackedHulls[k].framesSinceSeen = 0
                                  /\ trackedHulls[k].y = y[newHulls[i]]
                                  /\ Follows(k, newHulls[i])
      BY <1>1, <2>1 DEF Remembering, Matched
    <3>3. k # id /\ k \in Ids \ todo'
      BY <1>1, <3>2
    <3>4. trackedHulls'[k] = trackedHulls[k] /\ Follows(k, newHulls[i])'
      BY <1>0, <1>1, <3>1, <3>2, <3>3, MatchLeavesOthers
    <3> QED  BY <3>2, <3>3, <3>4
  <2>2. CASE i \notin matched
    <3>1. /\ i \in Unmatched /\ Candidate(trackedHulls[id], newHulls[i])
          /\ trackedHulls'[id] = HullOf(i)
      BY <1>0, <2>2, MatchEffect
    <3>2. Follows(id, newHulls[i])'
      BY <1>0, <1>1, <3>1, TakeFollows
    <3> QED  BY <1>1, <3>1, <3>2 DEF HullOf
  <2> QED  BY <2>1, <2>2
<1>7. /\ Waiting' \subseteq Waiting
      /\ \A c \in Waiting \ Waiting' : Follows(id, c)' /\ Age(id)' = 0
  <2>1. CASE matched' = matched
    BY <1>1, <2>1 DEF Waiting, Unmatched
  <2>2. ASSUME NEW i \in Unmatched, Candidate(trackedHulls[id], newHulls[i]),
               matched' = matched \cup {i}, trackedHulls'[id] = HullOf(i)
        PROVE  /\ Waiting' \subseteq Waiting
               /\ \A c \in Waiting \ Waiting' : Follows(id, c)' /\ Age(id)' = 0
    <3>1. Unmatched' = Unmatched \ {i}
      BY <1>1, <2>2 DEF Unmatched
    <3>2. Waiting' = {newHulls[j] : j \in Unmatched \ {i}}
      BY <1>1, <3>1 DEF Waiting
    <3>3. newHulls[i] \in Cars /\ Follows(id, newHulls[i])' /\ Age(id)' = 0
      BY <1>0, <1>1, <2>2, TakeFollows
    <3>4. \A c \in Waiting \ Waiting' : c = newHulls[i]
      BY <3>2 DEF Waiting
    <3> QED  BY <1>1, <3>2, <3>3, <3>4 DEF Waiting
  <2> QED  BY <1>0, <2>1, <2>2, MatchEffect
<1>8. Remembered'
  <2> SUFFICES ASSUME NEW c \in Cars, y[c] \in Seen, sighted[c] = "before", c \notin Waiting'
               PROVE  \E k \in Ids : Follows(k, c)' /\ Age(k)' <= lost[c]
    BY <1>1 DEF Remembered
  <2>1. lost[c] \in Nat
    BY <1>0, ConstantTypes DEF Typed, TypeOK
  <2>2. CASE c \in Waiting
    BY <1>1, <1>7, <2>1, <2>2
  <2>3. CASE c \notin Waiting
    <3>1. PICK k \in Ids : Follows(k, c) /\ Age(k) <= lost[c]
      BY <2>3 DEF Remembering, Remembered
    <3> QED  BY <1>3, <2>1, <3>1
  <2> QED  BY <2>2, <2>3
<1>9. Made \subseteq Made'
  BY <1>1, <1>4, <1>7 DEF Made
<1>10. Done' \subseteq Done
  BY <1>4 DEF Done
<1>11. hullCount \in Nat /\ currentId \in Nat
  BY <1>0, ConstantTypes DEF Typed, TypeOK
<1>12. CountedAll'
  BY <1>1, <1>10, <1>11, FewerDone DEF Remembering
<1>13. IdsFresh'
  BY <1>1, <1>9, <1>11, FreshStays DEF Remembering
<1> QED  BY <1>5, <1>6, <1>8, <1>12, <1>13 DEF Remembering

(* While hulls are dropped, who has a hull keeps it if that hull stays.    *)
LEMMA FewerFollow ==
  ASSUME Ids' \subseteq Ids, \A k \in Ids' : trackedHulls'[k] = trackedHulls[k],
         UNCHANGED <<y, todo>>, NEW k \in Ids', NEW c \in Cars
  PROVE  (Follows(k, c)' <=> Follows(k, c)) /\ Age(k)' = Age(k)
BY DEF Follows, Age

(* With the matching done, a vehicle found and followed has been matched   *)
(* by the hull that follows it, in this frame.                             *)
LEMMA SeenNow ==
  ASSUME Tracking, Remembering, pc \in {"remove", "count"}, NEW c \in Exits, NEW id \in Ids, Follows(id, c)
  PROVE  trackedHulls[id].framesSinceSeen = 0 /\ trackedHulls[id].y = y[c]
<1>1. PICK i \in DOMAIN newHulls : c = newHulls[i]
  BY DEF Remembering, ExitsFound, Followed
<1>2. todo = {} /\ c \in Cars
  BY DEF Tracking, Typed, InUpdate, Exits
<1>3. i \in matched
  BY <1>1, <1>2 DEF Tracking, Following, MatchedOwn, Unmatched
<1>4. PICK k \in Ids : /\ trackedHulls[k].framesSinceSeen = 0
                       /\ trackedHulls[k].y = y[c]
                       /\ Follows(k, c)
  BY <1>1, <1>3 DEF Remembering, Matched
<1>5. k = id
  BY <1>2, <1>4 DEF Tracking, Following, Alone
<1> QED  BY <1>4, <1>5

LEMMA RememberingRemove ==
  ASSUME Complete, Tracking, Tracking', Separated, Remembering, RemoveStaleTrackables
  PROVE  Remembering'
<1>0. Typed /\ Traffic /\ Following
  BY DEF Tracking
<1> DEFINE stale == {id \in Ids : trackedHulls[id].framesSinceSeen > MaxFramesNotSeen}
<1>1. /\ UNCHANGED <<y, lost, sighted, newHulls, matched, todo, currentId, hullCount>>
      /\ pc = "remove" /\ pc' = "count" /\ todo = {}
      /\ trackedHulls' = Without(stale)
  BY <1>0 DEF RemoveStaleTrackables, Removing, world, Typed, InUpdate
<1>2. Ids' = Ids \ stale /\ \A k \in Ids' : trackedHulls'[k] = trackedHulls[k]
  BY <1>1, RemovingEffect
<1>3. \A k \in Ids : Age(k) = trackedHulls[k].framesSinceSeen /\ Age(k) \in Nat
  BY <1>0, <1>1, AgeType
<1>4. \A k \in Ids : Age(k) <= MaxFramesNotSeen => k \in Ids'
  BY <1>2, <1>3, ConstantTypes
<1> HIDE DEF stale
<1>5. \A k \in Ids', c \in Cars : k \in Ids /\ (Follows(k, c)' <=> Follows(k, c)) /\ Age(k)' = Age(k)
  BY <1>1, <1>2, FewerFollow
<1>6. Exits' = Exits /\ Waiting' = Waiting /\ Exits \subseteq Cars
  BY <1>1 DEF Exits, Waiting, Unmatched
<1>7. \A c \in Exits : Followed(c)' <=> Followed(c)
  <2>1. \A c \in Exits, k \in Ids : Follows(k, c) => k \in Ids'
    <3> SUFFICES ASSUME NEW c \in Exits, NEW k \in Ids, Follows(k, c)
                 PROVE  k \in Ids'
      OBVIOUS
    <3>1. trackedHulls[k].framesSinceSeen = 0
      BY <1>1, SeenNow
    <3> QED  BY <1>3, <1>4, <3>1, ConstantTypes
  <2> QED  BY <1>2, <1>5, <1>6, <2>1 DEF Followed
<1>8. ExitsFound'
  BY <1>1, <1>6, <1>7 DEF Remembering, ExitsFound
<1>9. Matched'
  <2> SUFFICES ASSUME NEW i \in matched
               PROVE  \E k \in Ids' \ todo :
                        /\ trackedHulls'[k].framesSinceSeen = 0
                        /\ trackedHulls'[k].y = y[newHulls[i]]
                        /\ Follows(k, newHulls[i])'
    BY <1>1 DEF Matched
  <2>1. newHulls[i] \in Cars
    BY <1>0, CarOfHull DEF Typed, TypeOK
  <2>2. PICK k \in Ids \ todo : /\ trackedHulls[k].framesSinceSeen = 0
                                /\ trackedHulls[k].y = y[newHulls[i]]
                                /\ Follows(k, newHulls[i])
    BY <1>1 DEF Remembering, Matched
  <2>3. k \in Ids'
    BY <1>3, <1>4, <2>2, ConstantTypes
  <2> QED  BY <1>1, <1>2, <1>5, <2>1, <2>2, <2>3
<1>10. Remembered'
  <2> SUFFICES ASSUME NEW c \in Cars, y[c] \in Seen, sighted[c] = "before", c \notin Waiting
               PROVE  \E k \in Ids' : Follows(k, c)' /\ Age(k)' <= lost[c]
    BY <1>1, <1>6 DEF Remembered
  <2>1. PICK k \in Ids : Follows(k, c) /\ Age(k) <= lost[c]
    BY DEF Remembering, Remembered
  <2>2. lost[c] \in 0 .. MaxLost /\ MaxLost <= MaxFramesNotSeen
    BY <1>0 DEF Typed, TypeOK, Complete
  <2>3. k \in Ids'
    BY <1>3, <1>4, <2>1, <2>2, ConstantTypes
  <2> QED  BY <1>5, <2>1, <2>3
<1>11. Made \subseteq Made'
  <2> SUFFICES ASSUME NEW c \in Made, sighted[c] = "before"
               PROVE  c \notin Waiting
    BY <1>1, <1>6 DEF Made
  <2>1. c \in Waiting => ~ Followed(c)
    BY <1>0, <1>1 DEF Waiting, Following, MatchedOwn, Followed
  <2> QED  BY <2>1 DEF Made
<1>12. Done' \subseteq Done
  BY <1>6, <1>7 DEF Done
<1>13. hullCount \in Nat /\ currentId \in Nat
  BY <1>0, ConstantTypes DEF Typed, TypeOK
<1>14. CountedAll'
  BY <1>1, <1>12, <1>13, FewerDone DEF Remembering
<1>15. IdsFresh'
  BY <1>1, <1>2, <1>11, <1>13, FreshStays DEF Remembering
<1> QED  BY <1>8, <1>9, <1>10, <1>14, <1>15 DEF Remembering

LEMMA RememberingCount ==
  ASSUME Tracking, Tracking', Separated, Remembering, ProcessCrossedTrackables
  PROVE  Remembering'
<1>0. Typed /\ Traffic /\ Following
  BY DEF Tracking
<1>1. /\ UNCHANGED <<y, lost, sighted, newHulls, matched, todo, currentId>>
      /\ pc = "count" /\ pc' = "add" /\ todo = {}
      /\ trackedHulls' = Without(Crossed) /\ hullCount' = hullCount + Cardinality(Crossed)
  BY <1>0 DEF ProcessCrossedTrackables, world, Typed, InUpdate
<1>2. Ids' = Ids \ Crossed /\ \A k \in Ids' : trackedHulls'[k] = trackedHulls[k]
  BY <1>1, RemovingEffect
<1>3. \A k \in Ids', c \in Cars : k \in Ids /\ (Follows(k, c)' <=> Follows(k, c)) /\ Age(k)' = Age(k)
  BY <1>1, <1>2, FewerFollow
<1>4. Exits' = Exits /\ Waiting' = Waiting /\ Exits \subseteq Cars
  BY <1>1 DEF Exits, Waiting, Unmatched
<1>5. \A c \in Exits, k \in Ids : Follows(k, c) => k \in Crossed
  <2> SUFFICES ASSUME NEW c \in Exits, NEW k \in Ids, Follows(k, c)
               PROVE  k \in Crossed
    OBVIOUS
  <2>1. trackedHulls[k].y = y[c]
    BY <1>1, SeenNow
  <2>2. y[c] > BoundaryY
    BY <1>0 DEF Exits, Traffic
  <2> QED  BY <2>1, <2>2 DEF Crossed
<1>6. \A c \in Exits : ~ Followed(c)'
  BY <1>2, <1>3, <1>4, <1>5 DEF Followed
<1>7. ExitsFound'
  BY <1>4, <1>6 DEF ExitsFound
<1>8. Matched'
  BY <1>1 DEF Matched
<1>9. Remembered'
  <2> SUFFICES ASSUME NEW c \in Cars, y[c] \in Seen, sighted[c] = "before", c \notin Waiting
               PROVE  \E k \in Ids' : Follows(k, c)' /\ Age(k)' <= lost[c]
    BY <1>1, <1>4 DEF Remembered
  <2>1. PICK k \in Ids : Follows(k, c) /\ Age(k) <= lost[c]
    BY DEF Remembering, Remembered
  <2>2. k \notin Crossed
    <3> SUFFICES ASSUME k \in Crossed
                 PROVE  FALSE
      OBVIOUS
    <3>1. PICK d \in Exits : Follows(k, d)
      BY <1>0 DEF Crossed, Following, CrossedExits
    <3>2. d = c
      BY <1>0, <1>4, <2>1, <3>1, FollowsOne
    <3> QED  BY <3>2 DEF Exits
  <2> QED  BY <1>2, <1>3, <2>1, <2>2
<1>10. Made \subseteq Made'
  <2> SUFFICES ASSUME NEW c \in Made, sighted[c] = "before"
               PROVE  c \notin Waiting
    BY <1>1, <1>4 DEF Made
  <2>1. c \in Waiting => ~ Followed(c)
    BY <1>0, <1>1 DEF Waiting, Following, MatchedOwn, Followed
  <2> QED  BY <2>1 DEF Made
<1>11. hullCount \in Nat /\ currentId \in Nat
  BY <1>0, ConstantTypes DEF Typed, TypeOK
<1>12. IdsFresh'
  BY <1>1, <1>2, <1>10, <1>11, FreshStays DEF Remembering
<1>13. CountedAll'
  <2> DEFINE S == {c \in Exits : Followed(c)}
             own == [c \in S |-> CHOOSE k \in Ids : Follows(k, c)]
  <2>1. \A c \in S : own[c] \in Crossed /\ Follows(own[c], c)
    <3> SUFFICES ASSUME NEW c \in S
                 PROVE  own[c] \in Crossed /\ Follows(own[c], c)
      OBVIOUS
    <3>1. \E k \in Ids : Follows(k, c)
      BY DEF Followed
    <3>2. own[c] \in Ids /\ Follows(own[c], c)
      BY <3>1
    <3> QED  BY <1>5, <3>2
  <2>2. \A a, b \in S : own[a] = own[b] => a = b
    <3> SUFFICES ASSUME NEW a \in S, NEW b \in S, own[a] = own[b]
                 PROVE  a = b
      OBVIOUS
    <3>1. own[a] \in Ids /\ Follows(own[a], a) /\ Follows(own[a], b) /\ a \in Cars /\ b \in Cars
      BY <1>4, <2>1 DEF Crossed
    <3> HIDE DEF own
    <3> QED  BY <1>0, <3>1, FollowsOne
  <2>3. IsFiniteSet(Crossed) /\ Cardinality(Crossed) \in Nat
    <3>1. Crossed \subseteq 0 .. MaxId
      BY <1>0 DEF Crossed, Typed, TypeOK
    <3> QED  BY <3>1, FinitelyMany, FS_Subset, FS_CardinalityType
  <2>4. own \in [S -> Crossed]
    BY <2>1
  <2> HIDE DEF own
  <2>5. Cardinality(S) <= Cardinality(Crossed)
    <3> HIDE DEF S
    <3> QED  BY <2>2, <2>3, <2>4, NoMoreThan
  <2>6. /\ S \in SUBSET Cars /\ Done \in SUBSET Cars /\ Done' \in SUBSET Cars
        /\ S \cap Done = {} /\ Done' \subseteq S \cup Done
    BY <1>4 DEF Done, Exits
  <2> HIDE DEF S
  <2>7. Cardinality(S \cup Done) = Cardinality(S) + Cardinality(Done)
    BY <2>6, FinitelyMany, SumOfParts
  <2>8. /\ Cardinality(Done') <= Cardinality(S \cup Done)
        /\ Cardinality(Done') \in Nat /\ Cardinality(S) \in Nat /\ Cardinality(Done) \in Nat
    BY <2>6, FinitelyMany
  <2> QED  BY <1>1, <1>11, <2>3, <2>5, <2>7, <2>8 DEF CountedAll, Remembering
<1> QED  BY <1>7, <1>8, <1>9, <1>12, <1>13 DEF Remembering

(* The id of a new hull: while a vehicle still waits for its first one,    *)
(* fewer ids have been given away than there are.                          *)
LEMMA FreshId ==
  ASSUME IdsSuffice, Tracking, Remembering, AddTrackable,
         NEW i \in Unmatched, y[newHulls[i]] <= BoundaryY
  PROVE  /\ newHulls[i] \in Cars \ Made /\ sighted[newHulls[i]] = "before"
         /\ \A id \in Ids : id < currentId
         /\ currentId <= Cardinality(Made) /\ WrappedId = currentId
<1>1. /\ i \in DOMAIN newHulls /\ newHulls[i] \in Cars /\ newHulls[i] \in Waiting
      /\ todo = {} /\ currentId \in Nat
  <2>1. Typed /\ i \in DOMAIN newHulls /\ newHulls[i] \in Waiting
    BY DEF Tracking, Unmatched, Waiting
  <2>2. pc = "add" /\ newHulls[i] \in Cars
    BY <2>1, AddEffect, CarOfHull
  <2> QED  BY <2>1, <2>2, ConstantTypes DEF Typed, TypeOK, InUpdate
<1>2. sighted[newHulls[i]] = "before" /\ ~ Followed(newHulls[i])
  BY <1>1 DEF Tracking, Listed, Following, MatchedOwn, Followed
<1>3. newHulls[i] \notin Made
  BY <1>1, <1>2 DEF Made
<1>4. Cardinality(Made) <= MaxId /\ Cardinality(Made) \in Nat
  <2>1. Entered \in SUBSET Cars /\ Made \cup {newHulls[i]} \in SUBSET Entered
    BY <1>1, <1>2 DEF Made, Entered
  <2>2. /\ IsFiniteSet(Made) /\ Cardinality(Made) \in Nat /\ Cardinality(Entered) \in Nat
        /\ Cardinality(Made \cup {newHulls[i]}) <= Cardinality(Entered)
    <3>1. IsFiniteSet(Entered) /\ Made \in SUBSET Cars
      BY <2>1, FinitelyMany
    <3> QED  BY <2>1, <3>1, FinitelyMany, FS_Subset
  <2>3. Cardinality(Made \cup {newHulls[i]}) = Cardinality(Made) + 1
    BY <1>3, <2>2, FS_AddElement
  <2> QED  BY <2>2, <2>3, ConstantTypes DEF IdsSuffice
<1>5. (\A id \in Ids : id < currentId) /\ currentId <= Cardinality(Made)
  BY <1>4, ConstantTypes DEF Remembering, IdsFresh
<1>6. currentId <= MaxId
  BY <1>1, <1>4, <1>5, ConstantTypes
<1> QED  BY <1>1, <1>2, <1>3, <1>5, <1>6, ConstantTypes DEF WrappedId

LEMMA RememberingAdd ==
  ASSUME IdsSuffice, Tracking, Tracking', Separated, Remembering, AddTrackable
  PROVE  Remembering'
<1>0. Typed /\ BeforeLine /\ Traffic /\ Listed /\ Following /\ Typed' /\ Traffic'
  BY DEF Tracking
<1>1. /\ UNCHANGED <<pc, y, lost, sighted, newHulls, todo, hullCount>> /\ pc = "add"
      /\ todo = {} /\ Exits' = Exits /\ Exits \subseteq Cars
  BY <1>0, AddEffect DEF Typed, InUpdate, Exits
<1>2. \A c \in Exits : ~ Followed(c) /\ ~ Followed(c)'
  <2>1. \A c \in Exits : ~ Followed(c)
    BY <1>1 DEF Remembering, ExitsFound
  <2>2. \A c \in Exits : Followed(c)' => Followed(c)
    BY <1>0, FollowingAdd
  <2> QED  BY <2>1, <2>2
<1>3. ExitsFound' /\ Matched'
  BY <1>1, <1>2 DEF ExitsFound, Matched
<1>4. hullCount \in Nat /\ currentId \in Nat
  BY <1>0, ConstantTypes DEF Typed, TypeOK
<1>5. CountedAll'
  <2>1. Done' \subseteq Done
    BY <1>1, <1>2 DEF Done
  <2> QED  BY <1>1, <1>4, <2>1, FewerDone DEF Remembering
<1>6. PICK i \in Unmatched :
        /\ matched' = matched \cup {i}
        /\ \/ /\ y[newHulls[i]] > BoundaryY
              /\ currentId' = WrappedId
              /\ UNCHANGED trackedHulls
           \/ /\ y[newHulls[i]] <= BoundaryY
              /\ currentId' = WrappedId + 1
              /\ Ids' = Ids \cup {WrappedId}
              /\ trackedHulls'[WrappedId] = HullOf(i)
              /\ \A k \in Ids \ {WrappedId} : trackedHulls'[k] = trackedHulls[k]
  BY <1>0, AddEffect
<1> DEFINE own == newHulls[i]
<1>7. Waiting' \subseteq Waiting /\ \A c \in Waiting \ Waiting' : c = own
  <2>1. Unmatched' = Unmatched \ {i}
    BY <1>1, <1>6 DEF Unmatched
  <2>2. Waiting' = {newHulls[j] : j \in Unmatched \ {i}}
    BY <1>1, <2>1 DEF Waiting
  <2> QED  BY <2>2 DEF Waiting
<1>8. own \in Cars /\ y[own] \in Seen /\ i \in DOMAIN newHulls
  BY <1>0, CarOfHull DEF Unmatched
<1>9. \A c \in Made : sighted[c] = "before" => c \notin Waiting
  BY <1>0, <1>1 DEF Made, Waiting, Following, MatchedOwn, Followed
<1>10. Made \subseteq Made'
  BY <1>1, <1>7, <1>9 DEF Made
<1>11. Made \in SUBSET Cars /\ Made' \in SUBSET Cars
  BY DEF Made
<1>12. ASSUME y[own] > BoundaryY, currentId' = WrappedId, UNCHANGED trackedHulls
       PROVE  Remembered' /\ IdsFresh'
  <2>1. sighted[own] # "before"
    BY <1>0, <1>8, <1>12 DEF Listed
  <2>2. Remembered'
    <3> SUFFICES ASSUME NEW c \in Cars, y[c] \in Seen, sighted[c] = "before", c \notin Waiting'
                 PROVE  \E k \in Ids : Follows(k, c)' /\ Age(k)' <= lost[c]
      BY <1>1, <1>12 DEF Remembered, Ids
    <3>1. c \notin Waiting
      BY <1>7, <2>1
    <3>2. PICK k \in Ids : Follows(k, c) /\ Age(k) <= lost[c]
      BY <3>1 DEF Remembering, Remembered
    <3> QED  BY <1>1, <1>12, <3>2 DEF Follows, Age
  <2>3. IdsFresh'
    <3>0. Cardinality(Made) <= Cardinality(Made') /\ Cardinality(Made) \in Nat /\ Cardinality(Made') \in Nat
      BY <1>10, <1>11, FinitelyMany
    <3>1. CASE Cardinality(Made) > MaxId
      BY <3>0, <3>1, ConstantTypes DEF IdsFresh
    <3>2. CASE /\ \A id \in Ids : id < currentId
               /\ currentId <= Cardinality(Made)
      <4>1. CASE currentId <= MaxId
        <5>1. currentId' = currentId
          BY <1>4, <1>12, <4>1, ConstantTypes DEF WrappedId
        <5>2. Ids' = Ids /\ currentId' <= Cardinality(Made')
          BY <1>4, <1>12, <3>2, <3>0, <5>1 DEF Ids
        <5> QED  BY <3>2, <5>1, <5>2 DEF IdsFresh
      <4>2. CASE currentId > MaxId
        BY <1>4, <3>0, <3>2, <4>2, ConstantTypes DEF IdsFresh
      <4> QED  BY <1>4, <4>1, <4>2, ConstantTypes
    <3> QED  BY <3>1, <3>2 DEF Remembering, IdsFresh
  <2> QED  BY <2>2, <2>3
<1>13. ASSUME y[own] <= BoundaryY, currentId' = WrappedId + 1,
              Ids' = Ids \cup {WrappedId},
              trackedHulls'[WrappedId] = HullOf(i),
              \A k \in Ids \ {WrappedId} : trackedHulls'[k] = trackedHulls[k]
       PROVE  Remembered' /\ IdsFresh'
  <2>1. /\ own \in Cars \ Made /\ sighted[own] = "before"
        /\ \A id \in Ids : id < currentId
        /\ currentId <= Cardinality(Made) /\ WrappedId = currentId
    BY <1>13, FreshId
  <2>2. PICK new : new = currentId
    OBVIOUS
  <2>3. /\ new \notin Ids /\ Ids' = Ids \cup {new} /\ currentId' = new + 1
        /\ trackedHulls'[new] = HullOf(i) /\ new \in Nat
    BY <1>4, <1>13, <2>1, <2>2
  <2>4. \A k \in Ids, c \in Cars : Follows(k, c) => Follows(k, c)' /\ Age(k)' = Age(k)
    <3>1. \A k \in Ids : trackedHulls'[k] = trackedHulls[k]
      BY <1>13, <2>1, <2>2, <2>3
    <3> QED  BY <1>1, <3>1 DEF Follows, Age
  <2>5. Follows(new, own)' /\ Age(new)' = 0
    <3>1. trackedHulls'[new].y = y[own] /\ Age(new)' = 0
      BY <1>1, <2>3 DEF HullOf, Age
    <3> QED  BY <1>0, <1>1, <1>8, <3>1, OwnHull DEF Follows
  <2>6. Remembered'
    <3> SUFFICES ASSUME NEW c \in Cars, y[c] \in Seen, sighted[c] = "before", c \notin Waiting'
                 PROVE  \E k \in Ids' : Follows(k, c)' /\ Age(k)' <= lost[c]
      BY <1>1 DEF Remembered
    <3>1. lost[c] \in Nat
      BY <1>0, ConstantTypes DEF Typed, TypeOK
    <3>2. CASE c = own
      BY <1>1, <2>3, <2>5, <3>1, <3>2
    <3>3. CASE c # own
      <4>1. c \notin Waiting
        BY <1>7, <3>3
      <4>2. PICK k \in Ids : Follows(k, c) /\ Age(k) <= lost[c]
        BY <4>1 DEF Remembering, Remembered
      <4> QED  BY <2>3, <2>4, <4>2
    <3> QED  BY <3>2, <3>3
  <2>7. IdsFresh'
    <3>1. own \in Made' /\ own \notin Made
      <4>1. own \notin Waiting' \/ Followed(own)'
        BY <1>1, <2>3, <2>5 DEF Followed
      <4> QED  BY <1>1, <1>8, <2>1, <4>1 DEF Made
    <3>2. Made \cup {own} \in SUBSET Made' /\ IsFiniteSet(Made)
      BY <1>10, <1>11, <3>1, FinitelyMany
    <3>3. Cardinality(Made \cup {own}) = Cardinality(Made) + 1
      BY <3>1, <3>2, FS_AddElement
    <3>4. Cardinality(Made) + 1 <= Cardinality(Made') /\ Cardinality(Made) \in Nat /\ Cardinality(Made') \in Nat
      <4>1. Made \cup {own} \in SUBSET Cars
        BY <1>11, <1>8
      <4> QED  BY <1>11, <3>2, <3>3, <4>1, FinitelyMany
    <3>5. currentId' <= Cardinality(Made')
      BY <2>1, <2>2, <2>3, <3>4
    <3>6. \A id \in Ids' : id < currentId'
      <4>1. \A id \in Ids : id \in Nat
        BY <1>0, ConstantTypes DEF Typed, TypeOK
      <4> QED  BY <2>1, <2>2, <2>3, <4>1
    <3> QED  BY <3>5, <3>6 DEF IdsFresh
  <2> QED  BY <2>6, <2>7
<1> QED  BY <1>3, <1>5, <1>6, <1>12, <1>13 DEF Remembering

LEMMA RememberingStep ==
  ASSUME Separated, Complete, IdsSuffice, Tracking, Remembering, [Next]_vars
  PROVE  Remembering'
<1>1. Tracking'
  BY TrackingStep
<1>2. hullCount \in Nat /\ currentId \in Nat /\ Typed
  BY ConstantTypes DEF Tracking, Typed, TypeOK
<1>3. ASSUME NEW driving \in SUBSET Cars, NEW found \in SUBSET Cars,
             NEW turning \in {{}} \cup {{c} : c \in Cars}, NewFrame(driving, turning, found)
      PROVE  Remembering'
  <2>1. turning = {} \/ \E c \in Cars : turning = {c}
    OBVIOUS
  <2> QED  BY <1>1, <1>3, <2>1, RememberingFrame
<1>4. CASE ResetTrackerVariables
  <2>1. /\ Ids' = {} /\ currentId' = 0 /\ hullCount' = 0 /\ pc' = "frame"
        /\ sighted' = [c \in Cars |-> "no"]
    BY <1>4, NoHulls DEF ResetTrackerVariables, Ids
  <2>2. Exits' = {} /\ Done' = {} /\ Made' \subseteq Cars
    BY <2>1 DEF Exits, Done, Made
  <2>3. Cardinality(Done') = 0 /\ Cardinality(Made') \in Nat
    BY <2>2, FinitelyMany, FS_EmptySet
  <2>4. ExitsFound' /\ Matched' /\ Remembered'
    BY <2>1, <2>2 DEF ExitsFound, Matched, Remembered
  <2>5. IdsFresh' /\ CountedAll'
    BY <2>1, <2>3 DEF IdsFresh, CountedAll
  <2> QED  BY <2>4, <2>5 DEF Remembering
<1>5. ASSUME NEW id \in todo, MatchTrackable(id)
      PROVE  Remembering'
  BY <1>1, <1>5, RememberingMatch
<1>6. CASE RemoveStaleTrackables
  BY <1>1, <1>6, RememberingRemove
<1>7. CASE ProcessCrossedTrackables
  BY <1>1, <1>7, RememberingCount
<1>8. CASE AddTrackable
  BY <1>1, <1>8, RememberingAdd
<1>9. CASE UpdateReturns
  <2>1. /\ UNCHANGED <<y, lost, sighted, todo, trackedHulls, currentId, hullCount>>
        /\ pc = "add" /\ pc' = "frame" /\ Waiting = {} /\ Waiting' = {}
    BY <1>9, NoHulls DEF UpdateReturns, world, Waiting, Unmatched
  <2>2. /\ Ids' = Ids /\ Exits' = Exits /\ Exits \subseteq Cars
        /\ \A k \in Ids : Age(k)' = Age(k)
        /\ \A k \in Ids, c \in Cars : Follows(k, c)' <=> Follows(k, c)
    BY <2>1 DEF Ids, Exits, Age, Follows
  <2>3. \A c \in Exits : ~ Followed(c) /\ ~ Followed(c)'
    BY <2>1, <2>2 DEF Remembering, ExitsFound, Followed
  <2>4. ExitsFound' /\ Matched'
    BY <2>1, <2>2, <2>3 DEF ExitsFound, Matched
  <2>5. Remembered'
    BY <2>1, <2>2 DEF Remembering, Remembered
  <2>6. Made' = Made
    BY <2>1 DEF Made
  <2>7. IdsFresh'
    BY <1>2, <2>1, <2>2, <2>6, FreshStays DEF Remembering
  <2>8. CountedAll'
    <3>1. Done' \subseteq Done
      BY <2>2, <2>3 DEF Done
    <3> QED  BY <1>2, <2>1, <3>1, FewerDone DEF Remembering
  <2> QED  BY <2>4, <2>5, <2>7, <2>8 DEF Remembering
<1>10. CASE UNCHANGED vars
  BY <1>10 DEF vars, world, Remembering, ExitsFound, Matched, Remembered, IdsFresh, CountedAll, Exits,
               Done, Made, Waiting, Unmatched, Followed, Follows, Age, Ids
<1> QED  BY <1>3, <1>4, <1>5, <1>6, <1>7, <1>8, <1>9, <1>10 DEF Next

(* See NeverUndercounts: if besides the detector misses no vehicle for     *)
(* longer than its hull is kept, and as long as there are ids for the      *)
(* vehicles seen since the last reset.                                     *)
THEOREM CountsEverybody ==
  ASSUME Separated, Complete
  PROVE  Spec /\ []IdsSuffice => []NeverUndercounts
<1>1. Init => Remembering
  <2> SUFFICES ASSUME Init
               PROVE  Remembering
    OBVIOUS
  <2>1. Ids = {} /\ currentId = 0 /\ hullCount = 0 /\ pc = "frame" /\ sighted = [c \in Cars |-> "no"]
    BY NoHulls DEF Init, Ids
  <2>2. Exits = {} /\ Done = {} /\ Made \subseteq Cars
    BY <2>1 DEF Exits, Done, Made
  <2>3. Cardinality(Done) = 0 /\ Cardinality(Made) \in Nat
    BY <2>2, FinitelyMany, FS_EmptySet
  <2>4. ExitsFound /\ Matched /\ Remembered
    BY <2>1, <2>2 DEF ExitsFound, Matched, Remembered
  <2>5. IdsFresh /\ CountedAll
    BY <2>1, <2>3 DEF IdsFresh, CountedAll
  <2> QED  BY <2>4, <2>5 DEF Remembering
<1>2. Tracking /\ Remembering => NeverUndercounts
  <2> SUFFICES ASSUME Remembering, pc = "frame"
               PROVE  hullCount >= Cardinality(Exits)
    BY DEF NeverUndercounts
  <2>1. Done = Exits
    BY DEF Remembering, ExitsFound, Done
  <2> QED  BY <2>1 DEF Remembering, CountedAll
<1>3. Tracking /\ [Next]_vars => Tracking'
  BY TrackingStep
<1>4. IdsSuffice /\ Tracking /\ Remembering /\ [Next]_vars => Remembering'
  BY RememberingStep
<1> QED  BY <1>1, <1>2, <1>3, <1>4, InitTracking, PTL DEF Spec
=============================================================================
