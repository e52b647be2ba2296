------------------------------ MODULE Junction ------------------------------
(***************************************************************************)
(* The junction as the controller sees it: a table with one row per phase  *)
(* and one column per approach (vehicle lanes first, then pedestrian       *)
(* crossings), and the relay board that drives one lamp per channel.       *)
(*                                                                         *)
(* Operators only: the row a phase drives the board with                   *)
(* (TelnetRelayController::executePhase), the row shown while leaving a     *)
(* phase (deriveTransitionPhase) and the wiring of the board: the size of  *)
(* an approach's group and the place of yellow in it are those of          *)
(* MultiprocessTraffic::assignChannels, red before green is executePhase's.*)
(***************************************************************************)
EXTENDS Integers, FiniteSets

CONSTANTS
  NumPhases,      (* rows of the phase table                               *)
  NumVehicle,     (* vehicle approaches, children 0 .. NumVehicle-1        *)
  NumPedestrian,  (* pedestrian crossings, the children after them         *)
  Phases          (* Phases[p][i]: what approach i gets in phase p         *)

NumChildren == NumVehicle + NumPedestrian

Phase      == 0 .. NumPhases - 1
Child      == 0 .. NumChildren - 1
Vehicle    == 0 .. NumVehicle - 1
Pedestrian == NumVehicle .. NumChildren - 1

(* The strings getPhaseMessageType accepts, plus UNKNOWN for all others.   *)
PhaseMessageType ==
  {"RED_PHASE", "GREEN_PHASE", "YELLOW_PHASE", "RED_PED", "GREEN_PED", "UNKNOWN"}

VehicleTypes    == {"GREEN_PHASE", "RED_PHASE"}
PedestrianTypes == {"GREEN_PED", "RED_PED"}

(* Vehicle columns hold vehicle types in every row, pedestrian columns     *)
(* pedestrian types. The loader checks this of row 0 only.                 *)
WellFormed ==
  \A p \in Phase :
    /\ \A i \in Vehicle : Phases[p][i] \in VehicleTypes
    /\ \A i \in Pedestrian : Phases[p][i] \in PedestrianTypes

ASSUME JunctionAssumption ==
  /\ NumPhases \in Nat \ {0}
  /\ NumVehicle \in Nat
  /\ NumPedestrian \in Nat
  /\ NumChildren > 0
  /\ Phases \in [Phase -> [Child -> PhaseMessageType]]
  /\ WellFormed

PrevPhase(p) == IF p = 0 THEN NumPhases - 1 ELSE p - 1
NextPhaseUnwrapped(p) == p + 1
NextPhase(p) == (p + 1) % NumPhases

-----------------------------------------------------------------------------
(* Driving the board.                                                      *)

(* Channel of a lamp within the group of its approach.                     *)
LampOffset(type) ==
  CASE type \in {"RED_PHASE", "RED_PED"}     -> 0
    [] type \in {"GREEN_PHASE", "GREEN_PED"} -> 1
    [] type = "YELLOW_PHASE"                 -> 2

(* relayIndex when the loop over a row reaches column i: an entry of a     *)
(* three-lamp type has moved it by three, a pedestrian entry by two, and   *)
(* any other entry not at all.                                             *)
RelayIndex(row, i, threeLamp) ==
  3 * Cardinality({j \in 0 .. i - 1 : row[j] \in threeLamp})
    + 2 * Cardinality({j \in 0 .. i - 1 : row[j] \in PedestrianTypes})

OnChannels(row, threeLamp) ==
  {RelayIndex(row, i, threeLamp) + LampOffset(row[i]) :
     i \in {j \in Child : row[j] \in threeLamp \cup PedestrianTypes}}

(* The approaches a transition turns yellow or red before the next row.    *)
DeriveTransitionYellowForRed(current, next) ==
  [i \in Child |->
     IF current[i] = "GREEN_PHASE" /\ next[i] = "RED_PHASE" THEN "YELLOW_PHASE"
     ELSE IF current[i] = "RED_PHASE" /\ next[i] = "GREEN_PHASE" THEN "YELLOW_PHASE"
     ELSE IF current[i] = "GREEN_PED" /\ next[i] = "RED_PED" THEN "RED_PED"
     ELSE current[i]]

DeriveTransitionPhase(current, next) ==
  [i \in Child |->
     IF current[i] = "GREEN_PHASE" /\ next[i] = "RED_PHASE" THEN "YELLOW_PHASE"
     ELSE IF current[i] = "RED_PHASE" /\ next[i] = "GREEN_PHASE" THEN "RED_PHASE"
     ELSE IF current[i] = "GREEN_PED" /\ next[i] = "RED_PED" THEN "RED_PED"
     ELSE current[i]]

(* The lamps executePhase and executeTransitionPhase switch on for row p.  *)
PhaseChannels(p) == OnChannels(Phases[p], VehicleTypes)
TransitionChannels(p) ==
  OnChannels(DeriveTransitionPhase(Phases[p], Phases[NextPhase(p)]),
             VehicleTypes \cup {"YELLOW_PHASE"})

-----------------------------------------------------------------------------
(* Reading the board.                                                      *)

(* First channel of the group wired to approach i: three channels per      *)
(* vehicle approach, two per crossing (assignChannels).                    *)
FirstChannel(i) ==
  IF i <= NumVehicle THEN 3 * i ELSE 3 * NumVehicle + 2 * (i - NumVehicle)

Colours(i) == IF i < NumVehicle THEN {"red", "green", "yellow"} ELSE {"red", "green"}

(* Yellow is the third of its group (assignChannels); that red comes       *)
(* before green is said by executePhase only.                              *)
ColourOffset(colour) ==
  CASE colour = "red" -> 0 [] colour = "green" -> 1 [] colour = "yellow" -> 2

(* The colours approach i shows when the channels in `on` are powered.     *)
LitColours(on, i) ==
  {c \in Colours(i) : FirstChannel(i) + ColourOffset(c) \in on}

IsGreen(type) == type \in {"GREEN_PHASE", "GREEN_PED"}

(* Two approaches no phase lets go together.                               *)
Conflicting(i, j) ==
  i # j /\ \A p \in Phase : ~ (IsGreen(Phases[p][i]) /\ IsGreen(Phases[p][j]))
=============================================================================
