--------------------------- MODULE Junction_proofs ---------------------------
(* The board is driven as it is wired: for every junction, the lamps that  *)
(* executePhase and executeTransitionPhase power show each approach        *)
(* exactly the colour its column asks for.                                 *)
EXTENDS Junction, FiniteSetTheorems, TLAPS

(* The colour a column entry asks for.                                     *)
ColourOf(type) ==
  CASE type \in {"RED_PHASE", "RED_PED"}     -> {"red"}
    [] type \in {"GREEN_PHASE", "GREEN_PED"} -> {"green"}
    [] type = "YELLOW_PHASE"                 -> {"yellow"}

(* A row whose vehicle columns hold types of `threeLamp`.                  *)
IsRow(row, threeLamp) ==
  /\ threeLamp \in {VehicleTypes, VehicleTypes \cup {"YELLOW_PHASE"}}
  /\ \A i \in Vehicle : row[i] \in threeLamp
  /\ \A i \in Pedestrian : row[i] \in PedestrianTypes

(* Counting along a row lands on the first channel of every approach.      *)
LEMMA RelayIndexIsFirstChannel ==
  ASSUME NEW row, NEW threeLamp, IsRow(row, threeLamp), NEW i \in Child
  PROVE  RelayIndex(row, i, threeLamp) = FirstChannel(i)
<1> DEFINE three == {j \in 0 .. i - 1 : row[j] \in threeLamp}
           two   == {j \in 0 .. i - 1 : row[j] \in PedestrianTypes}
<1>1. threeLamp \cap PedestrianTypes = {}
  BY DEF IsRow, VehicleTypes, PedestrianTypes
<1>2. NumVehicle \in Nat /\ NumPedestrian \in Nat /\ i \in Nat
  BY JunctionAssumption DEF Child, NumChildren
<1>3. \A j \in 0 .. i - 1 : j \in Vehicle \/ j \in Pedestrian
  BY <1>2 DEF Child, NumChildren, Vehicle, Pedestrian
<1>4. three = 0 .. (IF i <= NumVehicle THEN i ELSE NumVehicle) - 1
  BY <1>1, <1>2, <1>3 DEF IsRow, Vehicle, Pedestrian
<1>5. two = NumVehicle .. i - 1
  BY <1>1, <1>2, <1>3 DEF IsRow, Vehicle, Pedestrian
<1> HIDE DEF three, two
<1>6. Cardinality(three) = IF i <= NumVehicle THEN i ELSE NumVehicle
  <2>1. \A m \in Nat : Cardinality(0 .. m - 1) = m
    BY FS_Interval
  <2> QED  BY <1>2, <1>4, <2>1
<1>7. Cardinality(two) = IF i <= NumVehicle THEN 0 ELSE i - NumVehicle
  <2>1. \A a, b \in Int : Cardinality(a .. b) = IF a > b THEN 0 ELSE b - a + 1
    BY FS_Interval
  <2>2. Cardinality(NumVehicle .. i - 1)
          = IF NumVehicle > i - 1 THEN 0 ELSE i - 1 - NumVehicle + 1
    BY <1>2, <2>1
  <2> QED  BY <1>2, <1>5, <2>2
<1>8. RelayIndex(row, i, threeLamp) = 3 * Cardinality(three) + 2 * Cardinality(two)
  BY DEF RelayIndex, three, two
<1> QED  BY <1>2, <1>6, <1>7, <1>8 DEF FirstChannel

(* The groups of channels do not overlap.                                  *)
LEMMA ChannelsDisjoint ==
  ASSUME NEW i \in Child, NEW j \in Child, NEW a \in 0 .. 2, NEW b \in 0 .. 2,
         i \in Pedestrian => a < 2, j \in Pedestrian => b < 2,
         FirstChannel(i) + a = FirstChannel(j) + b
  PROVE  i = j /\ a = b
BY JunctionAssumption DEF Child, Pedestrian, NumChildren, FirstChannel

(* Powering a row shows each approach the colour of its column, and        *)
(* nothing else: TelnetRelayController counts channels as                  *)
(* MultiprocessTraffic assigns them.                                       *)
THEOREM RowShowsItsColours ==
  ASSUME NEW row, NEW threeLamp, IsRow(row, threeLamp), NEW i \in Child
  PROVE  LitColours(OnChannels(row, threeLamp), i) = ColourOf(row[i])
<1>1. \A j \in Child : row[j] \in threeLamp \cup PedestrianTypes
  <2>1. \A j \in Child : j \in Vehicle \/ j \in Pedestrian
    BY JunctionAssumption DEF Child, Vehicle, Pedestrian, NumChildren
  <2> QED  BY <2>1 DEF IsRow
<1>2. OnChannels(row, threeLamp) = {FirstChannel(j) + LampOffset(row[j]) : j \in Child}
  BY <1>1, RelayIndexIsFirstChannel DEF OnChannels
<1>3. \A j \in Child : /\ LampOffset(row[j]) \in 0 .. 2
                       /\ j \in Pedestrian => LampOffset(row[j]) < 2
  BY <1>1 DEF IsRow, VehicleTypes, PedestrianTypes, LampOffset
<1>4. \A c \in Colours(i) : /\ ColourOffset(c) \in 0 .. 2
                            /\ i \in Pedestrian => ColourOffset(c) < 2
  BY JunctionAssumption DEF Colours, ColourOffset, Pedestrian, Child, NumChildren
<1>5. \A c \in Colours(i) :
        FirstChannel(i) + ColourOffset(c) \in OnChannels(row, threeLamp)
          <=> ColourOffset(c) = LampOffset(row[i])
  <2> TAKE c \in Colours(i)
  <2>1. ASSUME NEW j \in Child,
               FirstChannel(i) + ColourOffset(c) = FirstChannel(j) + LampOffset(row[j])
        PROVE  i = j
    BY <2>1, <1>3, <1>4, ChannelsDisjoint
  <2>2. FirstChannel(i) \in Int
    BY JunctionAssumption DEF FirstChannel, Child, NumChildren
  <2> QED  BY <1>2, <1>3, <1>4, <2>1, <2>2
<1>6. LitColours(OnChannels(row, threeLamp), i)
        = {c \in Colours(i) : ColourOffset(c) = LampOffset(row[i])}
  BY <1>5 DEF LitColours
<1>7. CASE i \in Vehicle
  <2>1. Colours(i) = {"red", "green", "yellow"}
    BY <1>7, JunctionAssumption DEF Colours, Vehicle
  <2>2. row[i] \in {"RED_PHASE", "GREEN_PHASE", "YELLOW_PHASE"}
    BY <1>7 DEF IsRow, VehicleTypes
  <2> QED  BY <1>6, <2>1, <2>2 DEF ColourOffset, LampOffset, ColourOf
<1>8. CASE i \in Pedestrian
  <2>1. Colours(i) = {"red", "green"}
    BY <1>8, JunctionAssumption DEF Colours, Pedestrian
  <2>2. row[i] \in {"RED_PED", "GREEN_PED"}
    BY <1>8 DEF IsRow, PedestrianTypes
  <2> QED  BY <1>6, <2>1, <2>2 DEF ColourOffset, LampOffset, ColourOf
<1> QED  BY <1>7, <1>8, JunctionAssumption DEF Child, Vehicle, Pedestrian, NumChildren

(* Every row of the table, and every transition row, is such a row.        *)
LEMMA PhaseColours ==
  ASSUME NEW p \in Phase, NEW i \in Child
  PROVE  LitColours(PhaseChannels(p), i) = ColourOf(Phases[p][i])
<1>1. IsRow(Phases[p], VehicleTypes)
  BY JunctionAssumption DEF WellFormed, IsRow
<1> QED  BY <1>1, RowShowsItsColours DEF PhaseChannels

LEMMA NextPhaseType == \A p \in Phase : NextPhase(p) \in Phase
BY JunctionAssumption DEF NextPhase, Phase

LEMMA TransitionColours ==
  ASSUME NEW p \in Phase, NEW i \in Child
  PROVE  LitColours(TransitionChannels(p), i)
           = ColourOf(DeriveTransitionPhase(Phases[p], Phases[NextPhase(p)])[i])
<1> DEFINE row == DeriveTransitionPhase(Phases[p], Phases[NextPhase(p)])
<1>1. Vehicle \subseteq Child /\ Pedestrian \subseteq Child
  BY JunctionAssumption DEF Vehicle, Pedestrian, Child, NumChildren
<1>2. IsRow(row, VehicleTypes \cup {"YELLOW_PHASE"})
  <2>1. \A j \in Vehicle : row[j] \in VehicleTypes \cup {"YELLOW_PHASE"}
    BY <1>1, JunctionAssumption
       DEF WellFormed, DeriveTransitionPhase, VehicleTypes
  <2>2. \A j \in Pedestrian : row[j] \in PedestrianTypes
    BY <1>1, JunctionAssumption
       DEF WellFormed, DeriveTransitionPhase, PedestrianTypes
  <2> QED  BY <2>1, <2>2 DEF IsRow
<1> HIDE DEF row
<1>3. LitColours(OnChannels(row, VehicleTypes \cup {"YELLOW_PHASE"}), i) = ColourOf(row[i])
  BY <1>2, RowShowsItsColours
<1> QED  BY <1>3 DEF TransitionChannels, row
=============================================================================
