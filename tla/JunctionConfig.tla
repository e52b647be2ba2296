---------------------------- MODULE JunctionConfig ----------------------------
(***************************************************************************)
(* Loading the junction configuration (MultiprocessTraffic::               *)
(* loadJunctionConfig): the sections of the file in order, each of which   *)
(* may end the program, then the checks of the phase table. Only row 0 is  *)
(* checked entry by entry; of the other rows only the channels that        *)
(* assignChannels finds a yellow lamp on are compared.                     *)
(*                                                                         *)
(* A row is a sequence of entries. The file is well-formed YAML with at    *)
(* least one row (phases[0] is read unconditionally).                      *)
(***************************************************************************)
EXTENDS Integers, Sequences, FiniteSets

CONSTANTS
  Entry,          (* what an entry of the table may say                    *)
  MaxRows,        (* bound: rows of the table                              *)
  MaxColumns      (* bound: entries of a row                               *)

VehicleTypes    == {"GREEN_PHASE", "RED_PHASE"}
PedestrianTypes == {"GREEN_PED", "RED_PED"}
PhaseMessageType ==
  VehicleTypes \cup PedestrianTypes \cup {"YELLOW_PHASE", "UNKNOWN"}

Row  == UNION {[1 .. n -> Entry] : n \in 1 .. MaxColumns}
Rows == UNION {[1 .. n -> Row] : n \in 1 .. MaxRows}

(* The sections in the order they are loaded, and what follows each.       *)
Section == {"junction", "phases", "durations", "density", "streams", "relay"}
After(section) ==
  CASE section = "junction"  -> "phases"
    [] section = "phases"    -> "durations"
    [] section = "durations" -> "density"
    [] section = "density"   -> "streams"
    [] section = "streams"   -> "relay"
    [] section = "relay"     -> "count"

VARIABLES
  config,          (* the file: its table, how many durations and streams  *)
                   (* it lists                                             *)
  pc,              (* a section, "count", "yellow", "loaded" or "exit"     *)
  phases,          (* the table as read                                    *)
  numVehicle, numPedestrian,
  row,             (* loop index of setYellowChannels                      *)
  yellowChannels   (* the channels that flash in standby                   *)

counts == <<numVehicle, numPedestrian>>
vars == <<config, pc, phases, counts, row, yellowChannels>>

Init ==
  /\ config \in [rows : Rows, durations : 1 .. MaxRows, streams : 1 .. MaxColumns]
  /\ pc = "junction"
  /\ phases = <<>>
  /\ numVehicle = 0
  /\ numPedestrian = 0
  /\ row = 1
  /\ yellowChannels = {}

(* getPhaseMessageType.                                                    *)
Verbatim(entry) == entry
TypeOf(entry) == IF entry \in PhaseMessageType THEN entry ELSE "UNKNOWN"

Columns(line, types) == {j \in DOMAIN line : line[j] \in types}

(* currentIndex of assignChannels, and relayIndex of executePhase, when    *)
(* the loop over a row reaches column j: any other entry has no channels.  *)
ChannelIndex(line, j) ==
  3 * Cardinality({k \in Columns(line, VehicleTypes) : k < j})
    + 2 * Cardinality({k \in Columns(line, PedestrianTypes) : k < j})

(* assignChannels: the third channel of every vehicle entry.               *)
YellowOf(line) == {ChannelIndex(line, j) + 2 : j \in Columns(line, VehicleTypes)}

(* executePhase: the red or the green channel of every entry.              *)
OnChannels(line) ==
  {ChannelIndex(line, j) + (IF line[j] \in {"GREEN_PHASE", "GREEN_PED"} THEN 1 ELSE 0) :
     j \in Columns(line, VehicleTypes \cup PedestrianTypes)}

-----------------------------------------------------------------------------
Exit ==
  /\ pc' = "exit"
  /\ UNCHANGED <<config, phases, counts, row, yellowChannels>>

(* A section that lacks a key, or, of the streams, a link.                 *)
MissingKey == pc \in Section /\ Exit

LoadSection ==
  /\ pc \in Section \ {"phases"}
  /\ pc = "durations" => Len(phases) = config.durations
  /\ pc' = After(pc)
  /\ UNCHANGED <<config, phases, counts, row, yellowChannels>>

LoadPhases ==
  /\ pc = "phases"
  /\ phases' = [r \in DOMAIN config.rows |->
                  [j \in DOMAIN config.rows[r] |-> TypeOf(config.rows[r][j])]]
  /\ pc' = After(pc)
  /\ UNCHANGED <<config, counts, row, yellowChannels>>

DurationsMismatch ==
  /\ pc = "durations"
  /\ Len(phases) # config.durations
  /\ Exit

(* setVehicleAndPedestrianCount: of row 0, every entry and their number.   *)
SetVehicleAndPedestrianCount ==
  /\ pc = "count"
  /\ \A j \in DOMAIN phases[1] : phases[1][j] \in VehicleTypes \cup PedestrianTypes
  /\ Len(phases[1]) = config.streams
  /\ numVehicle' = Cardinality(Columns(phases[1], VehicleTypes))
  /\ numPedestrian' = Cardinality(Columns(phases[1], PedestrianTypes))
  /\ pc' = "yellow"
  /\ UNCHANGED <<config, phases, row, yellowChannels>>

BadFirstRow ==
  /\ pc = "count"
  /\ \/ \E j \in DOMAIN phases[1] : phases[1][j] \notin VehicleTypes \cup PedestrianTypes
     \/ Len(phases[1]) # config.streams
  /\ Exit

(* One round of setYellowChannels.                                         *)
Consistent == yellowChannels \in {{}, YellowOf(phases[row])}

TakeYellow(accepted) ==
  /\ pc = "yellow"
  /\ accepted
  /\ yellowChannels' = IF yellowChannels = {} THEN YellowOf(phases[row]) ELSE yellowChannels
  /\ IF row < Len(phases)
     THEN row' = row + 1 /\ UNCHANGED pc
     ELSE pc' = "loaded" /\ UNCHANGED row
  /\ UNCHANGED <<config, phases, counts>>

SetYellowUnchecked == TakeYellow(TRUE)
SetYellowChannels == TakeYellow(Consistent)

InconsistentYellow ==
  /\ pc = "yellow"
  /\ ~ Consistent
  /\ Exit

Next ==
  \/ MissingKey
  \/ LoadSection
  \/ LoadPhases
  \/ DurationsMismatch
  \/ SetVehicleAndPedestrianCount
  \/ BadFirstRow
  \/ SetYellowChannels
  \/ InconsistentYellow

Spec == Init /\ [][Next]_vars

-----------------------------------------------------------------------------
(* The type of every variable.                                             *)
TypeOK ==
  /\ pc \in Section \cup {"count", "yellow", "loaded", "exit"}
  /\ phases \in Seq(Seq(PhaseMessageType))
  /\ numVehicle \in 0 .. MaxColumns /\ numPedestrian \in 0 .. MaxColumns
  /\ row \in 1 .. MaxRows
  /\ yellowChannels \subseteq Nat

(* Whatever the rows nobody checked say, no phase leaves a vehicle         *)
(* approach dark, shows it both colours, or lights the lamp that standby   *)
(* flashes: comparing yellow channels is enough to keep the lanes of all   *)
(* rows of a loaded table on the same lamps.                               *)
EveryVehicleLit ==
  pc = "loaded" /\ numVehicle > 0 =>
    /\ Cardinality(yellowChannels) = numVehicle
    /\ \A r \in DOMAIN phases : \A yellow \in yellowChannels :
         \E lamp \in {yellow - 2, yellow - 1} :
           OnChannels(phases[r]) \cap (yellow - 2 .. yellow) = {lamp}
=============================================================================
