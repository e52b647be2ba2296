--------------------------- MODULE MCPhaseProtocol ---------------------------
(* PhaseProtocol on two phases of vehicle lanes and crossings that take    *)
(* turns: the columns from NumVehicle on are crossings.                    *)
EXTENDS PhaseProtocol, TLC

MCEntry(p, i) ==
  IF i < NumVehicle
  THEN IF p = i % 2 THEN "GREEN_PHASE" ELSE "RED_PHASE"
  ELSE IF p = i % 2 THEN "GREEN_PED" ELSE "RED_PED"

MCPhases == [p \in 0 .. 1 |-> [i \in 0 .. NumVehicle + NumPedestrian - 1 |-> MCEntry(p, i)]]
=============================================================================
