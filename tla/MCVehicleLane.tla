---------------------------- MODULE MCVehicleLane ----------------------------
(* One lane that keeps its green for two phases and its red for three.     *)
EXTENDS VehicleLane, TLC

MCColumn == 0 :> "RED_PHASE" @@ 1 :> "GREEN_PHASE" @@ 2 :> "GREEN_PHASE" @@ 3 :> "RED_PHASE" @@
            4 :> "RED_PHASE"
MCPhases == [p \in 0 .. 4 |-> 0 :> MCColumn[p]]
=============================================================================
