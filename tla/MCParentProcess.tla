--------------------------- MODULE MCParentProcess ---------------------------
(* ParentProcess on three phases of two vehicle approaches and a crossing. *)
EXTENDS ParentProcess, TLC

MCRow(a, b, c) == 0 :> a @@ 1 :> b @@ 2 :> c

(* Columns 0, 3 and 5 of the sample junction: approach 0 stays green over  *)
(* the first change of phase, approaches 0 and 1 conflict, the crossing is *)
(* green in the first phase and red in two.                                *)
MCPhases ==
  MCRow(MCRow("GREEN_PHASE", "RED_PHASE", "GREEN_PED"),
        MCRow("GREEN_PHASE", "RED_PHASE", "RED_PED"),
        MCRow("RED_PHASE", "GREEN_PHASE", "RED_PED"))

MCDurations == MCRow(6000, 5000, 5500)
MCShortDurations == MCRow(2000, 900, 1700)
MCOneShortDuration == MCRow(8000, 4000, 8000)

(* The colour sequence of a vehicle approach: never from green to red.     *)
(* ParentProcess.cpp:493 promises enough time for yellow, always.          *)
AlwaysTimeForYellow ==
  [][\A i \in Vehicle : heads[i] = {"green"} => heads'[i] # {"red"}]_heads
=============================================================================
