------------------------------ MODULE MCProgram -------------------------------
EXTENDS Program

(* Two vehicle approaches, whose yellow lamps standby flashes, and two     *)
(* crossings alone, which have none.                                       *)
MCFollowed ==
  {[rows      |-> <<<<"GREEN_PHASE", "RED_PHASE">>, <<"RED_PHASE", "GREEN_PHASE">>>>,
    durations |-> 2, streams |-> 2],
   [rows      |-> <<<<"GREEN_PED", "GREEN_PED">>>>, durations |-> 1, streams |-> 2]}
=============================================================================
