------------------------------ MODULE MCWaiting ------------------------------
(* ParentProcess with a memory of what the crossings reported last.        *)
EXTENDS MCParentProcess

VARIABLE waiting   (* waiting[i]: crossing i last answered a RED_PED with  *)
                   (* a count above zero                                   *)

WaitingInit == Init /\ waiting = [i \in Pedestrian |-> FALSE]

WaitingNext ==
  \/ \E density \in RawDensity :
       /\ ReceiveDensity(density)
       /\ waiting' = [i \in Pedestrian |->
            IF i = child THEN Phases[phaseIndex][i] = "RED_PED" /\ density > 0
            ELSE waiting[i]]
  \/ /\ ExecutePhase \/ ReceiveFails \/ TimerTick \/ TransitionToNextPhase
          \/ AddDensity \/ ClosePhase \/ AssignDuration \/ RestoreDurations
     /\ UNCHANGED waiting

WaitingSpec == WaitingInit /\ [][WaitingNext]_<<vars, waiting>>

(* When the next cycle is laid out, a crossing whose last report counted   *)
(* waiting pedestrians gets a green phase of the pedestrian minimum:       *)
(* "if there is waiting pedestrian, prioritize them"                       *)
(* (ParentProcess.cpp:505).                                                *)
WaitingPedestriansPrioritised ==
  [][pc = "assign" /\ pc' = "execute" =>
       \A i \in Pedestrian : waiting[i] =>
         \A p \in Phase : Phases[p][i] = "GREEN_PED" =>
           phaseDurations'[p] >= MinPedestrianDurationMs]_<<vars, waiting>>
=============================================================================
