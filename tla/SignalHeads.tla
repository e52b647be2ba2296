----------------------------- MODULE SignalHeads -----------------------------
(***************************************************************************)
(* What a road user may rely on: the sequence of colours of the signal     *)
(* heads of a junction, whatever drives them. An approach shows nothing    *)
(* until the controller has driven it once and one colour from then on;    *)
(* vehicles get yellow between green and red, and approaches that no phase *)
(* serves together never both show something other than red.              *)
(***************************************************************************)
CONSTANTS
  Vehicle,        (* vehicle approaches                                    *)
  Pedestrian,     (* pedestrian crossings                                  *)
  Conflict(_, _)  (* Conflict(i, j): i and j must not both be let through  *)

VARIABLE lit      (* lit[i]: the set of colours approach i shows           *)

Approach == Vehicle \cup Pedestrian
Dark == {}

(* The next colour of a vehicle head; a head may also keep its colour.     *)
VehicleSuccessor ==
  {<<Dark, {"red"}>>, <<Dark, {"green"}>>, <<{"red"}, {"green"}>>,
   <<{"green"}, {"yellow"}>>, <<{"yellow"}, {"red"}>>}

PedestrianSuccessor ==
  {<<Dark, {"red"}>>, <<Dark, {"green"}>>,
   <<{"red"}, {"green"}>>, <<{"green"}, {"red"}>>}

OneColour == \A i \in Approach : lit[i] \in {{"red"}, {"green"}, {"yellow"}}
Exclusive ==
  \A i, j \in Approach :
    Conflict(i, j) => lit[i] = {"red"} \/ lit[j] = {"red"}

Init == lit = [i \in Approach |-> Dark]

Change ==
  /\ lit' = [i \in Approach |-> lit'[i]]
  /\ \A i \in Vehicle : lit'[i] = lit[i] \/ <<lit[i], lit'[i]>> \in VehicleSuccessor
  /\ \A i \in Pedestrian : lit'[i] = lit[i] \/ <<lit[i], lit'[i]>> \in PedestrianSuccessor
  /\ OneColour'
  /\ Exclusive'

Spec == Init /\ [][Change]_lit
=============================================================================
