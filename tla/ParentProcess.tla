---------------------------- MODULE ParentProcess ----------------------------
(***************************************************************************)
(* The control loop of the parent process (ParentProcess::run): drive the  *)
(* relay board with the row of the phase, collect what the children        *)
(* measured in the phase before, run the phase's timer with its change to  *)
(* the transition row, move on, and at the end of a cycle distribute the   *)
(* next cycle over the phases by measured density.                         *)
(*                                                                         *)
(* The children are an environment here: a reply carries any density of    *)
(* RawDensity, or is one the parent rejects (NaN, malformed, failed read). *)
(* PhaseProtocol models the pipes the replies travel through. Densities    *)
(* are whole multiples of a unit, 1/DensityUnit; durations are ms.         *)
(***************************************************************************)
EXTENDS Junction, Functions

CONSTANTS
  OriginalDurations,      (* phaseDurations of the configuration, per phase *)
  MinPhaseDurationMs,
  MinPedestrianDurationMs,
  DensityMin, DensityMax,
  DensityMultiplierGreenPhase,
  DensityMultiplierRedPhase,
  DensityUnit,            (* the integer that stands for density 1.0       *)
  RawDensity              (* the densities and counts a child can report   *)

(* The sum of the configured durations.                                    *)
FullCycleDurationMs == SumFunction(OriginalDurations)

ASSUME DurationAssumption ==
  /\ OriginalDurations \in [Phase -> Nat]
  /\ \E p \in Phase : OriginalDurations[p] > 0
  /\ MinPhaseDurationMs \in Nat
  /\ MinPedestrianDurationMs \in Nat

ASSUME DensityAssumption ==
  /\ DensityMin \in Nat
  /\ DensityMax \in Nat
  /\ DensityMin <= DensityMax
  /\ DensityMultiplierGreenPhase \in Nat
  /\ DensityMultiplierRedPhase \in Nat
  /\ DensityUnit \in Nat
  /\ RawDensity \subseteq Nat

VARIABLES
  pc,              (* where the loop is                                    *)
  phaseIndex,      (* the phase being run                                  *)
  currentCycle,    (* the relay controller's copy of it                    *)
  onChannels,      (* the channels of the relay board that are powered     *)
  child,           (* loop index over the children                         *)
  remainingTime,   (* of the phase timer, in seconds                       *)
  phaseDurations,  (* ms per phase                                         *)
  phaseDensities,  (* [phase][child]                                       *)
  phase,           (* loop index over the phases, in updatePhaseDurations  *)
  totalDensity,    (* its accumulators                                     *)
  phaseTotals,
  pedestrianTotals

loopVars   == <<phaseIndex, currentCycle, onChannels, remainingTime>>
updateVars == <<phase, totalDensity, phaseTotals, pedestrianTotals>>
vars == <<pc, child, phaseDurations, phaseDensities, loopVars, updateVars>>

(* Seconds before the end of a phase at which the transition row is set.   *)
TransitionAtOneEarlier == 6
TransitionAt == 5

Zero == [p \in Phase |-> 0]

Init ==
  /\ pc = "execute"
  /\ phaseIndex = 0
  /\ currentCycle \in Phase     \* uninitialised until setPhaseCycle
  /\ onChannels = {}
  /\ child = 0
  /\ remainingTime = 0
  /\ phaseDurations = OriginalDurations
  /\ phaseDensities = [p \in Phase |-> [i \in Child |-> 0]]
  /\ phase = 0
  /\ totalDensity = 0
  /\ phaseTotals = Zero
  /\ pedestrianTotals = Zero

-----------------------------------------------------------------------------
(* setPhaseCycle and executePhase; the messages to the children follow.    *)
ExecutePhase ==
  /\ pc = "execute"
  /\ pc' = "receive"
  /\ currentCycle' = phaseIndex
  /\ onChannels' = PhaseChannels(phaseIndex)
  /\ child' = 0
  /\ UNCHANGED <<phaseIndex, remainingTime, phaseDurations, phaseDensities>>
  /\ UNCHANGED updateVars

(* What a measurement counts for, by the kind of phase it was made in.     *)
ProcessDensityByPhaseType(type, density) ==
  CASE type = "GREEN_PHASE" -> density * DensityMultiplierGreenPhase
    [] type = "RED_PHASE"   -> (DensityMax - density) * DensityMultiplierRedPhase
    [] type = "RED_PED"     -> 0
    [] OTHER                -> density

Clamp(density) ==
  IF density < DensityMin THEN DensityMin
  ELSE IF density > DensityMax THEN DensityMax ELSE density

(* handlePhaseTimer starts when receivePrevDataFromChildren has returned.  *)
StartTimer ==
  /\ pc' = "timer"
  /\ remainingTime' = phaseDurations[phaseIndex] \div 1000
  /\ child' = 0

(* A reply of the child the loop is at: it describes the phase before.     *)
ReceiveDensity(density) ==
  LET previous == PrevPhase(phaseIndex) IN
  /\ pc = "receive"
  /\ phaseDensities' = [phaseDensities EXCEPT ![previous][child] =
       Clamp(ProcessDensityByPhaseType(Phases[previous][child], density))]
  /\ IF child + 1 < NumChildren
     THEN child' = child + 1 /\ UNCHANGED <<pc, remainingTime>>
     ELSE StartTimer
  /\ UNCHANGED <<phaseIndex, currentCycle, onChannels, phaseDurations>>
  /\ UNCHANGED updateVars

(* phaseRatio of a phase, for every child of it.                           *)
DefaultDensity(p) == (OriginalDurations[p] * DensityUnit) \div FullCycleDurationMs

(* The first unusable reply ends the loop: every density of every phase is *)
(* replaced by its default.                                                *)
ReceiveFails ==
  /\ pc = "receive"
  /\ phaseDensities' = [p \in Phase |-> [i \in Child |-> DefaultDensity(p)]]
  /\ StartTimer
  /\ UNCHANGED <<phaseIndex, currentCycle, onChannels, phaseDurations>>
  /\ UNCHANGED updateVars

(* One second of the phase timer.                                          *)
TimerTick ==
  /\ pc = "timer"
  /\ remainingTime > 0
  /\ remainingTime' = remainingTime - 1
  /\ onChannels' = IF remainingTime = TransitionAt
                   THEN TransitionChannels(currentCycle) ELSE onChannels
  /\ UNCHANGED <<pc, phaseIndex, currentCycle, child, phaseDurations, phaseDensities>>
  /\ UNCHANGED updateVars

(* The loop at the end of a phase; the wrap starts updatePhaseDurations.   *)
GoToPhase(next) ==
  /\ pc = "timer"
  /\ remainingTime <= 0
  /\ phaseIndex' = next
  /\ pc' = IF next = 0 THEN "total" ELSE "execute"
  /\ UNCHANGED <<currentCycle, onChannels, child, remainingTime, phaseDurations,
                 phaseDensities>>
  /\ UNCHANGED updateVars

TransitionWithoutWrap == GoToPhase(phaseIndex + 1)
TransitionSkippingLast ==
  GoToPhase(IF phaseIndex + 2 >= NumPhases THEN 0 ELSE phaseIndex + 1)
TransitionToNextPhase == GoToPhase(NextPhase(phaseIndex))

-----------------------------------------------------------------------------
(* updatePhaseDurations: first the totals, child by child.                 *)
AddDensity ==
  /\ pc = "total"
  /\ child < NumChildren
  /\ child' = child + 1
  /\ IF child < NumVehicle
     THEN /\ phaseTotals' = [phaseTotals EXCEPT ![phase] = @ + phaseDensities[phase][child]]
          /\ UNCHANGED pedestrianTotals
     ELSE /\ pedestrianTotals' =
               [pedestrianTotals EXCEPT ![phase] = @ + phaseDensities[phase][child]]
          /\ UNCHANGED phaseTotals
  /\ UNCHANGED <<pc, phaseDurations, phaseDensities, phase, totalDensity>>
  /\ UNCHANGED loopVars

CloseLane(total) ==
  /\ pc = "total"
  /\ child = NumChildren
  /\ totalDensity' = total
  /\ child' = 0
  /\ IF phase + 1 < NumPhases
     THEN phase' = phase + 1 /\ UNCHANGED pc
     ELSE phase' = 0 /\ pc' = "assign"
  /\ UNCHANGED <<phaseDurations, phaseDensities, phaseTotals, pedestrianTotals>>
  /\ UNCHANGED loopVars

ClosePhaseLastOnly == CloseLane(phaseTotals[phase])
ClosePhase == CloseLane(totalDensity + phaseTotals[phase])

(* The share of the cycle, raised to the minimum phase duration.           *)
Share(p) ==
  IF totalDensity = 0 THEN FullCycleDurationMs
  ELSE (phaseTotals[p] * FullCycleDurationMs) \div totalDensity

Allocated(p) == IF Share(p) < MinPhaseDurationMs THEN MinPhaseDurationMs ELSE Share(p)

(* The accumulators are locals of the call.                                *)
ReturnFromUpdate ==
  /\ pc' = "execute"
  /\ phase' = 0
  /\ totalDensity' = 0
  /\ phaseTotals' = Zero
  /\ pedestrianTotals' = Zero

(* Then the durations, phase by phase, a waiting pedestrian's phase raised *)
(* to the pedestrian minimum.                                              *)
AssignWithin(limit) ==
  /\ pc = "assign"
  /\ Allocated(phase) <= limit
  /\ phaseDurations' = [phaseDurations EXCEPT ![phase] =
       IF pedestrianTotals[phase] > 0 /\ Allocated(phase) < MinPedestrianDurationMs
       THEN MinPedestrianDurationMs ELSE Allocated(phase)]
  /\ IF phase + 1 < NumPhases
     THEN phase' = phase + 1 /\ UNCHANGED <<pc, totalDensity, phaseTotals, pedestrianTotals>>
     ELSE ReturnFromUpdate
  /\ UNCHANGED <<child, phaseDensities>>
  /\ UNCHANGED loopVars

AssignUnlimited == AssignWithin(Allocated(phase))
AssignDuration == AssignWithin(FullCycleDurationMs)

(* A duration above the full cycle: back to the configured durations.      *)
RestoreDurations ==
  /\ pc = "assign"
  /\ Allocated(phase) > FullCycleDurationMs
  /\ phaseDurations' = OriginalDurations
  /\ ReturnFromUpdate
  /\ UNCHANGED <<child, phaseDensities>>
  /\ UNCHANGED loopVars

-----------------------------------------------------------------------------
Next ==
  \/ ExecutePhase
  \/ \E density \in RawDensity : ReceiveDensity(density)
  \/ ReceiveFails
  \/ TimerTick
  \/ TransitionToNextPhase
  \/ AddDensity
  \/ ClosePhase
  \/ AssignDuration
  \/ RestoreDurations

Spec == Init /\ [][Next]_vars

(* sleep() returns and every child answers (PhaseProtocol), so the loop    *)
(* never rests.                                                            *)
FairSpec == Spec /\ WF_vars(Next)

-----------------------------------------------------------------------------
LoopTypeOK ==
  /\ pc \in {"execute", "receive", "timer", "total", "assign"}
  /\ phaseIndex \in Phase
  /\ currentCycle \in Phase
  /\ onChannels \in SUBSET Nat
  /\ child \in 0 .. NumChildren
  /\ pc = "receive" => child < NumChildren
  /\ remainingTime \in Nat

DensityTypeOK == phaseDensities \in [Phase -> [Child -> Nat]]

UpdateTypeOK ==
  /\ phaseDurations \in [Phase -> Nat]
  /\ phase \in Phase
  /\ totalDensity \in Nat
  /\ phaseTotals \in [Phase -> Nat]
  /\ pedestrianTotals \in [Phase -> Nat]

(* The type of every variable.                                             *)
TypeOK == LoopTypeOK /\ DensityTypeOK /\ UpdateTypeOK

(* The colours the approaches show, read off the powered channels.         *)
heads == [i \in Child |-> LitColours(onChannels, i)]

(* Approaches that no row serves together are never both let through, not  *)
(* by a row, not by a transition row, not by the change from one to the    *)
(* other: executePhase and executeTransitionPhase count the same channels  *)
(* for the same approach.                                                  *)
NoConflict ==
  \A i, j \in Child :
    Conflicting(i, j) =>
      heads[i] \subseteq {"red"} \/ heads[j] \subseteq {"red"}

(* Every phase is long enough for the timer to reach the transition row.   *)
LongPhases ==
  /\ MinPhaseDurationMs >= 1000 * TransitionAt
  /\ \A p \in Phase : OriginalDurations[p] >= 1000 * TransitionAt

(* What the loop knows of the board, phase by phase of its own course:     *)
(* the row of the phase until the timer reaches TransitionAt, the          *)
(* transition row from then until the next phase is executed.              *)
BoardFollowsLoop ==
  /\ \A p \in Phase : phaseDurations[p] >= 1000 * TransitionAt
  /\ pc = "receive" =>
       currentCycle = phaseIndex /\ onChannels = PhaseChannels(currentCycle)
  /\ pc = "timer" =>
       /\ currentCycle = phaseIndex
       /\ onChannels = IF remainingTime >= TransitionAt
                       THEN PhaseChannels(currentCycle) ELSE TransitionChannels(currentCycle)
  /\ pc \in {"total", "assign"} =>
       phaseIndex = NextPhase(currentCycle) /\ onChannels = TransitionChannels(currentCycle)
  /\ pc = "execute" =>
       \/ onChannels = {} /\ phaseIndex = 0
       \/ phaseIndex = NextPhase(currentCycle) /\ onChannels = TransitionChannels(currentCycle)

(* The board, seen through its wiring, behaves as signal heads must:       *)
(* exactly one colour per approach once driven, yellow between a vehicle's *)
(* green and red, no conflict. Needs phases long enough for the timer to   *)
(* reach the transition row.                                               *)
Heads == INSTANCE SignalHeads WITH lit <- heads, Conflict <- Conflicting
ImplementsSignalHeads == Heads!Spec

(* A duration handed to the timer is at most one full cycle, unless the    *)
(* pedestrian minimum says more.                                           *)
DurationBounded ==
  \A p \in Phase :
    \/ phaseDurations[p] <= FullCycleDurationMs
    \/ phaseDurations[p] <= MinPedestrianDurationMs

(* Unless nothing at all was measured, the shares divide the cycle among   *)
(* the phases: they add up to it, but for what the conversion to int cuts  *)
(* off. So no share exceeds the cycle, and the fallback to the configured  *)
(* durations is only ever taken because of the minimum phase duration.     *)
SharesPartitionCycle ==
  pc = "assign" /\ totalDensity > 0 =>
    SumFunction([p \in Phase |-> Share(p)])
      \in FullCycleDurationMs - NumPhases + 1 .. FullCycleDurationMs

(* Every approach that has a green phase shows green again and again,      *)
(* whatever densities the children report and whichever reads fail.        *)
EveryApproachServed ==
  \A i \in Child :
    (\E p \in Phase : IsGreen(Phases[p][i])) => []<>("green" \in heads[i])
=============================================================================
