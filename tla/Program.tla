------------------------------- MODULE Program --------------------------------
(***************************************************************************)
(* The whole life of the parent process: it loads the junction's           *)
(* configuration or exits; signs in at the relay board; forks a child for  *)
(* each entry of a row; and runs until its handler takes everything down,  *)
(* flashing the yellow channels that were found when the configuration was *)
(* loaded.                                                                 *)
(***************************************************************************)
EXTENDS Supervisor

CONSTANTS
  Entry, MaxRows, MaxColumns,
  Followed        (* bound: the configurations followed beyond loading,    *)
                  (* with NumChildren entries in a row                     *)

VARIABLES
  junction, loading,          (* JunctionConfig's config and pc            *)
  phases, numVehicle, numPedestrian, row, yellowChannels

loaderVars == <<junction, loading, phases, numVehicle, numPedestrian, row, yellowChannels>>

Loader == INSTANCE JunctionConfig WITH config <- junction, pc <- loading

ProgramInit == Loader!Init /\ Init

LoadSections == Loader!Next /\ UNCHANGED vars

(* With nothing to flash standbyDuration is not used.                      *)
ConfigLoaded ==
  /\ loading = "loaded"
  /\ junction \in Followed
  /\ LoadJunctionConfig
  /\ config'.yellow = (yellowChannels # {})
  /\ ~ config'.yellow => config'.standby = "timed"
  /\ UNCHANGED loaderVars

Run == Running /\ UNCHANGED loaderVars

ProgramNext == LoadSections \/ ConfigLoaded \/ Run

ProgramSpec ==
  /\ ProgramInit
  /\ [][ProgramNext]_<<vars, loaderVars>>
  /\ WF_vars(HandlerStep)
  /\ WF_vars(Session)
  /\ \A c \in Child : WF_vars(TermArrives(c) \/ YoungChildInterrupted(c))

-----------------------------------------------------------------------------
(* The type of every variable of the loader, in this composition.          *)
LoaderTypeOK == Loader!TypeOK

(* See JunctionConfig: no phase of a loaded table leaves a vehicle approach*)
(* dark, shows it both colours, or lights what standby flashes.            *)
EveryVehicleLit == Loader!EveryVehicleLit

(* A junction with a vehicle approach is left dark, not on the last row:   *)
(* see LampsOffAtExit, whose condition that there are channels to flash is *)
(* met by every loaded configuration with a vehicle approach.              *)
VehiclesLeftDark ==
  exit = "success" /\ numVehicle > 0 /\ config.standby # "invalid" /\ link = "up" /\ session = "in" => lamps = "off"
=============================================================================
