----------------------------- MODULE Supervisor ------------------------------
(***************************************************************************)
(* Starting and stopping the processes (MultiprocessTraffic): the parent   *)
(* forks one child per approach and runs the control loop; its handler of  *)
(* SIGINT and SIGCHLD takes everything down and never returns. All of them *)
(* send their commands over the one session with the relay board.          *)
(*                                                                         *)
(* A signal is delivered between any two steps of the parent, also of the  *)
(* handler of the other signal; a signal being handled is blocked, and     *)
(* several of it pending are one. Until its ChildProcess is constructed, a *)
(* forked child still has the parent's handler, and its copy of childPids. *)
(***************************************************************************)
EXTENDS RelaySession, FiniteSets

CONSTANTS
  NumChildren,
  MaxFlashes       (* bound: flashes of yellow in standbyDuration          *)

ASSUME SupervisorAssumption ==
  /\ NumChildren \in Nat \ {0}
  /\ MaxFlashes \in Nat \ {0}

Child == 0 .. NumChildren - 1
Signal == {"SIGINT", "SIGCHLD"}

VARIABLES
  config,      (* of the junction: whether a channel can flash yellow, and *)
               (* standbyDuration: "timed", "forever" (-1) or "invalid"    *)
               (* (below -1), which nobody checks when it is loaded        *)
  pc,          (* main program: "load", "start", "fork", "push" or "run"   *)
  pipeIndex,   (* the child being forked                                   *)
  childPids,   (* the children recorded                                    *)
  process,     (* each child: "none", "young" (forked, with the parent's   *)
               (* handlers), "running", "zombie" or "reaped"               *)
  interrupted, (* young children with a SIGINT to handle                   *)
  terminated,  (* children sent SIGTERM                                    *)
  pending,     (* signals the parent has to handle                         *)
  handlers     (* stack of running handlers, the innermost first           *)

main == <<pc, pipeIndex>>
children == <<process, interrupted, terminated>>
supervision == <<config, main, childPids, children, pending, handlers>>
vars == <<supervision, sessionVars>>

JunctionFacts == [yellow : BOOLEAN, standby : {"timed", "forever", "invalid"}]

Alive(c) == process[c] \in {"young", "running"}

Init ==
  /\ config = [yellow |-> FALSE, standby |-> "timed"]
  /\ pc = "load"
  /\ pipeIndex = 0
  /\ childPids = {}
  /\ process = [c \in Child |-> "none"]
  /\ interrupted = {}
  /\ terminated = {}
  /\ pending = {}
  /\ handlers = <<>>
  /\ SessionInit

-----------------------------------------------------------------------------
(* The main program, when no handler runs and no command is under way.     *)
InMain == Idle /\ handlers = <<>>

(* What JunctionConfig leaves of a junction for this module.               *)
LoadJunctionConfig ==
  /\ pc = "load"
  /\ config' \in JunctionFacts
  /\ pc' = "start"
  /\ UNCHANGED <<pipeIndex, childPids, children, pending, handlers, sessionVars>>

(* The controller's constructor has returned. Before the handlers are      *)
(* installed SIGINT just ends the program, which has no children and has   *)
(* given no command.                                                       *)
InstallHandlers ==
  /\ InMain
  /\ pc = "start"
  /\ pc' = "fork"
  /\ UNCHANGED <<config, pipeIndex, childPids, children, pending, handlers, sessionVars>>

Fork ==
  /\ InMain
  /\ pc = "fork"
  /\ process' = [process EXCEPT ![pipeIndex] = "young"]
  /\ pc' = "push"
  /\ UNCHANGED <<config, pipeIndex, childPids, interrupted, terminated, pending,
                 handlers, sessionVars>>

ForkFails ==
  /\ InMain
  /\ pc = "fork"
  /\ exit' = "failure"
  /\ UNCHANGED <<supervision, link, session, todo, command, lamps, disturbances>>

PushBack ==
  /\ InMain
  /\ pc = "push"
  /\ childPids' = childPids \cup {pipeIndex}
  /\ IF pipeIndex + 1 < NumChildren
     THEN pipeIndex' = pipeIndex + 1 /\ pc' = "fork"
     ELSE pc' = "run" /\ UNCHANGED pipeIndex
  /\ UNCHANGED <<config, children, pending, handlers, sessionVars>>

GiveCommand(c) ==
  /\ Give(c)
  /\ UNCHANGED <<link, session, lamps, exit, disturbances>>

(* A phase of the control loop (ParentProcess).                            *)
ExecutePhase ==
  /\ InMain
  /\ pc = "run"
  /\ GiveCommand("row")
  /\ UNCHANGED supervision

(* The controller works on, for the main program or the innermost handler. *)
Session == pc # "load" /\ SessionStep /\ UNCHANGED supervision

-----------------------------------------------------------------------------
(* The handler. It goes on when its command has been sent.                 *)
Handling(signal, at) ==
  /\ Idle
  /\ handlers # <<>>
  /\ handlers[1].signal = signal
  /\ handlers[1].at = at

Then(at) == handlers' = [handlers EXCEPT ![1].at = at]

(* What the handler interrupts is never resumed, sendCommand included.     *)
DeliverUnblocked(signal) ==
  /\ exit = "no"
  /\ signal \in pending
  /\ pending' = pending \ {signal}
  /\ handlers' = <<[signal |-> signal,
                    at |-> IF signal = "SIGINT" THEN "off" ELSE "reap",
                    flashes |-> 0, targets |-> {}]>> \o handlers
  /\ todo' = <<>>
  /\ command' = "none"
  /\ UNCHANGED <<config, main, childPids, children, link, session, lamps, exit, disturbances>>

Deliver(signal) ==
  /\ \A k \in DOMAIN handlers : handlers[k].signal # signal
  /\ DeliverUnblocked(signal)

StartKilling == handlers' = [handlers EXCEPT ![1].at = "kill", ![1].targets = childPids]

InterruptKillsOnly ==
  /\ Handling("SIGINT", "off")
  /\ StartKilling
  /\ UNCHANGED <<config, main, childPids, children, pending, sessionVars>>
InterruptTurnsOff ==
  /\ Handling("SIGINT", "off")
  /\ GiveCommand("reset")
  /\ StartKilling
  /\ UNCHANGED <<config, main, childPids, children, pending>>

(* The loop around waitpid(WNOHANG) takes every child that has died.       *)
Reaping(c, rest) ==
  /\ Handling("SIGCHLD", "reap")
  /\ process[c] = "zombie"
  /\ process' = [process EXCEPT ![c] = "reaped"]
  /\ childPids' = rest
  /\ UNCHANGED <<config, main, interrupted, terminated, pending, handlers, sessionVars>>

ReapErasingTheRest(c) == Reaping(c, {d \in childPids : d < c})
Reap(c) == Reaping(c, childPids \ {c})

(* setStandbyMode returns at once when nothing can flash, or not for such  *)
(* a time.                                                                 *)
CanFlash == config.yellow /\ config.standby # "invalid"

EnterStandby ==
  /\ Handling("SIGCHLD", "reap")
  /\ \A c \in Child : process[c] # "zombie"
  /\ IF CanFlash THEN Then("flashOn") ELSE StartKilling
  /\ UNCHANGED <<config, main, childPids, children, pending, sessionVars>>

FlashOn ==
  /\ Handling("SIGCHLD", "flashOn")
  /\ GiveCommand("yellow")
  /\ Then("flashOff")
  /\ UNCHANGED <<config, main, childPids, children, pending>>

FlashOffUntimed ==
  /\ Handling("SIGCHLD", "flashOff")
  /\ GiveCommand("reset")
  /\ Then("flashOn")
  /\ UNCHANGED <<config, main, childPids, children, pending>>
FlashOff ==
  /\ Handling("SIGCHLD", "flashOff")
  /\ GiveCommand("reset")
  /\ \/ /\ config.standby = "forever" \/ handlers[1].flashes < MaxFlashes
        /\ handlers' = [handlers EXCEPT ![1].at = "flashOn",
             ![1].flashes = IF config.standby = "forever" THEN @ ELSE @ + 1]
     \/ /\ config.standby # "forever"
        /\ Then("ensureOff")
  /\ UNCHANGED <<config, main, childPids, children, pending>>

EnsureOff ==
  /\ Handling("SIGCHLD", "ensureOff")
  /\ GiveCommand("reset")
  /\ StartKilling
  /\ UNCHANGED <<config, main, childPids, children, pending>>

(* The loops over childPids at the end of both branches.                   *)
Kill(c) ==
  /\ Idle
  /\ handlers # <<>>
  /\ handlers[1].at = "kill"
  /\ c \in handlers[1].targets
  /\ \A d \in handlers[1].targets : c <= d
  /\ handlers' = [handlers EXCEPT ![1].targets = @ \ {c}]
  /\ terminated' = terminated \cup {c}
  /\ UNCHANGED <<config, main, childPids, process, interrupted, pending, sessionVars>>

ExitParent ==
  /\ Idle
  /\ handlers # <<>>
  /\ handlers[1].at = "kill"
  /\ handlers[1].targets = {}
  /\ exit' = "success"
  /\ UNCHANGED <<supervision, link, session, todo, command, lamps, disturbances>>

-----------------------------------------------------------------------------
(* The children and the operator.                                          *)
Dies(c) ==
  /\ process' = [process EXCEPT ![c] = "zombie"]
  /\ pending' = IF exit = "no" THEN pending \cup {"SIGCHLD"} ELSE pending
  /\ interrupted' = interrupted \ {c}

(* The constructor of ChildProcess installs the child's own handler.       *)
Construct(c) ==
  /\ process[c] = "young"
  /\ c \notin interrupted
  /\ process' = [process EXCEPT ![c] = "running"]
  /\ UNCHANGED <<config, main, childPids, interrupted, terminated, pending, handlers,
                 sessionVars>>

(* A crash, an exit after too many empty frames.                           *)
Crash(c) ==
  /\ Alive(c)
  /\ c \notin terminated
  /\ Dies(c)
  /\ UNCHANGED <<config, main, childPids, terminated, handlers, sessionVars>>

TermArrives(c) ==
  /\ Alive(c)
  /\ c \in terminated
  /\ Dies(c)
  /\ UNCHANGED <<config, main, childPids, terminated, handlers, sessionVars>>

(* The terminal's interrupt goes to all processes; a child that has its    *)
(* own handler ignores it.                                                 *)
Interrupt ==
  /\ exit = "no"
  /\ pc \notin {"load", "start"}
  /\ pending' = pending \cup {"SIGINT"}
  /\ interrupted' = {c \in Child : process[c] = "young"}
  /\ UNCHANGED <<config, main, childPids, process, terminated, handlers, sessionVars>>

(* A child with the parent's handler turns the lamps off, on the parent's  *)
(* connection, and kills the children recorded when it was forked. After a *)
(* disturbance its connection may be another than the parent's, be dead,   *)
(* or kill it, and it may take the error the parent's next send would see. *)
TurnsOff ==
  /\ lamps' = "off"
  /\ command' = IF todo = <<>> THEN "reset" ELSE command

YoungChildInterrupted(c) ==
  /\ process[c] = "young"
  /\ c \in interrupted
  /\ Dies(c)
  /\ LET killed == terminated \cup {d \in Child : d < c} IN
     \/ /\ disturbances = 0
        /\ TurnsOff
        /\ terminated' = killed
        /\ UNCHANGED link
     \/ /\ disturbances > 0
        /\ TurnsOff \/ UNCHANGED <<lamps, command>>
        /\ terminated' \in {terminated, killed}
        /\ link' \in {link} \cup IF link \in {"closing", "reset"} THEN {"broken"} ELSE {}
  /\ UNCHANGED <<config, main, childPids, handlers, session, todo, exit, disturbances>>

-----------------------------------------------------------------------------
HandlerStep ==
  \/ \E signal \in Signal : Deliver(signal)
  \/ InterruptTurnsOff
  \/ \E c \in Child : Reap(c)
  \/ EnterStandby
  \/ FlashOn
  \/ FlashOff
  \/ EnsureOff
  \/ \E c \in Child : Kill(c)
  \/ ExitParent

MainStep == InstallHandlers \/ Fork \/ ForkFails \/ PushBack \/ ExecutePhase

Running ==
  \/ MainStep
  \/ HandlerStep
  \/ Session
  \/ (Disturb \/ TimesOut) /\ UNCHANGED supervision
  \/ Interrupt
  \/ \E c \in Child :
       Construct(c) \/ Crash(c) \/ TermArrives(c) \/ YoungChildInterrupted(c)

Next == LoadJunctionConfig \/ Running

Spec == Init /\ [][Next]_vars

(* The kernel delivers signals and schedules their handlers, and a command *)
(* under way in one of them; sleep() returns, connecting and waiting for   *)
(* an answer end. A process that was sent SIGTERM dies.                    *)
FairSpec ==
  /\ Spec
  /\ WF_vars(HandlerStep)
  /\ WF_vars(Session)
  /\ \A c \in Child : WF_vars(TermArrives(c) \/ YoungChildInterrupted(c))

-----------------------------------------------------------------------------
Handler ==
  [signal : Signal, at : {"off", "reap", "flashOn", "flashOff", "ensureOff", "kill"},
   flashes : 0 .. MaxFlashes, targets : SUBSET Child]

(* The type of every variable; at most two handlers nest.                  *)
TypeOK ==
  /\ config \in JunctionFacts
  /\ pc \in {"load", "start", "fork", "push", "run"}
  /\ pipeIndex \in Child
  /\ childPids \subseteq Child
  /\ process \in [Child -> {"none", "young", "running", "zombie", "reaped"}]
  /\ interrupted \subseteq Child
  /\ terminated \subseteq Child
  /\ pending \subseteq Signal
  /\ handlers \in Seq(Handler) /\ Len(handlers) <= 2
  /\ SessionTypeOK

(* Once all children are recorded, a handler that exits leaves none behind *)
(* that was not sent SIGTERM, although the signals nest: the handler that  *)
(* runs last works with the whole list of those not reaped.                *)
NoneLeftBehind ==
  exit = "success" /\ pc = "run" =>
    \A c \in Child : Alive(c) => c \in terminated

(* However the handlers nest, and wherever they interrupt a command or the *)
(* connecting anew for one, the lamps are off when the parent exits through*)
(* a handler ("Turn off all relays before exiting", "Ensure lights are     *)
(* off"), provided that standby can flash at all and that the connection   *)
(* it exits with is alive and signed in.                                   *)
LampsOffAtExit ==
  exit = "success" /\ CanFlash /\ link = "up" /\ session = "in" => lamps = "off"

(* A dead child takes the junction down, unless it is to flash forever.    *)
CrashEndsProgram ==
  \A c \in Child : (process[c] = "zombie" /\ config.standby # "forever") ~> (exit # "no")
=============================================================================
