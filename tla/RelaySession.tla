----------------------------- MODULE RelaySession -----------------------------
(***************************************************************************)
(* The connection of TelnetRelayController to the relay board: connecting, *)
(* signing in, and sendCommand, which on a failed send reconnects, signs   *)
(* in and sends the command again. Signing in is done with sendCommand     *)
(* too, so that it may do so in the middle of itself: what is left to do   *)
(* is a list of steps.                                                     *)
(*                                                                         *)
(* The board does not acknowledge commands, and the program reads nothing  *)
(* from the connection but the answer to signing in. A board that closes   *)
(* the connection in order is noticed by the second command at the         *)
(* earliest: the first is accepted by the kernel and lost, and once the    *)
(* board has answered it with a reset, the next raises SIGPIPE, which is   *)
(* neither ignored nor handled. A connection that is reset by itself makes *)
(* send fail, once. What arrives at all, arrives at once.                  *)
(***************************************************************************)
EXTENDS Integers, Sequences

CONSTANTS
  MaxDisturbances  (* bound: times the connection is closed or reset       *)

ASSUME SessionAssumption == MaxDisturbances \in Nat

Command == {"row", "yellow", "reset"}
Text == Command \cup {"username", "password"}

VARIABLES
  link,          (* the socket, see Link                                   *)
  session,       (* what the board takes the next text for                 *)
  todo,          (* steps left of the command under way                    *)
  command,       (* the last command given, "none" before the first of a   *)
                 (* context (history)                                      *)
  lamps,         (* what the board shows: "row", "yellow" or "off"         *)
  exit,          (* of the process: "no", "success", "failure" or "killed" *)
  disturbances

sessionVars == <<link, session, todo, command, lamps, exit, disturbances>>

(* "none": no descriptor, a send fails; "up"; "cut": the network is gone,  *)
(* "closing": the board has closed, in both a send is accepted and lost;   *)
(* "reset", or timed out: a send fails; "broken": a send raises SIGPIPE,   *)
(* as on a socket that is not connected yet.                               *)
Link == {"none", "up", "cut", "closing", "reset", "broken"}

SignIn == <<"username", "password", "response">>
Connect == <<"socket", "connect">> \o SignIn
Reconnect == <<"close">> \o Connect

(* The constructor of the controller connects and signs in.                *)
SessionInit ==
  /\ link = "none"
  /\ session = "username"
  /\ todo = Connect
  /\ command = "none"
  /\ lamps = "off"
  /\ exit = "no"
  /\ disturbances = 0

Idle == exit = "no" /\ todo = <<>>

(* sendCommand is called.                                                  *)
Give(c) == todo' = <<c>> /\ command' = c

NextStep(step) == exit = "no" /\ todo # <<>> /\ Head(todo) = step
Done == todo' = Tail(todo)

-----------------------------------------------------------------------------
(* What the board makes of a text that reaches it.                         *)
Shown(c) == IF c = "reset" THEN "off" ELSE c

Received(text) ==
  /\ session' = CASE session = "username" -> IF text = "username" THEN "password" ELSE "denied"
                  [] session = "password" -> IF text = "password" THEN "in" ELSE "denied"
                  [] OTHER                -> session
  /\ lamps' = IF session = "in" /\ text \in Command THEN Shown(text) ELSE lamps

Arrives(text) ==
  /\ NextStep(text)
  /\ link = "up"
  /\ Received(text)
  /\ Done
  /\ UNCHANGED <<link, command, exit, disturbances>>

IsLost(text) ==
  /\ NextStep(text)
  /\ link \in {"cut", "closing"}
  /\ link' \in IF link = "cut" THEN {"cut"} ELSE {"closing", "broken"}
  /\ Done
  /\ UNCHANGED <<session, command, lamps, exit, disturbances>>

(* reconnect(), and sendCommand(command) once more.                        *)
Failing(text, then) ==
  /\ NextStep(text)
  /\ link \in {"reset", "none"}
  /\ link' = IF link = "reset" THEN "broken" ELSE link
  /\ todo' = then
  /\ UNCHANGED <<session, command, lamps, exit, disturbances>>

FailsWithoutRetry(text) == Failing(text, Reconnect \o Tail(todo))
Fails(text) == Failing(text, Reconnect \o todo)

RaisesSigpipe(text) ==
  /\ NextStep(text)
  /\ link = "broken"
  /\ exit' = "killed"
  /\ UNCHANGED <<link, session, todo, command, lamps, disturbances>>

SendCommand(text) == Arrives(text) \/ IsLost(text) \/ Fails(text) \/ RaisesSigpipe(text)

-----------------------------------------------------------------------------
(* The steps of connecting. None of them is undone when the next fails.    *)
Close ==
  /\ NextStep("close")
  /\ link' = "none"
  /\ Done
  /\ UNCHANGED <<session, command, lamps, exit, disturbances>>

OpenSocket ==
  /\ NextStep("socket")
  /\ link' = "broken"
  /\ Done
  /\ UNCHANGED <<session, command, lamps, exit, disturbances>>

ConnectToRelay ==
  /\ NextStep("connect")
  /\ link' = "up"
  /\ session' = "username"
  /\ Done
  /\ UNCHANGED <<command, lamps, exit, disturbances>>

(* receiveResponse finds a prompt or a confirmation. It reads on after it, *)
(* and so takes the error of a connection that is reset.                   *)
ReceiveResponse ==
  /\ NextStep("response")
  /\ session = "in"
  /\ link' = IF link = "reset" THEN "broken" ELSE link
  /\ Done
  /\ UNCHANGED <<session, command, lamps, exit, disturbances>>

(* The board is not reached, or its answer is not the one expected or does *)
(* not come in time: the constructor, or the outermost sendCommand, exits. *)
ConnectionFails ==
  /\ NextStep("connect") \/ NextStep("response")
  /\ exit' = "failure"
  /\ UNCHANGED <<link, session, todo, command, lamps, disturbances>>

(* The board, or the network.                                              *)
Disturb ==
  /\ exit = "no"
  /\ link = "up"
  /\ disturbances < MaxDisturbances
  /\ link' \in {"cut", "closing", "reset"}
  /\ disturbances' = disturbances + 1
  /\ UNCHANGED <<session, todo, command, lamps, exit>>

TimesOut ==
  /\ exit = "no"
  /\ link = "cut"
  /\ link' = "reset"
  /\ UNCHANGED <<session, todo, command, lamps, exit, disturbances>>

SessionStep ==
  \/ \E text \in Text : SendCommand(text)
  \/ Close
  \/ OpenSocket
  \/ ConnectToRelay
  \/ ReceiveResponse
  \/ ConnectionFails

-----------------------------------------------------------------------------
(* The type of the variables of the connection.                            *)
Step == Text \cup {"close", "socket", "connect", "response"}

SessionTypeOK ==
  /\ link \in Link
  /\ session \in {"username", "password", "denied", "in"}
  /\ todo \in Seq(Step)
  /\ command \in Command \cup {"none"}
  /\ lamps \in {"row", "yellow", "off"}
  /\ exit \in {"no", "success", "failure", "killed"}
  /\ disturbances \in 0 .. MaxDisturbances

(* Whenever no command is under way and the connection is signed in and    *)
(* undisturbed, the board shows what the last command asked for, although  *)
(* nothing is acknowledged and a command may have been given while the     *)
(* connection was lost, or in the middle of signing in again.              *)
BoardObeys ==
  Idle /\ command # "none" /\ link = "up" /\ session = "in" => lamps = Shown(command)

(* A command that cannot be sent makes the program reconnect ("Failed to   *)
(* send command, attempting to reconnect...",                              *)
(* TelnetRelayController.cpp:126), not end it on the spot.                 *)
FailedSendReconnects == exit # "killed"
=============================================================================
