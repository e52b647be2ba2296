---------------------------- MODULE Program_proofs ----------------------------
(* Supervision: whatever interrupts what, the handlers leave no child      *)
(* behind, the board shows the last command, and the lamps are off when a  *)
(* handler exits; for any number of children, flashes and disturbances of  *)
(* the connection. It holds of the whole program, which starts by loading  *)
(* its configuration; and a loaded configuration with a vehicle approach   *)
(* has channels to flash, so that the lamps are off when its program       *)
(* exits.                                                                  *)
EXTENDS Program, TLAPS

USE SupervisorAssumption, SessionAssumption

(* The two signals are never handled twice at a time.                      *)
HandlersDiffer ==
  \A j, k \in DOMAIN handlers : handlers[j].signal = handlers[k].signal => j = k

Typed == TypeOK /\ HandlersDiffer

-----------------------------------------------------------------------------
(* The steps of the connection keep its types.                             *)
LEMMA StepsType ==
  /\ SignIn \in Seq(Step) /\ Reconnect \in Seq(Step) /\ Connect \in Seq(Step)
  /\ Command \subseteq Step /\ Text \subseteq Step
BY DEF SignIn, Reconnect, Connect, Step, Text, Command

LEMMA TailType ==
  ASSUME NEW S, NEW s \in Seq(S), s # <<>>
  PROVE  Head(s) \in S /\ Tail(s) \in Seq(S)
OBVIOUS

LEMMA SessionKeepsType ==
  ASSUME SessionTypeOK, SessionStep \/ Disturb \/ TimesOut
  PROVE  SessionTypeOK'
<1>1. ASSUME NEW text \in Text, Arrives(text) PROVE SessionTypeOK'
  <2>1. todo' \in Seq(Step)
    BY <1>1, TailType DEF Arrives, NextStep, Done, SessionTypeOK
  <2>2. lamps' \in {"row", "yellow", "off"}
    BY <1>1 DEF Arrives, Received, Shown, SessionTypeOK, Command
  <2> QED  BY <1>1, <2>1, <2>2 DEF Arrives, Received, SessionTypeOK
<1>2. ASSUME NEW text \in Text, IsLost(text) PROVE SessionTypeOK'
  BY <1>2, TailType DEF IsLost, NextStep, Done, SessionTypeOK, Link
<1>3. ASSUME NEW text \in Text, Fails(text) PROVE SessionTypeOK'
  BY <1>3, StepsType DEF Fails, Failing, SessionTypeOK, Link
<1>4. ASSUME NEW text \in Text, RaisesSigpipe(text) PROVE SessionTypeOK'
  BY <1>4 DEF RaisesSigpipe, SessionTypeOK
<1>5. ASSUME Close \/ OpenSocket \/ ConnectToRelay \/ ReceiveResponse PROVE SessionTypeOK'
  BY <1>5, TailType DEF Close, OpenSocket, ConnectToRelay, ReceiveResponse, NextStep, Done,
                        SessionTypeOK, Link
<1>6. ASSUME ConnectionFails PROVE SessionTypeOK'
  BY <1>6 DEF ConnectionFails, SessionTypeOK
<1>7. ASSUME Disturb \/ TimesOut PROVE SessionTypeOK'
  BY <1>7 DEF Disturb, TimesOut, SessionTypeOK, Link
<1> QED  BY <1>1, <1>2, <1>3, <1>4, <1>5, <1>6, <1>7 DEF SessionStep, SendCommand

-----------------------------------------------------------------------------
(* The stack of handlers keeps its type and its signals when the innermost *)
(* goes on, and when another is put upon it.                               *)
LEMMA TopHandler ==
  ASSUME Typed, handlers # <<>>, NEW top \in Handler, top.signal = handlers[1].signal,
         handlers' = [handlers EXCEPT ![1] = top]
  PROVE  /\ handlers' \in Seq(Handler) /\ Len(handlers') <= 2 /\ HandlersDiffer'
         /\ handlers' # <<>> /\ handlers'[1] = top
<1>1. /\ handlers \in Seq(Handler) /\ Len(handlers) <= 2 /\ 1 \in DOMAIN handlers
      /\ DOMAIN handlers = 1 .. Len(handlers)
  BY DEF Typed, TypeOK
<1>2. handlers' \in Seq(Handler) /\ Len(handlers') = Len(handlers) /\ handlers'[1] = top
  BY <1>1
<1>3. \A k \in DOMAIN handlers : handlers'[k].signal = handlers[k].signal
  BY <1>1
<1>4. DOMAIN handlers' = DOMAIN handlers
  BY <1>1
<1> QED  BY <1>1, <1>2, <1>3, <1>4 DEF Typed, HandlersDiffer

LEMMA PushHandler ==
  ASSUME Typed, NEW top \in Handler, \A k \in DOMAIN handlers : handlers[k].signal # top.signal,
         handlers' = <<top>> \o handlers
  PROVE  /\ handlers' \in Seq(Handler) /\ Len(handlers') <= 2 /\ HandlersDiffer'
         /\ handlers' # <<>> /\ handlers'[1] = top
<1>1. handlers \in Seq(Handler) /\ DOMAIN handlers = 1 .. Len(handlers) /\ Len(handlers) \in Nat
  BY DEF Typed, TypeOK
<1>2. /\ handlers' \in Seq(Handler) /\ Len(handlers') = Len(handlers) + 1
      /\ handlers'[1] = top /\ DOMAIN handlers' = 1 .. Len(handlers) + 1
      /\ \A k \in 2 .. Len(handlers) + 1 : handlers'[k] = handlers[k - 1]
  BY <1>1
<1>3. \A k \in 1 .. Len(handlers) : handlers[k].signal \in Signal
  <2>1. \A k \in 1 .. Len(handlers) : handlers[k] \in Handler
    BY <1>1
  <2>2. \A h \in Handler : h.signal \in Signal
    BY DEF Handler
  <2> QED  BY <2>1, <2>2
<1>4. Len(handlers) <= 1
  <2>1. SUFFICES ASSUME Len(handlers) >= 2
                 PROVE  FALSE
    BY <1>1
  <2>2. 1 \in DOMAIN handlers /\ 2 \in DOMAIN handlers
    BY <1>1, <2>1
  <2>3. handlers[1].signal \in Signal /\ handlers[2].signal \in Signal /\ top.signal \in Signal
    BY <1>1, <1>3, <2>2 DEF Handler
  <2>4. handlers[1].signal # top.signal /\ handlers[2].signal # top.signal
    BY <2>2
  <2>5. handlers[1].signal # handlers[2].signal
    BY <2>2 DEF Typed, HandlersDiffer
  <2> QED  BY <2>3, <2>4, <2>5 DEF Signal
<1>5. HandlersDiffer'
  <2>1. SUFFICES ASSUME NEW j \in DOMAIN handlers', NEW k \in DOMAIN handlers',
                        handlers'[j].signal = handlers'[k].signal
                 PROVE  j = k
    BY DEF HandlersDiffer
  <2>2. j \in 1 .. 2 /\ k \in 1 .. 2
    BY <1>1, <1>2, <1>4, <2>1
  <2>3. ASSUME Len(handlers) = 1
        PROVE  handlers'[2] = handlers[1] /\ handlers[1].signal # top.signal
    BY <1>1, <1>2, <2>3
  <2>4. 2 \in DOMAIN handlers' => Len(handlers) = 1
    BY <1>1, <1>2, <1>4
  <2> QED  BY <1>2, <2>1, <2>2, <2>3, <2>4
<1> QED  BY <1>1, <1>2, <1>4, <1>5

-----------------------------------------------------------------------------
LEMMA ChildFacts == 0 \in Child /\ Child \subseteq Nat
BY DEF Child

LEMMA SameSession ==
  ASSUME SessionTypeOK, UNCHANGED sessionVars
  PROVE  SessionTypeOK'
BY DEF SessionTypeOK, sessionVars

LEMMA CommandType ==
  ASSUME SessionTypeOK, NEW c \in Command, GiveCommand(c)
  PROVE  SessionTypeOK'
<1>1. <<c>> \in Seq(Step)
  BY StepsType
<1> QED  BY <1>1 DEF GiveCommand, Give, SessionTypeOK

(* What the innermost handler does next is of the type of a handler.       *)
LEMMA InnermostType ==
  ASSUME TypeOK, handlers # <<>>
  PROVE  /\ handlers[1] \in Handler
         /\ \A at \in {"off", "reap", "flashOn", "flashOff", "ensureOff", "kill"} :
              [handlers[1] EXCEPT !.at = at] \in Handler
         /\ [handlers[1] EXCEPT !.at = "kill", !.targets = childPids] \in Handler
         /\ \A flashes \in 0 .. MaxFlashes :
              [handlers[1] EXCEPT !.at = "flashOn", !.flashes = flashes] \in Handler
         /\ \A c \in Child : [handlers[1] EXCEPT !.targets = @ \ {c}] \in Handler
<1>1. handlers[1] \in Handler
  BY DEF TypeOK
<1>2. childPids \subseteq Child
  BY DEF TypeOK
<1> QED  BY <1>1, <1>2 DEF Handler

LEMMA MovesOn ==
  ASSUME Typed, handlers # <<>>,
         NEW at \in {"off", "reap", "flashOn", "flashOff", "ensureOff", "kill"}, Then(at)
  PROVE  /\ handlers' \in Seq(Handler) /\ Len(handlers') <= 2 /\ HandlersDiffer'
         /\ handlers' # <<>> /\ handlers'[1].at = at
<1> DEFINE top == [handlers[1] EXCEPT !.at = at]
<1>1. top \in Handler /\ top.signal = handlers[1].signal /\ top.at = at
  <2>1. top \in Handler /\ handlers[1] \in Handler
    BY InnermostType DEF Typed
  <2> QED  BY <2>1 DEF Handler
<1>2. handlers' = [handlers EXCEPT ![1] = top]
  BY DEF Then
<1> QED  BY <1>1, <1>2, TopHandler

LEMMA StartsKilling ==
  ASSUME Typed, handlers # <<>>, StartKilling
  PROVE  /\ handlers' \in Seq(Handler) /\ Len(handlers') <= 2 /\ HandlersDiffer'
         /\ handlers' # <<>> /\ handlers'[1].at = "kill" /\ handlers'[1].targets = childPids
<1> DEFINE top == [handlers[1] EXCEPT !.at = "kill", !.targets = childPids]
<1>1. top \in Handler /\ top.signal = handlers[1].signal
      /\ top.at = "kill" /\ top.targets = childPids
  <2>1. top \in Handler /\ handlers[1] \in Handler
    BY InnermostType DEF Typed
  <2> QED  BY <2>1 DEF Handler
<1>2. handlers' = [handlers EXCEPT ![1] = top]
  BY DEF StartKilling
<1> QED  BY <1>1, <1>2, TopHandler

LEMMA FlashesAgain ==
  ASSUME Typed, handlers # <<>>, NEW flashes \in 0 .. MaxFlashes,
         handlers' = [handlers EXCEPT ![1].at = "flashOn", ![1].flashes = flashes]
  PROVE  /\ handlers' \in Seq(Handler) /\ Len(handlers') <= 2 /\ HandlersDiffer'
         /\ handlers' # <<>> /\ handlers'[1].at = "flashOn"
<1> DEFINE top == [handlers[1] EXCEPT !.at = "flashOn", !.flashes = flashes]
<1>1. top \in Handler /\ top.signal = handlers[1].signal /\ top.at = "flashOn"
  <2>1. top \in Handler /\ handlers[1] \in Handler
    BY InnermostType DEF Typed
  <2> QED  BY <2>1 DEF Handler
<1>2. handlers' = [handlers EXCEPT ![1] = top]
  OBVIOUS
<1> QED  BY <1>1, <1>2, TopHandler

LEMMA FlashOffMoves ==
  ASSUME Typed, FlashOff
  PROVE  handlers' # <<>> /\ handlers'[1].at # "kill"
<1>1. handlers # <<>> /\ handlers[1].flashes \in 0 .. MaxFlashes
  BY InnermostType DEF FlashOff, Handling, Typed, Handler
<1>2. CASE Then("ensureOff")
  BY <1>1, <1>2, MovesOn
<1>3. CASE /\ config.standby = "forever" \/ handlers[1].flashes < MaxFlashes
           /\ handlers' = [handlers EXCEPT ![1].at = "flashOn",
                ![1].flashes = IF config.standby = "forever" THEN @ ELSE @ + 1]
  <2> DEFINE flashes == IF config.standby = "forever" THEN handlers[1].flashes
                        ELSE handlers[1].flashes + 1
  <2>1. flashes \in 0 .. MaxFlashes
    BY <1>1, <1>3
  <2>2. handlers' = [handlers EXCEPT ![1].at = "flashOn", ![1].flashes = flashes]
    BY <1>3
  <2> QED  BY <1>1, <2>1, <2>2, FlashesAgain
<1> QED  BY <1>2, <1>3 DEF FlashOff

LEMMA Killed ==
  ASSUME Typed, handlers # <<>>, NEW c \in Child,
         handlers' = [handlers EXCEPT ![1].targets = @ \ {c}]
  PROVE  /\ handlers' \in Seq(Handler) /\ Len(handlers') <= 2 /\ HandlersDiffer'
         /\ handlers' # <<>> /\ handlers'[1].at = handlers[1].at
         /\ handlers'[1].targets = handlers[1].targets \ {c}
<1> DEFINE top == [handlers[1] EXCEPT !.targets = @ \ {c}]
<1>1. top \in Handler /\ top.signal = handlers[1].signal
      /\ top.at = handlers[1].at /\ top.targets = handlers[1].targets \ {c}
  <2>1. top \in Handler /\ handlers[1] \in Handler
    BY InnermostType DEF Typed
  <2> QED  BY <2>1 DEF Handler
<1>2. handlers' = [handlers EXCEPT ![1] = top]
  OBVIOUS
<1> QED  BY <1>1, <1>2, TopHandler

-----------------------------------------------------------------------------
(* The steps of the main program, of the handlers, and of the rest.        *)
LEMMA MainKeepsType ==
  ASSUME Typed, LoadJunctionConfig \/ MainStep
  PROVE  Typed'
<1>1. CASE LoadJunctionConfig \/ InstallHandlers
  BY <1>1, SameSession DEF LoadJunctionConfig, InstallHandlers, Typed, TypeOK, HandlersDiffer, children
<1>2. CASE Fork
  BY <1>2, SameSession DEF Fork, Typed, TypeOK, HandlersDiffer
<1>3. CASE ForkFails
  <2>1. SessionTypeOK'
    BY <1>3 DEF ForkFails, Typed, TypeOK, SessionTypeOK
  <2> QED  BY <1>3, <2>1 DEF ForkFails, supervision, main, children, Typed, TypeOK, HandlersDiffer
<1>4. CASE PushBack
  <2>1. pipeIndex' \in Child
    BY <1>4 DEF PushBack, Typed, TypeOK, Child
  <2> QED  BY <1>4, <2>1, SameSession DEF PushBack, children, Typed, TypeOK, HandlersDiffer
<1>5. CASE ExecutePhase
  <2>1. SessionTypeOK'
    BY <1>5, CommandType DEF ExecutePhase, Command, Typed, TypeOK
  <2> QED  BY <1>5, <2>1 DEF ExecutePhase, supervision, main, children, Typed, TypeOK, HandlersDiffer
<1> QED  BY <1>1, <1>2, <1>3, <1>4, <1>5 DEF MainStep

LEMMA DeliverKeepsType ==
  ASSUME Typed, NEW signal \in Signal, Deliver(signal)
  PROVE  /\ Typed' /\ handlers' # <<>> /\ handlers'[1].at \in {"off", "reap"}
<1> DEFINE top == [signal |-> signal, at |-> IF signal = "SIGINT" THEN "off" ELSE "reap",
                   flashes |-> 0, targets |-> {}]
<1>1. top \in Handler /\ top.signal = signal /\ top.at \in {"off", "reap"}
  BY DEF Handler, Signal
<1>2. handlers' = <<top>> \o handlers
  BY DEF Deliver, DeliverUnblocked
<1>3. \A k \in DOMAIN handlers : handlers[k].signal # top.signal
  BY DEF Deliver
<1>4. /\ handlers' \in Seq(Handler) /\ Len(handlers') <= 2 /\ HandlersDiffer'
      /\ handlers' # <<>> /\ handlers'[1] = top
  BY <1>1, <1>2, <1>3, PushHandler
<1>5. SessionTypeOK'
  BY DEF Deliver, DeliverUnblocked, Typed, TypeOK, SessionTypeOK
<1> QED  BY <1>1, <1>4, <1>5 DEF Deliver, DeliverUnblocked, main, children, Typed, TypeOK

LEMMA HandlerKeepsType ==
  ASSUME Typed, HandlerStep
  PROVE  Typed'
<1>1. CASE \E signal \in Signal : Deliver(signal)
  BY <1>1, DeliverKeepsType
<1>2. CASE InterruptTurnsOff \/ EnsureOff
  <2>1. handlers # <<>> /\ StartKilling /\ GiveCommand("reset")
    BY <1>2 DEF InterruptTurnsOff, EnsureOff, Handling
  <2>2. SessionTypeOK'
    BY <2>1, CommandType DEF Command, Typed, TypeOK
  <2> QED  BY <1>2, <2>1, <2>2, StartsKilling
           DEF InterruptTurnsOff, EnsureOff, main, children, Typed, TypeOK
<1>3. CASE \E c \in Child : Reap(c)
  BY <1>3, SameSession DEF Reap, Reaping, main, Typed, TypeOK, HandlersDiffer
<1>4. CASE EnterStandby
  <2>1. handlers' \in Seq(Handler) /\ Len(handlers') <= 2 /\ HandlersDiffer'
    BY <1>4, MovesOn, StartsKilling DEF EnterStandby, Handling
  <2> QED  BY <1>4, <2>1, SameSession DEF EnterStandby, main, children, Typed, TypeOK
<1>5. CASE FlashOn
  <2>1. handlers' \in Seq(Handler) /\ Len(handlers') <= 2 /\ HandlersDiffer'
    BY <1>5, MovesOn DEF FlashOn, Handling
  <2>2. SessionTypeOK'
    BY <1>5, CommandType DEF FlashOn, Command, Typed, TypeOK
  <2> QED  BY <1>5, <2>1, <2>2 DEF FlashOn, main, children, Typed, TypeOK
<1>6. CASE FlashOff
  <2>1. handlers # <<>> /\ handlers[1].flashes \in 0 .. MaxFlashes
    BY <1>6, InnermostType DEF FlashOff, Handling, Typed, Handler
  <2>2. CASE Then("ensureOff")
    BY <1>6, <2>1, <2>2, MovesOn, CommandType DEF FlashOff, Command, main, children, Typed, TypeOK
  <2>3. CASE /\ config.standby = "forever" \/ handlers[1].flashes < MaxFlashes
             /\ handlers' = [handlers EXCEPT ![1].at = "flashOn",
                  ![1].flashes = IF config.standby = "forever" THEN @ ELSE @ + 1]
    <3> DEFINE flashes == IF config.standby = "forever" THEN handlers[1].flashes
                          ELSE handlers[1].flashes + 1
    <3>1. flashes \in 0 .. MaxFlashes
      BY <2>1, <2>3
    <3>2. handlers' = [handlers EXCEPT ![1].at = "flashOn", ![1].flashes = flashes]
      BY <2>3
    <3>3. handlers' \in Seq(Handler) /\ Len(handlers') <= 2 /\ HandlersDiffer'
      BY <2>1, <3>1, <3>2, FlashesAgain
    <3> QED  BY <1>6, <3>3, CommandType DEF FlashOff, Command, main, children, Typed, TypeOK
  <2> QED  BY <1>6, <2>2, <2>3 DEF FlashOff
<1>7. CASE \E c \in Child : Kill(c)
  BY <1>7, Killed, SameSession DEF Kill, main, Typed, TypeOK
<1>8. CASE ExitParent
  <2>1. SessionTypeOK'
    BY <1>8 DEF ExitParent, Typed, TypeOK, SessionTypeOK
  <2> QED  BY <1>8, <2>1 DEF ExitParent, supervision, main, children, Typed, TypeOK, HandlersDiffer
<1> QED  BY <1>1, <1>2, <1>3, <1>4, <1>5, <1>6, <1>7, <1>8 DEF HandlerStep

ChildStep(c) == Construct(c) \/ Crash(c) \/ TermArrives(c) \/ YoungChildInterrupted(c)

LEMMA ChildKeepsType ==
  ASSUME Typed, NEW c \in Child, ChildStep(c)
  PROVE  Typed'
<1>1. CASE Construct(c)
  BY <1>1, SameSession DEF Construct, main, Typed, TypeOK, HandlersDiffer
<1>2. CASE Crash(c) \/ TermArrives(c)
  BY <1>2, SameSession DEF Crash, TermArrives, Dies, Signal, main, Typed, TypeOK, HandlersDiffer
<1>3. CASE YoungChildInterrupted(c)
  <2>1. /\ link' \in Link /\ lamps' \in {"row", "yellow", "off"}
        /\ command' \in Command \cup {"none"}
    BY <1>3 DEF YoungChildInterrupted, TurnsOff, Link, Command, Typed, TypeOK, SessionTypeOK
  <2>2. SessionTypeOK'
    BY <1>3, <2>1 DEF YoungChildInterrupted, Typed, TypeOK, SessionTypeOK
  <2>3. terminated' \subseteq Child
    BY <1>3 DEF YoungChildInterrupted, Typed, TypeOK
  <2> QED  BY <1>3, <2>2, <2>3 DEF YoungChildInterrupted, Dies, Signal, main, Typed, TypeOK, HandlersDiffer
<1> QED  BY <1>1, <1>2, <1>3 DEF ChildStep

LEMMA StutterKeepsType ==
  ASSUME Typed, UNCHANGED vars
  PROVE  Typed'
BY SameSession DEF vars, supervision, main, children, Typed, TypeOK, HandlersDiffer

(* Every variable keeps its type, and at most one handler of each signal   *)
(* runs, so that at most two nest.                                         *)
THEOREM TypeCorrect == Spec => []Typed
<1>1. ASSUME Init PROVE Typed
  <2>1. SessionTypeOK
    BY <1>1, StepsType DEF Init, SessionInit, SessionTypeOK, Link, Command
  <2> QED  BY <1>1, <2>1, ChildFacts DEF Init, JunctionFacts, Typed, TypeOK, HandlersDiffer
<1>2. ASSUME Typed, [Next]_vars
      PROVE  Typed'
  <2>1. CASE Session \/ ((Disturb \/ TimesOut) /\ UNCHANGED supervision)
    <3>1. SessionTypeOK'
      BY <1>2, <2>1, SessionKeepsType DEF Session, Typed, TypeOK
    <3> QED  BY <1>2, <2>1, <3>1 DEF Session, supervision, main, children, Typed, TypeOK, HandlersDiffer
  <2>2. CASE Interrupt
    BY <1>2, <2>2, SameSession DEF Interrupt, Signal, main, Typed, TypeOK, HandlersDiffer
  <2> QED  BY <1>2, <2>1, <2>2, MainKeepsType, HandlerKeepsType, ChildKeepsType, StutterKeepsType
           DEF Next, Running, ChildStep
<1> QED  BY <1>1, <1>2, PTL DEF Spec

THEOREM TypesHold == Spec => []TypeOK
<1>1. Typed => TypeOK
  BY DEF Typed
<1> QED  BY <1>1, TypeCorrect, PTL

-----------------------------------------------------------------------------
(* Nobody is left behind: all that live are recorded once they have been   *)
(* pushed back, a handler that kills still has to kill those it has not,   *)
(* and one that has exited has no one left to kill.                        *)
Recorded ==
  \A c \in Child : Alive(c) /\ (pc = "run" \/ c < pipeIndex) => c \in childPids

Targeted ==
  handlers # <<>> /\ handlers[1].at = "kill" /\ pc = "run" =>
    \A c \in Child : Alive(c) => c \in terminated \cup handlers[1].targets

Exited == exit = "success" => handlers # <<>> /\ handlers[1].at = "kill" /\ handlers[1].targets = {}

KillsAll == Recorded /\ Targeted /\ Exited

LEMMA SessionNeverExitsWell ==
  ASSUME SessionStep \/ Disturb \/ TimesOut
  PROVE  exit' # "success"
BY DEF SessionStep, SendCommand, Arrives, IsLost, Fails, Failing, RaisesSigpipe, Close, OpenSocket,
       ConnectToRelay, ReceiveResponse, ConnectionFails, NextStep, Disturb, TimesOut

LEMMA MainKillsAll ==
  ASSUME Typed, KillsAll, LoadJunctionConfig \/ MainStep
  PROVE  KillsAll'
<1>1. CASE LoadJunctionConfig \/ InstallHandlers
  BY <1>1 DEF LoadJunctionConfig, InstallHandlers, children, sessionVars, KillsAll, Recorded,
              Targeted, Exited, Alive
<1>2. CASE Fork
  <2>1. Recorded'
    BY <1>2, ChildFacts DEF Fork, Typed, TypeOK, KillsAll, Recorded, Alive
  <2> QED  BY <1>2, <2>1 DEF Fork, InMain, sessionVars, KillsAll, Targeted, Exited
<1>3. CASE ForkFails
  BY <1>3 DEF ForkFails, supervision, main, children, InMain, KillsAll, Recorded, Targeted, Exited, Alive
<1>4. CASE PushBack
  <2>1. \A c \in Child : Alive(c) /\ c < pipeIndex + 1 => c \in childPids'
    BY <1>4, ChildFacts DEF PushBack, Typed, TypeOK, KillsAll, Recorded
  <2>2. \A c \in Child : pc' = "run" \/ c < pipeIndex' => c < pipeIndex + 1
    BY <1>4 DEF PushBack, Typed, TypeOK, Child
  <2>3. \A c \in Child : Alive(c)' = Alive(c)
    BY <1>4 DEF PushBack, children, Alive
  <2>4. Recorded'
    BY <2>1, <2>2, <2>3 DEF Recorded
  <2> QED  BY <1>4, <2>4 DEF PushBack, InMain, sessionVars, KillsAll, Targeted, Exited
<1>5. CASE ExecutePhase
  BY <1>5 DEF ExecutePhase, GiveCommand, supervision, main, children, KillsAll, Recorded, Targeted,
              Exited, Alive
<1> QED  BY <1>1, <1>2, <1>3, <1>4, <1>5 DEF MainStep

(* A handler that starts to kill works with the whole list.                *)
LEMMA StartKillsAll ==
  ASSUME Typed, KillsAll, exit = "no", handlers # <<>>, StartKilling,
         UNCHANGED <<main, childPids, children, exit>>
  PROVE  KillsAll'
<1>1. handlers' # <<>> /\ handlers'[1].at = "kill" /\ handlers'[1].targets = childPids
  BY StartsKilling
<1>2. Recorded'
  BY DEF main, children, KillsAll, Recorded, Alive
<1>3. Targeted'
  BY <1>1, <1>2 DEF Targeted, Recorded
<1> QED  BY <1>2, <1>3 DEF KillsAll, Exited

LEMMA MovesOnKillsAll ==
  ASSUME Typed, KillsAll, exit = "no", handlers' # <<>>, handlers'[1].at # "kill",
         UNCHANGED <<main, childPids, children, exit>>
  PROVE  KillsAll'
BY DEF main, children, KillsAll, Recorded, Targeted, Exited, Alive

LEMMA HandlerKillsAll ==
  ASSUME Typed, KillsAll, HandlerStep
  PROVE  KillsAll'
<1>1. CASE \E signal \in Signal : Deliver(signal)
  BY <1>1, DeliverKeepsType, MovesOnKillsAll DEF Deliver, DeliverUnblocked
<1>2. CASE InterruptTurnsOff \/ EnsureOff
  BY <1>2, StartKillsAll DEF InterruptTurnsOff, EnsureOff, Handling, Idle, GiveCommand
<1>3. CASE \E c \in Child : Reap(c)
  BY <1>3 DEF Reap, Reaping, Handling, Idle, main, sessionVars, Typed, TypeOK, KillsAll, Recorded,
              Targeted, Exited, Alive
<1>4. CASE EnterStandby
  <2>1. CASE Then("flashOn")
    BY <1>4, <2>1, MovesOn, MovesOnKillsAll DEF EnterStandby, Handling, Idle, sessionVars
  <2>2. CASE StartKilling
    BY <1>4, <2>2, StartKillsAll DEF EnterStandby, Handling, Idle, sessionVars
  <2> QED  BY <1>4, <2>1, <2>2 DEF EnterStandby
<1>5. CASE FlashOn
  BY <1>5, MovesOn, MovesOnKillsAll DEF FlashOn, Handling, Idle, GiveCommand
<1>6. CASE FlashOff
  BY <1>6, FlashOffMoves, MovesOnKillsAll DEF FlashOff, Handling, Idle, GiveCommand
<1>7. CASE \E c \in Child : Kill(c)
  <2>1. PICK c \in Child : Kill(c)
    BY <1>7
  <2>2. /\ handlers' # <<>> /\ handlers'[1].at = handlers[1].at
        /\ handlers'[1].targets = handlers[1].targets \ {c}
    BY <2>1, Killed DEF Kill
  <2> QED  BY <2>1, <2>2 DEF Kill, Idle, main, sessionVars, KillsAll, Recorded, Targeted, Exited, Alive
<1>8. CASE ExitParent
  BY <1>8 DEF ExitParent, supervision, main, children, KillsAll, Recorded, Targeted, Exited, Alive
<1> QED  BY <1>1, <1>2, <1>3, <1>4, <1>5, <1>6, <1>7, <1>8 DEF HandlerStep

LEMMA ChildKillsAll ==
  ASSUME Typed, KillsAll, NEW c \in Child, ChildStep(c)
  PROVE  KillsAll'
<1>1. /\ \A d \in Child : Alive(d)' => Alive(d)
      /\ terminated \subseteq terminated'
      /\ UNCHANGED <<main, childPids, handlers, exit>>
  <2>1. CASE Construct(c)
    BY <2>1 DEF Construct, main, sessionVars, Typed, TypeOK, Alive
  <2>2. CASE Crash(c) \/ TermArrives(c)
    BY <2>2 DEF Crash, TermArrives, Dies, main, sessionVars, Typed, TypeOK, Alive
  <2>3. CASE YoungChildInterrupted(c)
    BY <2>3 DEF YoungChildInterrupted, Dies, main, Typed, TypeOK, Alive
  <2> QED  BY <2>1, <2>2, <2>3 DEF ChildStep
<1> QED  BY <1>1 DEF main, KillsAll, Recorded, Targeted, Exited

(* See NoneLeftBehind: for any number of children, however the signals     *)
(* nest, and whatever happens to the connection.                           *)
THEOREM NobodyLeftBehind == Spec => []NoneLeftBehind
<1>1. ASSUME Init PROVE KillsAll
  BY <1>1 DEF Init, SessionInit, KillsAll, Recorded, Targeted, Exited, Alive
<1>2. ASSUME Typed, KillsAll, [Next]_vars
      PROVE  KillsAll'
  <2>1. CASE Session \/ ((Disturb \/ TimesOut) /\ UNCHANGED supervision)
    <3>1. exit' # "success" /\ UNCHANGED supervision
      BY <2>1, SessionNeverExitsWell DEF Session
    <3> QED  BY <1>2, <3>1 DEF supervision, main, children, KillsAll, Recorded, Targeted, Exited, Alive
  <2>2. CASE Interrupt
    BY <1>2, <2>2 DEF Interrupt, main, sessionVars, KillsAll, Recorded, Targeted, Exited, Alive
  <2>3. CASE UNCHANGED vars
    BY <1>2, <2>3 DEF vars, supervision, main, children, sessionVars, KillsAll, Recorded, Targeted,
                      Exited, Alive
  <2> QED  BY <1>2, <2>1, <2>2, <2>3, MainKillsAll, HandlerKillsAll, ChildKillsAll
           DEF Next, Running, ChildStep
<1>3. KillsAll => NoneLeftBehind
  BY DEF KillsAll, Targeted, Exited, NoneLeftBehind
<1> QED  BY <1>1, <1>2, <1>3, TypeCorrect, PTL DEF Spec

-----------------------------------------------------------------------------
(* The board obeys: the command given last is the last step of what is     *)
(* left to do, and once nothing is left it is what the board shows.        *)
Promised ==
  command # "none" =>
    IF todo = <<>> THEN link = "up" /\ session = "in" => lamps = Shown(command)
    ELSE todo[Len(todo)] = command

LEMMA LastOfTail ==
  ASSUME NEW S, NEW s \in Seq(S), s # <<>>
  PROVE  IF Tail(s) = <<>> THEN s[Len(s)] = Head(s) ELSE Tail(s)[Len(Tail(s))] = s[Len(s)]
<1>1. /\ Len(s) \in Nat \ {0} /\ Len(Tail(s)) = Len(s) - 1 /\ Head(s) = s[1]
      /\ \A k \in 1 .. Len(s) - 1 : Tail(s)[k] = s[k + 1]
  OBVIOUS
<1>2. Tail(s) \in Seq(S)
  OBVIOUS
<1>3. Tail(s) = <<>> <=> Len(s) = 1
  <2>1. \A t \in Seq(S) : t = <<>> <=> Len(t) = 0
    OBVIOUS
  <2>2. Tail(s) = <<>> <=> Len(Tail(s)) = 0
    BY <1>2, <2>1, Zenon
  <2>3. Len(Tail(s)) = 0 <=> Len(s) = 1
    BY <1>1
  <2> QED  BY <2>2, <2>3
<1>4. CASE Len(s) = 1
  BY <1>1, <1>3, <1>4
<1>5. CASE Len(s) > 1
  <2>1. Len(s) - 1 \in 1 .. Len(s) - 1
    BY <1>1, <1>5
  <2> QED  BY <1>1, <1>3, <1>5, <2>1
<1> QED  BY <1>1, <1>4, <1>5

LEMMA LastOfConcat ==
  ASSUME NEW S, NEW r \in Seq(S), NEW s \in Seq(S), s # <<>>
  PROVE  r \o s # <<>> /\ (r \o s)[Len(r \o s)] = s[Len(s)]
<1>1. /\ Len(r \o s) = Len(r) + Len(s) /\ Len(r) \in Nat /\ Len(s) \in Nat \ {0}
      /\ r \o s \in Seq(S)
  OBVIOUS
<1>2. (r \o s)[Len(r) + Len(s)] = s[Len(s)]
  BY <1>1
<1>3. r \o s # <<>>
  BY <1>1
<1> QED  BY <1>1, <1>2, <1>3

(* A step that is not the sending of a command is never the last one of a  *)
(* command under way.                                                      *)
LEMMA DoneKeepsPromise ==
  ASSUME SessionTypeOK, Promised, NEW step, NextStep(step), step \notin Command, Done,
         UNCHANGED <<command, lamps>>
  PROVE  Promised'
<1>1. command # "none" => command \in Command
  BY DEF SessionTypeOK
<1>2. todo \in Seq(Step) /\ todo # <<>> /\ Head(todo) = step /\ todo' = Tail(todo)
  BY DEF NextStep, Done, SessionTypeOK
<1>3. ASSUME command # "none"
      PROVE  todo' # <<>> /\ todo'[Len(todo')] = command
  BY <1>1, <1>2, <1>3, LastOfTail DEF Promised
<1> QED  BY <1>3 DEF Promised

LEMMA SessionKeepsPromise ==
  ASSUME SessionTypeOK, Promised, SessionStep \/ Disturb \/ TimesOut
  PROVE  Promised'
<1>1. ASSUME NEW text \in Text, Arrives(text) PROVE Promised'
  <2>1. todo \in Seq(Step) /\ todo # <<>> /\ Head(todo) = text /\ todo' = Tail(todo)
    BY <1>1 DEF Arrives, NextStep, Done, SessionTypeOK
  <2>2. CASE todo' # <<>>
    BY <1>1, <2>1, <2>2, LastOfTail DEF Arrives, Promised
  <2>3. CASE todo' = <<>> /\ command # "none"
    <3>1. text = command /\ text \in Command
      BY <2>1, <2>3, LastOfTail DEF Promised, SessionTypeOK
    <3>2. session' = "in" => session = "in"
      BY <1>1, <3>1 DEF Arrives, Received, Command
    <3>3. session = "in" => lamps' = Shown(command)
      BY <1>1, <3>1 DEF Arrives, Received
    <3> QED  BY <1>1, <2>3, <3>2, <3>3 DEF Arrives, Promised, Shown
  <2> QED  BY <1>1, <2>2, <2>3 DEF Arrives, Promised
<1>2. ASSUME NEW text \in Text, IsLost(text) PROVE Promised'
  <2>1. todo \in Seq(Step) /\ todo # <<>> /\ todo' = Tail(todo) /\ link' # "up"
    BY <1>2 DEF IsLost, NextStep, Done, SessionTypeOK
  <2> QED  BY <1>2, <2>1, LastOfTail DEF IsLost, Promised
<1>3. ASSUME NEW text \in Text, Fails(text) PROVE Promised'
  <2>1. todo \in Seq(Step) /\ todo # <<>> /\ todo' = Reconnect \o todo
    BY <1>3 DEF Fails, Failing, NextStep, SessionTypeOK
  <2>2. todo' # <<>> /\ todo'[Len(todo')] = todo[Len(todo)]
    BY <2>1, StepsType, LastOfConcat
  <2> QED  BY <1>3, <2>1, <2>2 DEF Fails, Failing, Promised
<1>4. ASSUME (\E text \in Text : RaisesSigpipe(text)) \/ ConnectionFails PROVE Promised'
  BY <1>4 DEF RaisesSigpipe, ConnectionFails, Promised, Shown
<1>5. ASSUME Close \/ OpenSocket \/ ConnectToRelay \/ ReceiveResponse PROVE Promised'
  <2>1. PICK step \in {"close", "socket", "connect", "response"} : NextStep(step)
    BY <1>5 DEF Close, OpenSocket, ConnectToRelay, ReceiveResponse
  <2>2. step \notin Command /\ Done /\ UNCHANGED <<command, lamps>>
    BY <1>5, <2>1 DEF Close, OpenSocket, ConnectToRelay, ReceiveResponse, Command
  <2> QED  BY <2>1, <2>2, DoneKeepsPromise
<1>6. ASSUME Disturb \/ TimesOut PROVE Promised'
  BY <1>6 DEF Disturb, TimesOut, Promised
<1> QED  BY <1>1, <1>2, <1>3, <1>4, <1>5, <1>6 DEF SessionStep, SendCommand

LEMMA GivenIsPromised ==
  ASSUME NEW c \in Command, GiveCommand(c)
  PROVE  Promised'
<1>1. todo' = <<c>> /\ command' = c
  BY DEF GiveCommand, Give
<1>2. todo' # <<>> /\ todo'[Len(todo')] = c
  BY <1>1
<1> QED  BY <1>1, <1>2 DEF Promised

LEMMA SameKeepsPromise ==
  ASSUME Promised, UNCHANGED <<link, session, todo, command, lamps>>
  PROVE  Promised'
BY DEF Promised, Shown

LEMMA HandlerKeepsPromise ==
  ASSUME Promised, HandlerStep
  PROVE  Promised'
<1>1. CASE \E signal \in Signal : Deliver(signal)
  BY <1>1 DEF Deliver, DeliverUnblocked, Promised
<1>2. CASE InterruptTurnsOff \/ EnsureOff \/ FlashOn \/ FlashOff
  <2>1. PICK c \in Command : GiveCommand(c)
    BY <1>2 DEF InterruptTurnsOff, EnsureOff, FlashOn, FlashOff, Command
  <2> QED  BY <2>1, GivenIsPromised
<1>3. CASE (\E c \in Child : Reap(c) \/ Kill(c)) \/ EnterStandby \/ ExitParent
  BY <1>3, SameKeepsPromise DEF Reap, Reaping, Kill, EnterStandby, ExitParent, sessionVars
<1> QED  BY <1>1, <1>2, <1>3 DEF HandlerStep

LEMMA ChildKeepsPromise ==
  ASSUME Typed, Promised, NEW c \in Child, ChildStep(c)
  PROVE  Promised'
<1>1. CASE Construct(c) \/ Crash(c) \/ TermArrives(c)
  BY <1>1, SameKeepsPromise DEF Construct, Crash, TermArrives, sessionVars
<1>2. CASE YoungChildInterrupted(c)
  <2>1. link' = "up" => link = "up"
    BY <1>2 DEF YoungChildInterrupted
  <2>2. CASE TurnsOff
    BY <1>2, <2>1, <2>2 DEF YoungChildInterrupted, TurnsOff, Promised, Shown
  <2>3. CASE UNCHANGED <<lamps, command>>
    BY <1>2, <2>1, <2>3 DEF YoungChildInterrupted, Promised, Shown
  <2> QED  BY <1>2, <2>2, <2>3 DEF YoungChildInterrupted
<1> QED  BY <1>1, <1>2 DEF ChildStep

LEMMA StepKeepsPromise ==
  ASSUME Typed, Promised, [Next]_vars
  PROVE  Promised'
<1>1. CASE LoadJunctionConfig \/ InstallHandlers \/ Fork \/ ForkFails \/ PushBack \/ Interrupt
  BY <1>1, SameKeepsPromise
     DEF LoadJunctionConfig, InstallHandlers, Fork, ForkFails, PushBack, Interrupt, sessionVars
<1>2. CASE ExecutePhase
  BY <1>2, GivenIsPromised DEF ExecutePhase, Command
<1>3. CASE Session \/ ((Disturb \/ TimesOut) /\ UNCHANGED supervision)
  BY <1>3, SessionKeepsPromise DEF Session, Typed, TypeOK
<1>4. CASE UNCHANGED vars
  BY <1>4, SameKeepsPromise DEF vars, sessionVars
<1> QED  BY <1>1, <1>2, <1>3, <1>4, HandlerKeepsPromise, ChildKeepsPromise
         DEF Next, Running, MainStep, ChildStep

(* See BoardObeys: for any number of disturbances of the connection, and   *)
(* wherever signals interrupt the sending of a command.                    *)
THEOREM BoardFollows == Spec => []BoardObeys
<1>1. Init => Promised
  BY DEF Init, SessionInit, Promised
<1>2. Promised => BoardObeys
  BY DEF Promised, BoardObeys, Idle
<1> QED  BY <1>1, <1>2, StepKeepsPromise, TypeCorrect, PTL DEF Spec

-----------------------------------------------------------------------------
(* The lamps are off at exit: nothing can be handled before the handlers   *)
(* are installed, a handler that kills has given the command to turn off   *)
(* last, and one that has exited had sent it.                              *)
Early ==
  pc \in {"load", "start"} =>
    handlers = <<>> /\ pending = {} /\ \A c \in Child : process[c] = "none"

LastOff == handlers # <<>> /\ handlers[1].at = "kill" /\ CanFlash => command = "reset"

Sent == exit = "success" => todo = <<>> /\ handlers # <<>> /\ handlers[1].at = "kill"

TurnedOff == Early /\ LastOff /\ Sent

LEMMA KillingTurnedOff ==
  ASSUME Typed, handlers # <<>>, StartKilling, pc \notin {"load", "start"},
         exit = "no", UNCHANGED <<config, main, exit>>, CanFlash => command' = "reset"
  PROVE  TurnedOff'
<1>1. handlers' # <<>> /\ handlers'[1].at = "kill"
  BY StartsKilling
<1> QED  BY <1>1 DEF main, TurnedOff, Early, LastOff, Sent, CanFlash

LEMMA NotKillingTurnedOff ==
  ASSUME handlers' # <<>>, handlers'[1].at # "kill", pc \notin {"load", "start"},
         exit = "no", UNCHANGED <<config, main, exit>>
  PROVE  TurnedOff'
BY DEF main, TurnedOff, Early, LastOff, Sent

LEMMA HandlerTurnedOff ==
  ASSUME Typed, TurnedOff, HandlerStep
  PROVE  TurnedOff'
<1>1. CASE \E signal \in Signal : Deliver(signal)
  BY <1>1, DeliverKeepsType, NotKillingTurnedOff DEF Deliver, DeliverUnblocked, TurnedOff, Early
<1>2. CASE InterruptTurnsOff \/ EnsureOff
  BY <1>2, KillingTurnedOff
     DEF InterruptTurnsOff, EnsureOff, Handling, Idle, GiveCommand, Give, TurnedOff, Early
<1>3. CASE \E c \in Child : Reap(c)
  BY <1>3 DEF Reap, Reaping, Handling, Idle, main, sessionVars, TurnedOff, Early, LastOff, Sent, CanFlash
<1>4. CASE EnterStandby
  <2>1. CASE CanFlash
    BY <1>4, <2>1, MovesOn, NotKillingTurnedOff
       DEF EnterStandby, Handling, Idle, sessionVars, TurnedOff, Early
  <2>2. CASE ~ CanFlash
    BY <1>4, <2>2, KillingTurnedOff DEF EnterStandby, Handling, Idle, sessionVars, TurnedOff, Early
  <2> QED  BY <2>1, <2>2
<1>5. CASE FlashOn
  BY <1>5, MovesOn, NotKillingTurnedOff DEF FlashOn, Handling, Idle, GiveCommand, TurnedOff, Early
<1>6. CASE FlashOff
  BY <1>6, FlashOffMoves, NotKillingTurnedOff
     DEF FlashOff, Handling, Idle, GiveCommand, TurnedOff, Early
<1>7. CASE \E c \in Child : Kill(c)
  <2>1. PICK c \in Child : Kill(c)
    BY <1>7
  <2>2. handlers' # <<>> /\ handlers'[1].at = handlers[1].at
    BY <2>1, Killed DEF Kill
  <2> QED  BY <2>1, <2>2 DEF Kill, Idle, main, sessionVars, TurnedOff, Early, LastOff, Sent, CanFlash
<1>8. CASE ExitParent
  BY <1>8 DEF ExitParent, Idle, supervision, main, children, TurnedOff, Early, LastOff, Sent, CanFlash
<1> QED  BY <1>1, <1>2, <1>3, <1>4, <1>5, <1>6, <1>7, <1>8 DEF HandlerStep

LEMMA MainTurnedOff ==
  ASSUME Typed, TurnedOff, LoadJunctionConfig \/ MainStep
  PROVE  TurnedOff'
<1>1. handlers = <<>> /\ handlers' = <<>>
  BY DEF LoadJunctionConfig, MainStep, InstallHandlers, Fork, ForkFails, PushBack, ExecutePhase, InMain,
         supervision, TurnedOff, Early
<1>2. exit' # "success"
  BY <1>1 DEF LoadJunctionConfig, MainStep, InstallHandlers, Fork, ForkFails, PushBack, ExecutePhase,
              GiveCommand, sessionVars, TurnedOff, Sent
<1>3. Early'
  BY <1>1 DEF LoadJunctionConfig, MainStep, InstallHandlers, Fork, ForkFails, PushBack, ExecutePhase,
              supervision, main, children, TurnedOff, Early
<1> QED  BY <1>1, <1>2, <1>3 DEF TurnedOff, LastOff, Sent

LEMMA ChildTurnedOff ==
  ASSUME Typed, TurnedOff, NEW c \in Child, ChildStep(c)
  PROVE  TurnedOff'
<1>1. /\ process[c] \in {"young", "running"}
      /\ UNCHANGED <<config, main, handlers, todo, exit>>
      /\ command' \in {command, "reset"}
  BY DEF ChildStep, Construct, Crash, TermArrives, YoungChildInterrupted, TurnsOff, Alive, sessionVars
<1>2. pc \notin {"load", "start"}
  BY <1>1 DEF TurnedOff, Early
<1> QED  BY <1>1, <1>2 DEF main, TurnedOff, Early, LastOff, Sent, CanFlash

LEMMA SessionSends ==
  ASSUME SessionStep \/ Disturb \/ TimesOut
  PROVE  exit = "no" /\ command' = command
BY DEF SessionStep, SendCommand, Arrives, IsLost, Fails, Failing, RaisesSigpipe, Close, OpenSocket,
       ConnectToRelay, ReceiveResponse, ConnectionFails, NextStep, Disturb, TimesOut

LEMMA StepTurnedOff ==
  ASSUME Typed, TurnedOff, [Next]_vars
  PROVE  TurnedOff'
<1>1. CASE Session \/ ((Disturb \/ TimesOut) /\ UNCHANGED supervision)
  <2>1. exit' # "success" /\ command' = command /\ UNCHANGED supervision
    BY <1>1, SessionNeverExitsWell, SessionSends DEF Session
  <2> QED  BY <2>1 DEF supervision, main, children, TurnedOff, Early, LastOff, Sent, CanFlash
<1>2. CASE Interrupt
  BY <1>2 DEF Interrupt, main, sessionVars, TurnedOff, Early, LastOff, Sent, CanFlash
<1>3. CASE UNCHANGED vars
  BY <1>3 DEF vars, supervision, main, children, sessionVars, TurnedOff, Early, LastOff, Sent, CanFlash
<1> QED  BY <1>1, <1>2, <1>3, MainTurnedOff, HandlerTurnedOff, ChildTurnedOff DEF Next, Running, ChildStep

LEMMA InitTurnedOff ==
  ASSUME Init
  PROVE  Promised /\ TurnedOff
BY DEF Init, SessionInit, Promised, TurnedOff, Early, LastOff, Sent

LEMMA OffWhenSent == Promised /\ TurnedOff => LampsOffAtExit
BY DEF Promised, TurnedOff, LastOff, Sent, LampsOffAtExit, Shown

(* See LampsOffAtExit: for any number of children, flashes and disturbances*)
(* of the connection, however the handlers nest.                           *)
THEOREM OffAtExit == Spec => []LampsOffAtExit
<1> QED  BY InitTurnedOff, OffWhenSent, StepKeepsPromise, StepTurnedOff, TypeCorrect, PTL DEF Spec

-----------------------------------------------------------------------------
(* The whole program.                                                      *)

(* The program only adds to what starts the supervision.                   *)
LEMMA ProgramStep ==
  ASSUME [ProgramNext]_<<vars, loaderVars>>
  PROVE  [Next]_vars
BY DEF ProgramNext, LoadSections, ConfigLoaded, Run, Next, vars, loaderVars

LEMMA Supervises == ProgramSpec => Spec
<1>1. ProgramInit => Init
  BY DEF ProgramInit
<1> QED  BY <1>1, ProgramStep, PTL DEF ProgramSpec, Spec

(* The theorems of the supervision, for the whole program.                 *)
THEOREM ProgramTypes == ProgramSpec => []TypeOK
BY Supervises, TypesHold, PTL

THEOREM ProgramLeavesNobody == ProgramSpec => []NoneLeftBehind
BY Supervises, NobodyLeftBehind, PTL

THEOREM ProgramObeyed == ProgramSpec => []BoardObeys
BY Supervises, BoardFollows, PTL

-----------------------------------------------------------------------------
(* What is proved of loading the configuration, for the loader within the  *)
(* program.                                                                *)
Loads == INSTANCE JunctionConfig_proofs WITH config <- junction, pc <- loading

LEMMA LoaderStep ==
  ASSUME [ProgramNext]_<<vars, loaderVars>>
  PROVE  [Loader!Next]_loaderVars
BY DEF ProgramNext, LoadSections, ConfigLoaded, Run

(* Both instances of the loader are the same.                              *)
LEMMA SameCardinality == \A S : Loader!Cardinality(S) = Loads!Cardinality(S)
BY Zenon DEF Loader!Cardinality, Loads!Cardinality

LEMMA SameOperators ==
  /\ Loader!Section = Loads!Section
  /\ Loader!VehicleTypes = Loads!VehicleTypes /\ Loader!PedestrianTypes = Loads!PedestrianTypes
  /\ Loader!Rows = Loads!Rows
  /\ \A section : Loader!After(section) = Loads!After(section)
  /\ \A entry : Loader!TypeOf(entry) = Loads!TypeOf(entry)
  /\ \A line, types : Loader!Columns(line, types) = Loads!Columns(line, types)
  /\ \A line, j : Loader!ChannelIndex(line, j) = Loads!ChannelIndex(line, j)
<1>1. Loader!VehicleTypes = Loads!VehicleTypes /\ Loader!PedestrianTypes = Loads!PedestrianTypes
  BY DEF Loader!VehicleTypes, Loads!VehicleTypes, Loader!PedestrianTypes, Loads!PedestrianTypes
<1>2. Loader!Section = Loads!Section
  BY DEF Loader!Section, Loads!Section
<1>3. Loader!Rows = Loads!Rows
  BY Zenon DEF Loader!Rows, Loads!Rows, Loader!Row, Loads!Row
<1>4. \A section : Loader!After(section) = Loads!After(section)
  BY Zenon DEF Loader!After, Loads!After
<1>5. \A entry : Loader!TypeOf(entry) = Loads!TypeOf(entry)
  <2>1. Loader!PhaseMessageType = Loads!PhaseMessageType
    BY <1>1, Zenon DEF Loader!PhaseMessageType, Loads!PhaseMessageType
  <2> QED  BY <2>1, Zenon DEF Loader!TypeOf, Loads!TypeOf
<1>6. \A line, types : Loader!Columns(line, types) = Loads!Columns(line, types)
  BY Zenon DEF Loader!Columns, Loads!Columns
<1>7. \A line, j : Loader!ChannelIndex(line, j) = Loads!ChannelIndex(line, j)
  BY <1>1, <1>6, SameCardinality, Zenon DEF Loader!ChannelIndex, Loads!ChannelIndex
<1> QED  BY <1>1, <1>2, <1>3, <1>4, <1>5, <1>6, <1>7

LEMMA SameChannels ==
  /\ \A line : Loader!YellowOf(line) = Loads!YellowOf(line)
  /\ \A line : Loader!OnChannels(line) = Loads!OnChannels(line)
BY SameOperators, Zenon DEF Loader!YellowOf, Loads!YellowOf, Loader!OnChannels, Loads!OnChannels

LEMMA SameStep ==
  ASSUME [Loader!Next]_loaderVars
  PROVE  [Loads!Next]_Loads!vars
<1>1. CASE UNCHANGED loaderVars
  BY <1>1 DEF loaderVars, Loads!vars, Loads!counts
<1>2. CASE Loader!LoadSection \/ Loader!MissingKey
  <2>1. Loader!LoadSection => Loads!LoadSection
    BY SameOperators, Zenon DEF Loader!LoadSection, Loads!LoadSection, Loader!counts, Loads!counts
  <2>2. Loader!MissingKey => Loads!MissingKey
    BY SameOperators, Zenon DEF Loader!MissingKey, Loads!MissingKey, Loader!Exit, Loads!Exit,
                                Loader!counts, Loads!counts
  <2> QED  BY <1>2, <2>1, <2>2 DEF Loads!Next
<1>3. CASE Loader!LoadPhases
  <2>1. Loads!LoadPhases
    BY <1>3, SameOperators, Zenon DEF Loader!LoadPhases, Loads!LoadPhases, Loader!counts, Loads!counts
  <2> QED  BY <2>1 DEF Loads!Next
<1>4. CASE Loader!DurationsMismatch \/ Loader!BadFirstRow
  <2>1. Loader!DurationsMismatch => Loads!DurationsMismatch
    BY Zenon DEF Loader!DurationsMismatch, Loads!DurationsMismatch, Loader!Exit, Loads!Exit,
                 Loader!counts, Loads!counts
  <2>2. Loader!BadFirstRow => Loads!BadFirstRow
    BY SameOperators, Zenon DEF Loader!BadFirstRow, Loads!BadFirstRow, Loader!Exit, Loads!Exit,
                                Loader!counts, Loads!counts
  <2> QED  BY <1>4, <2>1, <2>2 DEF Loads!Next
<1>5. CASE Loader!SetVehicleAndPedestrianCount
  <2>1. Loads!SetVehicleAndPedestrianCount
    BY <1>5, SameOperators, SameCardinality, Zenon
       DEF Loader!SetVehicleAndPedestrianCount, Loads!SetVehicleAndPedestrianCount
  <2> QED  BY <2>1 DEF Loads!Next
<1>6. CASE Loader!SetYellowChannels \/ Loader!InconsistentYellow
  <2>1. Loader!Consistent <=> Loads!Consistent
    BY SameChannels, Zenon DEF Loader!Consistent, Loads!Consistent
  <2>2. Loader!SetYellowChannels => Loads!SetYellowChannels
    BY <2>1, SameChannels, Zenon
       DEF Loader!SetYellowChannels, Loads!SetYellowChannels, Loader!TakeYellow, Loads!TakeYellow,
           Loader!counts, Loads!counts
  <2>3. Loader!InconsistentYellow => Loads!InconsistentYellow
    BY <2>1, Zenon DEF Loader!InconsistentYellow, Loads!InconsistentYellow, Loader!Exit, Loads!Exit,
                       Loader!counts, Loads!counts
  <2> QED  BY <1>6, <2>2, <2>3 DEF Loads!Next
<1> QED  BY <1>1, <1>2, <1>3, <1>4, <1>5, <1>6 DEF Loader!Next

LEMMA LoadingHolds == ProgramSpec => []Loads!Loading
<1>1. ASSUME ProgramInit PROVE Loads!Loading
  <2>1. Loads!Init
    BY <1>1, SameOperators, Zenon DEF ProgramInit, Loader!Init, Loads!Init
  <2> QED  BY <2>1, Loads!InitLoading
<1>2. ASSUME Loads!Loading, [ProgramNext]_<<vars, loaderVars>>
      PROVE  Loads!Loading'
  <2>1. [Loads!Next]_Loads!vars
    BY <1>2, LoaderStep, SameStep
  <2>2. Loads!Read' /\ Loads!Counted'
    BY <1>2, <2>1, Loads!ReadKept, Loads!CountedKept DEF Loads!Loading
  <2> QED  BY <2>2 DEF Loads!Loading
<1> QED  BY <1>1, <1>2, PTL DEF ProgramSpec

(* See EveryVehicleLit: of the table the program goes on with.             *)
THEOREM ProgramLit == ProgramSpec => []EveryVehicleLit
<1>1. Loads!Loading => Loads!EveryVehicleLit
  BY Loads!LoadedIsLit
<1>2. Loads!EveryVehicleLit => EveryVehicleLit
  BY SameChannels, SameCardinality, Zenon DEF EveryVehicleLit, Loader!EveryVehicleLit, Loads!EveryVehicleLit
<1> QED  BY <1>1, <1>2, LoadingHolds, PTL

-----------------------------------------------------------------------------
(* The program flashes what was found: when it runs it has loaded a        *)
(* configuration, and can flash if that has yellow channels.               *)
Flashes == pc # "load" => loading = "loaded" /\ config.yellow = (yellowChannels # {})

LEMMA FlashesKept ==
  ASSUME Flashes, [ProgramNext]_<<vars, loaderVars>>
  PROVE  Flashes'
<1>1. CASE LoadSections
  <2>1. pc = "load" => pc' = "load"
    BY <1>1 DEF LoadSections, vars, supervision, main
  <2>2. loading # "loaded"
    BY <1>1 DEF LoadSections, Loader!Next, Loader!MissingKey, Loader!LoadSection, Loader!LoadPhases,
                Loader!DurationsMismatch, Loader!SetVehicleAndPedestrianCount, Loader!BadFirstRow,
                Loader!SetYellowChannels, Loader!TakeYellow, Loader!InconsistentYellow, Loader!Section
  <2> QED  BY <2>1, <2>2 DEF Flashes
<1>2. CASE ConfigLoaded
  BY <1>2 DEF ConfigLoaded, loaderVars, Flashes
<1>3. CASE Run
  <2>1. UNCHANGED config /\ (pc' # "load" => pc # "load")
    BY <1>3 DEF Run, Running, MainStep, InstallHandlers, Fork, ForkFails, PushBack, ExecutePhase,
       HandlerStep, Deliver, DeliverUnblocked, InterruptTurnsOff, Reap, Reaping, EnterStandby, FlashOn,
       FlashOff, EnsureOff, Kill, ExitParent, Session, Interrupt, Construct, Crash, TermArrives,
       YoungChildInterrupted, supervision, main
  <2> QED  BY <1>3, <2>1 DEF Run, loaderVars, Flashes
<1>4. CASE UNCHANGED <<vars, loaderVars>>
  BY <1>4 DEF vars, supervision, main, loaderVars, Flashes
<1> QED  BY <1>1, <1>2, <1>3, <1>4 DEF ProgramNext

LEMMA DarkWhenFlashes ==
  ASSUME Flashes, Loads!Loading, TurnedOff, LampsOffAtExit
  PROVE  VehiclesLeftDark
<1>1. exit = "success" /\ numVehicle > 0 => config.yellow
  BY Loads!LoadedFlashes DEF Flashes, TurnedOff, Sent, Early
<1> QED  BY <1>1 DEF VehiclesLeftDark, LampsOffAtExit, CanFlash

(* See VehiclesLeftDark.                                                   *)
THEOREM ProgramDark == ProgramSpec => []VehiclesLeftDark
<1>1. ProgramInit => Flashes
  BY DEF ProgramInit, Init, Flashes
<1>2. ProgramSpec => []Flashes
  BY <1>1, FlashesKept, PTL DEF ProgramSpec
<1>3. Spec => []TurnedOff
  BY InitTurnedOff, StepTurnedOff, TypeCorrect, PTL DEF Spec
<1> QED  BY <1>2, <1>3, Supervises, LoadingHolds, OffAtExit, DarkWhenFlashes, PTL

-----------------------------------------------------------------------------
LEMMA SameTypes == Loads!TypeOK => Loader!TypeOK
<1>1. Loader!PhaseMessageType = Loads!PhaseMessageType
  BY SameOperators, Zenon DEF Loader!PhaseMessageType, Loads!PhaseMessageType
<1> QED  BY <1>1, SameOperators, Zenon DEF Loader!TypeOK, Loads!TypeOK

(* The type of every variable of the loader, whatever the size of the      *)
(* table.                                                                  *)
THEOREM ProgramLoaderTypes ==
  ASSUME MaxRows \in Nat, MaxColumns \in Nat
  PROVE  ProgramSpec => []LoaderTypeOK
<1>1. ASSUME ProgramInit
      PROVE  Loads!Sized
  <2>1. Loads!Init
    BY <1>1, SameOperators, Zenon DEF ProgramInit, Loader!Init, Loads!Init
  <2> QED  BY <2>1, Loads!InitSized
<1>2. ASSUME Loads!Loading, Loads!Sized, [ProgramNext]_<<vars, loaderVars>>
      PROVE  Loads!Sized'
  <2>1. [Loads!Next]_Loads!vars
    BY <1>2, LoaderStep, SameStep
  <2> QED  BY <1>2, <2>1, Loads!SizedKept
<1>3. Loads!Loading /\ Loads!Sized => LoaderTypeOK
  BY SameTypes, Loads!SizedIsTyped DEF LoaderTypeOK
<1> QED  BY <1>1, <1>2, <1>3, LoadingHolds, PTL DEF ProgramSpec
=============================================================================
