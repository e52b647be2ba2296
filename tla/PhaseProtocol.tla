---------------------------- MODULE PhaseProtocol ----------------------------
(***************************************************************************)
(* The conversation between the parent and its children. In every phase    *)
(* the parent writes each child the name of its column entry, then reads   *)
(* one reply of each child, in order, blocking; the first unusable reply   *)
(* ends the reading of that phase, and what later children answered stays  *)
(* in their pipes. A child polls its pipe, answers with what it measured   *)
(* in the state it is in, and only then, if it watches a vehicle lane,     *)
(* takes the new state.                                                    *)
(*                                                                         *)
(* A read takes whatever is in the pipe, up to its buffer; only the first  *)
(* NUL-terminated string of it is looked at. Replies are taken to be of    *)
(* one length, so that the bytes of a pipe are a sequence of replies, the  *)
(* first of which may have lost its beginning to an earlier read.          *)
(*                                                                         *)
(* Messages and replies carry their lag: how many phases ago the message   *)
(* was sent. It is bookkeeping of the specification.                       *)
(***************************************************************************)
EXTENDS Junction, Sequences

CONSTANTS
  ReplyBytes,     (* bytes of a reply, with its NUL                        *)
  ReadBytes,      (* what a read by the parent takes: BUFFER_SIZE - 1      *)
  PipeBytes,      (* capacity of a pipe from a child                       *)
  MaxBacklog,     (* bound: messages a child has not polled yet; so few    *)
                  (* that one read by the child takes them all             *)
  MaxLag,         (* bound: lags and failures are counted up to here       *)
  MaxBad          (* bound: measurements that are no number                *)

ASSUME ProtocolAssumption ==
  /\ ReadBytes \in Nat \ {0}
  /\ ReplyBytes \in 1 .. ReadBytes + 1    \* the NUL may not be read
  /\ PipeBytes \in Nat /\ PipeBytes >= ReplyBytes
  /\ MaxBacklog \in Nat \ {0}
  /\ MaxLag \in Nat \ {0}
  /\ MaxBad \in Nat

Lag == 0 .. MaxLag
Type == VehicleTypes \cup PedestrianTypes
Message == [type : Type, lag : Lag]

(* What a reply was measured in: for a vehicle lane the state of its       *)
(* watcher ("start" for a watcher that was not told one yet: it tracks, as *)
(* in GREEN_PHASE), for a crossing the message it answers.                 *)
State == Type \cup {"start"}
Reply == [lag : Lag, measured : State, usable : BOOLEAN]

Idle    == [at |-> "poll"]
Default == [from |-> "default"]

VARIABLES
  pc,           (* of the parent: "send", "receive" or "timer"             *)
  phaseIndex,
  child,        (* the parent's loop index over the children               *)
  toChild,      (* messages in the pipe to each child                      *)
  toParent,     (* replies in the pipe from each child                     *)
  cut,          (* bytes of the first reply of the pipe that are gone      *)
  handling,     (* what each child is doing: Idle, or a message            *)
  childState,   (* currentTrafficState of the watcher of a vehicle lane    *)
  stored,       (* what the parent stored for each child in this phase     *)
  failures,     (* phases whose reading ended with an unusable reply       *)
  bad           (* measurements so far that were no number                 *)

parentVars == <<pc, phaseIndex, child, stored, failures>>
childVars == <<handling, childState, bad>>
vars == <<parentVars, childVars, toChild, toParent, cut>>

Init ==
  /\ pc = "send"
  /\ phaseIndex = 0
  /\ child = 0
  /\ toChild = [i \in Child |-> <<>>]
  /\ toParent = [i \in Child |-> <<>>]
  /\ cut = [i \in Child |-> 0]
  /\ handling = [i \in Child |-> Idle]
  /\ childState = [i \in Vehicle |-> "start"]
  /\ stored = [i \in Child |-> Default]
  /\ failures = 0
  /\ bad = 0

Older(lag) == IF lag < MaxLag THEN lag + 1 ELSE lag
Aged(s) == [k \in 1 .. Len(s) |-> [s[k] EXCEPT !.lag = Older(@)]]

-----------------------------------------------------------------------------
(* The parent.                                                             *)

(* One write of sendPhaseMessagesToChildren.                               *)
SendPhaseMessage ==
  /\ pc = "send"
  /\ Len(toChild[child]) < MaxBacklog
  /\ toChild' = [toChild EXCEPT ![child] =
       Append(@, [type |-> Phases[phaseIndex][child], lag |-> 0])]
  /\ IF child + 1 < NumChildren
     THEN child' = child + 1 /\ UNCHANGED pc
     ELSE child' = 0 /\ pc' = "receive"
  /\ UNCHANGED <<phaseIndex, stored, failures, toParent, cut>>
  /\ UNCHANGED childVars

(* What a read of up to n bytes leaves of the replies q, whose first has   *)
(* lost c bytes: the replies not taken whole, and the bytes the first of   *)
(* these has lost.                                                         *)
BytesIn(q, c) == Len(q) * ReplyBytes - c
ReadUpToForgetting(q, c, n) ==     \* the bytes gone before are counted again
  IF BytesIn(q, c) <= n
  THEN [replies |-> <<>>, cut |-> 0]
  ELSE [replies |-> SubSeq(q, (c + n) \div ReplyBytes + 1, Len(q)), cut |-> c + n]
ReadUpTo(q, c, n) ==
  IF BytesIn(q, c) <= n
  THEN [replies |-> <<>>, cut |-> 0]
  ELSE [replies |-> SubSeq(q, (c + n) \div ReplyBytes + 1, Len(q)),
        cut |-> (c + n) % ReplyBytes]

TakeFromPipe ==
  LET left == ReadUpTo(toParent[child], cut[child], ReadBytes) IN
  /\ toParent' = [toParent EXCEPT ![child] = left.replies]
  /\ cut' = [cut EXCEPT ![child] = left.cut]

NextChild ==
  IF child + 1 < NumChildren
  THEN child' = child + 1 /\ UNCHANGED pc
  ELSE child' = 0 /\ pc' = "timer"

(* A reply that can be parsed: whole and a number, or the rest of a cut    *)
(* one that happens to look like a reply.                                  *)
StoreReply ==
  LET reply == Head(toParent[child])
      whole == cut[child] = 0
  IN
  /\ pc = "receive"
  /\ toParent[child] # <<>>
  /\ whole => reply.usable
  /\ TakeFromPipe
  /\ stored' = [stored EXCEPT ![child] =
       [from |-> IF whole THEN "reply" ELSE "fragment",
        lag |-> reply.lag, measured |-> reply.measured]]
  /\ NextChild
  /\ UNCHANGED <<phaseIndex, failures, toChild>>
  /\ UNCHANGED childVars

(* A parent that does not wait for the reply.                              *)
ReceiveReplyNonBlocking ==
  \/ StoreReply
  \/ /\ pc = "receive"
     /\ toParent[child] = <<>>
     /\ NextChild
     /\ UNCHANGED <<phaseIndex, stored, failures, toChild, toParent, cut>>
     /\ UNCHANGED childVars

ReceiveReply == StoreReply

(* A reply that cannot: no further child is read, every density is set to  *)
(* its default.                                                            *)
ReceiveFails ==
  /\ pc = "receive"
  /\ toParent[child] # <<>>
  /\ Head(toParent[child]).usable => cut[child] > 0
  /\ TakeFromPipe
  /\ stored' = [i \in Child |-> Default]
  /\ child' = 0
  /\ pc' = "timer"
  /\ failures' = Older(failures)
  /\ UNCHANGED <<phaseIndex, toChild>>
  /\ UNCHANGED childVars

(* The phase timer runs out, at any moment: whatever is still on its way   *)
(* belongs to the phase before.                                            *)
NextRound ==
  /\ pc = "timer"
  /\ pc' = "send"
  /\ phaseIndex' = NextPhase(phaseIndex)
  /\ toChild' = [i \in Child |-> Aged(toChild[i])]
  /\ toParent' = [i \in Child |-> Aged(toParent[i])]
  /\ handling' = [i \in Child |->
       IF handling[i] = Idle THEN Idle ELSE [handling[i] EXCEPT !.lag = Older(@)]]
  /\ UNCHANGED <<child, stored, failures, cut, childState, bad>>

-----------------------------------------------------------------------------
(* A child.                                                                *)

(* The poll: of all the messages a read took, the first is looked at.      *)
PollFirst(i) == Head(toChild[i])

ChildReads(i) ==
  /\ handling[i] = Idle
  /\ toChild[i] # <<>>
  /\ handling' = [handling EXCEPT ![i] =
       [at |-> "measure", type |-> PollFirst(i).type, lag |-> PollFirst(i).lag]]
  /\ toChild' = [toChild EXCEPT ![i] = <<>>]
  /\ UNCHANGED <<parentVars, childState, bad, toParent, cut>>

(* sendPhaseMessageToParent: the reply is dropped when the pipe stays full *)
(* for all five tries.                                                     *)
WriteReplyIfNumber(i, reply) ==
  toParent' = [toParent EXCEPT ![i] = IF reply.usable THEN Append(@, reply) ELSE @]
WriteReply(i, reply) ==
  toParent' = [toParent EXCEPT ![i] =
    IF BytesIn(@, cut[i]) + ReplyBytes <= PipeBytes THEN Append(@, reply) ELSE @]

Measured(i) == IF i \in Vehicle THEN childState[i] ELSE handling[i].type

(* handlePhaseMessage up to the reply, which for a crossing is all of it.  *)
(* A vehicle lane's density may be no number.                              *)
Answer(i, usable, measured) ==
  /\ handling[i].at = "measure"
  /\ usable \/ (i \in Vehicle /\ bad < MaxBad)
  /\ bad' = IF usable THEN bad ELSE bad + 1
  /\ WriteReply(i, [lag |-> handling[i].lag, measured |-> measured, usable |-> usable])
  /\ handling' = [handling EXCEPT ![i] =
       IF i \in Vehicle THEN [@ EXCEPT !.at = "switch"] ELSE Idle]
  /\ UNCHANGED <<parentVars, childState, toChild, cut>>

ChildRepliesInNewState(i, usable) == Answer(i, usable, handling[i].type)
ChildReplies(i, usable) == Answer(i, usable, Measured(i))

(* The rest of it: the watcher takes the state of the message.             *)
ChildSwitches(i) ==
  /\ handling[i].at = "switch"
  /\ childState' = [childState EXCEPT ![i] = handling[i].type]
  /\ handling' = [handling EXCEPT ![i] = Idle]
  /\ UNCHANGED <<parentVars, bad, toChild, toParent, cut>>

-----------------------------------------------------------------------------
ParentStep == SendPhaseMessage \/ ReceiveReply \/ ReceiveFails \/ NextRound
ChildStep(i) ==
  \/ ChildReads(i)
  \/ \E usable \in BOOLEAN : ChildReplies(i, usable)
  \/ ChildSwitches(i)

Next == ParentStep \/ \E i \in Child : ChildStep(i)

Spec == Init /\ [][Next]_vars

(* The processes are scheduled by the kernel; nobody waits for a lock.     *)
FairSpec == Spec /\ WF_vars(ParentStep) /\ \A i \in Child : WF_vars(ChildStep(i))

-----------------------------------------------------------------------------
(* The type of every variable.                                             *)
TypeOK ==
  /\ pc \in {"send", "receive", "timer"}
  /\ phaseIndex \in Phase
  /\ child \in Child
  /\ toChild \in [Child -> Seq(Message)]
  /\ toParent \in [Child -> Seq(Reply)]
  /\ cut \in [Child -> 0 .. ReplyBytes - 1]
  /\ handling \in [Child -> {Idle} \cup
       [at : {"measure", "switch"}, type : Type, lag : Lag]]
  /\ childState \in [Vehicle -> State]
  /\ stored \in [Child -> {Default} \cup
       [from : {"reply", "fragment"}, lag : Lag, measured : State]]
  /\ failures \in Lag
  /\ bad \in 0 .. MaxBad

(* A reply to child i's message is in the pipe or still to come.           *)
Owed(i) ==
  \/ toParent[i] # <<>>
  \/ toChild[i] # <<>>
  \/ handling[i].at = "measure"

(* The parent never blocks on a pipe that will stay empty, although reads  *)
(* drop messages and replies, and a full pipe drops replies: every child   *)
(* it has yet to read owes it a reply.                                     *)
NoLostReply ==
  /\ pc = "send" => \A i \in Child : i < child => Owed(i)
  /\ pc = "receive" => \A i \in Child : i >= child => Owed(i)

(* A reply that waits in a pipe, or is stored, is no older than the phases *)
(* whose reading failed: only a failure leaves a reply unread, and a read  *)
(* of the next phase takes at least one.                                   *)
StalenessBounded ==
  \A i \in Child :
    /\ \A k \in DOMAIN toParent[i] : toParent[i][k].lag <= failures
    /\ stored[i] # Default => stored[i].lag <= failures

(* Until a reading fails, what the parent stores for the phase before is   *)
(* the answer to the message of this phase, and a vehicle lane measured it *)
(* in the state of the phase before: processDensityByPhaseType applies the *)
(* multiplier of the state the measurement was made in.                    *)
RepliesMatchPhase ==
  failures = 0 /\ pc = "timer" =>
    \A i \in Child :
      /\ stored[i] # Default
      /\ stored[i].from = "reply"
      /\ stored[i].lag = 0
      /\ i \in Vehicle =>
           stored[i].measured \in {"start", Phases[PrevPhase(phaseIndex)][i]}

(* No phase waits forever for its children.                                *)
PhasesKeepRunning == \A p \in Phase : []<>(pc = "timer" /\ phaseIndex = p)

(* After the last bad measurement the replies fall into step again: from   *)
(* some point on, what the parent stores for the previous phase of a child *)
(* (and logs as "Previous child ... data", ParentProcess.cpp:184) is what  *)
(* the child answered to the message that ended that phase.                *)
Resynchronises ==
  <>[](pc = "timer" => \A i \in Child : stored[i] # Default => stored[i].lag = 0)
=============================================================================
