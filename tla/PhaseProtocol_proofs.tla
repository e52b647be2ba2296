------------------------- MODULE PhaseProtocol_proofs -------------------------
(* The parent is never left waiting on a pipe that stays empty; its phases *)
(* and its children stay in step until a reading fails; and what it reads  *)
(* after that is no older than the number of failures: whatever the sizes  *)
(* of a reply, of the buffer and of the pipe.                              *)
EXTENDS PhaseProtocol, Junction_proofs

(* A number of bytes and the replies it makes.                             *)
LEMMA WholeReplies ==
  ASSUME NEW a \in Nat
  PROVE  /\ a \div ReplyBytes \in Nat
         /\ a % ReplyBytes \in 0 .. ReplyBytes - 1
         /\ a = ReplyBytes * (a \div ReplyBytes) + (a % ReplyBytes)
<1>1. ReplyBytes \in Nat \ {0}
  BY ProtocolAssumption
<1>2. a \div ReplyBytes \in Nat
  BY <1>1, SMT
<1>3. a % ReplyBytes \in 0 .. ReplyBytes - 1
  BY <1>1, SMT
<1>4. a = ReplyBytes * (a \div ReplyBytes) + (a % ReplyBytes)
  BY <1>1, SMT
<1> QED  BY <1>2, <1>3, <1>4

LEMMA Fewer ==
  ASSUME NEW a \in Nat, NEW len \in Nat, a < len * ReplyBytes
  PROVE  a \div ReplyBytes < len
<1> DEFINE d == a \div ReplyBytes
<1>1. ReplyBytes \in Nat \ {0}
  BY ProtocolAssumption
<1>2. d \in Nat /\ a >= ReplyBytes * d
  BY <1>1, WholeReplies
<1>3. CASE d >= len
  <2>1. ReplyBytes * d >= ReplyBytes * len
    BY <1>1, <1>2, <1>3, Z3
  <2> QED  BY <1>1, <1>2, <2>1, Z3
<1> QED  BY <1>2, <1>3

(* A read leaves whole replies behind a cut one, and cuts none when it     *)
(* empties the pipe.                                                       *)
LEMMA ReadLeaves ==
  ASSUME NEW q \in Seq(Reply), NEW c \in 0 .. ReplyBytes - 1
  PROVE  LET left == ReadUpTo(q, c, ReadBytes) IN
         /\ left.replies \in Seq(Reply)
         /\ left.cut \in 0 .. ReplyBytes - 1
         /\ left.replies = <<>> => left.cut = 0
<1> DEFINE a == c + ReadBytes
           d == a \div ReplyBytes
<1>1. ReplyBytes \in Nat \ {0} /\ ReadBytes \in Nat /\ a \in Nat
  BY ProtocolAssumption
<1>2. CASE BytesIn(q, c) <= ReadBytes
  BY <1>1, <1>2 DEF ReadUpTo
<1>3. CASE ~ (BytesIn(q, c) <= ReadBytes)
  <2>1. Len(q) \in Nat
    OBVIOUS
  <2>2. a < Len(q) * ReplyBytes
    <3> DEFINE n == Len(q) * ReplyBytes
    <3>1. n \in Nat
      BY <1>1, <2>1
    <3>2. ~ (n - c <= ReadBytes)
      BY <1>3 DEF BytesIn
    <3> HIDE DEF n
    <3>3. a < n
      BY <1>1, <3>1, <3>2
    <3> QED  BY <3>3 DEF n
  <2>3. d \in Nat /\ d < Len(q) /\ a % ReplyBytes \in 0 .. ReplyBytes - 1
    BY <1>1, <2>1, <2>2, WholeReplies, Fewer
  <2>4. ReadUpTo(q, c, ReadBytes)
          = [replies |-> SubSeq(q, d + 1, Len(q)), cut |-> a % ReplyBytes]
    BY <1>3 DEF ReadUpTo
  <2> HIDE DEF a, d
  <2>5. SubSeq(q, d + 1, Len(q)) \in Seq(Reply) /\ Len(SubSeq(q, d + 1, Len(q))) = Len(q) - d
    BY <2>1, <2>3
  <2>6. SubSeq(q, d + 1, Len(q)) # <<>>
    <3>1. Len(SubSeq(q, d + 1, Len(q))) # 0
      BY <2>1, <2>3, <2>5
    <3>2. Len(<<>>) = 0
      OBVIOUS
    <3> QED  BY <3>1, <3>2, Zenon
  <2> QED  BY <2>3, <2>4, <2>5, <2>6
<1> QED  BY <1>2, <1>3

LEMMA OlderType == \A lag \in Lag : Older(lag) \in Lag
BY ProtocolAssumption DEF Older, Lag

LEMMA AgedMessages ==
  ASSUME NEW s \in Seq(Message)
  PROVE  /\ Aged(s) \in Seq(Message)
         /\ Aged(s) = <<>> => s = <<>>
<1>1. \A m \in Message : [m EXCEPT !.lag = Older(@)] \in Message
  BY OlderType DEF Message
<1>2. Len(s) \in Nat /\ \A k \in 1 .. Len(s) : s[k] \in Message
  OBVIOUS
<1>3. \A k \in 1 .. Len(s) : [s[k] EXCEPT !.lag = Older(@)] \in Message
  BY <1>1, <1>2
<1>4. Aged(s) \in Seq(Message) /\ Len(Aged(s)) = Len(s)
  BY <1>2, <1>3 DEF Aged
<1> QED  BY <1>4

LEMMA AgedReplies ==
  ASSUME NEW s \in Seq(Reply)
  PROVE  /\ Aged(s) \in Seq(Reply)
         /\ Aged(s) = <<>> => s = <<>>
<1>1. \A m \in Reply : [m EXCEPT !.lag = Older(@)] \in Reply
  BY OlderType DEF Reply
<1>2. Len(s) \in Nat /\ \A k \in 1 .. Len(s) : s[k] \in Reply
  OBVIOUS
<1>3. \A k \in 1 .. Len(s) : [s[k] EXCEPT !.lag = Older(@)] \in Reply
  BY <1>1, <1>2
<1>4. Aged(s) \in Seq(Reply) /\ Len(Aged(s)) = Len(s)
  BY <1>2, <1>3 DEF Aged
<1> QED  BY <1>4

LEMMA ChildFacts ==
  /\ NumChildren \in Nat \ {0} /\ 0 \in Child
  /\ Vehicle \subseteq Child
  /\ \A i \in Child : i + 1 < NumChildren => i + 1 \in Child
  /\ \A p \in Phase : \A i \in Child : Phases[p][i] \in Type
<1>1. \A i \in Child : i \in Vehicle \/ i \in Pedestrian
  BY JunctionAssumption DEF Child, Vehicle, Pedestrian, NumChildren
<1>2. \A p \in Phase : \A i \in Child : Phases[p][i] \in Type
  BY <1>1, JunctionAssumption DEF WellFormed, Type
<1> QED  BY <1>2, JunctionAssumption DEF Child, Vehicle, NumChildren

(* What the parent does to the pipe of the child it reads.                 *)
LEMMA TakeType ==
  ASSUME TypeOK, TakeFromPipe
  PROVE  /\ toParent' \in [Child -> Seq(Reply)]
         /\ cut' \in [Child -> 0 .. ReplyBytes - 1]
         /\ \A i \in Child : i # child => toParent'[i] = toParent[i] /\ cut'[i] = cut[i]
         /\ toParent'[child] = <<>> => cut'[child] = 0
<1> DEFINE left == ReadUpTo(toParent[child], cut[child], ReadBytes)
<1>1. toParent[child] \in Seq(Reply) /\ cut[child] \in 0 .. ReplyBytes - 1 /\ child \in Child
  BY DEF TypeOK
<1>2. /\ left.replies \in Seq(Reply)
      /\ left.cut \in 0 .. ReplyBytes - 1
      /\ left.replies = <<>> => left.cut = 0
  BY <1>1, ReadLeaves
<1>3. /\ toParent' = [toParent EXCEPT ![child] = left.replies]
      /\ cut' = [cut EXCEPT ![child] = left.cut]
  BY DEF TakeFromPipe
<1> HIDE DEF left
<1> QED  BY <1>1, <1>2, <1>3 DEF TypeOK

(* Every variable of the protocol keeps its type.                          *)
THEOREM TypeCorrect == Spec => []TypeOK
<1>1. ASSUME Init PROVE TypeOK
  <2>1. phaseIndex \in Phase /\ child \in Child
    BY <1>1, ChildFacts, JunctionAssumption DEF Init, Phase
  <2>2. toChild \in [Child -> Seq(Message)] /\ toParent \in [Child -> Seq(Reply)]
    BY <1>1 DEF Init
  <2>3. cut \in [Child -> 0 .. ReplyBytes - 1] /\ failures \in Lag /\ bad \in 0 .. MaxBad
    BY <1>1, ProtocolAssumption DEF Init, Lag
  <2>4. childState \in [Vehicle -> State]
    BY <1>1 DEF Init, State
  <2> QED  BY <1>1, <2>1, <2>2, <2>3, <2>4 DEF Init, TypeOK
<1>2. ASSUME TypeOK, [Next]_vars
      PROVE  TypeOK'
  <2>1. CASE SendPhaseMessage
    <3>1. [type |-> Phases[phaseIndex][child], lag |-> 0] \in Message
      BY <1>2, ChildFacts, ProtocolAssumption DEF TypeOK, Message, Lag
    <3>2. toChild' \in [Child -> Seq(Message)]
      BY <1>2, <2>1, <3>1 DEF TypeOK, SendPhaseMessage
    <3>3. child' \in Child /\ pc' \in {"send", "receive", "timer"}
      BY <1>2, <2>1, ChildFacts DEF TypeOK, SendPhaseMessage
    <3> QED  BY <1>2, <2>1, <3>2, <3>3 DEF TypeOK, SendPhaseMessage, childVars
  <2>2. CASE ReceiveReply
    <3>1. toParent' \in [Child -> Seq(Reply)] /\ cut' \in [Child -> 0 .. ReplyBytes - 1]
      BY <1>2, <2>2, TakeType DEF ReceiveReply, StoreReply
    <3>2. Head(toParent[child]) \in Reply
      BY <1>2, <2>2 DEF TypeOK, ReceiveReply, StoreReply
    <3>3. stored' \in [Child -> {Default} \cup
            [from : {"reply", "fragment"}, lag : Lag, measured : State]]
      BY <1>2, <2>2, <3>2 DEF TypeOK, ReceiveReply, StoreReply, Reply
    <3>4. child' \in Child /\ pc' \in {"send", "receive", "timer"}
      BY <1>2, <2>2, ChildFacts DEF TypeOK, ReceiveReply, StoreReply, NextChild
    <3> QED  BY <1>2, <2>2, <3>1, <3>3, <3>4 DEF TypeOK, ReceiveReply, StoreReply, childVars
  <2>3. CASE ReceiveFails
    <3>1. toParent' \in [Child -> Seq(Reply)] /\ cut' \in [Child -> 0 .. ReplyBytes - 1]
      BY <1>2, <2>3, TakeType DEF ReceiveFails
    <3>2. child' \in Child /\ failures' \in Lag
      BY <1>2, <2>3, ChildFacts, OlderType DEF TypeOK, ReceiveFails
    <3> QED  BY <1>2, <2>3, <3>1, <3>2 DEF TypeOK, ReceiveFails, childVars
  <2>4. CASE NextRound
    <3>1. toChild' \in [Child -> Seq(Message)] /\ toParent' \in [Child -> Seq(Reply)]
      BY <1>2, <2>4, AgedMessages, AgedReplies DEF TypeOK, NextRound
    <3>2. phaseIndex' \in Phase
      BY <1>2, <2>4, NextPhaseType DEF TypeOK, NextRound
    <3>3. handling' \in [Child -> {Idle} \cup
            [at : {"measure", "switch"}, type : Type, lag : Lag]]
      BY <1>2, <2>4, OlderType DEF TypeOK, NextRound
    <3> QED  BY <1>2, <2>4, <3>1, <3>2, <3>3 DEF TypeOK, NextRound
  <2>5. ASSUME NEW i \in Child, ChildReads(i)
        PROVE  TypeOK'
    <3>1. Head(toChild[i]) \in Message
      BY <1>2, <2>5 DEF TypeOK, ChildReads
    <3>2. handling' \in [Child -> {Idle} \cup
            [at : {"measure", "switch"}, type : Type, lag : Lag]]
      BY <1>2, <2>5, <3>1 DEF TypeOK, ChildReads, PollFirst, Message
    <3>3. toChild' \in [Child -> Seq(Message)]
      BY <1>2, <2>5 DEF TypeOK, ChildReads
    <3> QED  BY <1>2, <2>5, <3>2, <3>3 DEF TypeOK, ChildReads, parentVars
  <2>6. ASSUME NEW i \in Child, NEW usable \in BOOLEAN, ChildReplies(i, usable)
        PROVE  TypeOK'
    <3>1. handling[i] \in [at : {"measure", "switch"}, type : Type, lag : Lag]
      BY <1>2, <2>6 DEF TypeOK, ChildReplies, Answer, Idle
    <3>2. [lag |-> handling[i].lag, measured |-> Measured(i), usable |-> usable] \in Reply
      BY <1>2, <3>1 DEF TypeOK, Measured, Reply, State
    <3>3. toParent' \in [Child -> Seq(Reply)]
      BY <1>2, <2>6, <3>2 DEF TypeOK, ChildReplies, Answer, WriteReply
    <3>4. handling' \in [Child -> {Idle} \cup
            [at : {"measure", "switch"}, type : Type, lag : Lag]]
      BY <1>2, <2>6, <3>1 DEF TypeOK, ChildReplies, Answer
    <3>5. bad' \in 0 .. MaxBad
      BY <1>2, <2>6, ProtocolAssumption DEF TypeOK, ChildReplies, Answer
    <3> QED  BY <1>2, <2>6, <3>3, <3>4, <3>5 DEF TypeOK, ChildReplies, Answer, parentVars
  <2>7. ASSUME NEW i \in Child, ChildSwitches(i)
        PROVE  TypeOK'
    <3>1. handling[i] \in [at : {"measure", "switch"}, type : Type, lag : Lag]
      BY <1>2, <2>7 DEF TypeOK, ChildSwitches, Idle
    <3>2. childState' \in [Vehicle -> State]
      BY <1>2, <2>7, <3>1 DEF TypeOK, ChildSwitches, State
    <3> QED  BY <1>2, <2>7, <3>2 DEF TypeOK, ChildSwitches, parentVars
  <2>8. CASE UNCHANGED vars
    BY <1>2, <2>8 DEF TypeOK, vars, parentVars, childVars
  <2> QED  BY <1>2, <2>1, <2>2, <2>3, <2>4, <2>5, <2>6, <2>7, <2>8
           DEF Next, ParentStep, ChildStep
<1> QED  BY <1>1, <1>2, PTL DEF Spec

(* Why a child that owes a reply always gets to write it: an empty pipe    *)
(* has lost no bytes, and a reply fits into an empty pipe.                 *)
CutNeedsReply == \A i \in Child : toParent[i] = <<>> => cut[i] = 0
TimerAtStart  == pc = "timer" => child = 0

(* A child's steps keep what it owes and never empty the pipe it writes.   *)
LEMMA ChildKeepsOwed ==
  ASSUME TypeOK, CutNeedsReply, NEW c \in Child, ChildStep(c)
  PROVE  /\ CutNeedsReply'
         /\ \A i \in Child : Owed(i) => Owed(i)'
<1>1. CASE ChildReads(c)
  <2>1. handling'[c].at = "measure"
    BY <1>1 DEF TypeOK, ChildReads
  <2>2. \A i \in Child : i # c => handling'[i] = handling[i] /\ toChild'[i] = toChild[i]
    BY <1>1 DEF TypeOK, ChildReads
  <2> QED  BY <1>1, <2>1, <2>2 DEF ChildReads, Owed, CutNeedsReply
<1>2. ASSUME NEW usable \in BOOLEAN, ChildReplies(c, usable)
      PROVE  CutNeedsReply' /\ \A i \in Child : Owed(i) => Owed(i)'
  <2> DEFINE reply == [lag |-> handling[c].lag, measured |-> Measured(c), usable |-> usable]
  <2>1. toParent[c] = <<>> => BytesIn(toParent[c], cut[c]) + ReplyBytes <= PipeBytes
    <3>1. Len(<<>>) = 0
      OBVIOUS
    <3>2. toParent[c] = <<>> => BytesIn(toParent[c], cut[c]) = 0
      BY <3>1, ProtocolAssumption DEF BytesIn, CutNeedsReply
    <3> QED  BY <3>2, ProtocolAssumption
  <2>2. toParent'[c] \in {toParent[c], Append(toParent[c], reply)}
        /\ (toParent[c] = <<>> => toParent'[c] = Append(toParent[c], reply))
    BY <1>2, <2>1 DEF TypeOK, ChildReplies, Answer, WriteReply
  <2> HIDE DEF reply
  <2>3. Append(toParent[c], reply) # <<>>
    <3>1. toParent[c] \in Seq(Reply \cup {reply}) /\ reply \in Reply \cup {reply}
      BY DEF TypeOK
    <3>2. Len(Append(toParent[c], reply)) # 0
      BY <3>1
    <3>3. Len(<<>>) = 0
      OBVIOUS
    <3> QED  BY <3>2, <3>3, Zenon
  <2>4. toParent'[c] # <<>>
    BY <2>2, <2>3
  <2>5. \A i \in Child : i # c => handling'[i] = handling[i] /\ toParent'[i] = toParent[i]
    BY <1>2 DEF TypeOK, ChildReplies, Answer, WriteReply
  <2>6. toChild' = toChild /\ cut' = cut
    BY <1>2 DEF ChildReplies, Answer
  <2> QED  BY <2>4, <2>5, <2>6 DEF Owed, CutNeedsReply
<1>3. CASE ChildSwitches(c)
  <2>1. \A i \in Child : handling[i].at = "measure" => handling'[i] = handling[i]
    BY <1>3 DEF TypeOK, ChildSwitches
  <2> QED  BY <1>3, <2>1 DEF ChildSwitches, Owed, CutNeedsReply
<1> QED  BY <1>1, <1>2, <1>3 DEF ChildStep

(* The parent never reads a pipe nobody will write to: every child it has  *)
(* yet to read owes it a reply, although reads take several messages and   *)
(* replies and look at the first, and a full pipe drops replies.           *)
THEOREM NeverBlocksForGood == Spec => []NoLostReply
<1> DEFINE Inv == CutNeedsReply /\ TimerAtStart /\ NoLostReply
<1>1. ASSUME Init PROVE Inv
  <2>1. \A i \in Child : ~ (i < 0)
    BY JunctionAssumption DEF Child
  <2> QED  BY <1>1, <2>1 DEF Init, CutNeedsReply, TimerAtStart, NoLostReply
<1>2. ASSUME TypeOK, Inv, [Next]_vars
      PROVE  Inv'
  <2>1. CASE SendPhaseMessage
    <3>1. toChild'[child] # <<>>
      BY <1>2, <2>1 DEF TypeOK, SendPhaseMessage
    <3>2. \A i \in Child : i # child => toChild'[i] = toChild[i]
      BY <1>2, <2>1 DEF TypeOK, SendPhaseMessage
    <3>3. toParent' = toParent /\ handling' = handling /\ cut' = cut
      BY <2>1 DEF SendPhaseMessage, childVars
    <3>4. \A i \in Child : i <= child => Owed(i)'
      <4>1. \A i \in Child : i <= child => i < child \/ i = child
        BY <1>2 DEF TypeOK, Child
      <4> QED  BY <1>2, <2>1, <3>1, <3>2, <3>3, <4>1
               DEF SendPhaseMessage, NoLostReply, Owed
    <3>5. CASE child + 1 < NumChildren
      <4>1. child' = child + 1 /\ pc' = "send"
        BY <2>1, <3>5 DEF SendPhaseMessage
      <4>2. \A i \in Child : i < child + 1 => i <= child
        BY <1>2, JunctionAssumption DEF TypeOK, Child, NumChildren
      <4> QED  BY <1>2, <3>3, <3>4, <4>1, <4>2
               DEF CutNeedsReply, TimerAtStart, NoLostReply
    <3>6. CASE ~ (child + 1 < NumChildren)
      <4>1. child' = 0 /\ pc' = "receive"
        BY <2>1, <3>6 DEF SendPhaseMessage
      <4>2. \A i \in Child : i <= child
        BY <1>2, <3>6, JunctionAssumption DEF TypeOK, Child, NumChildren
      <4> QED  BY <1>2, <3>3, <3>4, <4>1, <4>2
               DEF CutNeedsReply, TimerAtStart, NoLostReply
    <3> QED  BY <3>5, <3>6
  <2>2. CASE ReceiveReply
    <3>1. \A i \in Child : i # child => toParent'[i] = toParent[i] /\ cut'[i] = cut[i]
      BY <1>2, <2>2, TakeType DEF ReceiveReply, StoreReply
    <3>2. CutNeedsReply'
      BY <1>2, <2>2, <3>1, TakeType DEF ReceiveReply, StoreReply, CutNeedsReply
    <3>3. toChild' = toChild /\ handling' = handling
      BY <2>2 DEF ReceiveReply, StoreReply, childVars
    <3>4. \A i \in Child : i > child => Owed(i)'
      <4>1. \A i \in Child : i > child => i >= child /\ i # child
        BY <1>2 DEF TypeOK, Child
      <4> QED  BY <1>2, <2>2, <3>1, <3>3, <4>1
               DEF ReceiveReply, StoreReply, NoLostReply, Owed
    <3>5. CASE child + 1 < NumChildren
      <4>1. child' = child + 1 /\ pc' = "receive"
        BY <2>2, <3>5 DEF ReceiveReply, StoreReply, NextChild
      <4>2. \A i \in Child : i >= child + 1 => i > child
        BY <1>2 DEF TypeOK, Child
      <4> QED  BY <3>2, <3>4, <4>1, <4>2 DEF TimerAtStart, NoLostReply
    <3>6. CASE ~ (child + 1 < NumChildren)
      <4>1. child' = 0 /\ pc' = "timer"
        BY <2>2, <3>6 DEF ReceiveReply, StoreReply, NextChild
      <4> QED  BY <3>2, <4>1 DEF TimerAtStart, NoLostReply
    <3> QED  BY <3>5, <3>6
  <2>3. CASE ReceiveFails
    <3>1. CutNeedsReply'
      BY <1>2, <2>3, TakeType DEF ReceiveFails, CutNeedsReply
    <3> QED  BY <2>3, <3>1 DEF ReceiveFails, TimerAtStart, NoLostReply
  <2>4. CASE NextRound
    <3>1. \A i \in Child : toParent'[i] = <<>> => toParent[i] = <<>>
      BY <1>2, <2>4, AgedReplies DEF TypeOK, NextRound
    <3>2. child' = 0 /\ pc' = "send" /\ cut' = cut
      BY <1>2, <2>4 DEF NextRound, TimerAtStart
    <3>3. \A i \in Child : ~ (i < 0)
      BY JunctionAssumption DEF Child
    <3> QED  BY <1>2, <3>1, <3>2, <3>3 DEF CutNeedsReply, TimerAtStart, NoLostReply
  <2>5. ASSUME NEW c \in Child, ChildStep(c)
        PROVE  Inv'
    <3>1. pc' = pc /\ child' = child
      BY <2>5 DEF ChildStep, ChildReads, ChildReplies, Answer, ChildSwitches, parentVars
    <3>2. CutNeedsReply' /\ \A i \in Child : Owed(i) => Owed(i)'
      BY <1>2, <2>5, ChildKeepsOwed
    <3> QED  BY <1>2, <3>1, <3>2 DEF TimerAtStart, NoLostReply
  <2>6. CASE UNCHANGED vars
    BY <1>2, <2>6 DEF vars, parentVars, childVars, CutNeedsReply, TimerAtStart,
       NoLostReply, Owed
  <2> QED  BY <1>2, <2>1, <2>2, <2>3, <2>4, <2>5, <2>6 DEF Next, ParentStep
<1> QED  BY <1>1, <1>2, TypeCorrect, PTL DEF Spec

-----------------------------------------------------------------------------
(* In step: while no reading has failed, a child has nothing in its pipes  *)
(* but the message of this phase or its answer, and knows the state of the *)
(* phase before until it has answered.                                     *)
Told(i) == IF handling[i].at = "switch" THEN handling[i].type ELSE childState[i]
Before(i) == {"start", Phases[PrevPhase(phaseIndex)][i]}
KnowsBefore(i) == i \in Vehicle => Told(i) \in Before(i)
KnowsNow(i) == i \in Vehicle => Told(i) = Phases[phaseIndex][i]
OfThisPhase(i, x) == x.lag = 0 /\ (i \in Vehicle => x.measured \in Before(i))

NotMeasuring(i) == handling[i].at # "measure"

Posted(i) ==
  /\ toChild[i] = <<[type |-> Phases[phaseIndex][i], lag |-> 0]>> /\ toParent[i] = <<>>
  /\ NotMeasuring(i) /\ KnowsBefore(i)
Measuring(i) ==
  /\ toChild[i] = <<>> /\ toParent[i] = <<>>
  /\ handling[i] = [at |-> "measure", type |-> Phases[phaseIndex][i], lag |-> 0]
  /\ i \in Vehicle => childState[i] \in Before(i)
Replied(i) ==
  /\ toChild[i] = <<>> /\ Len(toParent[i]) = 1 /\ OfThisPhase(i, toParent[i][1])
  /\ NotMeasuring(i) /\ KnowsNow(i)

Asked(i) == Posted(i) \/ Measuring(i) \/ Replied(i)
Quiet(i) == toChild[i] = <<>> /\ toParent[i] = <<>> /\ NotMeasuring(i)
Unasked(i) == Quiet(i) /\ KnowsBefore(i)
Answered(i) ==
  /\ Quiet(i) /\ KnowsNow(i)
  /\ stored[i].from = "reply" /\ OfThisPhase(i, stored[i])

InStep ==
  failures = 0 =>
    \A i \in Child :
      /\ cut[i] = 0
      /\ pc = "send" => IF i < child THEN Asked(i) ELSE Unasked(i)
      /\ pc = "receive" => IF i < child THEN Answered(i) ELSE Asked(i)
      /\ pc = "timer" => Answered(i)

stages(i) == <<toChild[i], toParent[i], handling[i], IF i \in Vehicle THEN childState[i] ELSE "start">>

(* A child whose own variables do not change stays in its stage.           *)
LEMMA SameStage ==
  ASSUME NEW i \in Child, UNCHANGED <<stages(i), phaseIndex>>
  PROVE  /\ Asked(i) => Asked(i)'
         /\ Unasked(i) => Unasked(i)'
         /\ UNCHANGED stored[i] /\ Answered(i) => Answered(i)'
<1>1. UNCHANGED <<toChild[i], toParent[i], handling[i], phaseIndex>>
      /\ (i \in Vehicle => UNCHANGED childState[i])
  BY DEF stages
<1>2. (NotMeasuring(i) => NotMeasuring(i)') /\ (KnowsBefore(i) => KnowsBefore(i)')
      /\ (KnowsNow(i) => KnowsNow(i)') /\ Before(i)' = Before(i)
  BY <1>1 DEF NotMeasuring, KnowsBefore, KnowsNow, Told, Before
<1>3. Quiet(i) => Quiet(i)'
  BY <1>1, <1>2 DEF Quiet
<1>4. Asked(i) => Asked(i)'
  <2>1. Posted(i) => Posted(i)'
    BY <1>1, <1>2 DEF Posted
  <2>2. Measuring(i) => Measuring(i)'
    BY <1>1, <1>2 DEF Measuring
  <2>3. Replied(i) => Replied(i)'
    BY <1>1, <1>2 DEF Replied, OfThisPhase
  <2> QED  BY <2>1, <2>2, <2>3 DEF Asked
<1> QED  BY <1>1, <1>2, <1>3, <1>4 DEF Unasked, Answered, OfThisPhase

LEMMA OneElement ==
  ASSUME NEW x
  PROVE  /\ Head(<<x>>) = x /\ Append(<<>>, x) = <<x>> /\ <<x>> # <<>>
         /\ Len(<<x>>) = 1 /\ <<x>>[1] = x /\ Len(<<>>) = 0
OBVIOUS

(* What a child's step does to its stage.                                  *)
LEMMA ChildStage ==
  ASSUME TypeOK, NEW c \in Child, cut[c] = 0, ChildStep(c)
  PROVE  /\ UNCHANGED <<parentVars, cut>>
         /\ Asked(c) => Asked(c)'
         /\ Unasked(c) => Unasked(c)'
         /\ Answered(c) => Answered(c)'
         /\ \A i \in Child : i # c => UNCHANGED stages(i)
<1>1. CASE ChildReads(c)
  <2>1. \A i \in Child : i # c => UNCHANGED stages(i)
    BY <1>1 DEF TypeOK, ChildReads, stages
  <2>2. Posted(c) => Measuring(c)'
    <3>1. ASSUME Posted(c)
          PROVE  handling'[c] = [at |-> "measure", type |-> Phases[phaseIndex][c], lag |-> 0]
      BY <1>1, <3>1, OneElement DEF TypeOK, ChildReads, PollFirst, Posted
    <3>2. ASSUME Posted(c), c \in Vehicle
          PROVE  childState[c] \in Before(c)
      BY <1>1, <3>2 DEF ChildReads, Idle, Posted, KnowsBefore, Told
    <3> QED  BY <1>1, <3>1, <3>2 DEF TypeOK, ChildReads, parentVars, Posted, Measuring, Before
  <2> QED  BY <1>1, <2>1, <2>2 DEF ChildReads, Asked, Measuring, Replied, Unasked, Answered, Quiet
<1>2. ASSUME NEW usable \in BOOLEAN, ChildReplies(c, usable)
      PROVE  /\ UNCHANGED <<parentVars, cut>>
             /\ Asked(c) => Asked(c)'
             /\ ~ Unasked(c) /\ ~ Answered(c)
             /\ \A i \in Child : i # c => UNCHANGED stages(i)
  <2>1. \A i \in Child : i # c => UNCHANGED stages(i)
    BY <1>2 DEF TypeOK, ChildReplies, Answer, WriteReply, stages
  <2>2. handling[c].at = "measure" /\ UNCHANGED <<parentVars, cut, toChild, childState>>
    BY <1>2 DEF ChildReplies, Answer
  <2>3. ASSUME Measuring(c)
        PROVE  Replied(c)'
    <3> DEFINE reply == [lag |-> handling[c].lag, measured |-> Measured(c), usable |-> usable]
    <3>1. BytesIn(<<>>, 0) + ReplyBytes <= PipeBytes
      BY OneElement, ProtocolAssumption DEF BytesIn
    <3>2. toParent'[c] = <<reply>>
      BY <1>2, <2>3, <3>1, OneElement DEF TypeOK, ChildReplies, Answer, WriteReply, Measuring
    <3>3. reply.lag = 0 /\ (c \in Vehicle => reply.measured \in Before(c))
      BY <2>3 DEF Measuring, Measured
    <3>4. Before(c)' = Before(c)
      BY <2>2 DEF Before, parentVars
    <3> HIDE DEF reply
    <3>5. Len(toParent'[c]) = 1 /\ OfThisPhase(c, toParent[c][1])'
      BY <3>2, <3>3, <3>4, OneElement DEF OfThisPhase
    <3>6. handling'[c] = IF c \in Vehicle THEN [handling[c] EXCEPT !.at = "switch"] ELSE Idle
      BY <1>2 DEF TypeOK, ChildReplies, Answer
    <3>7. handling'[c].at # "measure"
          /\ (c \in Vehicle => handling'[c].at = "switch" /\ handling'[c].type = Phases[phaseIndex][c])
      BY <2>3, <3>6 DEF Measuring, Idle
    <3>8. NotMeasuring(c)' /\ KnowsNow(c)'
      BY <2>2, <3>7 DEF NotMeasuring, KnowsNow, Told, parentVars
    <3> QED  BY <2>2, <2>3, <3>5, <3>8 DEF Measuring, Replied
  <2> QED  BY <2>1, <2>2, <2>3 DEF Asked, Posted, Replied, Unasked, Answered, Quiet, NotMeasuring
<1>3. CASE ChildSwitches(c)
  <2>1. \A i \in Child : i # c => UNCHANGED stages(i)
    BY <1>3 DEF TypeOK, ChildSwitches, stages
  <2>2. /\ handling[c].at = "switch" /\ handling'[c] = Idle
        /\ UNCHANGED <<parentVars, cut, toChild, toParent>>
        /\ c \in Vehicle => childState'[c] = handling[c].type
    BY <1>3 DEF TypeOK, ChildSwitches
  <2>3. NotMeasuring(c)' /\ (KnowsBefore(c) => KnowsBefore(c)') /\ (KnowsNow(c) => KnowsNow(c)')
    BY <2>2 DEF NotMeasuring, KnowsBefore, KnowsNow, Told, Before, Idle, parentVars
  <2>4. \A x : OfThisPhase(c, x) => x.lag = 0 /\ (c \in Vehicle => x.measured \in Before(c)')
    BY <2>2 DEF OfThisPhase, Before, parentVars
  <2>5. Asked(c) => Asked(c)'
    <3>1. Posted(c) => Posted(c)'
      BY <2>2, <2>3 DEF Posted, parentVars
    <3>2. ~ Measuring(c)
      BY <2>2 DEF Measuring
    <3>3. Replied(c) => Replied(c)'
      BY <2>2, <2>3, <2>4 DEF Replied, OfThisPhase
    <3> QED  BY <3>1, <3>2, <3>3 DEF Asked
  <2> QED  BY <2>1, <2>2, <2>3, <2>4, <2>5 DEF Unasked, Answered, Quiet, OfThisPhase, parentVars
<1> QED  BY <1>1, <1>2, <1>3 DEF ChildStep

LEMMA PrevOfNext == \A p \in Phase : PrevPhase(NextPhase(p)) = p
<1>1. SUFFICES ASSUME NEW p \in Phase
               PROVE  PrevPhase(NextPhase(p)) = p
  OBVIOUS
<1>2. NumPhases \in Nat \ {0} /\ p \in 0 .. NumPhases - 1
  BY JunctionAssumption DEF Phase
<1>3. CASE p + 1 < NumPhases
  <2>1. NextPhase(p) = p + 1
    BY <1>2, <1>3 DEF NextPhase
  <2> QED  BY <1>2, <2>1 DEF PrevPhase
<1>4. CASE p + 1 = NumPhases
  <2>1. NextPhase(p) = 0
    BY <1>2, <1>4 DEF NextPhase
  <2> QED  BY <1>2, <1>4, <2>1 DEF PrevPhase
<1> QED  BY <1>2, <1>3, <1>4

LEMMA AgedNothing == Aged(<<>>) = <<>>
BY DEF Aged

(* The steps of the parent.                                                *)
LEMMA SendsInStep ==
  ASSUME TypeOK, InStep, SendPhaseMessage
  PROVE  InStep'
<1>1. SUFFICES ASSUME failures = 0
               PROVE  \A i \in Child : cut'[i] = 0
                        /\ IF i <= child THEN Asked(i)' ELSE Unasked(i)'
  <2>1. child \in Child /\ Child \subseteq Int /\ NumChildren \in Nat \ {0}
        /\ \A i \in Child : i >= 0 /\ i <= NumChildren - 1
    BY ChildFacts DEF TypeOK, Child
  <2>2. failures' = failures /\ pc = "send"
    BY DEF SendPhaseMessage
  <2>3. CASE child + 1 < NumChildren
    BY <1>1, <2>1, <2>2, <2>3 DEF SendPhaseMessage, InStep
  <2>4. CASE ~ (child + 1 < NumChildren)
    BY <1>1, <2>1, <2>2, <2>4 DEF SendPhaseMessage, InStep
  <2> QED  BY <2>3, <2>4
<1>2. UNCHANGED <<phaseIndex, stored, cut, toParent, handling, childState>>
  BY DEF SendPhaseMessage, childVars
<1>3. pc = "send" /\ child \in Child /\ Unasked(child) /\ \A i \in Child : cut[i] = 0
  <2>1. child \in Child /\ ~ (child < child)
    BY DEF TypeOK, Child
  <2> QED  BY <1>1, <2>1 DEF SendPhaseMessage, InStep
<1>4. ASSUME NEW c \in Child, c = child
      PROVE  Asked(c)'
  <2>1. toChild'[c] = <<[type |-> Phases[phaseIndex][c], lag |-> 0]>>
    BY <1>3, <1>4, OneElement DEF TypeOK, SendPhaseMessage, Unasked, Quiet
  <2>2. NotMeasuring(c) /\ KnowsBefore(c) /\ toParent[c] = <<>>
    BY <1>3, <1>4 DEF Unasked, Quiet
  <2>3. Posted(c)'
    BY <1>2, <2>1, <2>2 DEF Posted, NotMeasuring, KnowsBefore, Told, Before
  <2> QED  BY <2>3 DEF Asked
<1>5. ASSUME NEW i \in Child, i # child
      PROVE  IF i <= child THEN Asked(i)' ELSE Unasked(i)'
  <2>1. UNCHANGED <<stages(i), phaseIndex>>
    BY <1>2, <1>5 DEF TypeOK, SendPhaseMessage, stages
  <2>2. IF i <= child THEN Asked(i) ELSE Unasked(i)
    <3>1. i < child <=> i <= child
      BY <1>3, <1>5 DEF Child
    <3> QED  BY <1>1, <1>3, <3>1 DEF InStep
  <2> QED  BY <2>1, <2>2, SameStage
<1> QED  BY <1>2, <1>3, <1>4, <1>5 DEF Child

LEMMA ReceivesInStep ==
  ASSUME TypeOK, InStep, ReceiveReply, ReplyBytes <= ReadBytes
  PROVE  InStep'
<1>1. SUFFICES ASSUME failures = 0
               PROVE  \A i \in Child : cut'[i] = 0
                        /\ IF i <= child THEN Answered(i)' ELSE Asked(i)'
  <2>1. child \in Child /\ Child \subseteq Int /\ NumChildren \in Nat \ {0}
        /\ \A i \in Child : i >= 0 /\ i <= NumChildren - 1
    BY ChildFacts DEF TypeOK, Child
  <2>2. failures' = failures /\ pc = "receive" /\ NextChild
    BY DEF ReceiveReply, StoreReply
  <2>3. CASE child + 1 < NumChildren
    <3>1. pc' = "receive" /\ child' = child + 1
      BY <2>2, <2>3 DEF NextChild
    <3> QED  BY <1>1, <2>1, <2>2, <3>1 DEF InStep
  <2>4. CASE ~ (child + 1 < NumChildren)
    <3>1. pc' = "timer" /\ \A i \in Child : i <= child
      BY <2>1, <2>2, <2>4 DEF NextChild
    <3> QED  BY <1>1, <2>1, <2>2, <3>1 DEF InStep
  <2> QED  BY <2>3, <2>4
<1>2. UNCHANGED <<phaseIndex, toChild, handling, childState>>
  BY DEF ReceiveReply, StoreReply, childVars
<1>3. /\ pc = "receive" /\ child \in Child /\ toParent[child] # <<>> /\ Asked(child)
      /\ \A i \in Child : cut[i] = 0
  <2>1. child \in Child /\ ~ (child < child) /\ pc = "receive"
    BY DEF TypeOK, Child, ReceiveReply, StoreReply
  <2> QED  BY <1>1, <2>1 DEF ReceiveReply, StoreReply, InStep
<1>4. Replied(child)
  BY <1>3 DEF Asked, Posted, Measuring
<1>5. cut' = [cut EXCEPT ![child] = 0] /\ toParent' = [toParent EXCEPT ![child] = <<>>]
  <2>1. BytesIn(toParent[child], cut[child]) <= ReadBytes
    BY <1>3, <1>4, ProtocolAssumption DEF BytesIn, Replied
  <2> QED  BY <2>1 DEF ReceiveReply, StoreReply, TakeFromPipe, ReadUpTo
<1>6. ASSUME NEW c \in Child, c = child
      PROVE  Answered(c)'
  <2>1. Head(toParent[c]) = toParent[c][1] /\ OfThisPhase(c, toParent[c][1])
    BY <1>4, <1>6 DEF TypeOK, Replied
  <2>2. stored'[c] = [from |-> "reply", lag |-> Head(toParent[c]).lag,
                      measured |-> Head(toParent[c]).measured]
    BY <1>3, <1>6 DEF TypeOK, ReceiveReply, StoreReply
  <2>3. Before(c)' = Before(c)
    BY <1>2 DEF Before
  <2>4. stored'[c].from = "reply" /\ OfThisPhase(c, stored[c])'
    BY <2>1, <2>2, <2>3 DEF OfThisPhase
  <2>5. toChild[c] = <<>> /\ NotMeasuring(c) /\ KnowsNow(c)
    BY <1>4, <1>6 DEF Replied
  <2>6. Quiet(c)' /\ KnowsNow(c)'
    BY <1>2, <1>5, <1>6, <2>5 DEF TypeOK, Quiet, NotMeasuring, KnowsNow, Told
  <2> QED  BY <2>4, <2>6 DEF Answered
<1>7. ASSUME NEW i \in Child, i # child
      PROVE  IF i <= child THEN Answered(i)' ELSE Asked(i)'
  <2>1. UNCHANGED <<stages(i), phaseIndex>> /\ stored'[i] = stored[i]
    BY <1>2, <1>5, <1>7 DEF TypeOK, ReceiveReply, StoreReply, stages
  <2>2. IF i <= child THEN Answered(i) ELSE Asked(i)
    <3>1. i < child <=> i <= child
      BY <1>3, <1>7 DEF Child
    <3> QED  BY <1>1, <1>3, <3>1 DEF InStep
  <2> QED  BY <2>1, <2>2, SameStage
<1>8. \A i \in Child : cut'[i] = 0
  BY <1>3, <1>5 DEF TypeOK
<1> QED  BY <1>3, <1>6, <1>7, <1>8 DEF Child

LEMMA NextRoundInStep ==
  ASSUME TypeOK, TimerAtStart, InStep, NextRound
  PROVE  InStep'
<1>1. SUFFICES ASSUME failures = 0, NEW i \in Child
               PROVE  cut'[i] = 0 /\ Unasked(i)'
  BY DEF NextRound, TimerAtStart, InStep, Child
<1>2. cut[i] = 0 /\ Answered(i)
  BY <1>1 DEF NextRound, InStep
<1>3. /\ phaseIndex \in Phase /\ phaseIndex' = NextPhase(phaseIndex) /\ cut' = cut
      /\ childState' = childState
      /\ toChild'[i] = Aged(toChild[i]) /\ toParent'[i] = Aged(toParent[i])
      /\ handling'[i] = IF handling[i] = Idle THEN Idle ELSE [handling[i] EXCEPT !.lag = Older(@)]
  BY <1>1 DEF TypeOK, NextRound
<1>4. toChild'[i] = <<>> /\ toParent'[i] = <<>>
  BY <1>2, <1>3, AgedNothing DEF Answered, Quiet
<1>5. handling'[i].at = handling[i].at /\ (handling[i].at = "switch" => handling'[i].type = handling[i].type)
  <2>1. handling[i] \in {Idle} \cup [at : {"measure", "switch"}, type : Type, lag : Lag]
    BY <1>1 DEF TypeOK
  <2>2. CASE handling[i] = Idle
    BY <1>3, <2>2 DEF Idle
  <2>3. CASE handling[i] # Idle
    <3>1. handling[i] \in [at : {"measure", "switch"}, type : Type, lag : Lag]
      BY <2>1, <2>3
    <3> QED  BY <1>3, <2>3, <3>1
  <2> QED  BY <2>2, <2>3
<1>6. Phases[PrevPhase(phaseIndex')][i] = Phases[phaseIndex][i]
  BY <1>3, PrevOfNext
<1>7. KnowsBefore(i)'
  BY <1>2, <1>3, <1>5, <1>6 DEF Answered, KnowsNow, KnowsBefore, Told, Before
<1> QED  BY <1>2, <1>3, <1>4, <1>5, <1>7 DEF Unasked, Answered, Quiet, NotMeasuring

LEMMA ChildrenInStep ==
  ASSUME TypeOK, InStep, NEW c \in Child, ChildStep(c)
  PROVE  InStep'
<1>1. SUFFICES ASSUME failures = 0
               PROVE  InStep'
  <2>1. UNCHANGED failures
    BY DEF ChildStep, ChildReads, ChildReplies, Answer, ChildSwitches, parentVars
  <2> QED  BY <1>1, <2>1 DEF InStep
<1>2. cut[c] = 0
  BY <1>1 DEF InStep
<1>3. UNCHANGED <<pc, phaseIndex, child, stored, failures, cut>>
  BY <1>2, ChildStage DEF parentVars
<1>4. ASSUME NEW i \in Child
      PROVE  (Asked(i) => Asked(i)') /\ (Unasked(i) => Unasked(i)') /\ (Answered(i) => Answered(i)')
  <2>1. CASE i = c
    BY <1>2, <2>1, ChildStage
  <2>2. CASE i # c
    <3>1. UNCHANGED <<stages(i), phaseIndex>> /\ UNCHANGED stored[i]
      BY <1>2, <1>3, <2>2, ChildStage
    <3> QED  BY <3>1, SameStage
  <2> QED  BY <2>1, <2>2
<1> QED  BY <1>1, <1>3, <1>4 DEF InStep

LEMMA StaysInStep ==
  ASSUME TypeOK, TimerAtStart, InStep, [Next]_vars, ReplyBytes <= ReadBytes
  PROVE  InStep'
<1>1. CASE ReceiveFails
  <2>1. failures' # 0
    BY <1>1, ProtocolAssumption DEF TypeOK, ReceiveFails, Older, Lag
  <2> QED  BY <2>1 DEF InStep
<1>2. CASE UNCHANGED vars
  <2>1. UNCHANGED <<pc, phaseIndex, child, stored, failures, cut>> /\ \A i \in Child : UNCHANGED stages(i)
    BY <1>2 DEF vars, parentVars, childVars, stages
  <2>2. ASSUME NEW i \in Child
        PROVE  (Asked(i) => Asked(i)') /\ (Unasked(i) => Unasked(i)') /\ (Answered(i) => Answered(i)')
    BY <2>1, SameStage
  <2> QED  BY <2>1, <2>2 DEF InStep
<1> QED  BY <1>1, <1>2, SendsInStep, ReceivesInStep, NextRoundInStep, ChildrenInStep DEF Next, ParentStep

LEMMA InitInStep ==
  ASSUME Init
  PROVE  TimerAtStart /\ InStep
<1>1. \A i \in Child : ~ (i < 0) /\ (i \in Vehicle => childState[i] = "start")
  BY JunctionAssumption DEF Init, Child
<1>2. \A i \in Child : cut[i] = 0 /\ Unasked(i)
  BY <1>1 DEF Init, Unasked, Quiet, NotMeasuring, KnowsBefore, Told, Before, Idle
<1> QED  BY <1>1, <1>2 DEF Init, TimerAtStart, InStep

LEMMA TimerStaysAtStart ==
  ASSUME TimerAtStart, [Next]_vars
  PROVE  TimerAtStart'
<1>1. CASE ParentStep
  BY <1>1 DEF ParentStep, SendPhaseMessage, ReceiveReply, StoreReply, NextChild, ReceiveFails,
              NextRound, TimerAtStart
<1>2. CASE (\E i \in Child : ChildStep(i)) \/ UNCHANGED vars
  BY <1>2 DEF ChildStep, ChildReads, ChildReplies, Answer, ChildSwitches, vars, parentVars,
              TimerAtStart
<1> QED  BY <1>1, <1>2 DEF Next

(* See RepliesMatchPhase: for any number of phases and children, whenever a*)
(* read takes at least a whole reply. With a smaller buffer the NUL stays  *)
(* behind, and every later reply is read from its middle.                  *)
THEOREM RepliesInStep == ReplyBytes <= ReadBytes => (Spec => []RepliesMatchPhase)
<1> SUFFICES ASSUME ReplyBytes <= ReadBytes
             PROVE  Spec => []RepliesMatchPhase
  OBVIOUS
<1>1. ASSUME TimerAtStart, [Next]_vars
      PROVE  TimerAtStart'
  BY <1>1, TimerStaysAtStart
<1>2. InStep => RepliesMatchPhase
  <2>1. \A i \in Child : stored[i].from = "reply" => stored[i] # Default
    BY DEF Default
  <2> QED  BY <2>1 DEF InStep, RepliesMatchPhase, Answered, OfThisPhase, Before
<1>3. ASSUME TypeOK, TimerAtStart, InStep, [Next]_vars
      PROVE  InStep'
  BY <1>3, StaysInStep
<1> QED  BY <1>1, <1>2, <1>3, InitInStep, TypeCorrect, PTL DEF Spec

-----------------------------------------------------------------------------
(* Why replies stay fresh: the messages of a child, and the replies to     *)
(* them, pass one another nowhere, so the lags that wait fall from the     *)
(* head of its reply pipe to the tail of its message pipe; and every phase *)
(* that reads a child takes the oldest of them, until a reading fails.     *)
Falling(s) == \A j, k \in DOMAIN s : j < k => s[k].lag < s[j].lag
Beneath(n, s) == \A k \in DOMAIN s : s[k].lag < n
Busy(i) == handling[i].at = "measure"

InOrder(i) ==
  /\ Falling(toParent[i]) /\ Falling(toChild[i])
  /\ \A j \in DOMAIN toParent[i] :
       /\ Busy(i) => handling[i].lag < toParent[i][j].lag
       /\ Beneath(toParent[i][j].lag, toChild[i])
  /\ Busy(i) => Beneath(handling[i].lag, toChild[i])

Waiting(i) ==
  {toParent[i][k].lag : k \in DOMAIN toParent[i]}
    \cup {toChild[i][k].lag : k \in DOMAIN toChild[i]}
    \cup {n \in Lag : Busy(i) /\ handling[i].lag = n}

Asking(i)  == pc = "send" /\ i >= child          \* not yet asked in this phase
Done(i)    == pc = "timer" \/ (pc = "receive" /\ i < child)
Fresh(i) ==
  /\ InOrder(i)
  /\ \A n \in Waiting(i) :
       /\ n <= failures
       /\ Asking(i) => n >= 1
       /\ Done(i) => n < failures
  /\ stored[i] # Default => stored[i].lag <= failures

AllFresh == failures < MaxLag => \A i \in Child : Fresh(i)

(* What a read leaves are replies further back, if it takes a reply at all.*)
LEMMA ReadTakesHead ==
  ASSUME NEW q \in Seq(Reply), q # <<>>, NEW c \in 0 .. ReplyBytes - 1,
         ReplyBytes <= ReadBytes
  PROVE  LET r == ReadUpTo(q, c, ReadBytes).replies IN
         \E d \in Nat \ {0} :
           \A k \in DOMAIN r : k \in Nat \ {0} /\ k + d \in DOMAIN q /\ r[k] = q[k + d]
<1> DEFINE a == c + ReadBytes
           d == a \div ReplyBytes
           r == ReadUpTo(q, c, ReadBytes).replies
<1> SUFFICES \E e \in Nat \ {0} :
               \A k \in DOMAIN r : k \in Nat \ {0} /\ k + e \in DOMAIN q /\ r[k] = q[k + e]
  OBVIOUS
<1>1. ReplyBytes \in Nat \ {0} /\ ReadBytes \in Nat /\ a \in Nat /\ a >= ReplyBytes
  BY ProtocolAssumption
<1>2. CASE BytesIn(q, c) <= ReadBytes
  <2>1. r = <<>>
    BY <1>2 DEF ReadUpTo
  <2>2. DOMAIN r = {}
    BY <2>1
  <2> QED  BY <2>2
<1>3. CASE ~ (BytesIn(q, c) <= ReadBytes)
  <2>1. Len(q) \in Nat
    OBVIOUS
  <2>2. d \in Nat /\ a % ReplyBytes \in 0 .. ReplyBytes - 1
        /\ a = ReplyBytes * d + (a % ReplyBytes)
    BY <1>1, WholeReplies
  <2>3. r = SubSeq(q, d + 1, Len(q))
    BY <1>3 DEF ReadUpTo
  <2> HIDE DEF a, r
  <2>4. d # 0
    <3>1. CASE d = 0
      <4>1. ReplyBytes * d = 0
        BY <1>1, <3>1, Z3
      <4> QED  BY <1>1, <2>2, <4>1
    <3> QED  BY <3>1
  <2> HIDE DEF d
  <2>5. CASE d + 1 <= Len(q)
    <3>1. DOMAIN r = 1 .. Len(q) - d /\ \A k \in 1 .. Len(q) - d : r[k] = q[k + d]
      BY <2>1, <2>2, <2>3, <2>5
    <3>2. \A k \in DOMAIN r : k \in Nat \ {0} /\ k + d \in DOMAIN q /\ r[k] = q[k + d]
      BY <2>1, <2>2, <2>5, <3>1
    <3> QED  BY <2>2, <2>4, <3>2
  <2>6. CASE ~ (d + 1 <= Len(q))
    <3>1. DOMAIN r = {}
      BY <2>1, <2>2, <2>3, <2>6
    <3> QED  BY <2>2, <2>4, <3>1
  <2> QED  BY <2>5, <2>6
<1> QED  BY <1>2, <1>3

(* What a read leaves in the pipe of the child it reads is younger than    *)
(* the reply at its head, and in order.                                    *)
LEMMA ReadKeepsOrder ==
  ASSUME TypeOK, ReplyBytes <= ReadBytes, TakeFromPipe, toParent[child] # <<>>,
         UNCHANGED <<toChild, handling>>, InOrder(child), NEW c, c = child
  PROVE  /\ InOrder(c)'
         /\ Waiting(c)' \subseteq Waiting(c)
         /\ \A n \in Waiting(c)' : n < Head(toParent[c]).lag
<1> DEFINE q == toParent[c]
           r == toParent'[c]
<1>1. q \in Seq(Reply) /\ cut[c] \in 0 .. ReplyBytes - 1 /\ c \in Child
  BY DEF TypeOK
<1>2. r = ReadUpTo(q, cut[c], ReadBytes).replies
  BY <1>1 DEF TypeOK, TakeFromPipe
<1>3. PICK d \in Nat \ {0} :
        \A k \in DOMAIN r : k \in Nat \ {0} /\ k + d \in DOMAIN q /\ r[k] = q[k + d]
  <2>1. \E e \in Nat \ {0} :
          \A k \in DOMAIN ReadUpTo(q, cut[c], ReadBytes).replies :
            /\ k \in Nat \ {0} /\ k + e \in DOMAIN q
            /\ ReadUpTo(q, cut[c], ReadBytes).replies[k] = q[k + e]
    BY <1>1, ReadTakesHead
  <2> QED  BY <1>2, <2>1
<1>4. 1 \in DOMAIN q /\ Head(q) = q[1]
  BY <1>1
<1>5. toChild'[c] = toChild[c] /\ handling'[c] = handling[c] /\ Busy(c)' = Busy(c)
  BY DEF Busy
<1>6. /\ Falling(q) /\ Falling(toChild[c])
      /\ \A j \in DOMAIN q : /\ Busy(c) => handling[c].lag < q[j].lag
                             /\ Beneath(q[j].lag, toChild[c])
      /\ Busy(c) => Beneath(handling[c].lag, toChild[c])
  BY DEF InOrder
<1>7. InOrder(c)'
  <2>1. Falling(r)
    <3>1. ASSUME NEW j \in DOMAIN r, NEW k \in DOMAIN r, j < k
          PROVE  r[k].lag < r[j].lag
      <4>1. j + d \in DOMAIN q /\ k + d \in DOMAIN q /\ j + d < k + d
            /\ r[j] = q[j + d] /\ r[k] = q[k + d]
        BY <1>3, <3>1
      <4> QED  BY <1>6, <4>1 DEF Falling
    <3> QED  BY <3>1 DEF Falling
  <2>2. \A j \in DOMAIN r : /\ Busy(c)' => handling'[c].lag < r[j].lag
                            /\ Beneath(r[j].lag, toChild'[c])
    BY <1>3, <1>5, <1>6 DEF Beneath
  <2>3. Falling(toChild'[c]) /\ (Busy(c)' => Beneath(handling'[c].lag, toChild'[c]))
    BY <1>5, <1>6 DEF Beneath, Falling
  <2> QED  BY <2>1, <2>2, <2>3 DEF InOrder
<1>8. Waiting(c)' \subseteq Waiting(c)
  BY <1>3, <1>5 DEF Waiting
<1>9. ASSUME NEW n \in Waiting(c)'
      PROVE  n < Head(toParent[c]).lag
  <2>1. CASE n \in {toParent'[c][k].lag : k \in DOMAIN toParent'[c]}
    <3>1. PICK k \in DOMAIN r : n = r[k].lag
      BY <2>1
    <3>2. k + d \in DOMAIN q /\ r[k] = q[k + d] /\ 1 < k + d
      BY <1>3
    <3> QED  BY <1>4, <1>6, <3>1, <3>2 DEF Falling
  <2>2. CASE n \in {toChild'[c][k].lag : k \in DOMAIN toChild'[c]}
    <3>1. Beneath(q[1].lag, toChild[c])
      BY <1>4, <1>6 DEF Beneath
    <3> QED  BY <1>4, <1>5, <2>2, <3>1 DEF Beneath
  <2>3. CASE Busy(c)' /\ handling'[c].lag = n
    BY <1>4, <1>5, <1>6, <2>3
  <2> QED  BY <1>9, <2>1, <2>2, <2>3 DEF Waiting
<1> QED  BY <1>7, <1>8, <1>9

LEMMA SameOrder ==
  ASSUME NEW i, UNCHANGED <<toChild[i], toParent[i], handling[i]>>
  PROVE  InOrder(i)' = InOrder(i) /\ Waiting(i)' = Waiting(i)
<1>1. toChild'[i] = toChild[i] /\ toParent'[i] = toParent[i] /\ Busy(i)' = Busy(i)
      /\ handling'[i] = handling[i]
  BY DEF Busy
<1>2. InOrder(i)' = InOrder(i)
  BY <1>1 DEF InOrder
<1>3. Waiting(i)' = Waiting(i)
  BY <1>1 DEF Waiting
<1> QED  BY <1>2, <1>3

(* An appended element, which is below all the others.                     *)
LEMMA AppendFalls ==
  ASSUME NEW S, NEW s \in Seq(S), NEW x \in S, Falling(s),
         \A k \in DOMAIN s : x.lag < s[k].lag
  PROVE  /\ Falling(Append(s, x))
         /\ \A k \in DOMAIN Append(s, x) :
              (k \in DOMAIN s /\ Append(s, x)[k] = s[k]) \/ Append(s, x)[k] = x
<1>1. /\ Len(s) \in Nat /\ DOMAIN s = 1 .. Len(s) /\ DOMAIN Append(s, x) = 1 .. Len(s) + 1
      /\ \A k \in 1 .. Len(s) : Append(s, x)[k] = s[k]
      /\ Append(s, x)[Len(s) + 1] = x
  OBVIOUS
<1> DEFINE t == Append(s, x)
<1> HIDE DEF t
<1>2. ASSUME NEW j \in 1 .. Len(s) + 1, NEW k \in 1 .. Len(s) + 1, j < k
      PROVE  Append(s, x)[k].lag < Append(s, x)[j].lag
  <2>1. j \in 1 .. Len(s) /\ Append(s, x)[j] = s[j]
    BY <1>1, <1>2
  <2>2. CASE k = Len(s) + 1
    BY <1>1, <2>1, <2>2
  <2>3. CASE k # Len(s) + 1
    <3>1. k \in 1 .. Len(s) /\ Append(s, x)[k] = s[k]
      BY <1>1, <1>2, <2>3
    <3> QED  BY <1>1, <1>2, <2>1, <3>1 DEF Falling
  <2> QED  BY <2>2, <2>3
<1>3. Falling(Append(s, x))
  BY <1>1, <1>2 DEF Falling
<1>4. \A k \in 1 .. Len(s) + 1 : k \in 1 .. Len(s) \/ k = Len(s) + 1
  BY <1>1
<1> QED  BY <1>1, <1>3, <1>4

(* A child passes the lags on in the order it got them.                    *)
LEMMA ChildKeepsOrder ==
  ASSUME TypeOK, NEW c \in Child, ChildStep(c), InOrder(c)
  PROVE  /\ InOrder(c)'
         /\ Waiting(c)' \subseteq Waiting(c)
<1>1. CASE ChildReads(c)
  <2>1. toChild[c] \in Seq(Message) /\ toChild[c] # <<>> /\ ~ Busy(c)
    BY <1>1 DEF TypeOK, ChildReads, Busy, Idle
  <2>2. 1 \in DOMAIN toChild[c] /\ toChild[c][1] \in Message /\ Head(toChild[c]) = toChild[c][1]
    BY <2>1
  <2>3. /\ handling'[c].at = "measure" /\ handling'[c].lag = toChild[c][1].lag
        /\ toChild'[c] = <<>> /\ toParent'[c] = toParent[c]
    BY <1>1, <2>2 DEF TypeOK, ChildReads, PollFirst
  <2>4. Busy(c)' /\ DOMAIN toChild'[c] = {}
    BY <2>3 DEF Busy
  <2>5. toChild[c][1].lag \in Lag
    BY <2>2 DEF Message
  <2>6. InOrder(c)'
    BY <2>2, <2>3, <2>4 DEF InOrder, Falling, Beneath
  <2>7. Waiting(c)' \subseteq Waiting(c)
    BY <2>2, <2>3, <2>4, <2>5 DEF Waiting
  <2> QED  BY <2>6, <2>7
<1>2. ASSUME NEW usable \in BOOLEAN, ChildReplies(c, usable)
      PROVE  InOrder(c)' /\ Waiting(c)' \subseteq Waiting(c)
  <2> DEFINE reply == [lag |-> handling[c].lag, measured |-> Measured(c), usable |-> usable]
  <2>1. handling[c] \in [at : {"measure", "switch"}, type : Type, lag : Lag] /\ Busy(c)
    BY <1>2 DEF TypeOK, ChildReplies, Answer, Idle, Busy
  <2>2. handling[c].lag \in Lag
    BY <2>1
  <2>3. toChild'[c] = toChild[c] /\ ~ Busy(c)'
    <3>1. handling'[c] = IF c \in Vehicle THEN [handling[c] EXCEPT !.at = "switch"] ELSE Idle
      BY <1>2 DEF TypeOK, ChildReplies, Answer
    <3>2. toChild' = toChild
      BY <1>2 DEF ChildReplies, Answer
    <3> QED  BY <2>1, <3>1, <3>2 DEF Busy, Idle
  <2>4. toParent'[c] \in {toParent[c], Append(toParent[c], reply)}
    BY <1>2 DEF TypeOK, ChildReplies, Answer, WriteReply
  <2>5. reply \in Reply /\ reply.lag = handling[c].lag /\ toParent[c] \in Seq(Reply)
    BY <2>1, <2>2 DEF TypeOK, Measured, Reply, State
  <2> HIDE DEF reply
  <2>6. /\ Falling(toParent'[c])
        /\ \A k \in DOMAIN toParent'[c] :
             (k \in DOMAIN toParent[c] /\ toParent'[c][k] = toParent[c][k])
               \/ toParent'[c][k] = reply
    <3>1. CASE toParent'[c] = toParent[c]
      BY <3>1 DEF InOrder
    <3>2. CASE toParent'[c] = Append(toParent[c], reply)
      <4>1. Falling(toParent[c]) /\ \A k \in DOMAIN toParent[c] : reply.lag < toParent[c][k].lag
        BY <2>1, <2>5 DEF InOrder
      <4> QED  BY <2>5, <3>2, <4>1, AppendFalls
    <3> QED  BY <2>4, <3>1, <3>2
  <2>7. InOrder(c)'
    BY <2>1, <2>3, <2>5, <2>6 DEF InOrder, Beneath
  <2>8. Waiting(c)' \subseteq Waiting(c)
    BY <2>1, <2>2, <2>3, <2>5, <2>6 DEF Waiting
  <2> QED  BY <2>7, <2>8
<1>3. CASE ChildSwitches(c)
  <2>1. handling[c].at = "switch" /\ handling'[c] = Idle
    BY <1>3 DEF TypeOK, ChildSwitches
  <2>2. toChild'[c] = toChild[c] /\ toParent'[c] = toParent[c] /\ ~ Busy(c) /\ ~ Busy(c)'
    BY <1>3, <2>1 DEF ChildSwitches, Busy, Idle
  <2> QED  BY <2>2 DEF InOrder, Waiting
<1> QED  BY <1>1, <1>2, <1>3 DEF ChildStep

(* A message of this phase is younger than all that waits.                 *)
LEMMA SendKeepsOrder ==
  ASSUME TypeOK, SendPhaseMessage, InOrder(child), \A n \in Waiting(child) : n >= 1,
         NEW c, c = child
  PROVE  /\ InOrder(c)'
         /\ Waiting(c)' \subseteq Waiting(c) \cup {0}
<1> DEFINE m == [type |-> Phases[phaseIndex][c], lag |-> 0]
<1>1. m \in Message /\ m.lag = 0
  BY ChildFacts, ProtocolAssumption DEF TypeOK, Message, Lag
<1>2. toChild[c] \in Seq(Message) /\ toChild'[c] = Append(toChild[c], m) /\ toParent'[c] = toParent[c]
      /\ Busy(c)' = Busy(c) /\ handling'[c] = handling[c]
  BY DEF TypeOK, SendPhaseMessage, childVars, Busy
<1> HIDE DEF m
<1>3. /\ \A k \in DOMAIN toChild[c] : toChild[c][k].lag >= 1
      /\ \A k \in DOMAIN toParent[c] : toParent[c][k].lag >= 1
      /\ Busy(c) => handling[c].lag >= 1
  <2>1. Busy(c) => handling[c].lag \in Lag
    BY DEF TypeOK, Busy, Idle
  <2> QED  BY <2>1 DEF Waiting
<1>4. /\ \A k \in DOMAIN toChild[c] : toChild[c][k].lag \in Int
      /\ \A k \in DOMAIN toParent[c] : toParent[c][k].lag \in Int
      /\ Busy(c) => handling[c].lag \in Int
  <2>1. /\ toChild[c] \in Seq(Message) /\ toParent[c] \in Seq(Reply)
        /\ handling[c] \in {Idle} \cup [at : {"measure", "switch"}, type : Type, lag : Lag]
    BY DEF TypeOK
  <2>2. /\ \A k \in DOMAIN toChild[c] : toChild[c][k] \in Message
        /\ \A k \in DOMAIN toParent[c] : toParent[c][k] \in Reply
    BY <2>1
  <2>3. Lag \subseteq Int
    BY DEF Lag
  <2>4. Busy(c) => handling[c].lag \in Lag
    BY <2>1 DEF Busy, Idle
  <2> QED  BY <2>2, <2>3, <2>4 DEF Message, Reply
<1>5. \A k \in DOMAIN toChild[c] : m.lag < toChild[c][k].lag
  BY <1>1, <1>3, <1>4
<1>6. /\ Falling(toChild'[c])
      /\ \A k \in DOMAIN toChild'[c] :
           (k \in DOMAIN toChild[c] /\ toChild'[c][k] = toChild[c][k]) \/ toChild'[c][k] = m
  <2>1. Falling(toChild[c])
    BY DEF InOrder
  <2> QED  BY <1>1, <1>2, <1>5, <2>1, AppendFalls
<1>7. InOrder(c)'
  <2>1. ASSUME NEW n \in Int, n >= 1, Beneath(n, toChild[c])
        PROVE  Beneath(n, toChild'[c])
    BY <1>1, <1>6, <2>1 DEF Beneath
  <2> QED  BY <1>2, <1>3, <1>4, <1>6, <2>1 DEF InOrder
<1>8. Waiting(c)' \subseteq Waiting(c) \cup {0}
  BY <1>1, <1>2, <1>6 DEF Waiting
<1> QED  BY <1>7, <1>8

(* When a phase ends every lag that waits grows by one.                    *)
LEMMA AgedFalls ==
  ASSUME NEW S, NEW s \in Seq(S), Falling(s),
         \A x \in S : \A n \in Lag : [x EXCEPT !.lag = n].lag = n,
         \A k \in DOMAIN s : s[k].lag \in Nat /\ s[k].lag < MaxLag
  PROVE  /\ Falling(Aged(s)) /\ DOMAIN Aged(s) = DOMAIN s
         /\ \A k \in DOMAIN s : Aged(s)[k].lag = s[k].lag + 1
<1>1. DOMAIN Aged(s) = DOMAIN s
      /\ \A k \in DOMAIN s : Aged(s)[k] = [s[k] EXCEPT !.lag = Older(s[k].lag)]
  BY DEF Aged
<1>2. \A k \in DOMAIN s : s[k] \in S
  OBVIOUS
<1>3. \A k \in DOMAIN s : Older(s[k].lag) = s[k].lag + 1 /\ s[k].lag + 1 \in Lag
  BY ProtocolAssumption DEF Older, Lag
<1>4. \A k \in DOMAIN s : Aged(s)[k].lag = s[k].lag + 1
  <2>1. ASSUME NEW k \in DOMAIN s
        PROVE  Aged(s)[k].lag = s[k].lag + 1
    <3>1. PICK n \in Lag : n = Older(s[k].lag) /\ n = s[k].lag + 1
      BY <1>3
    <3>2. [s[k] EXCEPT !.lag = n].lag = n
      BY <1>2
    <3> QED  BY <1>1, <3>1, <3>2
  <2> QED  BY <2>1
<1>5. ASSUME NEW j \in DOMAIN s, NEW k \in DOMAIN s, j < k
      PROVE  Aged(s)[k].lag < Aged(s)[j].lag
  <2>1. s[k].lag < s[j].lag
    BY <1>5 DEF Falling
  <2> QED  BY <1>4, <2>1
<1>6. Falling(Aged(s))
  BY <1>1, <1>5 DEF Falling
<1> QED  BY <1>1, <1>4, <1>6

LEMMA NextRoundKeepsOrder ==
  ASSUME TypeOK, NextRound, NEW c \in Child, InOrder(c), \A n \in Waiting(c) : n < MaxLag
  PROVE  /\ InOrder(c)'
         /\ \A n \in Waiting(c)' : \E old \in Waiting(c) : n = old + 1
<1>1. /\ toChild[c] \in Seq(Message) /\ toParent[c] \in Seq(Reply)
      /\ handling[c] \in {Idle} \cup [at : {"measure", "switch"}, type : Type, lag : Lag]
  BY DEF TypeOK
<1>2. /\ \A k \in DOMAIN toChild[c] : toChild[c][k] \in Message
      /\ \A k \in DOMAIN toParent[c] : toParent[c][k] \in Reply
  BY <1>1
<1>3. Lag \subseteq Nat
  BY DEF Lag
<1>4. /\ \A k \in DOMAIN toChild[c] : toChild[c][k].lag \in Nat
      /\ \A k \in DOMAIN toParent[c] : toParent[c][k].lag \in Nat
      /\ Busy(c) => handling[c].lag \in Lag
  <2>1. Busy(c) => handling[c].lag \in Lag
    BY <1>1 DEF Busy, Idle
  <2> QED  BY <1>2, <1>3, <2>1 DEF Message, Reply
<1>5. /\ \A k \in DOMAIN toChild[c] : toChild[c][k].lag < MaxLag
      /\ \A k \in DOMAIN toParent[c] : toParent[c][k].lag < MaxLag
      /\ Busy(c) => handling[c].lag < MaxLag
  BY <1>4 DEF Waiting
<1>6. Falling(toChild[c]) /\ Falling(toParent[c])
  BY DEF InOrder
<1>7. toChild'[c] = Aged(toChild[c]) /\ toParent'[c] = Aged(toParent[c])
  BY DEF NextRound
<1>8. \A x \in Message : \A n \in Lag : [x EXCEPT !.lag = n].lag = n
  BY DEF Message
<1>9. \A x \in Reply : \A n \in Lag : [x EXCEPT !.lag = n].lag = n
  BY DEF Reply
<1>10. /\ Falling(toChild'[c]) /\ DOMAIN toChild'[c] = DOMAIN toChild[c]
       /\ \A k \in DOMAIN toChild[c] : toChild'[c][k].lag = toChild[c][k].lag + 1
  BY <1>1, <1>4, <1>5, <1>6, <1>7, <1>8, AgedFalls
<1>11. /\ Falling(toParent'[c]) /\ DOMAIN toParent'[c] = DOMAIN toParent[c]
       /\ \A k \in DOMAIN toParent[c] : toParent'[c][k].lag = toParent[c][k].lag + 1
  BY <1>1, <1>4, <1>5, <1>6, <1>7, <1>9, AgedFalls
<1>12. Busy(c)' = Busy(c) /\ (Busy(c) => handling'[c].lag = handling[c].lag + 1)
  <2>1. handling'[c] = IF handling[c] = Idle THEN Idle
                       ELSE [handling[c] EXCEPT !.lag = Older(@)]
    BY DEF NextRound
  <2>2. CASE handling[c] = Idle
    BY <2>1, <2>2 DEF Busy, Idle
  <2>3. CASE handling[c] # Idle
    <3>1. handling[c] \in [at : {"measure", "switch"}, type : Type, lag : Lag]
      BY <1>1, <2>3
    <3>2. handling'[c].at = handling[c].at /\ handling'[c].lag = Older(handling[c].lag)
      BY <2>1, <2>3, <3>1
    <3>3. Busy(c) => Older(handling[c].lag) = handling[c].lag + 1
      BY <1>5 DEF Older
    <3> QED  BY <3>2, <3>3 DEF Busy
  <2> QED  BY <2>2, <2>3
<1>13. InOrder(c)'
  <2>1. \A j \in DOMAIN toParent[c] :
          /\ Busy(c) => handling[c].lag < toParent[c][j].lag
          /\ \A k \in DOMAIN toChild[c] : toChild[c][k].lag < toParent[c][j].lag
    BY DEF InOrder, Beneath
  <2>2. Busy(c) => \A k \in DOMAIN toChild[c] : toChild[c][k].lag < handling[c].lag
    BY DEF InOrder, Beneath
  <2>3. Busy(c) => handling[c].lag \in Nat
    BY <1>3, <1>4
  <2> QED  BY <1>4, <1>10, <1>11, <1>12, <2>1, <2>2, <2>3 DEF InOrder, Beneath
<1>14. \A n \in Waiting(c)' : \E old \in Waiting(c) : n = old + 1
  BY <1>4, <1>10, <1>11, <1>12 DEF Waiting
<1> QED  BY <1>13, <1>14

LEMMA WaitingLags ==
  ASSUME TypeOK, NEW c \in Child
  PROVE  /\ Waiting(c) \subseteq Lag
         /\ toParent[c] # <<>> => Head(toParent[c]).lag \in Waiting(c)
<1>1. toChild[c] \in Seq(Message) /\ toParent[c] \in Seq(Reply)
  BY DEF TypeOK
<1>2. /\ \A k \in DOMAIN toChild[c] : toChild[c][k] \in Message
      /\ \A k \in DOMAIN toParent[c] : toParent[c][k] \in Reply
      /\ toParent[c] # <<>> => 1 \in DOMAIN toParent[c] /\ Head(toParent[c]) = toParent[c][1]
  BY <1>1
<1> QED  BY <1>2 DEF Waiting, Message, Reply

FewFailures == failures < MaxLag

LEMMA SendStaysFresh ==
  ASSUME TypeOK, TimerAtStart, \A i \in Child : Fresh(i), SendPhaseMessage, NEW c \in Child
  PROVE  Fresh(c)'
<1>1. failures \in Int /\ failures >= 0 /\ child \in Int /\ c \in Int /\ child \in Child /\ c >= 0
      /\ NumChildren \in Int /\ c < NumChildren
  BY ChildFacts DEF TypeOK, Lag, Child
<1>2. UNCHANGED <<failures, stored, toParent, handling>> /\ pc = "send"
  BY DEF SendPhaseMessage, childVars
<1>3. CASE c = child
  <2>1. InOrder(child) /\ \A n \in Waiting(child) : n <= failures /\ n >= 1
    BY <1>1, <1>2 DEF Fresh, Asking
  <2>2. InOrder(c)' /\ Waiting(c)' \subseteq Waiting(c) \cup {0}
    BY <1>3, <2>1, SendKeepsOrder
  <2>3. ~ Done(c)' /\ ~ Asking(c)'
    BY <1>1, <1>2, <1>3 DEF SendPhaseMessage, Done, Asking
  <2>4. \A n \in Waiting(c)' : n <= failures'
    BY <1>1, <1>2, <1>3, <2>1, <2>2
  <2>5. stored'[c] # Default => stored'[c].lag <= failures'
    BY <1>2 DEF Fresh
  <2> QED  BY <2>2, <2>3, <2>4, <2>5 DEF Fresh
<1>4. CASE c # child
  <2>1. UNCHANGED <<toChild[c], toParent[c], handling[c]>>
    BY <1>2, <1>4 DEF TypeOK, SendPhaseMessage
  <2>2. InOrder(c)' = InOrder(c) /\ Waiting(c)' = Waiting(c)
    BY <2>1, SameOrder
  <2>3. ~ Done(c)' /\ (Asking(c)' => Asking(c))
    BY <1>1, <1>2, <1>4 DEF SendPhaseMessage, Done, Asking
  <2>4. stored'[c] # Default => stored'[c].lag <= failures'
    BY <1>2 DEF Fresh
  <2> QED  BY <1>2, <2>2, <2>3, <2>4 DEF Fresh
<1> QED  BY <1>3, <1>4

LEMMA ReceiveStaysFresh ==
  ASSUME TypeOK, \A i \in Child : Fresh(i), ReceiveReply, ReplyBytes <= ReadBytes, NEW c \in Child
  PROVE  Fresh(c)'
<1>1. failures \in Int /\ child \in Int /\ c \in Int /\ child \in Child /\ c >= 0
      /\ NumChildren \in Int /\ c < NumChildren
  BY ChildFacts DEF TypeOK, Lag, Child
<1>2. UNCHANGED <<failures, toChild, handling>> /\ pc = "receive" /\ toParent[child] # <<>>
      /\ TakeFromPipe
  BY DEF ReceiveReply, StoreReply, childVars
<1>3. ~ Asking(c)' /\ (Done(c)' => Done(c) \/ c = child)
  <2>1. CASE child + 1 < NumChildren
    BY <1>1, <1>2, <2>1 DEF ReceiveReply, StoreReply, NextChild, Asking, Done
  <2>2. CASE ~ (child + 1 < NumChildren)
    BY <1>1, <1>2, <2>2 DEF ReceiveReply, StoreReply, NextChild, Asking, Done
  <2> QED  BY <2>1, <2>2
<1>4. CASE c = child
  <2>1. InOrder(child) /\ \A n \in Waiting(child) : n <= failures
    BY <1>1 DEF Fresh
  <2>2. /\ InOrder(c)' /\ Waiting(c)' \subseteq Waiting(c)
        /\ \A n \in Waiting(c)' : n < Head(toParent[c]).lag
    BY <1>2, <1>4, <2>1, ReadKeepsOrder
  <2>3. Head(toParent[c]).lag <= failures /\ Waiting(c) \subseteq Int
        /\ Head(toParent[c]).lag \in Int
    <3>1. Head(toParent[c]).lag \in Waiting(c) /\ Waiting(c) \subseteq Lag
      BY <1>2, <1>4, WaitingLags
    <3> QED  BY <1>4, <2>1, <3>1 DEF Lag
  <2>4. \A n \in Waiting(c)' : n < failures' /\ n <= failures'
    BY <1>1, <1>2, <2>2, <2>3
  <2>5. stored'[c].lag = Head(toParent[c]).lag
    BY <1>4 DEF TypeOK, ReceiveReply, StoreReply
  <2>6. stored'[c] # Default => stored'[c].lag <= failures'
    BY <1>2, <2>3, <2>5
  <2> QED  BY <1>3, <2>2, <2>4, <2>6 DEF Fresh
<1>5. CASE c # child
  <2>1. UNCHANGED <<toChild[c], toParent[c], handling[c], stored[c]>>
    BY <1>2, <1>5 DEF TypeOK, ReceiveReply, StoreReply, TakeFromPipe
  <2>2. InOrder(c)' = InOrder(c) /\ Waiting(c)' = Waiting(c)
    BY <2>1, SameOrder
  <2>3. stored'[c] # Default => stored'[c].lag <= failures'
    BY <1>2, <2>1 DEF Fresh
  <2> QED  BY <1>2, <1>3, <1>5, <2>2, <2>3 DEF Fresh
<1> QED  BY <1>4, <1>5

LEMMA FailureStaysFresh ==
  ASSUME TypeOK, \A i \in Child : Fresh(i), ReceiveFails, ReplyBytes <= ReadBytes,
         FewFailures, NEW c \in Child
  PROVE  Fresh(c)'
<1>1. failures \in Int /\ failures' = failures + 1 /\ child \in Child
  BY DEF TypeOK, Lag, ReceiveFails, Older, FewFailures
<1>2. UNCHANGED <<toChild, handling>> /\ pc' = "timer" /\ toParent[child] # <<>> /\ TakeFromPipe
  BY DEF ReceiveFails, childVars
<1>3. InOrder(c) /\ Waiting(c) \subseteq Int /\ \A n \in Waiting(c) : n <= failures
  <2>1. Waiting(c) \subseteq Lag
    BY WaitingLags
  <2> QED  BY <2>1 DEF Fresh, Lag
<1>4. InOrder(c)' /\ Waiting(c)' \subseteq Waiting(c)
  <2>1. CASE c = child
    <3>1. InOrder(child)
      BY <1>3, <2>1
    <3> QED  BY <1>2, <2>1, <3>1, ReadKeepsOrder
  <2>2. CASE c # child
    <3>1. UNCHANGED <<toChild[c], toParent[c], handling[c]>>
      BY <1>2, <2>2 DEF TypeOK, TakeFromPipe
    <3> QED  BY <1>3, <3>1, SameOrder
  <2> QED  BY <2>1, <2>2
<1>5. \A n \in Waiting(c)' : n < failures' /\ n <= failures'
  BY <1>1, <1>3, <1>4
<1>6. stored'[c] = Default /\ ~ Asking(c)'
  BY <1>2 DEF ReceiveFails, Asking
<1> QED  BY <1>4, <1>5, <1>6 DEF Fresh

LEMMA NextRoundStaysFresh ==
  ASSUME TypeOK, \A i \in Child : Fresh(i), NextRound, FewFailures, NEW c \in Child
  PROVE  Fresh(c)'
<1>1. failures \in Int /\ MaxLag \in Int /\ failures' = failures /\ failures < MaxLag
      /\ pc = "timer" /\ pc' = "send" /\ stored' = stored
  BY ProtocolAssumption DEF TypeOK, Lag, NextRound, FewFailures
<1>2. InOrder(c) /\ Waiting(c) \subseteq Nat /\ \A n \in Waiting(c) : n < failures
  <2>1. Waiting(c) \subseteq Lag
    BY WaitingLags
  <2> QED  BY <1>1, <2>1 DEF Fresh, Done, Lag
<1>3. \A n \in Waiting(c) : n < MaxLag
  BY <1>1, <1>2
<1>4. InOrder(c)' /\ \A n \in Waiting(c)' : \E old \in Waiting(c) : n = old + 1
  BY <1>2, <1>3, NextRoundKeepsOrder
<1>5. \A n \in Waiting(c)' : n >= 1 /\ n <= failures'
  BY <1>1, <1>2, <1>4
<1>6. ~ Done(c)'
  BY <1>1 DEF Done
<1>7. stored'[c] # Default => stored'[c].lag <= failures'
  BY <1>1 DEF Fresh
<1> QED  BY <1>4, <1>5, <1>6, <1>7 DEF Fresh

LEMMA ChildStaysFresh ==
  ASSUME TypeOK, \A i \in Child : Fresh(i), NEW b \in Child, ChildStep(b), NEW c \in Child
  PROVE  Fresh(c)'
<1>1. UNCHANGED <<pc, child, stored, failures>>
  BY DEF ChildStep, ChildReads, ChildReplies, Answer, ChildSwitches, parentVars
<1>2. Fresh(c) /\ (Asking(c)' = Asking(c)) /\ (Done(c)' = Done(c))
  BY <1>1 DEF Asking, Done
<1>3. InOrder(c)' /\ Waiting(c)' \subseteq Waiting(c)
  <2>1. CASE c = b
    BY <1>2, <2>1, ChildKeepsOrder DEF Fresh
  <2>2. CASE c # b
    <3>1. UNCHANGED <<toChild[c], toParent[c], handling[c]>>
      BY <2>2 DEF TypeOK, ChildStep, ChildReads, ChildReplies, Answer, WriteReply, ChildSwitches
    <3> QED  BY <1>2, <3>1, SameOrder DEF Fresh
  <2> QED  BY <2>1, <2>2
<1> QED  BY <1>1, <1>2, <1>3 DEF Fresh

LEMMA StaysAllFresh ==
  ASSUME TypeOK, TimerAtStart, AllFresh, [Next]_vars, ReplyBytes <= ReadBytes
  PROVE  AllFresh'
<1>1. SUFFICES ASSUME FewFailures', NEW c \in Child
               PROVE  Fresh(c)'
  BY DEF AllFresh, FewFailures
<1>2. failures \in Int /\ failures' \in Int /\ failures <= failures'
  <2>1. failures \in Int /\ MaxLag \in Int
    BY ProtocolAssumption DEF TypeOK, Lag
  <2>2. failures' = failures \/ failures' = Older(failures)
    BY DEF Next, ParentStep, SendPhaseMessage, ReceiveReply, StoreReply, ReceiveFails, NextRound,
           ChildStep, ChildReads, ChildReplies, Answer, ChildSwitches, vars, parentVars
  <2> QED  BY <2>1, <2>2 DEF Older
<1>3. FewFailures /\ \A i \in Child : Fresh(i)
  BY <1>1, <1>2, ProtocolAssumption DEF FewFailures, AllFresh
<1>4. CASE UNCHANGED vars
  <2>1. UNCHANGED <<toChild[c], toParent[c], handling[c]>> /\ UNCHANGED <<pc, child, stored, failures>>
    BY <1>4 DEF vars, parentVars, childVars
  <2>2. InOrder(c)' = InOrder(c) /\ Waiting(c)' = Waiting(c)
    BY <2>1, SameOrder
  <2> QED  BY <1>3, <2>1, <2>2 DEF Fresh, Asking, Done
<1> QED  BY <1>3, <1>4, SendStaysFresh, ReceiveStaysFresh, FailureStaysFresh, NextRoundStaysFresh,
            ChildStaysFresh DEF Next, ParentStep

(* See StalenessBounded: whenever a read takes at least a whole reply, what*)
(* the parent looks at is at most as many phases old as there were failed  *)
(* readings, whatever the sizes of the buffers and however often a density *)
(* is no number.                                                           *)
THEOREM StaysFresh == ReplyBytes <= ReadBytes => (Spec => []StalenessBounded)
<1> SUFFICES ASSUME ReplyBytes <= ReadBytes
             PROVE  Spec => []StalenessBounded
  OBVIOUS
<1>1. ASSUME Init PROVE TimerAtStart /\ AllFresh
  <2>1. ASSUME NEW i \in Child
        PROVE  Fresh(i)
    <3>1. toChild[i] = <<>> /\ toParent[i] = <<>> /\ ~ Busy(i) /\ stored[i] = Default
          /\ DOMAIN <<>> = {}
      BY <1>1 DEF Init, Busy, Idle
    <3> QED  BY <3>1 DEF Fresh, InOrder, Waiting, Falling, Beneath
  <2> QED  BY <1>1, <2>1 DEF Init, TimerAtStart, AllFresh
<1>2. ASSUME TimerAtStart, [Next]_vars
      PROVE  TimerAtStart'
  BY <1>2, TimerStaysAtStart
<1>3. ASSUME TypeOK, TimerAtStart, AllFresh, [Next]_vars
      PROVE  AllFresh'
  BY <1>3, StaysAllFresh
<1>4. ASSUME TypeOK, AllFresh
      PROVE  StalenessBounded
  <2>1. SUFFICES ASSUME NEW i \in Child
                 PROVE  /\ \A k \in DOMAIN toParent[i] : toParent[i][k].lag <= failures
                        /\ stored[i] # Default => stored[i].lag <= failures
    BY DEF StalenessBounded
  <2>2. CASE failures < MaxLag
    BY <1>4, <2>2 DEF AllFresh, Fresh, Waiting
  <2>3. CASE ~ (failures < MaxLag)
    <3>1. \A n \in Lag : n <= failures
      BY <1>4, <2>3, ProtocolAssumption DEF TypeOK, Lag
    <3>2. \A k \in DOMAIN toParent[i] : toParent[i][k].lag \in Lag
      <4>1. toParent[i] \in Seq(Reply)
        BY <1>4 DEF TypeOK
      <4>2. \A k \in DOMAIN toParent[i] : toParent[i][k] \in Reply
        BY <4>1
      <4> QED  BY <4>2 DEF Reply
    <3>3. stored[i] # Default => stored[i].lag \in Lag
      BY <1>4 DEF TypeOK
    <3> QED  BY <3>1, <3>2, <3>3
  <2> QED  BY <2>2, <2>3
<1> QED  BY <1>1, <1>2, <1>3, <1>4, TypeCorrect, PTL DEF Spec
=============================================================================
