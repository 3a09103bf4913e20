--------------------------- MODULE MailPumpProofs ---------------------------
(***************************************************************************)
(* Proofs about the pump, for any number of messages, capacities, faults   *)
(* and crashes.  The steps of the receiver are those of module Receiver,   *)
(* so the lemmas of ReceiverProofs and DeliveryProofs are used for them;   *)
(* what is new are the steps of tick and of the ingest client, and the     *)
(* crash.                                                                  *)
(***************************************************************************)
EXTENDS MailPump, DeliveryProofs

(* A message or a response is not None, and its parts have their types.    *)
LEMMA Pairs ==
  ASSUME NEW m \in UID \X BOOLEAN
  PROVE  m # None /\ m[1] \in UID /\ m[2] \in BOOLEAN
<1>1. m[1] \in UID /\ m[2] \in BOOLEAN
  OBVIOUS
<1>2. 1 \in DOMAIN m
  OBVIOUS
<1>3. DOMAIN None = {}
  BY DEF None
<1> QED
  BY <1>1, <1>2, <1>3

(* A step of the pump is a step of the receiver, a step of tick, the       *)
(* ingest client or cmd/run that leaves the receiver alone, or one of the  *)
(* four steps that touch both.                                             *)
Alone == Run \/ Worker \/ Server \/ Close \/ HasQuit \/ CloseReturn \/ UNCHANGED vars
Apart == IngestMessage \/ TickResponse \/ TickStop \/ IngestReply \/ IngestExit
           \/ Interrupt1 \/ CloseIngest
Joint == TickIncoming \/ TickAck \/ IngestAppend \/ Crash

LEMMA StepKinds ==
  ASSUME [PumpNext]_allVars
  PROVE  \/ Alone /\ UNCHANGED pumpVars
         \/ Apart
         \/ Joint
<1>1. CASE Receiving
  BY <1>1 DEF Receiving, Alone
<1>2. CASE TickLoop
  BY <1>2 DEF TickLoop, Apart, Joint
<1>3. CASE Ingest
  BY <1>3 DEF Ingest, Apart, Joint
<1>4. CASE Main
  BY <1>4 DEF Main, Apart, CloseReceiver, Alone
<1>5. CASE Crash
  BY <1>5 DEF Joint
<1>6. CASE Stopped \/ UNCHANGED allVars
  BY <1>6 DEF Stopped, allVars, Alone
<1> QED
  BY <1>1, <1>2, <1>3, <1>4, <1>5, <1>6 DEF PumpNext

(* In the first two cases the step is one the receiver may take anyway,    *)
(* without its user.                                                       *)
LEMMA ReceiverSteps ==
  /\ Alone => [Next]_vars /\ UNCHANGED <<held, ackedOk>>
  /\ Apart => UNCHANGED vars
<1>1. Alone => [Next]_vars
  BY DEF Alone, Next, User
<1>2. Run => UNCHANGED <<held, ackedOk>>
  BY DEF Run, RecvQuit, RecvUpdate, RecvAck, Timeout, RecvOp, RecvFetchResult, Deliver,
     DeliverDone, RecvDeleteResult, Signal, envVars
<1>3. Worker => UNCHANGED <<held, ackedOk>>
  BY DEF Worker, IdleReturns, ReadMailbox, Fetch, UidStore, Expunge, WorkerFinish, Abandon,
     envVars
<1>4. Server \/ Close \/ HasQuit \/ CloseReturn \/ UNCHANGED vars => UNCHANGED <<held, ackedOk>>
  BY DEF Server, Arrive, Announce, OtherUpdate, Close, HasQuit, CloseReturn, vars, envVars
<1>5. Apart => UNCHANGED vars
  BY DEF Apart, IngestMessage, TickResponse, TickStop, IngestReply, IngestExit, Interrupt1,
     CloseIngest
<1> QED
  BY <1>1, <1>2, <1>3, <1>4, <1>5 DEF Alone

-----------------------------------------------------------------------------
(***************************************************************************)
(* Types.                                                                  *)
(***************************************************************************)
PumpTypes == TypeOK /\ PumpTypeOK

TickLoopType ==
  /\ tickPc \in {"select", "ingest", "ack", "done"}
  /\ tickMsg \in {None} \cup (UID \X BOOLEAN)
  /\ tickMsg # None <=> tickPc \in {"ingest", "ack"}
IngestType ==
  /\ ingestPc \in {"select", "append", "reply", "closed"}
  /\ ingestReq \in {None} \cup (UID \X BOOLEAN)
  /\ ingestReq # None <=> ingestPc \in {"append", "reply"}
PipeType == ingestChannel \in Seq(UID \X BOOLEAN) /\ Len(ingestChannel) <= IngestCap
FlagType == ingestQuit \in BOOLEAN /\ stopChan \in BOOLEAN
DestType == dest \in [UID -> Nat] /\ crashes \in 0..MaxCrashes

(* The steps that touch both sides keep the types of the receiver.         *)
LEMMA JointTypeOK == ASSUME PumpTypes, Joint PROVE TypeOK'
<1> USE DEF PumpTypes
<1>all. LoopType' /\ JobType' /\ ChanType' /\ SrvType' /\ EnvType' => TypeOK'
  BY DEF TypeOK
<1>1. CASE TickIncoming
  <2>1. out' \in Seq(UID) /\ Len(out') <= OutCap
    BY <1>1, ReceiverAssumption DEF ReceiverAssumption, TickIncoming, TypeOK, ChanType
  <2>2. ChanType'
    BY <1>1, <2>1 DEF TickIncoming, TypeOK, ChanType
  <2> QED
    BY <1>1, <1>all, <2>2, TypeFrames DEF TickIncoming
<1>2. CASE TickAck
  <2>1. tickMsg \in UID \X BOOLEAN
    BY <1>2 DEF TickAck, PumpTypeOK
  <2> DEFINE a == <<tickMsg[1], NoError(tickMsg)>>
  <2>2. a \in UID \X BOOLEAN
    BY <2>1 DEF NoError
  <2>3. ackChannel' = Append(ackChannel, a) /\ Len(ackChannel) < FetchBufferSize
    BY <1>2 DEF TickAck
  <2> HIDE DEF a
  <2>4. ackChannel' \in Seq(UID \X BOOLEAN) /\ Len(ackChannel') <= FetchBufferSize
    BY <2>2, <2>3, ReceiverAssumption DEF ReceiverAssumption, TypeOK, ChanType
  <2>5. ChanType'
    BY <1>2, <2>4 DEF TickAck, TypeOK, ChanType
  <2>6. EnvType'
    BY <1>2, <2>1 DEF TickAck, TypeOK, EnvType
  <2> QED
    BY <1>2, <1>all, <2>5, <2>6, TypeFrames DEF TickAck
<1>3. CASE IngestAppend
  <2>1. faults' \in 0..MaxFaults
    BY <1>3, ReceiverAssumption DEF ReceiverAssumption, IngestAppend, TypeOK, SrvType
  <2>2. SrvType'
    BY <1>3, <2>1 DEF IngestAppend, TypeOK, SrvType
  <2> QED
    BY <1>3, <1>all, <2>2, TypeFrames DEF IngestAppend, rcvVars
<1>4. CASE Crash
  <2>1. LoopType'
    BY <1>4 DEF Crash, LoopType
  <2>2. JobType'
    BY <1>4 DEF Crash, JobType, WorkerPcs
  <2>3. ChanType'
    <3>1. \A S : <<>> \in Seq(S) /\ Len(<<>>) = 0
      OBVIOUS
    <3>2. updates' \in Seq({"mailbox", "other"}) /\ Len(updates') <= UpdCap
      BY <1>4, <3>1, ReceiverAssumption DEF ReceiverAssumption, Crash
    <3>3. out' \in Seq(UID) /\ Len(out') <= OutCap
      BY <1>4, <3>1, ReceiverAssumption DEF ReceiverAssumption, Crash
    <3>4. ackChannel' \in Seq(UID \X BOOLEAN) /\ Len(ackChannel') <= FetchBufferSize
      BY <1>4, <3>1, ReceiverAssumption DEF ReceiverAssumption, Crash
    <3> QED
      BY <1>4, <3>2, <3>3, <3>4 DEF Crash, ChanType
  <2>4. SrvType'
    BY <1>4 DEF Crash, TypeOK, SrvType
  <2>5. EnvType'
    BY <1>4 DEF Crash, TypeOK, EnvType
  <2> QED
    BY <1>all, <2>1, <2>2, <2>3, <2>4, <2>5
<1> QED
  BY <1>1, <1>2, <1>3, <1>4 DEF Joint

(* Every step of the pump preserves the types.                             *)
LEMMA PumpTypesStep == ASSUME PumpTypes, [PumpNext]_allVars PROVE PumpTypes'
<1>1. TypeOK'
  <2>1. CASE Alone \/ Apart
    BY <2>1, ReceiverSteps, TypeOKStep DEF PumpTypes
  <2>2. CASE Joint
    BY <2>2, JointTypeOK
  <2> QED
    BY <2>1, <2>2, StepKinds
<1>all. TickLoopType' /\ IngestType' /\ PipeType' /\ FlagType' /\ DestType' => PumpTypeOK'
  BY DEF PumpTypeOK, TickLoopType, IngestType, PipeType, FlagType, DestType
<1>old. TickLoopType /\ IngestType /\ PipeType /\ FlagType /\ DestType
  BY DEF PumpTypes, PumpTypeOK, TickLoopType, IngestType, PipeType, FlagType, DestType
<1>tick. UNCHANGED <<tickPc, tickMsg>> => TickLoopType'
  BY <1>old DEF TickLoopType
<1>ing. UNCHANGED <<ingestPc, ingestReq>> => IngestType'
  BY <1>old DEF IngestType
<1>pipe. UNCHANGED ingestChannel => PipeType'
  BY <1>old DEF PipeType
<1>flag. UNCHANGED <<ingestQuit, stopChan>> => FlagType'
  BY <1>old DEF FlagType
<1>dest. UNCHANGED <<dest, crashes>> => DestType'
  BY <1>old DEF DestType
<1>2. PumpTypeOK'
  <2>1. CASE UNCHANGED pumpVars
    BY <2>1, <1>all, <1>tick, <1>ing, <1>pipe, <1>flag, <1>dest DEF pumpVars, procVars
  <2>2. CASE IngestMessage
    <3>1. tickMsg \in UID \X BOOLEAN
      BY <2>2, <1>old DEF IngestMessage, TickLoopType
    <3>2. TickLoopType'
      BY <2>2 DEF IngestMessage, TickLoopType
    <3>3. IngestType'
      BY <2>2, <3>1, Pairs DEF IngestMessage, IngestType
    <3> QED
      BY <2>2, <3>2, <3>3, <1>all, <1>pipe, <1>flag, <1>dest DEF IngestMessage
  <2>3. CASE TickResponse
    <3>1. Head(ingestChannel) \in UID \X BOOLEAN
      BY <2>3, <1>old DEF TickResponse, PipeType
    <3>2. TickLoopType'
      BY <2>3, <3>1, Pairs DEF TickResponse, TickLoopType
    <3>3. PipeType'
      BY <2>3, <1>old, PumpAssumption DEF PumpAssumption, TickResponse, PipeType
    <3> QED
      BY <2>3, <3>2, <3>3, <1>all, <1>ing, <1>flag, <1>dest DEF TickResponse
  <2>4. CASE TickStop
    <3>1. TickLoopType'
      BY <2>4, <1>old DEF TickStop, TickLoopType
    <3> QED
      BY <2>4, <3>1, <1>all, <1>ing, <1>pipe, <1>flag, <1>dest DEF TickStop
  <2>5. CASE IngestReply
    <3>1. ingestReq \in UID \X BOOLEAN
      BY <2>5, <1>old DEF IngestReply, IngestType
    <3>2. PipeType'
      BY <2>5, <3>1, <1>old, PumpAssumption DEF PumpAssumption, IngestReply, Room, PipeType
    <3>3. IngestType'
      BY <2>5 DEF IngestReply, IngestType
    <3> QED
      BY <2>5, <3>2, <3>3, <1>all, <1>tick, <1>flag, <1>dest DEF IngestReply
  <2>6. CASE IngestExit
    <3>1. IngestType'
      BY <2>6, <1>old DEF IngestExit, IngestType
    <3> QED
      BY <2>6, <3>1, <1>all, <1>tick, <1>pipe, <1>flag, <1>dest DEF IngestExit
  <2>7. CASE Interrupt1
    <3>1. FlagType'
      BY <2>7, <1>old DEF Interrupt1, FlagType
    <3> QED
      BY <2>7, <3>1, <1>all, <1>tick, <1>ing, <1>pipe, <1>dest DEF Interrupt1
  <2>8. CASE CloseIngest
    <3>1. FlagType'
      BY <2>8, <1>old DEF CloseIngest, FlagType
    <3> QED
      BY <2>8, <3>1, <1>all, <1>tick, <1>ing, <1>pipe, <1>dest DEF CloseIngest
  <2>9. CASE TickIncoming
    <3>1. Head(out) \in UID
      BY <2>9 DEF TickIncoming, PumpTypes, TypeOK, ChanType
    <3>2. <<Head(out), TRUE>> \in UID \X BOOLEAN
      BY <3>1
    <3>3. TickLoopType'
      BY <2>9, <3>2, Pairs DEF TickIncoming, TickLoopType
    <3> QED
      BY <2>9, <3>3, <1>all, <1>ing, <1>pipe, <1>flag, <1>dest DEF TickIncoming
  <2>10. CASE TickAck
    <3>1. TickLoopType'
      BY <2>10 DEF TickAck, TickLoopType
    <3> QED
      BY <2>10, <3>1, <1>all, <1>ing, <1>pipe, <1>flag, <1>dest DEF TickAck
  <2>11. CASE IngestAppend
    <3>1. ingestReq \in UID \X BOOLEAN
      BY <2>11, <1>old DEF IngestAppend, IngestType
    <3>2. ingestReq[1] \in UID
      BY <3>1
    <3>3. PICK ok \in BOOLEAN : ingestReq' = <<ingestReq[1], ok>>
      BY <2>11 DEF IngestAppend
    <3>4. ingestReq' \in UID \X BOOLEAN
      BY <3>2, <3>3
    <3>5. IngestType'
      BY <2>11, <3>4, Pairs DEF IngestAppend, IngestType
    <3>6. DestType'
      BY <2>11, <3>2, <1>old DEF IngestAppend, DestType
    <3> QED
      BY <2>11, <3>5, <3>6, <1>all, <1>tick, <1>pipe, <1>flag DEF IngestAppend
  <2>12. CASE Crash
    <3>1. TickLoopType' /\ IngestType' /\ FlagType'
      BY <2>12 DEF Crash, TickLoopType, IngestType, FlagType
    <3>2. PipeType'
      <4>1. <<>> \in Seq(UID \X BOOLEAN) /\ Len(<<>>) = 0
        OBVIOUS
      <4> QED
        BY <2>12, <4>1, PumpAssumption DEF PumpAssumption, Crash, PipeType
    <3>3. DestType'
      BY <2>12, <1>old, PumpAssumption DEF PumpAssumption, Crash, DestType
    <3> QED
      BY <3>1, <3>2, <3>3, <1>all
  <2> QED
    BY <2>1, <2>2, <2>3, <2>4, <2>5, <2>6, <2>7, <2>8, <2>9, <2>10, <2>11, <2>12,
       StepKinds DEF Apart, Joint
<1> QED
  BY <1>1, <1>2 DEF PumpTypes

(* The pump starts with the types.                                         *)
LEMMA PumpTypesInit == PumpInit => PumpTypes
<1> SUFFICES ASSUME PumpInit PROVE PumpTypes
  OBVIOUS
<1>1. TypeOK
  BY InitTypeOK DEF PumpInit
<1>2. ingestChannel \in Seq(UID \X BOOLEAN) /\ Len(ingestChannel) <= IngestCap
  <2>1. <<>> \in Seq(UID \X BOOLEAN) /\ Len(<<>>) = 0
    OBVIOUS
  <2> QED
    BY <2>1, PumpAssumption DEF PumpAssumption, PumpInit, ProcInit
<1>3. TickLoopType /\ IngestType
  BY DEF PumpInit, ProcInit, TickLoopType, IngestType
<1>4. FlagType
  BY DEF PumpInit, ProcInit, FlagType
<1>5. DestType
  BY PumpAssumption DEF PumpAssumption, PumpInit, DestType
<1>6. PumpTypeOK
  BY <1>2, <1>3, <1>4, <1>5 DEF PumpTypeOK, TickLoopType, IngestType, FlagType, DestType
<1> QED
  BY <1>1, <1>6 DEF PumpTypes

(* The types hold always.                                                  *)
LEMMA PumpTypesAlways == PumpSpec => []PumpTypes
  BY PumpTypesInit, PumpTypesStep, PTL DEF PumpSpec

(* Type correctness of the pump: ingestChannel never holds more than its   *)
(* capacity, and tick and the ingest client hold a message exactly while   *)
(* they handle one.                                                        *)
THEOREM PumpTypeCorrect == PumpSpec => []PumpTypeOK
<1>1. PumpTypes => PumpTypeOK
  BY DEF PumpTypes
<1> QED
  BY <1>1, PumpTypesAlways, PTL
-----------------------------------------------------------------------------
(***************************************************************************)
(* Copy before remove.  NoMailLost is not inductive: what makes a message  *)
(* removable is an acknowledgement, so every acknowledgement without an    *)
(* error, and every response without an error on its way to becoming one   *)
(* (with the ingest client, in ingestChannel, with tick), must stand for a *)
(* copy at the destination.                                                *)
(***************************************************************************)
CopyInv ==
  /\ \A u \in ackedOk : dest[u] > 0
  /\ \A i \in 1..Len(ingestChannel) :
       ingestChannel[i][2] => dest[ingestChannel[i][1]] > 0
  /\ tickPc = "ack" /\ tickMsg[2] => dest[tickMsg[1]] > 0
  /\ ingestPc = "reply" /\ ingestReq[2] => dest[ingestReq[1]] > 0

(* The last element of a longer channel is the new one.                    *)
LEMMA AppendIndex ==
  ASSUME NEW S, NEW s \in Seq(S), NEW e \in S, NEW i \in 1..Len(Append(s, e))
  PROVE  Append(s, e)[i] = e \/ (i \in 1..Len(s) /\ Append(s, e)[i] = s[i])
  OBVIOUS

(* The elements of a tail are elements of the channel.                     *)
LEMMA TailIndex ==
  ASSUME NEW S, NEW s \in Seq(S), s # <<>>, NEW i \in 1..Len(Tail(s))
  PROVE  i + 1 \in 1..Len(s) /\ Tail(s)[i] = s[i + 1]
  OBVIOUS

(* The steps that touch both sides preserve the receiver's no-loss         *)
(* invariant: tick acknowledges what the response says.                    *)
LEMMA AckInvJoint == ASSUME PumpTypes, AckInv, Joint PROVE AckInv'
<1>same. ASSUME UNCHANGED <<mailbox, arrived, flagged, ackChannel, messages, stored, ackedOk>>
         PROVE  AckInv'
  BY <1>same DEF AckInv, RemovedOnlyAcked
<1>1. CASE TickIncoming
  BY <1>1, <1>same DEF TickIncoming, loopVars, jobVars, srvVars, envVars
<1>2. CASE TickAck
  <2>1. tickMsg \in UID \X BOOLEAN
    BY <1>2 DEF TickAck, PumpTypes, PumpTypeOK
  <2> DEFINE a == <<tickMsg[1], NoError(tickMsg)>>
  <2>2. a \in UID \X BOOLEAN /\ a[1] = tickMsg[1] /\ a[2] = tickMsg[2]
    BY <2>1 DEF NoError
  <2>3. ackChannel' = Append(ackChannel, a)
    BY <1>2 DEF TickAck
  <2>4. ackedOk \subseteq ackedOk' /\ (tickMsg[2] => tickMsg[1] \in ackedOk')
    BY <1>2 DEF TickAck, NoError
  <2> HIDE DEF a
  <2>5. UNCHANGED <<mailbox, arrived, flagged, messages, stored>>
    BY <1>2 DEF TickAck, loopVars, jobVars, srvVars
  <2>6. ackChannel \in Seq(UID \X BOOLEAN)
    BY DEF PumpTypes, TypeOK, ChanType
  <2>7. ASSUME NEW i \in 1..Len(ackChannel'), ackChannel'[i][2]
        PROVE  ackChannel'[i][1] \in ackedOk'
    <3>1. ackChannel'[i] = a \/ (i \in 1..Len(ackChannel) /\ ackChannel'[i] = ackChannel[i])
      BY <2>2, <2>3, <2>6, AppendIndex
    <3> QED
      BY <2>2, <2>4, <2>7, <3>1 DEF AckInv
  <2> QED
    BY <2>4, <2>5, <2>7 DEF AckInv, RemovedOnlyAcked
<1>3. CASE IngestAppend
  BY <1>3, <1>same DEF IngestAppend, rcvVars, loopVars, jobVars, chanVars, envVars
<1>4. CASE Crash
  <2>1. /\ messages' = [u \in UID |-> Absent] /\ stored' = {} /\ ackChannel' = <<>>
        /\ UNCHANGED <<mailbox, arrived, flagged, ackedOk>>
    BY <1>4 DEF Crash
  <2> QED
    BY <2>1 DEF AckInv, RemovedOnlyAcked, Absent, StateAcked
<1> QED
  BY <1>1, <1>2, <1>3, <1>4 DEF Joint

(* Copies are never taken back, by any step.                               *)
LEMMA CopiesStay ==
  ASSUME PumpTypes, [PumpNext]_allVars
  PROVE  \A u \in UID : dest[u] > 0 => dest'[u] > 0
<1>1. CASE IngestAppend
  <2>1. dest \in [UID -> Nat] /\ ingestReq[1] \in UID
    BY <1>1, Pairs DEF IngestAppend, PumpTypes, PumpTypeOK
  <2>2. dest' = dest \/ dest' = [dest EXCEPT ![ingestReq[1]] = @ + 1]
    BY <1>1 DEF IngestAppend
  <2> QED
    BY <2>1, <2>2
<1>2. CASE UNCHANGED dest
  BY <1>2
<1>3. IngestAppend \/ UNCHANGED dest
  BY StepKinds DEF Apart, Joint, pumpVars, IngestMessage, TickResponse, TickStop, IngestReply,
     IngestExit, Interrupt1, CloseIngest, TickIncoming, TickAck, Crash
<1> QED
  BY <1>1, <1>2, <1>3

(* Every step of the pump preserves the copy invariant.                    *)
LEMMA CopyInvStep ==
  ASSUME PumpTypes, CopyInv, [PumpNext]_allVars
  PROVE  CopyInv'
<1>types. /\ ackedOk \subseteq UID /\ ingestChannel \in Seq(UID \X BOOLEAN)
          /\ tickPc = "ack" => tickMsg \in UID \X BOOLEAN
          /\ ingestPc \in {"append", "reply"} => ingestReq \in UID \X BOOLEAN
  BY DEF PumpTypes, TypeOK, EnvType, PumpTypeOK
<1>acked. ASSUME UNCHANGED ackedOk PROVE \A u \in ackedOk' : dest'[u] > 0
  BY <1>acked, <1>types, CopiesStay DEF CopyInv
<1>chan. ASSUME UNCHANGED ingestChannel
         PROVE  \A i \in 1..Len(ingestChannel') :
                  ingestChannel'[i][2] => dest'[ingestChannel'[i][1]] > 0
  <2>1. \A i \in 1..Len(ingestChannel) : ingestChannel[i][1] \in UID
    BY <1>types
  <2> QED
    BY <1>chan, <2>1, CopiesStay DEF CopyInv
<1>tick. ASSUME UNCHANGED <<tickPc, tickMsg>>
         PROVE  (tickPc = "ack" /\ tickMsg[2] => dest[tickMsg[1]] > 0)'
  <2>1. tickPc = "ack" => tickMsg[1] \in UID
    BY <1>types
  <2> QED
    BY <1>tick, <2>1, CopiesStay DEF CopyInv
<1>req. ASSUME UNCHANGED <<ingestPc, ingestReq>>
        PROVE  (ingestPc = "reply" /\ ingestReq[2] => dest[ingestReq[1]] > 0)'
  <2>1. ingestPc = "reply" => ingestReq[1] \in UID
    BY <1>types
  <2> QED
    BY <1>req, <2>1, CopiesStay DEF CopyInv
<1>1. CASE Alone /\ UNCHANGED pumpVars
  BY <1>1, <1>acked, <1>chan, <1>tick, <1>req, ReceiverSteps DEF CopyInv, pumpVars, procVars
<1>2. CASE IngestMessage
  BY <1>2, <1>acked, <1>chan DEF IngestMessage, CopyInv, vars, envVars
<1>3. CASE TickResponse
  <2>1. Head(ingestChannel) = ingestChannel[1] /\ 1 \in 1..Len(ingestChannel)
    BY <1>3, <1>types DEF TickResponse
  <2>2. ingestChannel' = Tail(ingestChannel) /\ tickMsg' = ingestChannel[1] /\ UNCHANGED dest
    BY <1>3, <2>1 DEF TickResponse
  <2>3. tickMsg'[2] => dest'[tickMsg'[1]] > 0
    BY <2>1, <2>2 DEF CopyInv
  <2>4. \A i \in 1..Len(ingestChannel') :
          ingestChannel'[i][2] => dest'[ingestChannel'[i][1]] > 0
    <3>1. \A i \in 1..Len(Tail(ingestChannel)) :
            i + 1 \in 1..Len(ingestChannel) /\ Tail(ingestChannel)[i] = ingestChannel[i + 1]
      BY <2>1, <1>types
    <3> QED
      BY <2>2, <3>1 DEF CopyInv
  <2>5. UNCHANGED <<ackedOk, ingestPc, ingestReq>>
    BY <1>3 DEF TickResponse, vars, envVars
  <2> QED
    BY <2>3, <2>4, <2>5, <1>acked, <1>req DEF CopyInv
<1>4. CASE TickStop
  BY <1>4, <1>acked, <1>chan, <1>req DEF TickStop, CopyInv, vars, envVars
<1>5. CASE IngestReply
  <2>1. ingestReq \in UID \X BOOLEAN
    BY <1>5, <1>types DEF IngestReply
  <2>2. ingestChannel' = Append(ingestChannel, ingestReq) /\ ingestPc = "reply" /\ UNCHANGED dest
    BY <1>5 DEF IngestReply
  <2>3. ASSUME NEW i \in 1..Len(ingestChannel'), ingestChannel'[i][2]
        PROVE  dest'[ingestChannel'[i][1]] > 0
    <3>1. \/ ingestChannel'[i] = ingestReq
          \/ i \in 1..Len(ingestChannel) /\ ingestChannel'[i] = ingestChannel[i]
      BY <2>1, <2>2, <1>types, AppendIndex
    <3> QED
      BY <2>2, <2>3, <3>1 DEF CopyInv
  <2>4. UNCHANGED <<ackedOk, tickPc, tickMsg>> /\ ingestPc' = "select"
    BY <1>5 DEF IngestReply, vars, envVars
  <2> QED
    BY <2>3, <2>4, <1>acked, <1>tick DEF CopyInv
<1>6. CASE IngestExit
  BY <1>6, <1>acked, <1>chan, <1>tick DEF IngestExit, CopyInv, vars, envVars
<1>7. CASE Interrupt1 \/ CloseIngest
  BY <1>7, <1>acked, <1>chan, <1>tick, <1>req DEF Interrupt1, CloseIngest, CopyInv, vars, envVars
<1>8. CASE TickIncoming
  BY <1>8, <1>acked, <1>chan, <1>req DEF TickIncoming, CopyInv, envVars
<1>9. CASE TickAck
  <2>1. /\ ackedOk' = ackedOk \/ (tickMsg[2] /\ ackedOk' = ackedOk \cup {tickMsg[1]})
        /\ tickPc = "ack" /\ tickPc' = "select"
        /\ UNCHANGED <<ingestPc, ingestReq, ingestChannel, dest>>
    BY <1>9 DEF TickAck, NoError
  <2>2. \A u \in ackedOk' : dest'[u] > 0
    BY <2>1 DEF CopyInv
  <2> QED
    BY <2>1, <2>2, <1>chan, <1>req DEF CopyInv
<1>10. CASE IngestAppend
  <2>1. PICK stores \in BOOLEAN, ok \in BOOLEAN :
          /\ ok => stores
          /\ dest' = IF stores THEN [dest EXCEPT ![ingestReq[1]] = @ + 1] ELSE dest
          /\ ingestReq' = <<ingestReq[1], ok>>
    BY <1>10 DEF IngestAppend, AppendAnswer
  <2>2. ingestReq[1] \in UID /\ dest \in [UID -> Nat]
    BY <1>10, <1>types, Pairs DEF IngestAppend, PumpTypes, PumpTypeOK
  <2>3. ingestReq'[2] => dest'[ingestReq'[1]] > 0
    BY <2>1, <2>2
  <2>4. UNCHANGED <<ackedOk, tickPc, tickMsg, ingestChannel>>
    BY <1>10 DEF IngestAppend, envVars
  <2> QED
    BY <2>3, <2>4, <1>acked, <1>tick, <1>chan DEF CopyInv
<1>11. CASE Crash
  <2>1. /\ UNCHANGED <<ackedOk, dest>>
        /\ tickPc' = "select" /\ ingestPc' = "select" /\ ingestChannel' = <<>>
    BY <1>11 DEF Crash
  <2> QED
    BY <2>1 DEF CopyInv
<1> QED
  BY <1>1, <1>2, <1>3, <1>4, <1>5, <1>6, <1>7, <1>8, <1>9, <1>10, <1>11, StepKinds
     DEF Apart, Joint

(* The receiver's no-loss invariant and the copy invariant hold always.    *)
LEMMA CopyInvAlways == PumpSpec => [](AckInv /\ CopyInv)
<1>1. PumpInit => AckInv /\ CopyInv
  <2> SUFFICES ASSUME PumpInit PROVE AckInv /\ CopyInv
    OBVIOUS
  <2>1. AckInv
    BY InitAckInv DEF PumpInit
  <2>2. CopyInv
    BY DEF PumpInit, ProcInit, Init, EnvInit, CopyInv
  <2> QED
    BY <2>1, <2>2
<1>2. PumpTypes /\ AckInv /\ CopyInv /\ [PumpNext]_allVars => AckInv' /\ CopyInv'
  <2> SUFFICES ASSUME PumpTypes, AckInv, CopyInv, [PumpNext]_allVars
               PROVE  AckInv' /\ CopyInv'
    OBVIOUS
  <2>1. AckInv'
    <3>1. CASE Alone \/ Apart
      BY <3>1, ReceiverSteps, AckInvStep DEF PumpTypes
    <3>2. CASE Joint
      BY <3>2, AckInvJoint
    <3> QED
      BY <3>1, <3>2, StepKinds
  <2> QED
    BY <2>1, CopyInvStep
<1> QED
  BY <1>1, <1>2, PumpTypesAlways, PTL DEF PumpSpec

(* Copy before remove, whatever fails and wherever the process dies: a     *)
(* message marked or removed at the source is at the destination.          *)
THEOREM NothingLost == PumpSpec => []NoMailLost
<1>1. AckInv /\ CopyInv => NoMailLost
  BY DEF AckInv, RemovedOnlyAcked, CopyInv, NoMailLost
<1> QED
  BY <1>1, CopyInvAlways, PTL
-----------------------------------------------------------------------------
(***************************************************************************)
(* The pump implements MoveMail.  A copy is allowed of a message that is   *)
(* in the source or has been copied before; by NoMailLost one of the two   *)
(* holds of every message that ever arrived.  So it is enough that what is *)
(* on its way to the destination has arrived.                              *)
(***************************************************************************)
SeenInv ==
  /\ \A m \in fetched : m[1] <= arrived
  /\ \A i \in 1..Len(out) : out[i] <= arrived
  /\ tickPc = "ingest" => tickMsg[1] <= arrived
  /\ ingestPc = "append" => ingestReq[1] <= arrived

(* A step of the receiver delivers only what has arrived.                  *)
LEMMA SeenAlone ==
  ASSUME PumpTypes, SeenInv, Alone, UNCHANGED pumpVars
  PROVE  SeenInv'
<1>types. /\ arrived \in Nat /\ out \in Seq(UID) /\ mailbox \subseteq 1..arrived
          /\ UID \subseteq Nat /\ fetched \subseteq UID \X Nat
          /\ tickPc = "ingest" => tickMsg[1] \in UID
          /\ ingestPc = "append" => ingestReq[1] \in UID
  <2>1. arrived \in Nat /\ mailbox \subseteq 1..arrived /\ UID \subseteq Nat
    BY ReceiverAssumption DEF ReceiverAssumption, PumpTypes, TypeOK, SrvType, UID
  <2>2. out \in Seq(UID) /\ fetched \subseteq UID \X Nat
    BY DEF PumpTypes, TypeOK, ChanType, JobType
  <2>3. /\ tickPc = "ingest" => tickMsg[1] \in UID
        /\ ingestPc = "append" => ingestReq[1] \in UID
    BY Pairs DEF PumpTypes, PumpTypeOK
  <2> QED
    BY <2>1, <2>2, <2>3
<1>same. ASSUME fetched' \subseteq fetched, UNCHANGED <<out, arrived>> PROVE SeenInv'
  BY <1>same DEF SeenInv, pumpVars, procVars
<1>1. CASE RecvQuit \/ RecvUpdate \/ RecvAck \/ Timeout \/ RecvOp
  BY <1>1, <1>same DEF RecvQuit, RecvUpdate, RecvAck, Timeout, RecvOp, chanVars, srvVars
<1>2. CASE RecvFetchResult
  BY <1>2, <1>same DEF RecvFetchResult, NewIn, chanVars, srvVars
<1>3. ASSUME NEW m \in fetched, Deliver(m) PROVE SeenInv'
  <2>1. m[1] \in UID
    BY <1>types
  <2>2. /\ out' = Append(out, m[1]) /\ fetched' = fetched \ {m}
        /\ UNCHANGED arrived
    BY <1>3 DEF Deliver, srvVars
  <2>3. ASSUME NEW i \in 1..Len(out') PROVE out'[i] <= arrived
    <3>1. out'[i] = m[1] \/ (i \in 1..Len(out) /\ out'[i] = out[i])
      BY <2>1, <2>2, <1>types, AppendIndex
    <3> QED
      BY <3>1 DEF SeenInv
  <2> QED
    BY <2>2, <2>3 DEF SeenInv, pumpVars, procVars
<1>4. CASE DeliverDone \/ Signal
  BY <1>4, <1>same DEF DeliverDone, Signal, jobVars, chanVars, srvVars
<1>5. ASSUME NEW r \in stored, RecvDeleteResult(r) PROVE SeenInv'
  BY <1>5, <1>same DEF RecvDeleteResult, chanVars, srvVars
<1>6. CASE Fetch
  <2>1. /\ UNCHANGED <<out, arrived>>
        /\ \/ fetched' = {<<u, SeqNumOf(u)>> : u \in {v \in mailbox : SeqNumOf(v) \in seqset}}
           \/ UNCHANGED fetched
    BY <1>6 DEF Fetch, chanVars
  <2>2. \A m \in fetched' : m[1] <= arrived
    BY <2>1, <1>types DEF SeenInv
  <2> QED
    BY <2>1, <2>2 DEF SeenInv, pumpVars, procVars
<1>7. CASE IdleReturns \/ ReadMailbox \/ UidStore \/ Expunge \/ WorkerFinish \/ Abandon
  BY <1>7, <1>same DEF IdleReturns, ReadMailbox, UidStore, Expunge, WorkerFinish, Abandon,
     chanVars, srvVars
<1>8. CASE Arrive
  <2>1. arrived' = arrived + 1 /\ UNCHANGED <<fetched, out>>
    BY <1>8 DEF Arrive, rcvVars, jobVars, chanVars
  <2>2. \A m \in fetched : m[1] \in Nat
    BY <1>types
  <2>3. \A i \in 1..Len(out) : out[i] \in UID
    BY <1>types
  <2>4. \A u \in Nat : u <= arrived => u <= arrived + 1
    BY <1>types
  <2>5. (\A m \in fetched : m[1] <= arrived)'
    BY <2>1, <2>2, <2>4 DEF SeenInv
  <2>6. (\A i \in 1..Len(out) : out[i] <= arrived)'
    BY <2>1, <2>3, <2>4, <1>types DEF SeenInv
  <2>7. UNCHANGED <<tickPc, tickMsg, ingestPc, ingestReq>>
    BY DEF pumpVars, procVars
  <2> QED
    BY <2>1, <2>4, <2>5, <2>6, <2>7, <1>types DEF SeenInv
<1>9. CASE Announce \/ OtherUpdate \/ Close \/ HasQuit \/ CloseReturn \/ UNCHANGED vars
  BY <1>9, <1>same DEF Announce, OtherUpdate, Close, HasQuit, CloseReturn, vars, rcvVars, jobVars,
     chanVars, srvVars
<1> QED
  BY <1>1, <1>2, <1>3, <1>4, <1>5, <1>6, <1>7, <1>8, <1>9 DEF Alone, Run, Worker, Server

(* Every step of the pump handles only what has arrived.                   *)
LEMMA SeenStep ==
  ASSUME PumpTypes, SeenInv, [PumpNext]_allVars
  PROVE  SeenInv'
<1>1. CASE Alone /\ UNCHANGED pumpVars
  BY <1>1, SeenAlone
<1>2. CASE IngestMessage
  <2>1. UNCHANGED <<fetched, out, arrived>>
    BY <1>2 DEF IngestMessage, vars, rcvVars, jobVars, chanVars, srvVars
  <2> QED
    BY <1>2, <2>1 DEF IngestMessage, SeenInv
<1>3. CASE Apart /\ ~IngestMessage
  <2>1. UNCHANGED <<fetched, out, arrived>>
    BY <1>3, ReceiverSteps DEF vars, rcvVars, jobVars, chanVars, srvVars
  <2>2. tickPc' # "ingest" \/ UNCHANGED <<tickPc, tickMsg>>
    BY <1>3 DEF Apart, TickResponse, TickStop, IngestReply, IngestExit, Interrupt1, CloseIngest
  <2>3. ingestPc' # "append" \/ UNCHANGED <<ingestPc, ingestReq>>
    BY <1>3 DEF Apart, TickResponse, TickStop, IngestReply, IngestExit, Interrupt1, CloseIngest
  <2> QED
    BY <2>1, <2>2, <2>3 DEF SeenInv
<1>4. CASE TickIncoming
  <2>1. out \in Seq(UID) /\ out # <<>>
    BY <1>4 DEF TickIncoming, PumpTypes, TypeOK, ChanType
  <2>2. /\ out' = Tail(out) /\ tickMsg' = <<Head(out), TRUE>>
        /\ UNCHANGED <<fetched, arrived, ingestPc, ingestReq>>
    BY <1>4 DEF TickIncoming, jobVars, srvVars
  <2>3. Head(out) <= arrived
    <3>1. 1 \in 1..Len(out) /\ Head(out) = out[1]
      BY <2>1
    <3> QED
      BY <3>1 DEF SeenInv
  <2>4. \A i \in 1..Len(out') : out'[i] <= arrived
    BY <2>1, <2>2, TailIndex DEF SeenInv
  <2> QED
    BY <2>2, <2>3, <2>4 DEF SeenInv
<1>5. CASE TickAck
  BY <1>5 DEF TickAck, SeenInv, jobVars, srvVars
<1>6. CASE IngestAppend
  BY <1>6 DEF IngestAppend, SeenInv, rcvVars, jobVars, chanVars
<1>7. CASE Crash
  BY <1>7 DEF Crash, SeenInv
<1> QED
  BY <1>1, <1>2, <1>3, <1>4, <1>5, <1>6, <1>7, StepKinds DEF Joint

(* What is on its way has arrived, always.                                 *)
LEMMA SeenAlways == PumpSpec => []SeenInv
<1>1. PumpInit => SeenInv
  BY DEF PumpInit, ProcInit, Init, RcvInit, SeenInv
<1>2. PumpTypes /\ SeenInv /\ [PumpNext]_allVars => SeenInv'
  BY SeenStep
<1> QED
  BY <1>1, <1>2, PumpTypesAlways, PTL DEF PumpSpec

(* A step of the receiver by itself arrives, removes what is copied, or    *)
(* leaves the source as it is.                                             *)
LEMMA SourceSteps ==
  ASSUME PumpTypes, NoMailLost, Alone
  PROVE  \/ UNCHANGED mailbox
         \/ \E m \in UID : mailbox' = mailbox \cup {m}
         \/ \E S \in SUBSET mailbox : (\A m \in S : dest[m] > 0) /\ mailbox' = mailbox \ S
<1>1. CASE Run
  BY <1>1 DEF Run, RecvQuit, RecvUpdate, RecvAck, Timeout, RecvOp, RecvFetchResult, Deliver,
     DeliverDone, RecvDeleteResult, Signal, srvVars
<1>2. CASE IdleReturns \/ ReadMailbox \/ Fetch \/ UidStore \/ WorkerFinish \/ Abandon
  BY <1>2 DEF IdleReturns, ReadMailbox, Fetch, UidStore, WorkerFinish, Abandon, srvVars
<1>3. CASE Expunge
  <2>1. PICK gone \in SUBSET flagged : mailbox' = mailbox \ gone
    BY <1>3 DEF Expunge
  <2>2. flagged \in SUBSET mailbox /\ \A m \in flagged : dest[m] > 0
    BY DEF PumpTypes, TypeOK, SrvType, NoMailLost
  <2> QED
    BY <2>1, <2>2
<1>4. CASE Arrive
  <2>1. arrived + 1 \in UID
    BY <1>4, ReceiverAssumption DEF ReceiverAssumption, Arrive, UID, PumpTypes, TypeOK, SrvType
  <2> QED
    BY <1>4, <2>1 DEF Arrive
<1>5. CASE Announce \/ OtherUpdate \/ Close \/ HasQuit \/ CloseReturn \/ UNCHANGED vars
  BY <1>5 DEF Announce, OtherUpdate, Close, HasQuit, CloseReturn, vars, srvVars
<1> QED
  BY <1>1, <1>2, <1>3, <1>4, <1>5 DEF Alone, Worker, Server

(* Every step of the pump is a step of MoveMail, or leaves both mailboxes  *)
(* as they are.                                                            *)
LEMMA MoveStep ==
  ASSUME PumpTypes, NoMailLost, SeenInv, [PumpNext]_allVars
  PROVE  [Move!Next]_(Move!moveVars)
<1> USE DEF Move!Next, Move!Arrive, Move!Copy, Move!Remove, Move!moveVars
<1>1. CASE Alone /\ UNCHANGED pumpVars
  <2>1. UNCHANGED dest
    BY <1>1 DEF pumpVars
  <2> QED
    BY <1>1, <2>1, SourceSteps
<1>2. CASE Apart
  <2>1. UNCHANGED mailbox
    BY <1>2, ReceiverSteps DEF vars, srvVars
  <2>2. UNCHANGED dest
    BY <1>2 DEF Apart, IngestMessage, TickResponse, TickStop, IngestReply, IngestExit,
       Interrupt1, CloseIngest
  <2> QED
    BY <2>1, <2>2
<1>3. CASE TickIncoming \/ TickAck \/ Crash
  BY <1>3 DEF TickIncoming, TickAck, Crash, srvVars
<1>4. CASE IngestAppend
  <2> DEFINE m == ingestReq[1]
  <2>1. /\ UNCHANGED mailbox
        /\ dest' = dest \/ dest' = [dest EXCEPT ![m] = @ + 1]
    BY <1>4 DEF IngestAppend
  <2>2. m \in UID
    BY <1>4, Pairs DEF IngestAppend, PumpTypes, PumpTypeOK
  <2>3. m \in 1..arrived
    <3>1. m <= arrived
      BY <1>4 DEF IngestAppend, SeenInv
    <3> QED
      BY <2>2, <3>1, ReceiverAssumption
         DEF ReceiverAssumption, UID, PumpTypes, TypeOK, SrvType
  <2>4. m \in mailbox \/ dest[m] > 0
    BY <2>3 DEF NoMailLost
  <2> HIDE DEF m
  <2> QED
    BY <2>1, <2>2, <2>4
<1> QED
  BY <1>1, <1>2, <1>3, <1>4, StepKinds DEF Joint

(* The pump implements MoveMail: whatever fails and wherever the process   *)
(* dies, its effect on the two mailboxes is a sequence of arrivals, copies *)
(* and removals in which no removal comes before a copy.                   *)
THEOREM PumpMovesMail == PumpSpec => MovesMail
<1>1. PumpInit => Move!Init
  <2> SUFFICES ASSUME PumpInit PROVE Move!Init
    OBVIOUS
  <2>1. mailbox \subseteq UID
    BY PumpTypesInit, ReceiverAssumption
       DEF ReceiverAssumption, PumpTypes, TypeOK, SrvType, UID
  <2> QED
    BY <2>1 DEF PumpInit, Move!Init
<1>2. PumpTypes /\ NoMailLost /\ SeenInv /\ [PumpNext]_allVars => [Move!Next]_(Move!moveVars)
  BY MoveStep
<1> QED
  BY <1>1, <1>2, PumpTypesAlways, NothingLost, SeenAlways, PTL
     DEF PumpSpec, MovesMail, Move!Spec
-----------------------------------------------------------------------------
(***************************************************************************)
(* Copied once.  A message on its way from the receiver to the destination *)
(* has been delivered and not yet copied, and is in one place only; and    *)
(* nothing is copied that was not delivered.                               *)
(***************************************************************************)
RcvSafe == LoopSafe /\ ResultInv /\ OnceInv

(* What is known of the receiver survives the steps that touch both sides: *)
(* a restarted receiver has sent out nothing.                              *)
LEMMA RcvSafeJoint == ASSUME PumpTypes, RcvSafe, Joint PROVE RcvSafe'
<1>1. CASE TickIncoming \/ TickAck \/ IngestAppend
  <2>1. UNCHANGED <<rstate, runPc, wantQuit, wantDelete, wantStopIdle, nextToProcess, messages>>
    BY <1>1 DEF TickIncoming, TickAck, IngestAppend, rcvVars, loopVars, wants
  <2>2. UNCHANGED <<worker, fetched, stored, opChan>>
    BY <1>1 DEF TickIncoming, TickAck, IngestAppend, rcvVars, jobVars, chanVars
  <2>3. UNCHANGED <<mailbox, flagged, arrived, delivered>>
    BY <1>1 DEF TickIncoming, TickAck, IngestAppend, srvVars, envVars
  <2>4. faults' = faults \/ faults' = faults + 1
    BY <1>1 DEF TickIncoming, TickAck, IngestAppend, srvVars
  <2>5. faults' = 0 => faults = 0
    BY <2>4 DEF PumpTypes, TypeOK, SrvType
  <2>6. LoopSafe'
    BY <2>1, <2>2 DEF RcvSafe, LoopSafe, GoroutineMatches, Runs, LoopInv, DeleteInv
  <2>7. ResultInv'
    BY <2>1, <2>2, <2>3 DEF RcvSafe, ResultInv
  <2>8. OnceInv'
    BY <2>1, <2>2, <2>3, <2>5 DEF RcvSafe, OnceInv
  <2> QED
    BY <2>6, <2>7, <2>8 DEF RcvSafe
<1>2. CASE Crash
  <2>1. LoopSafe'
    BY <1>2 DEF Crash, LoopSafe, GoroutineMatches, Runs, LoopInv, DeleteInv, StateNone,
       StateInIDLE, StateInFetch, StateInDelete
  <2>2. ResultInv'
    BY <1>2 DEF Crash, ResultInv
  <2>3. OnceInv'
    <3>1. delivered' = [u \in UID |-> 0]
      BY <1>2 DEF Crash
    <3> QED
      BY <3>1 DEF OnceInv
  <2> QED
    BY <2>1, <2>2, <2>3 DEF RcvSafe
<1> QED
  BY <1>1, <1>2 DEF Joint

(* Every step of the pump preserves what is known of the receiver.         *)
LEMMA RcvSafeStep == ASSUME PumpTypes, RcvSafe, [PumpNext]_allVars PROVE RcvSafe'
<1>1. CASE Alone \/ Apart
  <2>1. [Next]_vars
    BY <1>1, ReceiverSteps
  <2> QED
    BY <2>1, LoopSafeStep, ResultStep, OnceStep DEF PumpTypes, RcvSafe
<1>2. CASE Joint
  BY <1>2, RcvSafeJoint
<1> QED
  BY <1>1, <1>2, StepKinds

(* It holds always.                                                        *)
LEMMA RcvSafeAlways == PumpSpec => []RcvSafe
<1>1. PumpInit => RcvSafe
  <2>1. Init => LoopSafe
    BY DEF Init, RcvInit, LoopSafe, GoroutineMatches, Runs, LoopInv, DeleteInv, StateNone,
       StateInIDLE, StateInFetch, StateInDelete
  <2> QED
    BY <2>1, ResultInit, OnceInit DEF PumpInit, RcvSafe
<1>2. PumpTypes /\ RcvSafe /\ [PumpNext]_allVars => RcvSafe'
  BY RcvSafeStep
<1> QED
  BY <1>1, <1>2, PumpTypesAlways, PTL DEF PumpSpec

Uncopied(u) == delivered[u] > 0 /\ dest[u] = 0

PipeInv ==
  /\ \A i, j \in 1..Len(out) : out[i] = out[j] => i = j
  /\ \A i \in 1..Len(out) : Uncopied(out[i])
  /\ \A u \in UID : dest[u] <= 1 /\ dest[u] <= delivered[u]
  /\ tickPc = "ingest" =>
       Uncopied(tickMsg[1]) /\ \A i \in 1..Len(out) : out[i] # tickMsg[1]
  /\ ingestPc = "append" =>
       /\ Uncopied(ingestReq[1])
       /\ \A i \in 1..Len(out) : out[i] # ingestReq[1]
       /\ tickPc = "ingest" => tickMsg[1] # ingestReq[1]

PipeOnce == faults = 0 /\ crashes = 0 => PipeInv

(* The receiver touches out and its count of deliveries only to deliver,   *)
(* and no step takes a fault back.                                         *)
LEMMA DeliverOnly ==
  ASSUME PumpTypes, Alone
  PROVE  /\ UNCHANGED <<out, delivered>> \/ \E m \in fetched : Deliver(m)
         /\ faults' = 0 => faults = 0
<1>types. faults \in Nat
  BY DEF PumpTypes, TypeOK, SrvType
<1>1. CASE Run
  BY <1>1 DEF Run, RecvQuit, RecvUpdate, RecvAck, Timeout, RecvOp, RecvFetchResult, Deliver,
     DeliverDone, RecvDeleteResult, Signal, chanVars, srvVars, envVars
<1>2. CASE Worker
  <2>1. UNCHANGED <<out, delivered>>
    BY <1>2 DEF Worker, IdleReturns, ReadMailbox, Fetch, UidStore, Expunge, WorkerFinish,
       Abandon, chanVars, envVars
  <2>2. faults' = faults \/ faults' = faults + 1
    BY <1>2 DEF Worker, IdleReturns, ReadMailbox, Fetch, UidStore, Expunge, WorkerFinish, Fail,
       Abandon, srvVars
  <2> QED
    BY <2>1, <2>2, <1>types
<1>3. CASE Server \/ Close \/ HasQuit \/ CloseReturn \/ UNCHANGED vars
  BY <1>3 DEF Server, Arrive, Announce, OtherUpdate, Close, HasQuit, CloseReturn, vars, rcvVars,
     chanVars, srvVars, envVars
<1> QED
  BY <1>1, <1>2, <1>3 DEF Alone

(* A delivery adds a message that is nowhere yet.                          *)
LEMMA PipeDeliver ==
  ASSUME PumpTypes, RcvSafe, PipeInv, faults = 0, NEW m \in fetched, Deliver(m),
         UNCHANGED pumpVars
  PROVE  PipeInv'
<1>types. /\ delivered \in [UID -> Nat] /\ dest \in [UID -> Nat] /\ out \in Seq(UID)
          /\ m[1] \in UID
          /\ tickPc = "ingest" => tickMsg[1] \in UID
          /\ ingestPc = "append" => ingestReq[1] \in UID
  <2>1. delivered \in [UID -> Nat] /\ out \in Seq(UID) /\ m[1] \in UID
    BY DEF PumpTypes, TypeOK, ChanType, EnvType, JobType
  <2>2. /\ dest \in [UID -> Nat]
        /\ tickPc = "ingest" => tickMsg[1] \in UID
        /\ ingestPc = "append" => ingestReq[1] \in UID
    BY Pairs DEF PumpTypes, PumpTypeOK
  <2> QED
    BY <2>1, <2>2
<1>1. /\ out' = Append(out, m[1]) /\ delivered' = [delivered EXCEPT ![m[1]] = @ + 1]
      /\ UNCHANGED faults
  BY DEF Deliver, srvVars
<1>2. UNCHANGED <<dest, tickPc, tickMsg, ingestPc, ingestReq>>
  BY DEF pumpVars, procVars
<1>3. OnceInv'
  <2>1. [Next]_vars
    BY DEF Next, Run
  <2> QED
    BY <2>1, OnceStep DEF PumpTypes, RcvSafe
<1>4. delivered[m[1]] = 0
  <2>1. delivered'[m[1]] = delivered[m[1]] + 1
    BY <1>1, <1>types
  <2>2. delivered'[m[1]] <= 1
    BY <1>1, <1>3, <1>types DEF OnceInv
  <2> QED
    BY <2>1, <2>2, <1>types
<1>5. dest[m[1]] = 0
  BY <1>4, <1>types DEF PipeInv
<1>6. \A u \in UID : Uncopied(u) => u # m[1] /\ Uncopied(u)'
  BY <1>1, <1>2, <1>4, <1>types DEF Uncopied
<1>7. Uncopied(m[1])'
  BY <1>1, <1>2, <1>4, <1>5, <1>types DEF Uncopied
<1>8. \A u \in UID : dest'[u] <= 1 /\ dest'[u] <= delivered'[u]
  BY <1>1, <1>2, <1>types DEF PipeInv
<1>9. \A i \in 1..Len(out) : out[i] \in UID /\ Uncopied(out[i])
  BY <1>types DEF PipeInv
<1>10. \A i \in 1..Len(out') :
         \/ out'[i] = m[1] /\ i = Len(out) + 1
         \/ i \in 1..Len(out) /\ out'[i] = out[i]
  BY <1>1, <1>types
<1>11. \A i \in 1..Len(out') : Uncopied(out[i])'
  BY <1>6, <1>7, <1>9, <1>10 DEF Uncopied
<1>12. \A i, j \in 1..Len(out') : out'[i] = out'[j] => i = j
  BY <1>6, <1>9, <1>10 DEF PipeInv
<1>13. ASSUME NEW u \in UID, Uncopied(u), \A i \in 1..Len(out) : out[i] # u
       PROVE  Uncopied(u)' /\ \A i \in 1..Len(out') : out'[i] # u
  BY <1>13, <1>6, <1>10
<1>14. (tickPc = "ingest" =>
          Uncopied(tickMsg[1]) /\ \A i \in 1..Len(out) : out[i] # tickMsg[1])'
  BY <1>2, <1>13, <1>types DEF PipeInv, Uncopied
<1>15. (ingestPc = "append" =>
          /\ Uncopied(ingestReq[1])
          /\ \A i \in 1..Len(out) : out[i] # ingestReq[1]
          /\ tickPc = "ingest" => tickMsg[1] # ingestReq[1])'
  BY <1>2, <1>13, <1>types DEF PipeInv, Uncopied
<1> QED
  BY <1>8, <1>11, <1>12, <1>14, <1>15 DEF PipeInv

(* Every step of the pump keeps a message in one place on its way.         *)
LEMMA PipeStep ==
  ASSUME PumpTypes, RcvSafe, PipeOnce, [PumpNext]_allVars
  PROVE  PipeOnce'
<1>same. ASSUME UNCHANGED <<out, delivered, dest, crashes>>, faults' = 0 => faults = 0,
                tickPc' # "ingest" \/ UNCHANGED <<tickPc, tickMsg>>,
                ingestPc' # "append" \/ UNCHANGED <<ingestPc, ingestReq>>
         PROVE  PipeOnce'
  <2> SUFFICES ASSUME faults' = 0, crashes' = 0 PROVE PipeInv'
    BY DEF PipeOnce
  <2>1. PipeInv
    BY <1>same DEF PipeOnce
  <2> QED
    BY <1>same, <2>1 DEF PipeInv, Uncopied
<1>1. CASE Alone /\ UNCHANGED pumpVars
  <2>1. CASE UNCHANGED <<out, delivered>>
    BY <1>1, <2>1, <1>same, DeliverOnly DEF pumpVars, procVars
  <2>2. ASSUME NEW m \in fetched, Deliver(m) PROVE PipeOnce'
    <3>1. UNCHANGED <<faults, crashes>>
      BY <1>1, <2>2 DEF Deliver, srvVars, pumpVars
    <3> QED
      BY <1>1, <2>2, <3>1, PipeDeliver DEF PipeOnce
  <2> QED
    BY <1>1, <2>1, <2>2, DeliverOnly
<1>2. CASE IngestMessage
  <2>1. /\ UNCHANGED <<out, delivered, faults, dest, crashes>>
        /\ tickPc = "ingest" /\ tickPc' = "select" /\ ingestReq' = tickMsg
    BY <1>2 DEF IngestMessage, vars, rcvVars, chanVars, srvVars, envVars
  <2> QED
    BY <2>1 DEF PipeOnce, PipeInv, Uncopied
<1>3. CASE Apart /\ ~IngestMessage
  <2>1. UNCHANGED <<out, delivered, faults>>
    BY <1>3, ReceiverSteps DEF vars, rcvVars, chanVars, srvVars, envVars
  <2>2. tickPc' # "ingest" \/ UNCHANGED <<tickPc, tickMsg>>
    BY <1>3 DEF Apart, TickResponse, TickStop, IngestReply, IngestExit, Interrupt1, CloseIngest
  <2>3. ingestPc' # "append" \/ UNCHANGED <<ingestPc, ingestReq>>
    BY <1>3 DEF Apart, TickResponse, TickStop, IngestReply, IngestExit, Interrupt1, CloseIngest
  <2>4. UNCHANGED <<dest, crashes>>
    BY <1>3 DEF Apart, TickResponse, TickStop, IngestReply, IngestExit, Interrupt1, CloseIngest
  <2> QED
    BY <2>1, <2>2, <2>3, <2>4, <1>same
<1>4. CASE TickIncoming
  <2>1. out \in Seq(UID) /\ out # <<>>
    BY <1>4 DEF TickIncoming, PumpTypes, TypeOK, ChanType
  <2>2. /\ out' = Tail(out) /\ tickMsg' = <<Head(out), TRUE>>
        /\ UNCHANGED <<delivered, faults, dest, crashes, ingestPc, ingestReq>>
    BY <1>4 DEF TickIncoming, srvVars, envVars
  <2> SUFFICES ASSUME faults' = 0, crashes' = 0 PROVE PipeInv'
    BY DEF PipeOnce
  <2>3. PipeInv
    BY <2>2 DEF PipeOnce
  <2>4. 1 \in 1..Len(out) /\ tickMsg'[1] = out[1]
    BY <2>1, <2>2
  <2>5. \A i \in 1..Len(out') :
          i + 1 \in 1..Len(out) /\ i + 1 # 1 /\ i \in Nat /\ out'[i] = out[i + 1]
    BY <2>1, <2>2
  <2>6. \A i \in 1..Len(out') : Uncopied(out[i])' /\ out'[i] # tickMsg'[1]
    BY <2>2, <2>3, <2>4, <2>5 DEF PipeInv, Uncopied
  <2>7. \A i, j \in 1..Len(out') : out'[i] = out'[j] => i = j
    <3> SUFFICES ASSUME NEW i \in 1..Len(out'), NEW j \in 1..Len(out'), out'[i] = out'[j]
                 PROVE  i = j
      OBVIOUS
    <3>1. i + 1 = j + 1
      BY <2>3, <2>5 DEF PipeInv
    <3> QED
      BY <2>5, <3>1
  <2>8. Uncopied(tickMsg[1])'
    BY <2>2, <2>3, <2>4 DEF PipeInv, Uncopied
  <2>9. ingestPc' = "append" =>
          /\ Uncopied(ingestReq[1])'
          /\ \A i \in 1..Len(out') : out'[i] # ingestReq'[1]
          /\ tickMsg'[1] # ingestReq'[1]
    BY <2>2, <2>3, <2>4, <2>5 DEF PipeInv, Uncopied
  <2> QED
    BY <2>2, <2>3, <2>6, <2>7, <2>8, <2>9 DEF PipeInv
<1>5. CASE TickAck
  BY <1>5, <1>same DEF TickAck, srvVars
<1>6. CASE IngestAppend
  <2> SUFFICES ASSUME faults' = 0, crashes' = 0 PROVE PipeInv'
    BY DEF PipeOnce
  <2>types. /\ faults \in Nat /\ dest \in [UID -> Nat] /\ delivered \in [UID -> Nat]
            /\ ingestReq[1] \in UID /\ out \in Seq(UID)
            /\ tickPc = "ingest" => tickMsg[1] \in UID
    <3>1. faults \in Nat /\ delivered \in [UID -> Nat] /\ out \in Seq(UID)
      BY DEF PumpTypes, TypeOK, SrvType, EnvType, ChanType
    <3>2. /\ dest \in [UID -> Nat] /\ ingestReq[1] \in UID
          /\ tickPc = "ingest" => tickMsg[1] \in UID
      BY <1>6, Pairs DEF IngestAppend, PumpTypes, PumpTypeOK
    <3> QED
      BY <3>1, <3>2
  <2>1. faults = 0 /\ UNCHANGED faults /\ dest' = [dest EXCEPT ![ingestReq[1]] = @ + 1]
    <3>1. faults + 1 # 0
      BY <2>types
    <3> QED
      BY <1>6, <3>1 DEF IngestAppend, AppendAnswer
  <2>2. /\ UNCHANGED <<out, delivered, tickPc, tickMsg, crashes>>
        /\ ingestPc = "append" /\ ingestPc' = "reply"
    BY <1>6 DEF IngestAppend, rcvVars, chanVars, envVars
  <2>3. PipeInv
    BY <2>1, <2>2 DEF PipeOnce
  <2>4. delivered[ingestReq[1]] > 0 /\ dest[ingestReq[1]] = 0
    BY <2>2, <2>3 DEF PipeInv, Uncopied
  <2>5. \A u \in UID : u # ingestReq[1] /\ Uncopied(u) => Uncopied(u)'
    BY <2>1, <2>2, <2>types DEF Uncopied
  <2>6. \A u \in UID : dest'[u] <= 1 /\ dest'[u] <= delivered'[u]
    BY <2>1, <2>2, <2>3, <2>4, <2>types DEF PipeInv
  <2>7. \A i \in 1..Len(out) : out[i] \in UID /\ out[i] # ingestReq[1] /\ Uncopied(out[i])
    BY <2>2, <2>3, <2>types DEF PipeInv
  <2>8. tickPc = "ingest" => /\ Uncopied(tickMsg[1]) /\ tickMsg[1] # ingestReq[1]
                             /\ \A i \in 1..Len(out) : out[i] # tickMsg[1]
    BY <2>2, <2>3 DEF PipeInv
  <2>9. \A i \in 1..Len(out') : Uncopied(out[i])'
    BY <2>2, <2>5, <2>7 DEF Uncopied
  <2>10. tickPc' = "ingest" => /\ Uncopied(tickMsg[1])'
                               /\ \A i \in 1..Len(out') : out'[i] # tickMsg'[1]
    BY <2>2, <2>5, <2>8, <2>types DEF Uncopied
  <2> QED
    BY <2>2, <2>3, <2>6, <2>9, <2>10 DEF PipeInv
<1>7. CASE Crash
  <2>1. crashes' # 0
    BY <1>7 DEF Crash, PumpTypes, PumpTypeOK
  <2> QED
    BY <2>1 DEF PipeOnce
<1> QED
  BY <1>1, <1>2, <1>3, <1>4, <1>5, <1>6, <1>7, StepKinds DEF Joint

(* While nothing fails and the process does not die, a message is copied   *)
(* to the destination once: no interleaving of the receiver, tick and the  *)
(* ingest client hands it over twice.                                      *)
THEOREM PumpCopiesOnce == PumpSpec => []CopiedOnce
<1>1. PumpInit => PipeOnce
  BY DEF PumpInit, ProcInit, Init, RcvInit, EnvInit, PipeOnce, PipeInv
<1>2. PumpTypes /\ RcvSafe /\ PipeOnce /\ [PumpNext]_allVars => PipeOnce'
  BY PipeStep
<1>3. PipeOnce => CopiedOnce
  BY DEF PipeOnce, PipeInv, CopiedOnce
<1> QED
  BY <1>1, <1>2, <1>3, PumpTypesAlways, RcvSafeAlways, PTL DEF PumpSpec
=============================================================================
