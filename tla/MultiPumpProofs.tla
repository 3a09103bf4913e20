-------------------------- MODULE MultiPumpProofs --------------------------
(***************************************************************************)
(* Proofs about the many-to-one pump, for any set of sources, any backlogs *)
(* and any capacities: its types, the order in which it stops, and that no *)
(* source loses mail.                                                      *)
(***************************************************************************)
EXTENDS MultiPump, FiniteSetTheorems, TLAPS

(* The number of sources is a number.                                      *)
LEMMA NType == N \in Nat
  BY MultiAssumption, FS_CardinalityType DEF MultiAssumption, N

(***************************************************************************)
(* One receiver.  A state of MailReceiver, its channels within their       *)
(* capacities, and what its steps do to the parts the pump depends on.     *)
(***************************************************************************)
RcvState ==
  [exited : BOOLEAN, pending : SUBSET UIDs, tracked : SUBSET UIDs, done : SUBSET UIDs,
   box : SUBSET UIDs, out : Seq(UIDs), acks : Seq(UIDs \X BOOLEAN), quit : BOOLEAN]

Bounded(p) ==
  /\ p.exited => p.quit
  /\ Len(p.out) <= OutCap
  /\ Len(p.acks) <= FetchBufferSize

\* an acknowledgement of u without an error waits in the channel
HoldsAck(acks, u) == \E k \in 1..Len(acks) : acks[k] = <<u, TRUE>>

\* the loop learns of an acknowledgement only from the channel, and removes
\* only what is acknowledged
Kept(p, q) ==
  /\ p.exited => q.exited
  /\ \A u \in q.done : u \in p.done \/ HoldsAck(p.acks, u)
  /\ \A u : HoldsAck(q.acks, u) => HoldsAck(p.acks, u)
  /\ p.box \ q.box \subseteq p.done

(* A fetch.                                                                *)
LEMMA FetchKept ==
  ASSUME NEW p \in RcvState, Bounded(p), NEW failed, NEW q \in Fetches(p, failed)
  PROVE  q \in RcvState /\ Bounded(q) /\ Kept(p, q)
<1>1. PICK S \in SUBSET p.box : q = [p EXCEPT !.pending = S]
  BY DEF Fetches
<1>2. S \in SUBSET UIDs
  BY DEF RcvState
<1>3. q \in RcvState
  BY <1>1, <1>2 DEF RcvState
<1>4. /\ q.exited = p.exited /\ q.quit = p.quit /\ q.out = p.out /\ q.acks = p.acks
      /\ q.done = p.done /\ q.box = p.box
  BY <1>1 DEF RcvState
<1> QED
  BY <1>3, <1>4 DEF Bounded, Kept

(* A delivery: there is room for it.                                       *)
LEMMA DeliverKept ==
  ASSUME NEW p \in RcvState, Bounded(p), NEW q \in Delivers(p)
  PROVE  q \in RcvState /\ Bounded(q) /\ Kept(p, q)
<1>1. PICK u \in p.pending :
        /\ ~Blocked(p)
        /\ q = [p EXCEPT !.pending = @ \ {u}, !.tracked = @ \cup {u}, !.out = Append(@, u)]
  BY DEF Delivers
<1>2. /\ u \in UIDs /\ p.out \in Seq(UIDs) /\ p.pending \in SUBSET UIDs
      /\ p.tracked \in SUBSET UIDs
  BY DEF RcvState
<1>3. Append(p.out, u) \in Seq(UIDs) /\ Len(Append(p.out, u)) = Len(p.out) + 1
  BY <1>2
<1>4. q \in RcvState
  BY <1>1, <1>2, <1>3 DEF RcvState
<1>5. /\ q.exited = p.exited /\ q.quit = p.quit /\ q.out = Append(p.out, u) /\ q.acks = p.acks
      /\ q.done = p.done /\ q.box = p.box
  BY <1>1 DEF RcvState
<1>6. Len(q.out) <= OutCap
  BY <1>1, <1>2, <1>3, <1>5, MultiAssumption DEF MultiAssumption, Blocked, Bounded
<1> QED
  BY <1>4, <1>5, <1>6 DEF Bounded, Kept

(* An acknowledgement is read from the channel.                            *)
LEMMA ReadKept ==
  ASSUME NEW p \in RcvState, Bounded(p), NEW q \in ReadsAck(p)
  PROVE  q \in RcvState /\ Bounded(q) /\ Kept(p, q)
<1> DEFINE new == {u \in p.tracked : Head(p.acks) = <<u, TRUE>>}
<1>1. p.acks # <<>> /\ q = [p EXCEPT !.acks = Tail(@), !.done = @ \cup new]
  BY DEF ReadsAck, Step
<1>2. p.acks \in Seq(UIDs \X BOOLEAN) /\ p.done \in SUBSET UIDs /\ new \in SUBSET UIDs
  BY DEF RcvState
<1>new. \A u \in new : Head(p.acks) = <<u, TRUE>>
  OBVIOUS
<1> HIDE DEF new
<1>3. /\ Tail(p.acks) \in Seq(UIDs \X BOOLEAN) /\ Len(Tail(p.acks)) <= Len(p.acks)
      /\ 1 \in 1..Len(p.acks) /\ Head(p.acks) = p.acks[1]
      /\ \A k \in 1..Len(Tail(p.acks)) :
           k + 1 \in 1..Len(p.acks) /\ Tail(p.acks)[k] = p.acks[k + 1]
  BY <1>1, <1>2
<1>4. q \in RcvState
  BY <1>1, <1>2, <1>3 DEF RcvState
<1>5. /\ q.exited = p.exited /\ q.quit = p.quit /\ q.out = p.out /\ q.acks = Tail(p.acks)
      /\ q.done = p.done \cup new /\ q.box = p.box
  BY <1>1 DEF RcvState
<1>6. Len(q.acks) <= FetchBufferSize
  BY <1>2, <1>3, <1>5, MultiAssumption DEF MultiAssumption, Bounded
<1>7. \A u \in q.done : u \in p.done \/ HoldsAck(p.acks, u)
  BY <1>3, <1>5, <1>new DEF HoldsAck
<1>8. \A u : HoldsAck(q.acks, u) => HoldsAck(p.acks, u)
  <2> SUFFICES ASSUME NEW u, NEW k \in 1..Len(q.acks), q.acks[k] = <<u, TRUE>>
               PROVE  HoldsAck(p.acks, u)
    BY DEF HoldsAck
  <2>1. k + 1 \in 1..Len(p.acks) /\ p.acks[k + 1] = <<u, TRUE>>
    BY <1>3, <1>5
  <2> QED
    BY <2>1 DEF HoldsAck
<1> QED
  BY <1>4, <1>5, <1>6, <1>7, <1>8 DEF Bounded, Kept

(* Acknowledged messages are removed.                                      *)
LEMMA RemoveKept ==
  ASSUME NEW p \in RcvState, Bounded(p), NEW failed, NEW q \in Removes(p, failed)
  PROVE  q \in RcvState /\ Bounded(q) /\ Kept(p, q)
<1>1. PICK c \in [gone : SUBSET (p.box \cap p.done), forgotten : SUBSET p.done] :
        q = [p EXCEPT !.box = @ \ c.gone, !.tracked = @ \ c.forgotten]
  BY DEF Removes
<1>2. c.gone \subseteq p.done
  OBVIOUS
<1>3. q \in RcvState
  BY <1>1 DEF RcvState
<1>4. /\ q.exited = p.exited /\ q.quit = p.quit /\ q.out = p.out /\ q.acks = p.acks
      /\ q.done = p.done /\ q.box = p.box \ c.gone
  BY <1>1 DEF RcvState
<1> QED
  BY <1>2, <1>3, <1>4 DEF Bounded, Kept

(* The loop exits when asked to.                                           *)
LEMMA ExitKept ==
  ASSUME NEW p \in RcvState, Bounded(p), NEW q \in Exits(p)
  PROVE  q \in RcvState /\ Bounded(q) /\ Kept(p, q)
<1>1. p.quit /\ q = [p EXCEPT !.exited = TRUE]
  BY DEF Exits, Step
<1>2. q \in RcvState
  BY <1>1 DEF RcvState
<1>3. /\ q.exited = TRUE /\ q.quit = p.quit /\ q.out = p.out /\ q.acks = p.acks
      /\ q.done = p.done /\ q.box = p.box
  BY <1>1 DEF RcvState
<1> QED
  BY <1>1, <1>2, <1>3 DEF Bounded, Kept

(* The pump takes a message.                                               *)
LEMMA TakeKept ==
  ASSUME NEW p \in RcvState, Bounded(p), NEW q \in Takes(p)
  PROVE  q \in RcvState /\ Bounded(q) /\ Kept(p, q)
<1>1. p.out # <<>> /\ q = [p EXCEPT !.out = Tail(@)]
  BY DEF Takes, Step
<1>2. p.out \in Seq(UIDs)
  BY DEF RcvState
<1>3. Tail(p.out) \in Seq(UIDs) /\ Len(Tail(p.out)) <= Len(p.out) /\ Len(Tail(p.out)) \in Nat
  BY <1>1, <1>2
<1>4. q \in RcvState
  BY <1>1, <1>3 DEF RcvState
<1>5. /\ q.exited = p.exited /\ q.quit = p.quit /\ q.out = Tail(p.out) /\ q.acks = p.acks
      /\ q.done = p.done /\ q.box = p.box
  BY <1>1 DEF RcvState
<1>6. Len(q.out) <= OutCap
  BY <1>2, <1>3, <1>5, MultiAssumption DEF MultiAssumption, Bounded
<1> QED
  BY <1>4, <1>5, <1>6 DEF Bounded, Kept

(* The pump closes the receiver.                                           *)
LEMMA CloseKept ==
  ASSUME NEW p \in RcvState, Bounded(p), NEW q \in Closes(p)
  PROVE  q \in RcvState /\ Bounded(q) /\ Kept(p, q)
<1>1. q = [p EXCEPT !.quit = TRUE]
  BY DEF Closes
<1>2. q \in RcvState
  BY <1>1 DEF RcvState
<1>3. /\ q.exited = p.exited /\ q.quit = TRUE /\ q.out = p.out /\ q.acks = p.acks
      /\ q.done = p.done /\ q.box = p.box
  BY <1>1 DEF RcvState
<1> QED
  BY <1>2, <1>3 DEF Bounded, Kept

(* The pump acknowledges a message: only that acknowledgement is new.      *)
LEMMA AckKept ==
  ASSUME NEW p \in RcvState, Bounded(p), NEW u \in UIDs, NEW ok \in BOOLEAN,
         NEW q \in Acks(p, u, ok)
  PROVE  /\ q \in RcvState /\ Bounded(q)
         /\ q.exited = p.exited /\ q.done = p.done /\ q.box = p.box
         /\ \A v : HoldsAck(q.acks, v) => HoldsAck(p.acks, v) \/ (v = u /\ ok)
<1> DEFINE a == <<u, ok>>
<1>1. Len(p.acks) < FetchBufferSize /\ q = [p EXCEPT !.acks = Append(@, a)]
  BY DEF Acks, Step
<1>2. p.acks \in Seq(UIDs \X BOOLEAN)
  BY DEF RcvState
<1>3. a \in UIDs \X BOOLEAN /\ \A v : a = <<v, TRUE>> => v = u /\ ok
  OBVIOUS
<1> HIDE DEF a
<1>4. /\ Append(p.acks, a) \in Seq(UIDs \X BOOLEAN) /\ Len(Append(p.acks, a)) = Len(p.acks) + 1
      /\ \A k \in 1..Len(Append(p.acks, a)) :
           Append(p.acks, a)[k] = a \/ (k \in 1..Len(p.acks) /\ Append(p.acks, a)[k] = p.acks[k])
  BY <1>2, <1>3
<1>5. q \in RcvState
  BY <1>1, <1>4 DEF RcvState
<1>6. /\ q.exited = p.exited /\ q.quit = p.quit /\ q.out = p.out
      /\ q.acks = Append(p.acks, a) /\ q.done = p.done /\ q.box = p.box
  BY <1>1 DEF RcvState
<1>7. Len(q.acks) <= FetchBufferSize
  BY <1>1, <1>2, <1>4, <1>6, MultiAssumption DEF MultiAssumption
<1>8. \A v : HoldsAck(q.acks, v) => HoldsAck(p.acks, v) \/ (v = u /\ ok)
  <2> SUFFICES ASSUME NEW v, NEW k \in 1..Len(q.acks), q.acks[k] = <<v, TRUE>>
               PROVE  HoldsAck(p.acks, v) \/ (v = u /\ ok)
    BY DEF HoldsAck
  <2>1. q.acks[k] = a \/ (k \in 1..Len(p.acks) /\ q.acks[k] = p.acks[k])
    BY <1>4, <1>6
  <2> QED
    BY <2>1, <1>3 DEF HoldsAck
<1> QED
  BY <1>5, <1>6, <1>7, <1>8 DEF Bounded

(* A receiver that has just been made.                                     *)
LEMMA NewKept ==
  ASSUME NEW mail \in SUBSET UIDs
  PROVE  /\ NewState(mail) \in RcvState /\ Bounded(NewState(mail))
         /\ NewState(mail).done = {} /\ NewState(mail).acks = <<>> /\ NewState(mail).box = mail
<1>1. \A S : <<>> \in Seq(S) /\ Len(<<>>) = 0
  OBVIOUS
<1>2. NewState(mail) \in RcvState
  BY <1>1 DEF NewState, RcvState
<1>3. Bounded(NewState(mail))
  BY <1>1, MultiAssumption DEF MultiAssumption, NewState, Bounded
<1> QED
  BY <1>2, <1>3 DEF NewState
-----------------------------------------------------------------------------
(***************************************************************************)
(* Types.  Beyond MultiTypeOK, what tick and the ingest client hold names  *)
(* a receiver that has been made, and what the start has read of the       *)
(* configuration is there once it is used.                                 *)
(***************************************************************************)
Mains == {"resolve", "run", "newIngest", "newReceivers", "running", "abort", "close",
          "abortIngest", "closeIngest", "failed", "terminated", "killed"}

Starting == {"resolve", "run", "newIngest", "newReceivers"}

RcvType ==
  /\ receivers \in Seq(RcvState) /\ Len(receivers) <= N
  /\ \A i \in 1..Len(receivers) : Bounded(receivers[i])
TickType ==
  /\ tickMsg \in Message \cup {None}
  /\ tickMsg # None <=> tickPc \in {"check", "send", "ack"}
  /\ tickMsg # None => tickMsg[1] <= Len(receivers)
  /\ main \in Starting => tickPc = "off"
ReqType ==
  /\ ingestReq \in Message \cup {None}
  /\ ingestReq # None <=> ingestPc \in {"append", "reply", "refuse"}
  /\ ingestReq # None => ingestReq[1] <= Len(receivers)
PipesType ==
  /\ ingestChannels \in [Index -> Seq(UIDs \X BOOLEAN)]
  /\ \A i \in Index : Len(ingestChannels[i]) <= IngestCap
DestType == dest \in [Mailboxes \X Sources \X UIDs -> Nat]
StartType ==
  /\ main \in Mains
  /\ main \notin {"resolve", "failed"} => ResolvedSources \in Orders
  /\ main \notin {"resolve", "run", "failed"} => targetMailboxes \in [Index -> Mailboxes]
  /\ main \in {"resolve", "run", "newIngest"} => receivers = <<>> /\ ingestPc = "off"
MultiTypes == RcvType /\ TickType /\ ReqType /\ PipesType /\ DestType /\ StartType

(* The types are what the type invariant says, and more.                   *)
LEMMA TypesImply == MultiTypes /\ abandoned \subseteq Index => MultiTypeOK
<1> SUFFICES ASSUME MultiTypes, abandoned \subseteq Index PROVE MultiTypeOK
  OBVIOUS
<1>1. DOMAIN receivers = 1..Len(receivers)
  BY DEF MultiTypes, RcvType
<1> QED
  BY <1>1 DEF MultiTypes, RcvType, TickType, ReqType, PipesType, DestType, Bounded, MultiTypeOK

(* A message is not None, and has its parts.                               *)
LEMMA Parts ==
  ASSUME NEW m \in Message
  PROVE  m # None /\ m[1] \in Index /\ m[2] \in UIDs /\ m[3] \in BOOLEAN
<1>1. m[1] \in Index /\ m[2] \in UIDs /\ m[3] \in BOOLEAN
  BY DEF Message
<1>2. 1 \in DOMAIN m
  BY DEF Message
<1>3. DOMAIN None = {}
  BY DEF None
<1> QED
  BY <1>1, <1>2, <1>3

(* The index of a receiver that has been made is an index of a source.     *)
LEMMA MadeIndex ==
  ASSUME RcvType
  PROVE  /\ DOMAIN receivers = 1..Len(receivers) /\ Len(receivers) \in Nat
         /\ \A i \in DOMAIN receivers : i \in Index
<1>1. DOMAIN receivers = 1..Len(receivers) /\ Len(receivers) \in Nat
  BY DEF RcvType
<1> QED
  BY <1>1, NType DEF RcvType, Index

(* A step of one receiver leaves the others alone.                         *)
LEMMA OneReceiver ==
  ASSUME RcvType, NEW i \in DOMAIN receivers, NEW q \in RcvState, Bounded(q),
         receivers' = [receivers EXCEPT ![i] = q]
  PROVE  /\ RcvType' /\ Len(receivers') = Len(receivers)
         /\ DOMAIN receivers' = DOMAIN receivers
         /\ receivers'[i] = q /\ \A j \in DOMAIN receivers : j # i => receivers'[j] = receivers[j]
<1>1. /\ receivers' \in Seq(RcvState) /\ Len(receivers') = Len(receivers)
      /\ DOMAIN receivers' = DOMAIN receivers
      /\ receivers'[i] = q /\ \A j \in DOMAIN receivers : j # i => receivers'[j] = receivers[j]
  BY DEF RcvType
<1>2. \A j \in 1..Len(receivers') : Bounded(receivers'[j])
  BY <1>1, MadeIndex DEF RcvType
<1> QED
  BY <1>1, <1>2 DEF RcvType

(* A step of a receiver by itself leaves the pump alone ...                *)
LEMMA ReceivingFrame ==
  ASSUME NEW i, Receiving(i)
  PROVE  /\ UNCHANGED <<main, ResolvedSources, targetMailboxes, tickPc, tickMsg>>
         /\ UNCHANGED <<ingestPc, ingestReq, ingestQuit, dest, ingestChannels>>
<1>1. CASE Fetch(i) \/ Remove(i)
  BY <1>1 DEF Fetch, Remove, Becomes, cfgVars, tickVars
<1>2. CASE Send(i) \/ Read(i) \/ Exit(i)
  BY <1>2 DEF Send, Read, Exit, Becomes, cfgVars, tickVars
<1>3. CASE Abandon(i)
  BY <1>3 DEF Abandon, cfgVars, tickVars, ingVars
<1> QED
  BY <1>1, <1>2, <1>3 DEF Receiving

\* what a receiver in state p may become by itself
ByItself(p) ==
  {p} \cup Fetches(p, TRUE) \cup Fetches(p, FALSE) \cup Removes(p, TRUE) \cup Removes(p, FALSE)
      \cup Delivers(p) \cup ReadsAck(p) \cup Exits(p)

(* ... and is one that MailReceiver allows, whether calls fail or not.     *)
LEMMA ReceivingStep ==
  ASSUME RcvType, NEW i \in DOMAIN receivers, Receiving(i)
  PROVE  \E q \in ByItself(receivers[i]) : receivers' = [receivers EXCEPT ![i] = q]
<1>1. CASE Fetch(i) \/ Remove(i)
  <2>1. PICK failed \in BOOLEAN :
          \E q \in Fetches(receivers[i], failed) \cup Removes(receivers[i], failed) :
             receivers' = [receivers EXCEPT ![i] = q]
    BY <1>1 DEF Fetch, Remove, Becomes
  <2> QED
    BY <2>1 DEF ByItself
<1>2. CASE Send(i) \/ Read(i) \/ Exit(i)
  BY <1>2 DEF Send, Read, Exit, Becomes, ByItself
<1>3. CASE Abandon(i)
  <2>1. receivers' = [receivers EXCEPT ![i] = receivers[i]]
    BY <1>3 DEF Abandon, RcvType
  <2> QED
    BY <2>1 DEF ByItself
<1> QED
  BY <1>1, <1>2, <1>3 DEF Receiving

(* The steps of a receiver by itself, those of the pump that close it and  *)
(* those that take from it.                                                *)
LEMMA KeptSteps ==
  ASSUME RcvType, NEW i \in DOMAIN receivers,
         Receiving(i) \/ CloseReceiver(i) \/ TickIncoming(i)
  PROVE  \E q \in RcvState : /\ Bounded(q) /\ Kept(receivers[i], q)
                             /\ receivers' = [receivers EXCEPT ![i] = q]
<1> DEFINE p == receivers[i]
<1>1. p \in RcvState /\ Bounded(p)
  BY MadeIndex DEF RcvType
<1> HIDE DEF p
<1>2. PICK q : /\ receivers' = [receivers EXCEPT ![i] = q]
               /\ q \in ByItself(p) \/ q \in Takes(p) \/ q \in Closes(p)
  BY ReceivingStep DEF p, CloseReceiver, TickIncoming
<1>3. q \in RcvState /\ Bounded(q) /\ Kept(p, q)
  <2>1. CASE q = p
    BY <1>1, <2>1 DEF Kept
  <2>2. CASE q # p
    BY <1>1, <1>2, <2>2, FetchKept, DeliverKept, ReadKept, RemoveKept, ExitKept, TakeKept,
       CloseKept DEF ByItself
  <2> QED
    BY <2>1, <2>2
<1> QED
  BY <1>2, <1>3 DEF p
(* Every step preserves the types.                                         *)
LEMMA TypesStep == ASSUME MultiTypes, [Next]_multiVars PROVE MultiTypes'
<1>old. RcvType /\ TickType /\ ReqType /\ PipesType /\ DestType /\ StartType
  BY DEF MultiTypes
<1>all. RcvType' /\ TickType' /\ ReqType' /\ PipesType' /\ DestType' /\ StartType' => MultiTypes'
  BY DEF MultiTypes
<1>made. /\ DOMAIN receivers = 1..Len(receivers) /\ Len(receivers) \in Nat
         /\ \A i \in DOMAIN receivers : i \in Index
  BY <1>old, MadeIndex
<1>index. Index \subseteq Nat
  BY DEF Index
<1>rcv. UNCHANGED receivers => RcvType'
  BY <1>old DEF RcvType
<1>tick. /\ UNCHANGED <<tickPc, tickMsg>> /\ Len(receivers') = Len(receivers)
         /\ main' \in Starting => main \in Starting
         => TickType'
  BY <1>old DEF TickType
<1>ticking. tickPc # "off" => main \notin Starting
  BY <1>old DEF TickType
<1>req. UNCHANGED <<ingestPc, ingestReq>> /\ Len(receivers') = Len(receivers) => ReqType'
  BY <1>old DEF ReqType
<1>pipes. UNCHANGED ingestChannels => PipesType'
  BY <1>old DEF PipesType
<1>dest. UNCHANGED dest => DestType'
  BY <1>old DEF DestType
<1>start. UNCHANGED <<main, ResolvedSources, targetMailboxes, receivers, ingestPc>> => StartType'
  BY <1>old DEF StartType
<1>made2. main \notin {"resolve", "run", "newIngest"}
            /\ UNCHANGED <<main, ResolvedSources, targetMailboxes>> => StartType'
  BY <1>old DEF StartType
<1>some. receivers # <<>> \/ ingestPc # "off" => main \notin {"resolve", "run", "newIngest"}
  BY <1>old DEF StartType
<1>msg. /\ tickPc \in {"check", "send", "ack"} =>
             tickMsg \in Message /\ tickMsg[1] \in DOMAIN receivers
        /\ ingestPc \in {"append", "reply", "refuse"} =>
             ingestReq \in Message /\ ingestReq[1] \in DOMAIN receivers
  <2>1. tickPc \in {"check", "send", "ack"} =>
          tickMsg \in Message /\ tickMsg[1] <= Len(receivers) /\ tickMsg[1] \in Index
    BY <1>old, Parts DEF TickType
  <2>2. ingestPc \in {"append", "reply", "refuse"} =>
          ingestReq \in Message /\ ingestReq[1] <= Len(receivers) /\ ingestReq[1] \in Index
    BY <1>old, Parts DEF ReqType
  <2>3. \A i \in Index : i <= Len(receivers) => i \in DOMAIN receivers
    BY <1>made, NType DEF Index
  <2> QED
    BY <2>1, <2>2, <2>3
<1>1. CASE Resolve
  <2>1. StartType'
    BY <1>1, <1>old DEF Resolve, StartType, Mains, ingVars
  <2> QED
    BY <1>1, <2>1, <1>all, <1>rcv, <1>tick, <1>req, <1>pipes, <1>dest
       DEF Resolve, tickVars, ingVars, Starting
<1>2. CASE Run
  <2>1. targetMailboxes' \in [Index -> Mailboxes]
    <3>1. PICK o \in Orders : targetMailboxes' = [i \in Index |-> Target[o[i]]]
      BY <1>2 DEF Run
    <3>2. \A i \in Index : o[i] \in Sources
      BY DEF Orders
    <3> QED
      BY <3>1, <3>2 DEF Mailboxes
  <2>2. StartType'
    BY <1>2, <2>1, <1>old DEF Run, StartType, Mains, ingVars
  <2> QED
    BY <1>2, <2>2, <1>all, <1>rcv, <1>tick, <1>req, <1>pipes, <1>dest
       DEF Run, tickVars, ingVars, Starting
<1>3. CASE NewIngest
  <2>1. StartType'
    BY <1>3, <1>old DEF NewIngest, StartType, Mains, cfgVars
  <2>2. ReqType'
    BY <1>3, <1>old DEF NewIngest, ReqType, StartType
  <2> QED
    BY <1>3, <2>1, <2>2, <1>all, <1>rcv, <1>tick, <1>pipes, <1>dest
       DEF NewIngest, tickVars, Starting
<1>4. CASE NewReceiver
  <2>1. CASE UNCHANGED receivers
    <3>1. StartType'
      BY <1>4, <1>old DEF NewReceiver, StartType, Mains, cfgVars
    <3> QED
      BY <1>4, <2>1, <3>1, <1>all, <1>rcv, <1>tick, <1>req, <1>pipes, <1>dest
         DEF NewReceiver, tickVars, ingVars, Starting
  <2>2. CASE UNCHANGED main /\ receivers' =
               Append(receivers, NewState(Backlog[ResolvedSources[Len(receivers) + 1]]))
    <3> DEFINE mail == Backlog[ResolvedSources[Len(receivers) + 1]]
               q == NewState(mail)
    <3>1. Len(receivers) + 1 \in Index
      BY <1>4, <1>made, NType DEF NewReceiver, Index
    <3>2. ResolvedSources[Len(receivers) + 1] \in Sources
      BY <1>4, <1>old, <3>1 DEF NewReceiver, StartType, Orders
    <3>3. mail \in SUBSET UIDs
      BY <3>2 DEF UIDs
    <3> HIDE DEF mail
    <3>4. q \in RcvState /\ Bounded(q)
      BY <3>3, NewKept
    <3>5. receivers' = Append(receivers, q)
      BY <2>2 DEF mail
    <3> HIDE DEF q
    <3>6. /\ receivers' \in Seq(RcvState) /\ Len(receivers') = Len(receivers) + 1
          /\ \A i \in 1..Len(receivers') :
               receivers'[i] = q \/ (i \in 1..Len(receivers) /\ receivers'[i] = receivers[i])
      BY <3>4, <3>5, <1>old DEF RcvType
    <3>7. RcvType'
      <4>1. \A i \in 1..Len(receivers') : Bounded(receivers'[i])
        BY <3>4, <3>6, <1>old DEF RcvType
      <4>2. Len(receivers') <= N
        BY <1>4, <3>6, <1>made, NType DEF NewReceiver
      <4> QED
        BY <3>6, <4>1, <4>2 DEF RcvType
    <3>8. \A i \in Nat : i <= Len(receivers) => i <= Len(receivers')
      BY <3>6, <1>made
    <3>9. UNCHANGED <<tickPc, tickMsg, ingestPc, ingestReq>>
      BY <1>4 DEF NewReceiver, tickVars, ingVars
    <3>10. TickType'
      <4>1. tickMsg # None => tickMsg[1] \in Nat
        BY <1>old, <1>index, Parts DEF TickType
      <4> QED
        BY <4>1, <2>2, <3>8, <3>9, <1>old DEF TickType
    <3>11. ReqType'
      <4>1. ingestReq # None => ingestReq[1] \in Nat
        BY <1>old, <1>index, Parts DEF ReqType
      <4> QED
        BY <4>1, <3>8, <3>9, <1>old DEF ReqType
    <3>12. StartType'
      BY <1>4, <2>2, <1>made2 DEF NewReceiver, cfgVars
    <3> QED
      BY <1>4, <3>7, <3>10, <3>11, <3>12, <1>all, <1>pipes, <1>dest DEF NewReceiver, ingVars
  <2> QED
    BY <1>4, <2>1, <2>2 DEF NewReceiver
<1>5. CASE StartTick \/ Interrupt1 \/ Done \/ Interrupt2
  <2>1. StartType'
    BY <1>5, <1>old DEF StartTick, Interrupt1, Done, Interrupt2, StartType, Mains, cfgVars, ingVars
  <2>2. TickType'
    BY <1>5, <1>old DEF StartTick, Interrupt1, Done, Interrupt2, TickType, tickVars, Starting
  <2>3. UNCHANGED <<receivers, ingestPc, ingestReq, ingestChannels, dest>>
    BY <1>5 DEF StartTick, Interrupt1, Done, Interrupt2, ingVars
  <2> QED
    BY <2>1, <2>2, <2>3, <1>all, <1>rcv, <1>req, <1>pipes, <1>dest
<1>6. CASE CloseIngest \/ CloseReturns
  <2>1. StartType'
    BY <1>6, <1>old DEF CloseIngest, CloseReturns, StartType, Mains, cfgVars, ingVars
  <2>2. UNCHANGED <<receivers, tickPc, tickMsg, ingestPc, ingestReq, ingestChannels, dest>>
    BY <1>6 DEF CloseIngest, CloseReturns, ingVars, tickVars
  <2>3. main' \notin Starting
    BY <1>6 DEF CloseIngest, CloseReturns, Starting
  <2> QED
    BY <2>1, <2>2, <2>3, <1>all, <1>rcv, <1>tick, <1>req, <1>pipes, <1>dest
<1>7. ASSUME NEW i \in DOMAIN receivers, Receiving(i) \/ CloseReceiver(i) PROVE MultiTypes'
  <2>1. RcvType' /\ Len(receivers') = Len(receivers)
    BY <1>7, <1>old, KeptSteps, OneReceiver
  <2>2. UNCHANGED <<main, ResolvedSources, targetMailboxes, tickPc, tickMsg>>
    BY <1>7, ReceivingFrame DEF CloseReceiver, cfgVars, tickVars
  <2>3. UNCHANGED <<ingestPc, ingestReq, dest, ingestChannels>>
    BY <1>7, ReceivingFrame DEF CloseReceiver, ingVars
  <2>4. receivers # <<>>
    BY <1>7
  <2> QED
    BY <2>1, <2>2, <2>3, <2>4, <1>all, <1>tick, <1>req, <1>pipes, <1>dest, <1>some, <1>made2
<1>8. ASSUME NEW i \in DOMAIN receivers, TickIncoming(i) PROVE MultiTypes'
  <2>1. RcvType' /\ Len(receivers') = Len(receivers)
    BY <1>8, <1>old, KeptSteps, OneReceiver
  <2>2. Head(receivers[i].out) \in UIDs
    <3>1. receivers[i] \in RcvState
      BY <1>old DEF RcvType
    <3>2. receivers[i].out \in Seq(UIDs)
      BY <3>1 DEF RcvState
    <3> QED
      BY <1>8, <3>2 DEF TickIncoming
  <2>3. tickMsg' \in Message /\ tickMsg'[1] = i
    BY <1>8, <2>2, <1>made DEF TickIncoming, Message
  <2>4. TickType'
    <3>1. i <= Len(receivers')
      BY <2>1, <1>made
    <3> QED
      BY <1>8, <2>3, <3>1, <1>ticking, Parts DEF TickIncoming, TickType
  <2>5. receivers # <<>>
    BY <1>8
  <2> QED
    BY <1>8, <2>1, <2>4, <2>5, <1>all, <1>req, <1>pipes, <1>dest, <1>some, <1>made2
       DEF TickIncoming, ingVars, cfgVars
<1>9. ASSUME NEW i \in DOMAIN receivers, TickResponse(i) PROVE MultiTypes'
  <2> DEFINE r == Head(ingestChannels[i])
  <2>1. ingestChannels[i] \in Seq(UIDs \X BOOLEAN) /\ ingestChannels[i] # <<>> /\ i \in Index
    BY <1>9, <1>made, <1>old DEF TickResponse, PipesType
  <2>2. r \in UIDs \X BOOLEAN
    BY <2>1
  <2>3. r[1] \in UIDs /\ r[2] \in BOOLEAN
    BY <2>2
  <2>4. tickMsg' = <<i, r[1], r[2]>>
    BY <1>9 DEF TickResponse, ReceiverIndex
  <2> HIDE DEF r
  <2>5. tickMsg' \in Message /\ tickMsg'[1] = i
    BY <2>1, <2>3, <2>4 DEF Message
  <2>6. TickType'
    <3>1. i <= Len(receivers')
      BY <1>9, <1>made DEF TickResponse
    <3> QED
      BY <1>9, <2>5, <3>1, <1>ticking, Parts DEF TickResponse, TickType
  <2>7. PipesType'
    <3>1. /\ Tail(ingestChannels[i]) \in Seq(UIDs \X BOOLEAN)
          /\ Len(Tail(ingestChannels[i])) = Len(ingestChannels[i]) - 1
      BY <2>1
    <3>2. Len(Tail(ingestChannels[i])) <= IngestCap
      BY <2>1, <3>1, <1>old, MultiAssumption DEF MultiAssumption, PipesType
    <3>3. ingestChannels' = [ingestChannels EXCEPT ![i] = Tail(ingestChannels[i])]
      BY <1>9 DEF TickResponse
    <3> QED
      BY <2>1, <3>1, <3>2, <3>3, <1>old DEF PipesType
  <2> QED
    BY <1>9, <2>6, <2>7, <1>all, <1>rcv, <1>req, <1>dest, <1>start
       DEF TickResponse, ingVars, cfgVars
<1>10. CASE IngestCheck \/ TickStop
  <2>1. TickType'
    BY <1>10, <1>old, <1>ticking DEF IngestCheck, TickStop, TickType
  <2>2. /\ UNCHANGED <<receivers, main, ResolvedSources, targetMailboxes>>
        /\ UNCHANGED <<ingestPc, ingestReq, dest, ingestChannels>>
    BY <1>10 DEF IngestCheck, TickStop, cfgVars, ingVars
  <2> QED
    BY <2>1, <2>2, <1>all, <1>rcv, <1>req, <1>pipes, <1>dest, <1>start
<1>11. CASE IngestSend
  <2>1. tickMsg \in Message /\ tickMsg[1] <= Len(receivers)
    BY <1>11, <1>old DEF IngestSend, TickType
  <2>2. TickType'
    BY <1>11, <1>ticking DEF IngestSend, TickType
  <2>3. \/ ingestPc' \in {"append", "refuse"} /\ ingestReq' = tickMsg
        \/ ingestPc' = "closed" /\ ingestReq' = None
    BY <1>11 DEF IngestSend
  <2>4. ReqType'
    BY <1>11, <2>1, <2>3, Parts DEF IngestSend, ReqType
  <2>5. StartType'
    BY <1>11, <1>some, <1>made2 DEF IngestSend, cfgVars
  <2> QED
    BY <1>11, <2>2, <2>4, <2>5, <1>all, <1>rcv, <1>pipes, <1>dest DEF IngestSend
<1>12. CASE TickAck
  <2> DEFINE i == tickMsg[1]
  <2>1. tickMsg \in Message /\ i \in DOMAIN receivers /\ tickMsg[2] \in UIDs
          /\ tickMsg[3] \in BOOLEAN
    BY <1>12, <1>msg, Parts DEF TickAck
  <2>2. PICK q \in Acks(receivers[i], tickMsg[2], tickMsg[3]) :
          receivers' = [receivers EXCEPT ![i] = q]
    BY <1>12 DEF TickAck
  <2> HIDE DEF i
  <2>3. receivers[i] \in RcvState /\ Bounded(receivers[i])
    BY <2>1, <1>made, <1>old DEF RcvType
  <2>4. q \in RcvState /\ Bounded(q)
    BY <2>1, <2>3, AckKept
  <2>5. RcvType' /\ Len(receivers') = Len(receivers)
    BY <2>1, <2>2, <2>4, <1>old, OneReceiver
  <2>6. TickType'
    BY <1>12, <1>ticking DEF TickAck, TickType
  <2>7. receivers # <<>>
    BY <2>1
  <2> QED
    BY <1>12, <2>5, <2>6, <2>7, <1>all, <1>req, <1>pipes, <1>dest, <1>some, <1>made2
       DEF TickAck, ingVars, cfgVars
<1>13. CASE IngestAppend
  <2>1. /\ ingestReq \in Message /\ ingestReq[1] \in Index /\ ingestReq[2] \in UIDs
        /\ ingestReq[1] <= Len(receivers)
    BY <1>13, <1>old, Parts DEF IngestAppend, ReqType
  <2>2. PICK stores \in BOOLEAN, ok \in BOOLEAN :
          /\ ingestReq' = <<ingestReq[1], ingestReq[2], ok>>
          /\ LET copy == <<targetMailboxes[ingestReq[1]], ResolvedSources[ingestReq[1]],
                           ingestReq[2]>>
             IN  dest' = IF stores THEN [dest EXCEPT ![copy] = @ + 1] ELSE dest
    BY <1>13 DEF IngestAppend
  <2>3. ingestReq' \in Message /\ ingestReq'[1] = ingestReq[1]
    BY <2>1, <2>2 DEF Message
  <2>4. ReqType'
    BY <1>13, <2>1, <2>3, Parts DEF IngestAppend, ReqType
  <2>5. DestType'
    <3> DEFINE copy == <<targetMailboxes[ingestReq[1]], ResolvedSources[ingestReq[1]],
                         ingestReq[2]>>
    <3>1. dest' = dest \/ dest' = [dest EXCEPT ![copy] = @ + 1]
      BY <2>2
    <3> HIDE DEF copy
    <3>2. dest' \in [Mailboxes \X Sources \X UIDs -> Nat]
      BY <3>1, <1>old DEF DestType
    <3> QED
      BY <3>2 DEF DestType
  <2>6. StartType'
    BY <1>13, <1>some, <1>made2 DEF IngestAppend, cfgVars
  <2> QED
    BY <1>13, <2>4, <2>5, <2>6, <1>all, <1>rcv, <1>tick, <1>pipes DEF IngestAppend, tickVars
<1>14. CASE IngestReply
  <2> DEFINE i == ingestReq[1]
             a == <<ingestReq[2], ingestReq[3]>>
  <2>1. ingestReq \in Message
    BY <1>14, <1>msg DEF IngestReply
  <2>2. i \in Index /\ a \in UIDs \X BOOLEAN
    BY <2>1, Parts
  <2>3. /\ ingestChannels' = [ingestChannels EXCEPT ![i] = Append(ingestChannels[i], a)]
        /\ Len(ingestChannels[i]) < IngestCap
    BY <1>14 DEF IngestReply, Room
  <2> HIDE DEF i, a
  <2>4. ingestChannels[i] \in Seq(UIDs \X BOOLEAN)
    BY <2>2, <1>old DEF PipesType
  <2>5. /\ Append(ingestChannels[i], a) \in Seq(UIDs \X BOOLEAN)
        /\ Len(Append(ingestChannels[i], a)) <= IngestCap
    BY <2>2, <2>3, <2>4, MultiAssumption DEF MultiAssumption
  <2>6. PipesType'
    BY <2>2, <2>3, <2>5, <1>old DEF PipesType
  <2>7. ReqType'
    BY <1>14 DEF IngestReply, ReqType
  <2>8. StartType'
    BY <1>14, <1>some, <1>made2 DEF IngestReply, cfgVars
  <2> QED
    BY <1>14, <2>6, <2>7, <2>8, <1>all, <1>rcv, <1>tick, <1>dest DEF IngestReply, tickVars
<1>15. CASE IngestQuit \/ IngestClosed
  <2>1. ReqType'
    BY <1>15, <1>old DEF IngestQuit, IngestClosed, ReqType
  <2>2. StartType'
    BY <1>15, <1>some, <1>made2 DEF IngestQuit, IngestClosed, cfgVars
  <2> QED
    BY <1>15, <2>1, <2>2, <1>all, <1>rcv, <1>tick, <1>pipes, <1>dest
       DEF IngestQuit, IngestClosed, tickVars
<1>16. CASE UNCHANGED multiVars
  BY <1>16, <1>all, <1>rcv, <1>tick, <1>req, <1>pipes, <1>dest, <1>start
     DEF multiVars, cfgVars, tickVars, ingVars
<1> QED
  BY <1>1, <1>2, <1>3, <1>4, <1>5, <1>6, <1>7, <1>8, <1>9, <1>10, <1>11, <1>12, <1>13, <1>14,
     <1>15, <1>16 DEF Next, Start, Signal, Close, Tick, Ingest, Ended

(* The pump starts with the types, and has them always.                    *)
LEMMA TypesInit == Init => MultiTypes
<1> SUFFICES ASSUME Init PROVE MultiTypes
  OBVIOUS
<1>1. \A S : <<>> \in Seq(S) /\ Len(<<>>) = 0
  OBVIOUS
<1>2. RcvType
  BY <1>1, NType DEF Init, RcvType
<1>3. TickType /\ ReqType
  BY DEF Init, TickType, ReqType
<1>4. PipesType
  BY <1>1, MultiAssumption DEF MultiAssumption, Init, PipesType
<1>5. DestType
  BY DEF Init, DestType
<1>6. StartType
  BY DEF Init, StartType, Mains
<1> QED
  BY <1>2, <1>3, <1>4, <1>5, <1>6 DEF MultiTypes

LEMMA TypesAlways == Spec => []MultiTypes
  BY TypesInit, TypesStep, PTL DEF Spec

(* Only a receiver that has been made is abandoned.                        *)
LEMMA AbandonedStep ==
  ASSUME MultiTypes, abandoned \subseteq Index, [Next]_multiVars
  PROVE  (abandoned \subseteq Index)'
<1>same. UNCHANGED abandoned => (abandoned \subseteq Index)'
  OBVIOUS
<1>1. CASE Start \/ Signal \/ Close
  BY <1>1, <1>same DEF Start, Resolve, Run, NewIngest, NewReceiver, StartTick, Signal,
     Interrupt1, Interrupt2, Close, Done, CloseReceiver, CloseIngest, CloseReturns, stopVars
<1>2. CASE Tick \/ Ingest
  BY <1>2, <1>same DEF Tick, TickIncoming, TickResponse, IngestCheck, IngestSend, TickAck,
     TickStop, Ingest, IngestAppend, IngestReply, IngestQuit, IngestClosed, stopVars
<1>3. ASSUME NEW i \in DOMAIN receivers, Receiving(i) PROVE (abandoned \subseteq Index)'
  <2>1. i \in Index
    BY MadeIndex DEF MultiTypes
  <2>2. CASE Abandon(i)
    BY <2>1, <2>2 DEF Abandon
  <2>3. CASE Fetch(i) \/ Remove(i) \/ Send(i) \/ Read(i) \/ Exit(i)
    BY <2>3, <1>same DEF Fetch, Remove, Send, Read, Exit, Becomes, stopVars
  <2> QED
    BY <1>3, <2>2, <2>3 DEF Receiving
<1>4. CASE UNCHANGED multiVars
  BY <1>4, <1>same DEF multiVars, stopVars
<1> QED
  BY <1>1, <1>2, <1>3, <1>4 DEF Next, Ended

(* Type correctness of the many-to-one pump: no channel between tick, the  *)
(* receivers and the ingest client ever holds more than its capacity, and  *)
(* tick and the ingest client hold a message exactly while they handle it. *)
THEOREM MultiTypeCorrect == Spec => []MultiTypeOK
<1>1. Init => abandoned \subseteq Index
  BY DEF Init
<1>2. MultiTypes /\ abandoned \subseteq Index /\ [Next]_multiVars => (abandoned \subseteq Index)'
  BY AbandonedStep
<1> QED
  BY <1>1, <1>2, TypesAlways, TypesImply, PTL DEF Spec
-----------------------------------------------------------------------------
(***************************************************************************)
(* The order of stopping.  tick works only while the command is running;   *)
(* the ingest client is told to quit only after every receiver has exited, *)
(* and shuts down only when told to.                                       *)
(***************************************************************************)
ShutdownOrder ==
  /\ main \in {"abort", "abortIngest"} => tickPc = "off"
  /\ main \in {"close", "closeIngest"} => tickPc = "done"
  /\ ingestQuit => main \in {"abortIngest", "closeIngest", "failed", "terminated"}
  /\ Shutdown => ingestQuit
  /\ main \in {"abortIngest", "closeIngest"} => AllExited
  /\ NoSendOnClosed
  /\ NothingLeftOpen

(* Every step keeps the order.                                             *)
LEMMA OrderStep == ASSUME MultiTypes, ShutdownOrder, [Next]_multiVars PROVE ShutdownOrder'
<1> USE DEF NoSendOnClosed, Shutdown
<1>old. /\ main \in Mains
        /\ main \in {"resolve", "run", "newIngest"} => receivers = <<>> /\ ingestPc = "off"
        /\ main \in Starting => tickPc = "off"
        /\ RcvType
  BY DEF MultiTypes, StartType, TickType
\* no step of a receiver alone, and none of the pump, makes it start again
<1>rcv. ASSUME NEW i \in DOMAIN receivers, Receiving(i) \/ CloseReceiver(i)
        PROVE  AllExited => AllExited'
  <2>1. PICK q \in RcvState : /\ Bounded(q) /\ Kept(receivers[i], q)
                              /\ receivers' = [receivers EXCEPT ![i] = q]
    BY <1>rcv, <1>old, KeptSteps
  <2>2. /\ DOMAIN receivers' = DOMAIN receivers /\ receivers'[i] = q
        /\ \A j \in DOMAIN receivers : j # i => receivers'[j] = receivers[j]
    BY <2>1, <1>old, OneReceiver
  <2> QED
    BY <2>1, <2>2 DEF AllExited, Kept
<1>1. CASE Resolve \/ Run
  BY <1>1, <1>old DEF Resolve, Run, ShutdownOrder, NothingLeftOpen, Starting, tickVars, ingVars
<1>2. CASE NewIngest
  BY <1>2, <1>old DEF NewIngest, ShutdownOrder, NothingLeftOpen, Starting, tickVars
<1>3. CASE NewReceiver
  BY <1>3, <1>old DEF NewReceiver, ShutdownOrder, NothingLeftOpen, Starting, tickVars, ingVars
<1>4. CASE StartTick \/ Interrupt1 \/ Interrupt2 \/ Done
  BY <1>4, <1>old DEF StartTick, Interrupt1, Interrupt2, Done, TickReturned, ShutdownOrder,
     NothingLeftOpen, tickVars, ingVars
<1>5. CASE CloseIngest
  BY <1>5 DEF CloseIngest, AllExited, ShutdownOrder, NothingLeftOpen, tickVars
<1>6. CASE CloseReturns
  BY <1>6 DEF CloseReturns, AllExited, ShutdownOrder, NothingLeftOpen, tickVars, ingVars
<1>7. ASSUME Alive, NEW i \in DOMAIN receivers, Receiving(i) \/ CloseReceiver(i)
      PROVE  ShutdownOrder'
  <2>1. UNCHANGED <<main, tickPc, ingestPc, ingestQuit>>
    BY <1>7, ReceivingFrame DEF CloseReceiver, tickVars, ingVars
  <2> QED
    BY <1>7, <2>1, <1>rcv DEF ShutdownOrder, NothingLeftOpen, Alive
<1>8. CASE Alive /\ Tick
  <2>1. tickPc \in {"select", "check", "send", "ack"} /\ UNCHANGED main /\ UNCHANGED ingestQuit
    BY <1>8 DEF Tick, TickIncoming, TickResponse, IngestCheck, IngestSend, TickAck, TickStop,
       ingVars
  <2>2. main \in {"running"} /\ ~ingestQuit /\ ~Shutdown
    BY <1>8, <2>1, <1>old DEF Mains, Alive, ShutdownOrder, Starting
  <2>3. tickPc' # "panic" /\ ~Shutdown'
    BY <1>8, <2>1, <2>2 DEF Tick, TickIncoming, TickResponse, IngestCheck, IngestSend, TickAck,
       TickStop, ingVars
  <2> QED
    BY <2>1, <2>2, <2>3 DEF ShutdownOrder, NothingLeftOpen
<1>9. CASE Alive /\ Ingest
  <2>1. UNCHANGED <<main, tickPc, receivers, ingestQuit>>
    BY <1>9 DEF Ingest, IngestAppend, IngestReply, IngestQuit, IngestClosed, tickVars
  <2>2. Shutdown' => ingestQuit
    BY <1>9 DEF Ingest, IngestAppend, IngestReply, IngestQuit, IngestClosed, ShutdownOrder
  <2> QED
    BY <1>9, <2>1, <2>2 DEF ShutdownOrder, NothingLeftOpen, Alive, AllExited
<1>10. CASE UNCHANGED multiVars
  BY <1>10 DEF multiVars, tickVars, ingVars, ShutdownOrder, NothingLeftOpen, AllExited
<1> QED
  BY <1>1, <1>2, <1>3, <1>4, <1>5, <1>6, <1>7, <1>8, <1>9, <1>10
     DEF Next, Start, Signal, Close, Ended

(* The order is kept always.                                               *)
LEMMA OrderAlways == Spec => []ShutdownOrder
<1>1. Init => ShutdownOrder
  BY DEF Init, ShutdownOrder, Shutdown, NoSendOnClosed, NothingLeftOpen
<1>2. MultiTypes /\ ShutdownOrder /\ [Next]_multiVars => ShutdownOrder'
  BY OrderStep
<1> QED
  BY <1>1, <1>2, TypesAlways, PTL DEF Spec

(* tick never sends on the channel that drain closes, although it checks   *)
(* the shutdown flag only before the send: by the time the ingest client   *)
(* shuts down, tick has returned or was never started.                     *)
THEOREM NeverSendsOnClosed == Spec => []NoSendOnClosed
<1>1. ShutdownOrder => NoSendOnClosed
  BY DEF ShutdownOrder
<1> QED
  BY <1>1, OrderAlways, PTL

(* When the command ends, after a start that failed anywhere as well as    *)
(* after a stop, no receiver and no ingest client is left running.         *)
THEOREM EndsWithNothingOpen == Spec => []NothingLeftOpen
<1>1. ShutdownOrder => NothingLeftOpen
  BY DEF ShutdownOrder
<1> QED
  BY <1>1, OrderAlways, PTL
-----------------------------------------------------------------------------
(***************************************************************************)
(* No source loses mail.  As for one source, every acknowledgement without *)
(* an error on its way back (with the ingest client, in the channel of its *)
(* source, with tick, in the receiver's channel) stands for a copy, here   *)
(* of that source's message: indices and sources must match all the way.   *)
(***************************************************************************)
Copied(i, u) == \E b \in Mailboxes : dest[<<b, ResolvedSources[i], u>>] > 0

RcvCopied(i) ==
  /\ \A u \in receivers[i].done : Copied(i, u)
  /\ \A u \in UIDs : HoldsAck(receivers[i].acks, u) => Copied(i, u)
  /\ \A u \in Backlog[ResolvedSources[i]] \ receivers[i].box : Copied(i, u)
PipesCopied ==
  /\ \A i \in Index : \A u \in UIDs : HoldsAck(ingestChannels[i], u) => Copied(i, u)
  /\ main = "resolve" => \A i \in Index : ingestChannels[i] = <<>>
TickCopied ==
  /\ tickPc \in {"check", "send"} => tickMsg[3] = FALSE
  /\ tickPc = "ack" /\ tickMsg[3] => Copied(tickMsg[1], tickMsg[2])
ReqCopied ==
  /\ ingestPc = "refuse" => ingestReq[3] = FALSE
  /\ ingestPc = "reply" /\ ingestReq[3] => Copied(ingestReq[1], ingestReq[2])
SourcesCopied ==
  /\ \A i \in DOMAIN receivers : RcvCopied(i)
  /\ PipesCopied /\ TickCopied /\ ReqCopied

(* Once the sources are read, a copy of a message stays one.               *)
LEMMA CopiedStays ==
  ASSUME MultiTypes, [Next]_multiVars, main # "resolve"
  PROVE  /\ UNCHANGED ResolvedSources
         /\ \A i \in Index : \A u \in UIDs : Copied(i, u) => Copied(i, u)'
<1>1. CASE UNCHANGED multiVars \/ ~Alive
  <2>1. UNCHANGED <<ResolvedSources, dest>>
    BY <1>1 DEF Next, Ended, multiVars, cfgVars, ingVars
  <2> QED
    BY <2>1 DEF Copied
<1>2. CASE Alive /\ Next
  <2>1. UNCHANGED ResolvedSources
    <3>1. CASE Start
      BY <3>1 DEF Start, Resolve, Run, NewIngest, NewReceiver, StartTick, cfgVars
    <3>2. CASE Signal \/ Close
      BY <3>2 DEF Signal, Interrupt1, Interrupt2, Close, Done, CloseReceiver, CloseIngest,
         CloseReturns, cfgVars
    <3>3. CASE Tick
      BY <3>3 DEF Tick, TickIncoming, TickResponse, IngestCheck, IngestSend, TickAck, TickStop,
         cfgVars
    <3>4. CASE Ingest
      BY <3>4 DEF Ingest, IngestAppend, IngestReply, IngestQuit, IngestClosed, cfgVars
    <3>5. ASSUME NEW i, Receiving(i) PROVE UNCHANGED ResolvedSources
      BY <3>5, ReceivingFrame
    <3> QED
      BY <1>2, <3>1, <3>2, <3>3, <3>4, <3>5 DEF Next, Ended
  <2>2. ResolvedSources \in [Index -> Sources] /\ dest \in [Mailboxes \X Sources \X UIDs -> Nat]
    BY <1>2 DEF MultiTypes, StartType, DestType, Orders, Alive
  <2>3. UNCHANGED dest \/ \E copy : dest' = [dest EXCEPT ![copy] = @ + 1]
    <3>1. CASE Start
      BY <3>1 DEF Start, Resolve, Run, NewIngest, NewReceiver, StartTick, ingVars
    <3>2. CASE Signal \/ Close
      BY <3>2 DEF Signal, Interrupt1, Interrupt2, Close, Done, CloseReceiver, CloseIngest,
         CloseReturns, ingVars
    <3>3. CASE Tick
      BY <3>3 DEF Tick, TickIncoming, TickResponse, IngestCheck, IngestSend, TickAck, TickStop,
         ingVars
    <3>4. CASE Ingest
      BY <3>4 DEF Ingest, IngestAppend, IngestReply, IngestQuit, IngestClosed
    <3>5. ASSUME NEW i, Receiving(i) PROVE UNCHANGED dest
      BY <3>5, ReceivingFrame
    <3> QED
      BY <1>2, <3>1, <3>2, <3>3, <3>4, <3>5 DEF Next, Ended
  <2>4. \A d \in Mailboxes \X Sources \X UIDs : dest[d] > 0 => dest'[d] > 0
    BY <2>2, <2>3
  <2>5. \A i \in Index : \A u \in UIDs : \A b \in Mailboxes :
          <<b, ResolvedSources[i], u>> \in Mailboxes \X Sources \X UIDs
    BY <2>2
  <2> QED
    BY <2>1, <2>4, <2>5 DEF Copied
<1> QED
  BY <1>1, <1>2

(* Every step preserves the invariant.                                     *)
LEMMA SourcesStep ==
  ASSUME MultiTypes, SourcesCopied, [Next]_multiVars, main # "resolve"
  PROVE  SourcesCopied'
<1>old. RcvType /\ TickType /\ ReqType /\ PipesType /\ DestType /\ StartType
  BY DEF MultiTypes
<1>made. /\ DOMAIN receivers = 1..Len(receivers) /\ Len(receivers) \in Nat
         /\ \A i \in DOMAIN receivers : i \in Index
  BY <1>old, MadeIndex
<1>stay. /\ UNCHANGED ResolvedSources
         /\ \A i \in Index : \A u \in UIDs : Copied(i, u) => Copied(i, u)'
  BY CopiedStays
<1>later. main' # "resolve"
  <2>1. CASE UNCHANGED main
    BY <2>1
  <2>2. UNCHANGED main \/ Start \/ Signal \/ Close
    BY ReceivingFrame DEF Next, Ended, multiVars, Tick, TickIncoming, TickResponse, IngestCheck,
       IngestSend, TickAck, TickStop, Ingest, IngestAppend, IngestReply, IngestQuit, IngestClosed
  <2>3. CASE Start \/ Signal \/ Close
    BY <2>3 DEF Start, Resolve, Run, NewIngest, NewReceiver, StartTick, Signal, Interrupt1,
       Interrupt2, Close, Done, CloseReceiver, CloseIngest, CloseReturns
  <2> QED
    BY <2>1, <2>2, <2>3
<1>mail. main # "failed" => \A i \in Index : Backlog[ResolvedSources[i]] \subseteq UIDs
  BY <1>old DEF StartType, Orders, UIDs
<1>uids. \A i \in DOMAIN receivers : receivers[i] \in RcvState /\ receivers[i].done \subseteq UIDs
  <2>1. \A i \in DOMAIN receivers : receivers[i] \in RcvState
    BY <1>old DEF RcvType
  <2> QED
    BY <2>1 DEF RcvState
\* a receiver that is left alone
<1>rcv. ASSUME main # "failed", NEW i \in DOMAIN receivers, receivers'[i] = receivers[i]
        PROVE  RcvCopied(i)'
  BY <1>rcv, <1>made, <1>stay, <1>uids, <1>mail DEF SourcesCopied, RcvCopied
<1>rcvs. UNCHANGED receivers /\ main # "failed" => \A i \in DOMAIN receivers' : RcvCopied(i)'
  BY <1>rcv
\* a receiver that only learns from its channel
<1>kept. ASSUME main # "failed", NEW i \in DOMAIN receivers, NEW q \in RcvState,
                Kept(receivers[i], q), Bounded(q), receivers' = [receivers EXCEPT ![i] = q]
         PROVE  \A j \in DOMAIN receivers' : RcvCopied(j)'
  <2>1. /\ DOMAIN receivers' = DOMAIN receivers /\ receivers'[i] = q
        /\ \A j \in DOMAIN receivers : j # i => receivers'[j] = receivers[j]
    BY <1>kept, <1>old, OneReceiver
  <2>2. q.done \subseteq UIDs
    BY DEF RcvState
  <2>3. \A u \in UIDs : u \in q.done \/ HoldsAck(q.acks, u) => Copied(i, u)'
    BY <1>kept, <1>made, <1>stay DEF SourcesCopied, RcvCopied, Kept
  <2>4. \A u \in Backlog[ResolvedSources[i]] \ q.box : Copied(i, u)'
    BY <1>kept, <1>made, <1>stay, <1>mail DEF SourcesCopied, RcvCopied, Kept
  <2>5. RcvCopied(i)'
    BY <2>1, <2>2, <2>3, <2>4, <1>stay DEF RcvCopied
  <2> QED
    BY <2>1, <2>5, <1>kept, <1>rcv
<1>pipes. UNCHANGED ingestChannels => PipesCopied'
  BY <1>stay, <1>later DEF SourcesCopied, PipesCopied
<1>tick. UNCHANGED <<tickPc, tickMsg>> => TickCopied'
  <2>1. tickPc = "ack" => tickMsg[1] \in Index /\ tickMsg[2] \in UIDs
    BY <1>old, Parts DEF TickType
  <2> QED
    BY <2>1, <1>stay DEF SourcesCopied, TickCopied
<1>req. UNCHANGED <<ingestPc, ingestReq>> => ReqCopied'
  <2>1. ingestPc = "reply" => ingestReq[1] \in Index /\ ingestReq[2] \in UIDs
    BY <1>old, Parts DEF ReqType
  <2> QED
    BY <2>1, <1>stay DEF SourcesCopied, ReqCopied
<1>1. CASE Alive /\ NewReceiver
  <2>1. UNCHANGED <<tickPc, tickMsg, ingestPc, ingestReq, ingestChannels>>
    BY <1>1 DEF NewReceiver, tickVars, ingVars
  <2>2. CASE UNCHANGED receivers
    BY <1>1, <2>1, <2>2, <1>rcvs, <1>pipes, <1>tick, <1>req DEF SourcesCopied, Alive
  <2>3. CASE receivers' =
               Append(receivers, NewState(Backlog[ResolvedSources[Len(receivers) + 1]]))
    <3> DEFINE mail == Backlog[ResolvedSources[Len(receivers) + 1]]
               q == NewState(mail)
    <3>1. Len(receivers) + 1 \in Index
      BY <1>1, <1>made, NType DEF NewReceiver, Index
    <3>2. mail \in SUBSET UIDs
      BY <1>1, <3>1, <1>mail DEF Alive
    <3>3. receivers' = Append(receivers, q)
      BY <2>3
    <3>4. q \in RcvState /\ q.done = {} /\ q.acks = <<>> /\ q.box = mail
      BY <3>2, NewKept
    <3> HIDE DEF q
    <3>5. /\ DOMAIN receivers' = 1..(Len(receivers) + 1)
          /\ receivers'[Len(receivers) + 1] = q
          /\ \A i \in DOMAIN receivers : receivers'[i] = receivers[i]
      BY <3>3, <3>4, <1>old DEF RcvType
    <3>6. \A u : ~HoldsAck(q.acks, u)
      BY <3>4 DEF HoldsAck
    <3>7. ASSUME NEW i \in DOMAIN receivers' PROVE RcvCopied(i)'
      <4>1. CASE i = Len(receivers) + 1
        <5>1. receivers'[i] = q /\ q.box = Backlog[ResolvedSources'[i]]
          BY <4>1, <3>4, <3>5, <1>stay
        <5> QED
          BY <5>1, <3>4, <3>6 DEF RcvCopied
      <4>2. CASE i \in DOMAIN receivers
        BY <1>1, <4>2, <3>5, <1>rcv DEF Alive
      <4> QED
        BY <3>5, <4>1, <4>2, <1>made
    <3> QED
      BY <2>1, <3>7, <1>pipes, <1>tick, <1>req DEF SourcesCopied
  <2> QED
    BY <1>1, <2>2, <2>3 DEF NewReceiver
<1>2. CASE Alive /\ (Resolve \/ Run \/ NewIngest \/ StartTick \/ Signal \/ Done \/ CloseIngest
                       \/ CloseReturns)
  <2>1. UNCHANGED <<receivers, ingestChannels, ingestReq, tickMsg>>
    BY <1>2 DEF Resolve, Run, NewIngest, StartTick, Signal, Interrupt1, Interrupt2, Done,
       CloseIngest, CloseReturns, tickVars, ingVars
  <2>2. UNCHANGED tickPc \/ tickPc' = "select"
    BY <1>2 DEF Resolve, Run, NewIngest, StartTick, Signal, Interrupt1, Interrupt2, Done,
       CloseIngest, CloseReturns, tickVars
  <2>3. UNCHANGED ingestPc \/ ingestPc' = "select"
    BY <1>2 DEF Resolve, Run, NewIngest, StartTick, Signal, Interrupt1, Interrupt2, Done,
       CloseIngest, CloseReturns, ingVars
  <2>4. TickCopied'
    BY <2>1, <2>2, <1>tick DEF TickCopied
  <2>5. ReqCopied'
    BY <2>1, <2>3, <1>req DEF ReqCopied
  <2> QED
    BY <1>2, <2>1, <2>4, <2>5, <1>rcvs, <1>pipes DEF SourcesCopied, Alive
<1>3. ASSUME Alive, NEW i \in DOMAIN receivers, Receiving(i) \/ CloseReceiver(i)
      PROVE  SourcesCopied'
  <2>1. UNCHANGED <<tickPc, tickMsg>>
    BY <1>3, ReceivingFrame DEF CloseReceiver, tickVars
  <2>2. UNCHANGED <<ingestPc, ingestReq, ingestChannels>>
    BY <1>3, ReceivingFrame DEF CloseReceiver, ingVars
  <2>3. \A j \in DOMAIN receivers' : RcvCopied(j)'
    BY <1>3, <1>old, <1>kept, KeptSteps DEF Alive
  <2> QED
    BY <2>1, <2>2, <2>3, <1>pipes, <1>tick, <1>req DEF SourcesCopied
<1>4. ASSUME Alive, NEW i \in DOMAIN receivers, TickIncoming(i) PROVE SourcesCopied'
  <2>1. /\ tickPc' = "check" /\ tickMsg' = <<i, Head(receivers[i].out), FALSE>>
        /\ UNCHANGED <<ingestPc, ingestReq, ingestChannels>>
    BY <1>4 DEF TickIncoming, ingVars
  <2>2. TickCopied'
    BY <2>1 DEF TickCopied
  <2>3. \A j \in DOMAIN receivers' : RcvCopied(j)'
    BY <1>4, <1>old, <1>kept, KeptSteps DEF Alive
  <2> QED
    BY <2>1, <2>2, <2>3, <1>pipes, <1>req DEF SourcesCopied
<1>5. ASSUME Alive, NEW i \in DOMAIN receivers, TickResponse(i) PROVE SourcesCopied'
  <2> DEFINE s == ingestChannels[i]
  <2>1. s \in Seq(UIDs \X BOOLEAN) /\ s # <<>> /\ i \in Index
    BY <1>5, <1>made, <1>old DEF TickResponse, PipesType
  <2>2. /\ ingestChannels' = [ingestChannels EXCEPT ![i] = Tail(s)]
        /\ tickMsg' = <<i, Head(s)[1], Head(s)[2]>> /\ tickPc' = "ack"
        /\ UNCHANGED <<receivers, ingestPc, ingestReq>>
    BY <1>5 DEF TickResponse, ReceiverIndex, ingVars
  <2> HIDE DEF s
  <2>3. /\ 1 \in 1..Len(s) /\ Head(s) = s[1] /\ Head(s) \in UIDs \X BOOLEAN
        /\ \A k \in 1..Len(Tail(s)) : k + 1 \in 1..Len(s) /\ Tail(s)[k] = s[k + 1]
    BY <2>1
  <2>4. \A u : HoldsAck(Tail(s), u) => HoldsAck(s, u)
    <3> SUFFICES ASSUME NEW u, NEW k \in 1..Len(Tail(s)), Tail(s)[k] = <<u, TRUE>>
                 PROVE  HoldsAck(s, u)
      BY DEF HoldsAck
    <3>1. k + 1 \in 1..Len(s) /\ s[k + 1] = <<u, TRUE>>
      BY <2>3
    <3> QED
      BY <3>1 DEF HoldsAck
  <2>5. PipesCopied'
    <3>1. \A j \in Index : \A u \in UIDs : HoldsAck(ingestChannels'[j], u) =>
            HoldsAck(ingestChannels[j], u)
      BY <2>1, <2>2, <2>4, <1>old DEF PipesType, s
    <3> QED
      BY <3>1, <1>stay, <1>later DEF SourcesCopied, PipesCopied
  <2>6. TickCopied'
    <3>1. PICK u \in UIDs, ok \in BOOLEAN : Head(s) = <<u, ok>>
      BY <2>3
    <3>2. tickMsg'[1] = i /\ tickMsg'[2] = u /\ tickMsg'[3] = ok
      BY <2>2, <3>1
    <3>3. ASSUME ok PROVE Copied(i, u)'
      <4>1. ok = TRUE
        BY <3>3
      <4>2. s[1] = <<u, TRUE>> /\ 1 \in 1..Len(s)
        BY <2>3, <3>1, <4>1
      <4>3. HoldsAck(s, u)
        BY <4>2 DEF HoldsAck
      <4> QED
        BY <2>1, <4>3, <1>stay DEF SourcesCopied, PipesCopied, s
    <3> QED
      BY <2>2, <3>2, <3>3 DEF TickCopied, Copied
  <2> QED
    BY <1>5, <2>2, <2>5, <2>6, <1>rcvs, <1>req DEF SourcesCopied, Alive
<1>6. CASE Alive /\ (IngestCheck \/ TickStop)
  <2>1. UNCHANGED <<receivers, ingestPc, ingestReq, ingestChannels, tickMsg>>
    BY <1>6 DEF IngestCheck, TickStop, ingVars
  <2>2. TickCopied'
    BY <1>6, <2>1 DEF IngestCheck, TickStop, SourcesCopied, TickCopied
  <2> QED
    BY <1>6, <2>1, <2>2, <1>rcvs, <1>pipes, <1>req DEF SourcesCopied, Alive
<1>7. CASE Alive /\ IngestSend
  <2>1. /\ tickPc = "send" /\ tickPc' \in {"panic", "select"}
        /\ UNCHANGED <<receivers, ingestChannels>>
        /\ \/ ingestPc' \in {"append", "closed"}
           \/ ingestPc' = "refuse" /\ ingestReq' = tickMsg
    BY <1>7 DEF IngestSend
  <2>2. TickCopied' /\ ReqCopied'
    BY <2>1 DEF SourcesCopied, TickCopied, ReqCopied
  <2> QED
    BY <1>7, <2>1, <2>2, <1>rcvs, <1>pipes DEF SourcesCopied, Alive
<1>8. CASE Alive /\ TickAck
  <2>0. PICK i \in Index, u \in UIDs, ok \in BOOLEAN :
          tickMsg[1] = i /\ tickMsg[2] = u /\ tickMsg[3] = ok
    BY <1>8, <1>old, Parts DEF TickAck, TickType
  <2>1. i <= Len(receivers) /\ (ok => Copied(i, u)')
    <3>1. i <= Len(receivers)
      BY <1>8, <2>0, <1>old, Parts DEF TickAck, TickType
    <3>2. ok => Copied(i, u)
      BY <1>8, <2>0 DEF TickAck, SourcesCopied, TickCopied
    <3> QED
      BY <3>1, <3>2, <1>stay
  <2>2. PICK q \in Acks(receivers[i], u, ok) : receivers' = [receivers EXCEPT ![i] = q]
    BY <1>8, <2>0 DEF TickAck
  <2>3. i \in DOMAIN receivers
    BY <2>1, <1>made DEF Index
  <2>4. receivers[i] \in RcvState /\ Bounded(receivers[i])
    BY <2>3, <1>made, <1>old DEF RcvType
  <2>5. /\ q \in RcvState /\ Bounded(q)
        /\ q.done = receivers[i].done /\ q.box = receivers[i].box
        /\ \A v : HoldsAck(q.acks, v) => HoldsAck(receivers[i].acks, v) \/ (v = u /\ ok)
    <3> DEFINE p == receivers[i]
    <3>1. p \in RcvState /\ Bounded(p) /\ q \in Acks(p, u, ok)
      BY <2>2, <2>4
    <3> HIDE DEF p
    <3>2. /\ q \in RcvState /\ Bounded(q) /\ q.done = p.done /\ q.box = p.box
          /\ \A v : HoldsAck(q.acks, v) => HoldsAck(p.acks, v) \/ (v = u /\ ok)
      BY <3>1, AckKept
    <3> QED
      BY <3>2 DEF p
  <2>6. /\ DOMAIN receivers' = DOMAIN receivers /\ receivers'[i] = q
        /\ \A j \in DOMAIN receivers : j # i => receivers'[j] = receivers[j]
    BY <2>2, <2>3, <2>5, <1>old, OneReceiver
  <2>7. \A v \in UIDs : HoldsAck(q.acks, v) => Copied(i, v)'
    BY <2>1, <2>3, <2>5, <1>stay DEF SourcesCopied, RcvCopied
  <2>8. \A v \in q.done : Copied(i, v)'
    BY <2>1, <2>3, <2>5, <1>stay, <1>uids DEF SourcesCopied, RcvCopied
  <2>9. \A v \in Backlog[ResolvedSources[i]] \ q.box : Copied(i, v)'
    BY <1>8, <2>1, <2>3, <2>5, <1>stay, <1>mail DEF SourcesCopied, RcvCopied, Alive
  <2>10. RcvCopied(i)'
    BY <2>6, <2>7, <2>8, <2>9, <1>stay DEF RcvCopied
  <2>11. \A j \in DOMAIN receivers' : RcvCopied(j)'
    BY <1>8, <2>6, <2>10, <1>rcv DEF Alive
  <2>12. tickPc' = "select" /\ UNCHANGED <<ingestPc, ingestReq, ingestChannels>>
    BY <1>8 DEF TickAck, ingVars
  <2> QED
    BY <2>11, <2>12, <1>pipes, <1>req DEF SourcesCopied, TickCopied
<1>9. CASE Alive /\ IngestAppend
  <2>1. PICK i \in Index, u \in UIDs : ingestReq[1] = i /\ ingestReq[2] = u
    BY <1>9, <1>old, Parts DEF IngestAppend, ReqType
  <2> DEFINE b == targetMailboxes[i]
             copy == <<b, ResolvedSources[i], u>>
  <2>2. b \in Mailboxes /\ ResolvedSources[i] \in Sources
    <3>1. main \notin {"resolve", "run", "failed"}
      BY <1>9, <1>old DEF IngestAppend, StartType, Alive
    <3> QED
      BY <2>1, <3>1, <1>old DEF StartType, Orders
  <2>3. PICK stores \in BOOLEAN, ok \in BOOLEAN :
          /\ ok => stores
          /\ dest' = IF stores THEN [dest EXCEPT ![copy] = @ + 1] ELSE dest
          /\ ingestReq' = <<i, u, ok>>
    BY <1>9, <2>1 DEF IngestAppend
  <2>4. copy \in Mailboxes \X Sources \X UIDs
    BY <2>1, <2>2
  <2>5. ok => dest'[copy] > 0
    <3> HIDE DEF copy
    <3> QED
      BY <2>3, <2>4, <1>old DEF DestType
  <2>6. ingestReq'[1] = i /\ ingestReq'[2] = u /\ ingestReq'[3] = ok
    BY <2>3
  <2> HIDE DEF b
  <2>7. ok => Copied(i, u)'
    BY <2>2, <2>5, <1>stay DEF Copied
  <2>8. ingestPc' = "reply" /\ UNCHANGED <<receivers, tickPc, tickMsg, ingestChannels>>
    BY <1>9 DEF IngestAppend, tickVars
  <2>9. ReqCopied'
    BY <2>6, <2>7, <2>8 DEF ReqCopied, Copied
  <2> QED
    BY <1>9, <2>8, <2>9, <1>rcvs, <1>pipes, <1>tick DEF SourcesCopied, Alive
<1>10. CASE Alive /\ IngestReply
  <2>0. PICK i \in Index, u \in UIDs, ok \in BOOLEAN :
          ingestReq[1] = i /\ ingestReq[2] = u /\ ingestReq[3] = ok
    BY <1>10, <1>old, Parts DEF IngestReply, ReqType
  <2> DEFINE a == <<u, ok>>
             s == ingestChannels[i]
  <2>1. a \in UIDs \X BOOLEAN /\ s \in Seq(UIDs \X BOOLEAN)
    BY <1>old DEF PipesType
  <2>2. \A v : a = <<v, TRUE>> => v = u /\ Copied(i, u)'
    <3>1. ok => Copied(i, u)
      BY <1>10, <2>0 DEF IngestReply, SourcesCopied, ReqCopied
    <3>2. \A v : a = <<v, TRUE>> => v = u /\ ok
      OBVIOUS
    <3> QED
      BY <3>1, <3>2, <1>stay
  <2>3. /\ ingestChannels' = [ingestChannels EXCEPT ![i] = Append(s, a)]
        /\ ingestPc' \in {"select", "drain"} /\ UNCHANGED <<receivers, tickPc, tickMsg>>
    BY <1>10, <2>0 DEF IngestReply, tickVars
  <2> HIDE DEF a
  <2>4. \A k \in 1..Len(Append(s, a)) :
          Append(s, a)[k] = a \/ (k \in 1..Len(s) /\ Append(s, a)[k] = s[k])
    <3> HIDE DEF s
    <3> QED
      BY <2>1
  <2>5. \A v \in UIDs : HoldsAck(Append(s, a), v) => Copied(i, v)'
    <3> SUFFICES ASSUME NEW v \in UIDs, NEW k \in 1..Len(Append(s, a)),
                        Append(s, a)[k] = <<v, TRUE>>
                 PROVE  Copied(i, v)'
      BY DEF HoldsAck
    <3>1. CASE Append(s, a)[k] = a
      BY <3>1, <2>2
    <3>2. CASE k \in 1..Len(s) /\ Append(s, a)[k] = s[k]
      BY <3>2, <2>1, <1>stay DEF SourcesCopied, PipesCopied, HoldsAck
    <3> QED
      BY <3>1, <3>2, <2>4
  <2>6. PipesCopied'
    <3>1. \A j \in Index : ingestChannels'[j] = IF j = i THEN Append(s, a) ELSE ingestChannels[j]
      BY <2>1, <2>3, <1>old DEF PipesType
    <3> HIDE DEF s
    <3> QED
      BY <3>1, <2>5, <1>stay, <1>later DEF SourcesCopied, PipesCopied
  <2>7. ReqCopied'
    BY <2>3 DEF ReqCopied
  <2> QED
    BY <1>10, <2>3, <2>6, <2>7, <1>rcvs, <1>tick DEF SourcesCopied, Alive
<1>11. CASE Alive /\ (IngestQuit \/ IngestClosed)
  <2>1. /\ ingestPc' \in {"drain", "closed"}
        /\ UNCHANGED <<receivers, tickPc, tickMsg, ingestChannels>>
    BY <1>11 DEF IngestQuit, IngestClosed, tickVars
  <2> QED
    BY <1>11, <2>1, <1>rcvs, <1>pipes, <1>tick DEF SourcesCopied, ReqCopied, Alive
<1>12. CASE UNCHANGED multiVars
  <2>1. UNCHANGED <<receivers, tickPc, tickMsg, ingestPc, ingestReq, ingestChannels, dest,
                    ResolvedSources, main>>
    BY <1>12 DEF multiVars, tickVars, ingVars, cfgVars
  <2>2. \A i \in DOMAIN receivers' : RcvCopied(i)'
    BY <2>1 DEF SourcesCopied, RcvCopied, Copied
  <2> QED
    BY <2>1, <2>2, <1>pipes, <1>tick, <1>req DEF SourcesCopied
<1> QED
  BY <1>1, <1>2, <1>3, <1>4, <1>5, <1>6, <1>7, <1>8, <1>9, <1>10, <1>11, <1>12
     DEF Next, Start, Close, Tick, Ingest, Ended

(* While the sources are being read nothing has been made yet.             *)
LEMMA ResolveStep ==
  ASSUME MultiTypes, [Next]_multiVars, main = "resolve"
  PROVE  /\ receivers = <<>> /\ ingestPc = "off" /\ tickPc = "off"
         /\ UNCHANGED <<receivers, ingestPc, tickPc, ingestChannels, dest>>
<1>1. receivers = <<>> /\ ingestPc = "off" /\ tickPc = "off"
  BY DEF MultiTypes, StartType, TickType, Starting
<1>2. ~Tick /\ ~Ingest
  BY <1>1 DEF Tick, TickIncoming, TickResponse, IngestCheck, IngestSend, TickAck,
     TickStop, Ingest, IngestAppend, IngestReply, IngestQuit, IngestClosed
<1>3. ~Signal /\ ~Close /\ ~\E i \in DOMAIN receivers : Receiving(i)
  BY <1>1 DEF Signal, Interrupt1, Interrupt2, Close, Done, CloseIngest, CloseReturns
<1>4. Start => Resolve
  BY DEF Start, Run, NewIngest, NewReceiver, StartTick
<1>5. Resolve \/ UNCHANGED multiVars
  BY <1>2, <1>3, <1>4 DEF Next, Ended
<1> QED
  BY <1>1, <1>5 DEF Resolve, multiVars, tickVars, ingVars

(* The invariant holds always: while the sources are being read there is   *)
(* nothing to copy yet.                                                    *)
LEMMA SourcesAlways == Spec => []SourcesCopied
<1>1. Init => SourcesCopied
  BY DEF Init, SourcesCopied, PipesCopied, TickCopied, ReqCopied, HoldsAck
<1>2. MultiTypes /\ SourcesCopied /\ [Next]_multiVars => SourcesCopied'
  <2> SUFFICES ASSUME MultiTypes, SourcesCopied, [Next]_multiVars PROVE SourcesCopied'
    OBVIOUS
  <2>1. CASE main # "resolve"
    BY <2>1, SourcesStep
  <2>2. CASE main = "resolve"
    <3>1. receivers = <<>> /\ ingestPc = "off" /\ tickPc = "off"
      BY <2>2, ResolveStep
    <3>2. UNCHANGED <<receivers, ingestPc, tickPc, ingestChannels>>
      BY <2>2, ResolveStep
    <3>3. \A i \in Index : ingestChannels'[i] = <<>>
      BY <2>2, <3>2 DEF SourcesCopied, PipesCopied
    <3>4. PipesCopied'
      <4>1. \A u : ~HoldsAck(<<>>, u)
        BY DEF HoldsAck
      <4> QED
        BY <3>3, <4>1 DEF PipesCopied
    <3> QED
      BY <3>1, <3>2, <3>4 DEF SourcesCopied, TickCopied, ReqCopied
  <2> QED
    BY <2>1, <2>2
<1> QED
  BY <1>1, <1>2, TypesAlways, PTL DEF Spec

(* Copy before remove, for every source, in whatever order the sources are *)
(* resolved and however receivers and ingest client interleave: what is    *)
(* gone from the mailbox of a source was copied under that source.         *)
THEOREM SourcesKeepTheirMail == Spec => []NoSourceLosesMail
<1>1. SourcesCopied => NoSourceLosesMail
  <2> SUFFICES ASSUME SourcesCopied, NEW m \in Mail, m[2] \notin Box(m[1])
               PROVE  \E b \in Mailboxes : dest[<<b, m[1], m[2]>>] > 0
    BY DEF NoSourceLosesMail
  <2>1. m[2] \in Backlog[m[1]]
    BY DEF Mail
  <2>2. \E i \in DOMAIN receivers : ResolvedSources[i] = m[1]
    BY <2>1 DEF Box
  <2> DEFINE i == CHOOSE j \in DOMAIN receivers : ResolvedSources[j] = m[1]
  <2>3. i \in DOMAIN receivers /\ ResolvedSources[i] = m[1]
    BY <2>2
  <2>4. Box(m[1]) = receivers[i].box
    BY <2>2 DEF Box
  <2> HIDE DEF i
  <2>5. Copied(i, m[2])
    BY <2>1, <2>3, <2>4 DEF SourcesCopied, RcvCopied
  <2> QED
    BY <2>3, <2>5 DEF Copied
<1> QED
  BY <1>1, SourcesAlways, PTL
=============================================================================
