-------------------------- MODULE MultiMoveProofs --------------------------
(***************************************************************************)
(* The many-to-one pump implements MoveMail for the mail of all sources    *)
(* together, for any set of sources, any backlogs and any capacities.      *)
(***************************************************************************)
EXTENDS MultiPumpProofs

(***************************************************************************)
(* One receiver has mail of one mailbox: what it is about to send or has   *)
(* sent out, and what is left in the mailbox.                              *)
(***************************************************************************)
Owns(p, mail) ==
  /\ p.box \subseteq mail /\ p.pending \subseteq mail
  /\ \A k \in 1..Len(p.out) : p.out[k] \in mail

\* stays with the mail it had, and puts nothing back in the mailbox
StaysWith(p, q, mail) == (Owns(p, mail) => Owns(q, mail)) /\ q.box \subseteq p.box

(* A step that leaves the channel to the pump alone.                       *)
LEMMA OwnStays ==
  ASSUME NEW p, NEW q, NEW mail, q.out = p.out, q.box \subseteq p.box,
         q.pending \subseteq p.pending \cup p.box
  PROVE  StaysWith(p, q, mail)
  BY DEF StaysWith, Owns

(* One that sends out something it was about to send.                      *)
LEMMA OwnSends ==
  ASSUME NEW p, NEW q, NEW mail, NEW u \in p.pending, p.out \in Seq(UIDs),
         p.pending \subseteq UIDs, q.out = Append(p.out, u), q.box = p.box,
         q.pending = p.pending \ {u}
  PROVE  StaysWith(p, q, mail)
<1>1. \A k \in 1..Len(Append(p.out, u)) :
        Append(p.out, u)[k] = u \/ (k \in 1..Len(p.out) /\ Append(p.out, u)[k] = p.out[k])
  OBVIOUS
<1>2. ASSUME Owns(p, mail) PROVE \A k \in 1..Len(q.out) : q.out[k] \in mail
  BY <1>1, <1>2 DEF Owns
<1>3. Owns(p, mail) => Owns(q, mail)
  BY <1>2 DEF Owns
<1> QED
  BY <1>3 DEF StaysWith

(* A receiver sends out what it fetched, and fetches from its mailbox.     *)
LEMMA ReceiverOwns ==
  ASSUME NEW p \in RcvState, NEW mail,
         NEW q \in ByItself(p) \cup Takes(p) \cup Closes(p)
  PROVE  StaysWith(p, q, mail)
<1>1. CASE q \in Fetches(p, TRUE) \cup Fetches(p, FALSE)
  <2>1. PICK S \in SUBSET p.box : q = [p EXCEPT !.pending = S]
    BY <1>1 DEF Fetches
  <2>2. q.out = p.out /\ q.box = p.box /\ q.pending = S
    BY <2>1 DEF RcvState
  <2> QED
    BY <2>2, OwnStays
<1>2. CASE q \in Delivers(p)
  <2>1. PICK u \in p.pending :
          q = [p EXCEPT !.pending = @ \ {u}, !.tracked = @ \cup {u}, !.out = Append(@, u)]
    BY <1>2 DEF Delivers
  <2>2. q.out = Append(p.out, u) /\ q.box = p.box /\ q.pending = p.pending \ {u}
    BY <2>1 DEF RcvState
  <2>3. p.out \in Seq(UIDs) /\ p.pending \subseteq UIDs
    BY DEF RcvState
  <2> QED
    BY <2>2, <2>3, OwnSends
<1>3. CASE q \in ReadsAck(p)
  <2>1. q.out = p.out /\ q.box = p.box /\ q.pending = p.pending
    BY <1>3 DEF ReadsAck, Step, RcvState
  <2> QED
    BY <2>1, OwnStays
<1>4. CASE q \in Removes(p, TRUE) \cup Removes(p, FALSE)
  <2>1. PICK c : q = [p EXCEPT !.box = @ \ c.gone, !.tracked = @ \ c.forgotten]
    BY <1>4 DEF Removes
  <2>2. q.out = p.out /\ q.box = p.box \ c.gone /\ q.pending = p.pending
    BY <2>1 DEF RcvState
  <2> QED
    BY <2>2, OwnStays
<1>5. CASE q \in Exits(p) \/ q \in Closes(p)
  <2>1. q.out = p.out /\ q.box = p.box /\ q.pending = p.pending
    BY <1>5 DEF Exits, Closes, Step, RcvState
  <2> QED
    BY <2>1, OwnStays
<1>6. CASE q \in Takes(p)
  <2>1. p.out # <<>> /\ p.out \in Seq(UIDs)
    BY <1>6 DEF Takes, Step, RcvState
  <2>2. q.out = Tail(p.out) /\ q.box = p.box /\ q.pending = p.pending
    BY <1>6 DEF Takes, Step, RcvState
  <2>3. \A k \in 1..Len(Tail(p.out)) : k + 1 \in 1..Len(p.out) /\ Tail(p.out)[k] = p.out[k + 1]
    BY <2>1
  <2> QED
    BY <2>2, <2>3 DEF StaysWith, Owns
<1>7. CASE q = p
  BY <1>7 DEF StaysWith
<1> QED
  BY <1>1, <1>2, <1>3, <1>4, <1>5, <1>6, <1>7 DEF ByItself

(* Nor does an acknowledgement change what a receiver has.                 *)
LEMMA AckOwns ==
  ASSUME NEW p \in RcvState, NEW mail, NEW u, NEW ok, NEW q \in Acks(p, u, ok)
  PROVE  StaysWith(p, q, mail)
<1> DEFINE a == <<u, ok>>
<1>1. q = [p EXCEPT !.acks = Append(@, a)]
  BY DEF Acks, Step
<1> HIDE DEF a
<1>2. q.out = p.out /\ q.box = p.box /\ q.pending = p.pending
  BY <1>1 DEF RcvState
<1> QED
  BY <1>2, OwnStays

(***************************************************************************)
(* The mail of every source stays with its source: what tick sends to the  *)
(* ingest client under an index is mail of the source of that index.       *)
(***************************************************************************)
MailOf(i) == Backlog[ResolvedSources[i]]

TickOwns == tickPc \in {"check", "send"} => tickMsg[2] \in MailOf(tickMsg[1])
ReqOwns  == ingestPc = "append" => ingestReq[2] \in MailOf(ingestReq[1])
OwnMail ==
  /\ \A i \in DOMAIN receivers : Owns(receivers[i], MailOf(i))
  /\ TickOwns /\ ReqOwns

(* Every step that changes a receiver that was there, seen through its     *)
(* index: nothing is put back in its mailbox.                              *)
LEMMA ReceiverStep ==
  ASSUME RcvType, NEW i \in DOMAIN receivers,
         \/ Receiving(i) \/ CloseReceiver(i) \/ TickIncoming(i)
         \/ \E u, ok : \E q \in Acks(receivers[i], u, ok) :
              receivers' = [receivers EXCEPT ![i] = q]
  PROVE  /\ DOMAIN receivers' = DOMAIN receivers
         /\ \A j \in DOMAIN receivers : \A mail : StaysWith(receivers[j], receivers'[j], mail)
<1> DEFINE p == receivers[i]
<1>1. p \in RcvState
  BY MadeIndex DEF RcvType
<1> HIDE DEF p
<1>2. PICK q : /\ receivers' = [receivers EXCEPT ![i] = q]
               /\ \/ q \in ByItself(p) \cup Takes(p) \cup Closes(p)
                  \/ \E u, ok : q \in Acks(p, u, ok)
  BY ReceivingStep DEF p, CloseReceiver, TickIncoming
<1>3. \A mail : StaysWith(p, q, mail)
  BY <1>1, <1>2, ReceiverOwns, AckOwns
<1>4. \A r, mail : StaysWith(r, r, mail)
  BY DEF StaysWith
<1>5. DOMAIN receivers' = DOMAIN receivers
  BY <1>2, MadeIndex DEF RcvType
<1>6. \A j \in DOMAIN receivers : receivers'[j] = IF j = i THEN q ELSE receivers[j]
  BY <1>2, MadeIndex DEF RcvType
<1> QED
  BY <1>3, <1>4, <1>5, <1>6 DEF p
\* a receiver for the next source is made
Made(n) ==
  /\ n \in Index /\ n = Len(receivers) + 1 /\ ResolvedSources \in Orders
  /\ receivers' = Append(receivers, NewState(MailOf(n)))
  /\ UNCHANGED <<ResolvedSources, dest, tickPc, tickMsg, ingestPc, ingestReq>>

(* Of every step, as far as the receivers go: one is made, or they stay    *)
(* the same ones with the mail they had.                                   *)
LEMMA ReceiversStep ==
  ASSUME MultiTypes, [Next]_multiVars
  PROVE  \/ Made(Len(receivers) + 1)
         \/ /\ DOMAIN receivers' = DOMAIN receivers
            /\ \A j \in DOMAIN receivers : \A mail : StaysWith(receivers[j], receivers'[j], mail)
<1>old. RcvType /\ TickType /\ StartType
  BY DEF MultiTypes
<1> DEFINE Same == /\ DOMAIN receivers' = DOMAIN receivers
                   /\ \A j \in DOMAIN receivers : \A mail :
                        StaysWith(receivers[j], receivers'[j], mail)
<1>0. UNCHANGED receivers => Same
  BY DEF StaysWith
<1>rcv. ASSUME NEW i \in DOMAIN receivers, Receiving(i) \/ CloseReceiver(i) \/ TickIncoming(i)
        PROVE  Same
  BY <1>rcv, <1>old, ReceiverStep
<1> HIDE DEF Same
<1>1. CASE Alive /\ NewReceiver
  <2>1. CASE UNCHANGED receivers
    BY <2>1, <1>0 DEF Same
  <2>2. CASE receivers' =
               Append(receivers, NewState(Backlog[ResolvedSources[Len(receivers) + 1]]))
    <3>1. Len(receivers) + 1 \in Index
      BY <1>1, <1>old, NType DEF RcvType, NewReceiver, Index
    <3>2. ResolvedSources \in Orders
      BY <1>1, <1>old DEF NewReceiver, StartType
    <3>3. UNCHANGED <<ResolvedSources, dest, tickPc, tickMsg, ingestPc, ingestReq>>
      BY <1>1 DEF NewReceiver, cfgVars, tickVars, ingVars
    <3> QED
      BY <2>2, <3>1, <3>2, <3>3 DEF Made, MailOf
  <2> QED
    BY <1>1, <2>1, <2>2 DEF NewReceiver
<1>2. CASE Resolve \/ Run \/ NewIngest \/ StartTick \/ Signal \/ Done \/ CloseIngest \/ CloseReturns
  <2>1. UNCHANGED receivers
    BY <1>2 DEF Resolve, Run, NewIngest, StartTick, Signal, Interrupt1, Interrupt2, Done,
       CloseIngest, CloseReturns
  <2> QED
    BY <2>1, <1>0 DEF Same
<1>3. CASE \E i \in DOMAIN receivers : Receiving(i) \/ CloseReceiver(i) \/ TickIncoming(i)
  BY <1>3, <1>rcv DEF Same
<1>4. CASE TickAck
  <2>1. tickMsg \in Message /\ tickMsg[1] <= Len(receivers)
    BY <1>4, <1>old, Parts DEF TickAck, TickType
  <2>2. PICK i \in Index, u \in UIDs, ok \in BOOLEAN :
          tickMsg[1] = i /\ tickMsg[2] = u /\ tickMsg[3] = ok
    BY <2>1, Parts
  <2>3. i \in DOMAIN receivers
    BY <2>1, <2>2, <1>old, MadeIndex DEF Index
  <2>4. \E q \in Acks(receivers[i], u, ok) : receivers' = [receivers EXCEPT ![i] = q]
    BY <1>4, <2>2 DEF TickAck
  <2>5. Same
    BY <2>3, <2>4, <1>old, ReceiverStep DEF Same
  <2> QED
    BY <2>5 DEF Same
<1>5. CASE IngestCheck \/ IngestSend \/ TickStop \/ Ingest
             \/ \E i \in DOMAIN receivers : TickResponse(i)
  <2>1. UNCHANGED receivers
    BY <1>5 DEF IngestCheck, IngestSend, TickStop, TickResponse, Ingest, IngestAppend,
       IngestReply, IngestQuit, IngestClosed
  <2> QED
    BY <2>1, <1>0 DEF Same
<1>6. CASE UNCHANGED multiVars
  BY <1>6, <1>0 DEF Same, multiVars
<1> QED
  BY <1>1, <1>2, <1>3, <1>4, <1>5, <1>6 DEF Next, Start, Close, Tick, Ended

(* What tick and the ingest client have in hand stays mail of its source.  *)
LEMMA HandsStep ==
  ASSUME MultiTypes, OwnMail, [Next]_multiVars, main # "resolve"
  PROVE  TickOwns' /\ ReqOwns'
<1>old. RcvType /\ TickType /\ StartType
  BY DEF MultiTypes
<1>own. TickOwns /\ ReqOwns
  BY DEF OwnMail
<1>stay. UNCHANGED ResolvedSources
  BY CopiedStays
<1>tick. UNCHANGED tickMsg /\ (tickPc' \in {"check", "send"} => tickPc \in {"check", "send"})
           => TickOwns'
  BY <1>own, <1>stay DEF TickOwns, MailOf
<1>req. UNCHANGED ingestReq /\ (ingestPc' = "append" => ingestPc = "append") => ReqOwns'
  BY <1>own, <1>stay DEF ReqOwns, MailOf
<1>1. CASE Start \/ Signal \/ Close
  <2>1. UNCHANGED <<tickMsg, ingestReq>>
    BY <1>1 DEF Start, Resolve, Run, NewIngest, NewReceiver, StartTick, Signal, Interrupt1,
       Interrupt2, Close, Done, CloseReceiver, CloseIngest, CloseReturns, tickVars, ingVars
  <2>2. tickPc' = tickPc \/ tickPc' = "select"
    BY <1>1 DEF Start, Resolve, Run, NewIngest, NewReceiver, StartTick, Signal, Interrupt1,
       Interrupt2, Close, Done, CloseReceiver, CloseIngest, CloseReturns, tickVars
  <2>3. ingestPc' = ingestPc \/ ingestPc' = "select"
    BY <1>1 DEF Start, Resolve, Run, NewIngest, NewReceiver, StartTick, Signal, Interrupt1,
       Interrupt2, Close, Done, CloseReceiver, CloseIngest, CloseReturns, ingVars
  <2> QED
    BY <2>1, <2>2, <2>3, <1>tick, <1>req
<1>2. ASSUME NEW i \in DOMAIN receivers, Receiving(i) PROVE TickOwns' /\ ReqOwns'
  <2>1. UNCHANGED <<tickPc, tickMsg, ingestPc, ingestReq>>
    BY <1>2, ReceivingFrame
  <2> QED
    BY <2>1, <1>tick, <1>req
<1>3. ASSUME NEW i \in DOMAIN receivers, TickIncoming(i) PROVE TickOwns' /\ ReqOwns'
  <2> DEFINE s == receivers[i].out
  <2>1. s # <<>> /\ tickMsg' = <<i, Head(s), FALSE>> /\ UNCHANGED <<ingestPc, ingestReq>>
    BY <1>3 DEF TickIncoming, ingVars
  <2>2. s \in Seq(UIDs) /\ \A k \in 1..Len(s) : s[k] \in MailOf(i)
    <3>1. receivers[i] \in RcvState
      BY <1>old, MadeIndex DEF RcvType
    <3> QED
      BY <3>1 DEF RcvState, OwnMail, Owns
  <2> HIDE DEF s
  <2>3. Head(s) \in MailOf(i)
    BY <2>1, <2>2
  <2>4. tickMsg'[1] = i /\ tickMsg'[2] \in MailOf(i)
    BY <2>1, <2>3
  <2>5. TickOwns'
    BY <2>4, <1>stay DEF TickOwns, MailOf
  <2> QED
    BY <2>1, <2>5, <1>req
<1>4. ASSUME NEW i \in DOMAIN receivers, TickResponse(i) PROVE TickOwns' /\ ReqOwns'
  <2>1. tickPc' = "ack" /\ UNCHANGED <<ingestPc, ingestReq>>
    BY <1>4 DEF TickResponse, ingVars
  <2> QED
    BY <2>1, <1>req DEF TickOwns
<1>5. CASE IngestCheck \/ TickStop \/ TickAck
  <2>1. UNCHANGED <<ingestPc, ingestReq>>
    BY <1>5 DEF IngestCheck, TickStop, TickAck, ingVars
  <2>2. CASE IngestCheck
    BY <2>1, <2>2, <1>tick, <1>req DEF IngestCheck
  <2>3. CASE TickStop \/ TickAck
    BY <2>1, <2>3, <1>req DEF TickStop, TickAck, TickOwns
  <2> QED
    BY <1>5, <2>2, <2>3
<1>6. CASE IngestSend
  <2>1. tickPc = "send" /\ tickPc' \in {"panic", "select"}
    BY <1>6 DEF IngestSend
  <2>2. ingestPc' = "append" => ingestReq' = tickMsg
    BY <1>6 DEF IngestSend
  <2>3. ReqOwns'
    BY <2>1, <2>2, <1>own, <1>stay DEF TickOwns, ReqOwns, MailOf
  <2> QED
    BY <2>1, <2>3 DEF TickOwns
<1>7. CASE Ingest
  <2>1. ingestPc' # "append" /\ UNCHANGED <<tickPc, tickMsg>>
    BY <1>7 DEF Ingest, IngestAppend, IngestReply, IngestQuit, IngestClosed, tickVars
  <2> QED
    BY <2>1, <1>tick DEF ReqOwns
<1>8. CASE UNCHANGED multiVars
  BY <1>8, <1>tick, <1>req DEF multiVars, tickVars, ingVars
<1> QED
  BY <1>1, <1>2, <1>3, <1>4, <1>5, <1>6, <1>7, <1>8 DEF Next, Tick, Ended
(* The mail of a source stays with it, from the start on.                  *)
LEMMA OwnAlways == Spec => []OwnMail
<1>1. Init => OwnMail
  BY DEF Init, OwnMail, TickOwns, ReqOwns
<1>2. MultiTypes /\ OwnMail /\ [Next]_multiVars => OwnMail'
  <2> SUFFICES ASSUME MultiTypes, OwnMail, [Next]_multiVars PROVE OwnMail'
    OBVIOUS
  <2>1. CASE main = "resolve"
    <3>1. receivers' = <<>> /\ tickPc' = "off" /\ ingestPc' = "off"
      BY <2>1, ResolveStep
    <3> QED
      BY <3>1 DEF OwnMail, TickOwns, ReqOwns
  <2>2. CASE main # "resolve"
    <3>1. UNCHANGED ResolvedSources
      BY <2>2, CopiedStays
    <3>2. \A i \in DOMAIN receivers' : Owns(receivers'[i], MailOf(i))
      <4>1. CASE Made(Len(receivers) + 1)
        <5> DEFINE q == NewState(MailOf(Len(receivers) + 1))
        <5>1. receivers \in Seq(RcvState) /\ receivers' = Append(receivers, q)
          BY <4>1 DEF Made, MultiTypes, RcvType
        <5>2. /\ q.box = MailOf(Len(receivers) + 1) /\ q.pending = {} /\ q.out = <<>>
          BY DEF NewState
        <5>3. MailOf(Len(receivers) + 1) \in SUBSET UIDs
          BY <4>1 DEF Made, MailOf, Orders, UIDs
        <5>4. q \in RcvState
          BY <5>3, NewKept
        <5>5. Owns(q, MailOf(Len(receivers) + 1))
          BY <5>2 DEF Owns
        <5> HIDE DEF q
        <5>6. \A i \in DOMAIN receivers' :
                \/ i = Len(receivers) + 1 /\ receivers'[i] = q
                \/ i \in DOMAIN receivers /\ receivers'[i] = receivers[i]
          BY <5>1, <5>4
        <5> QED
          BY <5>5, <5>6 DEF OwnMail
      <4>2. CASE /\ DOMAIN receivers' = DOMAIN receivers
                 /\ \A j \in DOMAIN receivers : \A mail :
                      StaysWith(receivers[j], receivers'[j], mail)
        BY <4>2 DEF StaysWith, OwnMail
      <4> QED
        BY <4>1, <4>2, ReceiversStep
    <3>3. \A i \in DOMAIN receivers' : Owns(receivers'[i], MailOf(i)')
      BY <3>1, <3>2 DEF MailOf
    <3> QED
      BY <2>2, <3>3, HandsStep DEF OwnMail
  <2> QED
    BY <2>1, <2>2
<1> QED
  BY <1>1, <1>2, TypesAlways, PTL DEF Spec
-----------------------------------------------------------------------------
(***************************************************************************)
(* The mailboxes.  A source is read by at most one receiver, whose mailbox *)
(* only shrinks.                                                           *)
(***************************************************************************)
BoxIn(rs, os, s) ==
  IF \E i \in DOMAIN rs : os[i] = s
    THEN rs[CHOOSE i \in DOMAIN rs : os[i] = s].box
    ELSE Backlog[s]

(* The mailbox of a source that has a receiver is that receiver's.         *)
LEMMA BoxOf ==
  ASSUME NEW rs, NEW os \in Orders, DOMAIN rs \subseteq Index, NEW i \in DOMAIN rs
  PROVE  BoxIn(rs, os, os[i]) = rs[i].box
<1> DEFINE j == CHOOSE j \in DOMAIN rs : os[j] = os[i]
<1>1. j \in DOMAIN rs /\ os[j] = os[i]
  OBVIOUS
<1>2. BoxIn(rs, os, os[i]) = rs[j].box
  BY DEF BoxIn
<1> HIDE DEF j
<1>3. j = i
  BY <1>1 DEF Orders
<1> QED
  BY <1>2, <1>3

(* No step puts mail back in the mailbox of a source.                      *)
LEMMA BoxesShrink ==
  ASSUME MultiTypes, MultiTypes', [Next]_multiVars, NEW m \in Mail, m[2] \in Box(m[1])'
  PROVE  m[2] \in Box(m[1])
<1> DEFINE s == m[1]
<1>1. /\ Box(s) = BoxIn(receivers, ResolvedSources, s)
      /\ Box(s)' = BoxIn(receivers', ResolvedSources', s)
  BY DEF Box, BoxIn
<1>2. m[2] \in Backlog[s]
  BY DEF Mail
<1> HIDE DEF s
<1>3. CASE ~\E i \in DOMAIN receivers : ResolvedSources[i] = s
  BY <1>1, <1>2, <1>3 DEF BoxIn, s
<1>4. CASE \E i \in DOMAIN receivers : ResolvedSources[i] = s
  <2>1. PICK i \in DOMAIN receivers : ResolvedSources[i] = s
    BY <1>4
  <2>2. main # "resolve"
    BY <2>1 DEF MultiTypes, StartType
  <2>3. UNCHANGED ResolvedSources
    BY <2>2, CopiedStays
  <2>4. CASE main = "failed"
    <3>1. UNCHANGED receivers
      BY <2>4 DEF Next, Alive, Ended, multiVars
    <3> QED
      BY <3>1, <2>3, <1>1 DEF s
  <2>5. CASE main # "failed"
    <3>1. ResolvedSources \in Orders
      BY <2>2, <2>5 DEF MultiTypes, StartType
    <3>2. DOMAIN receivers \subseteq Index
      BY MadeIndex DEF MultiTypes
    <3>3. DOMAIN receivers' \subseteq Index
      <4>1. /\ DOMAIN receivers' = 1..Len(receivers') /\ Len(receivers') \in Nat
            /\ Len(receivers') <= N
        BY DEF MultiTypes, RcvType
      <4> QED
        BY <4>1, NType DEF Index
    <3>4. i \in DOMAIN receivers' /\ receivers'[i].box \subseteq receivers[i].box
      <4>1. CASE Made(Len(receivers) + 1)
        <5> DEFINE q == NewState(MailOf(Len(receivers) + 1))
        <5>1. receivers \in Seq(RcvState) /\ receivers' = Append(receivers, q)
          BY <4>1 DEF Made, MultiTypes, RcvType
        <5> HIDE DEF q
        <5>2. i \in DOMAIN receivers' /\ receivers'[i] = receivers[i]
          BY <5>1
        <5> QED
          BY <5>2
      <4>2. CASE /\ DOMAIN receivers' = DOMAIN receivers
                 /\ \A j \in DOMAIN receivers : \A mail :
                      StaysWith(receivers[j], receivers'[j], mail)
        BY <4>2 DEF StaysWith
      <4> QED
        BY <4>1, <4>2, ReceiversStep
    <3>5. Box(s) = receivers[i].box
      BY <1>1, <2>1, <3>1, <3>2, BoxOf
    <3>6. Box(s)' = receivers'[i].box
      <4>1. BoxIn(receivers', ResolvedSources, ResolvedSources[i]) = receivers'[i].box
        BY <3>1, <3>3, <3>4, BoxOf
      <4> QED
        BY <1>1, <2>1, <2>3, <4>1
    <3> QED
      BY <3>4, <3>5, <3>6 DEF s
  <2> QED
    BY <2>4, <2>5
<1> QED
  BY <1>3, <1>4
-----------------------------------------------------------------------------
(***************************************************************************)
(* The copies of a message, as a set: a new copy in mailbox b is the next  *)
(* one of that mailbox.                                                    *)
(***************************************************************************)
Places == Mailboxes \X Sources \X UIDs
CopiesIn(d, s, u) == UNION {{b} \X (1..d[<<b, s, u>>]) : b \in Mailboxes}

\* the k-th copy in some mailbox
IsCopy(c, d, s, u) == \E b \in Mailboxes : \E k \in 1..d[<<b, s, u>>] : c = <<b, k>>

(* What is in that set.                                                    *)
LEMMA CopiesOf ==
  ASSUME NEW d, NEW s, NEW u, NEW c
  PROVE  c \in CopiesIn(d, s, u) <=> IsCopy(c, d, s, u)
<1>1. c \in CopiesIn(d, s, u) <=> \E b \in Mailboxes : c \in {b} \X (1..d[<<b, s, u>>])
  BY DEF CopiesIn
<1>2. ASSUME NEW b \in Mailboxes
      PROVE  c \in {b} \X (1..d[<<b, s, u>>]) <=> \E k \in 1..d[<<b, s, u>>] : c = <<b, k>>
  <2> DEFINE S == 1..d[<<b, s, u>>]
  <2> HIDE DEF S
  <2>1. c \in {b} \X S <=> \E k \in S : c = <<b, k>>
    OBVIOUS
  <2> QED
    BY <2>1 DEF S
<1> QED
  BY <1>1, <1>2, Zenon DEF IsCopy

\* from d to e, a copy is stored in mailbox b
Stores(d, e, b, s, u) == e = [d EXCEPT ![<<b, s, u>>] = @ + 1]
NextCopy(d, b, s, u) == <<b, d[<<b, s, u>>] + 1>>

(* A copy stored in mailbox b: one element more for its message ...        *)
LEMMA CopyAdds ==
  ASSUME NEW d \in [Places -> Nat], NEW b \in Mailboxes, NEW s \in Sources, NEW u \in UIDs,
         NEW e, Stores(d, e, b, s, u)
  PROVE  /\ NextCopy(d, b, s, u) \notin CopiesIn(d, s, u)
         /\ CopiesIn(e, s, u) = CopiesIn(d, s, u) \cup {NextCopy(d, b, s, u)}
<1> DEFINE n == d[<<b, s, u>>]
           x == <<b, n + 1>>
<1>1. \A a \in Mailboxes : <<a, s, u>> \in Places
  BY DEF Places
<1>2. n \in Nat /\ e[<<b, s, u>>] = n + 1
  BY <1>1 DEF Stores
<1>3. \A a \in Mailboxes : a # b => e[<<a, s, u>>] = d[<<a, s, u>>]
  BY <1>1 DEF Stores
<1>4. x \notin CopiesIn(d, s, u)
  <2> SUFFICES ASSUME x \in CopiesIn(d, s, u) PROVE FALSE
    OBVIOUS
  <2>0. IsCopy(x, d, s, u)
    BY CopiesOf
  <2>1. PICK a \in Mailboxes : \E k \in 1..d[<<a, s, u>>] : x = <<a, k>>
    BY <2>0 DEF IsCopy
  <2>2. a = b /\ n + 1 \in 1..n
    BY <2>1
  <2> QED
    BY <2>2, <1>2
<1>5. ASSUME NEW c \in CopiesIn(e, s, u) PROVE c \in CopiesIn(d, s, u) \cup {x}
  <2>a. IsCopy(c, e, s, u)
    BY CopiesOf
  <2>0. PICK a \in Mailboxes : \E k \in 1..e[<<a, s, u>>] : c = <<a, k>>
    BY <2>a DEF IsCopy
  <2>1. PICK k \in 1..e[<<a, s, u>>] : c = <<a, k>>
    BY <2>0
  <2>2. CASE a = b /\ k = n + 1
    BY <2>1, <2>2
  <2>3. CASE a # b \/ k # n + 1
    <3>1. k \in 1..d[<<a, s, u>>]
      BY <2>1, <2>3, <1>2, <1>3
    <3> QED
      BY <2>1, <3>1, CopiesOf DEF IsCopy
  <2> QED
    BY <2>2, <2>3
<1>6. x \in CopiesIn(e, s, u)
  <2>1. n + 1 \in 1..e[<<b, s, u>>]
    BY <1>2
  <2> QED
    BY <2>1, CopiesOf DEF IsCopy
<1>7. ASSUME NEW c \in CopiesIn(d, s, u) PROVE c \in CopiesIn(e, s, u)
  <2>a. IsCopy(c, d, s, u)
    BY CopiesOf
  <2>0. PICK a \in Mailboxes : \E k \in 1..d[<<a, s, u>>] : c = <<a, k>>
    BY <2>a DEF IsCopy
  <2>1. PICK k \in 1..d[<<a, s, u>>] : c = <<a, k>>
    BY <2>0
  <2>2. k \in 1..e[<<a, s, u>>]
    <3>1. CASE a = b
      BY <3>1, <2>1, <1>2
    <3>2. CASE a # b
      BY <3>2, <2>1, <1>3
    <3> QED
      BY <3>1, <3>2
  <2> QED
    BY <2>1, <2>2, CopiesOf DEF IsCopy
<1> HIDE DEF x
<1>8. CopiesIn(e, s, u) = CopiesIn(d, s, u) \cup {x}
  BY <1>5, <1>6, <1>7
<1> QED
  BY <1>4, <1>8 DEF x, NextCopy

(* ... and the same ones for every other.                                  *)
LEMMA CopyLeaves ==
  ASSUME NEW d \in [Places -> Nat], NEW b \in Mailboxes, NEW s \in Sources, NEW u \in UIDs,
         NEW e, Stores(d, e, b, s, u),
         NEW t \in Sources, NEW v \in UIDs, t # s \/ v # u
  PROVE  CopiesIn(e, t, v) = CopiesIn(d, t, v)
<1>1. \A a \in Mailboxes : <<a, t, v>> \in Places /\ <<a, t, v>> # <<b, s, u>>
  BY DEF Places
<1>2. \A a \in Mailboxes : e[<<a, t, v>>] = d[<<a, t, v>>]
  BY <1>1 DEF Stores
<1>3. \A c : IsCopy(c, e, t, v) <=> IsCopy(c, d, t, v)
  BY <1>2 DEF IsCopy
<1>4. \A c : c \in CopiesIn(e, t, v) <=> c \in CopiesIn(d, t, v)
  BY <1>3, CopiesOf
<1> QED
  BY <1>4

(* An Append that stores, seen at the destination: it is of mail of the    *)
(* source that asked for it.  Any other step leaves the destination alone. *)
LEMMA StoreStep ==
  ASSUME MultiTypes, OwnMail, [Next]_multiVars
  PROVE  \/ UNCHANGED dest
         \/ \E b \in Mailboxes, m \in Mail :
              /\ UNCHANGED <<receivers, ResolvedSources>>
              /\ Stores(dest, dest', b, m[1], m[2])
<1>1. UNCHANGED dest \/ (Alive /\ IngestAppend)
  <2>1. CASE Start \/ Signal \/ Close
    BY <2>1 DEF Start, Resolve, Run, NewIngest, NewReceiver, StartTick, Signal, Interrupt1,
       Interrupt2, Close, Done, CloseReceiver, CloseIngest, CloseReturns, ingVars
  <2>2. CASE Tick
    BY <2>2 DEF Tick, TickIncoming, TickResponse, IngestCheck, IngestSend, TickAck, TickStop,
       ingVars
  <2>3. CASE IngestReply \/ IngestQuit \/ IngestClosed
    BY <2>3 DEF IngestReply, IngestQuit, IngestClosed
  <2>4. ASSUME NEW i, Receiving(i) PROVE UNCHANGED dest
    BY <2>4, ReceivingFrame
  <2>5. CASE UNCHANGED multiVars
    BY <2>5 DEF multiVars, ingVars
  <2> QED
    BY <2>1, <2>2, <2>3, <2>4, <2>5 DEF Next, Ingest, Ended
<1>2. ASSUME Alive, IngestAppend, dest' # dest
      PROVE  \E b \in Mailboxes, m \in Mail :
               /\ UNCHANGED <<receivers, ResolvedSources>>
               /\ Stores(dest, dest', b, m[1], m[2])
  <2>1. PICK i \in Index, u \in UIDs : ingestReq[1] = i /\ ingestReq[2] = u
    BY <1>2, Parts DEF IngestAppend, MultiTypes, ReqType
  <2>2. ResolvedSources[i] \in Sources /\ targetMailboxes[i] \in Mailboxes
    <3>1. main \notin {"resolve", "run", "failed"}
      BY <1>2 DEF IngestAppend, MultiTypes, StartType, Alive
    <3> QED
      BY <2>1, <3>1 DEF MultiTypes, StartType, Orders
  <2>3. u \in Backlog[ResolvedSources[i]]
    BY <1>2, <2>1 DEF IngestAppend, OwnMail, ReqOwns, MailOf
  <2> DEFINE m == <<ResolvedSources[i], u>>
  <2>4. m \in Mail
    BY <2>1, <2>2, <2>3 DEF Mail
  <2>5. /\ UNCHANGED <<receivers, ResolvedSources>>
        /\ Stores(dest, dest', targetMailboxes[i], m[1], m[2])
    BY <1>2, <2>1 DEF IngestAppend, cfgVars, Stores
  <2> HIDE DEF m
  <2> QED
    BY <2>2, <2>4, <2>5
<1> QED
  BY <1>1, <1>2

(* A message has finitely many copies.                                     *)
CopiesFinite == \A m \in Mail : IsFiniteSet(Copies(m))

(* A message of Mail, taken apart.                                         *)
LEMMA MailParts ==
  ASSUME NEW m \in Mail
  PROVE  m[1] \in Sources /\ m[2] \in UIDs /\ m = <<m[1], m[2]>>
  BY DEF Mail

(* Always.                                                                 *)
LEMMA FiniteAlways == Spec => []CopiesFinite
<1>1. Init => CopiesFinite
  <2> SUFFICES ASSUME Init, NEW m \in Mail PROVE IsFiniteSet(Copies(m))
    BY DEF CopiesFinite
  <2>1. \A b \in Mailboxes : dest[<<b, m[1], m[2]>>] = 0
    BY MailParts DEF Init
  <2>2. \A b \in Mailboxes : {b} \X (1..dest[<<b, m[1], m[2]>>]) = {}
    BY <2>1
  <2>3. Copies(m) = {}
    BY <2>2 DEF Copies
  <2> QED
    BY <2>3, FS_EmptySet
<1>2. MultiTypes /\ OwnMail /\ CopiesFinite /\ [Next]_multiVars => CopiesFinite'
  <2> SUFFICES ASSUME MultiTypes, OwnMail, CopiesFinite, [Next]_multiVars, NEW n \in Mail
               PROVE  IsFiniteSet(Copies(n)')
    BY DEF CopiesFinite
  <2>1. IsFiniteSet(Copies(n))
    BY DEF CopiesFinite
  <2>2. CASE UNCHANGED dest
    BY <2>1, <2>2 DEF Copies
  <2>3. ASSUME NEW b \in Mailboxes, NEW m \in Mail,
               Stores(dest, dest', b, m[1], m[2])
        PROVE  IsFiniteSet(Copies(n)')
    <3>1. dest \in [Places -> Nat]
      BY DEF MultiTypes, DestType, Places
    <3>2. /\ Copies(n) = CopiesIn(dest, n[1], n[2])
          /\ Copies(n)' = CopiesIn(dest', n[1], n[2])
      BY DEF Copies, CopiesIn
    <3>3. CASE n = m
      <4>1. m[1] \in Sources /\ m[2] \in UIDs
        BY MailParts
      <4> DEFINE x == NextCopy(dest, b, m[1], m[2])
      <4>2. CopiesIn(dest', m[1], m[2]) = CopiesIn(dest, m[1], m[2]) \cup {x}
        BY <2>3, <3>1, <4>1, CopyAdds
      <4> HIDE DEF x
      <4>3. IsFiniteSet(Copies(n) \cup {x})
        BY <2>1, FS_AddElement
      <4> QED
        BY <4>2, <4>3, <3>2, <3>3
    <3>4. CASE n # m
      <4>1. n[1] # m[1] \/ n[2] # m[2]
        BY <3>4, MailParts
      <4>2. m[1] \in Sources /\ m[2] \in UIDs /\ n[1] \in Sources /\ n[2] \in UIDs
        BY MailParts
      <4>3. CopiesIn(dest', n[1], n[2]) = CopiesIn(dest, n[1], n[2])
        BY <2>3, <3>1, <4>1, <4>2, CopyLeaves
      <4> QED
        BY <4>3, <3>2, <2>1
    <3> QED
      BY <3>3, <3>4
  <2> QED
    BY <2>2, <2>3, StoreStep
<1> QED
  BY <1>1, <1>2, TypesAlways, OwnAlways, PTL DEF Spec
(* A message of which dest counts a copy has one in the set.               *)
LEMMA SomeCopy ==
  ASSUME CopiesFinite, NEW m \in Mail, NEW b \in Mailboxes, MultiTypes,
         dest[<<b, m[1], m[2]>>] > 0
  PROVE  Cardinality(Copies(m)) > 0
<1>1. Copies(m) = CopiesIn(dest, m[1], m[2])
  BY DEF Copies, CopiesIn
<1>2. dest[<<b, m[1], m[2]>>] \in Nat
  BY MailParts DEF MultiTypes, DestType
<1>3. 1 \in 1..dest[<<b, m[1], m[2]>>]
  BY <1>2
<1>4. IsCopy(<<b, 1>>, dest, m[1], m[2])
  BY <1>3 DEF IsCopy
<1>5. Copies(m) # {}
  BY <1>1, <1>4, CopiesOf
<1>6. IsFiniteSet(Copies(m))
  BY DEF CopiesFinite
<1>7. Cardinality(Copies(m)) \in Nat /\ Cardinality(Copies(m)) # 0
  BY <1>5, <1>6, FS_EmptySet, FS_CardinalityType
<1> QED
  BY <1>7
-----------------------------------------------------------------------------
(***************************************************************************)
(* The refinement.                                                         *)
(***************************************************************************)
InSource == {m \in Mail : m[2] \in Box(m[1])}
Count    == [m \in Mail |-> Cardinality(Copies(m))]

(* Every step is one of MoveMail: a store is a copy of a message that is   *)
(* in its source or was copied before; any other step at most removes      *)
(* mail, all of it copied.                                                 *)
LEMMA MoveStep ==
  ASSUME MultiTypes, MultiTypes', OwnMail, CopiesFinite, NoSourceLosesMail, NoSourceLosesMail',
         [Next]_multiVars
  PROVE  [Move!Next]_(Move!moveVars)
<1>1. CASE UNCHANGED dest
  <2>0. PICK S : S = InSource \ InSource'
    OBVIOUS
  <2>1. \A m \in Mail : Copies(m)' = Copies(m)
    BY <1>1 DEF Copies
  <2>2. Count' = Count
    BY <2>1 DEF Count
  <2>3. \A m \in Mail : m \in InSource' => m \in InSource
    BY BoxesShrink DEF InSource
  <2>4. InSource' = InSource \ S
    BY <2>0, <2>3 DEF InSource
  <2>5. ASSUME NEW m \in S PROVE Count[m] > 0
    <3>1. m \in Mail /\ m[2] \notin Box(m[1])'
      BY <2>0 DEF InSource
    <3>2. PICK b \in Mailboxes : dest'[<<b, m[1], m[2]>>] > 0
      BY <3>1 DEF NoSourceLosesMail
    <3>3. Cardinality(Copies(m)) > 0
      BY <1>1, <3>1, <3>2, SomeCopy
    <3> QED
      BY <3>1, <3>3 DEF Count
  <2>6. S \in SUBSET InSource
    BY <2>0
  <2>7. Move!Remove(S)
    BY <2>2, <2>4, <2>5 DEF Move!Remove, InSource, Count
  <2>8. S \in SUBSET {m \in Mail : m[2] \in Box(m[1])}
    BY <2>6 DEF InSource
  <2>9. Move!Next
    BY <2>7, <2>8, Zenon DEF Move!Next
  <2> QED
    BY <2>9
<1>2. ASSUME NEW b \in Mailboxes, NEW m \in Mail, UNCHANGED <<receivers, ResolvedSources>>,
             Stores(dest, dest', b, m[1], m[2])
      PROVE  [Move!Next]_(Move!moveVars)
  <2>1. InSource' = InSource
    BY <1>2 DEF InSource, Box
  <2>2. dest \in [Places -> Nat]
    BY DEF MultiTypes, DestType, Places
  <2>3. \A n \in Mail : /\ Copies(n) = CopiesIn(dest, n[1], n[2])
                        /\ Copies(n)' = CopiesIn(dest', n[1], n[2])
    BY DEF Copies, CopiesIn
  <2>4. \A n \in Mail : n[1] \in Sources /\ n[2] \in UIDs
    BY MailParts
  <2>5. Cardinality(Copies(m)') = Cardinality(Copies(m)) + 1
    <3> DEFINE x == NextCopy(dest, b, m[1], m[2])
    <3>1. /\ x \notin CopiesIn(dest, m[1], m[2])
          /\ CopiesIn(dest', m[1], m[2]) = CopiesIn(dest, m[1], m[2]) \cup {x}
      BY <1>2, <2>2, <2>4, CopyAdds
    <3> HIDE DEF x
    <3>2. IsFiniteSet(Copies(m))
      BY DEF CopiesFinite
    <3>3. x \notin Copies(m) /\ Copies(m)' = Copies(m) \cup {x}
      BY <3>1, <2>3
    <3>4. Cardinality(Copies(m) \cup {x}) = Cardinality(Copies(m)) + 1
      BY <3>2, <3>3, FS_AddElement
    <3> QED
      BY <3>3, <3>4
  <2>6. ASSUME NEW n \in Mail, n # m PROVE Copies(n)' = Copies(n)
    <3>1. n[1] # m[1] \/ n[2] # m[2]
      BY <2>6, MailParts
    <3>2. CopiesIn(dest', n[1], n[2]) = CopiesIn(dest, n[1], n[2])
      BY <1>2, <2>2, <2>4, <3>1, CopyLeaves
    <3> QED
      BY <3>2, <2>3
  <2>7. Count' = [Count EXCEPT ![m] = @ + 1]
    <3>1. \A n \in Mail : Cardinality(Copies(n)') =
                            IF n = m THEN Cardinality(Copies(n)) + 1 ELSE Cardinality(Copies(n))
      BY <2>5, <2>6
    <3>2. Count' = [n \in Mail |-> Cardinality(Copies(n)')]
      BY DEF Count
    <3> QED
      BY <3>1, <3>2 DEF Count
  <2>8. m \in InSource \/ Count[m] > 0
    <3>1. CASE m[2] \in Box(m[1])
      BY <3>1 DEF InSource
    <3>2. CASE m[2] \notin Box(m[1])
      <4>1. PICK a \in Mailboxes : dest[<<a, m[1], m[2]>>] > 0
        BY <3>2 DEF NoSourceLosesMail
      <4> QED
        BY <4>1, SomeCopy DEF Count
    <3> QED
      BY <3>1, <3>2
  <2>9. Move!Copy(m)
    BY <2>1, <2>7, <2>8 DEF Move!Copy, InSource, Count
  <2> QED
    BY <2>9 DEF Move!Next
<1> QED
  BY <1>1, <1>2, StoreStep

(* The many-to-one pump implements MoveMail for all of its sources at      *)
(* once, although they share UIDs and one ingest client, and in whatever   *)
(* order they were resolved: a message is copied under the source it came  *)
(* from, and leaves that source only after such a copy.                    *)
THEOREM SourcesMoveMail == Spec => MovesEachSource
<1>1. Init => Move!Init
  <2> SUFFICES ASSUME Init PROVE Move!Init
    OBVIOUS
  <2>1. ASSUME NEW m \in Mail PROVE Cardinality(Copies(m)) = 0
    <3>1. \A b \in Mailboxes : dest[<<b, m[1], m[2]>>] = 0
      BY MailParts DEF Init
    <3>2. \A b \in Mailboxes : {b} \X (1..dest[<<b, m[1], m[2]>>]) = {}
      BY <3>1
    <3>3. Copies(m) = {}
      BY <3>2 DEF Copies
    <3> QED
      BY <3>3, FS_EmptySet
  <2>2. Count = [m \in Mail |-> 0]
    BY <2>1 DEF Count
  <2> QED
    BY <2>2 DEF Move!Init, Count
<1>2. MultiTypes /\ MultiTypes' /\ OwnMail /\ CopiesFinite /\ NoSourceLosesMail
        /\ NoSourceLosesMail' /\ [Next]_multiVars => [Move!Next]_(Move!moveVars)
  BY MoveStep
<1> QED
  BY <1>1, <1>2, TypesAlways, OwnAlways, FiniteAlways, SourcesKeepTheirMail, PTL
     DEF Spec, MovesEachSource, Move!Spec
=============================================================================
