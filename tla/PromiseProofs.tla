---------------------------- MODULE PromiseProofs ----------------------------
(***************************************************************************)
(* Proof that the receiver keeps the promise of MailReceiver, which its    *)
(* pump relies on: each step, seen through port, is a step MailReceiver    *)
(* allows.                                                                 *)
(***************************************************************************)
EXTENDS DeliveryProofs

(* A nonempty set of naturals has a least element.                         *)
LEMMA LeastNatural ==
  ASSUME NEW S, S \subseteq Nat, S # {}
  PROVE  \E m \in S : \A n \in S : m <= n
<1>1. IsWellFoundedOn(OpToRel(<, Nat), Nat)
  BY NatLessThanWellFounded
<1>2. \E m \in S : \A n \in S : <<n, m>> \notin OpToRel(<, Nat)
  <2> HIDE DEF OpToRel
  <2> QED BY <1>1, WFMin
<1>3. \A m, n \in S : <<n, m>> \notin OpToRel(<, Nat) => m <= n
  BY DEF OpToRel
<1> QED
  BY <1>2, <1>3

(* A bounded nonempty set of naturals has a greatest element.              *)
LEMMA GreatestNatural ==
  ASSUME NEW S, NEW b \in Nat, S \subseteq 0..b, S # {}
  PROVE  \E m \in S : \A n \in S : n <= m
<1> DEFINE D == {b - n : n \in S}
<1>1. D \subseteq Nat /\ D # {}
  <2>1. \A n \in S : b - n \in Nat
    OBVIOUS
  <2> QED
    BY <2>1
<1>2. PICK d \in D : \A e \in D : d <= e
  BY <1>1, LeastNatural
<1>3. PICK m \in S : d = b - m
  OBVIOUS
<1>4. \A n \in S : b - m <= b - n
  BY <1>2, <1>3
<1> QED
  BY <1>4

(* buildSeqSet: a fetch asks for no more than its buffer holds.            *)
LEMMA SeqSetBounded ==
  ASSUME NEW known, NEW total \in Nat, NEW size \in Nat
  PROVE  /\ IsFiniteSet(buildSeqSet(known, total, size))
         /\ Cardinality(buildSeqSet(known, total, size)) <= size
<1> DEFINE S == buildSeqSet(known, total, size)
<1>1. S \subseteq 0..total /\ \A n \in S : n \in 1..total /\ n \notin known
  BY DEF buildSeqSet
<1>2. IsFiniteSet(0..total)
  BY FS_Interval
<1>3. IsFiniteSet(S)
  BY <1>1, <1>2, FS_Subset
<1>4. CASE S = {}
  BY <1>3, <1>4, FS_EmptySet
<1>5. CASE S # {}
  <2>1. PICK m \in S : \A n \in S : n <= m
    BY <1>1, <1>5, GreatestNatural
  <2>2. m \in 1..total /\ Cardinality((1..m) \ known) <= size
    BY <2>1 DEF buildSeqSet
  <2> DEFINE U == (1..m) \ known
  <2>3. S \in SUBSET U
    BY <1>1, <2>1, <2>2
  <2>4. IsFiniteSet(U)
    <3>1. IsFiniteSet(1..m)
      BY <2>2, FS_Interval
    <3> QED
      BY <3>1, FS_Subset
  <2>5. Cardinality(S) <= Cardinality(U) /\ Cardinality(S) \in Nat /\ Cardinality(U) \in Nat
    BY <1>3, <2>3, <2>4, FS_Subset, FS_CardinalityType
  <2>6. Cardinality(U) <= size
    BY <2>2
  <2> HIDE DEF S, U
  <2>7. Cardinality(S) <= size
    BY <2>5, <2>6
  <2> QED
    BY <1>3, <2>7 DEF S
<1> QED
  BY <1>4, <1>5

(* Two messages of the mailbox never have one sequence number.             *)
LEMMA SeqNumsDiffer ==
  ASSUME SrvType, NEW u \in mailbox, NEW v \in mailbox, SeqNumOf(u) = SeqNumOf(v)
  PROVE  u = v
<1> DEFINE Upto(w) == {x \in mailbox : x <= w}
<1>0. mailbox \subseteq Nat
  BY DEF SrvType
<1>1. IsFiniteSet(mailbox)
  <2>1. IsFiniteSet(1..arrived)
    BY FS_Interval DEF SrvType
  <2> QED
    BY <2>1, FS_Subset DEF SrvType
<1>2. ASSUME NEW a \in mailbox, NEW b \in mailbox, a <= b, SeqNumOf(a) = SeqNumOf(b)
      PROVE  a = b
  <2>1. IsFiniteSet(Upto(b)) /\ Upto(a) \in SUBSET Upto(b)
    <3>1. Upto(b) \in SUBSET mailbox
      OBVIOUS
    <3>2. \A x \in mailbox : x <= a => x <= b
      BY <1>0, <1>2
    <3> QED
      BY <1>1, <3>1, <3>2, FS_Subset
  <2>2. Cardinality(Upto(b)) = Cardinality(Upto(a))
    BY <1>2 DEF SeqNumOf
  <2>3. Upto(a) = Upto(b)
    <3> HIDE DEF Upto
    <3> QED
      BY <2>1, <2>2, FS_Subset
  <2>4. b \in Upto(b)
    BY <1>0
  <2>5. b <= a
    BY <2>3, <2>4
  <2> QED
    BY <1>0, <1>2, <2>5
<1> QED
  BY <1>0, <1>2

(* The server answers a FETCH with at most one message per number.         *)
LEMMA AnswerBounded ==
  ASSUME SrvType, IsFiniteSet(seqset)
  PROVE  LET T == {v \in mailbox : SeqNumOf(v) \in seqset}
         IN  IsFiniteSet(T) /\ Cardinality(T) <= Cardinality(seqset)
<1> DEFINE T == {v \in mailbox : SeqNumOf(v) \in seqset}
           f == [u \in T |-> SeqNumOf(u)]
<1>1. f \in [T -> seqset]
  OBVIOUS
<1>2. \A u, v \in T : f[u] = f[v] => u = v
  BY SeqNumsDiffer
<1>3. f \in Injection(T, seqset)
  <2> HIDE DEF f, T
  <2> QED
    BY <1>1, <1>2 DEF Injection, IsInjective
<1> HIDE DEF f
<1> QED
  BY <1>3, FS_Injection

-----------------------------------------------------------------------------
(***************************************************************************)
(* What else a step needs to know: only Close makes the loop quit, the     *)
(* results of a STORE are about acknowledged messages, and a fetch stays   *)
(* within its buffer.                                                      *)
(***************************************************************************)
QuitInv == quitChan \/ wantQuit => closer # "open"

TrackInv ==
  /\ \A u \in UID : messages[u] # StateDeleted
  /\ \A u \in UID : messages[u] # Absent => u <= arrived
  /\ worker = "deleteResult" =>
       \A r \in stored : messages[r[1]] = StateAcked
  /\ \A r, s \in stored : r[1] = s[1] => r = s

BatchInv ==
  /\ worker = "fetch" => IsFiniteSet(seqset) /\ Cardinality(seqset) <= FetchBufferSize
  /\ worker = "fetchResult" =>
       /\ IsFiniteSet({m[1] : m \in fetched})
       /\ Cardinality({m[1] : m \in fetched}) <= FetchBufferSize

PortInv == QuitInv /\ TrackInv /\ BatchInv

(* A tick leaves the loop only when it is quitting.                        *)
LEMMA TickExit ==
  ASSUME NEW op \in TickOps, NEW q, NEW f, NEW d, NEW todo,
         runPc = "select", Tick(op, q, f, d, todo), runPc' = "exited"
  PROVE  q
<1>1. CASE rstate = StateNone /\ TickNone(op, q, f, d, todo)
  BY <1>1 DEF TickNone, Panic, StartDelete, StartFetch, StartIdle
<1>2. CASE rstate = StateInIDLE /\ TickInIDLE(op, q, f, d, todo)
  BY <1>2 DEF TickInIDLE, Interrupt, IdleFinish, Finish, Panic
<1>3. CASE rstate = StateInFetch /\ TickInFetch(op, q, f, d, todo)
  BY <1>3 DEF TickInFetch, Wait, Finish, Panic
<1>4. CASE rstate = StateInDelete /\ TickInDelete(op, q, f, d, todo)
  BY <1>4 DEF TickInDelete, Wait, Finish, Panic
<1> QED
  BY <1>1, <1>2, <1>3, <1>4 DEF Tick

ArmQuits ==
  /\ wantQuit' => wantQuit \/ quitChan
  /\ quitChan' => quitChan
  /\ UNCHANGED <<closer, out>>
  /\ runPc = "select"
  /\ runPc' = "exited" => wantQuit'
  /\ worker' = "fetch" \/ worker' = "fetchResult" => UNCHANGED <<worker, seqset>>

(* An arm of the select makes the loop quit only on the token of Close,    *)
(* and leaves it only when it is quitting.                                 *)
LEMMA ArmQuitFacts ==
  ASSUME TypeOK, Arms
  PROVE  ArmQuits
<1>ops. /\ OperationNone \in TickOps /\ OperationTimeout \in TickOps
        /\ opChan # Empty => opChan \in TickOps
  BY DEF TickOps, TypeOK, ChanType
<1>1. /\ quitChan' => quitChan
      /\ UNCHANGED <<closer, out, seqset>>
      /\ runPc = "select"
  <2>1. UNCHANGED <<closer, out, seqset>> /\ runPc = "select"
    BY DEF Arms, RecvQuit, RecvUpdate, RecvAck, Timeout, RecvOp, chanVars
  <2>2. quitChan' = quitChan \/ quitChan
    BY DEF Arms, RecvQuit, RecvUpdate, RecvAck, Timeout, RecvOp, chanVars
  <2> QED
    BY <2>1, <2>2
<1>tick. ASSUME NEW op \in TickOps, NEW q, NEW f, NEW d, NEW todo,
                Tick(op, q, f, d, todo), q => wantQuit \/ quitChan
         PROVE  ArmQuits
  <2>1. /\ wantQuit' = q
        /\ runPc' = "exited" => q
    BY <1>1, <1>tick, TickFacts, TickExit
  <2>2. worker' = worker \/ worker' \in Starts
    BY <1>1, <1>tick, TickFacts
  <2> QED
    BY <1>1, <1>tick, <2>1, <2>2 DEF ArmQuits, Starts
<1>2. CASE RecvQuit
  <2>1. quitChan /\ Tick(OperationNone, TRUE, wantFetch, wantDelete, nextToProcess)
    BY <1>2 DEF RecvQuit
  <2> QED
    BY <2>1, <1>ops, <1>tick
<1>3. CASE RecvUpdate
  <2>1. Tick(OperationNone, wantQuit, wantFetch \/ Head(updates) = "mailbox",
             wantDelete, nextToProcess)
    BY <1>3 DEF RecvUpdate
  <2> QED
    BY <2>1, <1>ops, <1>tick
<1>4. CASE RecvAck
  <2>1. PICK d, todo : Tick(OperationNone, wantQuit, wantFetch, d, todo)
    BY <1>4 DEF RecvAck
  <2> QED
    BY <2>1, <1>ops, <1>tick
<1>5. CASE Timeout
  <2>1. Tick(OperationTimeout, wantQuit, wantFetch, wantDelete, nextToProcess)
    BY <1>5 DEF Timeout
  <2> QED
    BY <2>1, <1>ops, <1>tick
<1>6. CASE RecvOp
  <2>1. Tick(opChan, wantQuit, wantFetch, wantDelete, nextToProcess) /\ opChan # Empty
    BY <1>6 DEF RecvOp
  <2> QED
    BY <2>1, <1>ops, <1>tick
<1> QED
  BY <1>2, <1>3, <1>4, <1>5, <1>6 DEF Arms

(* Only Close makes the loop quit.                                         *)
LEMMA QuitStep == ASSUME TypeOK, QuitInv, [Next]_vars PROVE QuitInv'
<1>1. CASE Arms
  BY <1>1, ArmQuitFacts DEF ArmQuits, QuitInv
<1>2. CASE Close \/ HasQuit \/ CloseReturn
  BY <1>2 DEF Close, HasQuit, CloseReturn, QuitInv, loopVars, wants
<1>3. CASE Run /\ ~Arms
  <2>1. UNCHANGED <<quitChan, wantQuit, closer>>
    BY <1>3 DEF Run, Arms, RecvFetchResult, Deliver, DeliverDone, RecvDeleteResult, Signal, wants,
       chanVars
  <2> QED
    BY <2>1 DEF QuitInv
<1>4. CASE Worker
  <2>1. UNCHANGED <<quitChan, wantQuit, closer>>
    BY <1>4 DEF Worker, IdleReturns, ReadMailbox, Fetch, UidStore, Expunge, WorkerFinish,
       Abandon, loopVars, wants, chanVars
  <2> QED
    BY <2>1 DEF QuitInv
<1>5. CASE Server \/ Consume \/ (\E u \in held : Ack(u)) \/ UNCHANGED vars
  <2>1. UNCHANGED <<quitChan, wantQuit, closer>>
    BY <1>5 DEF Server, Arrive, Announce, OtherUpdate, Consume, Ack, vars, rcvVars, loopVars,
       wants, chanVars
  <2> QED
    BY <2>1 DEF QuitInv
<1> QED
  BY <1>1, <1>2, <1>3, <1>4, <1>5 DEF Next, User, Closed
(* What the loop tracks has arrived, and what the STORE reports was        *)
(* acknowledged.                                                           *)
LEMMA TrackStep == ASSUME TypeOK, LoopSafe, ResultInv, TrackInv, [Next]_vars PROVE TrackInv'
<1>types. /\ messages \in [UID -> {Absent, StateUnacked, StateAcked, StateDeleted}]
          /\ \A r \in stored : r[1] \in UID /\ r[2] \in {StateAcked, StateDeleted}
          /\ arrived \in Nat /\ mailbox \subseteq 1..arrived
  BY DEF TypeOK, LoopType, JobType, SrvType
<1>same. ASSUME UNCHANGED <<messages, arrived, stored>>,
                worker' = "deleteResult" => worker = "deleteResult"
         PROVE  TrackInv'
  BY <1>same DEF TrackInv
<1>1. CASE Arms
  <2>1. UNCHANGED <<stored, arrived>>
    BY <1>1, ArmFacts
  <2>2. worker' = "deleteResult" => worker = "deleteResult"
    BY <1>1, ArmFacts DEF ArmEffect, Starts
  <2>3. \A u \in UID : \/ messages'[u] = messages[u]
                       \/ messages[u] = StateUnacked /\ messages'[u] = StateAcked
    BY <1>1, ArmFacts DEF ArmEffect, Queues
  <2> QED
    BY <2>1, <2>2, <2>3, <1>types DEF TrackInv, Absent, StateUnacked, StateAcked, StateDeleted
<1>2. CASE RecvFetchResult \/ DeliverDone \/ Signal
  BY <1>2, <1>same DEF RecvFetchResult, DeliverDone, Signal, jobVars, srvVars,
     OperationFetchFinish
<1>3. ASSUME NEW m \in fetched, Deliver(m) PROVE TrackInv'
  <2>1. /\ runPc = "deliver" /\ messages' = [messages EXCEPT ![m[1]] = StateUnacked]
        /\ UNCHANGED <<stored, arrived, worker>>
    BY <1>3 DEF Deliver, srvVars
  <2>2. m[1] \in UID /\ m[1] \in mailbox
    BY <2>1 DEF ResultInv, TypeOK, JobType
  <2>3. m[1] <= arrived
    <3>1. \A x \in mailbox : x <= arrived
      BY <1>types
    <3> QED
      BY <2>2, <3>1
  <2>4. worker # "deleteResult"
    BY <2>1, DeliverAlone DEF OperationFetchFinish
  <2>5. \A u \in UID : messages'[u] = messages[u] \/ (u = m[1] /\ messages'[u] = StateUnacked)
    BY <2>1, <2>2, <1>types
  <2> QED
    BY <2>1, <2>3, <2>4, <2>5 DEF TrackInv, StateUnacked, StateDeleted
<1>4. ASSUME NEW r \in stored, RecvDeleteResult(r) PROVE TrackInv'
  <2>1. /\ worker = "deleteResult" /\ stored' = stored \ {r} /\ UNCHANGED arrived
    BY <1>4 DEF RecvDeleteResult, srvVars
  <2>2. r[1] \in UID /\ (r[2] # StateDeleted => r[2] = StateAcked)
    BY <1>types
  <2>3. messages[r[1]] = StateAcked
    BY <2>1 DEF TrackInv
  <2>4. \/ messages' = messages
        \/ messages' = [messages EXCEPT ![r[1]] = Absent]
        \/ messages' = [messages EXCEPT ![r[1]] = StateAcked]
    BY <1>4, <2>2 DEF RecvDeleteResult
  <2>5. \A u \in UID : \/ messages'[u] = messages[u]
                       \/ u = r[1] /\ messages'[u] = Absent
    BY <2>2, <2>3, <2>4, <1>types
  <2>6. \A s \in stored' : s[1] \in UID /\ s[1] # r[1] /\ messages[s[1]] = StateAcked
    BY <2>1, <1>types DEF TrackInv
  <2> QED
    BY <2>1, <2>5, <2>6 DEF TrackInv, Absent, StateDeleted
<1>5. CASE IdleReturns \/ ReadMailbox \/ Fetch \/ Expunge \/ WorkerFinish \/ Abandon
  BY <1>5, <1>same DEF IdleReturns, ReadMailbox, Fetch, Expunge, WorkerFinish, Abandon, loopVars,
     srvVars, OperationFetchFinish, OperationIDLEFinish, OperationDeleteFinish
<1>6. CASE UidStore
  <2>1. UNCHANGED <<messages, arrived>>
    BY <1>6 DEF UidStore, loopVars
  <2>2. PICK told \in SUBSET {u \in toProcess \cap mailbox : messages[u] = StateAcked} :
          stored' = {<<u, IF u \in flagged' THEN StateDeleted ELSE StateAcked>> : u \in told}
    BY <1>6 DEF UidStore
  <2>3. \A r \in stored' : messages[r[1]] = StateAcked
    BY <2>2
  <2>4. \A r, s \in stored' : r[1] = s[1] => r = s
    BY <2>2
  <2> QED
    BY <2>1, <2>3, <2>4 DEF TrackInv
<1>7. CASE Arrive
  <2>1. arrived' = arrived + 1 /\ UNCHANGED <<messages, stored, worker>>
    BY <1>7 DEF Arrive, rcvVars, loopVars, jobVars
  <2>2. \A u \in UID : u <= arrived => u <= arrived'
    BY <2>1, <1>types DEF UID
  <2> QED
    BY <2>1, <2>2 DEF TrackInv
<1>8. CASE Announce \/ OtherUpdate \/ Consume \/ Close \/ HasQuit \/ CloseReturn
           \/ UNCHANGED vars
  BY <1>8, <1>same DEF Announce, OtherUpdate, Consume, Close, HasQuit, CloseReturn, vars,
     rcvVars, loopVars, jobVars, srvVars
<1>9. ASSUME NEW u \in held, Ack(u) PROVE TrackInv'
  BY <1>9, <1>same DEF Ack, loopVars, jobVars
<1> QED
  BY <1>1, <1>2, <1>3, <1>4, <1>5, <1>6, <1>7, <1>8, <1>9
     DEF Arms, Next, Run, Worker, Server, User, Closed

(* No fetch asks for, or returns, more than the buffer holds.              *)
LEMMA BatchStep == ASSUME TypeOK, LoopSafe, BatchInv, [Next]_vars PROVE BatchInv'
<1>same. ASSUME worker' \in {"fetch", "fetchResult"} => UNCHANGED <<worker, seqset, fetched>>
         PROVE  BatchInv'
  BY <1>same DEF BatchInv
<1>1. CASE Arms
  BY <1>1, <1>same, ArmFacts, ArmQuitFacts DEF ArmQuits
<1>2. CASE RecvFetchResult \/ DeliverDone \/ Signal
  BY <1>2, <1>same DEF RecvFetchResult, DeliverDone, Signal, jobVars, OperationFetchFinish
<1>3. ASSUME NEW m \in fetched, Deliver(m) PROVE BatchInv'
  <2>1. worker \notin {"fetch", "fetchResult"} /\ UNCHANGED worker
    BY <1>3, DeliverAlone DEF Deliver, OperationFetchFinish
  <2> QED
    BY <2>1, <1>same
<1>4. ASSUME NEW r \in stored, RecvDeleteResult(r) PROVE BatchInv'
  BY <1>4, <1>same DEF RecvDeleteResult
<1>5. CASE ReadMailbox
  <2>1. \/ worker' = OperationFetchFinish
        \/ worker' = "fetch" /\ seqset' = buildSeqSet(existing, exists, FetchBufferSize)
    BY <1>5 DEF ReadMailbox
  <2>2. exists \in Nat /\ FetchBufferSize \in Nat
    BY ReceiverAssumption DEF TypeOK, SrvType, ReceiverAssumption
  <2> QED
    BY <2>1, <2>2, SeqSetBounded DEF BatchInv, OperationFetchFinish
<1>6. CASE Fetch
  <2> DEFINE T == {v \in mailbox : SeqNumOf(v) \in seqset}
  <2>1. /\ worker = "fetch"
        /\ \/ worker' = OperationFetchFinish
           \/ /\ worker' = "fetchResult"
              /\ fetched' = {<<u, SeqNumOf(u)>> : u \in T}
    BY <1>6 DEF Fetch
  <2>2. CASE worker' = OperationFetchFinish
    BY <2>2, <1>same DEF OperationFetchFinish
  <2>3. CASE worker' = "fetchResult" /\ fetched' = {<<u, SeqNumOf(u)>> : u \in T}
    <3>1. IsFiniteSet(seqset) /\ Cardinality(seqset) <= FetchBufferSize
      BY <2>1 DEF BatchInv
    <3>2. IsFiniteSet(T) /\ Cardinality(T) <= Cardinality(seqset)
      BY <3>1, AnswerBounded DEF TypeOK
    <3> HIDE DEF T
    <3>3. {m[1] : m \in fetched'} = T
      <4>1. \A u : <<u, SeqNumOf(u)>>[1] = u
        OBVIOUS
      <4>2. \A m \in fetched' : m[1] \in T
        BY <2>3
      <4>3. \A u \in T : \E m \in fetched' : m[1] = u
        BY <2>3, <4>1
      <4> QED
        BY <4>2, <4>3
    <3>4. /\ Cardinality(T) \in Nat /\ Cardinality(seqset) \in Nat
          /\ FetchBufferSize \in Nat
      BY <3>1, <3>2, FS_CardinalityType, ReceiverAssumption DEF ReceiverAssumption
    <3>5. Cardinality(T) <= FetchBufferSize
      BY <3>1, <3>2, <3>4
    <3> QED
      BY <2>3, <3>2, <3>3, <3>5 DEF BatchInv
  <2> QED
    BY <2>1, <2>2, <2>3
<1>7. CASE IdleReturns \/ UidStore \/ Expunge \/ WorkerFinish \/ Abandon
  BY <1>7, <1>same DEF IdleReturns, UidStore, Expunge, WorkerFinish, Abandon,
     OperationIDLEFinish, OperationDeleteFinish
<1>8. CASE Server \/ Consume \/ Close \/ HasQuit \/ CloseReturn \/ UNCHANGED vars
  BY <1>8, <1>same DEF Server, Arrive, Announce, OtherUpdate, Consume, Close, HasQuit,
     CloseReturn, vars, rcvVars, jobVars
<1>9. ASSUME NEW u \in held, Ack(u) PROVE BatchInv'
  BY <1>9, <1>same DEF Ack, jobVars
<1> QED
  BY <1>1, <1>2, <1>3, <1>4, <1>5, <1>6, <1>7, <1>8, <1>9
     DEF Arms, Next, Run, Worker, User, Closed
(* They hold of every behaviour.                                           *)
LEMMA PortInvAlways == Spec => []PortInv
<1>1. Init => PortInv
  BY DEF Init, RcvInit, PortInv, QuitInv, TrackInv, BatchInv, Absent, StateDeleted
<1>2. TypeOK /\ LoopSafe /\ ResultInv /\ PortInv /\ [Next]_vars => PortInv'
  BY QuitStep, TrackStep, BatchStep DEF PortInv
<1> QED
  BY <1>1, <1>2, TypeCorrect, LoopSafeAlways, ResultAlways, PTL DEF Spec

-----------------------------------------------------------------------------
(***************************************************************************)
(* The steps of MailReceiver from a record p to a record r, by what they   *)
(* change of its fields.                                                   *)
(***************************************************************************)
Fields == {"exited", "pending", "tracked", "done", "box", "out", "acks", "quit"}
IsPort(p) == p = [x \in Fields |-> p[x]]
Same(p, r, X) == \A x \in Fields \ X : r[x] = p[x]

(* Nothing changes.                                                        *)
LEMMA PortSame == ASSUME NEW p, NEW r, IsPort(p), IsPort(r), Same(p, r, {}) PROVE r = p
  BY DEF IsPort, Same

(* MailReceiver counts as everyone does.                                   *)
LEMMA PromiseCardinality == ASSUME NEW S PROVE Promise!Cardinality(S) = Cardinality(S)
  BY DEF Promise!Cardinality, Cardinality

(* A fetch result that is within the promise.                              *)
LEMMA PortFetches ==
  ASSUME NEW p, NEW r, IsPort(p), IsPort(r), NEW failed \in BOOLEAN,
         ~p.exited, p.pending = {}, Same(p, r, {"pending"}),
         r.pending \subseteq p.box,
         \A u \in r.pending : u \in p.tracked => failed /\ u \in p.done,
         Cardinality(r.pending) <= FetchBufferSize
  PROVE  r \in Promise!Works(p, failed)
<1>1. r = [p EXCEPT !.pending = r.pending]
  BY DEF IsPort, Same, Fields
<1>2. r.pending \in SUBSET (p.box \ (p.tracked \ IF failed THEN p.done ELSE {}))
  OBVIOUS
<1>3. Promise!AtSelect(p)
  BY DEF Promise!AtSelect
<1>4. r \in Promise!Fetches(p, failed)
  <2> DEFINE R == r.pending
             free == p.box \ (p.tracked \ IF failed THEN p.done ELSE {})
  <2>1. R \in SUBSET free /\ Cardinality(R) <= FetchBufferSize
    BY <1>2
  <2>2. r = [p EXCEPT !.pending = R]
    BY <1>1
  <2> HIDE DEF R, free
  <2>3. r \in {[p EXCEPT !.pending = S] :
                 S \in {T \in SUBSET free :
                          /\ Promise!AtSelect(p)
                          /\ Promise!Cardinality(T) <= FetchBufferSize}}
    BY <1>3, <2>1, <2>2, PromiseCardinality
  <2> QED
    BY <2>3 DEF Promise!Fetches, free
<1> QED
  BY <1>4 DEF Promise!Works

(* One message of it goes out.                                             *)
LEMMA PortDelivers ==
  ASSUME NEW p, NEW r, IsPort(p), IsPort(r), NEW failed, NEW u \in p.pending,
         Len(p.out) # OutCap, Same(p, r, {"pending", "tracked", "out"}),
         r.pending = p.pending \ {u}, r.tracked = p.tracked \cup {u},
         r.out = Append(p.out, u)
  PROVE  r \in Promise!Works(p, failed)
<1>1. r = [p EXCEPT !.pending = @ \ {u}, !.tracked = @ \cup {u}, !.out = Append(@, u)]
  BY DEF IsPort, Same, Fields
<1>2. u \in {v \in p.pending : ~Promise!Blocked(p)}
  BY DEF Promise!Blocked
<1>3. r \in Promise!Delivers(p)
  BY <1>1, <1>2 DEF Promise!Delivers
<1> QED
  BY <1>3 DEF Promise!Works

(* The loop stays or, asked to quit, leaves.                               *)
LEMMA PortExits ==
  ASSUME NEW p, NEW r, IsPort(p), IsPort(r), NEW failed,
         p.exited = FALSE, p.pending = {}, Same(p, r, {"exited"}),
         r.exited = FALSE \/ (r.exited = TRUE /\ p.quit)
  PROVE  r \in Promise!Works(p, failed)
<1>1. CASE r.exited = FALSE
  <2>1. r = p
    BY <1>1 DEF IsPort, Same, Fields
  <2> QED
    BY <2>1 DEF Promise!Works
<1>2. CASE r.exited = TRUE /\ p.quit
  <2>1. r = [p EXCEPT !.exited = TRUE]
    BY <1>2 DEF IsPort, Same, Fields
  <2>2. r \in Promise!Exits(p)
    BY <1>2, <2>1 DEF Promise!Exits, Promise!Step, Promise!AtSelect
  <2> QED
    BY <2>2 DEF Promise!Works
<1> QED
  BY <1>1, <1>2

(* It reads an acknowledgement, and may leave.                             *)
LEMMA PortReadsAck ==
  ASSUME NEW p, NEW r, IsPort(p), IsPort(r), NEW failed,
         p.exited = FALSE, p.pending = {}, p.acks # <<>>,
         Same(p, r, {"exited", "acks", "done"}), r.acks = Tail(p.acks),
         r.done = p.done \cup {u \in p.tracked : Head(p.acks) = <<u, TRUE>>},
         r.exited = FALSE \/ (r.exited = TRUE /\ p.quit)
  PROVE  r \in Promise!Works(p, failed)
<1> DEFINE p1 == [p EXCEPT !.acks = Tail(@),
                           !.done = @ \cup {u \in p.tracked : Head(p.acks) = <<u, TRUE>>}]
<1>1. p1 \in Promise!ReadsAck(p)
  BY DEF Promise!ReadsAck, Promise!Step, Promise!AtSelect
<1>2. /\ IsPort(p1) /\ Same(p1, r, {"exited"})
      /\ p1.exited = FALSE /\ p1.pending = {} /\ p1.quit = p.quit
  BY DEF IsPort, Same, Fields
<1> HIDE DEF p1
<1>3. CASE r.exited = FALSE
  <2>1. Same(p1, r, {})
    BY <1>2, <1>3 DEF Same, Fields
  <2>2. r = p1
    BY <1>2, <2>1, PortSame
  <2> QED
    BY <1>1, <2>2 DEF Promise!Works
<1>4. CASE r.exited = TRUE /\ p.quit
  <2>1. r = [p1 EXCEPT !.exited = TRUE]
    BY <1>2, <1>4 DEF IsPort, Same, Fields
  <2>2. r \in Promise!Exits(p1)
    BY <1>2, <1>4, <2>1 DEF Promise!Exits, Promise!Step, Promise!AtSelect
  <2> QED
    BY <1>1, <2>2 DEF Promise!Works
<1> QED
  BY <1>3, <1>4

(* Acknowledged messages leave the mailbox.                                *)
LEMMA PortRemoves ==
  ASSUME NEW p, NEW r, IsPort(p), IsPort(r), NEW failed, NEW gone, NEW forgotten,
         ~p.exited, p.pending = {}, Same(p, r, {"box", "tracked"}),
         r.box = p.box \ gone, r.tracked = p.tracked \ forgotten,
         gone \subseteq p.box, gone \subseteq p.done, forgotten \subseteq gone,
         failed \/ forgotten = gone
  PROVE  r \in Promise!Works(p, failed)
<1> DEFINE c == [gone |-> gone, forgotten |-> forgotten]
<1>1. c \in [gone : SUBSET (p.box \cap p.done), forgotten : SUBSET p.done]
  OBVIOUS
<1>2. c.gone = gone /\ c.forgotten = forgotten
  OBVIOUS
<1> HIDE DEF c
<1>3. r = [p EXCEPT !.box = @ \ c.gone, !.tracked = @ \ c.forgotten]
  BY <1>2 DEF IsPort, Same, Fields
<1>4. r \in Promise!Removes(p, failed)
  BY <1>1, <1>2, <1>3 DEF Promise!Removes, Promise!AtSelect
<1> QED
  BY <1>4 DEF Promise!Works
(* The user takes a message.                                               *)
LEMMA PortTakes ==
  ASSUME NEW p, NEW r, IsPort(p), IsPort(r), NEW uids, p.out # <<>>,
         Same(p, r, {"out"}), r.out = Tail(p.out)
  PROVE  r \in Promise!Used(p, uids)
<1>1. r = [p EXCEPT !.out = Tail(@)]
  BY DEF IsPort, Same, Fields
<1>2. r \in Promise!Takes(p)
  BY <1>1 DEF Promise!Takes, Promise!Step
<1> QED
  BY <1>2 DEF Promise!Used

(* It acknowledges one, with an error or without.                          *)
LEMMA PortAcks ==
  ASSUME NEW p, NEW r, IsPort(p), IsPort(r), NEW uids, NEW u \in uids, NEW ok \in BOOLEAN,
         Len(p.acks) < FetchBufferSize,
         Same(p, r, {"acks"}), r.acks = Append(p.acks, <<u, ok>>)
  PROVE  r \in Promise!Used(p, uids)
<1>1. r = [p EXCEPT !.acks = Append(@, <<u, ok>>)]
  BY DEF IsPort, Same, Fields
<1>2. r \in Promise!Acks(p, u, ok)
  BY <1>1 DEF Promise!Acks, Promise!Step
<1>3. r \in UNION {Promise!Acks(p, v, b) : v \in uids, b \in BOOLEAN}
  BY <1>2
<1> QED
  BY <1>3 DEF Promise!Used

(* It closes the receiver.                                                 *)
LEMMA PortCloses ==
  ASSUME NEW p, NEW r, IsPort(p), IsPort(r), NEW uids,
         Same(p, r, {"quit"}), r.quit = TRUE
  PROVE  r \in Promise!Used(p, uids)
<1>1. r = [p EXCEPT !.quit = TRUE]
  BY DEF IsPort, Same, Fields
<1> QED
  BY <1>1 DEF Promise!Closes, Promise!Used

(* A message arrives that was never there before.                          *)
LEMMA PortArrives ==
  ASSUME NEW p, NEW r, IsPort(p), IsPort(r), NEW uids, NEW u \in uids,
         u \notin p.box, u \notin p.tracked, u \notin p.done,
         Same(p, r, {"box"}), r.box = p.box \cup {u}
  PROVE  r \in Promise!Used(p, uids)
<1>1. r = [p EXCEPT !.box = @ \cup {u}]
  BY DEF IsPort, Same, Fields
<1>2. u \in uids \ (p.box \cup p.tracked \cup p.done)
  OBVIOUS
<1>3. r \in Promise!Arrives(p, uids)
  BY <1>1, <1>2 DEF Promise!Arrives
<1> QED
  BY <1>3 DEF Promise!Used

-----------------------------------------------------------------------------
(***************************************************************************)
(* The receiver keeps the promise.                                         *)
(***************************************************************************)
Pending == IF runPc = "deliver" THEN {m[1] : m \in fetched} ELSE {}
Tracked == {u \in UID : messages[u] # Absent} \cup flagged
Done == {u \in UID : messages[u] = StateAcked} \cup flagged \cup ((1..arrived) \ mailbox)
Failed == faults > 0 \/ wantQuit

Kept == \/ port' = port
        \/ port' \in Promise!Works(port, Failed)
        \/ port' \in Promise!Used(port, UID)

(* A record with the fields of a port is one.                              *)
LEMMA APort ==
  ASSUME NEW e, NEW f, NEW t, NEW d, NEW b, NEW o, NEW a, NEW c
  PROVE  IsPort([exited |-> e, pending |-> f, tracked |-> t, done |-> d, box |-> b,
                 out |-> o, acks |-> a, quit |-> c])
  BY DEF IsPort, Fields

(* The fields of the receiver's port.                                      *)
LEMMA PortFields ==
  /\ IsPort(port)
  /\ port.exited = (runPc = "exited")
  /\ port.pending = Pending
  /\ port.tracked = Tracked
  /\ port.done = Done
  /\ port.box = mailbox
  /\ port.out = out
  /\ port.acks = ackChannel
  /\ port.quit = (closer # "open")
<1>1. IsPort(port)
  BY APort DEF port
<1>2. port.exited = (runPc = "exited") /\ port.quit = (closer # "open")
  BY DEF port
<1>3. port.pending = Pending /\ port.tracked = Tracked /\ port.done = Done
  BY DEF port, Pending, Tracked, Done
<1>4. port.box = mailbox /\ port.out = out /\ port.acks = ackChannel
  BY DEF port
<1> QED
  BY <1>1, <1>2, <1>3, <1>4

(* The same of the state after the step.                                   *)
LEMMA PortFieldsNext ==
  /\ IsPort(port')
  /\ port'.exited = (runPc' = "exited")
  /\ port'.pending = Pending'
  /\ port'.tracked = Tracked'
  /\ port'.done = Done'
  /\ port'.box = mailbox'
  /\ port'.out = out'
  /\ port'.acks = ackChannel'
  /\ port'.quit = (closer' # "open")
<1>1. IsPort(port')
  BY APort DEF port
<1>2. port'.exited = (runPc' = "exited") /\ port'.quit = (closer' # "open")
  BY DEF port
<1>3. port'.pending = Pending' /\ port'.tracked = Tracked' /\ port'.done = Done'
  BY DEF port, Pending, Tracked, Done
<1>4. port'.box = mailbox' /\ port'.out = out' /\ port'.acks = ackChannel'
  BY DEF port
<1> QED
  BY <1>1, <1>2, <1>3, <1>4

(* A step that changes nothing the port shows.                             *)
LEMMA PortStutters ==
  ASSUME runPc' = "exited" <=> runPc = "exited", closer' # "open" <=> closer # "open",
         UNCHANGED <<Pending, Tracked, Done, mailbox, out, ackChannel>>
  PROVE  Kept
<1>1. port' = port
  BY DEF port, Pending, Tracked, Done
<1> QED
  BY <1>1 DEF Kept

(* What the arms of the select do to the port.                             *)
LEMMA ArmKeeps ==
  ASSUME TypeOK, LoopSafe, PortInv, Arms
  PROVE  Kept
<1>arm. /\ runPc = "select" /\ runPc' # "deliver"
        /\ UNCHANGED <<mailbox, flagged, arrived, closer, out>>
        /\ runPc' = "exited" => closer # "open"
  BY ArmFacts, ArmQuitFacts DEF ArmEffect, ArmQuits, PortInv, QuitInv
<1>pending. Pending = {} /\ Pending' = {}
  BY <1>arm DEF Pending
<1>exited. /\ port.exited = FALSE /\ port.pending = {}
           /\ port'.exited = FALSE \/ (port'.exited = TRUE /\ port.quit)
  <2>1. port.exited = (runPc = "exited") /\ port'.exited = (runPc' = "exited")
    BY PortFields, PortFieldsNext
  <2>2. port.quit = (closer # "open")
    BY PortFields
  <2>3. port.pending = {}
    BY PortFields, <1>pending
  <2> QED
    BY <1>arm, <2>1, <2>2, <2>3
<1>quit. port'.quit = port.quit
  BY <1>arm, PortFields, PortFieldsNext
<1>1. CASE UNCHANGED <<messages, ackChannel>>
  <2>1. Tracked' = Tracked /\ Done' = Done
    BY <1>arm, <1>1 DEF Tracked, Done
  <2>2. Same(port, port', {"exited"})
    BY <1>arm, <1>pending, <1>quit, <1>1, <2>1, PortFields, PortFieldsNext DEF Same, Fields
  <2> QED
    BY <1>exited, <2>2, PortFields, PortFieldsNext, PortExits DEF Kept
<1>2. CASE RecvAck
  <2> DEFINE h == Head(ackChannel)
  <2>1. ackChannel # <<>> /\ ackChannel' = Tail(ackChannel)
    BY <1>2 DEF RecvAck
  <2>2. h \in UID \X BOOLEAN
    BY <2>1 DEF TypeOK, ChanType
  <2>3. \/ h[2] /\ messages[h[1]] = StateUnacked
           /\ messages' = [messages EXCEPT ![h[1]] = StateAcked]
        \/ ~(h[2] /\ messages[h[1]] = StateUnacked) /\ UNCHANGED messages
    BY <1>2 DEF RecvAck, Acked
  <2> HIDE DEF h
  <2>4. PICK u \in UID, ok \in BOOLEAN : h = <<u, ok>>
    BY <2>2
  <2>types. messages \in [UID -> {Absent, StateUnacked, StateAcked, StateDeleted}]
    BY DEF TypeOK, LoopType
  <2>5. \A v \in UID : messages[v] \in {Absent, StateUnacked, StateAcked}
    BY <2>types DEF PortInv, TrackInv
  <2>6. Tracked' = Tracked /\ Done' = Done \cup {v \in Tracked : h = <<v, TRUE>>}
    <3>1. CASE ok /\ messages[u] = StateUnacked
      <4>1. messages' = [messages EXCEPT ![u] = StateAcked]
        BY <2>3, <2>4, <3>1
      <4>2. Tracked' = Tracked
        <5>1. \A v \in UID : messages'[v] # Absent <=> messages[v] # Absent
          BY <4>1, <3>1, <2>types DEF Absent, StateUnacked, StateAcked
        <5> QED
          BY <5>1, <1>arm DEF Tracked
      <4>3. Done' = Done \cup {u}
        <5>1. \A v \in UID : messages'[v] = StateAcked <=> messages[v] = StateAcked \/ v = u
          BY <4>1, <2>types
        <5> QED
          BY <5>1, <1>arm DEF Done
      <4>4. u \in Tracked
        BY <3>1 DEF Tracked, Absent, StateUnacked
      <4>5. {v \in Tracked : h = <<v, TRUE>>} = {u}
        BY <2>4, <3>1, <4>4
      <4> QED
        BY <4>2, <4>3, <4>5
    <3>2. CASE ~(ok /\ messages[u] = StateUnacked)
      <4>1. UNCHANGED messages
        BY <2>3, <2>4, <3>2
      <4>2. Tracked' = Tracked /\ Done' = Done
        BY <1>arm, <4>1 DEF Tracked, Done
      <4>3. \A v \in Tracked : h = <<v, TRUE>> => v \in Done
        BY <2>4, <2>5, <3>2 DEF Tracked, Done
      <4> QED
        BY <4>2, <4>3
    <3> QED
      BY <3>1, <3>2
  <2>7. Same(port, port', {"exited", "acks", "done"})
    BY <1>arm, <1>pending, <1>quit, <2>6, PortFields, PortFieldsNext DEF Same, Fields
  <2>8. /\ port.acks # <<>> /\ port'.acks = Tail(port.acks)
         /\ port'.done = port.done \cup {v \in port.tracked : Head(port.acks) = <<v, TRUE>>}
    BY <2>1, <2>6, PortFields, PortFieldsNext DEF h
  <2> QED
    BY <1>exited, <2>7, <2>8, PortFields, PortFieldsNext, PortReadsAck DEF Kept
<1>3. Arms => RecvAck \/ UNCHANGED <<messages, ackChannel>>
  BY DEF Arms, RecvQuit, RecvUpdate, Timeout, RecvOp, chanVars
<1> QED
  BY <1>1, <1>2, <1>3
(* What the loop's other steps do to the port.                             *)
LEMMA RunKeeps ==
  ASSUME TypeOK, LoopSafe, ResultInv, QueueInv, PortInv, Run
  PROVE  Kept
<1>types. /\ messages \in [UID -> {Absent, StateUnacked, StateAcked, StateDeleted}]
          /\ faults \in Nat /\ flagged \subseteq mailbox
          /\ \A m \in fetched : m[1] \in UID
  BY DEF TypeOK, LoopType, SrvType, JobType
<1>1. CASE Arms
  BY <1>1, ArmKeeps
<1>2. CASE RecvFetchResult
  <2>1. /\ runPc = "select" /\ worker = "fetchResult"
        /\ UNCHANGED <<messages, mailbox, flagged, arrived, out, ackChannel, closer>>
    BY <1>2 DEF RecvFetchResult, chanVars, srvVars
  <2>2. Tracked' = Tracked /\ Done' = Done /\ Pending = {}
    BY <2>1 DEF Tracked, Done, Pending
  <2>3. rstate = StateInFetch
    BY <2>1 DEF LoopSafe, GoroutineMatches, Runs, TypeOK, LoopType, StateNone,
       StateInIDLE, StateInFetch, StateInDelete, OperationIDLEFinish, OperationDeleteFinish
  <2>4. CASE wantQuit
    <3>1. runPc' = "select"
      BY <1>2, <2>1, <2>3, <2>4 DEF RecvFetchResult
    <3>2. Pending' = {}
      BY <3>1 DEF Pending
    <3> QED
      BY <2>1, <2>2, <3>1, <3>2, PortStutters
  <2>5. CASE ~wantQuit
    <3>1. runPc' = "deliver" /\ fetched' = NewIn(fetched)
      BY <1>2, <2>3, <2>5 DEF RecvFetchResult
    <3>2. Pending' = {m[1] : m \in NewIn(fetched)}
      BY <3>1 DEF Pending
    <3>3. Pending' \subseteq mailbox /\ \A u \in Pending' : u \in UID /\ messages[u] = Absent
      BY <3>2, <2>1, <1>types DEF NewIn, ResultInv
    <3>4. Cardinality(Pending') <= FetchBufferSize
      <4> DEFINE T == {m[1] : m \in fetched}
      <4>1. IsFiniteSet(T) /\ Cardinality(T) <= FetchBufferSize
        BY <2>1 DEF PortInv, BatchInv
      <4>2. Pending' \in SUBSET T
        BY <3>2 DEF NewIn
      <4> HIDE DEF T
      <4>3. /\ IsFiniteSet(Pending') /\ Cardinality(Pending') <= Cardinality(T)
            /\ Cardinality(T) \in Nat
        BY <4>1, <4>2, FS_Subset, FS_CardinalityType
      <4>4. Cardinality(Pending') \in Nat /\ FetchBufferSize \in Nat
        BY <4>3, FS_CardinalityType, ReceiverAssumption DEF ReceiverAssumption
      <4> QED
        BY <4>1, <4>3, <4>4
    <3>5. \A u \in Pending' : u \in Tracked => Failed /\ u \in Done
      <4>1. ~Failed => flagged = {}
        BY <2>1, <1>types DEF Failed, QueueInv, CleanInv, Storing
      <4>2. \A u \in Pending' : u \in Tracked => u \in flagged
        BY <3>3 DEF Tracked
      <4> QED
        BY <4>1, <4>2 DEF Done
    <3>6. Same(port, port', {"pending"})
      BY <2>1, <2>2, <3>1, PortFields, PortFieldsNext DEF Same, Fields
    <3>7. /\ ~port.exited /\ port.pending = {} /\ port'.pending = Pending'
          /\ port.box = mailbox /\ port.tracked = Tracked /\ port.done = Done
      BY <2>1, <2>2, PortFields, PortFieldsNext
    <3>8. Failed \in BOOLEAN
      BY DEF Failed
    <3> QED
      BY <3>3, <3>4, <3>5, <3>6, <3>7, <3>8, PortFields, PortFieldsNext, PortFetches DEF Kept
  <2> QED
    BY <2>4, <2>5
<1>3. ASSUME NEW m \in fetched, Deliver(m) PROVE Kept
  <2>1. /\ runPc = "deliver" /\ Len(out) < OutCap
        /\ fetched' = fetched \ {m} /\ out' = Append(out, m[1])
        /\ messages' = [messages EXCEPT ![m[1]] = StateUnacked]
        /\ UNCHANGED <<runPc, mailbox, flagged, arrived, ackChannel, closer>>
    BY <1>3 DEF Deliver, CanSend, srvVars
  <2>2. m[1] \in UID /\ messages[m[1]] = Absent
    BY <2>1, <1>types DEF ResultInv
  <2>3. m[1] \in Pending /\ Pending' = Pending \ {m[1]}
    <3>1. Pending = {n[1] : n \in fetched} /\ Pending' = {n[1] : n \in fetched \ {m}}
      BY <2>1 DEF Pending
    <3>2. \A n \in fetched : n # m => n[1] # m[1]
      BY DEF ResultInv
    <3> QED
      BY <3>1, <3>2
  <2>4. Tracked' = Tracked \cup {m[1]}
    <3>1. \A u \in UID : messages'[u] # Absent <=> messages[u] # Absent \/ u = m[1]
      BY <2>1, <1>types DEF Absent, StateUnacked
    <3> QED
      BY <2>1, <2>2, <3>1 DEF Tracked
  <2>5. Done' = Done
    <3>1. \A u \in UID : messages'[u] = StateAcked <=> messages[u] = StateAcked
      BY <2>1, <2>2, <1>types DEF Absent, StateUnacked, StateAcked
    <3> QED
      BY <2>1, <3>1 DEF Done
  <2>6. Same(port, port', {"pending", "tracked", "out"})
    BY <2>1, <2>5, PortFields, PortFieldsNext DEF Same, Fields
  <2>7. Len(port.out) # OutCap
    BY <2>1, PortFields, ReceiverAssumption DEF ReceiverAssumption, TypeOK, ChanType
  <2>8. /\ m[1] \in port.pending /\ port'.pending = port.pending \ {m[1]}
        /\ port'.tracked = port.tracked \cup {m[1]} /\ port'.out = Append(port.out, m[1])
    BY <2>1, <2>3, <2>4, PortFields, PortFieldsNext
  <2> QED
    BY <2>6, <2>7, <2>8, PortFields, PortFieldsNext, PortDelivers DEF Kept
<1>4. CASE DeliverDone \/ Signal
  <2>1. /\ UNCHANGED <<messages, fetched, mailbox, flagged, arrived, out, ackChannel, closer>>
        /\ runPc' = "select" /\ runPc # "exited" /\ (runPc # "deliver" \/ fetched = {})
    BY <1>4 DEF DeliverDone, Signal, jobVars, chanVars, srvVars
  <2>2. UNCHANGED <<Tracked, Done, Pending>>
    BY <2>1 DEF Tracked, Done, Pending
  <2> QED
    BY <2>1, <2>2, PortStutters
<1>5. ASSUME NEW r \in stored, RecvDeleteResult(r) PROVE Kept
  <2>1. /\ runPc = "select" /\ worker = "deleteResult"
        /\ UNCHANGED <<mailbox, flagged, arrived, out, ackChannel, closer>>
    BY <1>5 DEF RecvDeleteResult, chanVars, srvVars
  <2>2. rstate = StateInDelete
    BY <2>1, TypeOK DEF LoopSafe, GoroutineMatches, Runs, TypeOK, LoopType, StateNone,
       StateInIDLE, StateInFetch, StateInDelete, OperationIDLEFinish, OperationFetchFinish
  <2>3. /\ r[1] \in UID /\ r[2] \in {StateAcked, StateDeleted}
        /\ messages[r[1]] = StateAcked
        /\ r[2] = StateDeleted => r[1] \in flagged
    BY <2>1 DEF TypeOK, JobType, PortInv, TrackInv, ResultInv
  <2>4. runPc' = "select"
    BY <1>5, <2>1, <2>2 DEF RecvDeleteResult
  <2>5. \A u \in UID : messages'[u] = messages[u] \/ (u \in flagged /\ messages'[u] = Absent)
    BY <1>5, <2>2, <2>3, <1>types DEF RecvDeleteResult
  <2>6. /\ \A u \in UID : u \in flagged \/ (messages'[u] # Absent <=> messages[u] # Absent)
        /\ \A u \in UID : u \in flagged \/ (messages'[u] = StateAcked <=> messages[u] = StateAcked)
    BY <2>5
  <2>7. UNCHANGED <<Tracked, Done, Pending>>
    BY <2>1, <2>4, <2>6 DEF Tracked, Done, Pending
  <2> QED
    BY <2>1, <2>4, <2>7, PortStutters
<1> QED
  BY <1>1, <1>2, <1>3, <1>4, <1>5 DEF Arms, Run
(* What the goroutines do to the port: only the EXPUNGE shows.             *)
LEMMA WorkerKeeps ==
  ASSUME TypeOK, LoopSafe, QueueInv, Worker
  PROVE  Kept
<1>types. /\ messages \in [UID -> {Absent, StateUnacked, StateAcked, StateDeleted}]
          /\ faults \in Nat /\ flagged \subseteq mailbox /\ mailbox \subseteq 1..arrived
          /\ toProcess \subseteq UID
  BY DEF TypeOK, LoopType, SrvType, JobType
<1>frame. UNCHANGED <<runPc, messages, arrived, out, ackChannel, closer>>
  BY DEF Worker, IdleReturns, ReadMailbox, Fetch, UidStore, Expunge, WorkerFinish, Abandon,
     loopVars, chanVars, srvVars
<1>1. CASE IdleReturns \/ ReadMailbox \/ WorkerFinish \/ Abandon
  <2>1. UNCHANGED <<mailbox, flagged, fetched>>
    BY <1>1 DEF IdleReturns, ReadMailbox, WorkerFinish, Abandon, srvVars
  <2>2. UNCHANGED <<Tracked, Done, Pending>>
    BY <1>frame, <2>1 DEF Tracked, Done, Pending
  <2> QED
    BY <1>frame, <2>1, <2>2, PortStutters
<1>2. CASE Fetch
  <2>1. UNCHANGED <<mailbox, flagged>> /\ worker = "fetch"
    BY <1>2 DEF Fetch
  <2>2. runPc # "deliver"
    BY <2>1, DeliverAlone DEF OperationFetchFinish
  <2>3. UNCHANGED <<Tracked, Done, Pending>>
    BY <1>frame, <2>1, <2>2 DEF Tracked, Done, Pending
  <2> QED
    BY <1>frame, <2>1, <2>3, PortStutters
<1>3. CASE UidStore
  <2>1. UNCHANGED <<mailbox, fetched>>
    BY <1>3 DEF UidStore
  <2>2. PICK applied \in SUBSET {u \in toProcess \cap mailbox : messages[u] = StateAcked} :
          flagged' = flagged \cup applied
    BY <1>3 DEF UidStore
  <2>3. \A u \in applied : u \in UID /\ messages[u] = StateAcked /\ messages[u] # Absent
    BY <2>2, <1>types DEF StateAcked, Absent
  <2>4. UNCHANGED <<Tracked, Done, Pending>>
    BY <1>frame, <2>1, <2>2, <2>3 DEF Tracked, Done, Pending
  <2> QED
    BY <1>frame, <2>1, <2>4, PortStutters
<1>4. CASE Expunge
  <2>1. worker = "expunge" /\ UNCHANGED fetched
    BY <1>4 DEF Expunge
  <2>2. runPc # "deliver" /\ runPc # "exited"
    <3>1. runPc # "deliver"
      BY <2>1, DeliverAlone DEF OperationFetchFinish
    <3>2. rstate # StateNone
      BY <2>1 DEF LoopSafe, GoroutineMatches
    <3> QED
      BY <3>1, <3>2 DEF LoopSafe, LoopInv
  <2>3. Pending = {} /\ Pending' = {}
    BY <1>frame, <2>2 DEF Pending
  <2>4. PICK gone \in SUBSET flagged : mailbox' = mailbox \ gone /\ flagged' = flagged \ gone
    BY <1>4 DEF Expunge
  <2> DEFINE forgotten == {u \in gone : messages[u] = Absent}
  <2>5. Tracked' = Tracked \ forgotten
    <3>1. flagged \subseteq UID
      BY <1>types, ReceiverAssumption DEF TypeOK, SrvType, UID, ReceiverAssumption
    <3> QED
      BY <1>frame, <2>4, <3>1 DEF Tracked
  <2>6. Done' = Done
    BY <1>frame, <2>4, <1>types DEF Done
  <2>7. Failed \/ forgotten = gone
    <3>1. stored = {}
      BY <2>1 DEF QueueInv
    <3>2. ~Failed => \A u \in flagged : messages[u] = Absent
      BY <3>1, <1>types DEF Failed, QueueInv, CleanInv
    <3> QED
      BY <2>4, <3>2
  <2>8. gone \subseteq Done /\ forgotten \subseteq gone
    BY <2>4 DEF Done
  <2> HIDE DEF forgotten
  <2>9. Same(port, port', {"box", "tracked"})
    BY <1>frame, <2>3, <2>6, PortFields, PortFieldsNext DEF Same, Fields
  <2>10. /\ ~port.exited /\ port.pending = {} /\ gone \subseteq port.box
         /\ gone \subseteq port.done
         /\ port'.box = port.box \ gone /\ port'.tracked = port.tracked \ forgotten
    BY <1>types, <2>2, <2>3, <2>4, <2>5, <2>8, PortFields, PortFieldsNext
  <2> QED
    BY <2>7, <2>8, <2>9, <2>10, PortFields, PortFieldsNext, PortRemoves DEF Kept
<1> QED
  BY <1>1, <1>2, <1>3, <1>4 DEF Worker

(* What server and user do to the port.                                    *)
LEMMA OthersKeep ==
  ASSUME TypeOK, PortInv, Server \/ User \/ UNCHANGED vars
  PROVE  Kept
<1>loop. UNCHANGED <<runPc, messages, fetched, flagged>>
  BY DEF Server, Arrive, Announce, OtherUpdate, User, Consume, Ack, Close, HasQuit, CloseReturn,
     vars, rcvVars, loopVars, jobVars, srvVars
<1>pending. UNCHANGED Pending
  BY <1>loop DEF Pending
<1>tracked. UNCHANGED Tracked
  BY <1>loop DEF Tracked
<1>same. ASSUME UNCHANGED <<arrived, mailbox, out, ackChannel>>,
                closer' # "open" <=> closer # "open"
         PROVE  Kept
  <2>1. UNCHANGED Done
    BY <1>loop, <1>same DEF Done
  <2> QED
    BY <1>loop, <1>pending, <1>tracked, <1>same, <2>1, PortStutters
<1>1. CASE Announce \/ OtherUpdate \/ HasQuit \/ CloseReturn \/ UNCHANGED vars
  BY <1>1, <1>same DEF Announce, OtherUpdate, HasQuit, CloseReturn, vars, rcvVars, chanVars,
     srvVars
<1>2. CASE Arrive
  <2>1. /\ arrived' = arrived + 1 /\ mailbox' = mailbox \cup {arrived + 1}
        /\ arrived < MaxUid /\ UNCHANGED <<out, ackChannel, closer>>
    BY <1>2 DEF Arrive, rcvVars, chanVars
  <2>2. /\ arrived \in Nat /\ mailbox \subseteq 1..arrived /\ flagged \subseteq mailbox
        /\ MaxUid \in Nat
    BY ReceiverAssumption DEF TypeOK, SrvType, ReceiverAssumption
  <2>3. (1..arrived') \ mailbox' = (1..arrived) \ mailbox
    BY <2>1, <2>2
  <2>4. UNCHANGED Done
    BY <1>loop, <2>3 DEF Done
  <2>5. arrived + 1 \in UID /\ arrived + 1 \notin mailbox /\ arrived + 1 \notin flagged
    BY <2>1, <2>2 DEF UID
  <2>6. messages[arrived + 1] = Absent
    <3>1. ~(arrived + 1 <= arrived)
      BY <2>2
    <3> QED
      BY <2>5, <3>1 DEF PortInv, TrackInv
  <2>7. arrived + 1 \notin Tracked
    BY <2>5, <2>6 DEF Tracked
  <2>8. arrived + 1 \notin Done
    BY <2>2, <2>5, <2>6 DEF Done, Absent, StateAcked
  <2>9. Same(port, port', {"box"})
    BY <1>loop, <1>pending, <1>tracked, <2>1, <2>4, PortFields, PortFieldsNext DEF Same, Fields
  <2>10. /\ arrived + 1 \notin port.box /\ arrived + 1 \notin port.tracked
         /\ arrived + 1 \notin port.done /\ port'.box = port.box \cup {arrived + 1}
    BY <2>1, <2>5, <2>7, <2>8, PortFields, PortFieldsNext
  <2> QED
    BY <2>5, <2>9, <2>10, PortFields, PortFieldsNext, PortArrives DEF Kept
<1>3. CASE Consume
  <2>1. out # <<>> /\ out' = Tail(out) /\ UNCHANGED <<arrived, mailbox, ackChannel, closer>>
    BY <1>3 DEF Consume, srvVars
  <2>2. UNCHANGED Done
    BY <1>loop, <2>1 DEF Done
  <2>3. Same(port, port', {"out"})
    BY <1>loop, <1>pending, <1>tracked, <2>1, <2>2, PortFields, PortFieldsNext DEF Same, Fields
  <2>4. port.out # <<>> /\ port'.out = Tail(port.out)
    BY <2>1, PortFields, PortFieldsNext
  <2> QED
    BY <2>3, <2>4, PortFields, PortFieldsNext, PortTakes DEF Kept
<1>4. ASSUME NEW u \in held, Ack(u) PROVE Kept
  <2>1. /\ Len(ackChannel) < FetchBufferSize
        /\ UNCHANGED <<arrived, mailbox, out, closer>>
    BY <1>4 DEF Ack
  <2>2. PICK ok \in BOOLEAN : ackChannel' = Append(ackChannel, <<u, ok>>)
    BY <1>4 DEF Ack
  <2>3. UNCHANGED Done
    BY <1>loop, <2>1 DEF Done
  <2>4. Same(port, port', {"acks"})
    BY <1>loop, <1>pending, <1>tracked, <2>1, <2>3, PortFields, PortFieldsNext DEF Same, Fields
  <2>5. Len(port.acks) < FetchBufferSize /\ port'.acks = Append(port.acks, <<u, ok>>)
    BY <2>1, <2>2, PortFields, PortFieldsNext
  <2>6. u \in UID
    BY DEF TypeOK, EnvType
  <2> QED
    BY <2>4, <2>5, <2>6, PortFields, PortFieldsNext, PortAcks DEF Kept
<1>5. CASE Close
  <2>1. closer' = "waiting" /\ UNCHANGED <<arrived, mailbox, out, ackChannel>>
    BY <1>5 DEF Close, srvVars
  <2>2. UNCHANGED Done
    BY <1>loop, <2>1 DEF Done
  <2>3. Same(port, port', {"quit"})
    BY <1>loop, <1>pending, <1>tracked, <2>1, <2>2, PortFields, PortFieldsNext DEF Same, Fields
  <2>4. port'.quit = TRUE
    BY <2>1, PortFieldsNext
  <2> QED
    BY <2>3, <2>4, PortFields, PortFieldsNext, PortCloses DEF Kept
<1> QED
  BY <1>1, <1>2, <1>3, <1>4, <1>5 DEF Server, User

(* The receiver keeps the promise of MailReceiver, for every mailbox,      *)
(* buffer and channel size: what it sends out is in the mailbox and not    *)
(* with its user already, unless a call failed and the user had            *)
(* acknowledged it; it removes only what was acknowledged; it leaves only  *)
(* when asked to.                                                          *)
THEOREM ReceiverKeepsPromise == Spec => KeepsPromise
<1> DEFINE Inv == TypeOK /\ LoopSafe /\ ResultInv /\ QueueInv /\ PortInv
<1>1. Init => port = Promise!NewState(mailbox)
  <2> SUFFICES ASSUME Init PROVE port = Promise!NewState(mailbox)
    OBVIOUS
  <2>1. /\ runPc = "select" /\ closer = "open" /\ out = <<>> /\ ackChannel = <<>>
        /\ messages = [u \in UID |-> Absent] /\ flagged = {} /\ mailbox = 1..arrived
    BY DEF Init, RcvInit
  <2>2. Pending = {} /\ Tracked = {} /\ Done = {}
    BY <2>1 DEF Pending, Tracked, Done, Absent, StateAcked
  <2>3. port = [exited |-> FALSE, pending |-> Pending, tracked |-> Tracked, done |-> Done,
                box |-> mailbox, out |-> out, acks |-> ackChannel, quit |-> FALSE]
    BY <2>1 DEF port, Pending, Tracked, Done
  <2> QED
    BY <2>1, <2>2, <2>3 DEF Promise!NewState
<1>2. Inv /\ [Next]_vars => Kept
  BY RunKeeps, WorkerKeeps, OthersKeep DEF Next, Closed
<1>3. TypeOK /\ LoopSafe /\ ResultInv /\ QueueInv /\ [Next]_vars => QueueInv'
  BY QueueStep
<1>4. Spec => []QueueInv
  BY <1>3, QueueInit, TypeCorrect, LoopSafeAlways, ResultAlways, PTL DEF Spec
<1>5. Spec => []Inv
  BY <1>4, TypeCorrect, LoopSafeAlways, ResultAlways, PortInvAlways, PTL
<1>6. Kept => [\/ port' \in Promise!Works(port, faults > 0 \/ wantQuit)
               \/ port' \in Promise!Used(port, UID)]_port
  BY DEF Kept, Failed
<1> HIDE DEF Inv
<1> QED
  BY <1>1, <1>2, <1>5, <1>6, PTL DEF Spec, KeepsPromise
=============================================================================
