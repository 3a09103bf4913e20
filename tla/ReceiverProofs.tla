--------------------------- MODULE ReceiverProofs ---------------------------
(***************************************************************************)
(* Proofs about the receiver, for any number of messages, any capacities,  *)
(* any number of faults.                                                   *)
(***************************************************************************)
EXTENDS Receiver, FiniteSetTheorems, TLAPS

TickOps == FinishOps \cup {OperationNone, OperationTimeout}

\* what a tick can change
TickType ==
  /\ rstate \in {StateNone, StateInIDLE, StateInFetch, StateInDelete}
  /\ runPc \in {"select", "deliver", "signal", "exited", "panic"}
  /\ wantQuit \in BOOLEAN /\ wantFetch \in BOOLEAN
  /\ wantDelete \in BOOLEAN /\ wantStopIdle \in BOOLEAN
  /\ nextToProcess \subseteq UID
  /\ worker \in WorkerPcs
  /\ existing \subseteq Nat
  /\ toProcess \subseteq UID

(* A tick of run's state machine keeps the types of what it changes.       *)
LEMMA TickTypeOK ==
  ASSUME TypeOK, NEW op \in TickOps, NEW q \in BOOLEAN, NEW f \in BOOLEAN,
         NEW d \in BOOLEAN, NEW todo \in SUBSET UID,
         Tick(op, q, f, d, todo)
  PROVE  TickType'
<1> DEFINE Flags == /\ wantQuit' \in BOOLEAN /\ wantFetch' \in BOOLEAN
                    /\ wantDelete' \in BOOLEAN /\ nextToProcess' \subseteq UID
<1>old. /\ rstate \in {StateNone, StateInIDLE, StateInFetch, StateInDelete}
        /\ runPc \in {"select", "deliver", "signal", "exited", "panic"}
        /\ wantStopIdle \in BOOLEAN /\ worker \in WorkerPcs
        /\ existing \subseteq Nat /\ toProcess \subseteq UID
  BY DEF TypeOK, LoopType, JobType
<1>keep. ASSUME NEW f1 \in BOOLEAN, NEW d1 \in BOOLEAN, NEW todo1 \in SUBSET UID,
                Keep(q, f1, d1, todo1)
         PROVE  Flags
  BY <1>keep DEF Keep
<1>rest. ASSUME Flags,
                rstate' \in {StateNone, StateInIDLE, StateInFetch, StateInDelete},
                runPc' \in {"select", "deliver", "signal", "exited", "panic"},
                wantStopIdle' \in BOOLEAN, worker' \in WorkerPcs,
                existing' \subseteq Nat, toProcess' \subseteq UID
         PROVE  TickType'
  BY <1>rest DEF TickType
<1>nostart. NoStart => worker' \in WorkerPcs /\ existing' \subseteq Nat /\ toProcess' \subseteq UID
  BY <1>old DEF NoStart
<1>panic. ASSUME Panic(q, f, d, todo) PROVE TickType'
  <2>1. Flags
    BY <1>panic, <1>keep DEF Panic
  <2> HIDE DEF Flags
  <2>2. NoStart /\ runPc' = "panic" /\ rstate' = rstate /\ wantStopIdle' = wantStopIdle
    BY <1>panic DEF Panic
  <2> QED
    BY <2>1, <2>2, <1>old, <1>rest, <1>nostart
<1>finish. ASSUME NEW stop \in BOOLEAN, Finish(stop, q, f, d, todo) PROVE TickType'
  <2>1. Flags
    BY <1>finish, <1>keep DEF Finish
  <2> HIDE DEF Flags
  <2>2. NoStart /\ runPc' = "signal" /\ rstate' = StateNone /\ wantStopIdle' = stop
    BY <1>finish DEF Finish
  <2> QED
    BY <2>1, <2>2, <1>old, <1>rest, <1>nostart
<1>wait. ASSUME NEW f1 \in BOOLEAN, Wait(q, f1, d, todo) PROVE TickType'
  <2>1. Flags
    BY <1>wait, <1>keep DEF Wait
  <2> HIDE DEF Flags
  <2>2. NoStart /\ UNCHANGED <<runPc, rstate, wantStopIdle>>
    BY <1>wait DEF Wait
  <2> QED
    BY <2>1, <2>2, <1>old, <1>rest, <1>nostart
<1>3. CASE rstate = StateNone /\ TickNone(op, q, f, d, todo)
  <2>1. ASSUME NEW f1 \in BOOLEAN, StartDelete(q, f1, todo) PROVE TickType'
    <3>1. Flags
      <4>1. Keep(q, f1, FALSE, {}) /\ {} \in SUBSET UID /\ FALSE \in BOOLEAN
        BY <2>1 DEF StartDelete
      <4> QED
        BY <4>1, <1>keep
    <3> HIDE DEF Flags
    <3>2. /\ rstate' = StateInDelete /\ worker' = "uidStore" /\ toProcess' = todo
          /\ UNCHANGED <<runPc, wantStopIdle, existing>>
      BY <2>1 DEF StartDelete
    <3> QED
      BY <3>1, <3>2, <1>old, <1>rest DEF WorkerPcs
  <2>2. ASSUME StartFetch(q, todo) PROVE TickType'
    <3>1. Flags
      BY <2>2, <1>keep DEF StartFetch
    <3> HIDE DEF Flags
    <3>2. /\ rstate' = StateInFetch /\ worker' = "mailbox"
          /\ existing' = {seqNum[u] : u \in {v \in UID : messages'[v] # Absent}}
          /\ UNCHANGED <<runPc, wantStopIdle, toProcess>>
      BY <2>2 DEF StartFetch, buildCurrentSequence
    <3>3. existing' \subseteq Nat
      BY <3>2 DEF TypeOK, LoopType
    <3> QED
      BY <3>1, <3>2, <3>3, <1>old, <1>rest DEF WorkerPcs
  <2>3. ASSUME StartIdle(q, todo) PROVE TickType'
    <3>1. Flags
      BY <2>3, <1>keep DEF StartIdle
    <3> HIDE DEF Flags
    <3>2. /\ rstate' = StateInIDLE /\ worker' = "idle"
          /\ UNCHANGED <<runPc, wantStopIdle, existing, toProcess>>
      BY <2>3 DEF StartIdle
    <3> QED
      BY <3>1, <3>2, <1>old, <1>rest DEF WorkerPcs
  <2>4. ASSUME Exit(q, todo) PROVE TickType'
    <3>1. Flags
      BY <2>4, <1>keep DEF Exit
    <3> HIDE DEF Flags
    <3>2. NoStart /\ runPc' = "exited" /\ UNCHANGED <<rstate, wantStopIdle>>
      BY <2>4 DEF Exit
    <3> QED
      BY <3>1, <3>2, <1>old, <1>rest, <1>nostart
  <2>5. (~q /\ (f \/ op = OperationTimeout)) \in BOOLEAN
    OBVIOUS
  <2> QED
    BY <1>3, <1>panic, <2>1, <2>2, <2>3, <2>4, <2>5 DEF TickNone
<1>4. CASE rstate = StateInIDLE /\ TickInIDLE(op, q, f, d, todo)
  <2>1. ASSUME Interrupt(q, d, todo) PROVE TickType'
    <3>1. Flags
      BY <2>1, <1>keep DEF Interrupt
    <3> HIDE DEF Flags
    <3>2. NoStart /\ wantStopIdle' = TRUE /\ UNCHANGED <<rstate, runPc>>
      BY <2>1 DEF Interrupt
    <3> QED
      BY <3>1, <3>2, <1>old, <1>rest, <1>nostart
  <2>2. FALSE \in BOOLEAN
    OBVIOUS
  <2> QED
    BY <1>4, <1>panic, <1>finish, <2>1, <2>2 DEF TickInIDLE, IdleFinish
<1>5. CASE rstate = StateInFetch /\ TickInFetch(op, q, f, d, todo)
  BY <1>5, <1>old, <1>panic, <1>finish, <1>wait DEF TickInFetch
<1>6. CASE rstate = StateInDelete /\ TickInDelete(op, q, f, d, todo)
  <2>1. (f \/ op = OperationTimeout) \in BOOLEAN
    OBVIOUS
  <2> QED
    BY <1>6, <2>1, <1>old, <1>panic, <1>finish, <1>wait DEF TickInDelete
<1> QED
  BY <1>3, <1>4, <1>5, <1>6 DEF Tick

(* The mailbox is finite, so its size and its sequence numbers are numbers. *)
LEMMA MailboxCounts ==
  ASSUME SrvType
  PROVE  /\ Cardinality(mailbox) \in Nat
         /\ \A u \in UID : SeqNumOf(u) \in Nat
<1>1. IsFiniteSet(1..arrived)
  BY FS_Interval DEF SrvType
<1>2. IsFiniteSet(mailbox)
  BY <1>1, FS_Subset DEF SrvType
<1>3. \A u \in UID : IsFiniteSet({v \in mailbox : v <= u})
  BY <1>2, FS_Subset
<1> QED
  BY <1>2, <1>3, FS_CardinalityType DEF SeqNumOf

(* What leaves a group of variables alone leaves its type alone.           *)
LEMMA TypeFrames ==
  ASSUME TypeOK
  PROVE  /\ UNCHANGED loopVars => LoopType'
         /\ UNCHANGED jobVars => JobType'
         /\ UNCHANGED chanVars => ChanType'
         /\ UNCHANGED srvVars => SrvType'
         /\ UNCHANGED envVars => EnvType'
<1>1. UNCHANGED loopVars => LoopType'
  BY DEF TypeOK, LoopType, loopVars, wants
<1>2. UNCHANGED jobVars => JobType'
  BY DEF TypeOK, JobType, jobVars
<1>3. UNCHANGED chanVars => ChanType'
  BY DEF TypeOK, ChanType, chanVars
<1>4. UNCHANGED srvVars => SrvType'
  BY DEF TypeOK, SrvType, srvVars
<1>5. UNCHANGED envVars => EnvType'
  BY DEF TypeOK, EnvType, envVars
<1> QED
  BY <1>1, <1>2, <1>3, <1>4, <1>5

(* A tick taken by an arm of the select keeps the types of the loop and of *)
(* the goroutine it may start.                                             *)
LEMMA TickArmTypeOK ==
  ASSUME TypeOK, NEW op \in TickOps, NEW q \in BOOLEAN, NEW f \in BOOLEAN,
         NEW d \in BOOLEAN, NEW todo \in SUBSET UID,
         Tick(op, q, f, d, todo),
         messages' \in [UID -> {Absent, StateUnacked, StateAcked, StateDeleted}],
         UNCHANGED <<seqNum, fetched, seqset, stored>>
  PROVE  LoopType' /\ JobType'
<1>1. TickType'
  BY TickTypeOK
<1>2. LoopType'
  BY <1>1 DEF TickType, TypeOK, LoopType
<1>3. JobType'
  BY <1>1 DEF TickType, TypeOK, JobType
<1> QED
  BY <1>2, <1>3

(* Type correctness is preserved by every step.                            *)
LEMMA TypeOKStep == ASSUME TypeOK, [Next]_vars PROVE TypeOK'
<1>all. LoopType' /\ JobType' /\ ChanType' /\ SrvType' /\ EnvType' => TypeOK'
  BY DEF TypeOK
<1>loop. /\ wantQuit \in BOOLEAN /\ wantFetch \in BOOLEAN /\ wantDelete \in BOOLEAN
         /\ nextToProcess \in SUBSET UID
         /\ messages \in [UID -> {Absent, StateUnacked, StateAcked, StateDeleted}]
         /\ OperationNone \in TickOps /\ OperationTimeout \in TickOps
  BY DEF TickOps, TypeOK, LoopType
<1>tick. ASSUME NEW op \in TickOps, NEW q \in BOOLEAN, NEW f \in BOOLEAN,
                NEW d \in BOOLEAN, NEW todo \in SUBSET UID,
                Tick(op, q, f, d, todo), UNCHANGED messages,
                UNCHANGED <<seqNum, fetched, seqset, stored>>
         PROVE  LoopType' /\ JobType'
  <2>1. messages' \in [UID -> {Absent, StateUnacked, StateAcked, StateDeleted}]
    BY <1>tick, <1>loop
  <2> QED
    BY <1>tick, <2>1, TickArmTypeOK
<1>1. CASE RecvQuit
  <2>1. Tick(OperationNone, TRUE, wantFetch, wantDelete, nextToProcess)
    BY <1>1 DEF RecvQuit
  <2>2. UNCHANGED messages /\ UNCHANGED <<seqNum, fetched, seqset, stored>>
    BY <1>1 DEF RecvQuit
  <2>3. LoopType' /\ JobType'
    <3>1. ASSUME NEW q \in BOOLEAN,
                 Tick(OperationNone, q, wantFetch, wantDelete, nextToProcess)
          PROVE  LoopType' /\ JobType'
      BY <3>1, <2>2, <1>loop, <1>tick
    <3> QED
      BY <2>1, <3>1
  <2>4. ChanType'
    BY <1>1 DEF RecvQuit, TypeOK, ChanType
  <2> QED
    BY <1>1, <1>all, <2>3, <2>4, TypeFrames DEF RecvQuit
<1>2. CASE RecvUpdate
  <2>1. Tick(OperationNone, wantQuit, wantFetch \/ Head(updates) = "mailbox",
             wantDelete, nextToProcess)
    BY <1>2 DEF RecvUpdate
  <2>2. UNCHANGED messages /\ UNCHANGED <<seqNum, fetched, seqset, stored>>
    BY <1>2 DEF RecvUpdate
  <2>3. (wantFetch \/ Head(updates) = "mailbox") \in BOOLEAN
    OBVIOUS
  <2>4. LoopType' /\ JobType'
    <3>1. ASSUME NEW f \in BOOLEAN,
                 Tick(OperationNone, wantQuit, f, wantDelete, nextToProcess)
          PROVE  LoopType' /\ JobType'
      BY <3>1, <2>2, <1>loop, <1>tick
    <3> QED
      BY <2>1, <2>3, <3>1
  <2>5. ChanType'
    BY <1>2, ReceiverAssumption DEF ReceiverAssumption, RecvUpdate, TypeOK, ChanType
  <2> QED
    BY <1>2, <1>all, <2>4, <2>5, TypeFrames DEF RecvUpdate
<1>3. CASE RecvAck
  <2> DEFINE u == Head(ackChannel)[1]
             ok == Acked(u, Head(ackChannel)[2])
  <2>1. u \in UID
    BY <1>3 DEF RecvAck, TypeOK, ChanType
  <2>2. UNCHANGED <<seqNum, fetched, seqset, stored>>
    BY <1>3 DEF RecvAck
  <2>3. LoopType' /\ JobType'
    <3>1. CASE ok
      <4>1. /\ Tick(OperationNone, wantQuit, wantFetch, FlagDelete(wantDelete),
                    nextToProcess \cup {u})
            /\ messages' = [messages EXCEPT ![u] = StateAcked]
        BY <1>3, <3>1 DEF RecvAck
      <4> HIDE DEF u, ok
      <4>2. messages' \in [UID -> {Absent, StateUnacked, StateAcked, StateDeleted}]
        BY <4>1, <1>loop
      <4>3. FlagDelete(wantDelete) \in BOOLEAN
        BY DEF FlagDelete
      <4>4. nextToProcess \cup {u} \in SUBSET UID
        BY <2>1, <1>loop
      <4> QED
        BY <4>1, <4>2, <4>3, <4>4, <2>2, <1>loop, TickArmTypeOK
    <3>2. CASE ~ok
      <4>1. /\ Tick(OperationNone, wantQuit, wantFetch, wantDelete, nextToProcess)
            /\ UNCHANGED messages
        BY <1>3, <3>2 DEF RecvAck
      <4> QED
        BY <4>1, <2>2, <1>loop, <1>tick
    <3> QED
      BY <3>1, <3>2
  <2>4. ChanType'
    BY <1>3, ReceiverAssumption DEF ReceiverAssumption, RecvAck, TypeOK, ChanType
  <2> QED
    BY <1>3, <1>all, <2>3, <2>4, TypeFrames DEF RecvAck
<1>4. CASE Timeout
  <2>1. Tick(OperationTimeout, wantQuit, wantFetch, wantDelete, nextToProcess)
    BY <1>4 DEF Timeout
  <2>2. UNCHANGED messages /\ UNCHANGED <<seqNum, fetched, seqset, stored>>
    BY <1>4 DEF Timeout
  <2>3. LoopType' /\ JobType'
    BY <2>1, <2>2, <1>loop, <1>tick
  <2> QED
    BY <1>4, <1>all, <2>3, TypeFrames DEF Timeout
<1>5. CASE RecvOp
  <2>1. opChan \in TickOps
    BY <1>5 DEF RecvOp, TickOps, TypeOK, ChanType
  <2>2. Tick(opChan, wantQuit, wantFetch, wantDelete, nextToProcess)
    BY <1>5 DEF RecvOp
  <2>3. UNCHANGED messages /\ UNCHANGED <<seqNum, fetched, seqset, stored>>
    BY <1>5 DEF RecvOp
  <2>4. LoopType' /\ JobType'
    BY <2>1, <2>2, <2>3, <1>loop, <1>tick
  <2>5. ChanType'
    BY <1>5 DEF RecvOp, TypeOK, ChanType
  <2> QED
    BY <1>5, <1>all, <2>4, <2>5, TypeFrames DEF RecvOp
<1>6. CASE RecvFetchResult
  <2>1. LoopType'
    BY <1>6 DEF RecvFetchResult, TypeOK, LoopType, wants
  <2>2. fetched' \subseteq fetched /\ worker' = OperationFetchFinish
    BY <1>6 DEF RecvFetchResult, NewIn
  <2>3. JobType'
    BY <1>6, <2>2 DEF RecvFetchResult, TypeOK, JobType, WorkerPcs, FinishOps
  <2> QED
    BY <1>6, <1>all, <2>1, <2>3, TypeFrames DEF RecvFetchResult
<1>7. ASSUME NEW m \in fetched, Deliver(m) PROVE TypeOK'
  <2>1. m[1] \in UID /\ m[2] \in Nat
    BY DEF TypeOK, JobType
  <2>2. /\ messages' = [messages EXCEPT ![m[1]] = StateUnacked]
        /\ seqNum' = [seqNum EXCEPT ![m[1]] = m[2]]
        /\ delivered' = [delivered EXCEPT ![m[1]] = @ + 1]
        /\ out' = Append(out, m[1]) /\ Len(out) < OutCap
        /\ fetched' = fetched \ {m}
    BY <1>7 DEF Deliver, CanSend
  <2>3. UNCHANGED <<rstate, runPc, wants, nextToProcess>>
    BY <1>7 DEF Deliver
  <2>4. UNCHANGED <<worker, existing, seqset, toProcess, stored>>
    BY <1>7 DEF Deliver
  <2>5. UNCHANGED <<opChan, updates, ackChannel, quitChan, closer>>
    BY <1>7 DEF Deliver
  <2>6. UNCHANGED srvVars /\ UNCHANGED <<held, ackedOk>>
    BY <1>7 DEF Deliver
  <2>7. LoopType'
    <3>1. messages' \in [UID -> {Absent, StateUnacked, StateAcked, StateDeleted}]
      BY <2>1, <2>2 DEF TypeOK, LoopType
    <3>2. seqNum' \in [UID -> Nat]
      BY <2>1, <2>2 DEF TypeOK, LoopType
    <3> QED
      BY <2>3, <3>1, <3>2 DEF TypeOK, LoopType, wants
  <2>8. JobType'
    BY <2>2, <2>4 DEF TypeOK, JobType
  <2>9. ChanType'
    <3>1. out' \in Seq(UID) /\ Len(out') <= OutCap
      BY <2>1, <2>2, ReceiverAssumption DEF ReceiverAssumption, TypeOK, ChanType
    <3> QED
      BY <2>5, <3>1 DEF TypeOK, ChanType
  <2>10. EnvType'
    BY <2>1, <2>2, <2>6 DEF TypeOK, EnvType
  <2> QED
    BY <1>all, <2>6, <2>7, <2>8, <2>9, <2>10, TypeFrames
<1>8. CASE DeliverDone
  <2>1. LoopType'
    BY <1>8 DEF DeliverDone, TypeOK, LoopType, wants
  <2> QED
    BY <1>8, <1>all, <2>1, TypeFrames DEF DeliverDone
<1>9. ASSUME NEW r \in stored, RecvDeleteResult(r) PROVE TypeOK'
  <2>1. r[1] \in UID /\ r[2] \in {StateAcked, StateDeleted}
    BY DEF TypeOK, JobType
  <2>2. FlagDelete(wantDelete) \in BOOLEAN
    BY DEF FlagDelete
  <2>3. /\ messages' \in [UID -> {Absent, StateUnacked, StateAcked, StateDeleted}]
        /\ nextToProcess' \subseteq UID /\ runPc' \in {"select", "panic"}
    BY <1>9, <2>1 DEF RecvDeleteResult, TypeOK, LoopType
  <2>4. wantDelete' \in BOOLEAN
    BY <1>9, <2>2, <1>loop DEF RecvDeleteResult
  <2>5. UNCHANGED <<rstate, wantQuit, wantFetch, wantStopIdle, seqNum>>
    BY <1>9 DEF RecvDeleteResult
  <2>6. LoopType'
    BY <2>3, <2>4, <2>5 DEF TypeOK, LoopType
  <2>7. JobType'
    BY <1>9 DEF RecvDeleteResult, TypeOK, JobType, WorkerPcs
  <2> QED
    BY <1>9, <1>all, <2>6, <2>7, TypeFrames DEF RecvDeleteResult
<1>10. CASE Signal
  <2>1. LoopType'
    BY <1>10 DEF Signal, TypeOK, LoopType, wants
  <2>2. ChanType'
    BY <1>10 DEF Signal, TypeOK, ChanType
  <2> QED
    BY <1>10, <1>all, <2>1, <2>2, TypeFrames DEF Signal
<1>fail. ASSUME faults' = faults \/ Fail \/ (faults < MaxFaults /\ faults' = faults + 1)
         PROVE  faults' \in 0..MaxFaults
  BY <1>fail, ReceiverAssumption DEF ReceiverAssumption, Fail, MayFail, TypeOK, SrvType, LoopType
<1>srv. ASSUME faults' \in 0..MaxFaults, UNCHANGED <<mailbox, flagged, arrived, exists, news>>
        PROVE  SrvType'
  BY <1>srv DEF TypeOK, SrvType
<1>11. CASE IdleReturns
  <2>1. faults' \in 0..MaxFaults
    BY <1>11, <1>fail DEF IdleReturns
  <2>2. SrvType'
    BY <1>11, <2>1, <1>srv DEF IdleReturns
  <2>3. JobType'
    BY <1>11 DEF IdleReturns, TypeOK, JobType, WorkerPcs, FinishOps
  <2> QED
    BY <1>11, <1>all, <2>2, <2>3, TypeFrames DEF IdleReturns
<1>12. CASE ReadMailbox
  <2>1. faults' \in 0..MaxFaults
    BY <1>12, <1>fail DEF ReadMailbox
  <2>2. seqset' \subseteq Nat
    <3>1. buildSeqSet(existing, exists, FetchBufferSize) \subseteq 1..exists
      BY DEF buildSeqSet
    <3>2. 1..exists \subseteq Nat
      BY DEF TypeOK, SrvType
    <3> QED
      BY <1>12, <3>1, <3>2 DEF ReadMailbox
  <2>3. SrvType'
    BY <1>12, <2>1, <1>srv DEF ReadMailbox
  <2>4. worker' \in {OperationFetchFinish, "fetch"}
    BY <1>12 DEF ReadMailbox
  <2>5. existing' = {} /\ UNCHANGED <<fetched, toProcess, stored>>
    BY <1>12 DEF ReadMailbox
  <2>6. JobType'
    BY <2>2, <2>4, <2>5 DEF TypeOK, JobType, WorkerPcs, FinishOps
  <2> QED
    BY <1>12, <1>all, <2>3, <2>6, TypeFrames DEF ReadMailbox
<1>13. CASE Fetch
  <2>1. faults' \in 0..MaxFaults
    BY <1>13, <1>fail DEF Fetch
  <2>2. fetched' \subseteq UID \X Nat
    <3>1. \A u \in mailbox : u \in UID /\ SeqNumOf(u) \in Nat
      BY MailboxCounts, ReceiverAssumption DEF ReceiverAssumption, TypeOK, SrvType, UID
    <3>2. \/ fetched' = {<<u, SeqNumOf(u)>> : u \in {v \in mailbox : SeqNumOf(v) \in seqset}}
          \/ fetched' = fetched
      BY <1>13 DEF Fetch
    <3>3. fetched \subseteq UID \X Nat
      BY DEF TypeOK, JobType
    <3> QED
      BY <3>1, <3>2, <3>3
  <2>3. SrvType'
    BY <1>13, <2>1, <1>srv DEF Fetch
  <2>4. worker' \in {OperationFetchFinish, "fetchResult"}
    BY <1>13 DEF Fetch
  <2>5. seqset' = {} /\ UNCHANGED <<existing, toProcess, stored>>
    BY <1>13 DEF Fetch
  <2>6. JobType'
    BY <2>2, <2>4, <2>5 DEF TypeOK, JobType, WorkerPcs, FinishOps
  <2> QED
    BY <1>13, <1>all, <2>3, <2>6, TypeFrames DEF Fetch
<1>14. CASE UidStore
  <2>1. faults' \in 0..MaxFaults
    BY <1>14, <1>fail DEF UidStore
  <2>2. flagged' \subseteq mailbox /\ stored' \subseteq UID \X {StateAcked, StateDeleted}
    <3> DEFINE targets == {u \in toProcess \cap mailbox : messages[u] = StateAcked}
    <3>1. PICK applied \in SUBSET targets, told \in SUBSET targets :
            /\ flagged' = flagged \cup applied
            /\ stored' = {<<u, IF u \in flagged' THEN StateDeleted ELSE StateAcked>> :
                             u \in told}
      BY <1>14 DEF UidStore
    <3>2. flagged \subseteq mailbox /\ toProcess \subseteq UID
      BY DEF TypeOK, JobType, SrvType
    <3>3. flagged' \subseteq mailbox
      BY <3>1, <3>2
    <3>4. told \subseteq UID
      BY <3>1, <3>2
    <3> QED
      BY <3>1, <3>3, <3>4
  <2>3. UNCHANGED <<mailbox, arrived, exists, news>>
    BY <1>14 DEF UidStore
  <2>4. SrvType'
    BY <2>1, <2>2, <2>3 DEF TypeOK, SrvType
  <2>5. worker' \in {"expunge", "deleteResult"}
    BY <1>14 DEF UidStore
  <2>6. toProcess' = {} /\ UNCHANGED <<fetched, existing, seqset>>
    BY <1>14 DEF UidStore
  <2>7. JobType'
    BY <2>2, <2>5, <2>6 DEF TypeOK, JobType, WorkerPcs
  <2> QED
    BY <1>14, <1>all, <2>4, <2>7, TypeFrames DEF UidStore
<1>15. CASE Expunge
  <2>1. faults' \in 0..MaxFaults
    BY <1>15, <1>fail DEF Expunge
  <2>2. mailbox' \subseteq mailbox /\ flagged' \subseteq mailbox'
    <3>1. PICK gone \in SUBSET flagged : mailbox' = mailbox \ gone /\ flagged' = flagged \ gone
      BY <1>15 DEF Expunge
    <3> QED
      BY <3>1 DEF TypeOK, SrvType
  <2>3. SrvType'
    BY <1>15, <2>1, <2>2 DEF Expunge, TypeOK, SrvType
  <2>4. JobType'
    BY <1>15 DEF Expunge, TypeOK, JobType, WorkerPcs, FinishOps
  <2> QED
    BY <1>15, <1>all, <2>3, <2>4, TypeFrames DEF Expunge
<1>16. CASE WorkerFinish
  <2>1. JobType'
    BY <1>16 DEF WorkerFinish, TypeOK, JobType, WorkerPcs
  <2>2. ChanType'
    BY <1>16 DEF WorkerFinish, TypeOK, ChanType
  <2> QED
    BY <1>16, <1>all, <2>1, <2>2, TypeFrames DEF WorkerFinish
<1>17. CASE Arrive
  <2>1. SrvType'
    BY <1>17, ReceiverAssumption DEF ReceiverAssumption, Arrive, TypeOK, SrvType
  <2> QED
    BY <1>17, <1>all, <2>1, TypeFrames DEF Arrive, rcvVars
<1>18. CASE Announce
  <2>1. Cardinality(mailbox) \in Nat
    BY MailboxCounts DEF TypeOK
  <2>2. updates' \in Seq({"mailbox", "other"}) /\ Len(updates') <= UpdCap
    BY <1>18, ReceiverAssumption DEF ReceiverAssumption, Announce, TypeOK, ChanType
  <2>3. ChanType'
    BY <1>18, <2>2 DEF Announce, TypeOK, ChanType
  <2>4. SrvType'
    BY <1>18, <2>1 DEF Announce, TypeOK, SrvType
  <2> QED
    BY <1>18, <1>all, <2>3, <2>4, TypeFrames DEF Announce
<1>19. CASE OtherUpdate
  <2>1. updates' \in Seq({"mailbox", "other"}) /\ Len(updates') <= UpdCap
    BY <1>19, ReceiverAssumption DEF ReceiverAssumption, OtherUpdate, TypeOK, ChanType
  <2>2. ChanType'
    BY <1>19, <2>1 DEF OtherUpdate, TypeOK, ChanType
  <2> QED
    BY <1>19, <1>all, <2>2, TypeFrames DEF OtherUpdate
<1>20. CASE Consume
  <2>1. Head(out) \in UID /\ out' \in Seq(UID) /\ Len(out') <= OutCap
    BY <1>20, ReceiverAssumption DEF ReceiverAssumption, Consume, TypeOK, ChanType
  <2>2. ChanType'
    BY <1>20, <2>1 DEF Consume, TypeOK, ChanType
  <2>3. EnvType'
    BY <1>20, <2>1 DEF Consume, TypeOK, EnvType
  <2> QED
    BY <1>20, <1>all, <2>2, <2>3, TypeFrames DEF Consume
<1>21. ASSUME NEW u \in held, Ack(u) PROVE TypeOK'
  <2>1. faults' \in 0..MaxFaults
    BY <1>21, <1>fail DEF Ack
  <2>2. u \in UID
    BY DEF TypeOK, EnvType
  <2>3. PICK a \in UID \X BOOLEAN : ackChannel' = Append(ackChannel, a)
    BY <1>21, <2>2 DEF Ack
  <2>4. ackChannel' \in Seq(UID \X BOOLEAN) /\ Len(ackChannel') <= FetchBufferSize
    BY <1>21, <2>3, ReceiverAssumption DEF ReceiverAssumption, Ack, TypeOK, ChanType
  <2>5. ChanType'
    BY <1>21, <2>4 DEF Ack, TypeOK, ChanType
  <2>6. EnvType'
    BY <1>21, <2>2 DEF Ack, TypeOK, EnvType
  <2>7. SrvType'
    BY <1>21, <2>1, <1>srv DEF Ack
  <2> QED
    BY <1>21, <1>all, <2>5, <2>6, <2>7, TypeFrames DEF Ack
<1>22. CASE Close
  <2>1. ChanType'
    BY <1>22 DEF Close, TypeOK, ChanType
  <2> QED
    BY <1>22, <1>all, <2>1, TypeFrames DEF Close
<1>23. CASE CloseReturn
  <2>1. ChanType'
    BY <1>23 DEF CloseReturn, TypeOK, ChanType
  <2> QED
    BY <1>23, <1>all, <2>1, TypeFrames DEF CloseReturn
<1>24. CASE UNCHANGED vars
  BY <1>24, <1>all, TypeFrames DEF vars, rcvVars
<1>25. CASE HasQuit
  <2>1. ChanType'
    BY <1>25 DEF HasQuit, TypeOK, ChanType
  <2> QED
    BY <1>25, <1>all, <2>1, TypeFrames DEF HasQuit
<1>26. CASE Abandon
  <2>1. JobType'
    BY <1>26 DEF Abandon, TypeOK, JobType, WorkerPcs
  <2> QED
    BY <1>26, <1>all, <2>1, TypeFrames DEF Abandon
<1> QED
  BY <1>1, <1>2, <1>3, <1>4, <1>5, <1>6, <1>7, <1>8, <1>9, <1>10, <1>11, <1>12, <1>13,
     <1>14, <1>15, <1>16, <1>17, <1>18, <1>19, <1>20, <1>21, <1>22, <1>23, <1>24, <1>25,
     <1>26 DEF Next, Run, Worker, Server, User, Closed

(* The receiver starts with the types.                                     *)
LEMMA InitTypeOK == Init => TypeOK
<1> SUFFICES ASSUME Init PROVE TypeOK
  OBVIOUS
<1> USE ReceiverAssumption DEF ReceiverAssumption, Init, RcvInit, ConnInit, EnvInit
<1>1. LoopType /\ EnvType
  BY DEF LoopType, EnvType
<1>2. JobType
  BY DEF JobType, WorkerPcs
<1>3. ChanType
  <2>1. \A S : <<>> \in Seq(S) /\ Len(<<>>) = 0
    OBVIOUS
  <2>2. updates \in Seq({"mailbox", "other"}) /\ Len(updates) <= UpdCap
    BY <2>1
  <2>3. out \in Seq(UID) /\ Len(out) <= OutCap
    BY <2>1
  <2>4. ackChannel \in Seq(UID \X BOOLEAN) /\ Len(ackChannel) <= FetchBufferSize
    BY <2>1
  <2> QED
    BY <2>2, <2>3, <2>4 DEF ChanType
<1>4. SrvType
  BY DEF SrvType
<1> QED
  BY <1>1, <1>2, <1>3, <1>4 DEF TypeOK

(* Type correctness of the receiver: no channel ever holds more than its   *)
(* capacity.                                                               *)
THEOREM TypeCorrect == Spec => []TypeOK
  BY InitTypeOK, TypeOKStep, PTL DEF Spec

-----------------------------------------------------------------------------
(***************************************************************************)
(* The loop and its goroutine.  In each state of the loop at most one      *)
(* goroutine exists, of that state's kind, and either it has yet to send   *)
(* its last operation or opChan holds exactly that; one that the client    *)
(* abandons stays.  A token left in opChan by the loop itself may still be *)
(* there while it runs.                                                    *)
(***************************************************************************)
Runs(pcs, last) ==
  \/ worker \in pcs \cup {last, "abandoned"} /\ opChan \in {Empty, OperationNone}
  \/ worker = "none" /\ opChan = last

GoroutineMatches ==
  /\ rstate = StateNone => worker = "none" /\ opChan \in {Empty, OperationNone}
  /\ rstate = StateInIDLE => Runs({"idle"}, OperationIDLEFinish)
  /\ rstate = StateInFetch =>
       Runs({"mailbox", "fetch", "fetchResult"}, OperationFetchFinish)
  /\ rstate = StateInDelete =>
       Runs({"uidStore", "deleteResult", "expunge"}, OperationDeleteFinish)

LoopInv ==
  /\ runPc # "panic"
  /\ runPc = "signal" => rstate = StateNone /\ opChan = Empty
  /\ runPc = "exited" => rstate = StateNone
  /\ runPc = "deliver" => rstate = StateInFetch /\ worker \in {"none", OperationFetchFinish}
  /\ wantStopIdle => rstate = StateInIDLE

DeleteInv ==
  /\ nextToProcess # {} /\ ~DisableDeletions => wantDelete
  /\ runPc = "exited" /\ ~DisableDeletions => nextToProcess = {}
  /\ DisableDeletions => ~wantDelete /\ rstate # StateInDelete

LoopSafe == GoroutineMatches /\ LoopInv /\ DeleteInv

(* A tick preserves the invariant of the loop, and starts a goroutine only *)
(* when there is none.                                                     *)
LEMMA TickSafe ==
  ASSUME TypeOK, LoopSafe, runPc = "select",
         NEW op \in TickOps, NEW q \in BOOLEAN, NEW f \in BOOLEAN,
         NEW d \in BOOLEAN, NEW todo \in SUBSET UID,
         todo # {} /\ ~DisableDeletions => d,
         DisableDeletions => ~d,
         \/ op \in {OperationNone, OperationTimeout} /\ opChan' = opChan
         \/ op = opChan /\ opChan' = Empty,
         Tick(op, q, f, d, todo)
  PROVE  /\ LoopSafe'
         /\ worker' # worker => worker = "none" /\ opChan \notin FinishOps
<1> USE DEF LoopSafe, GoroutineMatches, LoopInv, DeleteInv, Runs, Keep, NoStart,
            TickOps, FinishOps, Empty, OperationNone, OperationTimeout, OperationIDLEFinish,
            OperationFetchFinish, OperationDeleteFinish, StateNone, StateInIDLE,
            StateInFetch, StateInDelete
<1>1. CASE rstate = StateNone /\ TickNone(op, q, f, d, todo)
  BY <1>1, ReceiverAssumption DEF TickNone, Panic, StartDelete, StartFetch, StartIdle,
     Exit, FlagDelete, ReceiverAssumption
<1>2. CASE rstate = StateInIDLE /\ TickInIDLE(op, q, f, d, todo)
  BY <1>2 DEF TickInIDLE, Interrupt, IdleFinish, Finish, Panic
<1>3. CASE rstate = StateInFetch /\ TickInFetch(op, q, f, d, todo)
  BY <1>3 DEF TickInFetch, Wait, Finish, Panic
<1>4. CASE rstate = StateInDelete /\ TickInDelete(op, q, f, d, todo)
  BY <1>4 DEF TickInDelete, Wait, Finish, Panic
<1> QED
  BY <1>1, <1>2, <1>3, <1>4 DEF Tick

(* Every step preserves the invariant of the loop and starts a goroutine   *)
(* only when there is none.                                                *)
LEMMA LoopSafeStep ==
  ASSUME TypeOK, LoopSafe, [Next]_vars
  PROVE  /\ LoopSafe'
         /\ worker' \in {"idle", "mailbox", "uidStore"} /\ worker' # worker
              => worker = "none" /\ opChan \notin FinishOps
<1> DEFINE Started == worker' \in {"idle", "mailbox", "uidStore"} /\ worker' # worker
                        => worker = "none" /\ opChan \notin FinishOps
<1>types. /\ wantQuit \in BOOLEAN /\ wantFetch \in BOOLEAN /\ wantDelete \in BOOLEAN
          /\ nextToProcess \in SUBSET UID
          /\ nextToProcess # {} /\ ~DisableDeletions => wantDelete
          /\ DisableDeletions => ~wantDelete
  BY DEF TypeOK, LoopType, LoopSafe, DeleteInv
<1>ops. OperationNone \in TickOps /\ OperationTimeout \in TickOps
  BY DEF TickOps
<1>arm. ASSUME NEW op \in {OperationNone, OperationTimeout},
               NEW q \in BOOLEAN, NEW f \in BOOLEAN, NEW d \in BOOLEAN,
               NEW todo \in SUBSET UID,
               todo # {} /\ ~DisableDeletions => d, DisableDeletions => ~d,
               runPc = "select", opChan' = opChan, Tick(op, q, f, d, todo)
        PROVE  LoopSafe' /\ Started
  <2>1. op \in TickOps
    BY <1>ops
  <2> QED
    BY <1>arm, <2>1, TickSafe
<1>1. CASE RecvQuit
  <2>1. ASSUME NEW q \in BOOLEAN,
               Tick(OperationNone, q, wantFetch, wantDelete, nextToProcess)
        PROVE  LoopSafe' /\ Started
    BY <1>1, <2>1, <1>types, <1>arm DEF RecvQuit
  <2> QED
    BY <1>1, <2>1 DEF RecvQuit
<1>2. CASE RecvUpdate
  <2>1. ASSUME NEW f \in BOOLEAN,
               Tick(OperationNone, wantQuit, f, wantDelete, nextToProcess)
        PROVE  LoopSafe' /\ Started
    BY <1>2, <2>1, <1>types, <1>arm DEF RecvUpdate
  <2>2. (wantFetch \/ Head(updates) = "mailbox") \in BOOLEAN
    OBVIOUS
  <2> QED
    BY <1>2, <2>1, <2>2 DEF RecvUpdate
<1>3. CASE RecvAck
  <2> DEFINE u == Head(ackChannel)[1]
             ok == Acked(u, Head(ackChannel)[2])
  <2>1. CASE ok
    <3>1. /\ Tick(OperationNone, wantQuit, wantFetch, FlagDelete(wantDelete),
                  nextToProcess \cup {u})
          /\ opChan' = opChan /\ runPc = "select"
      BY <1>3, <2>1 DEF RecvAck
    <3>2. u \in UID
      BY <1>3 DEF RecvAck, TypeOK, ChanType
    <3> HIDE DEF u, ok
    <3>3. ASSUME NEW d \in BOOLEAN, NEW todo \in SUBSET UID,
                 d = FlagDelete(wantDelete), todo = nextToProcess \cup {u}
          PROVE  LoopSafe' /\ Started
      <4>1. Tick(OperationNone, wantQuit, wantFetch, d, todo)
        BY <3>1, <3>3
      <4>2. /\ ~DisableDeletions => d
            /\ DisableDeletions => ~d
        BY <3>3, <1>types, ReceiverAssumption DEF FlagDelete, ReceiverAssumption
      <4> QED
        BY <4>1, <4>2, <3>1, <1>types, <1>arm
    <3>4. FlagDelete(wantDelete) \in BOOLEAN
      BY DEF FlagDelete
    <3>5. nextToProcess \cup {u} \in SUBSET UID
      BY <3>2, <1>types
    <3> QED
      BY <3>3, <3>4, <3>5
  <2>2. CASE ~ok
    <3>1. Tick(OperationNone, wantQuit, wantFetch, wantDelete, nextToProcess)
      BY <1>3, <2>2 DEF RecvAck
    <3> QED
      BY <3>1, <1>3, <1>types, <1>ops, TickSafe DEF RecvAck
  <2> QED
    BY <2>1, <2>2
<1>4. CASE Timeout
  BY <1>4, <1>types, <1>ops, TickSafe DEF Timeout, chanVars
<1>5. CASE RecvOp
  <2>1. opChan \in TickOps
    BY <1>5 DEF RecvOp, TickOps, TypeOK, ChanType
  <2> QED
    BY <1>5, <2>1, <1>types, TickSafe DEF RecvOp
<1> USE DEF LoopSafe, GoroutineMatches, LoopInv, DeleteInv, Runs, wants,
            FinishOps, Empty, OperationNone, OperationTimeout, OperationIDLEFinish,
            OperationFetchFinish, OperationDeleteFinish, StateNone, StateInIDLE,
            StateInFetch, StateInDelete
<1>same. ASSUME UNCHANGED <<rstate, runPc, wantDelete, wantStopIdle, nextToProcess,
                            worker, opChan>>
         PROVE  LoopSafe' /\ Started
  BY <1>same
<1>6. CASE RecvFetchResult
  BY <1>6, TypeOK DEF RecvFetchResult, TypeOK, LoopType, chanVars
<1>7. ASSUME NEW m \in fetched, Deliver(m) PROVE LoopSafe' /\ Started
  BY <1>7, <1>same DEF Deliver
<1>8. CASE DeliverDone
  BY <1>8 DEF DeliverDone, jobVars, chanVars
<1>9. ASSUME NEW r \in stored, RecvDeleteResult(r) PROVE LoopSafe' /\ Started
  <2>1. rstate = StateInDelete /\ ~DisableDeletions
    BY <1>9, TypeOK DEF RecvDeleteResult, TypeOK, LoopType
  <2> QED
    BY <1>9, <2>1 DEF RecvDeleteResult, FlagDelete, chanVars
<1>10. CASE Signal
  BY <1>10 DEF Signal, jobVars
<1>11. CASE IdleReturns
  BY <1>11 DEF IdleReturns, loopVars, chanVars
<1>12. CASE ReadMailbox
  BY <1>12 DEF ReadMailbox, loopVars, chanVars
<1>13. CASE Fetch
  BY <1>13 DEF Fetch, loopVars, chanVars
<1>14. CASE UidStore
  BY <1>14 DEF UidStore, loopVars, chanVars
<1>15. CASE Expunge
  BY <1>15 DEF Expunge, loopVars, chanVars
<1>16. CASE WorkerFinish
  BY <1>16 DEF WorkerFinish, loopVars
<1>17. CASE Arrive \/ Announce \/ OtherUpdate \/ Consume \/ Close \/ HasQuit
                 \/ CloseReturn
  BY <1>17, <1>same DEF Arrive, Announce, OtherUpdate, Consume, Close, HasQuit, CloseReturn,
     rcvVars, loopVars, jobVars, chanVars
<1>18. ASSUME NEW u \in held, Ack(u) PROVE LoopSafe' /\ Started
  BY <1>18, <1>same DEF Ack, loopVars, jobVars
<1>19. CASE UNCHANGED vars
  BY <1>19, <1>same DEF vars, rcvVars, loopVars, jobVars, chanVars
<1>20. CASE Abandon
  BY <1>20 DEF Abandon, loopVars, chanVars
<1> QED
  BY <1>1, <1>2, <1>3, <1>4, <1>5, <1>6, <1>7, <1>8, <1>9, <1>10, <1>11, <1>12, <1>13,
     <1>14, <1>15, <1>16, <1>17, <1>18, <1>19, <1>20
     DEF Next, Run, Worker, Server, User, Closed

(* The invariant of the loop holds always.                                 *)
LEMMA LoopSafeAlways == Spec => []LoopSafe
<1>1. Init => LoopSafe
  BY DEF Init, RcvInit, LoopSafe, GoroutineMatches, LoopInv, DeleteInv, StateNone, StateInIDLE,
     StateInFetch, StateInDelete
<1>2. TypeOK /\ LoopSafe /\ [Next]_vars => LoopSafe'
  BY LoopSafeStep
<1> QED
  BY <1>1, <1>2, TypeCorrect, PTL DEF Spec

(* run never panics: no result arrives outside the state that asked for it *)
(* and no operation in a state that does not expect it.                    *)
THEOREM NeverPanics == Spec => []NoPanic
<1>1. LoopSafe => NoPanic
  BY DEF LoopSafe, LoopInv, NoPanic
<1> QED
  BY <1>1, LoopSafeAlways, PTL

(* When run sends to opChan, whose only reader it is, there is room.       *)
THEOREM SignalIsFree == Spec => []SignalNeverBlocks
<1>1. LoopSafe => SignalNeverBlocks
  BY DEF LoopSafe, LoopInv, SignalNeverBlocks
<1> QED
  BY <1>1, LoopSafeAlways, PTL

(* A stop request never outlives the IDLE it was made for.                 *)
THEOREM StopIsFresh == Spec => []StopChannelFresh
<1>1. LoopSafe => StopChannelFresh
  BY DEF LoopSafe, LoopInv, StopChannelFresh
<1> QED
  BY <1>1, LoopSafeAlways, PTL

(* IDLE, FETCH and STORE/EXPUNGE never overlap on the connection.          *)
THEOREM OneGoroutine == Spec => OneGoroutineAtATime
<1>1. TypeOK /\ LoopSafe /\ [Next]_vars =>
        [worker' \in {"idle", "mailbox", "uidStore"} /\ worker' # worker
           => worker = "none" /\ opChan \notin FinishOps]_vars
  BY LoopSafeStep
<1> QED
  BY <1>1, TypeCorrect, LoopSafeAlways, PTL DEF Spec, OneGoroutineAtATime

(* Acknowledged messages never wait without a delete being requested.      *)
THEOREM QueuedRequested == Spec => []QueuedIsRequested
<1>1. LoopSafe => QueuedIsRequested
  BY DEF LoopSafe, DeleteInv, QueuedIsRequested
<1> QED
  BY <1>1, LoopSafeAlways, PTL

(* run leaves with no goroutine behind it and every delete attempted.      *)
THEOREM ExitIsQuiescent == Spec => []ExitQuiescent
<1>1. LoopSafe => ExitQuiescent
  BY DEF LoopSafe, GoroutineMatches, LoopInv, DeleteInv, ExitQuiescent, FinishOps, Empty,
     OperationNone, OperationIDLEFinish, OperationFetchFinish, OperationDeleteFinish
<1> QED
  BY <1>1, LoopSafeAlways, PTL

-----------------------------------------------------------------------------
(***************************************************************************)
(* No loss.  The claim alone is not inductive: whatever is on its way to   *)
(* becoming a \Deleted flag must have been acknowledged too, in            *)
(* ackChannel, in the message map and in the goroutine's results.          *)
(***************************************************************************)
AckInv ==
  /\ RemovedOnlyAcked
  /\ \A i \in 1..Len(ackChannel) : ackChannel[i][2] => ackChannel[i][1] \in ackedOk
  /\ \A u \in UID : messages[u] = StateAcked => u \in ackedOk
  /\ \A r \in stored : r[2] = StateAcked => r[1] \in ackedOk

(* Every step preserves the no-loss invariant.                             *)
LEMMA AckInvStep == ASSUME TypeOK, AckInv, [Next]_vars PROVE AckInv'
<1> USE DEF Absent, StateUnacked, StateAcked, StateDeleted
<1>same. ASSUME UNCHANGED <<mailbox, arrived, flagged, ackChannel, messages, stored, ackedOk>>
         PROVE  AckInv'
  BY <1>same DEF AckInv, RemovedOnlyAcked
<1>1. CASE RecvQuit \/ RecvUpdate \/ Timeout \/ RecvOp \/ RecvFetchResult \/ DeliverDone
           \/ Signal \/ IdleReturns \/ ReadMailbox \/ Fetch \/ WorkerFinish \/ Announce
           \/ OtherUpdate \/ Consume \/ Close \/ HasQuit \/ CloseReturn \/ Abandon
           \/ UNCHANGED vars
  BY <1>1, <1>same DEF RecvQuit, RecvUpdate, Timeout, RecvOp, RecvFetchResult, DeliverDone,
     Signal, IdleReturns, ReadMailbox, Fetch, WorkerFinish, Announce, OtherUpdate, Consume,
     Close, HasQuit, CloseReturn, Abandon, vars, rcvVars, loopVars, jobVars, chanVars,
     srvVars, envVars
<1>2. CASE RecvAck
  <2> DEFINE u == Head(ackChannel)[1]
  <2>1. /\ ackChannel # <<>> /\ ackChannel' = Tail(ackChannel)
        /\ UNCHANGED <<mailbox, arrived, flagged, stored, ackedOk>>
        /\ \/ Acked(u, Head(ackChannel)[2]) /\ messages' = [messages EXCEPT ![u] = StateAcked]
           \/ UNCHANGED messages
    BY <1>2 DEF RecvAck, srvVars, envVars
  <2>2. \A i \in 1..Len(ackChannel') : ackChannel'[i][2] => ackChannel'[i][1] \in ackedOk
    BY <2>1 DEF AckInv, TypeOK, ChanType
  <2>3. \A v \in UID : messages'[v] = StateAcked => v \in ackedOk
    <3>1. Head(ackChannel) = ackChannel[1] /\ 1 \in 1..Len(ackChannel)
      BY <2>1 DEF TypeOK, ChanType
    <3>2. Acked(u, Head(ackChannel)[2]) => u \in ackedOk
      BY <3>1 DEF Acked, AckInv
    <3> QED
      BY <2>1, <3>2 DEF AckInv, TypeOK, LoopType
  <2> QED
    BY <2>1, <2>2, <2>3 DEF AckInv, RemovedOnlyAcked
<1>3. ASSUME NEW m \in fetched, Deliver(m) PROVE AckInv'
  BY <1>3 DEF Deliver, AckInv, RemovedOnlyAcked, TypeOK, LoopType, srvVars
<1>4. ASSUME NEW r \in stored, RecvDeleteResult(r) PROVE AckInv'
  <2>1. r[1] \in UID /\ r[2] \in {StateAcked, StateDeleted}
    BY DEF TypeOK, JobType
  <2>2. \A v \in UID : messages'[v] = StateAcked => v \in ackedOk
    BY <1>4, <2>1 DEF RecvDeleteResult, AckInv, TypeOK, LoopType
  <2> QED
    BY <1>4, <2>2 DEF RecvDeleteResult, AckInv, RemovedOnlyAcked, chanVars, srvVars, envVars
<1>5. CASE UidStore
  <2> DEFINE targets == {u \in toProcess \cap mailbox : messages[u] = StateAcked}
  <2>1. PICK applied \in SUBSET targets, told \in SUBSET targets :
          /\ flagged' = flagged \cup applied
          /\ stored' = {<<u, IF u \in flagged' THEN StateDeleted ELSE StateAcked>> :
                           u \in told}
    BY <1>5 DEF UidStore
  <2>2. targets \subseteq ackedOk
    BY DEF AckInv, TypeOK, JobType
  <2>3. UNCHANGED <<mailbox, arrived, ackChannel, messages, ackedOk>>
    BY <1>5 DEF UidStore, loopVars, chanVars, envVars
  <2>4. RemovedOnlyAcked'
    BY <2>1, <2>2, <2>3 DEF AckInv, RemovedOnlyAcked
  <2>5. \A r \in stored' : r[1] \in ackedOk
    BY <2>1, <2>2
  <2> QED
    BY <2>3, <2>4, <2>5 DEF AckInv
<1>6. CASE Expunge
  <2>1. UNCHANGED <<arrived, ackChannel, messages, stored, ackedOk>>
    BY <1>6 DEF Expunge, loopVars, chanVars, envVars
  <2>3. PICK gone \in SUBSET flagged : mailbox' = mailbox \ gone /\ flagged' = flagged \ gone
    BY <1>6 DEF Expunge
  <2>2. RemovedOnlyAcked'
    BY <2>1, <2>3 DEF AckInv, RemovedOnlyAcked
  <2> QED
    BY <2>1, <2>2 DEF AckInv
<1>7. CASE Arrive
  <2>1. 1..(arrived + 1) = (1..arrived) \cup {arrived + 1}
    BY DEF TypeOK, SrvType
  <2>2. RemovedOnlyAcked'
    BY <1>7, <2>1 DEF Arrive, AckInv, RemovedOnlyAcked, envVars
  <2> QED
    BY <1>7, <2>2 DEF Arrive, AckInv, rcvVars, loopVars, jobVars, chanVars, envVars
<1>8. ASSUME NEW u \in held, Ack(u) PROVE AckInv'
  <2>1. /\ UNCHANGED <<mailbox, arrived, flagged, messages, stored>>
        /\ ackedOk \subseteq ackedOk'
        /\ \E ok \in BOOLEAN : /\ ackChannel' = Append(ackChannel, <<u, ok>>)
                               /\ ok => u \in ackedOk'
    BY <1>8 DEF Ack, loopVars, jobVars
  <2>2. PICK ok \in BOOLEAN : /\ ackChannel' = Append(ackChannel, <<u, ok>>)
                              /\ ok => u \in ackedOk'
    BY <2>1
  <2>3. ASSUME NEW i \in 1..Len(ackChannel')
        PROVE  ackChannel'[i] = <<u, ok>> \/ (i \in 1..Len(ackChannel)
                                                /\ ackChannel'[i] = ackChannel[i])
    <3>1. ackChannel \in Seq(UID \X BOOLEAN) /\ u \in UID
      BY DEF TypeOK, ChanType, EnvType
    <3>2. <<u, ok>> \in UID \X BOOLEAN
      BY <3>1
    <3> DEFINE a == <<u, ok>>
    <3> HIDE DEF a
    <3>3. ackChannel' = Append(ackChannel, a) /\ a \in UID \X BOOLEAN
      BY <2>2, <3>2 DEF a
    <3>4. ackChannel'[i] = a \/ (i \in 1..Len(ackChannel) /\ ackChannel'[i] = ackChannel[i])
      BY <3>1, <3>3
    <3> QED
      BY <3>4 DEF a
  <2>4. \A i \in 1..Len(ackChannel') : ackChannel'[i][2] => ackChannel'[i][1] \in ackedOk'
    BY <2>1, <2>2, <2>3 DEF AckInv
  <2> QED
    BY <2>1, <2>4 DEF AckInv, RemovedOnlyAcked
<1> QED
  BY <1>1, <1>2, <1>3, <1>4, <1>5, <1>6, <1>7, <1>8
     DEF Next, Run, Worker, Server, User, Closed

(* Nothing is acknowledged at first.                                       *)
LEMMA InitAckInv == Init => AckInv
  BY ReceiverAssumption DEF ReceiverAssumption, Init, RcvInit, AckInv, RemovedOnlyAcked, Absent,
     StateAcked

(* No loss: whatever fails and however the goroutines interleave, a        *)
(* message is marked or removed at the source only after its user has      *)
(* acknowledged it without an error.                                       *)
THEOREM NoLoss == Spec => []RemovedOnlyAcked
<1>1. TypeOK /\ AckInv /\ [Next]_vars => AckInv'
  BY AckInvStep
<1>2. AckInv => RemovedOnlyAcked
  BY DEF AckInv
<1> QED
  BY <1>1, <1>2, InitAckInv, TypeCorrect, PTL DEF Spec

(* With DisableDeletions the source mailbox is never touched.              *)
THEOREM DisabledIsReadOnly == Spec => []DisabledRemovesNothing
<1>1. Init => DisabledRemovesNothing
  BY DEF Init, DisabledRemovesNothing
<1>2. TypeOK /\ LoopSafe /\ DisabledRemovesNothing /\ [Next]_vars => DisabledRemovesNothing'
  <2> SUFFICES ASSUME TypeOK, LoopSafe, DisableDeletions, mailbox = 1..arrived, flagged = {},
                      [Next]_vars
               PROVE  mailbox' = 1..arrived' /\ flagged' = {}
    BY DEF DisabledRemovesNothing
  <2>1. worker \notin {"uidStore", "expunge"}
    BY DEF TypeOK, LoopType, LoopSafe, GoroutineMatches, DeleteInv, Runs, StateNone, StateInIDLE,
       StateInFetch, StateInDelete, OperationIDLEFinish, OperationFetchFinish
  <2>2. CASE Arrive
    BY <2>2 DEF Arrive, TypeOK, SrvType
  <2>3. CASE UNCHANGED <<mailbox, arrived, flagged>>
    BY <2>3
  <2>4. Arrive \/ UNCHANGED <<mailbox, arrived, flagged>>
    BY <2>1 DEF Next, Run, Worker, Server, User, Closed, RecvQuit, RecvUpdate, RecvAck,
       Timeout, RecvOp, RecvFetchResult, Deliver, DeliverDone, RecvDeleteResult, Signal,
       IdleReturns, ReadMailbox, Fetch, UidStore, Expunge, WorkerFinish, Announce,
       OtherUpdate, Consume, Ack, Close, HasQuit, CloseReturn, Abandon, vars, srvVars
  <2> QED
    BY <2>2, <2>3, <2>4
<1> QED
  BY <1>1, <1>2, TypeCorrect, LoopSafeAlways, PTL DEF Spec
=============================================================================
