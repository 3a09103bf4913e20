--------------------------- MODULE DeliveryProofs ---------------------------
(***************************************************************************)
(* Proofs that, while no call fails, the receiver sends out no message     *)
(* twice and forgets no acknowledged message.                              *)
(***************************************************************************)
EXTENDS ReceiverProofs

Starts == {"idle", "mailbox", "uidStore"}   \* where a goroutine begins
Storing == {"deleteResult", "expunge"}      \* between the STORE and the EXPUNGE

(* What a tick can do to the loop: it starts a goroutine or none, hands    *)
(* over the acknowledged messages or keeps them, and never begins to       *)
(* deliver.                                                                *)
LEMMA TickFacts ==
  ASSUME NEW op \in TickOps, NEW q, NEW f, NEW d, NEW todo,
         runPc = "select", Tick(op, q, f, d, todo)
  PROVE  /\ wantQuit' = q
         /\ runPc' # "deliver"
         /\ worker' = worker \/ worker' \in Starts
         /\ \/ toProcess' = toProcess /\ nextToProcess' = todo
            \/ /\ rstate = StateNone /\ worker' = "uidStore"
               /\ toProcess' = todo /\ nextToProcess' = {}
<1> USE DEF Keep, NoStart, Starts
<1>1. CASE rstate = StateNone /\ TickNone(op, q, f, d, todo)
  BY <1>1 DEF TickNone, Panic, StartDelete, StartFetch, StartIdle, Exit
<1>2. CASE rstate = StateInIDLE /\ TickInIDLE(op, q, f, d, todo)
  BY <1>2 DEF TickInIDLE, Interrupt, IdleFinish, Finish, Panic
<1>3. CASE rstate = StateInFetch /\ TickInFetch(op, q, f, d, todo)
  BY <1>3 DEF TickInFetch, Wait, Finish, Panic
<1>4. CASE rstate = StateInDelete /\ TickInDelete(op, q, f, d, todo)
  BY <1>4 DEF TickInDelete, Wait, Finish, Panic
<1> QED
  BY <1>1, <1>2, <1>3, <1>4 DEF Tick
Arms == RecvQuit \/ RecvUpdate \/ RecvAck \/ Timeout \/ RecvOp

\* todo is what is queued, and a message newly marked as acknowledged
Queues(todo) ==
  /\ nextToProcess \subseteq todo
  /\ \A u \in UID : \/ messages'[u] = messages[u]
                    \/ /\ messages[u] = StateUnacked /\ messages'[u] = StateAcked
                       /\ u \in todo

ArmEffect ==
  /\ wantQuit => wantQuit'
  /\ runPc' # "deliver"
  /\ worker' = worker \/ worker' \in Starts
  /\ \E todo :
       /\ Queues(todo)
       /\ \/ toProcess' = toProcess /\ nextToProcess' = todo
          \/ /\ rstate = StateNone /\ worker' = "uidStore"
             /\ toProcess' = todo /\ nextToProcess' = {}

(* What the arms of the select that tick can do: an acknowledgement at     *)
(* most marks one message and queues it.                                   *)
LEMMA ArmFacts ==
  ASSUME TypeOK, Arms
  PROVE  /\ UNCHANGED <<fetched, stored, mailbox, flagged, arrived, faults, delivered>>
         /\ ArmEffect
<1>1. UNCHANGED <<fetched, stored, mailbox, flagged, arrived, faults, delivered>>
  BY DEF Arms, RecvQuit, RecvUpdate, RecvAck, Timeout, RecvOp, srvVars, envVars
<1>ops. /\ OperationNone \in TickOps /\ OperationTimeout \in TickOps
        /\ opChan # Empty => opChan \in TickOps
  BY DEF TickOps, TypeOK, ChanType
<1>tick. ASSUME NEW op \in TickOps, NEW q, NEW f, NEW d, NEW todo,
                runPc = "select", Tick(op, q, f, d, todo), wantQuit => q, Queues(todo)
         PROVE  ArmEffect
  BY <1>tick, TickFacts DEF ArmEffect
<1>same. UNCHANGED messages => Queues(nextToProcess)
  BY DEF Queues
<1>2. CASE RecvQuit
  <2>1. /\ runPc = "select" /\ UNCHANGED messages
        /\ Tick(OperationNone, TRUE, wantFetch, wantDelete, nextToProcess)
    BY <1>2 DEF RecvQuit
  <2> QED
    BY <1>1, <2>1, <1>ops, <1>same, <1>tick
<1>3. CASE RecvUpdate
  <2>1. /\ runPc = "select" /\ UNCHANGED messages
        /\ Tick(OperationNone, wantQuit, wantFetch \/ Head(updates) = "mailbox",
                wantDelete, nextToProcess)
    BY <1>3 DEF RecvUpdate
  <2> QED
    BY <1>1, <2>1, <1>ops, <1>same, <1>tick
<1>4. CASE RecvAck
  <2> DEFINE u == Head(ackChannel)[1]
             ok == Acked(u, Head(ackChannel)[2])
  <2>1. CASE ok
    <3>1. /\ runPc = "select" /\ messages' = [messages EXCEPT ![u] = StateAcked]
          /\ Tick(OperationNone, wantQuit, wantFetch, FlagDelete(wantDelete),
                  nextToProcess \cup {u})
      BY <1>4, <2>1 DEF RecvAck
    <3>2. messages[u] = StateUnacked /\ u \in UID
      BY <1>4, <2>1 DEF Acked, RecvAck, TypeOK, ChanType
    <3> HIDE DEF u, ok
    <3>3. Queues(nextToProcess \cup {u})
      BY <3>1, <3>2 DEF Queues, TypeOK, LoopType
    <3> QED
      BY <1>1, <3>1, <3>3, <1>ops, <1>tick
  <2>2. CASE ~ok
    <3>1. /\ runPc = "select" /\ UNCHANGED messages
          /\ Tick(OperationNone, wantQuit, wantFetch, wantDelete, nextToProcess)
      BY <1>4, <2>2 DEF RecvAck
    <3> HIDE DEF ok
    <3> QED
      BY <1>1, <3>1, <1>ops, <1>same, <1>tick
  <2> QED
    BY <2>1, <2>2
<1>5. CASE Timeout
  <2>1. /\ runPc = "select" /\ UNCHANGED messages
        /\ Tick(OperationTimeout, wantQuit, wantFetch, wantDelete, nextToProcess)
    BY <1>5 DEF Timeout
  <2> QED
    BY <1>1, <2>1, <1>ops, <1>same, <1>tick
<1>6. CASE RecvOp
  <2>1. /\ runPc = "select" /\ UNCHANGED messages
        /\ Tick(opChan, wantQuit, wantFetch, wantDelete, nextToProcess)
        /\ opChan # Empty
    BY <1>6 DEF RecvOp
  <2> QED
    BY <1>1, <2>1, <1>ops, <1>same, <1>tick
<1> QED
  BY <1>2, <1>3, <1>4, <1>5, <1>6 DEF Arms
-----------------------------------------------------------------------------
(***************************************************************************)
(* The fetch result while it is delivered, and the results of the STORE    *)
(* while they are read.  The mailbox does not shrink meanwhile, because    *)
(* only one goroutine works on the connection.                             *)
(***************************************************************************)
ResultInv ==
  /\ worker = "fetchResult" \/ runPc = "deliver" => \A m \in fetched : m[1] \in mailbox
  /\ \A m, n \in fetched : m[1] = n[1] => m = n
  /\ runPc = "deliver" => ~wantQuit /\ \A m \in fetched : messages[m[1]] = Absent
  /\ worker = "deleteResult" => \A r \in stored : r[2] = StateDeleted => r[1] \in flagged

(* While it delivers, the loop has no goroutine at work.                   *)
LEMMA DeliverAlone ==
  ASSUME LoopSafe, runPc = "deliver"
  PROVE  worker \in {"none", OperationFetchFinish}
  BY DEF LoopSafe, LoopInv

(* Every step preserves what is known of the results.                      *)
LEMMA ResultStep ==
  ASSUME TypeOK, LoopSafe, ResultInv, [Next]_vars
  PROVE  ResultInv'
<1> USE DEF OperationFetchFinish
<1>same. ASSUME UNCHANGED <<fetched, mailbox, messages, wantQuit, stored, flagged>>,
                runPc' # "deliver" \/ UNCHANGED runPc,
                worker' \in {"fetchResult", "deleteResult"} => UNCHANGED worker
         PROVE  ResultInv'
  BY <1>same DEF ResultInv
<1>1. CASE Arms
  <2>1. UNCHANGED <<fetched, stored, mailbox, flagged>>
    BY <1>1, ArmFacts
  <2>2. /\ runPc' # "deliver"
        /\ worker' \in {"fetchResult", "deleteResult"} => UNCHANGED worker
    BY <1>1, ArmFacts DEF ArmEffect, Starts
  <2> QED
    BY <2>1, <2>2 DEF ResultInv
<1>2. CASE RecvFetchResult
  <2>1. /\ worker = "fetchResult" /\ worker' = OperationFetchFinish
        /\ UNCHANGED <<messages, mailbox>> /\ wantQuit' = wantQuit
        /\ \/ runPc' \in {"panic", "select"} /\ (fetched' = fetched \/ fetched' = {})
           \/ ~wantQuit /\ fetched' = NewIn(fetched)
    BY <1>2 DEF RecvFetchResult, srvVars, wants
  <2> QED
    BY <2>1 DEF NewIn, ResultInv
<1>3. ASSUME NEW m \in fetched, Deliver(m) PROVE ResultInv'
  <2>1. /\ runPc = "deliver" /\ fetched' = fetched \ {m}
        /\ messages' = [messages EXCEPT ![m[1]] = StateUnacked]
        /\ UNCHANGED <<runPc, wantQuit, worker, stored, mailbox, flagged>>
    BY <1>3 DEF Deliver, wants, srvVars
  <2>2. \A n \in fetched : n[1] \in UID
    BY DEF TypeOK, JobType
  <2>3. \A n \in fetched' : messages'[n[1]] = Absent
    BY <2>1, <2>2 DEF ResultInv, TypeOK, LoopType
  <2>4. worker # "deleteResult"
    BY <2>1, DeliverAlone
  <2> QED
    BY <2>1, <2>3, <2>4 DEF ResultInv
<1>4. CASE DeliverDone \/ Signal
  BY <1>4, <1>same DEF DeliverDone, Signal, wants, jobVars, srvVars
<1>5. ASSUME NEW r \in stored, RecvDeleteResult(r) PROVE ResultInv'
  <2>1. /\ runPc' # "deliver" /\ worker = "deleteResult"
        /\ worker' \in {"expunge", "deleteResult"} /\ stored' \subseteq stored
        /\ UNCHANGED <<fetched, mailbox, flagged>>
    BY <1>5 DEF RecvDeleteResult, srvVars
  <2> QED
    BY <2>1 DEF ResultInv
<1>6. CASE IdleReturns \/ ReadMailbox \/ WorkerFinish
  BY <1>6, <1>same DEF IdleReturns, ReadMailbox, WorkerFinish, loopVars, wants, srvVars,
     OperationIDLEFinish
<1>7. CASE Fetch
  <2>1. /\ UNCHANGED <<runPc, mailbox>> /\ worker = "fetch"
        /\ worker' \in {"fetchResult", OperationFetchFinish}
        /\ \/ fetched' = {<<u, SeqNumOf(u)>> : u \in {v \in mailbox : SeqNumOf(v) \in seqset}}
           \/ UNCHANGED fetched /\ worker' = OperationFetchFinish
    BY <1>7 DEF Fetch, loopVars
  <2>2. runPc # "deliver"
    BY <2>1, DeliverAlone
  <2>3. (\A m, n \in fetched : m[1] = n[1] => m = n)'
    BY <2>1 DEF ResultInv
  <2>4. worker' = "fetchResult" => \A m \in fetched' : m[1] \in mailbox'
    BY <2>1
  <2> QED
    BY <2>1, <2>2, <2>3, <2>4 DEF ResultInv
<1>8. CASE UidStore
  <2>1. /\ worker = "uidStore" /\ worker' \in {"expunge", "deleteResult"}
        /\ UNCHANGED <<fetched, mailbox, runPc>>
    BY <1>8 DEF UidStore, loopVars
  <2>2. \A r \in stored' : r[2] = StateDeleted => r[1] \in flagged'
    <3>1. PICK told :
            stored' = {<<u, IF u \in flagged' THEN StateDeleted ELSE StateAcked>> : u \in told}
      BY <1>8 DEF UidStore
    <3> QED
      BY <3>1 DEF StateDeleted, StateAcked
  <2>3. runPc # "deliver"
    BY <2>1, DeliverAlone
  <2> QED
    BY <2>1, <2>2, <2>3 DEF ResultInv
<1>9. CASE Expunge
  <2>1. /\ worker = "expunge" /\ worker' = OperationDeleteFinish
        /\ UNCHANGED <<fetched, runPc>>
    BY <1>9 DEF Expunge, loopVars
  <2>2. runPc # "deliver"
    BY <2>1, DeliverAlone
  <2> QED
    BY <2>1, <2>2 DEF ResultInv, OperationDeleteFinish
<1>10. CASE Arrive
  <2>1. /\ mailbox \subseteq mailbox'
        /\ UNCHANGED <<fetched, messages, wantQuit, stored, flagged, runPc, worker>>
    BY <1>10 DEF Arrive, rcvVars, loopVars, wants, jobVars
  <2> QED
    BY <2>1 DEF ResultInv
<1>11. CASE Announce \/ OtherUpdate \/ Consume \/ Close \/ HasQuit \/ CloseReturn
            \/ UNCHANGED vars
  BY <1>11, <1>same DEF Announce, OtherUpdate, Consume, Close, HasQuit, CloseReturn, vars,
     rcvVars, loopVars, wants, jobVars, srvVars
<1>12. ASSUME NEW u \in held, Ack(u) PROVE ResultInv'
  BY <1>12, <1>same DEF Ack, loopVars, wants, jobVars
<1>13. CASE Abandon
  BY <1>13, <1>same DEF Abandon, loopVars, wants, srvVars
<1> QED
  BY <1>1, <1>2, <1>3, <1>4, <1>5, <1>6, <1>7, <1>8, <1>9, <1>10, <1>11, <1>12, <1>13
     DEF Arms, Next, Run, Worker, Server, User, Closed

(* The results are as described, always.                                   *)
LEMMA ResultInit == Init => ResultInv
  BY DEF Init, RcvInit, ResultInv

LEMMA ResultAlways == Spec => []ResultInv
<1>1. TypeOK /\ LoopSafe /\ ResultInv /\ [Next]_vars => ResultInv'
  BY ResultStep
<1> QED
  BY <1>1, ResultInit, TypeCorrect, LoopSafeAlways, PTL DEF Spec

-----------------------------------------------------------------------------
(***************************************************************************)
(* No duplicates.  A message that has been sent out and is no longer in    *)
(* mr.messages is gone from the mailbox, or it is marked and either the    *)
(* EXPUNGE is still to come or the loop is quitting and fetches no more.   *)
(***************************************************************************)
OnceInv ==
  /\ \A u \in UID : delivered[u] > 0 => u <= arrived
  /\ faults = 0 => \A u \in UID :
       /\ delivered[u] <= 1
       /\ messages[u] = Absent /\ u \in mailbox /\ delivered[u] > 0
            => u \in flagged /\ (wantQuit \/ worker \in Storing)

(* Every step preserves it.                                                *)
LEMMA OnceStep ==
  ASSUME TypeOK, LoopSafe, ResultInv, OnceInv, [Next]_vars
  PROVE  OnceInv'
<1> USE DEF OperationFetchFinish, Storing
<1>types. /\ faults \in Nat /\ arrived \in Nat /\ delivered \in [UID -> Nat]
          /\ mailbox \subseteq 1..arrived
  BY DEF TypeOK, SrvType, EnvType
<1>started. worker' \in Starts /\ worker' # worker => worker = "none"
  BY LoopSafeStep DEF Starts
<1>same. ASSUME UNCHANGED <<delivered, arrived, mailbox, flagged>>,
                \A u \in UID : messages'[u] = Absent => messages[u] = Absent,
                faults' = 0 => faults = 0, wantQuit => wantQuit',
                worker \in Storing => worker' \in Storing
         PROVE  OnceInv'
  BY <1>same DEF OnceInv
<1>fail. Fail => faults' = faults \/ faults' = faults + 1
  BY DEF Fail
<1>1. CASE Arms
  <2>1. UNCHANGED <<mailbox, flagged, arrived, faults, delivered>> /\ (wantQuit => wantQuit')
    BY <1>1, ArmFacts DEF ArmEffect
  <2>2. \A u \in UID : messages'[u] = Absent => messages[u] = Absent
    BY <1>1, ArmFacts DEF ArmEffect, Queues, Absent, StateAcked
  <2>3. worker' = worker \/ worker' \in Starts
    BY <1>1, ArmFacts DEF ArmEffect
  <2> QED
    BY <2>1, <2>2, <2>3, <1>started, <1>same
<1>2. CASE RecvFetchResult
  BY <1>2, <1>same DEF RecvFetchResult, wants, srvVars, envVars
<1>3. ASSUME NEW m \in fetched, Deliver(m) PROVE OnceInv'
  <2>1. /\ runPc = "deliver"
        /\ messages' = [messages EXCEPT ![m[1]] = StateUnacked]
        /\ delivered' = [delivered EXCEPT ![m[1]] = @ + 1]
        /\ UNCHANGED <<wantQuit, worker, mailbox, flagged, arrived, faults>>
    BY <1>3 DEF Deliver, wants, srvVars
  <2>2. m[1] \in UID /\ messages \in [UID -> {Absent, StateUnacked, StateAcked, StateDeleted}]
    BY DEF TypeOK, JobType, LoopType
  <2>3. m[1] \in mailbox /\ messages[m[1]] = Absent /\ ~wantQuit
    BY <2>1 DEF ResultInv
  <2>4. worker \notin Storing
    BY <2>1, DeliverAlone
  <2>5. faults = 0 => delivered[m[1]] = 0
    BY <2>2, <2>3, <2>4, <1>types DEF OnceInv
  <2>6. \A u \in UID : delivered'[u] > 0 => u <= arrived
    <3>0. \A x \in mailbox : x <= arrived
      BY <1>types
    <3>1. m[1] <= arrived
      BY <2>3, <3>0
    <3>2. \A u \in UID : u # m[1] => delivered'[u] = delivered[u]
      BY <2>1, <1>types
    <3> QED
      BY <3>1, <3>2 DEF OnceInv
  <2>7. faults = 0 => \A u \in UID : delivered'[u] <= 1
    BY <2>1, <2>2, <2>5, <1>types DEF OnceInv
  <2>8. \A u \in UID : messages'[u] = Absent => messages[u] = Absent /\ u # m[1]
    BY <2>1, <2>2 DEF Absent, StateUnacked
  <2>9. \A u \in UID : u # m[1] => delivered'[u] = delivered[u]
    BY <2>1, <1>types
  <2> QED
    BY <2>1, <2>6, <2>7, <2>8, <2>9 DEF OnceInv
<1>4. CASE DeliverDone \/ Signal
  BY <1>4, <1>same DEF DeliverDone, Signal, wants, jobVars, srvVars, envVars
<1>5. ASSUME NEW r \in stored, RecvDeleteResult(r) PROVE OnceInv'
  <2>1. /\ UNCHANGED <<delivered, arrived, mailbox, flagged, faults>>
        /\ worker = "deleteResult" /\ worker' \in Storing
    BY <1>5 DEF RecvDeleteResult, srvVars, envVars
  <2>2. r[1] \in UID /\ r[2] \in {StateAcked, StateDeleted}
        /\ messages \in [UID -> {Absent, StateUnacked, StateAcked, StateDeleted}]
    BY DEF TypeOK, JobType, LoopType
  <2>3. r[2] = StateDeleted => r[1] \in flagged
    BY <2>1 DEF ResultInv
  <2>4. \A u \in UID : messages'[u] = Absent => messages[u] = Absent \/ u \in flagged
    BY <1>5, <2>2, <2>3 DEF RecvDeleteResult, Absent, StateAcked
  <2> QED
    BY <2>1, <2>4 DEF OnceInv
<1>6. CASE IdleReturns \/ ReadMailbox \/ Fetch \/ WorkerFinish
  <2>1. /\ UNCHANGED <<delivered, arrived, mailbox, flagged, messages, wantQuit>>
        /\ faults' = faults \/ Fail
    BY <1>6 DEF IdleReturns, ReadMailbox, Fetch, WorkerFinish, loopVars, wants, srvVars, envVars
  <2>2. worker \notin Storing
    BY <1>6 DEF IdleReturns, ReadMailbox, Fetch, WorkerFinish, FinishOps, OperationIDLEFinish,
       OperationDeleteFinish
  <2> QED
    BY <2>1, <2>2, <1>fail, <1>types, <1>same
<1>7. CASE UidStore
  <2>1. /\ UNCHANGED <<delivered, arrived, mailbox, messages, wantQuit>>
        /\ flagged \subseteq flagged'
        /\ worker' \in Storing
    BY <1>7 DEF UidStore, loopVars, wants, envVars
  <2>2. faults' = faults \/ faults' = faults + 1
    BY <1>7, <1>fail DEF UidStore
  <2> QED
    BY <2>1, <2>2, <1>types DEF OnceInv
<1>8. CASE Expunge
  <2>1. UNCHANGED <<delivered, arrived, messages, wantQuit>>
    BY <1>8 DEF Expunge, loopVars, wants, envVars
  <2>2. PICK gone \in SUBSET flagged :
          /\ mailbox' = mailbox \ gone /\ flagged' = flagged \ gone
          /\ (gone = flagged /\ UNCHANGED faults) \/ Fail
    BY <1>8 DEF Expunge
  <2>3. CASE gone = flagged /\ UNCHANGED faults
    BY <2>1, <2>2, <2>3 DEF OnceInv
  <2>4. CASE Fail
    <3>1. faults' = 0 => wantQuit /\ faults = 0
      BY <2>4, <1>types DEF Fail
    <3> QED
      BY <2>1, <2>2, <3>1 DEF OnceInv
  <2> QED
    BY <2>2, <2>3, <2>4
<1>9. CASE Arrive
  <2>1. /\ arrived' = arrived + 1 /\ mailbox' = mailbox \cup {arrived + 1}
        /\ UNCHANGED <<delivered, messages, wantQuit, worker, flagged, faults>>
    BY <1>9 DEF Arrive, rcvVars, loopVars, wants, jobVars, envVars
  <2>2. UID \subseteq Nat
    BY ReceiverAssumption DEF ReceiverAssumption, UID
  <2>3. \A u \in UID : delivered[u] > 0 => u # arrived + 1 /\ u <= arrived + 1
    BY <2>2, <1>types DEF OnceInv
  <2> QED
    BY <2>1, <2>3 DEF OnceInv
<1>10. CASE Announce \/ OtherUpdate \/ Consume \/ Close \/ HasQuit \/ CloseReturn
            \/ UNCHANGED vars
  BY <1>10, <1>same DEF Announce, OtherUpdate, Consume, Close, HasQuit, CloseReturn, vars,
     rcvVars, loopVars, wants, jobVars, srvVars, envVars
<1>11. ASSUME NEW u \in held, Ack(u) PROVE OnceInv'
  <2>1. /\ UNCHANGED <<delivered, arrived, mailbox, flagged, messages, wantQuit, worker>>
        /\ faults' = faults \/ faults' = faults + 1
    BY <1>11 DEF Ack, loopVars, wants, jobVars
  <2> QED
    BY <2>1, <1>types, <1>same
<1>12. CASE Abandon
  <2>1. wantQuit /\ UNCHANGED <<delivered, arrived, mailbox, flagged, messages, wantQuit, faults>>
    BY <1>12 DEF Abandon, loopVars, wants, srvVars, envVars
  <2> QED
    BY <2>1 DEF OnceInv
<1> QED
  BY <1>1, <1>2, <1>3, <1>4, <1>5, <1>6, <1>7, <1>8, <1>9, <1>10, <1>11, <1>12
     DEF Arms, Next, Run, Worker, Server, User, Closed

(* Nothing has been sent out at first.                                     *)
LEMMA OnceInit == Init => OnceInv
  BY DEF Init, EnvInit, OnceInv

(* While no call fails, no message is sent out twice: no interleaving of   *)
(* delete results, EXPUNGE, FETCH and Close lets the loop re-read a        *)
(* message it has already let go of.                                       *)
THEOREM DeliveredOnce == Spec => []NoDuplicateDelivery
<1>1. TypeOK /\ LoopSafe /\ ResultInv /\ OnceInv /\ [Next]_vars => OnceInv'
  BY OnceStep
<1>2. OnceInv => NoDuplicateDelivery
  BY DEF OnceInv, NoDuplicateDelivery
<1> QED
  BY <1>1, <1>2, OnceInit, TypeCorrect, LoopSafeAlways, ResultAlways, PTL DEF Spec
-----------------------------------------------------------------------------
(***************************************************************************)
(* Nothing acknowledged is forgotten.  The goroutine's inputs and results  *)
(* belong to the call it is about to make or has just made; and as long as *)
(* nothing fails, what is tracked is in the mailbox, and what is marked    *)
(* and still tracked is reported as deleted.                               *)
(***************************************************************************)
InQueue(u) == u \in nextToProcess \cup toProcess \cup {r[1] : r \in stored}

CleanInv ==
  /\ flagged # {} => worker \in Storing
  /\ \A u \in UID : messages[u] # Absent => u \in mailbox
  /\ \A u \in flagged : messages[u] # Absent => <<u, StateDeleted>> \in stored
  /\ \A r \in stored : r[2] = StateDeleted
  /\ \A u \in UID : messages[u] = StateAcked => InQueue(u)

QueueInv ==
  /\ toProcess # {} => worker \in {"uidStore", "abandoned"}
  /\ stored # {} => worker = "deleteResult"
  /\ faults = 0 /\ ~wantQuit => CleanInv

(* Every step preserves it.                                                *)
LEMMA QueueStep ==
  ASSUME TypeOK, LoopSafe, ResultInv, QueueInv, [Next]_vars
  PROVE  QueueInv'
<1> USE DEF Storing
<1>types. /\ faults \in Nat /\ mailbox \subseteq UID /\ flagged \subseteq mailbox
          /\ messages \in [UID -> {Absent, StateUnacked, StateAcked, StateDeleted}]
          /\ stored \subseteq UID \X {StateAcked, StateDeleted}
  BY ReceiverAssumption DEF TypeOK, SrvType, LoopType, JobType, UID, ReceiverAssumption
<1>fail. Fail /\ ~wantQuit => faults' # 0
  BY <1>types DEF Fail
\* a step that touches neither the queue nor the mailbox
<1> DEFINE Busy == {"uidStore", "deleteResult", "abandoned"} \cup Storing
<1>same. ASSUME UNCHANGED <<messages, nextToProcess, toProcess, stored, mailbox, flagged,
                            wantQuit>>,
                faults' = 0 /\ ~wantQuit => faults = 0,
                UNCHANGED worker \/ (worker' \notin Busy /\ worker \notin Busy)
         PROVE  QueueInv'
  BY <1>same DEF QueueInv, CleanInv, InQueue
<1>1. CASE Arms
  <2>1. UNCHANGED <<stored, mailbox, flagged, faults>> /\ (wantQuit => wantQuit')
    BY <1>1, ArmFacts DEF ArmEffect
  <2>2. PICK todo :
          /\ Queues(todo)
          /\ \/ toProcess' = toProcess /\ nextToProcess' = todo
             \/ /\ rstate = StateNone /\ worker' = "uidStore"
                /\ toProcess' = todo /\ nextToProcess' = {}
    BY <1>1, ArmFacts DEF ArmEffect
  <2>3. worker' = worker \/ (worker = "none" /\ worker' \in Starts)
    BY <1>1, ArmFacts, LoopSafeStep DEF ArmEffect, Starts
  <2>4. rstate = StateNone => worker = "none"
    BY DEF LoopSafe, GoroutineMatches, Runs, StateNone, StateInIDLE, StateInFetch, StateInDelete
  <2>5. worker # worker' \/ rstate = StateNone => toProcess = {} /\ stored = {}
    BY <2>3, <2>4 DEF QueueInv
  <2>6. /\ toProcess' # {} => worker' \in {"uidStore", "abandoned"}
        /\ stored' # {} => worker' = "deleteResult"
    BY <2>1, <2>2, <2>3, <2>4, <2>5 DEF QueueInv
  <2>7. ASSUME faults' = 0, ~wantQuit' PROVE CleanInv'
    <3>1. CleanInv
      BY <2>1, <2>7 DEF QueueInv
    <3>2. flagged' # {} => worker' \in Storing
      BY <2>1, <2>3, <3>1 DEF CleanInv
    <3>3. \A u \in UID : messages'[u] # Absent => messages[u] # Absent
      BY <2>2 DEF Queues, Absent, StateUnacked
    <3>4. \A u \in UID : messages'[u] = StateAcked => messages[u] = StateAcked \/ u \in todo
      BY <2>2 DEF Queues
    <3>5. \A u \in UID : messages'[u] = StateAcked => InQueue(u)'
      <4>1. CASE toProcess' = toProcess /\ nextToProcess' = todo
        BY <4>1, <2>1, <2>2, <3>1, <3>4 DEF CleanInv, InQueue, Queues
      <4>2. CASE rstate = StateNone /\ toProcess' = todo
        BY <4>2, <2>1, <2>2, <2>5, <3>1, <3>4 DEF CleanInv, InQueue, Queues
      <4> QED
        BY <4>1, <4>2, <2>2
    <3> QED
      BY <2>1, <3>1, <3>2, <3>3, <3>5, <1>types DEF CleanInv
  <2> QED
    BY <2>6, <2>7 DEF QueueInv
<1>2. CASE RecvFetchResult
  BY <1>2, <1>same DEF RecvFetchResult, wants, srvVars, OperationFetchFinish
<1>3. ASSUME NEW m \in fetched, Deliver(m) PROVE QueueInv'
  <2>1. /\ runPc = "deliver"
        /\ messages' = [messages EXCEPT ![m[1]] = StateUnacked]
        /\ UNCHANGED <<wantQuit, worker, nextToProcess, toProcess, stored, mailbox, flagged,
                       faults>>
    BY <1>3 DEF Deliver, wants, srvVars
  <2>2. m[1] \in UID /\ m[1] \in mailbox
    BY <2>1 DEF TypeOK, JobType, ResultInv
  <2>3. worker \notin Storing
    BY <2>1, DeliverAlone DEF OperationFetchFinish
  <2>4. \A u \in UID : /\ messages'[u] = StateAcked => messages[u] = StateAcked
                       /\ u # m[1] => messages'[u] = messages[u]
    BY <2>1, <2>2, <1>types DEF StateUnacked, StateAcked
  <2> QED
    BY <2>1, <2>2, <2>3, <2>4, <1>types DEF QueueInv, CleanInv, InQueue
<1>4. CASE DeliverDone \/ Signal
  BY <1>4, <1>same DEF DeliverDone, Signal, wants, jobVars, srvVars
<1>5. ASSUME NEW r \in stored, RecvDeleteResult(r) PROVE QueueInv'
  <2>1. /\ worker = "deleteResult" /\ stored' = stored \ {r}
        /\ worker' = IF stored' = {} THEN "expunge" ELSE worker
        /\ UNCHANGED <<wantQuit, toProcess, mailbox, flagged, faults>>
    BY <1>5 DEF RecvDeleteResult, srvVars
  <2>2. toProcess = {}
    BY <2>1 DEF QueueInv
  <2>3. ASSUME faults' = 0, ~wantQuit' PROVE CleanInv'
    <3>1. CleanInv
      BY <2>1, <2>3 DEF QueueInv
    <3>2. r[1] \in UID /\ r[2] = StateDeleted
      BY <3>1, <1>types DEF CleanInv
    <3>3. rstate = StateInDelete
      BY <2>1, TypeOK DEF LoopSafe, GoroutineMatches, Runs, TypeOK, LoopType, StateNone,
         StateInIDLE, StateInFetch, StateInDelete, OperationIDLEFinish, OperationFetchFinish
    <3>4. messages' = [messages EXCEPT ![r[1]] = Absent] /\ UNCHANGED nextToProcess
      BY <1>5, <3>2, <3>3 DEF RecvDeleteResult
    <3>5. \A u \in UID : messages'[u] # Absent => u # r[1] /\ messages'[u] = messages[u]
      BY <3>2, <3>4, <1>types
    <3>6. \A u : u # r[1] /\ InQueue(u) => InQueue(u)'
      BY <2>1, <3>4 DEF InQueue
    <3>7. \A u \in UID : messages'[u] = StateAcked => InQueue(u)'
      BY <3>1, <3>5, <3>6 DEF CleanInv, StateAcked, Absent
    <3>8. \A u \in flagged' : messages'[u] # Absent => <<u, StateDeleted>> \in stored'
      BY <2>1, <3>1, <3>5, <1>types DEF CleanInv
    <3> QED
      BY <2>1, <3>1, <3>5, <3>7, <3>8 DEF CleanInv
  <2> QED
    BY <2>1, <2>2, <2>3 DEF QueueInv
<1>6. CASE IdleReturns \/ ReadMailbox \/ Fetch \/ WorkerFinish
  <2>1. UNCHANGED <<messages, nextToProcess, toProcess, stored, mailbox, flagged, wantQuit>>
    BY <1>6 DEF IdleReturns, ReadMailbox, Fetch, WorkerFinish, loopVars, wants, srvVars
  <2>2. faults' = faults \/ Fail
    BY <1>6 DEF IdleReturns, ReadMailbox, Fetch, WorkerFinish, srvVars
  <2>3. worker' \notin Busy /\ worker \notin Busy
    BY <1>6 DEF IdleReturns, ReadMailbox, Fetch, WorkerFinish, FinishOps, OperationIDLEFinish,
       OperationDeleteFinish, OperationFetchFinish
  <2> QED
    BY <2>1, <2>2, <2>3, <1>fail, <1>same
<1>7. CASE UidStore
  <2> DEFINE targets == {u \in toProcess \cap mailbox : messages[u] = StateAcked}
  <2>1. /\ worker = "uidStore" /\ toProcess' = {}
        /\ worker' = IF stored' = {} THEN "expunge" ELSE "deleteResult"
        /\ UNCHANGED <<messages, nextToProcess, mailbox, wantQuit>>
    BY <1>7 DEF UidStore, loopVars, wants
  <2>2. stored = {}
    BY <2>1 DEF QueueInv
  <2>3. ASSUME faults' = 0, ~wantQuit' PROVE CleanInv'
    <3>1. /\ flagged' = flagged \cup targets /\ UNCHANGED faults
          /\ stored' = {<<u, IF u \in flagged' THEN StateDeleted ELSE StateAcked>> :
                          u \in targets}
      <4>1. faults + 1 # 0
        BY <1>types
      <4>2. ~Fail
        BY <2>1, <2>3, <1>fail
      <4> QED
        BY <1>7, <2>3, <4>1, <4>2 DEF UidStore
    <3>2. CleanInv /\ flagged = {}
      BY <2>1, <2>3, <3>1 DEF QueueInv, CleanInv
    <3> HIDE DEF targets
    <3>3. stored' = {<<u, StateDeleted>> : u \in targets} /\ flagged' = targets
      BY <3>1, <3>2
    <3>4. \A u \in targets : <<u, StateDeleted>> \in stored'
      BY <3>3
    <3>5. \A u \in targets : u \in {r[1] : r \in stored'}
      <4>1. \A u : <<u, StateDeleted>>[1] = u
        OBVIOUS
      <4> QED
        BY <3>4, <4>1
    <3>6. \A r \in stored' : r[2] = StateDeleted
      BY <3>3
    <3>7. \A u \in UID : messages'[u] = StateAcked => InQueue(u)'
      <4>1. \A u \in UID : messages[u] = StateAcked =>
               u \in nextToProcess \/ u \in targets
        BY <2>2, <3>2, <1>types DEF CleanInv, InQueue, targets, StateAcked, Absent
      <4> QED
        BY <2>1, <4>1, <3>5 DEF InQueue
    <3>8. worker' \in Storing
      BY <2>1
    <3> QED
      BY <2>1, <3>2, <3>3, <3>4, <3>6, <3>7, <3>8 DEF CleanInv
  <2> QED
    BY <2>1, <2>3 DEF QueueInv
<1>8. CASE Expunge
  <2>1. /\ worker = "expunge" /\ worker' = OperationDeleteFinish
        /\ UNCHANGED <<messages, nextToProcess, toProcess, stored, wantQuit>>
    BY <1>8 DEF Expunge, loopVars, wants
  <2>2. stored = {} /\ toProcess = {}
    BY <2>1 DEF QueueInv
  <2>3. ASSUME faults' = 0, ~wantQuit' PROVE CleanInv'
    <3>1. mailbox' = mailbox \ flagged /\ flagged' = {} /\ UNCHANGED faults
      <4>1. PICK gone \in SUBSET flagged :
              /\ mailbox' = mailbox \ gone /\ flagged' = flagged \ gone
              /\ (gone = flagged /\ UNCHANGED faults) \/ Fail
        BY <1>8 DEF Expunge
      <4> QED
        BY <2>1, <2>3, <4>1, <1>fail
    <3>2. CleanInv
      BY <2>1, <2>3, <3>1 DEF QueueInv
    <3> QED
      BY <2>1, <2>2, <3>1, <3>2 DEF CleanInv, InQueue
  <2> QED
    BY <2>1, <2>2, <2>3 DEF QueueInv
<1>9. CASE Arrive
  <2>1. /\ mailbox \subseteq mailbox'
        /\ UNCHANGED <<messages, nextToProcess, toProcess, stored, wantQuit, worker, flagged,
                       faults>>
    BY <1>9 DEF Arrive, rcvVars, loopVars, wants, jobVars
  <2> QED
    BY <2>1 DEF QueueInv, CleanInv, InQueue
<1>10. CASE Announce \/ OtherUpdate \/ Consume \/ Close \/ HasQuit \/ CloseReturn
            \/ UNCHANGED vars
  BY <1>10, <1>same DEF Announce, OtherUpdate, Consume, Close, HasQuit, CloseReturn, vars,
     rcvVars, loopVars, wants, jobVars, srvVars
<1>11. ASSUME NEW u \in held, Ack(u) PROVE QueueInv'
  <2>1. /\ UNCHANGED <<messages, nextToProcess, toProcess, stored, mailbox, flagged, wantQuit,
                       worker>>
        /\ faults' = faults \/ faults' = faults + 1
    BY <1>11 DEF Ack, loopVars, wants, jobVars
  <2> QED
    BY <2>1, <1>types, <1>same
<1>12. CASE Abandon
  <2>1. /\ wantQuit /\ worker \in {"idle", "mailbox", "fetch", "uidStore", "expunge"}
        /\ worker' = "abandoned" /\ UNCHANGED <<toProcess, stored, wantQuit>>
    BY <1>12 DEF Abandon, loopVars, wants
  <2>2. stored = {}
    BY <2>1 DEF QueueInv
  <2> QED
    BY <2>1, <2>2 DEF QueueInv
<1> QED
  BY <1>1, <1>2, <1>3, <1>4, <1>5, <1>6, <1>7, <1>8, <1>9, <1>10, <1>11, <1>12
     DEF Arms, Next, Run, Worker, Server, User, Closed

(* Nothing is queued, marked or tracked at first.                          *)
LEMMA QueueInit == Init => QueueInv
  BY DEF Init, RcvInit, QueueInv, CleanInv, StateAcked, Absent

(* While no call fails, every acknowledged message the loop knows is on    *)
(* its way to be deleted: the copies of nextToProcess and of the delete    *)
(* results that cross between loop and goroutine lose none.                *)
THEOREM AckedQueued == Spec => []AckedIsQueued
<1>1. TypeOK /\ LoopSafe /\ ResultInv /\ QueueInv /\ [Next]_vars => QueueInv'
  BY QueueStep
<1>2. QueueInv => AckedIsQueued
  BY DEF QueueInv, CleanInv, InQueue, AckedIsQueued
<1> QED
  BY <1>1, <1>2, QueueInit, TypeCorrect, LoopSafeAlways, ResultAlways, PTL DEF Spec
=============================================================================
