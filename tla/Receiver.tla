------------------------------ MODULE Receiver ------------------------------
(***************************************************************************)
(* The mail receiver (receiver/): the event loop mailReceiver.run, the     *)
(* goroutines it starts one at a time for IDLE, FETCH and DELETE, the      *)
(* channels between them, and the source mailbox they work on.  The        *)
(* imap.Client the receiver calls is external here: any call may fail, and *)
(* a client that was told to quit may abandon the call it is in.           *)
(***************************************************************************)
EXTENDS Naturals, Sequences, FiniteSets

CONSTANTS
  MaxUid,            \* bound: messages that ever arrive have UIDs 1..MaxUid
  BatchSize,         \* mr.batchSize
  FetchBufferSize,   \* mr.fetchBufferSize, also the capacity of ackChannel
  OutCap,            \* capacity of the channel the messages go out on
  UpdCap,            \* capacity of mr.updates
  DisableDeletions,  \* mr.disableDeletions
  MaxFaults,         \* bound: failed client calls and failed acknowledgements
  OtherUpdates       \* bound: does the server also send updates not about new mail?

ASSUME ReceiverAssumption ==
  /\ MaxUid \in Nat
  /\ BatchSize \in Nat \ {0}
  /\ FetchBufferSize \in Nat \ {0}
  /\ OutCap \in Nat \ {0}
  /\ UpdCap \in Nat \ {0}
  /\ DisableDeletions \in BOOLEAN
  /\ MaxFaults \in Nat
  /\ OtherUpdates \in BOOLEAN

UID == 1..MaxUid

(* operation (types.go): what the loop reads from opChan or its timer *)
OperationNone         == "none"
OperationIDLEFinish   == "idle_finish"
OperationFetchFinish  == "fetch_finish"
OperationDeleteFinish == "delete_finish"
OperationTimeout      == "timeout"
Empty == "empty"   \* no operation in opChan
FinishOps == {OperationIDLEFinish, OperationFetchFinish, OperationDeleteFinish}

(* sstate (types.go): the loop's state *)
StateNone     == "state_none"
StateInIDLE   == "in_idle"
StateInFetch  == "in_fetch"
StateInDelete == "in_delete"

(* state (types.go) of a message; a UID with no entry in mr.messages is    *)
(* Absent                                                                  *)
Absent       == "absent"
StateUnacked == "unacked"
StateAcked   == "acked"
StateDeleted == "deleted"

VARIABLES
  rstate,         \* run: state
  runPc,          \* run: select, deliver (handleFetch), signal (opChan <-), exited, panic
  wantQuit, wantFetch, wantDelete, wantStopIdle,  \* run: FlagCounters, IsFlagged()
  nextToProcess,  \* run: acknowledged UIDs waiting for a delete
  messages,       \* mr.messages: UID -> State
  seqNum,         \* mr.messages: UID -> SeqNum, as it was when fetched
  fetched,        \* fetchResult: <<uid, seq>> pairs, the worker's until received by run
  opChan,         \* run: opChan, capacity 1: Empty or the operation in it
  worker,         \* the goroutine run has started: its next call, or the op it sends last
  existing,       \* worker: known sequence numbers handed to doFetch
  seqset,         \* worker: sequence numbers doFetch asks the server for
  toProcess,      \* worker: UIDs handed to doDelete
  stored,         \* worker: deleteResults <<uid, state>> not yet received by run
  updates,        \* mr.updates: unilateral updates from the client
  out,            \* mr.outChannel
  ackChannel,     \* mr.ackChannel: <<uid, no error>> pairs
  quitChan,       \* mr.wantQuit holds a token
  closer          \* Close: open, waiting (for hasQuit), logout (in client.Logout), closed

wants    == <<wantQuit, wantFetch, wantDelete, wantStopIdle>>
loopVars == <<rstate, runPc, wants, nextToProcess, messages, seqNum>>
jobVars  == <<worker, fetched, existing, seqset, toProcess, stored>>
chanVars == <<opChan, updates, out, ackChannel, quitChan, closer>>
rcvVars  == <<loopVars, jobVars, chanVars>>

VARIABLES
  mailbox,        \* UIDs in the source mailbox
  flagged,        \* UIDs carrying \Deleted
  arrived,        \* UIDs 1..arrived have been given out
  exists,         \* the client's count of messages
  news,           \* the server owes the client an EXISTS
  faults          \* faults so far

srvVars == <<mailbox, flagged, arrived, exists, news, faults>>

VARIABLES
  held,           \* UIDs taken from out and not yet acknowledged
  ackedOk,        \* history: UIDs ever acknowledged without an error
  delivered       \* history: UID -> times sent on out

envVars == <<held, ackedOk, delivered>>
vars == <<rcvVars, srvVars, envVars>>

WorkerPcs == {"none", "idle", "mailbox", "fetch", "fetchResult",
              "uidStore", "deleteResult", "expunge", "abandoned"} \cup FinishOps

(***************************************************************************)
(* Sequence numbers.  UIDs ascend with sequence numbers, so the number of  *)
(* a message is its rank in the mailbox.                                   *)
(***************************************************************************)
SeqNumOf(u) == Cardinality({v \in mailbox : v <= u})

buildCurrentSequence(msgs) == {seqNum[u] : u \in {v \in UID : msgs[v] # Absent}}

\* mutant: the loop stops one short of the last message
buildSeqSetOffByOne(known, total, maxSize) ==
  {n \in (1..total) \ known : n < total /\ Cardinality((1..n) \ known) <= maxSize}

buildSeqSet(known, total, maxSize) ==
  {n \in (1..total) \ known : Cardinality((1..n) \ known) <= maxSize}

(***************************************************************************)
(* NewReceiver: the factory has connected and SELECTed the mailbox; the    *)
(* server is about to report what it holds already.                        *)
(***************************************************************************)
RcvInit ==
  /\ rstate = StateNone
  /\ runPc = "select"
  /\ wantQuit = FALSE /\ wantFetch = FALSE /\ wantDelete = FALSE
  /\ wantStopIdle = FALSE
  /\ nextToProcess = {}
  /\ messages = [u \in UID |-> Absent]
  /\ seqNum = [u \in UID |-> 0]
  /\ worker = "none" /\ fetched = {}
  /\ existing = {} /\ seqset = {} /\ toProcess = {} /\ stored = {}
  /\ opChan = Empty /\ updates = <<>> /\ out = <<>> /\ ackChannel = <<>>
  /\ quitChan = FALSE
  /\ closer = "open"

\* the client's view of the mailbox, just connected
ConnInit == exists = 0 /\ news = TRUE

EnvInit ==
  /\ held = {}
  /\ ackedOk = {}
  /\ delivered = [u \in UID |-> 0]

Init ==
  /\ RcvInit /\ ConnInit /\ EnvInit
  /\ arrived \in 0..MaxUid
  /\ mailbox = 1..arrived
  /\ flagged = {}
  /\ faults = 0

(***************************************************************************)
(* run: the state machine behind the select (the "tick").  op is what the  *)
(* select yielded; q, f, d and todo are wantQuit, wantFetch, wantDelete    *)
(* and nextToProcess as the arm of the select left them.                   *)
(***************************************************************************)
Keep(q, f, d, todo) ==
  /\ wantQuit' = q /\ wantFetch' = f /\ wantDelete' = d
  /\ nextToProcess' = todo

\* mutant: leaves the delete to the batch and the timer
FlagDeleteNot(d) == d
FlagDelete(d) == d \/ ~DisableDeletions

\* no goroutine is started by this step
NoStart == UNCHANGED <<worker, existing, toProcess>>

Panic(q, f, d, todo) ==
  /\ runPc' = "panic"
  /\ Keep(q, f, d, todo)
  /\ NoStart
  /\ UNCHANGED <<rstate, wantStopIdle>>

\* mutant: deletes one message and forgets the rest of the map
StartDeleteOne(q, f, todo) ==
  /\ rstate' = StateInDelete
  /\ worker' = "uidStore"
  /\ toProcess' = {CHOOSE u \in todo : TRUE}
  /\ Keep(q, f, FALSE, {})
  /\ UNCHANGED <<runPc, wantStopIdle, existing>>

StartDelete(q, f, todo) ==
  /\ rstate' = StateInDelete
  /\ worker' = "uidStore"
  /\ toProcess' = todo
  /\ Keep(q, f, FALSE, {})
  /\ UNCHANGED <<runPc, wantStopIdle, existing>>

StartFetch(q, todo) ==
  /\ rstate' = StateInFetch
  /\ worker' = "mailbox"
  /\ existing' = buildCurrentSequence(messages')
  /\ Keep(q, FALSE, FALSE, todo)
  /\ UNCHANGED <<runPc, wantStopIdle, toProcess>>

StartIdle(q, todo) ==
  /\ rstate' = StateInIDLE
  /\ worker' = "idle"
  /\ Keep(q, FALSE, FALSE, todo)
  /\ UNCHANGED <<runPc, wantStopIdle, existing, toProcess>>

Exit(q, todo) ==
  /\ runPc' = "exited"
  /\ Keep(q, FALSE, FALSE, todo)
  /\ NoStart
  /\ UNCHANGED <<rstate, wantStopIdle>>

\* mutant: quits before the deletes it still owes
TickNoneQuitFirst(op, q, f, d, todo) ==
  \/ q /\ Exit(q, todo)
  \/ ~q /\ ~d /\ f /\ StartFetch(q, todo)
  \/ ~q /\ ~d /\ ~f /\ StartIdle(q, todo)
  \/ ~q /\ d /\ todo # {} /\ StartDelete(q, f, todo)

\* A delete goes before a fetch, a fetch before an IDLE; quitting drops the
\* fetch but not the delete.
TickNone(op, q, f, d, todo) ==
  LET timeout == op = OperationTimeout
      fetch   == ~q /\ (f \/ timeout)
      delete  == IF timeout \/ Cardinality(todo) >= BatchSize
                   THEN FlagDelete(d) ELSE d
      deletes == delete /\ todo # {}
  IN  \/ op \in FinishOps /\ Panic(q, f, d, todo)
      \/ op \notin FinishOps /\ deletes /\ StartDelete(q, fetch, todo)
      \/ op \notin FinishOps /\ ~deletes /\ fetch /\ StartFetch(q, todo)
      \/ op \notin FinishOps /\ ~deletes /\ ~fetch /\ ~q /\ StartIdle(q, todo)
      \/ op \notin FinishOps /\ ~deletes /\ ~fetch /\ q /\ Exit(q, todo)

\* The goroutine has finished: back to StateNone, and a token into opChan
\* (a send of its own, see Signal) so that the loop ticks there at once.
Finish(stopIdle, q, f, d, todo) ==
  /\ rstate' = StateNone
  /\ runPc' = "signal"
  /\ wantStopIdle' = stopIdle
  /\ Keep(q, f, d, todo)
  /\ NoStart

\* mutant: does not wait for the goroutine to report the end of the IDLE
InterruptNoWait(q, d, todo) == Finish(FALSE, q, TRUE, d, todo)
\* mutant: a loop that is quitting does not interrupt the IDLE
InterruptUnlessQuitting(q, d, todo) ==
  /\ wantStopIdle' = (wantStopIdle \/ ~q)
  /\ Keep(q, TRUE, d, todo)
  /\ NoStart
  /\ UNCHANGED <<rstate, runPc>>
\* Any event at all interrupts the IDLE and asks for a fetch.
Interrupt(q, d, todo) ==
  /\ wantStopIdle' = TRUE
  /\ Keep(q, TRUE, d, todo)
  /\ NoStart
  /\ UNCHANGED <<rstate, runPc>>

\* mutant: the stop channel is not replaced when the IDLE ends
IdleFinishNoReset(q, f, d, todo) == Finish(wantStopIdle, q, f, d, todo)
IdleFinish(q, f, d, todo) == Finish(FALSE, q, f, d, todo)

TickInIDLE(op, q, f, d, todo) ==
  \/ op \in {OperationNone, OperationTimeout} /\ Interrupt(q, d, todo)
  \/ op = OperationIDLEFinish /\ IdleFinish(q, f, d, todo)
  \/ op \in FinishOps \ {OperationIDLEFinish} /\ Panic(q, f, d, todo)

\* mutant: gives up on the goroutine instead of waiting for it
WaitGivesUp(q, f, d, todo) == Finish(wantStopIdle, q, f, d, todo)
Wait(q, f, d, todo) ==
  /\ Keep(q, f, d, todo)
  /\ NoStart
  /\ UNCHANGED <<rstate, runPc, wantStopIdle>>

TickInFetch(op, q, f, d, todo) ==
  \/ op \in {OperationNone, OperationTimeout} /\ Wait(q, f, d, todo)
  \/ op = OperationFetchFinish /\ Finish(wantStopIdle, q, f, d, todo)
  \/ op \in FinishOps \ {OperationFetchFinish} /\ Panic(q, f, d, todo)

TickInDelete(op, q, f, d, todo) ==
  \/ /\ op \in {OperationNone, OperationTimeout}
     /\ Wait(q, f \/ op = OperationTimeout, d, todo)
  \/ op = OperationDeleteFinish /\ Finish(wantStopIdle, q, f, d, todo)
  \/ op \in FinishOps \ {OperationDeleteFinish} /\ Panic(q, f, d, todo)

Tick(op, q, f, d, todo) ==
  \/ rstate = StateNone     /\ TickNone(op, q, f, d, todo)
  \/ rstate = StateInIDLE   /\ TickInIDLE(op, q, f, d, todo)
  \/ rstate = StateInFetch  /\ TickInFetch(op, q, f, d, todo)
  \/ rstate = StateInDelete /\ TickInDelete(op, q, f, d, todo)

(***************************************************************************)
(* run: the arms of the select                                             *)
(***************************************************************************)
RecvQuit ==
  /\ runPc = "select" /\ quitChan
  /\ quitChan' = FALSE
  /\ UNCHANGED <<messages, seqNum, fetched, seqset, stored, opChan, updates,
                 out, ackChannel, closer, srvVars, envVars>>
  /\ Tick(OperationNone, TRUE, wantFetch, wantDelete, nextToProcess)

RecvUpdate ==
  /\ runPc = "select" /\ updates # <<>>
  /\ updates' = Tail(updates)
  /\ UNCHANGED <<messages, seqNum, fetched, seqset, stored, opChan, out,
                 ackChannel, quitChan, closer, srvVars, envVars>>
  /\ Tick(OperationNone, wantQuit, wantFetch \/ Head(updates) = "mailbox",
          wantDelete, nextToProcess)

\* mutant: an acknowledgement with an error counts as one without
AckedAnyway(u, noError) == messages[u] = StateUnacked
\* handleAck: a failed message keeps its state and is not looked at again.
Acked(u, noError) == noError /\ messages[u] = StateUnacked

RecvAck ==
  /\ runPc = "select" /\ ackChannel # <<>>
  /\ ackChannel' = Tail(ackChannel)
  /\ UNCHANGED <<seqNum, fetched, seqset, stored, opChan, updates, out,
                 quitChan, closer, srvVars, envVars>>
  /\ LET u  == Head(ackChannel)[1]
         ok == Acked(u, Head(ackChannel)[2])
     IN  \/ /\ ok
            /\ messages' = [messages EXCEPT ![u] = StateAcked]
            /\ Tick(OperationNone, wantQuit, wantFetch,
                    FlagDelete(wantDelete), nextToProcess \cup {u})
         \/ /\ ~ok
            /\ UNCHANGED messages
            /\ Tick(OperationNone, wantQuit, wantFetch, wantDelete, nextToProcess)

Timeout ==
  /\ runPc = "select"
  /\ UNCHANGED <<messages, seqNum, fetched, seqset, stored, chanVars, srvVars,
                 envVars>>
  /\ Tick(OperationTimeout, wantQuit, wantFetch, wantDelete, nextToProcess)

RecvOp ==
  /\ runPc = "select" /\ opChan # Empty
  /\ opChan' = Empty
  /\ UNCHANGED <<messages, seqNum, fetched, seqset, stored, updates, out,
                 ackChannel, quitChan, closer, srvVars, envVars>>
  /\ Tick(opChan, wantQuit, wantFetch, wantDelete, nextToProcess)

\* mutant: sends out known messages again
AllIn(result) == result
NewIn(result) == {m \in result : messages[m[1]] = Absent}

\* The fetch goroutine hands over its result.  A loop that is quitting drops
\* it; otherwise handleFetch sends out what it does not know yet.
RecvFetchResult ==
  /\ runPc = "select" /\ worker = "fetchResult"
  /\ worker' = OperationFetchFinish
  /\ \/ /\ rstate # StateInFetch
        /\ runPc' = "panic"
        /\ UNCHANGED fetched
     \/ /\ rstate = StateInFetch /\ wantQuit
        /\ fetched' = {}
        /\ UNCHANGED runPc
     \/ /\ rstate = StateInFetch /\ ~wantQuit
        /\ fetched' = NewIn(fetched)
        /\ runPc' = "deliver"
  /\ UNCHANGED <<rstate, wants, nextToProcess, messages, seqNum, existing,
                 seqset, toProcess, stored, chanVars, srvVars, envVars>>

\* mutant: does not wait for room in the channel
CanSendAlways == TRUE
CanSend == Len(out) < OutCap

\* handleFetch: one message of the result, in the map's random order
Deliver(m) ==
  /\ runPc = "deliver" /\ CanSend
  /\ fetched' = fetched \ {m}
  /\ messages' = [messages EXCEPT ![m[1]] = StateUnacked]
  /\ seqNum' = [seqNum EXCEPT ![m[1]] = m[2]]
  /\ out' = Append(out, m[1])
  /\ delivered' = [delivered EXCEPT ![m[1]] = @ + 1]
  /\ UNCHANGED <<rstate, runPc, wants, nextToProcess, worker, existing,
                 seqset, toProcess, stored, opChan, updates, ackChannel,
                 quitChan, closer, srvVars, held, ackedOk>>

\* handleFetch returns; the tick of StateInFetch with OperationNone does nothing
DeliverDone ==
  /\ runPc = "deliver" /\ fetched = {}
  /\ runPc' = "select"
  /\ UNCHANGED <<rstate, wants, nextToProcess, messages, seqNum, jobVars,
                 chanVars, srvVars, envVars>>

\* The delete goroutine hands over one result (handleDelete); the tick of
\* StateInDelete with OperationNone does nothing.
RecvDeleteResult(r) ==
  /\ runPc = "select" /\ worker = "deleteResult"
  /\ stored' = stored \ {r}
  /\ worker' = IF stored' = {} THEN "expunge" ELSE worker
  /\ LET u     == r[1]
         retry == r[2] # StateDeleted /\ messages[u] # Absent
     IN  \/ /\ rstate # StateInDelete
            /\ runPc' = "panic"
            /\ UNCHANGED <<wantDelete, nextToProcess, messages>>
         \/ /\ rstate = StateInDelete /\ ~retry
            /\ messages' = IF r[2] = StateDeleted
                             THEN [messages EXCEPT ![u] = Absent] ELSE messages
            /\ UNCHANGED <<runPc, wantDelete, nextToProcess>>
         \/ /\ rstate = StateInDelete /\ retry
            /\ messages' = [messages EXCEPT ![u] = r[2]]
            /\ nextToProcess' = nextToProcess \cup {u}
            /\ wantDelete' = FlagDelete(wantDelete)
            /\ UNCHANGED runPc
  /\ UNCHANGED <<rstate, wantQuit, wantFetch, wantStopIdle, seqNum, fetched,
                 existing, seqset, toProcess, chanVars, srvVars, envVars>>

\* opChan <- OperationNone, by the loop itself
Signal ==
  /\ runPc = "signal" /\ opChan = Empty
  /\ opChan' = OperationNone
  /\ runPc' = "select"
  /\ UNCHANGED <<rstate, wants, nextToProcess, messages, seqNum, jobVars,
                 updates, out, ackChannel, quitChan, closer, srvVars,
                 envVars>>

(***************************************************************************)
(* The goroutines: Idle, doFetch, doDelete.  A client call may fail within *)
(* the fault bound, and freely once FlagQuit has been called.              *)
(***************************************************************************)
MayFail == wantQuit \/ faults < MaxFaults
Fail    == MayFail /\ faults' = IF wantQuit THEN faults ELSE faults + 1

IdleReturns ==
  /\ worker = "idle"
  /\ \/ wantStopIdle /\ UNCHANGED faults
     \/ ~wantStopIdle /\ Fail
  /\ worker' = OperationIDLEFinish
  /\ UNCHANGED <<loopVars, fetched, existing, seqset, toProcess, stored,
                 chanVars, mailbox, flagged, arrived, exists, news, envVars>>

\* client.Mailbox() and buildSeqSet; doFetch gives up when there is no
\* mailbox, no message or nothing new.
ReadMailbox ==
  /\ worker = "mailbox"
  /\ \/ /\ seqset' = buildSeqSet(existing, exists, FetchBufferSize)
        /\ worker' = IF seqset' = {} THEN OperationFetchFinish ELSE "fetch"
        /\ UNCHANGED faults
     \/ /\ Fail
        /\ seqset' = {}
        /\ worker' = OperationFetchFinish
  /\ existing' = {}
  /\ UNCHANGED <<loopVars, fetched, toProcess, stored, chanVars, mailbox,
                 flagged, arrived, exists, news, envVars>>

\* client.Fetch and readMessages.  The server skips sequence numbers past the
\* last message.
Fetch ==
  /\ worker = "fetch"
  /\ \/ /\ fetched' = {<<u, SeqNumOf(u)>> :
                          u \in {v \in mailbox : SeqNumOf(v) \in seqset}}
        /\ worker' = "fetchResult"
        /\ UNCHANGED faults
     \/ /\ Fail
        /\ worker' = OperationFetchFinish
        /\ UNCHANGED fetched
  /\ seqset' = {}
  /\ UNCHANGED <<loopVars, existing, toProcess, stored, chanVars, mailbox,
                 flagged, arrived, exists, news, envVars>>

\* client.UidStore(+FLAGS \Deleted).  A call that fails may have set some of
\* the flags and reported some of those; a server that will not set a flag
\* reports the message without it.
UidStore ==
  /\ worker = "uidStore"
  /\ LET targets == {u \in toProcess \cap mailbox : messages[u] = StateAcked}
     IN  \E applied \in SUBSET targets : \E told \in SUBSET targets :
           /\ \/ applied = targets /\ told = targets /\ UNCHANGED faults
              \/ told \subseteq applied /\ told # targets /\ Fail
              \/ /\ ~(told \subseteq applied) /\ faults < MaxFaults
                 /\ faults' = faults + 1
           /\ flagged' = flagged \cup applied
           /\ stored' = {<<u, IF u \in flagged' THEN StateDeleted ELSE StateAcked>> :
                           u \in told}
  /\ worker' = IF stored' = {} THEN "expunge" ELSE "deleteResult"
  /\ toProcess' = {}
  /\ UNCHANGED <<loopVars, fetched, existing, seqset, chanVars, mailbox,
                 arrived, exists, news, envVars>>

\* client.Expunge.  A call that fails may have removed any of the messages.
\* The client's message count does not follow an EXPUNGE.
Expunge ==
  /\ worker = "expunge"
  /\ \E gone \in SUBSET flagged :
       /\ \/ gone = flagged /\ UNCHANGED faults
          \/ Fail
       /\ mailbox' = mailbox \ gone
       /\ flagged' = flagged \ gone
  /\ worker' = OperationDeleteFinish
  /\ UNCHANGED <<loopVars, fetched, existing, seqset, toProcess, stored,
                 chanVars, arrived, exists, news, envVars>>

\* opChan <- Operation...Finish, by the goroutine, which then ends
WorkerFinish ==
  /\ worker \in FinishOps /\ opChan = Empty
  /\ opChan' = worker
  /\ worker' = "none"
  /\ UNCHANGED <<loopVars, fetched, existing, seqset, toProcess, stored,
                 updates, out, ackChannel, quitChan, closer, srvVars,
                 envVars>>

\* The persistent client, logging out after FlagQuit, answers a Fetch or a
\* UidStore that is still waiting for its turn and leaves the message channel
\* open, or closes the channel on which a call is being sent: the goroutine
\* waits for ever or panics (run client_shutdown of PersistentClient).
Abandon ==
  /\ wantQuit /\ worker \in {"idle", "mailbox", "fetch", "uidStore", "expunge"}
  /\ worker' = "abandoned"
  /\ UNCHANGED <<loopVars, fetched, existing, seqset, toProcess, stored, chanVars,
                 srvVars, envVars>>

(***************************************************************************)
(* The source server and the client's reader goroutine (external)          *)
(***************************************************************************)
Arrive ==
  /\ arrived < MaxUid
  /\ arrived' = arrived + 1
  /\ mailbox' = mailbox \cup {arrived + 1}
  /\ news' = TRUE
  /\ UNCHANGED <<rcvVars, flagged, exists, faults, envVars>>

\* EXISTS, in answer to a command or on its own: go-imap stores the count and
\* sends a MailboxUpdate.
Announce ==
  /\ Len(updates) < UpdCap
  /\ exists' = Cardinality(mailbox)
  /\ news' = FALSE
  /\ updates' = Append(updates, "mailbox")
  /\ UNCHANGED <<loopVars, jobVars, opChan, out, ackChannel, quitChan, closer,
                 mailbox, flagged, arrived, faults, envVars>>

\* a StatusUpdate, ExpungeUpdate or MessageUpdate
OtherUpdate ==
  /\ OtherUpdates /\ Len(updates) < UpdCap
  /\ updates' = Append(updates, "other")
  /\ UNCHANGED <<loopVars, jobVars, opChan, out, ackChannel, quitChan, closer,
                 srvVars, envVars>>

(***************************************************************************)
(* The receiver's user: takes messages, acknowledges each once, closes.    *)
(***************************************************************************)
Consume ==
  /\ out # <<>>
  /\ held' = held \cup {Head(out)}
  /\ out' = Tail(out)
  /\ UNCHANGED <<loopVars, jobVars, opChan, updates, ackChannel, quitChan,
                 closer, srvVars, ackedOk, delivered>>

Ack(u) ==
  /\ Len(ackChannel) < FetchBufferSize
  /\ held' = held \ {u}
  /\ \/ /\ ackChannel' = Append(ackChannel, <<u, TRUE>>)
        /\ ackedOk' = ackedOk \cup {u}
        /\ UNCHANGED faults
     \/ /\ faults < MaxFaults
        /\ ackChannel' = Append(ackChannel, <<u, FALSE>>)
        /\ faults' = faults + 1
        /\ UNCHANGED ackedOk
  /\ UNCHANGED <<loopVars, jobVars, opChan, updates, out, quitChan, closer,
                 mailbox, flagged, arrived, exists, news, delivered>>

Close ==
  /\ closer = "open"
  /\ closer' = "waiting"
  /\ quitChan' = TRUE
  /\ UNCHANGED <<loopVars, jobVars, opChan, updates, out, ackChannel, srvVars,
                 envVars>>

\* Close receives hasQuit ...
HasQuit ==
  /\ closer = "waiting" /\ runPc = "exited"
  /\ closer' = "logout"
  /\ UNCHANGED <<loopVars, jobVars, opChan, updates, out, ackChannel,
                 quitChan, srvVars, envVars>>

\* ... and logs the client out.  The answer comes from the client's reader
\* goroutine, which nobody frees from a full updates channel any more: see
\* Fairness.
CloseReturn ==
  /\ closer = "logout"
  /\ closer' = "closed"
  /\ UNCHANGED <<loopVars, jobVars, opChan, updates, out, ackChannel,
                 quitChan, srvVars, envVars>>

\* nothing is left to do once Close has returned
Closed == closer = "closed" /\ UNCHANGED vars

Run ==
  \/ RecvQuit \/ RecvUpdate \/ RecvAck \/ Timeout \/ RecvOp
  \/ RecvFetchResult
  \/ \E m \in fetched : Deliver(m)
  \/ DeliverDone
  \/ \E r \in stored : RecvDeleteResult(r)
  \/ Signal

Worker ==
  \/ IdleReturns \/ ReadMailbox \/ Fetch \/ UidStore \/ Expunge \/ WorkerFinish
  \/ Abandon
Server == Arrive \/ Announce \/ OtherUpdate
User   == Consume \/ (\E u \in held : Ack(u)) \/ Close \/ HasQuit \/ CloseReturn

Next == Run \/ Worker \/ Server \/ User \/ Closed
Spec == Init /\ [][Next]_vars

(***************************************************************************)
(* Fairness.  Go's select chooses at random among the arms that are ready, *)
(* so an arm that is ready again and again is taken; a goroutine that can  *)
(* run does; the timer fires when nothing else happens; the user goes on   *)
(* taking and acknowledging messages; the server reports new mail.  Faults *)
(* and Close are never forced, nor is the answer to the last Logout while  *)
(* the updates channel is full.                                            *)
(***************************************************************************)
RcvFairness ==
  /\ SF_vars(RecvUpdate) /\ SF_vars(RecvAck)
  /\ SF_vars(RecvOp \/ RecvFetchResult \/ \E r \in stored : RecvDeleteResult(r))
  /\ WF_vars(Timeout)
  /\ WF_vars((\E m \in fetched : Deliver(m)) \/ DeliverDone \/ Signal)
  /\ WF_vars(/\ wantStopIdle \/ worker # "idle"
             /\ Worker)
  /\ SF_vars(news /\ Announce)

Fairness ==
  /\ RcvFairness
  /\ SF_vars(RecvQuit)
  /\ WF_vars(Consume)
  /\ SF_vars(\E u \in held : Ack(u))
  /\ WF_vars(HasQuit)
  /\ WF_vars(Len(updates) < UpdCap /\ CloseReturn)

FairSpec == Spec /\ Fairness

-----------------------------------------------------------------------------
LoopType ==
  /\ rstate \in {StateNone, StateInIDLE, StateInFetch, StateInDelete}
  /\ runPc \in {"select", "deliver", "signal", "exited", "panic"}
  /\ wantQuit \in BOOLEAN /\ wantFetch \in BOOLEAN
  /\ wantDelete \in BOOLEAN /\ wantStopIdle \in BOOLEAN
  /\ nextToProcess \subseteq UID
  /\ messages \in [UID -> {Absent, StateUnacked, StateAcked, StateDeleted}]
  /\ seqNum \in [UID -> Nat]
JobType ==
  /\ worker \in WorkerPcs
  /\ fetched \subseteq UID \X Nat
  /\ existing \subseteq Nat /\ seqset \subseteq Nat
  /\ toProcess \subseteq UID
  /\ stored \subseteq UID \X {StateAcked, StateDeleted}
ChanType ==
  /\ opChan \in FinishOps \cup {OperationNone, Empty}
  /\ updates \in Seq({"mailbox", "other"}) /\ Len(updates) <= UpdCap
  /\ out \in Seq(UID) /\ Len(out) <= OutCap
  /\ ackChannel \in Seq(UID \X BOOLEAN) /\ Len(ackChannel) <= FetchBufferSize
  /\ quitChan \in BOOLEAN
  /\ closer \in {"open", "waiting", "logout", "closed"}
SrvType ==
  /\ arrived \in 0..MaxUid
  /\ mailbox \subseteq 1..arrived
  /\ flagged \subseteq mailbox
  /\ exists \in Nat
  /\ news \in BOOLEAN
  /\ faults \in 0..MaxFaults
EnvType ==
  /\ held \subseteq UID
  /\ ackedOk \subseteq UID
  /\ delivered \in [UID -> Nat]

(* Type invariant: in particular no channel of the receiver ever holds     *)
(* more than its capacity.                                                 *)
TypeOK == LoopType /\ JobType /\ ChanType /\ SrvType /\ EnvType

(* No interleaving of results, operations and quits makes the loop panic:  *)
(* the Panic calls of run ("receiver_fetch_outside_fetch",                 *)
(* "receiver_delete_outside_delete", "invalid_operation_for_state").       *)
NoPanic == runPc # "panic"

(* run is the only reader of opChan and also sends to it: were the one     *)
(* place taken when it does, it would wait for itself for ever.            *)
SignalNeverBlocks == runPc = "signal" => opChan = Empty

(* A goroutine is started only when the previous one has ended and its     *)
(* last operation has been received, so IDLE, FETCH and STORE/EXPUNGE never *)
(* overlap on the connection.                                              *)
OneGoroutineAtATime ==
  [][worker' \in {"idle", "mailbox", "uidStore"} /\ worker' # worker
       => worker = "none" /\ opChan \notin FinishOps]_vars

(* The channel handed to Idle is open when the IDLE starts: a stop request *)
(* belongs to the IDLE it was made in and never leaks into the next.       *)
StopChannelFresh == wantStopIdle => rstate = StateInIDLE

(* A message is marked or removed at the source only after its user has    *)
(* acknowledged it without an error, however the calls fail or interleave. *)
RemovedOnlyAcked == ((1..arrived) \ mailbox) \cup flagged \subseteq ackedOk

(* With DisableDeletions nothing is ever marked or removed at the source   *)
(* (receiver/types.go: "solely as a data-loss prevention measure").        *)
DisabledRemovesNothing ==
  DisableDeletions => mailbox = 1..arrived /\ flagged = {}

(* While no call fails, no message is sent out twice: between a delete     *)
(* result, the EXPUNGE and the next FETCH no window re-reads the message.  *)
NoDuplicateDelivery == faults = 0 => \A u \in UID : delivered[u] <= 1

(* While no call fails, every acknowledged message the loop knows is on    *)
(* its way to be deleted: queued, with the goroutine, or in its results.   *)
AckedIsQueued ==
  faults = 0 /\ ~wantQuit =>
    \A u \in UID : messages[u] = StateAcked =>
       u \in nextToProcess \cup toProcess \cup {r[1] : r \in stored}

(* Acknowledged messages never wait without a delete being requested, and  *)
(* the loop does not leave before the deletes it knows of were attempted   *)
(* and its last goroutine has ended.                                       *)
QueuedIsRequested == nextToProcess # {} /\ ~DisableDeletions => wantDelete
ExitQuiescent ==
  runPc = "exited" =>
    /\ worker = "none" /\ opChan \notin FinishOps
    /\ ~DisableDeletions => nextToProcess = {}

(* The receiver as its user sees it.  A message stays tracked until it has *)
(* left the mailbox; the \Deleted flag stands for the acknowledgement once *)
(* the entry in mr.messages is gone.                                       *)
port ==
  [exited  |-> runPc = "exited",
   pending |-> IF runPc = "deliver" THEN {m[1] : m \in fetched} ELSE {},
   tracked |-> {u \in UID : messages[u] # Absent} \cup flagged,
   done    |-> {u \in UID : messages[u] = StateAcked} \cup flagged
                 \cup ((1..arrived) \ mailbox),
   box |-> mailbox, out |-> out, acks |-> ackChannel, quit |-> closer # "open"]

Promise == INSTANCE MailReceiver

(* The receiver keeps the promise of MailReceiver: what it sends out is    *)
(* still in the mailbox and not with its user already, unless a call       *)
(* failed and the user had acknowledged it; it removes only what was       *)
(* acknowledged; it leaves only when asked to.                             *)
KeepsPromise ==
  /\ port = Promise!NewState(mailbox)
  /\ [][\/ port' \in Promise!Works(port, faults > 0 \/ wantQuit)
        \/ port' \in Promise!Used(port, UID)]_port

(* Every message in the source mailbox is sent out, unless Close is called *)
(* first (README.md: messages are moved automatically).                    *)
ArrivalDelivered ==
  \A u \in UID : (u \in mailbox /\ delivered[u] = 0)
                   ~> (delivered[u] > 0 \/ closer # "open")

(* An acknowledged message is removed from the source, unless Close is     *)
(* called first (receiver/types.go, Client.Ack).                           *)
AckedEventuallyExpunged ==
  \A u \in UID : u \in ackedOk ~> (u \notin mailbox \/ closer # "open")

(* Close returns from every state of the loop and its goroutine, unless    *)
(* the client it has told to quit abandons the goroutine's call, or the    *)
(* last Logout waits behind an updates channel that nobody reads any more. *)
(* Nothing on the receiver's own side, no flag, operation or result left   *)
(* over, holds it up.                                                      *)
CloseReturns ==
  closer = "waiting" ~>
    \/ closer = "closed"
    \/ worker = "abandoned"
    \/ closer = "logout" /\ Len(updates) = UpdCap
=============================================================================
