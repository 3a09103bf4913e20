------------------------------ MODULE MailPump ------------------------------
(***************************************************************************)
(* The pump (pump/, cmd/run): the receiver, the ingest client that appends *)
(* to the destination, the tick loop that joins them, the shutdown that a  *)
(* signal starts, and crashes of the process.  The receiver's user of      *)
(* module Receiver is replaced by the tick loop.                           *)
(***************************************************************************)
EXTENDS Receiver

CONSTANTS
  IngestCap,     \* capacity of pump.ingestChannel
  MaxCrashes,    \* bound: crashes of the process
  MayStop        \* bound: is the process ever asked to stop?

ASSUME PumpAssumption ==
  /\ IngestCap \in Nat \ {0}
  /\ MaxCrashes \in Nat
  /\ MayStop \in BOOLEAN

VARIABLES
  tickPc,        \* tick: select, ingest (in IngestMessage), ack (in Ack), done
  tickMsg,       \* tick: the message or response it is handling
  ingestPc,      \* ingestClient.run: select, append, reply, closed
  ingestReq,     \* ingestClient.run: its request, then its response
  ingestChannel, \* pump.ingestChannel: <<uid, no error>> pairs
  ingestQuit,    \* ingest.wantQuit has been closed
  stopChan,      \* cmd/run has closed stopChan
  dest,          \* UID -> copies in the destination mailbox
  crashes        \* crashes so far

procVars == <<tickPc, tickMsg, ingestPc, ingestReq, ingestChannel, ingestQuit, stopChan>>
pumpVars == <<procVars, dest, crashes>>
allVars  == <<vars, pumpVars>>

None == <<>>     \* no message, request or response

ProcInit ==
  /\ tickPc = "select" /\ tickMsg = None
  /\ ingestPc = "select" /\ ingestReq = None
  /\ ingestChannel = <<>>
  /\ ingestQuit = FALSE /\ stopChan = FALSE

PumpInit ==
  /\ Init
  /\ ProcInit
  /\ dest = [u \in UID |-> 0]
  /\ crashes = 0

(***************************************************************************)
(* tick                                                                    *)
(***************************************************************************)
TickIncoming ==
  /\ tickPc = "select" /\ out # <<>>
  /\ tickPc' = "ingest"
  /\ tickMsg' = <<Head(out), TRUE>>
  /\ out' = Tail(out)
  /\ UNCHANGED <<loopVars, jobVars, opChan, updates, ackChannel, quitChan, closer,
                 srvVars, envVars, ingestPc, ingestReq, ingestChannel, ingestQuit,
                 stopChan, dest, crashes>>

\* IngestMessage: incoming is unbuffered, so the send is a handover.  Its
\* early return for a client that is shut down is not reached from tick.
IngestMessage ==
  /\ tickPc = "ingest" /\ ingestPc = "select"
  /\ tickPc' = "select" /\ tickMsg' = None
  /\ ingestPc' = "append" /\ ingestReq' = tickMsg
  /\ UNCHANGED <<vars, ingestChannel, ingestQuit, stopChan, dest, crashes>>

\* mutant: the response is dropped
TickResponseDropped ==
  /\ tickPc = "select" /\ ingestChannel # <<>>
  /\ ingestChannel' = Tail(ingestChannel)
  /\ UNCHANGED <<vars, tickPc, tickMsg, ingestPc, ingestReq, ingestQuit, stopChan,
                 dest, crashes>>

TickResponse ==
  /\ tickPc = "select" /\ ingestChannel # <<>>
  /\ tickPc' = "ack"
  /\ tickMsg' = Head(ingestChannel)
  /\ ingestChannel' = Tail(ingestChannel)
  /\ UNCHANGED <<vars, ingestPc, ingestReq, ingestQuit, stopChan, dest, crashes>>

\* mutant: r.Error is not handed on
NoErrorIgnored(r) == TRUE
NoError(r) == r[2]

\* receiver.Ack(r.UID, r.Error)
TickAck ==
  /\ tickPc = "ack" /\ Len(ackChannel) < FetchBufferSize
  /\ tickPc' = "select" /\ tickMsg' = None
  /\ ackChannel' = Append(ackChannel, <<tickMsg[1], NoError(tickMsg)>>)
  /\ ackedOk' = IF NoError(tickMsg) THEN ackedOk \cup {tickMsg[1]} ELSE ackedOk
  /\ UNCHANGED <<loopVars, jobVars, opChan, updates, out, quitChan, closer, srvVars,
                 held, delivered, ingestPc, ingestReq, ingestChannel, ingestQuit,
                 stopChan, dest, crashes>>

\* tick returns, DoneChan ends the loop of cmd/run, and Close is called
TickStop ==
  /\ tickPc = "select" /\ stopChan
  /\ tickPc' = "done"
  /\ UNCHANGED <<vars, tickMsg, ingestPc, ingestReq, ingestChannel, ingestQuit,
                 stopChan, dest, crashes>>

(***************************************************************************)
(* The ingest client                                                       *)
(***************************************************************************)
\* mutant: a failed Append is answered like one that succeeded
AppendAnswerLost(stores, ok) == TRUE
\* client.Append: it may fail before or after the message was stored
AppendAnswer(stores, ok) == ok => stores

\* mutant: does not wait for room in the channel
RoomAlways == TRUE
Room == Len(ingestChannel) < IngestCap

IngestAppend ==
  /\ ingestPc = "append"
  /\ ingestPc' = "reply"
  /\ \E stores, ok \in BOOLEAN :
       /\ AppendAnswer(stores, ok)
       /\ dest' = IF stores THEN [dest EXCEPT ![ingestReq[1]] = @ + 1] ELSE dest
       /\ ingestReq' = <<ingestReq[1], ok>>
       /\ \/ ok /\ UNCHANGED faults
          \/ ~ok /\ faults < MaxFaults /\ faults' = faults + 1
  /\ UNCHANGED <<rcvVars, mailbox, flagged, arrived, exists, news, envVars, tickPc,
                 tickMsg, ingestChannel, ingestQuit, stopChan, crashes>>

IngestReply ==
  /\ ingestPc = "reply" /\ Room
  /\ ingestChannel' = Append(ingestChannel, ingestReq)
  /\ ingestPc' = "select" /\ ingestReq' = None
  /\ UNCHANGED <<vars, tickPc, tickMsg, ingestQuit, stopChan, dest, crashes>>

\* run leaves, drains incoming and logs out
IngestExit ==
  /\ ingestPc = "select" /\ ingestQuit
  /\ ingestPc' = "closed"
  /\ UNCHANGED <<vars, tickPc, tickMsg, ingestReq, ingestChannel, ingestQuit,
                 stopChan, dest, crashes>>

(***************************************************************************)
(* cmd/run: the first signal closes stopChan; once tick has returned the   *)
(* receiver and the ingest client are closed side by side.                 *)
(***************************************************************************)
Interrupt1 ==
  /\ MayStop /\ ~stopChan
  /\ stopChan' = TRUE
  /\ UNCHANGED <<vars, tickPc, tickMsg, ingestPc, ingestReq, ingestChannel,
                 ingestQuit, dest, crashes>>

CloseReceiver ==
  tickPc = "done" /\ (Close \/ HasQuit \/ CloseReturn) /\ UNCHANGED pumpVars

CloseIngest ==
  /\ tickPc = "done" /\ ~ingestQuit
  /\ ingestQuit' = TRUE
  /\ UNCHANGED <<vars, tickPc, tickMsg, ingestPc, ingestReq, ingestChannel,
                 stopChan, dest, crashes>>

Terminated == closer = "closed" /\ ingestPc = "closed"
Stopped == Terminated /\ UNCHANGED allVars

\* The process dies (a second signal, a panic, a power cut) and is started
\* again: the mailboxes remain.
Crash ==
  /\ crashes < MaxCrashes
  /\ crashes' = crashes + 1
  /\ rstate' = StateNone /\ runPc' = "select"
  /\ wantQuit' = FALSE /\ wantFetch' = FALSE
  /\ wantDelete' = FALSE /\ wantStopIdle' = FALSE
  /\ nextToProcess' = {}
  /\ messages' = [u \in UID |-> Absent] /\ seqNum' = [u \in UID |-> 0]
  /\ worker' = "none" /\ fetched' = {}
  /\ existing' = {} /\ seqset' = {} /\ toProcess' = {} /\ stored' = {}
  /\ opChan' = Empty /\ updates' = <<>> /\ out' = <<>> /\ ackChannel' = <<>>
  /\ quitChan' = FALSE /\ closer' = "open"
  /\ exists' = 0 /\ news' = TRUE
  /\ tickPc' = "select" /\ tickMsg' = None
  /\ ingestPc' = "select" /\ ingestReq' = None /\ ingestChannel' = <<>>
  /\ ingestQuit' = FALSE /\ stopChan' = FALSE
  /\ held' = {} /\ delivered' = [u \in UID |-> 0]
  /\ UNCHANGED <<mailbox, flagged, arrived, faults, ackedOk, dest>>

Receiving == (Run \/ Worker \/ Server) /\ UNCHANGED pumpVars

TickLoop == TickIncoming \/ IngestMessage \/ TickResponse \/ TickAck \/ TickStop
Ingest   == IngestAppend \/ IngestReply \/ IngestExit
Main     == Interrupt1 \/ CloseReceiver \/ CloseIngest

PumpNext == Receiving \/ TickLoop \/ Ingest \/ Main \/ Crash \/ Stopped
PumpSpec == PumpInit /\ [][PumpNext]_allVars

\* select is random, blocked senders are served in order, goroutines that can
\* run do; signals, faults and crashes are never forced.  Mail moves whether
\* or not the pump reacts to a stop request.
MoveFairness ==
  /\ RcvFairness
  /\ SF_allVars(TickIncoming) /\ SF_allVars(TickResponse)
  /\ WF_allVars(IngestMessage \/ TickAck) /\ WF_allVars(Ingest)

StopFairness ==
  /\ SF_allVars(TickStop) /\ SF_vars(RecvQuit)
  /\ WF_allVars(CloseReceiver \/ CloseIngest)

MoveSpec     == PumpSpec /\ MoveFairness
FairPumpSpec == MoveSpec /\ StopFairness

-----------------------------------------------------------------------------
(* Type invariant: ingestChannel never holds more than its capacity, and   *)
(* the tick loop and the ingest client hold a message exactly while they   *)
(* are handling one.                                                       *)
PumpTypeOK ==
  /\ tickPc \in {"select", "ingest", "ack", "done"}
  /\ tickMsg \in {None} \cup (UID \X BOOLEAN)
  /\ tickMsg # None <=> tickPc \in {"ingest", "ack"}
  /\ ingestPc \in {"select", "append", "reply", "closed"}
  /\ ingestReq \in {None} \cup (UID \X BOOLEAN)
  /\ ingestReq # None <=> ingestPc \in {"append", "reply"}
  /\ ingestChannel \in Seq(UID \X BOOLEAN) /\ Len(ingestChannel) <= IngestCap
  /\ ingestQuit \in BOOLEAN /\ stopChan \in BOOLEAN
  /\ dest \in [UID -> Nat]
  /\ crashes \in 0..MaxCrashes

(* Copy before remove: whatever fails, and wherever the process dies, a    *)
(* message marked or removed at the source is at the destination.          *)
NoMailLost == \A u \in ((1..arrived) \ mailbox) \cup flagged : dest[u] > 0

(* While nothing fails and the process does not die, a message is copied   *)
(* to the destination once.                                                *)
CopiedOnce == faults = 0 /\ crashes = 0 => \A u \in UID : dest[u] <= 1

(* The pump moves mail as MoveMail says: it implements that specification. *)
Move == INSTANCE MoveMail WITH Messages <- UID, source <- mailbox
MovesMail == Move!Spec

(* Messages move: one that is in the source mailbox leaves it, unless the  *)
(* pump is stopped (README.md).                                            *)
MessagesMove == \A u \in UID : u \in mailbox ~> (u \notin mailbox \/ stopChan)

(* A stop request ends the process: tick returns, both clients close.  An  *)
(* IMAP client that abandons the call it is in is another matter, see      *)
(* ShutdownReleases of PersistentClient.                                   *)
ShutdownCompletes == stopChan ~> (Terminated \/ worker = "abandoned")

(* No two of tick, the ingest client and the receiver wait for each other: *)
(* tick in IngestMessage while the client waits for room in ingestChannel, *)
(* which only tick empties; tick in Ack while the receiver's loop waits    *)
(* for room in out, which only tick empties.                               *)
NoWaitCycle ==
  /\ ~(tickPc = "ingest" /\ ingestPc = "reply" /\ Len(ingestChannel) = IngestCap)
  /\ ~(/\ tickPc = "ack" /\ Len(ackChannel) = FetchBufferSize
       /\ runPc = "deliver" /\ fetched # {} /\ Len(out) = OutCap)
=============================================================================
