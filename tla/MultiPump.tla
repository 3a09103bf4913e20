------------------------------ MODULE MultiPump -----------------------------
(***************************************************************************)
(* The many-to-one pump (multipump/, cmd/run-multi): several receivers,    *)
(* one ingest client (ingest/) and one tick loop between them; how they    *)
(* are started from a configuration, and how a failed start and a stop     *)
(* request take them down.  The receivers are those of MailReceiver.       *)
(***************************************************************************)
EXTENDS MailReceiver

CONSTANTS
  Sources,         \* the names in cfg.Sources, a map
  Target,          \* source -> its target_mailbox
  Backlog,         \* source -> the UIDs in its mailbox; UIDs repeat between sources
  IngestCap,       \* capacity of an ingestChannel
  MaxFaults        \* bound: failed Appends, and steps of receivers that a failed call allows

ASSUME MultiAssumption ==
  /\ IsFiniteSet(Sources) /\ Sources # {}
  /\ Backlog \in [Sources -> SUBSET Nat]
  /\ DOMAIN Target = Sources
  /\ FetchBufferSize \in Nat \ {0} /\ OutCap \in Nat \ {0} /\ IngestCap \in Nat \ {0}
  /\ MaxFaults \in Nat

N         == Cardinality(Sources)
Index     == 1..N
Mailboxes == {Target[s] : s \in Sources}
UIDs      == UNION {Backlog[s] : s \in Sources}

VARIABLES
  main,            \* cmd/run-multi and NewPump: where they are
  ResolvedSources, \* cfg.ResolvedSources: a sequence of sources
  targetMailboxes, \* pump.targetMailboxes: a sequence of mailboxes
  receivers,       \* pump.receivers: the MailReceiver states made so far, a sequence
  stopChan,        \* closed by the first signal
  abandoned,       \* the receivers whose client does not end their last call
  tickPc,          \* tick: off, select, check, send (both in IngestMessage), ack, done, panic
  tickMsg,         \* tick: <<index, uid, no error>>
  ingestPc,        \* ingestClient.run: off, select, append, reply, drain, refuse, closed
  ingestReq,       \* ingestClient.run: <<index, uid, no error>>
  ingestChannels,  \* index -> <<uid, no error>> pairs
  ingestQuit,      \* ingest.wantQuit is closed
  dest,            \* <<mailbox, source, uid>> -> copies at the destination
  faults           \* faults so far

cfgVars  == <<ResolvedSources, targetMailboxes>>
stopVars == <<stopChan, abandoned>>
tickVars == <<tickPc, tickMsg>>
ingVars  == <<ingestPc, ingestReq, ingestQuit, dest, faults>>
multiVars == <<main, cfgVars, receivers, stopVars, tickVars, ingVars, ingestChannels>>

None == <<>>

Init ==
  /\ main = "resolve"
  /\ ResolvedSources = <<>> /\ targetMailboxes = <<>>
  /\ receivers = <<>>
  /\ stopChan = FALSE /\ abandoned = {}
  /\ tickPc = "off" /\ tickMsg = None
  /\ ingestPc = "off" /\ ingestReq = None /\ ingestQuit = FALSE
  /\ ingestChannels = [i \in Index |-> <<>>]
  /\ dest = [d \in Mailboxes \X Sources \X UIDs |-> 0]
  /\ faults = 0

\* the orders in which range may yield a map of sources
Orders == {o \in [Index -> Sources] : \A i, j \in Index : o[i] = o[j] => i = j}

(***************************************************************************)
(* cmd/run-multi and NewPump                                               *)
(***************************************************************************)
\* Configuration.Resolve: one iteration over the map; it may find an error
Resolve ==
  /\ main = "resolve"
  /\ \/ /\ ResolvedSources' \in Orders
        /\ main' = "run"
     \/ main' = "failed" /\ UNCHANGED ResolvedSources
  /\ UNCHANGED <<targetMailboxes, receivers, stopVars, tickVars, ingVars, ingestChannels>>

\* run: another iteration over the same map
Run ==
  /\ main = "run"
  /\ \E o \in Orders : targetMailboxes' = [i \in Index |-> Target[o[i]]]
  /\ main' = "newIngest"
  /\ UNCHANGED <<ResolvedSources, receivers, stopVars, tickVars, ingVars, ingestChannels>>

\* ingest.NewClient; a failure leaves nothing to be closed
NewIngest ==
  /\ main = "newIngest"
  /\ \/ main' = "newReceivers" /\ ingestPc' = "select"
     \/ main' = "failed" /\ UNCHANGED ingestPc
  /\ UNCHANGED <<cfgVars, receivers, stopVars, tickVars, ingestReq, ingestQuit, dest,
                 faults, ingestChannels>>

\* makeReceivers: each receiver works as soon as it has been made
NewReceiver ==
  /\ main = "newReceivers" /\ Len(receivers) < N
  /\ \/ /\ receivers' = Append(receivers,
                               NewState(Backlog[ResolvedSources[Len(receivers) + 1]]))
        /\ UNCHANGED main
     \/ main' = "abort" /\ UNCHANGED receivers
  /\ UNCHANGED <<cfgVars, stopVars, tickVars, ingVars, ingestChannels>>

StartTick ==
  /\ main = "newReceivers" /\ Len(receivers) = N
  /\ main' = "running"
  /\ tickPc' = "select"
  /\ UNCHANGED <<cfgVars, receivers, stopVars, tickMsg, ingVars, ingestChannels>>

Interrupt1 ==
  /\ main = "running" /\ ~stopChan
  /\ stopChan' = TRUE
  /\ UNCHANGED <<main, cfgVars, receivers, abandoned, tickVars, ingVars, ingestChannels>>

\* mutant: the pump is closed on the signal, not when tick has returned
TickReturnedOrStop == tickPc = "done" \/ stopChan
TickReturned == tickPc = "done"

\* doneChan is received and the deferred Close starts
Done ==
  /\ main = "running" /\ TickReturned
  /\ main' = "close"
  /\ UNCHANGED <<cfgVars, receivers, stopVars, tickVars, ingVars, ingestChannels>>

\* closeAndWait: the receivers side by side, then the ingest client
CloseReceiver(i) ==
  /\ main \in {"abort", "close"} /\ ~receivers[i].quit
  /\ \E q \in Closes(receivers[i]) : receivers' = [receivers EXCEPT ![i] = q]
  /\ UNCHANGED <<main, cfgVars, stopVars, tickVars, ingVars, ingestChannels>>

\* mutant: does not wait for the receivers it has closed
AllExitedNoWait == \A i \in DOMAIN receivers : receivers[i].quit
AllExited == \A i \in DOMAIN receivers : receivers[i].exited

CloseIngest ==
  /\ main \in {"abort", "close"} /\ AllExited
  /\ main' = IF main = "abort" THEN "abortIngest" ELSE "closeIngest"
  /\ ingestQuit' = TRUE
  /\ UNCHANGED <<cfgVars, receivers, stopVars, tickVars, ingestPc, ingestReq, dest,
                 faults, ingestChannels>>

CloseReturns ==
  /\ main \in {"abortIngest", "closeIngest"} /\ ingestPc = "closed"
  /\ main' = IF main = "abortIngest" THEN "failed" ELSE "terminated"
  /\ UNCHANGED <<cfgVars, receivers, stopVars, tickVars, ingVars, ingestChannels>>

\* the second signal: os.Exit(1)
Interrupt2 ==
  /\ main = "running" /\ stopChan
  /\ main' = "killed"
  /\ UNCHANGED <<cfgVars, receivers, stopVars, tickVars, ingVars, ingestChannels>>

Alive == main \notin {"failed", "terminated", "killed"}
Ended == ~Alive /\ UNCHANGED multiVars

Start == Resolve \/ Run \/ NewIngest \/ NewReceiver \/ StartTick
Close == Done \/ (\E i \in DOMAIN receivers : CloseReceiver(i)) \/ CloseIngest \/ CloseReturns

(***************************************************************************)
(* The receivers                                                           *)
(***************************************************************************)
Becomes(i, states) ==
  /\ \E q \in states : receivers' = [receivers EXCEPT ![i] = q]
  /\ UNCHANGED <<main, cfgVars, stopVars, tickVars, ingestPc, ingestReq, ingestQuit, dest,
                 ingestChannels>>

\* A step that the receiver takes only after a failed call is counted as a
\* fault, unless the receiver is quitting: its calls may fail then.
Counted(i, failed) ==
  IF failed /\ ~receivers[i].quit THEN faults < MaxFaults /\ faults' = faults + 1
                                  ELSE UNCHANGED faults

Fetch(i) ==
  /\ i \notin abandoned
  /\ \E failed \in BOOLEAN :
       /\ Counted(i, failed)
       /\ Becomes(i, {q \in Fetches(receivers[i], failed) : q.pending # {}})
Remove(i) ==
  /\ i \notin abandoned
  /\ \E failed \in BOOLEAN :
       /\ Counted(i, failed)
       /\ Becomes(i, {q \in Removes(receivers[i], failed) : q.box # receivers[i].box})
Send(i) == Becomes(i, Delivers(receivers[i])) /\ UNCHANGED faults
Read(i) == Becomes(i, ReadsAck(receivers[i])) /\ UNCHANGED faults
Exit(i) == i \notin abandoned /\ Becomes(i, Exits(receivers[i])) /\ UNCHANGED faults

\* A call that the loop of a quitting receiver waits for, or the Logout of
\* Close, does not come back (Abandon and CloseReturn of Receiver).
Abandon(i) ==
  /\ receivers[i].quit /\ AtSelect(receivers[i]) /\ i \notin abandoned
  /\ abandoned' = abandoned \cup {i}
  /\ UNCHANGED <<main, cfgVars, receivers, stopChan, tickVars, ingVars, ingestChannels>>

Receiving(i) == Fetch(i) \/ Send(i) \/ Read(i) \/ Remove(i) \/ Exit(i) \/ Abandon(i)

(***************************************************************************)
(* tick.  reflect.Select chooses among the cases that are ready.           *)
(***************************************************************************)
TickIncoming(i) ==
  /\ tickPc = "select" /\ receivers[i].out # <<>>
  /\ tickPc' = "check"
  /\ tickMsg' = <<i, Head(receivers[i].out), FALSE>>
  /\ \E q \in Takes(receivers[i]) : receivers' = [receivers EXCEPT ![i] = q]
  /\ UNCHANGED <<main, cfgVars, stopVars, ingVars, ingestChannels>>

\* isShutdown: read before the send.  A refusal is acknowledged as an error.
Shutdown == ingestPc \in {"drain", "refuse", "closed"}
IngestCheck ==
  /\ tickPc = "check"
  /\ tickPc' = IF Shutdown THEN "ack" ELSE "send"
  /\ UNCHANGED <<main, cfgVars, receivers, stopVars, tickMsg, ingVars, ingestChannels>>

\* incoming is unbuffered: run or drain takes the request.  A send on the
\* channel that drain has closed panics.
IngestSend ==
  /\ tickPc = "send" /\ ingestPc \in {"select", "drain", "closed"}
  /\ tickPc' = IF ingestPc = "closed" THEN "panic" ELSE "select"
  /\ tickMsg' = None
  /\ ingestPc' = CASE ingestPc = "select" -> "append"
                   [] ingestPc = "drain"  -> "refuse"
                   [] ingestPc = "closed" -> "closed"
  /\ ingestReq' = IF ingestPc = "closed" THEN None ELSE tickMsg
  /\ UNCHANGED <<main, cfgVars, receivers, stopVars, ingestQuit, dest, faults,
                 ingestChannels>>

\* mutant: every response is acknowledged to the first receiver
ReceiverIndexFirst(i) == 1
\* receiverIndex = chosen - ingestBaseOffset
ReceiverIndex(i) == i

\* mutant: an error is acknowledged as a success
TickResponseNoErrors(i) ==
  /\ tickPc = "select" /\ ingestChannels[i] # <<>>
  /\ tickPc' = "ack" /\ tickMsg' = <<ReceiverIndex(i), Head(ingestChannels[i])[1], TRUE>>
  /\ ingestChannels' = [ingestChannels EXCEPT ![i] = Tail(@)]
  /\ UNCHANGED <<main, cfgVars, receivers, stopVars, ingVars>>
TickResponse(i) ==
  /\ tickPc = "select" /\ ingestChannels[i] # <<>>
  /\ tickPc' = "ack"
  /\ LET r == Head(ingestChannels[i])
     IN  tickMsg' = <<ReceiverIndex(i), r[1], r[2]>>
  /\ ingestChannels' = [ingestChannels EXCEPT ![i] = Tail(@)]
  /\ UNCHANGED <<main, cfgVars, receivers, stopVars, ingVars>>

TickAck ==
  /\ tickPc = "ack"
  /\ tickPc' = "select" /\ tickMsg' = None
  /\ \E q \in Acks(receivers[tickMsg[1]], tickMsg[2], tickMsg[3]) :
       receivers' = [receivers EXCEPT ![tickMsg[1]] = q]
  /\ UNCHANGED <<main, cfgVars, stopVars, ingVars, ingestChannels>>

\* mutant: the break leaves the select and not the loop
TickStopStays ==
  /\ tickPc = "select" /\ stopChan
  /\ UNCHANGED multiVars
TickStop ==
  /\ tickPc = "select" /\ stopChan
  /\ tickPc' = "done"
  /\ UNCHANGED <<main, cfgVars, receivers, stopVars, tickMsg, ingVars, ingestChannels>>

Tick ==
  \/ \E i \in DOMAIN receivers : TickIncoming(i) \/ TickResponse(i)
  \/ IngestCheck \/ IngestSend \/ TickAck \/ TickStop

(***************************************************************************)
(* The ingest client                                                       *)
(***************************************************************************)
\* client.Append: a failure may come before or after the message was stored
IngestAppend ==
  /\ ingestPc = "append"
  /\ ingestPc' = "reply"
  /\ \E stores, ok \in BOOLEAN :
       /\ ok => stores
       /\ faults' = IF ok THEN faults ELSE faults + 1
       /\ faults' <= MaxFaults
       /\ ingestReq' = <<ingestReq[1], ingestReq[2], ok>>
       /\ LET copy == <<targetMailboxes[ingestReq[1]], ResolvedSources[ingestReq[1]],
                        ingestReq[2]>>
          IN  dest' = IF stores THEN [dest EXCEPT ![copy] = @ + 1] ELSE dest
  /\ UNCHANGED <<main, cfgVars, receivers, stopVars, tickVars, ingestQuit,
                 ingestChannels>>

\* mutant: does not wait for room in the channel
RoomAlways(i) == TRUE
Room(i) == Len(ingestChannels[i]) < IngestCap

\* req.ch <- Response, by run or by drain, whose answer is errConnectionClosed
IngestReply ==
  /\ ingestPc \in {"reply", "refuse"} /\ Room(ingestReq[1])
  /\ ingestChannels' =
       [ingestChannels EXCEPT ![ingestReq[1]] = Append(@, <<ingestReq[2], ingestReq[3]>>)]
  /\ ingestPc' = IF ingestPc = "reply" THEN "select" ELSE "drain"
  /\ ingestReq' = None
  /\ UNCHANGED <<main, cfgVars, receivers, stopVars, tickVars, ingestQuit, dest, faults>>

IngestQuit ==
  /\ ingestPc = "select" /\ ingestQuit
  /\ ingestPc' = "drain"
  /\ UNCHANGED <<main, cfgVars, receivers, stopVars, tickVars, ingestReq, ingestQuit,
                 dest, faults, ingestChannels>>

\* drain found no sender waiting, though one may be about to: it closes
\* incoming, and run logs out
IngestClosed ==
  /\ ingestPc = "drain"
  /\ ingestPc' = "closed"
  /\ UNCHANGED <<main, cfgVars, receivers, stopVars, tickVars, ingestReq, ingestQuit,
                 dest, faults, ingestChannels>>

Ingest == IngestAppend \/ IngestReply \/ IngestQuit \/ IngestClosed

Signal == Interrupt1 \/ Interrupt2

Next ==
  \/ Alive /\ (Start \/ Signal \/ Close \/ Tick \/ Ingest)
  \/ Alive /\ \E i \in DOMAIN receivers : Receiving(i)
  \/ Ended

Spec == Init /\ [][Next]_multiVars

\* A goroutine that can run does.  With a backlog that is never refilled no
\* more is needed of the random select; a signal is never forced.
FairSpec ==
  /\ Spec
  /\ WF_multiVars(Start \/ Close)
  /\ WF_multiVars(Alive /\ Tick)
  /\ WF_multiVars(Alive /\ Ingest)
  /\ \A i \in Index : WF_multiVars(Alive /\ i \in DOMAIN receivers /\ Receiving(i))

-----------------------------------------------------------------------------
Message == Index \X UIDs \X BOOLEAN

(* Type invariant: no channel of the pump ever holds more than its         *)
(* capacity, and tick and the ingest client hold a message exactly while   *)
(* they are handling one.                                                  *)
MultiTypeOK ==
  /\ Len(receivers) <= N
  /\ \A i \in DOMAIN receivers :
       /\ receivers[i].exited => receivers[i].quit
       /\ Len(receivers[i].out) <= OutCap /\ Len(receivers[i].acks) <= FetchBufferSize
  /\ tickMsg \in Message \cup {None}
  /\ tickMsg # None <=> tickPc \in {"check", "send", "ack"}
  /\ ingestReq \in Message \cup {None}
  /\ ingestReq # None <=> ingestPc \in {"append", "reply", "refuse"}
  /\ \A i \in Index : Len(ingestChannels[i]) <= IngestCap
  /\ dest \in [Mailboxes \X Sources \X UIDs -> Nat]
  /\ abandoned \subseteq Index

(* A message is a source and a UID; the mailbox of a source, and the       *)
(* copies made of a message wherever they went, the k-th one in mailbox b  *)
(* being <<b, k>>.                                                         *)
Mail == {m \in Sources \X UIDs : m[2] \in Backlog[m[1]]}
Box(s) ==
  IF \E i \in DOMAIN receivers : ResolvedSources[i] = s
    THEN receivers[CHOOSE i \in DOMAIN receivers : ResolvedSources[i] = s].box
    ELSE Backlog[s]
Copies(m) == UNION {{b} \X (1..dest[<<b, m[1], m[2]>>]) : b \in Mailboxes}

(* The mail of every source is moved as MoveMail says, although sources    *)
(* share UIDs and one ingest client: a response acknowledged to the wrong  *)
(* receiver would remove a message of which there is no copy.              *)
Move == INSTANCE MoveMail WITH Messages <- Mail,
                               source <- {m \in Mail : m[2] \in Box(m[1])},
                               dest <- [m \in Mail |-> Cardinality(Copies(m))]
MovesEachSource == Move!Spec

(* Copy before remove, for every source: whatever is gone from the mailbox *)
(* of a source was copied under that source, not only another source's     *)
(* message of the same UID.                                                *)
NoSourceLosesMail ==
  \A m \in Mail : m[2] \notin Box(m[1]) =>
     \E b \in Mailboxes : dest[<<b, m[1], m[2]>>] > 0

(* tick never sends on the channel that drain closes: IngestMessage checks *)
(* the shutdown flag only before its send, and it is the order of stopping *)
(* that keeps the two apart.                                               *)
NoSendOnClosed == tickPc # "panic"

(* When the command ends, after a failed start as well as after a stop,    *)
(* no receiver and no ingest client is left running.  (The persistent      *)
(* client of a receiver may still be logging out: its run answers first.)  *)
NothingLeftOpen ==
  main \in {"failed", "terminated"} =>
    /\ \A i \in DOMAIN receivers : receivers[i].exited
    /\ ingestPc \in {"off", "closed"}

\* the waits that nothing ends: tick for the ingest client, which waits for
\* room in a channel only tick reads; tick for a receiver likewise
WaitCycle ==
  \/ tickPc = "send" /\ ingestPc = "reply" /\ ~Room(ingestReq[1])
  \/ /\ tickPc = "ack" /\ Len(receivers[tickMsg[1]].acks) = FetchBufferSize
     /\ Blocked(receivers[tickMsg[1]])
\* tick has not started or has returned, and someone waits for it to read
NobodyReads ==
  /\ tickPc \in {"off", "done"}
  /\ \/ \E i \in DOMAIN receivers : Blocked(receivers[i])
     \/ ingestPc \in {"reply", "refuse"} /\ ~Room(ingestReq[1])

(* Once started, run-multi moves the mail of every source (a call that     *)
(* fails excuses what is left) until it is stopped; stopped, or failed     *)
(* half-way through its start, it comes to an end.  Otherwise it hangs for *)
(* good, and there are three ways to: tick and the one it waits for wait   *)
(* for each other (see pump_deadlock), a receiver or the ingest client has *)
(* more to send than its channel holds and tick reads no more, or the      *)
(* client of a receiver leaves its last call unanswered.                   *)
MovesOrEnds ==
  main \in {"running", "abort"} ~>
    \/ ~Alive
    \/ /\ main = "running" /\ ~stopChan
       /\ faults > 0 \/ \A m \in Mail : m[2] \notin Box(m[1])
    \/ WaitCycle \/ NobodyReads \/ abandoned # {}

(* Mail of a source goes to the mailbox configured for that source         *)
(* (multi.md: target_mailbox is part of the source's configuration).       *)
GoesToItsTarget ==
  \A d \in DOMAIN dest : dest[d] > 0 => d[1] = Target[d[2]]
=============================================================================
