# A TLA+ model of MailPump

MailPump watches a source mailbox over IMAP, appends each message to a
destination mailbox and then removes it from the source. This directory holds
TLA+ modules that model the program's concurrent core, the TLC configurations
that check them on small instances, and proofs of the main safety properties
that TLAPS checks for every value of the constants. Paths below are relative to
the repository; `PROJECT.json` maps each definition to the lines it stands for.

## 1. The system

| Part | State | Operations | Talks to |
|---|---|---|---|
| `receiver/` | loop state (`StateNone`, `InIDLE`, `InFetch`, `InDelete`), four `FlagCounter`s, `messages` (UID to state and sequence number), `nextToProcess`, the channels `opChan`, `imapChannel`, `updates`, `ackChannel`, `outChannel` | arms of the `select` in `run`; goroutines for `Idle`, `doFetch`, `doDelete`; `Ack`, `Close` | an `imap.Client`; its user through `outChannel` and `Ack` |
| `ingest/` | the request in hand, `incoming`, `wantQuit`, `shutdown` | `IngestMessage`, `run` (`Append` and answer), `drain`, `Close` | an `imap.Client`; a response channel per request |
| `pump/` | `incoming` (the receiver's out channel), `ingestChannel` | `tick`, `Close` | one receiver, one ingest client |
| `cmd/run` | `stopChan`, `doneChan`, signal count | signal loop, deferred `Close` | the pump |
| `imap/persistentclient` | connection state, `nextDelay`, pretended IDLE, `shutdown`, request channels | every call of `imap.Client`, `run`, `drainRequests`, `Logout`, `FlagQuit` | a go-imap connection that it replaces when lost |
| `imap/client` | none of its own | `NewClient` (dial, authenticate, log out on failure); the rest forwards to go-imap | go-imap |
| `multipump/` | `receivers`, `recvChannels`, `ingestChannels`, `targetMailboxes` | `NewPump` with `makeReceivers`, `tick` over `reflect.Select`, `Close` | several receivers, one ingest client |
| `cmd/run-multi` | the sources of the file (a map), `ResolvedSources`, signal count | `Configuration.Resolve`, `run` | the multipump |
| `cmd/config`, `imap/authenticator.go` | the settings of each side, where flags, environment and file put them | flag parsing, `fillDefaults`, `IMAPConfig.Resolve`, `OAuth2Config.Resolve`, `BuildPumpConfig` | decides transport, authentication, sizes |
| `cmd/oauthlogin`, `cmd/main.go` | none | ask for a token; register the commands | - |

What is hard in it: the receiver's loop meets results, acknowledgements,
updates, quits, timeouts and finished goroutines in any order; it sends to a
channel it alone reads; state taken before a command (sequence numbers, the
message count, queues) is used after it; a STORE or EXPUNGE may fail half done;
four goroutines wait for one another over bounded channels; the process may die
between copy and removal; the persistent client loses and regains its
connection under pending calls; several sources with overlapping UIDs share one
ingest client; a start may fail with half of the clients already working; and
shutdown overtakes all of this.
`PROJECT.json` lists each hazard at its line with the property that covers it.

## 2. Modules

**`Receiver`** models `receiver/`. `run` is split where it can block: the select
(`runPc = "select"`), the sends of `handleFetch` (`"deliver"`) and the send to
`opChan` (`"signal"`). Each arm of the select is an action (`RecvQuit`,
`RecvUpdate`, `RecvAck`, `Timeout`, `RecvOp`, `RecvFetchResult`,
`RecvDeleteResult`) that does what the arm does and then takes the step of the
state machine, `Tick(op, ...)`, in the same action, as one iteration of the loop
does. `TickNone`, `TickInIDLE`, `TickInFetch` and `TickInDelete` are the cases of
its `switch`. The goroutine the loop starts is `worker`: its value is the client
call it is about to make, the result it is handing over, or the operation it
sends last. `FlagCounter`s are Booleans, since the loop only asks `IsFlagged`;
`wantStopIdle` stands for the channel given to `Idle`. Messages are UIDs;
sequence numbers are ranks in the mailbox, and `seqNum` keeps the one a message
had when it was fetched, as `messageState.SeqNum` does. The source server and
the go-imap reader (`Arrive`, `Announce`, `OtherUpdate`) and the user
(`Consume`, `Ack`, `Close`) are the environment. A client call may fail within
`MaxFaults`, and freely once `FlagQuit` was called; `UidStore` may fail having
set and reported any part of the flags, and EXPUNGE having removed any part of
what is marked. Once `FlagQuit` was called a call may also never come back
(`Abandon`): `drainRequests` of the persistent client answers a queued `Fetch`
or `UidStore` without closing its message channel, and the goroutine that reads
it waits for ever. `Close` is three steps, the request, `<-hasQuit` (`HasQuit`)
and the last `Logout` (`CloseReturn`), which need not return while the updates
channel is full, since by then nobody reads it. `OtherUpdates` says whether the
updates that `handleMessageUpdate` ignores occur.

**`MailReceiver`** is what a receiver promises the pump that uses it, through
its out channel, `Ack` and `Close`: it sends out only mail of the mailbox, and
not again what it has sent and not removed (after a failed call acknowledged
mail may be); it reads acknowledgements only between deliveries; it removes
only what was acknowledged without an error; asked to quit, it ends. The state
is one record and each step is an operator from a record to the set of records
it may lead to, so that a user can hold several receivers. `Receiver` shows by
`KeepsPromise` that each of its steps, seen through `port`, is such a step.

**`MailPump`** extends `Receiver` and replaces the user by the program: `tick`
(`TickIncoming`, `IngestMessage`, `TickResponse`, `TickAck`, `TickStop`), the
ingest client (`IngestAppend`, `IngestReply`, `IngestExit`), the shutdown of
`cmd/run` (`Interrupt1`, `CloseReceiver`, `CloseIngest`), and `Crash`, which
loses all state but the two mailboxes and starts again. `Append` may fail having
stored the message or not. `tick` in `"ingest"` or `"ack"` is blocked in
`IngestMessage` or `Ack`. `MayStop` says whether a signal ever comes.

**`MultiPump`** models `multipump/` and `cmd/run-multi` over `MailReceiver`
records. `Resolve` and `Run` are the two iterations over the map of sources,
each in any order; `NewIngest`, `NewReceiver` and `StartTick` are `NewPump`, with
a failure possible at each step while the receivers made so far already work;
`TickIncoming`, `TickResponse`, `TickAck` and `TickStop` are the cases of `tick`,
and `IngestMessage` is split into its shutdown check (`IngestCheck`) and its
send (`IngestSend`); `IngestQuit` and `IngestClosed` are the end of
`ingestClient.run` with `drain`; `CloseReceiver`, `CloseIngest` and
`CloseReturns` are `closeAndWait`, after a failed start and after a stop. A
source's calls may fail within `MaxFaults`, together with the `Append`s, and
freely once it is quitting, as `MailReceiver` allows; a quitting receiver may be
`abandoned` by its client and then never ends.

**`MoveMail`** is the abstract specification: a message is copied while it is in
the source, possibly again later, and removed only after a copy exists.
`MailPump` implements it (`MovesMail`), with the source mailbox as `source`, and
`MultiPump` does (`MovesEachSource`) for the mail of all sources together, a
message being a source and a UID.

**`PersistentClient`** models `imap/persistentclient`. A call reads `shutdown`
(`Call`), sends its request (`Send`), waits, and returns; the reader of a
`Fetch` or `UidStore` also waits for its message channel to be closed
(`Return`), as `readMessages` and `doDelete` do. `run` is one action per arm of
its two selects, plus the blocking calls (`Connect`, `IdleReturns`,
`CallReturns`) and the steps after a logout (`Done`, `ServerLogout`, `Drain`,
`CloseChannels`). There is one requesting goroutine, as in the program: the
receiver has one goroutine at a time (`OneGoroutineAtATime`), the ingest client
one in all. That caller does not start an IDLE right after one it has stopped:
the loop stops an IDLE only to fetch or to quit (`FetchFirst`). `hurried` is a
history variable that counts the attempts to connect that did not wait for
`nextDelay`, because the start or the stop of a pretended IDLE falls out of the
select and on to `makeAndInitClient`. Results are left out; what matters is
that, and when, a call is answered.

**`Startup`** models the way from settings to clients. For `run`, `ApplyFlag`
applies the flags in their order, each writing the environment's value or its
default to its destination, and `ParseArg` the arguments in any order; for
`run-multi`, `Load` reads the file. `Resolve` is `IMAPConfig.Resolve` for one
side after the other, and the replacement of zero sizes. `Dial` and
`Authenticate` are the standard client's `NewClient`, `NewPersistent` and
`Connect` the persistent client's and `makeAndInitClient`. When the second
client cannot be opened the first is closed in steps: its persistent client gets
its shutdown (`Quit`), reads it at its next select (`LogoutRead`), and leaves the
server after it has answered (`Leave`); `CloseReturns` need not wait for that,
since the receiver's own `Logout` returns at once when `FlagQuit`'s came first,
and it may never happen at all, when the loop is stuck on a full out channel.
Values are opaque strings.

**`MCReceiver`, `MCMailPump`, `MCPersistentClient`, `MCMultiPump`, `MCStartup`**
are the modules TLC runs. **`ReceiverProofs`, `DeliveryProofs`,
`PromiseProofs`** (the receiver), **`MailPumpProofs`**, **`MultiPumpProofs`,
`MultiMoveProofs`** (the two pumps), **`PersistentClientProofs`** and
**`StartupProofs`** hold the theorems.

A few operators are marked `mutant` in a comment: plausible bugs kept beside the
definition they would replace. With the mutant in its place each property fails,
which is how the properties are known to be able to fail.

## 3. Runs

| Run | Bounds | What it shows |
|---|---|---|
| `receiver` | 2 messages, fetches of 2, 1 fault | No `Panic` of `run` is reachable; `run` never blocks on `opChan`; goroutines never overlap; a stop request stays with its IDLE; nothing unacknowledged is marked or removed; while nothing fails no message goes out twice and every acknowledged one is queued; the loop leaves with nothing owed; every step is one that `MailReceiver` allows |
| `receiver_live` | 2 messages, fetches of 1, fair | Every message is delivered, every acknowledged one expunged; `Close` returns unless the client abandons a call or the last `Logout` is behind a full updates channel |
| `pump` | 2 messages, 1 fault, 1 crash | No mail is lost, one copy while nothing fails, `MoveMail` is implemented |
| `pump_live` | 1 message, 1 crash, fair | A message moves even if the process dies on the way |
| `client` | 2 quitters, 6 kinds of call, `Second = 2`, limit of 2.5 s | Answers go to a waiting caller; the delay is in range, and at most two attempts between connections skip it; one logout request; an IDLE can be cancelled and `Logout` returns, connected or not |
| `multi` | 2 sources with 2 and 1 messages, UID 1 in both, fetches of 1, 1 failing call of a source or of ingest, fair | `MoveMail` holds for every source although UIDs repeat, and what is gone from a source was copied under that source (`NoSourceLosesMail`); when the command returns nothing is running; `tick` never sends on the channel that `drain` closes; all mail moves, and a failed start and a stop come to an end, except through the waits of `WaitCycle` and `NobodyReads` or an abandoned receiver (`MovesOrEnds`) |
| `hidden` (violation) | 2 messages, 1 fault, fair | A `UidStore` that fails without an answer leaves its message tracked; the stale sequence number hides another message from every later fetch |
| `pump_deadlock` (violation) | 3 messages, `ingestChannel` of 1 | `tick` in `IngestMessage` and the ingest client at the full `ingestChannel` wait for each other |
| `pump_stop` (violation) | 2 messages, fair | Once `tick` has returned, a receiver or ingest client blocked on a send never sees its quit: `Close` hangs |
| `client_shutdown` (violation) | as `client` | A call in progress at a logout does not get back to its caller: it meets a closed channel and panics, or `drainRequests` answers it without closing its message channel |
| `multi_target` (violation) | as `multi`, fetches of 2, two target mailboxes | Mail of one source goes to the mailbox of the other |
| `startup_mailbox` (violation) | both commands, both transports | A source of the standard transport is connected and its mailbox was never selected |

The bounds are the least at which the cases happen. Two messages are needed for
an expunge to renumber another message and for one fetch to overlap the delete
of an earlier message. Channels have capacity one or two so that they fill; the
program's are 10 and 20 and fill with longer backlogs in the same way. One fault
is enough to leave a STORE half done and go on; one crash to fall between any
two steps. Two sources that share a UID are needed for an acknowledgement to
reach the wrong receiver. In `PersistentClient` and `Startup` nothing is
bounded: their state spaces are finite as they are.

Larger instances were checked with the same modules: `receiver` with three
messages, `KeepsPromise` with two faults, `pump` with `MayStop` (4.0 million
states), `MessagesMove` with two messages and no crash. With four messages and
`IngestCap = 3`, `NoWaitCycle` also fails by its second disjunct, `tick` in `Ack`
against the receiver in `handleFetch`. `multi` also passes with fetches of 2 (0.9
million states). `NoClientForgotten`, `NoOAuthBearer`, `EnvTransportIgnored` and
`SizesPositive` of `Startup` hold on the constants of `MCStartup` (30 000 states)
and are proved.

What the safety properties about an end do not say: `NothingLeftOpen` of
`MultiPump` is about loops and goroutines that run, not about connections, since
the persistent client answers `Logout` before it logs out of its server
(`persistentclient.go:350`); and a stop that hangs satisfies it.

Deadlock is checked in the receiver's runs, whose only final state is after
`Close`. It is not in those of the pumps, which really can stop
(`pump_deadlock`, `pump_stop`), of the client, which stops after a logout or in
the states of `client_shutdown`, and of `Startup`, which ends when the clients
run or the start has failed.

### Fairness

Go's `select` chooses at random among the ready arms, so an arm that is ready
again and again is taken: strong fairness for the arms. A goroutine that can run
does, a command, a dial or a stopped IDLE returns, and the timer fires when
nothing else happens: weak fairness. That commands return is an assumption about
the server (go-imap's `Timeout` is 0), and it is made of a receiver's calls only
until they are abandoned, and of the last `Logout` only while updates has room.
In `MultiPump`, where no mail arrives after the start, every arm runs dry, and
weak fairness of each goroutine is enough.
`MailPump` keeps what moving mail needs (`MoveFairness`) apart from what
stopping needs (`StopFairness`). Blocked senders of a channel are served in
order, so `Ack` and the go-imap reader get their turn (strong). The server
reports new mail once it owes the client an EXISTS. Faults, losses of the
connection, signals, crashes and `Close` are never forced, and connecting may
fail for ever. Once it is quitting the receiver stops its IDLE
(`InterruptUnlessQuitting` shows that `CloseReturns` depends on it), which is
why `PersistentClient` assumes that of its caller.

## 4. Proofs

`ReceiverProofs`, for any number of messages, capacities, batch size and faults:

- `TypeCorrect`: `TypeOK`, channel capacities included. The one non-obvious
  part is that a message's sequence number and the message count are naturals:
  cardinalities of finite sets (`MailboxCounts`).
- `LoopSafe` is the inductive invariant behind `NeverPanics`, `SignalIsFree`,
  `StopIsFresh`, `OneGoroutine`, `QueuedRequested` and `ExitIsQuiescent`. None of
  these is inductive alone: that no operation arrives in the wrong state needs
  that the loop's state, the goroutine and the content of `opChan` agree - in
  `StateInFetch`, say, exactly one of a fetch goroutine and a
  `OperationFetchFinish` in `opChan` exists - and that a loop about to signal has
  just emptied `opChan`. `TickSafe` shows that one step of the state machine keeps
  it, and each arm of the select uses that lemma.
- `NoLoss`: only mail acknowledged without an error is marked or removed. The
  invariant `AckInv` adds that whatever is on its way to a `\Deleted` flag was
  acknowledged too: the error-free entries of `ackChannel`, the messages in
  `StateAcked` (the only ones `doDelete` stores) and the delete results that
  would put one back there.
- `DisabledIsReadOnly`: with `DisableDeletions` no delete is ever started.

`DeliveryProofs`, for the same constants, about behaviours without faults:

- `DeliveredOnce`. That no message goes out twice says nothing of a message the
  loop has let go of and that the server still has; `OnceInv` adds that such a
  message is marked, and that its EXPUNGE is still to come or the loop is
  quitting and fetches no more. It needs `ResultInv`: a fetch result is in the
  mailbox and unknown to the loop until it is delivered, since no other
  goroutine works on the connection meanwhile (`LoopSafe`).
- `AckedQueued`. `QueueInv` follows an acknowledged message from
  `nextToProcess` to the goroutine's copy of it, to the STORE's results and back
  into the loop; while nothing fails (`CleanInv`) every known message is in the
  mailbox, so the STORE answers for each.

`PromiseProofs`:

- `ReceiverKeepsPromise`: `Receiver` implements `MailReceiver`, faults included.
  Each action is mapped to the step of the promise that it is, or to none.
  `PortInv` adds what this needs: only `Close` makes the loop quit; the results
  of a STORE are about messages in `StateAcked`; and a fetch asks for at most
  `FetchBufferSize` numbers and returns at most one message for each. The last
  part is counting: `buildSeqSet` stops at the buffer size (`SeqSetBounded`), and
  two messages never share a sequence number (`SeqNumsDiffer`).

`MailPumpProofs`, for any number of messages, capacities, faults and crashes. A
step of the pump is one of the receiver, one that leaves the receiver alone, or
one of four that touch both (`StepKinds`), so the lemmas about the receiver are
used again and not repeated:

- `PumpTypeCorrect`.
- `NothingLost`. `CopyInv` extends `AckInv` by the way back from the destination:
  an answer without an error stands for a copy, with the ingest client, in
  `ingestChannel`, with `tick`, and once acknowledged. A crash keeps both
  mailboxes and empties all of this.
- `PumpMovesMail`: the pump implements `MoveMail`. A copy is allowed of a message
  that is in the source or was copied before, and by `NoMailLost` one of the two
  holds of whatever has arrived; `SeenInv` says that what is on its way has.
- `PumpCopiesOnce`. `PipeInv` says that a message on its way is in one place only
  (the out channel, `tick`, the ingest client), delivered and not copied yet;
  `OnceInv` of the receiver keeps it from entering a second time.

`MultiPumpProofs`, for any set of sources, targets, backlogs and capacities:

- `MultiTypeCorrect`.
- `NeverSendsOnClosed` and `EndsWithNothingOpen`, from `ShutdownOrder`: `tick`
  works only while the command runs, the ingest client is told to quit only
  after `tick` and every receiver have ended, and closes `incoming` only when
  told to.
- `SourcesKeepTheirMail`: `SourcesCopied` is `CopyInv` with indices. An answer
  without an error on its way to receiver `i` stands for a copy of that very
  message of source `i`, in whatever order the map of sources was read.

`MultiMoveProofs`:

- `SourcesMoveMail`: `MultiPump` implements `MoveMail` for all sources together.
  `OwnMail` says that what a receiver has fetched or sent out, and what `tick`
  and the ingest client hold under its index, is mail of its source, so what is
  stored is a copy of it; the mailbox of a source is that of exactly one
  receiver and never grows (`BoxesShrink`). The copies of a message are counted
  as a set, to which a store adds one element (`CopyAdds`).

`PersistentClientProofs`, for any set of quitting goroutines, calls, unit of
time and configured limit:

- `AnswersAreAwaited`, by adding that `c.stopIdle` is set only while `c.idle` is
  and never during a real IDLE.
- `ClientTypeCorrect`: the types, and that `run` has a connection in every state
  in which it uses one.
- `DelayIsInRange`: rounding a delay of a second or more down to whole seconds
  leaves at least one (`WholeSeconds`). It bounds what `run` sets, not the time
  between attempts.
- `NoHammering`: at most two attempts between connections skip the delay.
  `HurriedInv` ties the count to the pretended IDLE: one while it lasts, two once
  it was stopped, and then the caller is in no position to start another before
  there is a connection (`NoMoreIdle`): it is on its way out of the stopped IDLE,
  in a call that waits for a connection, or refused because of the shutdown.
- `LogoutIsOnce`, from the compare-and-swap on `shutdown`.

`StartupProofs`, for every environment, file and command line:

- `FailedStartForgetsNone`: `OpenInv` adds what may be open while the second
  client is being opened (only the first, in any state) and that an abort has
  only the first to close. A client that is still there after the failure is the
  source's persistent one, with its shutdown set. The theorem does not say that
  the failing start returns.
- `OAuthBearerNeverResolves` and `TransportOfEnvironmentLost`: `SettingsInv` says
  that no flag writes the auth url, so `OAuth2Config.Resolve` always refuses, and
  that once the debug flag (the eighth of a side) has been applied, the
  transport of a side for which neither flag is given is the default; `ConnInv`
  carries both to the resolved connections.
- `SizesArePositive`: this discharges for the program the part of
  `ReceiverAssumption` that is about sizes.

Assumptions: `ReceiverAssumption`, `PumpAssumption`, `MultiAssumption` and
`ClientAssumption` (capacities are positive, and so are the batch size and a
second; the sources are a finite, nonempty set); `Startup` has none. TLC
evaluates them in every run.

Every invariant and every safety property of a passing run is proved. Only
model-checked are the liveness properties, since fairness and `ENABLED` are out
of the prover's reach: `ArrivalDelivered`, `AckedEventuallyExpunged` and
`CloseReturns` of the receiver, `MessagesMove`, `IdleCancellable` and
`LogoutReturns`, and `MovesOrEnds`. Only proved, and not the subject of a run:
`DisabledIsReadOnly` and the theorems of `StartupProofs`.

## 5. Observations that have no run

- An acknowledgement with an error leaves its message tracked; it is not tried
  again before a restart (`receiver.go:166`). `MailReceiver` and `MoveMail` allow
  that, so no property catches it.
- A start that fails may not return: before `tick` runs nobody reads the out
  channel, and `recv.Close()` (`pump.go:51`) waits for a loop that is stuck on it
  (`receiver.go:130`).
- Every acknowledgement flags a delete (`receiver.go:275`), so the batch size
  (`receiver.go:324`) delays nothing.
- go-imap's message count does not follow an EXPUNGE. The model's server skips
  sequence numbers past the end; one that answers BAD refuses the whole FETCH
  until new mail corrects the count.
- A signal that arrives while the deferred `Close` hangs is read by nobody
  (`cmd/run/main.go:92`).
- `multi.md:31` gives `INBOX` as the default of `target_mailbox`; nothing fills
  it in. The usage text of `--config` says that `-` reads from stdin
  (`cmd/run-multi/config.go:139`); the code tests for the empty string.
- The debug flag is a string that goes to `Transport` (`cmd/config/imap.go:153`):
  it never turns debugging on, and any value but `persistent` selects the
  standard transport.

## 6. Not modelled

UIDVALIDITY, other clients of the source mailbox, message contents and flags,
logging, host names, the intervals and the text of errors. `fetchMaxInterval` is
a timer that may fire at any moment. The counts of `FlagCounter` are never read
by the program, which only asks `IsFlagged`. `IngestMessageSync` has no caller
outside the tests, and its body is `IngestMessage` and a receive; the refusal of
UID 0 is never met, since IMAP has no such UID. `imap/client`'s methods forward to
go-imap and appear only as the external client; the authentication exchanges
are go-imap's and go-sasl's. `cmd/oauthlogin` is an interactive command that
asks for a token once. Mocks, test helpers and vendored code are left out.

## 7. Plan

1. Done: `Receiver` with `MailReceiver`, `MailPump` and `MultiPump` with
   `MoveMail`, `PersistentClient`, `Startup`, and the proofs above.
2. Left: what the wait cycles are made of. `WaitCycle` and `NobodyReads` of
   `MultiPump`, and their counterparts of `MailPump`, list by hand the ways in
   which the pump can stop; that a step of some goroutine is possible in every
   other state can be stated without `ENABLED` and proved from the types. The
   safety half of the persistent client's promise to the receiver (a call is
   answered at most once, and not after the logout) can be stated as an abstract
   specification as `MailReceiver` is.
