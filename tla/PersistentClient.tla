-------------------------- MODULE PersistentClient --------------------------
(***************************************************************************)
(* The persistent IMAP client (imap/persistentclient): the goroutine run   *)
(* that owns the connection and reconnects with a growing delay, the calls *)
(* that hand it requests over unbuffered channels, the IDLE it pretends to *)
(* be in while disconnected, and the shutdown that Logout starts.  As in   *)
(* the program there is one goroutine that makes requests (the receiver's  *)
(* or the ingest client's) and some that only log out (FlagQuit, Close).   *)
(* The connection itself (go-imap) is external.                            *)
(***************************************************************************)
EXTENDS Integers

CONSTANTS
  Quitters,      \* goroutines that call Logout or FlagQuit
  Calls,         \* the calls the requesting goroutine makes
  Second,        \* the units of time in a second
  CfgMaxDelay    \* cfg.MaxDelay

AllCalls  == {"idle", "select", "fetch", "expunge", "uidStore", "append", "mailbox"}
Streaming == {"fetch", "uidStore"}    \* calls given a channel for messages

ASSUME ClientAssumption ==
  /\ Calls \subseteq AllCalls
  /\ Second \in Nat \ {0}
  /\ CfgMaxDelay \in Nat

\* NewClient's defaults
MaxDelay == IF CfgMaxDelay = 0 THEN 64 * Second
            ELSE IF CfgMaxDelay < Second THEN Second ELSE CfgMaxDelay

ClientStateDisconnected == "disconnected"
ClientStateConnected    == "connected"

VARIABLES
  state,         \* run: state
  runPc,         \* run: select, connect, idle and call (in c.c), done, logout,
                 \* drain, close, exited, panic
  nextDelay,     \* run: nextDelay
  hurried,       \* history: attempts to connect since the last connection that did
                 \* not wait for nextDelay
  idle,          \* c.idle # nil
  stopIdle,      \* c.stopIdle # nil
  conn,          \* c.c: nil, up, or lost (its LoggedOut channel is closed)
  shutdown,      \* c.shutdown
  chans          \* c.ch, idleChannel and logoutChannel: open, closed

delayVars == <<nextDelay, hurried>>
runVars   == <<state, runPc, delayVars, idle, stopIdle, conn, shutdown, chans>>

VARIABLES
  kind,          \* the caller's current or last call
  callPc,        \* ready, checked (saw shutdown = 0), sending, waiting, answered, panic
  messageChan,   \* the channel given to a streaming call: none, open, closed
  stopped,       \* the stop channel given to Idle is closed
  quitPc         \* Quitter -> ready, sending, waiting, done

callVars == <<kind, callPc, messageChan, stopped>>
vars     == <<runVars, callVars, quitPc>>

Init ==
  /\ state = ClientStateDisconnected /\ runPc = "select"
  /\ nextDelay = 0 /\ hurried = 0
  /\ idle = FALSE /\ stopIdle = FALSE
  /\ conn = "nil"
  /\ shutdown = FALSE /\ chans = "open"
  /\ kind \in Calls /\ callPc = "ready"
  /\ messageChan = "none" /\ stopped = FALSE
  /\ quitPc = [q \in Quitters |-> "ready"]

(***************************************************************************)
(* The calls: check shutdown, send the request, wait for the answer.  The  *)
(* reader of a streaming call also waits for its channel to be closed.     *)
(***************************************************************************)
\* The receiver's loop stops an IDLE only for a fetch (receiver.go:372-378)
\* or to quit: another call comes before the next IDLE.
FetchFirst(k) == kind = "idle" /\ stopped => k # "idle"

\* After shutdown the call returns at once and closes its channel itself.
Call(k) ==
  /\ callPc = "ready" /\ FetchFirst(k)
  /\ kind' = k
  /\ stopped' = FALSE
  /\ \/ /\ shutdown
        /\ messageChan' = "none"
        /\ UNCHANGED callPc
     \/ /\ ~shutdown
        /\ messageChan' = IF k \in Streaming THEN "open" ELSE "none"
        /\ callPc' = "checked"
  /\ UNCHANGED <<runVars, quitPc>>

Send ==
  /\ callPc = "checked"
  /\ callPc' = IF chans = "open" THEN "sending" ELSE "panic"
  /\ UNCHANGED <<runVars, kind, messageChan, stopped, quitPc>>

Return ==
  /\ callPc = "answered" /\ messageChan # "open"
  /\ callPc' = "ready"
  /\ UNCHANGED <<runVars, kind, messageChan, stopped, quitPc>>

\* the caller wants its IDLE to end
Stop ==
  /\ kind = "idle" /\ callPc \notin {"ready", "panic"} /\ ~stopped
  /\ stopped' = TRUE
  /\ UNCHANGED <<runVars, kind, callPc, messageChan, quitPc>>

\* mutant: shutdown is set but not compared first
LogoutEach(q) ==
  /\ quitPc[q] = "ready"
  /\ shutdown' = TRUE
  /\ quitPc' = [quitPc EXCEPT ![q] = "sending"]
  /\ UNCHANGED <<state, runPc, delayVars, idle, stopIdle, conn, chans, callVars>>

\* Logout, or the goroutine FlagQuit starts: only the first to raise
\* shutdown sends a request
Logout(q) ==
  /\ quitPc[q] = "ready"
  /\ shutdown' = TRUE
  /\ quitPc' = [quitPc EXCEPT ![q] = IF shutdown THEN "done" ELSE "sending"]
  /\ UNCHANGED <<state, runPc, delayVars, idle, stopIdle, conn, chans, callVars>>

(***************************************************************************)
(* run, disconnected.  Every way out of the select but Logout goes on to   *)
(* connect.                                                                *)
(***************************************************************************)
Disconnected == runPc = "select" /\ state = ClientStateDisconnected

\* the attempt to connect that follows does not wait for nextDelay
Hurry == hurried' = hurried + 1 /\ UNCHANGED nextDelay

Answer == callPc' = "answered" /\ UNCHANGED <<kind, messageChan, stopped>>

\* mutant: the stop channel stays after the IDLE has ended
EndFakeIdleKeepsStop == idle' = FALSE /\ UNCHANGED stopIdle
EndFakeIdle == idle' = FALSE /\ stopIdle' = FALSE

FakeIdleStop ==
  /\ Disconnected /\ stopIdle /\ stopped
  /\ \/ ~idle /\ runPc' = "panic" /\ UNCHANGED <<idle, stopIdle, callVars>>
     \/ idle /\ runPc' = "connect" /\ EndFakeIdle /\ Answer
  /\ Hurry
  /\ UNCHANGED <<state, conn, shutdown, chans, quitPc>>

\* mutant: an IDLE is refused while disconnected
FakeIdleStartRefuses ==
  /\ Disconnected /\ callPc = "sending" /\ kind = "idle"
  /\ runPc' = "connect"
  /\ Answer /\ Hurry
  /\ UNCHANGED <<state, idle, stopIdle, conn, shutdown, chans, quitPc>>

FakeIdleStart ==
  /\ Disconnected /\ callPc = "sending" /\ kind = "idle"
  /\ callPc' = "waiting"
  /\ \/ idle /\ runPc' = "panic" /\ UNCHANGED <<idle, stopIdle>>
     \/ ~idle /\ runPc' = "connect" /\ idle' = TRUE /\ stopIdle' = TRUE
  /\ Hurry
  /\ UNCHANGED <<state, conn, shutdown, chans, kind, messageChan, stopped, quitPc>>

\* mutant: Logout while disconnected leaves the IDLE unanswered
LogoutAnswersNot == UNCHANGED <<idle, stopIdle, callVars>>
LogoutAnswers ==
  \/ idle /\ EndFakeIdle /\ Answer
  \/ ~idle /\ UNCHANGED <<idle, stopIdle, callVars>>

DisconnectedLogout(q) ==
  /\ Disconnected /\ quitPc[q] = "sending"
  /\ quitPc' = [quitPc EXCEPT ![q] = "waiting"]
  /\ runPc' = "done"
  /\ LogoutAnswers
  /\ UNCHANGED <<state, delayVars, conn, shutdown, chans>>

DelayOver ==
  /\ Disconnected
  /\ runPc' = "connect"
  /\ UNCHANGED <<state, delayVars, idle, stopIdle, conn, shutdown, chans,
                 callVars, quitPc>>

\* mutant: no clamp
NextDelayUnclamped(jitter) ==
  IF nextDelay = 0 THEN Second + jitter
  ELSE IF nextDelay > MaxDelay THEN nextDelay
  ELSE 2 * (nextDelay - (nextDelay % Second)) + jitter
\* twice the whole seconds of the last delay, and some jitter, up to MaxDelay
NextDelay(jitter) ==
  LET base  == IF nextDelay = 0 THEN Second
               ELSE 2 * (nextDelay - (nextDelay % Second))
      delay == base + jitter
  IN  IF delay > MaxDelay THEN MaxDelay ELSE delay

ConnectOk ==
  /\ conn' = "up"
  /\ state' = ClientStateConnected
  /\ nextDelay' = Second /\ hurried' = 0

ConnectFails ==
  /\ \E jitter \in 0..(Second - 1) : nextDelay' = NextDelay(jitter)
  /\ UNCHANGED <<conn, state, hurried>>

Connect ==
  /\ runPc = "connect"
  /\ ConnectOk \/ ConnectFails
  /\ runPc' = "select"
  /\ UNCHANGED <<idle, stopIdle, shutdown, chans, callVars, quitPc>>

(***************************************************************************)
(* run, connected                                                          *)
(***************************************************************************)
Connected == runPc = "select" /\ state = ClientStateConnected

\* a pretended IDLE becomes a real one before anything else is done
Upgrade ==
  /\ Connected /\ idle
  /\ stopIdle' = FALSE
  /\ runPc' = "idle"
  /\ UNCHANGED <<state, delayVars, idle, conn, shutdown, chans, callVars, quitPc>>

\* mutant: the lost connection is dropped but the state is not changed
LoggedOutStaysConnected ==
  /\ Connected /\ ~idle /\ conn = "lost"
  /\ conn' = "nil"
  /\ UNCHANGED <<state, runPc, delayVars, idle, stopIdle, shutdown, chans, callVars,
                 quitPc>>

LoggedOut ==
  /\ Connected /\ ~idle /\ conn = "lost"
  /\ conn' = "nil"
  /\ state' = ClientStateDisconnected
  /\ UNCHANGED <<runPc, delayVars, idle, stopIdle, shutdown, chans, callVars, quitPc>>

ConnectedLogout(q) ==
  /\ Connected /\ ~idle /\ quitPc[q] = "sending"
  /\ quitPc' = [quitPc EXCEPT ![q] = "waiting"]
  /\ runPc' = "done"
  /\ UNCHANGED <<state, delayVars, idle, stopIdle, conn, shutdown, chans, callVars>>

Request ==
  /\ Connected /\ ~idle /\ callPc = "sending"
  /\ callPc' = "waiting"
  /\ runPc' = IF kind = "idle" THEN "idle" ELSE "call"
  /\ UNCHANGED <<state, delayVars, idle, stopIdle, conn, shutdown, chans, kind,
                 messageChan, stopped, quitPc>>

\* c.c.Idle returns: stopped, or failed
IdleReturns ==
  /\ runPc = "idle"
  /\ runPc' = "select"
  /\ idle' = FALSE
  /\ Answer
  /\ UNCHANGED <<state, delayVars, stopIdle, conn, shutdown, chans, quitPc>>

\* c.c returns from the call, having closed its channel
CallReturns ==
  /\ runPc = "call"
  /\ runPc' = "select"
  /\ callPc' = "answered"
  /\ messageChan' = IF messageChan = "open" THEN "closed" ELSE messageChan
  /\ UNCHANGED <<state, delayVars, idle, stopIdle, conn, shutdown, chans, kind,
                 stopped, quitPc>>

(***************************************************************************)
(* run after a logout request                                              *)
(***************************************************************************)
\* mutant: the logout request is not answered
DoneSilent ==
  /\ runPc = "done"
  /\ shutdown' = TRUE
  /\ runPc' = "logout"
  /\ UNCHANGED <<state, delayVars, idle, stopIdle, conn, chans, callVars, quitPc>>

Done ==
  /\ runPc = "done"
  /\ shutdown' = TRUE
  /\ quitPc' = [q \in Quitters |-> IF quitPc[q] = "waiting" THEN "done" ELSE quitPc[q]]
  /\ runPc' = "logout"
  /\ UNCHANGED <<state, delayVars, idle, stopIdle, conn, chans, callVars>>

ServerLogout ==
  /\ runPc = "logout"
  /\ conn' = "nil"
  /\ runPc' = "drain"
  /\ UNCHANGED <<state, delayVars, idle, stopIdle, shutdown, chans, callVars, quitPc>>

\* A request that is being sent is answered with errConnectionClosed, except
\* a Select, which is not answered; no channel is closed.
Drain ==
  /\ runPc = "drain"
  /\ \/ /\ callPc = "sending"
        /\ callPc' = IF kind = "select" THEN "waiting" ELSE "answered"
        /\ UNCHANGED <<runPc, quitPc>>
     \/ /\ \E q \in Quitters :
             /\ quitPc[q] = "sending"
             /\ quitPc' = [quitPc EXCEPT ![q] = "done"]
        /\ UNCHANGED <<runPc, callPc>>
     \/ /\ callPc # "sending" /\ \A q \in Quitters : quitPc[q] # "sending"
        /\ runPc' = "close"
        /\ UNCHANGED <<callPc, quitPc>>
  /\ UNCHANGED <<state, delayVars, idle, stopIdle, conn, shutdown, chans, kind,
                 messageChan, stopped>>

\* A goroutine that is sending to a channel when it is closed panics.
CloseChannels ==
  /\ runPc = "close"
  /\ chans' = "closed"
  /\ runPc' = "exited"
  /\ callPc' = IF callPc = "sending" THEN "panic" ELSE callPc
  /\ UNCHANGED <<state, delayVars, idle, stopIdle, conn, shutdown, kind,
                 messageChan, stopped, quitPc>>

\* the connection breaks (external)
Lose ==
  /\ conn = "up"
  /\ conn' = "lost"
  /\ UNCHANGED <<state, runPc, delayVars, idle, stopIdle, shutdown, chans, callVars,
                 quitPc>>

Caller == (\E k \in Calls : Call(k)) \/ Send \/ Return \/ Stop
Select ==
  \/ FakeIdleStop \/ FakeIdleStart \/ DelayOver \/ Upgrade \/ LoggedOut \/ Request
  \/ \E q \in Quitters : DisconnectedLogout(q) \/ ConnectedLogout(q)
Blocking == Connect \/ IdleReturns \/ CallReturns
Shutdown == Done \/ ServerLogout \/ Drain \/ CloseChannels

Next ==
  \/ Caller
  \/ \E q \in Quitters : Logout(q)
  \/ Select \/ Blocking \/ Shutdown
  \/ Lose

Spec == Init /\ [][Next]_vars

(***************************************************************************)
(* Fairness.  Go's select picks at random among the arms that are ready; a *)
(* dial, a command and an IDLE that was stopped or lost its connection     *)
(* come back; a goroutine that can run does.  Nobody has to call, to log   *)
(* out or to stop an IDLE - except that the receiver's loop stops its IDLE *)
(* once it is quitting.  Connecting may fail for ever.                     *)
(***************************************************************************)
Fairness ==
  /\ WF_vars(Select)
  /\ SF_vars(FakeIdleStop) /\ SF_vars(FakeIdleStart) /\ SF_vars(Request)
  /\ SF_vars(\E q \in Quitters : DisconnectedLogout(q) \/ ConnectedLogout(q))
  /\ WF_vars(Connect) /\ WF_vars(CallReturns)
  /\ WF_vars((stopped \/ conn = "lost") /\ IdleReturns)
  /\ WF_vars(Shutdown)
  /\ WF_vars(Send) /\ WF_vars(Return)
  /\ WF_vars(shutdown /\ Stop)

FairSpec == Spec /\ Fairness

-----------------------------------------------------------------------------
(* Type invariant.  run calls c.c only where it has one: while connected   *)
(* and until it has logged out.                                            *)
TypeOK ==
  /\ state \in {ClientStateDisconnected, ClientStateConnected}
  /\ runPc \in {"select", "connect", "idle", "call", "done", "logout", "drain",
                "close", "exited", "panic"}
  /\ nextDelay \in Nat /\ hurried \in Nat
  /\ idle \in BOOLEAN /\ stopIdle \in BOOLEAN /\ shutdown \in BOOLEAN
  /\ conn \in {"nil", "up", "lost"}
  /\ state = ClientStateConnected /\ runPc \notin {"drain", "close", "exited"}
       => conn # "nil"
  /\ chans \in {"open", "closed"}
  /\ kind \in Calls
  /\ callPc \in {"ready", "checked", "sending", "waiting", "answered", "panic"}
  /\ messageChan \in {"none", "open", "closed"}
  /\ stopped \in BOOLEAN
  /\ quitPc \in [Quitters -> {"ready", "sending", "waiting", "done"}]

(* run's assertions hold ("not in idle", "already in idle"), and whenever  *)
(* it is about to answer a request or an IDLE it pretends to be in, the    *)
(* caller is waiting for that answer: run never blocks on a reply that     *)
(* nobody reads, and never answers a call twice.                           *)
AnswersAwaited ==
  /\ runPc # "panic"
  /\ idle \/ runPc = "idle" => callPc = "waiting" /\ kind = "idle"
  /\ runPc = "call" => callPc = "waiting" /\ kind # "idle"

(* The delay run sets between two attempts to connect is none before the   *)
(* first failure and at least a second, at most MaxDelay after it.  It is  *)
(* how long the select waits when nothing else wakes it: HurriedBounded is *)
(* about the attempts that do not wait.                                    *)
DelayInRange == nextDelay = 0 \/ nextDelay \in Second..MaxDelay

(* A server that cannot be reached is not hammered: between two            *)
(* connections at most two attempts skip the delay, the ones that the      *)
(* start and the stop of a pretended IDLE bring on by falling out of the   *)
(* select.  The loop's next call is a fetch, which waits for a connection, *)
(* so it starts no second IDLE.                                            *)
HurriedBounded == hurried <= 2

(* At most one logout request is ever under way, however many goroutines   *)
(* log out, and it is made only once shutdown is set.                      *)
OneLogout ==
  \A p, q \in Quitters :
    /\ quitPc[p] \in {"sending", "waiting"} => shutdown
    /\ {quitPc[p], quitPc[q]} \subseteq {"sending", "waiting"} => p = q

(* An IDLE can be cancelled, connected or not (types.go: "We need the user *)
(* to be able to cancel the request even if we're not connected").  Or     *)
(* the goroutine panics, in a shutdown that closes the channel it is about *)
(* to send on (see ShutdownReleases).                                      *)
IdleCancellable == kind = "idle" /\ stopped ~> callPc \in {"ready", "panic"}

(* Logout returns, whatever run is doing and whether or not it can         *)
(* connect, provided the dial or the command run is in comes back.         *)
LogoutReturns == \A q \in Quitters : quitPc[q] # "ready" ~> quitPc[q] = "done"

(* Shutting down releases the goroutine that is in a call: it gets its     *)
(* answer and the end of its messages and does not panic on a channel run  *)
(* has closed (receiver_test.go, TestLogoutWhenDisconnected: a receiver    *)
(* closes while disconnected).                                             *)
ShutdownReleases == shutdown ~> callPc = "ready"
=============================================================================
