----------------------- MODULE PersistentClientProofs -----------------------
(***************************************************************************)
(* Proofs about PersistentClient, for any set of quitting goroutines, any  *)
(* set of calls and any delays.                                            *)
(***************************************************************************)
EXTENDS PersistentClient, TLAPS

(* A multiple of s by a positive number is at least s. *)
LEMMA TimesAtLeast ==
  ASSUME NEW s \in Nat, NEW q \in Nat, q >= 1
  PROVE  s * q >= s
  OBVIOUS

(* Rounding a time of a second or more down to whole seconds leaves a      *)
(* second or more, and takes off less than a second.                       *)
LEMMA WholeSeconds ==
  ASSUME NEW n \in Nat, NEW s \in Nat \ {0}, n >= s
  PROVE  /\ n % s \in 0..(s - 1)
         /\ n - (n % s) >= s
<1> DEFINE q == n \div s
           r == n % s
<1>1. q \in Nat /\ r \in 0..(s - 1) /\ n = s * q + r
  OBVIOUS
<1>2. q >= 1
  BY <1>1
<1>3. s * q >= s
  BY <1>1, <1>2, TimesAtLeast
<1> QED BY <1>1, <1>3

(* NewClient leaves a limit of a second or more. *)
LEMMA MaxDelayFact == MaxDelay \in Nat /\ MaxDelay >= Second
  BY ClientAssumption DEF MaxDelay

(* A delay after a failure is in range. *)
LEMMA NextDelayFact ==
  ASSUME DelayInRange, nextDelay \in Nat, NEW j \in 0..(Second - 1)
  PROVE  NextDelay(j) \in Second..MaxDelay
<1> Second \in Nat \ {0}
  BY ClientAssumption
<1> MaxDelay \in Nat /\ MaxDelay >= Second
  BY MaxDelayFact
<1>1. CASE nextDelay = 0
  BY <1>1 DEF NextDelay
<1>2. CASE nextDelay # 0
  <2> DEFINE r == nextDelay % Second
  <2>1. nextDelay >= Second /\ nextDelay <= MaxDelay
    BY <1>2 DEF DelayInRange
  <2>2. r \in 0..(Second - 1) /\ nextDelay - r >= Second
    BY <2>1, WholeSeconds
  <2>3. NextDelay(j) = IF 2 * (nextDelay - r) + j > MaxDelay
                         THEN MaxDelay ELSE 2 * (nextDelay - r) + j
    BY <1>2 DEF NextDelay
  <2> HIDE DEF r
  <2> QED BY <2>1, <2>2, <2>3
<1> QED BY <1>1, <1>2

-----------------------------------------------------------------------------
(* Types *)

LEMMA TypeOKStep == ASSUME TypeOK, [Next]_vars PROVE TypeOK'
<1> USE DEF TypeOK, callVars, runVars, delayVars, ClientStateDisconnected,
       ClientStateConnected
<1> DEFINE Flags == idle \in BOOLEAN /\ stopIdle \in BOOLEAN /\ shutdown \in BOOLEAN
           CallOK ==
             /\ kind \in Calls /\ messageChan \in {"none", "open", "closed"}
             /\ callPc \in {"ready", "checked", "sending", "waiting", "answered", "panic"}
           Rest ==
             /\ state \in {ClientStateDisconnected, ClientStateConnected}
             /\ runPc \in {"select", "connect", "idle", "call", "done", "logout", "drain",
                           "close", "exited", "panic"}
             /\ nextDelay \in Nat /\ hurried \in Nat
             /\ state = ClientStateConnected /\ runPc \notin {"drain", "close", "exited"}
                  => conn # "nil"
             /\ conn \in {"nil", "up", "lost"} /\ chans \in {"open", "closed"}
<1>all. /\ Flags' /\ CallOK' /\ Rest' /\ stopped' \in BOOLEAN
        /\ quitPc' \in [Quitters -> {"ready", "sending", "waiting", "done"}]
        => TypeOK'
  OBVIOUS
<1>1. ASSUME NEW k \in Calls, Call(k) PROVE TypeOK'
  <2>1. CallOK' /\ stopped' \in BOOLEAN
    BY <1>1 DEF Call
  <2>2. Flags'
    BY <1>1 DEF Call
  <2>3. Rest' /\ UNCHANGED quitPc
    BY <1>1 DEF Call
  <2> QED
    <3> HIDE DEF Flags, CallOK, Rest
    <3> QED BY <1>all, <2>1, <2>2, <2>3
<1>2. CASE Send
  BY <1>2 DEF Send
<1>3. CASE Return
  BY <1>3 DEF Return
<1>4. CASE Stop
  BY <1>4 DEF Stop
<1>5. ASSUME NEW q \in Quitters, Logout(q) PROVE TypeOK'
  BY <1>5 DEF Logout
<1>6. CASE FakeIdleStop
  <2>1. CallOK' /\ stopped' \in BOOLEAN
    BY <1>6 DEF FakeIdleStop, Answer
  <2>2. Flags'
    BY <1>6 DEF FakeIdleStop, EndFakeIdle
  <2>3. Rest' /\ UNCHANGED quitPc
    <3>1. /\ state = ClientStateDisconnected /\ hurried' = hurried + 1
          /\ runPc' \in {"panic", "connect"} /\ UNCHANGED <<state, nextDelay, conn, chans, quitPc>>
      BY <1>6 DEF FakeIdleStop, Disconnected, Hurry
    <3> QED BY <3>1
  <2> QED
    <3> HIDE DEF Flags, CallOK, Rest
    <3> QED BY <1>all, <2>1, <2>2, <2>3
<1>7. CASE FakeIdleStart
  <2>1. CallOK' /\ stopped' \in BOOLEAN
    BY <1>7 DEF FakeIdleStart
  <2>2. Flags'
    BY <1>7 DEF FakeIdleStart
  <2>3. Rest' /\ UNCHANGED quitPc
    BY <1>7 DEF FakeIdleStart, Disconnected, Hurry
  <2> QED
    <3> HIDE DEF Flags, CallOK, Rest
    <3> QED BY <1>all, <2>1, <2>2, <2>3
<1>8. ASSUME NEW q \in Quitters, DisconnectedLogout(q) PROVE TypeOK'
  <2>1. CallOK' /\ stopped' \in BOOLEAN
    BY <1>8 DEF DisconnectedLogout, LogoutAnswers, Answer
  <2>2. Flags'
    BY <1>8 DEF DisconnectedLogout, LogoutAnswers, EndFakeIdle
  <2>3. Rest' /\ quitPc' \in [Quitters -> {"ready", "sending", "waiting", "done"}]
    BY <1>8 DEF DisconnectedLogout, Disconnected
  <2> QED
    <3> HIDE DEF Flags, CallOK, Rest
    <3> QED BY <1>all, <2>1, <2>2, <2>3
<1>9. CASE DelayOver
  BY <1>9 DEF DelayOver, Disconnected
<1>10. CASE Connect
  <2>1. CASE ConnectOk
    BY <1>10, <2>1, ClientAssumption DEF Connect, ConnectOk
  <2>2. CASE ConnectFails
    <3>1. PICK j \in 0..(Second - 1) : nextDelay' = NextDelay(j)
      BY <2>2 DEF ConnectFails
    <3>2. nextDelay' \in Nat
      <4>1. Second \in Nat \ {0} /\ MaxDelay \in Nat
        BY ClientAssumption, MaxDelayFact
      <4>2. nextDelay % Second \in 0..nextDelay
        BY <4>1
      <4> QED BY <3>1, <4>1, <4>2 DEF NextDelay
    <3> QED BY <1>10, <2>2, <3>2 DEF Connect, ConnectFails
  <2> QED BY <1>10, <2>1, <2>2 DEF Connect
<1>11. CASE Upgrade
  <2>1. CallOK' /\ stopped' \in BOOLEAN
    BY <1>11 DEF Upgrade
  <2>2. Flags'
    BY <1>11 DEF Upgrade
  <2>3. Rest' /\ UNCHANGED quitPc
    BY <1>11 DEF Upgrade, Connected
  <2> QED
    <3> HIDE DEF Flags, CallOK, Rest
    <3> QED BY <1>all, <2>1, <2>2, <2>3
<1>12. CASE LoggedOut
  BY <1>12 DEF LoggedOut
<1>13. ASSUME NEW q \in Quitters, ConnectedLogout(q) PROVE TypeOK'
  BY <1>13 DEF ConnectedLogout, Connected
<1>14. CASE Request
  BY <1>14 DEF Request, Connected
<1>15. CASE IdleReturns
  BY <1>15 DEF IdleReturns, Answer
<1>16. CASE CallReturns
  BY <1>16 DEF CallReturns
<1>17. CASE Done
  BY <1>17 DEF Done
<1>18. CASE ServerLogout
  BY <1>18 DEF ServerLogout
<1>19. CASE Drain
  BY <1>19 DEF Drain
<1>20. CASE CloseChannels
  BY <1>20 DEF CloseChannels
<1>21. CASE Lose
  BY <1>21 DEF Lose
<1>22. CASE UNCHANGED vars
  BY <1>22 DEF vars
<1> QED
  BY <1>1, <1>2, <1>3, <1>4, <1>5, <1>6, <1>7, <1>8, <1>9, <1>10, <1>11, <1>12,
     <1>13, <1>14, <1>15, <1>16, <1>17, <1>18, <1>19, <1>20, <1>21, <1>22
  DEF Next, Caller, Select, Blocking, Shutdown

(* The client's state keeps its type: TypeOK of run's variables, its       *)
(* caller and the goroutines that log out.                                 *)
THEOREM ClientTypeCorrect == Spec => []TypeOK
<1>1. Init => TypeOK
  <2> SUFFICES ASSUME Init PROVE TypeOK
    OBVIOUS
  <2>1. idle \in BOOLEAN /\ stopIdle \in BOOLEAN /\ shutdown \in BOOLEAN /\ stopped \in BOOLEAN
    BY Zenon DEF Init
  <2>2. quitPc \in [Quitters -> {"ready", "sending", "waiting", "done"}]
    BY DEF Init
  <2> QED
    BY <2>1, <2>2 DEF Init, TypeOK, ClientStateDisconnected, ClientStateConnected
<1>2. TypeOK /\ [Next]_vars => TypeOK'
  BY TypeOKStep
<1> QED BY <1>1, <1>2, PTL DEF Spec

-----------------------------------------------------------------------------
(* Answers.  AnswersAwaited is inductive together with the fact that       *)
(* c.stopIdle is set only while c.idle is, and not during a real IDLE.     *)

AnswerInv == AnswersAwaited /\ (stopIdle => idle /\ runPc # "idle")

LEMMA AnswerStep == ASSUME TypeOK, AnswerInv, [Next]_vars PROVE AnswerInv'
<1> USE DEF AnswerInv, AnswersAwaited, callVars, runVars, delayVars
<1>1. ASSUME NEW k \in Calls, Call(k) PROVE AnswerInv'
  BY <1>1 DEF Call
<1>2. CASE Send
  BY <1>2 DEF Send
<1>3. CASE Return
  BY <1>3 DEF Return
<1>4. CASE Stop
  BY <1>4 DEF Stop
<1>5. ASSUME NEW q \in Quitters, Logout(q) PROVE AnswerInv'
  BY <1>5 DEF Logout
<1>6. CASE FakeIdleStop
  BY <1>6 DEF FakeIdleStop, EndFakeIdle, Answer
<1>7. CASE FakeIdleStart
  BY <1>7 DEF FakeIdleStart
<1>8. ASSUME NEW q \in Quitters, DisconnectedLogout(q) PROVE AnswerInv'
  BY <1>8 DEF DisconnectedLogout, LogoutAnswers, EndFakeIdle, Answer
<1>9. CASE DelayOver
  BY <1>9 DEF DelayOver
<1>10. CASE Connect
  BY <1>10 DEF Connect
<1>11. CASE Upgrade
  BY <1>11 DEF Upgrade
<1>12. CASE LoggedOut
  BY <1>12 DEF LoggedOut
<1>13. ASSUME NEW q \in Quitters, ConnectedLogout(q) PROVE AnswerInv'
  BY <1>13 DEF ConnectedLogout
<1>14. CASE Request
  BY <1>14 DEF Request, Connected
<1>15. CASE IdleReturns
  BY <1>15 DEF IdleReturns, Answer
<1>16. CASE CallReturns
  BY <1>16 DEF CallReturns
<1>17. CASE Done
  BY <1>17 DEF Done
<1>18. CASE ServerLogout
  BY <1>18 DEF ServerLogout
<1>19. CASE Drain
  BY <1>19 DEF Drain
<1>20. CASE CloseChannels
  BY <1>20 DEF CloseChannels
<1>21. CASE Lose
  BY <1>21 DEF Lose
<1>22. CASE UNCHANGED vars
  BY <1>22 DEF vars
<1> QED
  BY <1>1, <1>2, <1>3, <1>4, <1>5, <1>6, <1>7, <1>8, <1>9, <1>10, <1>11, <1>12,
     <1>13, <1>14, <1>15, <1>16, <1>17, <1>18, <1>19, <1>20, <1>21, <1>22
  DEF Next, Caller, Select, Blocking, Shutdown

LEMMA AnswerInvAlways == Spec => []AnswerInv
<1>1. Init => AnswerInv
  BY DEF Init, AnswerInv, AnswersAwaited
<1>2. TypeOK /\ AnswerInv /\ [Next]_vars => AnswerInv'
  BY AnswerStep
<1> QED BY <1>1, <1>2, ClientTypeCorrect, PTL DEF Spec

(* run never panics, never blocks on an answer that nobody waits for and   *)
(* never answers a call twice.                                             *)
THEOREM AnswersAreAwaited == Spec => []AnswersAwaited
<1>1. AnswerInv => AnswersAwaited
  BY DEF AnswerInv
<1> QED BY <1>1, AnswerInvAlways, PTL

-----------------------------------------------------------------------------
(* Delays *)

(* Only an attempt to connect changes the delay, and it is made only while *)
(* disconnected.                                                           *)
DelayInv == DelayInRange /\ (runPc = "connect" => state = ClientStateDisconnected)

LEMMA DelayStep == ASSUME TypeOK, DelayInv, [Next]_vars PROVE DelayInv'
<1> USE DEF TypeOK
<1>1. CASE Connect
  <2>1. runPc' # "connect"
    BY <1>1 DEF Connect
  <2>2. CASE ConnectOk
    <3>1. nextDelay' \in Second..MaxDelay
      BY <2>2, ClientAssumption, MaxDelayFact DEF ConnectOk
    <3> QED BY <2>1, <3>1 DEF DelayInv, DelayInRange
  <2>3. CASE ConnectFails
    <3>1. PICK j \in 0..(Second - 1) : nextDelay' = NextDelay(j)
      BY <2>3 DEF ConnectFails
    <3>2. nextDelay' \in Second..MaxDelay
      BY <3>1, NextDelayFact DEF DelayInv
    <3> QED BY <2>1, <3>2 DEF DelayInv, DelayInRange
  <2> QED BY <1>1, <2>2, <2>3 DEF Connect
<1>2. CASE ~Connect
  <2> USE DEF delayVars, Hurry
  <2>1. UNCHANGED nextDelay
    BY <1>2 DEF Next, Caller, Select, Blocking, Shutdown, vars, runVars, Call, Send,
       Return, Stop, Logout, FakeIdleStop, FakeIdleStart, DisconnectedLogout,
       DelayOver, Upgrade, LoggedOut, ConnectedLogout, Request, IdleReturns,
       CallReturns, Done, ServerLogout, Drain, CloseChannels, Lose
  <2>2. runPc' = "connect" => state' = ClientStateDisconnected
    BY <1>2 DEF DelayInv, Next, Caller, Select, Blocking, Shutdown, vars, runVars,
       Call, Send, Return, Stop, Logout, FakeIdleStop, FakeIdleStart,
       DisconnectedLogout, DelayOver, Upgrade, LoggedOut, ConnectedLogout, Request,
       IdleReturns, CallReturns, Done, ServerLogout, Drain, CloseChannels, Lose,
       Disconnected
  <2> QED BY <2>1, <2>2 DEF DelayInv, DelayInRange
<1> QED BY <1>1, <1>2

LEMMA DelayInvAlways == Spec => []DelayInv
<1>1. Init => DelayInv
  BY DEF Init, DelayInv, DelayInRange
<1>2. TypeOK /\ DelayInv /\ [Next]_vars => DelayInv'
  BY DelayStep
<1> QED BY <1>1, <1>2, ClientTypeCorrect, PTL DEF Spec

(* The delay run sets is none or between a second and the configured       *)
(* limit.                                                                  *)
THEOREM DelayIsInRange == Spec => []DelayInRange
<1>1. DelayInv => DelayInRange
  BY DEF DelayInv
<1> QED BY <1>1, DelayInvAlways, PTL

-----------------------------------------------------------------------------
(* Attempts that do not wait                                               *)

(* While run is between two attempts, a caller that has stopped its IDLE   *)
(* cannot start another: it is on its way out of the stopped one, or in a  *)
(* call that waits for a connection, or refused because of the shutdown.   *)
NoMoreIdle ==
  \/ kind = "idle" /\ stopped /\ callPc \in {"answered", "ready"}
  \/ kind # "idle" /\ callPc \in {"checked", "sending"}
  \/ shutdown /\ callPc = "ready"
  \/ callPc = "panic"

(* One hurried attempt per pretended IDLE in progress, two after it ended. *)
HurriedInv ==
  /\ hurried \in 0..2
  /\ runPc = "connect" => state = ClientStateDisconnected
  /\ runPc \in {"idle", "call"} => state = ClientStateConnected
  /\ state = ClientStateConnected => hurried = 0
  /\ state = ClientStateDisconnected /\ runPc \in {"select", "connect"}
       => /\ idle => hurried = 1
          /\ ~idle => hurried = 0 \/ NoMoreIdle

LEMMA HurriedStep ==
  ASSUME TypeOK, AnswerInv, AnswerInv', HurriedInv, [Next]_vars PROVE HurriedInv'
<1> USE DEF TypeOK, HurriedInv, NoMoreIdle, callVars, runVars, delayVars,
       ClientStateConnected, ClientStateDisconnected
<1>1. ASSUME NEW k \in Calls, Call(k) PROVE HurriedInv'
  <2>1. callPc = "ready" /\ FetchFirst(k) /\ kind' = k /\ UNCHANGED <<runVars, quitPc>>
    BY <1>1 DEF Call
  <2>2. ~idle
    BY <2>1 DEF AnswerInv, AnswersAwaited
  <2>3. (shutdown /\ callPc' = "ready") \/ callPc' = "checked"
    <3>1. CASE shutdown
      BY <1>1, <3>1 DEF Call
    <3>2. CASE ~shutdown
      BY <1>1, <3>2 DEF Call
    <3> QED BY <3>1, <3>2
  <2>4. NoMoreIdle /\ ~shutdown => kind = "idle" /\ stopped
    BY <2>1 DEF NoMoreIdle
  <2>5. NoMoreIdle => NoMoreIdle'
    BY <2>1, <2>3, <2>4, <1>1 DEF FetchFirst, Call
  <2> HIDE DEF NoMoreIdle
  <2> QED BY <2>1, <2>2, <2>5
<1>2. CASE Send
  BY <1>2 DEF Send, AnswerInv, AnswersAwaited
<1>3. CASE Return
  BY <1>3 DEF Return, AnswerInv, AnswersAwaited
<1>4. CASE Stop
  BY <1>4 DEF Stop
<1>5. ASSUME NEW q \in Quitters, Logout(q) PROVE HurriedInv'
  BY <1>5 DEF Logout
<1>6. CASE FakeIdleStop
  BY <1>6 DEF FakeIdleStop, Disconnected, EndFakeIdle, Answer, Hurry, AnswerInv,
     AnswersAwaited
<1>7. CASE FakeIdleStart
  BY <1>7 DEF FakeIdleStart, Disconnected, Hurry, AnswerInv, AnswersAwaited
<1>8. ASSUME NEW q \in Quitters, DisconnectedLogout(q) PROVE HurriedInv'
  BY <1>8 DEF DisconnectedLogout
<1>9. CASE DelayOver
  BY <1>9 DEF DelayOver, Disconnected
<1>10. CASE Connect
  BY <1>10 DEF Connect, ConnectOk, ConnectFails
<1>11. CASE Upgrade
  BY <1>11 DEF Upgrade, Connected
<1>12. CASE LoggedOut
  BY <1>12 DEF LoggedOut, Connected
<1>13. ASSUME NEW q \in Quitters, ConnectedLogout(q) PROVE HurriedInv'
  BY <1>13 DEF ConnectedLogout, Connected
<1>14. CASE Request
  BY <1>14 DEF Request, Connected
<1>15. CASE IdleReturns
  BY <1>15 DEF IdleReturns, Answer
<1>16. CASE CallReturns
  BY <1>16 DEF CallReturns
<1>17. CASE Done
  BY <1>17 DEF Done
<1>18. CASE ServerLogout
  BY <1>18 DEF ServerLogout
<1>19. CASE Drain
  BY <1>19 DEF Drain
<1>20. CASE CloseChannels
  BY <1>20 DEF CloseChannels
<1>21. CASE Lose
  BY <1>21 DEF Lose
<1>22. CASE UNCHANGED vars
  BY <1>22 DEF vars
<1> QED
  BY <1>1, <1>2, <1>3, <1>4, <1>5, <1>6, <1>7, <1>8, <1>9, <1>10, <1>11, <1>12,
     <1>13, <1>14, <1>15, <1>16, <1>17, <1>18, <1>19, <1>20, <1>21, <1>22
  DEF Next, Caller, Select, Blocking, Shutdown

(* However long the server is out of reach, at most two attempts to        *)
(* connect do not wait for the delay: the start and the stop of one IDLE.  *)
THEOREM NoHammering == Spec => []HurriedBounded
<1>1. Init => HurriedInv
  BY DEF Init, HurriedInv, ClientStateConnected, ClientStateDisconnected
<1>2. TypeOK /\ AnswerInv /\ AnswerInv' /\ HurriedInv /\ [Next]_vars => HurriedInv'
  BY HurriedStep
<1>3. HurriedInv => HurriedBounded
  BY DEF HurriedInv, HurriedBounded
<1> QED BY <1>1, <1>2, <1>3, AnswerInvAlways, ClientTypeCorrect, PTL DEF Spec

-----------------------------------------------------------------------------
(* Logout *)

LEMMA OneLogoutStep == ASSUME TypeOK, OneLogout, [Next]_vars PROVE OneLogout'
<1> USE DEF TypeOK, OneLogout
<1>1. ASSUME NEW q \in Quitters, Logout(q) PROVE OneLogout'
  BY <1>1 DEF Logout
<1>2. ASSUME NEW q \in Quitters, DisconnectedLogout(q) PROVE OneLogout'
  BY <1>2 DEF DisconnectedLogout
<1>3. ASSUME NEW q \in Quitters, ConnectedLogout(q) PROVE OneLogout'
  BY <1>3 DEF ConnectedLogout
<1>4. CASE Done
  BY <1>4 DEF Done
<1>5. CASE Drain
  <2>1. UNCHANGED shutdown
    BY <1>5 DEF Drain
  <2>2. CASE UNCHANGED quitPc
    BY <2>1, <2>2
  <2>3. ASSUME NEW q \in Quitters, quitPc' = [quitPc EXCEPT ![q] = "done"]
        PROVE  OneLogout'
    BY <2>1, <2>3
  <2> QED BY <1>5, <2>2, <2>3 DEF Drain
<1>6. ASSUME Next, ~Done, ~Drain,
             \A q \in Quitters : ~Logout(q) /\ ~DisconnectedLogout(q) /\ ~ConnectedLogout(q)
      PROVE  UNCHANGED <<quitPc, shutdown>>
  BY <1>6 DEF Next, Caller, Select, Blocking, Shutdown, runVars, Call, Send, Return,
     Stop, FakeIdleStop, FakeIdleStart, DelayOver, Connect, Upgrade, LoggedOut,
     Request, IdleReturns, CallReturns, ServerLogout, CloseChannels, Lose
<1>7. CASE UNCHANGED <<quitPc, shutdown>>
  BY <1>7
<1>8. CASE UNCHANGED vars
  BY <1>7, <1>8 DEF vars, runVars
<1> QED BY <1>1, <1>2, <1>3, <1>4, <1>5, <1>6, <1>7, <1>8

(* However many goroutines log out, one request is made: run, which reads  *)
(* logoutChannel once, leaves nobody waiting for an answer.                *)
THEOREM LogoutIsOnce == Spec => []OneLogout
<1>1. Init => OneLogout
  BY DEF Init, OneLogout
<1>2. TypeOK /\ OneLogout /\ [Next]_vars => OneLogout'
  BY OneLogoutStep
<1> QED BY <1>1, <1>2, ClientTypeCorrect, PTL DEF Spec
=============================================================================
