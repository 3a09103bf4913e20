--------------------------- MODULE StartupProofs ----------------------------
(***************************************************************************)
(* Theorems about module Startup, for every environment, configuration     *)
(* file and command line.                                                  *)
(***************************************************************************)
EXTENDS Startup, TLAPS

(* Nothing is open before the clients are opened; while the second one is  *)
(* opened only the first can be; an abort has only the first to close.     *)
(* First is the source in `run`, which is why only `run` can leave one     *)
(* that is still on its way out.                                           *)
OpenInv ==
  /\ command \in {"run", "run-multi"}
  /\ client \in [Sides -> {"none", "dialled", "up", "down", "leaving", "closed"}]
  /\ main \in {"apply", "parse", "load", "resolve", "open", "abort", "running", "failed"}
  /\ main \in {"apply", "parse", "load", "resolve"} => \A s \in Sides : client[s] = "none"
  /\ main \in {"parse", "load"} => next = 1
  /\ main \in {"resolve", "open"} => next \in {1, 2}
  /\ main = "open" => /\ client[Current] \in {"none", "dialled"}
                      /\ next = 1 => client[Order[2]] = "none"
  /\ main = "abort" => client[Order[2]] \in {"none", "closed"}
  /\ NoClientForgotten

LEMMA OrderSides ==
  ASSUME command \in {"run", "run-multi"}
  PROVE  /\ Order[1] \in Sides /\ Order[2] \in Sides /\ Order[1] # Order[2]
         /\ \A s \in Sides : s = Order[1] \/ s = Order[2]
         /\ Order[1] = IF command = "run" THEN "source" ELSE "dest"
  BY DEF Order, Sides

(* Settings: every configuration is a function on Fields; no flag writes   *)
(* the auth url, so it stays unset; once debug has been applied, the       *)
(* transport of a side for which neither is given is the default.          *)
IsConfig(c) == c = [f \in Fields |-> c[f]]
NotGiven(s) ==
  args[s]["transport"] = Unset /\ args[s]["debug"] = Unset /\ given[s]["debug"] = Unset
SettingsInv ==
  /\ cfg = [s \in Sides |-> cfg[s]] /\ \A s \in Sides : IsConfig(cfg[s])
  /\ \A a \in todo : a \in Sides \X Flags /\ args[a[1]][a[2]] # Unset
  /\ main = "apply" => next \in 1..13
  /\ main = "load" => command = "run-multi"
  /\ \A s \in Sides : cfg[s]["oauth2-auth-url"] = Unset
  /\ \A s \in Sides :
       command = "run" /\ NotGiven(s) /\ (main = "apply" => next > 8)
         => cfg[s]["transport"] = "persistent"
ConnInv ==
  /\ conn = [s \in Sides |-> conn[s]]
  /\ \A s \in Sides : conn[s].auth # "OAUTHBEARER"
  /\ \A s \in Sides :
       command = "run" /\ NotGiven(s) /\ conn[s] # None => conn[s].transport = "persistent"

LEMMA FlagFacts ==
  /\ Len(FlagNames) = 13 /\ DOMAIN FlagNames = 1..13
  /\ \A i \in 1..13 : FlagNames[i] \in Flags /\ (i > 8 => Destination(FlagNames[i]) # "transport")
  /\ FlagNames[8] = "debug"
  /\ \A name \in Flags : Destination(name) \in Flags /\ Destination(name) # "oauth2-auth-url"
  /\ Flags \subseteq Fields /\ {"transport", "oauth2-auth-url"} \subseteq Fields
<1>1. Len(FlagNames) = 13 /\ DOMAIN FlagNames = 1..13
  BY DEF FlagNames
<1>2. Flags = {"url", "auth-method", "username", "password", "password-file", "tls-skip-verify",
               "transport", "debug", "oauth2-provider", "oauth2-client-id",
               "oauth2-client-secret", "oauth2-token-url", "oauth2-scopes"}
  BY <1>1 DEF Flags, FlagNames
<1>3. \A i \in 1..13 : FlagNames[i] \in Flags
  BY <1>1 DEF Flags
<1>4. \A i \in 1..13 : i > 8 => FlagNames[i] # "transport" /\ FlagNames[i] # "debug"
  BY DEF FlagNames
<1>5. FlagNames[8] = "debug"
  BY DEF FlagNames
<1> QED
  BY <1>1, <1>2, <1>3, <1>4, <1>5 DEF Destination, Fields

(* The invariant of the opening is inductive.                              *)
LEMMA OpenInvariant == Spec => []OpenInv
<1>1. Init => OpenInv
  BY DEF Init, OpenInv, NoClientForgotten
<1>2. OpenInv /\ [Next]_vars => OpenInv'
  <2> SUFFICES ASSUME OpenInv, [Next]_vars PROVE OpenInv'
    OBVIOUS
  <2> USE OrderSides DEF OpenInv, NoClientForgotten, Current
  <2>0. Order' = Order
    BY DEF Next, vars, Order, ApplyFlag, ParseArg, Parsed, Load, Resolve, Dial, Authenticate,
           NewPersistent, Quit, CloseReturns, Connect, Disconnect, LogoutRead, Leave
  <2>1. CASE ApplyFlag
    BY <2>0, <2>1 DEF ApplyFlag
  <2>2. ASSUME NEW a \in todo, ParseArg(a) PROVE OpenInv'
    BY <2>0, <2>2 DEF ParseArg
  <2>3. CASE Parsed
    BY <2>0, <2>3 DEF Parsed
  <2>4. CASE Load
    BY <2>0, <2>4 DEF Load
  <2>5. CASE Resolve
    BY <2>0, <2>5 DEF Resolve
  <2>6. CASE Dial
    BY <2>0, <2>6 DEF Dial, OpenFailed
  <2>7. CASE Authenticate
    BY <2>0, <2>7 DEF Authenticate, Opened, OpenFailed
  <2>8. CASE NewPersistent
    BY <2>0, <2>8 DEF NewPersistent, Opened
  <2>9. CASE Quit
    BY <2>0, <2>9 DEF Quit, First
  <2>10. CASE CloseReturns
    BY <2>0, <2>10 DEF CloseReturns, First
  <2>11. ASSUME NEW s \in Sides, Connect(s) \/ Disconnect(s) PROVE OpenInv'
    BY <2>0, <2>11 DEF Connect, Disconnect
  <2>12. ASSUME NEW s \in Sides, LogoutRead(s) \/ Leave(s) PROVE OpenInv'
    BY <2>0, <2>12 DEF LogoutRead, Leave
  <2>13. CASE UNCHANGED vars
    BY <2>0, <2>13 DEF vars
  <2> QED
    BY <2>1, <2>2, <2>3, <2>4, <2>5, <2>6, <2>7, <2>8, <2>9, <2>10, <2>11, <2>12, <2>13
       DEF Next
<1> QED
  BY <1>1, <1>2, PTL DEF Spec

(* A failed start, wherever it failed, leaves no client that still means   *)
(* to serve: NewClient's deferred Logout, recv.Close() in NewMailPump and  *)
(* closeAndWait in NewPump miss none.  It does not say that Close returns, *)
(* nor that the source's persistent client is gone by then.                *)
THEOREM FailedStartForgetsNone == Spec => []NoClientForgotten
<1>1. OpenInv => NoClientForgotten
  BY DEF OpenInv
<1> QED
  BY <1>1, OpenInvariant, PTL

(* The settings are as the flags and the file left them.                   *)
LEMMA SettingsInvariant == Spec => []SettingsInv
<1>1. Init => SettingsInv
  BY FlagFacts DEF Init, SettingsInv, IsConfig, Zero
<1>2. OpenInv /\ SettingsInv /\ [Next]_vars => SettingsInv'
  <2> SUFFICES ASSUME OpenInv, SettingsInv, [Next]_vars PROVE SettingsInv'
    OBVIOUS
  <2>1. CASE ApplyFlag
    <3> DEFINE name == FlagNames[next]
               value(s) == IF given[s][name] # Unset THEN given[s][name]
                             ELSE Default(Destination(name))
    <3>1. /\ next \in 1..13 /\ name \in Flags /\ Destination(name) \in Fields
          /\ cfg' = [s \in Sides |-> [cfg[s] EXCEPT ![Destination(name)] = value(s)]]
      BY <2>1, FlagFacts DEF ApplyFlag, SettingsInv
    <3>2. \A s \in Sides : IsConfig(cfg'[s]) /\ cfg'[s]["oauth2-auth-url"] = Unset
      BY <3>1, FlagFacts DEF SettingsInv, IsConfig
    <3>3. ASSUME NEW s \in Sides, command' = "run", NotGiven(s)', main' = "apply" => next' > 8
          PROVE  cfg'[s]["transport"] = "persistent"
      <4>1. NotGiven(s) /\ command = "run" /\ next > 7
        BY <2>1, <3>1, <3>3, FlagFacts DEF ApplyFlag, NotGiven
      <4>2. CASE next = 8
        BY <4>1, <4>2, <3>1, FlagFacts
           DEF SettingsInv, IsConfig, NotGiven, Destination, Default
      <4>3. CASE next > 8
        BY <4>1, <4>3, <3>1, <2>1, FlagFacts DEF SettingsInv, IsConfig, ApplyFlag
      <4> QED
        BY <4>1, <4>2, <4>3, <3>1
    <3> QED
      BY <2>1, <3>1, <3>2, <3>3, FlagFacts DEF ApplyFlag, SettingsInv
  <2>2. ASSUME NEW a \in todo, ParseArg(a) PROVE SettingsInv'
    <3>1. a[1] \in Sides /\ a[2] \in Flags /\ args[a[1]][a[2]] # Unset
      BY DEF SettingsInv
    <3>2. cfg' = [cfg EXCEPT ![a[1]][Destination(a[2])] = args[a[1]][a[2]]]
      BY <2>2 DEF ParseArg
    <3>3. \A s \in Sides : IsConfig(cfg'[s]) /\ cfg'[s]["oauth2-auth-url"] = Unset
      BY <3>1, <3>2, FlagFacts DEF SettingsInv, IsConfig
    <3>4. ASSUME NEW s \in Sides, command = "run", NotGiven(s)
          PROVE  cfg'[s]["transport"] = "persistent"
      <4>1. cfg[s]["transport"] = "persistent"
        BY <2>2, <3>4 DEF SettingsInv, ParseArg
      <4>2. a[1] = s => Destination(a[2]) # "transport"
        BY <3>1, <3>4 DEF NotGiven, Destination
      <4> QED
        BY <4>1, <4>2, <3>1, <3>2, FlagFacts DEF SettingsInv, IsConfig
    <3> QED
      BY <2>2, <3>1, <3>2, <3>3, <3>4 DEF SettingsInv, ParseArg, NotGiven
  <2>3. CASE Parsed
    BY <2>3 DEF Parsed, SettingsInv, NotGiven
  <2>4. CASE Load
    BY <2>4, FlagFacts DEF Load, SettingsInv, IsConfig, OAuthFields, NotGiven
  <2>5. CASE Resolve
    <3> DEFINE c == Filled(cfg[Current])
    <3>1. Current \in Sides
      BY <2>5, OrderSides DEF Resolve, OpenInv, Current
    <3>2. /\ IsConfig(c) /\ c["oauth2-auth-url"] = Unset
          /\ cfg[Current]["transport"] = "persistent" => c["transport"] = "persistent"
      BY <3>1, FlagFacts DEF Filled, IsConfig, SettingsInv, Default, Unset
    <3>3. cfg' = cfg \/ cfg' = [cfg EXCEPT ![Current] = c]
      BY <2>5 DEF Resolve
    <3>4. \A s \in Sides : IsConfig(cfg'[s]) /\ cfg'[s]["oauth2-auth-url"] = Unset
      BY <3>1, <3>2, <3>3 DEF SettingsInv
    <3>5. \A s \in Sides : cfg[s]["transport"] = "persistent" => cfg'[s]["transport"] = "persistent"
      BY <3>1, <3>2, <3>3 DEF SettingsInv
    <3>6. cfg' = [s \in Sides |-> cfg'[s]]
      BY <3>1, <3>3 DEF SettingsInv
    <3> QED
      BY <2>5, <3>4, <3>5, <3>6 DEF Resolve, SettingsInv, NotGiven
  <2>6. CASE Dial \/ Authenticate \/ NewPersistent \/ Quit \/ CloseReturns
    BY <2>6 DEF Dial, Authenticate, NewPersistent, Quit, CloseReturns, Opened, OpenFailed,
                SettingsInv, NotGiven
  <2>7. ASSUME NEW s \in Sides, Connect(s) \/ Disconnect(s) \/ LogoutRead(s) \/ Leave(s)
        PROVE  SettingsInv'
    BY <2>7 DEF Connect, Disconnect, LogoutRead, Leave, SettingsInv, NotGiven
  <2>8. CASE UNCHANGED vars
    BY <2>8 DEF vars, SettingsInv, NotGiven
  <2> QED
    BY <2>1, <2>2, <2>3, <2>4, <2>5, <2>6, <2>7, <2>8 DEF Next
<1> QED
  BY <1>1, <1>2, OpenInvariant, PTL DEF Spec

(* What Resolve makes of the settings.                                     *)
LEMMA ConnInvariant == Spec => []ConnInv
<1>1. Init => ConnInv
  <2>1. None.auth # "OAUTHBEARER"
    BY DEF None, Unset
  <2> QED
    BY <2>1 DEF Init, ConnInv
<1>2. OpenInv /\ SettingsInv /\ ConnInv /\ [Next]_vars => ConnInv'
  <2> SUFFICES ASSUME OpenInv, SettingsInv, ConnInv, [Next]_vars PROVE ConnInv'
    OBVIOUS
  <2>1. CASE Resolve
    <3> DEFINE c == Filled(cfg[Current])
    <3>1. Current \in Sides
      BY <2>1, OrderSides DEF Resolve, OpenInv, Current
    <3>2. /\ c["oauth2-auth-url"] = Unset
          /\ cfg[Current]["transport"] = "persistent" => c["transport"] = "persistent"
      BY <3>1, FlagFacts DEF Filled, IsConfig, SettingsInv, Default, Unset
    <3>3. CASE UNCHANGED conn
      BY <2>1, <3>3 DEF Resolve, ConnInv, NotGiven
    <3>4. CASE Resolvable(c) /\ conn' = [conn EXCEPT ![Current] = Resolved(c)]
      <4>1. Resolved(c).auth # "OAUTHBEARER"
        BY <3>2, <3>4 DEF Resolvable, Resolved, OAuth2Complete, OAuthFields
      <4>2. command = "run" /\ NotGiven(Current) => Resolved(c).transport = "persistent"
        BY <2>1, <3>1, <3>2 DEF Resolve, SettingsInv, Resolved
      <4> QED
        BY <2>1, <3>1, <3>4, <4>1, <4>2 DEF Resolve, ConnInv, NotGiven
    <3> QED
      BY <2>1, <3>3, <3>4 DEF Resolve
  <2>2. CASE UNCHANGED <<conn, command, args, given>>
    BY <2>2 DEF ConnInv, NotGiven
  <2> QED
    BY <2>1, <2>2 DEF Next, vars, ApplyFlag, ParseArg, Parsed, Load, Dial, Authenticate,
                      NewPersistent, Quit, CloseReturns, Connect, Disconnect, LogoutRead, Leave
<1> QED
  BY <1>1, <1>2, OpenInvariant, SettingsInvariant, PTL DEF Spec

(* No environment, file or command line gives a connection that            *)
(* authenticates with OAUTHBEARER (oauth2.go: "oauth2 auth url not set").  *)
THEOREM OAuthBearerNeverResolves == Spec => []NoOAuthBearer
<1>1. ConnInv => NoOAuthBearer
  BY DEF ConnInv, NoOAuthBearer
<1> QED
  BY <1>1, ConnInvariant, PTL

(* The transport given in the environment has no effect on `run`: the      *)
(* debug flag is applied later and has the same destination.               *)
THEOREM TransportOfEnvironmentLost == Spec => []EnvTransportIgnored
<1>1. ConnInv => EnvTransportIgnored
  BY DEF ConnInv, EnvTransportIgnored, NotGiven
<1> QED
  BY <1>1, ConnInvariant, PTL

(* The clients are opened with sizes that are not zero, whatever the user  *)
(* gave or left out (the zero tests of BuildPumpConfig and Source.Resolve).*)
THEOREM SizesArePositive == Spec => []SizesPositive
<1>1. Init => SizesPositive
  BY DEF Init, SizesPositive
<1>2. OpenInv /\ SizesPositive /\ [Next]_vars => SizesPositive'
  <2> SUFFICES ASSUME OpenInv, SizesPositive, [Next]_vars PROVE SizesPositive'
    OBVIOUS
  <2>1. CASE Resolve
    <3>1. \A o \in SizeOptions : NonZero[o] # 0
      BY DEF OpenInv, NonZero, DefaultSize, SizeOptions
    <3> QED
      BY <2>1, <3>1 DEF Resolve, SizesPositive
  <2>2. CASE /\ UNCHANGED sizes
             /\ main' \in {"open", "abort", "running"} => main \in {"open", "abort", "running"}
    BY <2>2 DEF SizesPositive
  <2> QED
    BY <2>1, <2>2 DEF Next, vars, ApplyFlag, ParseArg, Parsed, Load, Dial, Authenticate,
                      NewPersistent, Opened, OpenFailed, Quit, CloseReturns, Connect,
                      Disconnect, LogoutRead, Leave
<1> QED
  BY <1>1, <1>2, OpenInvariant, PTL DEF Spec
=============================================================================
