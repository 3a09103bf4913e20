------------------------------- MODULE Startup ------------------------------
(***************************************************************************)
(* How mailpump gets from its settings to two running clients: the flags   *)
(* of `run` (cmd/config) or the JSON file of `run-multi` (one source of    *)
(* it), the resolution of each side into a connection and a transport, and *)
(* the opening of the clients in turn (pump.NewMailPump, multipump.NewPump,*)
(* imap/client), including what a failure closes.                          *)
(***************************************************************************)
EXTENDS Naturals, Sequences

CONSTANTS
  Settings,        \* what the environment or the file may set: Fields -> value or Unset
  Arguments,       \* what the command line may set, likewise
  Sizes,           \* what a user may give for SizeOptions: functions to numbers
  Url              \* url -> [scheme, mailbox], what url.Parse makes of it

Unset == ""
Sides == {"source", "dest"}

\* makeIMAPParameters, makeParameters: the order in which flags are applied
FlagNames ==
  <<"url", "auth-method", "username", "password", "password-file", "tls-skip-verify",
    "transport", "debug", "oauth2-provider", "oauth2-client-id",
    "oauth2-client-secret", "oauth2-token-url", "oauth2-scopes">>
Flags == {FlagNames[i] : i \in DOMAIN FlagNames}
\* only the JSON file can give a systemd credential; nothing gives an auth url
Fields == Flags \cup {"systemd-credential", "oauth2-auth-url"}
OAuthFields == {"oauth2-client-id", "oauth2-client-secret", "oauth2-auth-url",
                "oauth2-token-url", "oauth2-scopes"}
Required == {"url", "username"}

\* Flag.Destination: transport and debug have the same one
Destination(name) == IF name = "debug" THEN "transport" ELSE name

Default(name) ==
  CASE name = "auth-method"     -> "LOGIN"
    [] name = "transport"       -> "persistent"
    [] name = "oauth2-provider" -> "custom"
    [] OTHER                    -> Unset

SizeOptions == {"batch-size", "fetch-buffer-size"}

VARIABLES
  command,   \* run or run-multi
  main,      \* apply, parse, load, resolve, open, abort, running or failed
  given,     \* Sides -> what the environment (run) or the file (run-multi) sets
  args,      \* Sides -> what the command line sets
  next,      \* apply: the next flag of either side; resolve, open: the next side
  todo,      \* arguments not parsed yet: <<side, name>> pairs
  cfg,       \* Sides -> Fields -> value
  sizes,     \* SizeOptions -> number; 0 if given as 0 or, in the file, not given
  conn,      \* Sides -> the resolved connection, or None
  client,    \* Sides -> none, dialled, up, down (between connections), leaving (run has
             \* answered Logout and has yet to log out itself) or closed
  selected,  \* the sides whose connection has its mailbox selected
  quitting   \* the sides whose persistent client has its shutdown set

vars == <<command, main, given, args, next, todo, cfg, sizes, conn, client, selected,
          quitting>>

None == [auth |-> Unset]

\* the zero value of IMAPConfig
Zero == [f \in Fields |-> Unset]

Init ==
  /\ command \in {"run", "run-multi"}
  /\ main = IF command = "run" THEN "apply" ELSE "load"
  /\ given \in [Sides -> Settings]
  /\ args \in IF command = "run" THEN [Sides -> Arguments] ELSE [Sides -> {Zero}]
  /\ next = 1
  /\ todo = {a \in Sides \X Flags : args[a[1]][a[2]] # Unset}
  /\ cfg = [s \in Sides |-> Zero]
  /\ sizes \in Sizes
  /\ conn = [s \in Sides |-> None]
  /\ client = [s \in Sides |-> "none"]
  /\ selected = {} /\ quitting = {}

(***************************************************************************)
(* run: the flags                                                          *)
(***************************************************************************)
\* Flag.Apply (external): the environment's value or the default goes to the
\* destination, whatever is there already
ApplyFlag ==
  /\ main = "apply"
  /\ LET name == FlagNames[next]
         value(s) == IF given[s][name] # Unset THEN given[s][name] ELSE Default(Destination(name))
     IN  cfg' = [s \in Sides |-> [cfg[s] EXCEPT ![Destination(name)] = value(s)]]
  /\ main' = IF next = Len(FlagNames) THEN "parse" ELSE "apply"
  /\ next' = IF next = Len(FlagNames) THEN 1 ELSE next + 1
  /\ UNCHANGED <<command, given, args, todo, sizes, conn, client, selected, quitting>>

\* the arguments, in the order the user wrote them
ParseArg(a) ==
  /\ main = "parse"
  /\ todo' = todo \ {a}
  /\ cfg' = [cfg EXCEPT ![a[1]][Destination(a[2])] = args[a[1]][a[2]]]
  /\ UNCHANGED <<command, main, given, args, next, sizes, conn, client, selected, quitting>>

IsSet(s, name) == given[s][name] # Unset \/ args[s][name] # Unset
Parsed ==
  /\ main = "parse" /\ todo = {}
  /\ main' = IF \A s \in Sides, name \in Required : IsSet(s, name)
               THEN "resolve" ELSE "failed"
  /\ UNCHANGED <<command, given, args, next, todo, cfg, sizes, conn, client, selected,
                 quitting>>

\* run-multi: the file may not be readable or not be JSON; OAuth2 settings
\* other than the provider are not read from it
Load ==
  /\ main = "load"
  /\ \/ /\ main' = "resolve"
        /\ cfg' = [s \in Sides |->
                     [f \in Fields |-> IF f \in OAuthFields THEN Unset ELSE given[s][f]]]
     \/ main' = "failed" /\ UNCHANGED cfg
  /\ todo' = {}
  /\ UNCHANGED <<command, given, args, next, sizes, conn, client, selected, quitting>>

(***************************************************************************)
(* IMAPConfig.Resolve                                                      *)
(***************************************************************************)
\* fillDefaults
Filled(c) == [f \in Fields |-> IF c[f] = Unset THEN Default(f) ELSE c[f]]

ToUpper(method) ==
  CASE method = "login" -> "LOGIN" [] method = "plain" -> "PLAIN"
    [] method = "oauthbearer" -> "OAUTHBEARER" [] OTHER -> method

\* OAuth2Config.Resolve
OAuth2Complete(c) ==
  c["oauth2-provider"] = "custom" /\ \A f \in OAuthFields : c[f] # Unset

\* validateUserPass: where the password comes from
PasswordSources == <<"password", "password-file", "systemd-credential">>
HasUserPass(c) ==
  c["username"] # Unset /\ \E i \in DOMAIN PasswordSources : c[PasswordSources[i]] # Unset
PasswordFrom(c) ==
  PasswordSources[CHOOSE i \in DOMAIN PasswordSources :
    /\ c[PasswordSources[i]] # Unset
    /\ \A j \in 1..(i - 1) : c[PasswordSources[j]] = Unset]

Resolvable(c) ==
  /\ Url[c["url"]].scheme \in {"imap", "imaps"}
  /\ ToUpper(c["auth-method"]) \in {"LOGIN", "PLAIN", "OAUTHBEARER"}
  /\ ToUpper(c["auth-method"]) = "OAUTHBEARER" => OAuth2Complete(c)
  /\ HasUserPass(c)

Resolved(c) ==
  [auth      |-> ToUpper(c["auth-method"]),
   tls       |-> Url[c["url"]].scheme = "imaps",
   verify    |-> c["tls-skip-verify"] = Unset,
   mailbox   |-> Url[c["url"]].mailbox,
   transport |-> IF c["transport"] # "persistent" THEN "standard" ELSE "persistent"]

\* BuildPumpConfig, Source.Resolve: a size of zero is replaced by the default
DefaultSize(option) ==
  CASE option = "fetch-buffer-size"                     -> 20
    [] option = "batch-size" /\ command = "run"         -> 15
    [] option = "batch-size" /\ command = "run-multi"   -> 10
NonZero == [o \in SizeOptions |-> IF sizes[o] = 0 THEN DefaultSize(o) ELSE sizes[o]]

\* run resolves and opens the source first, run-multi the destination
Order == IF command = "run" THEN <<"source", "dest">> ELSE <<"dest", "source">>
Current == Order[next]

\* a file with a password may not be readable
Resolve ==
  /\ main = "resolve"
  /\ LET c == Filled(cfg[Current])
     IN  \/ /\ Resolvable(c)
            /\ conn' = [conn EXCEPT ![Current] = Resolved(c)]
            /\ cfg' = [cfg EXCEPT ![Current] = c]
            /\ main' = IF next = 2 THEN "open" ELSE "resolve"
            /\ next' = IF next = 2 THEN 1 ELSE 2
            /\ sizes' = IF next = 2 THEN NonZero ELSE sizes
         \/ /\ ~Resolvable(c) \/ PasswordFrom(c) # "password"
            /\ main' = "failed"
            /\ UNCHANGED <<next, cfg, sizes, conn>>
  /\ UNCHANGED <<command, given, args, todo, client, selected, quitting>>

(***************************************************************************)
(* NewMailPump, NewPump: the clients, one after the other                  *)
(***************************************************************************)
Opened == /\ main' = IF next = 2 THEN "running" ELSE "open"
          /\ next' = IF next = 2 THEN 1 ELSE 2

\* nothing else is open if the first client fails
OpenFailed == /\ main' = IF next = 2 THEN "abort" ELSE "failed"
              /\ UNCHANGED next

\* the standard client: NewClient dials ...
Dial ==
  /\ main = "open" /\ conn[Current].transport = "standard" /\ client[Current] = "none"
  /\ \/ client' = [client EXCEPT ![Current] = "dialled"] /\ UNCHANGED <<main, next>>
     \/ OpenFailed /\ UNCHANGED client
  /\ UNCHANGED <<command, given, args, todo, cfg, sizes, conn, selected, quitting>>

\* ... and authenticates; a failure logs out again
Authenticate ==
  /\ main = "open" /\ client[Current] = "dialled"
  /\ \/ client' = [client EXCEPT ![Current] = "up"] /\ Opened
     \/ client' = [client EXCEPT ![Current] = "closed"] /\ OpenFailed
  /\ UNCHANGED <<command, given, args, todo, cfg, sizes, conn, selected, quitting>>

\* the persistent client: NewClient starts run, which connects in its own time
NewPersistent ==
  /\ main = "open" /\ conn[Current].transport = "persistent"
  /\ client' = [client EXCEPT ![Current] = "down"]
  /\ Opened
  /\ UNCHANGED <<command, given, args, todo, cfg, sizes, conn, selected, quitting>>

\* makeAndInitClient: a connection counts once the mailbox is selected; an
\* attempt that fails changes nothing here
Connect(s) ==
  /\ client[s] = "down"
  /\ client' = [client EXCEPT ![s] = "up"]
  /\ selected' = IF conn[s].mailbox # Unset THEN selected \cup {s} ELSE selected
  /\ UNCHANGED <<command, main, given, args, next, todo, cfg, sizes, conn, quitting>>

\* the persistent client notices that the connection is gone
Disconnect(s) ==
  /\ client[s] = "up" /\ conn[s].transport = "persistent"
  /\ client' = [client EXCEPT ![s] = "down"]
  /\ selected' = selected \ {s}
  /\ UNCHANGED <<command, main, given, args, next, todo, cfg, sizes, conn, quitting>>

(***************************************************************************)
(* A failed start: recv.Close(), closeAndWait(pump.ingestClient).  Close   *)
(* need not come back: before tick has started nobody reads the receiver's *)
(* messages, and a loop stuck on a full channel never sees the request.    *)
(***************************************************************************)
First == Order[1]

\* the receiver's loop calls FlagQuit, ingest.run calls Logout: shutdown is set
Quit ==
  /\ main = "abort" /\ conn[First].transport = "persistent"
  /\ quitting' = quitting \cup {First}
  /\ UNCHANGED <<command, main, given, args, next, todo, cfg, sizes, conn, client, selected>>

\* run reads the request and answers it, then logs out of its connection
LogoutRead(s) ==
  /\ s \in quitting /\ client[s] \in {"up", "down"}
  /\ client' = [client EXCEPT ![s] = IF client[s] = "up" THEN "leaving" ELSE "closed"]
  /\ UNCHANGED <<command, main, given, args, next, todo, cfg, sizes, conn, selected, quitting>>
Leave(s) ==
  /\ client[s] = "leaving"
  /\ client' = [client EXCEPT ![s] = "closed"]
  /\ selected' = selected \ {s}
  /\ UNCHANGED <<command, main, given, args, next, todo, cfg, sizes, conn, quitting>>

\* The receiver's Close calls Logout once the loop has left.  The standard
\* client's closes the connection; the persistent one's returns at once if
\* FlagQuit's came first.  The ingest client's Close waits for its only Logout.
CloseReturns ==
  /\ main = "abort"
  /\ \/ /\ conn[First].transport = "standard"
        /\ client' = [client EXCEPT ![First] = "closed"]
        /\ selected' = selected \ {First}
     \/ /\ conn[First].transport = "persistent"
        /\ First \in quitting
        /\ First = "dest" => client[First] \in {"leaving", "closed"}
        /\ UNCHANGED <<client, selected>>
  /\ main' = "failed"
  /\ UNCHANGED <<command, given, args, next, todo, cfg, sizes, conn, quitting>>

Next ==
  \/ ApplyFlag \/ (\E a \in todo : ParseArg(a)) \/ Parsed \/ Load
  \/ Resolve \/ Dial \/ Authenticate \/ NewPersistent \/ Quit \/ CloseReturns
  \/ \E s \in Sides : Connect(s) \/ Disconnect(s) \/ LogoutRead(s) \/ Leave(s)

Spec == Init /\ [][Next]_vars

-----------------------------------------------------------------------------
(* When the start has failed, no client is left behind that does not know: *)
(* none is connected or reconnecting but the source's persistent one,      *)
(* which has its shutdown set and will leave at its next select.           *)
NoClientForgotten ==
  main = "failed" =>
    \A s \in Sides :
      \/ client[s] \in {"none", "leaving", "closed"}
      \/ command = "run" /\ s = "source" /\ s \in quitting

(* No setting makes a connection authenticate with OAUTHBEARER: nothing    *)
(* gives the auth url that OAuth2Config.Resolve asks for (README.md lists  *)
(* the method and its parameters, and no auth url among them).             *)
NoOAuthBearer == \A s \in Sides : conn[s].auth # "OAUTHBEARER"

(* Without a transport or debug argument `run` uses the persistent client  *)
(* unless the environment sets debug: the environment's transport is       *)
(* overwritten by the default of the flag applied after it.                *)
EnvTransportIgnored ==
  command = "run" =>
    \A s \in Sides :
      (args[s]["transport"] = Unset /\ args[s]["debug"] = Unset
        /\ given[s]["debug"] = Unset /\ conn[s] # None)
      => conn[s].transport = "persistent"

(* The clients are opened with a batch size and a fetch buffer that are    *)
(* not zero, as module Receiver assumes: a buffer of zero would never      *)
(* fetch a message.                                                        *)
SizesPositive ==
  main \in {"open", "abort", "running"} => \A o \in SizeOptions : sizes[o] # 0

(* A source that is connected has its configured mailbox selected          *)
(* (imap/types.go: "Mailbox is the default mailbox to be used when         *)
(* connecting"); without it doFetch never asks the server for anything.    *)
MailboxSelected ==
  client["source"] = "up" /\ conn["source"].mailbox # Unset => "source" \in selected
=============================================================================
