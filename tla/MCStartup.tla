----------------------------- MODULE MCStartup -----------------------------
(* Settings with every transport and with OAUTHBEARER or the default       *)
(* method; command lines that set the transport, debug, both or neither    *)
EXTENDS Startup

Base == [Zero EXCEPT !["url"] = "imaps://imap.gmail.com/INBOX",
                     !["username"] = "joe.bloggs", !["password-file"] = "my-password",
                     !["oauth2-client-id"] = "mailpump", !["oauth2-client-secret"] = "d2ba",
                     !["oauth2-token-url"] = "token", !["oauth2-scopes"] = "imap"]
MCSettings ==
  {[Base EXCEPT !["auth-method"] = m, !["transport"] = t] :
     m \in {Unset, "oauthbearer"}, t \in {Unset, "standard"}}
MCArguments ==
  {[Zero EXCEPT !["transport"] = t, !["debug"] = d] :
     t \in {Unset, "standard"}, d \in {Unset, "true"}}
MCSizes == [SizeOptions -> {0, 1}]
MCUrl == [u \in {Base["url"]} |-> [scheme |-> "imaps", mailbox |-> "INBOX"]]
============================================================================
