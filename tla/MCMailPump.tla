----------------------------- MODULE MCMailPump -----------------------------
(* The pump on small instances *)
EXTENDS MailPump
=============================================================================
