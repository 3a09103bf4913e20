----------------------------- MODULE MCReceiver -----------------------------
(* The receiver on small instances *)
EXTENDS Receiver
=============================================================================
