------------------------- MODULE MCPersistentClient -------------------------
(* The persistent client on a small instance *)
EXTENDS PersistentClient
=============================================================================
