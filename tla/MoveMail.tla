------------------------------ MODULE MoveMail ------------------------------
(***************************************************************************)
(* What the pump promises (README.md): messages of a source mailbox are    *)
(* moved to a destination.  A move is a copy followed by a removal.  The   *)
(* first copy is made of a message that is still in the source; repeats    *)
(* may come at any time after it, a removal never before it.               *)
(***************************************************************************)
EXTENDS Naturals

CONSTANT Messages     \* the messages that may ever arrive at the source

VARIABLES source,     \* the set of messages in the source mailbox
          dest        \* message -> number of copies at the destination

moveVars == <<source, dest>>

Init ==
  /\ source \subseteq Messages
  /\ dest = [m \in Messages |-> 0]

Arrive(m) ==
  /\ source' = source \cup {m}
  /\ UNCHANGED dest

Copy(m) ==
  /\ m \in source \/ dest[m] > 0
  /\ dest' = [dest EXCEPT ![m] = @ + 1]
  /\ UNCHANGED source

Remove(S) ==
  /\ \A m \in S : dest[m] > 0
  /\ source' = source \ S
  /\ UNCHANGED dest

Next ==
  \/ \E m \in Messages : Arrive(m) \/ Copy(m)
  \/ \E S \in SUBSET source : Remove(S)

Spec == Init /\ [][Next]_moveVars
=============================================================================
