---------------------------- MODULE MailReceiver ----------------------------
(***************************************************************************)
(* What a receiver (receiver/) promises the pump that uses it, through     *)
(* receiver.Config.Channel, Client.Ack and Client.Close.  The state of a   *)
(* receiver is one record p; each step is the set of records it may lead   *)
(* to, so that a pump can hold several receivers.  Module Receiver is      *)
(* shown to keep the promise; module MultiPump relies on it.               *)
(***************************************************************************)
EXTENDS Naturals, Sequences, FiniteSets

CONSTANTS
  FetchBufferSize,   \* messages of one fetch; also the capacity of acks
  OutCap             \* capacity of the channel the messages go out on

\* exited: the loop has ended; pending: what is left to send of a fetch result;
\* tracked: sent out and not removed yet; done: ever acknowledged without an
\* error; box: the source mailbox; out, acks: the channels; quit: Close was called
NewState(mail) ==
  [exited |-> FALSE, pending |-> {}, tracked |-> {}, done |-> {}, box |-> mail,
   out |-> <<>>, acks |-> <<>>, quit |-> FALSE]

Step(guard, q) == IF guard THEN {q} ELSE {}

\* waits for an event: a loop that is sending does nothing else
AtSelect(p) == ~p.exited /\ p.pending = {}
\* waits for its user to take a message
Blocked(p)  == p.pending # {} /\ Len(p.out) = OutCap

\* What is tracked is not sent out again, except that after a failed call an
\* acknowledged message may be.
Fetches(p, failed) ==
  {[p EXCEPT !.pending = S] :
     S \in {T \in SUBSET (p.box \ (p.tracked \ IF failed THEN p.done ELSE {})) :
              AtSelect(p) /\ Cardinality(T) <= FetchBufferSize}}

Delivers(p) ==
  {[p EXCEPT !.pending = @ \ {u}, !.tracked = @ \cup {u}, !.out = Append(@, u)] :
     u \in {v \in p.pending : ~Blocked(p)}}

ReadsAck(p) ==
  Step(AtSelect(p) /\ p.acks # <<>>,
       [p EXCEPT !.acks = Tail(@),
                 !.done = @ \cup {u \in p.tracked : Head(p.acks) = <<u, TRUE>>}])

\* Acknowledged messages, and no others, leave the mailbox; after a failed call
\* some of them may stay tracked.
Removes(p, failed) ==
  {[p EXCEPT !.box = @ \ r.gone, !.tracked = @ \ r.forgotten] :
     r \in {c \in [gone : SUBSET (p.box \cap p.done), forgotten : SUBSET p.done] :
              /\ AtSelect(p)
              /\ c.forgotten \subseteq c.gone /\ (failed \/ c.forgotten = c.gone)}}

Exits(p) == Step(AtSelect(p) /\ p.quit, [p EXCEPT !.exited = TRUE])

\* The receiver's user and the server
Takes(p)  == Step(p.out # <<>>, [p EXCEPT !.out = Tail(@)])
Acks(p, u, noError) ==
  Step(Len(p.acks) < FetchBufferSize, [p EXCEPT !.acks = Append(@, <<u, noError>>)])
Closes(p) == {[p EXCEPT !.quit = TRUE]}
Arrives(p, uids) ==
  {[p EXCEPT !.box = @ \cup {u}] : u \in uids \ (p.box \cup p.tracked \cup p.done)}

\* the last iteration of the loop may read an acknowledgement and leave
Works(p, failed) ==
  Fetches(p, failed) \cup Delivers(p) \cup Removes(p, failed)
    \cup UNION {{q} \cup Exits(q) : q \in {p} \cup ReadsAck(p)}

Used(p, uids) ==
  Takes(p) \cup Closes(p) \cup Arrives(p, uids)
    \cup UNION {Acks(p, u, noError) : u \in uids, noError \in BOOLEAN}
=============================================================================
