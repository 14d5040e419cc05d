---------------------------- MODULE HttpExchange ----------------------------
(* What hs-http promises each client over HTTP/1, whatever the event loop, the
   descriptors and the buffers do: one response per connection, announced once
   with its length, delivered from its first unit on without a gap, and the
   connection ended when all of it is delivered. It ends earlier only for a
   client that has left, for a file that became shorter than announced, or
   before it was accepted.                                                 *)
EXTENDS Integers, Sequences

CONSTANTS Clients, Lengths   \* the clients; the lengths a response may have, all above 0

VARIABLES
  phase,     \* "idle", "open", "answering", then "answered" or "dropped"
  promised,  \* length of the response announced, 0 before
  stream,    \* the units delivered
  left,      \* the client half-closed or reset its connection
  short      \* the content became shorter than it was

exchangeVars == <<phase, promised, stream, left, short>>

Ended == {"answered", "dropped"}
Whole(n) == [i \in 1..n |-> i]

Init ==
  /\ phase = [c \in Clients |-> "idle"]
  /\ promised = [c \in Clients |-> 0]
  /\ stream = [c \in Clients |-> <<>>]
  /\ left = [c \in Clients |-> FALSE]
  /\ short = FALSE

Move(c, p) == phase' = [phase EXCEPT ![c] = p]

Open(c) ==
  /\ phase[c] = "idle" /\ Move(c, "open")
  /\ UNCHANGED <<promised, stream, left, short>>

Announce(c) ==
  /\ phase[c] = "open" /\ Move(c, "answering")
  /\ \E n \in Lengths : promised' = [promised EXCEPT ![c] = n]
  /\ UNCHANGED <<stream, left, short>>

(* Some more units, and never past the promise. *)
Deliver(c) ==
  /\ phase[c] = "answering"
  /\ \E n \in Len(stream[c])..promised[c] : stream' = [stream EXCEPT ![c] = Whole(n)]
  /\ UNCHANGED <<phase, promised, left, short>>

(* The end of a connection, with what is left of the response if any. *)
Finish(c) ==
  /\ phase[c] = "answering" /\ Move(c, "answered")
  /\ stream' = [stream EXCEPT ![c] = Whole(promised[c])]
  /\ left' = [left EXCEPT ![c] = FALSE]
  /\ UNCHANGED <<promised, short>>

Drop(c) ==
  /\ \/ phase[c] = "idle"
     \/ phase[c] \in {"open", "answering"} /\ left[c]
     \/ phase[c] = "answering" /\ short
  /\ Move(c, "dropped")
  /\ left' = [left EXCEPT ![c] = FALSE]
  /\ UNCHANGED <<promised, stream, short>>

Leave(c) ==
  /\ phase[c] \notin Ended /\ ~left[c]
  /\ left' = [left EXCEPT ![c] = TRUE]
  /\ UNCHANGED <<phase, promised, stream, short>>

Shorten ==
  /\ ~short /\ short' = TRUE
  /\ UNCHANGED <<phase, promised, stream, left>>

Next ==
  \/ \E c \in Clients :
       Open(c) \/ Announce(c) \/ Deliver(c) \/ Finish(c) \/ Drop(c) \/ Leave(c)
  \/ Shorten

Spec == Init /\ [][Next]_exchangeVars
=============================================================================
