------------------------------- MODULE Kernel -------------------------------
(* What hs-http uses of the operating system: one TCP socket per client, one
   epoll instance, the descriptor table and the served file. None of this is
   code of the repository; every rule below is the one the calls in src/ rely
   on. A client connects once, sends a request of ReqLen units, takes what the
   server wrote, and, when it is in Aborting, may half-close (FIN) or reset its
   connection at any moment. Units stand for bytes.                         *)
EXTENDS Integers, Sequences, FiniteSets

CONSTANTS Clients,    \* the peers; each one opens one connection
          Aborting,   \* those that may leave early
          NoClient,   \* no peer: the NULL of the connection table
          FdLimit,    \* descriptors left to the process after its own
          ReqLen,     \* units of a complete request
          FileLen,    \* length of the served file when the server starts
          SndCap      \* units a socket send buffer holds

ASSUME KernelAssumption ==
  /\ Aborting \subseteq Clients /\ NoClient \notin Clients
  /\ FdLimit \in Nat \ {0} /\ ReqLen \in Nat \ {0}
  /\ FileLen \in Nat /\ SndCap \in Nat \ {0}

VARIABLES
  sock,     \* per client: its connection as the kernel sees it
  backlog,  \* connections that wait for accept
  ready,    \* epoll's ready list: client sockets with an unreported edge
  fdtab,    \* what each descriptor is, and the file position behind it
  disk,     \* current length of the served file
  wire      \* per client: the units the kernel accepted for it, in order

kernelVars == <<sock, backlog, ready, fdtab, disk, wire>>

Least(a, b) == IF a <= b THEN a ELSE b

NoFd == 0           \* -1 in the code
Fds == 1..FdLimit
Unused == [kind |-> "free", pos |-> 0]
ASocket == [kind |-> "socket", pos |-> 0]
AFile == [kind |-> "file", pos |-> 0]
FreeFds == {f \in Fds : fdtab[f].kind = "free"}
(* The descriptor accept and open return: the lowest free one. *)
Lowest(f) == f \in FreeFds /\ \A g \in FreeFds : f <= g

Gone == {"fin", "reset", "broken"}   \* fin: half-closed; reset: RST; broken: FIN, then RST
Dead == {"reset", "broken"}

NewSock == [peer |-> "new", unsent |-> ReqLen, rcv |-> 0, snd |-> 0,
            flags |-> {}, interest |-> {}]
ClosedSock == [NewSock EXCEPT !.peer = "closed", !.unsent = 0]

Room(s) == SndCap - s.snd

(* poll(): what a socket reports. A reset socket is readable, writable and
   hung up; POLLERR is reported together with POLLHUP and is not kept apart. *)
Poll(s) == (IF s.rcv > 0 \/ s.peer \in Gone THEN {"IN"} ELSE {})
      \cup (IF Room(s) > 0 \/ s.peer \in Dead THEN {"OUT"} ELSE {})
      \cup (IF s.peer \in Dead THEN {"HUP"} ELSE {})

(* epoll: the events an interest set lets through; HUP needs no interest. A
   socket with no interest is not registered. *)
Mask(s) == IF s.interest = {} THEN {} ELSE Poll(s) \cap (s.interest \cup {"HUP"})

(* An edge puts the socket on the ready list if one of its bits is wanted. *)
Edge(c, s, bits) ==
  IF s.interest # {} /\ bits \cap (s.interest \cup {"HUP"}) # {}
    THEN ready \cup {c} ELSE ready

(* epoll_ctl ADD or MOD: a condition that already holds counts as an edge. *)
Armed(c, s) == IF Mask(s) # {} THEN ready \cup {c} ELSE ready

(* read(2) on a socket: the queue first, then the end of the stream or the
   error; with no room in the caller's buffer it returns 0. *)
Received(s, room) == Least(s.rcv, room)
ReadEnds(s, room) == room = 0 \/ (s.rcv = 0 /\ s.peer \in Gone)
ReadAgain(s, room) == room > 0 /\ s.rcv = 0 /\ s.peer \notin Gone

(* write(2) on a socket takes what fits; on a full one it fails with EAGAIN and
   the next drain raises an edge. *)
Full(s) == Room(s) = 0
Wrote(s, n) == [s EXCEPT !.snd = @ + n]
Refused(s) == [s EXCEPT !.flags = {"NOSPACE"}]

(* epoll_ctl ADD or MOD sets the interest and polls the socket: found full, its next
   drain raises an edge too. *)
Interested(s, events) ==
  [s EXCEPT !.interest = events, !.flags = IF Full(s) THEN {"NOSPACE"} ELSE @]

(* n consecutive units of a response, after the first `from` of them. *)
Units(from, n) == [i \in 1..n |-> from + i]

KernelInit ==
  /\ sock = [c \in Clients |-> NewSock]
  /\ backlog = {} /\ ready = {}
  /\ fdtab = [f \in Fds |-> Unused]
  /\ disk = FileLen
  /\ wire = [c \in Clients |-> <<>>]

Connect(c) ==
  /\ sock[c].peer = "new"
  /\ sock' = [sock EXCEPT ![c].peer = "up"]
  /\ backlog' = backlog \cup {c}
  /\ UNCHANGED <<ready, fdtab, disk, wire>>

SendUnit(c) ==
  /\ sock[c].peer = "up" /\ sock[c].unsent > 0
  /\ sock' = [sock EXCEPT ![c].unsent = @ - 1, ![c].rcv = @ + 1]
  /\ ready' = Edge(c, sock[c], {"IN"})
  /\ UNCHANGED <<backlog, fdtab, disk, wire>>

(* The client takes a unit. Only a write or a poll that found the buffer full
   (SOCK_NOSPACE) makes this a write edge. *)
Drain(c) ==
  /\ sock[c].peer \in {"up", "fin"} /\ sock[c].snd > 0
  /\ sock' = [sock EXCEPT ![c].snd = @ - 1, ![c].flags = {}]
  /\ ready' = IF "NOSPACE" \in sock[c].flags THEN Edge(c, sock[c], {"OUT"}) ELSE ready
  /\ UNCHANGED <<backlog, fdtab, disk, wire>>

Fin(c) ==
  /\ c \in Aborting /\ sock[c].peer = "up"
  /\ sock' = [sock EXCEPT ![c].peer = "fin"]
  /\ ready' = Edge(c, sock[c], {"IN"})
  /\ UNCHANGED <<backlog, fdtab, disk, wire>>

Reset(c) ==
  /\ c \in Aborting /\ sock[c].peer \in {"up", "fin"}
  /\ sock' = [sock EXCEPT ![c].peer = IF @ = "fin" THEN "broken" ELSE "reset",
                          ![c].snd = 0]
  /\ ready' = Edge(c, sock[c], {"IN", "OUT", "HUP"})
  /\ UNCHANGED <<backlog, fdtab, disk, wire>>

(* Another process shortens the served file, once. *)
TruncateFile ==
  /\ disk = FileLen /\ disk > 0
  /\ disk' = disk - 1
  /\ UNCHANGED <<sock, backlog, ready, fdtab, wire>>
=============================================================================
