------------------------------ MODULE EventLoop ------------------------------
(* The epoll loop of hs-http: main, handle_accept, the table of connections,
   the dispatch of handle_read and handle_write, and the read loops that end
   a connection. One thread runs all of it; pc is the system call or decision it
   is about to take, so that peers, the file and the kernel may move between any
   two of them. Http1Server and Http2Server add what the handlers of a protocol
   do once they have read.                                                  *)
EXTENDS Kernel

CONSTANTS InitBuf,    \* BUFFER_SIZE: first size of a read buffer
          SniffLen    \* units needed to tell the protocol

ASSUME LoopAssumption ==
  /\ InitBuf \in Nat /\ InitBuf >= 2
  /\ SniffLen \in Nat \ {0} /\ SniffLen <= ReqLen

VARIABLES
  connections,  \* the table: descriptor -> client of its Connection, or NoClient
  conn,         \* the Connection allocated for each client
  pc, batch,    \* where the thread is; events of this epoll_wait not yet handled
  ev, cur       \* the event being handled, and `conn` of the handlers

loopVars == <<connections, conn, pc, batch, ev, cur>>

ListenFd == 0
NoEvent == [fd |-> ListenFd, mask |-> {}, sock |-> NoClient]

Blank == [state |-> "NONE", protocol |-> "UNKNOWN", fd |-> NoFd, bytes_read |-> 0,
          read_buffer_size |-> 0, write_buffer_size |-> 0, bytes_written |-> 0,
          file_fd |-> NoFd, file_size |-> 0, file_offset |-> 0]
Freed == [Blank EXCEPT !.state = "FREED"]

LiveStates == {"READ_REQUEST", "PROCESS", "WRITE_RESPONSE", "WRITE_FILE"}
Live(c) == conn[c].state \in LiveStates

(* get_connection: NULL for a descriptor outside the table. *)
get_connection(f) == IF f \in Fds THEN connections[f] ELSE NoClient

LoopInit ==
  /\ KernelInit
  /\ connections = [f \in Fds |-> NoClient]
  /\ conn = [c \in Clients |-> Blank]
  /\ pc = "wait" /\ batch = {} /\ ev = NoEvent /\ cur = NoClient

Pcs == {"wait", "next", "accept", "sniff", "read", "process", "plugin", "static",
        "direct_header", "direct_body", "after_read", "send", "file_read",
        "file_write", "upgrade", "upgrade_settings", "h2_read", "h2_frames", "h2_write",
        "after_write", "killed"}

-----------------------------------------------------------------------------
(* Helpers of the handlers. *)

create_connection(c, f) ==
  /\ conn' = [conn EXCEPT ![c] = [Blank EXCEPT !.state = "READ_REQUEST", !.fd = f,
                                               !.read_buffer_size = InitBuf]]
  /\ connections' = [connections EXCEPT ![f] = c]

(* Mutant: the file stays open when its connection goes. *)
FreeLeavesFile(c) ==
  /\ connections' = [connections EXCEPT ![conn[c].fd] = NoClient]
  /\ conn' = [conn EXCEPT ![c] = Freed]
  /\ fdtab' = [fdtab EXCEPT ![conn[c].fd] = Unused]
  /\ sock' = [sock EXCEPT ![c] = ClosedSock]
  /\ ready' = ready \ {c}

(* Mutant: the table keeps the pointer. *)
FreeLeavesPointer(c) ==
  /\ conn' = [conn EXCEPT ![c] = Freed]
  /\ fdtab' = [f \in Fds |-> IF f \in {conn[c].fd, conn[c].file_fd}
                               THEN Unused ELSE fdtab[f]]
  /\ sock' = [sock EXCEPT ![c] = ClosedSock]
  /\ ready' = ready \ {c}
  /\ UNCHANGED connections

(* free_connection: closes the file, closes the socket (which drops it from
   epoll), clears the table entry and frees the structure. *)
free_connection(c) ==
  /\ connections' = [connections EXCEPT ![conn[c].fd] = NoClient]
  /\ conn' = [conn EXCEPT ![c] = Freed]
  /\ fdtab' = [f \in Fds |-> IF f \in {conn[c].fd, conn[c].file_fd}
                               THEN Unused ELSE fdtab[f]]
  /\ sock' = [sock EXCEPT ![c] = ClosedSock]
  /\ ready' = ready \ {c}

(* Mutant: the buffer grows one unit too late. *)
GrownLate(size, filled) == IF filled > size - 1 THEN 2 * size ELSE size

(* The doubling of read_buffer_size after a read. *)
Grown(size, filled) == IF filled >= size - 1 THEN 2 * size ELSE size

(* The room the read loops offer, one byte being kept for the terminator. *)
ReadRoom(c) == conn[c].read_buffer_size - conn[c].bytes_read - 1

(* One successful read of either read loop. *)
Receive(c) ==
  LET n == Received(sock[c], ReadRoom(c)) IN
  /\ ~ReadEnds(sock[c], ReadRoom(c)) /\ n > 0
  /\ sock' = [sock EXCEPT ![c].rcv = @ - n]
  /\ conn' = [conn EXCEPT ![c].bytes_read = @ + n,
                          ![c].read_buffer_size = Grown(@, conn[c].bytes_read + n)]

(* Mutant: the interest set is left as it is. *)
KeepInterest(c, s, events) == sock' = [sock EXCEPT ![c] = s] /\ UNCHANGED ready

(* mod_epoll on the socket of c, which is now s. *)
mod_epoll(c, s, events) ==
  LET t == Interested(s, events) IN
  /\ sock' = [sock EXCEPT ![c] = t]
  /\ ready' = Armed(c, t)

(* The handler is done with its event: the loop takes the next one. *)
NextEvent ==
  /\ pc' = "next" /\ ev' = NoEvent /\ cur' = NoClient

-----------------------------------------------------------------------------
(* The loop of main. *)

SocketEvent(c) == [fd |-> conn[c].fd, mask |-> Mask(sock[c]), sock |-> c]
ListenEvent == [fd |-> ListenFd, mask |-> {"IN"}, sock |-> NoClient]

(* What epoll_wait finds: an edge-triggered client on the ready list whose
   condition still holds, and the level-triggered listener. At most 1024
   descriptors exist, so MAX_EVENTS never cuts the list. *)
Pending == {SocketEvent(c) : c \in {d \in ready : Mask(sock[d]) # {}}}
      \cup (IF backlog # {} THEN {ListenEvent} ELSE {})

EpollWait ==
  /\ pc = "wait" /\ Pending # {}
  /\ batch' = Pending /\ ready' = {} /\ pc' = "next"
  /\ UNCHANGED <<sock, backlog, fdtab, disk, wire>>
  /\ UNCHANGED <<connections, conn, ev, cur>>

BatchDone ==
  /\ pc = "next" /\ batch = {}
  /\ pc' = "wait"
  /\ UNCHANGED <<connections, conn, batch, ev, cur, kernelVars>>

(* handle_read and handle_write: where the handler of a connection's protocol
   begins. A write handler that has nothing to do returns at once. *)
ReadHandler(protocol) ==
  CASE protocol = "UNKNOWN" -> "sniff"
    [] protocol = "HTTP1" -> "read"
    [] OTHER -> "h2_read"

WriteHandler(d) ==
  CASE d.protocol = "HTTP1" /\ d.state = "WRITE_RESPONSE" -> "send"
    [] d.protocol = "HTTP1" /\ d.state = "WRITE_FILE" -> "file_read"
    [] d.protocol = "HTTP2" /\ d.write_buffer_size > 0 -> "h2_write"
    [] OTHER -> "after_write"

(* The listener's event goes to handle_accept; another one to the connection of
   its descriptor, if there is still one, which reads first if EPOLLIN is set. *)
TakeEvent(e) ==
  LET c == get_connection(e.fd) IN
  /\ pc = "next" /\ e \in batch
  /\ batch' = batch \ {e}
  /\ IF e.fd # ListenFd /\ c = NoClient
       THEN UNCHANGED <<pc, ev, cur>>
       ELSE /\ ev' = e /\ cur' = c
            /\ pc' = CASE e.fd = ListenFd -> "accept"
                       [] e.fd # ListenFd /\ "IN" \notin e.mask -> "after_read"
                       [] OTHER -> ReadHandler(conn[c].protocol)
  /\ UNCHANGED <<connections, conn, kernelVars>>

(* Between the read and the write handler: leave the event if the connection
   is gone, else handle_write if EPOLLOUT is set. *)
AfterRead ==
  /\ pc = "after_read"
  /\ IF get_connection(ev.fd) # cur
       THEN NextEvent
       ELSE /\ pc' = IF "OUT" \in ev.mask THEN WriteHandler(conn[cur]) ELSE "after_write"
            /\ UNCHANGED <<ev, cur>>
  /\ UNCHANGED <<connections, conn, batch, kernelVars>>

(* EPOLLERR | EPOLLHUP frees what the handlers left alive. *)
AfterWrite ==
  /\ pc = "after_write"
  /\ IF "HUP" \in ev.mask /\ get_connection(ev.fd) = cur
       THEN free_connection(cur)
       ELSE UNCHANGED <<connections, conn, fdtab, sock, ready>>
  /\ NextEvent
  /\ UNCHANGED <<batch, backlog, disk, wire>>

-----------------------------------------------------------------------------
(* handle_accept: one accept per event. *)

AcceptFails ==
  /\ pc = "accept" /\ (backlog = {} \/ FreeFds = {})
  /\ NextEvent
  /\ UNCHANGED <<connections, conn, batch, kernelVars>>

Accept(c, f) ==
  LET s == Interested(sock[c], {"IN"}) IN
  /\ pc = "accept" /\ c \in backlog /\ Lowest(f)
  /\ backlog' = backlog \ {c}
  /\ fdtab' = [fdtab EXCEPT ![f] = ASocket]
  /\ create_connection(c, f)
  /\ sock' = [sock EXCEPT ![c] = s]
  /\ ready' = Armed(c, s)
  /\ NextEvent
  /\ UNCHANGED <<batch, disk, wire>>

(* set_nonblocking or epoll_ctl fails: the socket is closed again, in the
   second case by freeing the new connection. *)
AcceptRefused(c) ==
  /\ pc = "accept" /\ c \in backlog /\ FreeFds # {}
  /\ backlog' = backlog \ {c}
  /\ conn' = [conn EXCEPT ![c] = Freed]
  /\ sock' = [sock EXCEPT ![c] = ClosedSock]
  /\ NextEvent
  /\ UNCHANGED <<connections, batch, ready, fdtab, disk, wire>>

-----------------------------------------------------------------------------
(* handle_read, http1_handle_read. *)

(* Mutant: one read per event. *)
SniffReadOnce ==
  /\ pc = "sniff" /\ Receive(cur) /\ pc' = "after_read"
  /\ UNCHANGED <<backlog, ready, fdtab, disk, wire>>
  /\ UNCHANGED <<connections, batch, ev, cur>>

(* A read of the PROTO_UNKNOWN loop, which goes on until EAGAIN. *)
SniffRead ==
  /\ pc = "sniff" /\ Receive(cur)
  /\ UNCHANGED <<backlog, ready, fdtab, disk, wire>>
  /\ UNCHANGED <<connections, pc, batch, ev, cur>>

(* EAGAIN: with too little to tell the protocol the handler returns, else the
   first units say that it is p, and the handler of p runs. *)
SniffDone(p) ==
  /\ pc = "sniff" /\ ReadAgain(sock[cur], ReadRoom(cur))
  /\ IF conn[cur].bytes_read < SniffLen
       THEN /\ pc' = "after_read" /\ UNCHANGED conn
       ELSE /\ pc' = ReadHandler(p) /\ conn' = [conn EXCEPT ![cur].protocol = p]
  /\ UNCHANGED <<connections, batch, ev, cur, kernelVars>>

(* A read of the loop of http1_handle_read. *)
Http1Read ==
  /\ pc = "read" /\ Receive(cur)
  /\ UNCHANGED <<backlog, ready, fdtab, disk, wire>>
  /\ UNCHANGED <<connections, pc, batch, ev, cur>>

(* End of stream or an error in either loop. *)
ReadEnd ==
  /\ pc \in {"sniff", "read"} /\ ReadEnds(sock[cur], ReadRoom(cur))
  /\ free_connection(cur)
  /\ pc' = "after_read"
  /\ UNCHANGED <<backlog, disk, wire, batch, ev, cur>>

-----------------------------------------------------------------------------
(* Writes. *)

WritePcs == {"direct_header", "direct_body", "send", "file_write",
             "upgrade", "upgrade_settings", "h2_write"}

(* A write to a socket whose peer sent FIN and then RST raises SIGPIPE, which
   nothing in src/ ignores or catches: the process ends. *)
SigPipe ==
  /\ pc \in WritePcs /\ sock[cur].peer = "broken"
  /\ pc' = "killed"
  /\ UNCHANGED <<connections, conn, batch, ev, cur, kernelVars>>

(* The steps of the thread that belong to no protocol. *)
LoopStep ==
  \/ EpollWait \/ BatchDone \/ (\E e \in batch : TakeEvent(e))
  \/ AfterRead \/ AfterWrite
  \/ AcceptFails \/ (\E c \in Clients, f \in Fds : Accept(c, f))
  \/ (\E c \in Clients : AcceptRefused(c))
  \/ SniffRead \/ Http1Read \/ ReadEnd \/ SigPipe

-----------------------------------------------------------------------------
(* Types and properties that every protocol keeps. *)

SockType == [peer : {"new", "up", "fin", "reset", "broken", "closed"},
             unsent : Nat, rcv : Nat, snd : 0..SndCap,
             flags : SUBSET {"NOSPACE"}, interest : SUBSET {"IN", "OUT"}]
DescriptorType == [kind : {"free", "socket", "file"}, pos : Nat]
EventType == [fd : Fds \cup {ListenFd}, mask : SUBSET {"IN", "OUT", "HUP"},
              sock : Clients \cup {NoClient}]

(* Descriptors are neither leaked nor shared: the open ones are exactly the
   socket and the file of each live connection, each held by one of them, and
   the table maps a descriptor to the connection that holds it. *)
DescriptorsAccounted ==
  /\ \A f \in Fds : fdtab[f].kind = "socket" <=> connections[f] # NoClient
  /\ \A f \in Fds : connections[f] # NoClient =>
       Live(connections[f]) /\ conn[connections[f]].fd = f
  /\ \A f \in Fds : fdtab[f].kind = "file" <=> \E c \in Clients : Live(c) /\ conn[c].file_fd = f
  /\ \A c \in Clients : Live(c) => conn[c].fd \in Fds /\ connections[conn[c].fd] = c
  /\ \A c, d \in Clients :
       Live(c) /\ Live(d) /\ conn[c].file_fd = conn[d].file_fd => c = d \/ conn[c].file_fd = NoFd

(* A handler never runs on a freed connection, the pointer comparisons of the
   loop tell a freed connection from a live one, and an event still waiting in
   the batch belongs to the connection that holds its descriptor now, whatever
   was closed and accepted since epoll_wait returned. *)
HandlerPcs == Pcs \ {"wait", "next", "accept", "after_read", "after_write", "killed"}
HandlerOnLiveConnection ==
  /\ pc \in HandlerPcs => cur # NoClient /\ Live(cur) /\ connections[conn[cur].fd] = cur
  /\ pc \in {"after_read", "after_write"} =>
       cur # NoClient /\ (get_connection(ev.fd) = cur => Live(cur) /\ conn[cur].fd = ev.fd)
  /\ \A e \in batch : e.fd # ListenFd => Live(e.sock) /\ connections[e.fd] = e.sock

(* The read loops never offer the kernel an empty buffer (read would return 0,
   taken for the end of the stream), and the terminator written after the
   request stays inside the buffer. *)
BufferHasRoom ==
  /\ pc \in {"sniff", "read", "h2_read"} => ReadRoom(cur) > 0
  /\ pc = "process" => conn[cur].bytes_read < conn[cur].read_buffer_size

(* README: "Error handling is robust". A client that leaves while a response is
   being written must not end the process. *)
ServerSurvives == pc # "killed"
=============================================================================
