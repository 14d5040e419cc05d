------------------------- MODULE Http2ServerProofs -------------------------
(* Proofs about Http2Server, for every number of clients, of which any may come by
   an upgrade, and every size of buffers, frames and responses.             *)
EXTENDS Http2Server, Induction, SequenceTheorems, TLAPS

(* A connection whose protocol is not HTTP/2 yet has been sent nothing but the 101;
   the counters of an HTTP/2 one stay inside its write_buffer. *)
ConnInv ==
  \A c \in Clients :
    /\ ~Live(c) => sock[c].interest = {}
    /\ Live(c) => conn[c].bytes_read + 1 < conn[c].read_buffer_size
    /\ Live(c) => /\ conn[c].write_buffer_size = Len(write_buffer[c])
                  /\ conn[c].bytes_written <= conn[c].write_buffer_size
    /\ conn[c].state = "NONE" => write_buffer[c] = <<>> /\ sock[c].snd = 0
    /\ Live(c) /\ conn[c].protocol # "HTTP2" =>
         /\ conn[c].bytes_written = 0
         /\ sock[c].snd = 0 \/ (c = cur /\ pc \in {"upgrade_settings", "killed"} /\ sock[c].snd = 1)
    /\ conn[c].state # "NONE" => sock[c].peer # "new"
    /\ conn[c].state # "FREED" => sock[c].peer # "closed"

(* Sockets that wait to be accepted have no Connection yet, those on the ready list
   have a live one, and so has each event still to be handled, which is not the one
   being handled and only reports a hang-up of a peer that is dead. *)
QueueInv ==
  /\ \A c \in backlog : conn[c].state = "NONE" /\ sock[c].peer # "new"
  /\ \A c \in ready : Live(c)
  /\ \A e \in batch : e.fd # ListenFd =>
       /\ e.sock \in Clients /\ e.sock # cur
       /\ Live(e.sock) /\ conn[e.sock].fd = e.fd
       /\ "HUP" \in e.mask => sock[e.sock].peer \in Dead
  /\ \A e, f \in batch : e.fd = f.fd => e = f

ServedPcs == HandlerPcs \cup {"after_read", "after_write"}

(* What the position of the thread says of the connection it works for. *)
ThreadInv ==
  /\ pc \in {"wait", "next", "accept"} => cur = NoClient
  /\ pc = "wait" => batch = {}
  /\ pc \in HandlerPcs => cur \in Clients /\ ev.fd \in Fds /\ Live(cur) /\ conn[cur].fd = ev.fd
  /\ pc \in {"after_read", "after_write"} =>
       /\ cur \in Clients /\ ev.fd \in Fds
       /\ connections[ev.fd] \in {NoClient, cur}
  /\ pc \in ServedPcs /\ "HUP" \in ev.mask => sock[cur].peer \in Dead \cup {"closed"}
  /\ pc \in {"sniff", "read", "upgrade", "upgrade_settings"} => conn[cur].protocol # "HTTP2"
  /\ pc \in {"h2_read", "h2_frames", "h2_write"} => conn[cur].protocol = "HTTP2"

USE DEF Live, http2Vars, loopVars, kernelVars

IInv == TypeOK /\ DescriptorsAccounted /\ ConnInv /\ QueueInv /\ ThreadInv

(* The step frees no connection whose client is still there. *)
Kept == \A c \in Clients : Live(c) /\ ~Live(c)' => sock[c].peer \in Gone

-----------------------------------------------------------------------------
(* The records a connection starts and ends with. *)
LEMMA ConstantTypes ==
  /\ NewSock \in SockType /\ ClosedSock \in SockType
  /\ Blank \in ConnType /\ Freed \in ConnType
  /\ Unused \in DescriptorType /\ ASocket \in DescriptorType
  /\ NoEvent \in EventType
<1>1. NewSock \in SockType
  BY KernelAssumption DEF NewSock, SockType
<1>2. ClosedSock \in SockType
  BY <1>1 DEF ClosedSock, SockType
<1>3. Blank \in ConnType
  BY DEF Blank, ConnType, NoFd, LiveStates
<1>4. Freed \in ConnType
  BY <1>3 DEF Freed, ConnType
<1>5. Unused \in DescriptorType /\ ASocket \in DescriptorType /\ NoEvent \in EventType
  BY DEF Unused, ASocket, DescriptorType, NoEvent, EventType, ListenFd
<1>. QED  BY <1>1, <1>2, <1>3, <1>4, <1>5

(* The field types of the connection and the socket of a client. *)
LEMMA FieldTypes ==
  ASSUME TypeOK, NEW c \in Clients
  PROVE  /\ conn[c] \in ConnType /\ sock[c] \in SockType
         /\ conn[c].bytes_read \in Nat /\ conn[c].read_buffer_size \in Nat
         /\ conn[c].bytes_written \in Nat /\ conn[c].write_buffer_size \in Nat
         /\ conn[c].fd \in Fds \cup {NoFd} /\ conn[c].file_fd = NoFd
         /\ conn[c].protocol \in {"UNKNOWN", "HTTP1", "HTTP2"}
         /\ sock[c].rcv \in Nat /\ sock[c].unsent \in Nat /\ sock[c].snd \in 0..SndCap
         /\ write_buffer[c] \in Seq(UnitType)
<1>1. conn[c] \in ConnType /\ sock[c] \in SockType /\ write_buffer[c] \in Seq(UnitType)
  BY DEF TypeOK
<1>. QED  BY <1>1 DEF ConnType, SockType

(* The units a reply consists of. *)
LEMMA ReplyTypes ==
  /\ Settings \in UnitType /\ Switching \in UnitType
  /\ \A k \in Nat : Response(k) \in Seq(UnitType)
  /\ \A k \in Nat, kind \in Kinds : Reply(kind, k) \in Seq(UnitType)
<1>1. Settings \in UnitType /\ Switching \in UnitType
  BY DEF Settings, Switching, UnitType
<1>2. ASSUME NEW k \in Nat
      PROVE  Response(k) \in Seq(UnitType) /\ Ack(k) \in UnitType
  <2>1. <<"headers", k>> \in UnitType /\ <<"data", k>> \in UnitType
        /\ LastOf(k) \in UnitType /\ Ack(k) \in UnitType
    BY DEF UnitType, LastOf, Ack
  <2>2. [i \in 1..BodyLen |-> <<"data", k>>] \in Seq(UnitType)
    BY <2>1, Http2Assumption DEF Http2Assumption
  <2>3. << <<"headers", k>> >> \in Seq(UnitType) /\ <<LastOf(k)>> \in Seq(UnitType)
    BY <2>1
  <2>. QED  BY <2>1, <2>2, <2>3 DEF Response
<1>3. ASSUME NEW k \in Nat, NEW kind \in Kinds
      PROVE  Reply(kind, k) \in Seq(UnitType)
  <2>1. Response(k) \in Seq(UnitType) /\ <<Ack(k)>> \in Seq(UnitType) /\ <<>> \in Seq(UnitType)
    BY <1>2
  <2>. QED  BY <2>1 DEF Reply, Kinds
<1>. QED  BY <1>1, <1>2, <1>3

(* free_connection on a live connection: the types hold, the descriptors stay
   accounted for, and nothing of the other connections changes. *)
LEMMA FreeConnection ==
  ASSUME IInv, NEW c \in Clients, Live(c), free_connection(c)
  PROVE  /\ sock' \in [Clients -> SockType] /\ conn' \in [Clients -> ConnType]
         /\ fdtab' \in [Fds -> DescriptorType]
         /\ connections' \in [Fds -> Clients \cup {NoClient}]
         /\ ready' \subseteq Clients /\ c \notin ready'
         /\ conn'[c] = Freed /\ sock'[c] = ClosedSock /\ connections'[conn[c].fd] = NoClient
         /\ \A d \in Clients : d # c => conn'[d] = conn[d] /\ sock'[d] = sock[d]
         /\ DescriptorsAccounted'
<1> USE KernelAssumption DEF KernelAssumption, IInv
<1>1. /\ sock' \in [Clients -> SockType] /\ conn' \in [Clients -> ConnType]
      /\ fdtab' \in [Fds -> DescriptorType]
      /\ connections' \in [Fds -> Clients \cup {NoClient}]
      /\ ready' \subseteq Clients /\ c \notin ready'
  <2>1. ClosedSock \in SockType /\ Freed \in ConnType /\ Unused \in DescriptorType
    BY ConstantTypes
  <2>2. conn[c].fd \in Fds
    BY DEF DescriptorsAccounted
  <2>. QED  BY <2>1, <2>2 DEF TypeOK, free_connection
<1>2. /\ conn'[c] = Freed /\ sock'[c] = ClosedSock /\ connections'[conn[c].fd] = NoClient
      /\ \A d \in Clients : d # c => conn'[d] = conn[d] /\ sock'[d] = sock[d]
  BY DEF TypeOK, free_connection, DescriptorsAccounted
<1>3. DescriptorsAccounted'
  <2>1. ~Live(c)' /\ NoFd \notin Fds
    BY <1>2 DEF LiveStates, Freed, Blank, NoFd, Fds
  <2>2. \A d \in Clients : d # c => Live(d)' = Live(d) /\ conn'[d] = conn[d]
    BY <1>2
  <2>3. /\ \A d \in Clients : conn[d].file_fd = NoFd
        /\ \A d \in Clients : conn'[d].file_fd = NoFd
    BY <1>1, FieldTypes DEF ConnType
  <2>4. \A f \in Fds : connections'[f] = IF f = conn[c].fd THEN NoClient ELSE connections[f]
    BY DEF TypeOK, free_connection, DescriptorsAccounted
  <2>5. \A f \in Fds : fdtab'[f].kind = IF f = conn[c].fd THEN "free" ELSE fdtab[f].kind
    BY <2>1, <2>3 DEF TypeOK, free_connection, Unused
  <2>6. conn[c].fd \in Fds /\ connections[conn[c].fd] = c /\ fdtab[conn[c].fd].kind = "socket"
    BY DEF DescriptorsAccounted
  <2>7. \A f \in Fds : (fdtab[f].kind = "socket" <=> connections[f] # NoClient)'
    BY <2>4, <2>5, <2>6 DEF DescriptorsAccounted
  <2>8. \A f \in Fds : (connections[f] # NoClient =>
                           Live(connections[f]) /\ conn[connections[f]].fd = f)'
    <3> SUFFICES ASSUME NEW f \in Fds, connections'[f] # NoClient
                 PROVE  conn'[connections'[f]].state \in LiveStates /\ conn'[connections'[f]].fd = f
      OBVIOUS
    <3>1. f # conn[c].fd /\ connections'[f] = connections[f]
      BY <2>4
    <3>2. connections[f] \in Clients /\ Live(connections[f]) /\ conn[connections[f]].fd = f
      BY <3>1 DEF DescriptorsAccounted, TypeOK
    <3>. QED  BY <2>2, <3>1, <3>2, <2>6
  <2>9. \A f \in Fds : (fdtab[f].kind = "file" <=> \E d \in Clients : Live(d) /\ conn[d].file_fd = f)'
    BY <2>1, <2>3, <2>5 DEF DescriptorsAccounted
  <2>10. \A d \in Clients : (Live(d) => conn[d].fd \in Fds /\ connections[conn[d].fd] = d)'
    BY <2>1, <2>2, <2>4, <2>6 DEF DescriptorsAccounted
  <2>11. \A d, e \in Clients : (Live(d) /\ Live(e) /\ conn[d].file_fd = conn[e].file_fd
                                   => d = e \/ conn[d].file_fd = NoFd)'
    BY <2>3
  <2>. QED  BY <2>7, <2>8, <2>9, <2>10, <2>11 DEF DescriptorsAccounted
<1>. QED  BY <1>1, <1>2, <1>3

(* Where nothing the accounting reads is changed, it stays true. *)
LEMMA DescriptorsKept ==
  ASSUME DescriptorsAccounted, connections' = connections,
         \A f \in Fds : fdtab'[f].kind = fdtab[f].kind,
         \A c \in Clients : /\ Live(c)' = Live(c) /\ conn'[c].fd = conn[c].fd
                            /\ conn'[c].file_fd = conn[c].file_fd,
         TypeOK
  PROVE  DescriptorsAccounted'
<1>1. \A f \in Fds : connections[f] \in Clients \cup {NoClient}
  BY DEF TypeOK
<1>. QED  BY <1>1 DEF DescriptorsAccounted

(* The fields that tell a freed connection, and its socket. *)
LEMMA FreedFields ==
  /\ Freed.state = "FREED" /\ Freed.file_fd = NoFd /\ "FREED" \notin LiveStates
  /\ ClosedSock.interest = {} /\ ClosedSock.snd = 0 /\ ClosedSock.peer = "closed"
BY DEF Freed, Blank, ClosedSock, NewSock, LiveStates

(* The thread frees the connection it works for and leaves the handler. *)
LEMMA FreeStep ==
  ASSUME IInv, cur \in Clients, Live(cur), conn[cur].fd = ev.fd, sock[cur].peer \in Gone,
         free_connection(cur), UNCHANGED <<backlog, disk, wire, batch, http2Vars>>,
         \/ pc' \in {"after_read", "after_write"} /\ UNCHANGED <<ev, cur>>
         \/ NextEvent
  PROVE  IInv' /\ Kept
<1>1. /\ conn'[cur] = Freed /\ sock'[cur] = ClosedSock /\ connections'[conn[cur].fd] = NoClient
      /\ \A d \in Clients : d # cur => conn'[d] = conn[d] /\ sock'[d] = sock[d]
      /\ DescriptorsAccounted'
  BY FreeConnection
<1>2. cur' \in {cur, NoClient} /\ ready' = ready \ {cur} /\ NoClient \notin Clients
  BY KernelAssumption DEF KernelAssumption, NextEvent, free_connection
<1>3. TypeOK'
  <2>1. /\ sock' \in [Clients -> SockType] /\ conn' \in [Clients -> ConnType]
        /\ fdtab' \in [Fds -> DescriptorType]
        /\ connections' \in [Fds -> Clients \cup {NoClient}] /\ ready' \subseteq Clients
    BY FreeConnection
  <2>2. pc' \in Pcs /\ ev' \in EventType /\ cur' \in Clients \cup {NoClient}
    BY ConstantTypes DEF NextEvent, Pcs, IInv, TypeOK
  <2>. QED  BY <2>1, <2>2 DEF IInv, TypeOK
<1>4. ConnInv'
  <2> SUFFICES ASSUME NEW d \in Clients PROVE ConnInv!(d)'
    BY DEF ConnInv
  <2>1. CASE d = cur
    BY <2>1, <1>1, FreedFields
  <2>2. CASE d # cur
    <3>1. ConnInv!(d)
      BY DEF IInv, ConnInv
    <3>2. conn'[d] = conn[d] /\ sock'[d] = sock[d] /\ write_buffer'[d] = write_buffer[d]
      BY <2>2, <1>1
    <3>. QED  BY <2>2, <3>1, <3>2
  <2>. QED  BY <2>1, <2>2
<1>5. QueueInv'
  <2>1. \A c \in backlog' : conn'[c].state = "NONE" /\ sock'[c].peer # "new"
    <3>1. \A c \in backlog : c \in Clients /\ conn[c].state = "NONE" /\ sock[c].peer # "new"
      BY DEF IInv, QueueInv, TypeOK
    <3>. QED  BY <3>1, <1>1 DEF LiveStates
  <2>2. \A c \in ready' : Live(c)'
    BY <1>1, <1>2 DEF IInv, QueueInv, TypeOK
  <2>3. \A e \in batch' : e.fd # ListenFd =>
          /\ e.sock \in Clients /\ e.sock # cur'
          /\ Live(e.sock)' /\ conn'[e.sock].fd = e.fd
          /\ "HUP" \in e.mask => sock'[e.sock].peer \in Dead
    BY <1>1, <1>2 DEF IInv, QueueInv
  <2>. QED  BY <2>1, <2>2, <2>3 DEF IInv, QueueInv
<1>6. ThreadInv'
  BY <1>1, FreedFields DEF IInv, ThreadInv, NextEvent, HandlerPcs, ServedPcs, DescriptorsAccounted
<1>7. Kept
  BY <1>1 DEF Kept
<1>. QED  BY <1>1, <1>3, <1>4, <1>5, <1>6, <1>7 DEF IInv

-----------------------------------------------------------------------------
(* Steps that only move the thread: the kernel, the table and the connections are
   as they were.                                                            *)

(* Within the handlers of a connection. *)
LEMMA MoveStep ==
  ASSUME IInv, UNCHANGED <<connections, conn, batch, ev, cur, http2Vars, kernelVars>>,
         \/ pc \in HandlerPcs /\ pc' \in {"after_read", "killed"}
         \/ pc = "h2_read" /\ pc' = "h2_frames",
         pc # "upgrade_settings" \/ pc' = "killed"
  PROVE  IInv' /\ Kept
<1> USE DEF IInv
<1>1. TypeOK'
  BY DEF TypeOK, Pcs
<1>2. DescriptorsAccounted' /\ Kept
  BY DescriptorsKept DEF Kept
<1>3. ConnInv' /\ QueueInv'
  BY DEF ConnInv, QueueInv, HandlerPcs
<1>4. ThreadInv'
  BY DEF ThreadInv, HandlerPcs, ServedPcs, Pcs, DescriptorsAccounted
<1>. QED  BY <1>1, <1>2, <1>3, <1>4

(* Main, the batch is empty: the thread goes back to epoll_wait. *)
LEMMA BatchDoneStep ==
  ASSUME IInv, BatchDone, UNCHANGED http2Vars
  PROVE  IInv' /\ Kept
<1> USE DEF IInv, BatchDone
<1>1. TypeOK'
  BY DEF TypeOK, Pcs
<1>2. DescriptorsAccounted' /\ Kept
  BY DescriptorsKept DEF Kept
<1>3. ConnInv' /\ QueueInv'
  BY DEF ConnInv, QueueInv
<1>4. ThreadInv'
  BY DEF ThreadInv, HandlerPcs, ServedPcs, Pcs
<1>. QED  BY <1>1, <1>2, <1>3, <1>4

(* Main takes an event: the connection it names is live and holds its descriptor. *)
LEMMA TakeEventStep ==
  ASSUME IInv, NEW e \in batch, TakeEvent(e), UNCHANGED http2Vars
  PROVE  IInv' /\ Kept
<1> USE KernelAssumption DEF KernelAssumption
<1>1. /\ UNCHANGED <<connections, conn, sock, fdtab, backlog, ready, write_buffer>>
      /\ batch' = batch \ {e} /\ pc = "next" /\ cur = NoClient /\ e \in EventType
  BY DEF IInv, TypeOK, ThreadInv, TakeEvent
<1>2. ASSUME e.fd # ListenFd
      PROVE  /\ e.fd \in Fds /\ e.sock \in Clients /\ get_connection(e.fd) = e.sock
             /\ Live(e.sock) /\ conn[e.sock].fd = e.fd
             /\ "HUP" \in e.mask => sock[e.sock].peer \in Dead
             /\ conn[e.sock].protocol \in {"UNKNOWN", "HTTP1", "HTTP2"}
  <2>1. /\ e.fd \in Fds /\ e.sock \in Clients /\ get_connection(e.fd) = e.sock
        /\ Live(e.sock) /\ conn[e.sock].fd = e.fd
        /\ "HUP" \in e.mask => sock[e.sock].peer \in Dead
    BY <1>1, <1>2 DEF IInv, EventType, QueueInv, get_connection, ListenFd, DescriptorsAccounted
  <2>. QED  BY <2>1, FieldTypes DEF IInv
<1>3. /\ ev' = e
      /\ cur' = IF e.fd = ListenFd THEN NoClient ELSE e.sock
      /\ pc' = IF e.fd = ListenFd THEN "accept"
               ELSE IF "IN" \notin e.mask THEN "after_read"
               ELSE IF conn[e.sock].protocol = "UNKNOWN" THEN "sniff"
               ELSE IF conn[e.sock].protocol = "HTTP1" THEN "read" ELSE "h2_read"
  BY <1>2 DEF TakeEvent, ReadHandler, get_connection, ListenFd, Fds
<1>5. TypeOK'
  BY <1>1, <1>2, <1>3 DEF IInv, TypeOK, Pcs, TakeEvent
<1>6. DescriptorsAccounted' /\ Kept
  BY <1>1, DescriptorsKept DEF IInv, Kept
<1>7. ConnInv'
  BY <1>1 DEF IInv, ConnInv
<1>8. QueueInv'
  <2>1. \A d \in batch' : d.fd # ListenFd => d.sock # cur'
    <3> SUFFICES ASSUME NEW d \in batch, d # e, d.fd # ListenFd PROVE d.sock # cur'
      BY <1>1
    <3>1. d.sock \in Clients /\ conn[d.sock].fd = d.fd /\ d.fd # e.fd
      BY DEF IInv, QueueInv
    <3>. QED  BY <3>1, <1>2, <1>3
  <2>. QED  BY <2>1, <1>1 DEF IInv, QueueInv
<1>9. ThreadInv'
  BY <1>1, <1>2, <1>3 DEF IInv, ThreadInv, HandlerPcs, ServedPcs, Pcs, DescriptorsAccounted
<1>. QED  BY <1>5, <1>6, <1>7, <1>8, <1>9 DEF IInv

(* Main after handle_read: the freed connection is told from the live one. *)
LEMMA AfterReadStep ==
  ASSUME IInv, AfterRead, UNCHANGED http2Vars
  PROVE  IInv' /\ Kept
<1> USE KernelAssumption DEF KernelAssumption
<1>1. /\ UNCHANGED <<connections, conn, sock, fdtab, backlog, ready, batch, write_buffer>>
      /\ cur \in Clients /\ ev.fd \in Fds /\ pc = "after_read"
  BY DEF IInv, AfterRead, ThreadInv
<1>2. DescriptorsAccounted' /\ Kept
  BY <1>1, DescriptorsKept DEF IInv, Kept
<1>3. ASSUME get_connection(ev.fd) # cur PROVE IInv' /\ Kept
  <2>1. NextEvent
    BY <1>3 DEF AfterRead
  <2>2. TypeOK'
    BY <1>3, ConstantTypes DEF IInv, TypeOK, Pcs, AfterRead, NextEvent
  <2>3. ConnInv' /\ QueueInv' /\ ThreadInv'
    BY <1>1, <2>1 DEF IInv, ConnInv, QueueInv, ThreadInv, NextEvent, HandlerPcs, ServedPcs
  <2>. QED  BY <1>2, <2>2, <2>3 DEF IInv
<1>4. ASSUME get_connection(ev.fd) = cur PROVE IInv' /\ Kept
  <2>1. connections[ev.fd] = cur /\ Live(cur) /\ conn[cur].fd = ev.fd
    BY <1>1, <1>4 DEF IInv, get_connection, DescriptorsAccounted
  <2>2. /\ UNCHANGED <<ev, cur>>
        /\ \/ pc' \in {"after_write", "send", "file_read"}
           \/ pc' = "h2_write" /\ conn[cur].protocol = "HTTP2"
    BY <1>1, <1>4 DEF AfterRead, WriteHandler
  <2>3. TypeOK'
    BY <2>2 DEF IInv, TypeOK, Pcs, AfterRead
  <2>4. ConnInv' /\ QueueInv'
    BY <1>1, <2>2 DEF IInv, ConnInv, QueueInv
  <2>5. ThreadInv'
    BY <1>1, <2>1, <2>2 DEF IInv, ThreadInv, HandlerPcs, ServedPcs, Pcs
  <2>. QED  BY <1>2, <2>3, <2>4, <2>5 DEF IInv
<1>. QED  BY <1>3, <1>4

(* handle_accept returns without a connection. *)
LEMMA AcceptFailsStep ==
  ASSUME IInv, AcceptFails, UNCHANGED http2Vars
  PROVE  IInv' /\ Kept
<1> USE DEF IInv, AcceptFails, NextEvent
<1>1. TypeOK'
  BY ConstantTypes DEF TypeOK, Pcs
<1>2. DescriptorsAccounted' /\ Kept
  BY DescriptorsKept DEF Kept
<1>3. ConnInv' /\ QueueInv' /\ ThreadInv'
  BY KernelAssumption DEF KernelAssumption, ConnInv, QueueInv, ThreadInv, HandlerPcs, ServedPcs
<1>. QED  BY <1>1, <1>2, <1>3

(* epoll_wait makes the batch from the ready list: each event names a live connection. *)
LEMMA EpollWaitStep ==
  ASSUME IInv, EpollWait, UNCHANGED http2Vars
  PROVE  IInv' /\ Kept
<1> USE DEF EpollWait
<1>1. UNCHANGED <<connections, conn, sock, fdtab, backlog, cur, ev>> /\ pc = "wait" /\ pc' = "next"
  OBVIOUS
<1>2. \A e \in batch' :
        \/ e = ListenEvent
        \/ /\ e.sock \in ready /\ e.sock \in Clients /\ Live(e.sock)
           /\ e = SocketEvent(e.sock)
  BY DEF Pending, SocketEvent, IInv, TypeOK, QueueInv
<1>3. \A c \in Clients : Live(c) =>
        /\ SocketEvent(c) \in EventType /\ SocketEvent(c).fd = conn[c].fd
        /\ "HUP" \in SocketEvent(c).mask => sock[c].peer \in Dead
  <2> SUFFICES ASSUME NEW c \in Clients, Live(c)
               PROVE  /\ Mask(sock[c]) \subseteq {"IN", "OUT", "HUP"}
                      /\ "HUP" \in Mask(sock[c]) => sock[c].peer \in Dead
                      /\ conn[c].fd \in Fds
    BY DEF SocketEvent, EventType
  <2>. QED  BY DEF Mask, Poll, IInv, DescriptorsAccounted
<1>4. ListenEvent \in EventType /\ ListenEvent.fd = ListenFd
  BY DEF ListenEvent, EventType, ListenFd
<1>5. TypeOK'
  BY <1>2, <1>3, <1>4 DEF IInv, TypeOK, Pcs
<1>6. DescriptorsAccounted' /\ ConnInv' /\ Kept
  BY DescriptorsKept DEF IInv, ConnInv, Kept
<1>7. QueueInv'
  <2>1. \A e \in batch' : e.fd # ListenFd =>
          /\ e.sock \in Clients /\ e.sock # cur
          /\ Live(e.sock) /\ conn[e.sock].fd = e.fd /\ e = SocketEvent(e.sock)
          /\ "HUP" \in e.mask => sock[e.sock].peer \in Dead
    BY <1>2, <1>3, <1>4, KernelAssumption DEF KernelAssumption, IInv, ThreadInv
  <2>2. \A e, f \in batch' : e.fd = f.fd => e = f
    <3>1. \A c \in Clients : Live(c) => conn[c].fd # ListenFd
      BY DEF IInv, DescriptorsAccounted, Fds, ListenFd
    <3>2. \A c, d \in Clients : Live(c) /\ Live(d) /\ conn[c].fd = conn[d].fd => c = d
      BY DEF IInv, DescriptorsAccounted
    <3>. QED  BY <1>2, <1>3, <1>4, <3>1, <3>2
  <2>. QED  BY <1>1, <2>1, <2>2 DEF IInv, QueueInv
<1>8. ThreadInv'
  BY DEF IInv, ThreadInv, HandlerPcs, ServedPcs
<1>. QED  BY <1>5, <1>6, <1>7, <1>8 DEF IInv

-----------------------------------------------------------------------------
(* Steps that change the connection being handled, and no other. *)

(* Where only the Connection, the socket and the queue of the served client change,
   it is enough to look at that client. *)
LEMMA CurStep ==
  ASSUME IInv, pc \in HandlerPcs,
         UNCHANGED <<connections, backlog, batch, ev, cur, fdtab>>, ready' \subseteq ready \cup {cur},
         \A d \in Clients : d # cur =>
           conn'[d] = conn[d] /\ sock'[d] = sock[d] /\ write_buffer'[d] = write_buffer[d],
         conn'[cur].fd = conn[cur].fd, conn'[cur].file_fd = conn[cur].file_fd,
         Live(cur)', ConnInv!(cur)'
  PROVE  DescriptorsAccounted' /\ ConnInv' /\ QueueInv' /\ Kept
<1>1. cur \in Clients /\ Live(cur)
  BY DEF IInv, ThreadInv
<1>2. \A c \in Clients : Live(c)' = Live(c) /\ conn'[c].fd = conn[c].fd
                         /\ conn'[c].file_fd = conn[c].file_fd
  BY <1>1
<1>3. DescriptorsAccounted' /\ Kept
  BY <1>2, DescriptorsKept DEF IInv, Kept
<1>4. ConnInv'
  <2> SUFFICES ASSUME NEW d \in Clients, d # cur PROVE ConnInv!(d)'
    BY DEF ConnInv
  <2>1. conn'[d] = conn[d] /\ sock'[d] = sock[d] /\ write_buffer'[d] = write_buffer[d] /\ cur' = cur
    OBVIOUS
  <2>2. ConnInv!(d)
    BY DEF IInv, ConnInv
  <2>. QED  BY <2>1, <2>2
<1>5. QueueInv'
  <2>1. \A c \in backlog : c \in Clients /\ conn[c].state = "NONE" /\ sock[c].peer # "new"
    BY DEF IInv, TypeOK, QueueInv
  <2>2. \A c \in backlog' : conn'[c].state = "NONE" /\ sock'[c].peer # "new"
    BY <2>1, <1>1 DEF LiveStates
  <2>3. \A c \in ready' : Live(c)'
    BY <1>1 DEF IInv, TypeOK, QueueInv
  <2>. QED  BY <2>2, <2>3 DEF IInv, QueueInv
<1>. QED  BY <1>3, <1>4, <1>5

(* What a handler may do to its own socket: its peer stays as it is. *)
LEMMA ServedThread ==
  ASSUME IInv, pc \in HandlerPcs, UNCHANGED <<connections, ev, cur>>,
         conn'[cur].fd = conn[cur].fd, Live(cur)', sock'[cur].peer = sock[cur].peer,
         pc' \in HandlerPcs \cup {"after_read", "after_write"},
         pc' \in {"sniff", "read", "upgrade", "upgrade_settings"} => conn'[cur].protocol # "HTTP2",
         pc' \in {"h2_read", "h2_frames", "h2_write"} => conn'[cur].protocol = "HTTP2"
  PROVE  ThreadInv'
<1>1. /\ cur \in Clients /\ ev.fd \in Fds /\ Live(cur) /\ conn[cur].fd = ev.fd
      /\ connections[ev.fd] = cur
      /\ "HUP" \in ev.mask => sock[cur].peer \in Dead \cup {"closed"}
  BY DEF IInv, ThreadInv, ServedPcs, DescriptorsAccounted
<1>. QED  BY <1>1 DEF ThreadInv, HandlerPcs

(* A read of any of the three loops keeps room for one more unit and the
   terminator. *)
LEMMA ReceiveStep ==
  ASSUME IInv, pc \in {"sniff", "read", "h2_read"}, Receive(cur),
         UNCHANGED <<backlog, ready, fdtab, disk, wire>>,
         UNCHANGED <<connections, pc, batch, ev, cur, http2Vars>>
  PROVE  IInv' /\ Kept
<1> DEFINE n == Received(sock[cur], ReadRoom(cur))
           filled == conn[cur].bytes_read + n
           size == Grown(conn[cur].read_buffer_size, filled)
<1>1. cur \in Clients /\ Live(cur) /\ pc \in HandlerPcs
  BY DEF IInv, ThreadInv, HandlerPcs, Pcs
<1>2. /\ conn[cur] \in ConnType /\ sock[cur] \in SockType
      /\ conn[cur].bytes_read \in Nat /\ conn[cur].read_buffer_size \in Nat
      /\ sock[cur].rcv \in Nat
  BY <1>1, FieldTypes DEF IInv
<1>3. n > 0 /\ n \in Nat /\ n <= sock[cur].rcv /\ n <= conn[cur].read_buffer_size - conn[cur].bytes_read - 1
  BY <1>2 DEF Receive, ReadEnds, Received, ReadRoom, Least
<1>4. filled \in Nat /\ size \in Nat /\ filled + 1 < size
  BY <1>2, <1>3 DEF Grown
<1>5. /\ conn' = [conn EXCEPT ![cur].bytes_read = filled, ![cur].read_buffer_size = size]
      /\ sock' = [sock EXCEPT ![cur].rcv = sock[cur].rcv - n]
  BY <1>1 DEF Receive, IInv, TypeOK
<1> HIDE DEF n, filled, size
<1>6. /\ conn'[cur] = [conn[cur] EXCEPT !.bytes_read = filled, !.read_buffer_size = size]
      /\ sock'[cur] = [sock[cur] EXCEPT !.rcv = sock[cur].rcv - n]
      /\ \A d \in Clients : d # cur => conn'[d] = conn[d] /\ sock'[d] = sock[d]
  BY <1>1, <1>5 DEF IInv, TypeOK
<1>7. sock'[cur] \in SockType /\ sock'[cur].snd = sock[cur].snd
      /\ sock'[cur].interest = sock[cur].interest /\ sock'[cur].peer = sock[cur].peer
  <2>1. sock[cur].rcv - n \in Nat
    BY <1>2, <1>3
  <2>. QED  BY <1>2, <1>6, <2>1 DEF SockType
<1>8. /\ conn'[cur] \in ConnType
      /\ conn'[cur].bytes_read = filled /\ conn'[cur].read_buffer_size = size
      /\ conn'[cur].bytes_written = conn[cur].bytes_written
      /\ conn'[cur].write_buffer_size = conn[cur].write_buffer_size
      /\ conn'[cur].state = conn[cur].state /\ conn'[cur].fd = conn[cur].fd
      /\ conn'[cur].file_fd = conn[cur].file_fd /\ conn'[cur].protocol = conn[cur].protocol
  BY <1>2, <1>4, <1>6 DEF ConnType
<1>9. TypeOK'
  BY <1>1, <1>5, <1>7, <1>8 DEF IInv, TypeOK
<1>10. ConnInv!(cur)'
  BY <1>1, <1>4, <1>7, <1>8 DEF IInv, ConnInv
<1>11. ThreadInv'
  <2>1. /\ pc \in {"sniff", "read", "upgrade", "upgrade_settings"} => conn[cur].protocol # "HTTP2"
        /\ pc \in {"h2_read", "h2_frames", "h2_write"} => conn[cur].protocol = "HTTP2"
    BY DEF IInv, ThreadInv
  <2>. QED  BY <2>1, <1>1, <1>7, <1>8, ServedThread
<1>. QED  BY <1>1, <1>6, <1>8, <1>9, <1>10, <1>11, CurStep DEF IInv

(* EAGAIN in the loop of handle_read or of http1_handle_read: the protocol or the
   state of the connection may change, its buffer does not. *)
LEMMA ReadDoneStep ==
  ASSUME IInv, (SniffDone(Opening(cur)) /\ UNCHANGED http2Vars) \/ UpgradeReadDone
  PROVE  IInv' /\ Kept
<1>1. cur \in Clients /\ Live(cur) /\ pc \in {"sniff", "read"} /\ pc \in HandlerPcs
      /\ conn[cur].protocol # "HTTP2" /\ conn[cur] \in ConnType
  BY FieldTypes DEF IInv, ThreadInv, HandlerPcs, Pcs, SniffDone, UpgradeReadDone
<1>2. UNCHANGED <<connections, batch, ev, cur, http2Vars, kernelVars>>
  BY DEF SniffDone, UpgradeReadDone
<1> DEFINE Becomes(protocol, state) ==
             /\ conn' = [conn EXCEPT ![cur] = [conn[cur] EXCEPT !.protocol = protocol, !.state = state]]
             /\ pc' \in {"after_read", "upgrade", "read", "h2_read"}
             /\ pc' \in {"upgrade", "read"} => protocol # "HTTP2"
             /\ pc' = "h2_read" => protocol = "HTTP2"
           p == conn[cur].protocol
           s == conn[cur].state
<1>a. p \in {"UNKNOWN", "HTTP1", "HTTP2"} /\ s \in LiveStates /\ "PROCESS" \in LiveStates
      /\ conn[cur] = [conn[cur] EXCEPT !.protocol = p, !.state = s]
  BY <1>1, FieldTypes DEF IInv, LiveStates, ConnType
<1>b. conn = [conn EXCEPT ![cur] = conn[cur]]
  BY <1>1 DEF IInv, TypeOK
<1>c. ASSUME UpgradeReadDone PROVE Becomes(p, s) \/ Becomes(p, "PROCESS")
  <2>1. CASE pc' = "upgrade" /\ conn' = [conn EXCEPT ![cur].state = "PROCESS"]
    <3>1. conn' = [conn EXCEPT ![cur] = [conn[cur] EXCEPT !.state = "PROCESS"]]
      BY <2>1, <1>1 DEF IInv, TypeOK
    <3>2. [conn[cur] EXCEPT !.state = "PROCESS"] = [conn[cur] EXCEPT !.protocol = p, !.state = "PROCESS"]
      BY <1>1 DEF ConnType
    <3>. QED  BY <2>1, <3>1, <3>2, <1>1
  <2>2. CASE pc' = "after_read" /\ UNCHANGED conn
    BY <2>2, <1>a, <1>b
  <2>. QED  BY <1>c, <2>1, <2>2 DEF UpgradeReadDone
<1>d. ASSUME SniffDone(Opening(cur)) PROVE Becomes(p, s) \/ Becomes(Opening(cur), s)
  <2>1. CASE pc' = ReadHandler(Opening(cur)) /\ conn' = [conn EXCEPT ![cur].protocol = Opening(cur)]
    <3>1. conn' = [conn EXCEPT ![cur] = [conn[cur] EXCEPT !.protocol = Opening(cur)]]
      BY <2>1, <1>1 DEF IInv, TypeOK
    <3>2. [conn[cur] EXCEPT !.protocol = Opening(cur)] = [conn[cur] EXCEPT !.protocol = Opening(cur), !.state = s]
      BY <1>1 DEF ConnType
    <3>3. pc' = IF Opening(cur) = "HTTP2" THEN "h2_read" ELSE "read"
      BY <2>1 DEF ReadHandler, Opening
    <3>. QED  BY <3>1, <3>2, <3>3
  <2>2. CASE pc' = "after_read" /\ UNCHANGED conn
    BY <2>2, <1>a, <1>b
  <2>. QED  BY <1>d, <2>1, <2>2 DEF SniffDone
<1>e. \E protocol \in {"UNKNOWN", "HTTP1", "HTTP2"}, state \in LiveStates : Becomes(protocol, state)
  <2>1. Opening(cur) \in {"UNKNOWN", "HTTP1", "HTTP2"}
    BY DEF Opening
  <2> HIDE DEF Becomes, p, s
  <2>. QED  BY <2>1, <1>a, <1>c, <1>d
<1>3. PICK protocol \in {"UNKNOWN", "HTTP1", "HTTP2"}, state \in LiveStates : Becomes(protocol, state)
  BY <1>e
<1>4. /\ conn'[cur] = [conn[cur] EXCEPT !.protocol = protocol, !.state = state]
      /\ \A d \in Clients : d # cur => conn'[d] = conn[d]
  BY <1>1, <1>3 DEF IInv, TypeOK
<1>5. /\ conn'[cur] \in ConnType
      /\ conn'[cur].protocol = protocol /\ conn'[cur].state = state
      /\ conn'[cur].bytes_read = conn[cur].bytes_read
      /\ conn'[cur].read_buffer_size = conn[cur].read_buffer_size
      /\ conn'[cur].bytes_written = conn[cur].bytes_written
      /\ conn'[cur].write_buffer_size = conn[cur].write_buffer_size
      /\ conn'[cur].fd = conn[cur].fd /\ conn'[cur].file_fd = conn[cur].file_fd
  BY <1>1, <1>4 DEF ConnType
<1>6. TypeOK'
  BY <1>1, <1>2, <1>3, <1>5 DEF IInv, TypeOK, Pcs
<1>7. ConnInv!(cur)'
  BY <1>1, <1>2, <1>5 DEF IInv, ConnInv, LiveStates
<1>8. ThreadInv'
  <2>1. pc' \in HandlerPcs \cup {"after_read", "after_write"}
    BY <1>3 DEF HandlerPcs, Pcs
  <2>. QED  BY <2>1, <1>1, <1>2, <1>3, <1>5, ServedThread
<1>. QED  BY <1>1, <1>2, <1>4, <1>5, <1>6, <1>7, <1>8, CurStep DEF IInv

-----------------------------------------------------------------------------
(* The upgrade. *)

(* A poll may note that the send buffer is full, and changes nothing else. *)
LEMMA InterestedSocket ==
  ASSUME NEW s \in SockType, NEW events \in SUBSET {"IN", "OUT"}
  PROVE  /\ Interested(s, events) \in SockType
         /\ Interested(s, events).interest = events
         /\ Interested(s, events).snd = s.snd /\ Interested(s, events).peer = s.peer
<1>1. PICK flags \in SUBSET {"NOSPACE"} :
        Interested(s, events) = [s EXCEPT !.interest = events, !.flags = flags]
  BY DEF SockType, Interested
<1>2. /\ Interested(s, events).interest = events
      /\ Interested(s, events).snd = s.snd /\ Interested(s, events).peer = s.peer
  BY <1>1 DEF SockType
<1>3. [s EXCEPT !.interest = events] \in SockType
  BY DEF SockType
<1>4. [[s EXCEPT !.interest = events] EXCEPT !.flags = flags] \in SockType
  BY <1>3 DEF SockType
<1>. QED  BY <1>1, <1>2, <1>4

(* epoll_ctl ADD or MOD on one socket, which is s by now. *)
LEMMA InterestSet ==
  ASSUME TypeOK, NEW c \in Clients, NEW s \in SockType, NEW events \in SUBSET {"IN", "OUT"},
         s.peer = sock[c].peer, mod_epoll(c, s, events)
  PROVE  /\ sock' \in [Clients -> SockType]
         /\ sock'[c].interest = events /\ sock'[c].snd = s.snd /\ sock'[c].peer = sock[c].peer
         /\ \A d \in Clients : d # c => sock'[d] = sock[d]
         /\ ready' \subseteq ready \cup {c}
<1>1. sock' = [sock EXCEPT ![c] = Interested(s, events)] /\ ready' \subseteq ready \cup {c}
  BY DEF mod_epoll, Armed
<1>. QED  BY <1>1, InterestedSocket DEF TypeOK

(* A write that fits fills the send buffer no further than it reaches. *)
LEMMA WroteSock ==
  ASSUME NEW s \in SockType, NEW n \in Nat, n <= Room(s)
  PROVE  /\ Wrote(s, n) \in SockType /\ Wrote(s, n).interest = s.interest
         /\ Wrote(s, n).peer = s.peer /\ Wrote(s, n).snd = s.snd + n
<1>1. s.snd \in 0..SndCap /\ s.snd + n \in 0..SndCap
  BY KernelAssumption DEF KernelAssumption, Room, SockType
<1>. QED  BY <1>1 DEF Wrote, SockType

(* A unit on the wire. *)
LEMMA WireTyped ==
  ASSUME TypeOK, NEW c \in Clients, NEW units \in Seq(UnitType)
  PROVE  [wire EXCEPT ![c] = @ \o units] \in [Clients -> Seq(UnitType)]
BY DEF TypeOK

(* The unchecked writes of the upgrade: what they leave of socket and wire. *)
LEMMA UncheckedWrite ==
  ASSUME IInv, cur \in Clients, sock[cur].snd \in {0, 1}, NEW u \in UnitType, WriteUnchecked(u)
  PROVE  /\ SockUnchecked \in SockType /\ SockUnchecked.interest = sock[cur].interest
         /\ SockUnchecked.peer = sock[cur].peer /\ SockUnchecked.snd \in {sock[cur].snd, sock[cur].snd + 1}
         /\ wire' \in [Clients -> Seq(UnitType)]
<1>1. sock[cur] \in SockType /\ 1 <= Room(sock[cur]) /\ 1 \in Nat
  BY FieldTypes, Http2Assumption, KernelAssumption DEF Http2Assumption, KernelAssumption, Room, IInv
<1>2. wire' \in [Clients -> Seq(UnitType)]
  <2>1. <<u>> \in Seq(UnitType) /\ wire[cur] \in Seq(UnitType) /\ wire \in [Clients -> Seq(UnitType)]
    BY DEF IInv, TypeOK
  <2>2. Append(wire[cur], u) \in Seq(UnitType)
    BY <2>1
  <2>. QED  BY <2>1, <2>2 DEF WriteUnchecked
<1>3. /\ Wrote(sock[cur], 1) \in SockType /\ Wrote(sock[cur], 1).interest = sock[cur].interest
      /\ Wrote(sock[cur], 1).peer = sock[cur].peer /\ Wrote(sock[cur], 1).snd = sock[cur].snd + 1
  BY <1>1, WroteSock
<1>. QED  BY <1>1, <1>2, <1>3 DEF SockUnchecked

(* The 101. *)
LEMMA SwitchProtocolsStep ==
  ASSUME IInv, SwitchProtocols
  PROVE  IInv' /\ Kept
<1>1. cur \in Clients /\ Live(cur) /\ pc = "upgrade" /\ pc \in HandlerPcs
      /\ conn[cur].protocol # "HTTP2" /\ sock[cur].snd = 0
  <2>1. pc = "upgrade" /\ pc \in HandlerPcs
    BY DEF SwitchProtocols, HandlerPcs, Pcs
  <2>2. cur \in Clients /\ Live(cur) /\ conn[cur].protocol # "HTTP2"
    BY <2>1 DEF IInv, ThreadInv
  <2>. QED  BY <2>1, <2>2 DEF IInv, ConnInv
<1>2. /\ SockUnchecked \in SockType /\ SockUnchecked.interest = sock[cur].interest
      /\ SockUnchecked.peer = sock[cur].peer /\ SockUnchecked.snd \in {0, 1}
      /\ wire' \in [Clients -> Seq(UnitType)]
  <2>1. Switching \in UnitType /\ WriteUnchecked(Switching)
    BY ReplyTypes DEF SwitchProtocols
  <2>. QED  BY <1>1, <2>1, UncheckedWrite
<1> HIDE DEF kernelVars
<1>3. /\ UNCHANGED <<backlog, ready, fdtab, disk, connections, conn, batch, ev, cur, http2Vars>>
      /\ pc' = "upgrade_settings" /\ sock' = [sock EXCEPT ![cur] = SockUnchecked]
  BY DEF SwitchProtocols
<1>4. sock'[cur] = SockUnchecked /\ \A d \in Clients : d # cur => sock'[d] = sock[d]
  BY <1>1, <1>3 DEF IInv, TypeOK
<1>5. TypeOK'
  BY <1>1, <1>2, <1>3 DEF IInv, TypeOK, Pcs
<1>6. ConnInv!(cur)'
  <2>1. ConnInv!(cur)
    BY <1>1 DEF IInv, ConnInv
  <2>2. sock'[cur].interest = sock[cur].interest /\ sock'[cur].peer = sock[cur].peer
        /\ sock'[cur].snd \in {0, 1}
    BY <1>2, <1>4
  <2>3. conn' = conn /\ write_buffer' = write_buffer /\ cur' = cur /\ pc' = "upgrade_settings"
    BY <1>3
  <2>. QED  BY <2>1, <2>2, <2>3, <1>1 DEF LiveStates
<1>7. ThreadInv'
  <2>1. pc' \in HandlerPcs
    BY <1>3 DEF HandlerPcs, Pcs
  <2>. QED  BY <2>1, <1>1, <1>2, <1>3, <1>4, ServedThread
<1>. QED  BY <1>1, <1>3, <1>4, <1>5, <1>6, <1>7, CurStep DEF IInv

(* The response to the request of the upgrade is queued, and the connection is
   HTTP/2 from here. *)
LEMMA UpgradeAnswerStep ==
  ASSUME IInv, UpgradeAnswer
  PROVE  IInv' /\ Kept
<1>1. cur \in Clients /\ Live(cur) /\ pc = "upgrade_settings" /\ pc \in HandlerPcs
      /\ conn[cur].protocol # "HTTP2" /\ sock[cur].snd \in {0, 1} /\ conn[cur].bytes_written = 0
      /\ conn[cur] \in ConnType /\ conn[cur].bytes_read \in Nat /\ conn[cur].read_buffer_size \in Nat
      /\ conn[cur].bytes_read + 1 < conn[cur].read_buffer_size
  <2>1. pc = "upgrade_settings" /\ pc \in HandlerPcs
    BY DEF UpgradeAnswer, HandlerPcs, Pcs
  <2>2. cur \in Clients /\ Live(cur) /\ conn[cur].protocol # "HTTP2"
    BY <2>1 DEF IInv, ThreadInv
  <2>. QED  BY <2>1, <2>2, FieldTypes DEF IInv, ConnInv
<1>2. /\ SockUnchecked \in SockType /\ SockUnchecked.peer = sock[cur].peer
      /\ wire' \in [Clients -> Seq(UnitType)]
  <2>1. Settings \in UnitType /\ WriteUnchecked(Settings)
    BY ReplyTypes DEF UpgradeAnswer
  <2>. QED  BY <1>1, <2>1, UncheckedWrite
<1>3. Response(0) \in Seq(UnitType) /\ Len(Response(0)) \in Nat
  <2>1. Response(0) \in Seq(UnitType)
    BY ReplyTypes
  <2>. QED  BY <2>1
<1>4. /\ UNCHANGED <<backlog, fdtab, disk, connections, batch, ev, cur, preface, frames, upgrading>>
      /\ pc' = "after_read" /\ mod_epoll(cur, SockUnchecked, {"IN", "OUT"})
      /\ http2_state' = [http2_state EXCEPT ![cur] = "SET"]
      /\ write_buffer' = [write_buffer EXCEPT ![cur] = Response(0)]
      /\ conn' = [conn EXCEPT ![cur] = [conn[cur] EXCEPT !.protocol = "HTTP2", !.bytes_read = 0,
                                                  !.write_buffer_size = Len(Response(0))]]
  BY <1>1 DEF UpgradeAnswer, IInv, TypeOK
<1>5. /\ sock' \in [Clients -> SockType]
      /\ sock'[cur].interest = {"IN", "OUT"} /\ sock'[cur].peer = sock[cur].peer
      /\ \A d \in Clients : d # cur => sock'[d] = sock[d]
      /\ ready' \subseteq ready \cup {cur}
  <2>1. {"IN", "OUT"} \in SUBSET {"IN", "OUT"}
    OBVIOUS
  <2>. QED  BY <2>1, <1>1, <1>2, <1>4, InterestSet DEF IInv
<1>6. /\ conn'[cur] = [conn[cur] EXCEPT !.protocol = "HTTP2", !.bytes_read = 0,
                                        !.write_buffer_size = Len(Response(0))]
      /\ write_buffer'[cur] = Response(0)
      /\ \A d \in Clients : d # cur => conn'[d] = conn[d] /\ write_buffer'[d] = write_buffer[d]
  BY <1>1, <1>4 DEF IInv, TypeOK
<1>7. /\ conn'[cur] \in ConnType
      /\ conn'[cur].protocol = "HTTP2" /\ conn'[cur].bytes_read = 0
      /\ conn'[cur].write_buffer_size = Len(Response(0)) /\ conn'[cur].bytes_written = 0
      /\ conn'[cur].read_buffer_size = conn[cur].read_buffer_size
      /\ conn'[cur].state = conn[cur].state
      /\ conn'[cur].fd = conn[cur].fd /\ conn'[cur].file_fd = conn[cur].file_fd
  BY <1>1, <1>3, <1>6 DEF ConnType
<1>8. TypeOK'
  BY <1>1, <1>2, <1>3, <1>4, <1>5, <1>7 DEF IInv, TypeOK, Pcs
<1>9. ConnInv!(cur)'
  <2>1. ConnInv!(cur) /\ "NONE" \notin LiveStates /\ "FREED" \notin LiveStates
    BY <1>1 DEF IInv, ConnInv, LiveStates
  <2>a. cur' = cur /\ 1 < conn[cur].read_buffer_size /\ 0 + 1 = 1
    BY <1>1, <1>4
  <2>b. conn'[cur].bytes_read + 1 < conn'[cur].read_buffer_size
    BY <2>a, <1>7
  <2>2. Live(cur)'
    BY <2>a, <1>1, <1>7
  <2>3. /\ conn'[cur].write_buffer_size = Len(write_buffer'[cur])
        /\ conn'[cur].bytes_written <= conn'[cur].write_buffer_size
    BY <1>3, <1>6, <1>7
  <2>4. /\ conn'[cur].state # "NONE" /\ conn'[cur].state # "FREED" /\ conn'[cur].protocol = "HTTP2"
        /\ sock'[cur].peer # "new" /\ sock'[cur].peer # "closed"
    BY <2>1, <1>1, <1>5, <1>7
  <2>. QED  BY <2>a, <2>b, <2>2, <2>3, <2>4
<1>10. ThreadInv'
  BY <1>1, <1>4, <1>5, <1>7, ServedThread
<1>. QED  BY <1>1, <1>4, <1>5, <1>6, <1>7, <1>8, <1>9, <1>10, CurStep DEF IInv

-----------------------------------------------------------------------------
(* Frames and the replies to them. *)

(* A step of an HTTP/2 handler that takes bytes from the read buffer, adds to
   write_buffer or writes from it, and counts what it did. *)
LEMMA QueueStep ==
  ASSUME IInv, pc \in {"h2_read", "h2_frames", "h2_write"},
         pc' \in {"h2_frames", "h2_write", "after_write"},
         UNCHANGED <<connections, backlog, batch, ev, cur, fdtab, disk, upgrading>>,
         ready' \subseteq ready \cup {cur},
         conn' \in [Clients -> ConnType], sock' \in [Clients -> SockType],
         wire' \in [Clients -> Seq(UnitType)], write_buffer' \in [Clients -> Seq(UnitType)],
         http2_state' \in [Clients -> {"NULL", "SET"}], preface' \in [Clients -> {"due", "taken"}],
         frames' \in [Clients -> Seq(Kinds)],
         \A d \in Clients : d # cur =>
           conn'[d] = conn[d] /\ sock'[d] = sock[d] /\ write_buffer'[d] = write_buffer[d],
         sock'[cur].peer = sock[cur].peer,
         conn'[cur].fd = conn[cur].fd, conn'[cur].file_fd = conn[cur].file_fd,
         conn'[cur].state = conn[cur].state, conn'[cur].protocol = conn[cur].protocol,
         conn'[cur].read_buffer_size = conn[cur].read_buffer_size,
         conn'[cur].bytes_read <= conn[cur].bytes_read,
         conn'[cur].write_buffer_size = Len(write_buffer'[cur]),
         conn'[cur].bytes_written <= conn'[cur].write_buffer_size
  PROVE  IInv' /\ Kept
<1>1. cur \in Clients /\ Live(cur) /\ pc \in HandlerPcs /\ conn[cur].protocol = "HTTP2"
  BY DEF IInv, ThreadInv, HandlerPcs, Pcs
<1>2. TypeOK'
  BY <1>1 DEF IInv, TypeOK, Pcs
<1>3. Live(cur)' /\ conn'[cur].protocol = "HTTP2"
  BY <1>1
<1>4. conn'[cur].bytes_read + 1 < conn'[cur].read_buffer_size
  <2>1. conn'[cur].bytes_read \in Nat /\ conn[cur].bytes_read \in Nat /\ conn[cur].read_buffer_size \in Nat
    BY <1>1, FieldTypes DEF IInv, ConnType
  <2>2. conn[cur].bytes_read + 1 < conn[cur].read_buffer_size
    BY <1>1 DEF IInv, ConnInv
  <2>. QED  BY <2>1, <2>2
<1>5. ConnInv!(cur)'
  <2>1. ConnInv!(cur) /\ "NONE" \notin LiveStates /\ "FREED" \notin LiveStates
    BY <1>1 DEF IInv, ConnInv, LiveStates
  <2>. QED  BY <2>1, <1>1, <1>3, <1>4
<1>6. ThreadInv'
  <2>1. pc' \in HandlerPcs \cup {"after_read", "after_write"}
    BY DEF HandlerPcs, Pcs
  <2>. QED  BY <2>1, <1>1, <1>3, ServedThread
<1>. QED  BY <1>1, <1>2, <1>3, <1>5, <1>6, CurStep DEF IInv

(* The served connection of an HTTP/2 handler. *)
LEMMA Http2Served ==
  ASSUME IInv, pc \in {"h2_read", "h2_frames", "h2_write"}
  PROVE  /\ cur \in Clients /\ conn[cur] \in ConnType /\ sock[cur] \in SockType
         /\ Live(cur) /\ conn[cur].fd = ev.fd
         /\ conn[cur].bytes_read \in Nat /\ conn[cur].bytes_written \in Nat
         /\ conn[cur].write_buffer_size \in Nat /\ write_buffer[cur] \in Seq(UnitType)
         /\ conn[cur].write_buffer_size = Len(write_buffer[cur])
         /\ conn[cur].bytes_written <= conn[cur].write_buffer_size
<1>1. cur \in Clients /\ Live(cur) /\ conn[cur].fd = ev.fd
  BY DEF IInv, ThreadInv, HandlerPcs, Pcs
<1>. QED  BY <1>1, FieldTypes DEF IInv, ConnInv

(* The preface leaves the read buffer; of a client with prior knowledge the SETTINGS
   are all that is queued. *)
LEMMA TakePrefaceStep ==
  ASSUME IInv, TakePreface
  PROVE  IInv' /\ Kept
<1> DEFINE r == conn[cur].bytes_read - PrefaceLen
<1>1. /\ pc = "h2_read" /\ cur \in Clients /\ conn[cur] \in ConnType /\ sock[cur] \in SockType
      /\ conn[cur].bytes_read \in Nat /\ conn[cur].bytes_written \in Nat
      /\ conn[cur].write_buffer_size \in Nat /\ write_buffer[cur] \in Seq(UnitType)
      /\ conn[cur].write_buffer_size = Len(write_buffer[cur])
      /\ conn[cur].bytes_written <= conn[cur].write_buffer_size
  BY Http2Served DEF TakePreface
<1>2. r \in Nat /\ r <= conn[cur].bytes_read
  BY <1>1, Http2Assumption DEF Http2Assumption, TakePreface
<1>3. /\ UNCHANGED <<connections, backlog, batch, ev, cur, fdtab, disk, wire, frames, upgrading>>
      /\ pc' = "h2_frames" /\ preface' \in [Clients -> {"due", "taken"}]
      /\ wire' \in [Clients -> Seq(UnitType)] /\ frames' \in [Clients -> Seq(Kinds)]
  BY DEF TakePreface, IInv, TypeOK
<1>4. CASE http2_state[cur] = "SET"
  <2> DEFINE e == [conn[cur] EXCEPT !.bytes_read = r, !.write_buffer_size = conn[cur].write_buffer_size,
                                    !.bytes_written = conn[cur].bytes_written]
  <2>1. conn' = [conn EXCEPT ![cur] = e]
    <3>1. conn' = [conn EXCEPT ![cur] = [conn[cur] EXCEPT !.bytes_read = r]]
      BY <1>1, <1>4 DEF TakePreface, IInv, TypeOK
    <3>2. [conn[cur] EXCEPT !.bytes_read = r] = e
      BY <1>1 DEF ConnType
    <3>. QED  BY <3>1, <3>2
  <2>2. /\ e \in ConnType /\ e.bytes_read = r /\ e.write_buffer_size = conn[cur].write_buffer_size
        /\ e.bytes_written = conn[cur].bytes_written
        /\ e.fd = conn[cur].fd /\ e.file_fd = conn[cur].file_fd /\ e.state = conn[cur].state
        /\ e.protocol = conn[cur].protocol /\ e.read_buffer_size = conn[cur].read_buffer_size
    <3>1. e = [conn[cur] EXCEPT !.bytes_read = r, !.write_buffer_size = conn[cur].write_buffer_size,
                                !.bytes_written = conn[cur].bytes_written]
      OBVIOUS
    <3> HIDE DEF e, r
    <3>. QED  BY <3>1, <1>1, <1>2 DEF ConnType
  <2> HIDE DEF e, r
  <2>3. UNCHANGED <<http2_state, write_buffer, sock, ready>>
    BY <1>4 DEF TakePreface
  <2>4. conn' \in [Clients -> ConnType] /\ conn'[cur] = e
        /\ \A d \in Clients : d # cur => conn'[d] = conn[d]
    BY <1>1, <2>1, <2>2 DEF IInv, TypeOK
  <2>5. /\ sock' \in [Clients -> SockType] /\ write_buffer' \in [Clients -> Seq(UnitType)]
        /\ http2_state' \in [Clients -> {"NULL", "SET"}]
    BY <2>3 DEF IInv, TypeOK
  <2>. QED  BY <1>1, <1>2, <1>3, <2>2, <2>3, <2>4, <2>5, QueueStep
<1>5. CASE http2_state[cur] # "SET"
  <2> DEFINE e == [conn[cur] EXCEPT !.bytes_read = r, !.write_buffer_size = 1, !.bytes_written = 0]
  <2>1. /\ conn' = [conn EXCEPT ![cur] = e]
        /\ http2_state' = [http2_state EXCEPT ![cur] = "SET"]
        /\ write_buffer' = [write_buffer EXCEPT ![cur] = <<Settings>>]
        /\ mod_epoll(cur, sock[cur], {"IN", "OUT"})
    BY <1>1, <1>5 DEF TakePreface, IInv, TypeOK
  <2>2. /\ e \in ConnType /\ e.bytes_read = r /\ e.write_buffer_size = 1 /\ e.bytes_written = 0
        /\ e.fd = conn[cur].fd /\ e.file_fd = conn[cur].file_fd /\ e.state = conn[cur].state
        /\ e.protocol = conn[cur].protocol /\ e.read_buffer_size = conn[cur].read_buffer_size
    <3>1. e = [conn[cur] EXCEPT !.bytes_read = r, !.write_buffer_size = 1,
                                !.bytes_written = 0]
      OBVIOUS
    <3> HIDE DEF e, r
    <3>. QED  BY <3>1, <1>1, <1>2 DEF ConnType
  <2> HIDE DEF e, r
  <2>3. <<Settings>> \in Seq(UnitType) /\ Len(<<Settings>>) = 1
    BY ReplyTypes
  <2>4. conn' \in [Clients -> ConnType] /\ conn'[cur] = e
        /\ \A d \in Clients : d # cur => conn'[d] = conn[d]
    BY <1>1, <2>1, <2>2 DEF IInv, TypeOK
  <2>5. /\ write_buffer' \in [Clients -> Seq(UnitType)] /\ write_buffer'[cur] = <<Settings>>
        /\ \A d \in Clients : d # cur => write_buffer'[d] = write_buffer[d]
        /\ http2_state' \in [Clients -> {"NULL", "SET"}]
    BY <1>1, <2>1, <2>3 DEF IInv, TypeOK
  <2>6. /\ sock' \in [Clients -> SockType] /\ sock'[cur].peer = sock[cur].peer
        /\ \A d \in Clients : d # cur => sock'[d] = sock[d]
        /\ ready' \subseteq ready \cup {cur}
    <3>1. {"IN", "OUT"} \in SUBSET {"IN", "OUT"}
      OBVIOUS
    <3>. QED  BY <3>1, <1>1, <2>1, InterestSet DEF IInv
  <2>7. /\ conn'[cur].write_buffer_size = Len(write_buffer'[cur])
        /\ conn'[cur].bytes_written <= conn'[cur].write_buffer_size
    BY <2>2, <2>3, <2>4, <2>5
  <2>. QED  BY <1>1, <1>2, <1>3, <2>2, <2>4, <2>5, <2>6, <2>7, QueueStep
<1>. QED  BY <1>4, <1>5

(* A frame: its reply goes behind what is queued already. *)
LEMMA NextFrameStep ==
  ASSUME IInv, NEW kind \in Kinds, NextFrame(kind)
  PROVE  IInv' /\ Kept
<1> DEFINE reply == Reply(kind, Len(frames[cur]) + 1)
           queue == write_buffer[cur] \o reply
           r == conn[cur].bytes_read - FrameLen
           size == conn[cur].write_buffer_size + Len(reply)
           e == [conn[cur] EXCEPT !.bytes_read = r, !.write_buffer_size = size,
                                  !.bytes_written = conn[cur].bytes_written]
<1>1. /\ pc = "h2_frames" /\ cur \in Clients /\ conn[cur] \in ConnType /\ sock[cur] \in SockType
      /\ conn[cur].bytes_read \in Nat /\ conn[cur].bytes_written \in Nat
      /\ conn[cur].write_buffer_size \in Nat /\ write_buffer[cur] \in Seq(UnitType)
      /\ conn[cur].write_buffer_size = Len(write_buffer[cur])
      /\ conn[cur].bytes_written <= conn[cur].write_buffer_size
  BY Http2Served DEF NextFrame
<1>2. r \in Nat /\ r <= conn[cur].bytes_read
  <2>1. FrameLen \in Nat /\ FrameLen <= conn[cur].bytes_read
    BY <1>1, Http2Assumption DEF Http2Assumption, NextFrame, FrameWhole
  <2>. QED  BY <1>1, <2>1
<1>3. reply \in Seq(UnitType) /\ Len(reply) \in Nat
  <2>1. Len(frames[cur]) + 1 \in Nat
    BY <1>1 DEF IInv, TypeOK
  <2>2. reply \in Seq(UnitType)
    BY <2>1, ReplyTypes
  <2>. QED  BY <2>2
<1>4. /\ UNCHANGED <<connections, backlog, batch, ev, cur, fdtab, disk, wire, http2_state, preface, upgrading>>
      /\ pc' = "h2_frames"
      /\ write_buffer' = [write_buffer EXCEPT ![cur] = queue]
      /\ frames' = [frames EXCEPT ![cur] = Append(frames[cur], kind)]
      /\ conn' = [conn EXCEPT ![cur].bytes_read = r, ![cur].write_buffer_size = size]
      /\ IF kind = "HEADERS" THEN mod_epoll(cur, sock[cur], {"IN", "OUT"}) ELSE UNCHANGED <<sock, ready>>
  BY <1>1 DEF NextFrame, IInv, TypeOK
<1> HIDE DEF reply
<1>5. queue \in Seq(UnitType) /\ Len(queue) = size /\ size \in Nat /\ conn[cur].bytes_written <= size
  BY <1>1, <1>3
<1>6. conn' = [conn EXCEPT ![cur] = e]
  <2>1. conn' = [conn EXCEPT ![cur] = [conn[cur] EXCEPT !.bytes_read = r, !.write_buffer_size = size]]
    BY <1>1, <1>4 DEF IInv, TypeOK
  <2> HIDE DEF r, size
  <2>2. [conn[cur] EXCEPT !.bytes_read = r, !.write_buffer_size = size] = e
    BY <1>1 DEF ConnType
  <2>. QED  BY <2>1, <2>2
<1> HIDE DEF queue, r, size
<1>7. /\ e \in ConnType /\ e.bytes_read = r /\ e.write_buffer_size = size
      /\ e.bytes_written = conn[cur].bytes_written
      /\ e.fd = conn[cur].fd /\ e.file_fd = conn[cur].file_fd /\ e.state = conn[cur].state
      /\ e.protocol = conn[cur].protocol /\ e.read_buffer_size = conn[cur].read_buffer_size
  <2>1. e = [conn[cur] EXCEPT !.bytes_read = r, !.write_buffer_size = size,
                              !.bytes_written = conn[cur].bytes_written]
    OBVIOUS
  <2> HIDE DEF e
  <2>. QED  BY <2>1, <1>1, <1>2, <1>5 DEF ConnType
<1> HIDE DEF e
<1>8. conn' \in [Clients -> ConnType] /\ conn'[cur] = e
      /\ \A d \in Clients : d # cur => conn'[d] = conn[d]
  BY <1>1, <1>6, <1>7 DEF IInv, TypeOK
<1>9. /\ write_buffer' \in [Clients -> Seq(UnitType)] /\ write_buffer'[cur] = queue
      /\ \A d \in Clients : d # cur => write_buffer'[d] = write_buffer[d]
  BY <1>1, <1>4, <1>5 DEF IInv, TypeOK
<1>10. /\ frames' \in [Clients -> Seq(Kinds)] /\ wire' \in [Clients -> Seq(UnitType)]
       /\ http2_state' \in [Clients -> {"NULL", "SET"}] /\ preface' \in [Clients -> {"due", "taken"}]
  <2>1. Append(frames[cur], kind) \in Seq(Kinds)
    BY <1>1 DEF IInv, TypeOK
  <2>. QED  BY <2>1, <1>4 DEF IInv, TypeOK
<1>11. /\ sock' \in [Clients -> SockType] /\ sock'[cur].peer = sock[cur].peer
       /\ \A d \in Clients : d # cur => sock'[d] = sock[d]
       /\ ready' \subseteq ready \cup {cur}
  <2>1. CASE kind = "HEADERS"
    <3>1. {"IN", "OUT"} \in SUBSET {"IN", "OUT"} /\ mod_epoll(cur, sock[cur], {"IN", "OUT"})
      BY <2>1, <1>4
    <3>. QED  BY <3>1, <1>1, InterestSet DEF IInv
  <2>2. CASE kind # "HEADERS"
    BY <2>2, <1>4 DEF IInv, TypeOK
  <2>. QED  BY <2>1, <2>2
<1>12. /\ conn'[cur].write_buffer_size = Len(write_buffer'[cur])
       /\ conn'[cur].bytes_written <= conn'[cur].write_buffer_size
  BY <1>5, <1>7, <1>8, <1>9
<1>. QED  BY <1>1, <1>2, <1>4, <1>7, <1>8, <1>9, <1>10, <1>11, <1>12, QueueStep

-----------------------------------------------------------------------------
(* handle_write of an HTTP/2 connection. *)

(* One write: what is written stays inside the queue and the send buffer, and an
   empty queue is dropped with its counters. *)
LEMMA Http2WriteStep ==
  ASSUME IInv, Http2Write
  PROVE  IInv' /\ Kept
<1> DEFINE left == conn[cur].write_buffer_size - conn[cur].bytes_written
           n == Least(left, Room(sock[cur]))
           to == conn[cur].bytes_written + n
           units == SubSeq(write_buffer[cur], conn[cur].bytes_written + 1, to)
<1>1. /\ pc = "h2_write" /\ cur \in Clients /\ conn[cur] \in ConnType /\ sock[cur] \in SockType
      /\ conn[cur].bytes_read \in Nat /\ conn[cur].bytes_written \in Nat
      /\ conn[cur].write_buffer_size \in Nat /\ write_buffer[cur] \in Seq(UnitType)
      /\ conn[cur].write_buffer_size = Len(write_buffer[cur])
      /\ conn[cur].bytes_written <= conn[cur].write_buffer_size
  BY Http2Served DEF Http2Write
<1>2. n \in Nat /\ n <= Room(sock[cur]) /\ to \in Nat /\ to <= conn[cur].write_buffer_size
  <2>1. Room(sock[cur]) \in Nat /\ left \in Nat
    BY <1>1, FieldTypes, KernelAssumption DEF KernelAssumption, Room, IInv
  <2>. QED  BY <2>1, <1>1 DEF Least
<1>3. /\ UNCHANGED <<connections, backlog, batch, ev, cur, fdtab, disk, http2_state, preface, frames, upgrading>>
      /\ wire' = [wire EXCEPT ![cur] = @ \o units]
      /\ \/ /\ conn' = [conn EXCEPT ![cur].write_buffer_size = 0, ![cur].bytes_written = 0]
            /\ write_buffer' = [write_buffer EXCEPT ![cur] = <<>>]
            /\ mod_epoll(cur, Wrote(sock[cur], n), {"IN"})
            /\ pc' = "after_write"
         \/ /\ conn' = [conn EXCEPT ![cur].bytes_written = @ + n]
            /\ sock' = [sock EXCEPT ![cur] = Wrote(@, n)]
            /\ UNCHANGED <<write_buffer, ready, pc>>
  BY DEF Http2Write
<1>4. units \in Seq(UnitType)
  <2>1. \A i \in conn[cur].bytes_written + 1..to : i \in 1..Len(write_buffer[cur])
    BY <1>1, <1>2
  <2> HIDE DEF to
  <2>2. units \in Seq(UnitType)
    BY <2>1, <1>1, <1>2
  <2>. QED  BY <2>2
<1> HIDE DEF units, n
<1>5. /\ wire' \in [Clients -> Seq(UnitType)] /\ frames' \in [Clients -> Seq(Kinds)]
      /\ http2_state' \in [Clients -> {"NULL", "SET"}] /\ preface' \in [Clients -> {"due", "taken"}]
  <2>1. wire' \in [Clients -> Seq(UnitType)]
    BY <1>1, <1>3, <1>4, WireTyped DEF IInv
  <2>. QED  BY <2>1, <1>3 DEF IInv, TypeOK
<1>6. /\ Wrote(sock[cur], n) \in SockType /\ Wrote(sock[cur], n).peer = sock[cur].peer
  BY <1>1, <1>2, WroteSock
<1>7. ASSUME conn' = [conn EXCEPT ![cur].write_buffer_size = 0, ![cur].bytes_written = 0],
             write_buffer' = [write_buffer EXCEPT ![cur] = <<>>],
             mod_epoll(cur, Wrote(sock[cur], n), {"IN"}), pc' = "after_write"
      PROVE  IInv' /\ Kept
  <2>1. /\ conn'[cur] = [conn[cur] EXCEPT !.write_buffer_size = 0, !.bytes_written = 0]
        /\ \A d \in Clients : d # cur => conn'[d] = conn[d]
    BY <1>1, <1>7 DEF IInv, TypeOK
  <2>2. /\ conn'[cur] \in ConnType /\ conn'[cur].bytes_read = conn[cur].bytes_read
        /\ conn'[cur].write_buffer_size = 0 /\ conn'[cur].bytes_written = 0
        /\ conn'[cur].fd = conn[cur].fd /\ conn'[cur].file_fd = conn[cur].file_fd
        /\ conn'[cur].state = conn[cur].state /\ conn'[cur].protocol = conn[cur].protocol
        /\ conn'[cur].read_buffer_size = conn[cur].read_buffer_size
    <3>1. conn[cur] \in ConnType /\ 0 \in Nat
          /\ conn'[cur] = [conn[cur] EXCEPT !.write_buffer_size = 0, !.bytes_written = 0]
      BY <1>1, <2>1
    <3> HIDE DEF left, to
    <3>. QED  BY <3>1 DEF ConnType
  <2>3. conn' \in [Clients -> ConnType]
    BY <1>7, <2>2 DEF IInv, TypeOK
  <2>4. /\ write_buffer' \in [Clients -> Seq(UnitType)] /\ write_buffer'[cur] = <<>>
        /\ \A d \in Clients : d # cur => write_buffer'[d] = write_buffer[d]
    BY <1>1, <1>7 DEF IInv, TypeOK
  <2>5. /\ sock' \in [Clients -> SockType] /\ sock'[cur].peer = sock[cur].peer
        /\ \A d \in Clients : d # cur => sock'[d] = sock[d]
        /\ ready' \subseteq ready \cup {cur}
    <3>1. {"IN"} \in SUBSET {"IN", "OUT"}
      OBVIOUS
    <3>. QED  BY <3>1, <1>1, <1>6, <1>7, InterestSet DEF IInv
  <2>6. /\ conn'[cur].write_buffer_size = Len(write_buffer'[cur])
        /\ conn'[cur].bytes_written <= conn'[cur].write_buffer_size
        /\ conn'[cur].bytes_read <= conn[cur].bytes_read
    BY <1>1, <2>2, <2>4
  <2>. QED  BY <1>1, <1>3, <1>5, <1>7, <2>1, <2>2, <2>3, <2>4, <2>5, <2>6, QueueStep
<1>8. ASSUME conn' = [conn EXCEPT ![cur].bytes_written = @ + n],
             sock' = [sock EXCEPT ![cur] = Wrote(@, n)],
             UNCHANGED <<write_buffer, ready, pc>>
      PROVE  IInv' /\ Kept
  <2>1. /\ conn'[cur] = [conn[cur] EXCEPT !.bytes_written = to]
        /\ \A d \in Clients : d # cur => conn'[d] = conn[d]
    BY <1>1, <1>8 DEF IInv, TypeOK
  <2> HIDE DEF to
  <2>2. /\ conn'[cur] \in ConnType /\ conn'[cur].bytes_read = conn[cur].bytes_read
        /\ conn'[cur].write_buffer_size = conn[cur].write_buffer_size /\ conn'[cur].bytes_written = to
        /\ conn'[cur].fd = conn[cur].fd /\ conn'[cur].file_fd = conn[cur].file_fd
        /\ conn'[cur].state = conn[cur].state /\ conn'[cur].protocol = conn[cur].protocol
        /\ conn'[cur].read_buffer_size = conn[cur].read_buffer_size
    BY <1>1, <1>2, <2>1 DEF ConnType
  <2>3. conn' \in [Clients -> ConnType]
    BY <1>8, <2>2 DEF IInv, TypeOK
  <2>4. write_buffer' \in [Clients -> Seq(UnitType)]
    BY <1>8 DEF IInv, TypeOK
  <2>5. /\ sock' \in [Clients -> SockType] /\ sock'[cur].peer = sock[cur].peer
        /\ \A d \in Clients : d # cur => sock'[d] = sock[d]
    BY <1>1, <1>6, <1>8 DEF IInv, TypeOK
  <2>6. /\ conn'[cur].write_buffer_size = Len(write_buffer'[cur])
        /\ conn'[cur].bytes_written <= conn'[cur].write_buffer_size
        /\ conn'[cur].bytes_read <= conn[cur].bytes_read
    BY <1>1, <1>2, <1>8, <2>2
  <2>. QED  BY <1>1, <1>3, <1>5, <1>8, <2>1, <2>2, <2>3, <2>4, <2>5, <2>6, QueueStep
<1>. QED  BY <1>3, <1>7, <1>8

(* EAGAIN: only the mark that asks for a write edge is new. *)
LEMMA Http2WriteAgainStep ==
  ASSUME IInv, Http2WriteAgain
  PROVE  IInv' /\ Kept
<1>1. /\ pc = "h2_write" /\ cur \in Clients /\ conn[cur] \in ConnType /\ sock[cur] \in SockType
      /\ conn[cur].bytes_read \in Nat /\ conn[cur].write_buffer_size = Len(write_buffer[cur])
      /\ conn[cur].bytes_written <= conn[cur].write_buffer_size
  BY Http2Served DEF Http2WriteAgain
<1>2. /\ UNCHANGED <<connections, conn, backlog, batch, ev, cur, ready, fdtab, disk, wire, http2_state,
                     write_buffer, preface, frames, upgrading>>
      /\ pc' = "after_write"
  BY DEF Http2WriteAgain
<1>3. /\ sock' \in [Clients -> SockType] /\ sock'[cur].peer = sock[cur].peer
      /\ \A d \in Clients : d # cur => sock'[d] = sock[d]
  <2>1. /\ sock'[cur] = [sock[cur] EXCEPT !.flags = {"NOSPACE"}]
        /\ \A d \in Clients : d # cur => sock'[d] = sock[d]
    BY <1>1 DEF Http2WriteAgain, Refused, IInv, TypeOK
  <2>2. sock'[cur] \in SockType /\ sock'[cur].peer = sock[cur].peer
    BY <1>1, <2>1 DEF SockType
  <2>. QED  BY <2>1, <2>2 DEF Http2WriteAgain, IInv, TypeOK
<1>4. /\ conn' \in [Clients -> ConnType] /\ wire' \in [Clients -> Seq(UnitType)]
      /\ write_buffer' \in [Clients -> Seq(UnitType)] /\ frames' \in [Clients -> Seq(Kinds)]
      /\ http2_state' \in [Clients -> {"NULL", "SET"}] /\ preface' \in [Clients -> {"due", "taken"}]
  BY <1>2 DEF IInv, TypeOK
<1>5. conn'[cur].bytes_read <= conn[cur].bytes_read
  BY <1>1, <1>2
<1>. QED  BY <1>1, <1>2, <1>3, <1>4, <1>5, QueueStep

(* A failed write ends the connection, whose client has reset it. *)
LEMMA Http2WriteErrorStep ==
  ASSUME IInv, Http2WriteError
  PROVE  IInv' /\ Kept
<1>1. cur \in Clients /\ Live(cur) /\ conn[cur].fd = ev.fd /\ sock[cur].peer \in Gone
  BY Http2Served DEF Http2WriteError, Gone
<1>. QED  BY <1>1, FreeStep DEF Http2WriteError

(* The loops of handle_read and http1_handle_read always have room, so that their
   end is the one of the stream. *)
LEMMA ReadEndStep ==
  ASSUME IInv, ReadEnd, UNCHANGED http2Vars
  PROVE  IInv' /\ Kept
<1>1. cur \in Clients /\ Live(cur) /\ conn[cur].fd = ev.fd
  BY DEF IInv, ThreadInv, HandlerPcs, Pcs, ReadEnd
<1>2. ReadRoom(cur) # 0
  <2>1. /\ conn[cur].bytes_read + 1 < conn[cur].read_buffer_size
        /\ conn[cur].bytes_read \in Nat /\ conn[cur].read_buffer_size \in Nat
    BY <1>1, FieldTypes DEF IInv, ConnInv
  <2>. QED  BY <2>1 DEF ReadRoom
<1>3. sock[cur].peer \in Gone
  BY <1>2 DEF ReadEnd, ReadEnds
<1>. QED  BY <1>1, <1>3, FreeStep DEF ReadEnd

(* Main after handle_write: a hang-up frees what the handlers left alive, and only a
   dead peer hangs up. *)
LEMMA AfterWriteStep ==
  ASSUME IInv, AfterWrite, UNCHANGED http2Vars
  PROVE  IInv' /\ Kept
<1>1. cur \in Clients /\ ev.fd \in Fds /\ pc = "after_write"
  BY DEF IInv, ThreadInv, AfterWrite
<1>2. CASE "HUP" \in ev.mask /\ get_connection(ev.fd) = cur
  <2>1. Live(cur) /\ conn[cur].fd = ev.fd
    BY <1>1, <1>2, KernelAssumption DEF KernelAssumption, IInv, get_connection, DescriptorsAccounted
  <2>2. sock[cur].peer \in Gone
    <3>1. sock[cur].peer # "closed"
      BY <1>1, <2>1 DEF IInv, ConnInv, LiveStates
    <3>. QED  BY <1>1, <1>2, <3>1 DEF IInv, ThreadInv, ServedPcs, Dead, Gone
  <2>. QED  BY <1>1, <1>2, <2>1, <2>2, FreeStep DEF AfterWrite
<1>3. CASE ~("HUP" \in ev.mask /\ get_connection(ev.fd) = cur)
  <2>1. /\ UNCHANGED <<connections, conn, fdtab, sock, ready, batch, write_buffer, backlog, disk, wire>>
        /\ NextEvent
    BY <1>3 DEF AfterWrite
  <2>2. TypeOK'
    BY <2>1, ConstantTypes DEF IInv, TypeOK, Pcs, NextEvent
  <2>3. ConnInv' /\ QueueInv' /\ ThreadInv'
    BY <1>1, <2>1, KernelAssumption
    DEF KernelAssumption, IInv, ConnInv, QueueInv, ThreadInv, NextEvent, HandlerPcs, ServedPcs
  <2>. QED  BY <2>1, <2>2, <2>3, DescriptorsKept DEF IInv, Kept
<1>. QED  BY <1>2, <1>3

-----------------------------------------------------------------------------
(* handle_accept. *)

(* A new connection takes the lowest free descriptor and is registered. *)
LEMMA AcceptStep ==
  ASSUME IInv, NEW c \in Clients, NEW f \in Fds, Accept(c, f), UNCHANGED http2Vars
  PROVE  IInv' /\ Kept
<1> DEFINE fresh == [Blank EXCEPT !.state = "READ_REQUEST", !.fd = f, !.read_buffer_size = InitBuf]
<1>1. /\ cur = NoClient /\ conn[c].state = "NONE" /\ sock[c].peer \notin {"new", "closed"}
      /\ sock[c].snd = 0 /\ write_buffer[c] = <<>> /\ sock[c] \in SockType
      /\ c \in backlog /\ pc = "accept" /\ NoClient \notin Clients
  <2>1. cur = NoClient /\ pc = "accept" /\ c \in backlog /\ NoClient \notin Clients
    BY KernelAssumption DEF KernelAssumption, Accept, IInv, ThreadInv
  <2>2. conn[c].state = "NONE" /\ sock[c].peer # "new"
    BY <2>1 DEF IInv, QueueInv
  <2>. QED  BY <2>1, <2>2, FieldTypes DEF IInv, ConnInv
<1>2. /\ backlog' = backlog \ {c} /\ fdtab' = [fdtab EXCEPT ![f] = ASocket]
      /\ connections' = [connections EXCEPT ![f] = c] /\ conn' = [conn EXCEPT ![c] = fresh]
      /\ mod_epoll(c, sock[c], {"IN"})
      /\ pc' = "next" /\ ev' = NoEvent /\ cur' = NoClient
      /\ UNCHANGED <<batch, http2_state, write_buffer, preface, frames, upgrading, disk, wire>>
  BY DEF Accept, create_connection, mod_epoll, NextEvent
<1>3. /\ fresh \in ConnType /\ fresh.state = "READ_REQUEST" /\ fresh.fd = f
      /\ fresh.read_buffer_size = InitBuf /\ fresh.bytes_read = 0 /\ fresh.bytes_written = 0
      /\ fresh.write_buffer_size = 0 /\ fresh.file_fd = NoFd /\ 0 + 1 < InitBuf /\ "READ_REQUEST" \in LiveStates
  <2>1. InitBuf \in Nat /\ 0 + 1 < InitBuf /\ "READ_REQUEST" \in LiveStates
    BY LoopAssumption DEF LoopAssumption, LiveStates
  <2>2. fresh \in ConnType
    BY <2>1, ConstantTypes DEF ConnType
  <2>3. /\ fresh.state = "READ_REQUEST" /\ fresh.fd = f /\ fresh.read_buffer_size = InitBuf
        /\ fresh.bytes_read = 0 /\ fresh.bytes_written = 0
        /\ fresh.write_buffer_size = 0 /\ fresh.file_fd = NoFd
    BY DEF Blank
  <2>. QED  BY <2>1, <2>2, <2>3
<1> HIDE DEF fresh
<1>4. conn'[c] = fresh /\ Live(c)' /\ ~Live(c) /\ \A d \in Clients : d # c => conn'[d] = conn[d]
  BY <1>1, <1>2, <1>3 DEF IInv, TypeOK, LiveStates
<1>5. /\ sock' \in [Clients -> SockType]
      /\ sock'[c].interest = {"IN"} /\ sock'[c].snd = 0 /\ sock'[c].peer = sock[c].peer
      /\ \A d \in Clients : d # c => sock'[d] = sock[d]
      /\ ready' \subseteq ready \cup {c}
  <2>1. {"IN"} \in SUBSET {"IN", "OUT"}
    OBVIOUS
  <2>2. /\ sock' \in [Clients -> SockType]
        /\ sock'[c].interest = {"IN"} /\ sock'[c].snd = sock[c].snd /\ sock'[c].peer = sock[c].peer
        /\ \A d \in Clients : d # c => sock'[d] = sock[d]
        /\ ready' \subseteq ready \cup {c}
    BY <2>1, <1>1, <1>2, InterestSet DEF IInv
  <2>. QED  BY <2>2, <1>1
<1>6. fdtab[f].kind = "free" /\ connections[f] = NoClient
      /\ \A d \in Clients : Live(d) => conn[d].fd # f /\ conn[d].file_fd # f
  BY KernelAssumption DEF KernelAssumption, Accept, Lowest, FreeFds, IInv, DescriptorsAccounted
<1>7. TypeOK'
  <2>1. fdtab' \in [Fds -> DescriptorType] /\ ev' \in EventType
    BY <1>2, ConstantTypes DEF IInv, TypeOK
  <2>. QED  BY <2>1, <1>2, <1>3, <1>5 DEF IInv, TypeOK, Pcs
<1>8. DescriptorsAccounted'
  <2>1. \A g \in Fds : connections'[g] = IF g = f THEN c ELSE connections[g]
    BY <1>2 DEF IInv, TypeOK
  <2>2. \A g \in Fds : fdtab'[g].kind = IF g = f THEN "socket" ELSE fdtab[g].kind
    BY <1>2 DEF IInv, TypeOK, ASocket
  <2>3. \A g \in Fds : (fdtab[g].kind = "socket" <=> connections[g] # NoClient)'
    BY <1>1, <2>1, <2>2 DEF IInv, DescriptorsAccounted
  <2>4. \A g \in Fds : (connections[g] # NoClient =>
                          Live(connections[g]) /\ conn[connections[g]].fd = g)'
    <3> SUFFICES ASSUME NEW g \in Fds, connections'[g] # NoClient
                 PROVE  conn'[connections'[g]].state \in LiveStates /\ conn'[connections'[g]].fd = g
      OBVIOUS
    <3>1. CASE g = f
      BY <3>1, <2>1, <1>3, <1>4
    <3>2. CASE g # f
      <4>1. connections'[g] = connections[g] /\ connections[g] \in Clients /\ Live(connections[g])
            /\ conn[connections[g]].fd = g
        BY <3>2, <2>1 DEF IInv, DescriptorsAccounted, TypeOK
      <4>. QED  BY <4>1, <1>4
    <3>. QED  BY <3>1, <3>2
  <2>5. \A d \in Clients : conn[d].file_fd = NoFd /\ conn'[d].file_fd = NoFd
    BY <1>3, <1>4, FieldTypes DEF IInv
  <2>6. \A g \in Fds : (fdtab[g].kind = "file" <=> \E d \in Clients : Live(d) /\ conn[d].file_fd = g)'
    <3>1. NoFd \notin Fds
      BY DEF NoFd, Fds
    <3>. QED  BY <3>1, <2>2, <2>5, <1>6 DEF IInv, DescriptorsAccounted
  <2>7. \A d \in Clients : (Live(d) => conn[d].fd \in Fds /\ connections[conn[d].fd] = d)'
    BY <2>1, <1>3, <1>4, <1>6 DEF IInv, DescriptorsAccounted
  <2>8. \A d, e \in Clients : (Live(d) /\ Live(e) /\ conn[d].file_fd = conn[e].file_fd
                                  => d = e \/ conn[d].file_fd = NoFd)'
    BY <2>5
  <2>. QED  BY <2>3, <2>4, <2>6, <2>7, <2>8 DEF DescriptorsAccounted
<1>9. ConnInv'
  <2> SUFFICES ASSUME NEW d \in Clients PROVE ConnInv!(d)'
    BY DEF ConnInv
  <2>1. CASE d = c
    <3>1. write_buffer'[c] = <<>> /\ Len(<<>>) = 0
      BY <1>1, <1>2
    <3>2. conn'[c].state = "READ_REQUEST" /\ conn'[c].bytes_read + 1 < conn'[c].read_buffer_size
          /\ conn'[c].write_buffer_size = 0 /\ conn'[c].bytes_written = 0
      BY <1>3, <1>4
    <3>. QED  BY <2>1, <3>1, <3>2, <1>1, <1>4, <1>5
  <2>2. CASE d # c
    <3>1. ConnInv!(d)
      BY DEF IInv, ConnInv
    <3>2. conn'[d] = conn[d] /\ sock'[d] = sock[d] /\ write_buffer'[d] = write_buffer[d] /\ d # cur
      BY <2>2, <1>1, <1>2, <1>4, <1>5
    <3>. QED  BY <3>1, <3>2
  <2>. QED  BY <2>1, <2>2
<1>10. QueueInv'
  <2>1. \A d \in backlog' : conn'[d].state = "NONE" /\ sock'[d].peer # "new"
    <3>1. \A d \in backlog' : d \in Clients /\ d # c /\ conn[d].state = "NONE" /\ sock[d].peer # "new"
      BY <1>2 DEF IInv, TypeOK, QueueInv
    <3>. QED  BY <3>1, <1>4, <1>5
  <2>2. \A d \in ready' : Live(d)'
    BY <1>4, <1>5 DEF IInv, TypeOK, QueueInv
  <2>3. \A e \in batch' : e.fd # ListenFd =>
          /\ e.sock \in Clients /\ e.sock # cur'
          /\ Live(e.sock)' /\ conn'[e.sock].fd = e.fd
          /\ "HUP" \in e.mask => sock'[e.sock].peer \in Dead
    <3> SUFFICES ASSUME NEW e \in batch, e.fd # ListenFd
                 PROVE  /\ e.sock \in Clients /\ e.sock # NoClient
                        /\ conn'[e.sock].state \in LiveStates /\ conn'[e.sock].fd = e.fd
                        /\ "HUP" \in e.mask => sock'[e.sock].peer \in Dead
      BY <1>2
    <3>1. /\ e.sock \in Clients /\ Live(e.sock) /\ conn[e.sock].fd = e.fd
          /\ "HUP" \in e.mask => sock[e.sock].peer \in Dead
      BY DEF IInv, QueueInv
    <3>2. e.sock # c
      BY <3>1, <1>4
    <3>. QED  BY <3>1, <3>2, <1>1, <1>4, <1>5
  <2>. QED  BY <2>1, <2>2, <2>3, <1>2 DEF IInv, QueueInv
<1>11. ThreadInv'
  BY <1>2 DEF ThreadInv, ServedPcs, HandlerPcs
<1>12. Kept
  BY <1>4 DEF Kept
<1>. QED  BY <1>7, <1>8, <1>9, <1>10, <1>11, <1>12 DEF IInv

(* set_nonblocking or epoll_ctl fails: the accepted socket is closed again. *)
LEMMA AcceptRefusedStep ==
  ASSUME IInv, NEW c \in Clients, AcceptRefused(c), UNCHANGED http2Vars
  PROVE  IInv' /\ Kept
<1>1. cur = NoClient /\ conn[c].state = "NONE" /\ c \in backlog /\ pc = "accept"
      /\ NoClient \notin Clients
  BY KernelAssumption DEF KernelAssumption, AcceptRefused, IInv, QueueInv, ThreadInv
<1>2. /\ UNCHANGED <<connections, batch, ready, fdtab, disk, wire, write_buffer>>
      /\ backlog' = backlog \ {c} /\ pc' = "next" /\ ev' = NoEvent /\ cur' = NoClient
  BY DEF AcceptRefused, NextEvent
<1>3. /\ conn'[c] = Freed /\ sock'[c] = ClosedSock /\ ~Live(c) /\ ~Live(c)'
      /\ \A d \in Clients : d # c => conn'[d] = conn[d] /\ sock'[d] = sock[d]
  BY <1>1, FreedFields DEF AcceptRefused, IInv, TypeOK, LiveStates
<1>4. TypeOK'
  BY <1>2, ConstantTypes DEF AcceptRefused, IInv, TypeOK, Pcs
<1>5. DescriptorsAccounted' /\ Kept
  <2>1. \A d \in Clients : Live(d)' = Live(d)
    BY <1>3
  <2>2. \A g \in Fds : connections[g] \in Clients \cup {NoClient}
    BY DEF IInv, TypeOK
  <2>. QED  BY <2>1, <2>2, <1>2, <1>3 DEF IInv, DescriptorsAccounted, Kept
<1>6. ConnInv'
  <2> SUFFICES ASSUME NEW d \in Clients PROVE ConnInv!(d)'
    BY DEF ConnInv
  <2>1. CASE d = c
    BY <2>1, <1>3, FreedFields
  <2>2. CASE d # c
    <3>1. ConnInv!(d)
      BY DEF IInv, ConnInv
    <3>2. conn'[d] = conn[d] /\ sock'[d] = sock[d] /\ write_buffer'[d] = write_buffer[d] /\ d # cur
      BY <2>2, <1>1, <1>2, <1>3
    <3>. QED  BY <3>1, <3>2
  <2>. QED  BY <2>1, <2>2
<1>7. QueueInv'
  <2>1. \A d \in backlog' : conn'[d].state = "NONE" /\ sock'[d].peer # "new"
    <3>1. \A d \in backlog' : d \in Clients /\ d # c /\ conn[d].state = "NONE" /\ sock[d].peer # "new"
      BY <1>2 DEF IInv, TypeOK, QueueInv
    <3>. QED  BY <3>1, <1>3
  <2>2. \A d \in ready' : Live(d)'
    BY <1>2, <1>3 DEF IInv, TypeOK, QueueInv
  <2>3. \A e \in batch' : e.fd # ListenFd =>
          /\ e.sock \in Clients /\ e.sock # cur'
          /\ Live(e.sock)' /\ conn'[e.sock].fd = e.fd
          /\ "HUP" \in e.mask => sock'[e.sock].peer \in Dead
    BY <1>1, <1>2, <1>3 DEF IInv, QueueInv
  <2>. QED  BY <2>1, <2>2, <2>3, <1>2 DEF IInv, QueueInv
<1>8. ThreadInv'
  BY <1>2 DEF ThreadInv, ServedPcs, HandlerPcs
<1>. QED  BY <1>4, <1>5, <1>6, <1>7, <1>8 DEF IInv

-----------------------------------------------------------------------------
(* Peers, between any two steps of the thread. *)

(* What a peer does to its socket leaves the server's state alone; a dead peer does
   nothing more. *)
LEMMA PeerMoves ==
  ASSUME IInv, NEW c \in Clients,
         sock' \in [Clients -> SockType], \A d \in Clients : d # c => sock'[d] = sock[d],
         sock'[c].interest = sock[c].interest, sock'[c].peer \notin {"new", "closed"},
         sock[c].peer \notin Dead \cup {"closed"}, sock'[c].snd <= sock[c].snd,
         backlog' \in {backlog, backlog \cup {c}},
         backlog' = backlog \/ conn[c].state = "NONE",
         ready' \in {ready, ready \cup {c}},
         ready' = ready \/ sock[c].interest # {},
         UNCHANGED <<fdtab, disk, wire, serverVars>>
  PROVE  IInv' /\ Kept
<1>1. UNCHANGED <<fdtab, disk, wire, connections, conn, pc, batch, ev, cur, http2_state, write_buffer,
                  preface, frames, upgrading>>
  BY DEF serverVars
<1>2. TypeOK'
  <2>1. backlog' \subseteq Clients /\ ready' \subseteq Clients
    BY DEF IInv, TypeOK
  <2>. QED  BY <2>1, <1>1 DEF IInv, TypeOK
<1>3. DescriptorsAccounted' /\ Kept
  BY <1>1, DescriptorsKept DEF IInv, Kept
<1>4. ConnInv'
  <2> SUFFICES ASSUME NEW d \in Clients PROVE ConnInv!(d)'
    BY DEF ConnInv
  <2>1. ConnInv!(d)
    BY DEF IInv, ConnInv
  <2>2. CASE d = c
    <3>1. sock'[c].snd \in Nat /\ sock[c].snd \in Nat /\ sock'[c].snd <= sock[c].snd
      BY FieldTypes, KernelAssumption DEF KernelAssumption, IInv, SockType
    <3>2. /\ sock[c].snd = 0 => sock'[c].snd = 0
          /\ sock[c].snd = 1 => sock'[c].snd \in {0, 1}
      BY <3>1
    <3>. QED  BY <2>1, <2>2, <3>2, <1>1
  <2>3. CASE d # c
    BY <2>1, <2>3, <1>1
  <2>. QED  BY <2>2, <2>3
<1>5. QueueInv'
  <2>1. \A d \in backlog' : conn'[d].state = "NONE" /\ sock'[d].peer # "new"
    <3>1. \A d \in backlog : d \in Clients /\ conn[d].state = "NONE" /\ sock[d].peer # "new"
      BY DEF IInv, TypeOK, QueueInv
    <3>. QED  BY <3>1, <1>1
  <2>2. \A d \in ready' : Live(d)'
    <3>1. sock[c].interest # {} => Live(c)
      BY DEF IInv, ConnInv
    <3>2. \A d \in ready : Live(d)
      BY DEF IInv, QueueInv
    <3>. QED  BY <3>1, <3>2, <1>1
  <2>3. \A e \in batch' : e.fd # ListenFd =>
          /\ e.sock \in Clients /\ e.sock # cur'
          /\ Live(e.sock)' /\ conn'[e.sock].fd = e.fd
          /\ "HUP" \in e.mask => sock'[e.sock].peer \in Dead
    <3> SUFFICES ASSUME NEW e \in batch, e.fd # ListenFd
                 PROVE  /\ e.sock \in Clients /\ e.sock # cur
                        /\ Live(e.sock) /\ conn[e.sock].fd = e.fd
                        /\ "HUP" \in e.mask => sock'[e.sock].peer \in Dead
      BY <1>1
    <3>1. /\ e.sock \in Clients /\ e.sock # cur /\ Live(e.sock) /\ conn[e.sock].fd = e.fd
          /\ "HUP" \in e.mask => sock[e.sock].peer \in Dead
      BY DEF IInv, QueueInv
    <3>2. "HUP" \in e.mask => e.sock # c
      BY <3>1
    <3>. QED  BY <3>1, <3>2
  <2>. QED  BY <2>1, <2>2, <2>3, <1>1 DEF IInv, QueueInv
<1>6. ThreadInv'
  <2>1. pc \in ServedPcs => cur \in Clients
    BY DEF IInv, ThreadInv, ServedPcs
  <2>2. pc \in ServedPcs /\ "HUP" \in ev.mask => sock[cur].peer \in Dead \cup {"closed"} /\ cur # c
    BY DEF IInv, ThreadInv
  <2>3. pc \in ServedPcs /\ "HUP" \in ev.mask => sock'[cur].peer \in Dead \cup {"closed"}
    BY <2>1, <2>2
  <2>. QED  BY <2>3, <1>1 DEF IInv, ThreadInv
<1>. QED  BY <1>2, <1>3, <1>4, <1>5, <1>6 DEF IInv

(* Every step of a peer keeps the invariant. *)
LEMMA PeerStepKeeps ==
  ASSUME IInv, NEW c \in Clients, PeerStep(c)
  PROVE  IInv' /\ Kept
<1>1. /\ sock[c] \in SockType /\ sock[c].rcv \in Nat /\ sock[c].unsent \in Nat
      /\ sock[c].snd \in 0..SndCap /\ SndCap \in Nat
  BY FieldTypes, KernelAssumption DEF KernelAssumption, IInv
<1>2. UNCHANGED <<fdtab, disk, wire, serverVars>> /\ sock[c].peer \notin Dead \cup {"closed"}
  BY DEF PeerStep, Connect, SendUnit, Drain, Fin, Reset, Dead
<1>3. /\ backlog' \in {backlog, backlog \cup {c}}
      /\ backlog' = backlog \/ conn[c].state = "NONE"
      /\ ready' \in {ready, ready \cup {c}}
      /\ ready' = ready \/ sock[c].interest # {}
  BY DEF PeerStep, Connect, SendUnit, Drain, Fin, Reset, Edge, IInv, ConnInv
<1>4. \E s : /\ sock' = [sock EXCEPT ![c] = s]
             /\ s \in SockType /\ s.interest = sock[c].interest /\ s.peer \notin {"new", "closed"}
             /\ s.snd <= sock[c].snd
  <2>1. CASE Connect(c)
    <3> DEFINE s == [sock[c] EXCEPT !.peer = "up"]
    <3>1. sock' = [sock EXCEPT ![c] = s]
      BY <2>1 DEF Connect, IInv, TypeOK
    <3>2. s \in SockType /\ s.interest = sock[c].interest /\ s.peer = "up" /\ s.snd = sock[c].snd
      BY <1>1 DEF SockType
    <3>3. s.snd <= sock[c].snd
      BY <3>2, <1>1
    <3> HIDE DEF s
    <3>. QED  BY <3>1, <3>2, <3>3
  <2>2. CASE SendUnit(c)
    <3> DEFINE s == [sock[c] EXCEPT !.unsent = sock[c].unsent - 1, !.rcv = sock[c].rcv + 1]
    <3>1. sock' = [sock EXCEPT ![c] = s] /\ sock[c].unsent > 0 /\ sock[c].peer = "up"
      BY <2>2 DEF SendUnit, IInv, TypeOK
    <3>2. sock[c].unsent - 1 \in Nat /\ sock[c].rcv + 1 \in Nat
      BY <1>1, <3>1
    <3>3. s \in SockType /\ s.interest = sock[c].interest /\ s.peer = "up" /\ s.snd = sock[c].snd
      BY <1>1, <3>1, <3>2 DEF SockType
    <3>4. s.snd <= sock[c].snd
      BY <3>3, <1>1
    <3> HIDE DEF s
    <3>. QED  BY <3>1, <3>3, <3>4
  <2>3. CASE Drain(c)
    <3> DEFINE s == [sock[c] EXCEPT !.snd = sock[c].snd - 1, !.flags = {}]
    <3>1. sock' = [sock EXCEPT ![c] = s] /\ sock[c].snd > 0 /\ sock[c].peer \in {"up", "fin"}
      BY <2>3 DEF Drain, IInv, TypeOK
    <3>2. sock[c].snd - 1 \in 0..SndCap /\ sock[c].snd - 1 <= sock[c].snd
      BY <1>1, <3>1
    <3>3. s \in SockType /\ s.interest = sock[c].interest /\ s.peer = sock[c].peer /\ s.snd = sock[c].snd - 1
      BY <1>1, <3>2 DEF SockType
    <3> HIDE DEF s
    <3>4. s.peer \notin {"new", "closed"} /\ s.snd <= sock[c].snd
      BY <3>1, <3>2, <3>3
    <3>. QED  BY <3>1, <3>3, <3>4
  <2>4. CASE Fin(c)
    <3> DEFINE s == [sock[c] EXCEPT !.peer = "fin"]
    <3>1. sock' = [sock EXCEPT ![c] = s]
      BY <2>4 DEF Fin, IInv, TypeOK
    <3>2. s \in SockType /\ s.interest = sock[c].interest /\ s.peer = "fin" /\ s.snd = sock[c].snd
      BY <1>1 DEF SockType
    <3>3. s.snd <= sock[c].snd
      BY <3>2, <1>1
    <3> HIDE DEF s
    <3>. QED  BY <3>1, <3>2, <3>3
  <2>5. CASE Reset(c)
    <3> DEFINE p == IF sock[c].peer = "fin" THEN "broken" ELSE "reset"
               s == [sock[c] EXCEPT !.peer = p, !.snd = 0]
    <3>1. sock' = [sock EXCEPT ![c] = s]
      BY <2>5 DEF Reset, IInv, TypeOK
    <3>2. p \in {"reset", "broken"} /\ 0 \in 0..SndCap /\ 0 <= sock[c].snd
      BY <1>1
    <3> HIDE DEF p
    <3>3. s \in SockType /\ s.interest = sock[c].interest /\ s.peer = p /\ s.snd = 0
      BY <1>1, <3>2 DEF SockType
    <3> HIDE DEF s
    <3>. QED  BY <3>1, <3>2, <3>3
  <2>. QED  BY <2>1, <2>2, <2>3, <2>4, <2>5 DEF PeerStep
<1>5. /\ sock' \in [Clients -> SockType] /\ \A d \in Clients : d # c => sock'[d] = sock[d]
      /\ sock'[c].interest = sock[c].interest /\ sock'[c].peer \notin {"new", "closed"}
      /\ sock'[c].snd <= sock[c].snd
  BY <1>4 DEF IInv, TypeOK
<1>. QED  BY <1>2, <1>3, <1>5, PeerMoves

-----------------------------------------------------------------------------
(* IInv is an inductive invariant of the server. *)

(* The invariant holds when the loop starts. *)
LEMMA InitHolds == Init => IInv
<1> SUFFICES ASSUME Init PROVE IInv
  OBVIOUS
<1> USE KernelAssumption DEF KernelAssumption, Init, LoopInit, KernelInit
<1>1. TypeOK
  BY ConstantTypes DEF TypeOK, Pcs
<1>2. \A c \in Clients : /\ conn[c].state = "NONE" /\ ~Live(c) /\ conn[c].file_fd = NoFd
                         /\ sock[c].interest = {} /\ sock[c].snd = 0 /\ sock[c].peer = "new"
                         /\ write_buffer[c] = <<>>
  BY DEF Blank, NewSock, LiveStates
<1>3. DescriptorsAccounted
  BY <1>2 DEF DescriptorsAccounted, Unused
<1>4. ConnInv
  BY <1>2 DEF ConnInv
<1>5. QueueInv /\ ThreadInv
  BY DEF QueueInv, ThreadInv, HandlerPcs, ServedPcs
<1>. QED  BY <1>1, <1>3, <1>4, <1>5 DEF IInv

(* Every step keeps the invariant, and ends no connection whose client is there: one
   case per action. *)
LEMMA NextKeeps == IInv /\ [Next]_vars => IInv' /\ Kept
<1> SUFFICES ASSUME IInv, [Next]_vars PROVE IInv' /\ Kept
  OBVIOUS
<1>1. CASE ServerStep
  <2>1. CASE LoopStep /\ UNCHANGED http2Vars
    <3>1. CASE EpollWait \/ BatchDone \/ \E e \in batch : TakeEvent(e)
      BY <2>1, <3>1, EpollWaitStep, BatchDoneStep, TakeEventStep
    <3>2. CASE AfterRead \/ AfterWrite
      BY <2>1, <3>2, AfterReadStep, AfterWriteStep
    <3>3. CASE AcceptFails \/ (\E c \in Clients, f \in Fds : Accept(c, f))
               \/ \E c \in Clients : AcceptRefused(c)
      BY <2>1, <3>3, AcceptFailsStep, AcceptStep, AcceptRefusedStep
    <3>4. CASE SniffRead \/ Http1Read
      <4>1. /\ pc \in {"sniff", "read", "h2_read"} /\ Receive(cur)
            /\ UNCHANGED <<backlog, ready, fdtab, disk, wire>>
            /\ UNCHANGED <<connections, pc, batch, ev, cur, http2Vars>>
        BY <2>1, <3>4 DEF SniffRead, Http1Read
      <4>. QED  BY <4>1, ReceiveStep
    <3>5. CASE ReadEnd
      BY <2>1, <3>5, ReadEndStep
    <3>6. CASE SigPipe
      <4>1. pc \in HandlerPcs /\ pc' = "killed"
            /\ UNCHANGED <<connections, conn, batch, ev, cur, http2Vars, kernelVars>>
        BY <2>1, <3>6 DEF SigPipe, WritePcs, HandlerPcs, Pcs
      <4>. QED  BY <4>1, MoveStep
    <3>. QED  BY <2>1, <3>1, <3>2, <3>3, <3>4, <3>5, <3>6 DEF LoopStep
  <2>2. CASE (SniffDone(Opening(cur)) /\ UNCHANGED http2Vars) \/ UpgradeReadDone
    BY <2>2, ReadDoneStep
  <2>3. CASE SwitchProtocols \/ UpgradeAnswer
    BY <2>3, SwitchProtocolsStep, UpgradeAnswerStep
  <2>4. CASE Http2Read
    <3>1. /\ pc \in {"sniff", "read", "h2_read"} /\ Receive(cur)
          /\ UNCHANGED <<backlog, ready, fdtab, disk, wire>>
          /\ UNCHANGED <<connections, pc, batch, ev, cur, http2Vars>>
      BY <2>4 DEF Http2Read
    <3>. QED  BY <3>1, ReceiveStep
  <2>5. CASE Http2ReadEnd \/ PrefaceShort \/ FramesFollow \/ FramesDone
    <3>1. /\ UNCHANGED <<connections, conn, batch, ev, cur, http2Vars, kernelVars>>
          /\ \/ pc \in HandlerPcs /\ pc' \in {"after_read", "killed"}
             \/ pc = "h2_read" /\ pc' = "h2_frames"
          /\ pc # "upgrade_settings"
      BY <2>5 DEF Http2ReadEnd, PrefaceShort, FramesFollow, FramesDone, HandlerPcs, Pcs
    <3>. QED  BY <3>1, MoveStep
  <2>6. CASE TakePreface \/ \E kind \in Kinds : NextFrame(kind)
    BY <2>6, TakePrefaceStep, NextFrameStep
  <2>7. CASE Http2Write \/ Http2WriteAgain \/ Http2WriteError
    BY <2>7, Http2WriteStep, Http2WriteAgainStep, Http2WriteErrorStep
  <2>. QED  BY <1>1, <2>1, <2>2, <2>3, <2>4, <2>5, <2>6, <2>7 DEF ServerStep
<1>2. CASE \E c \in Clients : PeerStep(c)
  BY <1>2, PeerStepKeeps
<1>3. CASE UNCHANGED vars
  <2> USE <1>3 DEF vars, serverVars, IInv
  <2>1. TypeOK'
    BY DEF TypeOK
  <2>2. DescriptorsAccounted' /\ Kept
    BY DescriptorsKept DEF Kept
  <2>3. ConnInv' /\ QueueInv' /\ ThreadInv'
    BY DEF ConnInv, QueueInv, ThreadInv
  <2>. QED  BY <2>1, <2>2, <2>3
<1>. QED  BY <1>1, <1>2, <1>3 DEF Next

(* The invariant the theorems below follow from: it holds at first, and every step of
   the thread or of a peer keeps it. *)
THEOREM Http2Invariance == Spec => []IInv
BY InitHolds, NextKeeps, PTL DEF Spec

(* Every variable keeps its type: no frame is taken from fewer bytes than it has, no
   counter passes the end of write_buffer, no send buffer its size. *)
THEOREM Http2Types == Spec => []TypeOK
<1>1. IInv => TypeOK
  BY DEF IInv
<1>. QED  BY Http2Invariance, <1>1, PTL

(* No descriptor is leaked, or shared by two connections, by any number of HTTP/2
   clients, upgraded or not, whenever they leave. *)
THEOREM Http2Descriptors == Spec => []DescriptorsAccounted
<1>1. IInv => DescriptorsAccounted
  BY DEF IInv
<1>. QED  BY Http2Invariance, <1>1, PTL

(* No handler of HTTP/2 meets a freed connection, nor another one than its event was
   for, though a failed write frees it in the middle of an event. *)
THEOREM Http2Handlers == Spec => []HandlerOnLiveConnection
<1>1. IInv => HandlerOnLiveConnection
  <2> SUFFICES ASSUME IInv PROVE HandlerOnLiveConnection
    OBVIOUS
  <2> USE KernelAssumption DEF KernelAssumption, IInv
  <2>1. pc \in HandlerPcs => cur # NoClient /\ Live(cur) /\ connections[conn[cur].fd] = cur
    BY DEF ThreadInv, DescriptorsAccounted
  <2>2. pc \in {"after_read", "after_write"} =>
          cur # NoClient /\ (get_connection(ev.fd) = cur => Live(cur) /\ conn[cur].fd = ev.fd)
    BY DEF ThreadInv, DescriptorsAccounted, get_connection
  <2>3. \A e \in batch : e.fd # ListenFd => Live(e.sock) /\ connections[e.fd] = e.sock
    BY DEF QueueInv, DescriptorsAccounted
  <2>. QED  BY <2>1, <2>2, <2>3 DEF HandlerOnLiveConnection
<1>. QED  BY Http2Invariance, <1>1, PTL

(* For every first buffer size and however the preface and the frames are split, the
   three read loops keep room for another unit and for the terminator. *)
THEOREM Http2BufferSafe == Spec => []BufferHasRoom
<1>1. IInv => BufferHasRoom
  <2> SUFFICES ASSUME IInv PROVE BufferHasRoom
    OBVIOUS
  <2>1. ASSUME pc \in {"sniff", "read", "h2_read", "process"}
        PROVE  /\ conn[cur].bytes_read + 1 < conn[cur].read_buffer_size
               /\ conn[cur].bytes_read \in Nat /\ conn[cur].read_buffer_size \in Nat
    <3>1. cur \in Clients /\ Live(cur)
      BY <2>1 DEF IInv, ThreadInv, HandlerPcs, Pcs
    <3>. QED  BY <3>1, FieldTypes DEF IInv, ConnInv
  <2>. QED  BY <2>1 DEF BufferHasRoom, ReadRoom
<1>. QED  BY Http2Invariance, <1>1, PTL

(* An HTTP/2 connection is ended only when its client has half-closed or reset it: a
   hang-up is never taken from one event to another connection, and the read loops
   never take a full buffer for the end of the stream. *)
THEOREM Http2Kept == Spec => KeptWhileClientStays
<1>1. IInv /\ [Next]_vars => [\A c \in Clients : Live(c) /\ ~Live(c)' => sock[c].peer \in Gone]_vars
  BY NextKeeps DEF Kept
<1>. QED  BY Http2Invariance, <1>1, PTL DEF Spec, KeptWhileClientStays

------------------------------------------------------------------------------
(* Each client is sent the replies due to it and nothing else, in the order of its
   frames. *)

(* What is due after each number of frames. *)
UpTo(f, greeting, taken) ==
  /\ f \in [0..Len(taken) -> Seq(UnitType)]
  /\ f[0] = greeting
  /\ \A n \in 1..Len(taken) : f[n] = f[n - 1] \o Reply(taken[n], n)
  /\ RepliesTo(greeting, taken) = f[Len(taken)]

(* The replies solve the recursion that defines them. *)
LEMMA RepliesUnfold ==
  ASSUME NEW greeting \in Seq(UnitType), NEW taken \in Seq(Kinds)
  PROVE  \E f : UpTo(f, greeting, taken)
<1> DEFINE N == Len(taken)
           Solves(f) == f = [n \in 0..N |-> IF n = 0 THEN greeting ELSE f[n - 1] \o Reply(taken[n], n)]
<1>1. \E f \in [0..N -> Seq(UnitType)] : Solves(f)
  <2> DEFINE V == Seq(UnitType)
             step == [n \in 1..N |-> [v \in V |-> v \o Reply(taken[n], n)]]
  <2>1. \A n \in 1..N : taken[n] \in Kinds /\ n \in Nat
    OBVIOUS
  <2>2. \A n \in 1..N : Reply(taken[n], n) \in Seq(UnitType)
    BY <2>1, ReplyTypes
  <2>3. \A n \in 1..N : \A v \in V : v \o Reply(taken[n], n) \in V
    BY <2>2
  <2>4. N \in Nat /\ greeting \in V
    OBVIOUS
  <2> HIDE DEF N, V
  <2>5. step \in [1..N -> [V -> V]]
    BY <2>3
  <2>6. \A n \in 1..N : \A v \in V : step[n][v] = v \o Reply(taken[n], n)
    OBVIOUS
  <2> HIDE DEF step
  <2>7. PICK f : Sums(f, N, V, greeting, step)
    <3>1. Steps(N, V, greeting, step)
      BY <2>4, <2>5 DEF Steps
    <3>. QED  BY <3>1, Stepwise
  <2>8. \A n \in 1..N : n - 1 \in 0..N
    BY <2>4
  <2>9. \A n \in 1..N : f[n] = f[n - 1] \o Reply(taken[n], n)
    BY <2>6, <2>7, <2>8 DEF Sums
  <2>10. \A n \in 0..N : n = 0 \/ n \in 1..N
    BY <2>4
  <2>11. f = [n \in 0..N |-> IF n = 0 THEN greeting ELSE f[n - 1] \o Reply(taken[n], n)]
    BY <2>7, <2>9, <2>10 DEF Sums
  <2>. QED  BY <2>7, <2>11 DEF V, Sums
<1>2. PICK f : Solves(f) /\ RepliesTo(greeting, taken) = f[N]
  <2>1. Solves(CHOOSE f : Solves(f))
    <3> HIDE DEF Solves
    <3>. QED  BY <1>1, Zenon
  <2>2. RepliesTo(greeting, taken) = (CHOOSE f : Solves(f))[N]
    BY Zenon DEF RepliesTo
  <2> HIDE DEF Solves
  <2>. QED  BY <2>1, <2>2
<1>3. \A n \in 0..N : f[n] \in Seq(UnitType)
  <2> DEFINE S == {n \in 0..N : f[n] \in Seq(UnitType)}
  <2>1. 0 \in S
    BY <1>2
  <2>2. \A n \in 0..N - 1 : n \in S => n + 1 \in S
    <3> SUFFICES ASSUME NEW n \in 0..N - 1, n \in S PROVE n + 1 \in S
      OBVIOUS
    <3>1. n + 1 \in 1..N /\ taken[n + 1] \in Kinds /\ n + 1 \in Nat /\ (n + 1) - 1 = n
      OBVIOUS
    <3>2. f[n + 1] = f[n] \o Reply(taken[n + 1], n + 1)
      BY <1>2, <3>1
    <3>3. Reply(taken[n + 1], n + 1) \in Seq(UnitType)
      BY <3>1, ReplyTypes
    <3>4. f[n] \in Seq(UnitType)
      OBVIOUS
    <3> HIDE DEF N
    <3>5. f[n + 1] \in Seq(UnitType)
      BY <3>2, <3>3, <3>4
    <3>. QED  BY <3>1, <3>5
  <2>3. N \in Nat
    OBVIOUS
  <2> HIDE DEF S
  <2>4. 0..N \subseteq S
    BY <2>1, <2>2, <2>3, Upwards
  <2>. QED  BY <2>4 DEF S
<1>4. f \in [0..N -> Seq(UnitType)]
  BY <1>2, <1>3
<1>5. f[0] = greeting /\ \A n \in 1..N : f[n] = f[n - 1] \o Reply(taken[n], n)
  BY <1>2
<1>. QED  BY <1>2, <1>4, <1>5 DEF UpTo

(* To a client no frame was taken from, the greeting alone is due. *)
LEMMA RepliesNone ==
  ASSUME NEW greeting \in Seq(UnitType)
  PROVE  RepliesTo(greeting, <<>>) = greeting
<1>1. << >> \in Seq(Kinds) /\ Len(<<>>) = 0
  OBVIOUS
<1>2. PICK f : UpTo(f, greeting, <<>>)
  BY <1>1, RepliesUnfold, Zenon
<1>. QED  BY <1>1, <1>2 DEF UpTo

(* One more frame makes its reply due, behind the others. *)
LEMMA RepliesAppend ==
  ASSUME NEW greeting \in Seq(UnitType), NEW taken \in Seq(Kinds), NEW kind \in Kinds
  PROVE  /\ RepliesTo(greeting, taken) \in Seq(UnitType)
         /\ RepliesTo(greeting, Append(taken, kind)) =
              RepliesTo(greeting, taken) \o Reply(kind, Len(taken) + 1)
<1> DEFINE N == Len(taken)
           more == Append(taken, kind)
<1>1. more \in Seq(Kinds) /\ Len(more) = N + 1 /\ N \in Nat /\ more[N + 1] = kind
      /\ \A n \in 1..N : more[n] = taken[n]
  OBVIOUS
<1>2. PICK f : UpTo(f, greeting, taken)
  BY RepliesUnfold
<1>3. PICK g : UpTo(g, greeting, more)
  <2> HIDE DEF more, N
  <2>. QED  BY <1>1, RepliesUnfold
<1>6. /\ f[0] = greeting
      /\ \A n \in 1..N : f[n] = f[n - 1] \o Reply(taken[n], n)
      /\ RepliesTo(greeting, taken) = f[N] /\ f[N] \in Seq(UnitType)
  <2>1. N \in 0..N
    BY <1>1
  <2> HIDE DEF more
  <2>2. f \in [0..N -> Seq(UnitType)]
    BY <1>2 DEF UpTo
  <2>. QED  BY <1>2, <2>1, <2>2 DEF UpTo
<1>7. /\ g[0] = greeting
      /\ \A n \in 1..N + 1 : g[n] = g[n - 1] \o Reply(more[n], n)
      /\ RepliesTo(greeting, more) = g[N + 1]
  <2> HIDE DEF more
  <2>. QED  BY <1>1, <1>3 DEF UpTo
<1> HIDE DEF more, N
<1>4. g[N] = f[N]
  <2> DEFINE S == {n \in 0..N : g[n] = f[n]}
  <2>1. 0 \in S
    BY <1>1, <1>6, <1>7
  <2>2. ASSUME NEW n \in 0..N - 1, n \in S PROVE n + 1 \in S
    <3>1. n + 1 \in 1..N /\ n + 1 \in 1..N + 1 /\ n + 1 \in 0..N /\ (n + 1) - 1 = n
      BY <1>1
    <3>2. g[n + 1] = g[n] \o Reply(more[n + 1], n + 1) /\ f[n + 1] = f[n] \o Reply(taken[n + 1], n + 1)
      BY <1>6, <1>7, <3>1
    <3>3. more[n + 1] = taken[n + 1] /\ g[n] = f[n]
      BY <1>1, <2>2, <3>1
    <3>. QED  BY <3>1, <3>2, <3>3
  <2>3. 0..N \subseteq S
    <3> HIDE DEF S
    <3>. QED  BY <1>1, <2>1, <2>2, Upwards
  <2>. QED  BY <1>1, <2>3
<1>5. g[N + 1] = g[N] \o Reply(kind, N + 1)
  <2>1. N + 1 \in 1..N + 1 /\ (N + 1) - 1 = N
    BY <1>1
  <2>. QED  BY <1>1, <1>7, <2>1
<1>. QED  BY <1>1, <1>4, <1>5, <1>6, <1>7 DEF more, N

(* The rest of a list, in two parts. *)
LEMMA SubSeqSplit ==
  ASSUME NEW V, NEW s \in Seq(V), NEW m \in Nat, NEW k \in Nat, m <= k, k <= Len(s)
  PROVE  SubSeq(s, m + 1, k) \o SubSeq(s, k + 1, Len(s)) = SubSeq(s, m + 1, Len(s))
<1>1. m + 1 \in 1..Len(s) + 1 /\ k \in (m + 1) - 1..Len(s) /\ Len(s) \in k..Len(s)
  OBVIOUS
<1>. QED  BY ONLY <1>1, s \in Seq(V), ConcatAdjacentSubSeq

(* The rest of a list to which another one is added. *)
LEMMA SubSeqOfConcatEnd ==
  ASSUME NEW V, NEW s \in Seq(V), NEW t \in Seq(V), NEW m \in Nat, m <= Len(s)
  PROVE  SubSeq(s \o t, m + 1, Len(s) + Len(t)) = SubSeq(s, m + 1, Len(s)) \o t
<1> DEFINE left == SubSeq(s \o t, m + 1, Len(s) + Len(t))
           rest == SubSeq(s, m + 1, Len(s))
<1>1. s \o t \in Seq(V) /\ Len(s \o t) = Len(s) + Len(t) /\ Len(s) \in Nat /\ Len(t) \in Nat
  OBVIOUS
<1>2. \A i \in m + 1..Len(s) + Len(t) : (s \o t)[i] \in V
  BY <1>1
<1>3. \A i \in m + 1..Len(s) : s[i] \in V
  OBVIOUS
<1>4. /\ left \in Seq(V) /\ Len(left) = Len(s) + Len(t) - m
      /\ \A i \in 1..Len(s) + Len(t) - m : left[i] = (s \o t)[m + i]
  BY <1>1, <1>2
<1>5. /\ rest \in Seq(V) /\ Len(rest) = Len(s) - m
      /\ \A i \in 1..Len(s) - m : rest[i] = s[m + i]
  BY <1>1, <1>3
<1> HIDE DEF left, rest
<1>6. /\ rest \o t \in Seq(V) /\ Len(rest \o t) = Len(rest) + Len(t)
      /\ \A i \in 1..Len(rest) + Len(t) :
           (rest \o t)[i] = IF i <= Len(rest) THEN rest[i] ELSE t[i - Len(rest)]
  BY <1>5, ConcatProperties
<1>7. \A i \in 1..Len(left) : left[i] = (rest \o t)[i]
  <2> SUFFICES ASSUME NEW i \in 1..Len(left) PROVE left[i] = (rest \o t)[i]
    OBVIOUS
  <2>1. i \in 1..Len(rest) + Len(t) /\ m + i \in 1..Len(s) + Len(t) /\ left[i] = (s \o t)[m + i]
    BY <1>1, <1>4, <1>5
  <2>2. (s \o t)[m + i] = IF m + i <= Len(s) THEN s[m + i] ELSE t[m + i - Len(s)]
    BY <2>1, ConcatProperties
  <2>3. CASE m + i <= Len(s)
    BY <2>1, <2>2, <2>3, <1>1, <1>5, <1>6
  <2>4. CASE ~(m + i <= Len(s))
    <3>1. ~(i <= Len(rest)) /\ m + i - Len(s) = i - Len(rest)
      BY <2>1, <2>4, <1>1, <1>5
    <3>. QED  BY <2>1, <2>2, <2>4, <3>1, <1>6
  <2>. QED  BY <2>3, <2>4
<1>8. left = rest \o t
  <2>1. Len(left) = Len(rest \o t)
    BY <1>1, <1>4, <1>5, <1>6
  <2>. QED  BY <1>4, <1>6, <1>7, <2>1, SeqEqual
<1>. QED  BY <1>8 DEF left, rest

-----------------------------------------------------------------------------
(* The invariant. *)

(* The thread is between the two writes of the upgrade of c. *)
Switched(c) == c = cur /\ pc = "upgrade_settings"

(* Before its connection is set up a client is sent nothing but the 101, and no frame
   is taken from it; from then on the wire and the queue are the replies due. *)
Ordered(c) ==
  /\ conn[c].state = "NONE" =>
       wire[c] = <<>> /\ frames[c] = <<>> /\ http2_state[c] = "NULL" /\ preface[c] = "due"
  /\ Live(c) /\ http2_state[c] = "NULL" =>
       /\ frames[c] = <<>> /\ write_buffer[c] = <<>> /\ preface[c] = "due"
       /\ conn[c].protocol = "HTTP1" => c \in upgrading
       /\ conn[c].protocol = "HTTP2" => c \notin upgrading
       /\ sock[c].peer \notin Dead => wire[c] = IF Switched(c) THEN <<Switching>> ELSE <<>>
  /\ Live(c) /\ http2_state[c] = "SET" =>
       /\ conn[c].protocol = "HTTP2"
       /\ sock[c].peer \notin Dead => wire[c] \o Unwritten(c) = Replies(c)

(* Which handlers run before and after the connection is set up. *)
HandlerInv ==
  /\ pc \in {"read", "upgrade", "upgrade_settings"} => conn[cur].protocol = "HTTP1"
  /\ pc \in {"h2_frames", "h2_write"} => http2_state[cur] = "SET"

OrderInv == (\A c \in Clients : Ordered(c)) /\ HandlerInv

(* A step that leaves alone all that is said of a client, or ends its connection. *)
Steady(c) ==
  /\ UNCHANGED <<wire[c], frames[c], http2_state[c], preface[c], write_buffer[c], upgrading>>
  /\ conn'[c].state = "NONE" => conn[c].state = "NONE"
  /\ Live(c)' =>
       /\ Live(c) /\ conn'[c].protocol = conn[c].protocol
       /\ conn'[c].bytes_written = conn[c].bytes_written
       /\ conn'[c].write_buffer_size = conn[c].write_buffer_size
       /\ sock[c].peer \in Dead => sock'[c].peer \in Dead
       /\ (Switched(c)' <=> Switched(c)) \/ sock[c].peer \in Dead

LEMMA SteadyKeeps ==
  ASSUME NEW c \in Clients, Ordered(c), Steady(c)
  PROVE  Ordered(c)'
<1>1. Replies(c)' = Replies(c)
  BY DEF Steady, Replies, Greeting
<1>2. Live(c)' => Unwritten(c)' = Unwritten(c)
  BY DEF Steady, Unwritten
<1>. QED  BY <1>1, <1>2 DEF Ordered, Steady

(* The lists of units that the proofs below speak of. *)
LEMMA UnitLists ==
  ASSUME IInv, NEW c \in Clients
  PROVE  /\ Greeting(c) \in Seq(UnitType) /\ Replies(c) \in Seq(UnitType)
         /\ wire[c] \in Seq(UnitType) /\ write_buffer[c] \in Seq(UnitType)
         /\ Live(c) => Unwritten(c) \in Seq(UnitType)
<1>1. Greeting(c) \in Seq(UnitType)
  <2>1. <<Switching, Settings>> \in Seq(UnitType) /\ <<Settings>> \in Seq(UnitType)
        /\ Response(0) \in Seq(UnitType)
    BY ReplyTypes
  <2>. QED  BY <2>1 DEF Greeting
<1>2. Replies(c) \in Seq(UnitType)
  <2>1. frames[c] \in Seq(Kinds) /\ "OTHER" \in Kinds
    BY DEF IInv, TypeOK, Kinds
  <2>. QED  BY <1>1, <2>1, RepliesAppend DEF Replies
<1>3. wire[c] \in Seq(UnitType) /\ write_buffer[c] \in Seq(UnitType)
  BY DEF IInv, TypeOK
<1>4. Live(c) => Unwritten(c) \in Seq(UnitType)
  BY <1>3, FieldTypes DEF IInv, ConnInv, Unwritten
<1>. QED  BY <1>1, <1>2, <1>3, <1>4

-----------------------------------------------------------------------------
(* Every step keeps the invariant. *)

(* Steps that change nothing the invariant reads, but for the place of the thread and
   the connections they end. *)
LEMMA QuietStep ==
  ASSUME IInv, OrderInv, UNCHANGED <<wire, http2Vars>>,
         \A c \in Clients :
           \/ conn'[c].state = "FREED"
           \/ /\ conn'[c].state = conn[c].state \/ (Live(c) /\ Live(c)')
              /\ Live(c) =>
                   /\ conn'[c].protocol = conn[c].protocol
                   /\ conn'[c].bytes_written = conn[c].bytes_written
                   /\ conn'[c].write_buffer_size = conn[c].write_buffer_size
              /\ sock[c].peer \in Dead => sock'[c].peer \in Dead,
         \/ UNCHANGED <<pc, cur>>
         \/ pc # "upgrade_settings" /\ pc' # "upgrade_settings"
         \/ sock[cur].peer \in Dead /\ pc' = "killed",
         HandlerInv'
  PROVE  OrderInv'
<1>1. ASSUME NEW c \in Clients PROVE Steady(c)
  <2>1. "FREED" \notin LiveStates /\ "NONE" \notin LiveStates
    BY DEF LiveStates
  <2>2. UNCHANGED <<wire[c], frames[c], http2_state[c], preface[c], write_buffer[c], upgrading>>
    OBVIOUS
  <2>3. (Switched(c)' <=> Switched(c)) \/ sock[c].peer \in Dead
    BY DEF Switched
  <2>. QED  BY <2>1, <2>2, <2>3, <1>1 DEF Steady
<1>2. \A c \in Clients : Ordered(c)
  BY DEF OrderInv
<1>3. \A c \in Clients : Ordered(c)'
  BY <1>1, <1>2, SteadyKeeps
<1>. QED  BY <1>3 DEF OrderInv

(* What free_connection does to the connections. *)
LEMMA Frees ==
  ASSUME IInv, NEW c \in Clients, Live(c), free_connection(c)
  PROVE  conn'[c].state = "FREED" /\ \A d \in Clients : d # c => conn'[d] = conn[d] /\ sock'[d] = sock[d]
BY FreeConnection, FreedFields

(* Main and handle_accept, but for the connection that is accepted. *)
LEMMA LoopOrder ==
  ASSUME IInv, OrderInv, UNCHANGED http2Vars,
         EpollWait \/ BatchDone \/ AcceptFails \/ (\E c \in Clients : AcceptRefused(c))
  PROVE  OrderInv'
<1>1. UNCHANGED wire /\ pc # "upgrade_settings" /\ pc' \in {"wait", "next"}
  BY DEF EpollWait, BatchDone, AcceptFails, AcceptRefused, NextEvent
<1>2. ASSUME NEW c \in Clients
      PROVE  conn'[c].state = "FREED" \/ (conn'[c] = conn[c] /\ sock'[c] = sock[c])
  <2>1. CASE EpollWait \/ BatchDone \/ AcceptFails
    BY <2>1 DEF EpollWait, BatchDone, AcceptFails
  <2>2. CASE \E d \in Clients : AcceptRefused(d)
    BY <2>2, FreedFields DEF AcceptRefused, IInv, TypeOK
  <2>. QED  BY <2>1, <2>2
<1>3. HandlerInv'
  BY <1>1 DEF HandlerInv
<1>. QED  BY <1>1, <1>2, <1>3, QuietStep

(* Main takes an event: http1_handle_read runs on an HTTP/1 connection only. *)
LEMMA TakeEventOrder ==
  ASSUME IInv, IInv', OrderInv, UNCHANGED http2Vars, NEW e \in batch, TakeEvent(e)
  PROVE  OrderInv'
<1>1. UNCHANGED <<wire, conn, sock>> /\ pc = "next"
  BY DEF TakeEvent
<1>2. pc' \in {"next", "accept", "after_read", "sniff", "read", "h2_read"}
  BY <1>1 DEF TakeEvent, ReadHandler
<1>3. pc' = "read" => conn'[cur'].protocol = "HTTP1"
  BY <1>1 DEF TakeEvent, ReadHandler
<1>4. HandlerInv'
  BY <1>2, <1>3 DEF HandlerInv
<1>. QED  BY <1>1, <1>2, <1>4, QuietStep

(* Main goes on to the write handler: http2_handle_write runs where something is
   queued, which there is not before the connection is set up. *)
LEMMA AfterReadOrder ==
  ASSUME IInv, IInv', OrderInv, UNCHANGED http2Vars, AfterRead
  PROVE  OrderInv'
<1>1. UNCHANGED <<wire, conn, sock>> /\ pc = "after_read"
  BY DEF AfterRead
<1>2. pc' \in {"next", "after_write", "send", "file_read", "h2_write"}
  BY DEF AfterRead, NextEvent, WriteHandler
<1>3. ASSUME pc' = "h2_write" PROVE http2_state'[cur'] = "SET"
  <2>1. cur' = cur /\ conn[cur].write_buffer_size > 0
    BY <1>3 DEF AfterRead, NextEvent, WriteHandler
  <2>2. cur' \in Clients /\ Live(cur)'
    BY <1>3 DEF IInv, ThreadInv, HandlerPcs, Pcs
  <2>5. cur \in Clients /\ Live(cur)
    BY <1>1, <2>1, <2>2
  <2>3. http2_state[cur] \in {"NULL", "SET"} /\ conn[cur].write_buffer_size = Len(write_buffer[cur])
    BY <2>5 DEF IInv, TypeOK, ConnInv
  <2>4. http2_state[cur] # "NULL"
    BY <2>1, <2>5, <2>3 DEF OrderInv, Ordered
  <2>. QED  BY <2>1, <2>3, <2>4
<1>4. HandlerInv'
  BY <1>2, <1>3 DEF HandlerInv
<1>. QED  BY <1>1, <1>2, <1>4, QuietStep

(* The steps that free the connection being handled. *)
LEMMA FreeOrder ==
  ASSUME IInv, OrderInv, UNCHANGED http2Vars, AfterWrite \/ ReadEnd \/ Http2WriteError
  PROVE  OrderInv'
<1>1. UNCHANGED wire /\ pc \in {"after_write", "sniff", "read", "h2_write"}
      /\ pc' \in {"next", "after_read", "after_write"}
  BY DEF AfterWrite, ReadEnd, Http2WriteError, NextEvent
<1>2. ASSUME NEW c \in Clients
      PROVE  conn'[c].state = "FREED" \/ (conn'[c] = conn[c] /\ sock'[c] = sock[c])
  <2>1. CASE AfterWrite /\ get_connection(ev.fd) = cur
    <3>1. cur \in Clients /\ Live(cur)
      BY <2>1, KernelAssumption
      DEF KernelAssumption, AfterWrite, get_connection, IInv, ThreadInv, DescriptorsAccounted
    <3>. QED  BY <2>1, <3>1, Frees DEF AfterWrite
  <2>2. CASE AfterWrite /\ get_connection(ev.fd) # cur
    BY <2>2 DEF AfterWrite
  <2>3. CASE ReadEnd \/ Http2WriteError
    <3>1. cur \in Clients /\ Live(cur) /\ free_connection(cur)
      BY <2>3 DEF ReadEnd, Http2WriteError, IInv, ThreadInv, HandlerPcs, Pcs
    <3>. QED  BY <3>1, Frees
  <2>. QED  BY <2>1, <2>2, <2>3
<1>3. HandlerInv'
  BY <1>1 DEF HandlerInv
<1>. QED  BY <1>1, <1>2, <1>3, QuietStep

(* The read loops. *)
LEMMA ReceiveOrder ==
  ASSUME IInv, OrderInv, pc \in {"sniff", "read", "h2_read"}, Receive(cur),
         UNCHANGED <<backlog, ready, fdtab, disk, wire>>,
         UNCHANGED <<connections, pc, batch, ev, cur, http2Vars>>
  PROVE  OrderInv'
<1>1. cur \in Clients /\ Live(cur)
  BY DEF IInv, ThreadInv, HandlerPcs, Pcs
<1>2. /\ conn'[cur].state = conn[cur].state /\ conn'[cur].protocol = conn[cur].protocol
      /\ conn'[cur].bytes_written = conn[cur].bytes_written
      /\ conn'[cur].write_buffer_size = conn[cur].write_buffer_size
      /\ sock'[cur].peer = sock[cur].peer
      /\ \A c \in Clients : c # cur => conn'[c] = conn[c] /\ sock'[c] = sock[c]
  <2>1. \E n, m, k : /\ sock' = [sock EXCEPT ![cur] = [sock[cur] EXCEPT !.rcv = n]]
                     /\ conn' = [conn EXCEPT ![cur] = [conn[cur] EXCEPT !.bytes_read = m,
                                                                       !.read_buffer_size = k]]
    BY <1>1 DEF Receive, IInv, TypeOK
  <2>2. conn[cur] \in ConnType /\ sock[cur] \in SockType
    BY <1>1, FieldTypes DEF IInv
  <2>. QED  BY <1>1, <2>1, <2>2 DEF IInv, TypeOK, ConnType, SockType
<1>3. HandlerInv'
  BY <1>2 DEF HandlerInv, OrderInv
<1>. QED  BY <1>1, <1>2, <1>3, QuietStep

(* The thread goes on, and the state of the connection may be PROCESS now. *)
LEMMA MoveOrder ==
  ASSUME IInv, OrderInv,
         UpgradeReadDone \/ Http2ReadEnd \/ PrefaceShort \/ FramesFollow \/ FramesDone \/ Http2WriteAgain
  PROVE  OrderInv'
<1>1. /\ UNCHANGED <<wire, http2Vars, cur>> /\ pc \in {"read", "h2_read", "h2_frames", "h2_write"}
      /\ pc' \in {"upgrade", "h2_frames", "after_read", "after_write"}
  BY DEF UpgradeReadDone, Http2ReadEnd, PrefaceShort, FramesFollow, FramesDone, Http2WriteAgain
<1>2. cur \in Clients /\ Live(cur) /\ conn[cur] \in ConnType /\ sock[cur] \in SockType
  <2>1. cur \in Clients /\ Live(cur)
    BY <1>1 DEF IInv, ThreadInv, HandlerPcs, Pcs
  <2>. QED  BY <2>1, FieldTypes DEF IInv
<1>3. /\ conn'[cur].protocol = conn[cur].protocol
      /\ conn'[cur].bytes_written = conn[cur].bytes_written
      /\ conn'[cur].write_buffer_size = conn[cur].write_buffer_size
      /\ Live(cur)' /\ sock'[cur].peer = sock[cur].peer
      /\ \A c \in Clients : c # cur => conn'[c] = conn[c] /\ sock'[c].peer = sock[c].peer
  <2>1. CASE UpgradeReadDone
    <3>1. conn' \in {conn, [conn EXCEPT ![cur] = [conn[cur] EXCEPT !.state = "PROCESS"]]} /\ sock' = sock
      BY <2>1, <1>2 DEF UpgradeReadDone, IInv, TypeOK
    <3>. QED  BY <3>1, <1>1, <1>2 DEF IInv, TypeOK, ConnType, LiveStates
  <2>2. CASE Http2WriteAgain
    <3>1. sock' = [sock EXCEPT ![cur] = [sock[cur] EXCEPT !.flags = {"NOSPACE"}]] /\ conn' = conn
      BY <2>2, <1>2 DEF Http2WriteAgain, Refused, IInv, TypeOK
    <3>. QED  BY <3>1, <1>1, <1>2 DEF IInv, TypeOK, SockType
  <2>3. CASE Http2ReadEnd \/ PrefaceShort \/ FramesFollow \/ FramesDone
    BY <2>3, <1>1, <1>2 DEF Http2ReadEnd, PrefaceShort, FramesFollow, FramesDone
  <2>. QED  BY <2>1, <2>2, <2>3
<1>4. HandlerInv'
  <2>1. ASSUME pc' = "upgrade" PROVE conn'[cur].protocol = "HTTP1"
    <3>1. pc = "read"
      BY <2>1 DEF UpgradeReadDone, Http2ReadEnd, PrefaceShort, FramesFollow, FramesDone, Http2WriteAgain
    <3>. QED  BY <3>1, <1>3 DEF OrderInv, HandlerInv
  <2>2. ASSUME pc' = "h2_frames" PROVE http2_state[cur] = "SET"
    <3>1. preface[cur] = "taken"
      BY <2>2 DEF UpgradeReadDone, Http2ReadEnd, PrefaceShort, FramesFollow, FramesDone, Http2WriteAgain
    <3>2. http2_state[cur] \in {"NULL", "SET"}
      BY <1>2 DEF IInv, TypeOK
    <3>. QED  BY <3>1, <3>2, <1>2 DEF OrderInv, Ordered
  <2>. QED  BY <1>1, <2>1, <2>2 DEF HandlerInv
<1>5. \A c \in Clients : \/ conn'[c].state = conn[c].state
                         \/ Live(c) /\ Live(c)'
  BY <1>1, <1>2, <1>3
<1>6. pc # "upgrade_settings" /\ pc' # "upgrade_settings"
  BY <1>1
<1>7. \A c \in Clients :
        /\ Live(c) => /\ conn'[c].protocol = conn[c].protocol
                      /\ conn'[c].bytes_written = conn[c].bytes_written
                      /\ conn'[c].write_buffer_size = conn[c].write_buffer_size
        /\ sock[c].peer \in Dead => sock'[c].peer \in Dead
  BY <1>3
<1>. QED  BY <1>1, <1>4, <1>5, <1>6, <1>7, QuietStep

(* The signal that ends the process, and a step of a peer. *)
LEMMA EndOrder ==
  ASSUME IInv, OrderInv, SigPipe /\ UNCHANGED http2Vars
  PROVE  OrderInv'
<1>1. pc' = "killed" /\ sock[cur].peer \in Dead /\ UNCHANGED <<conn, sock, wire, http2Vars, cur>>
  BY DEF SigPipe, Dead
<1>2. HandlerInv'
  BY <1>1 DEF HandlerInv
<1>. QED  BY <1>1, <1>2, QuietStep

LEMMA PeerOrder ==
  ASSUME IInv, OrderInv, NEW c \in Clients, PeerStep(c)
  PROVE  OrderInv'
<1>1. UNCHANGED <<wire, conn, pc, cur, http2Vars>>
  BY DEF PeerStep, serverVars, Connect, SendUnit, Drain, Fin, Reset
<1>2. HandlerInv'
  BY <1>1 DEF OrderInv, HandlerInv
<1>3. \A d \in Clients : sock[d].peer \in Dead => sock'[d].peer \in Dead
  BY DEF PeerStep, Connect, SendUnit, Drain, Fin, Reset, IInv, TypeOK, Dead
<1>. QED  BY <1>1, <1>2, <1>3, QuietStep

(* Steps on one client, which leave alone what is said of the others. *)
LEMMA OneClient ==
  ASSUME IInv, OrderInv, NEW c \in Clients, UNCHANGED upgrading,
         \A d \in Clients : d # c =>
           /\ UNCHANGED <<wire[d], frames[d], http2_state[d], preface[d], write_buffer[d]>>
           /\ conn'[d] = conn[d] /\ sock'[d].peer = sock[d].peer,
         \/ cur = c /\ cur' = c
         \/ pc # "upgrade_settings" /\ pc' # "upgrade_settings",
         Ordered(c)', HandlerInv'
  PROVE  OrderInv'
<1>1. ASSUME NEW d \in Clients, d # c PROVE Ordered(d)'
  <2>1. Steady(d)
    BY <1>1 DEF Steady, Switched
  <2>2. Ordered(d)
    BY DEF OrderInv
  <2>. QED  BY <2>1, <2>2, SteadyKeeps
<1>. QED  BY <1>1 DEF OrderInv

(* A connection begins with nothing sent and nothing received. *)
LEMMA AcceptOrder ==
  ASSUME IInv, OrderInv, NEW c \in Clients, NEW f \in Fds, Accept(c, f), UNCHANGED http2Vars
  PROVE  OrderInv'
<1>1. conn[c].state = "NONE" /\ write_buffer[c] = <<>> /\ sock[c] \in SockType
  BY FieldTypes DEF Accept, IInv, QueueInv, ConnInv
<1>2. /\ UNCHANGED wire /\ pc = "accept" /\ pc' = "next"
      /\ conn' = [conn EXCEPT ![c] = [Blank EXCEPT !.state = "READ_REQUEST", !.fd = f,
                                                   !.read_buffer_size = InitBuf]]
      /\ sock' = [sock EXCEPT ![c] = Interested(sock[c], {"IN"})]
  BY DEF Accept, create_connection, NextEvent
<1>3. /\ conn'[c].state = "READ_REQUEST" /\ conn'[c].protocol = "UNKNOWN"
      /\ \A d \in Clients : d # c => conn'[d] = conn[d] /\ sock'[d] = sock[d]
  BY <1>2 DEF IInv, TypeOK, Blank
<1>4. Ordered(c)'
  <2>1. wire[c] = <<>> /\ frames[c] = <<>> /\ http2_state[c] = "NULL" /\ preface[c] = "due"
    BY <1>1 DEF OrderInv, Ordered
  <2>. QED  BY <2>1, <1>1, <1>2, <1>3 DEF Ordered, Switched
<1>5. HandlerInv'
  BY <1>2 DEF HandlerInv
<1>. QED  BY <1>2, <1>3, <1>4, <1>5, OneClient

(* The protocol is told by the first bytes: HTTP/1 for one that comes to upgrade. *)
LEMMA SniffDoneOrder ==
  ASSUME IInv, OrderInv, SniffDone(Opening(cur)), UNCHANGED http2Vars
  PROVE  OrderInv'
<1>1. /\ UNCHANGED <<wire, sock, cur>> /\ pc = "sniff"
      /\ \/ pc' = "after_read" /\ UNCHANGED conn
         \/ /\ pc' = ReadHandler(Opening(cur))
            /\ conn' = [conn EXCEPT ![cur].protocol = Opening(cur)]
  BY DEF SniffDone
<1>2. cur \in Clients /\ Live(cur) /\ conn[cur] \in ConnType /\ conn[cur].protocol # "HTTP2"
  <2>1. cur \in Clients /\ Live(cur) /\ conn[cur].protocol # "HTTP2"
    BY <1>1 DEF IInv, ThreadInv, HandlerPcs, Pcs
  <2>. QED  BY <2>1, FieldTypes DEF IInv
<1>3. Opening(cur) = IF cur \in upgrading THEN "HTTP1" ELSE "HTTP2"
  BY DEF Opening
<1>4. CASE pc' = "after_read" /\ UNCHANGED conn
  <2>1. HandlerInv'
    BY <1>4 DEF HandlerInv
  <2>. QED  BY <1>1, <1>4, <2>1, QuietStep
<1>5. CASE /\ pc' = ReadHandler(Opening(cur))
           /\ conn' = [conn EXCEPT ![cur].protocol = Opening(cur)]
  <2>1. /\ conn'[cur].protocol = Opening(cur) /\ conn'[cur].state = conn[cur].state
        /\ \A d \in Clients : d # cur => conn'[d] = conn[d]
    BY <1>2, <1>5 DEF IInv, TypeOK, ConnType
  <2>2. pc' = IF cur \in upgrading THEN "read" ELSE "h2_read"
    BY <1>3, <1>5 DEF ReadHandler
  <2>3. Ordered(cur)'
    <3>1. Ordered(cur) /\ http2_state[cur] \in {"NULL", "SET"}
      BY <1>2 DEF OrderInv, IInv, TypeOK
    <3>2. http2_state[cur] = "NULL" /\ conn[cur].state # "NONE"
      BY <3>1, <1>2 DEF Ordered, LiveStates
    <3>. QED  BY <3>1, <3>2, <2>1, <2>2, <1>1, <1>2, <1>3 DEF Ordered, Switched
  <2>4. HandlerInv'
    BY <1>1, <1>3, <2>1, <2>2 DEF HandlerInv
  <2>. QED  BY <1>1, <1>2, <2>1, <2>3, <2>4, OneClient
<1>. QED  BY <1>1, <1>4, <1>5

(* The 101 goes first. *)
LEMMA SwitchProtocolsOrder ==
  ASSUME IInv, OrderInv, SwitchProtocols
  PROVE  OrderInv'
<1>1. pc = "upgrade" /\ pc' = "upgrade_settings" /\ UNCHANGED <<conn, cur, http2Vars>>
      /\ WriteUnchecked(Switching) /\ sock' = [sock EXCEPT ![cur] = SockUnchecked]
  BY DEF SwitchProtocols
<1>2. cur \in Clients /\ Live(cur) /\ conn[cur].protocol = "HTTP1"
  BY <1>1 DEF IInv, ThreadInv, HandlerPcs, Pcs, OrderInv, HandlerInv
<1>3. sock'[cur].peer = sock[cur].peer /\ \A d \in Clients : d # cur => sock'[d] = sock[d] /\ wire'[d] = wire[d]
  <2>1. sock[cur] \in SockType
    BY <1>2, FieldTypes DEF IInv
  <2>. QED  BY <1>1, <1>2, <2>1 DEF SockUnchecked, Wrote, WriteUnchecked, IInv, TypeOK, SockType
<1>4. Ordered(cur)'
  <2>1. Ordered(cur) /\ http2_state[cur] \in {"NULL", "SET"} /\ conn[cur].state # "NONE"
    BY <1>2 DEF OrderInv, IInv, TypeOK, LiveStates
  <2>2. http2_state[cur] = "NULL"
    BY <2>1, <1>2 DEF Ordered
  <2>3. sock[cur].peer \notin Dead => wire'[cur] = <<Switching>>
    <3>1. sock[cur].peer \notin Dead => wire[cur] = <<>>
      BY <2>1, <2>2, <1>1, <1>2 DEF Ordered, Switched
    <3>2. sock[cur].peer \notin Dead => wire'[cur] = Append(wire[cur], Switching)
      BY <1>1, <1>2 DEF WriteUnchecked, IInv, TypeOK
    <3>3. Append(<<>>, Switching) = <<Switching>>
      OBVIOUS
    <3>. QED  BY <3>1, <3>2, <3>3
  <2>. QED  BY <2>1, <2>2, <2>3, <1>1, <1>2, <1>3 DEF Ordered, Switched
<1>5. HandlerInv'
  BY <1>1, <1>2 DEF HandlerInv
<1>. QED  BY <1>1, <1>2, <1>3, <1>4, <1>5, OneClient

(* The SETTINGS follow it, and the response to the request is queued: together they are
   the greeting of a client that upgraded. *)
LEMMA UpgradeAnswerOrder ==
  ASSUME IInv, OrderInv, UpgradeAnswer
  PROVE  OrderInv'
<1> DEFINE queue == Response(0)
<1>1. /\ pc = "upgrade_settings" /\ pc' = "after_read" /\ UNCHANGED <<cur, preface, frames, upgrading>>
      /\ WriteUnchecked(Settings) /\ mod_epoll(cur, SockUnchecked, {"IN", "OUT"})
      /\ http2_state' = [http2_state EXCEPT ![cur] = "SET"]
      /\ write_buffer' = [write_buffer EXCEPT ![cur] = queue]
      /\ conn' = [conn EXCEPT ![cur].protocol = "HTTP2", ![cur].bytes_read = 0,
                              ![cur].write_buffer_size = Len(queue)]
  BY DEF UpgradeAnswer
<1>2. /\ cur \in Clients /\ Live(cur) /\ conn[cur].protocol = "HTTP1" /\ conn[cur] \in ConnType
      /\ conn[cur].bytes_written = 0 /\ sock[cur] \in SockType
  <2>1. cur \in Clients /\ Live(cur) /\ conn[cur].protocol = "HTTP1"
    BY <1>1 DEF IInv, ThreadInv, HandlerPcs, Pcs, OrderInv, HandlerInv
  <2>. QED  BY <2>1, FieldTypes DEF IInv, ConnInv
<1>3. queue \in Seq(UnitType) /\ Len(queue) \in Nat
  <2>1. Response(0) \in Seq(UnitType)
    BY ReplyTypes
  <2>. QED  BY <2>1
<1> HIDE DEF queue
<1>4. /\ conn'[cur].protocol = "HTTP2" /\ conn'[cur].bytes_written = 0
      /\ conn'[cur].write_buffer_size = Len(queue) /\ conn'[cur].state = conn[cur].state
      /\ write_buffer'[cur] = queue /\ http2_state'[cur] = "SET"
      /\ \A d \in Clients : d # cur =>
           conn'[d] = conn[d] /\ write_buffer'[d] = write_buffer[d] /\ http2_state'[d] = http2_state[d]
  BY <1>1, <1>2 DEF IInv, TypeOK, ConnType
<1>5. /\ sock'[cur].peer = sock[cur].peer
      /\ \A d \in Clients : d # cur => sock'[d].peer = sock[d].peer /\ wire'[d] = wire[d]
  <2>1. SockUnchecked.peer = sock[cur].peer
    BY <1>2 DEF SockUnchecked, Wrote, SockType
  <2>2. sock' = [sock EXCEPT ![cur] = Interested(SockUnchecked, {"IN", "OUT"})]
    BY <1>1 DEF mod_epoll
  <2>3. SockUnchecked = sock[cur] \/ \E n : SockUnchecked = [sock[cur] EXCEPT !.snd = n]
    BY DEF SockUnchecked, Wrote
  <2>4. Interested(SockUnchecked, {"IN", "OUT"}).peer = SockUnchecked.peer
    BY <2>3, <1>2 DEF Interested, SockType
  <2>. QED  BY <2>1, <2>2, <2>4, <1>1, <1>2 DEF WriteUnchecked, IInv, TypeOK
<1>6. Ordered(cur)'
  <2>1. Ordered(cur) /\ http2_state[cur] \in {"NULL", "SET"} /\ conn[cur].state # "NONE"
    BY <1>2 DEF OrderInv, IInv, TypeOK, LiveStates
  <2>2. http2_state[cur] = "NULL"
    BY <2>1, <1>2 DEF Ordered
  <2>3. frames[cur] = <<>> /\ cur \in upgrading
        /\ (sock[cur].peer \notin Dead => wire[cur] = <<Switching>>)
    BY <2>1, <2>2, <1>1, <1>2 DEF Ordered, Switched
  <2>4. Replies(cur)' = <<Switching, Settings>> \o queue
    <3>1. Greeting(cur)' = <<Switching, Settings>> \o queue
      BY <2>3, <1>1 DEF Greeting, queue
    <3>2. Greeting(cur)' \in Seq(UnitType)
      <4>1. <<Switching, Settings>> \in Seq(UnitType)
        BY ReplyTypes
      <4>. QED  BY <3>1, <4>1, <1>3
    <3>3. frames'[cur'] = <<>>
      BY <1>1, <2>3
    <3>4. RepliesTo(Greeting(cur)', <<>>) = Greeting(cur)'
      BY <3>2, RepliesNone
    <3>. QED  BY <3>1, <3>3, <3>4 DEF Replies
  <2>5. Unwritten(cur)' = queue
    <3>1. Unwritten(cur)' = SubSeq(queue, 0 + 1, Len(queue))
      BY <1>1, <1>4 DEF Unwritten
    <3>2. SubSeq(queue, 1, Len(queue)) = queue
      BY <1>3
    <3>. QED  BY <3>1, <3>2
  <2>6. sock[cur].peer \notin Dead => wire'[cur] = <<Switching, Settings>>
    <3>1. sock[cur].peer \notin Dead => wire'[cur] = Append(wire[cur], Settings)
      BY <1>1, <1>2 DEF WriteUnchecked, IInv, TypeOK
    <3>2. Append(<<Switching>>, Settings) = <<Switching, Settings>>
      <4>1. <<Switching>> \in Seq(UnitType) /\ <<Switching, Settings>> \in Seq(UnitType)
            /\ Settings \in UnitType
        BY ReplyTypes
      <4>2. \A i \in 1..2 : Append(<<Switching>>, Settings)[i] = <<Switching, Settings>>[i]
        OBVIOUS
      <4>3. Append(<<Switching>>, Settings) \in Seq(UnitType)
        BY <4>1
      <4>4. Len(Append(<<Switching>>, Settings)) = 2 /\ Len(<<Switching, Settings>>) = 2
        BY <4>1
      <4>. QED  BY <4>1, <4>2, <4>3, <4>4, SeqEqual
    <3>. QED  BY <3>1, <3>2, <2>3
  <2>. QED  BY <2>1, <2>4, <2>5, <2>6, <1>1, <1>4, <1>5 DEF Ordered
<1>7. HandlerInv'
  BY <1>1 DEF HandlerInv
<1>. QED  BY <1>1, <1>2, <1>4, <1>5, <1>6, <1>7, OneClient

(* What a step of an HTTP/2 handler leaves of the served connection and of the others. *)
Serves ==
  /\ UNCHANGED <<cur, upgrading>>
  /\ conn'[cur].state = conn[cur].state /\ conn'[cur].protocol = conn[cur].protocol
  /\ sock'[cur].peer = sock[cur].peer
  /\ \A d \in Clients : d # cur =>
       /\ UNCHANGED <<wire[d], frames[d], http2_state[d], preface[d], write_buffer[d]>>
       /\ conn'[d] = conn[d] /\ sock'[d] = sock[d]

LEMMA ServesStep ==
  ASSUME IInv, OrderInv, pc \in {"h2_read", "h2_frames", "h2_write"},
         pc' \in {"h2_frames", "h2_write", "after_write"}, Serves,
         http2_state'[cur] = "SET",
         sock[cur].peer \notin Dead => (wire[cur] \o Unwritten(cur) = Replies(cur))'
  PROVE  OrderInv'
<1>1. cur \in Clients /\ Live(cur) /\ conn[cur].protocol = "HTTP2" /\ conn[cur].state # "NONE"
  BY DEF IInv, ThreadInv, HandlerPcs, Pcs, LiveStates
<1>2. Ordered(cur)'
  BY <1>1 DEF Ordered, Serves
<1>3. HandlerInv'
  BY DEF HandlerInv, Serves
<1>. QED  BY <1>1, <1>2, <1>3, OneClient DEF Serves

(* The preface is taken: the SETTINGS are all that is due to a client with prior
   knowledge, and nothing has been sent to it. *)
LEMMA TakePrefaceOrder ==
  ASSUME IInv, OrderInv, TakePreface
  PROVE  OrderInv'
<1>1. /\ pc = "h2_read" /\ cur \in Clients /\ conn[cur] \in ConnType /\ sock[cur] \in SockType
      /\ Live(cur) /\ conn[cur].protocol = "HTTP2"
  BY Http2Served DEF TakePreface, IInv, ThreadInv
<1>2. /\ UNCHANGED <<cur, wire, frames, upgrading>> /\ pc' = "h2_frames"
      /\ preface' = [preface EXCEPT ![cur] = "taken"]
  BY DEF TakePreface
<1>3. Ordered(cur) /\ http2_state[cur] \in {"NULL", "SET"}
  BY <1>1 DEF OrderInv, IInv, TypeOK
<1>4. CASE http2_state[cur] = "SET"
  <2>1. UNCHANGED <<http2_state, write_buffer, sock>>
        /\ \E n : conn' = [conn EXCEPT ![cur] = [conn[cur] EXCEPT !.bytes_read = n]]
    BY <1>1, <1>4 DEF TakePreface, IInv, TypeOK
  <2>2. /\ conn'[cur].state = conn[cur].state /\ conn'[cur].protocol = conn[cur].protocol
        /\ conn'[cur].bytes_written = conn[cur].bytes_written
        /\ conn'[cur].write_buffer_size = conn[cur].write_buffer_size
        /\ \A d \in Clients : d # cur => conn'[d] = conn[d] /\ preface'[d] = preface[d]
    BY <2>1, <1>1, <1>2 DEF IInv, TypeOK, ConnType
  <2>3. Serves
    BY <2>1, <2>2, <1>2 DEF Serves
  <2>4. Unwritten(cur)' = Unwritten(cur) /\ Replies(cur)' = Replies(cur)
    BY <2>1, <2>2, <1>2 DEF Unwritten, Replies, Greeting
  <2>5. sock[cur].peer \notin Dead => (wire[cur] \o Unwritten(cur) = Replies(cur))'
    BY <1>1, <1>2, <1>3, <1>4, <2>4 DEF Ordered
  <2>. QED  BY <1>1, <1>2, <1>4, <2>1, <2>3, <2>5, ServesStep
<1>5. CASE http2_state[cur] # "SET"
  <2>1. /\ http2_state' = [http2_state EXCEPT ![cur] = "SET"]
        /\ write_buffer' = [write_buffer EXCEPT ![cur] = <<Settings>>]
        /\ mod_epoll(cur, sock[cur], {"IN", "OUT"})
        /\ conn' = [conn EXCEPT ![cur] = [conn[cur] EXCEPT
                              !.bytes_read = conn[cur].bytes_read - PrefaceLen,
                              !.write_buffer_size = 1, !.bytes_written = 0]]
    BY <1>1, <1>5 DEF TakePreface, IInv, TypeOK
  <2>2. /\ conn'[cur].state = conn[cur].state /\ conn'[cur].protocol = conn[cur].protocol
        /\ conn'[cur].bytes_written = 0 /\ conn'[cur].write_buffer_size = 1
        /\ \A d \in Clients : d # cur => conn'[d] = conn[d] /\ preface'[d] = preface[d]
    BY <2>1, <1>1, <1>2 DEF IInv, TypeOK, ConnType
  <2>3. /\ http2_state'[cur] = "SET" /\ write_buffer'[cur] = <<Settings>>
        /\ \A d \in Clients : d # cur =>
             http2_state'[d] = http2_state[d] /\ write_buffer'[d] = write_buffer[d]
    BY <2>1, <1>1 DEF IInv, TypeOK
  <2>4. sock'[cur].peer = sock[cur].peer /\ \A d \in Clients : d # cur => sock'[d] = sock[d]
    <3>1. {"IN", "OUT"} \in SUBSET {"IN", "OUT"}
      OBVIOUS
    <3>. QED  BY <3>1, <1>1, <2>1, InterestSet DEF IInv
  <2>5. Serves
    BY <1>2, <2>2, <2>3, <2>4 DEF Serves
  <2>6. ASSUME sock[cur].peer \notin Dead
        PROVE  (wire[cur] \o Unwritten(cur) = Replies(cur))'
    <3>1. frames[cur] = <<>> /\ cur \notin upgrading /\ wire[cur] = <<>>
      BY <1>1, <1>3, <1>5, <2>6 DEF Ordered, Switched
    <3>2. Unwritten(cur)' = <<Settings>>
      <4>1. Unwritten(cur)' = SubSeq(<<Settings>>, 0 + 1, 1)
        BY <1>2, <2>2, <2>3 DEF Unwritten
      <4>2. <<Settings>> \in Seq(UnitType) /\ Len(<<Settings>>) = 1
        BY ReplyTypes
      <4>3. SubSeq(<<Settings>>, 1, Len(<<Settings>>)) = <<Settings>>
        BY <4>2, SubSeqFull
      <4>. QED  BY <4>1, <4>2, <4>3
    <3>3. Replies(cur)' = <<Settings>>
      <4>1. Greeting(cur)' = <<Settings>> /\ frames'[cur'] = <<>>
        BY <1>2, <3>1 DEF Greeting
      <4>2. RepliesTo(<<Settings>>, <<>>) = <<Settings>>
        <5>1. <<Settings>> \in Seq(UnitType)
          BY ReplyTypes
        <5>. QED  BY <5>1, RepliesNone
      <4>. QED  BY <4>1, <4>2 DEF Replies
    <3>4. <<>> \o <<Settings>> = <<Settings>>
      BY ReplyTypes, ConcatEmptySeq
    <3>. QED  BY <3>1, <3>2, <3>3, <3>4, <1>2
  <2>. QED  BY <1>1, <1>2, <2>3, <2>5, <2>6, ServesStep
<1>. QED  BY <1>4, <1>5

(* A reply goes behind what is queued, written or not, and so behind the replies due. *)
LEMMA NextFrameOrder ==
  ASSUME IInv, OrderInv, NEW kind \in Kinds, NextFrame(kind)
  PROVE  OrderInv'
<1> DEFINE reply == Reply(kind, Len(frames[cur]) + 1)
           old == write_buffer[cur]
           from == conn[cur].bytes_written
<1>1. /\ pc = "h2_frames" /\ cur \in Clients /\ conn[cur] \in ConnType /\ sock[cur] \in SockType
      /\ Live(cur) /\ old \in Seq(UnitType) /\ from \in Nat
      /\ conn[cur].write_buffer_size = Len(old) /\ from <= Len(old)
  BY Http2Served DEF NextFrame
<1>2. frames[cur] \in Seq(Kinds) /\ reply \in Seq(UnitType)
  <2>1. frames[cur] \in Seq(Kinds) /\ Len(frames[cur]) + 1 \in Nat
    BY <1>1 DEF IInv, TypeOK
  <2>. QED  BY <2>1, ReplyTypes
<1>3. /\ UNCHANGED <<cur, wire, http2_state, preface, upgrading>> /\ pc' = "h2_frames"
      /\ write_buffer' = [write_buffer EXCEPT ![cur] = old \o reply]
      /\ frames' = [frames EXCEPT ![cur] = Append(frames[cur], kind)]
      /\ \E n : conn' = [conn EXCEPT ![cur] = [conn[cur] EXCEPT
                            !.bytes_read = n, !.write_buffer_size = Len(old) + Len(reply)]]
      /\ mod_epoll(cur, sock[cur], {"IN", "OUT"}) \/ sock' = sock
  BY <1>1 DEF NextFrame, IInv, TypeOK
<1> HIDE DEF reply, old
<1>4. /\ conn'[cur].state = conn[cur].state /\ conn'[cur].protocol = conn[cur].protocol
      /\ conn'[cur].bytes_written = from
      /\ conn'[cur].write_buffer_size = Len(old) + Len(reply)
      /\ \A d \in Clients : d # cur => conn'[d] = conn[d]
  BY <1>1, <1>3 DEF IInv, TypeOK, ConnType
<1> HIDE DEF from
<1>5. /\ write_buffer'[cur] = old \o reply /\ frames'[cur] = Append(frames[cur], kind)
      /\ \A d \in Clients : d # cur =>
           write_buffer'[d] = write_buffer[d] /\ frames'[d] = frames[d]
  BY <1>1, <1>3 DEF IInv, TypeOK
<1>6. sock'[cur].peer = sock[cur].peer /\ \A d \in Clients : d # cur => sock'[d] = sock[d]
  <2>1. CASE mod_epoll(cur, sock[cur], {"IN", "OUT"})
    <3>1. {"IN", "OUT"} \in SUBSET {"IN", "OUT"}
      OBVIOUS
    <3>. QED  BY <3>1, <2>1, <1>1, InterestSet DEF IInv
  <2>. QED  BY <2>1, <1>3
<1>7. Serves
  BY <1>3, <1>4, <1>5, <1>6 DEF Serves
<1>8. http2_state[cur] = "SET" /\ Ordered(cur)
  BY <1>1 DEF OrderInv, HandlerInv
<1>9. ASSUME sock[cur].peer \notin Dead
      PROVE  (wire[cur] \o Unwritten(cur) = Replies(cur))'
  <2>1. wire[cur] \o Unwritten(cur) = Replies(cur)
    BY <1>1, <1>8, <1>9 DEF Ordered
  <2>2. Unwritten(cur) = SubSeq(old, from + 1, Len(old))
    BY <1>1 DEF Unwritten, old, from
  <2>3. Unwritten(cur)' = SubSeq(old \o reply, from + 1, Len(old) + Len(reply))
    BY <1>3, <1>4, <1>5 DEF Unwritten
  <2>4. Unwritten(cur)' = Unwritten(cur) \o reply
    <3>1. SubSeq(old \o reply, from + 1, Len(old) + Len(reply)) =
            SubSeq(old, from + 1, Len(old)) \o reply
      BY <1>1, <1>2, SubSeqOfConcatEnd
    <3>. QED  BY <2>2, <2>3, <3>1
  <2>5. Replies(cur)' = Replies(cur) \o reply
    <3>1. Greeting(cur)' = Greeting(cur)
      BY <1>3 DEF Greeting
    <3>2. RepliesTo(Greeting(cur), Append(frames[cur], kind)) = RepliesTo(Greeting(cur), frames[cur]) \o reply
      BY <1>1, <1>2, UnitLists, RepliesAppend DEF reply
    <3>. QED  BY <1>3, <1>5, <3>1, <3>2 DEF Replies
  <2>6. wire[cur] \in Seq(UnitType) /\ Unwritten(cur) \in Seq(UnitType)
    BY <1>1, UnitLists
  <2>7. wire[cur] \o (Unwritten(cur) \o reply) = (wire[cur] \o Unwritten(cur)) \o reply
    <3> DEFINE U == UnitType
    <3>1. \A w, u, v \in Seq(U) : (w \o u) \o v = w \o (u \o v)
      <4> HIDE DEF U
      <4>. QED  BY ConcatAssociative
    <3>2. \A w, u, v \in Seq(UnitType) : (w \o u) \o v = w \o (u \o v)
      BY <3>1
    <3>. QED  BY <2>6, <1>2, <3>2
  <2>. QED  BY <1>3, <2>1, <2>4, <2>5, <2>7
<1>. QED  BY <1>1, <1>3, <1>7, <1>8, <1>9, ServesStep

(* A write moves units from the head of what is unwritten to the end of the wire. *)
LEMMA Http2WriteOrder ==
  ASSUME IInv, OrderInv, Http2Write
  PROVE  OrderInv'
<1> DEFINE queue == write_buffer[cur]
           from == conn[cur].bytes_written
           size == conn[cur].write_buffer_size
           n == Least(size - from, Room(sock[cur]))
           to == from + n
           units == SubSeq(queue, from + 1, to)
<1>1. /\ pc = "h2_write" /\ cur \in Clients /\ conn[cur] \in ConnType /\ sock[cur] \in SockType
      /\ Live(cur) /\ queue \in Seq(UnitType) /\ from \in Nat
      /\ size = Len(queue) /\ from <= Len(queue) /\ size \in Nat
  BY Http2Served DEF Http2Write
<1>2. n \in Nat /\ n <= Room(sock[cur]) /\ to \in from..size
  <2>1. Room(sock[cur]) \in Nat /\ size - from \in Nat
    BY <1>1, FieldTypes, KernelAssumption DEF KernelAssumption, Room, IInv
  <2>. QED  BY <2>1, <1>1 DEF Least
<1>3. /\ UNCHANGED <<cur, http2_state, preface, frames, upgrading>> /\ pc' \in {"h2_write", "after_write"}
      /\ wire' = [wire EXCEPT ![cur] = wire[cur] \o units]
      /\ \/ /\ to = size /\ conn' = [conn EXCEPT ![cur] = [conn[cur] EXCEPT
                                          !.write_buffer_size = 0, !.bytes_written = 0]]
            /\ write_buffer' = [write_buffer EXCEPT ![cur] = <<>>]
            /\ sock' = [sock EXCEPT ![cur] = Interested(Wrote(sock[cur], n), {"IN"})]
         \/ /\ conn' = [conn EXCEPT ![cur] = [conn[cur] EXCEPT !.bytes_written = to]]
            /\ sock' = [sock EXCEPT ![cur] = Wrote(sock[cur], n)] /\ UNCHANGED write_buffer
  BY <1>1 DEF Http2Write, mod_epoll, IInv, TypeOK
<1> HIDE DEF n, to, units
<1>4. Wrote(sock[cur], n).peer = sock[cur].peer /\ Interested(Wrote(sock[cur], n), {"IN"}).peer = sock[cur].peer
  <2>1. Wrote(sock[cur], n) \in SockType /\ {"IN"} \in SUBSET {"IN", "OUT"}
        /\ Wrote(sock[cur], n).peer = sock[cur].peer
    BY <1>1, <1>2, WroteSock
  <2>. QED  BY <2>1, InterestedSocket
<1>5. wire'[cur] = wire[cur] \o units /\ \A d \in Clients : d # cur => wire'[d] = wire[d]
  BY <1>1, <1>3 DEF IInv, TypeOK
<1>6. units \o SubSeq(queue, to + 1, size) = Unwritten(cur)
  <2>1. to \in Nat /\ from <= to /\ to <= Len(queue)
    BY <1>1, <1>2
  <2> HIDE DEF queue, from
  <2>2. SubSeq(queue, from + 1, to) \o SubSeq(queue, to + 1, Len(queue)) = SubSeq(queue, from + 1, Len(queue))
    BY <1>1, <2>1, SubSeqSplit
  <2>. QED  BY <1>1, <2>2 DEF Unwritten, units, queue, from
<1>7. Serves /\ Unwritten(cur)' = SubSeq(queue, to + 1, size)
  <2>1. CASE /\ to = size /\ conn' = [conn EXCEPT ![cur] = [conn[cur] EXCEPT
                                           !.write_buffer_size = 0, !.bytes_written = 0]]
             /\ write_buffer' = [write_buffer EXCEPT ![cur] = <<>>]
             /\ sock' = [sock EXCEPT ![cur] = Interested(Wrote(sock[cur], n), {"IN"})]
    <3>1. /\ conn'[cur].state = conn[cur].state /\ conn'[cur].protocol = conn[cur].protocol
          /\ conn'[cur].bytes_written = 0 /\ conn'[cur].write_buffer_size = 0
          /\ write_buffer'[cur] = <<>> /\ sock'[cur].peer = sock[cur].peer
          /\ \A d \in Clients : d # cur =>
               conn'[d] = conn[d] /\ write_buffer'[d] = write_buffer[d] /\ sock'[d] = sock[d]
      BY <2>1, <1>1, <1>4 DEF IInv, TypeOK, ConnType
    <3>2. Serves
      BY <3>1, <1>3, <1>5 DEF Serves
    <3>3. Unwritten(cur)' = SubSeq(<<>>, 0 + 1, 0)
      BY <3>1, <1>3 DEF Unwritten
    <3>4. SubSeq(<<>>, 0 + 1, 0) = <<>>
      BY SubSeqEmpty
    <3>5. SubSeq(queue, to + 1, size) = <<>>
      BY <2>1, <1>1, SubSeqEmpty
    <3>. QED  BY <3>2, <3>3, <3>4, <3>5
  <2>2. CASE /\ conn' = [conn EXCEPT ![cur] = [conn[cur] EXCEPT !.bytes_written = to]]
             /\ sock' = [sock EXCEPT ![cur] = Wrote(sock[cur], n)] /\ UNCHANGED write_buffer
    <3>1. /\ conn'[cur].state = conn[cur].state /\ conn'[cur].protocol = conn[cur].protocol
          /\ conn'[cur].bytes_written = to /\ conn'[cur].write_buffer_size = size
          /\ sock'[cur].peer = sock[cur].peer
          /\ \A d \in Clients : d # cur => conn'[d] = conn[d] /\ sock'[d] = sock[d]
      BY <2>2, <1>1, <1>4 DEF IInv, TypeOK, ConnType
    <3>2. Serves
      BY <2>2, <3>1, <1>3, <1>5 DEF Serves
    <3>3. Unwritten(cur)' = SubSeq(queue, to + 1, size)
      BY <2>2, <3>1, <1>3 DEF Unwritten
    <3>. QED  BY <3>2, <3>3
  <2>. QED  BY <2>1, <2>2, <1>3
<1>8. http2_state[cur] = "SET" /\ Ordered(cur)
  BY <1>1 DEF OrderInv, HandlerInv
<1>9. ASSUME sock[cur].peer \notin Dead
      PROVE  (wire[cur] \o Unwritten(cur) = Replies(cur))'
  <2>1. wire[cur] \o Unwritten(cur) = Replies(cur)
    BY <1>1, <1>8, <1>9 DEF Ordered
  <2>2. Replies(cur)' = Replies(cur)
    BY <1>3 DEF Replies, Greeting
  <2>3. /\ wire[cur] \in Seq(UnitType) /\ units \in Seq(UnitType)
        /\ SubSeq(queue, to + 1, size) \in Seq(UnitType)
    <3>1. \A i \in from + 1..size : queue[i] \in UnitType
      BY <1>1
    <3>2. (\A i \in from + 1..to : queue[i] \in UnitType) /\ (\A i \in to + 1..size : queue[i] \in UnitType)
      BY <3>1, <1>1, <1>2
    <3>3. from + 1 \in Int /\ to \in Int /\ to + 1 \in Int /\ size \in Int
      BY <1>1, <1>2
    <3>. QED  BY <3>2, <3>3, <1>1, UnitLists, SubSeqProperties DEF units
  <2>4. (wire[cur] \o units) \o SubSeq(queue, to + 1, size) =
          wire[cur] \o (units \o SubSeq(queue, to + 1, size))
    <3> DEFINE U == UnitType
    <3>1. \A w, u, v \in Seq(U) : (w \o u) \o v = w \o (u \o v)
      <4> HIDE DEF U
      <4>. QED  BY ConcatAssociative
    <3>2. \A w, u, v \in Seq(UnitType) : (w \o u) \o v = w \o (u \o v)
      BY <3>1
    <3>. QED  BY <2>3, <3>2
  <2>. QED  BY <1>3, <1>5, <1>6, <1>7, <2>1, <2>2, <2>4
<1>. QED  BY <1>1, <1>3, <1>7, <1>8, <1>9, ServesStep

-----------------------------------------------------------------------------
(* The invariant holds at first, and every step keeps it: one case per action. *)

LEMMA OrderInit == Init => OrderInv
<1> SUFFICES ASSUME Init PROVE OrderInv
  OBVIOUS
<1>1. \A c \in Clients : /\ conn[c].state = "NONE" /\ ~Live(c) /\ wire[c] = <<>> /\ frames[c] = <<>>
                         /\ http2_state[c] = "NULL" /\ preface[c] = "due"
  BY DEF Init, LoopInit, KernelInit, Blank, LiveStates
<1>2. HandlerInv
  BY DEF Init, LoopInit, HandlerInv
<1>. QED  BY <1>1, <1>2 DEF OrderInv, Ordered

LEMMA NextOrder == IInv /\ IInv' /\ OrderInv /\ [Next]_vars => OrderInv'
<1> SUFFICES ASSUME IInv, IInv', OrderInv, [Next]_vars PROVE OrderInv'
  OBVIOUS
<1>1. CASE ServerStep
  <2>1. CASE LoopStep /\ UNCHANGED http2Vars
    <3>1. CASE EpollWait \/ BatchDone \/ AcceptFails \/ \E c \in Clients : AcceptRefused(c)
      BY <2>1, <3>1, LoopOrder
    <3>2. CASE (\E e \in batch : TakeEvent(e)) \/ AfterRead
      BY <2>1, <3>2, TakeEventOrder, AfterReadOrder
    <3>3. CASE AfterWrite \/ ReadEnd
      BY <2>1, <3>3, FreeOrder
    <3>4. CASE \E c \in Clients, f \in Fds : Accept(c, f)
      BY <2>1, <3>4, AcceptOrder
    <3>5. CASE SniffRead \/ Http1Read
      <4>1. /\ pc \in {"sniff", "read", "h2_read"} /\ Receive(cur)
            /\ UNCHANGED <<backlog, ready, fdtab, disk, wire>>
            /\ UNCHANGED <<connections, pc, batch, ev, cur, http2Vars>>
        BY <2>1, <3>5 DEF SniffRead, Http1Read
      <4>. QED  BY <4>1, ReceiveOrder
    <3>6. CASE SigPipe
      BY <2>1, <3>6, EndOrder
    <3>. QED  BY <2>1, <3>1, <3>2, <3>3, <3>4, <3>5, <3>6 DEF LoopStep
  <2>2. CASE SniffDone(Opening(cur)) /\ UNCHANGED http2Vars
    BY <2>2, SniffDoneOrder
  <2>3. CASE UpgradeReadDone \/ Http2ReadEnd \/ PrefaceShort \/ FramesFollow \/ FramesDone \/ Http2WriteAgain
    BY <2>3, MoveOrder
  <2>4. CASE SwitchProtocols \/ UpgradeAnswer
    BY <2>4, SwitchProtocolsOrder, UpgradeAnswerOrder
  <2>5. CASE Http2Read
    <3>1. /\ pc \in {"sniff", "read", "h2_read"} /\ Receive(cur)
          /\ UNCHANGED <<backlog, ready, fdtab, disk, wire>>
          /\ UNCHANGED <<connections, pc, batch, ev, cur, http2Vars>>
      BY <2>5 DEF Http2Read
    <3>. QED  BY <3>1, ReceiveOrder
  <2>6. CASE TakePreface \/ \E kind \in Kinds : NextFrame(kind)
    BY <2>6, TakePrefaceOrder, NextFrameOrder
  <2>7. CASE Http2Write
    BY <2>7, Http2WriteOrder
  <2>8. CASE Http2WriteError
    <3>1. UNCHANGED http2Vars
      BY <2>8 DEF Http2WriteError
    <3>. QED  BY <2>8, <3>1, FreeOrder
  <2>. QED  BY <1>1, <2>1, <2>2, <2>3, <2>4, <2>5, <2>6, <2>7, <2>8 DEF ServerStep
<1>2. CASE \E c \in Clients : PeerStep(c)
  BY <1>2, PeerOrder
<1>3. CASE UNCHANGED vars
  <2>1. UNCHANGED <<wire, sock, conn, pc, cur, http2Vars>>
    BY <1>3 DEF vars, serverVars
  <2>2. HandlerInv'
    BY <2>1 DEF OrderInv, HandlerInv
  <2>. QED  BY <2>1, <2>2, QuietStep
<1>. QED  BY <1>1, <1>2, <1>3 DEF Next

(* A client is sent the greeting and then the reply to each frame taken from it, in the
   order of its frames, each once and whole: however the frames arrive, the writes are
   cut and the queue grows while it is written, for every number of clients that
   upgrade or do not, and every size of buffers, frames and responses. *)
THEOREM Http2RepliesInOrder == Spec => []RepliesInOrder
<1>1. IInv /\ OrderInv => RepliesInOrder
  <2> SUFFICES ASSUME IInv, OrderInv, NEW c \in Clients, Live(c), http2_state[c] = "SET",
                      sock[c].peer \notin Dead
               PROVE  wire[c] \o Unwritten(c) = Replies(c)
    BY DEF RepliesInOrder
  <2>. QED  BY DEF OrderInv, Ordered
<1>2. Spec => []OrderInv
  <2>1. Init => OrderInv
    BY OrderInit
  <2>. QED  BY <2>1, NextOrder, Http2Invariance, PTL DEF Spec
<1>. QED  BY <1>1, <1>2, Http2Invariance, PTL
==============================================================================
