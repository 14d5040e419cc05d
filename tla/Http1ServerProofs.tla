------------------------- MODULE Http1ServerProofs -------------------------
(* Proofs about Http1Server, for every number of clients and descriptors and
   every size of buffers, requests and files.                             *)
EXTENDS Http1Server, SequenceTheorems, TLAPS

InterestOf(state) ==
  CASE state \in {"READ_REQUEST", "PROCESS"} -> {"IN"}
    [] state \in {"WRITE_RESPONSE", "WRITE_FILE"} -> {"OUT"}
    [] OTHER -> {}

RequestPcs == {"process", "plugin", "static", "direct_header", "direct_body"}

(* What a Connection's state says of its fields and of its socket. *)
ConnInv ==
  \A c \in Clients :
    /\ sock[c].interest = InterestOf(conn[c].state)
    /\ conn[c].state = "PROCESS" => c = cur /\ pc \in RequestPcs \cup {"killed"}
    /\ conn[c].state \in {"READ_REQUEST", "PROCESS"} =>
         conn[c].bytes_read + 1 < conn[c].read_buffer_size
    /\ conn[c].state \in {"NONE", "READ_REQUEST"} => sock[c].snd = 0
    /\ conn[c].state \in {"READ_REQUEST", "PROCESS"} => conn[c].bytes_written = 0
    /\ conn[c].state # "NONE" => sock[c].peer # "new"
    /\ conn[c].state \in {"NONE", "FREED", "READ_REQUEST", "PROCESS"} => conn[c].file_fd = NoFd
    /\ conn[c].state = "WRITE_FILE" => conn[c].file_fd # NoFd
    /\ conn[c].state = "WRITE_RESPONSE" => conn[c].bytes_written <= conn[c].write_buffer_size

(* Sockets that wait to be accepted have no Connection yet, those on the ready
   list have a live one, and so has each event still to be handled, which is not
   the one being handled and carries only bits its socket wants. *)
QueueInv ==
  /\ \A c \in backlog : conn[c].state = "NONE" /\ sock[c].peer # "new"
  /\ \A c \in ready : Live(c)
  /\ \A e \in batch : e.fd # ListenFd =>
       /\ e.sock \in Clients /\ e.sock # cur
       /\ Live(e.sock) /\ conn[e.sock].fd = e.fd
       /\ e.mask \subseteq sock[e.sock].interest \cup {"HUP"}
  /\ \A e, f \in batch : e.fd = f.fd => e = f

(* What the position of the thread says of the connection it works for. *)
ThreadInv ==
  /\ pc \in {"wait", "next", "accept"} => cur = NoClient
  /\ pc = "wait" => batch = {}
  /\ pc \in HandlerPcs => cur \in Clients /\ ev.fd \in Fds /\ Live(cur) /\ conn[cur].fd = ev.fd
  /\ pc \in {"after_read", "after_write"} =>
       /\ cur \in Clients /\ ev.fd \in Fds
       /\ connections[ev.fd] \in {NoClient, cur}
  /\ pc \in {"sniff", "read", "h2_read"} => conn[cur].state = "READ_REQUEST"
  /\ pc \in RequestPcs => conn[cur].state = "PROCESS"
  /\ pc \in RequestPcs \ {"direct_body"} => sock[cur].snd = 0
  /\ pc = "send" => conn[cur].state = "WRITE_RESPONSE"
  /\ pc \in {"file_read", "file_write"} => conn[cur].state = "WRITE_FILE"
  /\ pc = "file_write" => chunk.written < chunk.n

USE DEF Live, http1Vars, loopVars

IInv == TypeOK /\ DescriptorsAccounted /\ ConnInv /\ QueueInv /\ ThreadInv

-----------------------------------------------------------------------------
(* The records a connection starts and ends with. *)
LEMMA ConstantTypes ==
  /\ NewSock \in SockType /\ ClosedSock \in SockType
  /\ Blank \in ConnType /\ Freed \in ConnType
  /\ Unused \in DescriptorType /\ ASocket \in DescriptorType /\ AFile \in DescriptorType
  /\ NoEvent \in EventType /\ NoChunk \in ChunkType
<1>1. NewSock \in SockType
  BY KernelAssumption DEF NewSock, SockType
<1>2. ClosedSock \in SockType
  BY <1>1 DEF ClosedSock, SockType
<1>3. Blank \in ConnType
  BY DEF Blank, ConnType, NoFd, LiveStates
<1>4. Freed \in ConnType
  BY <1>3 DEF Freed, ConnType
<1>5. /\ Unused \in DescriptorType /\ ASocket \in DescriptorType /\ AFile \in DescriptorType
      /\ NoEvent \in EventType /\ NoChunk \in ChunkType
  BY DEF Unused, ASocket, AFile, DescriptorType, NoEvent, EventType, NoChunk, ChunkType, ListenFd
<1>. QED  BY <1>1, <1>2, <1>3, <1>4, <1>5

(* free_connection on a live connection: the types hold, the descriptors stay
   accounted for, and nothing of the other connections changes. *)
LEMMA FreeConnection ==
  ASSUME IInv, NEW c \in Clients, Live(c), free_connection(c)
  PROVE  /\ sock' \in [Clients -> SockType] /\ conn' \in [Clients -> ConnType]
         /\ fdtab' \in [Fds -> DescriptorType]
         /\ connections' \in [Fds -> Clients \cup {NoClient}]
         /\ ready' \subseteq Clients /\ c \notin ready'
         /\ conn'[c] = Freed /\ sock'[c] = ClosedSock /\ connections'[conn[c].fd] = NoClient
         /\ \A d \in Clients : d # c => conn'[d] = conn[d] /\ sock'[d] = sock[d]
         /\ DescriptorsAccounted'
<1> USE KernelAssumption DEF KernelAssumption, IInv
<1>1. /\ sock' \in [Clients -> SockType] /\ conn' \in [Clients -> ConnType]
      /\ fdtab' \in [Fds -> DescriptorType]
      /\ connections' \in [Fds -> Clients \cup {NoClient}]
      /\ ready' \subseteq Clients /\ c \notin ready'
  <2>1. ClosedSock \in SockType /\ Freed \in ConnType /\ Unused \in DescriptorType
    BY ConstantTypes
  <2>2. conn[c].fd \in Fds
    BY DEF DescriptorsAccounted
  <2>. QED  BY <2>1, <2>2 DEF TypeOK, free_connection
<1>2. /\ conn'[c] = Freed /\ sock'[c] = ClosedSock /\ connections'[conn[c].fd] = NoClient
      /\ \A d \in Clients : d # c => conn'[d] = conn[d] /\ sock'[d] = sock[d]
  BY DEF TypeOK, free_connection, DescriptorsAccounted
<1>3. DescriptorsAccounted'
  <2>1. ~Live(c)' /\ conn'[c] = Freed /\ Freed.file_fd = NoFd /\ NoFd \notin Fds
    BY <1>2 DEF Live, LiveStates, Freed, Blank, NoFd, Fds
  <2>2. \A d \in Clients : d # c => Live(d)' = Live(d) /\ conn'[d] = conn[d]
    BY <1>2 DEF Live
  <2>3. \A f \in Fds : connections'[f] = IF f = conn[c].fd THEN NoClient ELSE connections[f]
    BY DEF TypeOK, free_connection, DescriptorsAccounted
  <2>4. \A f \in Fds : fdtab'[f].kind = IF f \in {conn[c].fd, conn[c].file_fd}
                                          THEN "free" ELSE fdtab[f].kind
    BY DEF TypeOK, free_connection, Unused
  <2>5. conn[c].fd \in Fds /\ connections[conn[c].fd] = c /\ fdtab[conn[c].fd].kind = "socket"
    BY DEF DescriptorsAccounted
  <2>6. \A f \in Fds : f = conn[c].file_fd => fdtab[f].kind = "file"
    BY DEF DescriptorsAccounted
  <2>7. \A f \in Fds : (fdtab[f].kind = "socket" <=> connections[f] # NoClient)'
    BY <2>3, <2>4, <2>5, <2>6 DEF DescriptorsAccounted
  <2>8. \A f \in Fds : (connections[f] # NoClient =>
                           Live(connections[f]) /\ conn[connections[f]].fd = f)'
    <3> SUFFICES ASSUME NEW f \in Fds, connections'[f] # NoClient
                 PROVE  conn'[connections'[f]].state \in LiveStates /\ conn'[connections'[f]].fd = f
      OBVIOUS
    <3>1. f # conn[c].fd /\ connections'[f] = connections[f]
      BY <2>3
    <3>2. connections[f] \in Clients /\ Live(connections[f]) /\ conn[connections[f]].fd = f
      BY <3>1 DEF DescriptorsAccounted, TypeOK
    <3>. QED  BY <2>2, <3>1, <3>2
  <2>9. \A f \in Fds : (fdtab[f].kind = "file" <=> \E d \in Clients : Live(d) /\ conn[d].file_fd = f)'
    BY <2>1, <2>2, <2>4, <2>5, <2>6 DEF DescriptorsAccounted
  <2>10. \A d \in Clients : (Live(d) => conn[d].fd \in Fds /\ connections[conn[d].fd] = d)'
    BY <2>1, <2>2, <2>3, <2>5 DEF DescriptorsAccounted
  <2>11. \A d, e \in Clients : (Live(d) /\ Live(e) /\ conn[d].file_fd = conn[e].file_fd
                                   => d = e \/ conn[d].file_fd = NoFd)'
    BY <2>1, <2>2 DEF DescriptorsAccounted
  <2>. QED  BY <2>7, <2>8, <2>9, <2>10, <2>11 DEF DescriptorsAccounted
<1>. QED  BY <1>1, <1>2, <1>3

(* Where nothing the accounting reads is changed, it stays true. *)
LEMMA DescriptorsKept ==
  ASSUME DescriptorsAccounted, connections' = connections,
         \A f \in Fds : fdtab'[f].kind = fdtab[f].kind,
         \A c \in Clients : /\ Live(c)' = Live(c) /\ conn'[c].fd = conn[c].fd
                            /\ conn'[c].file_fd = conn[c].file_fd,
         TypeOK
  PROVE  DescriptorsAccounted'
<1>1. \A f \in Fds : connections[f] \in Clients \cup {NoClient}
  BY DEF TypeOK
<1>. QED  BY <1>1 DEF DescriptorsAccounted

(* The fields that tell a freed connection, and its socket. *)
LEMMA FreedFields ==
  /\ Freed.state = "FREED" /\ Freed.file_fd = NoFd
  /\ ClosedSock.interest = {} /\ ClosedSock.snd = 0 /\ ClosedSock.peer = "closed"
BY DEF Freed, Blank, ClosedSock, NewSock

(* The thread frees the connection it works for and leaves the handler. *)
LEMMA FreeStep ==
  ASSUME IInv, cur \in Clients, Live(cur), conn[cur].fd = ev.fd, free_connection(cur),
         UNCHANGED <<backlog, batch>>,
         \/ pc' \in {"after_read", "after_write"} /\ UNCHANGED <<ev, cur>>
         \/ NextEvent
  PROVE  DescriptorsAccounted' /\ ConnInv' /\ QueueInv' /\ ThreadInv'
<1>1. /\ conn'[cur] = Freed /\ sock'[cur] = ClosedSock /\ connections'[conn[cur].fd] = NoClient
      /\ \A d \in Clients : d # cur => conn'[d] = conn[d] /\ sock'[d] = sock[d]
      /\ DescriptorsAccounted'
  BY FreeConnection
<1>2. cur' \in {cur, NoClient} /\ ready' = ready \ {cur} /\ NoClient \notin Clients
  BY KernelAssumption DEF KernelAssumption, NextEvent, free_connection
<1>3. ConnInv'
  <2> SUFFICES ASSUME NEW d \in Clients PROVE ConnInv!(d)'
    BY DEF ConnInv
  <2>1. CASE d = cur
    BY <2>1, <1>1, FreedFields DEF InterestOf
  <2>2. CASE d # cur
    BY <2>2, <1>1 DEF IInv, ConnInv
  <2>. QED  BY <2>1, <2>2
<1>4. QueueInv'
  <2>1. \A c \in backlog' : conn'[c].state = "NONE" /\ sock'[c].peer # "new"
    <3>1. \A c \in backlog : c \in Clients /\ conn[c].state = "NONE" /\ sock[c].peer # "new"
      BY DEF IInv, QueueInv, TypeOK
    <3>. QED  BY <3>1, <1>1 DEF LiveStates
  <2>2. \A c \in ready' : Live(c)'
    BY <1>1, <1>2 DEF IInv, QueueInv, TypeOK
  <2>3. \A e \in batch' : e.fd # ListenFd =>
          /\ e.sock \in Clients /\ e.sock # cur'
          /\ Live(e.sock)' /\ conn'[e.sock].fd = e.fd
          /\ e.mask \subseteq sock'[e.sock].interest \cup {"HUP"}
    BY <1>1, <1>2 DEF IInv, QueueInv
  <2>. QED  BY <2>1, <2>2, <2>3 DEF IInv, QueueInv
<1>5. ThreadInv'
  BY <1>1 DEF IInv, ThreadInv, NextEvent, HandlerPcs, RequestPcs, DescriptorsAccounted
<1>. QED  BY <1>1, <1>3, <1>4, <1>5

-----------------------------------------------------------------------------
(* One lemma per step of the server. Steps that only move the thread come
   first: the kernel, the table and the connections are as they were.     *)

(* Main, the batch is empty: the thread goes back to epoll_wait. *)
LEMMA BatchDoneStep ==
  ASSUME IInv, BatchDone, UNCHANGED http1Vars
  PROVE  IInv'
<1> USE DEF IInv, BatchDone, kernelVars
<1>1. TypeOK'
  BY DEF TypeOK, Pcs
<1>2. DescriptorsAccounted'
  BY DescriptorsKept
<1>3. ConnInv' /\ QueueInv'
  BY DEF ConnInv, QueueInv, RequestPcs
<1>4. ThreadInv'
  BY DEF ThreadInv, HandlerPcs, Pcs, RequestPcs
<1>. QED  BY <1>1, <1>2, <1>3, <1>4

(* Main takes an event: the connection it names is live and holds its descriptor. *)
LEMMA TakeEventStep ==
  ASSUME IInv, NEW e \in batch, TakeEvent(e), UNCHANGED http1Vars
  PROVE  IInv'
<1> DEFINE skipped == e.fd # ListenFd /\ get_connection(e.fd) = NoClient
<1> USE KernelAssumption DEF KernelAssumption
<1>1. /\ UNCHANGED <<connections, conn, sock, fdtab, backlog, ready>>
      /\ batch' = batch \ {e} /\ pc = "next" /\ cur = NoClient /\ e \in EventType
  BY DEF IInv, TypeOK, ThreadInv, TakeEvent, kernelVars
<1>2. ASSUME e.fd # ListenFd
      PROVE  /\ e.fd \in Fds /\ e.sock \in Clients /\ get_connection(e.fd) = e.sock
             /\ Live(e.sock) /\ conn[e.sock].fd = e.fd
             /\ e.mask \subseteq sock[e.sock].interest \cup {"HUP"}
             /\ sock[e.sock].interest = InterestOf(conn[e.sock].state)
             /\ conn[e.sock].state # "PROCESS"
  BY <1>1, <1>2 DEF IInv, EventType, QueueInv, get_connection, ListenFd, DescriptorsAccounted, ConnInv
<1>3. /\ ev' = e
      /\ cur' = IF e.fd = ListenFd THEN NoClient ELSE e.sock
      /\ pc' = IF e.fd = ListenFd THEN "accept"
               ELSE IF "IN" \notin e.mask THEN "after_read"
               ELSE IF conn[e.sock].protocol = "UNKNOWN" THEN "sniff" ELSE "read"
  BY <1>2 DEF TakeEvent, ReadHandler, get_connection, ListenFd, Fds, IInv, TypeOK, ConnType
<1>4. e.fd # ListenFd /\ "IN" \in e.mask => conn[e.sock].state = "READ_REQUEST"
  BY <1>2 DEF InterestOf, LiveStates
<1>5. TypeOK'
  BY <1>1, <1>2, <1>3 DEF IInv, TypeOK, Pcs, TakeEvent, kernelVars
<1>6. DescriptorsAccounted'
  BY <1>1, DescriptorsKept DEF IInv
<1>7. ConnInv'
  BY <1>1 DEF IInv, ConnInv, RequestPcs
<1>8. QueueInv'
  <2>1. \A d \in batch' : d.fd # ListenFd => d.sock # cur'
    <3> SUFFICES ASSUME NEW d \in batch, d # e, d.fd # ListenFd PROVE d.sock # cur'
      BY <1>1
    <3>1. d.sock \in Clients /\ conn[d.sock].fd = d.fd /\ d.fd # e.fd
      BY DEF IInv, QueueInv
    <3>. QED  BY <3>1, <1>2, <1>3
  <2>. QED  BY <2>1, <1>1 DEF IInv, QueueInv
<1>9. ThreadInv'
  BY <1>1, <1>2, <1>3, <1>4 DEF IInv, ThreadInv, HandlerPcs, Pcs, RequestPcs, DescriptorsAccounted
<1>. QED  BY <1>5, <1>6, <1>7, <1>8, <1>9 DEF IInv

(* Main after handle_read: the freed connection is told from the live one. *)
LEMMA AfterReadStep ==
  ASSUME IInv, AfterRead, UNCHANGED http1Vars
  PROVE  IInv'
<1> USE KernelAssumption DEF KernelAssumption
<1>1. /\ UNCHANGED <<connections, conn, sock, fdtab, backlog, ready, batch>>
      /\ cur \in Clients /\ ev.fd \in Fds /\ pc = "after_read"
  BY DEF IInv, AfterRead, kernelVars, ThreadInv
<1>2. CASE get_connection(ev.fd) # cur
  <2>1. NextEvent
    BY <1>2 DEF AfterRead
  <2>2. TypeOK'
    BY <1>2, ConstantTypes DEF IInv, TypeOK, Pcs, AfterRead, NextEvent, kernelVars
  <2>3. ConnInv' /\ QueueInv' /\ ThreadInv'
    BY <1>1, <2>1 DEF IInv, ConnInv, QueueInv, ThreadInv, NextEvent, RequestPcs, HandlerPcs
  <2>. QED  BY <1>1, <2>2, <2>3, DescriptorsKept DEF IInv
<1>3. CASE get_connection(ev.fd) = cur
  <2>1. connections[ev.fd] = cur /\ Live(cur) /\ conn[cur].fd = ev.fd
    BY <1>1, <1>3 DEF IInv, get_connection, DescriptorsAccounted
  <2>2. /\ UNCHANGED <<ev, cur>>
        /\ \/ pc' = "after_write"
           \/ pc' = "send" /\ conn[cur].state = "WRITE_RESPONSE"
           \/ pc' = "file_read" /\ conn[cur].state = "WRITE_FILE"
    BY <1>1, <1>3 DEF AfterRead, WriteHandler, IInv, TypeOK, ConnType
  <2>3. TypeOK'
    BY <2>2 DEF IInv, TypeOK, Pcs, AfterRead, kernelVars
  <2>4. ConnInv' /\ QueueInv'
    BY <1>1, <2>2 DEF IInv, ConnInv, QueueInv, RequestPcs
  <2>5. ThreadInv'
    BY <1>1, <2>1, <2>2 DEF IInv, ThreadInv, HandlerPcs, Pcs, RequestPcs
  <2>. QED  BY <1>1, <2>3, <2>4, <2>5, DescriptorsKept DEF IInv
<1>. QED  BY <1>2, <1>3

(* handle_accept returns without a connection. *)
LEMMA AcceptFailsStep ==
  ASSUME IInv, AcceptFails, UNCHANGED http1Vars
  PROVE  IInv'
<1> USE DEF IInv, AcceptFails, NextEvent, kernelVars
<1>1. TypeOK'
  BY ConstantTypes DEF TypeOK, Pcs
<1>2. DescriptorsAccounted'
  BY DescriptorsKept
<1>3. ConnInv' /\ QueueInv' /\ ThreadInv'
  BY KernelAssumption DEF KernelAssumption, ConnInv, QueueInv, ThreadInv, RequestPcs, HandlerPcs
<1>. QED  BY <1>1, <1>2, <1>3

(* Parsing, plugins and errors move the thread within one request. *)
LEMMA RequestStep ==
  ASSUME IInv, pc \in {"process", "plugin", "static"},
         pc' \in {"plugin", "static", "direct_header"},
         method' \in {"none", "GET", "HEAD", "OTHER"}, promise' \in [Clients -> Nat],
         UNCHANGED <<connections, conn, batch, ev, cur, chunk, kernelVars>>
  PROVE  IInv'
<1> USE DEF IInv, kernelVars
<1>1. TypeOK'
  BY DEF TypeOK, Pcs
<1>2. DescriptorsAccounted'
  BY DescriptorsKept
<1>3. ConnInv' /\ QueueInv' /\ ThreadInv'
  BY DEF ConnInv, QueueInv, ThreadInv, RequestPcs, HandlerPcs, Pcs
<1>. QED  BY <1>1, <1>2, <1>3

(* RequestStep covers the actions that decide what a request is answered with. *)
LEMMA RequestSteps ==
  ASSUME IInv,
         \/ BadRequest \/ StaticError \/ PluginReturns
         \/ \E m \in {"GET", "HEAD", "OTHER"} : ParsedRequest(m)
  PROVE  IInv'
<1>1. /\ pc \in {"process", "plugin", "static"}
      /\ pc' \in {"plugin", "static", "direct_header"}
      /\ UNCHANGED <<connections, conn, batch, ev, cur, chunk, kernelVars>>
  BY DEF BadRequest, StaticError, PluginReturns, PluginAnswers, PluginDeclines, ParsedRequest,
         BeginDirect
<1>2. method' \in {"none", "GET", "HEAD", "OTHER"} /\ promise' \in [Clients -> Nat]
  BY ServerAssumption DEF ServerAssumption, IInv, TypeOK, BadRequest, StaticError, PluginReturns,
         PluginAnswers, PluginDeclines, ParsedRequest, BeginDirect
<1>. QED  BY <1>1, <1>2, RequestStep

(* A write to a broken socket ends the process, and changes nothing else. *)
LEMMA SigPipeStep ==
  ASSUME IInv, SigPipe, UNCHANGED http1Vars
  PROVE  IInv'
<1> USE DEF IInv, SigPipe, kernelVars
<1>1. TypeOK'
  BY DEF TypeOK, Pcs
<1>2. DescriptorsAccounted'
  BY DescriptorsKept
<1>3. ConnInv' /\ QueueInv' /\ ThreadInv'
  BY DEF ConnInv, QueueInv, ThreadInv, RequestPcs, HandlerPcs, WritePcs
<1>. QED  BY <1>1, <1>2, <1>3

(* epoll_wait makes the batch from the ready list: each event names a live connection. *)
LEMMA EpollWaitStep ==
  ASSUME IInv, EpollWait, UNCHANGED http1Vars
  PROVE  IInv'
<1> USE DEF EpollWait
<1>1. UNCHANGED <<connections, conn, sock, fdtab, backlog, cur, ev>> /\ pc = "wait" /\ pc' = "next"
  OBVIOUS
<1>2. \A e \in batch' :
        \/ e = ListenEvent
        \/ /\ e.sock \in ready /\ e.sock \in Clients /\ Live(e.sock)
           /\ e = SocketEvent(e.sock)
  BY DEF Pending, SocketEvent, IInv, TypeOK, QueueInv
<1>3. \A c \in Clients : Live(c) => /\ SocketEvent(c) \in EventType
                                    /\ SocketEvent(c).mask \subseteq sock[c].interest \cup {"HUP"}
                                    /\ SocketEvent(c).fd = conn[c].fd
  <2> SUFFICES ASSUME NEW c \in Clients, Live(c)
               PROVE  /\ Mask(sock[c]) \subseteq {"IN", "OUT", "HUP"}
                      /\ Mask(sock[c]) \subseteq sock[c].interest \cup {"HUP"}
                      /\ conn[c].fd \in Fds
    BY DEF SocketEvent, EventType
  <2>. QED  BY DEF Mask, Poll, IInv, DescriptorsAccounted
<1>4. ListenEvent \in EventType /\ ListenEvent.fd = ListenFd
  BY DEF ListenEvent, EventType, ListenFd
<1>5. TypeOK'
  BY <1>2, <1>3, <1>4 DEF IInv, TypeOK, Pcs
<1>6. DescriptorsAccounted' /\ ConnInv'
  BY DescriptorsKept DEF IInv, ConnInv, RequestPcs
<1>7. QueueInv'
  <2>1. \A e \in batch' : e.fd # ListenFd =>
          /\ e.sock \in Clients /\ e.sock # cur
          /\ Live(e.sock) /\ conn[e.sock].fd = e.fd /\ e = SocketEvent(e.sock)
          /\ e.mask \subseteq sock[e.sock].interest \cup {"HUP"}
    BY <1>2, <1>3, <1>4, KernelAssumption DEF KernelAssumption, IInv, ThreadInv
  <2>2. \A e, f \in batch' : e.fd = f.fd => e = f
    <3>1. \A c \in Clients : Live(c) => conn[c].fd # ListenFd
      BY DEF IInv, DescriptorsAccounted, Fds, ListenFd
    <3>2. \A c, d \in Clients : Live(c) /\ Live(d) /\ conn[c].fd = conn[d].fd => c = d
      BY DEF IInv, DescriptorsAccounted
    <3>. QED  BY <1>2, <1>3, <1>4, <3>1, <3>2
  <2>. QED  BY <1>1, <2>1, <2>2 DEF IInv, QueueInv
<1>8. ThreadInv'
  BY DEF IInv, ThreadInv, RequestPcs, HandlerPcs
<1>. QED  BY <1>5, <1>6, <1>7, <1>8 DEF IInv

-----------------------------------------------------------------------------
(* Steps that change the connection being handled, and no other. *)

(* Where only the Connection and the socket of the served client change, and the
   descriptors stay accounted for, it is enough to look at that client. *)
LEMMA CurStep ==
  ASSUME IInv, pc \in HandlerPcs,
         UNCHANGED <<connections, backlog, batch, ev, cur>>, ready' \subseteq ready \cup {cur},
         \A f \in Fds : fdtab'[f].kind = fdtab[f].kind,
         \A d \in Clients : d # cur => conn'[d] = conn[d] /\ sock'[d] = sock[d],
         conn'[cur].fd = conn[cur].fd, conn'[cur].file_fd = conn[cur].file_fd,
         Live(cur)', ConnInv!(cur)'
  PROVE  DescriptorsAccounted' /\ ConnInv' /\ QueueInv'
<1>1. cur \in Clients /\ Live(cur)
  BY DEF IInv, ThreadInv
<1>2. DescriptorsAccounted'
  <2>1. \A c \in Clients : Live(c)' = Live(c) /\ conn'[c].fd = conn[c].fd
                           /\ conn'[c].file_fd = conn[c].file_fd
    BY <1>1
  <2>. QED  BY <2>1, DescriptorsKept DEF IInv
<1>3. ConnInv'
  <2> SUFFICES ASSUME NEW d \in Clients, d # cur PROVE ConnInv!(d)'
    BY DEF ConnInv
  <2>. QED  BY DEF IInv, ConnInv
<1>4. QueueInv'
  <2>1. \A c \in backlog : c \in Clients /\ conn[c].state = "NONE" /\ sock[c].peer # "new"
    BY DEF IInv, TypeOK, QueueInv
  <2>2. \A c \in backlog' : conn'[c].state = "NONE" /\ sock'[c].peer # "new"
    BY <2>1, <1>1 DEF LiveStates
  <2>3. \A c \in ready' : Live(c)'
    BY <1>1 DEF IInv, TypeOK, QueueInv
  <2>. QED  BY <2>2, <2>3 DEF IInv, QueueInv
<1>. QED  BY <1>2, <1>3, <1>4

(* The field types of the connection and the socket of a client. *)
LEMMA FieldTypes ==
  ASSUME TypeOK, NEW c \in Clients
  PROVE  /\ conn[c] \in ConnType /\ sock[c] \in SockType
         /\ conn[c].bytes_read \in Nat /\ conn[c].read_buffer_size \in Nat
         /\ conn[c].bytes_written \in Nat /\ conn[c].write_buffer_size \in Nat
         /\ conn[c].file_size \in Nat /\ conn[c].file_offset \in Nat
         /\ conn[c].fd \in Fds \cup {NoFd} /\ conn[c].file_fd \in Fds \cup {NoFd}
         /\ sock[c].rcv \in Nat /\ sock[c].unsent \in Nat /\ sock[c].snd \in 0..SndCap
<1>1. conn[c] \in ConnType /\ sock[c] \in SockType
  BY DEF TypeOK
<1>. QED  BY <1>1 DEF ConnType, SockType

(* A read of either loop keeps room for one more unit and the terminator. *)
LEMMA ReceiveStep ==
  ASSUME IInv, pc \in {"sniff", "read"}, Receive(cur),
         UNCHANGED <<backlog, ready, fdtab, disk, wire>>,
         UNCHANGED <<connections, pc, batch, ev, cur, method, chunk, promise>>
  PROVE  IInv'
<1> DEFINE n == Received(sock[cur], ReadRoom(cur))
           filled == conn[cur].bytes_read + n
           size == Grown(conn[cur].read_buffer_size, filled)
<1>1. cur \in Clients /\ Live(cur) /\ conn[cur].state = "READ_REQUEST" /\ pc \in HandlerPcs
  BY DEF IInv, ThreadInv, HandlerPcs, Pcs
<1>2. /\ conn[cur] \in ConnType /\ sock[cur] \in SockType
      /\ conn[cur].bytes_read \in Nat /\ conn[cur].read_buffer_size \in Nat
      /\ sock[cur].rcv \in Nat
  BY <1>1, FieldTypes DEF IInv
<1>3. n > 0 /\ n \in Nat /\ n <= sock[cur].rcv /\ n <= conn[cur].read_buffer_size - conn[cur].bytes_read - 1
  BY <1>2 DEF Receive, ReadEnds, Received, ReadRoom, Least
<1>4. filled \in Nat /\ size \in Nat /\ filled + 1 < size
  BY <1>2, <1>3 DEF Grown
<1>5. /\ conn' = [conn EXCEPT ![cur].bytes_read = filled, ![cur].read_buffer_size = size]
      /\ sock' = [sock EXCEPT ![cur].rcv = sock[cur].rcv - n]
  BY <1>1 DEF Receive, IInv, TypeOK
<1> HIDE DEF n, filled, size
<1>a. /\ conn'[cur] = [conn[cur] EXCEPT !.bytes_read = filled, !.read_buffer_size = size]
      /\ sock'[cur] = [sock[cur] EXCEPT !.rcv = sock[cur].rcv - n]
      /\ \A d \in Clients : d # cur => conn'[d] = conn[d] /\ sock'[d] = sock[d]
  BY <1>1, <1>5 DEF IInv, TypeOK
<1>b. sock[cur].rcv - n \in Nat
  BY <1>2, <1>3
<1>6. /\ conn'[cur] \in ConnType /\ sock'[cur] \in SockType
      /\ conn'[cur].bytes_read = filled /\ conn'[cur].read_buffer_size = size
      /\ sock'[cur].snd = sock[cur].snd /\ sock'[cur].interest = sock[cur].interest
      /\ sock'[cur].peer = sock[cur].peer /\ conn'[cur].bytes_written = conn[cur].bytes_written
      /\ conn'[cur].state = conn[cur].state /\ conn'[cur].fd = conn[cur].fd
      /\ conn'[cur].file_fd = conn[cur].file_fd
  <2>1. sock'[cur] \in SockType /\ sock'[cur].snd = sock[cur].snd
        /\ sock'[cur].interest = sock[cur].interest /\ sock'[cur].peer = sock[cur].peer
    BY <1>2, <1>a, <1>b DEF SockType
  <2>2. /\ conn'[cur] \in ConnType
        /\ conn'[cur].bytes_read = filled /\ conn'[cur].read_buffer_size = size
        /\ conn'[cur].bytes_written = conn[cur].bytes_written
        /\ conn'[cur].state = conn[cur].state /\ conn'[cur].fd = conn[cur].fd
        /\ conn'[cur].file_fd = conn[cur].file_fd
    BY <1>2, <1>4, <1>a DEF ConnType
  <2>. QED  BY <2>1, <2>2
<1>7. TypeOK'
  BY <1>1, <1>5, <1>6 DEF IInv, TypeOK
<1>8. ConnInv!(cur)'
  BY <1>1, <1>4, <1>6 DEF IInv, ConnInv
<1>9. ThreadInv'
  BY <1>1, <1>6 DEF IInv, ThreadInv, RequestPcs, HandlerPcs
<1>. QED  BY <1>1, <1>6, <1>7, <1>8, <1>9, <1>a, CurStep DEF IInv

(* EAGAIN in a read loop: the state of the connection may change, its buffer
   does not. *)
LEMMA ReadDoneStep ==
  ASSUME IInv, (SniffDone("HTTP1") /\ UNCHANGED http1Vars) \/ Http1ReadDone
  PROVE  IInv'
<1>1. cur \in Clients /\ Live(cur) /\ conn[cur].state = "READ_REQUEST" /\ pc \in HandlerPcs
      /\ ev.fd \in Fds /\ conn[cur].fd = ev.fd
  BY DEF IInv, ThreadInv, HandlerPcs, Pcs, SniffDone, Http1ReadDone
<1>2. /\ conn'[cur] \in ConnType
      /\ conn'[cur].bytes_read = conn[cur].bytes_read
      /\ conn'[cur].read_buffer_size = conn[cur].read_buffer_size
      /\ conn'[cur].fd = conn[cur].fd /\ conn'[cur].file_fd = conn[cur].file_fd
      /\ conn'[cur].bytes_written = conn[cur].bytes_written
      /\ conn' = [conn EXCEPT ![cur] = conn'[cur]]
      /\ \/ pc' \in {"after_read", "read"} /\ conn'[cur].state = "READ_REQUEST"
         \/ pc' = "process" /\ conn'[cur].state = "PROCESS"
  <2>1. \/ pc' = "after_read" /\ conn' = conn
        \/ pc' = "read" /\ conn' = [conn EXCEPT ![cur] = [conn[cur] EXCEPT !.protocol = "HTTP1"]]
        \/ pc' = "process" /\ conn' = [conn EXCEPT ![cur] = [conn[cur] EXCEPT !.state = "PROCESS"]]
    BY <1>1 DEF SniffDone, ReadHandler, Http1ReadDone, IInv, TypeOK
  <2>2. conn \in [Clients -> ConnType] /\ conn[cur] \in ConnType
    BY <1>1 DEF IInv, TypeOK
  <2>3. CASE pc' = "after_read" /\ conn' = conn
    BY <2>2, <2>3, <1>1
  <2>4. CASE pc' = "read" /\ conn' = [conn EXCEPT ![cur] = [conn[cur] EXCEPT !.protocol = "HTTP1"]]
    <3>1. conn'[cur] = [conn[cur] EXCEPT !.protocol = "HTTP1"]
      BY <2>2, <2>4, <1>1
    <3>. QED  BY <2>2, <2>4, <3>1, <1>1 DEF ConnType
  <2>5. CASE pc' = "process" /\ conn' = [conn EXCEPT ![cur] = [conn[cur] EXCEPT !.state = "PROCESS"]]
    <3>1. conn'[cur] = [conn[cur] EXCEPT !.state = "PROCESS"]
      BY <2>2, <2>5, <1>1
    <3>. QED  BY <2>2, <2>5, <3>1, <1>1 DEF ConnType, LiveStates
  <2>. QED  BY <2>1, <2>3, <2>4, <2>5
<1>3. UNCHANGED <<connections, batch, ev, cur, method, chunk, promise, sock, ready, fdtab,
                  backlog, disk, wire>>
  BY DEF SniffDone, Http1ReadDone, kernelVars
<1>4. TypeOK'
  BY <1>1, <1>2, <1>3 DEF IInv, TypeOK, Pcs
<1>5. ConnInv!(cur)'
  BY <1>1, <1>2, <1>3 DEF IInv, ConnInv, InterestOf, RequestPcs
<1>6. \A d \in Clients : d # cur => conn'[d] = conn[d] /\ sock'[d] = sock[d]
  BY <1>1, <1>2, <1>3 DEF IInv, TypeOK
<1>7. ThreadInv'
  <2>1. connections[ev.fd] = cur /\ sock[cur].snd = 0
    BY <1>1 DEF IInv, DescriptorsAccounted, ConnInv
  <2>. QED  BY <2>1, <1>1, <1>2, <1>3 DEF ThreadInv, RequestPcs, HandlerPcs, LiveStates
<1>8. Live(cur)'
  BY <1>2, <1>3 DEF LiveStates
<1>. QED  BY <1>1, <1>2, <1>3, <1>4, <1>5, <1>6, <1>7, <1>8, CurStep DEF IInv

(* A write puts units on the wire and fills the send buffer no further than it
   reaches. *)
LEMMA WireTyped ==
  ASSUME TypeOK, NEW c \in Clients, NEW from \in Nat, NEW n \in Nat,
         wire' = [wire EXCEPT ![c] = @ \o Units(from, n)]
  PROVE  wire' \in [Clients -> Seq(Nat)]
<1>1. Units(from, n) \in Seq(Nat)
  BY DEF Units
<1>. QED  BY <1>1 DEF TypeOK

(* The first write of send_response. *)
LEMMA DirectHeaderStep ==
  ASSUME IInv, DirectHeader
  PROVE  IInv'
<1>1. cur \in Clients /\ Live(cur) /\ conn[cur].state = "PROCESS" /\ pc \in HandlerPcs
      /\ sock[cur].snd = 0 /\ sock[cur] \in SockType
  BY FieldTypes DEF IInv, ThreadInv, HandlerPcs, Pcs, DirectHeader, RequestPcs
<1>2. /\ UNCHANGED <<connections, conn, batch, ev, cur, method, chunk, promise, ready, fdtab,
                     backlog, disk>>
      /\ pc' = "direct_body" /\ sock' = [sock EXCEPT ![cur].snd = @ + 1]
      /\ wire' = [wire EXCEPT ![cur] = @ \o Units(0, 1)]
  BY DEF DirectHeader, Put, Wrote, IInv, TypeOK
<1>3. sock'[cur] \in SockType /\ sock'[cur].interest = sock[cur].interest
      /\ sock'[cur].peer = sock[cur].peer
      /\ \A d \in Clients : d # cur => sock'[d] = sock[d]
  <2>1. sock'[cur] = [sock[cur] EXCEPT !.snd = 1] /\ \A d \in Clients : d # cur => sock'[d] = sock[d]
    BY <1>1, <1>2 DEF IInv, TypeOK
  <2>2. 1 \in 0..SndCap
    BY KernelAssumption DEF KernelAssumption
  <2>. QED  BY <2>1, <2>2, <1>1 DEF SockType
<1>4. wire' \in [Clients -> Seq(Nat)]
  <2>1. 0 \in Nat /\ 1 \in Nat
    OBVIOUS
  <2>. QED  BY <2>1, <1>1, <1>2, WireTyped DEF IInv
<1>5. TypeOK'
  BY <1>1, <1>2, <1>3, <1>4 DEF IInv, TypeOK, Pcs
<1>6. ConnInv!(cur)'
  BY <1>1, <1>2, <1>3 DEF IInv, ConnInv, RequestPcs
<1>7. ThreadInv'
  BY <1>1, <1>2 DEF IInv, ThreadInv, RequestPcs, HandlerPcs
<1>. QED  BY <1>1, <1>2, <1>3, <1>5, <1>6, <1>7, CurStep DEF IInv

-----------------------------------------------------------------------------
(* Steps that free the connection being handled. *)

(* A handler that only frees its connection. *)
LEMMA FreeingStep ==
  ASSUME IInv, cur \in Clients, Live(cur), conn[cur].fd = ev.fd, free_connection(cur),
         UNCHANGED <<backlog, batch, disk, method, promise>>,
         wire' \in [Clients -> Seq(Nat)], chunk' \in ChunkType,
         \/ pc' \in {"after_read", "after_write"} /\ UNCHANGED <<ev, cur>>
         \/ NextEvent
  PROVE  IInv'
<1>1. DescriptorsAccounted' /\ ConnInv' /\ QueueInv' /\ ThreadInv'
  BY FreeStep
<1>2. TypeOK'
  <2>1. /\ sock' \in [Clients -> SockType] /\ conn' \in [Clients -> ConnType]
        /\ fdtab' \in [Fds -> DescriptorType]
        /\ connections' \in [Fds -> Clients \cup {NoClient}] /\ ready' \subseteq Clients
    BY FreeConnection
  <2>2. pc' \in Pcs /\ ev' \in EventType /\ cur' \in Clients \cup {NoClient}
    BY ConstantTypes DEF NextEvent, Pcs, IInv, TypeOK
  <2>. QED  BY <2>1, <2>2 DEF IInv, TypeOK
<1>. QED  BY <1>1, <1>2 DEF IInv

(* End of the stream, or a read error, in either read loop. *)
LEMMA ReadEndStep ==
  ASSUME IInv, ReadEnd, UNCHANGED http1Vars
  PROVE  IInv'
<1>1. cur \in Clients /\ Live(cur) /\ conn[cur].fd = ev.fd
  BY DEF IInv, ThreadInv, HandlerPcs, Pcs, ReadEnd
<1>2. wire \in [Clients -> Seq(Nat)] /\ chunk \in ChunkType
  BY DEF IInv, TypeOK
<1>. QED  BY <1>1, <1>2, FreeingStep DEF ReadEnd

(* The file is sent, or shorter than announced. *)
LEMMA FileDoneStep ==
  ASSUME IInv, FileDone
  PROVE  IInv'
<1>1. cur \in Clients /\ Live(cur) /\ conn[cur].fd = ev.fd
  BY DEF IInv, ThreadInv, HandlerPcs, Pcs, FileDone
<1>2. wire \in [Clients -> Seq(Nat)] /\ chunk \in ChunkType
  BY DEF IInv, TypeOK
<1>. QED  BY <1>1, <1>2, FreeingStep DEF FileDone

(* A write error in the header loop or in the file loop. *)
LEMMA WriteErrorStep ==
  ASSUME IInv, WriteError
  PROVE  IInv'
<1>1. cur \in Clients /\ Live(cur) /\ conn[cur].fd = ev.fd
  BY DEF IInv, ThreadInv, HandlerPcs, Pcs, WriteError, WritePcs
<1>2. wire \in [Clients -> Seq(Nat)] /\ NoChunk \in ChunkType
  BY ConstantTypes DEF IInv, TypeOK
<1>. QED  BY <1>1, <1>2, FreeingStep DEF WriteError

(* The second write of send_response, and the connection freed after it. *)
LEMMA DirectBodyStep ==
  ASSUME IInv, DirectBody
  PROVE  IInv'
<1>1. cur \in Clients /\ Live(cur) /\ conn[cur].fd = ev.fd
  BY DEF IInv, ThreadInv, HandlerPcs, Pcs, DirectBody
<1>2. 1 \in Nat /\ Least(DirectLen - 1, Room(sock[cur])) \in Nat
  <2>1. sock[cur].snd \in 0..SndCap
    BY <1>1, FieldTypes DEF IInv
  <2>. QED  BY <2>1, KernelAssumption, ServerAssumption
            DEF KernelAssumption, ServerAssumption, Least, Room
<1>3. wire' \in [Clients -> Seq(Nat)] /\ chunk \in ChunkType
  BY <1>1, <1>2, WireTyped DEF DirectBody, IInv, TypeOK
<1>. QED  BY <1>1, <1>3, FreeingStep DEF DirectBody

(* Main after handle_write: a hang-up frees the connection that is still there. *)
LEMMA AfterWriteStep ==
  ASSUME IInv, AfterWrite, UNCHANGED http1Vars
  PROVE  IInv'
<1>1. cur \in Clients /\ ev.fd \in Fds /\ pc = "after_write"
  BY DEF IInv, ThreadInv, AfterWrite
<1>2. wire \in [Clients -> Seq(Nat)] /\ chunk \in ChunkType
  BY DEF IInv, TypeOK
<1>3. CASE "HUP" \in ev.mask /\ get_connection(ev.fd) = cur
  <2>1. Live(cur) /\ conn[cur].fd = ev.fd
    BY <1>1, <1>3, KernelAssumption DEF KernelAssumption, IInv, get_connection, DescriptorsAccounted
  <2>. QED  BY <1>1, <1>2, <1>3, <2>1, FreeingStep DEF AfterWrite
<1>4. CASE ~("HUP" \in ev.mask /\ get_connection(ev.fd) = cur)
  <2>1. /\ UNCHANGED <<connections, conn, fdtab, sock, ready, batch, method, chunk, promise,
                       backlog, disk, wire>>
        /\ NextEvent
    BY <1>4 DEF AfterWrite
  <2>2. TypeOK'
    BY <2>1, ConstantTypes DEF IInv, TypeOK, Pcs, NextEvent
  <2>3. ConnInv' /\ QueueInv' /\ ThreadInv'
    BY <1>1, <2>1, KernelAssumption
    DEF KernelAssumption, IInv, ConnInv, QueueInv, ThreadInv, NextEvent, RequestPcs, HandlerPcs
  <2>. QED  BY <2>1, <2>2, <2>3, DescriptorsKept DEF IInv
<1>. QED  BY <1>3, <1>4

-----------------------------------------------------------------------------
(* Writing a static response. *)

(* EAGAIN on the socket: only the mark that asks for a write edge is new. *)
LEMMA RefusedSock ==
  ASSUME TypeOK, cur \in Clients, sock' = [sock EXCEPT ![cur] = Refused(@)]
  PROVE  /\ sock' \in [Clients -> SockType]
         /\ sock'[cur].snd = sock[cur].snd /\ sock'[cur].interest = sock[cur].interest
         /\ sock'[cur].peer = sock[cur].peer
         /\ \A d \in Clients : d # cur => sock'[d] = sock[d]
<1>1. sock[cur] \in SockType /\ sock'[cur] = [sock[cur] EXCEPT !.flags = {"NOSPACE"}]
      /\ \A d \in Clients : d # cur => sock'[d] = sock[d]
  BY DEF TypeOK, Refused
<1>2. sock'[cur] \in SockType
  BY <1>1 DEF SockType
<1>3. sock'[cur].snd = sock[cur].snd /\ sock'[cur].interest = sock[cur].interest
      /\ sock'[cur].peer = sock[cur].peer
  BY <1>1 DEF SockType
<1>. QED  BY <1>1, <1>2, <1>3 DEF TypeOK

(* A write that fits: the send buffer fills, and stays within its size. *)
LEMMA WroteSock ==
  ASSUME TypeOK, cur \in Clients, NEW n \in Nat, n <= Room(sock[cur]),
         sock' = [sock EXCEPT ![cur] = Wrote(@, n)]
  PROVE  /\ sock' \in [Clients -> SockType] /\ sock'[cur].interest = sock[cur].interest
         /\ sock'[cur].peer = sock[cur].peer
         /\ \A d \in Clients : d # cur => sock'[d] = sock[d]
<1>1. sock[cur] \in SockType /\ sock[cur].snd \in 0..SndCap
      /\ sock'[cur] = [sock[cur] EXCEPT !.snd = sock[cur].snd + n]
      /\ \A d \in Clients : d # cur => sock'[d] = sock[d]
  BY FieldTypes DEF TypeOK, Wrote
<1>2. sock[cur].snd + n \in 0..SndCap
  BY <1>1, KernelAssumption DEF KernelAssumption, Room
<1>3. sock'[cur] \in SockType /\ sock'[cur].interest = sock[cur].interest
      /\ sock'[cur].peer = sock[cur].peer
  BY <1>1, <1>2 DEF SockType
<1>. QED  BY <1>1, <1>3 DEF TypeOK

(* EAGAIN in the header loop: the connection waits for the next edge. *)
LEMMA SendHeaderAgainStep ==
  ASSUME IInv, SendHeaderAgain
  PROVE  IInv'
<1>1. cur \in Clients /\ Live(cur) /\ conn[cur].state = "WRITE_RESPONSE" /\ pc \in HandlerPcs
      /\ ev.fd \in Fds /\ conn[cur].fd = ev.fd
  BY DEF IInv, ThreadInv, HandlerPcs, Pcs, SendHeaderAgain
<1>2. UNCHANGED <<connections, conn, batch, ev, cur, method, chunk, promise, ready, fdtab,
                  backlog, disk, wire>> /\ pc' = "after_write"
  BY DEF SendHeaderAgain
<1>3. /\ sock' \in [Clients -> SockType]
      /\ sock'[cur].snd = sock[cur].snd /\ sock'[cur].interest = sock[cur].interest
      /\ sock'[cur].peer = sock[cur].peer
      /\ \A d \in Clients : d # cur => sock'[d] = sock[d]
  BY <1>1, RefusedSock DEF IInv, SendHeaderAgain
<1>4. TypeOK'
  BY <1>2, <1>3 DEF IInv, TypeOK, Pcs
<1>5. ConnInv!(cur)'
  BY <1>1, <1>2, <1>3 DEF IInv, ConnInv, RequestPcs
<1>6. ThreadInv'
  BY <1>1, <1>2 DEF IInv, DescriptorsAccounted, ThreadInv, RequestPcs, HandlerPcs
<1>. QED  BY <1>1, <1>2, <1>3, <1>4, <1>5, <1>6, CurStep DEF IInv

(* A write of the header loop: more of it, or the file, or the end. *)
LEMMA SendHeaderStep ==
  ASSUME IInv, SendHeader
  PROVE  IInv'
<1> DEFINE left == conn[cur].write_buffer_size - conn[cur].bytes_written
           n == Least(left, Room(sock[cur]))
           all == conn[cur].bytes_written + n = conn[cur].write_buffer_size
<1>1. cur \in Clients /\ Live(cur) /\ conn[cur].state = "WRITE_RESPONSE" /\ pc \in HandlerPcs
      /\ pc = "send" /\ ev.fd \in Fds /\ conn[cur].fd = ev.fd
  BY DEF IInv, ThreadInv, HandlerPcs, Pcs, SendHeader
<1>2. /\ conn[cur] \in ConnType /\ conn[cur].bytes_written \in Nat
      /\ conn[cur].write_buffer_size \in Nat /\ sock[cur].snd \in 0..SndCap
      /\ conn[cur].bytes_written <= conn[cur].write_buffer_size
  BY <1>1, FieldTypes DEF IInv, ConnInv
<1>3. n \in Nat /\ n <= Room(sock[cur]) /\ conn[cur].bytes_written + n <= conn[cur].write_buffer_size
      /\ conn[cur].bytes_written + n \in Nat
  BY <1>2, KernelAssumption DEF KernelAssumption, Room, Least
<1>4. wire' \in [Clients -> Seq(Nat)]
  <2>1. wire' = [wire EXCEPT ![cur] = @ \o Units(conn[cur].bytes_written, n)]
    BY DEF SendHeader
  <2> HIDE DEF n
  <2>. QED  BY <2>1, <1>1, <1>2, <1>3, WireTyped DEF IInv
<1>5. CASE all /\ conn[cur].file_fd = NoFd
  <2>1. chunk \in ChunkType
    BY DEF IInv, TypeOK
  <2>. QED  BY <2>1, <1>1, <1>4, <1>5, FreeingStep DEF SendHeader
<1>6. CASE ~(all /\ conn[cur].file_fd = NoFd)
  <2> DEFINE written == IF all THEN 0 ELSE conn[cur].bytes_written + n
             state == IF all THEN "WRITE_FILE" ELSE "WRITE_RESPONSE"
  <2>1. /\ UNCHANGED <<connections, fdtab, ready, backlog, disk, batch, ev, cur, method, chunk, promise>>
        /\ sock' = [sock EXCEPT ![cur] = Wrote(@, n)]
        /\ conn' = [conn EXCEPT ![cur] = [conn[cur] EXCEPT !.bytes_written = written, !.state = state]]
        /\ pc' = IF all THEN "file_read" ELSE "send"
    BY <1>1, <1>2, <1>6 DEF SendHeader, IInv, TypeOK, ConnType
  <2>2. written \in Nat /\ written <= conn[cur].write_buffer_size /\ state \in {"WRITE_FILE", "WRITE_RESPONSE"}
        /\ (state = "WRITE_FILE" => conn[cur].file_fd # NoFd /\ all) /\ (all => state = "WRITE_FILE")
    BY <1>2, <1>3, <1>6
  <2>3. /\ sock' \in [Clients -> SockType] /\ sock'[cur].interest = sock[cur].interest
        /\ sock'[cur].peer = sock[cur].peer
        /\ \A d \in Clients : d # cur => sock'[d] = sock[d]
    BY <1>1, <1>3, <2>1, WroteSock DEF IInv
  <2> HIDE DEF left, n, all, written, state
  <2>4. /\ conn'[cur] = [conn[cur] EXCEPT !.bytes_written = written, !.state = state]
        /\ \A d \in Clients : d # cur => conn'[d] = conn[d]
    BY <1>1, <2>1 DEF IInv, TypeOK
  <2>5. /\ conn'[cur] \in ConnType /\ conn'[cur].bytes_written = written /\ conn'[cur].state = state
        /\ conn'[cur].fd = conn[cur].fd /\ conn'[cur].file_fd = conn[cur].file_fd
        /\ conn'[cur].write_buffer_size = conn[cur].write_buffer_size
    <3>1. state \in LiveStates \cup {"NONE", "FREED"}
      BY <2>2 DEF LiveStates
    <3>. QED  BY <1>2, <2>2, <2>4, <3>1 DEF ConnType
  <2>6. TypeOK'
    BY <1>4, <2>1, <2>3, <2>5 DEF IInv, TypeOK, Pcs
  <2>7. ConnInv!(cur)'
    BY <1>1, <2>1, <2>2, <2>3, <2>5 DEF IInv, ConnInv, InterestOf
  <2>8. ThreadInv'
    BY <1>1, <2>1, <2>2, <2>5 DEF IInv, ThreadInv, RequestPcs, HandlerPcs, Pcs, LiveStates
  <2>9. Live(cur)'
    BY <2>1, <2>2, <2>5 DEF LiveStates
  <2>. QED  BY <1>1, <2>1, <2>3, <2>4, <2>5, <2>6, <2>7, <2>8, <2>9, CurStep DEF IInv
<1>. QED  BY <1>5, <1>6

(* A chunk read from the file moves the position behind the descriptor only. *)
LEMMA FileReadStep ==
  ASSUME IInv, FileRead
  PROVE  IInv'
<1> DEFINE n == Least(Least(conn[cur].file_size - conn[cur].file_offset, ChunkLen),
                      disk - fdtab[conn[cur].file_fd].pos)
           f == conn[cur].file_fd
<1>1. cur \in Clients /\ Live(cur) /\ conn[cur].state = "WRITE_FILE" /\ pc \in HandlerPcs
      /\ ev.fd \in Fds /\ conn[cur].fd = ev.fd /\ f \in Fds
  BY FieldTypes DEF IInv, ThreadInv, ConnInv, HandlerPcs, Pcs, FileRead
<1>2. fdtab[f] \in DescriptorType /\ fdtab[f].pos \in Nat /\ disk \in Nat
  BY <1>1, KernelAssumption DEF KernelAssumption, IInv, TypeOK, DescriptorType
<1>3. n > 0 /\ n \in Nat
  <2>1. conn[cur].file_size \in Nat /\ conn[cur].file_offset \in Nat
    BY <1>1, FieldTypes DEF IInv
  <2>. QED  BY <2>1, <1>2, ServerAssumption DEF ServerAssumption, FileRead, Least
<1>4. /\ UNCHANGED <<connections, conn, batch, ev, cur, method, promise, sock, ready, backlog,
                     disk, wire>>
      /\ pc' = "file_write" /\ chunk' = [from |-> fdtab[f].pos, n |-> n, written |-> 0]
      /\ fdtab' = [fdtab EXCEPT ![f] = [fdtab[f] EXCEPT !.pos = fdtab[f].pos + n]]
  BY <1>1, <1>2 DEF FileRead, IInv, TypeOK, DescriptorType
<1> HIDE DEF n, f
<1>5. /\ fdtab' \in [Fds -> DescriptorType] /\ \A g \in Fds : fdtab'[g].kind = fdtab[g].kind
  <2>1. fdtab[f].pos + n \in Nat
    BY <1>2, <1>3
  <2>2. fdtab'[f] = [fdtab[f] EXCEPT !.pos = fdtab[f].pos + n]
        /\ \A g \in Fds : g # f => fdtab'[g] = fdtab[g]
    BY <1>1, <1>4 DEF IInv, TypeOK
  <2>3. fdtab'[f] \in DescriptorType /\ fdtab'[f].kind = fdtab[f].kind
    BY <1>2, <2>1, <2>2 DEF DescriptorType
  <2>. QED  BY <1>1, <1>4, <2>2, <2>3 DEF IInv, TypeOK
<1>6. chunk' \in ChunkType /\ chunk'.written < chunk'.n
  BY <1>2, <1>3, <1>4 DEF ChunkType
<1>7. TypeOK'
  BY <1>4, <1>5, <1>6 DEF IInv, TypeOK, Pcs
<1>8. ConnInv!(cur)'
  BY <1>1, <1>4 DEF IInv, ConnInv, RequestPcs
<1>9. ThreadInv'
  BY <1>1, <1>4, <1>6 DEF IInv, ThreadInv, RequestPcs, HandlerPcs, Pcs
<1>. QED  BY <1>1, <1>4, <1>5, <1>7, <1>8, <1>9, CurStep DEF IInv

(* The send buffer takes part of the chunk; with the last of it the offset
   moves. *)
LEMMA FileWriteStep ==
  ASSUME IInv, FileWrite
  PROVE  IInv'
<1> DEFINE w == Least(chunk.n - chunk.written, Room(sock[cur]))
           all == chunk.written + w = chunk.n
<1>1. cur \in Clients /\ Live(cur) /\ conn[cur].state = "WRITE_FILE" /\ pc \in HandlerPcs
      /\ ev.fd \in Fds /\ conn[cur].fd = ev.fd /\ chunk.written < chunk.n
      /\ chunk.written \in Nat /\ chunk.n \in Nat /\ chunk.from \in Nat /\ pc = "file_write"
  BY DEF IInv, TypeOK, ChunkType, ThreadInv, HandlerPcs, Pcs, FileWrite
<1>2. /\ conn[cur] \in ConnType /\ conn[cur].file_offset \in Nat /\ sock[cur].snd \in 0..SndCap
  BY <1>1, FieldTypes DEF IInv
<1>3. w \in Nat /\ w <= Room(sock[cur]) /\ chunk.written + w <= chunk.n
  BY <1>1, <1>2, KernelAssumption DEF KernelAssumption, Room, Least
<1>4. /\ UNCHANGED <<connections, batch, ev, cur, method, promise, ready, fdtab, backlog, disk>>
      /\ sock' = [sock EXCEPT ![cur] = Wrote(@, w)]
      /\ wire' = [wire EXCEPT ![cur] = @ \o Units(HdrLen + chunk.from + chunk.written, w)]
      /\ pc' = (IF all THEN "file_read" ELSE "file_write")
      /\ chunk' = (IF all THEN NoChunk ELSE [chunk EXCEPT !.written = @ + w])
      /\ conn' = IF all THEN [conn EXCEPT ![cur] = [conn[cur] EXCEPT !.file_offset = conn[cur].file_offset + chunk.n]]
                        ELSE conn
  BY <1>1, <1>2 DEF FileWrite, Put, IInv, TypeOK, ConnType
<1> HIDE DEF w
<1>5. /\ sock' \in [Clients -> SockType] /\ sock'[cur].interest = sock[cur].interest
      /\ sock'[cur].peer = sock[cur].peer
      /\ \A d \in Clients : d # cur => sock'[d] = sock[d]
  BY <1>1, <1>3, <1>4, WroteSock DEF IInv
<1>6. wire' \in [Clients -> Seq(Nat)]
  <2>1. HdrLen + chunk.from + chunk.written \in Nat
    BY <1>1, ServerAssumption DEF ServerAssumption
  <2>. QED  BY <2>1, <1>1, <1>3, <1>4, WireTyped DEF IInv
<1>7. chunk' \in ChunkType /\ (pc' = "file_write" => chunk'.written < chunk'.n)
  <2>1. CASE all
    BY <2>1, <1>4, ConstantTypes
  <2>2. CASE ~all
    <3>1. chunk.written + w \in Nat /\ chunk.written + w < chunk.n
      BY <2>2, <1>1, <1>3
    <3>2. chunk \in ChunkType /\ chunk' = [chunk EXCEPT !.written = chunk.written + w]
      BY <2>2, <1>4 DEF IInv, TypeOK
    <3>. QED  BY <3>1, <3>2 DEF ChunkType
  <2>. QED  BY <2>1, <2>2
<1>8. /\ conn'[cur] \in ConnType
      /\ conn'[cur].state = conn[cur].state /\ conn'[cur].fd = conn[cur].fd
      /\ conn'[cur].file_fd = conn[cur].file_fd
      /\ conn' = [conn EXCEPT ![cur] = conn'[cur]]
      /\ \A d \in Clients : d # cur => conn'[d] = conn[d]
  <2>1. CASE all
    <3>1. conn[cur].file_offset + chunk.n \in Nat
      BY <1>1, <1>2
    <3>2. conn'[cur] = [conn[cur] EXCEPT !.file_offset = conn[cur].file_offset + chunk.n]
          /\ conn' = [conn EXCEPT ![cur] = conn'[cur]]
          /\ \A d \in Clients : d # cur => conn'[d] = conn[d]
      BY <2>1, <1>1, <1>4 DEF IInv, TypeOK
    <3>. QED  BY <1>2, <3>1, <3>2 DEF ConnType
  <2>2. CASE ~all
    BY <2>2, <1>1, <1>2, <1>4 DEF IInv, TypeOK
  <2>. QED  BY <2>1, <2>2
<1> HIDE DEF all
<1>9. TypeOK'
  BY <1>1, <1>4, <1>5, <1>6, <1>7, <1>8 DEF IInv, TypeOK, Pcs
<1>10. ConnInv!(cur)'
  BY <1>1, <1>4, <1>5, <1>8 DEF IInv, ConnInv
<1>11. ThreadInv'
  BY <1>1, <1>4, <1>7, <1>8 DEF IInv, ThreadInv, RequestPcs, HandlerPcs, Pcs
<1>12. Live(cur)'
  BY <1>1, <1>4, <1>8
<1>. QED  BY <1>1, <1>4, <1>5, <1>8, <1>9, <1>10, <1>11, <1>12, CurStep DEF IInv

(* EAGAIN in the file loop: the offset moves and the file position follows. *)
LEMMA FileWriteAgainStep ==
  ASSUME IInv, FileWriteAgain
  PROVE  IInv'
<1> DEFINE o == conn[cur].file_offset + chunk.written
           f == conn[cur].file_fd
<1>1. cur \in Clients /\ Live(cur) /\ conn[cur].state = "WRITE_FILE" /\ pc \in HandlerPcs
      /\ ev.fd \in Fds /\ conn[cur].fd = ev.fd /\ f \in Fds
  BY FieldTypes DEF IInv, ThreadInv, ConnInv, HandlerPcs, Pcs, FileWriteAgain
<1>2. o \in Nat /\ conn[cur] \in ConnType /\ fdtab[f] \in DescriptorType
  BY <1>1, FieldTypes DEF IInv, TypeOK, ChunkType
<1>3. /\ UNCHANGED <<connections, batch, ev, cur, method, promise, ready, backlog, disk, wire>>
      /\ sock' = [sock EXCEPT ![cur] = Refused(@)] /\ chunk' = NoChunk /\ pc' = "after_write"
      /\ conn' = [conn EXCEPT ![cur] = [conn[cur] EXCEPT !.file_offset = o]]
      /\ fdtab' = [fdtab EXCEPT ![f] = [fdtab[f] EXCEPT !.pos = o]]
  BY <1>1 DEF FileWriteAgain, IInv, TypeOK
<1> HIDE DEF o, f
<1>4. /\ sock' \in [Clients -> SockType]
      /\ sock'[cur].snd = sock[cur].snd /\ sock'[cur].interest = sock[cur].interest
      /\ sock'[cur].peer = sock[cur].peer
      /\ \A d \in Clients : d # cur => sock'[d] = sock[d]
  BY <1>1, <1>3, RefusedSock DEF IInv
<1>5. /\ fdtab' \in [Fds -> DescriptorType] /\ \A g \in Fds : fdtab'[g].kind = fdtab[g].kind
  <2>1. fdtab'[f] = [fdtab[f] EXCEPT !.pos = o] /\ \A g \in Fds : g # f => fdtab'[g] = fdtab[g]
    BY <1>1, <1>3 DEF IInv, TypeOK
  <2>2. fdtab'[f] \in DescriptorType /\ fdtab'[f].kind = fdtab[f].kind
    BY <1>2, <2>1 DEF DescriptorType
  <2>. QED  BY <1>1, <1>3, <2>1, <2>2 DEF IInv, TypeOK
<1>6. /\ conn'[cur] \in ConnType
      /\ conn'[cur].state = conn[cur].state /\ conn'[cur].fd = conn[cur].fd
      /\ conn'[cur].file_fd = conn[cur].file_fd
      /\ \A d \in Clients : d # cur => conn'[d] = conn[d]
  <2>1. conn'[cur] = [conn[cur] EXCEPT !.file_offset = o]
        /\ \A d \in Clients : d # cur => conn'[d] = conn[d]
    BY <1>1, <1>3 DEF IInv, TypeOK
  <2>. QED  BY <1>2, <2>1 DEF ConnType
<1>7. TypeOK'
  BY <1>1, <1>3, <1>4, <1>5, <1>6, ConstantTypes DEF IInv, TypeOK, Pcs
<1>8. ConnInv!(cur)'
  BY <1>1, <1>3, <1>4, <1>6 DEF IInv, ConnInv
<1>9. ThreadInv'
  BY <1>1, <1>3, <1>6 DEF IInv, DescriptorsAccounted, ThreadInv, RequestPcs, HandlerPcs
<1>10. Live(cur)'
  BY <1>1, <1>3, <1>6
<1>. QED  BY <1>1, <1>3, <1>4, <1>5, <1>6, <1>7, <1>8, <1>9, <1>10, CurStep DEF IInv

(* A poll may note that the send buffer is full, and changes nothing else. *)
LEMMA InterestedSocket ==
  ASSUME NEW s \in SockType, NEW events \in SUBSET {"IN", "OUT"}
  PROVE  /\ Interested(s, events) \in SockType
         /\ Interested(s, events).interest = events
         /\ Interested(s, events).snd = s.snd /\ Interested(s, events).peer = s.peer
<1>1. PICK flags \in SUBSET {"NOSPACE"} :
        Interested(s, events) = [s EXCEPT !.interest = events, !.flags = flags]
  BY DEF SockType, Interested
<1>2. /\ Interested(s, events).interest = events
      /\ Interested(s, events).snd = s.snd /\ Interested(s, events).peer = s.peer
  BY <1>1 DEF SockType
<1>3. [s EXCEPT !.interest = events] \in SockType
  BY DEF SockType
<1>4. [[s EXCEPT !.interest = events] EXCEPT !.flags = flags] \in SockType
  BY <1>3 DEF SockType
<1>. QED  BY <1>1, <1>2, <1>4

(* epoll_ctl ADD or MOD: the interest of one socket is new. *)
LEMMA InterestSet ==
  ASSUME TypeOK, NEW c \in Clients, NEW events \in SUBSET {"IN", "OUT"},
         sock' = [sock EXCEPT ![c] = Interested(sock[c], events)]
  PROVE  /\ sock' \in [Clients -> SockType]
         /\ sock'[c].interest = events /\ sock'[c].snd = sock[c].snd /\ sock'[c].peer = sock[c].peer
         /\ \A d \in Clients : d # c => sock'[d] = sock[d]
<1>1. sock[c] \in SockType /\ sock'[c] = Interested(sock[c], events)
      /\ \A d \in Clients : d # c => sock'[d] = sock[d]
  BY DEF TypeOK
<1>. QED  BY <1>1, InterestedSocket DEF TypeOK

(* The file takes the lowest free descriptor, which nothing held. *)
LEMMA StaticFileStep ==
  ASSUME IInv, NEW f \in Fds, StaticFile(f)
  PROVE  IInv'
<1> DEFINE get == method = "GET"
           file_fd == IF get THEN f ELSE NoFd
           file_size == IF get THEN disk ELSE conn[cur].file_size
           promised == IF get THEN HdrLen + disk ELSE HdrLen
<1>1. cur \in Clients /\ Live(cur) /\ conn[cur].state = "PROCESS" /\ pc \in HandlerPcs
      /\ ev.fd \in Fds /\ conn[cur].fd = ev.fd /\ sock[cur].snd = 0
      /\ conn[cur].bytes_written = 0 /\ conn[cur].file_fd = NoFd /\ sock[cur].peer # "new"
  BY DEF IInv, ThreadInv, ConnInv, HandlerPcs, Pcs, RequestPcs, StaticFile
<1>2. conn[cur] \in ConnType /\ conn[cur].file_size \in Nat /\ disk \in Nat /\ HdrLen \in Nat
  BY <1>1, FieldTypes, KernelAssumption, ServerAssumption
  DEF KernelAssumption, ServerAssumption, IInv, TypeOK
<1>3. file_fd \in Fds \cup {NoFd} /\ file_size \in Nat /\ promised \in Nat
  BY <1>2
<1>4. /\ UNCHANGED <<connections, batch, ev, cur, chunk, backlog, disk, wire>>
      /\ pc' = "after_read" /\ method' = "none"
      /\ promise' = [promise EXCEPT ![cur] = promised]
      /\ fdtab' = (IF get THEN [fdtab EXCEPT ![f] = AFile] ELSE fdtab)
      /\ sock' = [sock EXCEPT ![cur] = Interested(sock[cur], {"OUT"})]
      /\ ready' \subseteq ready \cup {cur}
  BY <1>1 DEF StaticFile, mod_epoll, Armed, IInv, TypeOK
<1>5. conn' = [conn EXCEPT ![cur] = [conn[cur] EXCEPT
                 !.state = "WRITE_RESPONSE", !.write_buffer_size = HdrLen,
                 !.file_fd = file_fd, !.file_size = file_size]]
  BY <1>1, <1>2 DEF StaticFile, IInv, TypeOK, ConnType
<1>6. fdtab[f].kind = "free" /\ connections[f] = NoClient
      /\ \A c \in Clients : Live(c) => conn[c].fd # f /\ conn[c].file_fd # f
  BY KernelAssumption DEF KernelAssumption, StaticFile, Lowest, FreeFds, IInv, DescriptorsAccounted
<1> HIDE DEF file_fd, file_size, promised
<1>7. /\ sock' \in [Clients -> SockType]
      /\ sock'[cur].interest = {"OUT"} /\ sock'[cur].peer = sock[cur].peer
      /\ \A d \in Clients : d # cur => sock'[d] = sock[d]
  <2>1. {"OUT"} \in SUBSET {"IN", "OUT"}
    OBVIOUS
  <2>. QED  BY <2>1, <1>1, <1>4, InterestSet DEF IInv
<1>8. /\ conn'[cur] \in ConnType
      /\ conn'[cur].state = "WRITE_RESPONSE" /\ conn'[cur].fd = conn[cur].fd
      /\ conn'[cur].file_fd = file_fd /\ conn'[cur].write_buffer_size = HdrLen
      /\ conn'[cur].bytes_written = 0
      /\ \A d \in Clients : d # cur => conn'[d] = conn[d]
  <2>1. conn'[cur] = [conn[cur] EXCEPT
          !.state = "WRITE_RESPONSE", !.write_buffer_size = HdrLen,
          !.file_fd = file_fd, !.file_size = file_size]
        /\ \A d \in Clients : d # cur => conn'[d] = conn[d]
    BY <1>1, <1>5 DEF IInv, TypeOK
  <2>. QED  BY <1>1, <1>2, <1>3, <2>1 DEF ConnType, LiveStates
<1>9. \A g \in Fds : fdtab'[g].kind = IF get /\ g = f THEN "file" ELSE fdtab[g].kind
  BY <1>4 DEF IInv, TypeOK, AFile
<1>10. TypeOK'
  <2>1. fdtab' \in [Fds -> DescriptorType]
    BY <1>4, ConstantTypes DEF IInv, TypeOK
  <2>2. conn' \in [Clients -> ConnType] /\ promise' \in [Clients -> Nat]
    BY <1>1, <1>3, <1>4, <1>5, <1>8 DEF IInv, TypeOK
  <2>. QED  BY <1>1, <1>4, <1>7, <2>1, <2>2 DEF IInv, TypeOK, Pcs
<1>11. \A d \in Clients : Live(d)' = Live(d) /\ conn'[d].fd = conn[d].fd
  BY <1>1, <1>8 DEF LiveStates
<1>12. DescriptorsAccounted'
  <2>1. \A g \in Fds : (fdtab[g].kind = "socket" <=> connections[g] # NoClient)'
    BY <1>4, <1>6, <1>9 DEF IInv, DescriptorsAccounted
  <2>2. \A g \in Fds : (connections[g] # NoClient =>
                          Live(connections[g]) /\ conn[connections[g]].fd = g)'
    <3>1. \A g \in Fds : connections[g] \in Clients \cup {NoClient}
      BY DEF IInv, TypeOK
    <3>. QED  BY <3>1, <1>4, <1>11 DEF IInv, DescriptorsAccounted
  <2>3. \A g \in Fds : (fdtab[g].kind = "file" <=> \E d \in Clients : Live(d) /\ conn[d].file_fd = g)'
    <3> SUFFICES ASSUME NEW g \in Fds
                 PROVE  fdtab'[g].kind = "file" <=>
                          \E d \in Clients : conn'[d].state \in LiveStates /\ conn'[d].file_fd = g
      BY <1>4
    <3>0. NoFd \notin Fds
      BY DEF NoFd, Fds
    <3>1. CASE get /\ g = f
      <4>1. conn'[cur].state \in LiveStates /\ conn'[cur].file_fd = g
        BY <3>1, <1>8 DEF file_fd, LiveStates
      <4>. QED  BY <3>1, <4>1, <1>1, <1>9
    <3>2. CASE ~(get /\ g = f)
      <4>1. \A d \in Clients : Live(d) => (conn'[d].file_fd = g <=> conn[d].file_fd = g)
        BY <3>0, <3>2, <1>1, <1>8 DEF file_fd
      <4>. QED  BY <4>1, <3>2, <1>9, <1>11 DEF IInv, DescriptorsAccounted
    <3>. QED  BY <3>1, <3>2
  <2>4. \A d \in Clients : (Live(d) => conn[d].fd \in Fds /\ connections[conn[d].fd] = d)'
    BY <1>4, <1>11 DEF IInv, DescriptorsAccounted
  <2>5. \A d, e \in Clients : (Live(d) /\ Live(e) /\ conn[d].file_fd = conn[e].file_fd
                                  => d = e \/ conn[d].file_fd = NoFd)'
    BY <1>1, <1>6, <1>8, <1>11 DEF IInv, DescriptorsAccounted, file_fd
  <2>. QED  BY <2>1, <2>2, <2>3, <2>4, <2>5 DEF DescriptorsAccounted
<1>13. ConnInv'
  <2> SUFFICES ASSUME NEW d \in Clients PROVE ConnInv!(d)'
    BY DEF ConnInv
  <2>1. CASE d = cur
    BY <2>1, <1>1, <1>2, <1>7, <1>8 DEF InterestOf
  <2>2. CASE d # cur
    BY <2>2, <1>4, <1>7, <1>8 DEF IInv, ConnInv
  <2>. QED  BY <2>1, <2>2
<1>14. QueueInv'
  <2>1. \A c \in backlog' : conn'[c].state = "NONE" /\ sock'[c].peer # "new"
    <3>1. \A c \in backlog : c \in Clients /\ conn[c].state = "NONE" /\ sock[c].peer # "new"
      BY DEF IInv, TypeOK, QueueInv
    <3>. QED  BY <3>1, <1>1, <1>4, <1>7, <1>8
  <2>2. \A c \in ready' : Live(c)'
    BY <1>1, <1>4, <1>11 DEF IInv, TypeOK, QueueInv
  <2>. QED  BY <2>1, <2>2, <1>4, <1>7, <1>8 DEF IInv, QueueInv
<1>15. ThreadInv'
  BY <1>1, <1>4, <1>8 DEF IInv, DescriptorsAccounted, ThreadInv, RequestPcs, HandlerPcs
<1>. QED  BY <1>10, <1>12, <1>13, <1>14, <1>15 DEF IInv

-----------------------------------------------------------------------------
(* Accepting. *)

(* handle_accept takes the lowest free descriptor for a client without a Connection. *)
LEMMA AcceptStep ==
  ASSUME IInv, NEW c \in Clients, NEW f \in Fds, Accept(c, f), UNCHANGED http1Vars
  PROVE  IInv'
<1> DEFINE fresh == [Blank EXCEPT !.state = "READ_REQUEST", !.fd = f, !.read_buffer_size = InitBuf]
<1>1. cur = NoClient /\ conn[c].state = "NONE" /\ sock[c].peer # "new" /\ sock[c].snd = 0
      /\ c \in backlog /\ pc = "accept" /\ NoClient \notin Clients
  BY KernelAssumption DEF KernelAssumption, Accept, IInv, QueueInv, ThreadInv, ConnInv
<1>2. /\ backlog' = backlog \ {c} /\ fdtab' = [fdtab EXCEPT ![f] = ASocket]
      /\ connections' = [connections EXCEPT ![f] = c] /\ conn' = [conn EXCEPT ![c] = fresh]
      /\ sock' = [sock EXCEPT ![c] = Interested(sock[c], {"IN"})]
      /\ ready' \subseteq ready \cup {c} /\ pc' = "next" /\ ev' = NoEvent /\ cur' = NoClient
      /\ UNCHANGED <<batch, method, chunk, promise, disk, wire>>
  BY DEF Accept, create_connection, Armed, NextEvent
<1>3. /\ fresh \in ConnType /\ fresh.state = "READ_REQUEST" /\ fresh.fd = f
      /\ fresh.read_buffer_size = InitBuf /\ fresh.bytes_read = 0 /\ fresh.bytes_written = 0
      /\ fresh.file_fd = NoFd /\ 1 < InitBuf
  <2>1. InitBuf \in Nat /\ 1 < InitBuf /\ "READ_REQUEST" \in LiveStates
    BY LoopAssumption DEF LoopAssumption, LiveStates
  <2>2. fresh \in ConnType
    BY <2>1, ConstantTypes DEF ConnType
  <2>3. /\ fresh.state = "READ_REQUEST" /\ fresh.fd = f /\ fresh.read_buffer_size = InitBuf
        /\ fresh.bytes_read = 0 /\ fresh.bytes_written = 0 /\ fresh.file_fd = NoFd
    BY DEF Blank
  <2>. QED  BY <2>1, <2>2, <2>3
<1> HIDE DEF fresh
<1>4. conn'[c] = fresh /\ Live(c)' /\ ~Live(c) /\ \A d \in Clients : d # c => conn'[d] = conn[d]
  BY <1>1, <1>2, <1>3 DEF IInv, TypeOK, LiveStates
<1>5. /\ sock' \in [Clients -> SockType]
      /\ sock'[c].interest = {"IN"} /\ sock'[c].snd = 0 /\ sock'[c].peer # "new"
      /\ \A d \in Clients : d # c => sock'[d] = sock[d]
  <2>1. {"IN"} \in SUBSET {"IN", "OUT"}
    OBVIOUS
  <2>2. /\ sock' \in [Clients -> SockType]
        /\ sock'[c].interest = {"IN"} /\ sock'[c].snd = sock[c].snd /\ sock'[c].peer = sock[c].peer
        /\ \A d \in Clients : d # c => sock'[d] = sock[d]
    BY <2>1, <1>2, InterestSet DEF IInv
  <2>. QED  BY <2>2, <1>1
<1>6. fdtab[f].kind = "free" /\ connections[f] = NoClient
      /\ \A d \in Clients : Live(d) => conn[d].fd # f /\ conn[d].file_fd # f
  BY KernelAssumption DEF KernelAssumption, Accept, Lowest, FreeFds, IInv, DescriptorsAccounted
<1>7. TypeOK'
  <2>1. fdtab' \in [Fds -> DescriptorType] /\ ev' \in EventType
    BY <1>2, ConstantTypes DEF IInv, TypeOK
  <2>. QED  BY <2>1, <1>2, <1>3, <1>5 DEF IInv, TypeOK, Pcs
<1>8. DescriptorsAccounted'
  <2>1. \A g \in Fds : connections'[g] = IF g = f THEN c ELSE connections[g]
    BY <1>2 DEF IInv, TypeOK
  <2>2. \A g \in Fds : fdtab'[g].kind = IF g = f THEN "socket" ELSE fdtab[g].kind
    BY <1>2 DEF IInv, TypeOK, ASocket
  <2>3. \A g \in Fds : (fdtab[g].kind = "socket" <=> connections[g] # NoClient)'
    BY <1>1, <2>1, <2>2 DEF IInv, DescriptorsAccounted
  <2>4. \A g \in Fds : (connections[g] # NoClient =>
                          Live(connections[g]) /\ conn[connections[g]].fd = g)'
    <3> SUFFICES ASSUME NEW g \in Fds, connections'[g] # NoClient
                 PROVE  conn'[connections'[g]].state \in LiveStates /\ conn'[connections'[g]].fd = g
      OBVIOUS
    <3>1. CASE g = f
      BY <3>1, <2>1, <1>3, <1>4
    <3>2. CASE g # f
      <4>1. connections'[g] = connections[g] /\ connections[g] \in Clients /\ Live(connections[g])
            /\ conn[connections[g]].fd = g
        BY <3>2, <2>1 DEF IInv, DescriptorsAccounted, TypeOK
      <4>. QED  BY <4>1, <1>4
    <3>. QED  BY <3>1, <3>2
  <2>5. \A g \in Fds : (fdtab[g].kind = "file" <=> \E d \in Clients : Live(d) /\ conn[d].file_fd = g)'
    <3> SUFFICES ASSUME NEW g \in Fds
                 PROVE  fdtab'[g].kind = "file" <=> \E d \in Clients : Live(d)' /\ conn'[d].file_fd = g
      BY <1>2
    <3>1. conn'[c].file_fd # g
      BY <1>3, <1>4 DEF NoFd, Fds
    <3>2. (\E d \in Clients : Live(d)' /\ conn'[d].file_fd = g)
             <=> (\E d \in Clients : Live(d) /\ conn[d].file_fd = g)
      BY <3>1, <1>4
    <3>3. fdtab'[g].kind = "file" <=> fdtab[g].kind = "file"
      BY <2>2, <1>6
    <3>. QED  BY <3>2, <3>3 DEF IInv, DescriptorsAccounted
  <2>6. \A d \in Clients : (Live(d) => conn[d].fd \in Fds /\ connections[conn[d].fd] = d)'
    BY <2>1, <1>3, <1>4, <1>6 DEF IInv, DescriptorsAccounted
  <2>7. \A d, e \in Clients : (Live(d) /\ Live(e) /\ conn[d].file_fd = conn[e].file_fd
                                  => d = e \/ conn[d].file_fd = NoFd)'
    BY <1>3, <1>4 DEF IInv, DescriptorsAccounted
  <2>. QED  BY <2>3, <2>4, <2>5, <2>6, <2>7 DEF DescriptorsAccounted
<1>9. ConnInv'
  <2> SUFFICES ASSUME NEW d \in Clients PROVE ConnInv!(d)'
    BY DEF ConnInv
  <2>1. CASE d = c
    BY <2>1, <1>3, <1>4, <1>5, LoopAssumption DEF InterestOf, LoopAssumption
  <2>2. CASE d # c
    BY <2>2, <1>1, <1>2, <1>4, <1>5 DEF IInv, ConnInv, RequestPcs
  <2>. QED  BY <2>1, <2>2
<1>10. QueueInv'
  <2>1. \A d \in backlog' : conn'[d].state = "NONE" /\ sock'[d].peer # "new"
    <3>1. \A d \in backlog' : d \in Clients /\ d # c /\ conn[d].state = "NONE" /\ sock[d].peer # "new"
      BY <1>2 DEF IInv, TypeOK, QueueInv
    <3>. QED  BY <3>1, <1>4, <1>5
  <2>2. \A d \in ready' : Live(d)'
    BY <1>2, <1>4 DEF IInv, TypeOK, QueueInv
  <2>3. \A e \in batch' : e.fd # ListenFd =>
          /\ e.sock \in Clients /\ e.sock # cur'
          /\ Live(e.sock)' /\ conn'[e.sock].fd = e.fd
          /\ e.mask \subseteq sock'[e.sock].interest \cup {"HUP"}
    <3> SUFFICES ASSUME NEW e \in batch, e.fd # ListenFd
                 PROVE  /\ e.sock \in Clients /\ e.sock # NoClient
                        /\ conn'[e.sock].state \in LiveStates /\ conn'[e.sock].fd = e.fd
                        /\ e.mask \subseteq sock'[e.sock].interest \cup {"HUP"}
      BY <1>2
    <3>1. e.sock \in Clients /\ Live(e.sock) /\ conn[e.sock].fd = e.fd
          /\ e.mask \subseteq sock[e.sock].interest \cup {"HUP"}
      BY DEF IInv, QueueInv
    <3>2. e.sock # c
      BY <3>1, <1>4
    <3>. QED  BY <3>1, <3>2, <1>1, <1>4, <1>5
  <2>. QED  BY <2>1, <2>2, <2>3, <1>2 DEF IInv, QueueInv
<1>11. ThreadInv'
  BY <1>2 DEF ThreadInv, RequestPcs, HandlerPcs
<1>. QED  BY <1>7, <1>8, <1>9, <1>10, <1>11 DEF IInv

(* set_nonblocking or epoll_ctl fails: the accepted socket is closed again. *)
LEMMA AcceptRefusedStep ==
  ASSUME IInv, NEW c \in Clients, AcceptRefused(c), UNCHANGED http1Vars
  PROVE  IInv'
<1>1. cur = NoClient /\ conn[c].state = "NONE" /\ c \in backlog /\ pc = "accept"
      /\ NoClient \notin Clients
  BY KernelAssumption DEF KernelAssumption, AcceptRefused, IInv, QueueInv, ThreadInv
<1>2. /\ UNCHANGED <<connections, batch, method, chunk, promise, ready, fdtab, disk, wire>>
      /\ backlog' = backlog \ {c} /\ pc' = "next" /\ ev' = NoEvent /\ cur' = NoClient
  BY DEF AcceptRefused, NextEvent
<1>3. /\ conn'[c] = Freed /\ sock'[c] = ClosedSock /\ ~Live(c) /\ ~Live(c)'
      /\ \A d \in Clients : d # c => conn'[d] = conn[d] /\ sock'[d] = sock[d]
  BY <1>1, FreedFields DEF AcceptRefused, IInv, TypeOK, LiveStates
<1>4. TypeOK'
  BY <1>2, ConstantTypes DEF AcceptRefused, IInv, TypeOK, Pcs
<1>5. DescriptorsAccounted'
  <2>1. \A d \in Clients : Live(d)' = Live(d)
    BY <1>3
  <2>2. \A g \in Fds : connections[g] \in Clients \cup {NoClient}
    BY DEF IInv, TypeOK
  <2>. QED  BY <2>1, <2>2, <1>2, <1>3 DEF IInv, DescriptorsAccounted
<1>6. ConnInv'
  <2> SUFFICES ASSUME NEW d \in Clients PROVE ConnInv!(d)'
    BY DEF ConnInv
  <2>1. CASE d = c
    BY <2>1, <1>3, FreedFields DEF InterestOf
  <2>2. CASE d # c
    BY <2>2, <1>1, <1>2, <1>3 DEF IInv, ConnInv, RequestPcs
  <2>. QED  BY <2>1, <2>2
<1>7. QueueInv'
  <2>1. \A d \in backlog' : conn'[d].state = "NONE" /\ sock'[d].peer # "new"
    <3>1. \A d \in backlog' : d \in Clients /\ d # c /\ conn[d].state = "NONE" /\ sock[d].peer # "new"
      BY <1>2 DEF IInv, TypeOK, QueueInv
    <3>. QED  BY <3>1, <1>3
  <2>2. \A d \in ready' : Live(d)'
    BY <1>2, <1>3 DEF IInv, TypeOK, QueueInv
  <2>3. \A e \in batch' : e.fd # ListenFd =>
          /\ e.sock \in Clients /\ e.sock # cur'
          /\ Live(e.sock)' /\ conn'[e.sock].fd = e.fd
          /\ e.mask \subseteq sock'[e.sock].interest \cup {"HUP"}
    BY <1>1, <1>2, <1>3 DEF IInv, QueueInv
  <2>. QED  BY <2>1, <2>2, <2>3, <1>2 DEF IInv, QueueInv
<1>8. ThreadInv'
  BY <1>2 DEF ThreadInv, RequestPcs, HandlerPcs
<1>. QED  BY <1>4, <1>5, <1>6, <1>7, <1>8 DEF IInv

-----------------------------------------------------------------------------
(* Peers and the file, between any two steps of the thread. *)

(* What a peer does to its socket leaves the server's state alone. *)
LEMMA PeerMoves ==
  ASSUME IInv, NEW c \in Clients,
         sock' \in [Clients -> SockType], \A d \in Clients : d # c => sock'[d] = sock[d],
         sock'[c].interest = sock[c].interest, sock'[c].peer # "new",
         sock[c].snd = 0 => sock'[c].snd = 0,
         backlog' \in {backlog, backlog \cup {c}},
         backlog' = backlog \/ conn[c].state = "NONE",
         ready' \in {ready, ready \cup {c}},
         ready' = ready \/ sock[c].interest # {},
         UNCHANGED <<fdtab, disk, wire, serverVars>>
  PROVE  IInv'
<1>1. UNCHANGED <<fdtab, disk, wire, connections, conn, pc, batch, ev, cur, method, chunk, promise>>
  BY DEF serverVars
<1>2. TypeOK'
  <2>1. backlog' \subseteq Clients /\ ready' \subseteq Clients
    BY DEF IInv, TypeOK
  <2>. QED  BY <2>1, <1>1 DEF IInv, TypeOK
<1>3. DescriptorsAccounted'
  BY <1>1, DescriptorsKept DEF IInv
<1>4. ConnInv'
  <2> SUFFICES ASSUME NEW d \in Clients PROVE ConnInv!(d)'
    BY DEF ConnInv
  <2>1. ConnInv!(d)
    BY DEF IInv, ConnInv
  <2>2. CASE d = c
    BY <2>1, <2>2, <1>1
  <2>3. CASE d # c
    BY <2>1, <2>3, <1>1
  <2>. QED  BY <2>2, <2>3
<1>5. QueueInv'
  <2>1. \A d \in backlog' : conn'[d].state = "NONE" /\ sock'[d].peer # "new"
    <3>1. \A d \in backlog : d \in Clients /\ conn[d].state = "NONE" /\ sock[d].peer # "new"
      BY DEF IInv, TypeOK, QueueInv
    <3>. QED  BY <3>1, <1>1
  <2>2. \A d \in ready' : Live(d)'
    <3>1. sock[c].interest # {} => Live(c)
      BY DEF IInv, ConnInv, InterestOf, LiveStates
    <3>2. \A d \in ready : Live(d)
      BY DEF IInv, QueueInv
    <3>. QED  BY <3>1, <3>2, <1>1
  <2>3. \A e \in batch' : e.fd # ListenFd =>
          /\ e.sock \in Clients /\ e.sock # cur'
          /\ Live(e.sock)' /\ conn'[e.sock].fd = e.fd
          /\ e.mask \subseteq sock'[e.sock].interest \cup {"HUP"}
    <3> SUFFICES ASSUME NEW e \in batch, e.fd # ListenFd
                 PROVE  /\ e.sock \in Clients /\ e.sock # cur
                        /\ Live(e.sock) /\ conn[e.sock].fd = e.fd
                        /\ e.mask \subseteq sock'[e.sock].interest \cup {"HUP"}
      BY <1>1
    <3>1. /\ e.sock \in Clients /\ e.sock # cur /\ Live(e.sock) /\ conn[e.sock].fd = e.fd
          /\ e.mask \subseteq sock[e.sock].interest \cup {"HUP"}
      BY DEF IInv, QueueInv
    <3>2. sock'[e.sock].interest = sock[e.sock].interest
      BY <3>1
    <3>. QED  BY <3>1, <3>2
  <2>. QED  BY <2>1, <2>2, <2>3, <1>1 DEF IInv, QueueInv
<1>6. ThreadInv'
  <2>1. pc \in HandlerPcs => cur \in Clients
    BY DEF IInv, ThreadInv
  <2>2. cur \in Clients /\ sock[cur].snd = 0 => sock'[cur].snd = 0
    OBVIOUS
  <2>. QED  BY <2>1, <2>2, <1>1 DEF IInv, ThreadInv, RequestPcs, HandlerPcs, Pcs
<1>. QED  BY <1>2, <1>3, <1>4, <1>5, <1>6 DEF IInv

(* Every step of a peer keeps the invariant. *)
LEMMA PeerStepKeeps ==
  ASSUME IInv, NEW c \in Clients, PeerStep(c)
  PROVE  IInv'
<1>1. /\ sock[c] \in SockType /\ sock[c].rcv \in Nat /\ sock[c].unsent \in Nat
      /\ sock[c].snd \in 0..SndCap /\ SndCap \in Nat
  BY FieldTypes, KernelAssumption DEF KernelAssumption, IInv
<1>2. UNCHANGED <<fdtab, disk, wire, serverVars>>
  BY DEF PeerStep, Connect, SendUnit, Drain, Fin, Reset
<1>3. /\ backlog' \in {backlog, backlog \cup {c}}
      /\ backlog' = backlog \/ conn[c].state = "NONE"
      /\ ready' \in {ready, ready \cup {c}}
      /\ ready' = ready \/ sock[c].interest # {}
  BY DEF PeerStep, Connect, SendUnit, Drain, Fin, Reset, Edge, IInv, ConnInv
<1>4. \E s : /\ sock' = [sock EXCEPT ![c] = s]
             /\ s \in SockType /\ s.interest = sock[c].interest /\ s.peer # "new"
             /\ sock[c].snd = 0 => s.snd = 0
  <2>1. CASE Connect(c)
    <3> DEFINE s == [sock[c] EXCEPT !.peer = "up"]
    <3>1. sock' = [sock EXCEPT ![c] = s]
      BY <2>1 DEF Connect, IInv, TypeOK
    <3>2. s \in SockType /\ s.interest = sock[c].interest /\ s.peer = "up" /\ s.snd = sock[c].snd
      BY <1>1 DEF SockType
    <3>. QED  BY <3>1, <3>2
  <2>2. CASE SendUnit(c)
    <3> DEFINE s == [sock[c] EXCEPT !.unsent = sock[c].unsent - 1, !.rcv = sock[c].rcv + 1]
    <3>1. sock' = [sock EXCEPT ![c] = s] /\ sock[c].unsent > 0 /\ sock[c].peer = "up"
      BY <2>2 DEF SendUnit, IInv, TypeOK
    <3>2. sock[c].unsent - 1 \in Nat /\ sock[c].rcv + 1 \in Nat
      BY <1>1, <3>1
    <3>3. s \in SockType /\ s.interest = sock[c].interest /\ s.peer = "up" /\ s.snd = sock[c].snd
      BY <1>1, <3>1, <3>2 DEF SockType
    <3>. QED  BY <3>1, <3>3
  <2>3. CASE Drain(c)
    <3> DEFINE s == [sock[c] EXCEPT !.snd = sock[c].snd - 1, !.flags = {}]
    <3>1. sock' = [sock EXCEPT ![c] = s] /\ sock[c].snd > 0 /\ sock[c].peer \in {"up", "fin"}
      BY <2>3 DEF Drain, IInv, TypeOK
    <3>2. sock[c].snd - 1 \in 0..SndCap
      BY <1>1, <3>1
    <3>3. s \in SockType /\ s.interest = sock[c].interest /\ s.peer = sock[c].peer
      BY <1>1, <3>2 DEF SockType
    <3>4. s.peer # "new" /\ (sock[c].snd = 0 => s.snd = 0)
      BY <1>1, <3>1, <3>3
    <3> HIDE DEF s
    <3>. QED  BY <3>1, <3>3, <3>4
  <2>4. CASE Fin(c)
    <3> DEFINE s == [sock[c] EXCEPT !.peer = "fin"]
    <3>1. sock' = [sock EXCEPT ![c] = s]
      BY <2>4 DEF Fin, IInv, TypeOK
    <3>2. s \in SockType /\ s.interest = sock[c].interest /\ s.peer = "fin" /\ s.snd = sock[c].snd
      BY <1>1 DEF SockType
    <3>. QED  BY <3>1, <3>2
  <2>5. CASE Reset(c)
    <3> DEFINE p == IF sock[c].peer = "fin" THEN "broken" ELSE "reset"
               s == [sock[c] EXCEPT !.peer = p, !.snd = 0]
    <3>1. sock' = [sock EXCEPT ![c] = s]
      BY <2>5 DEF Reset, IInv, TypeOK
    <3>2. p \in {"reset", "broken"} /\ 0 \in 0..SndCap
      BY <1>1
    <3> HIDE DEF p
    <3>3. s \in SockType /\ s.interest = sock[c].interest /\ s.peer = p /\ s.snd = 0
      BY <1>1, <3>2 DEF SockType
    <3>. QED  BY <3>1, <3>2, <3>3
  <2>. QED  BY <2>1, <2>2, <2>3, <2>4, <2>5 DEF PeerStep
<1>5. /\ sock' \in [Clients -> SockType] /\ \A d \in Clients : d # c => sock'[d] = sock[d]
      /\ sock'[c].interest = sock[c].interest /\ sock'[c].peer # "new"
      /\ sock[c].snd = 0 => sock'[c].snd = 0
  BY <1>4 DEF IInv, TypeOK
<1>. QED  BY <1>2, <1>3, <1>5, PeerMoves

(* The file may become shorter at any time. *)
LEMMA DiskStepKeeps ==
  ASSUME IInv, DiskStep
  PROVE  IInv'
<1> USE DEF IInv, DiskStep, TruncateFile, serverVars
<1>1. TypeOK'
  BY KernelAssumption DEF KernelAssumption, TypeOK
<1>2. DescriptorsAccounted'
  BY DescriptorsKept
<1>3. ConnInv' /\ QueueInv' /\ ThreadInv'
  BY DEF ConnInv, QueueInv, ThreadInv, RequestPcs, HandlerPcs
<1>. QED  BY <1>1, <1>2, <1>3

-----------------------------------------------------------------------------
(* IInv is an inductive invariant of the server. *)

(* The invariant holds when the loop starts. *)
LEMMA InitHolds == Init => IInv
<1> SUFFICES ASSUME Init PROVE IInv
  OBVIOUS
<1> USE KernelAssumption DEF KernelAssumption, Init, LoopInit, KernelInit
<1>1. TypeOK
  BY ConstantTypes DEF TypeOK, Pcs
<1>2. \A c \in Clients : /\ conn[c].state = "NONE" /\ ~Live(c) /\ conn[c].file_fd = NoFd
                         /\ sock[c].interest = {} /\ sock[c].snd = 0
  BY DEF Blank, NewSock, LiveStates
<1>3. DescriptorsAccounted
  BY <1>2 DEF DescriptorsAccounted, Unused
<1>4. ConnInv
  BY <1>2 DEF ConnInv, InterestOf
<1>5. QueueInv /\ ThreadInv
  BY DEF QueueInv, ThreadInv, HandlerPcs, RequestPcs
<1>. QED  BY <1>1, <1>3, <1>4, <1>5 DEF IInv

(* Every step keeps the invariant: one case per action. *)
LEMMA NextKeeps == IInv /\ [Next]_vars => IInv'
<1> SUFFICES ASSUME IInv, [Next]_vars PROVE IInv'
  OBVIOUS
<1>1. CASE ServerStep
  <2>1. CASE LoopStep /\ UNCHANGED http1Vars
    <3>1. CASE EpollWait \/ BatchDone \/ \E e \in batch : TakeEvent(e)
      BY <2>1, <3>1, EpollWaitStep, BatchDoneStep, TakeEventStep
    <3>2. CASE AfterRead \/ AfterWrite
      BY <2>1, <3>2, AfterReadStep, AfterWriteStep
    <3>3. CASE AcceptFails \/ (\E c \in Clients, f \in Fds : Accept(c, f))
               \/ \E c \in Clients : AcceptRefused(c)
      BY <2>1, <3>3, AcceptFailsStep, AcceptStep, AcceptRefusedStep
    <3>4. CASE SniffRead \/ Http1Read
      <4>1. /\ pc \in {"sniff", "read"} /\ Receive(cur)
            /\ UNCHANGED <<backlog, ready, fdtab, disk, wire>>
            /\ UNCHANGED <<connections, pc, batch, ev, cur, method, chunk, promise>>
        BY <2>1, <3>4 DEF SniffRead, Http1Read
      <4>. QED  BY <4>1, ReceiveStep
    <3>5. CASE ReadEnd \/ SigPipe
      BY <2>1, <3>5, ReadEndStep, SigPipeStep
    <3>. QED  BY <2>1, <3>1, <3>2, <3>3, <3>4, <3>5 DEF LoopStep
  <2>2. CASE SniffDone("HTTP1") /\ UNCHANGED http1Vars
    BY <2>2, ReadDoneStep
  <2>3. CASE Http1ReadDone
    BY <2>3, ReadDoneStep
  <2>4. CASE BadRequest \/ StaticError \/ \E m \in {"GET", "HEAD", "OTHER"} : ParsedRequest(m)
    BY <2>4, RequestSteps
  <2>5. CASE \E f \in Fds : StaticFile(f)
    BY <2>5, StaticFileStep
  <2>6. CASE DirectHeader \/ DirectBody \/ WriteError
    BY <2>6, DirectHeaderStep, DirectBodyStep, WriteErrorStep
  <2>7. CASE SendHeader \/ SendHeaderAgain
    BY <2>7, SendHeaderStep, SendHeaderAgainStep
  <2>8. CASE FileRead \/ FileDone \/ FileWrite \/ FileWriteAgain
    BY <2>8, FileReadStep, FileDoneStep, FileWriteStep, FileWriteAgainStep
  <2>. QED  BY <1>1, <2>1, <2>2, <2>3, <2>4, <2>5, <2>6, <2>7, <2>8 DEF ServerStep
<1>2. CASE PluginReturns
  BY <1>2, RequestSteps
<1>3. CASE \E c \in Clients : PeerStep(c)
  BY <1>3, PeerStepKeeps
<1>4. CASE DiskStep
  BY <1>4, DiskStepKeeps
<1>5. CASE UNCHANGED vars
  <2> USE <1>5 DEF vars, kernelVars, serverVars, IInv
  <2>1. TypeOK'
    BY DEF TypeOK
  <2>2. DescriptorsAccounted'
    BY DescriptorsKept
  <2>3. ConnInv' /\ QueueInv' /\ ThreadInv'
    BY DEF ConnInv, QueueInv, ThreadInv
  <2>. QED  BY <2>1, <2>2, <2>3
<1>. QED  BY <1>1, <1>2, <1>3, <1>4, <1>5 DEF Next

(* The invariant the theorems below follow from: it holds at first, and every
   step of the thread, of a peer or of the file keeps it. *)
THEOREM Invariance == Spec => []IInv
BY InitHolds, NextKeeps, PTL DEF Spec

(* Every variable keeps its type: no counter goes below zero, no send buffer
   beyond its size, whatever peers, file and kernel do. *)
THEOREM TypeCorrect == Spec => []TypeOK
<1>1. IInv => TypeOK
  BY DEF IInv
<1>. QED  BY Invariance, <1>1, PTL

(* No interleaving of accepts, handlers and departing clients leaks a
   descriptor, shares one between two connections, or leaves the table with a
   connection that does not hold the descriptor. *)
THEOREM DescriptorsCorrect == Spec => []DescriptorsAccounted
<1>1. IInv => DescriptorsAccounted
  BY DEF IInv
<1>. QED  BY Invariance, <1>1, PTL

(* Closing, reusing a descriptor and the events left of an earlier epoll_wait
   never bring a handler to a freed connection, nor to another one than the
   event was for. *)
THEOREM HandlersSafe == Spec => []HandlerOnLiveConnection
<1>1. IInv => HandlerOnLiveConnection
  <2> SUFFICES ASSUME IInv PROVE HandlerOnLiveConnection
    OBVIOUS
  <2> USE KernelAssumption DEF KernelAssumption, IInv
  <2>1. pc \in HandlerPcs => cur # NoClient /\ Live(cur) /\ connections[conn[cur].fd] = cur
    BY DEF ThreadInv, DescriptorsAccounted
  <2>2. pc \in {"after_read", "after_write"} =>
          cur # NoClient /\ (get_connection(ev.fd) = cur => Live(cur) /\ conn[cur].fd = ev.fd)
    BY DEF ThreadInv, DescriptorsAccounted, get_connection
  <2>3. \A e \in batch : e.fd # ListenFd => Live(e.sock) /\ connections[e.fd] = e.sock
    BY DEF QueueInv, DescriptorsAccounted
  <2>. QED  BY <2>1, <2>2, <2>3 DEF HandlerOnLiveConnection
<1>. QED  BY Invariance, <1>1, PTL

(* For every first buffer size and every way the units of a request arrive,
   the read loops keep room for another unit and for the terminator. *)
THEOREM BufferSafe == Spec => []BufferHasRoom
<1>1. IInv => BufferHasRoom
  <2> SUFFICES ASSUME IInv PROVE BufferHasRoom
    OBVIOUS
  <2>1. ASSUME pc \in {"sniff", "read", "h2_read", "process"}
        PROVE  /\ conn[cur].bytes_read + 1 < conn[cur].read_buffer_size
               /\ conn[cur].bytes_read \in Nat /\ conn[cur].read_buffer_size \in Nat
    <3>1. cur \in Clients /\ conn[cur].state \in {"READ_REQUEST", "PROCESS"}
      BY <2>1 DEF IInv, ThreadInv, HandlerPcs, Pcs, RequestPcs
    <3>. QED  BY <3>1, FieldTypes DEF IInv, ConnInv
  <2>. QED  BY <2>1 DEF BufferHasRoom, ReadRoom
<1>. QED  BY Invariance, <1>1, PTL

-----------------------------------------------------------------------------
(* What the clients are sent: the units of a response in order, the whole of it
   before the connection ends, and that Http1Server implements HttpExchange; and that
   the thread loses no event they are waiting for. *)

(* Where a connection is in its file: between events, and in a handler between two
   chunks, the offset and the position behind the descriptor agree with the wire;
   while a chunk is written the position is ahead by the whole of it. *)
FileProgress(c) ==
  IF c = cur /\ pc = "file_write"
    THEN /\ chunk.from = conn[c].file_offset
         /\ chunk.from + chunk.n <= conn[c].file_size
         /\ Len(wire[c]) = HdrLen + chunk.from + chunk.written
         /\ fdtab[conn[c].file_fd].pos = chunk.from + chunk.n
    ELSE /\ Len(wire[c]) = HdrLen + conn[c].file_offset
         /\ fdtab[conn[c].file_fd].pos = conn[c].file_offset

(* What the state of a connection says of the response promised and of the part of
   it that is on the wire. *)
Progress(c) ==
  /\ wire[c] = Units(0, Len(wire[c])) /\ Len(wire[c]) <= promise[c]
  /\ conn[c].state \in {"NONE", "READ_REQUEST"} => promise[c] = 0
  /\ conn[c].state \in {"NONE", "READ_REQUEST", "PROCESS"} =>
       conn[c].file_offset = 0 /\ conn[c].file_size = 0
  /\ conn[c].state = "PROCESS" =>
       /\ pc \in {"process", "plugin", "static"} => promise[c] = 0
       /\ pc = "direct_header" => promise[c] = DirectLen /\ Len(wire[c]) = 0
       /\ pc = "direct_body" => promise[c] = DirectLen /\ Len(wire[c]) = 1 /\ sock[c].snd <= 1
  /\ conn[c].state = "WRITE_RESPONSE" =>
       /\ conn[c].write_buffer_size = HdrLen /\ Len(wire[c]) = conn[c].bytes_written
       /\ promise[c] = HdrLen + (IF conn[c].file_fd = NoFd THEN 0 ELSE conn[c].file_size)
       /\ conn[c].file_offset = 0 /\ conn[c].file_size <= FileLen
       /\ conn[c].file_fd # NoFd => fdtab[conn[c].file_fd].pos = 0
  /\ conn[c].state = "WRITE_FILE" =>
       /\ promise[c] = HdrLen + conn[c].file_size /\ conn[c].file_size <= FileLen
       /\ conn[c].file_offset <= conn[c].file_size
       /\ pc # "killed" => FileProgress(c)

(* A hang-up in the batch, or being handled, is of a peer that is dead, and it is
   the freed connections whose sockets are closed. *)
HangUpInv ==
  /\ \A e \in batch : e.fd # ListenFd /\ "HUP" \in e.mask => sock[e.sock].peer \in Dead
  /\ pc \in HandlerPcs \cup {"after_read", "after_write"} /\ "HUP" \in ev.mask
       => sock[cur].peer \in Dead \cup {"closed"}
  /\ \A c \in Clients : conn[c].state = "FREED" <=> sock[c].peer = "closed"

USE DEF Live, http1Vars, loopVars

OrderInv == HangUpInv /\ \A c \in Clients : Progress(c)

(* A connection ends with the whole of its response, or, with no further unit, when its
   client has left or the file is shorter than announced. *)
Ends ==
  \A c \in Clients : Live(c) /\ ~Live(c)' =>
    \/ promise[c] > 0 /\ Len(wire'[c]) = promise[c]
    \/ wire'[c] = wire[c] /\ (sock[c].peer \in Gone \/ disk < conn[c].file_size)

(* How far a connection is, and whether its client has left. *)
SameStage(c) ==
  /\ conn'[c].state = "NONE" <=> conn[c].state = "NONE"
  /\ conn'[c].state \in LiveStates <=> Live(c)
SamePeer(c) == sock'[c].peer \in Gone <=> sock[c].peer \in Gone
SameReply(c) == wire'[c] = wire[c] /\ promise'[c] = promise[c]

ReplyLengths == {HdrLen, DirectLen} \cup {HdrLen + n : n \in 0..FileLen}

(* A response goes on, or is announced. *)
Grows(c) ==
  \/ promise'[c] = promise[c] /\ Len(wire[c]) <= Len(wire'[c])
  \/ promise[c] = 0 /\ promise'[c] \in ReplyLengths /\ wire'[c] = wire[c]

Ended(c) == conn'[c].state = "FREED" /\ sock'[c].peer = "closed"

(* What a step does to one client. *)
MovesClient(c) ==
  \/ Live(c) /\ SameStage(c) /\ SamePeer(c) /\ Grows(c)
  \/ Live(c) /\ Ended(c) /\ promise'[c] = promise[c]
  \/ conn[c].state = "NONE" /\ conn'[c].state \in LiveStates /\ SamePeer(c) /\ SameReply(c)
  \/ conn[c].state = "NONE" /\ Ended(c) /\ SameReply(c)
  \/ /\ conn[c].state # "FREED" /\ SameStage(c) /\ SameReply(c)
     /\ sock[c].peer \notin Gone /\ sock'[c].peer \in Gone

Rests(c) == SameStage(c) /\ SamePeer(c) /\ SameReply(c)

(* A step moves one client, or the file is shortened, or nothing of that changes. *)
Moves ==
  \/ /\ disk' = disk
     /\ \E c \in Clients : MovesClient(c) /\ \A d \in Clients : d # c => Rests(d)
  \/ /\ disk' = disk \/ (disk = FileLen /\ disk' < FileLen)
     /\ \A d \in Clients : Rests(d)

-----------------------------------------------------------------------------
(* Two runs of units of which the second begins where the first ends are one. *)
LEMMA UnitsJoin ==
  ASSUME NEW from \in Nat, NEW n \in Nat
  PROVE  /\ Units(0, from) \o Units(from, n) = Units(0, from + n)
         /\ Len(Units(0, from + n)) = from + n
<1>1. /\ Units(0, from) \in Seq(Nat) /\ Len(Units(0, from)) = from
      /\ Units(from, n) \in Seq(Nat) /\ Len(Units(from, n)) = n
      /\ Units(0, from + n) \in Seq(Nat) /\ Len(Units(0, from + n)) = from + n
  BY DEF Units
<1> DEFINE s == Units(0, from) \o Units(from, n)
           t == Units(0, from + n)
<1>2. /\ s \in Seq(Nat) /\ Len(s) = from + n
      /\ \A i \in 1..from + n :
           s[i] = IF i <= from THEN Units(0, from)[i] ELSE Units(from, n)[i - from]
  <2> DEFINE a == Units(0, from)
             b == Units(from, n)
  <2>1. a \in Seq(Nat) /\ b \in Seq(Nat) /\ Len(a) = from /\ Len(b) = n
    BY <1>1
  <2> HIDE DEF a, b
  <2>2. /\ a \o b \in Seq(Nat) /\ Len(a \o b) = from + n
        /\ \A i \in 1..from + n : (a \o b)[i] = IF i <= from THEN a[i] ELSE b[i - from]
    BY <2>1, ConcatProperties
  <2>. QED  BY <2>2 DEF a, b
<1>3. ASSUME NEW i \in 1..from + n PROVE s[i] = t[i]
  <2>1. i <= from => Units(0, from)[i] = i
    BY DEF Units
  <2>2. i > from => Units(from, n)[i - from] = i
    BY DEF Units
  <2>3. t[i] = i
    BY DEF Units
  <2>4. s[i] = IF i <= from THEN Units(0, from)[i] ELSE Units(from, n)[i - from]
    BY <1>2
  <2> HIDE DEF s, t
  <2>5. i <= from \/ i > from
    OBVIOUS
  <2>. QED  BY <2>1, <2>2, <2>3, <2>4, <2>5
<1>4. s = t
  <2> HIDE DEF s, t
  <2>1. t \in Seq(Nat) /\ Len(t) = from + n
    BY <1>1 DEF t
  <2>. QED  BY <2>1, <1>2, <1>3, SeqEqual
<1>. QED  BY <1>1, <1>4

OrderPcs == RequestPcs \cup {"file_write"}

(* A connection that the step does not touch. *)
LEMMA Unaffected ==
  ASSUME IInv', OrderInv, NEW d \in Clients,
         conn'[d] = conn[d], wire'[d] = wire[d], promise'[d] = promise[d],
         Live(d) /\ conn[d].file_fd # NoFd
           => fdtab'[conn[d].file_fd].pos = fdtab[conn[d].file_fd].pos,
         d # cur \/ pc \notin OrderPcs, d # cur' \/ pc' \notin OrderPcs,
         pc # "killed"
  PROVE  Progress(d)'
<1>1. conn[d].state = "PROCESS" => pc' = "killed"
  BY DEF IInv, ConnInv, OrderPcs
<1>2. conn[d].state = "WRITE_FILE" => Live(d) /\ conn[d].file_fd # NoFd
  BY DEF IInv, ConnInv, LiveStates
<1>3. conn[d].state = "WRITE_FILE" =>
        /\ Len(wire[d]) = HdrLen + conn[d].file_offset
        /\ fdtab'[conn[d].file_fd].pos = conn[d].file_offset
  BY <1>2 DEF OrderInv, Progress, FileProgress, OrderPcs
<1>4. conn[d].state = "WRITE_RESPONSE" => Live(d)
  BY DEF LiveStates
<1>5. ~(d = cur' /\ pc' = "file_write")
  BY DEF OrderPcs
<1>6. conn'[d].state = "WRITE_FILE" => FileProgress(d)'
  BY <1>3, <1>5 DEF FileProgress
<1>. QED  BY <1>1, <1>3, <1>4, <1>6 DEF OrderInv, Progress

(* A descriptor that is free, or the socket of a connection, or the file of another
   one, is not the file of this one. *)
LEMMA FilesApart ==
  ASSUME IInv, NEW d \in Clients, Live(d), conn[d].file_fd # NoFd
  PROVE  /\ conn[d].file_fd \in Fds
         /\ conn[d].file_fd \notin FreeFds
         /\ \A c \in Clients : Live(c) => conn[c].fd # conn[d].file_fd
         /\ \A c \in Clients : Live(c) /\ c # d => conn[c].file_fd # conn[d].file_fd
<1>1. conn[d].file_fd \in Fds
  BY FieldTypes DEF IInv
<1>2. fdtab[conn[d].file_fd].kind = "file"
  BY <1>1 DEF IInv, DescriptorsAccounted
<1>3. \A c \in Clients : Live(c) => conn[c].fd \in Fds /\ fdtab[conn[c].fd].kind = "socket"
  BY KernelAssumption DEF KernelAssumption, IInv, DescriptorsAccounted
<1>4. \A c \in Clients : Live(c) /\ c # d => conn[c].file_fd # conn[d].file_fd
  BY DEF IInv, DescriptorsAccounted
<1>. QED  BY <1>1, <1>2, <1>3, <1>4 DEF FreeFds

-----------------------------------------------------------------------------
(* The end of a connection: nothing of the others changes, and the hang-ups are still
   of peers that are dead. *)
LEMMA FreeKeeps ==
  ASSUME IInv, IInv', OrderInv, cur \in Clients, Live(cur), conn[cur].fd = ev.fd,
         free_connection(cur), pc \notin {"killed"},
         UNCHANGED <<batch, promise, disk>>,
         \A d \in Clients : d # cur => wire'[d] = wire[d],
         wire'[cur] = Units(0, Len(wire'[cur])), Len(wire'[cur]) <= promise[cur],
         \/ pc' \in {"after_read", "after_write"} /\ UNCHANGED <<ev, cur>>
         \/ NextEvent
  PROVE  /\ OrderInv'
         /\ \/ promise[cur] > 0 /\ Len(wire'[cur]) = promise[cur]
            \/ wire'[cur] = wire[cur] /\ (sock[cur].peer \in Gone \/ disk < conn[cur].file_size)
            => Ends
         /\ Moves
<1>1. /\ conn'[cur] = Freed /\ sock'[cur] = ClosedSock
      /\ \A d \in Clients : d # cur => conn'[d] = conn[d] /\ sock'[d] = sock[d]
  BY FreeConnection
<1>2. pc' \notin OrderPcs
  BY DEF NextEvent, OrderPcs, RequestPcs
<1>3. ASSUME NEW d \in Clients, d # cur, Live(d), conn[d].file_fd # NoFd
      PROVE  fdtab'[conn[d].file_fd].pos = fdtab[conn[d].file_fd].pos
  BY <1>3, FilesApart DEF free_connection
<1>4. \A d \in Clients : d # cur => Progress(d)'
  BY <1>1, <1>2, <1>3, Unaffected
<1>5. ASSUME NEW c \in Clients, c = cur PROVE Progress(c)'
  BY <1>1, <1>5, FreedFields DEF Progress
<1>6. HangUpInv'
  <2>1. \A e \in batch' : e.fd # ListenFd /\ "HUP" \in e.mask => sock'[e.sock].peer \in Dead
    BY <1>1 DEF OrderInv, HangUpInv, IInv, QueueInv
  <2>2. pc' \in HandlerPcs \cup {"after_read", "after_write"} /\ "HUP" \in ev'.mask
          => sock'[cur'].peer \in Dead \cup {"closed"}
    BY <1>1, FreedFields DEF NextEvent, HandlerPcs
  <2>3. \A c \in Clients : conn'[c].state = "FREED" <=> sock'[c].peer = "closed"
    BY <1>1, FreedFields DEF OrderInv, HangUpInv
  <2>. QED  BY <2>1, <2>2, <2>3 DEF HangUpInv
<1>7. ASSUME \/ promise[cur] > 0 /\ Len(wire'[cur]) = promise[cur]
             \/ wire'[cur] = wire[cur] /\ (sock[cur].peer \in Gone \/ disk < conn[cur].file_size)
      PROVE  Ends
  BY <1>1, <1>7 DEF Ends
<1>8. Moves
  <2>1. \A d \in Clients : d # cur => Rests(d)
    BY <1>1 DEF Rests, SameStage, SamePeer, SameReply
  <2>2. ASSUME NEW c \in Clients, c = cur PROVE MovesClient(c)
    BY <2>2, <1>1, FreedFields DEF MovesClient, Ended
  <2>. QED  BY <2>1, <2>2 DEF Moves
<1>. QED  BY <1>4, <1>5, <1>6, <1>7, <1>8 DEF OrderInv

(* Steps between the handlers of connections. *)
LEMMA ThreadKeeps ==
  ASSUME IInv', OrderInv, UNCHANGED <<conn, wire, promise, fdtab, sock, disk>>, HangUpInv',
         pc \notin OrderPcs \cup {"killed"}, pc' \notin OrderPcs
  PROVE  OrderInv' /\ Ends /\ Moves
<1>1. \A d \in Clients : Progress(d)'
  BY Unaffected
<1>2. Ends /\ Moves
  BY DEF Ends, Moves, Rests, SameStage, SamePeer, SameReply
<1>. QED  BY <1>1, <1>2 DEF OrderInv

(* Steps of a handler that leave its connection alive. *)
LEMMA CurKeeps ==
  ASSUME IInv, IInv', OrderInv, pc \in HandlerPcs, cur \in Clients, UNCHANGED <<batch, ev, cur>>,
         \A d \in Clients : d # cur =>
           /\ conn'[d] = conn[d] /\ wire'[d] = wire[d] /\ promise'[d] = promise[d]
           /\ sock'[d] = sock[d]
           /\ Live(d) /\ conn[d].file_fd # NoFd
                => fdtab'[conn[d].file_fd].pos = fdtab[conn[d].file_fd].pos,
         sock'[cur].peer = sock[cur].peer, Live(cur)', Progress(cur)',
         disk' = disk, Grows(cur)
  PROVE  OrderInv' /\ Ends /\ Moves
<1>1. pc # "killed" /\ Live(cur)
  BY DEF HandlerPcs, IInv, ThreadInv
<1>2. \A d \in Clients : Progress(d)'
  <2> SUFFICES ASSUME NEW d \in Clients, d # cur PROVE Progress(d)'
    OBVIOUS
  <2>. QED  BY <1>1, Unaffected
<1>3. HangUpInv'
  <2>1. \A d \in Clients : sock'[d].peer = sock[d].peer
    OBVIOUS
  <2>2. \A e \in batch : e.fd # ListenFd => e.sock \in Clients
    BY DEF IInv, QueueInv
  <2>3. \A d \in Clients : conn'[d].state = "FREED" <=> sock'[d].peer = "closed"
    BY <1>1, <2>1 DEF OrderInv, HangUpInv, LiveStates
  <2>. QED  BY <2>1, <2>2, <2>3 DEF OrderInv, HangUpInv
<1>4. Ends
  BY DEF Ends
<1>5. Moves
  <2>1. \A d \in Clients : d # cur => Rests(d)
    BY DEF Rests, SameStage, SamePeer, SameReply
  <2>2. ASSUME NEW c \in Clients, c = cur PROVE MovesClient(c)
    BY <2>2, <1>1 DEF MovesClient, SameStage, SamePeer, LiveStates
  <2>. QED  BY <2>1, <2>2 DEF Moves
<1>. QED  BY <1>2, <1>3, <1>4, <1>5 DEF OrderInv

(* A write puts the units that follow on the wire. *)
LEMMA MoreOnWire ==
  ASSUME TypeOK, cur \in Clients, NEW from \in Nat, NEW n \in Nat,
         wire[cur] = Units(0, Len(wire[cur])), from = Len(wire[cur]),
         wire' = [wire EXCEPT ![cur] = @ \o Units(from, n)]
  PROVE  /\ wire'[cur] = Units(0, from + n) /\ Len(wire'[cur]) = from + n
         /\ \A d \in Clients : d # cur => wire'[d] = wire[d]
<1>1. wire'[cur] = Units(0, from) \o Units(from, n)
      /\ \A d \in Clients : d # cur => wire'[d] = wire[d]
  BY DEF TypeOK
<1>. QED  BY <1>1, UnitsJoin

-----------------------------------------------------------------------------
(* One lemma per step: what is promised and sent, and how connections end. *)

(* The loop of main, and accepts that fail. *)
LEMMA LoopSteps ==
  ASSUME IInv, IInv', OrderInv, UNCHANGED http1Vars,
         EpollWait \/ BatchDone \/ (\E e \in batch : TakeEvent(e)) \/ AfterRead \/ AcceptFails
  PROVE  OrderInv' /\ Ends /\ Moves
<1>1. UNCHANGED <<conn, wire, promise, fdtab, disk>> /\ pc \notin OrderPcs \cup {"killed"}
      /\ sock' = sock
  BY DEF EpollWait, BatchDone, TakeEvent, AfterRead, AcceptFails, kernelVars, OrderPcs, RequestPcs
<1>2. pc' \notin OrderPcs
  BY DEF EpollWait, BatchDone, TakeEvent, AfterRead, AcceptFails, OrderPcs, RequestPcs,
         ReadHandler, WriteHandler, NextEvent
<1>3. \A d \in Clients : conn'[d].state = "FREED" <=> sock'[d].peer = "closed"
  BY <1>1 DEF OrderInv, HangUpInv
<1>4. HangUpInv'
  <2>1. CASE EpollWait
    <3>1. \A e \in batch' : e.fd # ListenFd /\ "HUP" \in e.mask => sock[e.sock].peer \in Dead
      BY <2>1 DEF EpollWait, Pending, SocketEvent, ListenEvent, Mask, Poll
    <3>. QED  BY <2>1, <3>1, <1>1, <1>3 DEF EpollWait, HangUpInv, HandlerPcs
  <2>2. CASE BatchDone
    BY <2>2, <1>1, <1>3 DEF BatchDone, HangUpInv, HandlerPcs, OrderInv
  <2>3. ASSUME NEW e \in batch, TakeEvent(e) PROVE HangUpInv'
    <3>1. e.fd # ListenFd => get_connection(e.fd) = e.sock
      BY DEF IInv, QueueInv, DescriptorsAccounted, get_connection
    <3>2. \A f \in batch' : f \in batch
      BY <2>3 DEF TakeEvent
    <3>3. e.fd = ListenFd => pc' = "accept" 
      BY <2>3 DEF TakeEvent
    <3>4. pc' # "next" => ev' = e /\ (e.fd # ListenFd => cur' = e.sock)
      BY <2>3, <3>1 DEF TakeEvent
    <3>. QED  BY <3>2, <3>3, <3>4, <1>1, <1>3 DEF HangUpInv, OrderInv, HandlerPcs
  <2>4. CASE AfterRead
    BY <2>4, <1>1, <1>3 DEF AfterRead, NextEvent, HangUpInv, HandlerPcs, OrderInv
  <2>5. CASE AcceptFails
    BY <2>5, <1>1, <1>3 DEF AcceptFails, NextEvent, HangUpInv, HandlerPcs, OrderInv
  <2>. QED  BY <2>1, <2>2, <2>3, <2>4, <2>5
<1>. QED  BY <1>1, <1>2, <1>4, ThreadKeeps

(* Main after a hang-up: the peer is dead, so nobody is cut off. *)
LEMMA AfterWriteOrder ==
  ASSUME IInv, IInv', OrderInv, AfterWrite, UNCHANGED http1Vars
  PROVE  OrderInv' /\ Ends /\ Moves
<1>1. cur \in Clients /\ ev.fd \in Fds /\ pc = "after_write"
  BY DEF IInv, ThreadInv, AfterWrite
<1>2. CASE "HUP" \in ev.mask /\ get_connection(ev.fd) = cur
  <2>1. Live(cur) /\ conn[cur].fd = ev.fd
    BY <1>1, <1>2, KernelAssumption DEF KernelAssumption, IInv, get_connection, DescriptorsAccounted
  <2>2. sock[cur].peer \in Gone
    BY <1>1, <1>2, <2>1 DEF OrderInv, HangUpInv, LiveStates, Dead, Gone
  <2>3. wire[cur] = Units(0, Len(wire[cur])) /\ Len(wire[cur]) <= promise[cur]
    BY <1>1 DEF OrderInv, Progress
  <2>. QED  BY <1>1, <1>2, <2>1, <2>2, <2>3, FreeKeeps DEF AfterWrite
<1>3. CASE ~("HUP" \in ev.mask /\ get_connection(ev.fd) = cur)
  <2>1. UNCHANGED <<conn, wire, promise, fdtab, sock, batch, disk>> /\ pc' = "next"
    BY <1>3 DEF AfterWrite, NextEvent
  <2>2. HangUpInv'
    BY <2>1 DEF OrderInv, HangUpInv, HandlerPcs
  <2>. QED  BY <1>1, <2>1, <2>2, ThreadKeeps DEF OrderPcs, RequestPcs
<1>. QED  BY <1>2, <1>3

(* A write to a broken socket ends the process; what was sent stays in order. *)
LEMMA SigPipeOrder ==
  ASSUME IInv, IInv', OrderInv, SigPipe, UNCHANGED http1Vars
  PROVE  OrderInv' /\ Ends /\ Moves
<1>1. /\ pc' = "killed" /\ UNCHANGED <<conn, batch, ev, cur, wire, promise, fdtab, sock, disk>>
      /\ cur \in Clients /\ pc \in HandlerPcs
  BY DEF SigPipe, kernelVars, IInv, ThreadInv, HandlerPcs, Pcs, WritePcs
<1>2. \A d \in Clients : Progress(d)'
  <2> SUFFICES ASSUME NEW d \in Clients PROVE Progress(d)'
    OBVIOUS
  <2>1. Progress(d)
    BY DEF OrderInv
  <2>. QED  BY <1>1, <2>1 DEF Progress
<1>3. HangUpInv'
  BY <1>1 DEF OrderInv, HangUpInv, HandlerPcs
<1>4. Ends /\ Moves
  BY <1>1 DEF Ends, Moves, Rests, SameStage, SamePeer, SameReply
<1>. QED  BY <1>2, <1>3, <1>4 DEF OrderInv

(* A read moves units from the socket to the buffer. *)
LEMMA ReceiveOrder ==
  ASSUME IInv, IInv', OrderInv, pc \in {"sniff", "read"}, Receive(cur),
         UNCHANGED <<fdtab, wire, pc, batch, ev, cur, promise, disk>>
  PROVE  OrderInv' /\ Ends /\ Moves
<1>1. cur \in Clients /\ conn[cur].state = "READ_REQUEST" /\ pc \in HandlerPcs
  BY DEF IInv, ThreadInv, HandlerPcs, Pcs
<1>2. /\ \A d \in Clients : d # cur => conn'[d] = conn[d] /\ sock'[d] = sock[d]
      /\ conn'[cur].state = "READ_REQUEST" /\ conn'[cur].file_offset = conn[cur].file_offset
      /\ conn'[cur].file_size = conn[cur].file_size
      /\ sock'[cur].peer = sock[cur].peer
  <2>1. conn[cur] \in ConnType /\ sock[cur] \in SockType
    BY <1>1, FieldTypes DEF IInv
  <2>. QED  BY <1>1, <2>1 DEF Receive, IInv, TypeOK, ConnType, SockType
<1>3. Progress(cur)'
  BY <1>1, <1>2 DEF OrderInv, Progress
<1>20. disk' = disk /\ Grows(cur)
  <2>1. Len(wire[cur]) \in Nat
    BY <1>1 DEF IInv, TypeOK
  <2>. QED  BY <2>1 DEF Grows
<1>. QED  BY <1>1, <1>2, <1>3, <1>20, CurKeeps DEF LiveStates

(* EAGAIN in a read loop. *)
LEMMA ReadDoneOrder ==
  ASSUME IInv, IInv', OrderInv, (SniffDone("HTTP1") /\ UNCHANGED http1Vars) \/ Http1ReadDone
  PROVE  OrderInv' /\ Ends /\ Moves
<1>1. cur \in Clients /\ conn[cur].state = "READ_REQUEST" /\ pc \in HandlerPcs
  BY DEF IInv, ThreadInv, HandlerPcs, Pcs, SniffDone, Http1ReadDone
<1>2. UNCHANGED <<sock, fdtab, wire, batch, ev, cur, promise>>
  BY DEF SniffDone, Http1ReadDone, kernelVars
<1>3. /\ \A d \in Clients : d # cur => conn'[d] = conn[d]
      /\ conn'[cur].file_offset = conn[cur].file_offset
      /\ conn'[cur].file_size = conn[cur].file_size
      /\ \/ pc' \in {"after_read", "read"} /\ conn'[cur].state = "READ_REQUEST"
         \/ pc' = "process" /\ conn'[cur].state = "PROCESS"
  <2>1. conn[cur] \in ConnType
    BY <1>1, FieldTypes DEF IInv
  <2>2. \/ pc' = "after_read" /\ conn' = conn
        \/ pc' = "read" /\ conn' = [conn EXCEPT ![cur] = [conn[cur] EXCEPT !.protocol = "HTTP1"]]
        \/ pc' = "process" /\ conn' = [conn EXCEPT ![cur] = [conn[cur] EXCEPT !.state = "PROCESS"]]
    BY <1>1 DEF SniffDone, ReadHandler, Http1ReadDone, IInv, TypeOK
  <2>3. conn \in [Clients -> ConnType]
    BY DEF IInv, TypeOK
  <2>. QED  BY <1>1, <2>1, <2>2, <2>3 DEF ConnType
<1>4. Progress(cur)'
  BY <1>1, <1>2, <1>3 DEF OrderInv, Progress
<1>20. disk' = disk /\ Grows(cur)
  <2>1. Len(wire[cur]) \in Nat
    BY <1>1 DEF IInv, TypeOK
  <2>. QED  BY <2>1 DEF Grows, SniffDone, Http1ReadDone, kernelVars
<1>. QED  BY <1>1, <1>2, <1>3, <1>4, <1>20, CurKeeps DEF LiveStates

(* A request is parsed, refused, answered or declined: send_response promises its
   header and body before it writes any of them. *)
LEMMA RequestOrder ==
  ASSUME IInv, IInv', OrderInv,
         BadRequest \/ StaticError \/ PluginReturns \/ \E m \in {"GET", "HEAD", "OTHER"} : ParsedRequest(m)
  PROVE  OrderInv' /\ Ends /\ Moves
<1>1. cur \in Clients /\ conn[cur].state = "PROCESS" /\ pc \in {"process", "plugin", "static"}
      /\ pc \in HandlerPcs
  BY DEF IInv, ThreadInv, HandlerPcs, Pcs, RequestPcs, BadRequest, StaticError, PluginReturns,
         PluginAnswers, PluginDeclines, ParsedRequest
<1>2. UNCHANGED <<conn, sock, fdtab, wire, batch, ev, cur>>
  BY DEF BadRequest, StaticError, PluginReturns, PluginAnswers, PluginDeclines, ParsedRequest, kernelVars
<1>3. \/ pc' = "direct_header" /\ promise' = [promise EXCEPT ![cur] = DirectLen]
      \/ pc' \in {"plugin", "static"} /\ promise' = promise
  BY DEF BadRequest, StaticError, PluginReturns, PluginAnswers, PluginDeclines, ParsedRequest, BeginDirect
<1>4. \A d \in Clients : promise'[d] = IF d = cur /\ pc' = "direct_header" THEN DirectLen ELSE promise[d]
  BY <1>1, <1>3 DEF IInv, TypeOK
<1>5. promise[cur] = 0 /\ Len(wire[cur]) = 0 /\ wire[cur] = Units(0, Len(wire[cur]))
      /\ conn[cur].file_offset = 0 /\ conn[cur].file_size = 0
  <2>1. Len(wire[cur]) \in Nat
    BY <1>1 DEF IInv, TypeOK
  <2>. QED  BY <2>1, <1>1 DEF OrderInv, Progress
<1>6. Progress(cur)'
  BY <1>1, <1>2, <1>3, <1>4, <1>5, ServerAssumption DEF ServerAssumption, Progress
<1>20. disk' = disk /\ Grows(cur)
  <2>1. Len(wire[cur]) \in Nat
    BY <1>1 DEF IInv, TypeOK
  <2>2. disk' = disk
    BY DEF BadRequest, StaticError, PluginReturns, PluginAnswers, PluginDeclines, ParsedRequest, kernelVars
  <2>. QED  BY <2>1, <2>2, <1>1, <1>2, <1>4, <1>5 DEF Grows, ReplyLengths
<1>. QED  BY <1>1, <1>2, <1>4, <1>6, <1>20, CurKeeps DEF LiveStates

(* The first write of send_response. *)
LEMMA DirectHeaderOrder ==
  ASSUME IInv, IInv', OrderInv, DirectHeader
  PROVE  OrderInv' /\ Ends /\ Moves
<1>1. cur \in Clients /\ conn[cur].state = "PROCESS" /\ pc = "direct_header" /\ pc \in HandlerPcs
      /\ sock[cur].snd = 0
  BY DEF IInv, ThreadInv, HandlerPcs, Pcs, RequestPcs, DirectHeader
<1>2. UNCHANGED <<conn, fdtab, batch, ev, cur, promise>> /\ pc' = "direct_body"
  BY DEF DirectHeader
<1>3. sock'[cur].snd = 1 /\ sock'[cur].peer = sock[cur].peer
      /\ \A d \in Clients : d # cur => sock'[d] = sock[d]
  <2>1. sock[cur] \in SockType
    BY <1>1, FieldTypes DEF IInv
  <2>2. sock' = [sock EXCEPT ![cur] = [sock[cur] EXCEPT !.snd = sock[cur].snd + 1]]
    BY <1>1 DEF DirectHeader, Put, Wrote, IInv, TypeOK
  <2>3. sock'[cur] = [sock[cur] EXCEPT !.snd = 1] /\ \A d \in Clients : d # cur => sock'[d] = sock[d]
    BY <1>1, <2>2 DEF IInv, TypeOK
  <2>. QED  BY <2>1, <2>3 DEF SockType
<1>4. promise[cur] = DirectLen /\ Len(wire[cur]) = 0 /\ wire[cur] = Units(0, Len(wire[cur]))
      /\ conn[cur].file_offset = 0 /\ conn[cur].file_size = 0
  BY <1>1 DEF OrderInv, Progress
<1>5. wire'[cur] = Units(0, 1) /\ Len(wire'[cur]) = 1
      /\ \A d \in Clients : d # cur => wire'[d] = wire[d]
  <2>1. wire' = [wire EXCEPT ![cur] = @ \o Units(0, 1)]
    BY DEF DirectHeader, Put
  <2>2. 0 \in Nat /\ 1 \in Nat /\ 0 + 1 = 1
    OBVIOUS
  <2>. QED  BY <1>1, <1>4, <2>1, <2>2, MoreOnWire DEF IInv
<1>6. Len(wire'[cur]) = 1 /\ 1 <= promise[cur] /\ wire'[cur] = Units(0, Len(wire'[cur]))
  <2>1. 1 <= promise[cur]
    BY <1>4, ServerAssumption DEF ServerAssumption
  <2>. QED  BY <2>1, <1>5
<1>7. Progress(cur)'
  BY <1>1, <1>2, <1>3, <1>4, <1>6 DEF Progress
<1>20. disk' = disk /\ Grows(cur)
  BY <1>4, <1>5, <1>2 DEF Grows, DirectHeader
<1>. QED  BY <1>1, <1>2, <1>3, <1>5, <1>7, <1>20, CurKeeps DEF LiveStates

(* The second write of send_response: where the send buffer takes a direct response,
   it takes all of it. *)
LEMMA DirectBodyOrder ==
  ASSUME IInv, IInv', OrderInv, DirectBody
  PROVE  OrderInv' /\ Moves /\ (DirectLen <= SndCap => Ends)
<1> DEFINE n == Least(DirectLen - 1, Room(sock[cur]))
<1>1. cur \in Clients /\ Live(cur) /\ conn[cur].state = "PROCESS" /\ pc = "direct_body"
      /\ conn[cur].fd = ev.fd
  BY DEF IInv, ThreadInv, HandlerPcs, Pcs, RequestPcs, DirectBody
<1>2. promise[cur] = DirectLen /\ Len(wire[cur]) = 1 /\ wire[cur] = Units(0, 1)
      /\ sock[cur].snd <= 1 /\ sock[cur].snd \in 0..SndCap
  BY <1>1, FieldTypes DEF OrderInv, Progress, IInv
<1>3. n \in Nat /\ n <= DirectLen - 1 /\ (DirectLen <= SndCap => n = DirectLen - 1)
  BY <1>2, KernelAssumption, ServerAssumption DEF KernelAssumption, ServerAssumption, Least, Room
<1>4. wire' = [wire EXCEPT ![cur] = @ \o Units(1, n)]
  BY DEF DirectBody
<1> HIDE DEF n
<1>5. wire'[cur] = Units(0, 1 + n) /\ Len(wire'[cur]) = 1 + n
      /\ \A d \in Clients : d # cur => wire'[d] = wire[d]
  BY <1>1, <1>2, <1>3, <1>4, MoreOnWire DEF IInv
<1>6. DirectLen \in Nat /\ DirectLen >= 2
  BY ServerAssumption DEF ServerAssumption
<1>7. /\ Len(wire'[cur]) <= promise[cur] /\ wire'[cur] = Units(0, Len(wire'[cur]))
      /\ DirectLen <= SndCap => promise[cur] > 0 /\ Len(wire'[cur]) = promise[cur]
  BY <1>2, <1>3, <1>5, <1>6
<1>. QED  BY <1>1, <1>5, <1>7, FreeKeeps DEF DirectBody

(* The end of the stream in a read loop is the client's doing: there is always room. *)
LEMMA ReadEndOrder ==
  ASSUME IInv, IInv', OrderInv, ReadEnd, UNCHANGED http1Vars
  PROVE  OrderInv' /\ Ends /\ Moves
<1>1. cur \in Clients /\ Live(cur) /\ conn[cur].state = "READ_REQUEST" /\ conn[cur].fd = ev.fd
      /\ pc \in {"sniff", "read"}
  BY DEF IInv, ThreadInv, HandlerPcs, Pcs, ReadEnd
<1>2. sock[cur].peer \in Gone
  <2>1. /\ conn[cur].bytes_read + 1 < conn[cur].read_buffer_size
        /\ conn[cur].bytes_read \in Nat /\ conn[cur].read_buffer_size \in Nat
    BY <1>1, FieldTypes DEF IInv, ConnInv
  <2>. QED  BY <2>1 DEF ReadEnd, ReadEnds, ReadRoom
<1>3. wire[cur] = Units(0, Len(wire[cur])) /\ Len(wire[cur]) <= promise[cur]
  BY <1>1 DEF OrderInv, Progress
<1>. QED  BY <1>1, <1>2, <1>3, FreeKeeps DEF ReadEnd

(* A write fails only when the client has reset the connection. *)
LEMMA WriteErrorOrder ==
  ASSUME IInv, IInv', OrderInv, WriteError
  PROVE  OrderInv' /\ Ends /\ Moves
<1>1. cur \in Clients /\ Live(cur) /\ conn[cur].fd = ev.fd /\ pc \in WritePcs
  BY DEF IInv, ThreadInv, HandlerPcs, Pcs, WritePcs, WriteError
<1>2. wire[cur] = Units(0, Len(wire[cur])) /\ Len(wire[cur]) <= promise[cur]
  BY <1>1 DEF OrderInv, Progress
<1>. QED  BY <1>1, <1>2, FreeKeeps DEF WriteError, WritePcs, Gone
-----------------------------------------------------------------------------
(* Writing a static response. *)

(* The file is opened at its beginning, and its length announced. *)
LEMMA StaticFileOrder ==
  ASSUME IInv, IInv', OrderInv, NEW f \in Fds, StaticFile(f)
  PROVE  OrderInv' /\ Ends /\ Moves
<1> DEFINE get == method = "GET"
           file_fd == IF get THEN f ELSE NoFd
           file_size == IF get THEN disk ELSE conn[cur].file_size
           promised == IF get THEN HdrLen + disk ELSE HdrLen
<1>1. cur \in Clients /\ Live(cur) /\ conn[cur].state = "PROCESS" /\ pc = "static" /\ pc \in HandlerPcs
      /\ conn[cur].bytes_written = 0 /\ conn[cur].file_fd = NoFd
  BY DEF IInv, ThreadInv, ConnInv, HandlerPcs, Pcs, RequestPcs, StaticFile
<1>2. conn[cur] \in ConnType /\ sock[cur] \in SockType /\ disk \in 0..FileLen
      /\ HdrLen \in Nat /\ f # NoFd
  BY <1>1, FieldTypes, KernelAssumption, ServerAssumption
  DEF KernelAssumption, ServerAssumption, IInv, TypeOK, NoFd, Fds
<1>3. /\ UNCHANGED <<batch, ev, cur, wire>> /\ pc' = "after_read"
      /\ promise' = [promise EXCEPT ![cur] = promised]
      /\ fdtab' = (IF get THEN [fdtab EXCEPT ![f] = AFile] ELSE fdtab)
      /\ sock' = [sock EXCEPT ![cur] = Interested(sock[cur], {"OUT"})]
  BY <1>1 DEF StaticFile, mod_epoll, IInv, TypeOK
<1>4. /\ get => file_fd = f /\ file_size = disk /\ promised = HdrLen + disk
      /\ ~get => file_fd = NoFd /\ promised = HdrLen /\ file_size = conn[cur].file_size
  OBVIOUS
<1> HIDE DEF file_fd, file_size, promised
<1>5. /\ sock'[cur].peer = sock[cur].peer
      /\ \A d \in Clients : d # cur => sock'[d] = sock[d]
  BY <1>1, <1>2, <1>3 DEF IInv, TypeOK, SockType, Interested
<1>6. /\ conn'[cur].state = "WRITE_RESPONSE" /\ conn'[cur].file_fd = file_fd
      /\ conn'[cur].write_buffer_size = HdrLen /\ conn'[cur].bytes_written = 0
      /\ conn'[cur].file_size = file_size /\ conn'[cur].file_offset = conn[cur].file_offset
      /\ \A d \in Clients : d # cur => conn'[d] = conn[d]
  BY <1>1, <1>2 DEF StaticFile, IInv, TypeOK, ConnType, file_fd, file_size
<1>7. promise'[cur] = promised /\ \A d \in Clients : d # cur => promise'[d] = promise[d]
  BY <1>1, <1>3 DEF IInv, TypeOK
<1>8. ASSUME NEW d \in Clients, d # cur, Live(d), conn[d].file_fd # NoFd
      PROVE  fdtab'[conn[d].file_fd].pos = fdtab[conn[d].file_fd].pos
  <2>1. f \in FreeFds
    BY DEF StaticFile, Lowest
  <2>2. conn[d].file_fd # f
    BY <1>8, <2>1, FilesApart
  <2>. QED  BY <1>3, <2>2
<1>9. promise[cur] = 0 /\ Len(wire[cur]) = 0 /\ wire[cur] = Units(0, Len(wire[cur]))
      /\ conn[cur].file_offset = 0 /\ conn[cur].file_size = 0
  <2>1. Len(wire[cur]) \in Nat
    BY <1>1 DEF IInv, TypeOK
  <2>. QED  BY <2>1, <1>1 DEF OrderInv, Progress
<1>10. get => fdtab'[f].pos = 0
  BY <1>3 DEF AFile, IInv, TypeOK
<1>11. conn[cur].file_size = 0 /\ FileLen \in Nat
  BY <1>1, KernelAssumption DEF KernelAssumption, OrderInv, Progress
<1>12. Progress(cur)'
  BY <1>2, <1>3, <1>4, <1>6, <1>7, <1>9, <1>10, <1>11 DEF Progress
<1>20. disk' = disk /\ Grows(cur)
  <2>1. promised \in ReplyLengths
    BY <1>2, <1>4 DEF ReplyLengths
  <2>. QED  BY <2>1, <1>3, <1>7, <1>9 DEF Grows, StaticFile
<1>. QED  BY <1>1, <1>3, <1>5, <1>6, <1>7, <1>8, <1>12, <1>20, CurKeeps DEF LiveStates

(* EAGAIN in the header loop: what was sent and what is left stay as they are. *)
LEMMA SendHeaderAgainOrder ==
  ASSUME IInv, IInv', OrderInv, SendHeaderAgain
  PROVE  OrderInv' /\ Ends /\ Moves
<1>1. cur \in Clients /\ conn[cur].state = "WRITE_RESPONSE" /\ pc = "send" /\ pc \in HandlerPcs
  BY DEF IInv, ThreadInv, HandlerPcs, Pcs, SendHeaderAgain
<1>2. UNCHANGED <<conn, batch, ev, cur, promise, fdtab, wire>> /\ pc' = "after_write"
  BY DEF SendHeaderAgain
<1>3. sock'[cur].peer = sock[cur].peer /\ \A d \in Clients : d # cur => sock'[d] = sock[d]
  BY <1>1, RefusedSock DEF IInv, SendHeaderAgain
<1>4. Progress(cur)'
  BY <1>1, <1>2 DEF OrderInv, Progress
<1>20. disk' = disk /\ Grows(cur)
  <2>1. Len(wire[cur]) \in Nat
    BY <1>1 DEF IInv, TypeOK
  <2>. QED  BY <2>1 DEF Grows, SendHeaderAgain
<1>. QED  BY <1>1, <1>2, <1>3, <1>4, <1>20, CurKeeps DEF LiveStates

(* The header goes out from where it was left, and the file follows at its start. *)
LEMMA SendHeaderOrder ==
  ASSUME IInv, IInv', OrderInv, SendHeader
  PROVE  OrderInv' /\ Ends /\ Moves
<1> DEFINE n == Least(conn[cur].write_buffer_size - conn[cur].bytes_written, Room(sock[cur]))
           all == conn[cur].bytes_written + n = conn[cur].write_buffer_size
<1>1. cur \in Clients /\ Live(cur) /\ conn[cur].state = "WRITE_RESPONSE" /\ pc \in HandlerPcs
      /\ pc = "send" /\ conn[cur].fd = ev.fd
  BY DEF IInv, ThreadInv, HandlerPcs, Pcs, SendHeader
<1>2. /\ conn[cur] \in ConnType /\ conn[cur].bytes_written \in Nat
      /\ conn[cur].write_buffer_size \in Nat /\ sock[cur].snd \in 0..SndCap
      /\ conn[cur].bytes_written <= conn[cur].write_buffer_size
      /\ conn[cur].file_size \in Nat /\ HdrLen \in Nat /\ HdrLen > 0
  BY <1>1, FieldTypes, ServerAssumption DEF ServerAssumption, IInv, ConnInv
<1>3. n \in Nat /\ n <= Room(sock[cur]) /\ conn[cur].bytes_written + n <= conn[cur].write_buffer_size
  BY <1>2, KernelAssumption DEF KernelAssumption, Room, Least
<1>4. /\ wire[cur] = Units(0, Len(wire[cur])) /\ Len(wire[cur]) = conn[cur].bytes_written
      /\ conn[cur].write_buffer_size = HdrLen /\ conn[cur].file_offset = 0
      /\ promise[cur] = HdrLen + (IF conn[cur].file_fd = NoFd THEN 0 ELSE conn[cur].file_size)
      /\ conn[cur].file_size <= FileLen
      /\ conn[cur].file_fd # NoFd => fdtab[conn[cur].file_fd].pos = 0
  BY <1>1 DEF OrderInv, Progress
<1>5. wire' = [wire EXCEPT ![cur] = @ \o Units(conn[cur].bytes_written, n)]
  BY DEF SendHeader
<1>6. CASE all /\ conn[cur].file_fd = NoFd
  <2> HIDE DEF n
  <2>1. wire'[cur] = Units(0, conn[cur].bytes_written + n) /\ Len(wire'[cur]) = conn[cur].bytes_written + n
        /\ \A d \in Clients : d # cur => wire'[d] = wire[d]
    BY <1>1, <1>2, <1>3, <1>4, <1>5, MoreOnWire DEF IInv
  <2>2. wire'[cur] = Units(0, Len(wire'[cur])) /\ Len(wire'[cur]) = promise[cur] /\ promise[cur] > 0
    BY <1>2, <1>4, <1>6, <2>1
  <2>3. /\ free_connection(cur) /\ pc' = "after_write" /\ UNCHANGED <<batch, promise, ev, cur, disk>>
    BY <1>6 DEF SendHeader, n
  <2>4. Len(wire'[cur]) <= promise[cur]
    BY <1>2, <1>4, <2>2
  <2>. QED  BY <1>1, <2>1, <2>2, <2>3, <2>4, FreeKeeps
<1>7. CASE ~(all /\ conn[cur].file_fd = NoFd)
  <2> DEFINE written == IF all THEN 0 ELSE conn[cur].bytes_written + n
             state == IF all THEN "WRITE_FILE" ELSE "WRITE_RESPONSE"
  <2>1. /\ UNCHANGED <<fdtab, batch, ev, cur, promise>>
        /\ sock' = [sock EXCEPT ![cur] = Wrote(@, n)]
        /\ conn' = [conn EXCEPT ![cur] = [conn[cur] EXCEPT !.bytes_written = written, !.state = state]]
        /\ pc' = IF all THEN "file_read" ELSE "send"
    <3>1. /\ UNCHANGED <<fdtab, batch, ev, cur, promise>>
          /\ sock' = [sock EXCEPT ![cur] = Wrote(@, n)]
          /\ pc' = IF all THEN "file_read" ELSE "send"
      BY <1>1, <1>7 DEF SendHeader
    <3>2. conn' = [conn EXCEPT ![cur].bytes_written = IF all THEN 0 ELSE @ + n,
                               ![cur].state = IF all THEN "WRITE_FILE" ELSE @]
      BY <1>7 DEF SendHeader
    <3> HIDE DEF n
    <3>3. conn' = [conn EXCEPT ![cur] = [conn[cur] EXCEPT !.bytes_written = written, !.state = state]]
      BY <1>1, <1>2, <3>2 DEF IInv, TypeOK, ConnType
    <3>. QED  BY <3>1, <3>3
  <2>2. /\ all => written = 0 /\ state = "WRITE_FILE" /\ conn[cur].file_fd # NoFd
        /\ ~all => written = conn[cur].bytes_written + n /\ state = "WRITE_RESPONSE"
    BY <1>7
  <2>3. /\ sock'[cur].peer = sock[cur].peer
        /\ \A d \in Clients : d # cur => sock'[d] = sock[d]
    BY <1>1, <1>3, <2>1, WroteSock DEF IInv
  <2> HIDE DEF n, written, state
  <2>4. /\ conn'[cur] = [conn[cur] EXCEPT !.bytes_written = written, !.state = state]
        /\ \A d \in Clients : d # cur => conn'[d] = conn[d]
    BY <1>1, <2>1 DEF IInv, TypeOK
  <2>5. /\ conn'[cur].bytes_written = written /\ conn'[cur].state = state
        /\ conn'[cur].file_fd = conn[cur].file_fd /\ conn'[cur].file_size = conn[cur].file_size
        /\ conn'[cur].file_offset = conn[cur].file_offset
        /\ conn'[cur].write_buffer_size = conn[cur].write_buffer_size
    BY <1>2, <2>4 DEF ConnType
  <2>6. wire'[cur] = Units(0, conn[cur].bytes_written + n) /\ Len(wire'[cur]) = conn[cur].bytes_written + n
        /\ \A d \in Clients : d # cur => wire'[d] = wire[d]
    BY <1>1, <1>2, <1>3, <1>4, <1>5, MoreOnWire DEF IInv
  <2>7. wire'[cur] = Units(0, Len(wire'[cur])) /\ Len(wire'[cur]) <= promise[cur]
    BY <1>2, <1>3, <1>4, <2>6
  <2>10. disk' = disk /\ Grows(cur)
    <3>1. disk' = disk
      BY DEF SendHeader
    <3>. QED  BY <3>1, <1>2, <1>3, <1>4, <2>1, <2>6 DEF Grows
  <2>8. CASE all
    <3>1. Len(wire'[cur]) = HdrLen + conn[cur].file_offset
          /\ fdtab'[conn[cur].file_fd].pos = conn[cur].file_offset
          /\ conn[cur].file_offset <= conn[cur].file_size
      BY <1>2, <1>4, <2>1, <2>2, <2>6, <2>8
    <3>2. FileProgress(cur)'
      BY <2>1, <2>5, <2>8, <3>1 DEF FileProgress
    <3>3. Progress(cur)'
      BY <1>4, <2>1, <2>2, <2>5, <2>7, <2>8, <3>1, <3>2 DEF Progress
    <3>. QED  BY <1>1, <2>1, <2>2, <2>3, <2>4, <2>5, <2>6, <2>8, <3>3, <2>10, CurKeeps DEF LiveStates
  <2>9. CASE ~all
    <3>1. Progress(cur)'
      BY <1>4, <2>1, <2>2, <2>5, <2>6, <2>7, <2>9 DEF Progress
    <3>. QED  BY <1>1, <2>1, <2>2, <2>3, <2>4, <2>5, <2>6, <2>9, <3>1, <2>10, CurKeeps DEF LiveStates
  <2>. QED  BY <2>8, <2>9
<1>. QED  BY <1>6, <1>7

(* The chunk read is the one the offset stands at. *)
LEMMA FileReadOrder ==
  ASSUME IInv, IInv', OrderInv, FileRead
  PROVE  OrderInv' /\ Ends /\ Moves
<1> DEFINE f == conn[cur].file_fd
           left == conn[cur].file_size - conn[cur].file_offset
           n == Least(Least(left, ChunkLen), disk - fdtab[f].pos)
<1>1. cur \in Clients /\ Live(cur) /\ conn[cur].state = "WRITE_FILE" /\ pc \in HandlerPcs
      /\ pc = "file_read" /\ f \in Fds /\ f # NoFd
  BY FieldTypes DEF IInv, ThreadInv, ConnInv, HandlerPcs, Pcs, FileRead
<1>2. /\ fdtab[f] \in DescriptorType /\ fdtab[f].pos \in Nat /\ disk \in Nat
      /\ conn[cur].file_size \in Nat /\ conn[cur].file_offset \in Nat /\ HdrLen \in Nat
  BY <1>1, FieldTypes, KernelAssumption, ServerAssumption
  DEF KernelAssumption, ServerAssumption, IInv, TypeOK, DescriptorType
<1>3. n > 0 /\ n \in Nat /\ n <= left
  BY <1>2, ServerAssumption DEF ServerAssumption, FileRead, Least
<1>4. /\ UNCHANGED <<conn, batch, ev, cur, promise, sock, disk, wire>>
      /\ pc' = "file_write" /\ chunk' = [from |-> fdtab[f].pos, n |-> n, written |-> 0]
      /\ fdtab' = [fdtab EXCEPT ![f] = [fdtab[f] EXCEPT !.pos = fdtab[f].pos + n]]
  BY <1>1, <1>2 DEF FileRead, IInv, TypeOK, DescriptorType
<1>5. /\ promise[cur] = HdrLen + conn[cur].file_size /\ conn[cur].file_size <= FileLen
      /\ conn[cur].file_offset <= conn[cur].file_size
      /\ Len(wire[cur]) = HdrLen + conn[cur].file_offset /\ fdtab[f].pos = conn[cur].file_offset
      /\ wire[cur] = Units(0, Len(wire[cur])) /\ Len(wire[cur]) <= promise[cur]
  BY <1>1 DEF OrderInv, Progress, FileProgress
<1>6. conn[cur].file_offset + n <= conn[cur].file_size
  BY <1>2, <1>3
<1> HIDE DEF n
<1>7. fdtab'[f].pos = fdtab[f].pos + n /\ \A g \in Fds : g # f => fdtab'[g] = fdtab[g]
  BY <1>1, <1>2, <1>4 DEF IInv, TypeOK, DescriptorType
<1>8. ASSUME NEW d \in Clients, d # cur, Live(d), conn[d].file_fd # NoFd
      PROVE  fdtab'[conn[d].file_fd].pos = fdtab[conn[d].file_fd].pos
  <2>1. conn[d].file_fd \in Fds /\ conn[d].file_fd # f
    BY <1>1, <1>8, FilesApart
  <2>. QED  BY <1>7, <2>1
<1>9. FileProgress(cur)'
  <2>1. /\ chunk'.from = conn[cur].file_offset /\ chunk'.n = n /\ chunk'.written = 0
        /\ Len(wire[cur]) = HdrLen + chunk'.from + chunk'.written
    BY <1>2, <1>4, <1>5
  <2>. QED  BY <1>4, <1>5, <1>6, <1>7, <2>1 DEF FileProgress
<1>10. Progress(cur)'
  BY <1>1, <1>4, <1>5, <1>9 DEF Progress
<1>20. disk' = disk /\ Grows(cur)
  <2>1. Len(wire[cur]) \in Nat
    BY <1>1 DEF IInv, TypeOK
  <2>. QED  BY <2>1, <1>4 DEF Grows
<1>. QED  BY <1>1, <1>4, <1>8, <1>10, <1>20, CurKeeps DEF LiveStates

(* The file loop ends with the whole file, or because there is no more of it. *)
LEMMA FileDoneOrder ==
  ASSUME IInv, IInv', OrderInv, FileDone
  PROVE  OrderInv' /\ Ends /\ Moves
<1>1. cur \in Clients /\ Live(cur) /\ conn[cur].state = "WRITE_FILE" /\ conn[cur].fd = ev.fd
      /\ pc = "file_read"
  BY DEF IInv, ThreadInv, HandlerPcs, Pcs, FileDone
<1>2. conn[cur].file_size \in Nat /\ conn[cur].file_offset \in Nat /\ HdrLen \in Nat /\ HdrLen > 0
      /\ disk \in Nat
  BY <1>1, FieldTypes, KernelAssumption, ServerAssumption
  DEF KernelAssumption, ServerAssumption, IInv, TypeOK
<1>3. /\ promise[cur] = HdrLen + conn[cur].file_size
      /\ conn[cur].file_offset <= conn[cur].file_size
      /\ Len(wire[cur]) = HdrLen + conn[cur].file_offset
      /\ fdtab[conn[cur].file_fd].pos = conn[cur].file_offset
      /\ wire[cur] = Units(0, Len(wire[cur])) /\ Len(wire[cur]) <= promise[cur]
  BY <1>1 DEF OrderInv, Progress, FileProgress
<1>4. \/ promise[cur] > 0 /\ Len(wire[cur]) = promise[cur]
      \/ disk < conn[cur].file_size
  <2>1. \/ conn[cur].file_offset >= conn[cur].file_size
        \/ disk <= fdtab[conn[cur].file_fd].pos
    BY DEF FileDone
  <2>2. CASE conn[cur].file_offset = conn[cur].file_size
    BY <2>2, <1>2, <1>3
  <2>3. CASE conn[cur].file_offset # conn[cur].file_size
    <3>1. disk <= conn[cur].file_offset
      BY <2>1, <2>3, <1>2, <1>3
    <3>. QED  BY <3>1, <2>3, <1>2, <1>3
  <2>. QED  BY <2>2, <2>3
<1>. QED  BY <1>1, <1>3, <1>4, FreeKeeps DEF FileDone

(* A write of the chunk continues where the wire ends. *)
LEMMA FileWriteOrder ==
  ASSUME IInv, IInv', OrderInv, FileWrite
  PROVE  OrderInv' /\ Ends /\ Moves
<1> DEFINE w == Least(chunk.n - chunk.written, Room(sock[cur]))
           all == chunk.written + w = chunk.n
<1>1. cur \in Clients /\ Live(cur) /\ conn[cur].state = "WRITE_FILE" /\ pc \in HandlerPcs
      /\ chunk.written < chunk.n
      /\ chunk.written \in Nat /\ chunk.n \in Nat /\ chunk.from \in Nat /\ pc = "file_write"
  BY DEF IInv, TypeOK, ChunkType, ThreadInv, HandlerPcs, Pcs, FileWrite
<1>2. /\ conn[cur] \in ConnType /\ conn[cur].file_offset \in Nat /\ conn[cur].file_size \in Nat
      /\ sock[cur].snd \in 0..SndCap /\ HdrLen \in Nat
  BY <1>1, FieldTypes, ServerAssumption DEF ServerAssumption, IInv
<1>3. w \in Nat /\ w <= Room(sock[cur]) /\ chunk.written + w <= chunk.n
  BY <1>1, <1>2, KernelAssumption DEF KernelAssumption, Room, Least
<1>4. /\ UNCHANGED <<batch, ev, cur, promise, fdtab>>
      /\ sock' = [sock EXCEPT ![cur] = Wrote(@, w)]
      /\ wire' = [wire EXCEPT ![cur] = @ \o Units(HdrLen + chunk.from + chunk.written, w)]
      /\ pc' = (IF all THEN "file_read" ELSE "file_write")
      /\ chunk' = (IF all THEN NoChunk ELSE [chunk EXCEPT !.written = @ + w])
      /\ conn' = IF all THEN [conn EXCEPT ![cur].file_offset = @ + chunk.n] ELSE conn
  BY <1>1 DEF FileWrite, Put
<1>5. /\ promise[cur] = HdrLen + conn[cur].file_size /\ conn[cur].file_size <= FileLen
      /\ conn[cur].file_offset <= conn[cur].file_size
      /\ chunk.from = conn[cur].file_offset /\ chunk.from + chunk.n <= conn[cur].file_size
      /\ Len(wire[cur]) = HdrLen + chunk.from + chunk.written
      /\ fdtab[conn[cur].file_fd].pos = chunk.from + chunk.n
      /\ wire[cur] = Units(0, Len(wire[cur]))
  BY <1>1 DEF OrderInv, Progress, FileProgress
<1> HIDE DEF w
<1>6. /\ sock'[cur].peer = sock[cur].peer
      /\ \A d \in Clients : d # cur => sock'[d] = sock[d]
  BY <1>1, <1>3, <1>4, WroteSock DEF IInv
<1>7. wire'[cur] = Units(0, HdrLen + chunk.from + chunk.written + w)
      /\ Len(wire'[cur]) = HdrLen + chunk.from + chunk.written + w
      /\ \A d \in Clients : d # cur => wire'[d] = wire[d]
  <2>1. HdrLen + chunk.from + chunk.written \in Nat
    BY <1>1, <1>2
  <2>. QED  BY <2>1, <1>1, <1>3, <1>4, <1>5, MoreOnWire DEF IInv
<1>8. wire'[cur] = Units(0, Len(wire'[cur])) /\ Len(wire'[cur]) <= promise[cur]
  <2>1. HdrLen + chunk.from + chunk.written + w <= HdrLen + conn[cur].file_size
    <3>1. chunk.from + chunk.n <= conn[cur].file_size
      BY <1>5
    <3>. QED  BY <3>1, <1>1, <1>2, <1>3
  <2>. QED  BY <2>1, <1>5, <1>7
<1>9. /\ conn'[cur].file_offset = IF all THEN conn[cur].file_offset + chunk.n ELSE conn[cur].file_offset
      /\ conn'[cur].state = conn[cur].state /\ conn'[cur].file_fd = conn[cur].file_fd
      /\ conn'[cur].file_size = conn[cur].file_size
      /\ \A d \in Clients : d # cur => conn'[d] = conn[d]
  BY <1>1, <1>2, <1>4 DEF IInv, TypeOK, ConnType
<1>10. FileProgress(cur)'
  <2>1. CASE all
    <3>1. Len(wire'[cur]) = HdrLen + conn'[cur].file_offset
          /\ fdtab[conn[cur].file_fd].pos = conn'[cur].file_offset
      <4>1. HdrLen + chunk.from + chunk.written + w = HdrLen + (chunk.from + chunk.n)
        BY <2>1, <1>1, <1>2, <1>3
      <4>2. conn'[cur].file_offset = chunk.from + chunk.n
        BY <2>1, <1>5, <1>9
      <4>. QED  BY <4>1, <4>2, <1>5, <1>7
    <3>. QED  BY <2>1, <3>1, <1>4, <1>9 DEF FileProgress
  <2>2. CASE ~all
    <3>1. chunk'.from = chunk.from /\ chunk'.n = chunk.n /\ chunk'.written = chunk.written + w
      BY <2>2, <1>4 DEF IInv, TypeOK, ChunkType
    <3>2. Len(wire'[cur]) = HdrLen + chunk'.from + chunk'.written
      BY <3>1, <1>1, <1>2, <1>3, <1>7
    <3>. QED  BY <2>2, <3>1, <3>2, <1>4, <1>5, <1>9 DEF FileProgress
  <2>. QED  BY <2>1, <2>2
<1>11. conn'[cur].file_offset <= conn'[cur].file_size
  BY <1>1, <1>2, <1>5, <1>9
<1>12. Progress(cur)'
  BY <1>1, <1>4, <1>5, <1>8, <1>9, <1>10, <1>11 DEF Progress
<1>20. disk' = disk /\ Grows(cur)
  <2>1. disk' = disk
    BY DEF FileWrite
  <2>. QED  BY <2>1, <1>2, <1>3, <1>1, <1>4, <1>5, <1>7 DEF Grows
<1>. QED  BY <1>1, <1>4, <1>6, <1>7, <1>9, <1>12, <1>20, CurKeeps DEF LiveStates

(* The part of a chunk that was written ends within the file. *)
LEMMA PartOfChunk ==
  ASSUME NEW from \in Nat, NEW count \in Nat, NEW part \in Nat, NEW size \in Nat, NEW header \in Nat,
         part < count, from + count <= size
  PROVE  from + part <= size /\ header + from + part = header + (from + part)
OBVIOUS

(* EAGAIN in the file loop: offset and position are both set to the end of the wire. *)
LEMMA FileWriteAgainOrder ==
  ASSUME IInv, IInv', OrderInv, FileWriteAgain
  PROVE  OrderInv' /\ Ends /\ Moves
<1> DEFINE o == conn[cur].file_offset + chunk.written
           f == conn[cur].file_fd
<1>1. cur \in Clients /\ Live(cur) /\ conn[cur].state = "WRITE_FILE" /\ pc \in HandlerPcs
      /\ pc = "file_write" /\ f \in Fds /\ f # NoFd /\ chunk.written < chunk.n
      /\ chunk.written \in Nat /\ chunk.n \in Nat
  BY FieldTypes DEF IInv, TypeOK, ChunkType, ThreadInv, ConnInv, HandlerPcs, Pcs, FileWriteAgain
<1>2. /\ conn[cur] \in ConnType /\ fdtab[f] \in DescriptorType /\ HdrLen \in Nat
      /\ conn[cur].file_offset \in Nat /\ conn[cur].file_size \in Nat
  BY <1>1, FieldTypes, ServerAssumption DEF ServerAssumption, IInv, TypeOK
<1>3. /\ UNCHANGED <<batch, ev, cur, promise, wire>>
      /\ sock' = [sock EXCEPT ![cur] = Refused(@)] /\ pc' = "after_write"
      /\ conn' = [conn EXCEPT ![cur] = [conn[cur] EXCEPT !.file_offset = o]]
      /\ fdtab' = [fdtab EXCEPT ![f] = [fdtab[f] EXCEPT !.pos = o]]
  BY <1>1 DEF FileWriteAgain, IInv, TypeOK
<1>4. /\ promise[cur] = HdrLen + conn[cur].file_size /\ conn[cur].file_size <= FileLen
      /\ chunk.from = conn[cur].file_offset /\ chunk.from + chunk.n <= conn[cur].file_size
      /\ Len(wire[cur]) = HdrLen + chunk.from + chunk.written
      /\ wire[cur] = Units(0, Len(wire[cur])) /\ Len(wire[cur]) <= promise[cur]
  BY <1>1 DEF OrderInv, Progress, FileProgress
<1>5. Len(wire[cur]) = HdrLen + o /\ o <= conn[cur].file_size
  <2>1. chunk.from = conn[cur].file_offset /\ chunk.from + chunk.n <= conn[cur].file_size
        /\ Len(wire[cur]) = HdrLen + chunk.from + chunk.written
    BY <1>4
  <2>2. /\ chunk.written \in Nat /\ chunk.n \in Nat /\ chunk.written < chunk.n
        /\ HdrLen \in Nat /\ conn[cur].file_offset \in Nat /\ conn[cur].file_size \in Nat
    BY <1>1, <1>2
  <2>. QED  BY <2>1, <2>2, PartOfChunk
<1> HIDE DEF o
<1>6. sock'[cur].peer = sock[cur].peer /\ \A d \in Clients : d # cur => sock'[d] = sock[d]
  BY <1>1, <1>3, RefusedSock DEF IInv
<1>7. /\ conn'[cur].file_offset = o
      /\ conn'[cur].state = conn[cur].state /\ conn'[cur].file_fd = f
      /\ conn'[cur].file_size = conn[cur].file_size
      /\ \A d \in Clients : d # cur => conn'[d] = conn[d]
  BY <1>1, <1>2, <1>3 DEF IInv, TypeOK, ConnType
<1>8. fdtab'[f].pos = o /\ \A g \in Fds : g # f => fdtab'[g] = fdtab[g]
  BY <1>1, <1>2, <1>3 DEF IInv, TypeOK, DescriptorType
<1>9. ASSUME NEW d \in Clients, d # cur, Live(d), conn[d].file_fd # NoFd
      PROVE  fdtab'[conn[d].file_fd].pos = fdtab[conn[d].file_fd].pos
  <2>1. conn[d].file_fd \in Fds /\ conn[d].file_fd # f
    BY <1>1, <1>9, FilesApart
  <2>. QED  BY <1>8, <2>1
<1>10. FileProgress(cur)'
  BY <1>3, <1>5, <1>7, <1>8 DEF FileProgress
<1>11. Progress(cur)'
  BY <1>1, <1>3, <1>4, <1>5, <1>7, <1>10 DEF Progress
<1>20. disk' = disk /\ Grows(cur)
  <2>1. Len(wire[cur]) \in Nat
    BY <1>1 DEF IInv, TypeOK
  <2>. QED  BY <2>1, <1>3 DEF Grows, FileWriteAgain
<1>. QED  BY <1>1, <1>3, <1>6, <1>7, <1>9, <1>11, <1>20, CurKeeps DEF LiveStates

-----------------------------------------------------------------------------
(* Connections begin, peers and the file move. *)

(* An accepted connection has nothing on the wire, and nothing promised. *)
LEMMA AcceptOrder ==
  ASSUME IInv, IInv', OrderInv, NEW c \in Clients, NEW f \in Fds, Accept(c, f), UNCHANGED http1Vars
  PROVE  OrderInv' /\ Ends /\ Moves
<1>1. cur = NoClient /\ conn[c].state = "NONE" /\ pc = "accept" /\ NoClient \notin Clients
  BY KernelAssumption DEF KernelAssumption, Accept, IInv, QueueInv, ThreadInv
<1>2. /\ UNCHANGED <<batch, promise, wire>> /\ pc' = "next"
      /\ fdtab' = [fdtab EXCEPT ![f] = ASocket] /\ f \in FreeFds
  BY DEF Accept, NextEvent, Lowest
<1>3. /\ conn'[c].state = "READ_REQUEST" /\ conn'[c].file_offset = 0 /\ conn'[c].file_size = 0
      /\ sock'[c].peer = sock[c].peer
      /\ \A d \in Clients : d # c => conn'[d] = conn[d] /\ sock'[d] = sock[d]
  <2>1. sock[c] \in SockType
    BY FieldTypes DEF IInv
  <2>. QED  BY <2>1 DEF Accept, create_connection, Blank, Interested, IInv, TypeOK, SockType
<1>4. ASSUME NEW d \in Clients PROVE Progress(d)'
  <2>1. CASE d = c
    <3>1. Progress(c)
      BY DEF OrderInv
    <3>. QED  BY <2>1, <3>1, <1>1, <1>2, <1>3 DEF Progress
  <2>2. CASE d # c
    <3>1. Live(d) /\ conn[d].file_fd # NoFd => fdtab'[conn[d].file_fd] = fdtab[conn[d].file_fd]
      BY <1>2, FilesApart
    <3>. QED  BY <2>2, <3>1, <1>1, <1>2, <1>3, Unaffected DEF OrderPcs, RequestPcs
  <2>. QED  BY <2>1, <2>2
<1>5. HangUpInv'
  <2>1. \A d \in Clients : sock'[d].peer = sock[d].peer
    BY <1>3
  <2>2. \A e \in batch : e.fd # ListenFd => e.sock \in Clients
    BY DEF IInv, QueueInv
  <2>3. \A d \in Clients : conn'[d].state = "FREED" <=> sock'[d].peer = "closed"
    BY <1>1, <1>3, <2>1 DEF OrderInv, HangUpInv
  <2>. QED  BY <1>2, <2>1, <2>2, <2>3 DEF OrderInv, HangUpInv, HandlerPcs
<1>6. Ends
  BY <1>1, <1>3 DEF Ends, LiveStates
<1>7. Moves
  <2>1. \A d \in Clients : d # c => Rests(d)
    BY <1>2, <1>3 DEF Rests, SameStage, SamePeer, SameReply
  <2>2. MovesClient(c)
    BY <1>1, <1>2, <1>3, FreedFields DEF MovesClient, Ended, SamePeer, SameReply, LiveStates
  <2>3. disk' = disk
    BY DEF Accept
  <2>. QED  BY <2>1, <2>2, <2>3 DEF Moves
<1>. QED  BY <1>4, <1>5, <1>6, <1>7 DEF OrderInv

(* A socket that is closed right after accept was never a connection. *)
LEMMA AcceptRefusedOrder ==
  ASSUME IInv, IInv', OrderInv, NEW c \in Clients, AcceptRefused(c), UNCHANGED http1Vars
  PROVE  OrderInv' /\ Ends /\ Moves
<1>1. cur = NoClient /\ conn[c].state = "NONE" /\ pc = "accept" /\ NoClient \notin Clients
  BY KernelAssumption DEF KernelAssumption, AcceptRefused, IInv, QueueInv, ThreadInv
<1>2. UNCHANGED <<batch, promise, wire, fdtab>> /\ pc' = "next"
  BY DEF AcceptRefused, NextEvent
<1>3. /\ conn'[c] = Freed /\ sock'[c] = ClosedSock
      /\ \A d \in Clients : d # c => conn'[d] = conn[d] /\ sock'[d] = sock[d]
  BY DEF AcceptRefused, IInv, TypeOK
<1>4. ASSUME NEW d \in Clients PROVE Progress(d)'
  <2>1. CASE d = c
    <3>1. Progress(c)
      BY DEF OrderInv
    <3>. QED  BY <2>1, <3>1, <1>1, <1>2, <1>3, FreedFields DEF Progress
  <2>2. CASE d # c
    BY <2>2, <1>1, <1>2, <1>3, Unaffected DEF OrderPcs, RequestPcs
  <2>. QED  BY <2>1, <2>2
<1>5. HangUpInv'
  <2>1. \A e \in batch : e.fd # ListenFd => e.sock \in Clients /\ e.sock # c
    BY <1>1 DEF IInv, QueueInv, LiveStates
  <2>. QED  BY <1>2, <1>3, <2>1, FreedFields DEF OrderInv, HangUpInv, HandlerPcs
<1>6. Ends
  BY <1>1, <1>3 DEF Ends, LiveStates
<1>7. Moves
  <2>1. \A d \in Clients : d # c => Rests(d)
    BY <1>2, <1>3 DEF Rests, SameStage, SamePeer, SameReply
  <2>2. MovesClient(c)
    BY <1>1, <1>2, <1>3, FreedFields DEF MovesClient, Ended, SamePeer, SameReply, LiveStates
  <2>3. disk' = disk
    BY DEF AcceptRefused
  <2>. QED  BY <2>1, <2>2, <2>3 DEF Moves
<1>. QED  BY <1>4, <1>5, <1>6, <1>7 DEF OrderInv

(* Peers send, take units and leave; the dead stay dead. *)
LEMMA PeerOrder ==
  ASSUME IInv, IInv', OrderInv, NEW c \in Clients, PeerStep(c)
  PROVE  OrderInv' /\ Ends /\ Moves
<1>1. UNCHANGED <<conn, pc, batch, ev, cur, chunk, promise, fdtab, wire>>
  BY DEF PeerStep, Connect, SendUnit, Drain, Fin, Reset, serverVars
<1>2. /\ \A d \in Clients : d # c => sock'[d] = sock[d]
      /\ sock'[c].peer # "closed"
      /\ sock[c].peer \in Dead => sock'[c].peer \in Dead
      /\ sock[c].peer # "closed"
      /\ sock[c].snd <= 1 => sock'[c].snd <= 1
      /\ sock[c].peer \in Gone => sock'[c].peer \in Gone
  <2>1. sock[c] \in SockType /\ sock[c].snd \in Nat /\ sock \in [Clients -> SockType]
    BY FieldTypes, KernelAssumption DEF KernelAssumption, IInv, TypeOK
  <2>2. CASE Connect(c)
    BY <2>1, <2>2 DEF Connect, SockType, Dead, Gone
  <2>3. CASE SendUnit(c)
    BY <2>1, <2>3 DEF SendUnit, SockType, Dead, Gone
  <2>4. CASE Drain(c)
    BY <2>1, <2>4 DEF Drain, SockType, Dead, Gone
  <2>5. CASE Fin(c)
    BY <2>1, <2>5 DEF Fin, SockType, Dead, Gone
  <2>6. CASE Reset(c)
    BY <2>1, <2>6 DEF Reset, SockType, Dead, Gone
  <2>. QED  BY <2>2, <2>3, <2>4, <2>5, <2>6 DEF PeerStep
<1>3. ASSUME NEW d \in Clients PROVE Progress(d)'
  <2>1. Progress(d)
    BY DEF OrderInv
  <2>2. FileProgress(d)' = FileProgress(d)
    BY <1>1 DEF FileProgress
  <2>3. sock[d].snd <= 1 => sock'[d].snd <= 1
    BY <1>2
  <2>. QED  BY <2>1, <2>2, <2>3, <1>1 DEF Progress
<1>4. HangUpInv'
  <2>1. \A e \in batch : e.fd # ListenFd => e.sock \in Clients
    BY DEF IInv, QueueInv
  <2>2. pc \in HandlerPcs \cup {"after_read", "after_write"} => cur \in Clients
    BY DEF IInv, ThreadInv
  <2>. QED  BY <1>1, <1>2, <2>1, <2>2 DEF OrderInv, HangUpInv
<1>5. Ends
  BY <1>1 DEF Ends
<1>6. Moves
  <2>1. \A d \in Clients : SameStage(d) /\ SameReply(d) /\ (d # c => SamePeer(d))
    BY <1>1, <1>2 DEF SameStage, SamePeer, SameReply
  <2>2. SamePeer(c) \/ (sock[c].peer \notin Gone /\ sock'[c].peer \in Gone)
    BY <1>2 DEF SamePeer
  <2>3. disk' = disk
    BY DEF PeerStep, Connect, SendUnit, Drain, Fin, Reset
  <2>4. conn[c].state # "FREED"
    BY <1>2 DEF OrderInv, HangUpInv
  <2>. QED  BY <2>1, <2>2, <2>3, <2>4 DEF Moves, MovesClient, Rests
<1>. QED  BY <1>3, <1>4, <1>5, <1>6 DEF OrderInv

LEMMA OrderInit == Init => OrderInv
<1> SUFFICES ASSUME Init PROVE OrderInv
  OBVIOUS
<1> USE DEF Init, LoopInit, KernelInit
<1>1. HangUpInv
  BY DEF HangUpInv, HandlerPcs, NewSock, Blank
<1>2. ASSUME NEW c \in Clients PROVE Progress(c)
  <2>1. Units(0, 0) = <<>> /\ Len(<<>>) = 0
    BY DEF Units
  <2>. QED  BY <2>1 DEF Progress, Blank
<1>. QED  BY <1>1, <1>2 DEF OrderInv

(* Every step keeps the order, and ends connections for a reason. *)
LEMMA OrderNext ==
  ASSUME IInv, OrderInv, [Next]_vars
  PROVE  OrderInv' /\ Moves /\ (DirectLen <= SndCap => Ends)
<1>1. IInv'
  BY NextKeeps
<1>2. CASE ServerStep
  <2>1. CASE LoopStep /\ UNCHANGED http1Vars
    <3>1. CASE EpollWait \/ BatchDone \/ (\E e \in batch : TakeEvent(e)) \/ AfterRead \/ AcceptFails
      BY <1>1, <2>1, <3>1, LoopSteps
    <3>2. CASE AfterWrite
      BY <1>1, <2>1, <3>2, AfterWriteOrder
    <3>3. CASE (\E c \in Clients, f \in Fds : Accept(c, f)) \/ \E c \in Clients : AcceptRefused(c)
      BY <1>1, <2>1, <3>3, AcceptOrder, AcceptRefusedOrder
    <3>4. CASE SniffRead \/ Http1Read
      <4>1. /\ pc \in {"sniff", "read"} /\ Receive(cur)
            /\ UNCHANGED <<fdtab, wire, pc, batch, ev, cur, promise, disk>>
        BY <2>1, <3>4 DEF SniffRead, Http1Read
      <4>. QED  BY <1>1, <4>1, ReceiveOrder
    <3>5. CASE ReadEnd \/ SigPipe
      BY <1>1, <2>1, <3>5, ReadEndOrder, SigPipeOrder
    <3>. QED  BY <2>1, <3>1, <3>2, <3>3, <3>4, <3>5 DEF LoopStep
  <2>2. CASE (SniffDone("HTTP1") /\ UNCHANGED http1Vars) \/ Http1ReadDone
    BY <1>1, <2>2, ReadDoneOrder
  <2>3. CASE BadRequest \/ StaticError \/ \E m \in {"GET", "HEAD", "OTHER"} : ParsedRequest(m)
    BY <1>1, <2>3, RequestOrder
  <2>4. CASE \E f \in Fds : StaticFile(f)
    BY <1>1, <2>4, StaticFileOrder
  <2>5. CASE DirectHeader \/ DirectBody \/ WriteError
    BY <1>1, <2>5, DirectHeaderOrder, DirectBodyOrder, WriteErrorOrder
  <2>6. CASE SendHeader \/ SendHeaderAgain
    BY <1>1, <2>6, SendHeaderOrder, SendHeaderAgainOrder
  <2>7. CASE FileRead \/ FileDone \/ FileWrite \/ FileWriteAgain
    BY <1>1, <2>7, FileReadOrder, FileDoneOrder, FileWriteOrder, FileWriteAgainOrder
  <2>. QED  BY <1>2, <2>1, <2>2, <2>3, <2>4, <2>5, <2>6, <2>7 DEF ServerStep
<1>3. CASE PluginReturns
  BY <1>1, <1>3, RequestOrder
<1>4. CASE \E c \in Clients : PeerStep(c)
  BY <1>1, <1>4, PeerOrder
<1>5. CASE DiskStep \/ UNCHANGED vars
  <2>1. UNCHANGED <<conn, pc, batch, ev, cur, chunk, promise, fdtab, wire, sock>>
    BY <1>5 DEF DiskStep, TruncateFile, vars, kernelVars, serverVars
  <2>2. ASSUME NEW d \in Clients PROVE Progress(d)'
    BY <2>1 DEF OrderInv, Progress, FileProgress
  <2>4. disk' = disk \/ (disk = FileLen /\ disk' < FileLen)
    BY <1>5, KernelAssumption
    DEF KernelAssumption, DiskStep, TruncateFile, vars, kernelVars
  <2>3. HangUpInv' /\ Ends /\ Moves
    BY <2>1, <2>4 DEF OrderInv, HangUpInv, Ends, Moves, Rests, SameStage, SamePeer, SameReply
  <2>. QED  BY <2>2, <2>3 DEF OrderInv
<1>. QED  BY <1>2, <1>3, <1>4, <1>5 DEF Next

(* What a client is sent is the beginning of what it was promised, in order and
   without a gap, for every way the sends are split and interrupted, whatever the
   other clients do, and however often the file is read again after EAGAIN. *)
THEOREM SentInOrder == Spec => []WireInOrder
<1>1. Init => IInv /\ OrderInv
  BY InitHolds, OrderInit
<1>2. IInv /\ OrderInv /\ [Next]_vars => (IInv /\ OrderInv)'
  BY NextKeeps, OrderNext
<1>3. OrderInv => WireInOrder
  BY DEF OrderInv, Progress, WireInOrder
<1>. QED  BY <1>1, <1>2, <1>3, PTL DEF Spec

(* A client that is still there is not cut off, if the send buffer takes a direct
   response: send_response does not look at what its second write returns. *)
THEOREM NobodyCutOff ==
  ASSUME DirectLen <= SndCap
  PROVE  Spec => ClosedOnlyWhenAnswered
<1>1. Init => IInv /\ OrderInv
  BY InitHolds, OrderInit
<1>2. IInv /\ OrderInv /\ [Next]_vars => (IInv /\ OrderInv)' /\ Ends
  BY NextKeeps, OrderNext
<1>3. Ends => [\A c \in Clients :
                 (Live(c) /\ ~Live(c)' /\ sock[c].peer = "up")
                   => \/ promise[c] > 0 /\ Len(wire'[c]) = promise[c]
                      \/ disk < conn[c].file_size]_vars
  BY DEF Ends, Gone
<1>. QED  BY <1>1, <1>2, <1>3, PTL DEF Spec, ClosedOnlyWhenAnswered
-----------------------------------------------------------------------------
(* The variables of HttpExchange, read off those of Http1Server. *)
phases == [c \in Clients |-> Phase(c)]
lefts == [c \in Clients |-> sock[c].peer \in Gone]
exchange == <<phases, promise, wire, lefts, disk < FileLen>>

(* The phase of a client is told by the state of its connection and its response. *)
LEMMA PhaseOf ==
  ASSUME NEW c \in Clients, IInv
  PROVE  /\ conn[c].state \in {"NONE", "FREED"} \/ Live(c)
         /\ conn[c].state = "NONE" => Phase(c) = "idle"
         /\ Live(c) => Phase(c) = IF promise[c] = 0 THEN "open" ELSE "answering"
         /\ conn[c].state = "FREED" =>
              Phase(c) = IF promise[c] > 0 /\ Len(wire[c]) = promise[c]
                           THEN "answered" ELSE "dropped"
<1>1. conn[c].state \in LiveStates \cup {"NONE", "FREED"} /\ promise[c] \in Nat
  BY DEF IInv, TypeOK, ConnType
<1>. QED  BY <1>1 DEF Phase, LiveStates

LEMMA PhaseAfter ==
  ASSUME NEW c \in Clients, IInv'
  PROVE  /\ conn'[c].state \in {"NONE", "FREED"} \/ conn'[c].state \in LiveStates
         /\ conn'[c].state = "NONE" => Phase(c)' = "idle"
         /\ conn'[c].state \in LiveStates =>
              Phase(c)' = IF promise'[c] = 0 THEN "open" ELSE "answering"
         /\ conn'[c].state = "FREED" =>
              Phase(c)' = IF promise'[c] > 0 /\ Len(wire'[c]) = promise'[c]
                            THEN "answered" ELSE "dropped"
<1>1. conn'[c].state \in LiveStates \cup {"NONE", "FREED"} /\ promise'[c] \in Nat
  BY DEF IInv, TypeOK, ConnType
<1>. QED  BY <1>1 DEF Phase, LiveStates

(* A client that a step leaves as it was. *)
LEMMA RestsMaps ==
  ASSUME IInv, IInv', NEW c \in Clients, Rests(c)
  PROVE  /\ Phase(c)' = Phase(c)
         /\ (sock'[c].peer \in Gone) = (sock[c].peer \in Gone)
<1>1. Phase(c)' = Phase(c)
  BY PhaseOf, PhaseAfter DEF Rests, SameStage, SameReply, LiveStates
<1>. QED  BY <1>1 DEF Rests, SamePeer

(* A step moves one client as an action of HttpExchange does. *)
LEMMA ClientMaps ==
  ASSUME IInv, IInv', OrderInv, OrderInv', Ends, NEW c \in Clients, MovesClient(c), disk' = disk,
         \A d \in Clients : d # c => Rests(d)
  PROVE  [Exchange!Next]_exchange
<1> DEFINE Goal == [Exchange!Next]_exchange
<1>1. \A d \in Clients : d # c =>
        /\ Phase(d)' = Phase(d) /\ (sock'[d].peer \in Gone) = (sock[d].peer \in Gone)
        /\ promise'[d] = promise[d] /\ wire'[d] = wire[d]
  BY RestsMaps DEF Rests, SameReply
<1>2. /\ promise \in [Clients -> Nat] /\ promise' \in [Clients -> Nat]
      /\ wire \in [Clients -> Seq(Nat)] /\ wire' \in [Clients -> Seq(Nat)]
  BY DEF IInv, TypeOK
<1>3. /\ wire'[c] = Units(0, Len(wire'[c])) /\ Len(wire'[c]) <= promise'[c]
      /\ Len(wire'[c]) \in Nat /\ Len(wire[c]) \in Nat
  BY <1>2 DEF OrderInv, Progress
<1>4. ASSUME NEW n \in Nat PROVE Units(0, n) = Exchange!Whole(n)
  BY DEF Units, Exchange!Whole
<1>5. lefts' = [lefts EXCEPT ![c] = sock'[c].peer \in Gone]
  BY <1>1 DEF lefts
<1>6. phases' = [phases EXCEPT ![c] = Phase(c)']
  BY <1>1 DEF phases
<1>7. promise' = [promise EXCEPT ![c] = promise'[c]] /\ wire' = [wire EXCEPT ![c] = wire'[c]]
  BY <1>1, <1>2
<1>14. /\ wire'[c] = wire[c] => wire' = wire
       /\ promise'[c] = promise[c] => promise' = promise
  BY <1>1, <1>2
<1>15. Ended(c) => lefts' = [lefts EXCEPT ![c] = FALSE]
  <2>1. Ended(c) => (sock'[c].peer \in Gone) = FALSE
    BY DEF Ended, Gone
  <2>. QED  BY <1>5, <2>1
<1>16. SamePeer(c) => lefts' = lefts
  BY <1>1 DEF lefts, SamePeer
<1>8. phases[c] = Phase(c) /\ lefts[c] = (sock[c].peer \in Gone)
  BY DEF phases, lefts
<1>9. /\ Live(c) => phases[c] = IF promise[c] = 0 THEN "open" ELSE "answering"
      /\ conn[c].state = "NONE" => phases[c] = "idle"
  BY <1>8, PhaseOf
<1>10. CASE Live(c) /\ SameStage(c) /\ SamePeer(c) /\ Grows(c)
  <2>1. Phase(c)' = IF promise'[c] = 0 THEN "open" ELSE "answering"
    BY <1>10, PhaseAfter DEF SameStage
  <2>2. lefts' = lefts
    BY <1>10, <1>16
  <2>3. CASE promise'[c] = promise[c] /\ promise[c] = 0
    <3>1. wire[c] = Units(0, Len(wire[c])) /\ Len(wire[c]) <= promise[c]
      BY DEF OrderInv, Progress
    <3>2. Len(wire[c]) = 0 /\ Len(wire'[c]) = 0
      BY <1>3, <2>3, <3>1
    <3>3. wire'[c] = wire[c]
      BY <1>3, <3>1, <3>2
    <3>4. phases' = phases
      BY <1>1, <1>9, <1>10, <2>1, <2>3, <1>8 DEF phases
    <3>5. wire' = wire /\ promise' = promise
      BY <1>1, <1>2, <2>3, <3>3
    <3>. QED  BY <2>2, <3>4, <3>5 DEF exchange
  <2>4. CASE promise'[c] = promise[c] /\ promise[c] # 0
    <3>1. Len(wire[c]) <= Len(wire'[c])
      BY <1>10, <2>4, <1>3 DEF Grows
    <3>2. Len(wire'[c]) \in Len(wire[c])..promise[c] /\ wire'[c] = Exchange!Whole(Len(wire'[c]))
      BY <1>2, <1>3, <1>4, <2>4, <3>1
    <3>3. phases' = phases /\ phases[c] = "answering" /\ promise' = promise
      BY <1>1, <1>2, <1>9, <1>10, <2>1, <2>4, <1>8 DEF phases
    <3>4. Exchange!Deliver(c)
      BY <1>7, <2>2, <3>2, <3>3 DEF Exchange!Deliver, phases, lefts
    <3>. QED  BY <3>4 DEF Exchange!Next
  <2>5. CASE promise[c] = 0 /\ promise'[c] \in ReplyLengths /\ wire'[c] = wire[c]
    <3>1. promise'[c] # 0
      BY <2>5, KernelAssumption, ServerAssumption DEF KernelAssumption, ServerAssumption, ReplyLengths
    <3>2. phases[c] = "open" /\ phases' = [phases EXCEPT ![c] = "answering"] /\ wire' = wire
      BY <1>6, <1>9, <1>10, <1>14, <2>1, <2>5, <3>1
    <3>3. Exchange!Announce(c)
      BY <1>7, <2>2, <2>5, <3>2 DEF Exchange!Announce, Exchange!Move, phases, lefts, ReplyLengths
    <3>. QED  BY <3>3 DEF Exchange!Next
  <2>. QED  BY <1>10, <2>3, <2>4, <2>5 DEF Grows
<1>11. CASE Live(c) /\ Ended(c) /\ promise'[c] = promise[c]
  <2>1. Phase(c)' = IF promise[c] > 0 /\ Len(wire'[c]) = promise[c] THEN "answered" ELSE "dropped"
    BY <1>11, PhaseAfter DEF Ended
  <2>2. promise' = promise /\ lefts' = [lefts EXCEPT ![c] = FALSE]
    BY <1>11, <1>14, <1>15
  <2>3. CASE promise[c] > 0 /\ Len(wire'[c]) = promise[c]
    <3>1. phases[c] = "answering" /\ phases' = [phases EXCEPT ![c] = "answered"]
      <4>1. promise[c] # 0 /\ Phase(c)' = "answered"
        BY <1>2, <2>1, <2>3
      <4>. QED  BY <1>6, <1>9, <1>11, <4>1
    <3>2. wire' = [wire EXCEPT ![c] = Exchange!Whole(promise[c])]
      BY <1>3, <1>4, <1>7, <2>3
    <3>3. Exchange!Finish(c)
      BY <2>2, <3>1, <3>2 DEF Exchange!Finish, Exchange!Move, phases, lefts
    <3>. QED  BY <3>3 DEF Exchange!Next
  <2>4. CASE ~(promise[c] > 0 /\ Len(wire'[c]) = promise[c])
    <3>1. wire'[c] = wire[c] /\ (sock[c].peer \in Gone \/ disk < conn[c].file_size)
      BY <1>11, <2>4 DEF Ends, Ended, LiveStates
    <3>2. /\ phases' = [phases EXCEPT ![c] = "dropped"] /\ wire' = wire
          /\ phases[c] = IF promise[c] = 0 THEN "open" ELSE "answering"
      BY <1>6, <1>9, <1>11, <1>14, <2>1, <2>4, <3>1
    <3>3. sock[c].peer \in Gone \/ (promise[c] # 0 /\ disk < FileLen)
      <4>1. disk \in Nat /\ FileLen \in Nat /\ HdrLen \in Nat /\ HdrLen > 0 /\ conn[c].file_size \in Nat
        BY FieldTypes, KernelAssumption, ServerAssumption
        DEF KernelAssumption, ServerAssumption, IInv, TypeOK
      <4>2. conn[c].state \in {"READ_REQUEST", "PROCESS"} => conn[c].file_size = 0
        BY DEF OrderInv, Progress
      <4>3. conn[c].state \in {"WRITE_RESPONSE", "WRITE_FILE"} =>
              conn[c].file_size <= FileLen /\ promise[c] # 0
        BY <4>1, <1>2 DEF OrderInv, Progress
      <4>. QED  BY <1>11, <3>1, <4>1, <4>2, <4>3 DEF LiveStates
    <3>4. Exchange!Drop(c)
      BY <1>8, <2>2, <3>2, <3>3 DEF Exchange!Drop, Exchange!Move, phases, lefts
    <3>. QED  BY <3>4 DEF Exchange!Next
  <2>. QED  BY <2>3, <2>4
<1>12. CASE /\ conn[c].state # "FREED" /\ SameStage(c) /\ SameReply(c)
            /\ sock[c].peer \notin Gone /\ sock'[c].peer \in Gone
  <2>1. phases[c] \notin Exchange!Ended
    BY <1>9, <1>12, PhaseOf DEF Exchange!Ended
  <2>2. phases' = phases
    BY <1>1, <1>12, PhaseOf, PhaseAfter DEF phases, SameStage, SameReply
  <2>3. promise' = promise /\ wire' = wire
    BY <1>12, <1>14 DEF SameReply
  <2>5. lefts' = [lefts EXCEPT ![c] = TRUE]
    <3>1. (sock'[c].peer \in Gone) = TRUE
      BY <1>12
    <3>. QED  BY <1>5, <3>1
  <2>4. Exchange!Leave(c)
    BY <1>8, <1>12, <2>1, <2>2, <2>3, <2>5 DEF Exchange!Leave, phases, lefts
  <2>. QED  BY <2>4 DEF Exchange!Next
<1>13. CASE conn[c].state = "NONE"
  <2>1. promise[c] = 0 /\ phases[c] = "idle" /\ ~Live(c)
    BY <1>9, <1>13 DEF OrderInv, Progress, LiveStates
  <2>2. CASE conn'[c].state \in LiveStates /\ SamePeer(c) /\ SameReply(c)
    <3>1. phases' = [phases EXCEPT ![c] = "open"]
      BY <1>6, <2>1, <2>2, PhaseAfter DEF SameReply
    <3>2. promise' = promise /\ wire' = wire /\ lefts' = lefts
      BY <1>14, <1>16, <2>2 DEF SameReply
    <3>3. Exchange!Open(c)
      BY <2>1, <3>1, <3>2 DEF Exchange!Open, Exchange!Move, phases, lefts
    <3>. QED  BY <3>3 DEF Exchange!Next
  <2>3. CASE Ended(c) /\ SameReply(c)
    <3>1. phases' = [phases EXCEPT ![c] = "dropped"]
      <4>1. conn'[c].state = "FREED" /\ ~(promise'[c] > 0)
        BY <2>1, <2>3 DEF SameReply, Ended
      <4>2. Phase(c)' = "dropped"
        BY <4>1, PhaseAfter
      <4>. QED  BY <1>6, <4>2
    <3>2. promise' = promise /\ wire' = wire /\ lefts' = [lefts EXCEPT ![c] = FALSE]
      BY <1>14, <1>15, <2>3 DEF SameReply
    <3>3. Exchange!Drop(c)
      BY <2>1, <3>1, <3>2 DEF Exchange!Drop, Exchange!Move, phases, lefts
    <3>. QED  BY <3>3 DEF Exchange!Next
  <2>4. CASE SameStage(c) /\ SameReply(c) /\ sock[c].peer \notin Gone /\ sock'[c].peer \in Gone
    BY <1>12, <1>13, <2>4
  <2>. QED  BY <1>13, <2>1, <2>2, <2>3, <2>4 DEF MovesClient
<1>. QED  BY <1>10, <1>11, <1>13, <1>12 DEF MovesClient

(* Every step of Http1Server is a step of HttpExchange or leaves its variables. *)
LEMMA StepMaps ==
  ASSUME IInv, IInv', OrderInv, OrderInv', Ends, Moves
  PROVE  [Exchange!Next]_exchange
<1>1. CASE disk' = disk /\ \E c \in Clients : MovesClient(c) /\ \A d \in Clients : d # c => Rests(d)
  BY <1>1, ClientMaps
<1>2. CASE /\ disk' = disk \/ (disk = FileLen /\ disk' < FileLen)
           /\ \A d \in Clients : Rests(d)
  <2>1. phases' = phases /\ lefts' = lefts
    BY <1>2, RestsMaps DEF phases, lefts
  <2>2. promise' = promise /\ wire' = wire
    BY <1>2 DEF Rests, SameReply, IInv, TypeOK
  <2>3. CASE disk' = disk
    BY <2>1, <2>2, <2>3 DEF exchange
  <2>4. CASE disk = FileLen /\ disk' < FileLen
    <3>1. Exchange!Shorten
      BY <2>1, <2>2, <2>4, KernelAssumption DEF KernelAssumption, Exchange!Shorten, phases, lefts
    <3>. QED  BY <3>1 DEF Exchange!Next
  <2>. QED  BY <1>2, <2>3, <2>4
<1>. QED  BY <1>1, <1>2 DEF Moves

LEMMA ExchangeInit == Init => Exchange!Init
<1> SUFFICES ASSUME Init PROVE Exchange!Init
  OBVIOUS
<1>1. /\ sock = [c \in Clients |-> NewSock] /\ conn = [c \in Clients |-> Blank]
      /\ promise = [c \in Clients |-> 0] /\ wire = [c \in Clients |-> <<>>] /\ disk = FileLen
  BY DEF Init, LoopInit, KernelInit
<1>2. \A c \in Clients : Phase(c) = "idle" /\ (sock[c].peer \in Gone) = FALSE
  <2> SUFFICES ASSUME NEW c \in Clients
               PROVE  Phase(c) = "idle" /\ (sock[c].peer \in Gone) = FALSE
    OBVIOUS
  <2>1. conn[c].state = "NONE" /\ sock[c].peer = "new"
    BY <1>1 DEF Blank, NewSock
  <2>. QED  BY <2>1 DEF Phase, Gone, LiveStates
<1>3. [c \in Clients |-> Phase(c)] = [c \in Clients |-> "idle"]
  BY <1>2
<1>4. [c \in Clients |-> sock[c].peer \in Gone] = [c \in Clients |-> FALSE]
  BY <1>2
<1>5. (disk < FileLen) = FALSE
  BY <1>1, KernelAssumption DEF KernelAssumption
<1>. QED  BY <1>1, <1>3, <1>4, <1>5 DEF Exchange!Init

(* The server implements HttpExchange for any number of clients that share the loop,
   the descriptors and the file: each sees one response, whole and in order, unless
   it leaves or the file is shortened. The send buffer takes a direct response. *)
THEOREM ServerImplementsExchange ==
  ASSUME DirectLen <= SndCap
  PROVE  Spec => ImplementsExchange
<1>1. Init => IInv /\ OrderInv /\ Exchange!Init
  BY InitHolds, OrderInit, ExchangeInit
<1>2. IInv /\ OrderInv /\ [Next]_vars => (IInv /\ OrderInv)' /\ [Exchange!Next]_exchange
  BY NextKeeps, OrderNext, StepMaps
<1>. QED  BY <1>1, <1>2, PTL DEF Spec, ImplementsExchange, Exchange!Spec, Exchange!exchangeVars,
          exchange, phases, lefts

------------------------------------------------------------------------------
(* No event is lost: Http1Server arms its descriptors edge-triggered, so an event that
   the thread neither waits for nor meets is never reported again. *)

WritingPcs == {"send", "file_read", "file_write", "killed"}
Writing == {"WRITE_RESPONSE", "WRITE_FILE"}

(* Nothing waits, or an edge of the socket is still to be reported. *)
Covered(c) == c \in ready \/ Mask(sock[c]) = {}

(* The writer found a full buffer full, so that its next drain is an edge. *)
Marked(c) == sock[c].interest = {"OUT"} /\ Full(sock[c]) => "NOSPACE" \in sock[c].flags

(* What keeps a live connection from being forgotten: its handler goes on until EAGAIN,
   and what happens before that or after it is an edge, or was in the event's mask. *)
EdgeOf(c) ==
  /\ conn[c].state # "READ_REQUEST" => conn[c].protocol = "HTTP1"
  /\ c = cur /\ pc = "read" => conn[c].protocol = "HTTP1"
  /\ c # cur \/ pc \notin WritingPcs => Marked(c)
  /\ c # cur => Covered(c) \/ \E e \in batch : e.fd # ListenFd /\ e.sock = c
  /\ c = cur /\ pc \in {"after_read", "after_write"} =>
       /\ conn[c].fd = ev.fd
       /\ Covered(c) \/ (pc = "after_read" /\ "OUT" \in ev.mask /\ conn[c].state \in Writing)

(* An event waiting in the batch has a bit that its socket is read or written for. *)
MasksWanted == \A e \in batch : e.fd # ListenFd => sock[e.sock].interest \cap e.mask # {}

EdgeInv == MasksWanted /\ \A c \in Clients : Live(c) => EdgeOf(c)

(* A connection that the step does not touch. *)
LEMMA EdgeKept ==
  ASSUME EdgeInv, NEW d \in Clients, Live(d)', conn'[d] = conn[d], sock'[d] = sock[d],
         d # cur, d # cur', ready \subseteq ready' \cup {cur}, batch \subseteq batch'
  PROVE  EdgeOf(d)'
<1>1. EdgeOf(d)
  BY DEF EdgeInv
<1>. QED  BY <1>1 DEF EdgeOf, Covered, Marked

(* A live connection that waits for its requests wants to read, another to write. *)
LEMMA WhatItWants ==
  ASSUME IInv, NEW c \in Clients, Live(c)
  PROVE  /\ conn[c].state \in {"READ_REQUEST", "PROCESS"} => sock[c].interest = {"IN"}
         /\ conn[c].state \in Writing => sock[c].interest = {"OUT"}
         /\ conn[c].state \in {"READ_REQUEST", "PROCESS"} \cup Writing
BY DEF IInv, ConnInv, InterestOf, LiveStates, Writing

(* Where the others are as they were and no event of theirs is taken, it is enough to
   look at the client that is served. *)
LEMMA EdgeCur ==
  ASSUME IInv, EdgeInv, cur \in Clients, Live(cur),
         UNCHANGED <<batch, cur>>, ready \subseteq ready' \cup {cur},
         \A d \in Clients : d # cur => conn'[d] = conn[d] /\ sock'[d] = sock[d],
         Live(cur)' => EdgeOf(cur)'
  PROVE  EdgeInv'
<1>1. ASSUME NEW d \in Clients, Live(d)' PROVE EdgeOf(d)'
  <2>1. CASE d = cur
    BY <1>1, <2>1 
  <2>2. CASE d # cur
    BY <1>1, <2>2, EdgeKept
  <2>. QED  BY <2>1, <2>2
<1>2. MasksWanted'
  BY DEF EdgeInv, MasksWanted, IInv, QueueInv
<1>. QED  BY <1>1, <1>2 DEF EdgeInv

(* The connection being handled ends; nothing of the others changes. *)
LEMMA EdgeFree ==
  ASSUME IInv, EdgeInv, cur \in Clients, Live(cur), free_connection(cur), UNCHANGED batch,
         \/ cur' = cur
         \/ NextEvent
  PROVE  EdgeInv'
<1>1. /\ conn'[cur] = Freed /\ sock'[cur] = ClosedSock
      /\ \A d \in Clients : d # cur => conn'[d] = conn[d] /\ sock'[d] = sock[d]
  BY FreeConnection
<1>2. ready' = ready \ {cur} /\ cur' \in {cur, NoClient} /\ NoClient \notin Clients
  BY KernelAssumption DEF KernelAssumption, NextEvent, free_connection
<1>3. ASSUME NEW d \in Clients, conn'[d].state \in LiveStates PROVE EdgeOf(d)'
  <2>1. d # cur
    BY <1>1, <1>3, FreedFields DEF LiveStates
  <2>. QED  BY <1>1, <1>2, <1>3, <2>1, EdgeKept
<1>4. MasksWanted'
  BY <1>1 DEF EdgeInv, MasksWanted, IInv, QueueInv
<1>. QED  BY <1>3, <1>4 DEF EdgeInv

-----------------------------------------------------------------------------
(* The loop of main. *)

(* epoll_wait takes from the ready list every client whose condition still holds. *)
LEMMA EpollWaitEdge ==
  ASSUME IInv, EdgeInv, EpollWait, UNCHANGED http1Vars
  PROVE  EdgeInv'
<1>1. /\ UNCHANGED <<conn, sock, cur>> /\ pc = "wait" /\ pc' = "next" /\ batch' = Pending
      /\ batch = {} /\ cur = NoClient /\ NoClient \notin Clients /\ ready' = {}
  BY KernelAssumption DEF KernelAssumption, EpollWait, IInv, ThreadInv
<1>2. ASSUME NEW c \in Clients, Live(c) PROVE EdgeOf(c)'
  <2>1. EdgeOf(c) /\ Covered(c)
    BY <1>1, <1>2 DEF EdgeInv, EdgeOf
  <2>2. CASE Mask(sock[c]) = {}
    BY <1>1, <2>1, <2>2 DEF EdgeOf, Covered, Marked, WritingPcs
  <2>3. CASE Mask(sock[c]) # {}
    <3>1. SocketEvent(c) \in batch' /\ SocketEvent(c).sock = c
      BY <1>1, <2>1, <2>3 DEF Covered, Pending, SocketEvent
    <3>2. SocketEvent(c).fd # ListenFd
      BY <1>2 DEF SocketEvent, IInv, DescriptorsAccounted, Fds, ListenFd
    <3>. QED  BY <1>1, <2>1, <3>1, <3>2 DEF EdgeOf, Marked, WritingPcs
  <2>. QED  BY <2>2, <2>3
<1>3. ASSUME NEW e \in batch', e.fd # ListenFd PROVE sock[e.sock].interest \cap e.mask # {}
  <2>1. PICK c \in ready : Mask(sock[c]) # {} /\ e = SocketEvent(c)
    BY <1>1, <1>3 DEF Pending, ListenEvent
  <2>2. e.sock = c /\ e.mask = Mask(sock[c]) /\ c \in Clients /\ Live(c)
    BY <2>1 DEF SocketEvent, IInv, TypeOK, QueueInv
  <2>3. sock[c].interest \in {{"IN"}, {"OUT"}}
    BY <2>2, WhatItWants
  <2>4. Mask(sock[c]) \cap sock[c].interest # {}
    <3>1. "HUP" \in Poll(sock[c]) => {"IN", "OUT"} \subseteq Poll(sock[c])
      BY DEF Poll, Dead, Gone
    <3>2. Mask(sock[c]) = Poll(sock[c]) \cap (sock[c].interest \cup {"HUP"})
      BY <2>3 DEF Mask
    <3>. QED  BY <2>1, <2>3, <3>1, <3>2
  <2>. QED  BY <2>2, <2>4
<1>. QED  BY <1>1, <1>2, <1>3 DEF EdgeInv, MasksWanted
(* Main takes an event: the handler meets the condition the event was for. *)
LEMMA TakeEventEdge ==
  ASSUME IInv, EdgeInv, NEW e \in batch, TakeEvent(e), UNCHANGED http1Vars
  PROVE  EdgeInv'
<1>1. /\ UNCHANGED <<conn, sock, ready>> /\ batch' = batch \ {e} /\ pc = "next" /\ cur = NoClient
      /\ NoClient \notin Clients
  BY KernelAssumption DEF KernelAssumption, IInv, ThreadInv, TakeEvent, kernelVars
<1>2. ASSUME e.fd # ListenFd
      PROVE  /\ e.sock \in Clients /\ get_connection(e.fd) = e.sock
             /\ Live(e.sock) /\ conn[e.sock].fd = e.fd
             /\ e.mask \subseteq sock[e.sock].interest \cup {"HUP"}
             /\ sock[e.sock].interest \cap e.mask # {}
  BY <1>1, <1>2 DEF IInv, QueueInv, get_connection, DescriptorsAccounted, EdgeInv, MasksWanted
<1>3. /\ ev' = e
      /\ cur' = IF e.fd = ListenFd THEN NoClient ELSE e.sock
      /\ pc' = IF e.fd = ListenFd THEN "accept"
               ELSE IF "IN" \notin e.mask THEN "after_read"
               ELSE IF conn[e.sock].protocol = "UNKNOWN" THEN "sniff" ELSE "read"
  BY <1>1, <1>2 DEF TakeEvent, ReadHandler, get_connection, ListenFd, Fds, IInv, TypeOK, ConnType
<1>4. MasksWanted'
  BY <1>1 DEF EdgeInv, MasksWanted
<1>5. ASSUME NEW c \in Clients, Live(c) PROVE EdgeOf(c)'
  <2>1. EdgeOf(c)
    BY <1>5 DEF EdgeInv
  <2>2. CASE e.fd # ListenFd /\ e.sock = c
    <3>1. "IN" \in e.mask => conn[c].protocol \in {"UNKNOWN", "HTTP1"}
      BY DEF IInv, TypeOK, ConnType
    <3>2. "IN" \notin e.mask => "OUT" \in e.mask /\ conn[c].state \in Writing
      BY <1>2, <1>5, <2>2, WhatItWants
    <3>. QED  BY <1>1, <1>2, <1>3, <2>1, <2>2, <3>1, <3>2 DEF EdgeOf, Marked, WritingPcs
  <2>3. CASE ~(e.fd # ListenFd /\ e.sock = c)
    <3>. QED  BY <1>1, <1>3, <2>1, <2>3 DEF EdgeOf, Covered, Marked, WritingPcs
  <2>. QED  BY <2>2, <2>3
<1>. QED  BY <1>1, <1>4, <1>5 DEF EdgeInv
(* The thread is between two events. *)
LEMMA BetweenEdge ==
  ASSUME IInv, EdgeInv, (BatchDone \/ AcceptFails) /\ UNCHANGED http1Vars
  PROVE  EdgeInv'
<1>1. /\ UNCHANGED <<conn, sock, ready, batch>> /\ pc \in {"next", "accept"}
      /\ cur = NoClient /\ cur' = NoClient /\ pc' \in {"wait", "next"} /\ NoClient \notin Clients
  BY KernelAssumption
  DEF KernelAssumption, BatchDone, AcceptFails, NextEvent, IInv, ThreadInv, kernelVars
<1>2. ASSUME NEW c \in Clients, Live(c) PROVE EdgeOf(c)'
  <2>1. EdgeOf(c)
    BY <1>2 DEF EdgeInv
  <2>. QED  BY <1>1, <2>1 DEF EdgeOf, Covered, Marked, WritingPcs
<1>. QED  BY <1>1, <1>2 DEF EdgeInv, MasksWanted

(* The handlers have returned: the write handler is called for what is left to write. *)
LEMMA AfterReadEdge ==
  ASSUME IInv, EdgeInv, AfterRead, UNCHANGED http1Vars
  PROVE  EdgeInv'
<1>1. /\ UNCHANGED <<conn, sock, ready, batch, connections>> /\ pc = "after_read" /\ cur \in Clients
      /\ ev.fd \in Fds /\ NoClient \notin Clients
  BY KernelAssumption DEF KernelAssumption, AfterRead, kernelVars, IInv, ThreadInv
<1>2. Live(cur) => get_connection(ev.fd) = cur
  <2>1. Live(cur) => conn[cur].fd = ev.fd
    BY <1>1 DEF EdgeInv, EdgeOf
  <2>. QED  BY <1>1, <2>1 DEF IInv, DescriptorsAccounted, get_connection
<1>3. ASSUME NEW c \in Clients, Live(c) PROVE EdgeOf(c)'
  <2>1. EdgeOf(c)
    BY <1>3 DEF EdgeInv
  <2>2. CASE c = cur
    <3>1. /\ UNCHANGED <<ev, cur>>
          /\ pc' = IF "OUT" \in ev.mask THEN WriteHandler(conn[cur]) ELSE "after_write"
      BY <1>1, <1>2, <1>3, <2>2 DEF AfterRead
    <3>2. conn[c].state \in Writing => pc' \in WritingPcs \/ "OUT" \notin ev.mask
      BY <2>1, <2>2, <3>1 DEF EdgeOf, WriteHandler, Writing, WritingPcs
    <3>3. conn[c].state \notin Writing => pc' \in {"after_write"}
      <4>1. conn[c].protocol \in {"UNKNOWN", "HTTP1"}
        BY DEF IInv, TypeOK, ConnType
      <4>. QED  BY <2>2, <3>1, <4>1 DEF WriteHandler, Writing
    <3>4. pc' \in WritingPcs \cup {"after_write"}
      <4>1. conn[c].state \in Writing /\ "OUT" \notin ev.mask => pc' = "after_write"
        BY <3>1
      <4>. QED  BY <3>2, <3>3, <4>1
    <3>5. pc' = "after_write" => Covered(c)
      <4>1. conn[c].state \in Writing /\ pc' = "after_write" => "OUT" \notin ev.mask
        BY <3>2 DEF WritingPcs
      <4>. QED  BY <1>1, <2>1, <2>2, <4>1 DEF EdgeOf
    <3>. QED  BY <1>1, <2>1, <2>2, <3>1, <3>4, <3>5 DEF EdgeOf, Covered, Marked, WritingPcs
  <2>3. CASE c # cur
    <3>1. c # cur'
      BY <1>1, <2>3 DEF AfterRead, NextEvent
    <3>. QED  BY <1>1, <2>1, <2>3, <3>1 DEF EdgeOf, Covered, Marked
  <2>. QED  BY <2>2, <2>3
<1>. QED  BY <1>1, <1>3 DEF EdgeInv, MasksWanted

(* A connection that outlives its event has nothing left that no edge will report. *)
LEMMA AfterWriteEdge ==
  ASSUME IInv, EdgeInv, AfterWrite, UNCHANGED http1Vars
  PROVE  EdgeInv'
<1>1. cur \in Clients /\ ev.fd \in Fds /\ pc = "after_write" /\ NoClient \notin Clients
      /\ cur' = NoClient /\ pc' = "next" /\ batch' = batch
  BY KernelAssumption DEF KernelAssumption, IInv, ThreadInv, AfterWrite, NextEvent
<1>2. CASE "HUP" \in ev.mask /\ get_connection(ev.fd) = cur
  <2>1. Live(cur)
    BY <1>1, <1>2 DEF IInv, get_connection, DescriptorsAccounted
  <2>. QED  BY <1>1, <1>2, <2>1, EdgeFree DEF AfterWrite
<1>3. CASE ~("HUP" \in ev.mask /\ get_connection(ev.fd) = cur)
  <2>1. UNCHANGED <<conn, sock, ready>>
    BY <1>3 DEF AfterWrite
  <2>2. ASSUME NEW c \in Clients, Live(c) PROVE EdgeOf(c)'
    <3>1. EdgeOf(c)
      BY <2>2 DEF EdgeInv
    <3>. QED  BY <1>1, <2>1, <3>1 DEF EdgeOf, Covered, Marked, WritingPcs
  <2>. QED  BY <1>1, <2>1, <2>2 DEF EdgeInv, MasksWanted
<1>. QED  BY <1>2, <1>3

-----------------------------------------------------------------------------
(* Handlers. *)

(* A read, after which the handler goes on reading. *)
LEMMA ReceiveEdge ==
  ASSUME IInv, EdgeInv, pc \in {"sniff", "read"}, Receive(cur),
         UNCHANGED <<ready, pc, batch, ev, cur>>
  PROVE  EdgeInv'
<1>1. cur \in Clients /\ Live(cur) /\ conn[cur].state = "READ_REQUEST"
  BY DEF IInv, ThreadInv, HandlerPcs, Pcs
<1>2. /\ \A d \in Clients : d # cur => conn'[d] = conn[d] /\ sock'[d] = sock[d]
      /\ conn'[cur].state = "READ_REQUEST" /\ conn'[cur].protocol = conn[cur].protocol
      /\ sock'[cur].interest = sock[cur].interest
  <2>1. conn[cur] \in ConnType /\ sock[cur] \in SockType
    BY <1>1, FieldTypes DEF IInv
  <2>. QED  BY <1>1, <2>1 DEF Receive, IInv, TypeOK, ConnType, SockType
<1>3. EdgeOf(cur)'
  <2>1. EdgeOf(cur) /\ sock[cur].interest = {"IN"}
    BY <1>1, WhatItWants DEF EdgeInv
  <2>. QED  BY <1>1, <1>2, <2>1 DEF EdgeOf, Marked
<1>. QED  BY <1>1, <1>2, <1>3, EdgeCur

(* EAGAIN in a read loop: nothing is left to read, and the end of the stream or a
   reset will be an edge. *)
LEMMA ReadDoneEdge ==
  ASSUME IInv, EdgeInv, (SniffDone("HTTP1") /\ UNCHANGED http1Vars) \/ Http1ReadDone
  PROVE  EdgeInv'
<1>1. cur \in Clients /\ Live(cur) /\ conn[cur].state = "READ_REQUEST" /\ conn[cur].fd = ev.fd
      /\ pc \in {"sniff", "read"}
  BY DEF IInv, ThreadInv, HandlerPcs, Pcs, SniffDone, Http1ReadDone
<1>2. UNCHANGED <<sock, ready, batch, ev, cur>>
  BY DEF SniffDone, Http1ReadDone, kernelVars
<1>3. EdgeOf(cur) /\ sock[cur].interest = {"IN"}
  BY <1>1, WhatItWants DEF EdgeInv
<1>4. Mask(sock[cur]) = {}
  <2>1. sock[cur].rcv = 0 /\ sock[cur].peer \notin Gone
    BY DEF SniffDone, Http1ReadDone, ReadAgain
  <2>2. Poll(sock[cur]) \cap {"IN", "HUP"} = {}
    BY <2>1 DEF Poll, Gone, Dead
  <2>. QED  BY <1>3, <2>2 DEF Mask
<1>5. /\ \A d \in Clients : d # cur => conn'[d] = conn[d]
      /\ conn'[cur].fd = conn[cur].fd
      /\ \/ pc' = "after_read" /\ conn'[cur].state = "READ_REQUEST"
         \/ pc' = "read" /\ conn'[cur].protocol = "HTTP1" /\ conn'[cur].state = "READ_REQUEST"
         \/ pc' = "process" /\ conn'[cur].protocol = "HTTP1"
  <2>1. conn[cur] \in ConnType /\ conn \in [Clients -> ConnType]
    BY <1>1, FieldTypes DEF IInv, TypeOK
  <2>2. \/ pc' = "after_read" /\ conn' = conn
        \/ pc' = "read" /\ conn' = [conn EXCEPT ![cur] = [conn[cur] EXCEPT !.protocol = "HTTP1"]]
        \/ /\ pc' = "process" /\ pc = "read"
           /\ conn' = [conn EXCEPT ![cur] = [conn[cur] EXCEPT !.state = "PROCESS"]]
    BY <1>1 DEF SniffDone, ReadHandler, Http1ReadDone, IInv, TypeOK
  <2>3. pc = "read" => conn[cur].protocol = "HTTP1"
    BY <1>3 DEF EdgeOf
  <2>. QED  BY <1>1, <2>1, <2>2, <2>3 DEF ConnType
<1>6. EdgeOf(cur)'
  BY <1>1, <1>2, <1>3, <1>4, <1>5 DEF EdgeOf, Marked, Covered
<1>. QED  BY <1>1, <1>2, <1>5, <1>6, EdgeCur
(* A request is dealt with between its last read and the write that answers it. *)
LEMMA RequestEdge ==
  ASSUME IInv, EdgeInv,
         \/ BadRequest \/ StaticError \/ PluginReturns \/ DirectHeader
         \/ \E m \in {"GET", "HEAD", "OTHER"} : ParsedRequest(m)
  PROVE  EdgeInv'
<1>1. cur \in Clients /\ Live(cur) /\ conn[cur].state = "PROCESS"
  BY DEF IInv, ThreadInv, HandlerPcs, Pcs, RequestPcs, BadRequest, StaticError, PluginReturns,
         PluginAnswers, PluginDeclines, ParsedRequest, DirectHeader
<1>2. UNCHANGED <<conn, ready, batch, ev, cur>> /\ pc' \in RequestPcs
  BY DEF BadRequest, StaticError, PluginReturns, PluginAnswers, PluginDeclines, ParsedRequest,
         DirectHeader, BeginDirect, RequestPcs, kernelVars
<1>3. /\ sock'[cur].interest = sock[cur].interest
      /\ \A d \in Clients : d # cur => sock'[d] = sock[d]
  <2>1. CASE UNCHANGED sock
    BY <2>1
  <2>2. CASE DirectHeader
    <3>1. 1 \in Nat /\ 1 <= Room(sock[cur])
      BY <1>1, <2>2, FieldTypes, KernelAssumption
      DEF KernelAssumption, IInv, ThreadInv, RequestPcs, DirectHeader, Room
    <3>2. sock' = [sock EXCEPT ![cur] = Wrote(@, 1)]
      BY <2>2 DEF DirectHeader, Put
    <3>. QED  BY <1>1, <3>1, <3>2, WroteSock DEF IInv
  <2>. QED  BY <2>1, <2>2
       DEF BadRequest, StaticError, PluginReturns, PluginAnswers, PluginDeclines, ParsedRequest, kernelVars
<1>4. EdgeOf(cur)'
  <2>1. EdgeOf(cur) /\ sock[cur].interest = {"IN"}
    BY <1>1, WhatItWants DEF EdgeInv
  <2>. QED  BY <1>1, <1>2, <1>3, <2>1 DEF EdgeOf, Marked, RequestPcs
<1>. QED  BY <1>1, <1>2, <1>3, <1>4, EdgeCur

(* The interest is set to writing: epoll polls the socket and reports it if it takes
   data already, and notes a full one. *)
LEMMA StaticFileEdge ==
  ASSUME IInv, EdgeInv, NEW f \in Fds, StaticFile(f)
  PROVE  EdgeInv'
<1> DEFINE t == Interested(sock[cur], {"OUT"})
<1>1. cur \in Clients /\ Live(cur) /\ conn[cur].state = "PROCESS" /\ conn[cur].fd = ev.fd
      /\ pc = "static"
  BY DEF IInv, ThreadInv, HandlerPcs, Pcs, RequestPcs, StaticFile
<1>2. sock[cur] \in SockType /\ conn[cur] \in ConnType
  BY <1>1, FieldTypes DEF IInv
<1>3. /\ UNCHANGED <<batch, ev, cur>> /\ pc' = "after_read"
      /\ sock' = [sock EXCEPT ![cur] = t]
      /\ ready' = IF Mask(t) # {} THEN ready \cup {cur} ELSE ready
  BY <1>1 DEF StaticFile, mod_epoll, Armed
<1>4. /\ conn'[cur].fd = conn[cur].fd /\ conn'[cur].protocol = conn[cur].protocol
      /\ \A d \in Clients : d # cur => conn'[d] = conn[d]
  BY <1>1, <1>2 DEF StaticFile, IInv, TypeOK, ConnType
<1>5. sock'[cur] = t /\ \A d \in Clients : d # cur => sock'[d] = sock[d]
  BY <1>1, <1>3 DEF IInv, TypeOK
<1>6. Full(t) => "NOSPACE" \in t.flags
  BY <1>2 DEF Interested, Full, Room, SockType
<1>7. EdgeOf(cur)'
  <2>1. EdgeOf(cur)
    BY <1>1 DEF EdgeInv
  <2> HIDE DEF t
  <2>2. Covered(cur)'
    BY <1>3, <1>5 DEF Covered
  <2>3. Marked(cur)'
    BY <1>3, <1>5, <1>6 DEF Marked
  <2>. QED  BY <1>1, <1>3, <1>4, <2>1, <2>2, <2>3 DEF EdgeOf
<1>. QED  BY <1>1, <1>3, <1>4, <1>5, <1>7, EdgeCur

(* The steps that end the connection they serve. *)
LEMMA EndEdge ==
  ASSUME IInv, EdgeInv, ReadEnd \/ DirectBody \/ WriteError \/ FileDone
  PROVE  EdgeInv'
<1>1. cur \in Clients /\ Live(cur)
  BY DEF IInv, ThreadInv, HandlerPcs, Pcs, WritePcs, RequestPcs, ReadEnd, DirectBody, WriteError, FileDone
<1>. QED  BY <1>1, EdgeFree DEF ReadEnd, DirectBody, WriteError, FileDone

(* EAGAIN in the header and in the file loop: the socket is full, and marked. *)
LEMMA WriteAgainEdge ==
  ASSUME IInv, EdgeInv, SendHeaderAgain \/ FileWriteAgain
  PROVE  EdgeInv'
<1>1. cur \in Clients /\ Live(cur) /\ conn[cur].state \in Writing /\ conn[cur].fd = ev.fd
      /\ pc \in {"send", "file_write"}
  BY DEF IInv, ThreadInv, HandlerPcs, Pcs, Writing, SendHeaderAgain, FileWriteAgain
<1>2. conn[cur] \in ConnType /\ sock[cur] \in SockType
  BY <1>1, FieldTypes DEF IInv
<1>3. /\ UNCHANGED <<batch, ev, cur, ready>> /\ pc' = "after_write"
      /\ sock' = [sock EXCEPT ![cur] = Refused(@)]
      /\ sock[cur].peer \notin Dead /\ Full(sock[cur])
  BY DEF SendHeaderAgain, FileWriteAgain
<1>4. /\ \A d \in Clients : d # cur => conn'[d] = conn[d]
      /\ conn'[cur].fd = conn[cur].fd /\ conn'[cur].protocol = conn[cur].protocol
  BY <1>1, <1>2 DEF SendHeaderAgain, FileWriteAgain, IInv, TypeOK, ConnType
<1>5. /\ \A d \in Clients : d # cur => sock'[d] = sock[d]
      /\ sock'[cur].interest = {"OUT"} /\ sock'[cur].flags = {"NOSPACE"}
      /\ sock'[cur].peer = sock[cur].peer /\ sock'[cur].snd = sock[cur].snd
  <2>1. sock'[cur].flags = {"NOSPACE"}
    BY <1>1, <1>2, <1>3 DEF Refused, IInv, TypeOK, SockType
  <2>. QED  BY <1>1, <1>3, <2>1, RefusedSock, WhatItWants DEF IInv
<1>6. Mask(sock[cur])' = {}
  <2>1. Poll(sock[cur])' \cap {"OUT", "HUP"} = {}
    <3>1. ~(Room(sock[cur])' > 0) /\ sock'[cur].peer \notin Dead
      BY <1>3, <1>5, KernelAssumption DEF KernelAssumption, Full, Room
    <3>. QED  BY <3>1, <1>3 DEF Poll
  <2>. QED  BY <1>3, <1>5, <2>1 DEF Mask
<1>7. EdgeOf(cur)'
  <2>1. EdgeOf(cur)
    BY <1>1 DEF EdgeInv
  <2>. QED  BY <1>1, <1>3, <1>4, <1>5, <1>6, <2>1, WhatItWants DEF EdgeOf, Covered, Marked, Writing
<1>. QED  BY <1>1, <1>3, <1>4, <1>5, <1>7, EdgeCur
(* Writes that are taken: the handler goes on, or the connection ends. *)
LEMMA SendHeaderEdge ==
  ASSUME IInv, EdgeInv, SendHeader
  PROVE  EdgeInv'
<1> DEFINE n == Least(conn[cur].write_buffer_size - conn[cur].bytes_written, Room(sock[cur]))
           all == conn[cur].bytes_written + n = conn[cur].write_buffer_size
<1>1. cur \in Clients /\ Live(cur) /\ conn[cur].state = "WRITE_RESPONSE" /\ pc = "send"
  BY DEF IInv, ThreadInv, HandlerPcs, Pcs, SendHeader
<1>2. CASE all /\ conn[cur].file_fd = NoFd
  BY <1>1, <1>2, EdgeFree DEF SendHeader
<1>3. CASE ~(all /\ conn[cur].file_fd = NoFd)
  <2>1. /\ UNCHANGED <<batch, ev, cur, ready>> /\ pc' \in WritingPcs
        /\ sock' = [sock EXCEPT ![cur] = Wrote(@, n)]
    BY <1>1, <1>3 DEF SendHeader, WritingPcs
  <2>2. /\ \A d \in Clients : d # cur => conn'[d] = conn[d]
        /\ conn'[cur].protocol = conn[cur].protocol
    BY <1>1, <1>3 DEF SendHeader, IInv, TypeOK, ConnType
  <2>3. \A d \in Clients : d # cur => sock'[d] = sock[d]
    BY <1>1, <2>1 DEF IInv, TypeOK
  <2>4. EdgeOf(cur)'
    BY <1>1, <2>1, <2>2 DEF EdgeInv, EdgeOf, WritingPcs
  <2>. QED  BY <1>1, <2>1, <2>2, <2>3, <2>4, EdgeCur
<1>. QED  BY <1>2, <1>3

LEMMA FileEdge ==
  ASSUME IInv, EdgeInv, FileRead \/ FileWrite
  PROVE  EdgeInv'
<1>1. cur \in Clients /\ Live(cur) /\ conn[cur].state = "WRITE_FILE"
  BY DEF IInv, ThreadInv, HandlerPcs, Pcs, FileRead, FileWrite
<1>2. /\ UNCHANGED <<batch, ev, cur, ready>> /\ pc' \in WritingPcs
      /\ \A d \in Clients : d # cur => sock'[d] = sock[d]
  BY <1>1 DEF FileRead, FileWrite, Put, WritingPcs, IInv, TypeOK
<1>3. /\ \A d \in Clients : d # cur => conn'[d] = conn[d]
      /\ conn'[cur].protocol = conn[cur].protocol
  BY <1>1 DEF FileRead, FileWrite, IInv, TypeOK, ConnType
<1>4. EdgeOf(cur)'
  BY <1>1, <1>2, <1>3 DEF EdgeInv, EdgeOf, WritingPcs
<1>. QED  BY <1>1, <1>2, <1>3, <1>4, EdgeCur

(* The process is killed in a write; there is nothing more to report. *)
LEMMA SigPipeEdge ==
  ASSUME IInv, EdgeInv, SigPipe
  PROVE  EdgeInv'
<1>1. cur \in Clients /\ Live(cur) /\ UNCHANGED <<conn, sock, ready, batch, ev, cur>> /\ pc' = "killed"
  BY DEF IInv, ThreadInv, HandlerPcs, Pcs, WritePcs, SigPipe, kernelVars
<1>2. EdgeOf(cur)'
  BY <1>1 DEF EdgeInv, EdgeOf, WritingPcs
<1>. QED  BY <1>1, <1>2, EdgeCur

-----------------------------------------------------------------------------
(* Connections begin, peers move. *)

(* epoll polls a new socket: what came before accept is reported. *)
LEMMA AcceptEdge ==
  ASSUME IInv, EdgeInv, NEW c \in Clients, NEW f \in Fds, Accept(c, f), UNCHANGED http1Vars
  PROVE  EdgeInv'
<1> DEFINE t == Interested(sock[c], {"IN"})
<1>1. cur = NoClient /\ conn[c].state = "NONE" /\ pc = "accept" /\ NoClient \notin Clients
  BY KernelAssumption DEF KernelAssumption, Accept, IInv, QueueInv, ThreadInv
<1>2. UNCHANGED batch /\ pc' = "next" /\ cur' = NoClient
      /\ ready' = IF Mask(t) # {} THEN ready \cup {c} ELSE ready
  BY DEF Accept, NextEvent, Armed
<1>3. /\ conn'[c].state = "READ_REQUEST"
      /\ sock'[c] = t /\ t.interest = {"IN"}
      /\ \A d \in Clients : d # c => conn'[d] = conn[d] /\ sock'[d] = sock[d]
  <2>1. sock[c] \in SockType
    BY FieldTypes DEF IInv
  <2>. QED  BY <2>1 DEF Accept, create_connection, Blank, Interested, IInv, TypeOK, SockType
<1> HIDE DEF t
<1>4. ASSUME NEW d \in Clients, conn'[d].state \in LiveStates PROVE EdgeOf(d)'
  <2>1. CASE d = c
    BY <1>1, <1>2, <1>3, <2>1 DEF EdgeOf, Covered, Marked
  <2>2. CASE d # c
    BY <1>1, <1>2, <1>3, <1>4, <2>2, EdgeKept
  <2>. QED  BY <2>1, <2>2
<1>5. MasksWanted'
  BY <1>1, <1>2, <1>3 DEF EdgeInv, MasksWanted, IInv, QueueInv, LiveStates
<1>. QED  BY <1>4, <1>5 DEF EdgeInv

LEMMA AcceptRefusedEdge ==
  ASSUME IInv, EdgeInv, NEW c \in Clients, AcceptRefused(c), UNCHANGED http1Vars
  PROVE  EdgeInv'
<1>1. cur = NoClient /\ conn[c].state = "NONE" /\ NoClient \notin Clients
  BY KernelAssumption DEF KernelAssumption, AcceptRefused, IInv, QueueInv, ThreadInv
<1>2. UNCHANGED <<batch, ready>> /\ cur' = NoClient
  BY DEF AcceptRefused, NextEvent
<1>3. /\ conn'[c] = Freed
      /\ \A d \in Clients : d # c => conn'[d] = conn[d] /\ sock'[d] = sock[d]
  BY DEF AcceptRefused, IInv, TypeOK
<1>4. ASSUME NEW d \in Clients, conn'[d].state \in LiveStates PROVE EdgeOf(d)'
  <2>1. d # c
    BY <1>3, <1>4, FreedFields DEF LiveStates
  <2>. QED  BY <1>1, <1>2, <1>3, <1>4, <2>1, EdgeKept
<1>5. MasksWanted'
  BY <1>1, <1>2, <1>3 DEF EdgeInv, MasksWanted, IInv, QueueInv, LiveStates
<1>. QED  BY <1>4, <1>5 DEF EdgeInv

(* What a peer does to a socket is an edge if the socket's mask was empty, and leaves a
   full buffer marked. *)
LEMMA PeerEdge ==
  ASSUME IInv, EdgeInv, NEW c \in Clients, PeerStep(c)
  PROVE  EdgeInv'
<1>1. UNCHANGED <<conn, pc, batch, ev, cur>>
  BY DEF PeerStep, serverVars
<1>2. sock[c] \in SockType /\ sock \in [Clients -> SockType] /\ SndCap \in Nat /\ SndCap > 0
      /\ sock[c].snd \in 0..SndCap /\ sock[c].rcv \in Nat /\ sock[c].unsent \in Nat
  BY FieldTypes, KernelAssumption DEF KernelAssumption, IInv, TypeOK
<1>3. /\ sock'[c].interest = sock[c].interest
      /\ \A d \in Clients : d # c => sock'[d] = sock[d]
  BY <1>2 DEF PeerStep, Connect, SendUnit, Drain, Fin, Reset, SockType
<1>4. ready \subseteq ready'
  BY DEF PeerStep, Connect, SendUnit, Drain, Fin, Reset, Edge
<1>5. Marked(c) => Marked(c)'
  <2>1. CASE Drain(c) \/ Reset(c)
    <3>1. sock'[c].snd \in Nat /\ sock'[c].snd < SndCap
      BY <1>2, <2>1 DEF Drain, Reset, SockType
    <3>. QED  BY <1>2, <3>1 DEF Marked, Full, Room
  <2>2. CASE Connect(c) \/ SendUnit(c) \/ Fin(c)
    <3>1. sock'[c].snd = sock[c].snd /\ sock'[c].flags = sock[c].flags
      BY <1>2, <2>2 DEF Connect, SendUnit, Fin, SockType
    <3>. QED  BY <1>3, <3>1 DEF Marked, Full, Room
  <2>. QED  BY <2>1, <2>2 DEF PeerStep
<1>6. Live(c) /\ Marked(c) /\ Covered(c) => Covered(c)'
  <2> SUFFICES ASSUME Live(c), Marked(c), Mask(sock[c]) = {}, c \notin ready'
               PROVE  Mask(sock'[c]) = {}
    BY <1>4 DEF Covered
  <2>1. sock[c].interest \in {{"IN"}, {"OUT"}} /\ sock[c].peer # "new"
    BY WhatItWants DEF IInv, ConnInv, LiveStates
  <2>2. /\ Mask(sock[c]) = Poll(sock[c]) \cap (sock[c].interest \cup {"HUP"})
        /\ Mask(sock'[c]) = Poll(sock'[c]) \cap (sock[c].interest \cup {"HUP"})
    BY <1>3, <2>1 DEF Mask
  <2>3. Poll(sock'[c]) \cap (sock[c].interest \cup {"HUP"})
          \subseteq Poll(sock[c]) \cap (sock[c].interest \cup {"HUP"})
    <3>1. CASE SendUnit(c)
      <4>1. sock[c].interest = {"OUT"}
        BY <2>1, <3>1 DEF SendUnit, Edge
      <4>2. sock'[c].peer = sock[c].peer /\ sock'[c].snd = sock[c].snd
        BY <1>2, <3>1 DEF SendUnit, SockType
      <4>. QED  BY <4>1, <4>2 DEF Poll, Room
    <3>2. CASE Drain(c)
      <4>1. sock'[c].peer = sock[c].peer /\ sock'[c].rcv = sock[c].rcv
        BY <1>2, <3>2 DEF Drain, SockType
      <4>2. CASE sock[c].interest = {"IN"}
        BY <4>1, <4>2 DEF Poll
      <4>3. CASE sock[c].interest = {"OUT"}
        <5>1. ~(Room(sock[c]) > 0)
          BY <2>2, <4>3 DEF Poll
        <5>2. "NOSPACE" \in sock[c].flags
          BY <1>2, <4>3, <5>1 DEF Marked, Full, Room
        <5>. QED  BY <3>2, <4>3, <5>2 DEF Drain, Edge
      <4>. QED  BY <2>1, <4>2, <4>3
    <3>3. CASE Fin(c)
      <4>1. sock[c].interest = {"OUT"}
        BY <2>1, <3>3 DEF Fin, Edge
      <4>2. sock'[c].peer = "fin" /\ sock'[c].snd = sock[c].snd
        BY <1>2, <3>3 DEF Fin, SockType
      <4>. QED  BY <4>1, <4>2 DEF Poll, Room, Dead
    <3>4. CASE Reset(c)
      BY <2>1, <3>4 DEF Reset, Edge
    <3>5. CASE Connect(c)
      BY <2>1, <3>5 DEF Connect
    <3>. QED  BY <3>1, <3>2, <3>3, <3>4, <3>5 DEF PeerStep
  <2>. QED  BY <2>2, <2>3
<1>7. ASSUME NEW d \in Clients, Live(d) PROVE EdgeOf(d)'
  <2>1. EdgeOf(d)
    BY <1>7 DEF EdgeInv
  <2>2. Marked(d) => Marked(d)'
    BY <1>3, <1>5 DEF Marked
  <2>3. Marked(d) /\ Covered(d) => Covered(d)'
    BY <1>3, <1>4, <1>6, <1>7 DEF Covered
  <2>. QED  BY <1>1, <2>1, <2>2, <2>3 DEF EdgeOf, WritingPcs
<1>8. MasksWanted'
  BY <1>1, <1>3 DEF EdgeInv, MasksWanted, IInv, QueueInv
<1>. QED  BY <1>1, <1>7, <1>8 DEF EdgeInv
LEMMA EdgeInit == Init => EdgeInv
BY DEF Init, LoopInit, KernelInit, EdgeInv, MasksWanted, Blank, LiveStates

LEMMA EdgeNext ==
  ASSUME IInv, EdgeInv, [Next]_vars
  PROVE  EdgeInv'
<1>1. CASE ServerStep
  <2>1. CASE LoopStep /\ UNCHANGED http1Vars
    <3>1. CASE EpollWait \/ BatchDone \/ (\E e \in batch : TakeEvent(e)) \/ AcceptFails
      BY <2>1, <3>1, EpollWaitEdge, BetweenEdge, TakeEventEdge
    <3>2. CASE AfterRead \/ AfterWrite
      BY <2>1, <3>2, AfterReadEdge, AfterWriteEdge
    <3>3. CASE (\E c \in Clients, f \in Fds : Accept(c, f)) \/ \E c \in Clients : AcceptRefused(c)
      BY <2>1, <3>3, AcceptEdge, AcceptRefusedEdge
    <3>4. CASE SniffRead \/ Http1Read
      BY <3>4, ReceiveEdge DEF SniffRead, Http1Read
    <3>5. CASE ReadEnd \/ SigPipe
      BY <3>5, EndEdge, SigPipeEdge
    <3>. QED  BY <2>1, <3>1, <3>2, <3>3, <3>4, <3>5 DEF LoopStep
  <2>2. CASE (SniffDone("HTTP1") /\ UNCHANGED http1Vars) \/ Http1ReadDone
    BY <2>2, ReadDoneEdge
  <2>3. CASE \/ BadRequest \/ StaticError \/ DirectHeader
             \/ \E m \in {"GET", "HEAD", "OTHER"} : ParsedRequest(m)
    BY <2>3, RequestEdge
  <2>4. CASE \E f \in Fds : StaticFile(f)
    BY <2>4, StaticFileEdge
  <2>5. CASE DirectBody \/ WriteError \/ FileDone
    BY <2>5, EndEdge
  <2>6. CASE SendHeader \/ SendHeaderAgain \/ FileRead \/ FileWrite \/ FileWriteAgain
    BY <2>6, SendHeaderEdge, WriteAgainEdge, FileEdge
  <2>. QED  BY <1>1, <2>1, <2>2, <2>3, <2>4, <2>5, <2>6 DEF ServerStep
<1>2. CASE PluginReturns
  BY <1>2, RequestEdge
<1>3. CASE \E c \in Clients : PeerStep(c)
  BY <1>3, PeerEdge
<1>4. CASE DiskStep \/ UNCHANGED vars
  <2>1. UNCHANGED <<conn, pc, batch, ev, cur, sock, ready>>
    BY <1>4 DEF DiskStep, TruncateFile, vars, kernelVars, serverVars
  <2>2. ASSUME NEW c \in Clients, Live(c) PROVE EdgeOf(c)'
    BY <2>1, <2>2 DEF EdgeInv, EdgeOf, Marked, Covered
  <2>. QED  BY <2>1, <2>2 DEF EdgeInv, MasksWanted
<1>. QED  BY <1>1, <1>2, <1>3, <1>4 DEF Next

(* No client is forgotten with data to read or space to write: its socket is on the
   ready list or its event is in the batch, whenever its handler is not running. *)
THEOREM NoEdgeIsLost == Spec => []NoLostEdge
<1>1. Init => IInv /\ EdgeInv
  BY InitHolds, EdgeInit
<1>2. IInv /\ EdgeInv /\ [Next]_vars => (IInv /\ EdgeInv)'
  BY NextKeeps, EdgeNext
<1>3. EdgeInv => NoLostEdge
  BY DEF EdgeInv, EdgeOf, Covered, NoLostEdge
<1>. QED  BY <1>1, <1>2, <1>3, PTL DEF Spec
==============================================================================
