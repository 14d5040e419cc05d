----------------------------- MODULE Http1Server -----------------------------
(* The HTTP/1 path of hs-http on its event loop: processing a request once it is
   read, the plugin or static answer, writing headers and file. The HTTP/2
   branches of the dispatcher and the h2c upgrade are in Http2Server: no request
   here begins with "PRI " or asks for an upgrade.                         *)
EXTENDS EventLoop

CONSTANTS HdrLen,     \* units of the header of a static response
          ChunkLen,   \* size of the buffer of http1_handle_write
          DirectLen,  \* units of a response written by send_response
          Shrinks     \* whether the served file may be shortened

ASSUME ServerAssumption ==
  /\ HdrLen \in Nat \ {0} /\ ChunkLen \in Nat \ {0}
  /\ DirectLen \in Nat /\ DirectLen >= 2
  /\ Shrinks \in BOOLEAN

VARIABLES
  method,       \* the parsed method while a request is processed
  chunk,        \* `buffer` of http1_handle_write: n units from position `from`
  promise       \* history: units of the response begun for each client, 0 if none

http1Vars == <<method, chunk, promise>>
serverVars == <<loopVars, http1Vars>>
vars == <<kernelVars, serverVars>>

NoChunk == [from |-> 0, n |-> 0, written |-> 0]

Init ==
  /\ LoopInit
  /\ method = "none" /\ chunk = NoChunk
  /\ promise = [c \in Clients |-> 0]

-----------------------------------------------------------------------------
(* A write of n units of the response, the first of which follows `from`. *)
Put(c, from, n) ==
  /\ sock' = [sock EXCEPT ![c] = Wrote(@, n)]
  /\ wire' = [wire EXCEPT ![c] = @ \o Units(from, n)]

(* EAGAIN: the header end and the announced body decide whether the request is
   complete. *)
Http1ReadDone ==
  /\ pc = "read" /\ ReadAgain(sock[cur], ReadRoom(cur))
  /\ IF conn[cur].bytes_read >= ReqLen
       THEN /\ pc' = "process" /\ conn' = [conn EXCEPT ![cur].state = "PROCESS"]
       ELSE /\ pc' = "after_read" /\ UNCHANGED conn
  /\ UNCHANGED <<connections, batch, ev, cur, method, chunk, promise, kernelVars>>

(* send_response takes over: its header and body announce DirectLen units. *)
BeginDirect ==
  /\ pc' = "direct_header"
  /\ promise' = [promise EXCEPT ![cur] = DirectLen]
  /\ method' = "none"

(* A request line that does not parse is answered 400. *)
BadRequest ==
  /\ pc = "process" /\ BeginDirect
  /\ UNCHANGED <<connections, conn, batch, ev, cur, chunk, kernelVars>>

(* Every method but HEAD is offered to the plugins first. *)
ParsedRequest(m) ==
  /\ pc = "process"
  /\ method' = m
  /\ pc' = IF m = "HEAD" THEN "static" ELSE "plugin"
  /\ UNCHANGED <<connections, conn, batch, ev, cur, chunk, promise, kernelVars>>

(* handle_plugin_request returns 0: the handler has sent its response, and the
   connection is freed once it is written. *)
PluginAnswers ==
  /\ pc = "plugin" /\ BeginDirect
  /\ UNCHANGED <<connections, conn, batch, ev, cur, chunk, kernelVars>>

(* No plugin takes the request: GET goes on to the files, the rest gets 405. *)
PluginDeclines ==
  /\ pc = "plugin"
  /\ IF method = "GET" THEN pc' = "static" /\ UNCHANGED <<promise, method>>
                       ELSE BeginDirect
  /\ UNCHANGED <<connections, conn, batch, ev, cur, chunk, kernelVars>>

(* No root, no such file, or it does not open (no descriptor left): 404, 500. *)
StaticError ==
  /\ pc = "static" /\ BeginDirect
  /\ UNCHANGED <<connections, conn, batch, ev, cur, chunk, kernelVars>>

(* The file is opened and its size announced; HEAD closes it again. *)
StaticFile(f) ==
  LET get == method = "GET" IN
  /\ pc = "static" /\ Lowest(f)
  /\ conn' = [conn EXCEPT ![cur].state = "WRITE_RESPONSE",
                          ![cur].write_buffer_size = HdrLen,
                          ![cur].file_fd = IF get THEN f ELSE @,
                          ![cur].file_size = IF get THEN disk ELSE @]
  /\ fdtab' = IF get THEN [fdtab EXCEPT ![f] = AFile] ELSE fdtab
  /\ promise' = [promise EXCEPT ![cur] = IF get THEN HdrLen + disk ELSE HdrLen]
  /\ mod_epoll(cur, sock[cur], {"OUT"})
  /\ pc' = "after_read" /\ method' = "none"
  /\ UNCHANGED <<connections, batch, ev, cur, chunk, backlog, disk, wire>>

(* send_response: the header in one write. *)
DirectHeader ==
  /\ pc = "direct_header" /\ sock[cur].peer \notin Dead
  /\ Put(cur, 0, 1)
  /\ pc' = "direct_body"
  /\ UNCHANGED <<backlog, ready, fdtab, disk>>
  /\ UNCHANGED <<connections, conn, batch, ev, cur, method, chunk, promise>>

(* Mutant: the connection is marked and never freed. *)
DirectBodyNoFree ==
  /\ pc = "direct_body" /\ sock[cur].peer \notin Dead
  /\ Put(cur, 1, Least(DirectLen - 1, Room(sock[cur])))
  /\ conn' = [conn EXCEPT ![cur].state = "CLOSING"]
  /\ pc' = "after_read"
  /\ UNCHANGED <<connections, ready, fdtab, backlog, disk, batch, ev, cur, method, chunk, promise>>

(* send_response: the body in one write, whatever it takes; then the caller
   frees the connection. *)
DirectBody ==
  /\ pc = "direct_body" /\ sock[cur].peer \notin Dead
  /\ wire' = [wire EXCEPT ![cur] = @ \o Units(1, Least(DirectLen - 1, Room(sock[cur])))]
  /\ free_connection(cur)
  /\ pc' = "after_read"
  /\ UNCHANGED <<backlog, disk, batch, ev, cur, method, chunk, promise>>

-----------------------------------------------------------------------------
(* http1_handle_write. *)

(* A write that fails for another reason ends the response. *)
WriteError ==
  /\ pc \in WritePcs /\ sock[cur].peer = "reset"
  /\ free_connection(cur)
  /\ pc' = IF pc \in {"send", "file_write"} THEN "after_write" ELSE "after_read"
  /\ chunk' = NoChunk
  /\ UNCHANGED <<backlog, disk, wire, batch, ev, cur, method, promise>>

(* The header loop: a write takes part of what is left of write_buffer; after
   the last one the file follows, or the connection is freed. *)
SendHeader ==
  LET d == conn[cur]
      n == Least(d.write_buffer_size - d.bytes_written, Room(sock[cur]))
      all == d.bytes_written + n = d.write_buffer_size IN
  /\ pc = "send" /\ sock[cur].peer \notin Dead /\ ~Full(sock[cur])
  /\ wire' = [wire EXCEPT ![cur] = @ \o Units(d.bytes_written, n)]
  /\ IF all /\ d.file_fd = NoFd
       THEN /\ free_connection(cur) /\ pc' = "after_write"
       ELSE /\ sock' = [sock EXCEPT ![cur] = Wrote(@, n)]
            /\ conn' = [conn EXCEPT ![cur].bytes_written = IF all THEN 0 ELSE @ + n,
                                    ![cur].state = IF all THEN "WRITE_FILE" ELSE @]
            /\ pc' = IF all THEN "file_read" ELSE pc
            /\ UNCHANGED <<connections, fdtab, ready>>
  /\ UNCHANGED <<backlog, disk, batch, ev, cur, method, chunk, promise>>

(* Mutant: EAGAIN is taken for a failure. *)
SendHeaderAgainFatal ==
  /\ pc = "send" /\ sock[cur].peer \notin Dead /\ Full(sock[cur])
  /\ free_connection(cur)
  /\ pc' = "after_write"
  /\ UNCHANGED <<backlog, disk, wire, batch, ev, cur, method, chunk, promise>>

(* EAGAIN in the header loop: back to the loop, the count of units is kept. *)
SendHeaderAgain ==
  /\ pc = "send" /\ sock[cur].peer \notin Dead /\ Full(sock[cur])
  /\ sock' = [sock EXCEPT ![cur] = Refused(@)]
  /\ pc' = "after_write"
  /\ UNCHANGED <<backlog, ready, fdtab, disk, wire>>
  /\ UNCHANGED <<connections, conn, batch, ev, cur, method, chunk, promise>>

(* The file loop reads the next chunk from the file position ... *)
FileRead ==
  LET d == conn[cur]
      n == Least(Least(d.file_size - d.file_offset, ChunkLen), disk - fdtab[d.file_fd].pos) IN
  /\ pc = "file_read" /\ n > 0
  /\ chunk' = [from |-> fdtab[d.file_fd].pos, n |-> n, written |-> 0]
  /\ fdtab' = [fdtab EXCEPT ![d.file_fd].pos = @ + n]
  /\ pc' = "file_write"
  /\ UNCHANGED <<sock, backlog, ready, disk, wire>>
  /\ UNCHANGED <<connections, conn, batch, ev, cur, method, promise>>

(* ... and ends when all is sent, or the file has become shorter (read
   returns 0). *)
FileDone ==
  LET d == conn[cur] IN
  /\ pc = "file_read" /\ (d.file_offset >= d.file_size \/ disk <= fdtab[d.file_fd].pos)
  /\ free_connection(cur)
  /\ pc' = "after_write"
  /\ UNCHANGED <<backlog, disk, wire, batch, ev, cur, method, chunk, promise>>

(* A write of the chunk; when the whole of it is written the offset moves. *)
FileWrite ==
  LET w == Least(chunk.n - chunk.written, Room(sock[cur]))
      all == chunk.written + w = chunk.n IN
  /\ pc = "file_write" /\ sock[cur].peer \notin Dead /\ ~Full(sock[cur])
  /\ Put(cur, HdrLen + chunk.from + chunk.written, w)
  /\ conn' = IF all THEN [conn EXCEPT ![cur].file_offset = @ + chunk.n] ELSE conn
  /\ chunk' = IF all THEN NoChunk ELSE [chunk EXCEPT !.written = @ + w]
  /\ pc' = IF all THEN "file_read" ELSE pc
  /\ UNCHANGED <<backlog, ready, fdtab, disk>>
  /\ UNCHANGED <<connections, batch, ev, cur, method, promise>>

(* Mutant: EAGAIN leaves the file position behind the chunk. *)
FileWriteAgainNoSeek ==
  /\ pc = "file_write" /\ sock[cur].peer \notin Dead /\ Full(sock[cur])
  /\ conn' = [conn EXCEPT ![cur].file_offset = @ + chunk.written]
  /\ sock' = [sock EXCEPT ![cur] = Refused(@)]
  /\ chunk' = NoChunk
  /\ pc' = "after_write"
  /\ UNCHANGED <<backlog, ready, fdtab, disk, wire>>
  /\ UNCHANGED <<connections, batch, ev, cur, method, promise>>

(* Mutant: EAGAIN forgets what was written of the chunk. *)
FileWriteAgainNoOffset ==
  /\ pc = "file_write" /\ sock[cur].peer \notin Dead /\ Full(sock[cur])
  /\ fdtab' = [fdtab EXCEPT ![conn[cur].file_fd].pos = conn[cur].file_offset]
  /\ sock' = [sock EXCEPT ![cur] = Refused(@)]
  /\ chunk' = NoChunk
  /\ pc' = "after_write"
  /\ UNCHANGED <<backlog, ready, disk, wire, conn>>
  /\ UNCHANGED <<connections, batch, ev, cur, method, promise>>

(* EAGAIN: the offset moves by what was written and the file position goes back
   to it, since the rest of the chunk is dropped. *)
FileWriteAgain ==
  /\ pc = "file_write" /\ sock[cur].peer \notin Dead /\ Full(sock[cur])
  /\ conn' = [conn EXCEPT ![cur].file_offset = @ + chunk.written]
  /\ fdtab' = [fdtab EXCEPT ![conn[cur].file_fd].pos = conn[cur].file_offset + chunk.written]
  /\ sock' = [sock EXCEPT ![cur] = Refused(@)]
  /\ chunk' = NoChunk
  /\ pc' = "after_write"
  /\ UNCHANGED <<backlog, ready, disk, wire>>
  /\ UNCHANGED <<connections, batch, ev, cur, method, promise>>

-----------------------------------------------------------------------------
PluginReturns == PluginAnswers \/ PluginDeclines

(* Every step of the thread but the return of a plugin. *)
ServerStep ==
  \/ (LoopStep \/ SniffDone("HTTP1")) /\ UNCHANGED http1Vars
  \/ Http1ReadDone
  \/ BadRequest \/ (\E m \in {"GET", "HEAD", "OTHER"} : ParsedRequest(m))
  \/ StaticError \/ (\E f \in Fds : StaticFile(f)) \/ DirectHeader \/ DirectBody
  \/ WriteError \/ SendHeader \/ SendHeaderAgain
  \/ FileRead \/ FileDone \/ FileWrite \/ FileWriteAgain

PeerStep(c) ==
  /\ Connect(c) \/ SendUnit(c) \/ Drain(c) \/ Fin(c) \/ Reset(c)
  /\ UNCHANGED serverVars

DiskStep == Shrinks /\ TruncateFile /\ UNCHANGED serverVars

Next == ServerStep \/ PluginReturns \/ (\E c \in Clients : PeerStep(c)) \/ DiskStep

Spec == Init /\ [][Next]_vars

(* The thread is never stopped: epoll_wait returns once there is an event, no
   other system call blocks, and a plugin handler returns. A patient client goes
   on sending its request and taking its response. *)
PatientPeer(c) == (SendUnit(c) \/ Drain(c)) /\ UNCHANGED serverVars
Patience == \A c \in Clients : WF_vars(PatientPeer(c))
FairSpec == Spec /\ WF_vars(ServerStep \/ PluginReturns) /\ Patience

(* The same without the assumption that a plugin handler returns. *)
SlowPluginSpec == Spec /\ WF_vars(ServerStep) /\ Patience

-----------------------------------------------------------------------------
(* Properties. *)

ConnType == [state : LiveStates \cup {"NONE", "FREED"}, protocol : {"UNKNOWN", "HTTP1"},
             fd : Fds \cup {NoFd}, bytes_read : Nat, read_buffer_size : Nat,
             write_buffer_size : Nat, bytes_written : Nat,
             file_fd : Fds \cup {NoFd}, file_size : Nat, file_offset : Nat]
ChunkType == [from : Nat, n : Nat, written : Nat]

(* The type of every variable: the sockets and descriptors of the kernel, the
   fields of a Connection, the events and the thread's locals. *)
TypeOK ==
  /\ sock \in [Clients -> SockType]
  /\ backlog \subseteq Clients /\ ready \subseteq Clients
  /\ fdtab \in [Fds -> DescriptorType]
  /\ disk \in 0..FileLen
  /\ wire \in [Clients -> Seq(Nat)]
  /\ connections \in [Fds -> Clients \cup {NoClient}]
  /\ conn \in [Clients -> ConnType]
  /\ pc \in Pcs
  /\ batch \subseteq EventType /\ ev \in EventType
  /\ cur \in Clients \cup {NoClient}
  /\ method \in {"none", "GET", "HEAD", "OTHER"}
  /\ chunk \in ChunkType
  /\ promise \in [Clients -> Nat]

(* Edge-triggered epoll reports a condition once. A live connection whose
   condition holds is on the ready list or in the batch unless its handler is
   running, so no event it waits for is lost. *)
NoLostEdge ==
  \A c \in Clients :
    Live(c) /\ c # cur /\ Mask(sock[c]) # {}
      => c \in ready \/ \E e \in batch : e.sock = c

(* What a client is sent is a prefix of the response promised to it: partial
   writes, EAGAIN and the seek back never skip, repeat or reorder a unit. *)
WireInOrder ==
  \A c \in Clients :
    /\ wire[c] = Units(0, Len(wire[c]))
    /\ Len(wire[c]) <= promise[c]

(* The server ends a connection whose client is still there only after the
   whole of a response, or when the file is shorter than announced. *)
ClosedOnlyWhenAnswered ==
  [][\A c \in Clients :
       (Live(c) /\ ~Live(c)' /\ sock[c].peer = "up")
         => \/ promise[c] > 0 /\ Len(wire'[c]) = promise[c]
            \/ disk < conn[c].file_size]_vars

(* Every client that connects and stays is eventually done with. *)
EventuallyClosed ==
  \A c \in Clients : (sock[c].peer = "up") ~> (sock[c].peer = "closed")

(* A response that was begun is delivered to its last unit. *)
BegunIsFinished ==
  \A c \in Clients : (promise[c] > 0) ~> (promise[c] > 0 /\ Len(wire[c]) = promise[c])

(* The server implements HttpExchange: the phase of a client is read off its
   Connection, a freed one counting as answered if its response is whole. *)
Phase(c) ==
  CASE conn[c].state = "NONE" -> "idle"
    [] Live(c) /\ promise[c] = 0 -> "open"
    [] Live(c) /\ promise[c] > 0 -> "answering"
    [] OTHER -> IF promise[c] > 0 /\ Len(wire[c]) = promise[c] THEN "answered" ELSE "dropped"

Exchange == INSTANCE HttpExchange WITH
  Lengths <- {HdrLen, DirectLen} \cup {HdrLen + n : n \in 0..FileLen},
  phase <- [c \in Clients |-> Phase(c)],
  promised <- promise,
  stream <- wire,
  left <- [c \in Clients |-> sock[c].peer \in Gone],
  short <- disk < FileLen

ImplementsExchange == Exchange!Spec

-----------------------------------------------------------------------------
(* What the documentation says and the code does not do. *)

(* docs/c_api.md: body_len is the length of the body send_response sends. The
   client that is still there gets the whole of a direct response. *)
DirectResponseWhole ==
  [][\A c \in Clients : (pc = "direct_body" /\ cur = c /\ ~Live(c)' /\ sock[c].peer = "up")
        => Len(wire'[c]) = promise[c]]_vars

(* README: "one slow plugin doesn't block other connections". While one
   client's request is in a plugin handler, another's comes to its end. *)
OthersServed ==
  \A c \in Clients :
    (Live(c) /\ cur # c) ~> (~Live(c) \/ (cur = c /\ pc = "plugin"))
=============================================================================
