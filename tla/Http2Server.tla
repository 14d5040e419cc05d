----------------------------- MODULE Http2Server -----------------------------
(* The HTTP/2 path of hs-http on its event loop: the preface or the h2c upgrade,
   the loop over the frames received, the replies queued in write_buffer and the
   handler that flushes them. A client sends its preface and then frames; one of
   upgrading sends an HTTP/1 request with an h2c upgrade first, and the rest once
   it has received the 101. What a frame is shows when it is parsed.        *)
EXTENDS EventLoop

CONSTANTS Upgraders,   \* clients that may come by an h2c upgrade
          PrefaceLen,  \* units of the client preface
          FrameLen,    \* units of a frame
          UpgradeLen,  \* units of the request that asks for the upgrade
          BodyLen      \* units of the body of a response

ASSUME Http2Assumption ==
  /\ Upgraders \subseteq Clients
  /\ PrefaceLen \in Nat /\ PrefaceLen >= SniffLen
  /\ UpgradeLen \in Nat /\ UpgradeLen >= SniffLen
  /\ FrameLen \in Nat \ {0} /\ BodyLen \in Nat
  /\ SndCap >= 2   \* an empty send buffer takes the 101 and the SETTINGS

VARIABLES
  http2_state,   \* per client: "NULL" or "SET"
  write_buffer,  \* per client: the units queued, written or not
  preface,       \* whether the client preface is "due" or "taken"
  frames,        \* history: the kinds of the frames taken from each client
  upgrading      \* the clients that come by an h2c upgrade

http2Vars == <<http2_state, write_buffer, preface, frames, upgrading>>
serverVars == <<loopVars, http2Vars>>
vars == <<kernelVars, serverVars>>

(* SETTINGS are answered by an ACK, HEADERS by a response; an ACK and the other
   frames get no reply. *)
Kinds == {"SETTINGS", "HEADERS", "OTHER"}

Settings == <<"settings", 0>>
Switching == <<"switching", 0>>
Ack(k) == <<"ack", k>>
LastOf(k) == <<"end", k>>

(* http2_send_response for frame k (0: the upgraded request): the HEADERS frame,
   the DATA frame and its body. *)
Response(k) ==
  <<<<"headers", k>>>> \o [i \in 1..BodyLen |-> <<"data", k>>] \o <<LastOf(k)>>

Reply(kind, k) ==
  CASE kind = "SETTINGS" -> <<Ack(k)>>
    [] kind = "HEADERS" -> Response(k)
    [] OTHER -> <<>>

Init ==
  /\ LoopInit
  /\ http2_state = [c \in Clients |-> "NULL"]
  /\ write_buffer = [c \in Clients |-> <<>>]
  /\ preface = [c \in Clients |-> "due"]
  /\ frames = [c \in Clients |-> <<>>]
  /\ upgrading \in SUBSET Upgraders

-----------------------------------------------------------------------------
(* The h2c upgrade: http1_handle_read. *)

UpgradeReadDone ==
  /\ pc = "read" /\ ReadAgain(sock[cur], ReadRoom(cur))
  /\ IF conn[cur].bytes_read >= UpgradeLen
       THEN /\ pc' = "upgrade" /\ conn' = [conn EXCEPT ![cur].state = "PROCESS"]
       ELSE /\ pc' = "after_read" /\ UNCHANGED conn
  /\ UNCHANGED <<connections, batch, ev, cur, http2Vars, kernelVars>>

(* The writes of the upgrade are not checked: one to a reset peer is lost. *)
WriteUnchecked(u) ==
  wire' = IF sock[cur].peer \in Dead THEN wire ELSE [wire EXCEPT ![cur] = Append(@, u)]
SockUnchecked ==
  IF sock[cur].peer \in Dead THEN sock[cur] ELSE Wrote(sock[cur], 1)

SwitchProtocols ==
  /\ pc = "upgrade" /\ sock[cur].peer # "broken"
  /\ WriteUnchecked(Switching)
  /\ sock' = [sock EXCEPT ![cur] = SockUnchecked]
  /\ pc' = "upgrade_settings"
  /\ UNCHANGED <<backlog, ready, fdtab, disk, connections, conn, batch, ev, cur, http2Vars>>

(* Mutant: no write event is asked for. *)
UpgradeAnswerNoArm ==
  /\ pc = "upgrade_settings" /\ sock[cur].peer # "broken"
  /\ WriteUnchecked(Settings)
  /\ http2_state' = [http2_state EXCEPT ![cur] = "SET"]
  /\ write_buffer' = [write_buffer EXCEPT ![cur] = Response(0)]
  /\ conn' = [conn EXCEPT ![cur].protocol = "HTTP2", ![cur].bytes_read = 0,
                          ![cur].write_buffer_size = Len(Response(0))]
  /\ sock' = [sock EXCEPT ![cur] = SockUnchecked]
  /\ pc' = "after_read"
  /\ UNCHANGED <<backlog, ready, fdtab, disk, connections, batch, ev, cur, preface, frames, upgrading>>

(* The SETTINGS, the response to the request as stream 1, an empty read buffer. *)
UpgradeAnswer ==
  /\ pc = "upgrade_settings" /\ sock[cur].peer # "broken"
  /\ WriteUnchecked(Settings)
  /\ http2_state' = [http2_state EXCEPT ![cur] = "SET"]
  /\ write_buffer' = [write_buffer EXCEPT ![cur] = Response(0)]
  /\ conn' = [conn EXCEPT ![cur].protocol = "HTTP2", ![cur].bytes_read = 0,
                          ![cur].write_buffer_size = Len(Response(0))]
  /\ mod_epoll(cur, SockUnchecked, {"IN", "OUT"})
  /\ pc' = "after_read"
  /\ UNCHANGED <<backlog, fdtab, disk, connections, batch, ev, cur, preface, frames, upgrading>>

-----------------------------------------------------------------------------
(* http2_handle_read. *)

(* Mutant: one read per event. *)
Http2ReadOnce ==
  /\ pc = "h2_read" /\ Receive(cur) /\ pc' = "after_read"
  /\ UNCHANGED <<backlog, ready, fdtab, disk, wire>>
  /\ UNCHANGED <<connections, batch, ev, cur, http2Vars>>

Http2Read ==
  /\ pc = "h2_read" /\ Receive(cur)
  /\ UNCHANGED <<backlog, ready, fdtab, disk, wire>>
  /\ UNCHANGED <<connections, pc, batch, ev, cur, http2Vars>>

(* End of stream or an error: the handler returns, with what it has read, and
   the connection stays. *)
Http2ReadEnd ==
  /\ pc = "h2_read" /\ ReadEnds(sock[cur], ReadRoom(cur))
  /\ pc' = "after_read"
  /\ UNCHANGED <<connections, conn, batch, ev, cur, http2Vars, kernelVars>>

(* EAGAIN before the whole preface is there: the handler returns, or, upgraded,
   takes its first units for the header of a frame that is not complete. *)
PrefaceShort ==
  /\ pc = "h2_read" /\ ReadAgain(sock[cur], ReadRoom(cur))
  /\ preface[cur] = "due" /\ conn[cur].bytes_read < PrefaceLen
  /\ pc' = "after_read"
  /\ UNCHANGED <<connections, conn, batch, ev, cur, http2Vars, kernelVars>>

(* The preface is dropped from the buffer. Of a client with prior knowledge it
   sets the connection up, and the SETTINGS are queued. *)
TakePreface ==
  /\ pc = "h2_read" /\ ReadAgain(sock[cur], ReadRoom(cur))
  /\ preface[cur] = "due" /\ conn[cur].bytes_read >= PrefaceLen
  /\ preface' = [preface EXCEPT ![cur] = "taken"]
  /\ pc' = "h2_frames"
  /\ IF http2_state[cur] = "SET"
       THEN /\ conn' = [conn EXCEPT ![cur].bytes_read = @ - PrefaceLen]
            /\ UNCHANGED <<http2_state, write_buffer, sock, ready>>
       ELSE /\ conn' = [conn EXCEPT ![cur].bytes_read = @ - PrefaceLen,
                                    ![cur].write_buffer_size = 1, ![cur].bytes_written = 0]
            /\ http2_state' = [http2_state EXCEPT ![cur] = "SET"]
            /\ write_buffer' = [write_buffer EXCEPT ![cur] = <<Settings>>]
            /\ mod_epoll(cur, sock[cur], {"IN", "OUT"})
  /\ UNCHANGED <<backlog, fdtab, disk, wire, connections, batch, ev, cur, frames, upgrading>>

FramesFollow ==
  /\ pc = "h2_read" /\ ReadAgain(sock[cur], ReadRoom(cur))
  /\ preface[cur] = "taken"
  /\ pc' = "h2_frames"
  /\ UNCHANGED <<connections, conn, batch, ev, cur, http2Vars, kernelVars>>

(* Mutant: the last unit of a frame is not waited for. *)
FrameWholeEarly == conn[cur].bytes_read >= FrameLen - 1

FrameWhole == conn[cur].bytes_read >= FrameLen

(* The frame at the head of the buffer: its reply is queued, and only a response
   asks epoll for a write event. *)
NextFrame(kind) ==
  LET reply == Reply(kind, Len(frames[cur]) + 1) IN
  /\ pc = "h2_frames" /\ FrameWhole
  /\ frames' = [frames EXCEPT ![cur] = Append(@, kind)]
  /\ write_buffer' = [write_buffer EXCEPT ![cur] = @ \o reply]
  /\ conn' = [conn EXCEPT ![cur].bytes_read = @ - FrameLen,
                          ![cur].write_buffer_size = @ + Len(reply)]
  /\ IF kind = "HEADERS"
       THEN mod_epoll(cur, sock[cur], {"IN", "OUT"})
       ELSE UNCHANGED <<sock, ready>>
  /\ UNCHANGED <<backlog, fdtab, disk, wire>>
  /\ UNCHANGED <<connections, pc, batch, ev, cur, http2_state, preface, upgrading>>

FramesDone ==
  /\ pc = "h2_frames" /\ ~FrameWhole
  /\ pc' = "after_read"
  /\ UNCHANGED <<connections, conn, batch, ev, cur, http2Vars, kernelVars>>

-----------------------------------------------------------------------------
(* handle_write of an HTTP/2 connection. *)

(* Mutant: a write is taken to write everything. *)
Http2WriteWhole ==
  LET d == conn[cur]
      n == Least(d.write_buffer_size - d.bytes_written, Room(sock[cur])) IN
  /\ pc = "h2_write" /\ sock[cur].peer \notin Dead /\ ~Full(sock[cur])
  /\ wire' = [wire EXCEPT ![cur] = @ \o
                SubSeq(write_buffer[cur], d.bytes_written + 1, d.bytes_written + n)]
  /\ conn' = [conn EXCEPT ![cur].write_buffer_size = 0, ![cur].bytes_written = 0]
  /\ write_buffer' = [write_buffer EXCEPT ![cur] = <<>>]
  /\ mod_epoll(cur, Wrote(sock[cur], n), {"IN"})
  /\ pc' = "after_write"
  /\ UNCHANGED <<backlog, fdtab, disk, connections, batch, ev, cur>>
  /\ UNCHANGED <<http2_state, preface, frames, upgrading>>

(* A write of what is left of write_buffer; after the last one the buffer is
   freed and only reads are waited for. *)
Http2Write ==
  LET d == conn[cur]
      n == Least(d.write_buffer_size - d.bytes_written, Room(sock[cur]))
      all == d.bytes_written + n = d.write_buffer_size IN
  /\ pc = "h2_write" /\ sock[cur].peer \notin Dead /\ ~Full(sock[cur])
  /\ wire' = [wire EXCEPT ![cur] = @ \o
                SubSeq(write_buffer[cur], d.bytes_written + 1, d.bytes_written + n)]
  /\ IF all
       THEN /\ conn' = [conn EXCEPT ![cur].write_buffer_size = 0, ![cur].bytes_written = 0]
            /\ write_buffer' = [write_buffer EXCEPT ![cur] = <<>>]
            /\ mod_epoll(cur, Wrote(sock[cur], n), {"IN"})
            /\ pc' = "after_write"
       ELSE /\ conn' = [conn EXCEPT ![cur].bytes_written = @ + n]
            /\ sock' = [sock EXCEPT ![cur] = Wrote(@, n)]
            /\ UNCHANGED <<write_buffer, ready, pc>>
  /\ UNCHANGED <<backlog, fdtab, disk, connections, batch, ev, cur>>
  /\ UNCHANGED <<http2_state, preface, frames, upgrading>>

(* Mutant: EAGAIN is taken for a failure. *)
Http2WriteAgainFatal ==
  /\ pc = "h2_write" /\ sock[cur].peer \notin Dead /\ Full(sock[cur])
  /\ free_connection(cur)
  /\ pc' = "after_write"
  /\ UNCHANGED <<backlog, disk, wire, batch, ev, cur, http2Vars>>

(* EAGAIN: the rest waits for the next write event. *)
Http2WriteAgain ==
  /\ pc = "h2_write" /\ sock[cur].peer \notin Dead /\ Full(sock[cur])
  /\ sock' = [sock EXCEPT ![cur] = Refused(@)]
  /\ pc' = "after_write"
  /\ UNCHANGED <<backlog, ready, fdtab, disk, wire>>
  /\ UNCHANGED <<connections, conn, batch, ev, cur, http2Vars>>

Http2WriteError ==
  /\ pc = "h2_write" /\ sock[cur].peer = "reset"
  /\ free_connection(cur)
  /\ pc' = "after_write"
  /\ UNCHANGED <<backlog, disk, wire, batch, ev, cur, http2Vars>>

-----------------------------------------------------------------------------
(* What the first units of a client say. *)
Opening(c) == IF c \in upgrading THEN "HTTP1" ELSE "HTTP2"

ServerStep ==
  \/ (LoopStep \/ SniffDone(Opening(cur))) /\ UNCHANGED http2Vars
  \/ UpgradeReadDone \/ SwitchProtocols \/ UpgradeAnswer
  \/ Http2Read \/ Http2ReadEnd \/ PrefaceShort \/ TakePreface \/ FramesFollow
  \/ (\E kind \in Kinds : NextFrame(kind)) \/ FramesDone
  \/ Http2Write \/ Http2WriteAgain \/ Http2WriteError

(* An upgrading client sends its preface when it has received the 101. *)
MaySend(c) ==
  c \in upgrading => sock[c].unsent > ReqLen - UpgradeLen \/ Len(wire[c]) > sock[c].snd

PeerStep(c) ==
  /\ Connect(c) \/ (MaySend(c) /\ SendUnit(c)) \/ Drain(c) \/ Fin(c) \/ Reset(c)
  /\ UNCHANGED serverVars

Next == ServerStep \/ \E c \in Clients : PeerStep(c)

Spec == Init /\ [][Next]_vars

(* The thread is never stopped, and a patient client goes on sending its frames
   and taking the replies. *)
PatientPeer(c) == ((MaySend(c) /\ SendUnit(c)) \/ Drain(c)) /\ UNCHANGED serverVars
FairSpec == Spec /\ WF_vars(ServerStep) /\ \A c \in Clients : WF_vars(PatientPeer(c))

-----------------------------------------------------------------------------
(* Properties. *)

ConnType == [state : LiveStates \cup {"NONE", "FREED"},
             protocol : {"UNKNOWN", "HTTP1", "HTTP2"},
             fd : Fds \cup {NoFd}, bytes_read : Nat, read_buffer_size : Nat,
             write_buffer_size : Nat, bytes_written : Nat,
             file_fd : {NoFd}, file_size : {0}, file_offset : {0}]
UnitType == {"settings", "switching", "ack", "headers", "data", "end"} \X Nat

(* The type of every variable. *)
TypeOK ==
  /\ sock \in [Clients -> SockType]
  /\ backlog \subseteq Clients /\ ready \subseteq Clients
  /\ fdtab \in [Fds -> DescriptorType]
  /\ disk = FileLen
  /\ wire \in [Clients -> Seq(UnitType)]
  /\ connections \in [Fds -> Clients \cup {NoClient}]
  /\ conn \in [Clients -> ConnType]
  /\ pc \in Pcs
  /\ batch \subseteq EventType /\ ev \in EventType
  /\ cur \in Clients \cup {NoClient}
  /\ http2_state \in [Clients -> {"NULL", "SET"}]
  /\ write_buffer \in [Clients -> Seq(UnitType)]
  /\ preface \in [Clients -> {"due", "taken"}]
  /\ frames \in [Clients -> Seq(Kinds)]
  /\ upgrading \subseteq Upgraders

(* What the client of an open connection was to be sent: the greeting, then the
   reply to each frame taken from it, in the order of the frames. *)
Greeting(c) ==
  IF c \in upgrading THEN <<Switching, Settings>> \o Response(0) ELSE <<Settings>>

RepliesTo(greeting, taken) ==
  LET upTo[n \in 0..Len(taken)] ==
        IF n = 0 THEN greeting ELSE upTo[n - 1] \o Reply(taken[n], n)
  IN upTo[Len(taken)]

Replies(c) == RepliesTo(Greeting(c), frames[c])

Unwritten(c) ==
  SubSeq(write_buffer[c], conn[c].bytes_written + 1, conn[c].write_buffer_size)

(* Replies are queued while earlier ones are partly written, and the buffer is
   dropped when it is empty: what was written and what is still queued are
   together the replies due, none lost, repeated or out of order. *)
RepliesInOrder ==
  \A c \in Clients :
    Live(c) /\ http2_state[c] = "SET" /\ sock[c].peer \notin Dead
      => wire[c] \o Unwritten(c) = Replies(c)

(* An HTTP/2 connection is never ended by the server while its client is there:
   neither a full send buffer nor a frame that arrives in parts ends it. *)
KeptWhileClientStays ==
  [][\A c \in Clients : Live(c) /\ ~Live(c)' => sock[c].peer \in Gone]_vars

FramesOf(c) ==
  (ReqLen - PrefaceLen - (IF c \in upgrading THEN UpgradeLen ELSE 0)) \div FrameLen

Written(c, u) == \E i \in DOMAIN wire[c] : wire[c][i] = u

(* Every request of a client that stays, the one that asked for the upgrade
   included, is parsed and answered to the last unit of its response, however
   the frames arrive and the send buffer fills. *)
RequestsAnswered ==
  \A c \in Clients :
    Live(c) ~> \/ sock[c].peer \in Gone
               \/ /\ Len(frames[c]) = FramesOf(c)
                  /\ c \in upgrading => Written(c, LastOf(0))
                  /\ \A k \in DOMAIN frames[c] : frames[c][k] = "HEADERS" => Written(c, LastOf(k))

-----------------------------------------------------------------------------
(* What the documentation or the log says and the code does not do. *)

(* http2.c logs "Sent SETTINGS ACK": the SETTINGS of a client that stays are
   acknowledged. *)
SettingsAcked ==
  \A c \in Clients : \A k \in 1..ReqLen \div FrameLen :
    (k <= Len(frames[c]) /\ frames[c][k] = "SETTINGS") ~> Written(c, Ack(k))

(* README: "No memory leaks". The Connection and the descriptor of a client that
   has left are given back. *)
DepartedReleased ==
  \A c \in Clients : (Live(c) /\ sock[c].peer = "fin") ~> ~Live(c)
=============================================================================
