------------------------------ MODULE SseEvent ------------------------------
(* sse_send and http2_sse_send: an event is put together in a buffer of a fixed
   size and sent as one chunk (HTTP/1) or one DATA frame (HTTP/2). The data are
   known by the lengths of their lines, since the code copies them as they are:
   <<3, 0>> is three bytes and a line end, <<0>> is no data at all. The numbers
   are those of the source; only the size of the buffer is a parameter.      *)
EXTENDS Integers, Sequences

CONSTANTS Size,       \* BUFFER_SIZE, and the 8192 of http2_sse_send
          SizeT,      \* the numbers of a size_t, 2^64 in the build
          EventLens,  \* lengths of the line "event: %s\r\n", 0 without a name
          LineLens,   \* lengths of lines of data
          MaxLines    \* lines in the data of an event, a bound of the model

ASSUME EventAssumption ==
  /\ Size \in Nat /\ SizeT \in Nat /\ 100 <= Size /\ Size < SizeT
  /\ EventLens \subseteq Nat /\ LineLens \subseteq Nat /\ MaxLines \in Nat \ {0}

VARIABLES
  protocol,  \* "HTTP/1" or "HTTP/2"
  event,     \* the length of the line of the name
  data,      \* the lengths of the lines of data
  pc,        \* where sse_send is; "overrun" once it has written behind buf
  ptr,       \* the line the loop is at
  pos,       \* bytes in buf
  written,   \* the lengths of the data lines in buf
  taken      \* what the socket took of each write, or the write buffer of the frame

eventVars == <<protocol, event, data>>
vars == <<eventVars, pc, ptr, pos, written, taken>>

(* snprintf returns the length of the whole name, also when it has cut it, and
   nothing compares what is added to pos with the size of buf. *)
Init ==
  /\ protocol \in {"HTTP/1", "HTTP/2"}
  /\ data \in UNION {[1..n -> LineLens] : n \in 1..MaxLines}
  /\ event \in EventLens /\ pos = event
  /\ pc = "loop" /\ ptr = 1 /\ written = <<>> /\ taken = <<>>

(* ptr < end: behind the last line end there is another line only if a byte is. *)
More == ptr < Len(data) \/ (ptr = Len(data) /\ data[ptr] > 0)

(* Mutant: the room is an int, which is negative behind the last 20 bytes. *)
RoomSigned == Size - pos - 20

(* sizeof(buf) - pos - 20, which wraps when pos is behind the last 20 bytes. *)
Room == (Size - pos - 20) % SizeT

(* Mutant: the room left is computed without what follows the line. *)
ClampedFull(n) == IF n > (Size - pos) % SizeT THEN (Size - pos) % SizeT ELSE n

Clamped(n) == IF n > Room THEN Room ELSE n

(* Bytes up to the new pos are written; what is not in buf is undefined, and with
   it whatever would follow. *)
WriteTo(end, next) ==
  /\ pos' = end
  /\ pc' = IF end > Size THEN "overrun" ELSE next

(* Mutant: the loop goes on while a byte of the buffer is left. *)
LineNoMargin ==
  /\ pc = "loop" /\ More
  /\ LET n == Clamped(data[ptr]) IN
       /\ WriteTo(pos + 6 + n + 2, IF pos' >= Size THEN "trailing" ELSE "loop")
       /\ written' = Append(written, n)
  /\ ptr' = ptr + 1
  /\ UNCHANGED <<eventVars, taken>>

(* One line: "data: ", what there is room for, CR LF; the loop ends when the
   buffer is all but full. *)
Line ==
  /\ pc = "loop" /\ More
  /\ LET n == Clamped(data[ptr]) IN
       /\ WriteTo(pos + 6 + n + 2, IF pos' > Size - 100 THEN "trailing" ELSE "loop")
       /\ written' = Append(written, n)
  /\ ptr' = ptr + 1
  /\ UNCHANGED <<eventVars, taken>>

LoopEnds ==
  /\ pc = "loop" /\ ~More
  /\ pc' = "trailing"
  /\ UNCHANGED <<eventVars, ptr, pos, written, taken>>

(* data_len > 0 and data[data_len - 1] is a line end. *)
EndsInNewline == Len(data) > 1 /\ data[Len(data)] = 0

(* Mutant: a line end behind the last line adds no line. *)
TrailingIgnored ==
  /\ pc = "trailing"
  /\ WriteTo(pos + 2, "send") /\ UNCHANGED written
  /\ UNCHANGED <<eventVars, ptr, taken>>

(* An empty line of data for a line end behind the last line, then CR LF for the
   end of the event. *)
Trailing ==
  /\ pc = "trailing"
  /\ IF EndsInNewline THEN WriteTo(pos + 8 + 2, "send") /\ written' = Append(written, 0)
                      ELSE WriteTo(pos + 2, "send") /\ UNCHANGED written
  /\ UNCHANGED <<eventVars, ptr, taken>>

(* Of n bytes a socket takes all, some or, when it is full, none; none of the
   three writes of sse_write_chunk looks at the result. *)
Takes(n) == {0, n \div 2, n}

(* Length of "%zx\r\n". *)
SizeLine == 2 + (CASE pos < 16 -> 1 [] pos < 256 -> 2 [] pos < 4096 -> 3 [] OTHER -> 4)

SendChunk ==
  /\ pc = "send" /\ pc' = "done" /\ protocol = "HTTP/1"
  /\ \E a \in Takes(SizeLine), b \in Takes(pos), c \in Takes(2) : taken' = <<a, b, c>>
  /\ UNCHANGED <<eventVars, ptr, pos, written>>

(* http2_send_data_frame: header and payload are appended to write_buffer. *)
QueueFrame ==
  /\ pc = "send" /\ pc' = "done" /\ protocol = "HTTP/2"
  /\ taken' = <<9, pos>>
  /\ UNCHANGED <<eventVars, ptr, pos, written>>

Next == Line \/ LoopEnds \/ Trailing \/ SendChunk \/ QueueFrame

Spec == Init /\ [][Next]_vars

-----------------------------------------------------------------------------
(* Properties. *)

(* The type of every variable. *)
TypeOK ==
  /\ protocol \in {"HTTP/1", "HTTP/2"}
  /\ data \in Seq(LineLens) /\ data # <<>>
  /\ event \in Nat /\ pc \in {"loop", "trailing", "send", "done", "overrun"}
  /\ ptr \in 1..Len(data) + 1
  /\ pos \in Nat /\ written \in Seq(Nat) /\ taken \in Seq(Nat)

(* A line of the data is framed in room computed before it is framed, and two more
   ends follow when the loop has stopped. However the data are cut into lines,
   and wherever the loop stops, nothing of this is written behind the buffer:
   only an event whose name leaves it fewer than 20 bytes can do that. *)
OverrunOnlyByName == pc = "overrun" => event + 20 > Size

(* The client's EventSource joins the lines again: they are the lines of the
   data, the empty one behind a last line end included, unless the event has
   filled its buffer but for the last 100 bytes. *)
EventAsSent ==
  pc \in {"send", "done"} /\ written # data => data = <<0>> \/ pos > Size - 100

(* What is left of an event that is too long is its beginning: lines of the data
   in order, of which only the last may be cut, but for an empty line behind. *)
CutAtTheEnd ==
  \A i \in 1..Len(written) :
    \/ i <= Len(data) /\ written[i] = data[i]
    \/ i = Len(written) /\ written[i] = 0 /\ EndsInNewline
    \/ /\ i <= Len(data) /\ written[i] < data[i]
       /\ \A j \in i + 1..Len(written) : j = Len(written) /\ written[j] = 0 /\ EndsInNewline

(* Not true of the code: no event is written past the end of its buffer, however
   long its name. *)
NeverOverrun == pc # "overrun"

(* Not true of the code on HTTP/1: a chunk is there as a whole or not at all. *)
ChunkWhole == pc = "done" => taken \in {<<9, pos>>, <<SizeLine, pos, 2>>, <<0, 0, 0>>}
=============================================================================
