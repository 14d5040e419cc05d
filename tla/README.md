# A verification development for hs-http

hs-http is an HTTP server in C: one thread runs an edge-triggered epoll loop over
non-blocking sockets, serves files and plugin endpoints over HTTP/1.1, and speaks
HTTP/2 with prior knowledge or after an `Upgrade: h2c`. This directory holds TLA+
modules translated from its source, the TLC configurations that check them, and
TLAPS proofs about them. File names below are relative to `src/`.

    tlc -workers 2 -config Loop.cfg MCHttp1Server      (a run: its cfg, its module)
    tlapm Http1ServerProofs.tla                        (the proofs)

## 1. Inventory

| Component | State | Operations | Modules |
|---|---|---|---|
| event loop, `server_epoll/server_epoll.c` | the epoll set, the batch of one `epoll_wait` | wait, take an event, read handler, write handler, hang-up | `EventLoop` |
| accept and connection table, `server_accept.c`, `server_connection.c` | `connections[fd]`, a `Connection` per client | `handle_accept`, `create_connection`, `free_connection`, `get_connection`, `mod_epoll` | `EventLoop` |
| protocol dispatch, `server_dispatch.c` | `protocol`, the read buffer | `handle_read`, `handle_write` | `EventLoop`, `Http2Server` |
| HTTP/1 reading, `http1/http1_read.c` | read buffer, `bytes_read`, `state` | read until EAGAIN, test for completeness, process | `EventLoop`, `Http1Server`, `RequestText` |
| HTTP/1 parsing, `http1/http1_parse.c` | the same buffer, cut in place | `http1_parse_request` | `RequestText` |
| HTTP/1 writing, `http1/http1_write.c` | `write_buffer`, `file_fd`, `file_offset` | header loop, file loop | `Http1Server` |
| direct responses, `response.c`, `handlers.c` | none | `send_response`, `send_response_with_headers`, `handle_error` | `Http1Server`, `PluginHost` |
| plugin dispatch, `plugin.c` | the plugin table (fixed while serving), a `PluginRequest` on the stack | prefix and pattern matching, query parameters, second reading of the request, the call and its return | `PluginRouting`, `Parameters`, `RequestText`, `PluginHost`, `Http1Server` |
| plugin API, `plugin.c`, `response.c` | `current_h2_conn`, `current_h2_stream` | `send_response`, `send_response_with_headers`, `sse_init`, `sse_send`, `sse_close`, `get_query_param` | `PluginHost`, `Parameters`, `ReplyStreams` |
| plugin loading, `plugin.c` | `handle` and `plugin_info` of each entry | `load_plugins` | `PluginHost` |
| server-sent events, `response.c`, `http2_sse_send` of `http2/http2.c` | the buffer of one event | putting an event together, the chunk or the DATA frame | `SseEvent` |
| C++ plugin wrapper, `include/plugin_api.hpp` | the handlers of a plugin, the maps of a request | `matchPattern`, choice of the handler, `getQueryParam`, `parseBody`, `urlDecode` | `PluginRouting`, `Parameters` |
| HTTP/2, `http2/http2.c` | `http2_state`, `write_buffer`, `is_h2c_upgrade` | preface, frame loop, replies, upgrade | `Http2Server` |
| HPACK decoder, `http2/hpack_decode.c` | none between blocks | `decode_int`, `huffman_decode`, `hpack_decode_path`, `hpack_decode_method` | `HpackInteger`, `HpackDecode` |
| HPACK encoder, `http2/hpack_encode.c` | none | `hpack_encode_response` | `PluginHost` (what it leaves out) |
| frame headers, configuration, listening socket, MIME types, response headers, file cache, old request handler, examples | see section 8 | | not modelled |

**How the parts interact.** Everything runs on one thread and communicates through
the `Connection`: the loop looks it up by descriptor, `handle_read` and
`handle_write` change its state and may free it, and the loop compares the pointer
afterwards. What is concurrent is the rest of the world: peers connect, send, take,
half-close and reset between any two system calls; the kernel reports edges once;
another process may shorten a file while it is served. The read buffer is shared by
two parsers: `strtok` in `http1_parse.c` writes into it before `plugin.c` reads it
again. A plugin's handler is called on the same thread and answers by the functions of
the `PluginAPI`, which take a descriptor for HTTP/1; for HTTP/2 two globals, set before
the call and reset after it, lead them to the stream instead.

**What is hard.** Edges that are reported once; events of a batch that name a
descriptor closed, or reused, since; partial writes and EAGAIN at any unit, in the
middle of a file chunk in particular; descriptors at their limit; buffers at the
boundary where they grow; replies queued behind others that are half written; the
second reading of a mutilated buffer; globals that must be those of the request being
handled, whichever protocol the last one used; handlers that answer twice, not at all,
or with a descriptor they have kept; texts put together in a buffer of fixed size, with
lengths added up unchecked; a choice made twice, by the server and by the wrapper of a
plugin. `PROJECT.json` lists each hazard at its line.

**What makes each part correct.** Loop and table: descriptors neither leaked nor
shared, no handler on a freed connection, no edge lost. HTTP/1: complete responses
in order, a connection ended only with its response or its client. HTTP/2: a reply
for each frame, in order. Request text: parsed exactly when whole; headers and body
delivered as sent. Routing: the first eligible endpoint, and only an eligible one, with
the parameters the client meant. Plugin API: every call on the stream of its request and
on no other, and no second answer, for handlers with the habits of the examples; for
others, a bound on who sees what they do. Events: whole when they fit, and inside their
buffer whatever their data; a name that is too long is put behind it, which the code does
not prevent (section 7).
HPACK: the cursor never loses the boundaries of fields, and the answer is the value of
the first field with the name looked for.

## 2. Modules

    Kernel <- EventLoop <- Http1Server <- MCHttp1Server, Http1ServerProofs
                        <- Http2Server <- MCHttp2Server, Http2ServerProofs
    HttpExchange   (abstract; implemented by Http1Server)
    RequestText    <- MCRequestText, RequestTextProofs
    Parameters     <- PluginRouting <- MCPluginRouting, PluginRoutingProofs
    ReplyStreams   (abstract; implemented by PluginHost)
    PluginHost     <- MCPluginHost, PluginHostProofs
    SseEvent       <- MCSseEvent, SseEventProofs
    HpackInteger   <- HpackDecode <- MCHpackDecode, HpackDecodeProofs
    Induction      (lemmas; used by the proofs of Http2Server, PluginRouting, RequestText,
                    HpackDecode)

**Kernel** (external) is what the loop relies on: per client a socket with the peer's
state, units received and not read, units in the send buffer, the interest given to
epoll and the note that a writer met a full buffer (without it, free space raises no
edge, as in Linux); the descriptor table with the lowest free slot first; the ready
list of edge-triggered epoll; the served file's length. Peers act here: `Connect`,
`SendUnit`, `Drain`, `Fin`, `Reset`. A reset after a half-close makes the next write
raise SIGPIPE, a plain reset makes it fail. Data are units: the n-th unit of a response
is the number n, so that a lost, repeated or reordered one shows.

**EventLoop** is the thread: `pc` is the system call or decision it takes next, so
that the world may move between any two of them.

| `pc` | code | actions |
|---|---|---|
| wait, next | `main` | `EpollWait`, `TakeEvent`, `BatchDone` |
| accept | `handle_accept` | `Accept`, `AcceptFails`, `AcceptRefused` |
| sniff | `handle_read`, the loop before the protocol is known | `SniffRead`, `SniffDone`, `ReadEnd` |
| read, process, plugin, static | `http1_handle_read` | `Http1Read`, `Http1ReadDone`, `BadRequest`, `ParsedRequest`, `PluginAnswers`, `PluginDeclines`, `StaticError`, `StaticFile` |
| direct_header, direct_body | `send_response` | `DirectHeader`, `DirectBody` |
| send, file_read, file_write | `http1_handle_write` | `SendHeader(Again)`, `FileRead`, `FileWrite(Again)`, `FileDone`, `WriteError` |
| upgrade, upgrade_settings, h2_read, h2_frames | `http2.c` | `SwitchProtocols`, `UpgradeAnswer`, `Http2Read`, `TakePreface`, `NextFrame`, ... |
| h2_write | `handle_write` for HTTP/2 | `Http2Write(Again)`, `Http2WriteError` |
| after_read, after_write | `main` | `AfterRead`, `AfterWrite` |
| killed | SIGPIPE | |

The variable `conn` is the `Connection`, `connections` the table, `cur` the local
pointer of the handlers, `ev` the event handled, `batch` those that are left.

**Http1Server** adds requests and responses. What a request asks for is a choice of
the environment: refused, given to a plugin (which answers or declines), answered
with an error, answered with a file. `promise` and `method` are locals and ghosts of
that choice.

**HttpExchange** is what the server promises each client, without loop, descriptors
or buffers: one response, announced once, delivered from its first unit without a
gap; the end after its last unit, or when the client has left, when the file became
shorter, or before it was accepted. `Http1Server!ImplementsExchange` is the
refinement; a step of the server that ends a connection may deliver the rest of a
direct response in the same step, which `Finish` allows.

**Http2Server** adds the HTTP/2 handlers. `wire` and `write_buffer` are sequences of
named units, so that replies can be compared with the frames they answer. A frame is
SETTINGS, HEADERS or another kind; HEADERS whose padding is wrong, and those a plugin
takes without answering, count as another kind. An upgrading client sends its
preface once it has the 101.

**RequestText** follows one request byte by byte: arrival in every split,
`find_header_end` and the Content-Length, `strtok`, the plugin's second search for
the blank line, its loop over lines, and the rest as the body. A byte that no branch
looks at is a letter; the fields that matter are single letters. `strtok` works on a C
string, so it stops at a NUL of the body, and what follows that is left as it was.

**PluginRouting** is the choice of plugin and endpoint, with `match_pattern` as a
recursive function and, as reference, `Glob`: the text splits into one piece per byte
of the pattern. `SkipPlugin` to `Decline` are the ways through the two loops;
`CallHandler` includes what the C++ wrapper does when it is called: the endpoints of a
C++ plugin are all one function, which chooses among the plugin's handlers again. Its
`matchPattern` is the algorithm of `match_pattern`, statement by statement, and is modelled
as the same operator; what can go wrong is the second search.

**Parameters** is how the query and the body of a form are taken apart (`strtok` and
`strchr` in `handle_plugin_request`, `parseBody` and `urlDecode` in the wrapper), and,
external, how a client escapes a form. The query is taken by a loop over its pieces
(`Taken` is one turn, with the pieces that are dropped and the end at a full table).
References for both are in `PluginRouting`, stated over positions in the path rather than
by a parser.

**PluginHost** is the life of plugins and what their handlers send. `LoadRefused`,
`InitFails` and `Loaded` are the ways through the loop of `load_plugins`; a library is
counted per `dlopen`, as it may be configured twice. Then each action is a request or a
call of the API: `Http1Request` and `Http2Request` call a handler, `send_response` to
`sse_close` are what it does, `Handled` (0) and `Declined` its return. The code looks at
nothing but that number, and so do they: a handler that returns 0 without having sent
anything is done, its HTTP/1 connection freed and its HTTP/2 stream left silent. `Api` is the branch
that all these functions begin with. `given` is what the handlers said, `out` what the
clients get, one sequence per stream (0 is the connection of an HTTP/1 client); data are
left out but for what is lost on the way: statuses that HPACK has no index for, custom
headers on HTTP/2, the body behind custom headers on HTTP/1. `Habits` are things that
handlers may do and the examples do not: to answer and then decline, and to keep a
descriptor and send an event by it in a later call. Such an event is a unit of its own kind
(`"late"`), so that it shows in `out` whose it was not. How the units travel is the business
of the server modules, and a socket that is full is `SseEvent`'s.

**ReplyStreams** is what a client may see of a stream: one response, or one stream of
events that is opened once and may be closed. `PluginHost!ImplementsStreams` is the
refinement, with the stage computed from what the client was sent.

**SseEvent** follows `sse_send` and `http2_sse_send`, which put an event together in the
same way, line by line: `Line` is one turn of the loop with its clamp and its early end,
`Trailing` the line for a final line end, `SendChunk` the three unchecked writes of
`sse_write_chunk`, `QueueFrame` the DATA frame. Data are known by the lengths of their
lines, and the numbers are those of the source. `Room` is what a line is cut to, computed
as the code does in a `size_t`, modulo `SizeT`. The length of the name is not checked by
the code: `pos` begins with it wherever that is, and once something has been written behind
the buffer (`WriteTo`) the model stops in `"overrun"`, as nothing is defined from there on.

**HpackInteger** is `decode_int`, with the sizes of C's integers as constants, which in the
code are 2^32 and 2^31 - 1 and in TLC's instance are smaller. **HpackDecode** walks over a header block encoded by a client from a list
of fields; octets, prefixes, lengths and Huffman bits are the real ones, the names
and values of the static table are abbreviated. One module stands for
`hpack_decode_path` and `hpack_decode_method`, which differ in the name only.

## 3. Runs

Sizes are distinct states. Sizes of data are in units: what matters is which is
larger than which, and each instance says so.

| Run | States | Question and bounds |
|---|---|---|
| `Loop` | 156,829 | Three clients, all of which may leave, and two descriptors: accept fails at the limit, descriptors are reused while a batch is handled, `open` fails. Descriptors, dangling pointers, lost edges. Clients are interchangeable here, and symmetry over them is used (safety only). |
| `Transfer` | 691,124 | Two clients, one of which may leave, a request of four units with a first buffer of two (grows at the boundary in both read loops), a header (3) and a chunk (3) larger than the send buffer (2), a file (4) that is no multiple of the chunk and may be shortened. Types, room, order, endings, and the refinement of `HttpExchange`. |
| `Patient` | 12,929 | Two clients that stay: all are answered and released. |
| `Frames` | 260,434 | One HTTP/2 client that may leave, three frames of two units by prior knowledge or two after an upgrade, each in up to two reads, replies larger than the send buffer. Buffers, the one descriptor given back, order of replies, endings, and each request of a client that stays answered. What needs a second client, descriptors that are used again and events of their last user, is checked in `Loop` and proved for HTTP/2 with any number of clients (`Http2Descriptors`, `Http2Handlers`). |
| `Request` | 13,369 | Up to two header lines of five shapes, nine bodies (line ends, colons and NULs in them), CRLF or LF, a header table of two, every split of the arrival. |
| `Routing` | 408,104 | Every configuration of up to two of six plugins with every path of up to five bytes over four and two methods, every query of up to five bytes behind two prefixes (a table of two parameters), every form of up to two fields of names and values that need escaping. |
| `Plugins` | 600,075 | Two HTTP/1 clients and an HTTP/2 client with two streams, who share two descriptors and may leave, before up to two entries of one library, each of which may fail to load. A descriptor given back is reused, protocols alternate, streams of events are left open, and handlers may return 0 with nothing sent. No handler keeps a descriptor or declines what it has answered (`Habits = {}`). |
| `Habits` | 1,062,439 | Two HTTP/1 clients and an HTTP/2 client with one stream share two descriptors, before handlers with the habits the examples do not have: they keep a descriptor and send an event by it in a later call, or answer and then decline. Who can be disturbed by the first, and how far the second goes. |
| `Events` | 1,854,792 | Events of up to four lines, lengths on both sides of each margin (100, 20, 12 and 8 bytes) of a buffer of 200, nine lengths of the name's line from none to longer than the buffer, a `size_t` of 16 bits, both protocols, every write taken whole, in part or not at all. |
| `Block` | 20,656 | Every block of one or two out of 58 fields: five representations, indexes and lengths around the sizes of their prefixes, plain and Huffman, a name as long as the buffer, a value longer than the caller's array. `UintSize` is 2^30 and `IntMax` 2^29 - 1 here, because TLC's own integers have 32 bits; no length comes near. |

Violations, each a disagreement between the repository's own words and its code
(section 7): `SigPipe`, `SlowPlugin`.

The properties of the passing `Request` and `Routing` runs have preconditions
(`LongLines`, `FullValues`, `StarsApart`, `QueryInside`, CRLF): each is a case that a
property of section 7, or a hazard with its note, shows the code to treat otherwise. So has
`OverrunOnlyByName` of `Events`: the names it leaves out are the case of `NeverOverrun`.

**Why the bounds are enough.** The loop handles one connection at a time; what a
second client adds is that it may be in the batch while the first is handled, and a
third that a descriptor may be reused by a client that was in neither place. Units of
data matter at the boundaries: empty, partly full, full, one over. The theorems of
section 5 have no bounds.

**Deadlock** is not checked (`CHECK_DEADLOCK FALSE`): each client makes one
connection, so that the server rightly stops when all are done; whether it stops too
early is what the liveness properties ask.

## 4. Fairness

`FairSpec` of `Http1Server` and `Http2Server` assumes weak fairness of the thread: it
is never stopped, all sockets are non-blocking, `epoll_wait` returns when there is an
event. One condition over all its steps is enough, as the thread is sequential. In
`Http1Server` it includes the return of a plugin's handler; `SlowPluginSpec` leaves
that out, to ask what a handler that does not return does to the others. Nothing is
assumed about the order of events in a batch, and nothing of epoll beyond its list.

Liveness is only claimed for clients that stay (`Aborting = {}`, or, in `Frames`, an
escape for those that have left) and are patient: weak fairness of sending the rest of the request and of taking what was written. Without it
a client that stops in the middle of its request is waited for forever, as the
code has no timeouts.

## 5. Proofs

Eight modules hold proofs. `Induction` has lemmas only; each of the others proves an
inductive invariant that the properties of the runs follow from. Every safety invariant and
action property that a passing run checks is a theorem.

### Induction

The library states induction with an operator as its parameter, which the provers cannot
instantiate. `Induction` states it with sets and functions instead, from the well-foundedness
of `<` on the naturals (`WFMin`): a set of naturals has a least one (`LeastNat`); a set with 0
that is closed under the successor has all (`Upwards`), and the same from the end of a
sequence (`FromTheEnd`). `Recursion` says that a recursive function exists when each argument
refers to one of smaller rank, and `Stepwise` and `Backwards` are its two common cases, a loop
over a sequence from the front and from the back. With them a recursive function of a model is
unfolded to its equations, and what it computes is proved for inputs of every length. The
rest says what the operators on sequences return; `FlatIs` and `FlatAt` unfold `FlattenSeq`
and say where in the whole each part is.

### Http1ServerProofs

For every number of clients and descriptors and every size of buffers, requests,
responses and files:

| Theorem | Statement |
|---|---|
| `Invariance` | `Spec => []IInv` |
| `TypeCorrect` | `Spec => []TypeOK` |
| `DescriptorsCorrect` | `Spec => []DescriptorsAccounted` |
| `HandlersSafe` | `Spec => []HandlerOnLiveConnection` |
| `BufferSafe` | `Spec => []BufferHasRoom` |

They rest on the assumptions named in the modules: `KernelAssumption` (descriptors and
units are naturals, the null client is no client, a send buffer holds something),
`LoopAssumption` (the first buffer holds a unit and a terminator) and
`ServerAssumption` (a header and a chunk are not empty, a direct response has both
parts).

None of the properties is inductive. That an event of the batch names a live
connection depends on what happens to the connections served before it, and that a
file is closed once depends on the states in which one is open. The invariant is

    IInv == TypeOK /\ DescriptorsAccounted /\ ConnInv /\ QueueInv /\ ThreadInv

- `ConnInv`: what a state of a connection says of its fields: the interest given to
  epoll, room in the read buffer, an open file in WRITE_FILE and in no other state;
- `QueueInv`: who is in the backlog, on the ready list and in the batch. Its core is
  that no event of the batch is for the connection being handled, so freeing that one
  leaves all others valid. It holds because a batch has one event per descriptor, and
  because a descriptor closed by one handler can only be reused by `accept`, after
  which the kernel reports it in the next batch;
- `ThreadInv`: what the position of the thread says of the connection it serves.

`FreeConnection` and `DescriptorsKept` carry most of the accounting; `CurStep` covers
the handlers that touch their own connection only; `PeerMoves` all that peers do. Then
there is one lemma per action, and `NextKeeps` puts them together.

On the same assumptions, for any number of clients that share the loop, the descriptors
and the file, with a second invariant:

| Theorem | Statement | Under |
|---|---|---|
| `SentInOrder` | `Spec => []WireInOrder` | |
| `NobodyCutOff` | `Spec => ClosedOnlyWhenAnswered` | `DirectLen <= SndCap` |
| `ServerImplementsExchange` | `Spec => ImplementsExchange` | `DirectLen <= SndCap` |
| `NoEdgeIsLost` | `Spec => []NoLostEdge` | |

The condition is one the code does not establish: `send_response` does not look at what
its second write returns and frees the connection, so a direct response that does not fit
the send buffer is cut, which `DirectResponseWhole` shows (section 7) and
`ClosedOnlyWhenAnswered` would too in an instance with a larger `DirectLen`.

`OrderInv` is added to `IInv`. Its part `Progress` relates, for each connection, four things
that the code keeps in different places: the units on the wire, `bytes_written` or
`file_offset`, the position behind the file's descriptor, and the length announced. They
agree between events; while a chunk is written the position is ahead by the whole chunk
(`FileProgress`), and EAGAIN must bring both counters back to the end of the wire. That the
position is not moved for somebody else needs the accounting of descriptors (`FilesApart`).
Its part `HangUpInv` says that a hang-up in the batch, or being handled, is of a peer that is
dead, so that the free at the end of `main`'s loop body cuts nobody off, and that the freed
connections are those whose sockets are closed.

There is one lemma per action, and each proves `OrderInv'` with two facts about the step:
`Ends`, how a connection may end, and `Moves`, that the step touches one client, and how
far. `ClientMaps` turns them into a step of `HttpExchange`: a write is `Deliver`, opening a
file or beginning a direct response is `Announce`, every way to `free_connection` is
`Finish` or `Drop`, a client that leaves `Leave`, and all else leaves its variables alone.

For edges there is an invariant of its own, `EdgeInv`. With edge-triggered epoll
`NoLostEdge` depends on what the handlers did last. `EdgeInv` says, of each live
connection, that unless its handler is running it is on the ready list, or in the batch, or
nothing of its condition holds; that a socket which is written and is full was found full
by a write or by `epoll_ctl` (`Marked`), without which its next drain is no edge; that an
event in the batch has a bit its connection acts on (`MasksWanted`); and that between the
read and the write handler what is left is covered by the event's EPOLLOUT. `PeerEdge` shows
that every move of a peer which makes the mask of a socket non-empty is an edge; the read
loops and the write loops keep it because each of them only returns at EAGAIN or with the
connection freed.

### Http2ServerProofs

For every number of clients, upgrading or not, and every length of preface, frame and
body: `Http2Invariance`, and from it `Http2Types` (`[]TypeOK`), `Http2Descriptors`
(`[]DescriptorsAccounted`), `Http2Handlers` (`[]HandlerOnLiveConnection`),
`Http2BufferSafe` (`[]BufferHasRoom`) and `Http2Kept` (`KeptWhileClientStays`, an action
property). They rest on `KernelAssumption`, `LoopAssumption` and `Http2Assumption` (who
upgrades is a client; a preface and an upgrade are at least as long as what is needed to
tell them apart).

The invariant has the same five parts as above with other contents. `ConnInv` says that
the counters of an HTTP/2 connection stay inside its `write_buffer`, and that a connection
of another protocol has been sent nothing but the 101: the two writes of the upgrade look at no
result, and are whole only because the send buffer is all but empty. `QueueInv` and `ThreadInv` say that a
hang-up in the batch, or being handled, is of a peer that is dead: otherwise the hang-up
of one client could free the connection of the next user of its descriptor. Each lemma
about an action proves `IInv' /\ Kept`, where `Kept` says that the step frees no connection
whose client is still there, so that the action property comes with the invariant.

`Http2RepliesInOrder` (`[]RepliesInOrder`) needs more than the order of the wire. `OrderInv`
is added: what is on the wire of a client, followed by what its write buffer still has to
send, is the greeting (the 101 and what goes with it, or the SETTINGS that answer the
preface) and the replies to the frames taken so far. `Replies` is a recursive function over
the frames, unfolded by `Stepwise`; taking a frame adds its reply behind the buffer, a
partial write moves units from the buffer to the wire, and freeing a connection stops both.

### PluginHostProofs

For every configuration, every set of libraries, clients and streams, on
`HostAssumption`:

| Theorem | Statement | Under |
|---|---|---|
| `HostInvariance`, `HostTypes` | `[]BaseInv`, `[]TypeOK` | |
| `PluginsReady` | `[]UsableIsReady` | |
| `StreamsOfTheirOwn` | `[]CallsReachTheirStream` | no `"late_send"` |
| `NothingBehindSecondAnswer` | `[]SecondAnswerIsLast` | |
| `LateSendsStray` | `StrayOnlyByKeptDescriptor` | |
| `HostImplementsStreams` | `ImplementsStreams` | `Habits = {}` |

`BaseInv` has what loading leaves behind and who owns which descriptor. `HostSteps` sorts the
steps from it: a step sends nothing (`Quiet`), or what the handler of the current request says
or the server says in its place (`Own`), or is a late call; `SentOut` and `LateOut` say where
the two kinds of calls show. `LateSendsStray` follows at once. The rest are three invariants
added to `BaseInv`: `StreamInv`, that nothing was meant for a stream before its request, for
`StreamsOfTheirOwn`; `SecondInv`, that what a handler has said so far bounds how much of an end
its stream has, and that a stream not asked for yet has nothing but late events, for
`NothingBehindSecondAnswer`; and `StageInv`, that it tells the stage exactly, for the refinement.

The conditions on `Habits` are needed: in the instance of run `Habits`, `CallsReachTheirStream` is
violated with `"late_send"`, and with `"late_decline"` a stream has two ends (`OneAnswer`). The
two theorems without a condition say what is left then: a client sees a call that is not
of its own request only on its connection, by a descriptor that was kept, while no stream of
HTTP/2 is served; and behind the second answer there is nothing. That a request is
answered at all is not among the theorems, since the code does not see to it
(`OverIsAnswered`, section 7).

### SseEventProofs

For every number and length of lines, every length of the name and every size of the
buffer from 100 bytes: `EventInvariance`, `OnlyLongNamesOverrun` (`[]OverrunOnlyByName`),
`EventDelivered` (`[]EventAsSent`), `CutOnlyAtTheEnd` (`[]CutAtTheEnd`), `EventTypes`
(`[]TypeOK`). `EventAssumption` says that the sizes are naturals and that a `size_t` counts
more bytes than the buffer has; it asks nothing of the name. The invariant says, at each turn
of the loop, what has been written of which lines, and that, if the name has left 20 bytes, so
many are left there, which is enough for what the rest of the function writes without looking
and keeps `Room` from wrapping (`SmallRemainder`). With a longer name the code does write behind
its buffer (`NeverOverrun`, section 7), and the theorem says that no other event does.

### PluginRoutingProofs

For every configuration of plugins, every path, query and form of any length, on
`RoutingAssumption` and `ParametersAssumption`:

| Theorem | Statement | What it says |
|---|---|---|
| `RoutingInvariant` | `[]RoutingInv` | |
| `RoutedToEligible` | `[]OnlyEligibleServe` | who is called was to be |
| `RoutedToFirst` | `[]FirstServes` | and is the first; its preconditions are in the property |
| `WrapperPicksServed` | `[]WrapperPicksSame` | the second choice, by path and method, is the first one |
| `QueriesDelivered` | `[]QueryDelivered` | the first value of each key, from whatever prefix was cut |
| `FormsDelivered` | `[]FormDelivered` | `parseBody` undoes what a client does to a form |

`RoutingAssumption` says of the plugins what their configuration does: the path of a plugin
has no `?`. Its last conjunct, that bytes are strings, is true of any strings and is not told
to the provers otherwise.

The invariant is about the two loops: what was passed over fails the code's own test
(`SearchInv`), and the outcome names a plugin and an endpoint that pass it (`OutcomeInv`).
Above that, the work is in what the tests compute. `Matches` says when the rest of a text
can be cut into one piece per byte of the rest of a pattern (`Cut`); `ServerMatches`
shows that the recursion, which backtracks with a loop at each star, decides it, from which
the reference `Glob` follows (`MatchedIsGlob`, `GlobIsMatched`). `WrapperPicksServed` needs
no more of the matching than that server and wrapper have the same one: what the server has
passed over in the plugin, the wrapper passes over. For forms, `EncodedIs` says where each byte of
a name stands in the text that was sent, `DecodeIs` what `urlDecode` makes of a place, and
`FormParsed` that no escape contains an ampersand or an equals sign, so that the pieces are
the fields. For queries, `PiecesBegin` locates the pieces in the path itself, and
`FirstFound` and `NeverFull` go through the table with them.

### RequestTextProofs

For every number and length of header lines, every body and every size of the table, on
`TextAssumption` (lines hold no line end and no NUL and are not empty):

| Theorem | Statement |
|---|---|
| `TextInvariant` | `[]TextInv` |
| `ParsedExactlyWhenWhole` | `[]ParsedWhenWhole` |
| `HeadersReachHandler` | `[]HeadersDelivered` |
| `BodiesReachHandler` | `[]BodyDelivered` |

`Layout` locates each line in the text; `HeadBytes` says from it which bytes of the head are
line ends. Then each search of the code is compared with the layout: `HeaderEndIs` (the
first blank line is the client's, in every beginning of the text that has it),
`CompleteIs` (what the length says and what has arrived agree at the last byte and not
before it), `TokenizedIs` (which bytes `strtok` writes over: the CR
of every line and, in the body, line ends only), `PluginHeaderEndIs` (the search for two
near line feeds finds the blank line, since a line of three bytes and its NUL are in between
everywhere else) and `LinesRead` (each turn of the loop gets one line of the client's back).

    TextInv == ArrivalInv /\ ReadingInv /\ TableInv /\ BodyDelivered

`ArrivalInv` is that buffer and stream are two halves of the text, and that the phase knows
which; without it nothing is known of the buffer at the moment it is parsed. `TableInv` places the loop on a
line and says that the table holds the headers of all lines before it, in order
(`Rank` counts the lines with a name). One more entry may come from behind the blank line
(`NoHeaderFromBody`, section 7): it is added behind the others and disturbs none.

### HpackDecodeProofs

For every table of Huffman codes, every set of fields, blocks of any number of them, and
every size of the caller's array and of `name_buf`:

| Theorem | Statement | What it says |
|---|---|---|
| `IntegerRead` | about `decode_int` | the number a client wrote, and the place behind it |
| `HuffmanRead` | `huffman_decode(Huffman(s)) = s` | for every text `s` |
| `HpackInvariant` | `[]HpackInv` | |
| `CursorOnField` | `[]StandsOnField` | |
| `BlockAnswered` | `[]AnswersBlock` | |

`IntegerAssumption` is that five groups of seven bits hold an int and that a `uint32_t` holds
more than an int does, as in C. `BlockAssumption` is that texts have no NUL, that no code begins
another and none is part of the padding, which is all the code needs of RFC 7541's table, and
that numbers and lengths are those of an int. A block is whole; what the decoders do with one
that ends inside a field is not modelled, and nothing is claimed of it.

`Holds` says that octets carry a number in groups, with what is left of it at each group;
`GroupsIs` shows that of what a client writes, `GroupsEnd` that an int has at most five
groups, so that the last shift, 28, is never passed, and `LastIs` and `TotalIs` that the code
stops at the last group and adds up the number. For texts, `HuffmanIs` says which bits the octets
have, and `OneCode` and `NoCode` that at most one code begins at a bit and none in the padding.
`FieldPlaces` says where in the octets each field is and `FirstOctet` that its first octet tells its
representation, so that exactly one branch of the code is taken. `FieldStep` puts the parts of
a field together: it is answered with, skipped or refused, and the cursor that skips it stands at
the next.

    HpackInv == Whole /\ status \in {...} /\ \E i : StandsAt(i)

`StandsOnField` is not inductive, as the place where a field begins says nothing of what was
passed: `StandsAt(i)` adds that all fields before the i-th could be read and were not the one
looked for, and that status and answer are what the i-th field gives.

## 6. Only model-checked

Liveness (`EventuallyClosed`, `BegunIsFinished`, `RequestsAnswered`), which is beyond the
prover used.

## 7. Where code and documents disagree

| Property | Module | Run | What it shows |
|---|---|---|---|
| `ServerSurvives` | `EventLoop` | `SigPipe` | A client that half-closes, then resets, ends the process: SIGPIPE is not ignored. |
| `OthersServed` | `Http1Server` | `SlowPlugin` | A handler runs on the loop's thread and holds up every client. |
| `SettingsAcked` | `Http2Server` | - | The ACK is queued, but no write event asked for. |
| `BodyAsSent` | `RequestText` | - | `strtok` runs on into the body and writes over its line ends. |
| `DirectResponseWhole` | `Http1Server` | - | A body larger than the send buffer is cut: `send_response` writes once (`DirectLen = 5`). |
| `DepartedReleased` | `Http2Server` | - | A departed HTTP/2 client is never released. |
| `UpgradeFromHeaders` | `RequestText` | - | A body line can ask for the upgrade. |
| `NoHeaderFromBody` | `RequestText` | - | The loop over header lines takes one line of the body. |
| `LineFeedsAccepted` | `RequestText` | - | The blank line of LF-only requests is overwritten before it is looked for. |
| `ValuesSent` | `RequestText` | - | An empty header value is left uninitialized. |
| `StarMatchesAnySequence` | `PluginRouting` | - | `/a**` does not match `/a`. |
| `QueryCutEverywhere` | `PluginRouting` | - | `/api?x=1` does not reach the plugin at `/api`. |
| `EventStreamsStayOpen` | `PluginHost` | - | "Sends SSE headers and keeps connection open" (`docs/c_api.md:154`): over HTTP/1 the connection is freed as soon as the handler returns. |
| `AnswerAsGiven` | `PluginHost` | - | Over HTTP/2 a status without an index becomes 200 and custom headers are lost; over HTTP/1 custom headers shift the body by a byte. |
| `OverIsAnswered` | `PluginHost` | - | A handler that returns 0 having sent nothing has its HTTP/1 connection freed without an answer; on HTTP/2 the stream stays silent. |
| `OneAnswer` | `PluginHost` | - | A handler that has answered and returns another value than 0 makes the server answer a second time. |
| `CallsReachTheirStream` | `PluginHost` | - | With `"late_send"`: an event sent by a kept descriptor reaches whoever has it by then, or the HTTP/2 stream being served. |
| `NeverOverrun` | `SseEvent` | - | The length `snprintf` returns for a name is added to `pos` unchecked (`response.c:83`, `http2.c:159`); with fewer than 20 bytes left the room of the next line wraps (`response.c:96`, `http2.c:172`), and the event is written behind its buffer on the stack. |
| `ChunkWhole` | `SseEvent` | - | A full socket leaves part of a chunk on the wire. |

`OverIsAnswered`, `OneAnswer`, `CallsReachTheirStream` with `"late_send"` and `NeverOverrun` say
what a client would expect, and no document mentions. Those without a run are violated when they take the place of the properties of a passing
run: `SettingsAcked` and `DepartedReleased` in `Frames`, `BodyAsSent` and the others of
`RequestText` in `Request`, those of `PluginRouting` in `Routing`, those of `PluginHost`
in `Plugins`, but `OneAnswer` and `CallsReachTheirStream` in `Habits`; `ChunkWhole` and
`NeverOverrun` in `Events`; `DirectResponseWhole` in `Transfer` with `DirectLen = 5`.

Observations without a property:

- a half-closed client with a complete request is dropped unanswered; at the descriptor
  limit the loop runs without pause;
- `decode_int` takes some encodings of numbers of more than 32 bits for smaller ones; the
  HPACK decoders have no dynamic table, do not compare Huffman-coded names, and stop at a
  literal that is never to be indexed;
- the loop of `main` never ends, so that `unload_plugins` and the `cleanup` that
  `docs/c_api.md` asks for are never called; a library that is configured twice is
  initialised twice;
- over HTTP/2 `raw_request` is NULL, so that a handler sees neither headers nor body;
- query parameters are not percent-decoded, unlike the fields of a form;
- `sendText`, `sendJSON` and `sendHTML` of the wrapper set the status to 200 unless they
  are given one, so that a `setStatus` before them has no effect;
- a handler of the wrapper that sends and then throws makes it send a second response.

## 8. Not modelled, and why

- Failures of `malloc` and `realloc`, which the code mostly does not test.
- Building of paths, conditional requests, MIME types, response headers, custom error
  pages, logging: formatting, or a choice between outcomes that are modelled.
- The cuts of texts that are longer than their arrays, and what `strtol` takes for a
  number in an escape beside two digits (signs, spaces): `Parameters` and `RequestText`
  keep names and values short, escapes well-formed.
- In HTTP/2: PING and WINDOW_UPDATE contents, flow control, blocks that are continued
  in another frame or that end inside a field, a first line that begins like the preface
  and is not. Replies are sequences of units in `Http2Server`; which status they carry is
  `PluginHost`'s. Content types of 127 bytes and more, whose length the encoder would have
  to continue, are left out, and so are its octets.
- What an event is once it has been written behind its buffer, and lengths that overflow an
  `int`.
- `http2_frame.c`: only the ACK goes through it, and its bytes are constants.
- Configuration and the listening socket: run once before the loop and keep no state
  that changes. The entry for a reverse proxy is read and used by nothing.
- `unload_plugins`: never reached.
- The file cache, `request_handler.c` and `request.c`: nothing calls them.
- The examples: code of plugins. What they do with the API is what `Habits = {}` allows.

## 9. Plan

1. HPACK encoder against the decoder; contents of HTTP/2 frames (lengths, padding,
   stream identifiers, windows).
2. An upgrading client that sends its preface early; a half-closed client.
