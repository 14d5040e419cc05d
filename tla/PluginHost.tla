----------------------------- MODULE PluginHost -----------------------------
(* The plugins of hs-http and what their handlers send: load_plugins, the calls
   of handlers for HTTP/1 requests and HTTP/2 streams, and the API functions,
   which find out by the globals current_h2_conn and current_h2_stream whether
   to write to the descriptor they are given or to queue frames. Everything runs
   on the thread of the loop, so a call of the API is one step; which plugin is
   eligible is the choice of PluginRouting.                                  *)
EXTENDS Integers, Sequences, FiniteSets

CONSTANTS Clients,       \* the peers; each one connects once
          Http2Clients,  \* those that speak HTTP/2
          Streams,       \* the streams an HTTP/2 client opens
          FdLimit,       \* descriptors left to the process
          Libraries,     \* the .so files a configuration may name
          MaxPlugins,    \* entries of the configuration
          Statuses,      \* status codes handlers answer with
          MaxEvents,     \* events a handler sends, a bound of the model
          Habits,        \* what handlers do beyond the documented examples
          NoRequest      \* no request: a NULL current_h2_conn

ASSUME HostAssumption ==
  /\ Http2Clients \subseteq Clients
  /\ Streams \subseteq Nat \ {0} /\ FdLimit \in Nat /\ MaxPlugins \in Nat
  /\ Statuses \subseteq Nat /\ MaxEvents \in Nat
  /\ Habits \subseteq {"late_decline", "late_send"}
  /\ NoRequest \notin Clients \X ({0} \cup Streams)

VARIABLES
  so_path,      \* per entry of the configuration: its library
  loading,      \* the loop of load_plugins: the entry it is at
  handle,       \* the entries whose handle is not NULL
  plugin_info,  \* the entries whose plugin_info is not NULL
  refs,         \* per library: dlopen calls not yet undone by dlclose
  inits,        \* history: the entries whose init returned 0
  client_fd,    \* per client: the descriptor of its connection, or NoFd
  gone,         \* the clients whose connection has ended
  current_h2,   \* current_h2_conn with current_h2_stream
  request,      \* the request a handler is called for
  said,         \* what the handler has sent for it: "nothing", "response", "events", "end"
  asked,        \* history: the requests that were handled or are
  kept,         \* the requests whose descriptor a handler has kept, with it
  given,        \* history: per stream, what was to be sent on it
  out           \* per stream: what its client is sent, 0 being the connection itself

loadVars == <<so_path, loading, handle, plugin_info, refs, inits>>
serveVars == <<client_fd, gone, current_h2, request, said, asked, kept, given, out>>
vars == <<loadVars, serveVars>>

NoFd == 0
Fds == 1..FdLimit
Channels == Clients \X ({0} \cup Streams)
Requests == ((Clients \ Http2Clients) \X {0}) \cup (Http2Clients \X Streams)

Init ==
  /\ so_path \in UNION {[1..n -> Libraries] : n \in 0..MaxPlugins}
  /\ loading = 1 /\ handle = {} /\ plugin_info = {} /\ inits = {}
  /\ refs = [l \in Libraries |-> 0]
  /\ client_fd = [c \in Clients |-> NoFd]
  /\ gone = {} /\ current_h2 = NoRequest /\ request = NoRequest /\ said = "nothing"
  /\ asked = {} /\ kept = {}
  /\ given = [ch \in Channels |-> <<>>] /\ out = [ch \in Channels |-> <<>>]

-----------------------------------------------------------------------------
(* load_plugins: one step for each way through the loop. A library that is open
   for another entry is there and fits, and dlopen only counts it again. *)

Library == so_path[loading]

(* dlopen fails, or there is no plugin_info or another version of it and the
   handle is closed at once. *)
LoadRefused ==
  /\ loading <= Len(so_path) /\ refs[Library] = 0
  /\ loading' = loading + 1
  /\ UNCHANGED <<so_path, handle, plugin_info, refs, inits, serveVars>>

(* Mutant: the entry keeps the handle that was closed. *)
InitFailsKept ==
  /\ loading <= Len(so_path)
  /\ handle' = handle \cup {loading} /\ plugin_info' = plugin_info \cup {loading}
  /\ loading' = loading + 1
  /\ UNCHANGED <<so_path, refs, inits, serveVars>>

(* Mutant: the loop runs while i <= plugin_count. *)
InitFailsPastEnd ==
  /\ loading <= Len(so_path) + 1
  /\ loading' = loading + 1
  /\ UNCHANGED <<so_path, handle, plugin_info, refs, inits, serveVars>>

(* init returns an error: the handle is closed, both pointers are reset. *)
InitFails ==
  /\ loading <= Len(so_path)
  /\ loading' = loading + 1
  /\ UNCHANGED <<so_path, handle, plugin_info, refs, inits, serveVars>>

Loaded ==
  /\ loading <= Len(so_path)
  /\ refs' = [refs EXCEPT ![Library] = @ + 1]
  /\ handle' = handle \cup {loading} /\ plugin_info' = plugin_info \cup {loading}
  /\ inits' = inits \cup {loading}
  /\ loading' = loading + 1
  /\ UNCHANGED <<so_path, serveVars>>

Serving == loading > Len(so_path)
Usable == handle \cap plugin_info

-----------------------------------------------------------------------------
(* What is sent, and what becomes of it on the way. *)

Response(status, fields) ==
  [kind |-> "response", status |-> status, fields |-> fields, body |-> "given"]
Part(kind) == [kind |-> kind, status |-> 200, fields |-> FALSE, body |-> "given"]

(* hpack_encode_response has an index for three statuses, and the headers of
   send_response_with_headers are not passed on. *)
OnHttp2(u) ==
  [u EXCEPT !.status = IF @ \in {404, 500} THEN @ ELSE 200, !.fields = FALSE]

(* send_response_with_headers writes 22 bytes of a string of 21 before the body. *)
OnHttp1(u) == [u EXCEPT !.body = IF u.fields THEN "shifted" ELSE "given"]

(* A write to a descriptor reaches whoever it belongs to now. *)
Written(f, u) ==
  LET owners == {c \in Clients : client_fd[c] = f} IN
  [ch \in Channels |-> IF ch \in owners \X {0} THEN Append(out[ch], OnHttp1(u)) ELSE out[ch]]

Queued(ch, u) == [out EXCEPT ![ch] = Append(@, OnHttp2(u))]

(* Mutant: the protocol of the request is not asked for. *)
ApiRaw(r, f, u) ==
  /\ given' = [given EXCEPT ![r] = Append(@, u)]
  /\ out' = Written(f, u)

(* A function of the PluginAPI, called with descriptor f for request r. *)
Api(r, f, u) ==
  /\ given' = [given EXCEPT ![r] = Append(@, u)]
  /\ out' = IF current_h2 # NoRequest THEN Queued(current_h2, u) ELSE Written(f, u)

-----------------------------------------------------------------------------
(* Connections and requests. *)

Idle == Serving /\ request = NoRequest

(* accept: the lowest descriptor that is free. *)
Connect(c) ==
  /\ Idle /\ client_fd[c] = NoFd /\ c \notin gone
  /\ \E f \in Fds :
       /\ \A d \in Clients : client_fd[d] # f
       /\ \A g \in 1..f - 1 : \E d \in Clients : client_fd[d] = g
       /\ client_fd' = [client_fd EXCEPT ![c] = f]
  /\ UNCHANGED <<loadVars, gone, current_h2, request, said, asked, kept, given, out>>

Disconnect(c) ==
  /\ client_fd' = [client_fd EXCEPT ![c] = NoFd]
  /\ gone' = gone \cup {c}

(* The client resets its connection, and the loop frees it. *)
Leave(c) ==
  /\ Idle /\ client_fd[c] # NoFd
  /\ Disconnect(c)
  /\ UNCHANGED <<loadVars, current_h2, request, said, asked, kept, given, out>>

(* handle_plugin_request finds an endpoint for an HTTP/1 request. *)
Http1Request(c) ==
  /\ Idle /\ Usable # {} /\ client_fd[c] # NoFd /\ c \notin Http2Clients
  /\ <<c, 0>> \notin asked
  /\ request' = <<c, 0>> /\ asked' = asked \cup {<<c, 0>>} /\ said' = "nothing"
  /\ UNCHANGED <<loadVars, client_fd, gone, current_h2, kept, given, out>>

(* The same for a stream, or for the request of an upgrade, which is stream 1. *)
Http2Request(c, s) ==
  /\ Idle /\ Usable # {} /\ client_fd[c] # NoFd /\ c \in Http2Clients
  /\ <<c, s>> \notin asked
  /\ request' = <<c, s>> /\ asked' = asked \cup {<<c, s>>} /\ said' = "nothing"
  /\ current_h2' = <<c, s>>
  /\ UNCHANGED <<loadVars, client_fd, gone, kept, given, out>>

Descriptor == client_fd[request[1]]
Handling == request # NoRequest

send_response(status) ==
  /\ Handling /\ said = "nothing" /\ said' = "response"
  /\ Api(request, Descriptor, Response(status, FALSE))
  /\ UNCHANGED <<loadVars, client_fd, gone, current_h2, request, asked, kept>>

send_response_with_headers(status) ==
  /\ Handling /\ said = "nothing" /\ said' = "response"
  /\ Api(request, Descriptor, Response(status, TRUE))
  /\ UNCHANGED <<loadVars, client_fd, gone, current_h2, request, asked, kept>>

sse_init ==
  /\ Handling /\ said = "nothing" /\ said' = "events"
  /\ Api(request, Descriptor, Part("open"))
  /\ UNCHANGED <<loadVars, client_fd, gone, current_h2, request, asked, kept>>

sse_send ==
  /\ Handling /\ said = "events" /\ Len(given[request]) <= MaxEvents
  /\ Api(request, Descriptor, Part("event"))
  /\ UNCHANGED <<loadVars, client_fd, gone, current_h2, request, said, asked, kept>>

sse_close ==
  /\ Handling /\ said = "events" /\ said' = "end"
  /\ Api(request, Descriptor, Part("close"))
  /\ UNCHANGED <<loadVars, client_fd, gone, current_h2, request, asked, kept>>

(* A handler that sends an event to a client it has kept the descriptor of: sse_send
   for another request than its own, marked by its kind. *)
SendLater(k) ==
  /\ Handling /\ "late_send" \in Habits
  /\ Len(given[k[1]]) <= MaxEvents
  /\ Api(k[1], k[2], Part("late"))
  /\ UNCHANGED <<loadVars, client_fd, gone, current_h2, request, said, asked, kept>>

-----------------------------------------------------------------------------
(* The return of a handler. *)

Http2 == request[1] \in Http2Clients

Keep == IF "late_send" \in Habits /\ said = "events"
          THEN kept \cup {<<request, Descriptor>>} ELSE kept

(* Mutant: the globals are left as they are. *)
HandledNoReset ==
  /\ Handling
  /\ kept' = Keep /\ request' = NoRequest /\ said' = "nothing"
  /\ IF Http2 THEN UNCHANGED <<client_fd, gone>> ELSE Disconnect(request[1])
  /\ UNCHANGED <<loadVars, current_h2, asked, given, out>>

(* 0, whatever the handler has sent or not: the request is over. An HTTP/1 connection
   is freed, also without a byte of an answer; a stream stays as it is. *)
Handled ==
  /\ Handling
  /\ kept' = Keep /\ request' = NoRequest /\ said' = "nothing" /\ current_h2' = NoRequest
  /\ IF Http2 THEN UNCHANGED <<client_fd, gone>> ELSE Disconnect(request[1])
  /\ UNCHANGED <<loadVars, asked, given, out>>

(* Another value: the server answers the request itself, with a file or an error;
   an HTTP/1 connection is freed when that is written. *)
Declined(status) ==
  LET u == Response(status, FALSE) IN
  /\ Handling /\ (said = "nothing" \/ "late_decline" \in Habits)
  /\ request' = NoRequest /\ said' = "nothing" /\ current_h2' = NoRequest
  /\ given' = [given EXCEPT ![request] = Append(@, u)]
  /\ IF Http2 THEN out' = Queued(request, u) /\ UNCHANGED <<client_fd, gone>>
              ELSE out' = Written(Descriptor, u) /\ Disconnect(request[1])
  /\ UNCHANGED <<loadVars, asked, kept>>

Next ==
  \/ LoadRefused \/ InitFails \/ Loaded
  \/ \E c \in Clients :
       Connect(c) \/ Leave(c) \/ Http1Request(c) \/ \E s \in Streams : Http2Request(c, s)
  \/ \E st \in Statuses : send_response(st) \/ send_response_with_headers(st)
  \/ sse_init \/ sse_send \/ sse_close \/ \E k \in kept : SendLater(k)
  \/ Handled \/ \E st \in {200, 404} : Declined(st)

Spec == Init /\ [][Next]_vars

-----------------------------------------------------------------------------
(* Properties. *)

UnitType ==
  [kind : {"response", "open", "event", "close", "late"}, status : Nat,
   fields : BOOLEAN, body : {"given", "shifted"}]

(* The type of every variable. *)
TypeOK ==
  /\ so_path \in Seq(Libraries) /\ loading \in 1..Len(so_path) + 1
  /\ handle \subseteq DOMAIN so_path /\ plugin_info \subseteq DOMAIN so_path
  /\ inits \subseteq DOMAIN so_path /\ refs \in [Libraries -> Nat]
  /\ client_fd \in [Clients -> Fds \cup {NoFd}] /\ gone \subseteq Clients
  /\ current_h2 \in Channels \cup {NoRequest} /\ request \in Requests \cup {NoRequest}
  /\ said \in {"nothing", "response", "events", "end"}
  /\ asked \subseteq Requests /\ kept \subseteq Requests \X Fds
  /\ given \in [Channels -> Seq(UnitType)] /\ out \in [Channels -> Seq(UnitType)]

(* An entry that requests are routed to has its library open and an init that
   returned 0, whatever happened to the other entries of the same library; and no
   library is closed more often than it was opened. *)
UsableIsReady ==
  /\ \A p \in Usable : refs[so_path[p]] > 0 /\ p \in inits
  /\ \A l \in Libraries : refs[l] = Cardinality({p \in handle : so_path[p] = l})

(* What is lost on the way: see AnswerAsGiven. *)
Faithful(u) == ~u.fields /\ u.status \in {200, 404, 500}

OwnCalls(ch) ==
  /\ Len(out[ch]) = Len(given[ch])
  /\ \A i \in DOMAIN out[ch] :
       /\ out[ch][i].kind = given[ch][i].kind
       /\ Faithful(given[ch][i]) => out[ch][i] = given[ch][i]

(* Each call of the API for a request shows on the stream of that request, once
   and in order, and no other stream, client or connection sees anything of it,
   whichever protocol the requests before it used. *)
CallsReachTheirStream == \A ch \in Channels : OwnCalls(ch)

(* Who can be disturbed by a handler that sends on a descriptor it has kept. A call
   shows on the stream of HTTP/2 that is being handled, whatever its descriptor,
   and otherwise on the connection that has the descriptor by now, of whichever
   client and protocol. So a client sees something outside its own request only
   while no stream of HTTP/2 is served, on its connection and not on a stream of
   it, and only if its descriptor is one that was kept. *)
StrayOnlyByKeptDescriptor ==
  [][\A ch \in Channels : out'[ch] # out[ch] =>
       \/ ch = request
       \/ /\ ch[2] = 0 /\ client_fd[ch[1]] \in {k[2] : k \in kept}
          /\ current_h2 = NoRequest]_vars

Final == {"response", "close"}

OneAnswerMore(units) ==
  \A i, j \in DOMAIN units :
    i < j /\ units[i].kind \in Final /\ units[j].kind # "late" =>
      units[j].kind = "response" /\ \A k \in DOMAIN units : k > j => units[k].kind = "late"

(* A handler that has answered and then declines makes its client see a second answer.
   Behind the first end of a stream there is at most that one answer, and nothing
   behind it, but for what other handlers send late: no later request, whatever
   its protocol and descriptor, adds to a stream that is over. *)
SecondAnswerIsLast == \A ch \in Channels : OneAnswerMore(out[ch])

(* What the client of a stream has seen. *)
StageOf(units) ==
  CASE units = <<>> -> "silent"
    [] units # <<>> /\ units[Len(units)].kind \in Final -> "answered"
    [] OTHER -> "streaming"

Streams_ == INSTANCE ReplyStreams WITH stage <- [ch \in Channels |-> StageOf(out[ch])]

(* Handlers with none of the Habits never make a stream see two answers, an
   event outside a stream of events, or anything after its end: refinement of
   ReplyStreams. *)
ImplementsStreams == Streams_!Spec

-----------------------------------------------------------------------------
(* What the documentation says, or a client would expect, and the code does not do. *)

(* c_api.md: "Sends SSE headers and keeps connection open". A stream of events is
   there until sse_close or until its client leaves. *)
EventStreamsStayOpen ==
  [][\A c \in Clients : Leave(c) \/
       (client_fd[c] # NoFd /\ client_fd'[c] = NoFd
          => \A s \in {0} \cup Streams : StageOf(out[<<c, s>>]) # "streaming")]_vars

(* c_api.md: "status_code - HTTP status code (200, 404, etc.)", "body - response
   body bytes", "Send an HTTP response with custom headers". *)
AnswerAsGiven == \A ch \in Channels : out[ch] = given[ch]

(* Stated nowhere, and true of neither protocol: a handler that returns 0 is taken to
   have answered, and none looks whether it has. *)
OverIsAnswered == \A r \in asked \ {request} : StageOf(out[r]) # "silent"

(* Not true of the code, which does not ask what a handler that declines has sent. *)
OneAnswer ==
  \A ch \in Channels : Cardinality({i \in DOMAIN out[ch] : out[ch][i].kind \in Final}) <= 1
=============================================================================
