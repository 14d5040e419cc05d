-------------------------- MODULE PluginHostProofs --------------------------
(* Proofs about PluginHost, for every number of clients, streams, descriptors,
   configured plugins and events.                                            *)
EXTENDS PluginHost, FiniteSetTheorems, TLAPS

(* What the loop of load_plugins has made of the entries before the one it is at. *)
LoadInv ==
  /\ handle = plugin_info /\ handle = inits
  /\ IsFiniteSet(handle) /\ \A p \in handle : p < loading
  /\ \A l \in Libraries : refs[l] = Cardinality({p \in handle : so_path[p] = l})

(* Descriptors are not shared, the request being handled is that of a connected
   client, and the globals are set exactly while it is one of HTTP/2. *)
ServeInv ==
  /\ \A c, d \in Clients : client_fd[c] = client_fd[d] /\ client_fd[c] # NoFd => c = d
  /\ \A c \in gone : client_fd[c] = NoFd
  /\ Handling => client_fd[request[1]] \in Fds /\ request \in asked
  /\ current_h2 = IF Handling /\ request[1] \in Http2Clients THEN request ELSE NoRequest
  /\ ~Handling => said = "nothing"
  /\ kept # {} => "late_send" \in Habits

BaseInv == TypeOK /\ LoadInv /\ ServeInv

-----------------------------------------------------------------------------
LEMMA RequestTypes ==
  /\ Requests \subseteq Channels
  /\ NoRequest \notin Channels
  /\ \A r \in Requests : r[1] \in Clients
  /\ \A r \in Requests : r[1] \notin Http2Clients => r = <<r[1], 0>>
BY HostAssumption DEF HostAssumption, Requests, Channels

LEMMA UnitTypes ==
  /\ \A st \in Statuses \cup {200, 404}, b \in BOOLEAN : Response(st, b) \in UnitType
  /\ \A k \in {"open", "event", "close", "late"} : Part(k) \in UnitType
  /\ \A u \in UnitType : OnHttp1(u) \in UnitType /\ OnHttp2(u) \in UnitType
<1>1. \A st \in Statuses \cup {200, 404} : st \in Nat
  BY HostAssumption DEF HostAssumption
<1>2. \A u \in UnitType : OnHttp1(u) \in UnitType
  BY DEF OnHttp1, UnitType
<1>3. ASSUME NEW u \in UnitType PROVE OnHttp2(u) \in UnitType
  <2>. DEFINE st == IF u.status \in {404, 500} THEN u.status ELSE 200
  <2>1. st \in Nat
    BY DEF UnitType
  <2>2. OnHttp2(u) = [u EXCEPT !.status = st, !.fields = FALSE]
    BY DEF OnHttp2, UnitType
  <2>. HIDE DEF st
  <2>. QED  BY <2>1, <2>2 DEF UnitType
<1>4. \A st \in Statuses \cup {200, 404}, b \in BOOLEAN : Response(st, b) \in UnitType
  BY <1>1 DEF Response, UnitType
<1>5. \A k \in {"open", "event", "close", "late"} : Part(k) \in UnitType
  BY DEF Part, UnitType
<1>. QED  BY <1>2, <1>3, <1>4, <1>5

(* A unit on its way keeps its kind, and all of it when there is nothing to lose. *)
LEMMA OnTheWay ==
  ASSUME NEW u \in UnitType
  PROVE  /\ OnHttp1(u).kind = u.kind /\ OnHttp2(u).kind = u.kind
         /\ Faithful(u) /\ u.body = "given" => OnHttp1(u) = u /\ OnHttp2(u) = u
<1>1. OnHttp1(u).kind = u.kind /\ OnHttp2(u).kind = u.kind
  BY DEF OnHttp1, OnHttp2, UnitType
<1>2. ASSUME Faithful(u), u.body = "given" PROVE OnHttp1(u) = u
  <2>1. ~u.fields
    BY <1>2 DEF Faithful
  <2>2. OnHttp1(u) = [u EXCEPT !.body = "given"]
    BY <2>1 DEF OnHttp1
  <2>. QED  BY <1>2, <2>2 DEF UnitType
<1>3. ASSUME Faithful(u) PROVE OnHttp2(u) = u
  <2>1. ~u.fields /\ u.status \in {200, 404, 500}
    BY <1>3 DEF Faithful
  <2>. DEFINE st == IF u.status \in {404, 500} THEN u.status ELSE 200
  <2>2. OnHttp2(u) = [u EXCEPT !.status = st, !.fields = FALSE]
    BY DEF OnHttp2, UnitType
  <2>4. st = u.status
    BY <2>1
  <2>. HIDE DEF st
  <2>3. u = [kind |-> u.kind, status |-> u.status, fields |-> FALSE, body |-> u.body]
    BY <2>1 DEF UnitType
  <2>. QED  BY <2>2, <2>3, <2>4 DEF UnitType
<1>. QED  BY <1>1, <1>2, <1>3

(* Whatever a write or a queued frame does, it appends a unit to some streams. *)
LEMMA WrittenType ==
  ASSUME TypeOK, NEW f, NEW u \in UnitType
  PROVE  Written(f, u) \in [Channels -> Seq(UnitType)]
<1>. DEFINE owners == {c \in Clients : client_fd[c] = f}
<1>1. \A ch \in Channels : Append(out[ch], OnHttp1(u)) \in Seq(UnitType)
  BY UnitTypes DEF TypeOK
<1>2. \A ch \in Channels :
        (IF ch \in owners \X {0} THEN Append(out[ch], OnHttp1(u)) ELSE out[ch]) \in Seq(UnitType)
  BY <1>1 DEF TypeOK
<1>. HIDE DEF owners
<1>3. [ch \in Channels |-> IF ch \in owners \X {0} THEN Append(out[ch], OnHttp1(u)) ELSE out[ch]]
        \in [Channels -> Seq(UnitType)]
  BY <1>2
<1>. QED  BY <1>3 DEF Written, owners

LEMMA QueuedType ==
  ASSUME TypeOK, NEW c \in Channels, NEW u \in UnitType
  PROVE  Queued(c, u) \in [Channels -> Seq(UnitType)]
<1>1. \A s \in Seq(UnitType) : Append(s, OnHttp2(u)) \in Seq(UnitType)
  BY UnitTypes
<1>. QED  BY <1>1 DEF Queued, TypeOK

LEMMA ApiTypes ==
  ASSUME TypeOK, NEW r \in Requests, NEW f, NEW u \in UnitType, Api(r, f, u)
  PROVE  given' \in [Channels -> Seq(UnitType)] /\ out' \in [Channels -> Seq(UnitType)]
<1>1. given' \in [Channels -> Seq(UnitType)]
  <2>1. \A s \in Seq(UnitType) : Append(s, u) \in Seq(UnitType)
    OBVIOUS
  <2>. QED  BY <2>1 DEF Api, TypeOK
<1>2. CASE current_h2 # NoRequest
  <2>1. current_h2 \in Channels /\ out' = Queued(current_h2, u)
    BY <1>2 DEF Api, TypeOK
  <2>. QED  BY <2>1, <1>1, QueuedType
<1>3. CASE current_h2 = NoRequest
  <2>1. out' = Written(f, u)
    BY <1>3 DEF Api
  <2>. QED  BY <2>1, <1>1, WrittenType
<1>. QED  BY <1>1, <1>2, <1>3

-----------------------------------------------------------------------------
(* The invariant of the host itself: it holds at first. *)
LEMMA BaseInit == Init => BaseInv
<1>. SUFFICES ASSUME Init PROVE BaseInv
  OBVIOUS
<1>1. TypeOK
  <2>1. PICK n \in 0..MaxPlugins : so_path \in [1..n -> Libraries]
    BY DEF Init
  <2>2. n \in Nat
    BY HostAssumption DEF HostAssumption
  <2>3. so_path \in Seq(Libraries) /\ Len(so_path) \in Nat
    BY <2>1, <2>2
  <2>. QED  BY <2>3 DEF Init, TypeOK
<1>2. LoadInv
  <2>1. \A l \in Libraries : {p \in {} : so_path[p] = l} = {}
    OBVIOUS
  <2>. QED  BY <2>1, FS_EmptySet DEF Init, LoadInv
<1>3. ServeInv
  BY DEF Init, ServeInv, Handling
<1>. QED  BY <1>1, <1>2, <1>3 DEF BaseInv

(* An entry of the configuration is added to those that are usable. *)
LEMMA LoadKeeps ==
  ASSUME BaseInv, LoadRefused \/ InitFails \/ Loaded
  PROVE  BaseInv'
<1>. USE DEF BaseInv
<1>1. ServeInv'
  BY DEF LoadRefused, InitFails, Loaded, serveVars, ServeInv, Handling
<1>2. CASE LoadRefused \/ InitFails
  <2>1. TypeOK'
    BY <1>2 DEF LoadRefused, InitFails, serveVars, TypeOK
  <2>2. LoadInv'
    <3>1. \A p \in handle : p \in Nat /\ loading \in Nat
      BY DEF TypeOK
    <3>2. loading' = loading + 1 /\ UNCHANGED <<so_path, handle, plugin_info, refs, inits>>
      BY <1>2 DEF LoadRefused, InitFails
    <3>3. \A p \in handle' : p < loading'
      BY <3>1, <3>2 DEF LoadInv
    <3>4. \A l \in Libraries : refs'[l] = Cardinality({p \in handle' : so_path'[p] = l})
      BY <3>2, Zenon DEF LoadInv
    <3>. QED  BY <3>2, <3>3, <3>4 DEF LoadInv
  <2>. QED  BY <1>1, <2>1, <2>2
<1>3. CASE Loaded
  <2>1. loading \in DOMAIN so_path /\ Library \in Libraries /\ loading \notin handle
    BY <1>3 DEF Loaded, TypeOK, LoadInv, Library
  <2>2. TypeOK'
    BY <1>3, <2>1 DEF Loaded, serveVars, TypeOK
  <2>3. handle' = plugin_info' /\ handle' = inits' /\ IsFiniteSet(handle')
    BY <1>3, FS_AddElement DEF Loaded, LoadInv
  <2>4. \A p \in handle' : p < loading'
    BY <1>3 DEF Loaded, LoadInv, TypeOK
  <2>5. ASSUME NEW l \in Libraries
        PROVE  refs'[l] = Cardinality({p \in handle' : so_path'[p] = l})
    <3>. DEFINE before == {p \in handle : so_path[p] = l}
    <3>1. IsFiniteSet(before) /\ refs[l] = Cardinality(before)
      BY FS_Subset DEF LoadInv
    <3>2. CASE l = Library
      <4>1. {p \in handle' : so_path'[p] = l} = before \cup {loading}
        BY <1>3, <3>2 DEF Loaded, Library
      <4>2. Cardinality(before \cup {loading}) = Cardinality(before) + 1
        BY <2>1, <3>1, FS_AddElement
      <4>3. refs'[l] = refs[l] + 1
        BY <1>3, <3>2 DEF Loaded, TypeOK
      <4>. QED  BY <3>1, <4>1, <4>2, <4>3
    <3>3. CASE l # Library
      <4>1. {p \in handle' : so_path'[p] = l} = before
        BY <1>3, <3>3 DEF Loaded, Library
      <4>2. refs'[l] = refs[l]
        BY <1>3, <3>3 DEF Loaded, TypeOK
      <4>. QED  BY <3>1, <4>1, <4>2
    <3>. QED  BY <3>2, <3>3
  <2>6. LoadInv'
    BY <2>3, <2>4, <2>5 DEF LoadInv
  <2>. QED  BY <1>1, <2>2, <2>6
<1>. QED  BY <1>2, <1>3

LEMMA LoadStays == LoadInv /\ UNCHANGED loadVars => LoadInv'
BY DEF LoadInv, loadVars

(* A descriptor is given to a client, or taken back. *)
LEMMA ConnectKeeps ==
  ASSUME BaseInv, NEW c \in Clients, Connect(c)
  PROVE  BaseInv'
<1>. USE DEF BaseInv
<1>1. LoadInv'
  BY DEF Connect, loadVars, LoadInv
<1>2. TypeOK'
  BY DEF Connect, loadVars, TypeOK
<1>3. ServeInv'
  BY DEF Connect, ServeInv, TypeOK, Handling, Idle, Fds, NoFd
<1>. QED  BY <1>1, <1>2, <1>3

LEMMA LeaveKeeps ==
  ASSUME BaseInv, NEW c \in Clients, Leave(c)
  PROVE  BaseInv'
<1>. USE DEF BaseInv
<1>1. LoadInv'
  BY DEF Leave, loadVars, LoadInv
<1>2. TypeOK'
  BY DEF Leave, Disconnect, loadVars, TypeOK
<1>3. ServeInv'
  BY DEF Leave, Disconnect, ServeInv, TypeOK, Handling, Idle
<1>. QED  BY <1>1, <1>2, <1>3

(* A handler begins. *)
LEMMA Http1RequestKeeps ==
  ASSUME BaseInv, NEW c \in Clients, Http1Request(c)
  PROVE  BaseInv'
<1>. USE DEF BaseInv
<1>1. LoadInv'
  BY DEF Http1Request, loadVars, LoadInv
<1>2. <<c, 0>> \in Requests /\ c \notin Http2Clients
  BY DEF Http1Request, Requests
<1>3. TypeOK'
  BY <1>2 DEF Http1Request, loadVars, TypeOK
<1>4. ServeInv'
  BY <1>2, RequestTypes DEF Http1Request, ServeInv, TypeOK, Handling, Idle
<1>. QED  BY <1>1, <1>3, <1>4

LEMMA Http2RequestKeeps ==
  ASSUME BaseInv, NEW c \in Clients, NEW s \in Streams, Http2Request(c, s)
  PROVE  BaseInv'
<1>. USE DEF BaseInv
<1>1. LoadInv'
  BY DEF Http2Request, loadVars, LoadInv
<1>2. <<c, s>> \in Requests /\ c \in Http2Clients
  BY DEF Http2Request, Requests
<1>3. TypeOK'
  BY <1>2, RequestTypes DEF Http2Request, loadVars, TypeOK
<1>4. ServeInv'
  BY <1>2, RequestTypes DEF Http2Request, ServeInv, TypeOK, Handling, Idle
<1>. QED  BY <1>1, <1>3, <1>4

(* A handler calls the API, for its request or for one it has kept. *)
LEMMA CallKeeps ==
  ASSUME BaseInv, Handling, NEW r \in Requests, NEW f, NEW u \in UnitType, Api(r, f, u),
         said' \in {"nothing", "response", "events", "end"},
         UNCHANGED <<loadVars, client_fd, gone, current_h2, request, asked, kept>>
  PROVE  BaseInv'
<1>. USE DEF BaseInv
<1>1. LoadInv'
  BY DEF loadVars, LoadInv
<1>2. TypeOK'
  BY ApiTypes DEF loadVars, TypeOK
<1>3. ServeInv'
  BY DEF ServeInv, Handling
<1>. QED  BY <1>1, <1>2, <1>3

LEMMA HandlerKeeps ==
  ASSUME BaseInv,
         \/ \E st \in Statuses : send_response(st) \/ send_response_with_headers(st)
         \/ sse_init \/ sse_send \/ sse_close \/ \E k \in kept : SendLater(k)
  PROVE  BaseInv'
<1>0. Handling => request \in Requests
  BY DEF BaseInv, TypeOK, Handling
<1>1. ASSUME NEW st \in Statuses, send_response(st) PROVE BaseInv'
  BY <1>0, <1>1, CallKeeps, UnitTypes DEF send_response
<1>2. ASSUME NEW st \in Statuses, send_response_with_headers(st) PROVE BaseInv'
  BY <1>0, <1>2, CallKeeps, UnitTypes DEF send_response_with_headers
<1>3. ASSUME sse_init PROVE BaseInv'
  BY <1>0, <1>3, CallKeeps, UnitTypes DEF sse_init
<1>4. ASSUME sse_send PROVE BaseInv'
  BY <1>0, <1>4, CallKeeps, UnitTypes DEF sse_send
<1>5. ASSUME sse_close PROVE BaseInv'
  BY <1>0, <1>5, CallKeeps, UnitTypes DEF sse_close
<1>6. ASSUME NEW k \in kept, SendLater(k) PROVE BaseInv'
  <2>1. k[1] \in Requests /\ said \in {"nothing", "response", "events", "end"}
    BY DEF BaseInv, TypeOK
  <2>. QED  BY <1>6, <2>1, CallKeeps, UnitTypes DEF SendLater
<1>. QED  BY <1>1, <1>2, <1>3, <1>4, <1>5, <1>6

(* A handler returns: the request is over, and its HTTP/1 connection freed. *)
LEMMA HandledKeeps ==
  ASSUME BaseInv, Handled
  PROVE  BaseInv'
<1>. USE DEF BaseInv
<1>1. LoadInv'
  BY DEF Handled, loadVars, LoadInv
<1>2. request \in Requests /\ request[1] \in Clients /\ Descriptor \in Fds
  BY RequestTypes DEF Handled, TypeOK, Handling, ServeInv, Descriptor
<1>3. Keep \subseteq Requests \X Fds
  BY <1>2 DEF Keep, TypeOK
<1>4. TypeOK'
  BY <1>2, <1>3 DEF Handled, Disconnect, loadVars, TypeOK
<1>5. ServeInv'
  <2>1. kept' # {} => "late_send" \in Habits
    BY DEF Handled, Keep, ServeInv
  <2>2. ~Handling' /\ said' = "nothing" /\ current_h2' = NoRequest
    BY DEF Handled, Handling
  <2>3. CASE Http2
    BY <2>1, <2>2, <2>3 DEF Handled, ServeInv
  <2>4. CASE ~Http2
    <3>1. client_fd' = [client_fd EXCEPT ![request[1]] = NoFd] /\ gone' = gone \cup {request[1]}
      BY <2>4 DEF Handled, Disconnect
    <3>. QED  BY <1>2, <2>1, <2>2, <3>1 DEF ServeInv, TypeOK
  <2>. QED  BY <2>3, <2>4
<1>. QED  BY <1>1, <1>4, <1>5

LEMMA DeclinedKeeps ==
  ASSUME BaseInv, NEW st \in {200, 404}, Declined(st)
  PROVE  BaseInv'
<1>. USE DEF BaseInv
<1>0. /\ UNCHANGED <<so_path, loading, handle, plugin_info, refs, inits, asked, kept>>
      /\ request' = NoRequest /\ said' = "nothing" /\ current_h2' = NoRequest
  BY DEF Declined, Response, loadVars
<1>1. LoadInv'
  BY <1>0, LoadStays DEF loadVars
<1>2. request \in Requests /\ request \in Channels /\ request[1] \in Clients
  BY RequestTypes DEF Declined, Response, TypeOK, Handling
<1>3. Response(st, FALSE) \in UnitType
  BY UnitTypes DEF Response
<1>4. given' \in [Channels -> Seq(UnitType)]
  <2>1. \A q \in Seq(UnitType), u \in UnitType : Append(q, u) \in Seq(UnitType)
    OBVIOUS
  <2>. QED  BY <1>2, <1>3, <2>1 DEF Declined, Response, TypeOK
<1>5. out' \in [Channels -> Seq(UnitType)]
  BY <1>2, <1>3, WrittenType, QueuedType DEF Declined, Response
<1>6. TypeOK'
  <2>1. client_fd' \in [Clients -> Fds \cup {NoFd}] /\ gone' \subseteq Clients
    <3>1. CASE Http2
      BY <3>1 DEF Declined, Response, TypeOK
    <3>2. CASE ~Http2
      <4>1. Disconnect(request[1])
        BY <3>2 DEF Declined, Response
      <4>. QED  BY <1>2, <4>1 DEF Disconnect, TypeOK
    <3>. QED  BY <3>1, <3>2
  <2>2. request' \in Requests \cup {NoRequest} /\ current_h2' \in Channels \cup {NoRequest}
    BY <1>0
  <2>. QED  BY <1>0, <1>4, <1>5, <2>1, <2>2 DEF TypeOK
<1>7. ServeInv'
  BY <1>2 DEF Declined, Response, Disconnect, ServeInv, TypeOK, Handling
<1>. QED  BY <1>1, <1>6, <1>7

LEMMA BaseNext == BaseInv /\ [Next]_vars => BaseInv'
<1>. SUFFICES ASSUME BaseInv, [Next]_vars PROVE BaseInv'
  OBVIOUS
<1>1. CASE UNCHANGED vars
  BY <1>1 DEF vars, loadVars, serveVars, BaseInv, TypeOK, LoadInv, ServeInv, Handling
<1>2. CASE LoadRefused \/ InitFails \/ Loaded
  BY <1>2, LoadKeeps
<1>3. ASSUME NEW c \in Clients, Connect(c) PROVE BaseInv'
  BY <1>3, ConnectKeeps
<1>4. ASSUME NEW c \in Clients, Leave(c) PROVE BaseInv'
  BY <1>4, LeaveKeeps
<1>5. ASSUME NEW c \in Clients, Http1Request(c) PROVE BaseInv'
  BY <1>5, Http1RequestKeeps
<1>6. ASSUME NEW c \in Clients, NEW s \in Streams, Http2Request(c, s) PROVE BaseInv'
  BY <1>6, Http2RequestKeeps
<1>7. CASE \/ \E st \in Statuses : send_response(st) \/ send_response_with_headers(st)
           \/ sse_init \/ sse_send \/ sse_close \/ \E k \in kept : SendLater(k)
  BY <1>7, HandlerKeeps
<1>8. CASE Handled
  BY <1>8, HandledKeeps
<1>9. ASSUME NEW st \in {200, 404}, Declined(st) PROVE BaseInv'
  BY <1>9, DeclinedKeeps
<1>. QED  BY <1>1, <1>2, <1>3, <1>4, <1>5, <1>6, <1>7, <1>8, <1>9 DEF Next

(* Types, the table of loaded plugins, the ownership of descriptors and the
   globals of the API hold in every state, whatever handlers do. *)
THEOREM HostInvariance == Spec => []BaseInv
BY BaseInit, BaseNext, PTL DEF Spec

(* Every variable keeps its type, for every configuration and all clients. *)
THEOREM HostTypes == Spec => []TypeOK
<1>1. BaseInv => TypeOK
  BY DEF BaseInv
<1>. QED  BY HostInvariance, <1>1, PTL

(* Requests are only routed to plugins whose library is open and whose init
   succeeded, and dlopen and dlclose balance, whatever fails while loading. *)
THEOREM PluginsReady == Spec => []UsableIsReady
<1>1. BaseInv => UsableIsReady
  <2>. SUFFICES ASSUME BaseInv PROVE UsableIsReady
    OBVIOUS
  <2>. USE DEF BaseInv
  <2>1. \A l \in Libraries : refs[l] = Cardinality({p \in handle : so_path[p] = l})
    BY DEF LoadInv
  <2>2. ASSUME NEW p \in Usable PROVE refs[so_path[p]] > 0 /\ p \in inits
    <3>. DEFINE l == so_path[p]
    <3>. DEFINE same == {q \in handle : so_path[q] = l}
    <3>1. p \in handle /\ p \in inits /\ l \in Libraries
      BY <2>2 DEF Usable, LoadInv, TypeOK
    <3>2. IsFiniteSet(same) /\ same # {}
      BY <3>1, FS_Subset DEF LoadInv
    <3>3. Cardinality(same) \in Nat /\ Cardinality(same) # 0
      BY <3>2, FS_CardinalityType, FS_EmptySet
    <3>. QED  BY <2>1, <3>1, <3>3
  <2>. QED  BY <2>1, <2>2 DEF UsableIsReady
<1>. QED  BY HostInvariance, <1>1, PTL

-----------------------------------------------------------------------------
(* Unit u for the request being handled is there for its client, and nowhere else. *)
Sent(u) ==
  \E v \in UnitType :
    /\ v.kind = u.kind /\ (Faithful(u) => v = u)
    /\ given' = [given EXCEPT ![request] = Append(@, u)]
    /\ out' = [out EXCEPT ![request] = Append(@, v)]

(* A write to the descriptor of a request of HTTP/1 reaches its client alone. *)
LEMMA WrittenToOwner ==
  ASSUME BaseInv, Handling, ~Http2, NEW u \in UnitType
  PROVE  Written(Descriptor, u) = [out EXCEPT ![request] = Append(@, OnHttp1(u))]
<1>. DEFINE owners == {c \in Clients : client_fd[c] = Descriptor}
<1>1. request \in Requests /\ request[1] \in Clients /\ request = <<request[1], 0>>
  BY RequestTypes DEF BaseInv, TypeOK, Handling, Http2
<1>2. owners = {request[1]}
  BY <1>1 DEF BaseInv, ServeInv, Handling, Descriptor, Fds, NoFd
<1>3. \A ch : ch \in owners \X {0} <=> ch = request
  BY <1>1, <1>2
<1>4. out = [ch \in Channels |-> out[ch]]
  BY DEF BaseInv, TypeOK
<1>. HIDE DEF owners
<1>5. [ch \in Channels |-> IF ch \in owners \X {0} THEN Append(out[ch], OnHttp1(u)) ELSE out[ch]]
        = [out EXCEPT ![request] = Append(@, OnHttp1(u))]
  BY <1>3, <1>4, Zenon
<1>. QED  BY <1>5 DEF Written, owners

(* The API finds the stream of the request, whichever protocol it came by. *)
LEMMA ApiSends ==
  ASSUME BaseInv, Handling, NEW u \in UnitType, u.body = "given",
         Api(request, Descriptor, u)
  PROVE  Sent(u)
<1>1. given' = [given EXCEPT ![request] = Append(@, u)]
  BY DEF Api
<1>2. CASE Http2
  <2>1. current_h2 = request /\ current_h2 # NoRequest
    BY <1>2 DEF BaseInv, ServeInv, Handling, Http2
  <2>2. out' = [out EXCEPT ![request] = Append(@, OnHttp2(u))]
    BY <2>1 DEF Api, Queued
  <2>. QED  BY <1>1, <2>2, OnTheWay, UnitTypes DEF Sent
<1>3. CASE ~Http2
  <2>1. current_h2 = NoRequest
    BY <1>3 DEF BaseInv, ServeInv, Http2
  <2>2. out' = [out EXCEPT ![request] = Append(@, OnHttp1(u))]
    BY <1>3, <2>1, WrittenToOwner DEF Api
  <2>. QED  BY <1>1, <2>2, OnTheWay, UnitTypes DEF Sent
<1>. QED  BY <1>2, <1>3

(* A unit sent for the request at hand comes behind what was sent for it, and leaves
   the other streams alone. *)
LEMMA SentFits ==
  ASSUME TypeOK, request \in Requests, NEW u \in UnitType, Sent(u), NEW ch \in Channels
  PROVE  \/ ch # request /\ given'[ch] = given[ch] /\ out'[ch] = out[ch]
         \/ ch = request /\ (OwnCalls(ch) => OwnCalls(ch)')
<1>1. PICK v \in UnitType :
        /\ v.kind = u.kind /\ (Faithful(u) => v = u)
        /\ given' = [given EXCEPT ![request] = Append(@, u)]
        /\ out' = [out EXCEPT ![request] = Append(@, v)]
  BY DEF Sent
<1>2. CASE ch # request
  BY <1>1, <1>2 DEF TypeOK
<1>3. ASSUME ch = request, OwnCalls(ch) PROVE OwnCalls(ch)'
  <2>1. /\ given'[ch] = Append(given[ch], u) /\ out'[ch] = Append(out[ch], v)
        /\ given[ch] \in Seq(UnitType) /\ out[ch] \in Seq(UnitType)
    BY <1>1, <1>3 DEF TypeOK
  <2>2. /\ Len(out[ch]) = Len(given[ch])
        /\ \A i \in DOMAIN out[ch] :
             /\ out[ch][i].kind = given[ch][i].kind
             /\ Faithful(given[ch][i]) => out[ch][i] = given[ch][i]
    BY <1>3 DEF OwnCalls
  <2>3. Len(out'[ch]) = Len(out[ch]) + 1 /\ Len(given'[ch]) = Len(given[ch]) + 1
    BY <2>1
  <2>4. ASSUME NEW i \in DOMAIN out'[ch]
        PROVE  /\ out'[ch][i].kind = given'[ch][i].kind
               /\ Faithful(given'[ch][i]) => out'[ch][i] = given'[ch][i]
    <3>1. CASE i = Len(out[ch]) + 1
      BY <1>1, <2>1, <2>2, <3>1
    <3>2. CASE i # Len(out[ch]) + 1
      <4>1. i \in DOMAIN out[ch]
        BY <2>1, <3>2
      <4>2. out'[ch][i] = out[ch][i] /\ given'[ch][i] = given[ch][i]
        BY <2>1, <2>2, <4>1
      <4>. QED  BY <2>2, <4>1, <4>2
    <3>. QED  BY <3>1, <3>2
  <2>. QED  BY <2>2, <2>3, <2>4 DEF OwnCalls, Faithful
<1>. QED  BY <1>2, <1>3

-----------------------------------------------------------------------------
(* The steps of the host, by what they send. *)

(* Nothing: and a request goes on, is over, or begins. *)
Quiet ==
  /\ UNCHANGED <<given, out>>
  /\ \/ UNCHANGED <<request, said, asked>>
     \/ request' = NoRequest /\ UNCHANGED asked
     \/ /\ ~Handling /\ request' \in Requests /\ request' \notin asked
        /\ asked' = asked \cup {request'} /\ said' = "nothing"

(* A unit for the request at hand: by its handler, or by the server in its place. *)
Speaks(u) ==
  \/ said = "nothing" /\ u.kind = "response" /\ said' = "response"
  \/ said = "nothing" /\ u.kind = "open" /\ said' = "events"
  \/ said = "events" /\ u.kind = "event" /\ said' = "events"
  \/ said = "events" /\ u.kind = "close" /\ said' = "end"

Own(u) ==
  /\ Handling /\ Sent(u) /\ UNCHANGED asked
  /\ \/ UNCHANGED request /\ Speaks(u)
     \/ /\ request' = NoRequest /\ u.kind = "response"
        /\ said = "nothing" \/ "late_decline" \in Habits

(* A handler declines, and the server answers for it. *)
LEMMA DeclinedSends ==
  ASSUME BaseInv, NEW st \in {200, 404}, Declined(st)
  PROVE  \E u \in UnitType : u.kind = "response" /\ Sent(u)
<1>. DEFINE u == Response(st, FALSE)
<1>1. u \in UnitType /\ u.body = "given" /\ u.kind = "response"
  BY UnitTypes DEF Response
<1>2. Handling /\ given' = [given EXCEPT ![request] = Append(@, u)]
  BY DEF Declined
<1>3. Http2 => out' = Queued(request, u)
  BY DEF Declined
<1>4. ~Http2 => out' = Written(Descriptor, u)
  BY DEF Declined
<1>. HIDE DEF u
<1>5. CASE Http2
  <2>1. out' = [out EXCEPT ![request] = Append(@, OnHttp2(u))]
    BY <1>3, <1>5 DEF Queued
  <2>2. Sent(u)
    BY <1>1, <1>2, <2>1, OnTheWay, UnitTypes DEF Sent
  <2>. QED  BY <1>1, <2>2
<1>6. CASE ~Http2
  <2>1. out' = [out EXCEPT ![request] = Append(@, OnHttp1(u))]
    BY <1>1, <1>2, <1>4, <1>6, WrittenToOwner
  <2>2. Sent(u)
    BY <1>1, <1>2, <2>1, OnTheWay, UnitTypes DEF Sent
  <2>. QED  BY <1>1, <2>2
<1>. QED  BY <1>5, <1>6

LEMMA HostSteps ==
  ASSUME BaseInv, [Next]_vars
  PROVE  Quiet \/ (\E u \in UnitType : Own(u)) \/ \E k \in kept : SendLater(k)
<1>. DEFINE Goal == Quiet \/ (\E u \in UnitType : Own(u)) \/ \E k \in kept : SendLater(k)
<1>1. CASE UNCHANGED vars
  BY <1>1 DEF vars, serveVars, Quiet
<1>2. CASE LoadRefused \/ InitFails \/ Loaded
  BY <1>2 DEF LoadRefused, InitFails, Loaded, serveVars, Quiet
<1>3. ASSUME NEW c \in Clients, Connect(c) \/ Leave(c) PROVE Goal
  BY <1>3 DEF Connect, Leave, Quiet
<1>4. ASSUME NEW c \in Clients, Http1Request(c) PROVE Goal
  <2>1. <<c, 0>> \in Requests
    BY <1>4 DEF Http1Request, Requests
  <2>. QED  BY <1>4, <2>1 DEF Http1Request, Idle, Handling, Quiet
<1>5. ASSUME NEW c \in Clients, NEW s \in Streams, Http2Request(c, s) PROVE Goal
  <2>1. <<c, s>> \in Requests
    BY <1>5 DEF Http2Request, Requests
  <2>. QED  BY <1>5, <2>1 DEF Http2Request, Idle, Handling, Quiet
<1>6. ASSUME NEW u \in UnitType, u.body = "given", Handling, Api(request, Descriptor, u),
             UNCHANGED <<request, asked>>, Speaks(u)
      PROVE  Goal
  BY <1>6, ApiSends DEF Own
<1>7. ASSUME NEW st \in Statuses, send_response(st) PROVE Goal
  <2>1. /\ Response(st, FALSE) \in UnitType /\ Response(st, FALSE).body = "given"
        /\ Response(st, FALSE).kind = "response"
    BY UnitTypes DEF Response
  <2>. QED  BY <1>6, <1>7, <2>1 DEF send_response, Speaks
<1>8. ASSUME NEW st \in Statuses, send_response_with_headers(st) PROVE Goal
  <2>1. /\ Response(st, TRUE) \in UnitType /\ Response(st, TRUE).body = "given"
        /\ Response(st, TRUE).kind = "response"
    BY UnitTypes DEF Response
  <2>. QED  BY <1>6, <1>8, <2>1 DEF send_response_with_headers, Speaks
<1>9. \A k \in {"open", "event", "close"} :
        Part(k) \in UnitType /\ Part(k).body = "given" /\ Part(k).kind = k
  BY UnitTypes DEF Part
<1>10. CASE sse_init
  BY <1>6, <1>9, <1>10 DEF sse_init, Speaks
<1>11. CASE sse_send
  BY <1>6, <1>9, <1>11 DEF sse_send, Speaks
<1>12. CASE sse_close
  BY <1>6, <1>9, <1>12 DEF sse_close, Speaks
<1>13. CASE \E k \in kept : SendLater(k)
  BY <1>13
<1>14. CASE Handled
  BY <1>14 DEF Handled, Quiet
<1>15. ASSUME NEW st \in {200, 404}, Declined(st) PROVE Goal
  <2>1. PICK u \in UnitType : u.kind = "response" /\ Sent(u)
    BY <1>15, DeclinedSends
  <2>2. /\ Handling /\ UNCHANGED asked /\ request' = NoRequest
        /\ said = "nothing" \/ "late_decline" \in Habits
    BY <1>15 DEF Declined
  <2>. QED  BY <2>1, <2>2 DEF Own
<1>. QED  BY <1>1, <1>2, <1>3, <1>4, <1>5, <1>7, <1>8, <1>10, <1>11, <1>12, <1>13, <1>14, <1>15
          DEF Next

(* The request that is handled. *)
LEMMA HandledRequest ==
  ASSUME BaseInv, Handling
  PROVE  TypeOK /\ request \in Requests /\ request \in Channels /\ request \in asked
BY RequestTypes DEF BaseInv, TypeOK, ServeInv, Handling

-----------------------------------------------------------------------------
(* What streams have been sent, when no handler sends to a descriptor it kept:
   nothing before they are asked for. *)
StreamInv ==
  /\ CallsReachTheirStream
  /\ \A ch \in Channels : ch \notin asked => given[ch] = <<>>

(* What a unit sent keeps of the invariant. *)
LEMMA SentKeeps ==
  ASSUME TypeOK, request \in Requests, request \in asked, NEW u \in UnitType, Sent(u),
         CallsReachTheirStream, \A ch \in Channels : ch \notin asked => given[ch] = <<>>
  PROVE  /\ CallsReachTheirStream'
         /\ \A ch \in Channels : ch \notin asked => given'[ch] = <<>>
<1>1. PICK v \in UnitType :
        /\ v.kind = u.kind /\ (Faithful(u) => v = u)
        /\ given' = [given EXCEPT ![request] = Append(@, u)]
        /\ out' = [out EXCEPT ![request] = Append(@, v)]
  BY DEF Sent
<1>2. request \in Channels
  BY RequestTypes
<1>3. \A ch \in Channels : ch # request => given'[ch] = given[ch] /\ out'[ch] = out[ch]
  BY <1>1 DEF TypeOK
<1>4. \A ch \in Channels : ch \notin asked => given'[ch] = <<>>
  BY <1>3
<1>5. CallsReachTheirStream'
  <2>. SUFFICES ASSUME NEW ch \in Channels PROVE OwnCalls(ch)'
    BY DEF CallsReachTheirStream
  <2>1. OwnCalls(ch)
    BY DEF CallsReachTheirStream
  <2>2. \/ ch # request /\ given'[ch] = given[ch] /\ out'[ch] = out[ch]
        \/ ch = request /\ (OwnCalls(ch) => OwnCalls(ch)')
    BY SentFits
  <2>. QED  BY <2>1, <2>2 DEF OwnCalls, Faithful
<1>. QED  BY <1>4, <1>5

LEMMA StreamInit == Init => StreamInv
<1>. SUFFICES ASSUME Init PROVE StreamInv
  OBVIOUS
<1>1. \A ch \in Channels : out[ch] = <<>> /\ given[ch] = <<>>
  BY DEF Init
<1>2. CallsReachTheirStream
  BY <1>1 DEF CallsReachTheirStream, OwnCalls
<1>. QED  BY <1>1, <1>2 DEF StreamInv

LEMMA StreamNext ==
  ASSUME "late_send" \notin Habits, BaseInv, StreamInv, [Next]_vars
  PROVE  StreamInv'
<1>1. CASE Quiet
  <2>1. UNCHANGED <<given, out>> /\ asked \subseteq asked'
    BY <1>1 DEF Quiet
  <2>. QED  BY <2>1 DEF StreamInv, CallsReachTheirStream, OwnCalls, Faithful
<1>2. ASSUME NEW u \in UnitType, Own(u) PROVE StreamInv'
  <2>1. Handling /\ Sent(u) /\ asked' = asked
    BY <1>2 DEF Own
  <2>2. CallsReachTheirStream /\ \A ch \in Channels : ch \notin asked => given[ch] = <<>>
    BY DEF StreamInv
  <2>3. CallsReachTheirStream' /\ \A ch \in Channels : ch \notin asked => given'[ch] = <<>>
    BY <2>1, <2>2, HandledRequest, SentKeeps
  <2>. QED  BY <2>1, <2>3 DEF StreamInv
<1>3. ~\E k \in kept : SendLater(k)
  BY DEF SendLater
<1>. QED  BY <1>1, <1>2, <1>3, HostSteps

(* What a handler sends shows on the stream of its request and nowhere else, in
   order and once, as long as no handler sends to a descriptor it has kept: the
   globals are never those of another request, nor the descriptor another's. *)
THEOREM StreamsOfTheirOwn ==
  ASSUME "late_send" \notin Habits
  PROVE  Spec => []CallsReachTheirStream
<1>1. Init => BaseInv /\ StreamInv
  BY BaseInit, StreamInit
<1>2. BaseInv /\ StreamInv /\ [Next]_vars => (BaseInv /\ StreamInv)'
  BY BaseNext, StreamNext
<1>3. StreamInv => CallsReachTheirStream
  BY DEF StreamInv
<1>. QED  BY <1>1, <1>2, <1>3, PTL DEF Spec

-----------------------------------------------------------------------------
(* Handlers that keep a descriptor and send later, or decline after they have sent. *)

(* What is sent for the request at hand comes last on its stream, and on no other. *)
LEMMA SentOut ==
  ASSUME TypeOK, request \in Channels, NEW u \in UnitType, Sent(u)
  PROVE  /\ \E v \in UnitType : v.kind = u.kind /\ out'[request] = Append(out[request], v)
         /\ \A ch \in Channels : ch # request => out'[ch] = out[ch]
<1>1. PICK v \in UnitType : v.kind = u.kind /\ out' = [out EXCEPT ![request] = Append(@, v)]
  BY DEF Sent
<1>. QED  BY <1>1 DEF TypeOK

(* An event for a descriptor that was kept: while a stream of HTTP/2 is served it goes
   to that one, else to the connection that has the descriptor. *)
LEMMA LateOut ==
  ASSUME BaseInv, NEW k \in kept, SendLater(k), NEW ch \in Channels
  PROVE  \/ out'[ch] = out[ch]
         \/ /\ \E v \in UnitType : v.kind = "late" /\ out'[ch] = Append(out[ch], v)
            /\ \/ ch = request
               \/ ch[2] = 0 /\ client_fd[ch[1]] = k[2] /\ current_h2 = NoRequest
<1>. DEFINE u == Part("late")
<1>1. u \in UnitType /\ u.kind = "late"
  BY UnitTypes DEF Part
<1>2. Api(k[1], k[2], u)
  BY DEF SendLater
<1>. HIDE DEF u
<1>3. CASE current_h2 # NoRequest
  <2>1. current_h2 = request
    BY <1>3 DEF BaseInv, ServeInv
  <2>2. out' = [out EXCEPT ![request] = Append(@, OnHttp2(u))]
    BY <1>2, <1>3, <2>1 DEF Api, Queued
  <2>3. ch # request => out'[ch] = out[ch]
    BY <2>2 DEF BaseInv, TypeOK
  <2>4. ch = request => out'[ch] = Append(out[ch], OnHttp2(u))
    BY <2>2 DEF BaseInv, TypeOK
  <2>. QED  BY <1>1, <2>3, <2>4, OnTheWay, UnitTypes
<1>4. CASE current_h2 = NoRequest
  <2>1. out' = Written(k[2], u)
    BY <1>2, <1>4 DEF Api
  <2>2. \/ out'[ch] = out[ch]
        \/ /\ out'[ch] = Append(out[ch], OnHttp1(u))
           /\ ch \in {c \in Clients : client_fd[c] = k[2]} \X {0}
    BY <2>1 DEF Written
  <2>. QED  BY <1>1, <1>4, <2>2, OnTheWay, UnitTypes
<1>. QED  BY <1>3, <1>4

LEMMA StrayStep ==
  ASSUME BaseInv, [Next]_vars, NEW ch \in Channels, out'[ch] # out[ch]
  PROVE  \/ ch = request
         \/ /\ ch[2] = 0 /\ client_fd[ch[1]] \in {k[2] : k \in kept}
            /\ current_h2 = NoRequest
<1>1. CASE Quiet
  BY <1>1 DEF Quiet
<1>2. CASE \E u \in UnitType : Own(u)
  BY <1>2, HandledRequest, SentOut DEF Own
<1>3. CASE \E k \in kept : SendLater(k)
  BY <1>3, LateOut
<1>. QED  BY <1>1, <1>2, <1>3, HostSteps

(* Whatever handlers keep and send later, a client is sent something that is not for
   the request at hand only on a descriptor that was kept, and while no stream of
   HTTP/2 is served. *)
THEOREM LateSendsStray == Spec => StrayOnlyByKeptDescriptor
<1>1. BaseInv /\ [Next]_vars =>
        [\A ch \in Channels : out'[ch] # out[ch] =>
           \/ ch = request
           \/ /\ ch[2] = 0 /\ client_fd[ch[1]] \in {k[2] : k \in kept}
              /\ current_h2 = NoRequest]_vars
  BY StrayStep
<1>. QED  BY HostInvariance, <1>1, PTL DEF Spec, StrayOnlyByKeptDescriptor

(* How much of the end of a stream is there. *)
AllLate(units) == \A i \in DOMAIN units : units[i].kind = "late"
NoEnd(units) == \A i \in DOMAIN units : units[i].kind \notin Final
LateAfterEnd(units) ==
  \A i, j \in DOMAIN units : i < j /\ units[i].kind \in Final => units[j].kind = "late"

(* A stream is at its beginning until it is asked for, and what its handler has said
   tells how far it is while it is handled. *)
SecondInv ==
  /\ SecondAnswerIsLast
  /\ \A ch \in Channels \ asked : AllLate(out[ch])
  /\ Handling => /\ said = "nothing" => AllLate(out[request])
                 /\ said = "events" => NoEnd(out[request])
                 /\ LateAfterEnd(out[request])

LEMMA Stages ==
  ASSUME NEW s \in Seq(UnitType)
  PROVE  /\ AllLate(s) => NoEnd(s)
         /\ NoEnd(s) => LateAfterEnd(s)
         /\ LateAfterEnd(s) => OneAnswerMore(s)
BY DEF AllLate, NoEnd, LateAfterEnd, OneAnswerMore, Final

LEMMA StagesAppend ==
  ASSUME NEW s \in Seq(UnitType), NEW v \in UnitType
  PROVE  /\ v.kind = "late" =>
              /\ AllLate(s) => AllLate(Append(s, v))
              /\ NoEnd(s) => NoEnd(Append(s, v))
              /\ LateAfterEnd(s) => LateAfterEnd(Append(s, v))
              /\ OneAnswerMore(s) => OneAnswerMore(Append(s, v))
         /\ NoEnd(s) /\ v.kind \notin Final => NoEnd(Append(s, v))
         /\ NoEnd(s) => LateAfterEnd(Append(s, v))
         /\ LateAfterEnd(s) /\ v.kind = "response" => OneAnswerMore(Append(s, v))
<1>. DEFINE t == Append(s, v)
<1>1. /\ Len(s) \in Nat /\ DOMAIN s = 1..Len(s) /\ DOMAIN t = 1..Len(s) + 1
      /\ t[Len(s) + 1] = v /\ \A i \in 1..Len(s) : t[i] = s[i]
  OBVIOUS
<1>. HIDE DEF t
<1>2. \A i \in DOMAIN t : (i \in DOMAIN s /\ t[i] = s[i]) \/ (i = Len(s) + 1 /\ t[i] = v)
  BY <1>1
<1>3. v.kind = "late" => v.kind \notin Final
  BY DEF Final
<1>4. AllLate(s) /\ v.kind = "late" => AllLate(t)
  BY <1>2 DEF AllLate
<1>5. NoEnd(s) /\ v.kind \notin Final => NoEnd(t)
  BY <1>2 DEF NoEnd
<1>6. LateAfterEnd(s) /\ v.kind = "late" => LateAfterEnd(t)
  BY <1>1, <1>2, <1>3 DEF LateAfterEnd
<1>7. OneAnswerMore(s) /\ v.kind = "late" => OneAnswerMore(t)
  BY <1>1, <1>2, <1>3 DEF OneAnswerMore
<1>8. NoEnd(s) => LateAfterEnd(t)
  BY <1>1, <1>2 DEF NoEnd, LateAfterEnd
<1>9. LateAfterEnd(s) /\ v.kind = "response" => OneAnswerMore(t)
  BY <1>1, <1>2 DEF LateAfterEnd, OneAnswerMore
<1>. QED  BY <1>3, <1>4, <1>5, <1>6, <1>7, <1>8, <1>9 DEF t

LEMMA SecondInit == Init => SecondInv
<1>. SUFFICES ASSUME Init PROVE SecondInv
  OBVIOUS
<1>1. \A ch \in Channels : out[ch] = <<>>
  BY DEF Init
<1>. QED  BY <1>1 DEF Init, SecondInv, SecondAnswerIsLast, OneAnswerMore, AllLate, Handling

(* A unit of the request at hand. *)
LEMMA SecondOwn ==
  ASSUME BaseInv, SecondInv, NEW u \in UnitType, Own(u)
  PROVE  SecondInv'
<1>1. TypeOK /\ request \in Channels /\ request \in asked
  BY HandledRequest DEF Own
<1>2. /\ \E v \in UnitType : v.kind = u.kind /\ out'[request] = Append(out[request], v)
      /\ \A ch \in Channels : ch # request => out'[ch] = out[ch]
  BY <1>1, SentOut DEF Own
<1>3. PICK v \in UnitType : v.kind = u.kind /\ out'[request] = Append(out[request], v)
  BY <1>2
<1>. DEFINE s == out[request]
<1>4. s \in Seq(UnitType)
  BY <1>1 DEF TypeOK
<1>5. /\ said = "nothing" => AllLate(s)
      /\ said = "events" => NoEnd(s)
      /\ LateAfterEnd(s)
  BY DEF SecondInv, Own
<1>6. asked' = asked /\ \A ch \in Channels \ asked' : AllLate(out'[ch])
  BY <1>1, <1>2 DEF SecondInv, Own
<1>7. \/ said \in {"nothing", "events"} \/ v.kind = "response"
  BY <1>3 DEF Own, Speaks
<1>. HIDE DEF s
<1>8. said \in {"nothing", "events"} => NoEnd(s)
  BY <1>4, <1>5, Stages
<1>9. OneAnswerMore(Append(s, v))
  <2>1. CASE v.kind = "response"
    BY <1>4, <1>5, <2>1, StagesAppend
  <2>2. CASE said \in {"nothing", "events"}
    <3>1. LateAfterEnd(Append(s, v))
      BY <1>4, <1>8, <2>2, StagesAppend
    <3>2. Append(s, v) \in Seq(UnitType)
      BY <1>4
    <3>. QED  BY <3>1, <3>2, Stages
  <2>. QED  BY <1>7, <2>1, <2>2
<1>10. SecondAnswerIsLast'
  BY <1>2, <1>3, <1>9 DEF SecondInv, SecondAnswerIsLast, s
<1>11. Handling' => /\ request' = request /\ said' # "nothing"
                    /\ said' = "events" => NoEnd(Append(s, v))
                    /\ LateAfterEnd(Append(s, v))
  <2>. SUFFICES ASSUME Handling' PROVE
          /\ request' = request /\ said' # "nothing"
          /\ said' = "events" => NoEnd(Append(s, v))
          /\ LateAfterEnd(Append(s, v))
    OBVIOUS
  <2>1. request' = request /\ Speaks(u)
    BY DEF Own, Handling
  <2>2. /\ said' # "nothing" /\ said \in {"nothing", "events"}
        /\ said' = "events" => v.kind \notin Final
    BY <1>3, <2>1 DEF Speaks, Final
  <2>. QED  BY <1>4, <1>8, <2>1, <2>2, StagesAppend
<1>. QED  BY <1>3, <1>6, <1>10, <1>11 DEF SecondInv, s

(* An event that is late: wherever it arrives, it is one more that is. *)
LEMMA SecondLate ==
  ASSUME BaseInv, SecondInv, NEW k \in kept, SendLater(k)
  PROVE  SecondInv'
<1>1. UNCHANGED <<request, said, asked>>
  BY DEF SendLater
<1>2. \A ch \in Channels :
        \/ out'[ch] = out[ch]
        \/ \E v \in UnitType : v.kind = "late" /\ out'[ch] = Append(out[ch], v)
  BY LateOut
<1>3. \A ch \in Channels : out[ch] \in Seq(UnitType)
  BY DEF BaseInv, TypeOK
<1>4. \A ch \in Channels :
        /\ AllLate(out[ch]) => AllLate(out'[ch])
        /\ NoEnd(out[ch]) => NoEnd(out'[ch])
        /\ LateAfterEnd(out[ch]) => LateAfterEnd(out'[ch])
        /\ OneAnswerMore(out[ch]) => OneAnswerMore(out'[ch])
  BY <1>2, <1>3, StagesAppend
<1>5. Handling => request \in Channels
  BY HandledRequest
<1>. QED  BY <1>1, <1>4, <1>5 DEF SecondInv, SecondAnswerIsLast, Handling

LEMMA SecondNext ==
  ASSUME BaseInv, SecondInv, [Next]_vars
  PROVE  SecondInv'
<1>1. CASE Quiet
  <2>1. UNCHANGED out /\ SecondAnswerIsLast'
    BY <1>1 DEF Quiet, SecondInv, SecondAnswerIsLast
  <2>2. CASE UNCHANGED <<request, said, asked>>
    BY <2>1, <2>2 DEF SecondInv, Handling
  <2>3. CASE request' = NoRequest /\ UNCHANGED asked
    BY <2>1, <2>3 DEF SecondInv, Handling
  <2>4. CASE /\ request' \in Requests /\ request' \notin asked
             /\ asked' = asked \cup {request'} /\ said' = "nothing"
    <3>1. request' \in Channels /\ out[request'] \in Seq(UnitType)
      BY <2>4, RequestTypes DEF BaseInv, TypeOK
    <3>2. AllLate(out[request'])
      BY <2>4, <3>1 DEF SecondInv
    <3>3. LateAfterEnd(out[request'])
      BY <3>1, <3>2, Stages
    <3>4. \A ch \in Channels \ asked' : AllLate(out'[ch])
      BY <2>1, <2>4 DEF SecondInv
    <3>. QED  BY <2>1, <2>4, <3>2, <3>3, <3>4 DEF SecondInv
  <2>. QED  BY <1>1, <2>2, <2>3, <2>4 DEF Quiet
<1>2. CASE \E u \in UnitType : Own(u)
  BY <1>2, SecondOwn
<1>3. CASE \E k \in kept : SendLater(k)
  BY <1>3, SecondLate
<1>. QED  BY <1>1, <1>2, <1>3, HostSteps

(* Whatever handlers decline after they have sent, and whatever they send late, no
   stream that is over is added to but by its one second answer and late events. *)
THEOREM NothingBehindSecondAnswer == Spec => []SecondAnswerIsLast
<1>1. Init => BaseInv /\ SecondInv
  BY BaseInit, SecondInit
<1>2. BaseInv /\ SecondInv /\ [Next]_vars => (BaseInv /\ SecondInv)'
  BY BaseNext, SecondNext
<1>3. SecondInv => SecondAnswerIsLast
  BY DEF SecondInv
<1>. QED  BY <1>1, <1>2, <1>3, PTL DEF Spec

-----------------------------------------------------------------------------
(* The refinement: how far the handler is with the stream of its request, when
   no handler declines after it has sent something. *)
StageInv ==
  /\ Handling => StageOf(out[request]) = CASE said = "nothing" -> "silent"
                                           [] said = "events" -> "streaming"
                                           [] OTHER -> "answered"
  /\ \A ch \in Channels : ch \notin asked => out[ch] = <<>>

stages == [ch \in Channels |-> StageOf(out[ch])]

LEMMA StageAfter ==
  /\ StageOf(<<>>) = "silent"
  /\ \A units \in Seq(UnitType), v \in UnitType :
       StageOf(Append(units, v)) = IF v.kind \in Final THEN "answered" ELSE "streaming"
BY DEF StageOf

(* What is sent for the request changes its stage and no other. *)
LEMMA SentStage ==
  ASSUME TypeOK, request \in Requests, NEW u \in UnitType, Sent(u)
  PROVE  /\ stages' = [stages EXCEPT ![request] =
                         IF u.kind \in Final THEN "answered" ELSE "streaming"]
         /\ \A ch \in Channels : ch # request => out'[ch] = out[ch]
         /\ StageOf(out'[request]) = stages'[request]
<1>1. PICK v \in UnitType : v.kind = u.kind /\ out' = [out EXCEPT ![request] = Append(@, v)]
  BY DEF Sent
<1>2. request \in Channels
  BY RequestTypes
<1>3. \A ch \in Channels : ch # request => out'[ch] = out[ch]
  BY <1>1 DEF TypeOK
<1>4. out'[request] = Append(out[request], v) /\ out[request] \in Seq(UnitType)
  BY <1>1, <1>2 DEF TypeOK
<1>5. StageOf(out'[request]) = IF u.kind \in Final THEN "answered" ELSE "streaming"
  BY <1>1, <1>4, StageAfter
<1>6. stages' = [ch \in Channels |-> StageOf(out'[ch])]
  BY DEF stages, StageOf
<1>. QED  BY <1>2, <1>3, <1>5, <1>6 DEF stages

LEMMA StageInit == Init => StageInv /\ Streams_!Init
<1>. SUFFICES ASSUME Init PROVE StageInv /\ Streams_!Init
  OBVIOUS
<1>1. \A ch \in Channels : out[ch] = <<>>
  BY DEF Init
<1>. QED  BY <1>1, StageAfter DEF Init, StageInv, Handling, Streams_!Init

(* A unit for the request at hand: what its stream was before and is now. *)
LEMMA OwnStage ==
  ASSUME "late_decline" \notin Habits, BaseInv, StageInv, NEW u \in UnitType, Own(u)
  PROVE  StageInv' /\ [Streams_!Next]_stages
<1>1. TypeOK /\ Handling /\ Sent(u) /\ request \in Requests /\ request \in Channels /\ request \in asked
  BY HandledRequest DEF Own
<1>2. /\ stages' = [stages EXCEPT ![request] =
                      IF u.kind \in Final THEN "answered" ELSE "streaming"]
      /\ \A ch \in Channels : ch # request => out'[ch] = out[ch]
      /\ StageOf(out'[request]) = stages'[request]
  BY <1>1, SentStage
<1>3. /\ said \in {"nothing", "events"}
      /\ stages[request] = IF said = "nothing" THEN "silent" ELSE "streaming"
      /\ u.kind \in {"response", "open", "event", "close"}
      /\ u.kind = "response" \/ u.kind = "open" <=> said = "nothing"
  BY <1>1 DEF StageInv, stages, Own, Speaks
<1>4. stages'[request] = IF u.kind \in Final THEN "answered" ELSE "streaming"
  BY <1>1, <1>2 DEF stages
<1>5. StageInv'
  <2>1. \A ch \in Channels : ch \notin asked' => out'[ch] = <<>>
    BY <1>1, <1>2 DEF StageInv, Own
  <2>2. CASE request' = NoRequest
    BY <2>1, <2>2 DEF StageInv, Handling
  <2>3. CASE UNCHANGED request /\ Speaks(u)
    BY <1>2, <1>4, <2>1, <2>3 DEF StageInv, Speaks, Final
  <2>. QED  BY <2>2, <2>3 DEF Own
<1>6. CASE u.kind = "event"
  <2>1. stages' = stages
    BY <1>2, <1>3, <1>6 DEF stages, Final
  <2>. QED  BY <1>5, <2>1
<1>7. CASE u.kind # "event"
  <2>1. CASE u.kind = "response"
    <3>1. Streams_!Respond(request)
      BY <1>2, <1>3, <2>1 DEF stages, Final, Streams_!Respond
    <3>. QED  BY <1>1, <1>5, <3>1 DEF Streams_!Next, stages
  <2>2. CASE u.kind = "open"
    <3>1. Streams_!Open(request)
      BY <1>2, <1>3, <2>2 DEF stages, Final, Streams_!Open
    <3>. QED  BY <1>1, <1>5, <3>1 DEF Streams_!Next, stages
  <2>3. CASE u.kind = "close"
    <3>1. Streams_!Close(request)
      BY <1>2, <1>3, <2>3 DEF stages, Final, Streams_!Close
    <3>. QED  BY <1>1, <1>5, <3>1 DEF Streams_!Next, stages
  <2>. QED  BY <1>3, <1>7, <2>1, <2>2, <2>3
<1>. QED  BY <1>5, <1>6, <1>7

LEMMA StageNext ==
  ASSUME Habits = {}, BaseInv, StageInv, [Next]_vars
  PROVE  StageInv' /\ [Streams_!Next]_stages
<1>1. CASE Quiet
  <2>1. stages' = stages /\ UNCHANGED out
    BY <1>1 DEF Quiet, stages, StageOf
  <2>2. StageInv'
    BY <1>1, <2>1, StageAfter, RequestTypes DEF Quiet, StageInv, Handling
  <2>. QED  BY <2>1, <2>2
<1>2. CASE \E u \in UnitType : Own(u)
  BY <1>2, OwnStage
<1>3. ~\E k \in kept : SendLater(k)
  BY DEF SendLater
<1>. QED  BY <1>1, <1>2, <1>3, HostSteps

(* With handlers that keep to the documented examples, every client sees on each
   of its streams what ReplyStreams promises: one response, or one stream of
   events that is opened once, closed at most once, and ends what it sees. *)
THEOREM HostImplementsStreams ==
  ASSUME Habits = {}
  PROVE  Spec => ImplementsStreams
<1>1. Init => BaseInv /\ StageInv /\ Streams_!Init
  BY BaseInit, StageInit
<1>2. BaseInv /\ StageInv /\ [Next]_vars => (BaseInv /\ StageInv)' /\ [Streams_!Next]_stages
  BY BaseNext, StageNext
<1>. QED  BY <1>1, <1>2, PTL DEF Spec, ImplementsStreams, Streams_!Spec, stages
=============================================================================
