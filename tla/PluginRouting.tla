---------------------------- MODULE PluginRouting ----------------------------
(* handle_plugin_request: which endpoint of which plugin serves a path, and with
   which parameters. The loop over the loaded plugins and their endpoints, the cut
   of the query, match_pattern, and the choice that the C++ wrapper makes again
   when it is called; a path, an endpoint and a pattern are sequences of bytes. *)
EXTENDS Parameters, FiniteSets

CONSTANTS Plugins,     \* the plugins a configuration may name
          MaxPlugins,  \* plugins of a configuration
          Requests     \* [path, method, form]: the path with its query, and the
                       \* fields of the form that the body holds
Text == Seq(STRING)   \* a byte is a string of one character

(* The endpoint of a plugin is a path and has no query. *)
ASSUME RoutingAssumption ==
  /\ MaxPlugins \in Nat
  /\ Plugins \subseteq [loaded : BOOLEAN, endpoint : Text,
                        endpoints : Seq([pattern : Text, method : STRING])]
  /\ \A p \in Plugins : \A k \in DOMAIN p.endpoint : p.endpoint[k] # "?"
  /\ Requests \subseteq [path : Text, method : STRING, form : Seq(Text \X Text)]
  /\ {"/", " ", "&", "=", "%", "+", "2", "3", "5", "6", "B", "D"} \subseteq STRING
                       \* as every string is, which the provers are not told

AnyMethod == "any"   \* a NULL method of an endpoint
Slash == <<"/">>

VARIABLES
  plugins,       \* config->plugins
  path, method, form,  \* of the request
  i, j,          \* the loops: the plugin, and its endpoint or 0 outside its loop
  subpath,       \* what the patterns of plugin i are matched with
  params,        \* query_params, as pairs
  outcome,       \* "none" yet, "handler" (of endpoint j of plugin i), "declined"
  picked,        \* the handler that the wrapper of plugin i runs, 0 for none
  fields         \* body_map of its request, as the pairs in the order of the body

request == <<path, method, form>>
vars == <<plugins, request, i, j, subpath, params, outcome, picked, fields>>

Init ==
  /\ plugins \in UNION {[1..n -> Plugins] : n \in 0..MaxPlugins}
  /\ \E r \in Requests : path = r.path /\ method = r.method /\ form = r.form
  /\ i = 1 /\ j = 0 /\ subpath = <<>> /\ params = <<>> /\ outcome = "none"
  /\ picked = 0 /\ fields = <<>>

-----------------------------------------------------------------------------
(* A trailing star matches what is left; another one is followed by a match of
   the rest of the pattern with a suffix of the text that is not empty. m[p] are the
   places of the text from which on the pattern matches from its byte p on. *)
match_pattern(pattern, text) ==
  LET m[p \in 1..Len(pattern) + 1] ==
        {t \in 1..Len(text) + 1 :
           IF p > Len(pattern) THEN t > Len(text)
           ELSE IF pattern[p] = "*"
             THEN p = Len(pattern) \/ \E k \in t..Len(text) : k \in m[p + 1]
             ELSE t <= Len(text) /\ pattern[p] = text[t] /\ t + 1 \in m[p + 1]}
  IN 1 \in m[1]

StartsWith(text, prefix) ==
  Len(prefix) <= Len(text) /\ SubSeq(text, 1, Len(prefix)) = prefix

After(text, n) == SubSeq(text, n + 1, Len(text))

(* Mutant: any path that begins with the endpoint is under it. *)
UnderPrefix(endpoint) == StartsWith(path, endpoint)

(* The path is the endpoint or continues it with a slash; "/" has every path. *)
Under(endpoint) ==
  IF endpoint = Slash THEN StartsWith(path, Slash)
                      ELSE StartsWith(path \o Slash, endpoint \o Slash)

(* What is left of the path, in place of nothing the slash. *)
Rest(endpoint) ==
  LET rest == IF endpoint = Slash THEN path ELSE After(path, Len(endpoint)) IN
  IF rest = <<>> THEN Slash ELSE rest

(* The texts before and after the first question mark. *)
WithoutQuery(text) == SubSeq(text, 1, Next_("?", text, 1) - 1)
Query(text) == After(text, Next_("?", text, 1))

SkipPlugin ==
  LET p == plugins[i] IN
  /\ outcome = "none" /\ j = 0 /\ i <= Len(plugins)
  /\ ~p.loaded \/ ~Under(p.endpoint) \/ p.endpoints = <<>>
  /\ i' = i + 1
  /\ UNCHANGED <<plugins, request, j, subpath, params, outcome, picked, fields>>

EnterPlugin ==
  LET p == plugins[i] IN
  /\ outcome = "none" /\ j = 0 /\ i <= Len(plugins)
  /\ p.loaded /\ Under(p.endpoint) /\ p.endpoints # <<>>
  /\ j' = 1
  /\ subpath' = WithoutQuery(Rest(p.endpoint))
  /\ params' = QueryParams(Query(Rest(p.endpoint)))
  /\ UNCHANGED <<plugins, request, i, outcome, picked, fields>>

Serves(e, text) == match_pattern(e.pattern, text) /\ e.method \in {AnyMethod, method}

SkipEndpoint ==
  /\ outcome = "none" /\ j # 0 /\ j <= Len(plugins[i].endpoints)
  /\ ~Serves(plugins[i].endpoints[j], subpath)
  /\ j' = j + 1
  /\ UNCHANGED <<plugins, request, i, subpath, params, outcome, picked, fields>>

(* The wrapper has a copy of match_pattern. *)
matchPattern(pattern, text) == match_pattern(pattern, text)

(* Mutant: the wrapper looks at the paths of its handlers alone. *)
WrapperByPath(handlers) ==
  LET own == {h \in DOMAIN handlers : matchPattern(handlers[h].pattern, subpath)} IN
  IF own = {} THEN 0 ELSE CHOOSE h \in own : \A k \in own : h <= k

(* Every endpoint of a C++ plugin is the same function: it looks for the first of
   the plugin's handlers for the path and the method itself. *)
Wrapper(handlers) ==
  LET own == {h \in DOMAIN handlers : /\ matchPattern(handlers[h].pattern, subpath)
                                      /\ handlers[h].method \in {AnyMethod, method}} IN
  IF own = {} THEN 0 ELSE CHOOSE h \in own : \A k \in own : h <= k

CallHandler ==
  /\ outcome = "none" /\ j # 0 /\ j <= Len(plugins[i].endpoints)
  /\ Serves(plugins[i].endpoints[j], subpath)
  /\ outcome' = "handler"
  /\ picked' = Wrapper(plugins[i].endpoints)
  /\ fields' = parseBody(FormText(form))
  /\ UNCHANGED <<plugins, request, i, j, subpath, params>>

(* Mutant: a plugin whose endpoints do not match ends the search. *)
LeavePluginForGood ==
  /\ outcome = "none" /\ j # 0 /\ j > Len(plugins[i].endpoints)
  /\ i' = Len(plugins) + 1 /\ j' = 0
  /\ UNCHANGED <<plugins, request, subpath, params, outcome, picked, fields>>

(* No endpoint of the plugin matched: the next one is tried. *)
LeavePlugin ==
  /\ outcome = "none" /\ j # 0 /\ j > Len(plugins[i].endpoints)
  /\ i' = i + 1 /\ j' = 0
  /\ UNCHANGED <<plugins, request, subpath, params, outcome, picked, fields>>

Decline ==
  /\ outcome = "none" /\ i > Len(plugins)
  /\ outcome' = "declined"
  /\ UNCHANGED <<plugins, request, i, j, subpath, params, picked, fields>>

Next ==
  \/ SkipPlugin \/ EnterPlugin \/ SkipEndpoint \/ CallHandler
  \/ LeavePlugin \/ Decline

Spec == Init /\ [][Next]_vars

-----------------------------------------------------------------------------
(* Properties. *)

(* What a pattern is to match: the text can be cut into one piece for each byte
   of the pattern, any piece for a star and the byte itself for another one. *)
Glob(pattern, text) ==
  \E cut \in [1..Len(pattern) + 1 -> 1..Len(text) + 1] :
    /\ cut[1] = 1 /\ cut[Len(pattern) + 1] = Len(text) + 1
    /\ \A k \in DOMAIN pattern :
         IF pattern[k] = "*" THEN cut[k] <= cut[k + 1]
         ELSE cut[k + 1] = cut[k] + 1 /\ text[cut[k]] = pattern[k]

(* The path up to its query. *)
Name == CHOOSE name \in {SubSeq(path, 1, n) : n \in 0..Len(path)} :
          /\ \A k \in DOMAIN name : name[k] # "?"
          /\ name = path \/ path[Len(name) + 1] = "?"

(* Whether it is an endpoint or one of its segments and what follows begin
   there, and what of it is left to the endpoint's patterns. *)
Within(endpoint) ==
  \/ Name = endpoint \/ (endpoint = Slash /\ StartsWith(Name, Slash))
  \/ \E n \in DOMAIN Name : Name[n] = "/" /\ SubSeq(Name, 1, n - 1) = endpoint

Beyond(endpoint) ==
  IF endpoint = Slash THEN Name
  ELSE IF Name = endpoint THEN Slash ELSE After(Name, Len(endpoint))

(* The endpoints that are to serve the request. *)
Eligible ==
  {pe \in UNION {{p} \X DOMAIN plugins[p].endpoints : p \in DOMAIN plugins} :
     LET plugin == plugins[pe[1]]
         endpoint == plugin.endpoints[pe[2]] IN
     /\ plugin.loaded /\ Within(plugin.endpoint)
     /\ endpoint.method \in {AnyMethod, method}
     /\ Glob(endpoint.pattern, Beyond(plugin.endpoint))}

Before(a, b) == a[1] < b[1] \/ (a[1] = b[1] /\ a[2] < b[2])

NoEarlierEligible ==
  /\ outcome = "handler" => \A a \in Eligible : ~Before(a, <<i, j>>)
  /\ outcome = "declined" => Eligible = {}

(* The two cases the code treats otherwise, see the last two properties. *)
StarsApart ==
  \A p \in DOMAIN plugins : \A e \in DOMAIN plugins[p].endpoints :
    LET pattern == plugins[p].endpoints[e].pattern IN
    \A k \in DOMAIN pattern : pattern[k] = "*" /\ k > 1 => pattern[k - 1] # "*"
QueryInside ==
  \A p \in DOMAIN plugins : Name = plugins[p].endpoint => Name \in {path, Slash}

(* A handler is only called for a request that its endpoint is to serve: its
   plugin's endpoint ends at a segment, the pattern matches all of the rest
   without the query, the method is the endpoint's. *)
OnlyEligibleServe == outcome = "handler" => <<i, j>> \in Eligible

(* The first endpoint that is to serve a request does, whatever plugin before it
   has the same prefix and no endpoint for it; only a request without one is
   declined and goes to the static files. *)
FirstServes == StarsApart /\ QueryInside => NoEarlierEligible

(* The handlers of a C++ plugin all stand behind one function, which is not told for
   which endpoint it is called and searches again: it comes to the handler of the
   endpoint that the server's search stopped at. *)
WrapperPicksSame == outcome = "handler" => picked = j

(* What the request's query says of a key: the text behind the first piece that is
   the key and a sign. *)
Asked == After(path, Len(Name) + 1)
IsPiece(n, m) ==
  /\ n = 1 \/ Asked[n - 1] = "&"
  /\ m = Len(Asked) \/ Asked[m + 1] = "&"
  /\ \A k \in n..m : Asked[k] # "&"
Piece(n) == SubSeq(Asked, n, CHOOSE m \in n..Len(Asked) : IsPiece(n, m))
Assigning(key) == {n \in DOMAIN Asked : /\ \E m \in n..Len(Asked) : IsPiece(n, m)
                                        /\ StartsWith(Piece(n), key \o <<"=">>)}
Keys == {key \in {SubSeq(Asked, n, m) : n \in 1..Len(Asked), m \in 0..Len(Asked)} :
           \A k \in DOMAIN key : key[k] \notin {"&", "="}}
ValueOf(key) ==
  IF Assigning(key) = {} THEN <<>>
  ELSE LET first == CHOOSE n \in Assigning(key) : \A k \in Assigning(key) : n <= k IN
       <<After(Piece(first), Len(key) + 1)>>

(* getQueryParam gives a handler the value of every key that the query of its path
   has, the first value of a key that has several, unless the query has more
   pairs than the table takes: whatever plugin's prefix was cut off before, and
   with the equal signs of the value. *)
QueryDelivered ==
  outcome = "handler" /\ Cardinality(UNION {Assigning(key) : key \in Keys}) <= MaxParams =>
    \A key \in Keys : Lookup(params, key) = ValueOf(key)

(* getBodyParam gives a handler the first value that the form has for a name, with
   every byte of it that the client had to escape. *)
FormDelivered ==
  outcome = "handler" =>
    \A n \in DOMAIN form :
      (\A k \in 1..n - 1 : form[k][1] # form[n][1]) => Lookup(fields, form[n][1]) = <<form[n][2]>>

-----------------------------------------------------------------------------
(* What comments and the documentation say and the code does not do. *)

(* plugin.c: "'*' matches any sequence of characters", and so the empty one
   before another star. *)
StarMatchesAnySequence == QueryInside => NoEarlierEligible

(* README: "Query string parsing". The query of the path of the plugin itself is
   cut off as that of a longer path is. *)
QueryCutEverywhere == StarsApart => NoEarlierEligible
=============================================================================
