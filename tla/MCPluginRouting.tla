--------------------------- MODULE MCPluginRouting ---------------------------
(* Model checking of PluginRouting on short paths and patterns. *)
EXTENDS PluginRouting

Endpoint(pattern, m) == [pattern |-> pattern, method |-> m]
Plugin(endpoint, endpoints) == [loaded |-> TRUE, endpoint |-> endpoint, endpoints |-> endpoints]

MCPlugins ==
  {Plugin(<<"/", "a">>, <<Endpoint(<<"/">>, "GET"), Endpoint(<<"/", "*">>, "POST")>>),
   Plugin(<<"/", "a">>, <<Endpoint(<<"/", "*", "b">>, AnyMethod), Endpoint(<<"*", "a">>, "GET")>>),
   Plugin(<<"/">>, <<Endpoint(<<"*", "/", "a">>, "GET"), Endpoint(<<"/", "a", "*", "*">>, AnyMethod)>>),
   Plugin(<<"/">>, <<Endpoint(<<"/", "*", "b", "*">>, "POST")>>),
   Plugin(<<"/", "a">>, <<>>),
   [Plugin(<<"/">>, <<Endpoint(<<"*">>, AnyMethod)>>) EXCEPT !.loaded = FALSE]}

Get(p) == [path |-> p, method |-> "GET", form |-> <<>>]
Texts(bytes, n) == UNION {[1..k -> bytes] : k \in 0..n}

(* Short paths, queries behind two of them, and forms of at most two fields. *)
MCPaths == {[Get(<<"/">> \o rest) EXCEPT !.method = m] :
              rest \in Texts({"/", "a", "b", "?"}, 4), m \in {"GET", "POST"}}
MCQueries == {Get(prefix \o query) : prefix \in {<<"/", "?">>, <<"/", "a", "/", "?">>},
                                     query \in Texts({"a", "=", "&"}, 5)}
MCFields == {<<<<n>>, v>> : n \in {"a", "&", "%"},
                            v \in {<<>>} \cup {<<b>> : b \in {"a", "&", "=", "%", "+", " "}}}
MCForms == {[Get(<<"/", "a", "/", "a">>) EXCEPT !.form = f] : f \in Texts(MCFields, 2)}

MCRequests == MCPaths \cup MCQueries \cup MCForms
=============================================================================
