--------------------------- MODULE MCHttp2Server ---------------------------
(* Model checking of Http2Server on small instances. *)
EXTENDS Http2Server
=============================================================================
