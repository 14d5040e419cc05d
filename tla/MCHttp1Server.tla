--------------------------- MODULE MCHttp1Server ---------------------------
(* Model checking of Http1Server on small instances. *)
EXTENDS Http1Server, TLC

Symmetry == Permutations(Clients)
=============================================================================
