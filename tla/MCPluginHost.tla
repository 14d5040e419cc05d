---------------------------- MODULE MCPluginHost ----------------------------
(* Model checking of PluginHost on small instances. *)
EXTENDS PluginHost
=============================================================================
