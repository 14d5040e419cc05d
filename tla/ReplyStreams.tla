---------------------------- MODULE ReplyStreams ----------------------------
(* What a client of the plugin API may see on each stream it has opened: nothing
   yet, then one whole response, or a stream of events that is opened once and
   may be closed. No stream is answered twice, and nothing follows its end.   *)
CONSTANT Channels   \* the streams of all clients

VARIABLE stage      \* per stream: "silent", "streaming" or "answered"

Init == stage = [ch \in Channels |-> "silent"]

Respond(ch) == stage[ch] = "silent" /\ stage' = [stage EXCEPT ![ch] = "answered"]

Open(ch) == stage[ch] = "silent" /\ stage' = [stage EXCEPT ![ch] = "streaming"]

Close(ch) == stage[ch] = "streaming" /\ stage' = [stage EXCEPT ![ch] = "answered"]

Next == \E ch \in Channels : Respond(ch) \/ Open(ch) \/ Close(ch)

Spec == Init /\ [][Next]_stage
=============================================================================
