----------------------------- MODULE MCSseEvent -----------------------------
(* Model checking of SseEvent on a buffer of 200 bytes. *)
EXTENDS SseEvent

(* Lines that reach each of the margins of 100, 20 and 12 bytes in some sum. *)
MCLineLens == {0, 1, 40, 91, 92, 93, 171, 172, 173, 300}
=============================================================================
