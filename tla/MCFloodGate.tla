---------------------------- MODULE MCFloodGate -----------------------------
(* A small instance of FloodGate. *)
EXTENDS FloodGate

\* Two steps of backoff, the second one longer.
MCBackoffSchedule == <<2, 3>>
=============================================================================
