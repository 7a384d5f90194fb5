-------------------------- MODULE MCRecordThought --------------------------
(* Two thoughts, an outbox with one place.                                  *)
EXTENDS RecordThought

MCThought == {1, 2}
MCCaller == MCThought \cup {Flusher}
============================================================================
