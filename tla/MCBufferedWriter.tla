-------------------------- MODULE MCBufferedWriter --------------------------
(* Small instances of BufferedWriter. *)
EXTENDS BufferedWriter
=============================================================================
