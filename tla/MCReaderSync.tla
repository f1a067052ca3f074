----------------------------- MODULE MCReaderSync -----------------------------
(* Instances of ReaderSync for TLC. *)
EXTENDS ReaderSync

CONSTANTS left, right
=============================================================================
