--------------------------- MODULE MCNetworkHost ---------------------------
(***************************************************************************)
(* One process with its two threads.                                       *)
(***************************************************************************)
EXTENDS NetworkHost

CONSTANT a
=============================================================================
