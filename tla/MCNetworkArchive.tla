-------------------------- MODULE MCNetworkArchive --------------------------
(***************************************************************************)
(* Two processes on one database; one or both of them finalize.            *)
(***************************************************************************)
EXTENDS NetworkArchive

CONSTANTS a, b
=============================================================================
