-------------------------- MODULE MCLocalDestruction --------------------------
(* Instances of LocalDestruction.                                            *)
EXTENDS LocalDestruction
CONSTANTS p, q, near, far, t, d

NearFirst == <<near, far>>
FarFirst == <<far, near>>
=============================================================================
