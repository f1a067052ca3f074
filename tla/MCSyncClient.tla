---------------------------- MODULE MCSyncClient ----------------------------
(***************************************************************************)
(* Two entries; the plan of the second one fills the queue.                *)
(***************************************************************************)
EXTENDS SyncClient

GrantCounts == <<1, 2>>
=============================================================================
