--------------------------- MODULE RecordLifecycle ---------------------------
(***************************************************************************)
(* What the writer promises about a finalization attempt, without steps,   *)
(* files or keys: it is open, and can still be dropped; sealing it is the  *)
(* irreversible boundary; a sealed attempt is filed, once and for all.     *)
(* At most one attempt is open or sealed at a time.                        *)
(***************************************************************************)
CONSTANT Txs
VARIABLE phase

Phases == {"none", "open", "sealed", "filed", "dropped"}
Active == {t \in Txs : phase[t] \in {"open", "sealed"}}

Init == phase = [t \in Txs |-> "none"]

Moves(t, from, to) == phase[t] = from /\ phase' = [phase EXCEPT ![t] = to]

Open(t) == Active = {} /\ Moves(t, "none", "open")
Drop(t) == Moves(t, "open", "dropped")
Seal(t) == Moves(t, "open", "sealed")
File(t) == Moves(t, "sealed", "filed")

Next == \E t \in Txs : Open(t) \/ Drop(t) \/ Seal(t) \/ File(t)

SafeSpec == Init /\ [][Next]_phase
Spec == SafeSpec /\ \A t \in Txs : WF_phase(File(t))
=============================================================================
