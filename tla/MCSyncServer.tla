---------------------------- MODULE MCSyncServer ----------------------------
(***************************************************************************)
(* A chain e0 <- e1 <- e2, a rival f0 for the first place and a rival f1,   *)
(* by another writer, for the second.  With two registry heads the second  *)
(* takes effect at sequence 1, names the other writer and lies in the      *)
(* future at time 1, when the first one is still valid.                    *)
(***************************************************************************)
EXTENDS SyncServer, TLC

CONSTANTS e0, f0, e1, f1, e2

Of(fields) == [e \in Entries |-> fields[e]]
MCSeqOf == Of(e0 :> 0 @@ f0 :> 0 @@ e1 :> 1 @@ f1 :> 1 @@ e2 :> 2)
MCPrevOf == Of(e0 :> None @@ f0 :> None @@ e1 :> e0 @@ f1 :> e0 @@ e2 :> e1)

\* One head that stays valid.
OneVersion == Of([e \in Entries |-> 1])
OneWriter == Of([e \in Entries |-> "old"])
OneHead ==
    << [from |-> 0, through |-> 2, notBefore |-> 0, notAfter |-> 9,
        writer |-> "old"] >>

\* A writer transition.
TwoVersions == Of(e0 :> 1 @@ f0 :> 1 @@ e1 :> 1 @@ f1 :> 2 @@ e2 :> 2)
TwoWriters == Of(e0 :> "old" @@ f0 :> "old" @@ e1 :> "old" @@ f1 :> "new"
                 @@ e2 :> "new")
TwoHeads ==
    << [from |-> 0, through |-> 1, notBefore |-> 0, notAfter |-> 1,
        writer |-> "old"],
       [from |-> 1, through |-> 2, notBefore |-> 2, notAfter |-> 9,
        writer |-> "new"] >>

\* The first head does not expire.  The second expires at time 2; a third,
\* in force from then on, may be known before or only after that.
ThreeHeads ==
    << [from |-> 0, through |-> 1, notBefore |-> 0, notAfter |-> 2,
        writer |-> "old"],
       [from |-> 1, through |-> 2, notBefore |-> 1, notAfter |-> 1,
        writer |-> "new"],
       [from |-> 1, through |-> 2, notBefore |-> 2, notAfter |-> 9,
        writer |-> "new"] >>

Symmetry == Permutations(Requests)
=============================================================================
