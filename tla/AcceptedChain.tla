--------------------------- MODULE AcceptedChain ---------------------------
(***************************************************************************)
(* What the blind server promises about one organization's chain: entries  *)
(* are appended one at a time, each names its predecessor, each gets one   *)
(* receipt that is never issued again, and acceptance times never go back. *)
(***************************************************************************)
EXTENDS Naturals, Sequences

CONSTANTS Entries, SeqOf, PrevOf, Receipts, None
VARIABLE chain    \* the receipts of the accepted entries, in order

LastEntry == IF chain = <<>> THEN None ELSE chain[Len(chain)].entry

Init == chain = <<>>

Accept(receipt) ==
    /\ receipt.entry \in Entries
    /\ SeqOf[receipt.entry] = Len(chain)
    /\ PrevOf[receipt.entry] = LastEntry
    /\ chain # <<>> => receipt.accepted >= chain[Len(chain)].accepted
    /\ chain' = Append(chain, receipt)

Next == \E receipt \in Receipts : Accept(receipt)

Spec == Init /\ [][Next]_chain
=============================================================================
