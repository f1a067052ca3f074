-------------------------- MODULE WriterCoreProofs --------------------------
(***************************************************************************)
(* Proofs about WriterCore, for any sets of drafts, attempts, numbers and  *)
(* grants and any save bound.                                              *)
(***************************************************************************)
EXTENDS WriterCore, TLAPS

\* An operation between its first staged byte and the confirmation works on
\* an attempt that exists; so does a marker, so does every object on disk.
Working == {"staging", "flushed", "marked", "pinned", "deleted", "grants",
            "entry", "committed", "confirm"}

\* TypeOK is not inductive: the sequence read from a committed entry, and the
\* marker booked for the running attempt, have their sort only because the
\* attempt they belong to exists.
TypeInv ==
    /\ TypeOK
    /\ pc \in Working => cur \in Txs /\ attempt[cur] # None
    /\ pc = "wrapped" => slot \in Drafts
    /\ transition \in Txs => attempt[transition] # None
    /\ \A t \in Txs, o \in Objects : disk[t][o] # "absent" => attempt[t] # None

LEMMA AttemptFields ==
    ASSUME TypeOK, NEW t \in Txs, attempt[t] # None
    PROVE  /\ attempt[t] \in Attempt
           /\ attempt[t].draft \in Drafts /\ attempt[t].rev \in Nat
           /\ attempt[t].number \in Numbers \cup {None}
           /\ attempt[t].orig \in Txs \cup {None} /\ attempt[t].seq \in Nat
BY DEF TypeOK, Attempt

LEMMA NextSeqsNat == TypeInv => NextSeqs \subseteq Nat
<1> SUFFICES ASSUME TypeInv, NEW t \in ChainNodes PROVE attempt[t].seq + 1 \in Nat
  BY DEF NextSeqs
<1>1. t \in Txs /\ attempt[t] # None
  BY DEF TypeInv, ChainNodes, InChain, Visible, Objects
<1> QED BY <1>1, AttemptFields DEF TypeInv

LEMMA BeginTyped ==
    ASSUME TypeInv, NEW t \in Txs, NEW n \in Numbers \cup {None},
           NEW orig \in Txs \cup {None}, Begin(t, n, orig)
    PROVE  /\ attempt' \in [Txs -> Attempt \cup {None}]
           /\ attempt'[t] # None
           /\ \A u \in Txs : attempt[u] # None => attempt'[u] # None
           /\ pc' = "staging" /\ cur' = t
           /\ UNCHANGED <<row, slot, transition, confirmed, disk>>
<1>1. PICK s \in NextSeqs : attempt' = [attempt EXCEPT ![t] =
              [draft |-> row.id, rev |-> row.rev, number |-> n,
               orig |-> orig, seq |-> s]]
  BY DEF Begin
<1>2. s \in Nat
  BY NextSeqsNat
<1> DEFINE new == [draft |-> row.id, rev |-> row.rev, number |-> n,
                   orig |-> orig, seq |-> s]
<1>3. new \in Attempt
  BY <1>2 DEF Attempt, TypeInv, TypeOK
<1> QED BY <1>1, <1>3, NoneIsNoAttempt DEF Begin, TypeInv, TypeOK

\* A rename only ever turns a staged object into a published one.
LEMMA RenamedTyped ==
    ASSUME NEW st \in ObjectState, st # "absent"
    PROVE  /\ Renamed(st) \in {"publishedV", "published"}
           /\ Renamed(st) = "published" <=> st = "published"
BY DEF Renamed, ObjectState

LEMMA PublishTyped ==
    ASSUME TypeInv, pc \in Working, NEW o \in Objects, Publishable(disk[cur][o]),
           disk' = [disk EXCEPT ![cur][o] = Renamed(@)]
    PROVE  /\ disk' \in [Txs -> [Objects -> ObjectState]]
           /\ \A t \in Txs, p \in Objects :
                disk'[t][p] = IF t = cur /\ p = o THEN Renamed(disk[t][p]) ELSE disk[t][p]
           /\ Renamed(disk[cur][o]) \in {"publishedV", "published"}
           /\ Renamed(disk[cur][o]) = "published" <=> disk[cur][o] = "published"
<1>1. cur \in Txs /\ disk[cur][o] \in ObjectState /\ disk[cur][o] # "absent"
  BY DEF TypeInv, TypeOK, Publishable
<1>2. /\ Renamed(disk[cur][o]) \in {"publishedV", "published"}
      /\ Renamed(disk[cur][o]) = "published" <=> disk[cur][o] = "published"
  BY <1>1, RenamedTyped
<1> QED BY <1>1, <1>2 DEF TypeInv, TypeOK, ObjectState

\* Init establishes TypeInv, and each action of every operation, each error
\* and the crash preserve it.
LEMMA TypeInvInit == Init => TypeInv
BY DisjointSorts DEF Init, TypeInv, TypeOK, ObjectState, Steps, Working

LEMMA TypeInvNext == TypeInv /\ [Next]_vars => TypeInv'
<1> SUFFICES ASSUME TypeInv, [Next]_vars PROVE TypeInv'
  OBVIOUS
<1> USE DisjointSorts DEF TypeInv, TypeOK, Steps, Working, ObjectState, Stop
<1>1. CASE UNCHANGED vars
  BY <1>1 DEF vars
<1>2. CASE Save
  BY <1>2 DEF Save
<1>3. ASSUME NEW t \in Txs, NEW n \in Numbers, FinalizeIncident(t, n) PROVE TypeInv'
  BY <1>3, BeginTyped DEF FinalizeIncident
<1>4. ASSUME NEW t \in Txs, NEW orig \in Txs, FinalizeAmendment(t, orig) PROVE TypeInv'
  BY <1>4, BeginTyped DEF FinalizeAmendment
<1>5. ASSUME NEW t \in Txs, FinalizeKeyTransition(t) PROVE TypeInv'
  BY <1>5, BeginTyped DEF FinalizeKeyTransition
<1>6. CASE Recover \/ Reconcile \/ ResumeDiscard \/ BeginDiscard
  BY <1>6 DEF Recover, Reconcile, ResumeDiscard, BeginDiscard, Intent
<1>7. ASSUME NEW o \in Objects, StageObject(o) PROVE TypeInv'
  BY <1>7 DEF StageObject
<1>8. CASE FlushStaging
  BY <1>8 DEF FlushStaging, AllFlushed
<1>9. CASE BookMarker \/ PinRevision \/ DeleteDraftKey \/ ConfirmKeyAbsent
  BY <1>9 DEF BookMarker, PinRevision, DeleteDraftKey, ConfirmKeyAbsent
<1>10. ASSUME NEW g \in Grants, PublishGrant(g) PROVE TypeInv'
  <2>1. g \in Objects /\ pc \in Working
    BY <1>10 DEF PublishGrant, Objects
  <2>2. /\ disk' \in [Txs -> [Objects -> ObjectState]]
        /\ \A t \in Txs \ {cur}, p \in Objects : disk'[t][p] = disk[t][p]
    <3>1. /\ Publishable(disk[cur][g])
          /\ disk' = [disk EXCEPT ![cur][g] = Renamed(@)]
      BY <1>10 DEF PublishGrant
    <3> HIDE DEF TypeInv
    <3> QED BY <2>1, <3>1, PublishTyped
  <2> QED BY <1>10, <2>1, <2>2 DEF PublishGrant
<1>11. CASE SyncGrants
  BY <1>11 DEF SyncGrants, GrantsSynced
<1>12. CASE PublishEntry
  <2>1. Entry \in Objects /\ pc \in Working
    BY <1>12 DEF PublishEntry, Objects
  <2>2. /\ disk' \in [Txs -> [Objects -> ObjectState]]
        /\ \A t \in Txs \ {cur}, p \in Objects : disk'[t][p] = disk[t][p]
    <3>1. /\ Publishable(disk[cur][Entry])
          /\ disk' = [disk EXCEPT ![cur][Entry] = Renamed(@)]
      BY <1>12 DEF PublishEntry
    <3> HIDE DEF TypeInv
    <3> QED BY <2>1, <3>1, PublishTyped
  <2> QED BY <1>12, <2>1, <2>2 DEF PublishEntry
<1>13. CASE SyncEntry
  BY <1>13 DEF SyncEntry, Objects
<1>14. CASE ConfirmOriginal
  BY <1>14 DEF ConfirmOriginal, IdentityRow
<1>15. ASSUME NEW d \in Drafts, WrapBlankKey(d) PROVE TypeInv'
  BY <1>15 DEF WrapBlankKey
<1>16. CASE CommitBlank
  BY <1>16 DEF CommitBlank
<1>17. ASSUME NEW t \in Txs, ReleaseClaim(t) PROVE TypeInv'
  BY <1>17 DEF ReleaseClaim
<1>18. CASE RestoreDraft \/ NothingPending \/ CompletePrepared \/ Reconciled
  BY <1>18 DEF RestoreDraft, NothingPending, CompletePrepared, Reconciled
<1>19. ASSUME NEW t \in Txs, NEW o \in Objects, RemoveResidue(t, o) PROVE TypeInv'
  BY <1>19 DEF RemoveResidue
<1>20. CASE DeleteDiscardedKey \/ ConfirmDiscardedKeyAbsent
  BY <1>20 DEF DeleteDiscardedKey, ConfirmDiscardedKeyAbsent
<1>21. CASE Error
  BY <1>21 DEF Error, AbortReversible, AbortUnclear, RollBackBlank, StepFails
<1>22. CASE Crash
  BY <1>22 DEF Crash, AfterCrash
<1> QED
  BY <1>1, <1>2, <1>3, <1>4, <1>5, <1>6, <1>7, <1>8, <1>9, <1>10, <1>11, <1>12,
     <1>13, <1>14, <1>15, <1>16, <1>17, <1>18, <1>19, <1>20, <1>21, <1>22
     DEF Next, Start, Progress

\* Every variable of the writer stays in its sort, whatever runs or fails.
THEOREM TypeCorrect == Spec => []TypeOK
<1>1. Spec => []TypeInv
  BY TypeInvInit, TypeInvNext, PTL DEF Spec
<1> QED BY <1>1, PTL DEF TypeInv
-----------------------------------------------------------------------------
\* What a publishing operation may rely on: the order of steps 8 to 11 keeps a
\* marker complete and a committed entry's grants durable, and nothing stages
\* or cleans up beside a marker.
PublicationInv ==
    /\ PreparedComplete
    /\ GrantsBeforeEntry
    /\ pc \in {"staging", "flushed", "cleaning", "discarding", "discardDeleted"}
         => transition \notin Txs
    /\ pc \in {"staging", "flushed"} =>
         \A o \in Objects : disk[cur][o] \in {"absent", "stagedV", "staged"}
    /\ pc = "flushed" => \A o \in Objects : disk[cur][o] = "staged"
    /\ pc \in {"entry", "committed"} => \A g \in Grants : disk[cur][g] = "published"
    /\ pc = "committed" => InChain(cur)
    /\ pc = "confirm" => disk[cur][Entry] = "published"
    /\ (pc \in {"blank", "wrapped"} /\ transition \in Txs)
         => disk[transition][Entry] = "published"
    /\ pc \in {"marked", "pinned", "deleted", "grants", "entry", "committed", "confirm"}
         => transition = cur

\* The archive starts empty and without a marker.
LEMMA PublicationInvInit == Init => PublicationInv
BY DisjointSorts DEF Init, PublicationInv, PreparedComplete, GrantsBeforeEntry,
     InChain, Visible, Objects

LEMMA CrashKeeps ==
    ASSUME TypeInv, Crash, NEW t \in Txs, NEW o \in Objects
    PROVE  /\ disk'[t][o] \in ObjectState
           /\ disk[t][o] = "published" => disk'[t][o] = "published"
           /\ disk[t][o] = "staged" => disk'[t][o] = "staged"
           /\ disk[t][o] = "publishedV" => disk'[t][o] \in {"staged", "published"}
           /\ disk[t][o] \in {"absent", "stagedV"} => disk'[t][o] \in {"absent", "staged"}
<1> DEFINE st == disk[t][o]
<1>1. st \in ObjectState
  BY DEF TypeInv, TypeOK
<1>2. PICK lost \in SUBSET Volatile :
        disk' = [u \in Txs |-> [p \in Objects |-> AfterCrash(disk[u][p], <<u, p>> \in lost)]]
  BY DEF Crash
<1>3. disk'[t][o] = AfterCrash(st, <<t, o>> \in lost)
  BY <1>2
<1>4. \A b \in BOOLEAN :
        /\ AfterCrash(st, b) \in ObjectState
        /\ st = "published" => AfterCrash(st, b) = "published"
        /\ st = "staged" => AfterCrash(st, b) = "staged"
        /\ st = "publishedV" => AfterCrash(st, b) \in {"staged", "published"}
        /\ st \in {"absent", "stagedV"} => AfterCrash(st, b) \in {"absent", "staged"}
  BY <1>1 DEF AfterCrash, ObjectState
<1>5. (<<t, o>> \in lost) \in BOOLEAN
  OBVIOUS
<1> HIDE DEF st
<1> QED BY <1>3, <1>4, <1>5 DEF st

\* A crash commits nothing.
LEMMA CrashInChain ==
    ASSUME TypeInv, Crash, NEW t \in Txs, InChain(t)'
    PROVE  InChain(t)
<1>1. disk'[t][Entry] \in {"publishedV", "published"} /\ Entry \in Objects
  BY DEF InChain, Visible, Objects
<1>2. disk[t][Entry] \in ObjectState
  BY <1>1 DEF TypeInv, TypeOK
<1>3. /\ disk[t][Entry] \in {"absent", "stagedV"} => disk'[t][Entry] \in {"absent", "staged"}
      /\ disk[t][Entry] = "staged" => disk'[t][Entry] = "staged"
  BY <1>1, CrashKeeps
<1> QED BY <1>1, <1>2, <1>3 DEF ObjectState, InChain, Visible

LEMMA PublicationInvNext ==
    TypeInv /\ PublicationInv /\ [Next]_vars => PublicationInv'
<1> SUFFICES ASSUME TypeInv, PublicationInv, [Next]_vars PROVE PublicationInv'
  OBVIOUS
<1>0. TypeInv'
  BY TypeInvNext
<1> USE DisjointSorts DEF PublicationInv, PreparedComplete, GrantsBeforeEntry,
        InChain, Visible, Stop
<1>e. Entry \in Objects /\ Grants \subseteq Objects /\ Entry \notin Grants
  BY DEF Objects
<1>1. CASE UNCHANGED vars
  BY <1>1 DEF vars
<1>2. CASE Save
  BY <1>2 DEF Save
<1>3. ASSUME NEW t \in Txs, NEW n \in Numbers \cup {None}, NEW orig \in Txs \cup {None},
             Begin(t, n, orig)
      PROVE  PublicationInv'
  <2>1. \A o \in Objects : disk[t][o] = "absent"
    BY <1>3 DEF Begin, TypeInv
  <2> QED BY <1>3, <2>1 DEF Begin
<1>4. CASE Recover \/ Reconcile \/ ResumeDiscard \/ BeginDiscard
  BY <1>4 DEF Recover, Reconcile, ResumeDiscard, BeginDiscard, Intent, TypeInv, TypeOK
<1>5. ASSUME NEW o \in Objects, StageObject(o) PROVE PublicationInv'
  BY <1>5, <1>e DEF StageObject, TypeInv, TypeOK, Working
<1>6. CASE FlushStaging
  BY <1>6, <1>e DEF FlushStaging, AllFlushed, TypeInv, TypeOK, Working
<1>7. CASE BookMarker
  BY <1>7, <1>e DEF BookMarker
<1>8. CASE PinRevision \/ DeleteDraftKey \/ ConfirmKeyAbsent
  BY <1>8 DEF PinRevision, DeleteDraftKey, ConfirmKeyAbsent
<1>9. ASSUME NEW g \in Grants, PublishGrant(g) PROVE PublicationInv'
  <2>1. g \in Objects /\ pc \in Working /\ cur \in Txs
    BY <1>9, <1>e DEF PublishGrant, Working, TypeInv
  <2>2. /\ \A t \in Txs, p \in Objects :
             disk'[t][p] = IF t = cur /\ p = g THEN Renamed(disk[t][p]) ELSE disk[t][p]
        /\ Renamed(disk[cur][g]) \in {"publishedV", "published"}
        /\ Renamed(disk[cur][g]) = "published" <=> disk[cur][g] = "published"
    BY <1>9, <2>1, PublishTyped DEF PublishGrant
  <2> QED BY <1>9, <1>e, <2>1, <2>2 DEF PublishGrant
<1>10. CASE SyncGrants
  BY <1>10, <1>e DEF SyncGrants, GrantsSynced, TypeInv, TypeOK, Working
<1>11. CASE PublishEntry
  <2>1. pc \in Working /\ cur \in Txs
    BY <1>11 DEF PublishEntry, Working, TypeInv
  <2>2. /\ \A t \in Txs, p \in Objects :
             disk'[t][p] = IF t = cur /\ p = Entry THEN Renamed(disk[t][p]) ELSE disk[t][p]
        /\ Renamed(disk[cur][Entry]) \in {"publishedV", "published"}
    BY <1>11, <1>e, <2>1, PublishTyped DEF PublishEntry
  <2> QED BY <1>11, <1>e, <2>1, <2>2 DEF PublishEntry
<1>12. CASE SyncEntry
  BY <1>12, <1>e DEF SyncEntry, TypeInv, TypeOK, Working
<1>13. CASE ConfirmOriginal
  BY <1>13 DEF ConfirmOriginal
<1>14. ASSUME NEW d \in Drafts, WrapBlankKey(d) PROVE PublicationInv'
  BY <1>14 DEF WrapBlankKey
<1>15. CASE CommitBlank
  BY <1>15 DEF CommitBlank
<1>16. ASSUME NEW t \in Txs, ReleaseClaim(t) PROVE PublicationInv'
  BY <1>16 DEF ReleaseClaim
<1>17. CASE RestoreDraft \/ NothingPending \/ CompletePrepared \/ Reconciled
  BY <1>17 DEF RestoreDraft, NothingPending, CompletePrepared, Reconciled
<1>18. ASSUME NEW t \in Txs, NEW o \in Objects, RemoveResidue(t, o) PROVE PublicationInv'
  BY <1>18, <1>e DEF RemoveResidue, Residue, TypeInv, TypeOK
<1>19. CASE DeleteDiscardedKey \/ ConfirmDiscardedKeyAbsent
  BY <1>19 DEF DeleteDiscardedKey, ConfirmDiscardedKeyAbsent
<1>20. CASE Error
  BY <1>20 DEF Error, AbortReversible, AbortUnclear, RollBackBlank, StepFails
<1>21. CASE Crash
  <2>1. pc' = "idle" /\ UNCHANGED <<transition, attempt>>
    BY <1>21 DEF Crash
  <2>2. PreparedComplete'
    BY <1>21, <2>1, CrashKeeps
  <2>3. GrantsBeforeEntry'
    <3> SUFFICES ASSUME NEW t \in Txs, InChain(t)', NEW g \in Grants
                 PROVE  disk'[t][g] = "published"
      OBVIOUS
    <3>1. InChain(t)
      BY <1>21, CrashInChain
    <3> QED BY <1>21, <1>e, <3>1, CrashKeeps
  <2> QED BY <2>1, <2>2, <2>3
<1> QED
  BY <1>1, <1>2, <1>3, <1>4, <1>5, <1>6, <1>7, <1>8, <1>9, <1>10, <1>11, <1>12,
     <1>13, <1>14, <1>15, <1>16, <1>17, <1>18, <1>19, <1>20, <1>21
     DEF Next, Start, Progress, FinalizeIncident, FinalizeAmendment, FinalizeKeyTransition

\* The invariant of publication always holds.
LEMMA PublicationAlways == Spec => [](TypeInv /\ PublicationInv)
BY TypeInvInit, TypeInvNext, PublicationInvInit, PublicationInvNext, PTL DEF Spec

\* Whatever fails or crashes, a booked marker finds all its bytes staged or
\* published, so that recovery can always complete it (prepare, recover).
THEOREM PreparedAlwaysComplete == Spec => []PreparedComplete
<1>1. PublicationInv => PreparedComplete
  BY DEF PublicationInv
<1> QED BY <1>1, PublicationAlways, PTL

\* Whatever fails or crashes, a visible entry has all its grants durable
\* under their target names (publish).
THEOREM PublicationOrder == Spec => []GrantsBeforeEntry
<1>1. PublicationInv => GrantsBeforeEntry
  BY DEF PublicationInv
<1> QED BY <1>1, PublicationAlways, PTL
-----------------------------------------------------------------------------
\* What the boundary guarantees: the key of an attempt that can reach the
\* archive is gone for good, and the draft it was made from is the one at hand.
KeyInv ==
    /\ CommittedKeyGone
    /\ transition \in Txs => attempt[transition].draft = row.id
    /\ pc \in {"staging", "flushed"} => attempt[cur].draft = row.id
    /\ pc \in {"grants", "entry", "committed", "confirm"} => slot # row.id
    /\ (pc \in {"blank", "wrapped"} /\ transition \in Txs) => slot # row.id

\* Only PublishEntry commits an entry.
LEMMA OnlyPublishEntryCommits ==
    ASSUME TypeInv, PublicationInv, Next, NEW t \in Txs, InChain(t)', ~InChain(t)
    PROVE  PublishEntry /\ t = cur
<1> USE DEF InChain, Visible
<1>e. Entry \in Objects /\ Entry \notin Grants /\ Grants \subseteq Objects
  BY DisjointSorts DEF Objects
<1>1. disk'[t][Entry] # disk[t][Entry]
  OBVIOUS
<1>2. ASSUME NEW o \in Objects, StageObject(o) PROVE FALSE
  BY <1>2, <1>e DEF StageObject, TypeInv, TypeOK, Working
<1>3. CASE FlushStaging
  BY <1>3, <1>e DEF FlushStaging, AllFlushed, TypeInv, TypeOK, Working
<1>4. ASSUME NEW g \in Grants, PublishGrant(g) PROVE FALSE
  BY <1>1, <1>4, <1>e DEF PublishGrant, TypeInv, TypeOK, Working
<1>5. CASE SyncGrants
  BY <1>1, <1>5, <1>e DEF SyncGrants, GrantsSynced, TypeInv, TypeOK, Working
<1>6. CASE PublishEntry
  BY <1>1, <1>6, <1>e DEF PublishEntry, TypeInv, TypeOK, Working
<1>7. CASE SyncEntry
  BY <1>7, <1>e DEF SyncEntry, PublicationInv, TypeInv, TypeOK, Working
<1>8. ASSUME NEW u \in Txs, NEW o \in Objects, RemoveResidue(u, o) PROVE FALSE
  BY <1>8, <1>e DEF RemoveResidue, TypeInv, TypeOK
<1>9. CASE Crash
  BY <1>9, CrashInChain
<1>10. CASE UNCHANGED disk
  BY <1>1, <1>10
<1> QED
  BY <1>2, <1>3, <1>4, <1>5, <1>6, <1>7, <1>8, <1>9, <1>10
     DEF Next, Start, Progress, Error, Save, FinalizeIncident, FinalizeAmendment,
         FinalizeKeyTransition, Begin, Recover, Reconcile, BeginDiscard, ResumeDiscard,
         BookMarker, PinRevision, DeleteDraftKey, ConfirmKeyAbsent, ConfirmOriginal,
         WrapBlankKey, CommitBlank, ReleaseClaim, RestoreDraft, NothingPending,
         CompletePrepared, Reconciled, DeleteDiscardedKey, ConfirmDiscardedKeyAbsent,
         AbortReversible, AbortUnclear, RollBackBlank, StepFails

LEMMA KeyInvInit == Init => KeyInv
BY DisjointSorts DEF Init, KeyInv, CommittedKeyGone, InChain, Visible, Objects

\* A step that commits nothing, changes no attempt that has one and puts no
\* new key into the slot cannot break CommittedKeyGone.
LEMMA KeyGoneStays ==
    ASSUME TypeInv, PublicationInv, CommittedKeyGone, Next, ~PublishEntry,
           slot' \in {slot, None},
           \A t \in Txs : attempt[t] # None => attempt'[t] = attempt[t]
    PROVE  CommittedKeyGone'
<1> SUFFICES ASSUME NEW t \in Txs, InChain(t)' PROVE slot' # attempt'[t].draft
  BY DEF CommittedKeyGone
<1>1. InChain(t)
  BY OnlyPublishEntryCommits
<1>2. attempt[t] # None
  BY <1>1 DEF InChain, Visible, TypeInv, Objects
<1>3. attempt[t].draft \in Drafts
  BY <1>2, AttemptFields DEF TypeInv
<1> QED BY <1>1, <1>2, <1>3, DisjointSorts DEF CommittedKeyGone

LEMMA KeyInvNext ==
    TypeInv /\ PublicationInv /\ KeyInv /\ [Next]_vars => KeyInv'
<1> SUFFICES ASSUME TypeInv, PublicationInv, KeyInv, [Next]_vars PROVE KeyInv'
  OBVIOUS
<1> USE DisjointSorts DEF KeyInv, Stop
<1>0. TypeInv' /\ PublicationInv'
  BY TypeInvNext, PublicationInvNext
<1>1. CASE UNCHANGED vars
  BY <1>1 DEF vars, CommittedKeyGone, InChain, Visible
<1>k. ASSUME Next, ~PublishEntry, slot' \in {slot, None}, UNCHANGED attempt
      PROVE  CommittedKeyGone'
  BY <1>k, KeyGoneStays
<1>2. CASE Save
  <2>1. CommittedKeyGone'
    BY <1>2, <1>k DEF Save, PublishEntry, Next, Start
  <2> QED BY <1>2, <2>1 DEF Save, TypeInv, TypeOK
<1>3. ASSUME NEW t \in Txs, NEW n \in Numbers \cup {None}, NEW orig \in Txs \cup {None},
             Begin(t, n, orig), Next
      PROVE  KeyInv'
  <2>1. PICK s \in NextSeqs : attempt' = [attempt EXCEPT ![t] =
              [draft |-> row.id, rev |-> row.rev, number |-> n, orig |-> orig, seq |-> s]]
    BY <1>3 DEF Begin
  <2>2. attempt'[t].draft = row.id /\ \A u \in Txs : attempt[u] # None => attempt'[u] = attempt[u]
    BY <1>3, <2>1 DEF Begin, TypeInv, TypeOK
  <2>3. CommittedKeyGone'
    BY <1>3, <2>2, KeyGoneStays DEF Begin, PublishEntry
  <2> QED BY <1>3, <2>2, <2>3 DEF Begin
<1>4. CASE Recover \/ Reconcile \/ ResumeDiscard \/ BeginDiscard
  <2>1. CommittedKeyGone'
    BY <1>4, <1>k DEF Recover, Reconcile, ResumeDiscard, BeginDiscard, PublishEntry, Next, Start
  <2> QED BY <1>4, <2>1 DEF Recover, Reconcile, ResumeDiscard, BeginDiscard, Intent, TypeInv, TypeOK
<1>5. CASE (\E o \in Objects : StageObject(o)) \/ FlushStaging
  <2>1. CommittedKeyGone'
    BY <1>5, <1>k DEF StageObject, FlushStaging, PublishEntry, Next, Progress
  <2> QED BY <1>5, <2>1 DEF StageObject, FlushStaging
<1>6. CASE BookMarker \/ PinRevision \/ DeleteDraftKey \/ ConfirmKeyAbsent
  <2>1. CommittedKeyGone'
    BY <1>6, <1>k DEF BookMarker, PinRevision, DeleteDraftKey, ConfirmKeyAbsent,
         PublishEntry, Next, Progress
  <2> QED BY <1>6, <2>1 DEF BookMarker, PinRevision, DeleteDraftKey, ConfirmKeyAbsent,
         KeyAbsent, TypeInv, TypeOK
<1>7. CASE (\E g \in Grants : PublishGrant(g)) \/ SyncGrants \/ SyncEntry \/ ConfirmOriginal
  <2>1. CommittedKeyGone'
    BY <1>7, <1>k DEF PublishGrant, SyncGrants, SyncEntry, ConfirmOriginal,
         PublishEntry, Next, Progress
  <2> QED BY <1>7, <2>1 DEF PublishGrant, SyncGrants, SyncEntry, ConfirmOriginal
<1>8. CASE PublishEntry
  <2>1. CommittedKeyGone'
    <3> SUFFICES ASSUME NEW t \in Txs, InChain(t)', t # cur PROVE InChain(t)
      BY <1>8 DEF PublishEntry, CommittedKeyGone, PublicationInv, TypeInv, Working
    <3>1. Next
      BY <1>8 DEF Next, Progress
    <3> QED BY <3>1, OnlyPublishEntryCommits
  <2> QED BY <1>8, <2>1 DEF PublishEntry
<1>9. ASSUME NEW d \in Drafts, WrapBlankKey(d) PROVE KeyInv'
  <2>1. CommittedKeyGone'
    <3> SUFFICES ASSUME NEW t \in Txs, InChain(t) PROVE d # attempt[t].draft
      BY <1>9 DEF WrapBlankKey, CommittedKeyGone, InChain, Visible
    <3>1. attempt[t] # None
      BY DEF InChain, Visible, TypeInv, Objects
    <3> QED BY <1>9, <3>1 DEF WrapBlankKey, FreshDraft
  <2> QED BY <1>9, <2>1 DEF WrapBlankKey, FreshDraft
<1>10. CASE CommitBlank
  <2>1. CommittedKeyGone'
    BY <1>10, <1>k DEF CommitBlank, PublishEntry, Next, Progress
  <2> QED BY <1>10, <2>1 DEF CommitBlank
<1>11. CASE \/ \E t \in Txs : ReleaseClaim(t)
            \/ RestoreDraft \/ NothingPending \/ CompletePrepared \/ Reconciled
            \/ \E t \in Txs, o \in Objects : RemoveResidue(t, o)
  <2>1. CommittedKeyGone'
    BY <1>11, <1>k DEF ReleaseClaim, RestoreDraft, NothingPending, CompletePrepared,
         Reconciled, RemoveResidue, PublishEntry, Next, Progress
  <2> QED BY <1>11, <2>1 DEF ReleaseClaim, RestoreDraft, NothingPending, CompletePrepared,
         Reconciled, RemoveResidue, DraftOpens, Readable
<1>12. CASE DeleteDiscardedKey \/ ConfirmDiscardedKeyAbsent
  <2>1. CommittedKeyGone'
    BY <1>12, <1>k DEF DeleteDiscardedKey, ConfirmDiscardedKeyAbsent, PublishEntry, Next, Progress
  <2> QED BY <1>12, <2>1 DEF DeleteDiscardedKey, ConfirmDiscardedKeyAbsent, PublicationInv
<1>13. CASE Error
  <2>1. /\ slot' \in {slot, None} /\ pc' = "idle"
        /\ UNCHANGED <<row, transition, attempt, disk>>
    BY <1>13 DEF Error, AbortReversible, AbortUnclear, RollBackBlank, StepFails
  <2>2. CommittedKeyGone'
    BY <1>13, <1>k, <2>1 DEF Next, PublishEntry
  <2> QED BY <2>1, <2>2
<1>14. CASE Crash
  <2>1. CommittedKeyGone'
    BY <1>14, <1>k DEF Crash, PublishEntry, Next
  <2> QED BY <1>14, <2>1 DEF Crash
<1> QED
  BY <1>1, <1>2, <1>3, <1>4, <1>5, <1>6, <1>7, <1>8, <1>9, <1>10, <1>11, <1>12,
     <1>13, <1>14
     DEF Next, Start, Progress, FinalizeIncident, FinalizeAmendment, FinalizeKeyTransition

\* At no time a committed entry and a usable draftDEK of it exist together,
\* for any number of drafts, attempts and grants.
THEOREM KeyGone == Spec => []CommittedKeyGone
<1>1. Spec => [](TypeInv /\ PublicationInv /\ KeyInv)
  BY TypeInvInit, TypeInvNext, PublicationInvInit, PublicationInvNext,
     KeyInvInit, KeyInvNext, PTL DEF Spec
<1> QED BY <1>1, PTL DEF KeyInv
-----------------------------------------------------------------------------
\* What the number register guarantees: until the boundary is crossed the
\* draft can be read, so only its own operation or its recovery releases.
NumberInv ==
    /\ CommittedNumberHeld
    /\ \A t \in Txs : attempt[t] = None => claim[t] = "none"
    /\ pc \in Working /\ attempt[cur].number # None => claim[cur] = "held"
    /\ pc \in {"staging", "flushed", "marked", "pinned"} /\ attempt[cur].number # None
         => slot = row.id
    /\ pc = "deleted" /\ attempt[cur].number # None => slot \in {row.id, None}
    /\ (transition \in Txs /\ attempt[transition].number # None /\ slot # row.id)
         => claim[transition] = "held"
    /\ pc \in {"staging", "flushed", "marked", "pinned", "deleted"}
         => ~InChain(cur)

LEMMA NumberInvInit == Init => NumberInv
BY DisjointSorts DEF Init, NumberInv, CommittedNumberHeld, InChain, Visible, Objects, Working

LEMMA NumberInvNext ==
    TypeInv /\ PublicationInv /\ KeyInv /\ NumberInv /\ [Next]_vars => NumberInv'
<1> SUFFICES ASSUME TypeInv, PublicationInv, KeyInv, NumberInv, [Next]_vars
             PROVE  NumberInv'
  OBVIOUS
<1> USE DisjointSorts DEF NumberInv, Stop, Working
<1>0. TypeInv' /\ PublicationInv' /\ KeyInv'
  BY TypeInvNext, PublicationInvNext, KeyInvNext
<1>1. CASE UNCHANGED vars
  BY <1>1 DEF vars, CommittedNumberHeld, InChain, Visible
\* Attempts and claims unchanged and nothing committed: the numbers stay.
<1>k. ASSUME Next, ~PublishEntry, UNCHANGED <<attempt, claim>>
      PROVE  CommittedNumberHeld' /\ \A t \in Txs : InChain(t)' => InChain(t)
  BY <1>k, OnlyPublishEntryCommits DEF CommittedNumberHeld
<1>2. CASE Save
  <2>1. CommittedNumberHeld' /\ \A t \in Txs : InChain(t)' => InChain(t)
    BY <1>2, <1>k DEF Save, PublishEntry, Next, Start
  <2> QED BY <1>2, <2>1 DEF Save, TypeInv, TypeOK
<1>3. ASSUME NEW t \in Txs, NEW n \in Numbers \cup {None}, NEW orig \in Txs \cup {None},
             Begin(t, n, orig), Next,
             \/ n = None /\ UNCHANGED claim
             \/ Readable /\ claim' = [claim EXCEPT ![t] = "held"]
      PROVE  NumberInv'
  <2>1. PICK s \in NextSeqs : attempt' = [attempt EXCEPT ![t] =
              [draft |-> row.id, rev |-> row.rev, number |-> n, orig |-> orig, seq |-> s]]
    BY <1>3 DEF Begin
  <2>2. /\ attempt'[t].number = n /\ attempt'[t] # None
        /\ \A u \in Txs \ {t} : attempt'[u] = attempt[u] /\ claim'[u] = claim[u]
    <3>1. attempt'[t] # None
      BY <1>3, BeginTyped
    <3>2. attempt \in [Txs -> Attempt \cup {None}]
      BY DEF TypeInv, TypeOK
    <3>3. /\ attempt'[t].number = n
          /\ \A u \in Txs \ {t} : attempt'[u] = attempt[u]
      BY <2>1, <3>2
    <3>4. \A u \in Txs \ {t} : claim'[u] = claim[u]
      BY <1>3 DEF TypeInv, TypeOK
    <3> QED BY <3>1, <3>3, <3>4
  <2>3. ~InChain(t) /\ \A u \in Txs : InChain(u)' <=> InChain(u)
    BY <1>3 DEF Begin, InChain, Visible, TypeInv, Objects
  <2>4. CommittedNumberHeld'
    BY <2>2, <2>3 DEF CommittedNumberHeld
  <2>5. n # None => claim'[t] = "held" /\ slot = row.id
    BY <1>3 DEF TypeInv, TypeOK, Readable
  <2>6. /\ pc' = "staging" /\ cur' = t /\ transition \notin Txs
        /\ UNCHANGED <<row, slot, transition>>
    BY <1>3 DEF Begin
  <2> QED BY <2>2, <2>3, <2>4, <2>5, <2>6
<1>4. CASE Recover \/ Reconcile \/ ResumeDiscard \/ BeginDiscard
  <2>1. CommittedNumberHeld' /\ \A t \in Txs : InChain(t)' => InChain(t)
    BY <1>4, <1>k DEF Recover, Reconcile, ResumeDiscard, BeginDiscard, PublishEntry, Next, Start
  <2> QED BY <1>4, <2>1 DEF Recover, Reconcile, ResumeDiscard, BeginDiscard, Intent, TypeInv, TypeOK
<1>5. CASE (\E o \in Objects : StageObject(o)) \/ FlushStaging \/ BookMarker
  <2>1. CommittedNumberHeld' /\ \A t \in Txs : InChain(t)' => InChain(t)
    BY <1>5, <1>k DEF StageObject, FlushStaging, BookMarker, PublishEntry, Next, Progress
  <2> QED BY <1>5, <2>1 DEF StageObject, FlushStaging, BookMarker, TypeInv
<1>6. CASE PinRevision \/ DeleteDraftKey \/ ConfirmKeyAbsent
  <2>1. CommittedNumberHeld' /\ \A t \in Txs : InChain(t)' => InChain(t)
    BY <1>6, <1>k DEF PinRevision, DeleteDraftKey, ConfirmKeyAbsent, PublishEntry, Next, Progress
  <2> QED BY <1>6, <2>1 DEF PinRevision, DeleteDraftKey, ConfirmKeyAbsent, Readable,
         PublicationInv, TypeInv, TypeOK
<1>7. CASE (\E g \in Grants : PublishGrant(g)) \/ SyncGrants \/ SyncEntry \/ ConfirmOriginal
  <2>1. CommittedNumberHeld' /\ \A t \in Txs : InChain(t)' => InChain(t)
    BY <1>7, <1>k DEF PublishGrant, SyncGrants, SyncEntry, ConfirmOriginal,
         PublishEntry, Next, Progress
  <2> QED BY <1>7, <2>1 DEF PublishGrant, SyncGrants, SyncEntry, ConfirmOriginal
<1>8. CASE PublishEntry
  <2>1. CommittedNumberHeld'
    <3> SUFFICES ASSUME NEW t \in Txs, InChain(t)', t # cur PROVE InChain(t)
      BY <1>8 DEF PublishEntry, CommittedNumberHeld
    <3>1. Next
      BY <1>8 DEF Next, Progress
    <3> QED BY <3>1, OnlyPublishEntryCommits
  <2> QED BY <1>8, <2>1 DEF PublishEntry
<1>9. CASE (\E d \in Drafts : WrapBlankKey(d)) \/ CommitBlank
  <2>1. CommittedNumberHeld' /\ \A t \in Txs : InChain(t)' => InChain(t)
    BY <1>9, <1>k DEF WrapBlankKey, CommitBlank, PublishEntry, Next, Progress
  <2> QED BY <1>9, <2>1 DEF WrapBlankKey, CommitBlank, KeyInv
<1>10. ASSUME NEW t \in Txs, ReleaseClaim(t) PROVE NumberInv'
  <2>1. ~InChain(t)
    BY <1>10 DEF ReleaseClaim, Readable, Releasable, KeyInv, CommittedKeyGone
  <2>2. claim'[t] = "released" /\ \A u \in Txs \ {t} : claim'[u] = claim[u]
    BY <1>10 DEF ReleaseClaim, TypeInv, TypeOK
  <2>3. CommittedNumberHeld'
    BY <1>10, <2>1, <2>2 DEF ReleaseClaim, CommittedNumberHeld, InChain, Visible
  <2>4. attempt[t] # None
    BY <1>10 DEF ReleaseClaim, Releasable
  <2> QED BY <1>10, <2>2, <2>3, <2>4 DEF ReleaseClaim, Readable
<1>11. CASE \/ RestoreDraft \/ NothingPending \/ CompletePrepared \/ Reconciled
            \/ \E t \in Txs, o \in Objects : RemoveResidue(t, o)
  <2>1. CommittedNumberHeld' /\ \A t \in Txs : InChain(t)' => InChain(t)
    BY <1>11, <1>k DEF RestoreDraft, NothingPending, CompletePrepared,
         Reconciled, RemoveResidue, PublishEntry, Next, Progress
  <2> QED BY <1>11, <2>1 DEF RestoreDraft, NothingPending, CompletePrepared,
         Reconciled, RemoveResidue, DraftOpens, Readable
<1>12. CASE DeleteDiscardedKey \/ ConfirmDiscardedKeyAbsent
  <2>1. CommittedNumberHeld' /\ \A t \in Txs : InChain(t)' => InChain(t)
    BY <1>12, <1>k DEF DeleteDiscardedKey, ConfirmDiscardedKeyAbsent, PublishEntry, Next, Progress
  <2> QED BY <1>12, <2>1 DEF DeleteDiscardedKey, ConfirmDiscardedKeyAbsent, PublicationInv
<1>13. CASE AbortReversible
  <2>1. /\ pc \in {"staging", "flushed", "marked", "pinned", "deleted"} /\ cur \in Txs
        /\ attempt[cur] # None /\ ~InChain(cur)
        /\ (attempt[cur].number # None => slot = row.id)
    BY <1>13 DEF AbortReversible, TypeInv
  <2>2. /\ pc' = "idle" /\ UNCHANGED <<row, slot, transition, attempt, disk>>
        /\ \A u \in Txs \ {cur} : claim'[u] = claim[u]
    <3>1. \/ claim' = [claim EXCEPT ![cur] = "released"]
          \/ UNCHANGED claim
      BY <1>13 DEF AbortReversible
    <3> QED BY <1>13, <2>1, <3>1 DEF AbortReversible, TypeInv, TypeOK
  <2>3. CommittedNumberHeld'
    BY <2>1, <2>2 DEF CommittedNumberHeld, InChain, Visible
  <2> QED BY <2>1, <2>2, <2>3
<1>14. CASE AbortUnclear \/ RollBackBlank \/ StepFails
  <2>1. CommittedNumberHeld' /\ \A t \in Txs : InChain(t)' => InChain(t)
    BY <1>14, <1>k DEF AbortUnclear, RollBackBlank, StepFails, PublishEntry, Next, Error
  <2> QED BY <1>14, <2>1 DEF AbortUnclear, RollBackBlank, StepFails, PublicationInv, KeyInv
<1>15. CASE Crash
  <2>1. CommittedNumberHeld' /\ \A t \in Txs : InChain(t)' => InChain(t)
    BY <1>15, <1>k DEF Crash, PublishEntry, Next
  <2> QED BY <1>15, <2>1 DEF Crash
<1>16. CASE \E t \in Txs : \/ \E n \in Numbers : FinalizeIncident(t, n)
                           \/ \E orig \in Txs : FinalizeAmendment(t, orig)
                           \/ FinalizeKeyTransition(t)
  BY <1>16, <1>3 DEF FinalizeIncident, FinalizeAmendment, FinalizeKeyTransition, Next, Start
<1> QED
  BY <1>1, <1>2, <1>4, <1>5, <1>6, <1>7, <1>8, <1>9, <1>10, <1>11, <1>12,
     <1>13, <1>14, <1>15, <1>16 DEF Next, Start, Progress, Error

\* A committed incident keeps its number for good: no failure path, recovery
\* or clean-up releases it.
THEOREM NumberKept == Spec => []CommittedNumberHeld
<1>1. Spec => [](TypeInv /\ PublicationInv /\ KeyInv /\ NumberInv)
  BY TypeInvInit, TypeInvNext, PublicationInvInit, PublicationInvNext,
     KeyInvInit, KeyInvNext, NumberInvInit, NumberInvNext, PTL DEF Spec
<1> QED BY <1>1, PTL DEF NumberInv
-----------------------------------------------------------------------------
LEMMA SealedStep ==
    TypeInv /\ PublicationInv /\ KeyInv /\ [Next]_vars =>
        (Sealed /\ transition' # transition => disk[transition][Entry] = "published")
<1> SUFFICES ASSUME TypeInv, PublicationInv, KeyInv, [Next]_vars, Sealed,
                    transition' # transition
             PROVE  disk[transition][Entry] = "published"
  OBVIOUS
<1> USE DEF Sealed
<1>1. CASE BookMarker
  BY <1>1 DEF BookMarker, PublicationInv
<1>2. CASE CommitBlank
  BY <1>2 DEF CommitBlank, PublicationInv
<1>3. CASE RestoreDraft
  BY <1>3 DEF RestoreDraft, DraftOpens, Readable, KeyInv
<1>4. CASE BeginDiscard
  BY <1>4 DEF BeginDiscard
<1> QED
  BY <1>1, <1>2, <1>3, <1>4
     DEF vars, Next, Start, Progress, Error, Save, FinalizeIncident, FinalizeAmendment,
         FinalizeKeyTransition, Begin, Recover, Reconcile, ResumeDiscard, StageObject,
         FlushStaging, PinRevision, DeleteDraftKey, ConfirmKeyAbsent, PublishGrant,
         SyncGrants, PublishEntry, SyncEntry, ConfirmOriginal, WrapBlankKey, ReleaseClaim,
         NothingPending, CompletePrepared, RemoveResidue, Reconciled, DeleteDiscardedKey,
         ConfirmDiscardedKeyAbsent, AbortReversible, AbortUnclear, RollBackBlank,
         StepFails, Crash

\* Behind the boundary the marker is given up only for a durable entry: no
\* error, crash, recovery or discard loses a sealed record.
THEOREM NoSealedRecordLost == Spec => SealedIsKept
<1>1. Spec => [](TypeInv /\ PublicationInv /\ KeyInv)
  BY TypeInvInit, TypeInvNext, PublicationInvInit, PublicationInvNext,
     KeyInvInit, KeyInvNext, PTL DEF Spec
<1> QED BY <1>1, SealedStep, PTL DEF Spec, SealedIsKept

LEMMA FinalStep ==
    ASSUME TypeInv, PublicationInv, [Next]_vars, NEW t \in Txs,
           disk[t][Entry] = "published"
    PROVE  disk'[t] = disk[t]
<1>e. Entry \in Objects /\ Entry \notin Grants /\ Grants \subseteq Objects
  BY DisjointSorts DEF Objects
<1>0. /\ \A o \in Objects : disk[t][o] = "published"
      /\ disk[t] \in [Objects -> ObjectState]
  BY <1>e DEF PublicationInv, GrantsBeforeEntry, InChain, Visible, Objects, TypeInv, TypeOK
<1>x. ASSUME disk'[t] \in [Objects -> ObjectState], \A o \in Objects : disk'[t][o] = "published"
      PROVE  disk'[t] = disk[t]
  BY <1>x, <1>0
<1>i. TypeInv'
  BY TypeInvNext
<1>y. disk'[t] \in [Objects -> ObjectState]
  BY <1>i DEF TypeInv, TypeOK
<1>1. ASSUME NEW o \in Objects, StageObject(o) PROVE disk'[t] = disk[t]
  BY <1>1, <1>e DEF StageObject, PublicationInv, TypeInv, TypeOK, Working
<1>2. CASE FlushStaging
  BY <1>2, <1>e DEF FlushStaging, PublicationInv, TypeInv, TypeOK, Working
<1>3. ASSUME NEW g \in Grants, PublishGrant(g) PROVE disk'[t] = disk[t]
  <2>1. Renamed("published") = "published"
    BY DEF Renamed
  <2> QED BY <1>3, <1>0, <1>x, <1>y, <1>e, <2>1 DEF PublishGrant, TypeInv, TypeOK, Working
<1>4. CASE SyncGrants
  BY <1>4, <1>0, <1>x, <1>y, <1>e DEF SyncGrants, GrantsSynced, TypeInv, TypeOK, Working
<1>5. CASE PublishEntry
  <2>1. Renamed("published") = "published"
    BY DEF Renamed
  <2> QED BY <1>5, <1>0, <1>x, <1>y, <1>e, <2>1 DEF PublishEntry, TypeInv, TypeOK, Working
<1>6. CASE SyncEntry
  BY <1>6, <1>0, <1>x, <1>y, <1>e DEF SyncEntry, TypeInv, TypeOK, Working
<1>7. ASSUME NEW u \in Txs, NEW o \in Objects, RemoveResidue(u, o) PROVE disk'[t] = disk[t]
  <2>1. u # t
    BY <1>7, <1>0, <1>e DEF RemoveResidue, Residue, InChain, Visible
  <2> QED BY <1>7, <2>1 DEF RemoveResidue, TypeInv, TypeOK
<1>8. CASE Crash
  BY <1>8, <1>0, <1>x, <1>y, CrashKeeps
<1>9. CASE UNCHANGED disk
  BY <1>9
<1> QED
  BY <1>1, <1>2, <1>3, <1>4, <1>5, <1>6, <1>7, <1>8, <1>9
     DEF vars, Next, Start, Progress, Error, Save, FinalizeIncident, FinalizeAmendment,
         FinalizeKeyTransition, Begin, Recover, Reconcile, BeginDiscard, ResumeDiscard,
         BookMarker, PinRevision, DeleteDraftKey, ConfirmKeyAbsent, ConfirmOriginal,
         WrapBlankKey, CommitBlank, ReleaseClaim, RestoreDraft, NothingPending,
         CompletePrepared, Reconciled, DeleteDiscardedKey, ConfirmDiscardedKeyAbsent,
         AbortReversible, AbortUnclear, RollBackBlank, StepFails

\* The objects of a durable entry never change again, in particular neither
\* by a repeated publication nor by reconcile_to_completion.
THEOREM PublicationIsFinal == Spec => PublicationFinal
<1>1. Spec => [](TypeInv /\ PublicationInv)
  BY TypeInvInit, TypeInvNext, PublicationInvInit, PublicationInvNext, PTL DEF Spec
<1>2. TypeInv /\ PublicationInv /\ [Next]_vars =>
        [\A t \in Txs : disk[t][Entry] = "published" => disk'[t] = disk[t]]_vars
  BY FinalStep
<1> QED BY <1>1, <1>2, PTL DEF Spec, PublicationFinal
=============================================================================
