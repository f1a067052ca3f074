------------------------- MODULE WriterRecordProofs -------------------------
(***************************************************************************)
(* More about WriterCore, on top of the invariants of WriterCoreProofs: the *)
(* chain, the number register, the confirmed originals, lost keys, the      *)
(* refinement of RecordLifecycle, and the core driven by the desktop        *)
(* program, for constants of any size.                                      *)
(***************************************************************************)
EXTENDS WriterCoreProofs, DesktopWriter, WellFoundedInduction

CoreInv == TypeInv /\ PublicationInv /\ KeyInv /\ NumberInv

LEMMA CoreInvHolds == Spec => []CoreInv
BY TypeInvInit, TypeInvNext, PublicationInvInit, PublicationInvNext,
   KeyInvInit, KeyInvNext, NumberInvInit, NumberInvNext, PTL DEF Spec, CoreInv

\* The step starts a finalization as attempt t.
Begins(t) == \E n \in Numbers \cup {None}, orig \in Txs \cup {None} : Begin(t, n, orig)

\* Attempts are made by Begin alone, and not changed afterwards.
LEMMA AttemptStep ==
    ASSUME CoreInv, [Next]_vars
    PROVE  \/ UNCHANGED attempt
           \/ \E t \in Txs : /\ Begins(t) /\ attempt[t] = None
                             /\ attempt'[t] # None /\ attempt'[t].draft = row.id
                             /\ attempt'[t].rev = row.rev
                             /\ attempt'[t].seq \in NextSeqs
                             /\ \A u \in Txs \ {t} : attempt'[u] = attempt[u]
<1>1. ASSUME NEW t \in Txs, NEW n \in Numbers \cup {None}, NEW orig \in Txs \cup {None},
             Begin(t, n, orig)
      PROVE  /\ Begins(t) /\ attempt[t] = None
             /\ attempt'[t] # None /\ attempt'[t].draft = row.id
             /\ attempt'[t].rev = row.rev /\ attempt'[t].seq \in NextSeqs
             /\ \A u \in Txs \ {t} : attempt'[u] = attempt[u]
  <2>1. PICK s \in NextSeqs : attempt' = [attempt EXCEPT ![t] =
              [draft |-> row.id, rev |-> row.rev, number |-> n, orig |-> orig, seq |-> s]]
    BY <1>1 DEF Begin
  <2>2. attempt'[t] # None
    BY <1>1, BeginTyped DEF CoreInv
  <2>3. DOMAIN attempt = Txs
    BY DEF CoreInv, TypeInv, TypeOK
  <2>4. Begins(t) /\ attempt[t] = None
    BY <1>1 DEF Begins, Begin
  <2> QED BY <2>1, <2>2, <2>3, <2>4
<1>2. CASE \E t \in Txs : \/ \E n \in Numbers : FinalizeIncident(t, n)
                          \/ \E orig \in Txs : FinalizeAmendment(t, orig)
                          \/ FinalizeKeyTransition(t)
  <2>1. \E t \in Txs, n \in Numbers \cup {None}, orig \in Txs \cup {None} : Begin(t, n, orig)
    BY <1>2 DEF FinalizeIncident, FinalizeAmendment, FinalizeKeyTransition
  <2> QED BY <1>1, <2>1
<1> QED
  BY <1>2
     DEF vars, Next, Start, Progress, Error, Save, Recover, Reconcile, BeginDiscard,
         ResumeDiscard, StageObject, FlushStaging, BookMarker, PinRevision,
         DeleteDraftKey, ConfirmKeyAbsent, PublishGrant, SyncGrants, PublishEntry,
         SyncEntry, ConfirmOriginal, WrapBlankKey, CommitBlank, ReleaseClaim,
         RestoreDraft, NothingPending, CompletePrepared, RemoveResidue, Reconciled,
         DeleteDiscardedKey, ConfirmDiscardedKeyAbsent, AbortReversible, AbortUnclear,
         RollBackBlank, StepFails, Crash

\* What a step does to an entry object.
LEMMA EntryStep ==
    ASSUME CoreInv, [Next]_vars, NEW t \in Txs
    PROVE  \/ disk'[t][Entry] = disk[t][Entry]
           \/ ~InChain(t) /\ ~InChain(t)'
           \/ PublishEntry /\ t = cur /\ disk'[t][Entry] \in {"publishedV", "published"}
           \/ SyncEntry /\ t = cur /\ InChain(t) /\ disk'[t][Entry] = "published"
           \/ Crash /\ disk[t][Entry] = "publishedV"
                    /\ disk'[t][Entry] \in {"staged", "published"}
<1>e. Entry \in Objects /\ Entry \notin Grants /\ Grants \subseteq Objects
  BY DisjointSorts DEF Objects
<1> USE DEF CoreInv
<1>0. disk \in [Txs -> [Objects -> ObjectState]] /\ disk[t][Entry] \in ObjectState
  BY <1>e DEF TypeInv, TypeOK
<1>1. ASSUME NEW o \in Objects, StageObject(o)
      PROVE  disk'[t][Entry] = disk[t][Entry] \/ (~InChain(t) /\ ~InChain(t)')
  BY <1>0, <1>1, <1>e DEF StageObject, InChain, Visible
<1>2. CASE FlushStaging
  BY <1>0, <1>2, <1>e DEF FlushStaging, AllFlushed, InChain, Visible
<1>3. ASSUME NEW g \in Grants, PublishGrant(g) PROVE disk'[t][Entry] = disk[t][Entry]
  BY <1>0, <1>3, <1>e DEF PublishGrant
<1>4. CASE SyncGrants
  BY <1>0, <1>4, <1>e DEF SyncGrants, GrantsSynced
<1>5. CASE PublishEntry
  <2>1. CASE t # cur
    BY <1>0, <1>5, <2>1 DEF PublishEntry
  <2>2. CASE t = cur
    <3>1. disk'[t][Entry] = Renamed(disk[t][Entry]) /\ disk[t][Entry] # "absent"
      BY <1>0, <1>5, <1>e, <2>2 DEF PublishEntry, Publishable
    <3> QED BY <1>0, <1>5, <2>2, <3>1, RenamedTyped
  <2> QED BY <2>1, <2>2
<1>6. CASE SyncEntry
  BY <1>0, <1>6, <1>e DEF SyncEntry, PublicationInv
<1>7. ASSUME NEW u \in Txs, NEW o \in Objects, RemoveResidue(u, o)
      PROVE  disk'[t][Entry] = disk[t][Entry] \/ (~InChain(t) /\ ~InChain(t)')
  BY <1>0, <1>7, <1>e DEF RemoveResidue, Residue, InChain, Visible
<1>8. CASE Crash
  <2>1. /\ disk[t][Entry] = "published" => disk'[t][Entry] = "published"
        /\ disk[t][Entry] = "publishedV" => disk'[t][Entry] \in {"staged", "published"}
    BY <1>8, <1>e, CrashKeeps
  <2>2. InChain(t)' => InChain(t)
    BY <1>8, CrashInChain
  <2> QED BY <1>8, <2>1, <2>2 DEF InChain, Visible
<1>9. CASE UNCHANGED disk
  BY <1>9
<1> QED
  BY <1>1, <1>2, <1>3, <1>4, <1>5, <1>6, <1>7, <1>8, <1>9
     DEF vars, Next, Start, Progress, Error, Save, FinalizeIncident, FinalizeAmendment,
         FinalizeKeyTransition, Begin, Recover, Reconcile, BeginDiscard, ResumeDiscard,
         BookMarker, PinRevision, DeleteDraftKey, ConfirmKeyAbsent, ConfirmOriginal,
         WrapBlankKey, CommitBlank, ReleaseClaim, RestoreDraft, NothingPending,
         CompletePrepared, Reconciled, DeleteDiscardedKey, ConfirmDiscardedKeyAbsent,
         AbortReversible, AbortUnclear, RollBackBlank, StepFails

\* What a step does to the transition row.
LEMMA TransitionStep ==
    ASSUME [Next]_vars
    PROVE  UNCHANGED transition \/ BookMarker \/ CommitBlank \/ RestoreDraft \/ BeginDiscard
BY DEF vars, Next, Start, Progress, Error, Save, FinalizeIncident, FinalizeAmendment,
       FinalizeKeyTransition, Begin, Recover, Reconcile, ResumeDiscard, StageObject,
       FlushStaging, PinRevision, DeleteDraftKey, ConfirmKeyAbsent, PublishGrant,
       SyncGrants, PublishEntry, SyncEntry, ConfirmOriginal, WrapBlankKey, ReleaseClaim,
       NothingPending, CompletePrepared, RemoveResidue, Reconciled, DeleteDiscardedKey,
       ConfirmDiscardedKeyAbsent, AbortReversible, AbortUnclear, RollBackBlank,
       StepFails, Crash

\* What a step does to the slot.
LEMMA SlotStep ==
    ASSUME [Next]_vars
    PROVE  \/ UNCHANGED slot
           \/ slot' = None /\ (DeleteDraftKey \/ AbortUnclear \/ RollBackBlank
                                \/ DeleteDiscardedKey \/ (StepFails /\ pc = "discarding"))
           \/ \E d \in Drafts : WrapBlankKey(d)
BY DEF vars, Next, Start, Progress, Error, Save, FinalizeIncident, FinalizeAmendment,
       FinalizeKeyTransition, Begin, Recover, Reconcile, BeginDiscard, ResumeDiscard,
       StageObject, FlushStaging, BookMarker, PinRevision, DeleteDraftKey,
       ConfirmKeyAbsent, PublishGrant, SyncGrants, PublishEntry, SyncEntry,
       ConfirmOriginal, CommitBlank, ReleaseClaim, RestoreDraft, NothingPending,
       CompletePrepared, RemoveResidue, Reconciled, DeleteDiscardedKey,
       ConfirmDiscardedKeyAbsent, AbortReversible, AbortUnclear, RollBackBlank,
       StepFails, Crash

\* What a step does to the draft row.
LEMMA RowStep ==
    ASSUME CoreInv, [Next]_vars
    PROVE  \/ UNCHANGED row
           \/ (Save \/ PinRevision) /\ row'.id = row.id /\ row'.rev = row.rev + 1
           \/ CommitBlank /\ row'.id = slot /\ row'.rev = 0
<1>1. CASE Save \/ PinRevision
  BY <1>1 DEF Save, PinRevision, CoreInv, TypeInv, TypeOK
<1>2. CASE CommitBlank
  BY <1>2 DEF CommitBlank
<1> QED
  BY <1>1, <1>2
     DEF vars, Next, Start, Progress, Error, FinalizeIncident, FinalizeAmendment,
         FinalizeKeyTransition, Begin, Recover, Reconcile, BeginDiscard, ResumeDiscard,
         StageObject, FlushStaging, BookMarker, DeleteDraftKey, ConfirmKeyAbsent,
         PublishGrant, SyncGrants, PublishEntry, SyncEntry, ConfirmOriginal,
         WrapBlankKey, ReleaseClaim, RestoreDraft, NothingPending, CompletePrepared,
         RemoveResidue, Reconciled, DeleteDiscardedKey, ConfirmDiscardedKeyAbsent,
         AbortReversible, AbortUnclear, RollBackBlank, StepFails, Crash

-----------------------------------------------------------------------------
\* The number register.

\* A claim is made with a number nobody holds; every other step only releases.
LEMMA ClaimStep ==
    ASSUME CoreInv, [Next]_vars
    PROVE  \/ \A t \in Txs : claim'[t] = "held" => claim[t] = "held"
           \/ \E t \in Txs, n \in Numbers :
                /\ FinalizeIncident(t, n)
                /\ \A u \in Txs \ {t} : claim'[u] = claim[u]
<1>0. claim \in [Txs -> {"none", "held", "released"}]
  BY DEF CoreInv, TypeInv, TypeOK
<1>1. ASSUME NEW t \in Txs, NEW n \in Numbers, FinalizeIncident(t, n)
      PROVE  \A u \in Txs \ {t} : claim'[u] = claim[u]
  BY <1>0, <1>1 DEF FinalizeIncident
<1>2. ASSUME NEW t \in Txs, ReleaseClaim(t)
      PROVE  \A u \in Txs : claim'[u] = "held" => claim[u] = "held"
  BY <1>0, <1>2 DEF ReleaseClaim
<1>3. CASE AbortReversible
  <2>1. claim' = [claim EXCEPT ![cur] = "released"] \/ UNCHANGED claim
    BY <1>3 DEF AbortReversible
  <2> QED BY <1>0, <2>1
<1>4. CASE UNCHANGED claim
  BY <1>4
<1> QED
  BY <1>1, <1>2, <1>3, <1>4
     DEF vars, Next, Start, Progress, Error, Save, FinalizeAmendment,
         FinalizeKeyTransition, Begin, Recover, Reconcile, BeginDiscard, ResumeDiscard,
         StageObject, FlushStaging, BookMarker, PinRevision, DeleteDraftKey,
         ConfirmKeyAbsent, PublishGrant, SyncGrants, PublishEntry, SyncEntry,
         ConfirmOriginal, WrapBlankKey, CommitBlank, RestoreDraft, NothingPending,
         CompletePrepared, RemoveResidue, Reconciled, DeleteDiscardedKey,
         ConfirmDiscardedKeyAbsent, AbortUnclear, RollBackBlank, StepFails, Crash

LEMMA RegisterNext ==
    ASSUME CoreInv, NumberClaimedOnce, [Next]_vars PROVE NumberClaimedOnce'
<1>1. \A t \in Txs : claim[t] = "held" => attempt[t] # None
  BY DEF CoreInv, NumberInv
<1>2. \A t \in Txs : attempt[t] # None => attempt'[t] = attempt[t]
  BY AttemptStep
<1>3. CASE \A t \in Txs : claim'[t] = "held" => claim[t] = "held"
  BY <1>1, <1>2, <1>3 DEF NumberClaimedOnce
<1>4. ASSUME NEW t \in Txs, NEW n \in Numbers, FinalizeIncident(t, n),
             \A u \in Txs \ {t} : claim'[u] = claim[u]
      PROVE  NumberClaimedOnce'
  <2>1. attempt'[t].number = n
    BY <1>4 DEF FinalizeIncident, Begin, CoreInv, TypeInv, TypeOK
  <2>2. \A u \in Txs \ {t} : claim'[u] = "held" =>
            /\ claim[u] = "held" /\ attempt'[u] = attempt[u]
            /\ attempt[u].number # n
    BY <1>1, <1>2, <1>4 DEF FinalizeIncident, Taken
  <2> QED BY <2>1, <2>2 DEF NumberClaimedOnce
<1> QED BY <1>3, <1>4, ClaimStep

\* Two unreleased claims never name the same number (original_source.rs).
THEOREM NumbersClaimedOnce == Spec => []NumberClaimedOnce
<1>1. Init => NumberClaimedOnce
  BY DEF Init, NumberClaimedOnce
<1>2. CoreInv /\ NumberClaimedOnce /\ [Next]_vars => NumberClaimedOnce'
  BY RegisterNext
<1> QED BY <1>1, <1>2, CoreInvHolds, PTL DEF Spec

-----------------------------------------------------------------------------
\* Lost keys.

\* A draft is given up only behind a transition row that says so.
LossInv ==
    /\ LossExplained
    /\ pc \in {"discarding", "discardDeleted", "blank", "wrapped"} => transition # None

\* How the replacement of a draft begins and goes on.
LEMMA ReplacingStep ==
    ASSUME [Next]_vars, pc' \in {"discarding", "discardDeleted", "blank", "wrapped"}
    PROVE  \/ UNCHANGED pc
           \/ BeginDiscard \/ ResumeDiscard \/ DeleteDiscardedKey
           \/ ConfirmDiscardedKeyAbsent \/ ConfirmOriginal
           \/ \E d \in Drafts : WrapBlankKey(d)
BY DEF vars, Next, Start, Progress, Error, Save, FinalizeIncident, FinalizeAmendment,
       FinalizeKeyTransition, Begin, Recover, Reconcile, StageObject, FlushStaging,
       BookMarker, PinRevision, DeleteDraftKey, ConfirmKeyAbsent, PublishGrant,
       SyncGrants, PublishEntry, SyncEntry, CommitBlank, ReleaseClaim, RestoreDraft,
       NothingPending, CompletePrepared, RemoveResidue, Reconciled, AbortReversible,
       AbortUnclear, RollBackBlank, StepFails, Crash, Stop

LEMMA LossNext ==
    ASSUME CoreInv, LossInv, [Next]_vars PROVE LossInv'
<1> USE DisjointSorts DEF CoreInv, LossInv, LossExplained, Readable, Stop
<1>1. CASE BookMarker
  BY <1>1 DEF BookMarker, TypeInv, Working
<1>2. CASE CommitBlank
  BY <1>2 DEF CommitBlank
<1>3. CASE RestoreDraft
  BY <1>3 DEF RestoreDraft, DraftOpens
<1>4. CASE BeginDiscard
  BY <1>4 DEF BeginDiscard, Intent, TypeInv, TypeOK
<1>5. CASE UNCHANGED transition
  <2>1. transition = None =>
            pc' \notin {"discarding", "discardDeleted", "blank", "wrapped"}
    <3>1. CASE BeginDiscard
      BY <1>5, <3>1 DEF BeginDiscard, Intent, TypeInv, TypeOK
    <3>2. CASE ResumeDiscard
      BY <1>5, <3>2 DEF ResumeDiscard, TypeInv, TypeOK
    <3>3. CASE ConfirmOriginal
      BY <1>5, <3>3 DEF ConfirmOriginal, PublicationInv, TypeInv, Working
    <3> QED BY <1>5, <3>1, <3>2, <3>3, ReplacingStep
         DEF DeleteDiscardedKey, ConfirmDiscardedKeyAbsent, WrapBlankKey
  <2>2. transition = None => slot' = slot /\ row'.id = row.id /\ pc # "wrapped"
    <3>1. transition = None => ~CommitBlank
      BY DEF CommitBlank
    <3>2. transition = None => UNCHANGED slot
      BY SlotStep DEF DeleteDraftKey, AbortUnclear, RollBackBlank, DeleteDiscardedKey,
           StepFails, WrapBlankKey, PublicationInv, TypeInv, Working
    <3> QED BY <3>1, <3>2, RowStep
  <2> QED BY <1>5, <2>1, <2>2
<1> QED BY <1>1, <1>2, <1>3, <1>4, <1>5, TransitionStep

\* A draft that does not decrypt is always explained by a transition row, so
\* a restart has a path out of it (resume_after_restart, recover_pending).
THEOREM LossAlwaysExplained == Spec => []LossExplained
<1>1. Init => LossInv
  BY DEF Init, LossInv, LossExplained, Readable
<1>2. CoreInv /\ LossInv /\ [Next]_vars => LossInv'
  BY LossNext
<1>3. LossInv => LossExplained
  BY DEF LossInv
<1> QED BY <1>1, <1>2, <1>3, CoreInvHolds, PTL DEF Spec

-----------------------------------------------------------------------------
\* Numbers given back.

\* The revision of a draft only grows, and a blank draft is a new one.
RevisionInv ==
    /\ \A t \in Txs : attempt[t] # None /\ attempt[t].draft = row.id
                         => attempt[t].rev <= row.rev
    /\ pc = "wrapped" => \A t \in Txs : attempt[t] # None => attempt[t].draft # slot

LEMMA RevisionNext ==
    ASSUME CoreInv, RevisionInv, [Next]_vars PROVE RevisionInv'
<1> USE DEF CoreInv, RevisionInv
<1>0. row.rev \in Nat /\ \A t \in Txs : attempt[t] # None => attempt[t].rev \in Nat
  BY AttemptFields DEF TypeInv, TypeOK
<1>1. CASE UNCHANGED attempt
  <2>1. ASSUME NEW t \in Txs, attempt[t] # None, attempt[t].draft = row'.id
        PROVE  attempt[t].rev <= row'.rev
    <3>1. CASE UNCHANGED row
      BY <2>1, <3>1
    <3>2. CASE row'.id = row.id /\ row'.rev = row.rev + 1
      BY <1>0, <2>1, <3>2
    <3>3. CASE CommitBlank /\ row'.id = slot
      BY <2>1, <3>3 DEF CommitBlank
    <3> QED BY <3>1, <3>2, <3>3, RowStep
  <2>2. ASSUME pc' = "wrapped", NEW t \in Txs, attempt[t] # None
        PROVE  attempt[t].draft # slot'
    <3>1. ASSUME NEW d \in Drafts, WrapBlankKey(d) PROVE attempt[t].draft # slot'
      BY <2>2, <3>1 DEF WrapBlankKey, FreshDraft
    <3>2. CASE UNCHANGED pc
      <4>1. UNCHANGED slot \/ \E d \in Drafts : WrapBlankKey(d)
        BY <2>2, SlotStep DEF DeleteDraftKey, AbortUnclear, RollBackBlank,
             DeleteDiscardedKey, StepFails, Stop
      <4> QED BY <2>2, <3>1, <3>2, <4>1
    <3> QED BY <2>2, <3>1, <3>2, ReplacingStep
         DEF BeginDiscard, ResumeDiscard, DeleteDiscardedKey,
             ConfirmDiscardedKeyAbsent, ConfirmOriginal
  <2> QED BY <1>1, <2>1, <2>2
<1>2. ASSUME NEW t \in Txs, Begins(t), attempt'[t].rev = row.rev,
             \A u \in Txs \ {t} : attempt'[u] = attempt[u]
      PROVE  RevisionInv'
  <2>1. pc' = "staging" /\ UNCHANGED row
    BY <1>2 DEF Begins, Begin
  <2> QED BY <1>0, <1>2, <2>1
<1> QED BY <1>1, <1>2, AttemptStep

LEMMA RevisionHolds == Spec => []RevisionInv
<1>1. Init => RevisionInv
  BY DEF Init, RevisionInv
<1>2. CoreInv /\ RevisionInv /\ [Next]_vars => RevisionInv'
  BY RevisionNext
<1> QED BY <1>1, <1>2, CoreInvHolds, PTL DEF Spec

\* A recovery that hands the draft back leaves it no claim it cannot use: the
\* pinned revision of step 9 does not hide one (recover_original_claims).
THEOREM RestoredNumbersAlwaysFree == Spec => RestoredNumbersFree
<1>1. RevisionInv =>
          [RestoreDraft => \A t \in Txs :
              attempt[t] # None /\ attempt[t].draft = row.id => claim[t] # "held"]_vars
  BY DEF RevisionInv, RestoreDraft, Releasable
<1> QED BY <1>1, RevisionHolds, PTL DEF Spec, RestoredNumbersFree

-----------------------------------------------------------------------------
\* Confirmed originals.

\* An entry that is not flushed yet still has its marker, and the marker goes
\* only after the confirmation.
ConfirmedInv ==
    /\ OriginalConfirmed
    /\ \A t \in Txs : disk[t][Entry] = "publishedV" => transition = t
    /\ (pc \in {"blank", "wrapped"} /\ transition \in Txs
           /\ attempt[transition].number # None) => transition \in confirmed

\* The marker of a visible entry is cleared by the blank draft's transaction.
LEMMA MarkerKept ==
    ASSUME CoreInv, [Next]_vars, transition \in Txs, InChain(transition),
           transition' # transition
    PROVE  CommitBlank /\ disk[transition][Entry] = "published"
<1> USE DEF CoreInv
<1>1. ~BookMarker
  BY DEF BookMarker, PublicationInv
<1>2. ~BeginDiscard
  BY DEF BeginDiscard
<1>3. ~RestoreDraft
  BY DEF RestoreDraft, DraftOpens, Readable, KeyInv, CommittedKeyGone
<1>4. CommitBlank
  BY <1>1, <1>2, <1>3, TransitionStep
<1> QED BY <1>4 DEF CommitBlank, PublicationInv

LEMMA ConfirmedGrows == [Next]_vars => confirmed \subseteq confirmed'
<1>1. ConfirmOriginal => confirmed \subseteq confirmed'
  BY DEF ConfirmOriginal
<1> QED
  BY <1>1
     DEF vars, Next, Start, Progress, Error, Save, FinalizeIncident, FinalizeAmendment,
       FinalizeKeyTransition, Begin, Recover, Reconcile, BeginDiscard, ResumeDiscard,
       StageObject, FlushStaging, BookMarker, PinRevision, DeleteDraftKey,
       ConfirmKeyAbsent, PublishGrant, SyncGrants, PublishEntry, SyncEntry,
       WrapBlankKey, CommitBlank, ReleaseClaim, RestoreDraft, NothingPending,
       CompletePrepared, RemoveResidue, Reconciled, DeleteDiscardedKey,
       ConfirmDiscardedKeyAbsent, AbortReversible, AbortUnclear, RollBackBlank,
       StepFails, Crash

\* A visible entry belongs to an attempt, which stays as it is.
LEMMA VisibleAttempt ==
    ASSUME CoreInv, [Next]_vars, NEW t \in Txs, InChain(t)
    PROVE  attempt[t] # None /\ attempt'[t] = attempt[t]
<1>1. attempt[t] # None
  BY DEF CoreInv, TypeInv, InChain, Visible, Objects
<1> QED BY <1>1, AttemptStep

\* Publication runs under its marker.
LEMMA PublishesMarker ==
    ASSUME CoreInv, PublishEntry \/ SyncEntry
    PROVE  cur \in Txs /\ transition = cur /\ UNCHANGED <<transition, attempt>>
BY DEF PublishEntry, SyncEntry, CoreInv, PublicationInv, TypeInv, Working

LEMMA ConfirmedNext ==
    ASSUME CoreInv, ConfirmedInv, [Next]_vars PROVE ConfirmedInv'
<1> USE DEF ConfirmedInv
<1>1. ASSUME NEW t \in Txs, disk'[t][Entry] = "publishedV" PROVE transition' = t
  <2>1. CASE disk[t][Entry] = "publishedV"
    <3>1. transition = t /\ InChain(t)
      BY <2>1 DEF InChain, Visible
    <3> QED BY <2>1, <3>1, MarkerKept
  <2>2. CASE PublishEntry /\ t = cur
    BY <2>2, PublishesMarker
  <2>3. CASE SyncEntry /\ disk'[t][Entry] = "published"
    BY <1>1, <2>3
  <2> QED BY <1>1, <2>1, <2>2, <2>3, EntryStep DEF InChain, Visible
<1>2. ASSUME NEW t \in Txs, disk'[t][Entry] = "published", attempt'[t].number # None,
             transition' # t
      PROVE  t \in confirmed'
  <2>1. CASE disk[t][Entry] = "published"
    <3>1. InChain(t) /\ attempt'[t] = attempt[t]
      BY <2>1, VisibleAttempt DEF InChain, Visible
    <3>2. CASE transition # t
      BY <1>2, <2>1, <3>1, <3>2, ConfirmedGrows DEF OriginalConfirmed
    <3>3. CASE transition = t
      <4>1. CommitBlank
        BY <1>2, <3>1, <3>3, MarkerKept
      <4> QED BY <1>2, <3>1, <3>3, <4>1, ConfirmedGrows DEF CommitBlank
    <3> QED BY <3>2, <3>3
  <2>2. CASE (PublishEntry \/ SyncEntry) /\ t = cur
    BY <1>2, <2>2, PublishesMarker
  <2>3. CASE Crash /\ disk[t][Entry] = "publishedV"
    BY <1>2, <2>3 DEF Crash
  <2> QED BY <1>2, <2>1, <2>2, <2>3, EntryStep DEF InChain, Visible
<1>3. ASSUME pc' \in {"blank", "wrapped"}, transition' \in Txs,
             attempt'[transition'].number # None
      PROVE  transition' \in confirmed'
  <2>1. UNCHANGED transition
    BY <1>3, TransitionStep, DisjointSorts
       DEF BookMarker, CommitBlank, RestoreDraft, BeginDiscard, Stop
  <2>2. attempt[transition] # None /\ attempt'[transition] = attempt[transition]
    BY <1>3, <2>1, AttemptStep DEF CoreInv, TypeInv
  <2>3. CASE pc \in {"blank", "wrapped"}
    BY <1>3, <2>1, <2>2, <2>3, ConfirmedGrows
  <2>4. CASE ConfirmOriginal
    <3>1. transition = cur
      BY <2>4 DEF ConfirmOriginal, CoreInv, PublicationInv
    <3> QED BY <1>3, <2>1, <2>2, <2>4, <3>1 DEF ConfirmOriginal, IdentityRow
  <2>5. CASE ConfirmDiscardedKeyAbsent
    BY <1>3, <2>1, <2>5 DEF ConfirmDiscardedKeyAbsent, CoreInv, PublicationInv
  <2> QED BY <1>3, <2>3, <2>4, <2>5, ReplacingStep
       DEF BeginDiscard, ResumeDiscard, DeleteDiscardedKey, WrapBlankKey
<1>4. OriginalConfirmed'
  BY <1>2 DEF OriginalConfirmed
<1> QED BY <1>1, <1>3, <1>4

\* An incident whose entry is durable and whose marker is cleared is confirmed
\* in writer_original_published: no crash or error skips it.
THEOREM OriginalsAlwaysConfirmed == Spec => []OriginalConfirmed
<1>1. Init => ConfirmedInv
  BY DEF Init, ConfirmedInv, OriginalConfirmed, Objects
<1>2. CoreInv /\ ConfirmedInv /\ [Next]_vars => ConfirmedInv'
  BY ConfirmedNext
<1>3. ConfirmedInv => OriginalConfirmed
  BY DEF ConfirmedInv
<1> QED BY <1>1, <1>2, <1>3, CoreInvHolds, PTL DEF Spec

-----------------------------------------------------------------------------
\* The chain.

\* The attempt that can still commit; its sequence is the next one.
Live(t) == transition = t \/ (pc \in {"staging", "flushed"} /\ cur = t)
Ahead(t) ==
    /\ \A u \in Txs \ {t} : InChain(u) => attempt[u].seq < attempt[t].seq
    /\ \/ attempt[t].seq = 0
       \/ \E u \in Txs : InChain(u) /\ attempt[u].seq + 1 = attempt[t].seq

ChainInv ==
    /\ ConfirmedInv
    /\ ChainLinear
    /\ \A t \in Txs : Live(t) => Ahead(t)

\* In a linear chain the next sequence is above every other: below the lowest
\* one from s on there is a predecessor, unless that one is s itself.
LEMMA NextIsAhead ==
    ASSUME CoreInv, ChainLinear, NEW s \in NextSeqs
    PROVE  /\ s \in Nat
           /\ \A u \in Txs : InChain(u) => attempt[u].seq < s
           /\ s = 0 \/ \E u \in Txs : InChain(u) /\ attempt[u].seq + 1 = s
<1> DEFINE Less == OpToRel(<, Nat)
           Above == {r \in Nat : r >= s /\ \E u \in Txs : InChain(u) /\ attempt[u].seq = r}
<1>1. s \in Nat
  BY NextSeqsNat DEF CoreInv
<1>2. \A u \in Txs : InChain(u) => attempt[u].seq \in Nat
  BY AttemptFields DEF CoreInv, TypeInv, InChain, Visible, Objects
<1>3. s = 0 \/ \E u \in Txs : InChain(u) /\ attempt[u].seq + 1 = s
  BY DEF NextSeqs, ChainNodes
<1>4. \A u \in Txs : InChain(u) => attempt[u].seq < s
  <2> SUFFICES ASSUME NEW u \in Txs, InChain(u), ~(attempt[u].seq < s) PROVE FALSE
    OBVIOUS
  <2>1. Above \in SUBSET Nat /\ Above # {}
    <3>1. attempt[u].seq \in Above
      BY <1>1, <1>2
    <3> QED BY <3>1
  <2>2. IsWellFoundedOn(Less, Nat)
    BY NatLessThanWellFounded
  <2>3. PICK m \in Above : \A r \in Above : <<r, m>> \notin Less
    <3> HIDE DEF Above
    <3> QED BY <2>1, <2>2, WFMin
  <2>4. PICK v \in Txs : InChain(v) /\ attempt[v].seq = m
    OBVIOUS
  <2>5. CASE m = s
    <3>1. OneNodeAt(s)
      BY <2>4, <2>5 DEF OneNodeAt, ChainNodes, ChainLinear
    <3> QED BY <3>1 DEF NextSeqs
  <2>6. CASE m # s
    <3>1. m \in Nat /\ m - 1 \in Nat /\ m - 1 >= s /\ m - 1 < m
      BY <1>1, <2>6
    <3>2. PICK w \in Txs : InChain(w) /\ attempt[w].seq + 1 = m
      BY <1>1, <2>4, <3>1 DEF ChainLinear
    <3>3. attempt[w].seq = m - 1
      BY <1>2, <3>1, <3>2
    <3>4. m - 1 \in Above /\ <<m - 1, m>> \in Less
      BY <3>1, <3>2, <3>3 DEF OpToRel
    <3> QED BY <2>3, <3>4
  <2> QED BY <2>5, <2>6
<1> QED BY <1>1, <1>3, <1>4

\* An attempt becomes live by being begun.
LEMMA LiveStep ==
    ASSUME CoreInv, [Next]_vars, NEW t \in Txs, Live(t)', ~Begins(t)
    PROVE  Live(t)
<1>1. CASE transition' = t
  BY <1>1, TransitionStep, DisjointSorts
     DEF Live, BookMarker, CommitBlank, RestoreDraft, BeginDiscard, Intent, CoreInv,
         TypeInv, TypeOK
<1>2. CASE pc' \in {"staging", "flushed"} /\ cur' = t
  <2>1. \/ pc \in {"staging", "flushed"} /\ cur' = cur
        \/ \E u \in Txs, n \in Numbers \cup {None}, orig \in Txs \cup {None} :
              Begin(u, n, orig)
    BY <1>2 DEF vars, Next, Start, Progress, Error, Save, FinalizeIncident,
       FinalizeAmendment, FinalizeKeyTransition, Recover, Reconcile, BeginDiscard,
       ResumeDiscard, StageObject, FlushStaging, BookMarker, PinRevision,
       DeleteDraftKey, ConfirmKeyAbsent, PublishGrant, SyncGrants, PublishEntry,
       SyncEntry, ConfirmOriginal, WrapBlankKey, CommitBlank, ReleaseClaim,
       RestoreDraft, NothingPending, CompletePrepared, RemoveResidue, Reconciled,
       DeleteDiscardedKey, ConfirmDiscardedKeyAbsent, AbortReversible, AbortUnclear,
       RollBackBlank, StepFails, Crash, Stop
  <2> QED BY <1>2, <2>1 DEF Live, Begins, Begin
<1> QED BY <1>1, <1>2 DEF Live

\* Beside the marker's, no entry appears or disappears.
LEMMA ChainStep ==
    ASSUME CoreInv, ConfirmedInv, [Next]_vars, NEW u \in Txs, u # transition
    PROVE  InChain(u)' <=> InChain(u)
<1>1. CASE (PublishEntry \/ SyncEntry) /\ u = cur
  BY <1>1, PublishesMarker
<1>2. CASE Crash /\ disk[u][Entry] = "publishedV"
  BY <1>2 DEF ConfirmedInv
<1> QED BY <1>1, <1>2, EntryStep DEF InChain, Visible

LEMMA ChainNext ==
    ASSUME CoreInv, ChainInv, [Next]_vars PROVE ChainInv'
<1> USE DEF ChainInv
<1>0. ConfirmedInv'
  BY ConfirmedNext
<1>n. \A u \in Txs : attempt[u] # None => attempt[u].seq \in Nat
  BY AttemptFields DEF CoreInv, TypeInv
<1>c. \A u \in Txs : InChain(u) => attempt[u] # None /\ attempt'[u] = attempt[u]
  BY VisibleAttempt
<1>1. ASSUME NEW t \in Txs, Begins(t), attempt[t] = None, attempt'[t].seq \in NextSeqs,
             \A u \in Txs \ {t} : attempt'[u] = attempt[u]
      PROVE  ChainInv'
  <2>1. /\ UNCHANGED <<disk, transition>> /\ transition \notin Txs
        /\ pc' = "staging" /\ cur' = t
    BY <1>1 DEF Begins, Begin
  <2>2. \A u \in Txs : InChain(u)' <=> InChain(u)
    BY <2>1 DEF InChain, Visible
  <2>3. ~InChain(t)
    BY <1>1, <1>c
  <2>4. ChainLinear'
    BY <1>c, <2>2 DEF ChainLinear
  <2>5. Ahead(t)'
    BY <1>1, <1>c, <2>2, NextIsAhead DEF Ahead
  <2>6. \A u \in Txs : Live(u)' => u = t
    BY <2>1 DEF Live
  <2> QED BY <1>0, <2>4, <2>5, <2>6
<1>2. CASE UNCHANGED attempt
  <2>1. \A u \in Txs : u # transition => (InChain(u)' <=> InChain(u))
    BY ChainStep
  <2>2. transition \in Txs => Ahead(transition) /\ attempt[transition].seq \in Nat
    BY <1>n DEF Live, CoreInv, TypeInv
  <2>3. \A u \in Txs : InChain(u) => attempt[u].seq \in Nat
    BY <1>n, <1>c
  <2>4. ChainLinear'
    <3>1. ASSUME NEW t \in Txs, NEW u \in Txs \ {t}, InChain(t)', InChain(u)'
          PROVE  attempt[u].seq # attempt[t].seq
      <4>1. CASE t # transition /\ u # transition
        BY <2>1, <3>1, <4>1 DEF ChainLinear
      <4>2. CASE t = transition
        BY <2>1, <2>2, <2>3, <3>1, <4>2 DEF Ahead
      <4>3. CASE u = transition
        BY <2>1, <2>2, <2>3, <3>1, <4>3 DEF Ahead
      <4> QED BY <4>1, <4>2, <4>3
    <3>2. ASSUME NEW t \in Txs, InChain(t)', attempt[t].seq # 0
          PROVE  \E u \in Txs : InChain(u)' /\ attempt[u].seq + 1 = attempt[t].seq
      <4>1. CASE t # transition
        <5>1. InChain(t)
          BY <2>1, <3>2, <4>1
        <5>2. PICK u \in Txs : InChain(u) /\ attempt[u].seq + 1 = attempt[t].seq
          BY <3>2, <5>1 DEF ChainLinear
        <5>3. u # transition
          BY <2>2, <2>3, <4>1, <5>1, <5>2 DEF Ahead
        <5> QED BY <2>1, <5>2, <5>3
      <4>2. CASE t = transition
        <5>1. PICK u \in Txs : InChain(u) /\ attempt[u].seq + 1 = attempt[t].seq
          BY <2>2, <3>2, <4>2 DEF Ahead
        <5>2. u # transition
          BY <2>2, <4>2, <5>1
        <5> QED BY <2>1, <5>1, <5>2
      <4> QED BY <4>1, <4>2
    <3> QED BY <1>2, <3>1, <3>2 DEF ChainLinear
  <2>5. ASSUME NEW t \in Txs, Live(t)' PROVE Ahead(t)'
    <3>1. ~Begins(t)
      <4>1. ASSUME Begins(t) PROVE FALSE
        <5>1. attempt[t] = None /\ attempt'[t] # None
          BY <4>1, BeginTyped DEF Begins, Begin, CoreInv
        <5> QED BY <1>2, <5>1
      <4> QED BY <4>1
    <3>2. Live(t) /\ Ahead(t)
      BY <2>5, <3>1, LiveStep
    <3>3. t = transition \/ transition \notin Txs
      BY <3>2 DEF Live, CoreInv, PublicationInv
    <3>4. \A u \in Txs \ {t} : InChain(u)' <=> InChain(u)
      BY <2>1, <3>3
    <3>5. attempt[t].seq \in Nat
      BY <1>n, <3>2 DEF Live, CoreInv, TypeInv, Working
    <3>6. \A u \in Txs : attempt[u].seq + 1 = attempt[t].seq => u # t
      BY <3>5
    <3> QED BY <1>2, <3>2, <3>4, <3>6 DEF Ahead
  <2> QED BY <1>0, <2>4, <2>5
<1> QED BY <1>1, <1>2, AttemptStep

\* Committed entries form one gapless line, across aborted, recovered and
\* crashed attempts (finalize.rs, recover.rs).
THEOREM ChainAlwaysLinear == Spec => []ChainLinear
<1>1. Init => ChainInv
  <2> SUFFICES ASSUME Init PROVE ChainInv
    OBVIOUS
  <2>1. ConfirmedInv /\ ChainLinear
    BY DEF Init, ConfirmedInv, OriginalConfirmed, ChainLinear, InChain, Visible, Objects
  <2>2. \A t \in Txs : ~Live(t)
    BY DisjointSorts DEF Init, Live
  <2> QED BY <2>1, <2>2 DEF ChainInv
<1>2. CoreInv /\ ChainInv /\ [Next]_vars => ChainInv'
  BY ChainNext
<1>3. ChainInv => ChainLinear
  BY DEF ChainInv
<1> QED BY <1>1, <1>2, <1>3, CoreInvHolds, PTL DEF Spec

-----------------------------------------------------------------------------
\* Amendments.

\* An amendment names an original that is durable from the first step on.
AnchorInv ==
    /\ ConfirmedInv
    /\ \A t \in Txs : claim[t] = "held" => attempt[t].number # None
    /\ \A t \in Txs : attempt[t] # None /\ attempt[t].orig # None =>
          LET orig == attempt[t].orig IN
              /\ disk[orig][Entry] = "published"
              /\ attempt[orig].seq < attempt[t].seq
              /\ claim[orig] = "held"

\* A durable original keeps its entry, its attempt and its number.
LEMMA OriginalKept ==
    ASSUME CoreInv, AnchorInv, [Next]_vars, NEW o \in Txs,
           disk[o][Entry] = "published", claim[o] = "held"
    PROVE  disk'[o][Entry] = "published" /\ claim'[o] = "held" /\ attempt'[o] = attempt[o]
<1>1. disk'[o][Entry] = "published"
  BY FinalStep DEF CoreInv
<1>2. InChain(o) /\ InChain(o)'
  BY <1>1 DEF InChain, Visible
<1>3. attempt'[o] = attempt[o] /\ attempt[o].number # None
  BY <1>2, VisibleAttempt DEF AnchorInv
<1>4. CommittedNumberHeld'
  BY NumberInvNext DEF CoreInv, NumberInv
<1> QED BY <1>1, <1>2, <1>3, <1>4 DEF CommittedNumberHeld

LEMMA AnchorNext ==
    ASSUME CoreInv, AnchorInv, [Next]_vars PROVE AnchorInv'
<1>0. ConfirmedInv'
  BY ConfirmedNext DEF AnchorInv
<1>1. \A t \in Txs : attempt[t] # None => attempt'[t] = attempt[t]
  BY AttemptStep
<1>2. ASSUME NEW t \in Txs, claim'[t] = "held" PROVE attempt'[t].number # None
  <2>1. CASE claim[t] = "held"
    <3>1. attempt[t] # None
      BY <2>1 DEF CoreInv, NumberInv
    <3> QED BY <1>1, <2>1, <3>1 DEF AnchorInv
  <2>2. ASSUME NEW n \in Numbers, FinalizeIncident(t, n) PROVE attempt'[t].number # None
    <3>1. PICK s : attempt' = [attempt EXCEPT ![t] =
              [draft |-> row.id, rev |-> row.rev, number |-> n, orig |-> None, seq |-> s]]
      BY <2>2 DEF FinalizeIncident, Begin
    <3>2. DOMAIN attempt = Txs
      BY DEF CoreInv, TypeInv, TypeOK
    <3>3. attempt'[t].number = n
      BY <3>1, <3>2
    <3> QED BY <3>3, DisjointSorts
  <2> QED BY <1>2, <2>1, <2>2, ClaimStep
<1>3. ASSUME NEW t \in Txs, attempt[t] # None, attempt[t].orig # None
      PROVE  LET orig == attempt[t].orig IN
                 /\ disk'[orig][Entry] = "published"
                 /\ attempt'[orig].seq < attempt[t].seq
                 /\ claim'[orig] = "held"
  <2>1. attempt[t].orig \in Txs
    BY <1>3, AttemptFields DEF CoreInv, TypeInv
  <2> QED BY <1>3, <2>1, OriginalKept DEF AnchorInv
<1>4. ASSUME NEW t \in Txs, attempt[t] = None, attempt'[t] # None, attempt'[t].orig # None
      PROVE  LET orig == attempt'[t].orig IN
                 /\ disk'[orig][Entry] = "published"
                 /\ attempt'[orig].seq < attempt'[t].seq
                 /\ claim'[orig] = "held"
  <2>1. PICK n \in Numbers \cup {None}, orig \in Txs \cup {None} :
            /\ Begin(t, n, orig)
            /\ orig # None => claim[orig] = "held" /\ InChain(orig)
    <3>1. Begins(t)
      BY <1>4, AttemptStep
    <3>2. cur' = t /\ pc' = "staging" /\ pc = "idle"
      BY <3>1 DEF Begins, Begin
    <3>3. \E u \in Txs : \/ \E n \in Numbers : FinalizeIncident(u, n)
                         \/ \E orig \in Txs : FinalizeAmendment(u, orig)
                         \/ FinalizeKeyTransition(u)
      BY <3>2 DEF vars, Next, Start, Progress, Error, Save, Recover, Reconcile,
         BeginDiscard, ResumeDiscard, StageObject, FlushStaging, BookMarker,
         PinRevision, DeleteDraftKey, ConfirmKeyAbsent, PublishGrant, SyncGrants,
         PublishEntry, SyncEntry, ConfirmOriginal, WrapBlankKey, CommitBlank,
         ReleaseClaim, RestoreDraft, NothingPending, CompletePrepared, RemoveResidue,
         Reconciled, DeleteDiscardedKey, ConfirmDiscardedKeyAbsent, AbortReversible,
         AbortUnclear, RollBackBlank, StepFails, Crash, Stop
    <3> QED BY <3>2, <3>3
         DEF FinalizeIncident, FinalizeAmendment, FinalizeKeyTransition, Begin
  <2>2. PICK s \in NextSeqs :
            /\ orig # None => attempt[orig].seq < s
            /\ attempt' = [attempt EXCEPT ![t] = [draft |-> row.id, rev |-> row.rev,
                              number |-> n, orig |-> orig, seq |-> s]]
    BY <2>1 DEF Begin
  <2>3. attempt'[t].orig = orig /\ attempt'[t].seq = s
    BY <2>2 DEF CoreInv, TypeInv, TypeOK
  <2>4. orig \in Txs /\ claim[orig] = "held" /\ InChain(orig) /\ attempt[orig].seq < s
    BY <1>4, <2>1, <2>2, <2>3
  <2>5. disk[orig][Entry] = "published"
    BY <2>1, <2>4 DEF AnchorInv, ConfirmedInv, Begin, InChain, Visible
  <2> QED BY <2>3, <2>4, <2>5, OriginalKept
<1>5. \A t \in Txs : attempt'[t] # None /\ attempt'[t].orig # None =>
          LET orig == attempt'[t].orig IN
              /\ disk'[orig][Entry] = "published"
              /\ attempt'[orig].seq < attempt'[t].seq
              /\ claim'[orig] = "held"
  BY <1>1, <1>3, <1>4
<1> QED BY <1>0, <1>2, <1>5 DEF AnchorInv

\* A committed amendment follows a durably committed original that keeps its
\* incident number (amendment.rs).
THEOREM AmendmentsAlwaysAnchored == Spec => []AmendmentAnchored
<1>1. Init => AnchorInv
  BY DEF Init, AnchorInv, ConfirmedInv, OriginalConfirmed, Objects
<1>2. CoreInv /\ AnchorInv /\ [Next]_vars => AnchorInv'
  BY AnchorNext
<1>3. CoreInv /\ AnchorInv => AmendmentAnchored
  BY DEF CoreInv, TypeInv, AnchorInv, AmendmentAnchored, InChain, Visible, Objects
<1> QED BY <1>1, <1>2, <1>3, CoreInvHolds, PTL DEF Spec

-----------------------------------------------------------------------------
\* The record life cycle.

\* Phase without overlapping cases.
PhaseOf(t) ==
    IF attempt[t] = None THEN "none"
    ELSE IF disk[t][Entry] = "published" THEN "filed"
    ELSE IF transition = t THEN (IF slot = attempt[t].draft THEN "open" ELSE "sealed")
    ELSE IF Live(t) THEN "open" ELSE "dropped"

Phases == [t \in Txs |-> PhaseOf(t)]

LEMMA PhaseIs == CoreInv => Phase = Phases
<1> SUFFICES ASSUME CoreInv, NEW t \in Txs PROVE Phase[t] = PhaseOf(t)
  BY DEF Phase, Phases
<1>1. Live(t) => attempt[t] # None
  BY DEF Live, CoreInv, TypeInv, Working
<1>2. (Live(t) /\ transition # t) => disk[t][Entry] # "published"
  BY DEF Live, CoreInv, PublicationInv, Objects
<1>3. CASE attempt[t] = None
  BY <1>1, <1>3 DEF Phase, PhaseOf, Live
<1>4. CASE attempt[t] # None /\ disk[t][Entry] = "published"
  BY <1>2, <1>4 DEF Phase, PhaseOf, Live
<1>5. CASE attempt[t] # None /\ disk[t][Entry] # "published" /\ transition = t
  BY <1>5 DEF Phase, PhaseOf
<1>6. CASE attempt[t] # None /\ disk[t][Entry] # "published" /\ transition # t
  BY <1>6 DEF Phase, PhaseOf, Live
<1> QED BY <1>3, <1>4, <1>5, <1>6

LEMMA PhaseIsNext == CoreInv' => Phase' = Phases'
<1> DEFINE Agrees == Phase = Phases
<1>1. CoreInv => Agrees
  BY PhaseIs
<1> HIDE DEF Agrees
<1>2. CoreInv' => Agrees'
  BY <1>1, PTL
<1> QED BY <1>2 DEF Agrees

\* One attempt moves and the others stay.
LEMMA PhaseMoves ==
    ASSUME CoreInv, CoreInv', NEW t \in Txs,
           \A u \in Txs \ {t} : PhaseOf(u)' = PhaseOf(u),
           \/ PhaseOf(t)' = PhaseOf(t)
           \/ /\ PhaseOf(t) = "none" /\ PhaseOf(t)' = "open"
              /\ \A u \in Txs : PhaseOf(u) \notin {"open", "sealed"}
           \/ PhaseOf(t) = "open" /\ PhaseOf(t)' \in {"sealed", "dropped"}
           \/ PhaseOf(t) = "sealed" /\ PhaseOf(t)' = "filed"
    PROVE  [Lifecycle!Next]_Phase
<1>1. Phase' = [Phase EXCEPT ![t] = PhaseOf(t)'] /\ Phase[t] = PhaseOf(t)
  BY PhaseIs, PhaseIsNext DEF Phases
<1>2. CASE PhaseOf(t)' = PhaseOf(t)
  BY <1>2, PhaseIs, PhaseIsNext DEF Phases
<1>3. CASE /\ PhaseOf(t) = "none" /\ PhaseOf(t)' = "open"
           /\ \A u \in Txs : PhaseOf(u) \notin {"open", "sealed"}
  <2>1. Lifecycle!Active = {}
    BY <1>3, PhaseIs DEF Phases, Lifecycle!Active
  <2> QED BY <1>1, <1>3, <2>1 DEF Lifecycle!Next, Lifecycle!Open, Lifecycle!Moves
<1>4. CASE PhaseOf(t) = "open" /\ PhaseOf(t)' \in {"sealed", "dropped"}
  BY <1>1, <1>4 DEF Lifecycle!Next, Lifecycle!Drop, Lifecycle!Seal, Lifecycle!Moves
<1>5. CASE PhaseOf(t) = "sealed" /\ PhaseOf(t)' = "filed"
  BY <1>1, <1>5 DEF Lifecycle!Next, Lifecycle!File, Lifecycle!Moves
<1> QED BY <1>2, <1>3, <1>4, <1>5

\* An attempt that is not live and not begun keeps its phase.
LEMMA PhaseKept ==
    ASSUME CoreInv, ConfirmedInv, [Next]_vars, NEW u \in Txs, ~Live(u), ~Begins(u)
    PROVE  PhaseOf(u)' = PhaseOf(u)
<1>1. ~Live(u)'
  BY LiveStep
<1>2. attempt'[u] = attempt[u]
  BY AttemptStep
<1>3. disk'[u][Entry] = "published" <=> disk[u][Entry] = "published"
  <2>1. u # transition
    BY DEF Live
  <2>2. CASE (PublishEntry \/ SyncEntry) /\ u = cur
    BY <2>1, <2>2, PublishesMarker
  <2>3. CASE Crash /\ disk[u][Entry] = "publishedV"
    BY <2>1, <2>3 DEF ConfirmedInv
  <2> QED BY <2>2, <2>3, EntryStep DEF InChain, Visible
<1> QED BY <1>1, <1>2, <1>3 DEF PhaseOf, Live

\* Beginning opens an attempt when no other one is open or sealed.
LEMMA BeginOpens ==
    ASSUME CoreInv, ConfirmedInv, [Next]_vars, NEW t \in Txs, Begins(t)
    PROVE  [Lifecycle!Next]_Phase
<1>1. /\ pc = "idle" /\ transition \notin Txs /\ attempt[t] = None /\ attempt'[t] # None
      /\ pc' = "staging" /\ cur' = t /\ UNCHANGED <<transition, disk>>
  BY BeginTyped DEF Begins, Begin, CoreInv
<1>2. \A u \in Txs : ~Live(u) /\ PhaseOf(u) \notin {"open", "sealed"}
  BY <1>1 DEF Live, PhaseOf
<1>3. \A u \in Txs \ {t} : ~Begins(u)
  BY <1>1 DEF Begins, Begin
<1>4. \A u \in Txs \ {t} : PhaseOf(u)' = PhaseOf(u)
  BY <1>2, <1>3, PhaseKept
<1>5. disk[t][Entry] # "published"
  BY <1>1 DEF CoreInv, TypeInv, Objects
<1>6. PhaseOf(t) = "none" /\ PhaseOf(t)' = "open"
  BY <1>1, <1>5 DEF PhaseOf, Live
<1>7. CoreInv'
  BY TypeInvNext, PublicationInvNext, KeyInvNext, NumberInvNext DEF CoreInv
<1> QED BY <1>2, <1>4, <1>6, <1>7, PhaseMoves

\* A staged attempt is open, and is dropped or gets its marker.
LEMMA StagedMoves ==
    ASSUME CoreInv, ConfirmedInv, [Next]_vars, NEW t \in Txs, cur = t,
           pc \in {"staging", "flushed"}, UNCHANGED attempt
    PROVE  PhaseOf(t) = "open" /\ PhaseOf(t)' \in {"open", "sealed", "dropped"}
<1>1. /\ transition \notin Txs /\ ~InChain(t) /\ attempt[t] # None
      /\ disk[t][Entry] # "published"
  BY DEF CoreInv, PublicationInv, TypeInv, Working, InChain, Visible, Objects
<1>2. disk'[t][Entry] # "published"
  BY <1>1, EntryStep DEF PublishEntry, SyncEntry, InChain, Visible
<1> QED BY <1>1, <1>2 DEF PhaseOf, Live

\* A marked attempt is open until its key is gone and sealed from then on.
LEMMA MarkedMoves ==
    ASSUME CoreInv, ConfirmedInv, [Next]_vars, NEW t \in Txs, transition = t,
           UNCHANGED attempt
    PROVE  \/ PhaseOf(t)' = PhaseOf(t)
           \/ PhaseOf(t) = "open" /\ PhaseOf(t)' \in {"sealed", "dropped"}
           \/ PhaseOf(t) = "sealed" /\ PhaseOf(t)' = "filed"
<1>0. /\ attempt[t] # None /\ attempt[t].draft \in Drafts
      /\ attempt[t].draft = row.id /\ attempt'[t] = attempt[t]
  BY AttemptFields DEF CoreInv, TypeInv, KeyInv
<1>1. CASE disk[t][Entry] = "published"
  <2>1. disk'[t][Entry] = "published"
    BY <1>1, FinalStep DEF CoreInv
  <2> QED BY <1>0, <1>1, <2>1 DEF PhaseOf
<1>2. CASE disk[t][Entry] # "published" /\ slot = attempt[t].draft
  <2>1. PhaseOf(t) = "open"
    BY <1>0, <1>2 DEF PhaseOf
  <2>2. ~InChain(t) /\ ~PublishEntry /\ ~SyncEntry
    BY <1>0, <1>2 DEF CoreInv, KeyInv, CommittedKeyGone, PublishEntry, SyncEntry
  <2>3. disk'[t][Entry] # "published"
    BY <1>2, <2>2, EntryStep DEF InChain, Visible
  <2>4. PhaseOf(t)' \in {"open", "sealed", "dropped"}
    BY <1>0, <2>3 DEF PhaseOf
  <2> QED BY <2>1, <2>4
<1>3. CASE disk[t][Entry] # "published" /\ slot # attempt[t].draft
  <2>1. PhaseOf(t) = "sealed"
    BY <1>0, <1>3 DEF PhaseOf
  <2>2. UNCHANGED transition
    <3>1. Sealed
      BY <1>3 DEF Sealed
    <3> QED BY <1>3, <3>1, SealedStep DEF CoreInv
  <2>3. slot' # attempt[t].draft
    BY <1>0, <1>3, SlotStep, DisjointSorts DEF WrapBlankKey, FreshDraft
  <2>4. PhaseOf(t)' \in {"sealed", "filed"}
    BY <1>0, <2>2, <2>3 DEF PhaseOf
  <2> QED BY <2>1, <2>4
<1> QED BY <1>1, <1>2, <1>3

LEMMA LifecycleStep ==
    ASSUME CoreInv, ConfirmedInv, [Next]_vars PROVE [Lifecycle!Next]_Phase
<1>1. ASSUME NEW t \in Txs, Begins(t) PROVE [Lifecycle!Next]_Phase
  BY <1>1, BeginOpens
<1>2. CASE \A t \in Txs : ~Begins(t)
  <2>0. UNCHANGED attempt
    BY <1>2, AttemptStep
  <2>1. CoreInv'
    BY TypeInvNext, PublicationInvNext, KeyInvNext, NumberInvNext DEF CoreInv
  <2>2. ASSUME NEW t \in Txs, Live(t) PROVE [Lifecycle!Next]_Phase
    <3>1. \A u \in Txs \ {t} : ~Live(u)
      BY <2>2 DEF Live, CoreInv, PublicationInv
    <3>2. \A u \in Txs \ {t} : PhaseOf(u)' = PhaseOf(u)
      BY <1>2, <3>1, PhaseKept
    <3>3. \/ PhaseOf(t)' = PhaseOf(t)
          \/ PhaseOf(t) = "open" /\ PhaseOf(t)' \in {"sealed", "dropped"}
          \/ PhaseOf(t) = "sealed" /\ PhaseOf(t)' = "filed"
      BY <2>0, <2>2, StagedMoves, MarkedMoves DEF Live
    <3> QED BY <2>1, <3>2, <3>3, PhaseMoves
  <2>3. CASE \A t \in Txs : ~Live(t)
    <3>1. \A u \in Txs : PhaseOf(u)' = PhaseOf(u)
      BY <1>2, <2>3, PhaseKept
    <3> QED BY <2>1, <3>1, PhaseIs, PhaseIsNext DEF Phases
  <2> QED BY <2>2, <2>3
<1> QED BY <1>1, <1>2

\* Every step of the writer, each crash and error included, is a step of the
\* abstract record life cycle or leaves it alone: sealing is irreversible,
\* and at most one record is open or sealed.
THEOREM RefinesRecordLifecycle == Spec => ImplementsLifecycle
<1>1. Init => Lifecycle!Init
  <2> SUFFICES ASSUME Init PROVE Phase = [t \in Txs |-> "none"]
    BY DEF Lifecycle!Init
  <2>1. CoreInv
    BY TypeInvInit, PublicationInvInit, KeyInvInit, NumberInvInit DEF CoreInv
  <2> QED BY <2>1, PhaseIs DEF Init, Phases, PhaseOf
<1>2. Init => ConfirmedInv
  BY DEF Init, ConfirmedInv, OriginalConfirmed, Objects
<1>3. CoreInv /\ ConfirmedInv /\ [Next]_vars => ConfirmedInv'
  BY ConfirmedNext
<1>4. CoreInv /\ ConfirmedInv /\ [Next]_vars => [Lifecycle!Next]_Phase
  BY LifecycleStep
<1> QED BY <1>1, <1>2, <1>3, <1>4, CoreInvHolds, PTL
     DEF Spec, ImplementsLifecycle, Lifecycle!SafeSpec
-----------------------------------------------------------------------------
(***************************************************************************)
(* The desktop program.                                                    *)
(***************************************************************************)
\* Every step of the desktop program is a step of the writer core or leaves
\* it alone (commands/writer.rs): what is proved of Spec holds of DesktopSpec.
THEOREM DesktopDrivesWriter == DesktopSpec => Spec
<1>1. DesktopInit => Init
  BY DEF DesktopInit
<1>2. [DesktopNext]_desktopVars => [Next]_vars
  <2>1. Operate => Next
    BY DEF Operate, Run, Next, Start
  <2>2. CallRecover \/ HostStep \/ HostError \/ Restart => Next
    BY DEF CallRecover, HostStep, HostError, Restart, Next, Start
  <2>3. LoadActiveDraft \/ Refuse \/ OpenPage \/ Reload \/ Click => UNCHANGED vars
    BY DEF LoadActiveDraft, Refuse, OpenPage, Reload, Click
  <2> QED  BY <2>1, <2>2, <2>3 DEF DesktopNext, CalmNext, desktopVars
<1> QED  BY <1>1, <1>2, PTL DEF DesktopSpec, Spec

\* Where a call of recover_pending can be.
RecoverSteps == {"recovering", "grants", "entry", "committed", "confirm",
                 "blank", "wrapped"}

\* Where a host call that an earlier page issued can be once the recovery of
\* this page has found nothing to complete.
QuietSteps == {"idle", "recovering", "discarding", "discardDeleted", "blank",
               "wrapped"}

\* While the page starts and no earlier page's call ran after its load: a draft
\* that was loaded before the recovery ended is the active one and still opens,
\* so the recovery only hands it back; a recovery that answered "reversible"
\* left nothing beneath the draft, and took back the preview without which no
\* earlier page can finalize.
StartInv ==
    /\ recoverCall \in {None, "running", "irreversible", "reversible", "blocked"}
    /\ page = "starting" /\ recoverCall # None => "finalize" \notin request
    /\ page = "starting" /\ ~overtaken =>
         /\ recoverCall = "running" => pc \in RecoverSteps
         /\ draftAnswer \in Drafts /\ recoverCall = None =>
                pc = "idle" /\ Readable /\ draftAnswer = row.id
         /\ draftAnswer \in Drafts /\ recoverCall = "running" =>
                pc = "recovering" /\ Readable /\ draftAnswer = row.id
         /\ recoverCall = "reversible" =>
                /\ pc \in QuietSteps /\ transition \notin Txs /\ Releasable = {}
                /\ draftAnswer \in Drafts => pc = "idle" /\ draftAnswer = row.id

LEMMA StartInvInit == DesktopInit => StartInv
BY AnswersDistinct, DisjointSorts DEF DesktopInit, StartInv

\* A host call that goes on within recover_pending stays within it.
LEMMA RecoveryStep ==
    ASSUME Progress, pc \in RecoverSteps
    PROVE  \/ pc' \in RecoverSteps /\ (pc = "recovering" /\ Readable =>
                pc' = "recovering" /\ UNCHANGED <<row, slot>>)
           \/ pc = "wrapped" /\ pc' = "idle"
           \/ RestoreDraft \/ NothingPending
BY DEF Progress, RecoverSteps, Readable, DraftOpens, StageObject, FlushStaging,
       BookMarker, PinRevision, DeleteDraftKey, ConfirmKeyAbsent, PublishGrant,
       SyncGrants, PublishEntry, SyncEntry, ConfirmOriginal, WrapBlankKey,
       CommitBlank, Stop, ReleaseClaim, CompletePrepared, RemoveResidue,
       Reconciled, DeleteDiscardedKey, ConfirmDiscardedKeyAbsent

LEMMA HostBusy == Progress \/ Error => pc # "idle"
BY DEF Progress, Error, StageObject, FlushStaging,
       BookMarker, PinRevision, DeleteDraftKey, ConfirmKeyAbsent, PublishGrant,
       SyncGrants, PublishEntry, SyncEntry, ConfirmOriginal, WrapBlankKey,
       CommitBlank, ReleaseClaim, RestoreDraft, NothingPending,
       CompletePrepared, RemoveResidue, Reconciled, DeleteDiscardedKey,
       ConfirmDiscardedKeyAbsent, AbortReversible, AbortUnclear, RollBackBlank,
       StepFails

\* What an earlier page's call, other than a finalization, does once nothing
\* is pending: it leaves no marker and no claim beneath the active draft.
LEMMA QuietStart ==
    ASSUME CoreInv, RevisionInv, transition \notin Txs, Releasable = {},
           Save \/ BeginDiscard \/ Recover
    PROVE  pc' \in QuietSteps /\ transition' \notin Txs /\ Releasable' = {}
<1> USE DEF CoreInv
<1>0. row.id \in Drafts /\ row.rev \in Nat
  BY DEF TypeInv, TypeOK
<1>1. CASE Save
  <2>1. /\ row'.id = row.id /\ UNCHANGED <<transition, attempt, claim>>
        /\ pc' \in QuietSteps
    BY <1>0, <1>1 DEF Save, QuietSteps, TypeInv, TypeOK
  <2>2. \A t \in Txs : claim[t] = "held" => attempt[t] # None
    BY DEF NumberInv
  <2>3. \A t \in Txs : claim[t] = "held" => attempt[t].draft # row.id
    BY <2>2 DEF Releasable, RevisionInv
  <2> QED  BY <2>1, <2>3 DEF Releasable
<1>2. CASE BeginDiscard
  BY <1>0, <1>2, DisjointSorts DEF BeginDiscard, Intent, QuietSteps, Releasable
<1>3. CASE Recover
  BY <1>3 DEF Recover, QuietSteps, Releasable
<1> QED  BY <1>1, <1>2, <1>3

LEMMA QuietGoesOn ==
    ASSUME CoreInv, RevisionInv, pc \in QuietSteps, transition \notin Txs,
           Releasable = {}, Progress \/ Error
    PROVE  pc' \in QuietSteps /\ transition' \notin Txs /\ Releasable' = {}
<1> USE DisjointSorts DEF CoreInv
<1>1. CASE CommitBlank
  <2>1. /\ row'.id = slot /\ UNCHANGED <<attempt, claim>> /\ pc = "wrapped"
        /\ transition' \notin Txs /\ pc' \in QuietSteps
    BY <1>1 DEF CommitBlank, Stop, QuietSteps
  <2>2. \A t \in Txs : claim[t] = "held" => attempt[t] # None
    BY DEF NumberInv
  <2> QED  BY <2>1, <2>2 DEF Releasable, RevisionInv
<1>2. CASE ~CommitBlank
  <2>1. UNCHANGED <<row, transition, attempt, claim>> /\ pc' \in QuietSteps
    BY <1>2 DEF Progress, Error, QuietSteps, StageObject, FlushStaging,
       BookMarker, PinRevision, DeleteDraftKey, ConfirmKeyAbsent, PublishGrant,
       SyncGrants, PublishEntry, SyncEntry, ConfirmOriginal, WrapBlankKey, Stop,
       ReleaseClaim, RestoreDraft, NothingPending, CompletePrepared, RemoveResidue,
       Reconciled, DeleteDiscardedKey, ConfirmDiscardedKeyAbsent, AbortReversible,
       AbortUnclear, RollBackBlank, StepFails
  <2> QED  BY <2>1 DEF Releasable
<1> QED  BY <1>1, <1>2

LEMMA StartInvNext ==
    ASSUME CoreInv, RevisionInv, StartInv, [DesktopNext]_desktopVars PROVE StartInv'
<1> USE AnswersDistinct, DisjointSorts
<1>1. CASE LoadActiveDraft
  <2>1. /\ UNCHANGED <<row, transition, pc, page, recoverCall, request, overtaken>>
        /\ Readable' = Readable /\ Releasable' = Releasable /\ pc = "idle"
    BY <1>1 DEF LoadActiveDraft, vars, Readable, Releasable
  <2>2. draftAnswer' \in Drafts => Readable /\ draftAnswer' = row.id
    BY <1>1 DEF LoadActiveDraft
  <2> QED  BY <2>1, <2>2 DEF StartInv, RecoverSteps
<1>2. CASE CallRecover
  BY <1>2 DEF CallRecover, Recover, WithoutPreview, StartInv, RecoverSteps, Readable,
       Releasable
<1>3. CASE Refuse \/ OpenPage \/ Reload \/ Click \/ Restart
  BY <1>3 DEF Refuse, OpenPage, Reload, Click, Restart, NewPage, StartInv
<1>4. CASE Operate
  <2>1. PICK call \in request :
          Run(call) /\ request' = WithoutPreview(request \ {call})
    BY <1>4 DEF Operate
  <2>2. /\ UNCHANGED <<page, draftAnswer, recoverCall>>
        /\ overtaken' = (overtaken \/ (page = "starting" /\ draftAnswer # None))
        /\ "finalize" \notin request'
    BY <1>4, <2>1 DEF Operate, WithoutPreview
  <2>3. CASE page # "starting" \/ overtaken'
    BY <2>2, <2>3 DEF StartInv
  <2>4. CASE page = "starting" /\ ~overtaken'
    <3>1. draftAnswer = None /\ ~overtaken
      BY <2>2, <2>4
    <3>2. pc = "idle"
      BY <2>1 DEF Run, Save, BeginDiscard, Recover, FinalizeIncident,
           FinalizeAmendment, Begin
    <3>3. recoverCall # "running"
      BY <2>4, <3>1, <3>2 DEF StartInv, RecoverSteps
    <3>4. ASSUME recoverCall = "reversible"
          PROVE  pc' \in QuietSteps /\ transition' \notin Txs /\ Releasable' = {}
      <4>1. transition \notin Txs /\ Releasable = {} /\ "finalize" \notin request
        BY <2>4, <3>1, <3>4 DEF StartInv
      <4>2. Save \/ BeginDiscard \/ Recover
        BY <2>1, <4>1 DEF Run
      <4> QED  BY <4>1, <4>2, QuietStart
    <3> QED  BY <2>2, <2>4, <3>1, <3>3, <3>4 DEF StartInv
  <2> QED  BY <2>3, <2>4
<1>5. CASE HostStep
  <2>1. pc # "idle" /\ UNCHANGED <<page, draftAnswer, request, overtaken>>
    BY <1>5, HostBusy DEF HostStep
  <2>2. CASE recoverCall # "running"
    <3>1. UNCHANGED recoverCall
      BY <1>5, <2>2 DEF HostStep
    <3>2. ASSUME page = "starting", ~overtaken, recoverCall = "reversible"
          PROVE  pc' \in QuietSteps /\ transition' \notin Txs /\ Releasable' = {}
      BY <1>5, <3>2, QuietGoesOn DEF HostStep, StartInv
    <3> QED  BY <2>1, <2>2, <3>1, <3>2 DEF StartInv
  <2>3. CASE recoverCall = "running" /\ ~(page = "starting" /\ ~overtaken)
    <3>1. recoverCall' \in {"running", "irreversible", "reversible", "blocked"}
      BY <1>5, <2>3 DEF HostStep
    <3>2. ~(page' = "starting" /\ ~overtaken')
      BY <2>1, <2>3
    <3>3. page' = "starting" => "finalize" \notin request'
      BY <2>1, <2>3 DEF StartInv
    <3> QED  BY <3>1, <3>2, <3>3 DEF StartInv
  <2>4. CASE recoverCall = "running" /\ page = "starting" /\ ~overtaken
    <3>1. pc \in RecoverSteps
      BY <2>4 DEF StartInv
    <3>2. ASSUME pc' \in RecoverSteps, pc = "recovering" /\ Readable =>
                      pc' = "recovering" /\ UNCHANGED <<row, slot>>
          PROVE  StartInv'
      BY <1>5, <2>1, <2>4, <3>2 DEF HostStep, StartInv, RecoverSteps, Readable
    <3>3. ASSUME pc = "wrapped" /\ pc' = "idle" PROVE StartInv'
      BY <1>5, <2>1, <2>4, <3>3 DEF HostStep, StartInv
    <3>4. ASSUME RestoreDraft PROVE StartInv'
      <4>1. /\ pc' = "idle" /\ pc = "recovering" /\ Releasable = {} /\ Readable
            /\ transition' \notin Txs /\ UNCHANGED <<row, slot, attempt, claim>>
        BY <3>4 DEF RestoreDraft, Stop, DraftOpens
      <4>2. Releasable' = {}
        BY <4>1 DEF Releasable
      <4> QED  BY <1>5, <2>1, <2>4, <4>1, <4>2 DEF HostStep, StartInv, QuietSteps
    <3>5. ASSUME NothingPending PROVE StartInv'
      <4>1. /\ pc' = "idle" /\ pc = "recovering" /\ ~Readable
            /\ transition' \notin Txs /\ UNCHANGED <<row, slot, attempt, claim>>
        BY <3>5 DEF NothingPending, Stop, DraftOpens
      <4>2. Releasable' = Releasable
        BY <4>1 DEF Releasable
      <4> QED  BY <1>5, <2>1, <2>4, <4>1, <4>2 DEF HostStep, StartInv, QuietSteps
    <3> QED  BY <1>5, <3>1, <3>2, <3>3, <3>4, <3>5, RecoveryStep DEF HostStep
  <2> QED  BY <2>2, <2>3, <2>4
<1>6. CASE HostError
  <2>1. pc # "idle" /\ UNCHANGED <<page, draftAnswer, request, overtaken>>
    BY <1>6, HostBusy DEF HostError
  <2>2. recoverCall' = IF recoverCall = "running" THEN "blocked" ELSE recoverCall
    BY <1>6 DEF HostError
  <2>3. ASSUME page = "starting", ~overtaken, recoverCall = "reversible"
        PROVE  pc' \in QuietSteps /\ transition' \notin Txs /\ Releasable' = {}
    BY <1>6, <2>3, QuietGoesOn DEF HostError, StartInv
  <2> QED  BY <2>1, <2>2, <2>3 DEF StartInv
<1>7. CASE UNCHANGED desktopVars
  BY <1>7 DEF desktopVars, vars, pageVars, StartInv, Readable, Releasable
<1> QED  BY <1>1, <1>2, <1>3, <1>4, <1>5, <1>6, <1>7 DEF DesktopNext, CalmNext

\* Whichever of the two startup calls the host runs first, whatever failed or
\* crashed before and whatever earlier pages still have in flight, the entry
\* form opens only on the active draft, unless one of those calls ran after
\* this page's load (connectWriterBridge, recover_pending).
THEOREM FormAlwaysShowsActiveDraft == DesktopSpec => FormShowsActiveDraft
<1>1. ASSUME StartInv, [DesktopNext]_desktopVars,
             page # "open", page' = "open", ~overtaken
      PROVE  FormIsCurrent
  <2>1. OpenPage
    BY <1>1 DEF DesktopNext, CalmNext, LoadActiveDraft, CallRecover, Refuse, Reload,
         NewPage, Click, Operate, HostStep, HostError, Restart, desktopVars, pageVars
  <2> QED  BY <1>1, <2>1 DEF OpenPage, StartInv, Withholding, FormIsCurrent
<1>2. StartInv /\ [DesktopNext]_desktopVars =>
        (page # "open" /\ page' = "open" /\ ~overtaken => FormIsCurrent)
  BY <1>1
<1>3. CoreInv /\ RevisionInv /\ StartInv /\ [DesktopNext]_desktopVars => StartInv'
  BY StartInvNext
<1> QED  BY <1>2, <1>3, StartInvInit, DesktopDrivesWriter, CoreInvHolds, RevisionHolds,
            PTL DEF DesktopSpec, FormShowsActiveDraft

=============================================================================
