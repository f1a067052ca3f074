----------------------------- MODULE WriterCore -----------------------------
(***************************************************************************)
(* The offline writer's crash-safe core: the one encrypted draft, its key  *)
(* in the single keystore slot, the incident-number register, the thirteen *)
(* steps of a finalization, its recovery and clean-up, and the discard.    *)
(* Sources: crates/ea-writer (finalize, recover, original_source,          *)
(* amendment) and crates/ea-draft (autosave, discard).                     *)
(*                                                                         *)
(* Every operation runs under the writer and draft locks, so one runs at a *)
(* time; between two durable effects it can fail, or the machine can crash.*)
(***************************************************************************)
EXTENDS Naturals

CONSTANTS Drafts,    \* draft identities; a draft and its draftDEK share one
          Txs,       \* finalization attempts; bounds how many are started
          Numbers,   \* incident numbers of one organization and year
          Grants,    \* the .eag objects of a transaction's grant plan
          Entry,     \* the .eip object of a transaction
          MaxRev,    \* the operator saves only below this revision
          None       \* absent key, number, original, transition, attempt

Objects == Grants \cup {Entry}

ASSUME DisjointSorts ==
    /\ Drafts \cap Txs = {}
    /\ None \notin Drafts \cup Txs \cup Numbers
    /\ Entry \notin Grants
ASSUME GrantsNonempty == Grants # {}
ASSUME MaxRevNat == MaxRev \in Nat

\* What a finalization attempt is made of.
Attempt == [draft : Drafts, rev : Nat, number : Numbers \cup {None},
            orig : Txs \cup {None}, seq : Nat]
ASSUME NoneIsNoAttempt == None \notin Attempt

VARIABLES
    row,         \* the draft row: identity and save revision
    slot,        \* the draftDEK in the keystore slot, or None
    transition,  \* draft_transition: a Draft (booked discard), a Tx
                 \* (prepared finalization marker), or None
    attempt,     \* what each finalization attempt was made of
    claim,       \* the attempt's incident-number claim
    confirmed,   \* writer_original_published
    disk,        \* archive objects of every attempt
    pc,          \* program counter of the running operation
    cur          \* the attempt the running operation works on

dbVars == <<row, transition, claim, confirmed>>
vars == <<row, slot, transition, attempt, claim, confirmed, disk, pc, cur>>

(***************************************************************************)
(* An object is absent, a staging file, or published under its target      *)
(* name.  The two "V" states are volatile: a crash may still undo them.    *)
(***************************************************************************)
ObjectState == {"absent", "stagedV", "staged", "publishedV", "published"}
Steps == {"idle", "staging", "flushed", "marked", "pinned", "deleted",
          "grants", "entry", "committed", "confirm", "blank", "wrapped",
          "discarding", "discardDeleted", "recovering", "cleaning"}

\* The draft decrypts: the slot holds this draft's key.
Readable == slot = row.id
\* The object lies under its target name.
Visible(t, o) == disk[t][o] \in {"publishedV", "published"}
\* A committed entry: staging names are not chain nodes.
InChain(t) == Visible(t, Entry)
\* One more than the verified head, or zero in an empty archive: the verified
\* prefix ends before the first sequence that is missing or taken twice.
ChainNodesWithStaging == {t \in Txs : disk[t][Entry] # "absent"}   \* mutant
ChainNodes == {t \in Txs : InChain(t)}
OneNodeAt(s) == \E t \in ChainNodes :
    attempt[t].seq = s /\ \A u \in ChainNodes : attempt[u].seq = s => u = t
NextSeqs == {s \in {0} \cup {attempt[t].seq + 1 : t \in ChainNodes} :
                ~OneNodeAt(s) /\ \A r \in 0 .. (s - 1) : OneNodeAt(r)}
\* The number is in incident_number_register.
TakenByEntry(n) == \E t \in Txs : InChain(t) /\ attempt[t].number = n   \* mutant
Taken(n) == \E t \in Txs : claim[t] = "held" /\ attempt[t].number = n
\* A fresh random identity is one that nothing refers to.
FreshDraft(d) ==
    /\ d \notin {row.id, slot, transition}
    /\ \A t \in Txs : attempt[t] # None => attempt[t].draft # d
\* Unreleased claims of the current draft, up to the current revision.
ReleasableOfAnyDraft == {t \in Txs : claim[t] = "held"}   \* mutant
ReleasableAtRevision ==   \* mutant
    {t \in Txs : claim[t] = "held" /\ attempt[t].draft = row.id
                                  /\ attempt[t].rev = row.rev}
Releasable == {t \in Txs : /\ claim[t] = "held"
                           /\ attempt[t].draft = row.id
                           /\ attempt[t].rev <= row.rev}

\* The operation ends.
Stop == pc' = "idle" /\ cur' = None
\* contains answered that the slot is empty.
KeyAssumedAbsent == TRUE   \* mutant
KeyAbsent == slot = None

(***************************************************************************)
(* The program opens the writer with one readable blank draft.             *)
(***************************************************************************)
Init ==
    /\ row \in [id : Drafts, rev : {0}]
    /\ slot = row.id
    /\ transition = None
    /\ attempt = [t \in Txs |-> None]
    /\ claim = [t \in Txs |-> "none"]
    /\ confirmed = {}
    /\ disk = [t \in Txs |-> [o \in Objects |-> "absent"]]
    /\ pc = "idle"
    /\ cur = None

(***************************************************************************)
(* Autosave: load, compare-and-set on the revision, re-encrypt.            *)
(***************************************************************************)
Save ==
    /\ pc = "idle"
    /\ Readable
    /\ row.rev < MaxRev
    /\ row' = [row EXCEPT !.rev = @ + 1]
    /\ UNCHANGED <<slot, transition, attempt, claim, confirmed, disk, pc, cur>>

(***************************************************************************)
(* Finalization, steps 1 to 7.  Begin holds what all contents share; an    *)
(* incident claims its number in the register, an amendment names a        *)
(* published original, a key transition does neither.                      *)
(***************************************************************************)
Begin(t, n, orig) ==
    /\ pc = "idle"
    /\ transition \notin Txs
    /\ attempt[t] = None
    /\ \E s \in NextSeqs :
         /\ orig # None => attempt[orig].seq < s
         /\ attempt' = [attempt EXCEPT ![t] =
              [draft |-> row.id, rev |-> row.rev, number |-> n,
               orig |-> orig, seq |-> s]]
    /\ pc' = "staging"
    /\ cur' = t
    /\ UNCHANGED <<row, slot, transition, confirmed, disk>>

FinalizeIncident(t, n) ==
    /\ Readable
    /\ ~Taken(n)
    /\ Begin(t, n, None)
    /\ claim' = [claim EXCEPT ![t] = "held"]

FinalizeAmendment(t, orig) ==
    /\ orig \in confirmed
    /\ claim[orig] = "held"
    /\ InChain(orig)
    /\ Begin(t, None, orig)
    /\ UNCHANGED claim

FinalizeKeyTransition(t) ==
    /\ Begin(t, None, None)
    /\ UNCHANGED claim

(***************************************************************************)
(* Step 8: stage every object, flush them, then book the marker, which     *)
(* displaces whatever the one transition row held.                         *)
(***************************************************************************)
StageObject(o) ==
    /\ pc = "staging"
    /\ disk[cur][o] = "absent"
    /\ disk' = [disk EXCEPT ![cur][o] = "stagedV"]
    /\ UNCHANGED <<row, slot, transition, attempt, claim, confirmed, pc, cur>>

EntryFlushed == [o \in Objects |-> IF o = Entry THEN "staged" ELSE "stagedV"]   \* mutant
AllFlushed == [o \in Objects |-> "staged"]

FlushStaging ==
    /\ pc = "staging"
    /\ \A o \in Objects : disk[cur][o] = "stagedV"
    /\ disk' = [disk EXCEPT ![cur] = AllFlushed]
    /\ pc' = "flushed"
    /\ UNCHANGED <<row, slot, transition, attempt, claim, confirmed, cur>>

BookMarker ==
    /\ pc = "flushed"
    /\ transition' = cur
    /\ pc' = "marked"
    /\ UNCHANGED <<row, slot, attempt, claim, confirmed, disk, cur>>

(***************************************************************************)
(* Step 9, the irreversible boundary: pin the revision with one more save, *)
(* delete the draftDEK, ask back that it is gone.  The provider may report *)
(* success and keep the key.                                               *)
(***************************************************************************)
PinRevision ==
    /\ pc = "marked"
    /\ Readable
    /\ row' = [row EXCEPT !.rev = @ + 1]
    /\ pc' = "pinned"
    /\ UNCHANGED <<slot, transition, attempt, claim, confirmed, disk, cur>>

DeleteDraftKey ==
    /\ pc = "pinned"
    /\ slot' \in {None, slot}
    /\ pc' = "deleted"
    /\ UNCHANGED <<row, transition, attempt, claim, confirmed, disk, cur>>

ConfirmKeyAbsent ==
    /\ pc = "deleted"
    /\ KeyAbsent
    /\ pc' = "grants"
    /\ UNCHANGED <<row, slot, transition, attempt, claim, confirmed, disk, cur>>

(***************************************************************************)
(* An error before the boundary ends the run and gives the number back;    *)
(* a failure of that release is swallowed.                                 *)
(***************************************************************************)
AbortReversible ==
    /\ \/ pc \in {"staging", "flushed", "marked", "pinned"}
       \/ pc = "deleted" /\ slot # None
    /\ \/ /\ claim[cur] = "held"
          /\ claim' = [claim EXCEPT ![cur] = "released"]
       \/ UNCHANGED claim
    /\ Stop
    /\ UNCHANGED <<row, slot, transition, attempt, confirmed, disk>>

\* delete or contains failed: the boundary is unclear, the number stays used.
AbortUnclear ==
    /\ \/ pc = "pinned" /\ slot' \in {None, slot}
       \/ pc = "deleted" /\ UNCHANGED slot
    /\ Stop
    /\ UNCHANGED <<row, transition, attempt, claim, confirmed, disk>>

(***************************************************************************)
(* Steps 10 to 13, publish_from_prepared: shared by the run and recovery.  *)
(* A rename publishes a staged object; one already under its target name   *)
(* is compared and kept.                                                   *)
(***************************************************************************)
PublishableOnce(st) == st = "staged"   \* mutant
Publishable(st) == st # "absent"
Renamed(st) == IF st \in {"stagedV", "staged"} THEN "publishedV" ELSE st

PublishGrant(g) ==
    /\ pc = "grants"
    /\ Publishable(disk[cur][g])
    /\ disk' = [disk EXCEPT ![cur][g] = Renamed(@)]
    /\ UNCHANGED <<row, slot, transition, attempt, claim, confirmed, pc, cur>>

GrantsNotSynced(objects) == objects   \* mutant
GrantsSynced(objects) ==
    [o \in Objects |-> IF o \in Grants THEN "published" ELSE objects[o]]

SyncGrants ==
    /\ pc = "grants"
    /\ \A g \in Grants : Visible(cur, g)
    /\ disk' = [disk EXCEPT ![cur] = GrantsSynced(@)]
    /\ pc' = "entry"
    /\ UNCHANGED <<row, slot, transition, attempt, claim, confirmed, cur>>

PublishEntry ==
    /\ pc = "entry"
    /\ Publishable(disk[cur][Entry])
    /\ disk' = [disk EXCEPT ![cur][Entry] = Renamed(@)]
    /\ pc' = "committed"
    /\ UNCHANGED <<row, slot, transition, attempt, claim, confirmed, cur>>

SyncEntry ==
    /\ pc = "committed"
    /\ disk' = [disk EXCEPT ![cur][Entry] = "published"]
    /\ pc' = "confirm"
    /\ UNCHANGED <<row, slot, transition, attempt, claim, confirmed, cur>>

\* Only an incident has a row in writer_original_identity.
ReferencedRow(t) == {attempt[t].orig}   \* mutant
NoIdentityRow(t) == {}   \* mutant
IdentityRow(t) == IF attempt[t].number = None THEN {} ELSE {t}

ConfirmOriginal ==
    /\ pc = "confirm"
    /\ confirmed' = confirmed \cup IdentityRow(cur)
    /\ pc' = "blank"
    /\ UNCHANGED <<row, slot, transition, attempt, claim, disk, cur>>

\* create_blank wraps the fresh key into the slot before its row commits.
WrapBlankKey(d) ==
    /\ pc = "blank"
    /\ FreshDraft(d)
    /\ slot' = d
    /\ pc' = "wrapped"
    /\ UNCHANGED <<row, transition, attempt, claim, confirmed, disk, cur>>

\* One transaction clears the transition row and replaces the draft row.
CommitBlank ==
    /\ pc = "wrapped"
    /\ row' = [id |-> slot, rev |-> 0]
    /\ transition' = None
    /\ Stop
    /\ UNCHANGED <<slot, attempt, claim, confirmed, disk>>

\* The transaction rolls back; the fresh key is deleted, best effort.
RollBackBlank ==
    /\ pc = "wrapped"
    /\ slot' \in {None, slot}
    /\ Stop
    /\ UNCHANGED <<row, transition, attempt, claim, confirmed, disk>>

(***************************************************************************)
(* recover_pending: a readable draft gets its numbers back and loses the   *)
(* marker; an unreadable one is completed from the prepared bytes.         *)
(***************************************************************************)
Recover ==
    /\ pc = "idle"
    /\ pc' = "recovering"
    /\ UNCHANGED <<row, slot, transition, attempt, claim, confirmed, disk, cur>>

\* The witness of the boundary is the draft itself: only its own key opens it.
SomeKeyPresent == slot # None   \* mutant
DraftOpens == Readable

\* recover_original_claims, also reached from the clean-up.
ReleaseClaim(t) ==
    /\ pc \in {"recovering", "cleaning"}
    /\ Readable
    /\ t \in Releasable
    /\ claim' = [claim EXCEPT ![t] = "released"]
    /\ UNCHANGED <<row, slot, transition, attempt, confirmed, disk, pc, cur>>

\* The marker is dropped, the staged bytes stay where they are.
RestoreDraft ==
    /\ pc = "recovering"
    /\ DraftOpens
    /\ Releasable = {}
    /\ transition' = IF transition \in Txs THEN None ELSE transition
    /\ Stop
    /\ UNCHANGED <<row, slot, attempt, claim, confirmed, disk>>

\* No marker, and nothing that would need the unreadable draft.
NothingPending ==
    /\ pc = "recovering"
    /\ ~DraftOpens
    /\ transition \notin Txs
    /\ Stop
    /\ UNCHANGED <<row, slot, transition, attempt, claim, confirmed, disk>>

CompletePrepared ==
    /\ pc = "recovering"
    /\ ~DraftOpens
    /\ transition \in Txs
    /\ cur' = transition
    /\ pc' = "grants"
    /\ UNCHANGED <<row, slot, transition, attempt, claim, confirmed, disk>>

(***************************************************************************)
(* reconcile_to_completion: only behind a cleared marker, remove staging   *)
(* files and grants whose entry is not committed.                          *)
(***************************************************************************)
Reconcile ==
    /\ pc = "idle"
    /\ transition \notin Txs
    /\ Readable \/ Releasable = {}
    /\ pc' = "cleaning"
    /\ UNCHANGED <<row, slot, transition, attempt, claim, confirmed, disk, cur>>

EveryGrantIsResidue(t, o) ==   \* mutant
    disk[t][o] \in {"stagedV", "staged"} \/ (o \in Grants /\ Visible(t, o))
Residue(t, o) ==
    \/ disk[t][o] \in {"stagedV", "staged"}
    \/ o \in Grants /\ Visible(t, o) /\ ~InChain(t)

RemoveResidue(t, o) ==
    /\ pc = "cleaning"
    /\ Readable => Releasable = {}
    /\ Residue(t, o)
    /\ disk' = [disk EXCEPT ![t][o] = "absent"]
    /\ UNCHANGED <<row, slot, transition, attempt, claim, confirmed, pc, cur>>

Reconciled ==
    /\ pc = "cleaning"
    /\ Readable => Releasable = {}
    /\ \A t \in Txs, o \in Objects : ~Residue(t, o)
    /\ Stop
    /\ UNCHANGED <<row, slot, transition, attempt, claim, confirmed, disk>>

(***************************************************************************)
(* Discard: book the intent, delete the key, confirm, replace the draft.   *)
(* resume_discard and resume_after_restart complete a booked intent.  That *)
(* the latter also replaces an unreadable draft no transition explains     *)
(* matters only after a restored backup: module WriterBackup.              *)
(***************************************************************************)
NoIntent == None   \* mutant
Intent == row.id

BeginDiscard ==
    /\ pc = "idle"
    /\ transition \notin Txs
    /\ Readable
    /\ transition' = Intent
    /\ pc' = "discarding"
    /\ UNCHANGED <<row, slot, attempt, claim, confirmed, disk, cur>>

ResumeDiscard ==
    /\ pc = "idle"
    /\ transition = row.id
    /\ pc' = "discarding"
    /\ UNCHANGED <<row, slot, transition, attempt, claim, confirmed, disk, cur>>

DeleteDiscardedKey ==
    /\ pc = "discarding"
    /\ slot' \in {None, slot}
    /\ pc' = "discardDeleted"
    /\ UNCHANGED <<row, transition, attempt, claim, confirmed, disk, cur>>

ConfirmDiscardedKeyAbsent ==
    /\ pc = "discardDeleted"
    /\ KeyAbsent
    /\ pc' = "blank"
    /\ UNCHANGED <<row, slot, transition, attempt, claim, confirmed, disk, cur>>

(***************************************************************************)
(* Any other step can end in an error that undoes nothing.  An I/O error   *)
(* of a delete leaves open whether the key is gone.                        *)
(***************************************************************************)
StepFails ==
    /\ pc \in {"grants", "entry", "committed", "confirm", "blank",
               "discarding", "discardDeleted", "recovering", "cleaning"}
    /\ slot' \in IF pc = "discarding" THEN {None, slot} ELSE {slot}
    /\ Stop
    /\ UNCHANGED <<row, transition, attempt, claim, confirmed, disk>>

(***************************************************************************)
(* A crash ends the process.  Each directory entry that was not flushed    *)
(* survives or is lost.                                                    *)
(***************************************************************************)
Volatile == {x \in Txs \X Objects : disk[x[1]][x[2]] \in {"stagedV", "publishedV"}}

AfterCrash(st, lost) ==
    CASE st = "stagedV"    -> IF lost THEN "absent" ELSE "staged"
      [] st = "publishedV" -> IF lost THEN "staged" ELSE "published"
      [] OTHER             -> st

Crash ==
    /\ \E lost \in SUBSET Volatile :
         disk' = [t \in Txs |-> [o \in Objects |->
                    AfterCrash(disk[t][o], <<t, o>> \in lost)]]
    /\ Stop
    /\ UNCHANGED <<row, slot, transition, attempt, claim, confirmed>>

Start ==
    \/ Save
    \/ \E t \in Txs : \/ \E n \in Numbers : FinalizeIncident(t, n)
                      \/ \E orig \in Txs : FinalizeAmendment(t, orig)
                      \/ FinalizeKeyTransition(t)
    \/ Recover
    \/ Reconcile
    \/ BeginDiscard
    \/ ResumeDiscard

Progress ==
    \/ \E o \in Objects : StageObject(o)
    \/ FlushStaging \/ BookMarker
    \/ PinRevision \/ DeleteDraftKey \/ ConfirmKeyAbsent
    \/ \E g \in Grants : PublishGrant(g)
    \/ SyncGrants \/ PublishEntry \/ SyncEntry \/ ConfirmOriginal
    \/ \E d \in Drafts : WrapBlankKey(d)
    \/ CommitBlank
    \/ \E t \in Txs : ReleaseClaim(t)
    \/ RestoreDraft \/ NothingPending \/ CompletePrepared
    \/ \E t \in Txs, o \in Objects : RemoveResidue(t, o)
    \/ Reconciled
    \/ DeleteDiscardedKey \/ ConfirmDiscardedKeyAbsent

Error == AbortReversible \/ AbortUnclear \/ RollBackBlank \/ StepFails

Next == Start \/ Progress \/ Error \/ Crash

Spec == Init /\ [][Next]_vars

(***************************************************************************)
(* Fairness for liveness: a running operation goes on or fails, recovery   *)
(* is called again and again, and from some time on nothing crashes and an *)
(* operation fails only where the code leaves it no other way.             *)
(***************************************************************************)
ForcedError == Error /\ ~ENABLED Progress

Fairness ==
    /\ WF_vars(Progress \/ Error)
    /\ SF_vars(Recover)
    /\ <>[][Start \/ Progress \/ ForcedError]_vars

FairSpec == Spec /\ Fairness
-----------------------------------------------------------------------------
\* Every variable stays in its sort, at every step of every operation.
TypeOK ==
    /\ row \in [id : Drafts, rev : Nat]
    /\ slot \in Drafts \cup {None}
    /\ transition \in Drafts \cup Txs \cup {None}
    /\ attempt \in [Txs -> Attempt \cup {None}]
    /\ claim \in [Txs -> {"none", "held", "released"}]
    /\ confirmed \subseteq Txs
    /\ disk \in [Txs -> [Objects -> ObjectState]]
    /\ pc \in Steps
    /\ cur \in Txs \cup {None}

\* A prepared-finalization marker is only ever durable together with every
\* object it names: recovery behind the boundary has all bytes (finalize.rs,
\* step 8 before step 9).
PreparedComplete ==
    transition \in Txs =>
        \A o \in Objects :
            disk[transition][o] \in {"staged", "publishedV", "published"}

\* An entry is visible only when all its grants are durably published: no
\* crash leaves a committed entry that a recipient cannot open.
GrantsBeforeEntry ==
    \A t \in Txs : InChain(t) => \A g \in Grants : disk[t][g] = "published"

\* At no time a committed entry and a usable draftDEK of it exist together
\* (design.md 9.4), whatever fails or crashes.
CommittedKeyGone ==
    \A t \in Txs : InChain(t) => slot # attempt[t].draft

\* Committed entries form one gapless line: no sequence is used twice and
\* none is skipped, across aborted, recovered and crashed attempts.
ChainLinear ==
    \A t \in Txs : InChain(t) =>
        /\ \A u \in Txs \ {t} : InChain(u) => attempt[u].seq # attempt[t].seq
        /\ attempt[t].seq = 0 \/
             \E u \in Txs : InChain(u) /\ attempt[u].seq + 1 = attempt[t].seq

\* A committed incident still owns its number in the register, so no later
\* incident can take it, though every failure path may release claims.
CommittedNumberHeld ==
    \A t \in Txs : InChain(t) /\ attempt[t].number # None => claim[t] = "held"

\* Two unreleased claims never name the same number.
NumberClaimedOnce ==
    \A t, u \in {v \in Txs : claim[v] = "held"} :
        attempt[t].number = attempt[u].number => t = u

\* A draft that cannot be decrypted is always explained by a transition row,
\* so a restart has a path out of it (replace_with_blank in one transaction).
LossExplained == pc # "wrapped" /\ ~Readable => transition # None

\* Once an incident's entry is durable and its marker cleared, amendments can
\* find it: the confirmation is never skipped by a crash or an error.
OriginalConfirmed ==
    \A t \in Txs :
        disk[t][Entry] = "published" /\ attempt[t].number # None /\ transition # t
            => t \in confirmed

\* A committed amendment follows a durably committed original that keeps its
\* incident number.
AmendmentAnchored ==
    \A t \in Txs : InChain(t) /\ attempt[t].orig # None =>
        LET orig == attempt[t].orig IN
            /\ disk[orig][Entry] = "published"
            /\ attempt[orig].seq < attempt[t].seq
            /\ claim[orig] = "held"

Sealed == transition \in Txs /\ slot # attempt[transition].draft

\* Behind the boundary (marker booked, key gone) the marker is given up only
\* for a durably committed entry: a sealed record is never lost.
SealedIsKept ==
    [][Sealed /\ transition' # transition =>
            disk[transition][Entry] = "published"]_vars

\* Nothing un-publishes: the objects of a durable entry never change again,
\* in particular not by reconcile_to_completion.
PublicationFinal ==
    [][\A t \in Txs : disk[t][Entry] = "published" => disk'[t] = disk[t]]_vars

\* Recovery that hands the draft back leaves it no number that it claimed and
\* cannot use: the pinned revision of step 9 does not hide the claim.
RestoredNumbersFree ==
    [][RestoreDraft => \A t \in Txs :
         attempt[t] # None /\ attempt[t].draft = row.id => claim[t] # "held"]_vars

\* A prepared finalization never hangs: recovery ends it, with the entry
\* committed or the draft restored.
PreparedResolves == transition \in Txs ~> transition \notin Txs

(***************************************************************************)
(* Refinement of RecordLifecycle: an attempt is sealed once its marker is  *)
(* booked and its draft's key is gone, and filed once its entry is durable.*)
(***************************************************************************)
Phase == [t \in Txs |->
    CASE attempt[t] = None -> "none"
      [] attempt[t] # None /\ disk[t][Entry] = "published" -> "filed"
      [] transition = t /\ disk[t][Entry] # "published" ->
            IF slot = attempt[t].draft THEN "open" ELSE "sealed"
      [] cur = t /\ transition # t /\ pc \in {"staging", "flushed"} -> "open"
      [] OTHER -> "dropped"]

Lifecycle == INSTANCE RecordLifecycle WITH phase <- Phase

\* Every step of the writer, each crash and error included, is a step of the
\* record life cycle or leaves it alone.
ImplementsLifecycle == Lifecycle!SafeSpec

\* With the fairness above, a sealed attempt is also always filed.
ImplementsFairLifecycle == Lifecycle!Spec

=============================================================================
