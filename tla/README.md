# Einsatzarchiv: TLA+ verification project

Einsatzarchiv is an encrypted, append-only archive of incident records.
A desktop writer works offline: it keeps one encrypted draft, seals it into a
signed entry and publishes entry and key grants into an archive directory.
Entries form a hash chain. A sync client uploads them to a server that cannot
read them ("blind") and that answers each commit with a signed receipt and a
checkpoint. Readers fetch the entries their grants open; administrators manage
the registry of certificates; records can be destroyed verifiably.

This directory models the parts of that system whose correctness depends on the
order of steps, on crashes and on interleavings. TLC checks the models on small
instances, TLAPS proves the safety properties the passing runs check for
every size.

All paths below are relative to `src/`. `design.md` stands for
`docs/superpowers/specs/2026-08-13-einsatzarchiv-v0-1-design.md`.

## 1. Inventory

| Part | State | Operations | Where it is hard | Module |
|---|---|---|---|---|
| Writer core: `crates/ea-writer` (finalize, recover, original_source, amendment) | prepared marker, claims of incident numbers, confirmed originals, archive objects | finalize (13 steps), recover_pending, reconcile_to_completion | a crash or an I/O error between any two durable effects; the deletion of the draft key is the point of no return | `WriterCore` |
| Draft store: `crates/ea-draft` | draft row, key slot, transition row | autosave, discard, resume_discard, resume_after_restart, replace_with_blank | one key slot for two drafts while one replaces the other; a key provider that reports a deletion it did not do | `WriterCore`, `WriterBackup` |
| Desktop program: `apps/desktop` writer page and host | page state, two pending calls, calls of earlier pages | load draft, recover, save, finalize, discard, reload | two concurrent calls at start-up in either order; calls that outlive the page that issued them; what a restart resumes | `DesktopWriter` |
| Archive backend: `crates/ea-archive`, `ea-archive-fs` | staged and published files | create, flush, rename, sync directory, remove | what is volatile until a directory is flushed | in `WriterCore` |
| Entry commit: `crates/ea-sync-server`, `apps/server` | chain head, entries, receipts, checkpoints | commit_entry | head, registry and checkpoint head are read without a lock and used later; nothing to lock for a first commit | `SyncServer` |
| Registry head selection: `crates/ea-trust` | known heads | select for a sequence and a time | heads expire and take effect between selection and commit | in `SyncServer` |
| Sync client: `crates/ea-sync-client` | derived queue, attempts, back-off, receipts | push_pending, publish to network archive, commit, persist receipt | lost answers, retries, receipt first in the network archive and then locally | `SyncClient` |
| Controlled network archive: `crates/ea-archive-fs`, `ea-admin` network_publication | pending plan, drain lock, host state, rows and baseline | publish, resume, drain, merge; start-up run, step 12, retry loop; prune, reopen | connectivity lost while draining, two threads, the limit, a baseline that is older than the rows | `PublicationQueue`, `NetworkHost`, `NetworkArchive` |
| Chain: `crates/ea-chain` | none | build_chain, forks, verified prefix, assess_rollback | pure, many cases | not yet |
| Challenges: `ea-sync-server` auth, `apps/server` auth_store | issued and spent challenges | issue, spend, expire | count then insert; spent once | not yet |
| Reader: `crates/ea-reader`, reader_sync, web OPFS worker | cursor, object list, cache | fetch, verify, confirm | two tabs, list before cursor, broken puts, tokens that expire, limit of cached objects | `ReaderSync` |
| Destruction: `crates/ea-destruction`, `ea-admin` destruction_runtime | custody, snapshot, job, events, stubs, files | prepare, start, resume, complete | files removed in a transaction that may roll back; custody that changes while a person signs | `LocalDestruction` |
| Trust admission, operator sessions, the server's destruction endpoints | | | persistent pin; proof windows; claims of other devices | not yet |
| Administration ceremonies, recovery tool, formats, cryptography, schema, search index, web pages, test kit | | | sequential, pure, or byte formats | not planned |

`PROJECT.json` lists every part with its sources and the reason where it is not
modelled, and the hazards of the code with their lines.

## 2. The modules

### WriterCore

One state machine for everything the writer makes durable.

| Variable | In the code |
|---|---|
| `row` | the one row of the draft table: identity and save revision |
| `slot` | the draft key in the keystore slot (`DraftKeyProvider`); a draft and its key share one identity |
| `transition` | the row of `draft_transition`: a booked discard (a draft), a prepared-finalization marker (an attempt) or nothing |
| `attempt` | what a finalization was made of: draft, revision, incident number, amended original, chain sequence |
| `claim`, `confirmed` | the number register (`writer_original_identity`, `incident_number_register`) and `writer_original_published` |
| `disk` | each archive object: absent, staged, published; the two states with a `V` are not yet flushed |
| `pc`, `cur` | where the running operation is |

All operations run under the writer and draft locks, and the desktop host puts
its own mutex around them, so one operation runs at a time. Its durable effects
are separate actions. Between two of them it can end in an error
(`AbortReversible`, `AbortUnclear`, `RollBackBlank`, `StepFails`) or the machine
can crash (`Crash`), which loses any subset of the unflushed directory entries.

A finalization is `FinalizeIncident`, `FinalizeAmendment` or
`FinalizeKeyTransition` (steps 1 to 7), `StageObject`, `FlushStaging`,
`BookMarker` (step 8), `PinRevision`, `DeleteDraftKey`, `ConfirmKeyAbsent`
(step 9), `PublishGrant`, `SyncGrants` (step 10), `PublishEntry`, `SyncEntry`,
`ConfirmOriginal` (step 11), `WrapBlankKey`, `CommitBlank` (step 13). Recovery
enters the same steps at `PublishGrant` when the draft does not decrypt any
more (`CompletePrepared`), and otherwise drops the marker and gives the numbers
back (`ReleaseClaim`, `RestoreDraft`). `Reconcile`, `RemoveResidue` and
`Reconciled` are the clean-up. `BeginDiscard` to `ConfirmDiscardedKeyAbsent` are
the discard, which ends in the same replacement by a blank draft.

Abstractions: entry and grant bytes are identities; validation that has no
effect on state (schema, certificates, preview) is left out, its failure is an
abort; a fresh random identity is one nothing refers to; the delayed deletion
some platforms' keystores have is not modelled beyond a deletion that reports
success and keeps the key.

### RecordLifecycle

The promise of the writer without files or keys: an attempt is open and can be
dropped, sealing it is irreversible, a sealed attempt is filed, and one attempt
is in progress at a time. `WriterCore!Phase` is the refinement mapping: sealed
means that the marker is booked and the slot does not hold the draft's key,
filed that the entry is durable.

### WriterBackup

`WriterCore` with a copy of the database files that can be put back at any quiet
moment. Keys are bound to the device and the archive directory is not part of
the copy. It adds the one path of `resume_after_restart` that matters only here,
the replacement of an unreadable draft that no transition explains.

### DesktopWriter

`WriterCore` behind the writer page. The page issues `draft_load_active` and
`writer_recover_pending` at once; the host's mutex runs them in either order.
One refused call closes the page. A recovery that answers "irreversible" or
"blocked" withholds the entry form. Only an open form asks for a save, a
finalization or a discard (`Click`). The call itself follows a reauthentication and
outlives the page: `request` holds the calls of this and of earlier pages that
have not run, `Operate` runs one of them at any time, and `overtaken` remembers
that one ran after the draft of the page that is opening was loaded. A
finalization needs the preview the host keeps, which every other call takes back
(`WithoutPreview`). The shell runs a recovery of its own before it shows any page;
the model leaves it out and so has more behaviours than the program.

### SyncServer and AcceptedChain

`SyncServer` is the handler of an entry commit. Handlers run concurrently; each
await is a place where another one may run. A handler reads the clock and the
head (`Receive`, `ReadHead`), fixes the accepted time, selects and validates the
registry head and signs the receipt (`Admit`), reads the newest checkpoint
(`ReadCheckpointHead`), and runs the transaction. With a head row the
transaction is atomic under `SELECT ... FOR UPDATE` (`CommitLockedHead`). For the
first commit of a chain there is no row to lock; its statements are then
separate actions (`LockMisses`, `LookUpIdentity`, `CompareCheckpointHead`,
`InsertFirst`) and only the unique constraints decide. `ClassifyHeadConflict`
reads the head again before it accuses anyone. A dependency can be unavailable
at every await, the acknowledgement of a commit can be lost, recording a
security event is best effort, the process can crash, and the registry can learn
its next head at any time (`PublishHead`).

Abstractions: entries, grant sets and checkpoints are identities (a checkpoint
is named by the entry it covers); signatures hold; objects in the object store
are content-addressed and an object no row refers to is read by nobody, so the
store is not a variable; `issuedAt` of a head is part of its `notBefore`. The
clock may show any value of `Times`, a step back included.

`AcceptedChain` is the promise: receipts are appended one at a time, each for an
entry that names the last one, with times that do not go back.

### NetworkArchive

A writer whose archive is a network directory. It commits into a local SQLCipher
component of bounded size and removes a row again ("prunes") once the directory
has it. `local` are the rows, `net` the directory, `proc` the activity of each
process with the runtime it keeps (`base`, the view of the directory it was
opened with, and `next`, the sequence it proposes), `lock` the writer lock of the
database, `staged` and `prepared` the running finalization. An opening reads the
directory (or falls back to its baseline), then the rows, verifies the union,
prunes, and is kept or dropped by its caller. A finalization rebuilds the head
from baseline and rows as they are at that moment and compares it with what the
runtime proposes. Publication is abstract: a committed object arrives after its
grants and the entries before it.

### PublicationQueue

The place for one pending plan (`slot`), the lock of the drain with the objects
still to publish, and the answer to each caller: publish with its merge and
limit, publication of one object at a time, the two ways a drain stops, resume,
and the loss of everything at the end of the process. It has no specification of
its own; `NetworkHost` and `SyncClient` instantiate it with their directory as
`target`.

### NetworkHost

Who publishes: the writer's thread at start-up and as step 12 of a finalization,
and the loop that retries. It extends `NetworkArchive` by the queue, the two
mutexes (`inner` of the desktop runtime, `run` of the host), the observed state,
attempts and signal of the host. The writer's `Act` runs the steps of
`NetworkArchive` under `inner`; the loop asks for `inner` and goes without when it
is taken. `ImplementsArchive` is the specification of the extended module: what
queue and threads do together to the directory, the rows and the process is a
step `NetworkArchive` allows, or none.

### SyncClient

`push_pending` for the network profile, one action per await: derive the open
entries, look at the retry schedule, publish the plan, fetch a challenge, send the
commit, publish the receipt, write the local receipt, clear the schedule, report.
The server is external and is used as `client.rs` uses it: it accepts or fails, an
answer may be lost after it accepted. A profile migration asks the same queue
concurrently. A run is once-derived: the queue of a run does not grow while it
runs.

### LocalDestruction

The destruction of entries on the device that holds them. `rows` is the committed
database (request, custody learned so far, the frozen snapshot of it, the job, the
start event, measurements, purge, attestation, completion), `file` and `stub` are
the directories with what is not flushed yet, `locked` and `db` the locks, all of
which are tried and never waited for. A call is a sequence of transactions; the one
of `execute_local_guarded` stays open over stubs, removals and the last scan, from
`EnterLocation` to `Measure`. Any step can fail, power can be lost, other programs
write objects of the same entries, and the registry admits further devices. A
stub is created under its final name and then written, so an error within the
write, or a loss of power before the flush, leaves it "torn"; every later call finds
other bytes than its own and refuses. `Configured` is the order in which the
holders are observed, `Order` the one in which the locations are visited, and the
purge visits the first configured one once more.

### ReaderSync

Paging of the web reader: the endpoint with its tokens, and tabs that share one
store of exclusive handles. A tab asks with the stored cursor, computes the keys
it needs under a first opening, stores the page under a second one, verifies
everything it can see, extends the object list and then moves the cursor. The
queues for the handles are those of one tab: a file that another tab has open
refuses the opening, which ends the call and loses the answer (`RefuseStore`). An
opening takes several awaits; what tells openings apart is who has the handle of
the cursor (`holder`), which each of them needs. A put
truncates, writes and flushes, so that a broken one leaves an absent or a torn
blob (`PutBreaks`). The server is honest.

## 3. What the runs check

Model values stand for identities; symmetry is used in safety runs only, and
only over constants the modules treat alike. Deadlock checking is on in every
passing run.

| Run | Instance | Distinct states | Shows |
|---|---|---|---|
| `core` | 2 attempts, 3 drafts, 2 numbers, 2 grants, saves up to revision 1 | 635,768 | `TypeOK`, `PreparedComplete`, `GrantsBeforeEntry`, `CommittedKeyGone`, `ChainLinear`, `CommittedNumberHeld`, `NumberClaimedOnce`, `LossExplained`, `OriginalConfirmed`, `SealedIsKept`, `PublicationFinal`, `RestoredNumbersFree` |
| `desktop` | 1 attempt, 3 drafts, 1 grant, saves up to revision 1, 1 call that has not run | 293,139 | `FormShowsActiveDraft`, `RestartResolves`, `ImplementsFairLifecycle` |
| `server` | 2 handlers, rival first entries and a second entry, 2 grant sets, 3 registry heads of 2 writers, 2 times | 336,540 | `OneChain`, `CheckpointsFollowChain`, `AcceptedTimesMonotone`, `OneReceipt`, `AcceptedUnderHead`, `AccusationTrue`, `ImplementsChain` |
| `network_archive` | 2 processes, one of them a writer, entry 0 published, 1 to 3 new, 4 rows | 1,947,714 | `SequenceFresh`, `OpeningSeesHead` |
| `network_sequence` | 2 writer processes, sequences 0 to 2 | violation | finding 1 |
| `network_host` | writer thread and retry loop, entry 1 published and still a row, entry 2 new, 4 rows, 1 attempt | 210,098 | `NoLostWakeup`, `SavedIsPublished`, `KeptViewComplete`, `EntriesPublished`, `ImplementsArchive` |
| `sync_client` | 2 entries, batches of 2, 2 attempts, a queue of 3 objects | 107,858 | `UploadAfterNetwork`, `SynchronizedTrue`, `GateTruthful`, `EntriesConfirmed` |
| `sync_receipt` | as `sync_client` | violation | finding 2 |
| `destruction` | 1 process, 2 locations, the primary one visited first and configured last, 1 target, 1 further device, 1 arriving object | 278,293 | `RemovalCovered`, `ReportsTrue`, `DenominatorKept`, `StartedResolves` |
| `destruction_removal` | as `destruction` | violation | finding 3 |
| `reader` | 2 tabs, 3 entries, pages of 1, 3 cached objects, 1 broken put | 348,470 | `CursorCovered`, `ForkOnlyAfterLoss`, `CatchesUp` |
| `reader_expiry` | 1 tab, no broken put | violation | finding 4 |

Every property is stated in words above its definition. Each one that passes has
a mutant in `PROJECT.json`: a plausible bug in one mapped definition under which
TLC finds the property violated.

Eight further configurations are kept beside these and are run by hand:
`MCWriterBackup` (1,119,276 states: `CommittedKeyGone` and `PublicationFinal` also
when an old copy of the database is put back), and seven that end in a
counterexample, `MCWriterBackupSequence`, `MCDesktopDiscard`, `MCDesktopLateCall`,
`MCSyncFirstCommit`, `MCSyncLostRace`, `MCSyncReplay` and `MCReaderTabs`
(section 5).

### Why the bounds are enough

* `WriterCore`. Two attempts: an aborted or lost attempt and the one that follows
  it, an incident and its amendment, two rivals for a sequence or a number. Three
  drafts: one for each attempt and the blank one after them; a discard, or a blank
  draft whose transaction rolled back and left a stray key, takes the place of an
  attempt. With four drafts `core` was checked once (683,576 states). Two grants in
  `core`, so that a crash can keep one and lose the other. Revision 1: one save
  before a finalization and the pinning save of step 9 separate the revision of a
  claim from the one recovery sees. The proofs cover any number of each.
* `DesktopWriter`. One attempt: its properties are about the page and one prepared
  finalization. Three drafts, since with two the replacement finds no fresh
  identity after a discard and the run would stop where the program does not. One
  call that has not run is enough to overtake a page that opens; with two such
  calls, with two grants (580,155 states), and with two grants and four drafts
  (1,457,720 states) the same properties were checked once.
* `SyncServer`. All races of the commit are between a read of one handler and a
  transaction of another. Rival first entries, a second entry, two grant sets and
  two times let each comparison of the transaction fail on its own. Of the
  registry heads one expires, one lies in the future, one takes effect at
  sequence 1 and names another writer. The proofs cover any instance.
* `NetworkArchive`. A gap between baseline and rows needs three entries: one in the
  baseline, one pruned, one still a row. A second process is what can prune behind
  the back of a runtime that stays open. Four rows leave room for one entry with
  its grants and one more, so that the limit is met and is passed again.
* `NetworkHost`. One process, because both mutexes are inside one. One entry left
  over from before the start, one new one: a run at start-up, a step 12 and a
  retry all have work. One attempt before the host gives up, because the property
  is about what wakes it.
* `SyncClient`. Two entries: the second waits while the first one's schedule
  stops the line. The plan of the second entry fills the queue of three objects, so
  that the merge with the plan of the migration passes the limit
  (`PublishOverLimit`). Two attempts: one retry, then the back-off. A batch of two
  never ends a run early; with a batch of one, where it does, the same properties
  were checked once (106,592 states). The proofs cover any number of each.
* `LocalDestruction`. Two locations, since the first configured one is visited
  twice and scanned last; one object that arrives late is enough to make a scan
  stale. The other orders were checked once (246,953 states with both orders
  exchanged, 246,502 with the primary location visited last), two
  processes over one location once for the safety properties (702,124 states); the
  proofs cover any number of processes and locations in any order. With two
  processes `StartedResolves` fails: locks are tried and not waited for, so two
  callers may keep refusing each other for ever; the desktop runs one such call at
  a time.
* `ReaderSync`. Three pages, so that a token can expire in the middle; two tabs,
  since the store is opened twice in a run; one broken put. The proofs cover any
  number of each.

### Fairness

`WriterCore!Fairness` and `DesktopWriter!DesktopFairness` assume:

* a running operation goes on or ends in an error (the host executes it);
* recovery is called again and again (`SF`: each opening of the writer page
  calls it; other operations may come first). In `DesktopWriter` that call is
  itself part of the model, and what is assumed is that the page is opened again
  and again;
* from some time on there are no crashes, and an operation fails only where the
  model leaves it no other step (`ForcedError`). Errors the code itself forces
  are not assumed away.

The last assumption cannot be replaced by strong fairness of the single steps:
with two grants, crashes that each time undo the rename of the other grant keep
publication from completing for ever although each rename happens infinitely
often.

`NetworkHost`, `SyncClient`, `LocalDestruction` and `ReaderSync` follow the same
pattern: a thread, tab or call that runs goes on (`WF`); what a person or a timer
does again and again (a retry of the loop, the next push, a resume, the next
page) happens again and again; and from some time on the outside is well: the
directory can be reached, the server answers, power stays on, puts do not break.
"From some time on no fault" is `<>[][~Fault]_vars`, which excludes every step
with the effect of a fault. An error therefore leaves a state that no healthy
step leaves (an own result, activity or message), so that excluding the fault
does not also exclude the program's own refusals. Those remain: an over-full plan,
a refused token, a lock that is taken, a torn stub. `EntriesConfirmed` is stated for queues
whose plans fit (`Roomy`), see section 5.

Three liveness properties say what they leave open. `StartedResolves` promises an
attested destruction or a conflict that a person has to settle; a stub of which
only a part was written is one, and no later resume gets past it. `CatchesUp`
assumes only that some tab goes on (`WF` of all tabs together), and promises that
the reader catches up once one tab is left: several can refuse each other for ever
(`TabsCatchUp`, `MCReaderTabs`). It does not speak of a dead token, which is finding
4. `RestartResolves` assumes that the page is left and opened again and again.

`SyncServer` has no liveness property: a handler is driven by its client, and a
handler that is left alone only keeps its client waiting.

## 4. What is proved

All theorems hold for every value of the constants under the `ASSUME`s of the
modules, which the runs evaluate. Every safety property of a passing run is proved;
what is only model-checked is listed at the end of this section.

### WriterCoreProofs

For any sets of drafts, attempts, numbers and grants and any save bound:

| Theorem | Statement |
|---|---|
| `TypeCorrect` | `Spec => []TypeOK` |
| `PreparedAlwaysComplete` | `Spec => []PreparedComplete` |
| `PublicationOrder` | `Spec => []GrantsBeforeEntry` |
| `KeyGone` | `Spec => []CommittedKeyGone` |
| `NumberKept` | `Spec => []CommittedNumberHeld` |
| `NoSealedRecordLost` | `Spec => SealedIsKept` |
| `PublicationIsFinal` | `Spec => PublicationFinal` |

Assumptions: drafts and attempts are disjoint, `None` is none of them and no
attempt record, the entry is not a grant, there is a grant, the save bound is a
natural number.

The argument is four inductive invariants, each on top of the ones before:

1. `TypeInv`: `TypeOK`, and that everything that refers to an attempt (the
   running operation, the marker, an object on disk) refers to one that was
   started. Without this a marker could be booked for nothing.
2. `PublicationInv`: what is durable at each program counter, and that no marker
   is pending while objects are staged, cleaned up or discarded. That is what
   makes the clean-up harmless and what step 8 establishes for recovery.
3. `KeyInv`: a marker belongs to the draft in the row, and wherever publication
   goes on the slot does not hold that draft's key. `CommittedKeyGone` alone is
   not inductive: `PublishEntry` knows nothing of the slot. The fresh key of the
   blank draft keeps it because a fresh identity is one no attempt was made of.
4. `NumberInv`: the number of the running attempt is held while its operation
   works, and the number of a marker's attempt is held once the draft does not
   decrypt. Every release path (abort, recovery, clean-up) needs the draft's key
   or a run before the boundary, so none reaches a committed incident.

`SealedIsKept` and `PublicationFinal` then hold step by step: the lemma for each
has one case per action, and the only action that commits an entry is
`PublishEntry` (`OnlyPublishEntryCommits`).

### SyncServerProofs

For any number of handlers and entries, any manifests, registry and clock:

| Theorem | Statement |
|---|---|
| `ChainNeverForks` | `Spec => []OneChain` |
| `CheckpointsNeverFork` | `Spec => []CheckpointsFollowChain` |
| `TimesNeverGoBack` | `Spec => []AcceptedTimesMonotone` |
| `StoredReceiptDelivered` | `Spec => []OneReceipt` |
| `HeadCoversEntry` | `Spec => []AcceptedUnderHead` |
| `NoFalseForkAccusation` | `Spec => AccusationTrue` |
| `RefinesAcceptedChain` | `Spec => ImplementsChain` |

Assumptions: sequences and times are natural numbers, a predecessor is an entry
or `None`, the registry is finite, and `None` is no entry, row, receipt, answer
or event.

The inductive invariant `ServerInv` says of the rows (`ChainInv`) that they are
one chain without a missing sequence that ends in the head row, and of each
handler (`HandlerOK`) what its unlocked reads are still worth: its receipt is
covered by the registry head it names; what it has seen names visible entries;
one that found no head row is working on an entry of sequence 0 without a
predecessor; one whose entry another handler committed has seen an older head.

Then:

* `CheckpointOfHead`: the newest checkpoint is the one of the head's entry. A
  transaction that compares its anchor under the lock has the predecessor's.
* `Appends` is what every commit does, and each of the two transactions is shown
  to do it or to leave the rows alone (`CommitLockedStep`, `FirstCommitStep`).
  Without a lock the argument is the unique constraint: sequence 0 is free, no
  sequence is missing, hence there is no entry at all and any anchor is empty.
* `CommitKeepsInv` is the one place where rows change.
* The walk over the registry ends in a head (`PinExists`, by the least version
  that is not pinned), and a selected head covers what it was selected for.
* A fork event is the classification of a conflict (`NextEvent`), at which the
  head is the one seen; `HandlerOK` excludes an entry that is in the chain.
* For the refinement, `Mirrors` describes the abstract chain place by place. The
  `CHOOSE` in it is determined because a sequence is taken once, so a commit
  leaves all earlier places and appends one.

### WriterRecordProofs

On top of the four invariants above (`CoreInv`), for the writer and the desktop
program that drives it:

| Theorem | Statement |
|---|---|
| `NumbersClaimedOnce` | `Spec => []NumberClaimedOnce` |
| `LossAlwaysExplained` | `Spec => []LossExplained` |
| `RestoredNumbersAlwaysFree` | `Spec => RestoredNumbersFree` |
| `OriginalsAlwaysConfirmed` | `Spec => []OriginalConfirmed` |
| `ChainAlwaysLinear` | `Spec => []ChainLinear` |
| `AmendmentsAlwaysAnchored` | `Spec => []AmendmentAnchored` |
| `RefinesRecordLifecycle` | `Spec => ImplementsLifecycle` |
| `DesktopDrivesWriter` | `DesktopSpec => Spec` |
| `FormAlwaysShowsActiveDraft` | `DesktopSpec => FormShowsActiveDraft` |

Further assumption (`AnswersDistinct`): the answers of the two startup calls are
told apart from drafts and from `None`.

* What a step does to one piece of state is proved once, over all actions (the
  attempt table, an entry object, the transition row, the slot, the draft row, a
  claim), and each theorem argues from those lemmas.
* `ChainLinear` is not inductive: a commit must not leave a gap. `ChainInv` adds
  that the one attempt that can still commit (`Live`) carries the next sequence
  (`Ahead`); a live attempt becomes so by being begun, with a sequence read from
  the chain, and no other entry appears while it lives.
* `RestoredNumbersFree` rests on `RevisionInv`: the revision of a draft only grows,
  so no claim of the restored draft has a revision above the one recovery releases
  up to.
* `OriginalConfirmed` needs that an entry which is not flushed still has its
  marker (`ConfirmedInv`), `AmendmentAnchored` that the original an attempt names
  was durable when it began and keeps entry, attempt and number (`AnchorInv`).
* For the refinement each step moves one attempt by one phase or leaves all
  phases alone. Beginning needs that no other attempt is open or sealed.
* `DesktopDrivesWriter` carries every theorem about `Spec` over to `DesktopSpec`.
  `StartInv` says where the two startup calls can be relative to each other, in
  whichever order the host runs them, as long as no call of an earlier page came
  between (`overtaken`). Before the load such a call may run: the load sees what it
  left, and a late finalization is excluded once the recovery ran, because the
  recovery took back its preview.

### LocalDestructionProofs

For any number of processes, locations in any order, targets and devices:

| Theorem | Statement |
|---|---|
| `RemovalAlwaysCovered` | `Spec => []RemovalCovered` |
| `DenominatorNeverReplaced` | `Spec => DenominatorKept` |
| `ReportsAlwaysTrue` | `Spec => ReportsTrue` |

`RemovalInv` relates the rows to what each call remembers. While the transaction of
a removal is open, the custody is still the frozen snapshot, the call removes only
what the job names, and the stubs of the location are durable before the first
file goes (`RunOK`). A torn stub is never among the durable ones, so neither an
error within the write of a stub nor a loss of power opens a way to a removal.
Custody only grows (`Within`, an order on custodies), which is
why a call that compares snapshot and custody under the lock may rely on the
comparison until it lets go. For `ReportsTrue` the import inside complete is the
hard case: it started from rows whose custody is within the custody of now and,
past the freeze, within the snapshot, so that snapshot and custody are equal
(`WithinAntisym`) although a person signed in between.

### ReaderSyncProofs

For any number of tabs, any chain, page size and number of broken puts:

| Theorem | Statement |
|---|---|
| `CursorAlwaysCovered` | `Spec => []CursorCovered` |
| `ForkNeverWithoutLoss` | `Spec => []ForkOnlyAfterLoss` |

`ReaderInv` says of the store that the confirmed head is covered by object list and
cache (`StoreOK`), and of each tab what its page and keys are worth (`TabOK`). The
keys a tab computed under its first opening may be stale at the second one: they
are, unless the list was lost, a part of the list by now and of the page, and the
page still starts at the cursor, which is compared when the store is opened again.
From there on no other tab moves the list or the cursor, because a tab that works
on the store is its holder (`Reading`).

### NetworkArchiveProofs

For any number of processes, any chain and row limit:

| Theorem | Statement |
|---|---|
| `SequenceAlwaysFresh` | `OneWriter` implies `ArchiveSpec => SequenceFresh` |
| `OpeningAlwaysSeesHead` | `OneWriter` implies `ArchiveSpec => OpeningSeesHead` |

`OneWriter` (at most one of the processes finalizes) is a hypothesis of the
theorems, not of the module: without it they are false, which is finding 1. The
invariant says that directory and rows together have no gap and that the last
entry is still a row, or no entry was ever made here (`RowsOK`); so even an old view
of the directory, extended by the rows, ends at the true head, or leaves a gap at
which an opening is refused. Of each process it says that its view is a part of
the directory and, of the writer, that the sequence it proposes is the next one.

### NetworkHostProofs

For one process with its two threads, any chain, limit and number of attempts:

| Theorem | Statement |
|---|---|
| `HostImplementsArchive` | `Spec => ImplementsArchive` |
| `HostSequencesFresh` | `Spec => SequenceFresh /\ OpeningSeesHead` |
| `WakeupNeverLost` | `Spec => []NoLostWakeup` |
| `SavedAlwaysPublished` | `Spec => []SavedIsPublished` |
| `KeptViewAlwaysComplete` | `Spec => []KeptViewComplete` |
| `ExhaustedOnlyByRuns` | `Spec => []ExhaustedByRuns` |

`NetworkArchive` lets objects arrive in any order in which nothing precedes what it
needs. The host publishes the plan of a queue, so the refinement rests on plans
that never run ahead: `Closed` says that each object of a plan is committed and
that what it needs is published or stands before it. Deriving a plan establishes
this, merging two plans and cutting off a published part preserve it
(`QueueInv`). A process of its own has one writer, so the theorems of
`NetworkArchiveProofs` follow for the host (`HostSequencesFresh`).

`HostInv` has further parts: who holds which mutex at which step (`ThreadInv`);
that the runtime that is kept sees the directory (`SeenInv`); that a run whose
plan covers the rows leaves none unpublished, unless an action has written rows
since (`SavedInv`, which is why `SavedIsPublished` speaks of an idle writer); that
each attempt counted is a run that took place or the one under way (`AttemptInv`).

### SyncClientProofs

For any number of entries and grants, any batch, limit and number of attempts:

| Theorem | Statement |
|---|---|
| `UploadAlwaysAfterNetwork` | `Spec => []UploadAfterNetwork` |
| `SynchronizedAlwaysTrue` | `Spec => []SynchronizedTrue` |
| `GateAlwaysTruthful` | `Spec => GateTruthful` |
| `LocalReceiptAlwaysLast` | `Spec => []LocalReceiptLast` |
| `ClientTypeCorrect` | `Spec => []ClientTypeOK` |

`ClientInv` has five parts. The queue holds or has published whatever it took, and
while one caller drains nothing waits beside the plan (`QueueInv`): that is the gate
of the migration. What a run still has to do is in order and the other entries it
derived are accepted with their receipt (`RunInv`); each step of an entry has what
the one before left behind (`EntryInv`); no receipt is under way or anywhere without
an accepted entry (`RecordInv`); the schedule is within its bounds (`RetryInv`). That
the predecessor is accepted follows from the order: what stands before the head of
the line is done.

The open entries and the plan of an entry are recursive functions. What they
compute is proved without induction over an operator: a set of naturals that does
not contain them all has a least missing element (`UpTo`), and with it a function
defined by steps exists (`Recursion`).


### Only model-checked

Liveness under fairness and `ENABLED` are beyond the prover, so these stay with TLC:
`RestartResolves`, `EntriesPublished`, `EntriesConfirmed`, `StartedResolves`,
`CatchesUp`, and the fairness part of `ImplementsFairLifecycle` (its safety part is
`RefinesRecordLifecycle`). The properties of `WriterBackup` are model-checked by hand:
its old copy of the database is a state the invariants of the writer do not speak
of.

## 5. Findings

Places where the code does something else than a comment or the design says.
The first four are runs that TLC ends with a counterexample.

1. `network_sequence`: of two writer processes on one component, one that stayed
   open takes a sequence again that the other committed and pruned. The walk over
   the chain stops at the gap, so the head has not changed
   (`crates/ea-writer/src/finalize.rs:1088`).
2. `sync_receipt`: after a restart between the receipt in the directory and the
   local one the entry counts as confirmed, and the local receipt is never written
   (`crates/ea-sync-client/src/client.rs:506`).
3. `destruction_removal`: a removal whose directory flush was cut off is measured
   as done by the next resume, which finds the name absent and does not flush
   (`crates/ea-destruction/src/local.rs:220`).
4. `reader_expiry`: the page token of an unfinished run stays in the cursor, and
   no path of the product drops it once the server refuses it
   (`crates/ea-reader/src/sync.rs:751`).

With the configurations run by hand:

5. `MCWriterBackupSequence`: recovery completes a marker that came back with a
   restored database although its sequence has been used since (`design.md:467`,
   `:2141`).
6. `MCDesktopDiscard`: after a crash behind the key deletion of a discard, nothing
   at start-up resumes the discard and the writer page refuses to open
   (`DiscardDraftAction.tsx:67`, `design.md:432`).
7. `MCSyncFirstCommit`: of two identical first commits the loser hits the primary
   key and is recorded as an identity mismatch, the case the comment at
   `postgres.rs:492` means to exclude.
8. `MCSyncLostRace`: an entry that continues the chain is recorded as a checkpoint
   fork when its predecessor commits after the checkpoint head was read
   (`postgres.rs:244`).
9. `MCSyncReplay`: the retry of a committed entry is refused when the registry of
   today does not admit it any more, before the stored receipt is looked up
   (`design.md:1551`, `:1553`).

10. `MCDesktopLateCall`: the operator asks for a discard, leaves the page during the
   reauthentication and comes back; the discard runs after the new page has loaded
   the draft, and the form opens on the draft that was discarded
   (`WriterPage.tsx:330`; `design.md:1903`: the start view is always the active
   draft or a new empty one). `FormShowsActiveDraft` excepts exactly this.
11. `MCReaderTabs`: two tabs can refuse each other the store for ever, each losing the
   answer it fetched (`opfs_worker.rs:218`, `fetch.rs:187`), although the comment at
   `opfs_worker.rs:614` says that an opening waits. The queue it means is one
   within a tab.

Seen while modelling, and exempted from a property or without one:

* `SequenceFork` is documented as "the same sequence already carries another
  entry" (`commit.rs:152`), and is also raised for a sequence ahead of the chain.
* The queue keeps a plan that is already published until the next drain. With
  its rows pruned and new entries made, the merge passes the limit and is refused
  in every run until a restart (`publication_queue.rs:513`).
* A deferred receipt together with a full plan is refused for ever; the property
  `EntriesConfirmed` exempts this (`Roomy`).
* When the action that follows a commit fails before step 12, the state shown
  stays "lokal gesichert" until the next run (`network_publication.rs:342`,
  `:470`); `unreported` remembers this in `NetworkHost`.
* A put that breaks off after the truncation empties the reader's object list, and
  every later batch is then classified as a fork (`opfs_worker.rs:730`);
  `ForkOnlyAfterLoss` shows that the only other cause is a put of the registry head
  that was cut to nothing. The limit of the object
  list (`cursor.rs:306`) ends a paged run for good.
* A stub, or a trust object before it, that was cut off while it was written keeps
  its final name, and each later resume ends in a byte conflict
  (`local_path.rs:927`); `StartedResolves` counts this as a conflict.

## 6. Plan

1. `Chain`: build_chain, forks, verified prefix and assess_rollback as operators,
   against a reference definition over all small sets of nodes; then `WriterCore`
   takes its verified prefix from it.
2. `Challenges`: issue, spend, expire, with concurrent requests at the limit (the
   count and the insert are two statements, `auth.rs:477`).
3. `SyncClient` composed with `SyncServer` instead of the external server, and the
   local-path variant of the client.
4. Destruction across devices: claims of others, attestation, the server's
   endpoints.
5. The stale-registry receipt of the writer, the persistent trust pin, operator
   proof windows, rebuild_from_genesis of the reader.

Theorems, next: `CommittedKeyGone` and `PublicationFinal` of `WriterBackup`, and the
parts above as they are modelled.

## 7. What is not modelled

Byte formats, CBOR, cryptography, schema validation, the search index, web and
administration pages, the recovery tool and the guided ceremonies: pure
functions, presentation, or sequential procedures without shared state. Inside
modelled parts:

* writer: the preview binding and operator proofs of a finalization, the one-time
  stale-registry receipt, master data and CSV import;
* server: quotas, the sweep of orphaned objects, persistent trust state,
  challenges and sessions, the destruction endpoints;
* sync client: the local-path variant, `record_cursor`, `destruction_status`, the
  rule that a failed challenge is no attempt (`client.rs:589`);
* network archive: the WAL checks and the capability test of the component;
* destruction: the trust objects written before the stubs (one that is cut off
  refuses later runs like a torn stub), the number token, claims imported
  from other devices, pending and failure reports, `retry.rs`;
* reader: `rebuild_from_genesis`, the denial journal of destructions, the session
  lock, grants, receipts and checkpoints as separate objects, acknowledgements.
  The web application does not call the sync loop yet.

The components section of `PROJECT.json` gives the reason for each part.

## 8. Running

    tlc -config MCWriterCore.cfg MCWriterCore      # likewise for each run
    tlapm WriterCoreProofs.tla                     # likewise for each *Proofs module

The passing runs take one to three minutes each. Proofs from nothing take a few
minutes per module, about seven for `NetworkArchiveProofs` and `SyncClientProofs`
and about half an hour for `NetworkHostProofs`.
