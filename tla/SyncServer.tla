----------------------------- MODULE SyncServer -----------------------------
(***************************************************************************)
(* The entry commit of the blind server, POST /v1/chains/{id}/entry-commits*)
(* (crates/ea-sync-server commit, validation, receipt, checkpoint; the     *)
(* PostgreSQL and registry adapters of apps/server).                       *)
(*                                                                         *)
(* Handlers run concurrently and every await is a point where another may  *)
(* run: the chain head, the registry and the head of the checkpoint chain  *)
(* are read without a lock, the receipt and the checkpoint are built from  *)
(* what was read, and one transaction decides.  SELECT ... FOR UPDATE      *)
(* makes it atomic only once the chain has a head row to lock.             *)
(***************************************************************************)
EXTENDS Naturals, Sequences

CONSTANTS Requests,   \* handlers that may run at the same time
          Entries,    \* entry hashes of one chain
          SeqOf,      \* manifest: chain sequence of an entry
          PrevOf,     \* manifest: previous entry hash, or None
          BoundTo,    \* manifest: registry version of an entry
          WriterOf,   \* manifest: writer certificate of an entry
          GrantSets,  \* the grant objects delivered with an entry
          Heads,      \* the registry heads, in version order
          Times,      \* what the server clock may show
          None

ASSUME Manifests ==
    /\ SeqOf \in [Entries -> Nat]
    /\ PrevOf \in [Entries -> Entries \cup {None}]
    /\ None \notin Entries
    /\ Times \subseteq Nat
    /\ Len(Heads) \in Nat

VARIABLES
    head,       \* row of chain_heads, or None
    entries,    \* rows of entries, receipts and checkpoints, by entry hash
    published,  \* how many registry heads the server has learnt
    req         \* the handlers

vars == <<head, entries, published, req>>

Versions == 1 .. Len(Heads)
HeadRow == [seq : Nat, entry : Entries, accepted : Times]
Receipt == [entry : Entries, grants : GrantSets, accepted : Times,
            version : Versions]
\* anchor: the entry covered by the checkpoint named as predecessor.
Row == [receipt : Receipt, anchor : Entries \cup {None}]

ASSUME NoneIsNoRow == None \notin HeadRow \cup Row \cup Receipt

Running == {"received", "headRead", "stored", "ready", "unlocked",
            "lookedUp", "inserting", "conflict", "committed"}
Answers == {"receipt", "identity", "fork", "predecessor", "headConflict",
            "anchor", "headRequired", "noHead", "writer", "registry",
            "unavailable"}
Events == {"EntryIdentityMismatch", "SequenceFork", "PredecessorMismatch",
           "CheckpointPredecessorConflict", "WriterUnauthorized"}
ASSUME NoneIsNoAnswer == None \notin Answers \cup Events

Handler == [pc : Running \cup {"idle", "done"}, entry : Entries \cup {None},
            grants : GrantSets \cup {None}, now : Times \cup {None},
            seen : HeadRow \cup {None}, receipt : Receipt \cup {None},
            anchor : Entries \cup {None},
            answer : Answers \cup {None}, event : Events \cup {None}]
Idle == [pc |-> "idle", entry |-> None, grants |-> None, now |-> None,
         seen |-> None, receipt |-> None, anchor |-> None,
         answer |-> None, event |-> None]

Committed == {e \in Entries : entries[e] # None}
\* The newest checkpoint of the chain, named by the entry it covers.
CheckpointHead ==
    IF Committed = {} THEN None
    ELSE CHOOSE e \in Committed : \A f \in Committed : SeqOf[f] <= SeqOf[e]
\* The one sequence and predecessor a head admits next.
NextSeq(h) == IF h = None THEN 0 ELSE h.seq + 1
NextPrev(h) == IF h = None THEN None ELSE h.entry

Init ==
    /\ head = None
    /\ entries = [e \in Entries |-> None]
    /\ published = 1
    /\ req = [r \in Requests |-> Idle]

(***************************************************************************)
(* The registry walk for one sequence and time.  Heads are pinned one      *)
(* after the other while they are effective for the sequence and no longer *)
(* in the future; the last pinned one must still be valid.  A successor    *)
(* that is effective but lies in the future ends the walk without a head.  *)
(***************************************************************************)
Effective(v, seq) == v <= published /\ Heads[v].from <= seq
Pinned(v, seq, time) ==
    \A w \in 1 .. v : Effective(w, seq) /\ Heads[w].notBefore <= time
Pin(seq, time) ==
    CHOOSE v \in 0 .. Len(Heads) :
        Pinned(v, seq, time) /\ ~(v < Len(Heads) /\ Pinned(v + 1, seq, time))
UsableForever(v, seq, time) ==   \* mutant
    v # 0 /\ seq <= Heads[v].through
Usable(v, seq, time) ==
    v # 0 /\ seq <= Heads[v].through /\ time <= Heads[v].notAfter
select_head(seq, time) ==
    LET v == Pin(seq, time)
        pending == v < Len(Heads) /\ Effective(v + 1, seq)
    IN  IF pending THEN IF v # 0 /\ seq <= Heads[v].through
                        THEN "headRequired" ELSE "noHead"
        ELSE IF Usable(v, seq, time) THEN "selected" ELSE "noHead"

\* Step 2, in the order the code finds them: the writer, then the head.
validate_commit(e, v) ==
    IF WriterOf[e] # Heads[v].writer THEN "writer"
    ELSE IF BoundTo[e] > v THEN "headRequired"
    ELSE IF BoundTo[e] # v THEN "registry"
    ELSE "valid"

\* The handler answers; a security event is recorded, or lost with the sink.
Answer(r, code, kind) ==
    \E recorded \in {None, kind} :
        req' = [req EXCEPT ![r] =
            [Idle EXCEPT !.pc = "done", !.entry = req[r].entry,
                         !.grants = req[r].grants,
                         !.receipt = IF code = "receipt" THEN req[r].receipt
                                     ELSE None,
                         !.answer = code, !.event = recorded]]
Goto(r, step) == req' = [req EXCEPT ![r].pc = step]

(***************************************************************************)
(* Steps 1 to 5: stage, read the clock and the head, fix the accepted      *)
(* time, select the registry head for it, validate, store the objects and  *)
(* the signed receipt under their hashes.                                  *)
(***************************************************************************)
Receive(r, e, g, now) ==
    /\ req[r].pc = "idle"
    /\ req' = [req EXCEPT ![r] = [Idle EXCEPT !.pc = "received",
                    !.entry = e, !.grants = g, !.now = now]]
    /\ UNCHANGED <<head, entries, published>>

ReadHead(r) ==
    /\ req[r].pc = "received"
    /\ req' = [req EXCEPT ![r] = [@ EXCEPT !.pc = "headRead", !.seen = head]]
    /\ UNCHANGED <<head, entries, published>>

accepted_at_bumped(r) ==   \* mutant: strictly after the head
    IF req[r].seen # None /\ req[r].seen.accepted >= req[r].now
    THEN req[r].seen.accepted + 1 ELSE req[r].now
accepted_at(r) ==
    IF req[r].seen # None /\ req[r].seen.accepted > req[r].now
    THEN req[r].seen.accepted ELSE req[r].now

Admit(r) ==
    LET e == req[r].entry
        time == accepted_at(r)
        v == Pin(SeqOf[e], time)
        choice == select_head(SeqOf[e], time)
        verdict == validate_commit(e, v)
        receipt == [entry |-> e, grants |-> req[r].grants,
                    accepted |-> time, version |-> v]
    IN  /\ req[r].pc = "headRead"
        /\ \/ /\ choice # "selected"
              /\ Answer(r, choice, None)
           \/ /\ choice = "selected" /\ verdict # "valid"
              /\ Answer(r, verdict, IF verdict = "writer"
                                    THEN "WriterUnauthorized" ELSE None)
           \/ /\ choice = "selected" /\ verdict = "valid"
              /\ req' = [req EXCEPT ![r] = [@ EXCEPT !.pc = "stored",
                                    !.now = None, !.receipt = receipt]]
        /\ UNCHANGED <<head, entries, published>>

\* The checkpoint is built over the newest one, read without a lock.
ReadCheckpointHead(r) ==
    /\ req[r].pc = "stored"
    /\ req' = [req EXCEPT ![r] = [@ EXCEPT !.pc = "ready",
                                           !.anchor = CheckpointHead]]
    /\ UNCHANGED <<head, entries, published>>

(***************************************************************************)
(* Step 8, commit_locked_head, as the parts of one transaction.  h is the  *)
(* head the transaction read.                                              *)
(***************************************************************************)
SameEntryHash(r) == TRUE   \* mutant: the grants are not compared
SameIdentity(r) == entries[req[r].entry].receipt.grants = req[r].grants

Replay(r) ==
    /\ req[r].entry \in Committed
    /\ SameIdentity(r)
    /\ req' = [req EXCEPT ![r] = [@ EXCEPT !.pc = "committed",
                          !.receipt = entries[req[r].entry].receipt]]
    /\ UNCHANGED <<head, entries>>

Contradict(r) ==
    /\ req[r].entry \in Committed
    /\ ~SameIdentity(r)
    /\ Answer(r, "identity", "EntryIdentityMismatch")
    /\ UNCHANGED <<head, entries>>

ExtendsWithoutTime(r, h) ==   \* mutant
    /\ SeqOf[req[r].entry] = NextSeq(h)
    /\ PrevOf[req[r].entry] = NextPrev(h)
ExtendsAnyEntry(r, h) ==   \* mutant
    /\ SeqOf[req[r].entry] = NextSeq(h)
    /\ h # None => req[r].receipt.accepted >= h.accepted
Extends(r, h) ==
    /\ SeqOf[req[r].entry] = NextSeq(h)
    /\ PrevOf[req[r].entry] = NextPrev(h)
    /\ h # None => req[r].receipt.accepted >= h.accepted

LoseHead(r, h) ==
    /\ req[r].entry \notin Committed
    /\ ~Extends(r, h)
    /\ Goto(r, "conflict")
    /\ UNCHANGED <<head, entries>>

AnchorMovedIgnored(r) == FALSE   \* mutant
AnchorMoved(r) == req[r].anchor # CheckpointHead

LoseAnchor(r) ==
    /\ AnchorMoved(r)
    /\ Answer(r, "anchor", "CheckpointPredecessorConflict")
    /\ UNCHANGED <<head, entries>>

\* All rows become visible together; the acknowledgement may get lost.
Commit(r) ==
    /\ entries' = [entries EXCEPT ![req[r].entry] =
            [receipt |-> req[r].receipt, anchor |-> req[r].anchor]]
    /\ head' = [seq |-> SeqOf[req[r].entry], entry |-> req[r].entry,
                accepted |-> req[r].receipt.accepted]
    /\ Goto(r, "committed") \/ Answer(r, "unavailable", None)

CommitLockedHead(r) ==
    /\ req[r].pc = "ready"
    /\ head # None
    /\ \/ Replay(r)
       \/ Contradict(r)
       \/ LoseHead(r, head)
       \/ /\ req[r].entry \notin Committed
          /\ Extends(r, head)
          /\ LoseAnchor(r) \/ (~AnchorMoved(r) /\ Commit(r))
    /\ UNCHANGED published

(***************************************************************************)
(* The first commit of a chain: there is no row to lock, so every          *)
(* statement of the transaction has its own snapshot.                      *)
(***************************************************************************)
LockMisses(r) ==
    /\ req[r].pc = "ready"
    /\ head = None
    /\ Goto(r, "unlocked")
    /\ UNCHANGED <<head, entries, published>>

LookUpIdentity(r) ==
    /\ req[r].pc = "unlocked"
    /\ \/ Replay(r)
       \/ Contradict(r)
       \/ LoseHead(r, None)
       \/ /\ req[r].entry \notin Committed
          /\ Extends(r, None)
          /\ Goto(r, "lookedUp")
          /\ UNCHANGED <<head, entries>>
    /\ UNCHANGED published

CompareCheckpointHead(r) ==
    /\ req[r].pc = "lookedUp"
    /\ \/ LoseAnchor(r)
       \/ /\ ~AnchorMoved(r)
          /\ Goto(r, "inserting")
          /\ UNCHANGED <<head, entries>>
    /\ UNCHANGED published

\* Unique constraints: the primary key, then chain and sequence.
SequenceTakenNowhere(r) == FALSE   \* mutant
SequenceTaken(r) == \E e \in Committed : SeqOf[e] = SeqOf[req[r].entry]

InsertFirst(r) ==
    /\ req[r].pc = "inserting"
    /\ \/ /\ req[r].entry \in Committed
          /\ Answer(r, "identity", "EntryIdentityMismatch")
          /\ UNCHANGED <<head, entries>>
       \/ /\ req[r].entry \notin Committed
          /\ SequenceTaken(r)
          /\ Goto(r, "conflict")
          /\ UNCHANGED <<head, entries>>
       \/ /\ req[r].entry \notin Committed
          /\ ~SequenceTaken(r)
          /\ Commit(r)
    /\ UNCHANGED published

(***************************************************************************)
(* classify_head_conflict: the head is read again; only an unchanged head  *)
(* allows an accusation.  Step 9: the stored receipt is read back.         *)
(***************************************************************************)
HeadNeverMoved(r) == TRUE   \* mutant
HeadUnmoved(r) == req[r].seen = head

ClassifyHeadConflict(r) ==
    LET e == req[r].entry
        seen == req[r].seen
    IN  /\ req[r].pc = "conflict"
        /\ \/ /\ HeadUnmoved(r) /\ SeqOf[e] # NextSeq(seen)
              /\ Answer(r, "fork", "SequenceFork")
           \/ /\ HeadUnmoved(r) /\ SeqOf[e] = NextSeq(seen)
              /\ PrevOf[e] # NextPrev(seen)
              /\ Answer(r, "predecessor", "PredecessorMismatch")
           \/ \* the head moved, or could not be read again
              Answer(r, "headConflict", None)
        /\ UNCHANGED <<head, entries, published>>

Deliver(r) ==
    /\ req[r].pc = "committed"
    /\ Answer(r, "receipt", None)
    /\ UNCHANGED <<head, entries, published>>

\* PostgreSQL or the object store does not answer: 503.
Unavailable(r) ==
    /\ req[r].pc \in Running
    /\ Answer(r, "unavailable", None)
    /\ UNCHANGED <<head, entries, published>>

Close(r) ==
    /\ req[r].pc = "done"
    /\ req' = [req EXCEPT ![r] = Idle]
    /\ UNCHANGED <<head, entries, published>>

Crash ==
    /\ req' = [r \in Requests |-> Idle]
    /\ UNCHANGED <<head, entries, published>>

\* POST /v1/trust/events: the server learns the next registry head.
PublishHead ==
    /\ published < Len(Heads)
    /\ published' = published + 1
    /\ UNCHANGED <<head, entries, req>>

Step(r) == ReadHead(r) \/ Admit(r) \/ ReadCheckpointHead(r)
             \/ CommitLockedHead(r) \/ LockMisses(r) \/ LookUpIdentity(r)
             \/ CompareCheckpointHead(r) \/ InsertFirst(r)
             \/ ClassifyHeadConflict(r) \/ Deliver(r) \/ Unavailable(r)

Next ==
    \/ \E r \in Requests, e \in Entries, g \in GrantSets, now \in Times :
          Receive(r, e, g, now)
    \/ \E r \in Requests : Step(r) \/ Close(r)
    \/ Crash
    \/ PublishHead

Spec == Init /\ [][Next]_vars
-----------------------------------------------------------------------------
\* The state has its shape.
TypeOK ==
    /\ head \in HeadRow \cup {None}
    /\ entries \in [Entries -> Row \cup {None}]
    /\ published \in Nat
    /\ req \in [Requests -> Handler]

\* The visible rows are one chain that ends in the head row: no sequence is
\* taken twice, every entry's predecessor is visible just before it, and no
\* race between unlocked reads and the transaction, nor one of two first
\* commits with nothing to lock, can change that.
OneChain ==
    /\ head = None <=> Committed = {}
    /\ head # None => head.entry \in Committed /\ head.seq = SeqOf[head.entry]
    /\ \A e \in Committed :
         /\ SeqOf[e] <= head.seq
         /\ IF SeqOf[e] = 0 THEN PrevOf[e] = None
            ELSE PrevOf[e] \in Committed /\ SeqOf[PrevOf[e]] + 1 = SeqOf[e]
         /\ \A f \in Committed : SeqOf[f] = SeqOf[e] => f = e

\* The checkpoint chain does not fork: the checkpoint of a visible entry names
\* the checkpoint of that entry's predecessor, although it was read without a
\* lock and signed before the transaction.
CheckpointsFollowChain ==
    \A e \in Committed : entries[e].anchor = PrevOf[e]

\* An accepted time is never below the one of the entry before it, although
\* it is computed from an unlocked read and the server clock may step back.
AcceptedTimesMonotone ==
    \A e \in Committed : PrevOf[e] # None =>
        entries[e].receipt.accepted >= entries[PrevOf[e]].receipt.accepted

\* A client is only ever handed the receipt that the transaction made visible
\* for exactly the entry and grants it sent: a retry, a lost acknowledgement,
\* or a second receipt signed for the same entry and discarded, never lets
\* another receipt out.
OneReceipt ==
    \A r \in Requests : req[r].answer = "receipt" =>
        /\ req[r].entry \in Committed
        /\ req[r].receipt = entries[req[r].entry].receipt
        /\ req[r].receipt.grants = req[r].grants

\* Every visible entry was accepted at a time and a sequence its registry head
\* covers, and by that head's writer, although the head is selected long before
\* the commit and the accepted time is not the clock of the request.
AcceptedUnderHead ==
    \A e \in Committed :
        LET receipt == entries[e].receipt
            h == Heads[receipt.version]
        IN  /\ h.from <= SeqOf[e] /\ SeqOf[e] <= h.through
            /\ h.notBefore <= receipt.accepted /\ receipt.accepted <= h.notAfter
            /\ WriterOf[e] = h.writer

\* The handler answers with one of these security events.
Accuses(r, kinds) == req'[r] # req[r] /\ req'[r].event \in kinds
\* The entry is the next one of the chain as it stands.
Continues(e) == SeqOf[e] = NextSeq(head) /\ PrevOf[e] = NextPrev(head)

\* A fork or predecessor accusation is never raised against an entry that is
\* in the chain or that continues it: losing a race is no accusation, because
\* classify_head_conflict reads the head again.
AccusationTrue ==
    [][\A r \in Requests : Accuses(r, {"SequenceFork", "PredecessorMismatch"})
          => req[r].entry \notin Committed /\ ~Continues(req[r].entry)]_vars

\* The receipts of the visible entries, in chain order.
ChainSoFar ==
    [i \in 1 .. NextSeq(head) |->
        entries[CHOOSE e \in Committed : SeqOf[e] = i - 1].receipt]
Chain == INSTANCE AcceptedChain WITH chain <- ChainSoFar, Receipts <- Receipt

\* The commit implements the abstract chain of accepted entries: every step of
\* every handler appends one admissible receipt or leaves the chain alone.
ImplementsChain == Chain!Spec

-----------------------------------------------------------------------------
\* Claimed by the comment on map_commit_error: a first commit that loses its
\* race is not reported as the same entry hash with another identity.
IdentityAccusationTrue ==
    \A r \in Requests : req[r].event = "EntryIdentityMismatch" =>
        req[r].entry \in Committed /\ ~SameIdentity(r)

\* Claimed by the comment on the checkpoint comparison: a lost race stays a
\* head conflict and does not become an accusation of forking, least of all
\* against the entry that continues the chain as it stands.
LostRaceNoFork ==
    [][\A r \in Requests : Accuses(r, {"CheckpointPredecessorConflict"})
          => ~Continues(req[r].entry)]_vars

\* Claimed by the design: the same commit identity is a successful replay and
\* yields the stored receipt; it is not refused for the registry of today.
ReplayNotRefused ==
    [][\A r \in Requests :
          /\ req'[r] # req[r]
          /\ req'[r].answer \in {"noHead", "headRequired", "registry", "writer"}
          => ~(req[r].entry \in Committed /\ SameIdentity(r))]_vars
=============================================================================
