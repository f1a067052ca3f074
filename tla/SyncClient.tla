----------------------------- MODULE SyncClient -----------------------------
(***************************************************************************)
(* The upload of committed entries (ea-sync-client) for the network        *)
(* profile: every entry goes through the publication queue into the        *)
(* network directory, then to the server, and the server's receipt goes    *)
(* into the network directory and then into the local component.  A        *)
(* profile migration asks the same queue whether anything is outstanding.  *)
(*                                                                         *)
(* The committed view is the union of the network directory and the local  *)
(* component.  It is read when a run begins; a directory that cannot be    *)
(* read is replaced by its content at the start of the process.  The       *)
(* entries and grants are all in the local component here, its clean-up is *)
(* in NetworkArchive.  The server is external: it accepts an entry or      *)
(* fails, and it answers an entry it knows with the same receipt.          *)
(***************************************************************************)
EXTENDS Integers, Sequences, Functions

CONSTANTS
    LastEntry,     \* entries 1 .. LastEntry
    Grants,        \* number of initial grants of an entry
    MaxAttempts,   \* max_resume_attempts
    Batch,         \* limit of entries of one run
    MaxObjects,    \* limit of the publication queue
    NoCaller

Entries == 1 .. LastEntry
Callers == {"client", "migration"}

ASSUME ClientAssumption ==
    /\ LastEntry \in Nat /\ MaxAttempts \in Nat \ {0} /\ MaxObjects \in Nat
    /\ Batch \in Nat \ {0}
    /\ Grants \in [Entries -> Nat \ {0}]
    /\ NoCaller \notin Callers

VARIABLES
    committed,             \* the entries 1 .. committed exist
    receipts,              \* receipts in the local component
    net, reachable,        \* the network directory
    baseline,              \* its receipts at the start of the process
    accepted,              \* entries the server has accepted
    retry,                 \* sync_retry: failed attempts, due or not
    client,                \* the run of push_pending
    slot, drain, outcome,  \* of the queue
    taken                  \* history: objects the queue has accepted

queue == <<slot, drain, outcome>>
vars == <<committed, receipts, net, reachable, baseline, accepted, retry,
          client, queue, taken>>

Grant(e, i) == <<e, "grant", i>>
Entry(e) == <<e, "entry", 0>>
Receipt(e) == <<e, "receipt", 0>>

Queue == INSTANCE PublicationQueue WITH target <- net

\* publication_plan: the grants, then the entry.
Plan(e) == [i \in 1 .. Grants[e] |-> Grant(e, i)] \o <<Entry(e)>>
Objects == UNION {Range(Plan(e)) \cup {Receipt(e)} : e \in Entries}

Idle == [pc |-> "idle", todo |-> <<>>, pushed |-> 0, confirmed |-> 0,
         pending |-> 0, step |-> "none"]
Current == Head(client.todo)

ClientTypeOK ==
    /\ committed \in 0 .. LastEntry
    /\ receipts \subseteq Entries
    /\ baseline \subseteq Entries
    /\ accepted \subseteq Entries
    /\ net \subseteq Objects
    /\ reachable \in BOOLEAN
    /\ retry \in [Entries -> [failed : 0 .. MaxAttempts, due : BOOLEAN]]
    /\ client.todo \in Seq(Entries)
    /\ client.pushed + Len(client.todo) <= client.pending
    /\ client.pending + client.confirmed <= committed
    /\ Len(slot) <= MaxObjects
    /\ outcome \in [Callers -> Queue!Outcomes]

Init ==
    /\ committed = 0
    /\ receipts = {}
    /\ net = {}
    /\ reachable = TRUE
    /\ baseline = {}
    /\ accepted = {}
    /\ retry = [e \in Entries |-> [failed |-> 0, due |-> TRUE]]
    /\ client = Idle
    /\ Queue!QueueInit
    /\ taken = {}

-----------------------------------------------------------------------------
\* The run.

Go(pc) == client' = [client EXCEPT !.pc = pc]
Waits(step) == client' = [client EXCEPT !.pc = "report", !.step = step]
\* An Err: the caller learns no status.
Fails == client' = Idle
\* No run: the last one returned, or was ended by a fault or a restart.
Resting == {"idle", "failed", "restarted"}
Ends(pc) == client' = [Idle EXCEPT !.pc = pc]

Confirmed ==
    receipts \cup
    (IF reachable THEN {e \in Entries : Receipt(e) \in net} ELSE baseline)

\* derive, once per run: what is committed and not confirmed, in order.
Open ==
    LET upTo[i \in 0 .. committed] ==
          IF i = 0 THEN <<>>
          ELSE IF i \in Confirmed THEN upTo[i - 1]
          ELSE Append(upTo[i - 1], i)
    IN upTo[committed]

BeginRun ==
    /\ client.pc \in Resting
    /\ LET open == Open
       IN client' = [pc |-> "next", todo |-> open, pushed |-> 0,
                     confirmed |-> committed - Len(open),
                     pending |-> Len(open), step |-> "none"]
    /\ UNCHANGED <<committed, receipts, net, reachable, baseline, accepted,
                   retry, queue, taken>>

\* The schedule of the next entry stands before the line: an exhausted or
\* resting entry stops the run, nothing overtakes it.
TakeEntry ==
    /\ client.pc = "next"
    /\ IF client.todo = <<>> \/ client.pushed = Batch
       THEN Go("report")
       ELSE LET row == retry[Current]
            IN  IF row.failed >= MaxAttempts THEN Waits("ResumeExhausted")
                ELSE IF ~row.due THEN Waits("ServerUpload")
                ELSE Go("publish")
    /\ UNCHANGED <<committed, receipts, net, reachable, baseline, accepted,
                   retry, queue, taken>>

\* A call of the queue on behalf of the run, then its drain.
Submit(plan, pc) ==
    /\ Queue!Publish("client", plan, reachable)
    /\ taken' = IF outcome'["client"] = "QueueLimitReached" THEN taken
                ELSE taken \cup Range(plan)
    /\ Go(pc)
    /\ UNCHANGED <<committed, receipts, reachable, baseline, accepted, retry>>

PublishEntry == client.pc = "publish" /\ Submit(Plan(Current), "published")
PublishReceipt ==
    client.pc = "publishReceipt"
    /\ Submit(<<Receipt(Current)>>, "receiptPublished")

DrainStep(c) ==
    /\ Queue!Drain(c, reachable)
    /\ UNCHANGED <<committed, receipts, reachable, baseline, accepted, retry,
                   client, taken>>

\* step_of: a deferred plan or the limit ends the run with a status, any
\* other failure of the queue ends it without one.
EntryDeferredGoesOn ==   \* mutant
    /\ client.pc = "published"
    /\ outcome["client"] # "none"
    /\ CASE outcome["client"] = "QueueLimitReached" -> Waits("QueueLimit")
         [] outcome["client"] = "Failed" -> Fails
         [] OTHER -> Go("challenge")
    /\ UNCHANGED <<committed, receipts, net, reachable, baseline, accepted,
                   retry, queue, taken>>
EntryPublished ==
    /\ client.pc = "published"
    /\ outcome["client"] # "none"
    /\ CASE outcome["client"] = "Deferred" -> Waits("NetworkArchive")
         [] outcome["client"] = "QueueLimitReached" -> Waits("QueueLimit")
         [] outcome["client"] = "Failed" -> Fails
         [] OTHER -> Go("challenge")
    /\ UNCHANGED <<committed, receipts, net, reachable, baseline, accepted,
                   retry, queue, taken>>

\* fresh_challenge: its failure is no attempt of the entry.
FetchChallenge ==
    /\ client.pc = "challenge"
    /\ Go("send")
    /\ UNCHANGED <<committed, receipts, net, reachable, baseline, accepted,
                   retry, queue, taken>>

\* The commit at the server and its receipt.
CommitAnswered ==
    /\ client.pc = "send"
    /\ accepted' = accepted \cup {Current}
    /\ Go("publishReceipt")
    /\ UNCHANGED <<committed, receipts, net, reachable, baseline, retry,
                   queue, taken>>

\* A torn line or a 5xx: the server may have accepted the entry.
CommitUnanswered ==
    /\ client.pc = "send"
    /\ accepted' \in {accepted, accepted \cup {Current}}
    /\ LET failed == retry[Current].failed + 1
       IN  IF failed >= MaxAttempts
           THEN /\ retry' = [retry EXCEPT ![Current].failed = failed]
                /\ Waits("ResumeExhausted")
           ELSE /\ retry' = [retry EXCEPT ![Current] =
                                 [failed |-> failed, due |-> FALSE]]
                /\ Waits("ServerUpload")
    /\ UNCHANGED <<committed, receipts, net, reachable, baseline, queue,
                   taken>>

\* The local receipt is the witness and comes last.
ReceiptDeferredGoesOn ==   \* mutant
    /\ client.pc = "receiptPublished"
    /\ outcome["client"] # "none"
    /\ IF outcome["client"] \in Queue!NothingOutstanding \cup {"Deferred"}
       THEN receipts' = receipts \cup {Current} /\ Go("clear")
       ELSE Fails /\ UNCHANGED receipts
    /\ UNCHANGED <<committed, net, reachable, baseline, accepted, retry,
                   queue, taken>>
ReceiptPublished ==
    /\ client.pc = "receiptPublished"
    /\ outcome["client"] # "none"
    /\ IF outcome["client"] \in Queue!NothingOutstanding
       THEN receipts' = receipts \cup {Current} /\ Go("clear")
       ELSE Fails /\ UNCHANGED receipts
    /\ UNCHANGED <<committed, net, reachable, baseline, accepted, retry,
                   queue, taken>>

ClearRetry ==
    /\ client.pc = "clear"
    /\ retry' = [retry EXCEPT ![Current] = [failed |-> 0, due |-> TRUE]]
    /\ client' = [client EXCEPT !.pc = "next", !.todo = Tail(@),
                                !.pushed = @ + 1]
    /\ UNCHANGED <<committed, receipts, net, reachable, baseline, accepted,
                   queue, taken>>

Report ==
    /\ client.pc = "report"
    /\ client' = Idle
    /\ UNCHANGED <<committed, receipts, net, reachable, baseline, accepted,
                   retry, queue, taken>>

\* sync_state_of
Outstanding == client.pending - client.pushed
ConfirmedNow == client.confirmed + client.pushed
Status ==
    CASE client.step \in {"ResumeExhausted", "QueueLimit"} -> "Failed"
      [] client.step \in {"NetworkArchive", "ServerUpload"} -> "UploadPending"
      [] OTHER -> IF Outstanding > 0 THEN "UploadPending"
                  ELSE IF ConfirmedNow > 0 THEN "Synchronized"
                  ELSE "LocallySaved"

\* No challenge; an answer that is not to be retried or a receipt that does
\* not verify; a component that cannot be read or written.
RunFails ==
    /\ \/ client.pc \in {"next", "challenge", "send", "publishReceipt",
                         "clear"}
       \/ client.pc = "receiptPublished" /\ outcome["client"] # "none"
    /\ Ends("failed")
    /\ accepted' \in IF client.pc = "send"
                     THEN {accepted, accepted \cup {Current}} ELSE {accepted}
    /\ UNCHANGED <<committed, receipts, net, reachable, baseline, retry,
                   queue, taken>>

-----------------------------------------------------------------------------
\* Around the run.

CommitLocally ==
    /\ committed < LastEntry
    /\ committed' = committed + 1
    /\ UNCHANGED <<receipts, net, reachable, baseline, accepted, retry,
                   client, queue, taken>>

\* finish_pending of a migration.
MigrationAsks ==
    /\ Queue!Resume("migration")
    /\ UNCHANGED <<committed, receipts, reachable, baseline, accepted, retry,
                   client, taken>>

BackoffElapses(e) ==
    /\ ~retry[e].due
    /\ retry' = [retry EXCEPT ![e].due = TRUE]
    /\ UNCHANGED <<committed, receipts, net, reachable, baseline, accepted,
                   client, queue, taken>>

SetReachable(up) ==
    /\ reachable # up
    /\ reachable' = up
    /\ UNCHANGED <<committed, receipts, net, baseline, accepted, retry,
                   client, queue, taken>>

\* A start needs the directory; the plan in the queue is gone.
Restart ==
    /\ reachable
    /\ Queue!QueueLost
    /\ baseline' = {e \in Entries : Receipt(e) \in net}
    /\ Ends("restarted")
    /\ taken' = {}
    /\ UNCHANGED <<committed, receipts, net, reachable, accepted, retry>>

RunStep ==
    \/ TakeEntry \/ PublishEntry \/ EntryPublished \/ FetchChallenge
    \/ CommitAnswered \/ PublishReceipt \/ ReceiptPublished \/ ClearRetry
    \/ Report

Next ==
    \/ BeginRun \/ RunStep \/ CommitUnanswered \/ RunFails
    \/ \E c \in Callers : DrainStep(c)
    \/ CommitLocally \/ MigrationAsks
    \/ \E e \in Entries : BackoffElapses(e)
    \/ \E up \in BOOLEAN : SetReachable(up)
    \/ Restart

Spec == Init /\ [][Next]_vars

\* Runs are repeated, and from some time on the line, the server and the
\* directory work.
Fault ==
    \/ CommitUnanswered \/ RunFails \/ Restart \/ SetReachable(FALSE)
    \/ \E c \in Callers, r \in {"Deferred", "Failed"} :
           Queue!DrainStops(c, reachable, r)
FairSpec ==
    /\ Spec
    /\ WF_vars(BeginRun) /\ WF_vars(RunStep)
    /\ \A c \in Callers : WF_vars(DrainStep(c))
    /\ SF_vars(PublishEntry) /\ SF_vars(PublishReceipt)
    /\ \A e \in Entries : WF_vars(BackoffElapses(e))
    /\ WF_vars(SetReachable(TRUE))
    /\ <>[][~Fault]_vars

-----------------------------------------------------------------------------
\* No entry reaches the server before its grants and itself are in the
\* network directory (EA-CNA-PUB-5), and none before its predecessor,
\* whatever was deferred, retried or restarted in between.
UploadAfterNetwork ==
    \A e \in accepted : /\ Range(Plan(e)) \subseteq net
                        /\ e > 1 => (e - 1) \in accepted

\* A receipt in the local component is in the network directory too: the
\* local one takes the entry out of the queue for good.
LocalReceiptLast == \A e \in receipts : Receipt(e) \in net

\* A run that reports `Synchronized` has left none of the entries it derived
\* without an accepted commit and a receipt in the network directory.
SynchronizedTrue ==
    client.pc = "report" /\ Status = "Synchronized" =>
        \A e \in 1 .. client.pending + client.confirmed :
            e \in accepted /\ Receipt(e) \in net

\* `Synchronized` needs the receipt in the local component and in the
\* network directory (design.md:1584).
SynchronizedBothPlaces ==
    client.pc = "report" /\ Status = "Synchronized" =>
        \A e \in 1 .. client.pending + client.confirmed :
            e \in receipts /\ Receipt(e) \in net

\* A migration that is told that nothing is outstanding finds everything
\* the queue has accepted in the network directory, also when another
\* caller publishes at the same time.
GateTruthful ==
    [][(MigrationAsks \/ DrainStep("migration"))
       /\ outcome'["migration"] \in Queue!NothingOutstanding
       => taken \subseteq net']_vars

\* The receipt of a committed entry reaches the network directory, or an
\* entry before it has used up its attempts.  Entries whose plan leaves no
\* room for a waiting receipt are exempt: their plan can be refused for ever.
Roomy(e) == \A d \in 1 .. e : Len(Plan(d)) < MaxObjects
EntriesConfirmed ==
    \A e \in Entries :
        Roomy(e) /\ committed >= e ~>
            \/ Receipt(e) \in net
            \/ \E d \in 1 .. e : retry[d].failed >= MaxAttempts
=============================================================================
