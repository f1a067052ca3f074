---------------------------- MODULE NetworkHost ----------------------------
(***************************************************************************)
(* Who publishes from the local component (ea-admin network_publication.rs,*)
(* desktop runtime/writer.rs): the writer's thread at start-up and as step *)
(* 12 of a finalization, and a loop of its own thread that retries with a  *)
(* back-off.  A run derives what is missing in the directory and hands it  *)
(* to the queue.                                                           *)
(*                                                                         *)
(* Locks: `inner`, the mutex of the desktop runtime, is held for a whole   *)
(* action and taken by the loop only when it is free; `run` is held for    *)
(* one run.  Order: inner, then run.                                       *)
(***************************************************************************)
EXTENDS NetworkArchive, Sequences

CONSTANTS Me,          \* the one process
          MaxAttempts, \* resume_max_attempts
          NoThread

Threads == {"writer", "loop"}

ASSUME HostAssumption ==
    /\ Processes = {Me}
    /\ MaxAttempts \in Nat
    /\ NoThread \notin Threads

VARIABLES
    slot, drain, outcome,  \* of the queue
    host,      \* HostState
    thread,    \* what the threads do
    plan,      \* what the current run has derived
    inner,     \* holder of the mutex of the runtime
    run,       \* holder of the mutex of the host
    refused,   \* the loop could not open a fresh authority for its run
    performed, \* history: counted runs of the loop that took place
    unreported \* history: an action left rows without a run after them

hostVars == <<slot, drain, outcome, host, thread, plan, inner, run,
              refused, performed, unreported>>
otherVars == <<refused, performed, unreported>>
vars == <<archiveVars, hostVars>>

Queue == INSTANCE PublicationQueue WITH
    Callers <- Threads, NoCaller <- NoThread, MaxObjects <- RowLimit,
    target <- net

Unclean == {"Waiting", "Failed"}
NewHost == [observed |-> "Unknown", attempts |-> 0, counted |-> FALSE,
            exhausted |-> FALSE, signaled |-> FALSE]

HostTypeOK ==
    /\ ArchiveTypeOK
    /\ slot \in Seq(Objects)
    /\ drain.by \in Threads \cup {NoThread}
    /\ outcome \in [Threads -> Queue!Outcomes]
    /\ host \in [observed : {"Unknown", "Clean"} \cup Unclean,
                 attempts : 0 .. MaxAttempts, counted : BOOLEAN,
                 exhausted : BOOLEAN, signaled : BOOLEAN]
    /\ inner \in Threads \cup {NoThread}
    /\ run \in Threads \cup {NoThread}
    /\ performed \in 0 .. MaxAttempts
    /\ refused \in BOOLEAN
    /\ unreported \in BOOLEAN

HostInit ==
    /\ ArchiveInit
    /\ Queue!QueueInit
    /\ host = NewHost
    /\ thread = [t \in Threads |-> "off"]
    /\ plan = <<>>
    /\ inner = NoThread
    /\ run = NoThread
    /\ refused = FALSE
    /\ performed = 0
    /\ unreported = FALSE

Go(t, pc) == thread' = [thread EXCEPT ![t] = pc]
Result(t, result) == outcome' = [outcome EXCEPT ![t] = result]
Release(mutex, t) == IF mutex = t THEN NoThread ELSE mutex

\* derive_pending: objects without a sequence in their name, the grants,
\* before all entries, the entries by sequence.
Missing == local \ net
EntriesFirst(x, y) ==   \* mutant
    <<x.kind, x.seq>> # <<y.kind, y.seq>> /\
    IF x.kind = y.kind THEN x.seq < y.seq ELSE x.kind = "eip"
Before(x, y) == <<x.kind, x.seq>> # <<y.kind, y.seq>> /\
                IF x.kind = y.kind THEN x.seq < y.seq ELSE x.kind = "eag"
Sorted(p) == \A i, j \in DOMAIN p : i < j => Before(p[i], p[j])
DerivePending ==
    CHOOSE p \in [1 .. Cardinality(Missing) -> Missing] :
        Range(p) = Missing /\ Sorted(p)

(***************************************************************************)
(* One run: run_once, or settle_unless_pending of the loop, which stops    *)
(* short of publishing because it does not hold `inner`.                   *)
(***************************************************************************)
BeginRunUnlocked(t) ==   \* mutant
    /\ thread[t] \in {"run", "settle"}
    /\ run' = t
    /\ Go(t, IF thread[t] = "run" THEN "derive" ELSE "settleDerive")
    /\ UNCHANGED <<archiveVars, slot, drain, outcome, host, plan, inner,
                   otherVars>>
BeginRun(t) ==
    /\ thread[t] \in {"run", "settle"}
    /\ run = NoThread
    /\ run' = t
    /\ Go(t, IF thread[t] = "run" THEN "derive" ELSE "settleDerive")
    /\ UNCHANGED <<archiveVars, slot, drain, outcome, host, plan, inner,
                   otherVars>>

\* The directory cannot be opened, or a derivation error is a finding.
DeriveStops(t) ==
    /\ thread[t] \in {"derive", "settleDerive"}
    /\ \/ ~reachable /\ Result(t, "Deferred")
       \/ reachable /\ Result(t, "Failed")
    /\ Go(t, "record")
    /\ unreported' = FALSE
    /\ UNCHANGED <<archiveVars, slot, drain, host, plan, inner, run,
                   refused, performed>>

\* Nothing is missing: an older plan that still waits is drained.
DeriveNothing(t) ==
    /\ thread[t] \in {"derive", "settleDerive"}
    /\ reachable
    /\ Missing = {}
    /\ Queue!Resume(t)
    /\ Go(t, IF slot = <<>> THEN "record" ELSE "drain")
    /\ unreported' = FALSE
    /\ UNCHANGED <<archiveVars, host, plan, inner, run, refused, performed>>

DeriveMissing(t) ==
    /\ thread[t] \in {"derive", "settleDerive"}
    /\ reachable
    /\ Missing # {}
    /\ IF thread[t] = "derive"
       THEN /\ plan' = DerivePending
            /\ Go(t, "observe")
            /\ unreported' = FALSE
            /\ UNCHANGED run
       ELSE /\ run' = NoThread
            /\ Go(t, "tryInner")
            /\ UNCHANGED <<plan, unreported>>
    /\ UNCHANGED <<archiveVars, slot, drain, outcome, host, inner, refused,
                   performed>>

\* The observation before a publication: its authority is refused, or the
\* directory is lost or locked by somebody else.
ObserveStops(t) ==
    /\ thread[t] = "observe"
    /\ \/ Result(t, "Deferred")
       \/ Result(t, "Failed")
    /\ plan' = <<>>
    /\ Go(t, "record")
    /\ UNCHANGED <<archiveVars, slot, drain, host, inner, run, otherVars>>

PublishPlan(t) ==
    /\ thread[t] = "observe"
    /\ ~refused
    /\ Queue!Publish(t, plan, reachable)
    /\ plan' = <<>>
    /\ Go(t, IF outcome'[t] = "none" THEN "drain" ELSE "record")
    /\ UNCHANGED <<archiveVars, host, inner, run, otherVars>>

DrainPlan(t) ==
    /\ thread[t] = "drain"
    /\ Queue!Drain(t, reachable)
    /\ Go(t, IF outcome'[t] = "none" THEN "drain" ELSE "record")
    /\ UNCHANGED <<local, reachable, proc, lock, staged, prepared, host,
                   plan, inner, run, otherVars>>

\* record: a change from clean to unclean wakes the loop.  The mutexes are
\* given back; the thread of the start-up run starts the loop.
ObservedOf(result) ==
    IF result \in Queue!NothingOutstanding THEN "Clean"
    ELSE IF result = "Failed" THEN "Failed" ELSE "Waiting"

NeverSignals(result) == FALSE   \* mutant
Signals(result) ==
    host.observed \notin Unclean /\ ObservedOf(result) \in Unclean

Record(t) ==
    /\ thread[t] = "record"
    /\ host' = [host EXCEPT
          !.observed = ObservedOf(outcome[t]),
          !.signaled = @ \/ Signals(outcome[t])]
    /\ run' = NoThread
    /\ inner' = Release(inner, t)
    /\ refused' = FALSE
    /\ performed' = performed + (IF t = "loop" /\ host.counted THEN 1 ELSE 0)
    /\ thread' = [thread EXCEPT
          ![t] = IF t = "loop" THEN "clear" ELSE "idle",
          !["loop"] = IF t = "writer" /\ @ = "off" THEN "delay"
                      ELSE IF t = "loop" THEN "clear" ELSE @]
    /\ Result(t, "none")
    /\ UNCHANGED <<archiveVars, slot, drain, plan, unreported>>

Run(t) ==
    \/ BeginRun(t) \/ DeriveStops(t) \/ DeriveNothing(t)
    \/ DeriveMissing(t) \/ ObserveStops(t) \/ PublishPlan(t)
    \/ DrainPlan(t) \/ Record(t)

(***************************************************************************)
(* The writer's thread: start-up with its own run, then actions.           *)
(***************************************************************************)
Start ==
    /\ thread["writer"] \in {"off", "boot"}
    /\ \/ ReadNetwork(Me) \/ OpenVerified(Me) \/ OpenRefused(Me)
    /\ Go("writer", CASE proc'[Me].at = "off" -> "off"
                      [] proc'[Me].at = "starting" -> "boot"
                      [] OTHER -> "run")
    /\ UNCHANGED <<slot, drain, outcome, host, plan, inner, run, otherVars>>

BeginAction ==
    /\ thread["writer"] = "idle"
    /\ inner = NoThread
    /\ inner' = "writer"
    /\ Go("writer", "act")
    /\ UNCHANGED <<archiveVars, slot, drain, outcome, host, plan, run,
                   otherVars>>

\* An action ends with step 12, or with the run that follows a recovery, or
\* by an error before it.
Act ==
    /\ thread["writer"] = "act"
    /\ \/ ReadNetwork(Me) \/ OpenVerified(Me) \/ OpenRefused(Me)
       \/ PruneRows(Me) \/ KeepRuntime(Me) \/ DropRuntime(Me)
       \/ Prepare(Me) \/ Resume(Me) \/ Leave(Me)
       \/ CommitGrant(Me) \/ CommitEntry(Me) \/ Abort(Me)
    /\ \/ /\ proc'[Me].at # "idle"
          /\ UNCHANGED <<thread, inner, unreported>>
       \/ /\ proc'[Me].at = "idle"
          /\ proc[Me].at \in {"ready", "committing"}
          /\ prepared' = NoSeq
          /\ Go("writer", "run")
          /\ UNCHANGED <<inner, unreported>>
       \/ /\ proc'[Me].at = "idle"
          /\ Go("writer", "idle")
          /\ inner' = NoThread
          /\ unreported' = (unreported \/ ~(local' \subseteq net))
    /\ UNCHANGED <<slot, drain, outcome, host, plan, run, refused, performed>>

(***************************************************************************)
(* The loop.                                                               *)
(***************************************************************************)
\* next_delay: an attempt is counted before the wait; none is counted while
\* nothing is outstanding; after the last one the loop ends for good.
NextDelayEndsClean ==   \* mutant
    /\ thread["loop"] = "delay"
    /\ IF host.observed \notin Unclean
       THEN /\ host' = [host EXCEPT !.counted = FALSE]
            /\ Go("loop", "ended")
       ELSE IF host.attempts >= MaxAttempts
       THEN /\ host' = [host EXCEPT !.counted = FALSE, !.exhausted = TRUE]
            /\ Go("loop", "ended")
       ELSE /\ host' = [host EXCEPT !.counted = TRUE, !.attempts = @ + 1]
            /\ Go("loop", "wait")
    /\ UNCHANGED <<archiveVars, slot, drain, outcome, plan, inner, run,
                   otherVars>>
NextDelay ==
    /\ thread["loop"] = "delay"
    /\ IF host.observed \notin Unclean
       THEN /\ host' = [host EXCEPT !.counted = FALSE]
            /\ Go("loop", "rest")
       ELSE IF host.attempts >= MaxAttempts
       THEN /\ host' = [host EXCEPT !.counted = FALSE, !.exhausted = TRUE]
            /\ Go("loop", "ended")
       ELSE /\ host' = [host EXCEPT !.counted = TRUE, !.attempts = @ + 1]
            /\ Go("loop", "wait")
    /\ UNCHANGED <<archiveVars, slot, drain, outcome, plan, inner, run,
                   otherVars>>

Refund(h) ==
    IF h.counted
    THEN [h EXCEPT !.counted = FALSE, !.attempts = @ - 1]
    ELSE h

WakeSignaled ==
    /\ thread["loop"] \in {"rest", "wait"}
    /\ host.signaled
    /\ host' = Refund([host EXCEPT !.signaled = FALSE])
    /\ Go("loop", "delay")
    /\ UNCHANGED <<archiveVars, slot, drain, outcome, plan, inner, run,
                   otherVars>>

WakeElapsed ==
    /\ thread["loop"] \in {"rest", "wait"}
    /\ ~host.signaled
    /\ Go("loop", "settle")
    /\ UNCHANGED <<archiveVars, slot, drain, outcome, host, plan, inner,
                   run, otherVars>>

\* Something is missing: take the runtime if nobody uses it ...
TryInner ==
    /\ thread["loop"] = "tryInner"
    /\ inner = NoThread
    /\ inner' = "loop"
    /\ Go("loop", "reopen")
    /\ UNCHANGED <<archiveVars, slot, drain, outcome, host, plan, run,
                   otherVars>>

\* ... else, or without an active session, the run does not take place and
\* its attempt is given back.
SkipRun ==
    /\ thread["loop"] = "tryInner"
    /\ host' = [Refund(host) EXCEPT !.signaled = FALSE]
    /\ Go("loop", "delay")
    /\ UNCHANGED <<archiveVars, slot, drain, outcome, plan, inner, run,
                   otherVars>>

\* A fresh runtime for the observation; the kept one stays untouched.
Reopen ==
    /\ thread["loop"] = "reopen"
    /\ \/ ReadNetwork(Me) \/ OpenVerified(Me) \/ OpenRefused(Me)
       \/ PruneRows(Me) \/ DropRuntime(Me)
    /\ proc'[Me].at # "ready"
    /\ Go("loop", IF proc'[Me].at = "idle" THEN "run" ELSE "reopen")
    /\ refused' = (proc[Me].at = "reopening" /\ proc'[Me].at = "idle")
    /\ UNCHANGED <<slot, drain, outcome, host, plan, inner, run, performed,
                   unreported>>

\* After a run the loop drops a signal: it looks at the state anyway.
ClearSignal ==
    /\ thread["loop"] = "clear"
    /\ host' = [host EXCEPT !.signaled = FALSE]
    /\ Go("loop", "delay")
    /\ UNCHANGED <<archiveVars, slot, drain, outcome, plan, inner, run,
                   otherVars>>

Loop == NextDelay \/ WakeSignaled \/ WakeElapsed \/ TryInner \/ SkipRun
        \/ Reopen \/ ClearSignal

ExitHost ==
    /\ Exit(Me)
    /\ Queue!QueueLost
    /\ host' = NewHost
    /\ thread' = [t \in Threads |-> "off"]
    /\ plan' = <<>>
    /\ inner' = NoThread
    /\ run' = NoThread
    /\ refused' = FALSE
    /\ performed' = 0
    /\ unreported' = FALSE

Next ==
    \/ \E t \in Threads : Run(t)
    \/ Start \/ BeginAction \/ Act \/ Loop \/ ExitHost
    \/ SetReachable /\ UNCHANGED hostVars

Spec == HostInit /\ [][Next]_vars

(***************************************************************************)
(* Threads run on, the loop's waits end, and a mutex that is free again    *)
(* and again is obtained.  From some time on the loop finds the operator   *)
(* logged in and between two actions when it asks.  Nothing is assumed of  *)
(* the directory, of what the operator does, or of restarts.               *)
(***************************************************************************)
Fairness ==
    /\ \A t \in Threads : WF_vars(Run(t))
    /\ WF_vars(Act \/ (thread["writer"] = "boot" /\ Start))
    /\ WF_vars(NextDelay \/ WakeSignaled \/ WakeElapsed \/ Reopen
               \/ ClearSignal)
    /\ SF_vars(TryInner)
    /\ \A t \in Threads : SF_vars(BeginRun(t))
    /\ <>[][~SkipRun]_vars

FairSpec == Spec /\ Fairness

-----------------------------------------------------------------------------
\* The loop never rests over work: when it lies in the long wait of a clean
\* archive and a run of the other thread finds something outstanding, the
\* signal is set (record, wait, run_loop).
NoLostWakeup ==
    thread["loop"] = "rest" /\ host.observed \in Unclean => host.signaled

\* The loop gives up only after as many runs as the profile allows: neither
\* a signal nor a run that could not take place uses up an attempt
\* (next_delay, refund_attempt).
ExhaustedByRuns == host.exhausted => performed = MaxAttempts

\* Between actions and runs "locally saved" is shown only when the directory
\* has every row, except after an action that failed between its commit and step 12, until the
\* next run (sync_state, run_once, settle_unless_pending).
SavedIsPublished ==
    (/\ host.observed = "Clean"
     /\ thread["writer"] = "idle"
     /\ run = NoThread
     /\ ~unreported) => local \subseteq net

\* Pruning never takes anything out of the view of the runtime that is kept,
\* whichever thread prunes and whether it keeps or drops what it opened
\* (prune_published_rows).
KeptViewComplete ==
    proc[Me].at \notin {"off", "starting"} => net \subseteq WriterView(Me)

\* The directory as others see it: the queue, its merges and its retries
\* only ever let a committed object arrive after its grants and after the
\* entries before it.
ImplementsArchive == ArchiveSpec

\* Every committed entry reaches the directory, its grants with it, or the
\* loop has used up its attempts, or the process ends (run_loop, step 12).
EntriesPublished ==
    \A s \in FirstSeq + 1 .. LastSeq :
        Entry(s) \in local \ net ~>
            (Entry(s) \in net \/ host.exhausted \/ proc[Me].at = "off")
=============================================================================
