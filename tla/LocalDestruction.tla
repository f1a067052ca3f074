---------------------------- MODULE LocalDestruction ----------------------------
(***************************************************************************)
(* The destruction of archived entries on the device that holds them        *)
(* (crates/ea-destruction and crates/ea-admin/src/destruction_runtime):     *)
(* prepare, start, resume and complete, run by any number of processes on   *)
(* one database and several archive directories.                            *)
(*                                                                         *)
(* A database transaction is one step, except the one of                    *)
(* execute_local_guarded, which stays open while stubs are written and      *)
(* files removed: an error rolls the database back and leaves the files.    *)
(* Every lock is tried, never waited for.  Only objects of the entries to   *)
(* be destroyed are modelled; signatures and the operator's authority hold, *)
(* and their refusal is a Fail.                                             *)
(***************************************************************************)
EXTENDS Naturals, Sequences

CONSTANTS
    Processes,      \* instances of the destruction runtime
    Locations,      \* the archive directories this device is configured for
    Configured,     \* their order in the configuration
    Order,          \* the order in which they are cleared, by their registered hashes
    Primary,        \* the one the pre-state is read from
    Targets,        \* the entries named by the authorization
    Devices,        \* devices the registry may admit later
    MaxArrivals,    \* bound on objects other programs write meanwhile
    Nobody,         \* a lock nobody holds
    None            \* a row that does not exist

ASSUME DestructionAssumption ==
    /\ Primary \in Locations
    /\ \A order \in {Configured, Order} :
          order \in Seq(Locations) /\ Locations = {order[i] : i \in 1 .. Len(order)}
    /\ Targets # {}
    /\ MaxArrivals \in Nat
    /\ Nobody \notin Processes

VARIABLES
    file,       \* per location and object: "absent", "file", or "unlinked" (the
                \* name is gone and its directory not flushed)
    stub,       \* per location and target: "absent", "torn" (the write was cut off),
                \* "created" (not flushed) or "durable"
    locked,     \* per location: the process with the writer lock
    db,         \* the process with the database's open write transaction
    registry,   \* the further devices the registry has admitted
    rows,       \* the committed database
    run,        \* per process: the operation it is executing
    arrivals,   \* objects written by others so far
    held        \* history: the objects that have ever been at a location

vars == <<file, stub, locked, db, registry, rows, run, arrivals, held>>

Entry(t) == <<t, "entry">>
Grant(t) == <<t, "grant">>
Objects == {Entry(t) : t \in Targets} \cup {Grant(t) : t \in Targets}

Custody == [devices : SUBSET Devices, at : SUBSET Locations,
            holdings : [Locations -> SUBSET Objects]]

ASSUME NoneIsNoCustody == None \notin Custody

NothingKnown ==
    [devices |-> {}, at |-> {}, holdings |-> [l \in Locations |-> {}]]

\* What a scan of a location sees.
Present(l) == {o \in Objects : file[l][o] = "file"}
EntriesAt(l) == \A t \in Targets : file[l][Entry(t)] = "file"
StubsAt(l) == \A t \in Targets : stub[l][t] \in {"created", "durable"}
Clean(l) == Present(l) = {} /\ StubsAt(l)

Idle == [op |-> "none", pc |-> "idle", todo |-> <<>>, live |-> {},
         known |-> {}, sawStart |-> FALSE, before |-> None]

\* No call: the last one ended, ended in an error, or power was lost in it.
Resting == {"idle", "failed", "down"}
Ops == {"prepare", "start", "resume", "complete", "import"}
Steps == {"catalog", "holders", "freeze", "plan", "persist", "begin", "location",
          "stubs", "remove", "flush", "purge", "sign", "evidence",
          "snapshot", "bind", "commit"}

(* Types: a lock is held exactly while its process removes files there.     *)
TypeOK ==
    /\ file \in [Locations -> [Objects -> {"absent", "file", "unlinked"}]]
    /\ stub \in [Locations -> [Targets -> {"absent", "torn", "created", "durable"}]]
    /\ locked \in [Locations -> Processes \cup {Nobody}]
    /\ db \in Processes \cup {Nobody}
    /\ registry \in SUBSET Devices
    /\ rows.custody \in Custody
    /\ rows.frozen \in Custody \cup {None}
    /\ rows.job \in (SUBSET Objects) \cup {None}
    /\ rows.measured \in [Locations -> (SUBSET Objects) \cup {None}]
    /\ \A f \in {"request", "started", "purged", "attested", "completed"} :
          rows[f] \in BOOLEAN
    /\ \A p \in Processes :
          /\ run[p].pc \in Steps \cup Resting
          /\ run[p].op \in Ops \cup {"none"}
          /\ run[p].live \subseteq Objects
          /\ db = p <=> \E l \in Locations : locked[l] = p
    /\ arrivals \in 0 .. MaxArrivals

Init ==
    /\ \E kept \in [Locations -> SUBSET Objects] :
          /\ {Entry(t) : t \in Targets} \subseteq kept[Primary]
          /\ file = [l \in Locations |->
                       [o \in Objects |-> IF o \in kept[l] THEN "file" ELSE "absent"]]
          /\ held = kept
    /\ stub = [l \in Locations |-> [t \in Targets |-> "absent"]]
    /\ locked = [l \in Locations |-> Nobody]
    /\ db = Nobody
    /\ registry = {}
    /\ rows = [request |-> FALSE, custody |-> NothingKnown, frozen |-> None,
               job |-> None, started |-> FALSE, purged |-> FALSE,
               measured |-> [l \in Locations |-> None],
               attested |-> FALSE, completed |-> FALSE]
    /\ run = [p \in Processes |-> Idle]
    /\ arrivals = 0

-----------------------------------------------------------------------------
(* Helpers of the steps.                                                    *)

Files == <<file, stub, held, arrivals, registry>>
Locks == <<locked, db>>

At(p, pc) == run[p].pc = pc
Go(p, pc) == run' = [run EXCEPT ![p].pc = pc]
End(p) == run' = [run EXCEPT ![p] = Idle]
Rests(p) == run[p].pc \in Resting

\* A write transaction can begin.
DbFree == db = Nobody
\* require_unchanged_in: no custody was learned since the snapshot.
Unchanged == rows.custody = rows.frozen
\* The observation of what the registry admitted.
Learned(p) == [rows.custody EXCEPT !.devices = @ \cup run[p].known]

\* The call ends in an error and lets its locks go.
Released(p) == [l \in Locations |-> IF locked[l] = p THEN Nobody ELSE locked[l]]

GiveUp(p) ==
    /\ locked' = Released(p)
    /\ db' = IF db = p THEN Nobody ELSE db
    /\ run' = [run EXCEPT ![p] = [Idle EXCEPT !.pc = "failed"]]

Begin(p, op) ==
    run' = [run EXCEPT ![p] =
              [Idle EXCEPT !.op = op, !.pc = "catalog", !.todo = Configured,
                           !.known = registry, !.sawStart = rows.started]]

-----------------------------------------------------------------------------
(* The four calls of an operator.                                           *)

\* The whole archive must verify and hold every entry; then the signed
\* request is stored.
BeginPrepare(p) ==
    /\ Rests(p) /\ EntriesAt(Primary) /\ DbFree
    /\ rows' = [rows EXCEPT !.request = TRUE]
    /\ Begin(p, "prepare")
    /\ UNCHANGED <<Files, Locks>>

BeginStart(p) ==
    /\ Rests(p) /\ rows.job # None
    /\ Begin(p, "start")
    /\ UNCHANGED <<Files, Locks, rows>>

BeginResume(p) ==
    /\ Rests(p) /\ rows.started
    /\ Begin(p, "resume")
    /\ UNCHANGED <<Files, Locks, rows>>

BeginComplete(p) ==
    /\ Rests(p) /\ rows.started
    /\ Begin(p, "complete")
    /\ UNCHANGED <<Files, Locks, rows>>

-----------------------------------------------------------------------------
(* What every call does first: learn the custody, freeze or compare it.     *)

ObserveCatalog(p) ==
    /\ At(p, "catalog") /\ DbFree
    /\ rows' = [rows EXCEPT !.custody = Learned(p)]
    /\ Go(p, "holders")
    /\ UNCHANGED <<Files, Locks>>

\* Under the lock of the location; what was recorded once stays recorded.
ObserveHolder(p) ==
    LET l == Head(run[p].todo)
        learned == [rows.custody EXCEPT !.at = @ \cup {l},
                                        !.holdings[l] = @ \cup Present(l)] IN
    /\ At(p, "holders") /\ run[p].todo # <<>>
    /\ locked[l] = Nobody /\ DbFree
    /\ rows' = [rows EXCEPT !.custody = learned]
    /\ run' = [run EXCEPT ![p].todo = Tail(@),
                          ![p].pc = IF Len(run[p].todo) = 1 THEN "freeze" ELSE @]
    /\ UNCHANGED <<Files, Locks>>

AfterFreeze(p) ==
    CASE run[p].op = "prepare" -> "plan"
      [] run[p].op = "import"  -> "bind"
      [] OTHER                 -> "begin"

\* The first freeze stores the snapshot; a later one must find the same.
FreezeAnew(p) ==   \* mutant
    /\ At(p, "freeze") /\ DbFree
    /\ rows' = [rows EXCEPT !.frozen = rows.custody]
    /\ Go(p, AfterFreeze(p))
    /\ UNCHANGED <<Files, Locks>>
Freeze(p) ==
    /\ At(p, "freeze") /\ DbFree
    /\ rows.frozen \in {None, rows.custody}
    /\ rows' = [rows EXCEPT !.frozen = rows.custody]
    /\ Go(p, AfterFreeze(p))
    /\ UNCHANGED <<Files, Locks>>

\* prepare: a job that exists is kept; otherwise the removals are what the
\* primary location holds now, read without its lock.
KeepJob(p) ==
    /\ At(p, "plan") /\ DbFree /\ Unchanged /\ rows.job # None
    /\ End(p)
    /\ UNCHANGED <<Files, Locks, rows>>

PlanRemovals(p) ==
    /\ At(p, "plan") /\ DbFree /\ Unchanged /\ rows.job = None
    /\ EntriesAt(Primary)
    /\ run' = [run EXCEPT ![p].pc = "persist", ![p].live = Present(Primary)]
    /\ UNCHANGED <<Files, Locks, rows>>

\* A job another process stored in between carries another signature.
PersistJob(p) ==
    /\ At(p, "persist") /\ DbFree /\ Unchanged /\ rows.job = None
    /\ rows' = [rows EXCEPT !.job = run[p].live]
    /\ End(p)
    /\ UNCHANGED <<Files, Locks>>

\* The start event is stored once; a process that signed one of its own
\* because it saw none is refused when there is one.
First == Head(Configured)

StartEvent(p) ==
    /\ At(p, "begin") /\ DbFree /\ Unchanged
    /\ rows.job # None /\ rows.request
    /\ rows.started => run[p].sawStart
    /\ rows' = [rows EXCEPT !.started = TRUE]
    /\ run' = [run EXCEPT ![p] =
                 CASE @.op = "start"    -> Idle
                   [] @.op = "resume"   -> [@ EXCEPT !.pc = "location",
                                                     !.todo = Order \o <<First>>]
                   [] @.op = "complete" -> [@ EXCEPT !.pc = "evidence"]]
    /\ UNCHANGED <<Files, Locks>>

-----------------------------------------------------------------------------
(* resume: every location, the first configured one once more, the purge,   *)
(* the attestation.                                                         *)

Here(p) == Head(run[p].todo)

\* The lock of the location and the transaction that stays open.
EnterLocation(p) ==
    LET l == Here(p) IN
    /\ At(p, "location") /\ run[p].todo # <<>>
    /\ rows.frozen.at = Locations
    /\ rows.frozen.holdings[l] \subseteq rows.job
    /\ locked[l] = Nobody /\ DbFree /\ Unchanged
    /\ Present(l) \subseteq rows.frozen.holdings[l]
    /\ locked' = [locked EXCEPT ![l] = p]
    /\ db' = p
    /\ run' = [run EXCEPT ![p].pc = "stubs", ![p].live = Present(l)]
    /\ UNCHANGED <<Files, rows>>

CreateStub(p, t) ==
    /\ At(p, "stubs") /\ stub[Here(p)][t] = "absent"
    /\ stub' = [stub EXCEPT ![Here(p)][t] = "created"]
    /\ UNCHANGED <<file, held, arrivals, registry, Locks, rows, run>>

\* An I/O error or the end of the process within the write leaves a file with
\* a part of the bytes under the stub's name.  Later calls compare it with the
\* stub and refuse.  The trust objects written just before meet the same fate.
TearStub(p, t) ==
    /\ At(p, "stubs") /\ stub[Here(p)][t] = "absent"
    /\ stub' = [stub EXCEPT ![Here(p)][t] = "torn"]
    /\ GiveUp(p)
    /\ UNCHANGED <<file, held, arrivals, registry, rows>>

\* A whole stub a failed attempt left behind is flushed again as well.
SyncStub(p, t) ==
    /\ At(p, "stubs") /\ stub[Here(p)][t] = "created"
    /\ stub' = [stub EXCEPT ![Here(p)][t] = "durable"]
    /\ UNCHANGED <<file, held, arrivals, registry, Locks, rows, run>>

StubsCreated(p) ==   \* mutant
    /\ At(p, "stubs") /\ StubsAt(Here(p))
    /\ Go(p, "remove")
    /\ UNCHANGED <<Files, Locks, rows>>
StubsVerified(p) ==
    /\ At(p, "stubs")
    /\ \A t \in Targets : stub[Here(p)][t] = "durable"
    /\ Go(p, "remove")
    /\ UNCHANGED <<Files, Locks, rows>>

\* remove_if_present: first the name, then the directory, with every other
\* name that was removed from the same directory.
Unlink(p, o) ==
    /\ At(p, "remove") /\ o \in run[p].live /\ StubsAt(Here(p))
    /\ file' = [file EXCEPT ![Here(p)][o] = "unlinked"]
    /\ Go(p, "flush")
    /\ UNCHANGED <<stub, held, arrivals, registry, Locks, rows>>

SameDirectory(o, other) == o[2] = other[2]

FlushRemoval(p, o) ==
    LET l == Here(p)
        gone(x) == file[l][x] = "unlinked" /\ SameDirectory(o, x) IN
    /\ At(p, "flush") /\ o \in run[p].live /\ file[l][o] = "unlinked"
    /\ file' = [file EXCEPT ![l] = [x \in Objects |-> IF gone(x) THEN "absent" ELSE @[x]]]
    /\ run' = [run EXCEPT ![p].pc = "remove", ![p].live = @ \ {o}]
    /\ UNCHANGED <<stub, held, arrivals, registry, Locks, rows>>

\* The last scan, the measurement and the commit of the transaction.
MeasureOnce(p) ==   \* mutant
    LET l == Here(p) IN
    /\ At(p, "remove") /\ run[p].live = {} /\ Clean(l)
    /\ rows.measured[l] = None
    /\ rows' = [rows EXCEPT !.measured[l] = rows.frozen.holdings[l]]
    /\ locked' = [locked EXCEPT ![l] = Nobody]
    /\ db' = Nobody
    /\ run' = [run EXCEPT ![p].todo = Tail(@),
                          ![p].pc = IF Len(run[p].todo) = 1 THEN "purge" ELSE "location"]
    /\ UNCHANGED Files
Measure(p) ==
    LET l == Here(p) IN
    /\ At(p, "remove") /\ run[p].live = {} /\ Clean(l)
    /\ rows.measured[l] \in {None, rows.frozen.holdings[l]}
    /\ rows' = [rows EXCEPT !.measured[l] = rows.frozen.holdings[l]]
    /\ locked' = [locked EXCEPT ![l] = Nobody]
    /\ db' = Nobody
    /\ run' = [run EXCEPT ![p].todo = Tail(@),
                          ![p].pc = IF Len(run[p].todo) = 1 THEN "purge" ELSE "location"]
    /\ UNCHANGED Files

\* The rows the entries were made from go in one transaction.
Purge(p) ==
    /\ At(p, "purge") /\ locked[First] = Nobody /\ DbFree /\ Unchanged
    /\ rows' = [rows EXCEPT !.purged = TRUE]
    /\ Go(p, "sign")
    /\ UNCHANGED <<Files, Locks>>

\* After signing, everything is looked at again under all locks.
AttestAsMeasured(p) ==   \* mutant
    /\ At(p, "sign") /\ DbFree /\ Unchanged /\ rows.purged
    /\ \A l \in Locations :
          locked[l] = Nobody /\ rows.measured[l] = rows.frozen.holdings[l]
    /\ rows' = [rows EXCEPT !.attested = TRUE]
    /\ End(p)
    /\ UNCHANGED <<Files, Locks>>
Attest(p) ==
    /\ At(p, "sign") /\ DbFree /\ Unchanged /\ rows.purged
    /\ \A l \in Locations :
          /\ locked[l] = Nobody /\ Clean(l)
          /\ rows.measured[l] = rows.frozen.holdings[l]
    /\ rows' = [rows EXCEPT !.attested = TRUE]
    /\ End(p)
    /\ UNCHANGED <<Files, Locks>>

-----------------------------------------------------------------------------
(* complete: the evidence, a snapshot, the import's own observation, commit. *)

\* Every device of the frozen custody must have attested; the claims of other
\* devices arrive by import, which is not modelled.
Confirmed == rows.attested /\ rows.frozen.devices = {}

\* Only the primary location is looked at here, without its lock.
Evidence(p) ==
    /\ At(p, "evidence") /\ DbFree /\ Unchanged /\ Confirmed /\ Clean(Primary)
    /\ Go(p, "snapshot")
    /\ UNCHANGED <<Files, Locks, rows>>

\* snapshot_in covers every table but the purge and the measurements.
Watched == [rows EXCEPT !.purged = FALSE, !.measured = [l \in Locations |-> None]]

\* The snapshot precedes the signature; the import starts again from the registry.
Snapshot(p) ==
    /\ At(p, "snapshot") /\ DbFree /\ Confirmed
    /\ run' = [run EXCEPT ![p] = [@ EXCEPT !.op = "import", !.pc = "catalog",
                                           !.todo = Configured, !.known = registry,
                                           !.before = Watched]]
    /\ UNCHANGED <<Files, Locks, rows>>

Bind(p) ==
    /\ At(p, "bind") /\ DbFree /\ Watched = run[p].before
    /\ \A l \in Locations : locked[l] = Nobody /\ Clean(l)
    /\ Go(p, "commit")
    /\ UNCHANGED <<Files, Locks, rows>>

CommitCompletion(p) ==
    /\ At(p, "commit") /\ DbFree /\ Watched = run[p].before
    /\ \A l \in Locations : locked[l] = Nobody /\ Clean(l)
    /\ rows' = [rows EXCEPT !.completed = TRUE]
    /\ End(p)
    /\ UNCHANGED <<Files, Locks>>

-----------------------------------------------------------------------------
(* Failures and the other programs of the device.                           *)

\* A refusal, an I/O error or the end of the process: the open transaction is
\* rolled back, what happened to the files stays.
Fail(p) ==
    /\ ~Rests(p)
    /\ GiveUp(p)
    /\ UNCHANGED <<Files, rows>>

\* Power is lost: what no flush covered may go either way.
Crash ==
    /\ file' \in [Locations -> [Objects -> {"absent", "file"}]]
    /\ \A l \in Locations, o \in Objects :
          file[l][o] # "unlinked" => file'[l][o] = file[l][o]
    /\ stub' \in [Locations -> [Targets -> {"absent", "torn", "durable"}]]
    /\ \A l \in Locations, t \in Targets :
          stub'[l][t] \in CASE stub[l][t] = "created" -> {"absent", "torn", "durable"}
                             [] stub[l][t] = "torn"    -> {"absent", "torn"}
                             [] OTHER                  -> {stub[l][t]}
    /\ locked' = [l \in Locations |-> Nobody]
    /\ db' = Nobody
    /\ run' = [p \in Processes |-> [Idle EXCEPT !.pc = "down"]]
    /\ UNCHANGED <<registry, rows, arrivals, held>>

\* Another program writes an object of a target under the location's lock:
\* a re-grant, a download, a copy put back.
Arrive(l, o) ==
    /\ arrivals < MaxArrivals /\ locked[l] = Nobody /\ file[l][o] # "file"
    /\ file' = [file EXCEPT ![l][o] = "file"]
    /\ held' = [held EXCEPT ![l] = @ \cup {o}]
    /\ arrivals' = arrivals + 1
    /\ UNCHANGED <<stub, registry, Locks, rows, run>>

AdmitDevice(d) ==
    /\ d \notin registry
    /\ registry' = registry \cup {d}
    /\ UNCHANGED <<file, stub, held, arrivals, Locks, rows, run>>

-----------------------------------------------------------------------------
RunStep(p) ==
    \/ ObserveCatalog(p) \/ ObserveHolder(p) \/ Freeze(p)
    \/ KeepJob(p) \/ PlanRemovals(p) \/ PersistJob(p) \/ StartEvent(p)
    \/ EnterLocation(p) \/ StubsVerified(p) \/ Measure(p)
    \/ \E t \in Targets : CreateStub(p, t) \/ SyncStub(p, t)
    \/ \E o \in Objects : Unlink(p, o) \/ FlushRemoval(p, o)
    \/ Purge(p) \/ Attest(p)
    \/ Evidence(p) \/ Snapshot(p) \/ Bind(p) \/ CommitCompletion(p)

Next ==
    \/ \E p \in Processes :
          \/ BeginPrepare(p) \/ BeginStart(p) \/ BeginResume(p) \/ BeginComplete(p)
          \/ RunStep(p) \/ Fail(p) \/ \E t \in Targets : TearStub(p, t)
    \/ Crash
    \/ \E l \in Locations, o \in Objects : Arrive(l, o)
    \/ \E d \in Devices : AdmitDevice(d)

Spec == Init /\ [][Next]_vars

(* A call that began goes on or fails; the operator resumes a started       *)
(* destruction again and again; from some time on the power stays on and a  *)
(* call fails, without tearing a stub, only when it has no other step.      *)
FairSpec ==
    /\ Spec
    /\ \A p \in Processes :
          /\ WF_vars(RunStep(p) \/ Fail(p))
          /\ SF_vars(BeginResume(p))
    /\ <>[][/\ ~Crash
            /\ \A p \in Processes : /\ Fail(p) => ~ENABLED RunStep(p)
                                    /\ \A t \in Targets : ~TearStub(p, t)]_vars

-----------------------------------------------------------------------------
(* No byte of a target is gone from a location, not even after a loss of    *)
(* power at the worst moment, unless the request, the job that names it and *)
(* the start are stored and every stub of the destruction is durable there. *)
RemovalCovered ==
    \A l \in Locations : \A o \in held[l] :
        file[l][o] # "file" =>
            /\ rows.request /\ rows.started
            /\ rows.job # None /\ o \in rows.job
            /\ \A t \in Targets : stub[l][t] = "durable"

(* At the moment an attestation or the completion is stored, no location    *)
(* holds an object of a target, whatever other programs wrote while the     *)
(* removal ran, and nothing was learned that the snapshot does not have.    *)
ReportsTrue ==
    [][ \/ ~rows.attested /\ rows'.attested
        \/ ~rows.completed /\ rows'.completed
        => /\ \A l \in Locations : Present(l) = {} /\ l \in rows.custody.at
           /\ Unchanged /\ rows.purged ]_vars

(* What is recorded about custody, and the plan made of it, is never        *)
(* replaced: a job removes only what its own snapshot was taken with.       *)
DenominatorKept ==
    [][ /\ rows.frozen # None => rows'.frozen = rows.frozen
        /\ rows.job # None => rows'.job = rows.job
        /\ \A l \in Locations :
              rows.measured[l] # None => rows'.measured[l] = rows.measured[l]
        /\ \A l \in Locations : rows'.measured[l] # rows.measured[l] =>
              rows.custody.holdings[l] \subseteq rows.job ]_vars

(* The conflicts the code reports and never resolves by itself: custody     *)
(* learned after the snapshot, an object no snapshot has, a holding the job *)
(* does not name, a stub of which only a part was written.                  *)
Conflict ==
    /\ rows.started
    /\ \/ ~Unchanged
       \/ registry # rows.frozen.devices
       \/ \E l \in Locations : \/ \E t \in Targets : stub[l][t] = "torn"
                               \/ ~(Present(l) \subseteq rows.frozen.holdings[l])
                               \/ ~(rows.frozen.holdings[l] \subseteq rows.job)

(* A started destruction is attested in the end, whatever call failed and   *)
(* wherever power was lost, unless one of the conflicts needs a person.     *)
StartedResolves == rows.started ~> (rows.attested \/ Conflict)

(* A measurement is recorded only when the storage has confirmed every      *)
(* removal at the location.                                                 *)
MeasuredDurable ==
    [][ \A l \in Locations : rows'.measured[l] # rows.measured[l] =>
           \A o \in Objects : file[l][o] # "unlinked" ]_vars
=============================================================================
