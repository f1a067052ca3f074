--------------------------- MODULE NetworkArchive ---------------------------
(***************************************************************************)
(* A writer whose archive is a network directory.  It commits into a local *)
(* SQLCipher component of bounded size and publishes from there; a row is  *)
(* removed again ("pruned") once the directory has it.  What the writer    *)
(* takes for the archive is the union of the directory and its own rows.   *)
(* The directory may be unreachable: a process that has read it before     *)
(* then uses what it read (its baseline), a process that starts refuses.   *)
(*                                                                         *)
(* Several processes may share the database.  Within one process one       *)
(* activity runs at a time, under the mutex of the desktop runtime.        *)
(*                                                                         *)
(* Publication is abstract here: a committed object arrives.  NetworkHost  *)
(* refines it by the queue and the loop that publish.                      *)
(***************************************************************************)
EXTENDS Naturals, FiniteSets, FiniteSetsExt

CONSTANTS Processes,  \* processes that open the database
          Writers,    \* those of them that finalize
          FirstSeq,   \* the last entry published so far
          FirstRow,   \* whether it is still a row of the component
          LastSeq,    \* bound: the sequences are 0 .. LastSeq
          RowLimit,   \* queue_max_objects of the profile
          NoProcess,
          NoSeq

ASSUME ArchiveAssumption ==
    /\ Writers \subseteq Processes
    /\ NoProcess \notin Processes
    /\ FirstSeq \in Nat
    /\ LastSeq \in Nat
    /\ FirstSeq <= LastSeq
    /\ FirstRow \in BOOLEAN
    /\ RowLimit \in Nat
    /\ NoSeq \notin Nat

VARIABLES
    local,     \* committed rows of the component
    net,       \* objects of the network directory
    reachable, \* the directory can be read and written
    proc,      \* the activity of each process and the runtime it keeps
    lock,      \* who holds the writer lock of the database
    staged,    \* rows at staging addresses
    prepared   \* sequence of the prepared finalization, durable

archiveVars == <<local, net, reachable, proc, lock, staged, prepared>>

Seqs == 0 .. LastSeq
Grant(s) == [kind |-> "eag", seq |-> s]
Entry(s) == [kind |-> "eip", seq |-> s]
Objects == [kind : {"eag", "eip"}, seq : Seqs]

EntrySeqs(view) == {o.seq : o \in {x \in view : x.kind = "eip"}}

\* The public chain head of a view: the verifier withholds it when a
\* sequence is missing below another one, or when there is no entry.
Verified(view) ==
    EntrySeqs(view) # {} /\ EntrySeqs(view) = 0 .. Max(EntrySeqs(view))
PublicHead(view) == Max(EntrySeqs(view))

\* What a finalization takes for the head: it walks the chain upwards and
\* stops at the first gap.
PrefixHead(view) ==
    Max({s \in EntrySeqs(view) : 0 .. s \subseteq EntrySeqs(view)})

Idle == [at |-> "off", base |-> {}, next |-> NoSeq,
         live |-> FALSE, read |-> {}, proposed |-> NoSeq]
Activities == {"off", "starting", "idle", "reopening", "opened", "pruned",
               "ready", "committing"}

ArchiveTypeOK ==
    /\ local \subseteq Objects
    /\ net \subseteq Objects
    /\ reachable \in BOOLEAN
    /\ proc \in [Processes ->
          [at : Activities, base : SUBSET Objects, next : Nat \cup {NoSeq},
           live : BOOLEAN, read : SUBSET Objects,
           proposed : Nat \cup {NoSeq}]]
    /\ lock \in Processes \cup {NoProcess}
    /\ staged \subseteq Objects
    /\ prepared \in Seqs \cup {NoSeq}

ArchiveInit ==
    /\ local = IF FirstRow THEN {Grant(FirstSeq), Entry(FirstSeq)} ELSE {}
    /\ net = {o \in Objects : o.seq <= FirstSeq}
    /\ reachable = TRUE
    /\ proc = [p \in Processes |-> Idle]
    /\ lock = NoProcess
    /\ staged = {}
    /\ prepared = NoSeq

Update(p, fields) ==
    proc' = [proc EXCEPT ![p] = [f \in DOMAIN @ |->
                IF f \in DOMAIN fields THEN fields[f] ELSE @[f]]]

\* The directory is read first.  Only a reopening has a baseline to fall
\* back to; a cold start inherits none.
ReadNetwork(p) ==
    \/ /\ proc[p].at = "off"
       /\ reachable
       /\ Update(p, [at |-> "starting", live |-> TRUE, read |-> net])
       /\ UNCHANGED <<local, net, reachable, lock, staged, prepared>>
    \/ /\ proc[p].at = "idle"
       /\ Update(p, [at |-> "reopening", live |-> reachable,
                     read |-> IF reachable THEN net ELSE proc[p].base])
       /\ UNCHANGED <<local, net, reachable, lock, staged, prepared>>

\* Then the rows; the union must verify.
Union(p) == proc[p].read \cup local

OpenVerified(p) ==
    /\ proc[p].at \in {"starting", "reopening"}
    /\ Verified(Union(p))
    /\ IF proc[p].at = "starting"
       THEN Update(p, [at |-> "idle", base |-> proc[p].read, read |-> {},
                       live |-> FALSE, next |-> PublicHead(Union(p)) + 1])
       ELSE Update(p, [at |-> "opened", proposed |-> PublicHead(Union(p)) + 1])
    /\ UNCHANGED <<local, net, reachable, lock, staged, prepared>>

OpenRefused(p) ==
    /\ proc[p].at \in {"starting", "reopening"}
    /\ ~Verified(Union(p))
    /\ Update(p, [at |-> IF proc[p].at = "starting" THEN "off" ELSE "idle",
                  live |-> FALSE, read |-> {}])
    /\ UNCHANGED <<local, net, reachable, lock, staged, prepared>>

(***************************************************************************)
(* Pruning: only after a live read, only what the directory and the        *)
(* inherited baseline both hold, and never the highest entry among the     *)
(* rows or its grants.  A busy lock or a failure leaves the rows alone.    *)
(***************************************************************************)
NoHighestRows(rows) == {}   \* mutant
HighestRows(rows) ==
    {o \in rows : EntrySeqs(rows) # {} /\ o.seq = Max(EntrySeqs(rows))}

PrunableByDirectory(p) == proc[p].read \ HighestRows(local)   \* mutant
Prunable(p) == (proc[p].read \cap proc[p].base) \ HighestRows(local)

PruneRows(p) ==
    /\ proc[p].at = "opened"
    /\ \/ /\ proc[p].live
          /\ lock = NoProcess
          /\ local' = local \ Prunable(p)
       \/ UNCHANGED local
    /\ Update(p, [at |-> "pruned"])
    /\ UNCHANGED <<net, reachable, lock, staged, prepared>>

\* The caller keeps the new runtime, and goes on with the action unless the
\* head differs from the one a preview was made for ...
KeepRuntime(p) ==
    /\ proc[p].at = "pruned"
    /\ \E at \in {"ready", "idle"} :
          Update(p, [at |-> at, base |-> proc[p].read, read |-> {},
                     live |-> FALSE, next |-> proc[p].proposed,
                     proposed |-> NoSeq])
    /\ UNCHANGED <<local, net, reachable, lock, staged, prepared>>

\* ... or drops it: a preview is held and its head has not moved, a later
\* step of the opening failed, or the host only wanted a fresh authority.
DropRuntime(p) ==
    /\ proc[p].at = "pruned"
    /\ \E at \in {"ready", "idle"} :
          /\ at = "ready" => proc[p].proposed = proc[p].next
          /\ Update(p, [at |-> at, read |-> {}, live |-> FALSE,
                        proposed |-> NoSeq])
    /\ UNCHANGED <<local, net, reachable, lock, staged, prepared>>

(***************************************************************************)
(* A finalization on the local component.  It takes the writer lock,       *)
(* refuses while another one is prepared, rebuilds the head from the       *)
(* baseline of the runtime and the rows as they are now, compares it with  *)
(* the sequence the runtime proposes, and stages under the row limit.      *)
(***************************************************************************)
WriterView(p) == proc[p].base \cup local
RowsFree(n) == Cardinality(local) + Cardinality(staged) + n <= RowLimit

MayPrepare(p) ==
    /\ lock = NoProcess
    /\ prepared = NoSeq
    /\ PrefixHead(WriterView(p)) + 1 = proc[p].next
    /\ proc[p].next <= LastSeq
    /\ RowsFree(2)

Prepare(p) ==
    /\ p \in Writers
    /\ proc[p].at = "ready"
    /\ MayPrepare(p)
    /\ lock' = p
    /\ staged' = {Grant(proc[p].next), Entry(proc[p].next)}
    /\ prepared' = proc[p].next
    /\ Update(p, [at |-> "committing"])
    /\ UNCHANGED <<local, net, reachable>>

\* Recovery of what an earlier process prepared.
Resume(p) ==
    /\ p \in Writers
    /\ proc[p].at = "ready"
    /\ lock = NoProcess
    /\ prepared # NoSeq
    /\ lock' = p
    /\ Update(p, [at |-> "committing"])
    /\ UNCHANGED <<local, net, reachable, staged, prepared>>

\* The action ends without a commit: it was another one, or was refused.
Leave(p) ==
    /\ proc[p].at = "ready"
    /\ Update(p, [at |-> "idle"])
    /\ UNCHANGED <<local, net, reachable, lock, staged, prepared>>

\* publish_object: rename from staging; when the staged row is gone the
\* object must be published already and is created again if absent.
CommitObject(p, o) ==
    /\ proc[p].at = "committing"
    /\ \/ o \in staged
       \/ o \in WriterView(p) /\ (o \in local \/ RowsFree(1))
    /\ local' = local \cup {o}
    /\ staged' = staged \ {o}

CommitGrant(p) ==
    /\ Grant(prepared) \notin local
    /\ CommitObject(p, Grant(prepared))
    /\ UNCHANGED <<net, reachable, proc, lock, prepared>>

CommitEntry(p) ==
    /\ Grant(prepared) \in local
    /\ CommitObject(p, Entry(prepared))
    /\ lock' = NoProcess
    /\ prepared' = NoSeq
    /\ Update(p, [at |-> "idle"])
    /\ UNCHANGED <<net, reachable>>

\* An error ends the action and gives the lock back; while nothing is
\* published the recovery may also drop what was prepared.
Abort(p) ==
    /\ proc[p].at = "committing"
    /\ lock' = NoProcess
    /\ Update(p, [at |-> "idle"])
    /\ \/ UNCHANGED <<staged, prepared>>
       \/ /\ staged = {Grant(prepared), Entry(prepared)}
          /\ staged' = {}
          /\ prepared' = NoSeq
    /\ UNCHANGED <<local, net, reachable>>

\* The process ends; what it had read is lost, locks go with it.
Exit(p) ==
    /\ proc[p].at # "off"
    /\ proc' = [proc EXCEPT ![p] = Idle]
    /\ lock' = IF lock = p THEN NoProcess ELSE lock
    /\ UNCHANGED <<local, net, reachable, staged, prepared>>

\* A committed object arrives in the directory: its grants and the entries
\* before it are there already.
Arrive(o) ==
    /\ reachable
    /\ \E p \in Processes : proc[p].at \notin {"off", "starting"}
    /\ o \in local \ net
    /\ o.kind = "eip" =>
          /\ Grant(o.seq) \in net
          /\ 0 .. o.seq - 1 \subseteq EntrySeqs(net)
    /\ net' = net \cup {o}
    /\ UNCHANGED <<local, reachable, proc, lock, staged, prepared>>

SetReachable ==
    /\ reachable' = ~reachable
    /\ UNCHANGED <<local, net, proc, lock, staged, prepared>>

ProcessStep(p) ==
    \/ ReadNetwork(p) \/ OpenVerified(p) \/ OpenRefused(p)
    \/ PruneRows(p) \/ KeepRuntime(p) \/ DropRuntime(p)
    \/ Prepare(p) \/ Resume(p) \/ Leave(p)
    \/ CommitGrant(p) \/ CommitEntry(p) \/ Abort(p) \/ Exit(p)

ArchiveNext ==
    \/ \E p \in Processes : ProcessStep(p)
    \/ \E o \in Objects : Arrive(o)
    \/ SetReachable

ArchiveSpec == ArchiveInit /\ [][ArchiveNext]_archiveVars

-----------------------------------------------------------------------------
\* A finalization never takes a sequence that an entry of the archive has,
\* whether that entry is still a row, already pruned, or out of sight
\* because the directory is unreachable (finalize.rs, steps 1 to 3).
SequenceFresh ==
    [][prepared' \notin {prepared, NoSeq} =>
          Entry(prepared') \notin net \cup local]_archiveVars

\* An opening that verifies proposes the sequence after the last entry there
\* is, however old the view of the directory it was made from: a prune by
\* anyone leaves it a gap below the head, never a lower head
\* (prune_published, open_with_anchor).
OpeningSeesHead ==
    [][\A p \in Processes :
          proc'[p].proposed \notin {proc[p].proposed, NoSeq} =>
              proc'[p].proposed = PublicHead(net \cup local) + 1]_archiveVars
=============================================================================
