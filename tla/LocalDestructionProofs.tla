----------------------- MODULE LocalDestructionProofs -----------------------
(***************************************************************************)
(* Proofs about LocalDestruction, for any number of processes, locations,  *)
(* targets and further devices.                                            *)
(***************************************************************************)
EXTENDS LocalDestruction, TLAPS

Rows == [request : BOOLEAN, custody : Custody, frozen : Custody \cup {None},
         job : (SUBSET Objects) \cup {None}, started : BOOLEAN, purged : BOOLEAN,
         measured : [Locations -> (SUBSET Objects) \cup {None}],
         attested : BOOLEAN, completed : BOOLEAN]
Run == [op : Ops \cup {"none"}, pc : Steps \cup Resting, todo : Seq(Locations),
        live : SUBSET Objects, known : SUBSET Devices, sawStart : BOOLEAN,
        before : Rows \cup {None}]

\* Custody c says nothing that d does not say.
Within(c, d) ==
    /\ c.devices \subseteq d.devices
    /\ c.at \subseteq d.at
    /\ \A l \in Locations : c.holdings[l] \subseteq d.holdings[l]

\* The transaction of execute_local_guarded is open.
Inside == {"stubs", "remove", "flush"}

StubsDurable(l) == \A t \in Targets : stub[l][t] = "durable"

\* The rows: a start has its request and its job, an attestation its purge
\* and a snapshot of every location; the snapshot is a part of the custody.
RowsOK ==
    /\ rows \in Rows
    /\ rows.started => rows.request /\ rows.job # None
    /\ rows.attested => rows.purged /\ rows.frozen # None /\ rows.frozen.at = Locations
    /\ rows.frozen # None => Within(rows.frozen, rows.custody)

\* One call.  While its transaction is open the custody is the snapshot, it
\* removes only what the job names, and it removes behind durable stubs.  The
\* import inside complete started from rows whose custody is a part of the
\* custody of now, and, once it has passed the freeze, of the snapshot.
RunOK(p) ==
    LET r == run[p] IN
    /\ r \in Run
    /\ r.pc \in Steps => r.op # "none"
    /\ r.pc = "begin" => r.op \in {"start", "resume", "complete"}
    /\ r.pc \in Inside =>
         /\ db = p /\ r.todo # <<>> /\ Unchanged
         /\ rows.frozen.holdings[Head(r.todo)] \subseteq rows.job
         /\ r.live \subseteq rows.job
    /\ r.pc \in {"remove", "flush"} => StubsDurable(Head(r.todo))
    /\ r.pc \in Inside \cup {"location", "purge", "sign"} => rows.started
    /\ r.pc \in Inside \cup {"purge", "sign"} =>
         rows.frozen # None /\ rows.frozen.at = Locations
    /\ r.op = "import" =>
         r.before \in Rows /\ r.before.attested
         /\ Within(r.before.custody, rows.custody)
    /\ r.pc \in {"bind", "commit"} =>
         r.op = "import" /\ rows.frozen # None
         /\ Within(r.before.custody, rows.frozen)

FilesOK ==
    /\ file \in [Locations -> [Objects -> {"absent", "file", "unlinked"}]]
    /\ stub \in [Locations -> [Targets -> {"absent", "torn", "created", "durable"}]]
    /\ held \in [Locations -> SUBSET Objects]

RemovalInv ==
    /\ FilesOK
    /\ registry \subseteq Devices
    /\ db \in Processes \cup {Nobody}
    /\ RowsOK
    /\ DOMAIN run = Processes
    /\ \A p \in Processes : RunOK(p)
    /\ RemovalCovered

-----------------------------------------------------------------------------
\* Data.

LEMMA OrderIs ==
    /\ Order \in Seq(Locations) /\ Configured \in Seq(Locations) /\ First \in Locations
    /\ Order \o <<First>> \in Seq(Locations)
<1>1. /\ Order \in Seq(Locations) /\ Configured \in Seq(Locations)
      /\ Configured # <<>>
  BY DestructionAssumption
<1>2. First \in Locations
  BY <1>1 DEF First
<1> QED BY <1>1, <1>2

LEMMA WithinRefl == ASSUME NEW c \in Custody PROVE Within(c, c)
BY DEF Within

LEMMA WithinTrans ==
    ASSUME NEW c \in Custody, NEW d \in Custody, NEW e \in Custody,
           Within(c, d), Within(d, e)
    PROVE  Within(c, e)
BY DEF Within

LEMMA WithinAntisym ==
    ASSUME NEW c \in Custody, NEW d \in Custody, Within(c, d), Within(d, c)
    PROVE  c = d
<1>1. c.devices = d.devices /\ c.at = d.at
  BY DEF Within
<1>2. c.holdings = d.holdings
  <2>1. c.holdings \in [Locations -> SUBSET Objects] /\ d.holdings \in [Locations -> SUBSET Objects]
    BY DEF Custody
  <2>2. \A l \in Locations : c.holdings[l] = d.holdings[l]
    BY DEF Within
  <2> QED BY <2>1, <2>2
<1> QED BY <1>1, <1>2 DEF Custody

\* What observe_catalog and observe_holder make of the custody.
LEMMA LearnedGrows ==
    ASSUME NEW c \in Custody, NEW k \in SUBSET Devices
    PROVE  LET d == [c EXCEPT !.devices = @ \cup k]
           IN  d \in Custody /\ Within(c, d)
BY DEF Custody, Within

LEMMA ObservedGrows ==
    ASSUME NEW c \in Custody, NEW l \in Locations, NEW s \in SUBSET Objects
    PROVE  LET d == [c EXCEPT !.at = @ \cup {l}, !.holdings[l] = @ \cup s]
           IN  d \in Custody /\ Within(c, d)
<1> DEFINE d == [c EXCEPT !.at = @ \cup {l}, !.holdings[l] = @ \cup s]
<1>1. c.holdings \in [Locations -> SUBSET Objects] /\ c.at \in SUBSET Locations
      /\ c.devices \in SUBSET Devices
  BY DEF Custody
<1>2. d.devices = c.devices /\ d.at = c.at \cup {l}
      /\ d.holdings = [c.holdings EXCEPT ![l] = @ \cup s]
  BY DEF Custody
<1>3. d \in Custody
  BY <1>1 DEF Custody
<1> HIDE DEF d
<1>4. Within(c, d)
  BY <1>1, <1>2 DEF Within
<1> QED BY <1>3, <1>4 DEF d

-----------------------------------------------------------------------------
\* Frames.

\* What every transaction keeps of the rows.
Grows ==
    /\ rows.request => rows'.request
    /\ rows.started => rows'.started
    /\ rows.frozen # None => rows'.frozen = rows.frozen
    /\ rows.job # None => rows'.job = rows.job
    /\ Within(rows.custody, rows'.custody)

DurableKept ==
    \A l \in Locations, t \in Targets : stub[l][t] = "durable" => stub'[l][t] = "durable"

LEMMA RunUpdated ==
    ASSUME NEW p \in Processes, \A q \in Processes : RunOK(q), NEW new,
           run' = [run EXCEPT ![p] = new], DOMAIN run = Processes
    PROVE  /\ run'[p] = new
           /\ DOMAIN run' = Processes
           /\ \A q \in Processes \ {p} : run'[q] = run[q]
OBVIOUS

\* A call that has no open transaction is not disturbed by the rows of others.
LEMMA OthersRows ==
    ASSUME RowsOK, RowsOK', Grows, NEW q \in Processes, RunOK(q),
           run'[q] = run[q], run[q].pc \notin Inside
    PROVE  RunOK(q)'
<1> DEFINE r == run[q]
<1>1. r \in Run /\ run'[q] = r /\ r.pc \notin Inside
  BY DEF RunOK
<1>2. /\ r.pc \in Steps => r.op # "none"
      /\ r.pc = "begin" => r.op \in {"start", "resume", "complete"}
      /\ r.pc \in {"location", "purge", "sign"} => rows.started
      /\ r.pc \in {"purge", "sign"} =>
           rows.frozen # None /\ rows.frozen.at = Locations
      /\ r.op = "import" =>
           r.before \in Rows /\ r.before.attested
           /\ Within(r.before.custody, rows.custody)
      /\ r.pc \in {"bind", "commit"} =>
           r.op = "import" /\ rows.frozen # None
           /\ Within(r.before.custody, rows.frozen)
  BY DEF RunOK
<1>3. rows.custody \in Custody /\ rows'.custody \in Custody
  BY DEF RowsOK, Rows
<1>4. r.op = "import" => Within(r.before.custody, rows'.custody)
  <2> SUFFICES ASSUME r.op = "import" PROVE Within(r.before.custody, rows'.custody)
    OBVIOUS
  <2>1. r.before.custody \in Custody
    BY <1>2 DEF Rows
  <2> HIDE DEF r
  <2> QED BY <1>2, <1>3, <2>1, WithinTrans DEF Grows
<1> HIDE DEF r
<1>5. RunOK(q)' <=>
        /\ r \in Run
        /\ r.pc \in Steps => r.op # "none"
        /\ r.pc = "begin" => r.op \in {"start", "resume", "complete"}
        /\ r.pc \in Inside \cup {"location", "purge", "sign"} => rows'.started
        /\ r.pc \in Inside \cup {"purge", "sign"} =>
             rows'.frozen # None /\ rows'.frozen.at = Locations
        /\ r.op = "import" =>
             r.before \in Rows /\ r.before.attested
             /\ Within(r.before.custody, rows'.custody)
        /\ r.pc \in {"bind", "commit"} =>
             r.op = "import" /\ rows'.frozen # None
             /\ Within(r.before.custody, rows'.frozen)
  BY <1>1 DEF RunOK, Inside
<1> QED BY <1>1, <1>2, <1>4, <1>5 DEF Grows, Inside

LEMMA OthersStubs ==
    ASSUME FilesOK, NEW q \in Processes, RunOK(q), run'[q] = run[q],
           rows' = rows, db = q => db' = q, DurableKept
    PROVE  RunOK(q)'
<1>1. run[q].pc \in {"remove", "flush"} => StubsDurable(Head(run[q].todo))'
  <2> SUFFICES ASSUME run[q].pc \in {"remove", "flush"}
               PROVE  StubsDurable(Head(run[q].todo))'
    OBVIOUS
  <2>1. run[q].todo \in Seq(Locations) /\ run[q].todo # <<>>
    BY DEF RunOK, Run, Inside
  <2>2. Head(run[q].todo) \in Locations
    BY <2>1
  <2> QED BY <2>2 DEF RunOK, StubsDurable, DurableKept
<1> QED BY <1>1 DEF RunOK, Inside, Unchanged

LEMMA OneTransaction ==
    ASSUME NEW p \in Processes, NEW q \in Processes \ {p}, RunOK(p), RunOK(q),
           db = Nobody \/ run[p].pc \in Inside
    PROVE  run[q].pc \notin Inside
BY DestructionAssumption DEF RunOK

\* A step of one call that writes rows and touches no file.
LEMMA RowStep ==
    ASSUME RemovalInv, NEW p \in Processes, UNCHANGED <<file, stub, held, registry>>,
           db = Nobody \/ run[p].pc \in Inside, db' \in Processes \cup {Nobody},
           RowsOK', Grows, RunOK(p)',
           DOMAIN run' = Processes,
           \A q \in Processes \ {p} : run'[q] = run[q]
    PROVE  RemovalInv'
<1>1. \A q \in Processes \ {p} : RunOK(q)'
  BY OthersRows, OneTransaction DEF RemovalInv
<1>2. RemovalCovered'
  BY DEF RemovalInv, RemovalCovered, Grows
<1> QED BY <1>1, <1>2 DEF RemovalInv, FilesOK

\* A step of one call, or of the outside, that leaves the rows alone.
LEMMA FileStep ==
    ASSUME RemovalInv, NEW P \in SUBSET Processes, UNCHANGED rows,
           FilesOK', DurableKept, RemovalCovered', registry' \subseteq Devices,
           db' \in Processes \cup {Nobody},
           DOMAIN run' = Processes, \A p \in P : RunOK(p)',
           \A q \in Processes \ P : run'[q] = run[q] /\ (db = q => db' = q)
    PROVE  RemovalInv'
<1>1. \A q \in Processes \ P : RunOK(q)'
  BY OthersStubs DEF RemovalInv
<1> QED BY <1>1 DEF RemovalInv, RowsOK

-----------------------------------------------------------------------------
\* The moves of a call.

\* Only p moves, to the record new.
MovesTo(p, new) ==
    /\ run'[p] = new /\ DOMAIN run' = Processes
    /\ \A q \in Processes \ {p} : run'[q] = run[q]

LEMMA Moves ==
    ASSUME NEW p \in Processes, DOMAIN run = Processes, NEW new,
           run' = [run EXCEPT ![p] = new]
    PROVE  MovesTo(p, new)
BY DEF MovesTo

LEMMA IdleIs ==
    Idle \in Run /\ Idle.pc = "idle" /\ Idle.op = "none"
BY DEF Idle, Run, Resting

\* A resting call is free of obligations.
LEMMA RestingOK ==
    ASSUME NEW p \in Processes, NEW r \in Run, run'[p] = r, r.pc \in Resting,
           r.op = "none"
    PROVE  RunOK(p)'
BY DEF RunOK, Resting, Steps, Inside

LEMMA EndIs ==
    ASSUME RemovalInv, NEW p \in Processes, End(p)
    PROVE  /\ RunOK(p)' /\ DOMAIN run' = Processes
           /\ \A q \in Processes \ {p} : run'[q] = run[q]
<1>1. MovesTo(p, Idle)
  BY Moves DEF End, RemovalInv
<1> QED BY <1>1, IdleIs, RestingOK DEF MovesTo, Resting

GoesTo(p, step) ==
    \E new \in Run :
      /\ MovesTo(p, new)
      /\ new.pc = step /\ new.op = run[p].op /\ new.todo = run[p].todo
      /\ new.live = run[p].live /\ new.before = run[p].before

LEMMA GoIs ==
    ASSUME RemovalInv, NEW p \in Processes, NEW step \in Steps, Go(p, step)
    PROVE  GoesTo(p, step)
<1> DEFINE new == [run[p] EXCEPT !.pc = step]
<1>1. run[p] \in Run /\ DOMAIN run = Processes
  BY DEF RemovalInv, RunOK
<1>2. run' = [run EXCEPT ![p] = new]
  BY DEF Go
<1>3. /\ new \in Run /\ new.pc = step /\ new.op = run[p].op
      /\ new.todo = run[p].todo /\ new.live = run[p].live
      /\ new.before = run[p].before
  BY <1>1 DEF Run
<1> HIDE DEF new
<1>4. MovesTo(p, new)
  BY <1>1, <1>2, Moves
<1> QED BY <1>3, <1>4 DEF GoesTo

LEMMA StepNames ==
    /\ "holders" \in Steps /\ "flush" \in Steps /\ "remove" \in Steps
    /\ "sign" \in Steps /\ "snapshot" \in Steps /\ "commit" \in Steps
BY DEF Steps

LEMMA BeginIs ==
    ASSUME RemovalInv, NEW p \in Processes, NEW op \in Ops \ {"import"}, Begin(p, op)
    PROVE  /\ run'[p] \in Run /\ run'[p].pc = "catalog" /\ run'[p].op = op
           /\ DOMAIN run' = Processes
           /\ \A q \in Processes \ {p} : run'[q] = run[q]
<1> DEFINE new == [Idle EXCEPT !.op = op, !.pc = "catalog", !.todo = Configured,
                               !.known = registry, !.sawStart = rows.started]
<1>1. run' = [run EXCEPT ![p] = new] /\ DOMAIN run = Processes
  BY DEF Begin, RemovalInv
<1>2. rows.started \in BOOLEAN /\ registry \in SUBSET Devices
  BY DEF RemovalInv, RowsOK, Rows
<1>3. new \in Run /\ new.pc = "catalog" /\ new.op = op
  BY <1>2, OrderIs DEF Run, Idle, Ops, Steps
<1> HIDE DEF new
<1> QED BY <1>1, <1>3, Moves DEF MovesTo

LEMMA BeginOK ==
    ASSUME RemovalInv, NEW p \in Processes, NEW op \in Ops \ {"import"}, Begin(p, op)
    PROVE  RunOK(p)'
<1>1. run'[p] \in Run /\ run'[p].pc = "catalog" /\ run'[p].op = op
  BY BeginIs
<1>2. op # "none" /\ op # "import"
  BY DEF Ops
<1> QED BY <1>1, <1>2 DEF RunOK, Inside, Steps

-----------------------------------------------------------------------------
\* The actions.

\* A step that touches nothing but its own call.
LEMMA QuietStep ==
    ASSUME RemovalInv, NEW p \in Processes,
           UNCHANGED <<file, stub, held, registry, db, rows>>,
           RunOK(p)', DOMAIN run' = Processes,
           \A q \in Processes \ {p} : run'[q] = run[q]
    PROVE  RemovalInv'
<1>1. FilesOK' /\ DurableKept /\ RemovalCovered'
  BY DEF RemovalInv, FilesOK, DurableKept, RemovalCovered
<1>2. db' \in Processes \cup {Nobody} /\ registry' \subseteq Devices
  BY DEF RemovalInv
<1> DEFINE P == {p}
<1>3. /\ P \in SUBSET Processes /\ \A q \in P : RunOK(q)'
      /\ \A q \in Processes \ P : run'[q] = run[q] /\ (db = q => db' = q)
  OBVIOUS
<1> HIDE DEF P
<1> QED BY <1>1, <1>2, <1>3, FileStep

LEMMA BeginStep ==
    ASSUME RemovalInv, NEW p \in Processes,
           \/ BeginPrepare(p) \/ BeginStart(p) \/ BeginResume(p) \/ BeginComplete(p)
    PROVE  RemovalInv'
<1>1. CASE BeginPrepare(p)
  <2>1. /\ rows' = [rows EXCEPT !.request = TRUE] /\ Begin(p, "prepare")
        /\ UNCHANGED <<file, stub, held, registry, db>> /\ db = Nobody
    BY <1>1 DEF BeginPrepare, Files, Locks, DbFree
  <2>2. RowsOK /\ rows \in Rows
    BY DEF RemovalInv, RowsOK
  <2>3. /\ rows' \in Rows /\ rows'.request = TRUE /\ rows'.started = rows.started
        /\ rows'.frozen = rows.frozen /\ rows'.job = rows.job
        /\ rows'.custody = rows.custody /\ rows'.attested = rows.attested
        /\ rows'.purged = rows.purged
    BY <2>1, <2>2 DEF Rows
  <2>4. RowsOK'
    BY <2>2, <2>3 DEF RowsOK
  <2>5. Grows
    BY <2>2, <2>3, WithinRefl DEF Grows, Rows
  <2>6. "prepare" \in Ops \ {"import"}
    BY DEF Ops
  <2>7. /\ RunOK(p)' /\ DOMAIN run' = Processes
        /\ \A q \in Processes \ {p} : run'[q] = run[q]
    BY <2>1, <2>6, BeginIs, BeginOK
  <2> QED BY <2>1, <2>4, <2>5, <2>7, RowStep
<1>2. CASE BeginStart(p) \/ BeginResume(p) \/ BeginComplete(p)
  <2>1. PICK op \in Ops \ {"import"} : Begin(p, op)
    BY <1>2 DEF BeginStart, BeginResume, BeginComplete, Ops
  <2>2. UNCHANGED <<file, stub, held, registry, db, rows>>
    BY <1>2 DEF BeginStart, BeginResume, BeginComplete, Files, Locks
  <2>3. RunOK(p)' /\ DOMAIN run' = Processes
        /\ \A q \in Processes \ {p} : run'[q] = run[q]
    BY <2>1, BeginIs, BeginOK
  <2> QED BY <2>2, <2>3, QuietStep
<1> QED BY <1>1, <1>2

\* The custody grows.
LEMMA CustodyRows ==
    ASSUME RowsOK, NEW c \in Custody, Within(rows.custody, c),
           rows' = [rows EXCEPT !.custody = c]
    PROVE  RowsOK' /\ Grows /\ rows'.custody = c
<1>1. rows \in Rows /\ rows.custody \in Custody
  BY DEF RowsOK, Rows
<1>2. /\ rows' \in Rows /\ rows'.request = rows.request
      /\ rows'.started = rows.started
      /\ rows'.frozen = rows.frozen /\ rows'.job = rows.job
      /\ rows'.custody = c /\ rows'.attested = rows.attested
      /\ rows'.purged = rows.purged
  BY <1>1 DEF Rows
<1>3. rows.frozen # None => Within(rows.frozen, c)
  <2> SUFFICES ASSUME rows.frozen # None PROVE Within(rows.frozen, c)
    OBVIOUS
  <2>1. rows.frozen \in Custody /\ Within(rows.frozen, rows.custody)
    BY <1>1 DEF Rows, RowsOK
  <2> QED BY <1>1, <2>1, WithinTrans
<1>4. RowsOK'
  BY <1>2, <1>3 DEF RowsOK
<1> QED BY <1>2, <1>4 DEF Grows

\* A call that observes keeps what it knows about an earlier custody.
LEMMA ObserverOK ==
    ASSUME RemovalInv, RowsOK', Grows, NEW p \in Processes,
           run[p].pc \in {"catalog", "holders"}, NEW new \in Run,
           MovesTo(p, new), new.pc \in {"holders", "freeze"},
           new.op = run[p].op, new.before = run[p].before
    PROVE  RunOK(p)'
<1>1. RunOK(p) /\ RowsOK /\ run'[p] = new
  BY DEF RemovalInv, MovesTo
<1>2. /\ new.op # "none"
      /\ new.op = "import" =>
           new.before \in Rows /\ new.before.attested
           /\ Within(new.before.custody, rows.custody)
  BY <1>1 DEF RunOK, Steps
<1>3. new.op = "import" => Within(new.before.custody, rows'.custody)
  <2> SUFFICES ASSUME new.op = "import" PROVE Within(new.before.custody, rows'.custody)
    OBVIOUS
  <2>1. /\ new.before.custody \in Custody /\ rows.custody \in Custody
        /\ rows'.custody \in Custody
    BY <1>1, <1>2 DEF Rows, RowsOK
  <2> QED BY <1>2, <2>1, WithinTrans DEF Grows
<1> QED BY <1>1, <1>2, <1>3 DEF RunOK, Inside

LEMMA CatalogStep ==
    ASSUME RemovalInv, NEW p \in Processes, ObserveCatalog(p)
    PROVE  RemovalInv'
<1>1. /\ run[p].pc = "catalog" /\ db = Nobody
      /\ rows' = [rows EXCEPT !.custody = Learned(p)]
      /\ Go(p, "holders") /\ UNCHANGED <<file, stub, held, registry, db>>
  BY DEF ObserveCatalog, At, DbFree, Files, Locks
<1>2. run[p].known \in SUBSET Devices /\ RowsOK /\ rows.custody \in Custody
  BY DEF RemovalInv, RunOK, Run, RowsOK, Rows
<1>3. Learned(p) \in Custody /\ Within(rows.custody, Learned(p))
  BY <1>2, LearnedGrows DEF Learned
<1>4. RowsOK' /\ Grows
  BY <1>1, <1>2, <1>3, CustodyRows
<1>5. PICK new \in Run : MovesTo(p, new) /\ new.pc = "holders"
        /\ new.op = run[p].op /\ new.before = run[p].before
  <2>1. GoesTo(p, "holders")
    BY <1>1, GoIs, StepNames
  <2> QED BY <2>1 DEF GoesTo
<1>6. RunOK(p)'
  BY <1>1, <1>4, <1>5, ObserverOK
<1> QED BY <1>1, <1>4, <1>5, <1>6, RowStep DEF MovesTo

LEMMA HolderStep ==
    ASSUME RemovalInv, NEW p \in Processes, ObserveHolder(p)
    PROVE  RemovalInv'
<1> DEFINE l == Head(run[p].todo)
           c == [rows.custody EXCEPT !.at = @ \cup {l}, !.holdings[l] = @ \cup Present(l)]
           new == [run[p] EXCEPT !.todo = Tail(@),
                     !.pc = IF Len(run[p].todo) = 1 THEN "freeze" ELSE @]
<1>1. /\ run[p].pc = "holders" /\ db = Nobody /\ run[p].todo # <<>>
      /\ rows' = [rows EXCEPT !.custody = c]
      /\ UNCHANGED <<file, stub, held, registry, db>>
  BY DEF ObserveHolder, At, DbFree, Files, Locks
<1>2. /\ run[p] \in Run /\ run[p].todo \in Seq(Locations) /\ RowsOK
      /\ rows.custody \in Custody /\ DOMAIN run = Processes
  BY DEF RemovalInv, RunOK, Run, RowsOK, Rows
<1>3. l \in Locations /\ Tail(run[p].todo) \in Seq(Locations)
  BY <1>1, <1>2
<1>4. Present(l) \in SUBSET Objects
  BY DEF Present
<1>5. run' = [run EXCEPT ![p] = new]
  BY <1>2 DEF ObserveHolder
<1>6. /\ new \in Run /\ new.op = run[p].op /\ new.before = run[p].before
      /\ new.pc \in {"holders", "freeze"}
  BY <1>1, <1>2, <1>3 DEF Run, Steps
<1> HIDE DEF new
<1>7. MovesTo(p, new)
  BY <1>2, <1>5, Moves
<1>8. RowsOK' /\ Grows
  <2> HIDE DEF l
  <2>1. c \in Custody /\ Within(rows.custody, c)
    BY <1>2, <1>3, <1>4, ObservedGrows
  <2> HIDE DEF c
  <2> QED BY <1>1, <1>2, <2>1, CustodyRows
<1>9. RunOK(p)'
  BY <1>1, <1>6, <1>7, <1>8, ObserverOK
<1> QED BY <1>1, <1>7, <1>8, <1>9, RowStep DEF MovesTo

\* The first freeze makes the snapshot, a later one keeps it.
LEMMA FreezeStep ==
    ASSUME RemovalInv, NEW p \in Processes, Freeze(p)
    PROVE  RemovalInv'
<1>1. /\ run[p].pc = "freeze" /\ db = Nobody
      /\ rows.frozen \in {None, rows.custody}
      /\ rows' = [rows EXCEPT !.frozen = rows.custody]
      /\ Go(p, AfterFreeze(p)) /\ UNCHANGED <<file, stub, held, registry, db>>
  BY DEF Freeze, At, DbFree, Files, Locks
<1>2. RowsOK /\ rows \in Rows /\ rows.custody \in Custody /\ RunOK(p)
  BY DEF RemovalInv, RowsOK, Rows
<1>3. /\ rows' \in Rows /\ rows'.request = rows.request
      /\ rows'.started = rows.started
      /\ rows'.frozen = rows.custody /\ rows'.job = rows.job
      /\ rows'.custody = rows.custody /\ rows'.attested = rows.attested
      /\ rows'.purged = rows.purged
  BY <1>1, <1>2 DEF Rows
<1>4. rows.custody # None /\ Within(rows.custody, rows.custody)
  BY <1>2, NoneIsNoCustody, WithinRefl
<1>5. RowsOK'
  BY <1>1, <1>2, <1>3, <1>4 DEF RowsOK
<1>6. Grows
  BY <1>1, <1>3, <1>4 DEF Grows
<1>7. AfterFreeze(p) \in {"plan", "bind", "begin"}
      /\ (AfterFreeze(p) = "bind" => run[p].op = "import")
      /\ (AfterFreeze(p) = "begin" => run[p].op \in {"start", "resume", "complete"})
  BY <1>1, <1>2 DEF AfterFreeze, RunOK, Run, Ops, Steps
<1>8. PICK new \in Run : MovesTo(p, new) /\ new.pc = AfterFreeze(p)
        /\ new.op = run[p].op /\ new.before = run[p].before
  <2>1. AfterFreeze(p) \in Steps
    BY <1>7 DEF Steps
  <2>2. GoesTo(p, AfterFreeze(p))
    BY <1>1, <2>1, GoIs
  <2> QED BY <2>2 DEF GoesTo
<1>9. RunOK(p)'
  <2>1. /\ new.op # "none"
        /\ new.op = "import" => new.before \in Rows /\ new.before.attested
                                /\ Within(new.before.custody, rows.custody)
    BY <1>1, <1>2, <1>8 DEF RunOK, Steps
  <2>2. run'[p] = new /\ new.pc \in {"plan", "bind", "begin"}
        /\ (new.pc = "bind" => new.op = "import")
        /\ (new.pc = "begin" => new.op \in {"start", "resume", "complete"})
    BY <1>7, <1>8 DEF MovesTo
  <2> QED BY <1>3, <1>4, <2>1, <2>2 DEF RunOK, Inside
<1> QED BY <1>1, <1>5, <1>6, <1>8, <1>9, RowStep DEF MovesTo

\* A call that moves within its own steps, with a new program counter of no
\* obligation.
LEMMA FreeMove ==
    ASSUME RemovalInv, NEW p \in Processes, run[p].pc \in Steps, NEW new \in Run,
           MovesTo(p, new), new.pc \in {"persist", "evidence", "snapshot"},
           new.op = run[p].op, new.before = run[p].before,
           UNCHANGED <<file, stub, held, registry, db, rows>>
    PROVE  RemovalInv'
<1>1. RunOK(p)'
  BY DEF RemovalInv, MovesTo, RunOK, Inside
<1> QED BY <1>1, QuietStep DEF MovesTo

LEMMA PrepareStep ==
    ASSUME RemovalInv, NEW p \in Processes,
           KeepJob(p) \/ PlanRemovals(p) \/ PersistJob(p)
    PROVE  RemovalInv'
<1>1. CASE KeepJob(p)
  <2>1. End(p) /\ UNCHANGED <<file, stub, held, registry, db, rows>>
    BY <1>1 DEF KeepJob, Files, Locks
  <2> QED BY <2>1, EndIs, QuietStep
<1>2. CASE PlanRemovals(p)
  <2> DEFINE new == [run[p] EXCEPT !.pc = "persist", !.live = Present(Primary)]
  <2>1. /\ run[p] \in Run /\ DOMAIN run = Processes /\ run[p].pc = "plan"
        /\ UNCHANGED <<file, stub, held, registry, db, rows>>
    BY <1>2 DEF PlanRemovals, RemovalInv, RunOK, Files, Locks, At
  <2>2. run' = [run EXCEPT ![p] = new]
    BY <1>2, <2>1 DEF PlanRemovals
  <2>3. /\ new \in Run /\ new.pc = "persist" /\ new.op = run[p].op
        /\ new.before = run[p].before
    BY <2>1 DEF Run, Present, Steps
  <2> HIDE DEF new
  <2>4. MovesTo(p, new)
    BY <2>1, <2>2, Moves
  <2> QED BY <2>1, <2>3, <2>4, FreeMove DEF Steps
<1>3. CASE PersistJob(p)
  <2>1. /\ rows.job = None /\ db = Nobody /\ End(p)
        /\ rows' = [rows EXCEPT !.job = run[p].live]
        /\ UNCHANGED <<file, stub, held, registry, db>>
    BY <1>3 DEF PersistJob, DbFree, Files, Locks
  <2>2. RowsOK /\ rows \in Rows /\ rows.custody \in Custody
        /\ run[p].live \in SUBSET Objects
    BY DEF RemovalInv, RowsOK, Rows, RunOK, Run
  <2>3. /\ rows' \in Rows /\ rows'.request = rows.request
        /\ rows'.started = rows.started
        /\ rows'.frozen = rows.frozen /\ rows'.job = run[p].live
        /\ rows'.custody = rows.custody /\ rows'.attested = rows.attested
        /\ rows'.purged = rows.purged
    BY <2>1, <2>2 DEF Rows
  <2>4. RowsOK'
    BY <2>1, <2>2, <2>3 DEF RowsOK
  <2>5. Grows
    BY <2>1, <2>2, <2>3, WithinRefl DEF Grows
  <2> QED BY <2>1, <2>4, <2>5, EndIs, RowStep
<1> QED BY <1>1, <1>2, <1>3

LEMMA StartEventStep ==
    ASSUME RemovalInv, NEW p \in Processes, StartEvent(p)
    PROVE  RemovalInv'
<1> DEFINE resumed == [run[p] EXCEPT !.pc = "location",
                                     !.todo = Order \o <<First>>]
           completing == [run[p] EXCEPT !.pc = "evidence"]
           new == CASE run[p].op = "start"    -> Idle
                    [] run[p].op = "resume"   -> resumed
                    [] run[p].op = "complete" -> completing
<1>1. /\ run[p].pc = "begin" /\ db = Nobody /\ rows.job # None /\ rows.request
      /\ rows' = [rows EXCEPT !.started = TRUE]
      /\ UNCHANGED <<file, stub, held, registry, db>>
  BY DEF StartEvent, At, DbFree, Files, Locks
<1>2. /\ RowsOK /\ rows \in Rows /\ rows.custody \in Custody /\ RunOK(p)
      /\ run[p] \in Run /\ DOMAIN run = Processes
  BY DEF RemovalInv, RowsOK, Rows, RunOK
<1>3. /\ rows' \in Rows /\ rows'.request = rows.request
      /\ rows'.started = TRUE
      /\ rows'.frozen = rows.frozen /\ rows'.job = rows.job
      /\ rows'.custody = rows.custody /\ rows'.attested = rows.attested
      /\ rows'.purged = rows.purged
  BY <1>1, <1>2 DEF Rows
<1>4. RowsOK'
  BY <1>1, <1>2, <1>3 DEF RowsOK
<1>5. Grows
  BY <1>2, <1>3, WithinRefl DEF Grows
<1>6. run' = [run EXCEPT ![p] = new]
  BY <1>2 DEF StartEvent
<1>7. Order \o <<First>> \in Seq(Locations)
  BY OrderIs
<1>8. /\ resumed \in Run /\ resumed.pc = "location" /\ resumed.op = run[p].op
      /\ resumed.before = run[p].before
  BY <1>2, <1>7 DEF Run, Steps
<1>9. /\ completing \in Run /\ completing.pc = "evidence"
      /\ completing.op = run[p].op /\ completing.before = run[p].before
  BY <1>2 DEF Run, Steps
<1>10. run[p].op \in {"start", "resume", "complete"}
  BY <1>1, <1>2 DEF RunOK
<1>11. new \in Run /\ \/ new = Idle
                      \/ /\ new.pc \in {"location", "evidence"}
                         /\ new.op \in {"resume", "complete"}
  <2> HIDE DEF resumed, completing
  <2> QED BY <1>8, <1>9, <1>10, IdleIs
<1> HIDE DEF new
<1>12. MovesTo(p, new)
  BY <1>2, <1>6, Moves
<1>13. RunOK(p)'
  <2>1. run'[p] = new
    BY <1>12 DEF MovesTo
  <2>2. CASE new = Idle
    BY <1>11, <2>1, <2>2, IdleIs, RestingOK DEF Resting
  <2>3. CASE /\ new.pc \in {"location", "evidence"}
             /\ new.op \in {"resume", "complete"}
    BY <1>3, <1>11, <2>1, <2>3 DEF RunOK, Inside
  <2> QED BY <1>11, <2>2, <2>3
<1> QED BY <1>1, <1>4, <1>5, <1>12, <1>13, RowStep DEF MovesTo

\* A step of one call on files and stubs.
LEMMA CallFileStep ==
    ASSUME RemovalInv, NEW p \in Processes, UNCHANGED <<rows, registry>>,
           FilesOK', DurableKept, RemovalCovered', RunOK(p)',
           db' \in {p} \cup {db}, db \in {p, Nobody} \/ db' = db,
           DOMAIN run' = Processes, \A q \in Processes \ {p} : run'[q] = run[q]
    PROVE  RemovalInv'
<1>1. db' \in Processes \cup {Nobody} /\ registry' \subseteq Devices
  BY DEF RemovalInv
<1> DEFINE P == {p}
<1>2. /\ P \in SUBSET Processes /\ \A q \in P : RunOK(q)'
      /\ \A q \in Processes \ P : run'[q] = run[q] /\ (db = q => db' = q)
  BY DestructionAssumption
<1> HIDE DEF P
<1> QED BY <1>1, <1>2, FileStep

LEMMA EnterStep ==
    ASSUME RemovalInv, NEW p \in Processes, EnterLocation(p)
    PROVE  RemovalInv'
<1> DEFINE l == Head(run[p].todo)
           new == [run[p] EXCEPT !.pc = "stubs", !.live = Present(l)]
<1>1. /\ run[p].pc = "location" /\ run[p].todo # <<>> /\ db = Nobody /\ db' = p
      /\ rows.frozen.at = Locations
      /\ rows.frozen.holdings[l] \subseteq rows.job /\ Unchanged
      /\ Present(l) \subseteq rows.frozen.holdings[l]
      /\ UNCHANGED <<file, stub, held, registry, rows>>
  BY DEF EnterLocation, Here, At, DbFree, Files
<1>2. /\ RunOK(p) /\ run[p] \in Run /\ DOMAIN run = Processes
      /\ rows.custody \in Custody /\ rows.started /\ run[p].op # "none"
  BY <1>1 DEF RemovalInv, RowsOK, Rows, RunOK, Steps
<1>3. run' = [run EXCEPT ![p] = new]
  BY <1>2 DEF EnterLocation, Here
<1>4. rows.frozen # None
  BY <1>1, <1>2, NoneIsNoCustody DEF Unchanged
<1>5. /\ new \in Run /\ new.pc = "stubs" /\ new.op = run[p].op
      /\ new.before = run[p].before /\ new.todo = run[p].todo
      /\ new.live = Present(l)
  BY <1>2 DEF Run, Steps, Present
<1> HIDE DEF new
<1>6. MovesTo(p, new)
  BY <1>2, <1>3, Moves
<1>7. RunOK(p)'
  <2>1. run'[p] = new /\ new.todo # <<>> /\ Head(new.todo) = l
        /\ new.live \subseteq rows.job /\ Unchanged'
    BY <1>1, <1>5, <1>6 DEF MovesTo, Unchanged
  <2>2. new.op = "import" => /\ new.before \in Rows /\ new.before.attested
                             /\ Within(new.before.custody, rows.custody)
    BY <1>2, <1>5 DEF RunOK
  <2> HIDE DEF l
  <2> QED BY <1>1, <1>2, <1>4, <1>5, <2>1, <2>2 DEF RunOK, Inside
<1>8. FilesOK' /\ DurableKept /\ RemovalCovered'
  BY <1>1 DEF RemovalInv, FilesOK, DurableKept, RemovalCovered
<1> QED BY <1>1, <1>6, <1>7, <1>8, CallFileStep DEF MovesTo

LEMMA StubStep ==
    ASSUME RemovalInv, NEW p \in Processes, NEW t \in Targets,
           CreateStub(p, t) \/ SyncStub(p, t)
    PROVE  RemovalInv'
<1> DEFINE l == Head(run[p].todo)
<1>1. /\ run[p].pc = "stubs" /\ stub[l][t] \in {"absent", "created"}
      /\ \E v \in {"created", "durable"} : stub' = [stub EXCEPT ![l][t] = v]
      /\ UNCHANGED <<file, held, registry, db, rows, run>>
  BY DEF CreateStub, SyncStub, Here, At, Locks
<1>2. PICK v \in {"created", "durable"} : stub' = [stub EXCEPT ![l][t] = v]
  BY <1>1
<1>3. /\ run[p].todo \in Seq(Locations) /\ run[p].todo # <<>> /\ FilesOK
      /\ RunOK(p) /\ DOMAIN run = Processes
  BY <1>1 DEF RemovalInv, RunOK, Run, Inside
<1>4. l \in Locations
  BY <1>3
<1> HIDE DEF l
<1>5. /\ stub' \in [Locations -> [Targets -> {"absent", "torn", "created", "durable"}]]
      /\ DurableKept
  BY <1>1, <1>2, <1>3, <1>4 DEF FilesOK, DurableKept
<1>6. FilesOK'
  BY <1>1, <1>5 DEF RemovalInv, FilesOK
<1>7. RemovalCovered'
  BY <1>1, <1>5 DEF RemovalInv, RemovalCovered, DurableKept
<1>8. RunOK(p)'
  BY <1>1, <1>3 DEF RunOK, Unchanged, Inside
<1> QED BY <1>1, <1>3, <1>5, <1>6, <1>7, <1>8, CallFileStep

LEMMA VerifiedStep ==
    ASSUME RemovalInv, NEW p \in Processes, StubsVerified(p)
    PROVE  RemovalInv'
<1>1. /\ run[p].pc = "stubs" /\ StubsDurable(Head(run[p].todo)) /\ Go(p, "remove")
      /\ UNCHANGED <<file, stub, held, registry, db, rows>>
  BY DEF StubsVerified, StubsDurable, Here, At, Files, Locks
<1>2. PICK new \in Run :
        /\ MovesTo(p, new) /\ new.pc = "remove" /\ new.op = run[p].op
        /\ new.todo = run[p].todo /\ new.live = run[p].live
        /\ new.before = run[p].before
  <2>1. GoesTo(p, "remove")
    BY <1>1, GoIs, StepNames
  <2> QED BY <2>1 DEF GoesTo
<1>3. RunOK(p) /\ run'[p] = new
  BY <1>2 DEF RemovalInv, MovesTo
<1>4. /\ db' = p /\ new.todo # <<>> /\ Unchanged'
      /\ rows'.frozen.holdings[Head(new.todo)] \subseteq rows'.job
      /\ new.live \subseteq rows'.job /\ StubsDurable(Head(new.todo))'
  BY <1>1, <1>2, <1>3 DEF RunOK, Inside, Unchanged, StubsDurable
<1>5. /\ new.op # "none" /\ rows'.started /\ rows'.frozen # None
      /\ rows'.frozen.at = Locations
      /\ new.op = "import" => /\ new.before \in Rows /\ new.before.attested
                              /\ Within(new.before.custody, rows'.custody)
  BY <1>1, <1>2, <1>3 DEF RunOK, Inside, Steps
<1>6. RunOK(p)'
  BY <1>2, <1>3, <1>4, <1>5 DEF RunOK, Inside
<1> QED BY <1>1, <1>2, <1>6, QuietStep DEF MovesTo

\* What the open transaction of a call rests on.
LEMMA InsideIs ==
    ASSUME RemovalInv, NEW p \in Processes, run[p].pc \in Inside
    PROVE  /\ run[p] \in Run /\ run[p].op # "none" /\ db = p
           /\ run[p].todo \in Seq(Locations) /\ run[p].todo # <<>>
           /\ Head(run[p].todo) \in Locations
           /\ Unchanged /\ rows.started /\ rows.request /\ rows.job # None
           /\ rows.frozen.holdings[Head(run[p].todo)] \subseteq rows.job
           /\ run[p].live \subseteq rows.job
           /\ rows.frozen # None /\ rows.frozen.at = Locations
           /\ run[p].op = "import" =>
                /\ run[p].before \in Rows /\ run[p].before.attested
                /\ Within(run[p].before.custody, rows.custody)
<1>1. RunOK(p) /\ RowsOK
  BY DEF RemovalInv
<1>2. run[p] \in Run /\ run[p].todo \in Seq(Locations) /\ run[p].todo # <<>>
  BY <1>1 DEF RunOK, Run
<1>3. Head(run[p].todo) \in Locations
  BY <1>2
<1> QED BY <1>1, <1>2, <1>3 DEF RunOK, RowsOK, Steps, Inside

\* A call that goes on in its transaction without touching the rows.
LEMMA StaysInside ==
    ASSUME RemovalInv, NEW p \in Processes, run[p].pc \in {"remove", "flush"},
           UNCHANGED <<rows, db, stub>>, NEW new \in Run, run'[p] = new,
           new.pc \in {"remove", "flush"}, new.op = run[p].op,
           new.todo = run[p].todo, new.live \subseteq run[p].live,
           new.before = run[p].before
    PROVE  RunOK(p)'
<1>1. run[p].pc \in Inside /\ RunOK(p)
  BY DEF Inside, RemovalInv
<1>2. /\ db' = p /\ new.todo # <<>> /\ Unchanged'
      /\ rows'.frozen.holdings[Head(new.todo)] \subseteq rows'.job
      /\ new.live \subseteq rows'.job /\ StubsDurable(Head(new.todo))'
  BY <1>1, InsideIs DEF RunOK, Unchanged, StubsDurable
<1>3. /\ new.op # "none" /\ rows'.started /\ rows'.frozen # None
      /\ rows'.frozen.at = Locations
      /\ new.op = "import" => /\ new.before \in Rows /\ new.before.attested
                              /\ Within(new.before.custody, rows'.custody)
  BY <1>1, InsideIs
<1> QED BY <1>2, <1>3 DEF RunOK, Inside

LEMMA UnlinkStep ==
    ASSUME RemovalInv, NEW p \in Processes, NEW o \in Objects, Unlink(p, o)
    PROVE  RemovalInv'
<1> DEFINE l == Head(run[p].todo)
<1>1. /\ run[p].pc = "remove" /\ o \in run[p].live /\ Go(p, "flush")
      /\ file' = [file EXCEPT ![l][o] = "unlinked"]
      /\ UNCHANGED <<stub, held, registry, db, rows>>
  BY DEF Unlink, Here, At, Locks
<1>2. /\ l \in Locations /\ rows.started /\ rows.request /\ rows.job # None
      /\ o \in rows.job /\ StubsDurable(l)
  BY <1>1, InsideIs DEF RemovalInv, RunOK, Inside
<1> HIDE DEF l
<1>3. /\ file' \in [Locations -> [Objects -> {"absent", "file", "unlinked"}]]
      /\ \A k \in Locations, x \in Objects :
           k # l \/ x # o => file'[k][x] = file[k][x]
  BY <1>1, <1>2 DEF RemovalInv, FilesOK
<1>4. FilesOK' /\ DurableKept
  BY <1>1, <1>3 DEF RemovalInv, FilesOK, DurableKept
<1>5. RemovalCovered'
  <2> SUFFICES ASSUME NEW k \in Locations, NEW x \in held[k], file'[k][x] # "file"
               PROVE  /\ rows.request /\ rows.started /\ rows.job # None
                      /\ x \in rows.job /\ StubsDurable(k)
    BY <1>1 DEF RemovalCovered, StubsDurable
  <2>1. x \in Objects
    BY DEF RemovalInv, FilesOK
  <2>2. CASE k = l /\ x = o
    BY <1>2, <2>2
  <2>3. CASE k # l \/ x # o
    BY <1>3, <2>1, <2>3 DEF RemovalInv, RemovalCovered, StubsDurable
  <2> QED BY <2>2, <2>3
<1>6. PICK new \in Run :
        /\ MovesTo(p, new) /\ new.pc = "flush" /\ new.op = run[p].op
        /\ new.todo = run[p].todo /\ new.live = run[p].live
        /\ new.before = run[p].before
  <2>1. GoesTo(p, "flush")
    BY <1>1, GoIs, StepNames
  <2> QED BY <2>1 DEF GoesTo
<1>7. RunOK(p)'
  BY <1>1, <1>6, StaysInside DEF MovesTo
<1> QED BY <1>1, <1>4, <1>5, <1>6, <1>7, CallFileStep DEF MovesTo

LEMMA FlushStep ==
    ASSUME RemovalInv, NEW p \in Processes, NEW o \in Objects, FlushRemoval(p, o)
    PROVE  RemovalInv'
<1> DEFINE l == Head(run[p].todo)
           gone(x) == file[l][x] = "unlinked" /\ SameDirectory(o, x)
           new == [run[p] EXCEPT !.pc = "remove", !.live = @ \ {o}]
<1>1. /\ run[p].pc = "flush"
      /\ file' = [file EXCEPT ![l] =
                    [x \in Objects |-> IF gone(x) THEN "absent" ELSE @[x]]]
      /\ UNCHANGED <<stub, held, registry, db, rows>>
  BY DEF FlushRemoval, Here, At, Locks
<1>2. l \in Locations /\ run[p] \in Run /\ DOMAIN run = Processes
  BY <1>1, InsideIs DEF RemovalInv, Inside
<1>3. run' = [run EXCEPT ![p] = new]
  BY <1>2 DEF FlushRemoval
<1>4. /\ new \in Run /\ new.pc = "remove" /\ new.op = run[p].op
      /\ new.todo = run[p].todo /\ new.live \subseteq run[p].live
      /\ new.before = run[p].before
  BY <1>2 DEF Run, Steps
<1> HIDE DEF new, l
<1>5. MovesTo(p, new)
  BY <1>2, <1>3, Moves
<1>6. /\ file' \in [Locations -> [Objects -> {"absent", "file", "unlinked"}]]
      /\ \A k \in Locations, x \in Objects :
           file'[k][x] # "file" => file[k][x] # "file"
  BY <1>1, <1>2 DEF RemovalInv, FilesOK
<1>7. FilesOK' /\ DurableKept
  BY <1>1, <1>6 DEF RemovalInv, FilesOK, DurableKept
<1>8. RemovalCovered'
  BY <1>1, <1>6 DEF RemovalInv, RemovalCovered, FilesOK
<1>9. RunOK(p)'
  BY <1>1, <1>4, <1>5, StaysInside DEF MovesTo
<1> QED BY <1>1, <1>5, <1>7, <1>8, <1>9, CallFileStep DEF MovesTo

\* Rows that differ in fields the invariant does not speak of, or that are
\* set once.
LEMMA SetRows ==
    ASSUME RowsOK, rows' \in Rows, rows'.request = rows.request,
           rows'.started = rows.started, rows'.frozen = rows.frozen,
           rows'.job = rows.job, rows'.custody = rows.custody,
           rows.purged => rows'.purged,
           rows'.attested => rows.attested
                 \/ (rows.purged /\ rows.frozen # None /\ rows.frozen.at = Locations)
    PROVE  RowsOK' /\ Grows
<1>1. rows.custody \in Custody
  BY DEF RowsOK, Rows
<1>2. RowsOK'
  BY DEF RowsOK
<1>3. Grows
  BY <1>1, WithinRefl DEF Grows
<1> QED BY <1>2, <1>3

LEMMA MeasureStep ==
    ASSUME RemovalInv, NEW p \in Processes, Measure(p)
    PROVE  RemovalInv'
<1> DEFINE l == Head(run[p].todo)
           new == [run[p] EXCEPT !.todo = Tail(@),
                     !.pc = IF Len(run[p].todo) = 1 THEN "purge" ELSE "location"]
<1>1. /\ run[p].pc = "remove" /\ db' = Nobody
      /\ rows' = [rows EXCEPT !.measured[l] = rows.frozen.holdings[l]]
      /\ UNCHANGED <<file, stub, held, registry>>
  BY DEF Measure, Here, At, Files
<1>2. /\ run[p] \in Run /\ DOMAIN run = Processes /\ l \in Locations
      /\ run[p].todo \in Seq(Locations) /\ run[p].todo # <<>> /\ RowsOK
      /\ rows.started /\ rows.frozen # None /\ rows.frozen.at = Locations
      /\ run[p].op # "none"
      /\ run[p].op = "import" =>
           /\ run[p].before \in Rows /\ run[p].before.attested
           /\ Within(run[p].before.custody, rows.custody)
  BY <1>1, InsideIs DEF RemovalInv, Inside
<1>3. Tail(run[p].todo) \in Seq(Locations)
  BY <1>2
<1>4. run' = [run EXCEPT ![p] = new]
  BY <1>2 DEF Measure
<1>5. /\ new \in Run /\ new.pc \in {"purge", "location"} /\ new.op = run[p].op
      /\ new.before = run[p].before
  BY <1>2, <1>3 DEF Run, Steps
<1> HIDE DEF new, l
<1>6. MovesTo(p, new)
  BY <1>2, <1>4, Moves
<1>7. rows \in Rows /\ rows.frozen.holdings[l] \in SUBSET Objects
  BY <1>2 DEF RowsOK, Rows, Custody
<1>8. /\ rows' \in Rows /\ rows'.request = rows.request
      /\ rows'.started = rows.started /\ rows'.frozen = rows.frozen
      /\ rows'.job = rows.job /\ rows'.custody = rows.custody
      /\ rows'.purged = rows.purged /\ rows'.attested = rows.attested
  BY <1>1, <1>2, <1>7 DEF Rows
<1>11. (rows.purged => rows'.purged) /\ (rows'.attested => rows.attested)
  BY <1>8
<1>9. RowsOK' /\ Grows
  BY <1>2, <1>8, <1>11, SetRows
<1>10. RunOK(p)'
  BY <1>2, <1>5, <1>6, <1>8 DEF RunOK, MovesTo, Inside
<1> QED BY <1>1, <1>6, <1>9, <1>10, RowStep DEF MovesTo, Inside

LEMMA PurgeStep ==
    ASSUME RemovalInv, NEW p \in Processes, Purge(p)
    PROVE  RemovalInv'
<1>1. /\ run[p].pc = "purge" /\ db = Nobody /\ Go(p, "sign")
      /\ rows' = [rows EXCEPT !.purged = TRUE]
      /\ UNCHANGED <<file, stub, held, registry, db>>
  BY DEF Purge, At, DbFree, Files, Locks
<1>2. RunOK(p) /\ RowsOK /\ rows \in Rows
  BY DEF RemovalInv, RowsOK
<1>3. /\ rows' \in Rows /\ rows'.request = rows.request
      /\ rows'.started = rows.started /\ rows'.frozen = rows.frozen
      /\ rows'.job = rows.job /\ rows'.custody = rows.custody
      /\ rows'.purged = TRUE /\ rows'.attested = rows.attested
  BY <1>1, <1>2 DEF Rows
<1>7. /\ rows.purged => rows'.purged
      /\ rows'.attested => rows.attested
            \/ (rows.purged /\ rows.frozen # None /\ rows.frozen.at = Locations)
  BY <1>3
<1>4. RowsOK' /\ Grows
  BY <1>2, <1>3, <1>7, SetRows
<1>5. PICK new \in Run : MovesTo(p, new) /\ new.pc = "sign"
        /\ new.op = run[p].op /\ new.before = run[p].before
  <2>1. GoesTo(p, "sign")
    BY <1>1, GoIs, StepNames
  <2> QED BY <2>1 DEF GoesTo
<1>6. RunOK(p)'
  BY <1>1, <1>2, <1>3, <1>5 DEF RunOK, MovesTo, Inside, Steps
<1> QED BY <1>1, <1>4, <1>5, <1>6, RowStep DEF MovesTo

LEMMA AttestStep ==
    ASSUME RemovalInv, NEW p \in Processes, Attest(p)
    PROVE  RemovalInv'
<1>1. /\ run[p].pc = "sign" /\ db = Nobody /\ rows.purged /\ End(p)
      /\ rows' = [rows EXCEPT !.attested = TRUE]
      /\ UNCHANGED <<file, stub, held, registry, db>>
  BY DEF Attest, At, DbFree, Files, Locks
<1>2. /\ RowsOK /\ rows \in Rows /\ rows.frozen # None
      /\ rows.frozen.at = Locations
  BY <1>1 DEF RemovalInv, RowsOK, RunOK
<1>3. /\ rows' \in Rows /\ rows'.request = rows.request
      /\ rows'.started = rows.started /\ rows'.frozen = rows.frozen
      /\ rows'.job = rows.job /\ rows'.custody = rows.custody
      /\ rows'.purged = rows.purged
  BY <1>1, <1>2 DEF Rows
<1>4. RowsOK' /\ Grows
  BY <1>1, <1>2, <1>3, SetRows
<1> QED BY <1>1, <1>4, EndIs, RowStep

\* What a snapshot of the tables holds.
LEMMA WatchedIs ==
    ASSUME rows \in Rows
    PROVE  /\ Watched \in Rows /\ Watched.attested = rows.attested
           /\ Watched.custody = rows.custody
<1> DEFINE m == [l \in Locations |-> None]
<1>1. m \in [Locations -> (SUBSET Objects) \cup {None}]
  OBVIOUS
<1>2. Watched = [rows EXCEPT !.purged = FALSE, !.measured = m]
  BY DEF Watched
<1> HIDE DEF m
<1> QED BY <1>1, <1>2 DEF Rows

LEMMA CompletionStep ==
    ASSUME RemovalInv, NEW p \in Processes,
           Evidence(p) \/ Snapshot(p) \/ Bind(p) \/ CommitCompletion(p)
    PROVE  RemovalInv'
<1>1. CASE Evidence(p)
  <2>1. /\ run[p].pc = "evidence" /\ Go(p, "snapshot")
        /\ UNCHANGED <<file, stub, held, registry, db, rows>>
    BY <1>1 DEF Evidence, At, Files, Locks
  <2>2. PICK new \in Run : MovesTo(p, new) /\ new.pc = "snapshot"
          /\ new.op = run[p].op /\ new.before = run[p].before
    <3>1. GoesTo(p, "snapshot")
      BY <2>1, GoIs, StepNames
    <3> QED BY <3>1 DEF GoesTo
  <2> QED BY <2>1, <2>2, FreeMove DEF Steps
<1>2. CASE Snapshot(p)
  <2> DEFINE new == [run[p] EXCEPT !.op = "import", !.pc = "catalog",
                                   !.todo = Configured, !.known = registry,
                                   !.before = Watched]
  <2>1. rows.attested /\ UNCHANGED <<file, stub, held, registry, db, rows>>
    BY <1>2 DEF Snapshot, Confirmed, Files, Locks
  <2>2. /\ run[p] \in Run /\ DOMAIN run = Processes /\ rows \in Rows
        /\ rows.custody \in Custody /\ registry \in SUBSET Devices
    BY DEF RemovalInv, RunOK, RowsOK, Rows
  <2>3. run' = [run EXCEPT ![p] = new]
    BY <1>2, <2>2 DEF Snapshot
  <2>8. Watched \in Rows /\ Watched.attested /\ Watched.custody = rows.custody
    BY <2>1, <2>2, WatchedIs
  <2>4. /\ new \in Run /\ new.op = "import" /\ new.pc = "catalog"
        /\ new.before = Watched
    BY <2>2, <2>8, OrderIs DEF Run, Steps, Ops
  <2> HIDE DEF new
  <2>5. MovesTo(p, new)
    BY <2>2, <2>3, Moves
  <2>6. Within(rows.custody, rows.custody)
    BY <2>2, WithinRefl
  <2>7. RunOK(p)'
    BY <2>1, <2>2, <2>4, <2>5, <2>6, <2>8 DEF RunOK, MovesTo, Inside
  <2> QED BY <2>1, <2>5, <2>7, QuietStep DEF MovesTo
<1>3. CASE Bind(p)
  <2>1. /\ run[p].pc = "bind" /\ Go(p, "commit")
        /\ UNCHANGED <<file, stub, held, registry, db, rows>>
    BY <1>3 DEF Bind, At, Files, Locks
  <2>2. PICK new \in Run : MovesTo(p, new) /\ new.pc = "commit"
          /\ new.op = run[p].op /\ new.before = run[p].before
    <3>1. GoesTo(p, "commit")
      BY <2>1, GoIs, StepNames
    <3> QED BY <3>1 DEF GoesTo
  <2>3. RunOK(p)'
    BY <2>1, <2>2 DEF RemovalInv, RunOK, MovesTo, Inside, Steps
  <2> QED BY <2>1, <2>2, <2>3, QuietStep DEF MovesTo
<1>4. CASE CommitCompletion(p)
  <2>1. /\ db = Nobody /\ End(p) /\ rows' = [rows EXCEPT !.completed = TRUE]
        /\ UNCHANGED <<file, stub, held, registry, db>>
    BY <1>4 DEF CommitCompletion, DbFree, Files, Locks
  <2>2. RowsOK /\ rows \in Rows
    BY DEF RemovalInv, RowsOK
  <2>3. /\ rows' \in Rows /\ rows'.request = rows.request
        /\ rows'.started = rows.started /\ rows'.frozen = rows.frozen
        /\ rows'.job = rows.job /\ rows'.custody = rows.custody
        /\ rows'.purged = rows.purged /\ rows'.attested = rows.attested
    BY <2>1, <2>2 DEF Rows
  <2>4. /\ rows.purged => rows'.purged
        /\ rows'.attested => rows.attested
              \/ (rows.purged /\ rows.frozen # None /\ rows.frozen.at = Locations)
    BY <2>3
  <2>5. RowsOK' /\ Grows
    BY <2>2, <2>3, <2>4, SetRows
  <2> QED BY <2>1, <2>5, EndIs, RowStep
<1> QED BY <1>1, <1>2, <1>3, <1>4

\* The outside.

\* A call that ends in an error, after it may have torn a stub.
LEMMA GiveUpStep ==
    ASSUME RemovalInv, NEW p \in Processes, GiveUp(p),
           UNCHANGED <<file, held, registry, rows>>,
           FilesOK', DurableKept
    PROVE  RemovalInv'
<1> DEFINE new == [Idle EXCEPT !.pc = "failed"]
           P == {p}
<1>1. run' = [run EXCEPT ![p] = new] /\ db' = IF db = p THEN Nobody ELSE db
  BY DEF GiveUp
<1>2. new \in Run /\ new.op = "none" /\ new.pc = "failed"
  BY IdleIs DEF Idle, Run, Resting
<1> HIDE DEF new
<1>3. MovesTo(p, new)
  BY <1>1, Moves DEF RemovalInv
<1>4. RunOK(p)'
  BY <1>2, <1>3 DEF RunOK, MovesTo, Inside, Steps
<1>5. /\ RemovalCovered' /\ registry' \subseteq Devices
      /\ db' \in Processes \cup {Nobody}
  BY <1>1 DEF RemovalInv, DurableKept, RemovalCovered
<1>6. /\ P \in SUBSET Processes /\ \A q \in P : RunOK(q)'
      /\ \A q \in Processes \ P : run'[q] = run[q] /\ (db = q => db' = q)
  BY <1>1, <1>3, <1>4 DEF MovesTo
<1>7. DOMAIN run' = Processes
  BY <1>3 DEF MovesTo
<1> HIDE DEF P
<1> QED BY <1>1, <1>5, <1>6, <1>7, FileStep

LEMMA FailStep ==
    ASSUME RemovalInv, NEW p \in Processes, Fail(p)
    PROVE  RemovalInv'
<1>1. GiveUp(p) /\ UNCHANGED <<file, stub, held, registry, rows>>
  BY DEF Fail, Files
<1>2. FilesOK' /\ DurableKept
  BY <1>1 DEF RemovalInv, FilesOK, DurableKept
<1> QED BY <1>1, <1>2, GiveUpStep

LEMMA TearStep ==
    ASSUME RemovalInv, NEW p \in Processes, NEW t \in Targets, TearStub(p, t)
    PROVE  RemovalInv'
<1> DEFINE l == Head(run[p].todo)
<1>1. /\ run[p].pc = "stubs" /\ stub[l][t] = "absent"
      /\ stub' = [stub EXCEPT ![l][t] = "torn"]
      /\ GiveUp(p) /\ UNCHANGED <<file, held, registry, rows>>
  BY DEF TearStub, Here, At
<1>2. l \in Locations /\ FilesOK
  BY <1>1, InsideIs DEF RemovalInv, Inside
<1> HIDE DEF l
<1>3. FilesOK' /\ DurableKept
  BY <1>1, <1>2 DEF FilesOK, DurableKept
<1> QED BY <1>1, <1>3, GiveUpStep

LEMMA CrashStep == ASSUME RemovalInv, Crash PROVE RemovalInv'
<1> DEFINE new == [Idle EXCEPT !.pc = "down"]
           P == Processes
<1>1. /\ run' = [p \in Processes |-> new] /\ db' = Nobody
      /\ UNCHANGED <<held, registry, rows>>
  BY DEF Crash
<1>2. new \in Run /\ new.op = "none" /\ new.pc = "down"
  BY IdleIs DEF Idle, Run, Resting
<1> HIDE DEF new
<1>3. \A p \in Processes : RunOK(p)'
  BY <1>1, <1>2 DEF RunOK, Inside, Steps
<1>4. FilesOK' /\ DurableKept
  <2>1. FilesOK'
    BY <1>1 DEF Crash, RemovalInv, FilesOK
  <2>2. DurableKept
    BY DEF Crash, DurableKept
  <2> QED BY <2>1, <2>2
<1>5. RemovalCovered'
  <2> SUFFICES ASSUME NEW l \in Locations, NEW o \in held[l], file'[l][o] # "file"
               PROVE  /\ rows.request /\ rows.started /\ rows.job # None
                      /\ o \in rows.job
                      /\ \A t \in Targets : stub'[l][t] = "durable"
    BY <1>1 DEF RemovalCovered
  <2>1. o \in Objects
    BY DEF RemovalInv, FilesOK
  <2>2. file[l][o] # "file"
    BY <2>1 DEF Crash
  <2>3. /\ rows.request /\ rows.started /\ rows.job # None /\ o \in rows.job
        /\ \A t \in Targets : stub[l][t] = "durable"
    BY <2>2 DEF RemovalInv, RemovalCovered
  <2> QED BY <1>4, <2>3 DEF DurableKept
<1>6. /\ P \in SUBSET Processes /\ \A q \in P : RunOK(q)'
      /\ \A q \in Processes \ P : run'[q] = run[q] /\ (db = q => db' = q)
      /\ DOMAIN run' = Processes /\ db' \in Processes \cup {Nobody}
      /\ registry' \subseteq Devices
  BY <1>1, <1>3 DEF RemovalInv
<1> HIDE DEF P
<1> QED BY <1>1, <1>4, <1>5, <1>6, FileStep

LEMMA OutsideStep ==
    ASSUME RemovalInv,
           \/ \E l \in Locations, o \in Objects : Arrive(l, o)
           \/ \E d \in Devices : AdmitDevice(d)
           \/ UNCHANGED vars
    PROVE  RemovalInv'
<1> DEFINE P == {}
<1>1. UNCHANGED <<rows, run, db>> /\ DurableKept /\ registry' \subseteq Devices
  BY DEF Arrive, AdmitDevice, vars, Locks, Files, DurableKept, RemovalInv
<1>2. FilesOK'
  <2>1. ASSUME NEW l \in Locations, NEW o \in Objects, Arrive(l, o) PROVE FilesOK'
    BY <2>1 DEF Arrive, RemovalInv, FilesOK
  <2>2. CASE UNCHANGED <<file, stub, held>>
    BY <2>2 DEF RemovalInv, FilesOK
  <2> QED BY <2>1, <2>2 DEF AdmitDevice, vars, Files
<1>3. RemovalCovered'
  <2>1. ASSUME NEW l \in Locations, NEW o \in Objects, Arrive(l, o)
        PROVE  RemovalCovered'
    <3> SUFFICES ASSUME NEW k \in Locations, NEW x \in held'[k], file'[k][x] # "file"
                 PROVE  x \in held[k] /\ file[k][x] # "file"
      BY <1>1, <2>1 DEF Arrive, RemovalInv, RemovalCovered
    <3>1. FilesOK /\ file' = [file EXCEPT ![l][o] = "file"]
          /\ held' = [held EXCEPT ![l] = @ \cup {o}]
      BY <2>1 DEF Arrive, RemovalInv
    <3>2. CASE k # l
      BY <3>1, <3>2 DEF FilesOK
    <3>3. CASE k = l
      BY <3>1, <3>3 DEF FilesOK
    <3> QED BY <3>2, <3>3
  <2>2. CASE UNCHANGED <<file, stub, held>>
    BY <1>1, <2>2 DEF RemovalInv, RemovalCovered
  <2> QED BY <2>1, <2>2 DEF AdmitDevice, vars, Files
<1>4. /\ P \in SUBSET Processes /\ \A q \in P : RunOK(q)'
      /\ \A q \in Processes \ P : run'[q] = run[q] /\ (db = q => db' = q)
      /\ DOMAIN run' = Processes /\ db' \in Processes \cup {Nobody}
  BY <1>1 DEF RemovalInv
<1> HIDE DEF P
<1> QED BY <1>1, <1>2, <1>3, <1>4, FileStep

-----------------------------------------------------------------------------
LEMMA RemovalInvInit == Init => RemovalInv
<1> SUFFICES ASSUME Init PROVE RemovalInv
  OBVIOUS
<1>1. FilesOK /\ RemovalCovered
  BY DEF Init, FilesOK, RemovalCovered
<1>2. registry \subseteq Devices /\ db \in Processes \cup {Nobody} /\ DOMAIN run = Processes
  BY DEF Init
<1>3. RowsOK
  <2>1. NothingKnown \in Custody
    BY DEF NothingKnown, Custody
  <2> DEFINE m == [l \in Locations |-> None]
  <2>4. m \in [Locations -> (SUBSET Objects) \cup {None}]
    OBVIOUS
  <2>5. rows = [request |-> FALSE, custody |-> NothingKnown, frozen |-> None,
                job |-> None, started |-> FALSE, purged |-> FALSE,
                measured |-> m, attested |-> FALSE, completed |-> FALSE]
    BY DEF Init
  <2> HIDE DEF m
  <2>2. rows \in Rows
    BY <2>1, <2>4, <2>5 DEF Rows
  <2>3. rows.started = FALSE /\ rows.attested = FALSE /\ rows.frozen = None
    BY DEF Init
  <2> QED BY <2>2, <2>3 DEF RowsOK
<1>4. \A p \in Processes : RunOK(p)
  BY IdleIs DEF Init, Idle, RunOK, Inside, Steps
<1> QED BY <1>1, <1>2, <1>3, <1>4 DEF RemovalInv

LEMMA RemovalInvNext == RemovalInv /\ [Next]_vars => RemovalInv'
<1> SUFFICES ASSUME RemovalInv, [Next]_vars PROVE RemovalInv'
  OBVIOUS
<1>1. ASSUME NEW p \in Processes,
             BeginPrepare(p) \/ BeginStart(p) \/ BeginResume(p) \/ BeginComplete(p)
      PROVE  RemovalInv'
  BY <1>1, BeginStep
<1>2. ASSUME NEW p \in Processes, RunStep(p) PROVE RemovalInv'
  BY <1>2, CatalogStep, HolderStep, FreezeStep, PrepareStep, StartEventStep,
     EnterStep, StubStep, VerifiedStep, UnlinkStep, FlushStep, MeasureStep,
     PurgeStep, AttestStep, CompletionStep DEF RunStep
<1> QED BY <1>1, <1>2, FailStep, TearStep, CrashStep, OutsideStep DEF Next

-----------------------------------------------------------------------------
(* For any number of calls, locations, objects and targets: no byte of a    *)
(* target is gone unless the request, the job that names it and the start   *)
(* are stored and every stub is durable at the location.                    *)
THEOREM RemovalAlwaysCovered == Spec => []RemovalCovered
<1>1. RemovalInv => RemovalCovered
  BY DEF RemovalInv
<1> QED BY <1>1, RemovalInvInit, RemovalInvNext, PTL DEF Spec

\* The rows that the two action properties below are about, and the steps
\* that write them.
Reported == <<rows.frozen, rows.job, rows.measured, rows.attested, rows.completed>>

LEMMA RowWrites ==
    ASSUME RemovalInv, [Next]_vars
    PROVE  \/ UNCHANGED Reported
           \/ \E p \in Processes : \/ Freeze(p) \/ PersistJob(p) \/ Measure(p)
                                   \/ Attest(p) \/ CommitCompletion(p)
<1>1. rows \in Rows
  BY DEF RemovalInv, RowsOK
<1>2. ASSUME NEW c, \/ rows' = rows
                    \/ rows' = [rows EXCEPT !.custody = c]
                    \/ rows' = [rows EXCEPT !.request = TRUE]
                    \/ rows' = [rows EXCEPT !.started = TRUE]
                    \/ rows' = [rows EXCEPT !.purged = TRUE]
      PROVE  UNCHANGED Reported
  BY <1>1, <1>2 DEF Reported, Rows
<1>3. ASSUME NEW p \in Processes, RunStep(p), ~Freeze(p), ~PersistJob(p),
             ~Measure(p), ~Attest(p), ~CommitCompletion(p)
      PROVE  \E c : \/ rows' = rows
                    \/ rows' = [rows EXCEPT !.custody = c]
                    \/ rows' = [rows EXCEPT !.request = TRUE]
                    \/ rows' = [rows EXCEPT !.started = TRUE]
                    \/ rows' = [rows EXCEPT !.purged = TRUE]
  <2>1. CASE ObserveCatalog(p) \/ ObserveHolder(p)
    BY <2>1 DEF ObserveCatalog, ObserveHolder
  <2>2. CASE \/ KeepJob(p) \/ PlanRemovals(p) \/ StartEvent(p)
             \/ EnterLocation(p) \/ StubsVerified(p) \/ Purge(p)
             \/ Evidence(p) \/ Snapshot(p) \/ Bind(p)
    BY <2>2 DEF KeepJob, PlanRemovals, StartEvent, EnterLocation, StubsVerified,
       Purge, Evidence, Snapshot, Bind
  <2>3. CASE \/ \E t \in Targets : CreateStub(p, t) \/ SyncStub(p, t)
             \/ \E o \in Objects : Unlink(p, o) \/ FlushRemoval(p, o)
    BY <2>3 DEF CreateStub, SyncStub, Unlink, FlushRemoval
  <2> QED BY <1>3, <2>1, <2>2, <2>3 DEF RunStep
<1>4. ASSUME NEW p \in Processes,
             \/ BeginPrepare(p) \/ BeginStart(p) \/ BeginResume(p)
             \/ BeginComplete(p) \/ Fail(p) \/ \E t \in Targets : TearStub(p, t)
      PROVE  rows' = rows \/ rows' = [rows EXCEPT !.request = TRUE]
  BY <1>4 DEF BeginPrepare, BeginStart, BeginResume, BeginComplete, Fail, TearStub
<1>5. ASSUME \/ Crash
             \/ \E l \in Locations, o \in Objects : Arrive(l, o)
             \/ \E d \in Devices : AdmitDevice(d)
             \/ UNCHANGED vars
      PROVE  rows' = rows
  BY <1>5 DEF Crash, Arrive, AdmitDevice, vars
<1>6. ASSUME NEW p \in Processes, RunStep(p), ~Freeze(p), ~PersistJob(p),
             ~Measure(p), ~Attest(p), ~CommitCompletion(p)
      PROVE  UNCHANGED Reported
  BY <1>2, <1>3, <1>6
<1>7. ASSUME NEW p \in Processes,
             \/ BeginPrepare(p) \/ BeginStart(p) \/ BeginResume(p)
             \/ BeginComplete(p) \/ Fail(p) \/ \E t \in Targets : TearStub(p, t)
      PROVE  UNCHANGED Reported
  BY <1>2, <1>4, <1>7
<1>8. ASSUME \/ Crash
             \/ \E l \in Locations, o \in Objects : Arrive(l, o)
             \/ \E d \in Devices : AdmitDevice(d)
             \/ UNCHANGED vars
      PROVE  UNCHANGED Reported
  BY <1>2, <1>5, <1>8
<1> QED BY <1>6, <1>7, <1>8 DEF Next

\* What a measurement records, and under which snapshot.
LEMMA MeasureWrites ==
    ASSUME RemovalInv, NEW p \in Processes, Measure(p)
    PROVE  LET l == Head(run[p].todo) IN
           /\ l \in Locations /\ Unchanged
           /\ rows.measured[l] \in {None, rows.frozen.holdings[l]}
           /\ rows' = [rows EXCEPT !.measured[l] = rows.frozen.holdings[l]]
           /\ rows.frozen.holdings[l] \subseteq rows.job
<1>1. run[p].pc = "remove"
  BY DEF Measure, At
<1>2. /\ Head(run[p].todo) \in Locations /\ Unchanged
      /\ rows.frozen.holdings[Head(run[p].todo)] \subseteq rows.job
  BY <1>1, InsideIs DEF RemovalInv, RunOK, Inside
<1> QED BY <1>2 DEF Measure, Here

(* For every instance: the snapshot of the custody and the job made of it   *)
(* are written once, and a location is measured only while the job names    *)
(* all that is known to be there.                                           *)
THEOREM DenominatorNeverReplaced == Spec => DenominatorKept
<1> DEFINE Kept ==
        /\ rows.frozen # None => rows'.frozen = rows.frozen
        /\ rows.job # None => rows'.job = rows.job
        /\ \A l \in Locations :
              rows.measured[l] # None => rows'.measured[l] = rows.measured[l]
        /\ \A l \in Locations : rows'.measured[l] # rows.measured[l] =>
              rows.custody.holdings[l] \subseteq rows.job
<1>1. ASSUME RemovalInv, [Next]_vars PROVE [Kept]_vars
  <2>1. rows \in Rows
    BY <1>1 DEF RemovalInv, RowsOK
  <2>2. UNCHANGED Reported => Kept
    BY DEF Reported
  <2>3. ASSUME NEW p \in Processes, Freeze(p) PROVE Kept
    <3>1. rows' = [rows EXCEPT !.frozen = rows.custody] /\ rows.frozen \in {None, rows.custody}
      BY <2>3 DEF Freeze
    <3> QED BY <2>1, <3>1 DEF Rows
  <2>4. ASSUME NEW p \in Processes, PersistJob(p) PROVE Kept
    <3>1. rows' = [rows EXCEPT !.job = run[p].live] /\ rows.job = None
      BY <2>4 DEF PersistJob
    <3> QED BY <2>1, <3>1 DEF Rows
  <2>5. ASSUME NEW p \in Processes, Measure(p) PROVE Kept
    <3>1. PICK l \in Locations :
            /\ Unchanged /\ rows.measured[l] \in {None, rows.frozen.holdings[l]}
            /\ rows' = [rows EXCEPT !.measured[l] = rows.frozen.holdings[l]]
            /\ rows.frozen.holdings[l] \subseteq rows.job
      BY <1>1, <2>5, MeasureWrites
    <3>2. /\ rows'.frozen = rows.frozen /\ rows'.job = rows.job
          /\ rows'.measured = [rows.measured EXCEPT ![l] = rows.frozen.holdings[l]]
          /\ rows.measured \in [Locations -> (SUBSET Objects) \cup {None}]
      BY <2>1, <3>1 DEF Rows
    <3>3. rows.custody.holdings[l] \subseteq rows.job
      BY <3>1 DEF Unchanged
    <3> QED BY <3>1, <3>2, <3>3
  <2>6. ASSUME NEW p \in Processes, Attest(p) \/ CommitCompletion(p) PROVE Kept
    <3>1. \/ rows' = [rows EXCEPT !.attested = TRUE]
          \/ rows' = [rows EXCEPT !.completed = TRUE]
      BY <2>6 DEF Attest, CommitCompletion
    <3> QED BY <2>1, <3>1 DEF Rows
  <2> HIDE DEF Kept
  <2> QED BY <1>1, <2>2, <2>3, <2>4, <2>5, <2>6, RowWrites
<1> QED BY <1>1, RemovalInvInit, RemovalInvNext, PTL DEF Spec, DenominatorKept

(* For every instance: an attestation or a completion is stored only while  *)
(* every location is covered by the snapshot and free of the targets'       *)
(* objects, nothing was learned since, and the rows are purged.             *)
THEOREM ReportsAlwaysTrue == Spec => ReportsTrue
<1> DEFINE Clear ==
        /\ \A l \in Locations : Present(l) = {} /\ l \in rows.custody.at
        /\ Unchanged /\ rows.purged
      Report == \/ ~rows.attested /\ rows'.attested
                \/ ~rows.completed /\ rows'.completed
<1>1. ASSUME RemovalInv, [Next]_vars PROVE [Report => Clear]_vars
  <2>1. rows \in Rows /\ RowsOK
    BY <1>1 DEF RemovalInv, RowsOK
  <2>2. UNCHANGED Reported => ~Report
    BY DEF Reported
  <2>3. ASSUME NEW p \in Processes, Freeze(p) \/ PersistJob(p) \/ Measure(p)
        PROVE  ~Report
    <3>1. \E x, l : \/ rows' = [rows EXCEPT !.frozen = x]
                    \/ rows' = [rows EXCEPT !.job = x]
                    \/ rows' = [rows EXCEPT !.measured[l] = x]
      BY <2>3 DEF Freeze, PersistJob, Measure
    <3>2. rows'.attested = rows.attested /\ rows'.completed = rows.completed
      BY <2>1, <3>1 DEF Rows
    <3> QED BY <3>2
  <2>4. ASSUME NEW p \in Processes, Attest(p) PROVE Clear
    <3>1. /\ run[p].pc = "sign" /\ Unchanged /\ rows.purged
          /\ \A l \in Locations : Present(l) = {}
      BY <2>4 DEF Attest, At, Clean
    <3>2. rows.frozen.at = Locations
      BY <1>1, <3>1 DEF RemovalInv, RunOK
    <3> QED BY <3>1, <3>2 DEF Unchanged
  <2>5. ASSUME NEW p \in Processes, CommitCompletion(p) PROVE Clear
    <3>1. /\ run[p].pc = "commit" /\ Watched = run[p].before
          /\ \A l \in Locations : Present(l) = {}
      BY <2>5 DEF CommitCompletion, At, Clean
    <3>2. /\ rows.frozen # None /\ rows.attested
          /\ Within(rows.custody, rows.frozen)
      <4>1. /\ rows.frozen # None /\ run[p].before.attested
            /\ Within(run[p].before.custody, rows.frozen)
        BY <1>1, <3>1 DEF RemovalInv, RunOK
      <4>2. rows \in Rows
        BY <2>1 DEF RowsOK
      <4>3. run[p].before.attested = rows.attested /\ run[p].before.custody = rows.custody
        BY <3>1, <4>2, WatchedIs
      <4> QED BY <4>1, <4>3
    <3>3. /\ rows.purged /\ rows.frozen.at = Locations
          /\ Within(rows.frozen, rows.custody)
          /\ rows.custody \in Custody /\ rows.frozen \in Custody
      BY <2>1, <3>2 DEF RowsOK, Rows
    <3>4. rows.custody = rows.frozen
      BY <3>2, <3>3, WithinAntisym
    <3> QED BY <3>1, <3>3, <3>4 DEF Unchanged
  <2> HIDE DEF Clear, Report
  <2> QED BY <1>1, <2>2, <2>3, <2>4, <2>5, RowWrites
<1> QED BY <1>1, RemovalInvInit, RemovalInvNext, PTL DEF Spec, ReportsTrue
=============================================================================
