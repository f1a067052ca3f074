------------------------- MODULE NetworkArchiveProofs -------------------------
(***************************************************************************)
(* The sequence a finalization takes, and the head an opening sees, for any *)
(* number of processes of which one finalizes, any chain and any row limit. *)
(***************************************************************************)
EXTENDS NetworkArchive, WellFoundedInduction, TLAPS

\* The profile is used by one finalizing process at a time.
OneWriter == \A p \in Writers, q \in Writers : p = q

Records == [at : Activities, base : SUBSET Objects, next : Nat \cup {NoSeq},
            live : BOOLEAN, read : SUBSET Objects, proposed : Nat \cup {NoSeq}]

\* The last entry there is, in the directory or as a row.
Top == PublicHead(net \cup local)

\* A view of the directory, however old, is part of it and has what was there
\* at the start.
ViewOK(view) == view \subseteq net /\ 0 .. FirstSeq \subseteq EntrySeqs(view)

ProcOK(p) ==
    LET r == proc[p] IN
    /\ r \in Records
    /\ r.at \in {"starting", "reopening", "opened", "pruned"} => ViewOK(r.read)
    /\ r.at \notin {"off", "starting"} => ViewOK(r.base)
    /\ r.at = "committing" => p \in Writers /\ prepared # NoSeq
    /\ p \in Writers /\ r.at \in {"opened", "pruned"} => r.proposed = Top + 1
    /\ p \in Writers /\ r.at = "ready" => r.next = Top + 1

\* Directory and rows together have no gap.  The last entry is a row, unless
\* no row of an entry was ever written; what is prepared comes after it.
RowsOK ==
    /\ net \subseteq Objects /\ local \subseteq Objects /\ reachable \in BOOLEAN
    /\ Top \in Seqs /\ EntrySeqs(net \cup local) = 0 .. Top
    /\ 0 .. FirstSeq \subseteq EntrySeqs(net)
    /\ \/ Top \in EntrySeqs(local)
       \/ EntrySeqs(local) = {} /\ EntrySeqs(net) = 0 .. FirstSeq
    /\ prepared # NoSeq => prepared = Top + 1 /\ prepared \in Seqs

ArchiveInv ==
    /\ RowsOK
    /\ DOMAIN proc = Processes
    /\ \A p \in Processes : ProcOK(p)

-----------------------------------------------------------------------------
\* Data.

LEMMA SeqsAre ==
    /\ FirstSeq \in Seqs
    /\ \A s \in Seqs : s \in Nat /\ Entry(s) \in Objects /\ Grant(s) \in Objects
BY ArchiveAssumption DEF Seqs, Entry, Grant, Objects

\* The sequences of a view are those whose entry it has.
LEMMA EntrySeqsAre ==
    ASSUME NEW view \in SUBSET Objects
    PROVE  /\ EntrySeqs(view) \in SUBSET Seqs
           /\ \A s \in Seqs : s \in EntrySeqs(view) <=> Entry(s) \in view
<1>1. ASSUME NEW o \in view, o.kind = "eip"
      PROVE  o.seq \in Seqs /\ o = Entry(o.seq)
  BY <1>1 DEF Objects, Entry
<1>2. ASSUME NEW s \in Seqs, Entry(s) \in view PROVE s \in EntrySeqs(view)
  BY <1>2 DEF EntrySeqs, Entry
<1> QED BY <1>1, <1>2 DEF EntrySeqs

LEMMA UnionSeqs ==
    ASSUME NEW v \in SUBSET Objects, NEW w \in SUBSET Objects
    PROVE  /\ EntrySeqs(v \cup w) = EntrySeqs(v) \cup EntrySeqs(w)
           /\ v \subseteq w => EntrySeqs(v) \subseteq EntrySeqs(w)
BY DEF EntrySeqs

LEMMA OneSeq ==
    ASSUME NEW s \in Seqs
    PROVE  EntrySeqs({Entry(s)}) = {s} /\ EntrySeqs({Grant(s)}) = {}
<1>1. Entry(s).kind = "eip" /\ Entry(s).seq = s /\ Grant(s).kind = "eag"
  BY DEF Entry, Grant
<1>2. EntrySeqs({Entry(s)}) = {s}
  BY <1>1 DEF EntrySeqs
<1>3. EntrySeqs({Grant(s)}) = {}
  BY <1>1 DEF EntrySeqs
<1> QED BY <1>2, <1>3

\* A set of sequences has its Max.
LEMMA MaxIs ==
    ASSUME NEW S \in SUBSET Seqs, S # {}
    PROVE  Max(S) \in S /\ \A y \in S : y <= Max(S)
<1> DEFINE Less == OpToRel(<, Nat)
           D == {LastSeq - x : x \in S}
<1>1. LastSeq \in Nat /\ \A x \in S : x \in Nat /\ LastSeq - x \in Nat
  BY ArchiveAssumption DEF Seqs
<1>2. D \in SUBSET Nat /\ D # {}
  BY <1>1
<1>3. IsWellFoundedOn(Less, Nat)
  BY NatLessThanWellFounded
<1> HIDE DEF D
<1>4. PICK d \in D : \A e \in D : <<e, d>> \notin Less
  BY <1>2, <1>3, WFMin
<1>5. \A e \in D : d <= e
  <2> SUFFICES ASSUME NEW e \in D PROVE d <= e
    OBVIOUS
  <2>1. <<e, d>> \notin Less
    BY <1>4
  <2>2. d \in Nat /\ e \in Nat
    BY <1>2
  <2>3. ~(e < d)
    BY <2>1, <2>2 DEF OpToRel
  <2> QED BY <2>2, <2>3
<1>6. PICK x \in S : d = LastSeq - x
  BY DEF D
<1>7. \A y \in S : x >= y
  <2> SUFFICES ASSUME NEW y \in S PROVE x >= y
    OBVIOUS
  <2>1. LastSeq - y \in D
    BY DEF D
  <2>2. d <= LastSeq - y
    BY <1>5, <2>1
  <2>3. x \in Nat /\ y \in Nat /\ LastSeq \in Nat
    BY <1>1
  <2> QED BY <1>6, <2>2, <2>3
<1>8. Max(S) \in S /\ \A y \in S : Max(S) >= y
  BY <1>7 DEF Max
<1> QED BY <1>1, <1>8

LEMMA HeadIs ==
    ASSUME NEW view, NEW h \in Seqs, EntrySeqs(view) = 0 .. h
    PROVE  PublicHead(view) = h
<1>1. 0 .. h \in SUBSET Seqs /\ h \in 0 .. h /\ h \in Nat
  BY ArchiveAssumption DEF Seqs
<1>2. Max(0 .. h) \in 0 .. h /\ h <= Max(0 .. h)
  BY <1>1, MaxIs
<1> QED BY <1>1, <1>2 DEF PublicHead

\* A view that verifies together with the rows shows the last entry: the
\* rows have it, or nothing was ever written and the view has all.
LEMMA OpeningIs ==
    ASSUME RowsOK, NEW view, ViewOK(view), Verified(view \cup local)
    PROVE  PublicHead(view \cup local) = Top
<1> DEFINE V == view \cup local
           m == PublicHead(V)
<1>1. /\ view \in SUBSET Objects /\ local \in SUBSET Objects /\ net \in SUBSET Objects
      /\ V \in SUBSET Objects /\ V \subseteq net \cup local
  BY DEF RowsOK, ViewOK
<1>2. EntrySeqs(V) = 0 .. m /\ EntrySeqs(V) # {} /\ m \in EntrySeqs(V) /\ m \in Nat
  <2>1. EntrySeqs(V) \in SUBSET Seqs /\ EntrySeqs(V) # {}
    BY <1>1, EntrySeqsAre DEF Verified
  <2>2. m \in EntrySeqs(V)
    BY <2>1, MaxIs DEF PublicHead
  <2> QED BY <2>1, <2>2, SeqsAre DEF Verified, PublicHead
<1>3. m <= Top /\ Top \in Nat
  <2>1. m \in 0 .. Top
    BY <1>1, <1>2, UnionSeqs DEF RowsOK
  <2> QED BY <2>1, SeqsAre DEF RowsOK
<1>4. Top \in EntrySeqs(V)
  <2>1. CASE Top \in EntrySeqs(local)
    BY <1>1, <2>1, UnionSeqs
  <2>2. CASE EntrySeqs(local) = {} /\ EntrySeqs(net) = 0 .. FirstSeq
    <3>1. 0 .. Top = 0 .. FirstSeq
      BY <1>1, <2>2, UnionSeqs DEF RowsOK
    <3>2. Top \in 0 .. Top
      BY <1>3
    <3>3. Top \in EntrySeqs(view)
      BY <3>1, <3>2 DEF ViewOK
    <3> QED BY <1>1, <3>3, UnionSeqs
  <2> QED BY <2>1, <2>2 DEF RowsOK
<1> HIDE DEF m
<1>5. Top <= m
  BY <1>2, <1>3, <1>4
<1> QED BY <1>2, <1>3, <1>5 DEF m

-----------------------------------------------------------------------------
\* Frames.

\* Only p moves, to the record new.
MovesTo(p, new) ==
    /\ proc'[p] = new
    /\ DOMAIN proc' = Processes
    /\ \A q \in Processes \ {p} : proc'[q] = proc[q]

LEMMA Fields ==
    ASSUME NEW r \in Records
    PROVE  DOMAIN r = {"at", "base", "next", "live", "read", "proposed"}
BY DEF Records

\* A process that does not move is not disturbed as long as the directory
\* only grows and the chain is extended by nobody else.
LEMMA Undisturbed ==
    ASSUME NEW q \in Processes, ProcOK(q), proc'[q] = proc[q], net \subseteq net',
           q \in Writers => Top' = Top /\ prepared' = prepared
    PROVE  ProcOK(q)'
<1> DEFINE r == proc[q]
<1>1. /\ r.at \in {"starting", "reopening", "opened", "pruned"} => ViewOK(r.read)'
      /\ r.at \notin {"off", "starting"} => ViewOK(r.base)'
  BY DEF ProcOK, ViewOK
<1>2. /\ r.at = "committing" => q \in Writers /\ prepared' # NoSeq
      /\ q \in Writers /\ r.at \in {"opened", "pruned"} => r.proposed = Top' + 1
      /\ q \in Writers /\ r.at = "ready" => r.next = Top' + 1
  BY DEF ProcOK
<1> QED BY <1>1, <1>2 DEF ProcOK, ViewOK

\* A step of process p.
LEMMA ProcessStepOK ==
    ASSUME ArchiveInv, NEW p \in Processes, NEW new, MovesTo(p, new), RowsOK',
           ProcOK(p)', net \subseteq net',
           \A q \in Writers \ {p} : Top' = Top /\ prepared' = prepared
    PROVE  ArchiveInv'
<1>1. ASSUME NEW q \in Processes \ {p} PROVE ProcOK(q)'
  BY <1>1, Undisturbed DEF ArchiveInv, MovesTo
<1> QED BY <1>1 DEF ArchiveInv, MovesTo

\* One that leaves directory, rows and what is prepared alone.
LEMMA QuietStep ==
    ASSUME ArchiveInv, NEW p \in Processes, NEW new, MovesTo(p, new),
           UNCHANGED <<net, local, reachable, prepared>>, ProcOK(p)'
    PROVE  ArchiveInv'
<1>1. RowsOK' /\ Top' = Top
  BY DEF ArchiveInv, RowsOK, Top
<1> QED BY <1>1, ProcessStepOK

-----------------------------------------------------------------------------
\* Opening.

LEMMA ReadNetworkStep ==
    ASSUME ArchiveInv, NEW p \in Processes, ReadNetwork(p) PROVE ArchiveInv'
<1>1. /\ proc[p] \in Records /\ DOMAIN proc = Processes
      /\ proc[p].at \notin {"off", "starting"} => ViewOK(proc[p].base)
      /\ ViewOK(net) /\ net \in SUBSET Objects /\ reachable \in BOOLEAN
      /\ UNCHANGED <<net, local, reachable, prepared>>
  BY DEF ArchiveInv, ProcOK, RowsOK, ViewOK, ReadNetwork
<1>2. CASE proc[p].at = "off" /\ Update(p, [at |-> "starting", live |-> TRUE, read |-> net])
  <2> DEFINE g == [at |-> "starting", live |-> TRUE, read |-> net]
             new == [f \in DOMAIN proc[p] |-> IF f \in DOMAIN g THEN g[f] ELSE proc[p][f]]
  <2>1. MovesTo(p, new)
    BY <1>1, <1>2 DEF Update, MovesTo
  <2>2. new \in Records /\ new.at = "starting" /\ new.read = net
    BY <1>1, Fields DEF Records, Activities
  <2> HIDE DEF new
  <2>3. ProcOK(p)'
    BY <1>1, <2>1, <2>2 DEF ProcOK, MovesTo, ViewOK
  <2> QED BY <1>1, <2>1, <2>3, QuietStep
<1>3. CASE proc[p].at = "idle"
           /\ Update(p, [at |-> "reopening", live |-> reachable,
                         read |-> IF reachable THEN net ELSE proc[p].base])
  <2> DEFINE view == IF reachable THEN net ELSE proc[p].base
             g == [at |-> "reopening", live |-> reachable, read |-> view]
             new == [f \in DOMAIN proc[p] |-> IF f \in DOMAIN g THEN g[f] ELSE proc[p][f]]
  <2>1. MovesTo(p, new)
    BY <1>1, <1>3 DEF Update, MovesTo
  <2>2. ViewOK(view) /\ view \in SUBSET Objects
    BY <1>1, <1>3 DEF Records
  <2> HIDE DEF view
  <2>3. /\ new \in Records /\ new.at = "reopening" /\ new.read = view
        /\ new.base = proc[p].base
    BY <1>1, <2>2, Fields DEF Records, Activities
  <2> HIDE DEF new
  <2>4. ProcOK(p)'
    BY <1>1, <1>3, <2>1, <2>2, <2>3 DEF ProcOK, MovesTo, ViewOK
  <2> QED BY <1>1, <2>1, <2>4, QuietStep
<1> QED BY <1>2, <1>3 DEF ReadNetwork

LEMMA OpenVerifiedStep ==
    ASSUME ArchiveInv, NEW p \in Processes, OpenVerified(p) PROVE ArchiveInv'
<1>1. /\ proc[p] \in Records /\ DOMAIN proc = Processes /\ ProcOK(p)
      /\ proc[p].at \in {"starting", "reopening"} /\ ViewOK(proc[p].read)
      /\ UNCHANGED <<net, local, reachable, prepared>>
  BY DEF ArchiveInv, ProcOK, OpenVerified
<1>2. PublicHead(Union(p)) = Top /\ Top \in Nat /\ Top + 1 \in Nat
  <2>1. RowsOK /\ Verified(proc[p].read \cup local)
    BY DEF OpenVerified, Union, ArchiveInv
  <2>2. PublicHead(proc[p].read \cup local) = Top
    BY <1>1, <2>1, OpeningIs
  <2>3. Top \in Nat
    BY <2>1, SeqsAre DEF RowsOK
  <2> QED BY <2>2, <2>3 DEF Union
<1>3. Top' = Top
  BY <1>1 DEF Top
<1>4. CASE proc[p].at = "starting"
  <2> DEFINE g == [at |-> "idle", base |-> proc[p].read, read |-> {},
                   live |-> FALSE, next |-> PublicHead(Union(p)) + 1]
             new == [f \in DOMAIN proc[p] |-> IF f \in DOMAIN g THEN g[f] ELSE proc[p][f]]
  <2>1. MovesTo(p, new)
    BY <1>1, <1>4 DEF OpenVerified, Update, MovesTo
  <2>2. new \in Records /\ new.at = "idle" /\ new.base = proc[p].read
    BY <1>1, <1>2, Fields DEF Records, Activities
  <2> HIDE DEF new
  <2>3. ProcOK(p)'
    BY <1>1, <2>1, <2>2 DEF ProcOK, MovesTo, ViewOK
  <2> QED BY <1>1, <2>1, <2>3, QuietStep
<1>5. CASE proc[p].at = "reopening"
  <2> DEFINE g == [at |-> "opened", proposed |-> PublicHead(Union(p)) + 1]
             new == [f \in DOMAIN proc[p] |-> IF f \in DOMAIN g THEN g[f] ELSE proc[p][f]]
  <2>1. MovesTo(p, new)
    BY <1>1, <1>5 DEF OpenVerified, Update, MovesTo
  <2>2. /\ new \in Records /\ new.at = "opened" /\ new.base = proc[p].base
        /\ new.read = proc[p].read /\ new.proposed = Top + 1
    BY <1>1, <1>2, Fields DEF Records, Activities
  <2> HIDE DEF new
  <2>3. ProcOK(p)'
    BY <1>1, <1>3, <1>5, <2>1, <2>2 DEF ProcOK, MovesTo, ViewOK
  <2> QED BY <1>1, <2>1, <2>3, QuietStep
<1> QED BY <1>1, <1>4, <1>5

LEMMA OpenRefusedStep ==
    ASSUME ArchiveInv, NEW p \in Processes, OpenRefused(p) PROVE ArchiveInv'
<1> DEFINE at == IF proc[p].at = "starting" THEN "off" ELSE "idle"
           g == [at |-> at, live |-> FALSE, read |-> {}]
           new == [f \in DOMAIN proc[p] |-> IF f \in DOMAIN g THEN g[f] ELSE proc[p][f]]
<1>1. /\ proc[p] \in Records /\ DOMAIN proc = Processes /\ ProcOK(p)
      /\ proc[p].at \in {"starting", "reopening"}
      /\ UNCHANGED <<net, local, reachable, prepared>>
  BY DEF ArchiveInv, ProcOK, OpenRefused
<1>2. MovesTo(p, new)
  BY <1>1 DEF OpenRefused, Update, MovesTo
<1>3. new \in Records /\ new.at \in {"off", "idle"} /\ new.base = proc[p].base
      /\ (new.at = "idle" => proc[p].at = "reopening")
  BY <1>1, Fields DEF Records, Activities
<1> HIDE DEF new
<1>4. ProcOK(p)'
  BY <1>1, <1>2, <1>3 DEF ProcOK, MovesTo, ViewOK
<1> QED BY <1>1, <1>2, <1>4, QuietStep

\* Pruned rows are in the directory, and the highest entry stays a row.
LEMMA PruneRowsStep ==
    ASSUME ArchiveInv, NEW p \in Processes, PruneRows(p) PROVE ArchiveInv'
<1> DEFINE g == [at |-> "pruned"]
           new == [f \in DOMAIN proc[p] |-> IF f \in DOMAIN g THEN g[f] ELSE proc[p][f]]
<1>1. /\ proc[p] \in Records /\ DOMAIN proc = Processes /\ ProcOK(p) /\ RowsOK
      /\ proc[p].at = "opened" /\ proc[p].read \subseteq net
      /\ UNCHANGED <<net, reachable, prepared>>
  BY DEF ArchiveInv, ProcOK, PruneRows, ViewOK
<1>2. /\ local' \subseteq local /\ net \cup local' = net \cup local
      /\ HighestRows(local) \cap local \subseteq local'
  BY <1>1 DEF PruneRows, Prunable
<1>3. Top' = Top
  BY <1>1, <1>2 DEF Top
<1>4. net \in SUBSET Objects /\ local \in SUBSET Objects /\ local' \in SUBSET Objects
  BY <1>1, <1>2 DEF RowsOK
<1>5. Top \in EntrySeqs(local) => Top \in EntrySeqs(local')
  <2> SUFFICES ASSUME Top \in EntrySeqs(local) PROVE Top \in EntrySeqs(local')
    OBVIOUS
  <2>1. EntrySeqs(local) \in SUBSET Seqs /\ EntrySeqs(local) \subseteq 0 .. Top
        /\ Top \in Seqs /\ Top \in Nat
    BY <1>1, <1>4, EntrySeqsAre, UnionSeqs, SeqsAre DEF RowsOK
  <2>2. Max(EntrySeqs(local)) = Top
    <3>1. /\ Max(EntrySeqs(local)) \in EntrySeqs(local)
          /\ Top <= Max(EntrySeqs(local))
      BY <2>1, MaxIs
    <3> QED BY <2>1, <3>1
  <2>3. Entry(Top) \in local /\ Entry(Top).seq = Top
    BY <1>4, <2>1, EntrySeqsAre DEF Entry
  <2>4. Entry(Top) \in HighestRows(local)
    BY <2>2, <2>3 DEF HighestRows
  <2> QED BY <1>2, <1>4, <2>1, <2>3, <2>4, EntrySeqsAre
<1>6. EntrySeqs(local) = {} => EntrySeqs(local') = {}
  BY <1>2, <1>4, UnionSeqs
<1>7. RowsOK'
  BY <1>1, <1>2, <1>3, <1>4, <1>5, <1>6 DEF RowsOK
<1>8. MovesTo(p, new)
  BY <1>1 DEF PruneRows, Update, MovesTo
<1>9. /\ new \in Records /\ new.at = "pruned" /\ new.base = proc[p].base
      /\ new.read = proc[p].read /\ new.proposed = proc[p].proposed
  BY <1>1, Fields DEF Records, Activities
<1> HIDE DEF new
<1>10. ProcOK(p)'
  BY <1>1, <1>3, <1>8, <1>9 DEF ProcOK, MovesTo, ViewOK
<1> QED BY <1>1, <1>3, <1>7, <1>8, <1>10, ProcessStepOK

\* The sequence proposed is the one that is kept.
LEMMA KeepRuntimeStep ==
    ASSUME ArchiveInv, NEW p \in Processes, KeepRuntime(p) PROVE ArchiveInv'
<1>1. /\ proc[p] \in Records /\ DOMAIN proc = Processes /\ ProcOK(p)
      /\ proc[p].at = "pruned" /\ ViewOK(proc[p].read)
      /\ UNCHANGED <<net, local, reachable, prepared>>
  BY DEF ArchiveInv, ProcOK, KeepRuntime
<1>2. PICK at \in {"ready", "idle"} :
          Update(p, [at |-> at, base |-> proc[p].read, read |-> {}, live |-> FALSE,
                     next |-> proc[p].proposed, proposed |-> NoSeq])
  BY DEF KeepRuntime
<1> DEFINE g == [at |-> at, base |-> proc[p].read, read |-> {}, live |-> FALSE,
                 next |-> proc[p].proposed, proposed |-> NoSeq]
           new == [f \in DOMAIN proc[p] |-> IF f \in DOMAIN g THEN g[f] ELSE proc[p][f]]
<1>3. MovesTo(p, new)
  BY <1>1, <1>2 DEF Update, MovesTo
<1>4. /\ new \in Records /\ new.at = at /\ new.base = proc[p].read
      /\ new.next = proc[p].proposed
  BY <1>1, Fields DEF Records, Activities
<1> HIDE DEF new
<1>5. Top' = Top
  BY <1>1 DEF Top
<1>6. ProcOK(p)'
  BY <1>1, <1>3, <1>4, <1>5 DEF ProcOK, MovesTo, ViewOK
<1> QED BY <1>1, <1>3, <1>6, QuietStep

\* An old runtime goes on only when it proposes the same sequence.
LEMMA DropRuntimeStep ==
    ASSUME ArchiveInv, NEW p \in Processes, DropRuntime(p) PROVE ArchiveInv'
<1>1. /\ proc[p] \in Records /\ DOMAIN proc = Processes /\ ProcOK(p)
      /\ proc[p].at = "pruned" /\ ViewOK(proc[p].base)
      /\ UNCHANGED <<net, local, reachable, prepared>>
  BY DEF ArchiveInv, ProcOK, DropRuntime
<1>2. PICK at \in {"ready", "idle"} :
          /\ at = "ready" => proc[p].proposed = proc[p].next
          /\ Update(p, [at |-> at, read |-> {}, live |-> FALSE, proposed |-> NoSeq])
  BY DEF DropRuntime
<1> DEFINE g == [at |-> at, read |-> {}, live |-> FALSE, proposed |-> NoSeq]
           new == [f \in DOMAIN proc[p] |-> IF f \in DOMAIN g THEN g[f] ELSE proc[p][f]]
<1>3. MovesTo(p, new)
  BY <1>1, <1>2 DEF Update, MovesTo
<1>4. /\ new \in Records /\ new.at = at /\ new.base = proc[p].base
      /\ new.next = proc[p].next
  BY <1>1, Fields DEF Records, Activities
<1> HIDE DEF new
<1>5. Top' = Top
  BY <1>1 DEF Top
<1>6. ProcOK(p)'
  BY <1>1, <1>2, <1>3, <1>4, <1>5 DEF ProcOK, MovesTo, ViewOK
<1> QED BY <1>1, <1>3, <1>6, QuietStep

-----------------------------------------------------------------------------
\* Finalizing.

\* The process turns to at, and nothing else of it changes.
LEMMA Turns ==
    ASSUME NEW p \in Processes, DOMAIN proc = Processes, proc[p] \in Records,
           NEW at \in Activities, Update(p, [at |-> at])
    PROVE  /\ MovesTo(p, proc'[p]) /\ proc'[p] \in Records /\ proc'[p].at = at
           /\ proc'[p].base = proc[p].base /\ proc'[p].proposed = proc[p].proposed
<1> DEFINE g == [at |-> at]
           new == [f \in DOMAIN proc[p] |-> IF f \in DOMAIN g THEN g[f] ELSE proc[p][f]]
<1>1. proc' = [proc EXCEPT ![p] = new]
  BY DEF Update
<1>2. /\ new \in Records /\ new.at = at
      /\ new.base = proc[p].base /\ new.proposed = proc[p].proposed
  BY Fields DEF Records
<1> HIDE DEF new
<1> QED BY <1>1, <1>2 DEF MovesTo

LEMMA PrepareStep ==
    ASSUME ArchiveInv, NEW p \in Processes, Prepare(p),
           \A q \in Writers : q = p
    PROVE  ArchiveInv'
<1>1. /\ proc[p] \in Records /\ DOMAIN proc = Processes /\ ProcOK(p) /\ RowsOK
      /\ p \in Writers /\ proc[p].at = "ready" /\ proc[p].next = Top + 1
      /\ proc[p].next <= LastSeq /\ prepared' = proc[p].next
      /\ Update(p, [at |-> "committing"]) /\ UNCHANGED <<net, local, reachable>>
  BY DEF ArchiveInv, ProcOK, Prepare, MayPrepare
<1>2. /\ MovesTo(p, proc'[p]) /\ proc'[p] \in Records /\ proc'[p].at = "committing"
      /\ proc'[p].base = proc[p].base
  BY <1>1, Turns DEF Activities
<1>3. Top' = Top
  BY <1>1 DEF Top
<1>4. prepared' \in Seqs /\ prepared' # NoSeq
  BY <1>1, SeqsAre, ArchiveAssumption DEF RowsOK, Seqs
<1>5. RowsOK'
  BY <1>1, <1>3, <1>4 DEF RowsOK
<1>6. ProcOK(p)'
  BY <1>1, <1>2, <1>4 DEF ProcOK, ViewOK
<1> QED BY <1>1, <1>2, <1>5, <1>6, ProcessStepOK

LEMMA ResumeStep ==
    ASSUME ArchiveInv, NEW p \in Processes, Resume(p) PROVE ArchiveInv'
<1>1. /\ proc[p] \in Records /\ DOMAIN proc = Processes /\ ProcOK(p)
      /\ p \in Writers /\ proc[p].at = "ready" /\ prepared # NoSeq
      /\ Update(p, [at |-> "committing"])
      /\ UNCHANGED <<net, local, reachable, prepared>>
  BY DEF ArchiveInv, ProcOK, Resume
<1>2. /\ MovesTo(p, proc'[p]) /\ proc'[p] \in Records /\ proc'[p].at = "committing"
      /\ proc'[p].base = proc[p].base
  BY <1>1, Turns DEF Activities
<1>3. ProcOK(p)'
  BY <1>1, <1>2 DEF ProcOK, ViewOK
<1> QED BY <1>1, <1>2, <1>3, QuietStep

LEMMA LeaveStep ==
    ASSUME ArchiveInv, NEW p \in Processes, Leave(p) PROVE ArchiveInv'
<1>1. /\ proc[p] \in Records /\ DOMAIN proc = Processes /\ ProcOK(p)
      /\ proc[p].at = "ready" /\ Update(p, [at |-> "idle"])
      /\ UNCHANGED <<net, local, reachable, prepared>>
  BY DEF ArchiveInv, ProcOK, Leave
<1>2. /\ MovesTo(p, proc'[p]) /\ proc'[p] \in Records /\ proc'[p].at = "idle"
      /\ proc'[p].base = proc[p].base
  BY <1>1, Turns DEF Activities
<1>3. ProcOK(p)'
  BY <1>1, <1>2 DEF ProcOK, ViewOK
<1> QED BY <1>1, <1>2, <1>3, QuietStep

LEMMA CommitGrantStep ==
    ASSUME ArchiveInv, NEW p \in Processes, CommitGrant(p) PROVE ArchiveInv'
<1>1. /\ DOMAIN proc = Processes /\ ProcOK(p) /\ RowsOK
      /\ proc[p].at = "committing" /\ local' = local \cup {Grant(prepared)}
      /\ UNCHANGED <<net, reachable, proc, prepared>>
  BY DEF ArchiveInv, CommitGrant, CommitObject
<1>2. prepared \in Seqs
  BY <1>1 DEF ProcOK, RowsOK
<1>3. /\ local \in SUBSET Objects /\ {Grant(prepared)} \in SUBSET Objects
      /\ net \in SUBSET Objects /\ local' \in SUBSET Objects
  BY <1>1, <1>2, SeqsAre DEF RowsOK
<1>4. EntrySeqs(local') = EntrySeqs(local)
  <2>1. EntrySeqs(local \cup {Grant(prepared)})
            = EntrySeqs(local) \cup EntrySeqs({Grant(prepared)})
    BY <1>3, UnionSeqs
  <2>2. EntrySeqs({Grant(prepared)}) = {}
    BY <1>2, OneSeq
  <2> QED BY <1>1, <2>1, <2>2
<1>5. EntrySeqs(net \cup local') = EntrySeqs(net \cup local)
  <2>1. /\ EntrySeqs(net \cup local') = EntrySeqs(net) \cup EntrySeqs(local')
        /\ EntrySeqs(net \cup local) = EntrySeqs(net) \cup EntrySeqs(local)
    BY <1>3, UnionSeqs
  <2> QED BY <1>4, <2>1
<1>6. Top' = Top
  BY <1>1, <1>5 DEF Top, PublicHead
<1>7. RowsOK'
  BY <1>1, <1>3, <1>4, <1>5, <1>6 DEF RowsOK
<1>8. MovesTo(p, proc[p])
  BY <1>1 DEF MovesTo
<1>9. ProcOK(p)'
  BY <1>1, <1>6 DEF ProcOK, ViewOK
<1> QED BY <1>1, <1>6, <1>7, <1>8, <1>9, ProcessStepOK

\* The chain grows by one: the entry that was prepared for its end.
LEMMA CommitEntryStep ==
    ASSUME ArchiveInv, NEW p \in Processes, CommitEntry(p),
           \A q \in Writers : q = p
    PROVE  ArchiveInv'
<1>1. /\ proc[p] \in Records /\ DOMAIN proc = Processes /\ ProcOK(p) /\ RowsOK
      /\ proc[p].at = "committing" /\ local' = local \cup {Entry(prepared)}
      /\ prepared' = NoSeq /\ Update(p, [at |-> "idle"]) /\ UNCHANGED <<net, reachable>>
  BY DEF ArchiveInv, ProcOK, CommitEntry, CommitObject
<1>2. /\ prepared \in Seqs /\ prepared = Top + 1 /\ Top \in Nat
      /\ EntrySeqs(net \cup local) = 0 .. Top
  BY <1>1, SeqsAre DEF ProcOK, RowsOK
<1>3. /\ local \in SUBSET Objects /\ {Entry(prepared)} \in SUBSET Objects
      /\ net \in SUBSET Objects /\ local' \in SUBSET Objects
  BY <1>1, <1>2, SeqsAre DEF RowsOK
<1>4. EntrySeqs(local') = EntrySeqs(local) \cup {prepared}
  <2>1. EntrySeqs(local \cup {Entry(prepared)})
            = EntrySeqs(local) \cup EntrySeqs({Entry(prepared)})
    BY <1>3, UnionSeqs
  <2>2. EntrySeqs({Entry(prepared)}) = {prepared}
    BY <1>2, OneSeq
  <2> QED BY <1>1, <2>1, <2>2
<1>5. EntrySeqs(net \cup local') = (0 .. Top) \cup {prepared}
  <2>1. /\ EntrySeqs(net \cup local') = EntrySeqs(net) \cup EntrySeqs(local')
        /\ EntrySeqs(net \cup local) = EntrySeqs(net) \cup EntrySeqs(local)
    BY <1>3, UnionSeqs
  <2> QED BY <1>2, <1>4, <2>1
<1>6. EntrySeqs(net \cup local') = 0 .. prepared
  <2>1. (0 .. Top) \cup {prepared} = 0 .. prepared
    BY <1>2
  <2> QED BY <1>5, <2>1
<1>7. Top' = prepared
  <2>1. PublicHead(net \cup local') = prepared
    BY <1>2, <1>6, HeadIs
  <2> QED BY <1>1, <2>1 DEF Top
<1>8. RowsOK'
  BY <1>1, <1>2, <1>3, <1>4, <1>6, <1>7 DEF RowsOK
<1>9. /\ MovesTo(p, proc'[p]) /\ proc'[p] \in Records /\ proc'[p].at = "idle"
      /\ proc'[p].base = proc[p].base
  BY <1>1, Turns DEF Activities
<1>10. ProcOK(p)'
  BY <1>1, <1>9 DEF ProcOK, ViewOK
<1> QED BY <1>1, <1>8, <1>9, <1>10, ProcessStepOK

LEMMA AbortStep ==
    ASSUME ArchiveInv, NEW p \in Processes, Abort(p), \A q \in Writers : q = p
    PROVE  ArchiveInv'
<1>1. /\ proc[p] \in Records /\ DOMAIN proc = Processes /\ ProcOK(p) /\ RowsOK
      /\ proc[p].at = "committing" /\ prepared' \in {prepared, NoSeq}
      /\ Update(p, [at |-> "idle"]) /\ UNCHANGED <<net, local, reachable>>
  BY DEF ArchiveInv, ProcOK, Abort
<1>2. Top' = Top
  BY <1>1 DEF Top
<1>3. RowsOK'
  BY <1>1, <1>2 DEF RowsOK
<1>4. /\ MovesTo(p, proc'[p]) /\ proc'[p] \in Records /\ proc'[p].at = "idle"
      /\ proc'[p].base = proc[p].base
  BY <1>1, Turns DEF Activities
<1>5. ProcOK(p)'
  BY <1>1, <1>4 DEF ProcOK, ViewOK
<1> QED BY <1>1, <1>3, <1>4, <1>5, ProcessStepOK

LEMMA IdleIs ==
    Idle \in Records /\ Idle.at = "off"
BY DEF Idle, Records, Activities

LEMMA ExitStep ==
    ASSUME ArchiveInv, NEW p \in Processes, Exit(p) PROVE ArchiveInv'
<1>1. DOMAIN proc = Processes /\ UNCHANGED <<net, local, reachable, prepared>>
  BY DEF ArchiveInv, Exit
<1>2. MovesTo(p, Idle)
  BY <1>1 DEF Exit, MovesTo
<1>3. ProcOK(p)'
  BY <1>2, IdleIs DEF ProcOK, MovesTo
<1> QED BY <1>1, <1>2, <1>3, QuietStep

-----------------------------------------------------------------------------
\* Around the processes.

\* What arrives was a row before.
LEMMA ArriveStep ==
    ASSUME ArchiveInv, NEW o \in Objects, Arrive(o) PROVE ArchiveInv'
<1>1. /\ RowsOK /\ net' = net \cup {o} /\ o \in local
      /\ UNCHANGED <<local, reachable, proc, prepared>>
  BY DEF ArchiveInv, Arrive
<1>2. net' \cup local' = net \cup local
  BY <1>1
<1>3. Top' = Top
  BY <1>2 DEF Top
<1>4. /\ local \in SUBSET Objects /\ net \in SUBSET Objects /\ net' \in SUBSET Objects
      /\ EntrySeqs(net) \subseteq EntrySeqs(net')
  BY <1>1, UnionSeqs DEF RowsOK
<1>5. EntrySeqs(local) = {} => EntrySeqs(net') = EntrySeqs(net)
  <2>1. EntrySeqs(net') \subseteq EntrySeqs(net \cup local)
    BY <1>1, <1>2, <1>4, UnionSeqs
  <2> QED BY <1>4, <2>1, UnionSeqs
<1>6. RowsOK'
  BY <1>1, <1>2, <1>3, <1>4, <1>5 DEF RowsOK
<1>7. ASSUME NEW q \in Processes PROVE ProcOK(q)'
  BY <1>1, <1>3, <1>7, Undisturbed DEF ArchiveInv
<1> QED BY <1>1, <1>6, <1>7 DEF ArchiveInv

LEMMA SetReachableStep ==
    ASSUME ArchiveInv, SetReachable PROVE ArchiveInv'
<1>1. RowsOK' /\ Top' = Top
  BY DEF ArchiveInv, RowsOK, SetReachable, Top
<1>2. ASSUME NEW q \in Processes PROVE ProcOK(q)'
  BY <1>1, <1>2, Undisturbed DEF ArchiveInv, SetReachable
<1> QED BY <1>1, <1>2 DEF ArchiveInv, SetReachable

-----------------------------------------------------------------------------
\* The invariant holds.

LEMMA ArchiveInvInit ==
    ASSUME ArchiveInit PROVE ArchiveInv
<1>1. FirstSeq \in Seqs /\ FirstSeq \in Nat /\ FirstSeq \in 0 .. FirstSeq
  BY SeqsAre, ArchiveAssumption
<1>2. /\ net \in SUBSET Objects /\ local \in SUBSET Objects
      /\ \A s \in Seqs : Entry(s) \in net <=> s <= FirstSeq
  <2>1. \A s \in Seqs : Entry(s).seq = s
    BY DEF Entry
  <2> QED BY <1>1, <2>1, SeqsAre DEF ArchiveInit
<1>3. EntrySeqs(net) = 0 .. FirstSeq
  <2>1. /\ EntrySeqs(net) \in SUBSET Seqs
        /\ \A s \in Seqs : s \in EntrySeqs(net) <=> s <= FirstSeq
    BY <1>2, EntrySeqsAre
  <2>2. \A s \in Seqs : s \in 0 .. FirstSeq <=> s <= FirstSeq
    BY <1>1 DEF Seqs
  <2>3. 0 .. FirstSeq \in SUBSET Seqs
    BY <1>1, ArchiveAssumption DEF Seqs
  <2> QED BY <2>1, <2>2, <2>3
<1>4. EntrySeqs(local) = IF FirstRow THEN {FirstSeq} ELSE {}
  <2>1. CASE FirstRow
    <3>1. local = {Grant(FirstSeq)} \cup {Entry(FirstSeq)}
      BY <2>1 DEF ArchiveInit
    <3>2. EntrySeqs(local) = EntrySeqs({Grant(FirstSeq)}) \cup EntrySeqs({Entry(FirstSeq)})
      BY <1>1, <3>1, SeqsAre, UnionSeqs
    <3> QED BY <1>1, <2>1, <3>2, OneSeq
  <2>2. CASE ~FirstRow
    BY <2>2 DEF ArchiveInit, EntrySeqs
  <2> QED BY <2>1, <2>2
<1>5. EntrySeqs(net \cup local) = 0 .. FirstSeq
  <2>1. EntrySeqs(net \cup local) = EntrySeqs(net) \cup EntrySeqs(local)
    BY <1>2, UnionSeqs
  <2> QED BY <1>1, <1>3, <1>4, <2>1
<1>6. Top = FirstSeq
  BY <1>1, <1>5, HeadIs DEF Top
<1>7. RowsOK
  BY <1>1, <1>2, <1>3, <1>4, <1>5, <1>6 DEF RowsOK, ArchiveInit
<1>8. DOMAIN proc = Processes /\ \A p \in Processes : proc[p] = Idle
  BY DEF ArchiveInit
<1>9. \A p \in Processes : ProcOK(p)
  BY <1>8, IdleIs DEF ProcOK
<1> QED BY <1>7, <1>8, <1>9 DEF ArchiveInv

LEMMA ArchiveInvNext ==
    ASSUME OneWriter, ArchiveInv, [ArchiveNext]_archiveVars PROVE ArchiveInv'
<1>1. ASSUME NEW p \in Processes, ProcessStep(p) PROVE ArchiveInv'
  <2>1. CASE ReadNetwork(p) BY <2>1, ReadNetworkStep
  <2>2. CASE OpenVerified(p) BY <2>2, OpenVerifiedStep
  <2>3. CASE OpenRefused(p) BY <2>3, OpenRefusedStep
  <2>4. CASE PruneRows(p) BY <2>4, PruneRowsStep
  <2>5. CASE KeepRuntime(p) BY <2>5, KeepRuntimeStep
  <2>6. CASE DropRuntime(p) BY <2>6, DropRuntimeStep
  <2>7. CASE Prepare(p)
    <3>1. \A q \in Writers : q = p BY <2>7 DEF OneWriter, Prepare
    <3> QED BY <2>7, <3>1, PrepareStep
  <2>8. CASE Resume(p) BY <2>8, ResumeStep
  <2>9. CASE Leave(p) BY <2>9, LeaveStep
  <2>10. CASE CommitGrant(p) BY <2>10, CommitGrantStep
  <2>11. proc[p].at = "committing" => \A q \in Writers : q = p
    BY DEF ArchiveInv, ProcOK, OneWriter
  <2>12. CASE CommitEntry(p)
    <3>1. \A q \in Writers : q = p BY <2>11, <2>12 DEF CommitEntry, CommitObject
    <3> QED BY <2>12, <3>1, CommitEntryStep
  <2>13. CASE Abort(p)
    <3>1. \A q \in Writers : q = p BY <2>11, <2>13 DEF Abort
    <3> QED BY <2>13, <3>1, AbortStep
  <2>14. CASE Exit(p) BY <2>14, ExitStep
  <2> QED BY <1>1, <2>1, <2>2, <2>3, <2>4, <2>5, <2>6, <2>7, <2>8, <2>9, <2>10,
             <2>12, <2>13, <2>14 DEF ProcessStep
<1>2. ASSUME NEW o \in Objects, Arrive(o) PROVE ArchiveInv'
  BY <1>2, ArriveStep
<1>3. CASE SetReachable BY <1>3, SetReachableStep
<1>4. CASE UNCHANGED archiveVars
  <2>1. RowsOK' /\ Top' = Top
    BY <1>4 DEF ArchiveInv, RowsOK, Top, archiveVars
  <2>2. ASSUME NEW q \in Processes PROVE ProcOK(q)'
    BY <1>4, <2>1, <2>2, Undisturbed DEF ArchiveInv, archiveVars
  <2> QED BY <1>4, <2>1, <2>2 DEF ArchiveInv, archiveVars
<1> QED BY <1>1, <1>2, <1>3, <1>4 DEF ArchiveNext

-----------------------------------------------------------------------------
\* The two action properties, step by step.

\* Only Prepare sets a sequence, the one after the last entry.
LEMMA FreshStep ==
    ASSUME ArchiveInv, [ArchiveNext]_archiveVars, prepared' \notin {prepared, NoSeq}
    PROVE  Entry(prepared') \notin net \cup local
<1>1. PICK p \in Processes : Prepare(p)
  BY DEF ArchiveNext, archiveVars, ProcessStep, ReadNetwork, OpenVerified, OpenRefused,
         PruneRows, KeepRuntime, DropRuntime, Resume, Leave, CommitGrant,
         CommitEntry, Abort, Exit, Arrive, SetReachable
<1>2. prepared' = Top + 1 /\ prepared' <= LastSeq
  BY <1>1 DEF ArchiveInv, ProcOK, Prepare, MayPrepare
<1>3. Top \in Nat /\ EntrySeqs(net \cup local) = 0 .. Top /\ net \cup local \in SUBSET Objects
  BY SeqsAre DEF ArchiveInv, RowsOK
<1>4. prepared' \in Seqs /\ prepared' \notin EntrySeqs(net \cup local)
  BY <1>2, <1>3, ArchiveAssumption DEF Seqs
<1> QED BY <1>3, <1>4, EntrySeqsAre

\* What a step does not name it keeps.
LEMMA Unnamed ==
    ASSUME NEW p \in Processes, DOMAIN proc = Processes, proc[p] \in Records,
           NEW g, "proposed" \notin DOMAIN g, Update(p, g)
    PROVE  proc'[p].proposed = proc[p].proposed
BY Fields DEF Update

\* No process proposes but the one that steps.
LEMMA OthersKeep ==
    ASSUME NEW p \in Processes, ProcessStep(p), DOMAIN proc = Processes
    PROVE  \A q \in Processes \ {p} : proc'[q] = proc[q]
<1>1. \A g : Update(p, g) => \A q \in Processes \ {p} : proc'[q] = proc[q]
  BY DEF Update
<1>2. CASE Exit(p) BY <1>2 DEF Exit
<1>3. CASE CommitGrant(p) BY <1>3 DEF CommitGrant
<1>4. CASE ~Exit(p) /\ ~CommitGrant(p)
  <2>1. \E g : Update(p, g)
    BY <1>4 DEF ProcessStep, ReadNetwork, OpenVerified, OpenRefused, PruneRows,
         KeepRuntime, DropRuntime, Prepare, Resume, Leave, CommitEntry, Abort
  <2> QED BY <1>1, <2>1
<1> QED BY <1>2, <1>3, <1>4

\* Only a verified opening proposes, and then the sequence after the last entry.
LEMMA ProposalStep ==
    ASSUME ArchiveInv, NEW p \in Processes, ProcessStep(p)
    PROVE  proc'[p].proposed \in {proc[p].proposed, NoSeq, Top + 1}
<1>1. proc[p] \in Records /\ DOMAIN proc = Processes /\ ProcOK(p) /\ RowsOK
  BY DEF ArchiveInv, ProcOK
<1>2. CASE ReadNetwork(p)
  <2>1. \/ Update(p, [at |-> "starting", live |-> TRUE, read |-> net])
        \/ Update(p, [at |-> "reopening", live |-> reachable,
                      read |-> IF reachable THEN net ELSE proc[p].base])
    BY <1>2 DEF ReadNetwork
  <2> QED BY <1>1, <2>1, Unnamed
<1>3. CASE OpenVerified(p)
  <2>1. CASE proc[p].at = "starting"
    <3>1. Update(p, [at |-> "idle", base |-> proc[p].read, read |-> {},
                     live |-> FALSE, next |-> PublicHead(Union(p)) + 1])
      BY <1>3, <2>1 DEF OpenVerified
    <3> QED BY <1>1, <3>1, Unnamed
  <2>2. CASE proc[p].at # "starting"
    <3>1. PublicHead(Union(p)) = Top
      BY <1>1, <1>3, <2>2, OpeningIs DEF OpenVerified, Union, ProcOK
    <3>2. Update(p, [at |-> "opened", proposed |-> PublicHead(Union(p)) + 1])
      BY <1>3, <2>2 DEF OpenVerified
    <3>3. proc'[p].proposed = PublicHead(Union(p)) + 1
      BY <1>1, <3>2, Fields DEF Update
    <3> QED BY <3>1, <3>3
  <2> QED BY <2>1, <2>2
<1>4. CASE OpenRefused(p)
  <2>1. \E g : Update(p, g) /\ "proposed" \notin DOMAIN g
    BY <1>4 DEF OpenRefused
  <2> QED BY <1>1, <2>1, Unnamed
<1>5. CASE KeepRuntime(p) \/ DropRuntime(p)
  <2>1. ASSUME NEW g, Update(p, g), "proposed" \in DOMAIN g, g.proposed = NoSeq
        PROVE  proc'[p].proposed = NoSeq
    BY <1>1, <2>1, Fields DEF Update
  <2>2. CASE KeepRuntime(p)
    <3>1. PICK at : Update(p, [at |-> at, base |-> proc[p].read, read |-> {},
                               live |-> FALSE, next |-> proc[p].proposed,
                               proposed |-> NoSeq])
      BY <2>2 DEF KeepRuntime
    <3> QED BY <2>1, <3>1
  <2>3. CASE DropRuntime(p)
    <3>1. PICK at : Update(p, [at |-> at, read |-> {}, live |-> FALSE,
                               proposed |-> NoSeq])
      BY <2>3 DEF DropRuntime
    <3> QED BY <2>1, <3>1
  <2> QED BY <1>5, <2>2, <2>3
<1>6. CASE PruneRows(p) \/ Prepare(p) \/ Resume(p) \/ Leave(p) \/ CommitEntry(p) \/ Abort(p)
  <2>1. \E at \in Activities : Update(p, [at |-> at])
    BY <1>6 DEF PruneRows, Prepare, Resume, Leave, CommitEntry, Abort, Activities
  <2> QED BY <1>1, <2>1, Turns
<1>7. CASE CommitGrant(p) BY <1>7 DEF CommitGrant
<1>8. CASE Exit(p) BY <1>1, <1>8 DEF Exit, Idle
<1> QED BY <1>2, <1>3, <1>4, <1>5, <1>6, <1>7, <1>8 DEF ProcessStep

LEMMA HeadStep ==
    ASSUME ArchiveInv, [ArchiveNext]_archiveVars, NEW q \in Processes,
           proc'[q].proposed \notin {proc[q].proposed, NoSeq}
    PROVE  proc'[q].proposed = Top + 1
<1>1. PICK p \in Processes : ProcessStep(p)
  BY DEF ArchiveNext, archiveVars, Arrive, SetReachable
<1>2. p = q
  BY <1>1, OthersKeep DEF ArchiveInv
<1> QED BY <1>1, <1>2, ProposalStep

\* With one finalizing process, whatever the others read, prune or publish, a
\* finalization never takes a sequence that an entry has (finalize.rs).
THEOREM SequenceAlwaysFresh ==
    ASSUME OneWriter PROVE ArchiveSpec => SequenceFresh
<1>1. ArchiveInit => ArchiveInv
  BY ArchiveInvInit
<1>2. ArchiveInv /\ [ArchiveNext]_archiveVars => ArchiveInv'
  BY ArchiveInvNext
<1>3. ArchiveInv /\ [ArchiveNext]_archiveVars =>
          [prepared' \notin {prepared, NoSeq} =>
              Entry(prepared') \notin net \cup local]_archiveVars
  BY FreshStep
<1> QED BY <1>1, <1>2, <1>3, PTL DEF ArchiveSpec, SequenceFresh

\* With one finalizing process, an opening that verifies, from however old a
\* view, proposes the sequence after the last entry (open_with_anchor).
THEOREM OpeningAlwaysSeesHead ==
    ASSUME OneWriter PROVE ArchiveSpec => OpeningSeesHead
<1>1. ArchiveInit => ArchiveInv
  BY ArchiveInvInit
<1>2. ArchiveInv /\ [ArchiveNext]_archiveVars => ArchiveInv'
  BY ArchiveInvNext
<1>3. ArchiveInv /\ [ArchiveNext]_archiveVars =>
          [\A p \in Processes :
              proc'[p].proposed \notin {proc[p].proposed, NoSeq} =>
                  proc'[p].proposed = PublicHead(net \cup local) + 1]_archiveVars
  BY HeadStep DEF Top
<1> QED BY <1>1, <1>2, <1>3, PTL DEF ArchiveSpec, OpeningSeesHead

-----------------------------------------------------------------------------
\* For the module that refines publication: what steps keep.

\* The rows belong to entries that have their grants.
GrantInv == \A s \in Seqs : Entry(s) \in net \cup local => Grant(s) \in net \cup local

\* What the kept runtime of p, and one that is being opened, see together with
\* the rows is all there is in the directory.
Seen(p) ==
    LET r == proc[p] IN
    /\ r.at = "starting" => net \subseteq r.read
    /\ r.at \notin {"off", "starting"} => net \subseteq r.base \cup local
    /\ r.at \in {"reopening", "opened", "pruned"} => net \subseteq r.read \cup local

\* A row goes only when the directory has it.
LEMMA RowsKept ==
    ASSUME ArchiveInv, [ArchiveNext]_archiveVars
    PROVE  net \subseteq net' /\ net \cup local \subseteq net' \cup local'
<1>1. ASSUME NEW p \in Processes, PruneRows(p)
      PROVE  net \subseteq net' /\ net \cup local \subseteq net' \cup local'
  <2>1. proc[p].read \subseteq net
    BY <1>1 DEF ArchiveInv, ProcOK, PruneRows, ViewOK
  <2> QED BY <1>1, <2>1 DEF PruneRows, Prunable
<1>2. ASSUME NEW p \in Processes, ProcessStep(p), ~PruneRows(p)
      PROVE  net \subseteq net' /\ local \subseteq local'
  BY <1>2 DEF ProcessStep, ReadNetwork, OpenVerified, OpenRefused, KeepRuntime,
       DropRuntime, Prepare, Resume, Leave, CommitGrant, CommitEntry, CommitObject,
       Abort, Exit
<1>3. CASE SetReachable \/ UNCHANGED archiveVars
  BY <1>3 DEF SetReachable, archiveVars
<1>4. ASSUME NEW o \in Objects, Arrive(o) PROVE net \subseteq net' /\ local \subseteq local'
  BY <1>4 DEF Arrive
<1> QED BY <1>1, <1>2, <1>3, <1>4 DEF ArchiveNext

\* What is new, in the directory or as a row, is a grant, or an entry whose
\* grant is there.
LEMMA NewRows ==
    ASSUME ArchiveInv, [ArchiveNext]_archiveVars
    PROVE  \A o \in (net' \cup local') \ (net \cup local) :
               \/ \E s \in Seqs : o = Grant(s)
               \/ \E s \in Seqs : o = Entry(s) /\ Grant(s) \in local
<1>1. ASSUME NEW p \in Processes, CommitGrant(p) \/ CommitEntry(p)
      PROVE  prepared \in Seqs
  BY <1>1 DEF CommitGrant, CommitEntry, CommitObject, ArchiveInv, ProcOK, RowsOK
<1>2. ASSUME NEW p \in Processes, CommitGrant(p)
      PROVE  net' = net /\ local' = local \cup {Grant(prepared)}
  BY <1>2 DEF CommitGrant, CommitObject
<1>3. ASSUME NEW p \in Processes, CommitEntry(p)
      PROVE  net' = net /\ local' = local \cup {Entry(prepared)} /\ Grant(prepared) \in local
  BY <1>3 DEF CommitEntry, CommitObject
<1>4. ASSUME NEW p \in Processes, ProcessStep(p), ~CommitGrant(p), ~CommitEntry(p)
      PROVE  net' = net /\ local' \subseteq local
  BY <1>4 DEF ProcessStep, ReadNetwork, OpenVerified, OpenRefused, KeepRuntime,
       DropRuntime, Prepare, Resume, Leave, PruneRows, Abort, Exit
<1>5. CASE SetReachable \/ UNCHANGED archiveVars
  BY <1>5 DEF SetReachable, archiveVars
<1>6. ASSUME NEW o \in Objects, Arrive(o) PROVE net' \cup local' = net \cup local
  BY <1>6 DEF Arrive
<1> QED BY <1>1, <1>2, <1>3, <1>4, <1>5, <1>6 DEF ArchiveNext

LEMMA GrantNext ==
    ASSUME ArchiveInv, GrantInv, [ArchiveNext]_archiveVars PROVE GrantInv'
<1> SUFFICES ASSUME NEW s \in Seqs, Entry(s) \in net' \cup local'
             PROVE  Grant(s) \in net' \cup local'
  BY DEF GrantInv
<1>1. net \cup local \subseteq net' \cup local'
  BY RowsKept
<1>2. CASE Entry(s) \in net \cup local
  BY <1>1, <1>2 DEF GrantInv
<1>3. CASE Entry(s) \notin net \cup local
  <2>1. \A u \in Seqs : Entry(s) # Grant(u)
    BY DEF Entry, Grant
  <2>2. PICK u \in Seqs : Entry(s) = Entry(u) /\ Grant(u) \in local
    BY <1>3, <2>1, NewRows
  <2>3. s = u
    BY <2>2 DEF Entry
  <2> QED BY <1>1, <2>2, <2>3
<1> QED BY <1>2, <1>3

LEMMA GrantInit ==
    ASSUME ArchiveInit PROVE GrantInv
<1>1. \A s \in Seqs : /\ Entry(s).seq = s /\ Entry(s).kind = "eip"
                      /\ Grant(s).seq = s /\ Grant(s).kind = "eag"
  BY DEF Entry, Grant
<1>2. \A s \in Seqs : Entry(s) \in net => Grant(s) \in net
  BY <1>1, SeqsAre DEF ArchiveInit
<1>3. \A s \in Seqs : Entry(s) \in local => s = FirstSeq /\ FirstRow
  <2>1. local \subseteq {Grant(FirstSeq), Entry(FirstSeq)} /\ (~FirstRow => local = {})
    BY ArchiveAssumption DEF ArchiveInit
  <2> QED BY <1>1, <2>1, SeqsAre
<1>4. FirstRow => Grant(FirstSeq) \in local
  BY DEF ArchiveInit
<1> QED BY <1>2, <1>3, <1>4 DEF GrantInv

LEMMA UpdateIs ==
    ASSUME ArchiveInv, NEW p \in Processes, NEW g, NEW D, Update(p, g), DOMAIN g = D
    PROVE  /\ proc'[p].at = IF "at" \in D THEN g["at"] ELSE proc[p].at
           /\ proc'[p].base = IF "base" \in D THEN g["base"] ELSE proc[p].base
           /\ proc'[p].read = IF "read" \in D THEN g["read"] ELSE proc[p].read
<1>1. proc[p] \in Records /\ DOMAIN proc = Processes
  BY DEF ArchiveInv, ProcOK
<1> DEFINE new == [f \in DOMAIN proc[p] |-> IF f \in DOMAIN g THEN g[f] ELSE proc[p][f]]
<1>2. proc'[p] = new
  BY <1>1 DEF Update
<1>3. DOMAIN proc[p] = {"at", "base", "next", "live", "read", "proposed"}
  BY <1>1, Fields
<1> QED BY <1>2, <1>3

\* What each step makes of the runtime.
Becomes(p, at, base, read) ==
    proc'[p].at = at /\ proc'[p].base = base /\ proc'[p].read = read

LEMMA ReadMoves ==
    ASSUME ArchiveInv, NEW p \in Processes, ReadNetwork(p)
    PROVE  \/ proc[p].at = "off" /\ Becomes(p, "starting", proc[p].base, net)
           \/ /\ proc[p].at = "idle"
              /\ Becomes(p, "reopening", proc[p].base, IF reachable THEN net ELSE proc[p].base)
<1>1. ASSUME proc[p].at = "off" PROVE Becomes(p, "starting", proc[p].base, net)
  <2> DEFINE g == [at |-> "starting", live |-> TRUE, read |-> net]
  <2>1. Update(p, g)
    BY <1>1 DEF ReadNetwork
  <2>2. DOMAIN g = {"at", "live", "read"}
    OBVIOUS
  <2>3. g["at"] = "starting" /\ g["read"] = net
    OBVIOUS
  <2> HIDE DEF g
  <2> QED BY <2>1, <2>2, <2>3, UpdateIs DEF Becomes
<1>2. ASSUME proc[p].at = "idle"
      PROVE  Becomes(p, "reopening", proc[p].base, IF reachable THEN net ELSE proc[p].base)
  <2> DEFINE view == IF reachable THEN net ELSE proc[p].base
  <2> DEFINE g == [at |-> "reopening", live |-> reachable, read |-> view]
  <2>1. Update(p, g)
    BY <1>2 DEF ReadNetwork
  <2>2. DOMAIN g = {"at", "live", "read"}
    OBVIOUS
  <2>3. g["at"] = "reopening" /\ g["read"] = view
    OBVIOUS
  <2> HIDE DEF g
  <2> QED BY <2>1, <2>2, <2>3, UpdateIs DEF Becomes
<1> QED BY <1>1, <1>2 DEF ReadNetwork

LEMMA VerifiedMoves ==
    ASSUME ArchiveInv, NEW p \in Processes, OpenVerified(p)
    PROVE  \/ proc[p].at = "starting" /\ Becomes(p, "idle", proc[p].read, {})
           \/ proc[p].at = "reopening" /\ Becomes(p, "opened", proc[p].base, proc[p].read)
<1>1. ASSUME proc[p].at = "starting" PROVE Becomes(p, "idle", proc[p].read, {})
  <2> DEFINE g == [at |-> "idle", base |-> proc[p].read, read |-> {},
                   live |-> FALSE, next |-> PublicHead(Union(p)) + 1]
  <2>1. Update(p, g)
    BY <1>1 DEF OpenVerified
  <2>2. DOMAIN g = {"at", "base", "read", "live", "next"}
    OBVIOUS
  <2>3. g["at"] = "idle" /\ g["base"] = proc[p].read /\ g["read"] = {}
    OBVIOUS
  <2> HIDE DEF g
  <2> QED BY <2>1, <2>2, <2>3, UpdateIs DEF Becomes
<1>2. ASSUME proc[p].at = "reopening"
      PROVE  Becomes(p, "opened", proc[p].base, proc[p].read)
  <2> DEFINE g == [at |-> "opened", proposed |-> PublicHead(Union(p)) + 1]
  <2>1. Update(p, g)
    BY <1>2 DEF OpenVerified
  <2>2. DOMAIN g = {"at", "proposed"}
    OBVIOUS
  <2>3. g["at"] = "opened"
    OBVIOUS
  <2> HIDE DEF g
  <2>4. "base" \notin DOMAIN g /\ "read" \notin DOMAIN g /\ "at" \in DOMAIN g
    BY <2>2
  <2> QED BY <2>1, <2>2, <2>3, <2>4, UpdateIs DEF Becomes
<1> QED BY <1>1, <1>2 DEF OpenVerified

LEMMA RefusedMoves ==
    ASSUME ArchiveInv, NEW p \in Processes, OpenRefused(p)
    PROVE  Becomes(p, IF proc[p].at = "starting" THEN "off" ELSE "idle", proc[p].base, {})
<1> DEFINE at == IF proc[p].at = "starting" THEN "off" ELSE "idle"
<1> DEFINE g == [at |-> at, live |-> FALSE, read |-> {}]
<1>1. Update(p, g)
  BY DEF OpenRefused
<1>2. DOMAIN g = {"at", "live", "read"}
  OBVIOUS
<1>3. g["at"] = at /\ g["read"] = {}
  OBVIOUS
<1> HIDE DEF g
<1> QED BY <1>1, <1>2, <1>3, UpdateIs DEF Becomes

LEMMA KeepMoves ==
    ASSUME ArchiveInv, NEW p \in Processes, KeepRuntime(p)
    PROVE  \E at \in {"ready", "idle"} : Becomes(p, at, proc[p].read, {})
<1>0. PICK at \in {"ready", "idle"} :
          Update(p, [at |-> at, base |-> proc[p].read, read |-> {}, live |-> FALSE,
                      next |-> proc[p].proposed, proposed |-> NoSeq])
  BY DEF KeepRuntime
<1> DEFINE g == [at |-> at, base |-> proc[p].read, read |-> {}, live |-> FALSE,
                 next |-> proc[p].proposed, proposed |-> NoSeq]
<1>1. Update(p, g)
  BY <1>0
<1>2. DOMAIN g = {"at", "base", "read", "live", "next", "proposed"}
  OBVIOUS
<1>3. g["at"] = at /\ g["base"] = proc[p].read /\ g["read"] = {}
  OBVIOUS
<1> HIDE DEF g
<1> QED BY <1>1, <1>2, <1>3, UpdateIs DEF Becomes

LEMMA DropMoves ==
    ASSUME ArchiveInv, NEW p \in Processes, DropRuntime(p)
    PROVE  \E at \in {"ready", "idle"} : Becomes(p, at, proc[p].base, {})
<1>0. PICK at \in {"ready", "idle"} :
          Update(p, [at |-> at, read |-> {}, live |-> FALSE, proposed |-> NoSeq])
  BY DEF DropRuntime
<1> DEFINE g == [at |-> at, read |-> {}, live |-> FALSE, proposed |-> NoSeq]
<1>1. Update(p, g)
  BY <1>0
<1>2. DOMAIN g = {"at", "read", "live", "proposed"}
  OBVIOUS
<1>3. g["at"] = at /\ g["read"] = {}
  OBVIOUS
<1> HIDE DEF g
<1> QED BY <1>1, <1>2, <1>3, UpdateIs DEF Becomes

LEMMA TurnMoves ==
    ASSUME ArchiveInv, NEW p \in Processes, NEW at, Update(p, [at |-> at])
    PROVE  Becomes(p, at, proc[p].base, proc[p].read)
<1> DEFINE g == [at |-> at]
<1>1. Update(p, g)
  BY DEF Update
<1>2. DOMAIN g = {"at"}
  OBVIOUS
<1>3. g["at"] = at
  OBVIOUS
<1> HIDE DEF g
<1> QED BY <1>1, <1>2, <1>3, UpdateIs DEF Becomes

\* Reading, keeping, dropping and pruning lose nothing of the directory from
\* the view, and what arrives was a row.
LEMMA SeenNext ==
    ASSUME ArchiveInv, NEW p, Processes = {p}, Seen(p), [ArchiveNext]_archiveVars
    PROVE  Seen(p)'
<1> DEFINE r == proc[p]
           q == proc'[p]
<1>0. /\ r.at = "starting" => net \subseteq r.read
      /\ r.at \notin {"off", "starting"} => net \subseteq r.base \cup local
      /\ r.at \in {"reopening", "opened", "pruned"} => net \subseteq r.read \cup local
  BY DEF Seen
<1> SUFFICES /\ q.at = "starting" => net' \subseteq q.read
             /\ q.at \notin {"off", "starting"} => net' \subseteq q.base \cup local'
             /\ q.at \in {"reopening", "opened", "pruned"} => net' \subseteq q.read \cup local'
  BY DEF Seen
<1>1. CASE ReadNetwork(p)
  <2>1. CASE r.at = "off" /\ Update(p, [at |-> "starting", live |-> TRUE, read |-> net])
             /\ net' = net
    <3>1. q.at = "starting" /\ q.read = net
      BY <1>1, <2>1, ReadMoves DEF Becomes
    <3> QED BY <2>1, <3>1
  <2>2. CASE r.at = "idle" /\ UNCHANGED <<net, local>>
             /\ Update(p, [at |-> "reopening", live |-> reachable,
                            read |-> IF reachable THEN net ELSE proc[p].base])
    <3> DEFINE view == IF reachable THEN net ELSE proc[p].base
    <3>1. q.at = "reopening" /\ q.read = view /\ q.base = r.base
      BY <1>1, <2>2, ReadMoves DEF Becomes
    <3>2. net \subseteq view \cup local /\ net \subseteq r.base \cup local
      BY <1>0, <2>2
    <3> QED BY <2>2, <3>1, <3>2
  <2> QED BY <1>1, <2>1, <2>2 DEF ReadNetwork
<1>2. CASE OpenVerified(p)
  <2>0. UNCHANGED <<net, local>> /\ r.at \in {"starting", "reopening"}
    BY <1>2 DEF OpenVerified
  <2>1. CASE r.at = "starting"
    <3>1. q.at = "idle" /\ q.base = r.read
      BY <1>2, <2>1, VerifiedMoves DEF Becomes
    <3> QED BY <1>0, <2>0, <2>1, <3>1
  <2>2. CASE r.at = "reopening"
    <3>1. q.at = "opened" /\ q.base = r.base /\ q.read = r.read
      BY <1>2, <2>2, VerifiedMoves DEF Becomes
    <3> QED BY <1>0, <2>0, <2>2, <3>1
  <2> QED BY <2>0, <2>1, <2>2
<1>3. CASE OpenRefused(p)
  <2>1. /\ UNCHANGED <<net, local>> /\ r.at \in {"starting", "reopening"} /\ q.base = r.base
        /\ q.at = IF r.at = "starting" THEN "off" ELSE "idle"
    BY <1>3, RefusedMoves DEF OpenRefused, Becomes
  <2> QED BY <1>0, <2>1
<1>4. CASE PruneRows(p)
  <2>1. /\ net' = net /\ r.at = "opened" /\ q.at = "pruned" /\ q.base = r.base
        /\ q.read = r.read
    BY <1>4, TurnMoves DEF PruneRows, Becomes
  <2>2. local \subseteq local' \cup (r.read \cap r.base)
    BY <1>4 DEF PruneRows, Prunable
  <2> QED BY <1>0, <2>1, <2>2
<1>5. CASE KeepRuntime(p)
  <2>1. PICK at \in {"ready", "idle"} : Becomes(p, at, r.read, {})
    BY <1>5, KeepMoves
  <2>2. q.at = at /\ q.base = r.read
    BY <2>1 DEF Becomes
  <2>3. UNCHANGED <<net, local>> /\ r.at = "pruned"
    BY <1>5 DEF KeepRuntime
  <2> QED BY <1>0, <2>2, <2>3
<1>6. CASE DropRuntime(p)
  <2>1. PICK at \in {"ready", "idle"} : Becomes(p, at, r.base, {})
    BY <1>6, DropMoves
  <2>2. q.at = at /\ q.base = r.base
    BY <2>1 DEF Becomes
  <2>3. UNCHANGED <<net, local>> /\ r.at = "pruned"
    BY <1>6 DEF DropRuntime
  <2> QED BY <1>0, <2>2, <2>3
<1>7. CASE Prepare(p) \/ Resume(p) \/ Leave(p) \/ CommitEntry(p) \/ Abort(p)
  <2>1. PICK at \in {"committing", "idle"} : Update(p, [at |-> at])
    BY <1>7 DEF Prepare, Resume, Leave, CommitEntry, Abort
  <2>2. q.at = at /\ q.base = r.base
    BY <2>1, TurnMoves DEF Becomes
  <2>3. net' = net /\ local \subseteq local' /\ r.at \in {"ready", "committing"}
    BY <1>7 DEF Prepare, Resume, Leave, CommitEntry, Abort, CommitObject
  <2> QED BY <1>0, <2>2, <2>3
<1>8. CASE CommitGrant(p)
  <2>1. net' = net /\ local \subseteq local' /\ q = r
    BY <1>8 DEF CommitGrant, CommitObject
  <2> QED BY <1>0, <2>1
<1>9. CASE Exit(p)
  <2>1. q.at = "off"
    BY <1>9 DEF Exit, Idle, ArchiveInv
  <2> QED BY <2>1
<1>10. CASE SetReachable \/ UNCHANGED archiveVars
  BY <1>0, <1>10 DEF SetReachable, archiveVars
<1>11. ASSUME NEW o \in Objects, Arrive(o)
       PROVE  /\ q.at = "starting" => net' \subseteq q.read
              /\ q.at \notin {"off", "starting"} => net' \subseteq q.base \cup local'
              /\ q.at \in {"reopening", "opened", "pruned"} => net' \subseteq q.read \cup local'
  <2>1. /\ r.at \notin {"off", "starting"} /\ o \in local /\ net' = net \cup {o}
        /\ local' = local /\ q = r
    BY <1>11 DEF Arrive
  <2> QED BY <1>0, <2>1
<1> QED BY <1>1, <1>2, <1>3, <1>4, <1>5, <1>6, <1>7, <1>8, <1>9, <1>10, <1>11
        DEF ArchiveNext, ProcessStep

\* A runtime that is open stays open until the process ends.
LEMMA StaysOpen ==
    ASSUME ArchiveInv, NEW p \in Processes,
           \/ ReadNetwork(p) \/ OpenVerified(p) \/ OpenRefused(p)
           \/ PruneRows(p) \/ KeepRuntime(p) \/ DropRuntime(p)
           \/ Prepare(p) \/ Resume(p) \/ Leave(p)
           \/ CommitGrant(p) \/ CommitEntry(p) \/ Abort(p)
    PROVE  /\ proc[p].at = "off" => proc'[p].at = "starting"
           /\ proc[p].at = "starting" => proc'[p].at \in {"off", "idle"}
           /\ proc[p].at \notin {"off", "starting"} => proc'[p].at \notin {"off", "starting"}
<1>1. CASE ReadNetwork(p)
  BY <1>1, ReadMoves DEF Becomes
<1>2. CASE OpenVerified(p)
  BY <1>2, VerifiedMoves DEF Becomes
<1>3. CASE OpenRefused(p)
  BY <1>3, RefusedMoves DEF OpenRefused, Becomes
<1>4. CASE PruneRows(p)
  <2>1. proc[p].at = "opened" /\ Update(p, [at |-> "pruned"])
    BY <1>4 DEF PruneRows
  <2>2. Becomes(p, "pruned", proc[p].base, proc[p].read)
    BY <2>1, TurnMoves
  <2> QED BY <2>1, <2>2 DEF Becomes
<1>5. CASE KeepRuntime(p)
  BY <1>5, KeepMoves DEF KeepRuntime, Becomes
<1>6. CASE DropRuntime(p)
  BY <1>6, DropMoves DEF DropRuntime, Becomes
<1>7. CASE Prepare(p) \/ Resume(p) \/ Leave(p) \/ CommitEntry(p) \/ Abort(p)
  <2>1. PICK at \in {"committing", "idle"} : Update(p, [at |-> at])
    BY <1>7 DEF Prepare, Resume, Leave, CommitEntry, Abort
  <2>2. proc'[p].at = at
    BY <2>1, TurnMoves DEF Becomes
  <2>3. proc[p].at \in {"ready", "committing"}
    BY <1>7 DEF Prepare, Resume, Leave, CommitEntry, Abort, CommitObject
  <2> QED BY <2>2, <2>3
<1>8. CASE CommitGrant(p)
  BY <1>8 DEF CommitGrant, CommitObject
<1> QED BY <1>1, <1>2, <1>3, <1>4, <1>5, <1>6, <1>7, <1>8
=============================================================================
