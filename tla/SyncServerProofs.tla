-------------------------- MODULE SyncServerProofs --------------------------
(***************************************************************************)
(* Proofs about SyncServer, for any number of handlers and entries, any    *)
(* registry and any clock.                                                 *)
(***************************************************************************)
EXTENDS SyncServer, WellFoundedInduction, SequenceTheorems, TLAPS

\* A handler that has signed its receipt.
Signed == {"stored", "ready", "unlocked", "lookedUp", "inserting",
           "conflict", "committed"}

\* The registry head a receipt names covers it.
Covered(receipt) ==
    LET h == Heads[receipt.version]
    IN  /\ h.from <= SeqOf[receipt.entry] /\ SeqOf[receipt.entry] <= h.through
        /\ h.notBefore <= receipt.accepted /\ receipt.accepted <= h.notAfter
        /\ WriterOf[receipt.entry] = h.writer

\* The rows.  Beyond the properties: the head row repeats the time of its
\* entry's receipt, a row is stored under the entry its receipt names, and no
\* sequence up to the head is missing.
ChainInv ==
    /\ OneChain
    /\ CheckpointsFollowChain
    /\ AcceptedTimesMonotone
    /\ head # None => head.accepted = entries[head.entry].receipt.accepted
    /\ head # None =>
         \A k \in 0 .. head.seq : \E e \in Committed : SeqOf[e] = k
    /\ \A e \in Committed :
         entries[e].receipt.entry = e /\ Covered(entries[e].receipt)

\* One handler.  What it read without a lock may be old, but never names an
\* entry that is not visible; a handler that found no head row works on a
\* first entry; and one that lost its entry to another handler has seen an
\* older head.
HandlerOK(r) ==
    /\ req[r].pc \in Running =>
         req[r].entry \in Entries /\ req[r].grants \in GrantSets
    /\ req[r].pc \in {"received", "headRead"} => req[r].now \in Times
    /\ req[r].pc \in Signed =>
         /\ req[r].receipt \in Receipt
         /\ req[r].receipt.entry = req[r].entry
         /\ req[r].receipt.grants = req[r].grants
         /\ Covered(req[r].receipt)
    /\ req[r].pc \in {"lookedUp", "inserting"} =>
         SeqOf[req[r].entry] = 0 /\ PrevOf[req[r].entry] = None
    /\ req[r].pc # "done" => req[r].answer = None
    /\ req[r].anchor \in Committed \cup {None}
    /\ req[r].seen # None => req[r].seen.entry \in Committed
    /\ req[r].pc = "conflict" /\ req[r].entry \in Committed =>
         req[r].seen # head
    /\ req[r].pc = "committed" \/ req[r].answer = "receipt" =>
         /\ req[r].entry \in Committed
         /\ req[r].receipt = entries[req[r].entry].receipt
         /\ req[r].receipt.grants = req[r].grants

ServerInv ==
    /\ TypeOK
    /\ ChainInv
    /\ \A r \in Requests : HandlerOK(r)

LEMMA ServerInvInit == Init => ServerInv
<1> SUFFICES ASSUME Init PROVE ServerInv
  OBVIOUS
<1>1. Idle \in Handler
  BY DEF Idle, Handler
<1>2. TypeOK
  BY <1>1 DEF Init, TypeOK
<1>3. Committed = {}
  BY DEF Init, Committed
<1>4. ChainInv
  BY <1>3 DEF Init, ChainInv, OneChain, CheckpointsFollowChain,
              AcceptedTimesMonotone
<1>5. ASSUME NEW r \in Requests PROVE HandlerOK(r)
  <2>1. req[r] = Idle
    BY DEF Init
  <2> QED BY <2>1, NoneIsNoAnswer DEF Idle, HandlerOK, Running, Signed, Answers
<1> QED BY <1>2, <1>4, <1>5 DEF ServerInv

-----------------------------------------------------------------------------
\* Steps that leave the rows alone.
LEMMA RowsKept ==
    ASSUME ChainInv, UNCHANGED <<head, entries>>
    PROVE  ChainInv'
BY DEF ChainInv, OneChain, CheckpointsFollowChain, AcceptedTimesMonotone,
       Committed, Covered

LEMMA OthersKept ==
    ASSUME NEW r \in Requests, HandlerOK(r), UNCHANGED <<head, entries>>,
           req'[r] = req[r]
    PROVE  HandlerOK(r)'
BY DEF HandlerOK, Committed, Covered

LEMMA Updated ==
    ASSUME TypeOK, NEW r \in Requests, NEW new \in Handler,
           req' = [req EXCEPT ![r] = new]
    PROVE  /\ req' \in [Requests -> Handler]
           /\ req'[r] = new
           /\ \A q \in Requests \ {r} : req'[q] = req[q]
BY DEF TypeOK

\* A handler that answers without a receipt is free of obligations.
LEMMA Answered ==
    ASSUME TypeOK, NEW r \in Requests, NEW code \in Answers \ {"receipt"},
           NEW kind \in Events \cup {None}, Answer(r, code, kind)
    PROVE  /\ req' \in [Requests -> Handler]
           /\ HandlerOK(r)'
           /\ req'[r].answer = code
           /\ req'[r].event \in {kind, None}
           /\ \A q \in Requests \ {r} : req'[q] = req[q]
<1>1. PICK recorded \in {None, kind} :
        req' = [req EXCEPT ![r] =
            [Idle EXCEPT !.pc = "done", !.entry = req[r].entry,
                         !.grants = req[r].grants,
                         !.receipt = IF code = "receipt" THEN req[r].receipt
                                     ELSE None,
                         !.answer = code, !.event = recorded]]
  BY DEF Answer
<1> DEFINE new == [Idle EXCEPT !.pc = "done", !.entry = req[r].entry,
                               !.grants = req[r].grants, !.receipt = None,
                               !.answer = code, !.event = recorded]
<1>2. req' = [req EXCEPT ![r] = new]
  BY <1>1
<1>3. /\ new \in Handler
      /\ new.pc = "done" /\ new.answer = code /\ new.event = recorded
      /\ new.seen = None /\ new.anchor = None
  BY DEF TypeOK, Handler, Idle
<1> HIDE DEF new
<1>4. req'[r] = new /\ req' \in [Requests -> Handler]
  BY <1>2, <1>3 DEF TypeOK
<1>5. HandlerOK(r)'
  BY <1>3, <1>4 DEF HandlerOK, Running, Signed
<1> QED BY <1>2, <1>3, <1>4, <1>5 DEF TypeOK

-----------------------------------------------------------------------------
\* The operators of the handler.

LEMMA NatMin ==
    ASSUME NEW S, S \subseteq Nat, S # {}
    PROVE  \E m \in S : \A k \in S : m <= k
<1> DEFINE Less == {ss \in Nat \X Nat : ss[1] < ss[2]}
<1>1. IsWellFoundedOn(Less, Nat)
  BY NatLessThanWellFounded, Zenon DEF OpToRel
<1> HIDE DEF Less
<1>2. PICK x \in S : \A y \in S : ~(<<y, x>> \in Less)
  BY <1>1, WFMin
<1>3. ASSUME NEW y \in S PROVE x <= y
  <2>1. <<y, x>> \notin Less
    BY <1>2
  <2>2. x \in Nat /\ y \in Nat
    OBVIOUS
  <2>3. ~(y < x)
    BY <2>1, <2>2 DEF Less
  <2> QED BY <2>2, <2>3
<1> QED BY <1>3

\* The registry walk always ends, at a head all of whose predecessors are
\* pinned.
LEMMA PinExists ==
    ASSUME NEW seq, NEW time
    PROVE  /\ Pin(seq, time) \in 0 .. Len(Heads)
           /\ Pinned(Pin(seq, time), seq, time)
<1> DEFINE Ends(v) == v < Len(Heads) /\ Pinned(v + 1, seq, time)
           S == {v \in 0 .. Len(Heads) : ~Ends(v)}
<1>1. S # {} /\ S \subseteq Nat
  <2>1. Len(Heads) \in S
    BY Manifests
  <2> QED BY <2>1, Manifests
<1>2. PICK m \in S : \A k \in S : m <= k
  <2> HIDE DEF S
  <2> QED BY <1>1, NatMin
<1>3. Pinned(m, seq, time)
  <2> SUFFICES ASSUME NEW w \in 1 .. m
               PROVE  Effective(w, seq) /\ Heads[w].notBefore <= time
    BY DEF Pinned
  <2>1. w - 1 \in 0 .. Len(Heads) /\ ~(m <= w - 1) /\ w - 1 + 1 = w
    BY Manifests
  <2>2. Ends(w - 1)
    BY <1>2, <2>1
  <2>3. Pinned(w, seq, time)
    BY <2>1, <2>2
  <2> QED BY <2>1, <2>3 DEF Pinned
<1> QED BY <1>2, <1>3 DEF Pin

LEMMA SelectedCovers ==
    ASSUME NEW e \in Entries, NEW time \in Times, NEW g,
           select_head(SeqOf[e], time) = "selected",
           validate_commit(e, Pin(SeqOf[e], time)) = "valid"
    PROVE  /\ Pin(SeqOf[e], time) \in Versions
           /\ Covered([entry |-> e, grants |-> g, accepted |-> time,
                       version |-> Pin(SeqOf[e], time)])
<1> DEFINE v == Pin(SeqOf[e], time)
<1>1. v \in 0 .. Len(Heads) /\ Pinned(v, SeqOf[e], time)
  BY PinExists
<1> HIDE DEF v
<1>2. Usable(v, SeqOf[e], time)
  BY DEF select_head, v
<1>3. v \in Versions
  BY <1>1, <1>2, Manifests DEF Usable, Versions
<1>4. Effective(v, SeqOf[e]) /\ Heads[v].notBefore <= time
  BY <1>1, <1>3 DEF Pinned, Versions
<1>5. WriterOf[e] = Heads[v].writer
  BY DEF validate_commit, v
<1> QED BY <1>2, <1>3, <1>4, <1>5 DEF Covered, Usable, Effective, v

\* The newest checkpoint is the one of the head row.
LEMMA CheckpointOfHead ==
    ASSUME TypeOK, OneChain
    PROVE  CheckpointHead = NextPrev(head)
<1>1. CASE head = None
  BY <1>1 DEF OneChain, CheckpointHead, NextPrev
<1>2. CASE head # None
  <2>1. /\ head.entry \in Committed /\ head.seq = SeqOf[head.entry]
        /\ \A f \in Committed : SeqOf[f] <= SeqOf[head.entry]
    BY <1>2 DEF OneChain
  <2>2. ASSUME NEW c \in Committed, \A f \in Committed : SeqOf[f] <= SeqOf[c]
        PROVE  c = head.entry
    <3>1. SeqOf[c] \in Nat /\ SeqOf[head.entry] \in Nat
      BY <2>1, Manifests DEF Committed
    <3>2. SeqOf[c] = SeqOf[head.entry]
      BY <2>1, <2>2, <3>1
    <3> QED BY <2>1, <2>2, <3>2 DEF OneChain
  <2>3. CheckpointHead = CHOOSE c \in Committed : \A f \in Committed : SeqOf[f] <= SeqOf[c]
    BY <2>1 DEF CheckpointHead
  <2>4. CheckpointHead = head.entry
    BY <2>1, <2>2, <2>3
  <2> QED BY <1>2, <2>4 DEF NextPrev
<1> QED BY <1>1, <1>2

LEMMA AcceptedAtTyped ==
    ASSUME TypeOK, NEW r \in Requests, req[r].now \in Times
    PROVE  accepted_at(r) \in Times
<1>1. req[r].seen \in HeadRow \cup {None}
  BY DEF TypeOK, Handler
<1> QED BY <1>1 DEF accepted_at, HeadRow

-----------------------------------------------------------------------------
\* The commit.

\* What a transaction appends: a new entry that extends the head, with a
\* checkpoint over the head's.
Appends(r) ==
    /\ req[r].pc \in Signed \ {"committed", "conflict"}
    /\ req[r].entry \notin Committed
    /\ Extends(r, head)
    /\ req[r].anchor = NextPrev(head)
    /\ Commit(r)

LEMMA CommitRows ==
    ASSUME ServerInv, NEW r \in Requests, Appends(r)
    PROVE  /\ req[r].entry \in Entries /\ req[r].receipt \in Receipt
           /\ req[r].receipt.entry = req[r].entry
           /\ head' = [seq |-> SeqOf[req[r].entry], entry |-> req[r].entry,
                       accepted |-> req[r].receipt.accepted]
           /\ head' \in HeadRow /\ head' # None
           /\ entries' \in [Entries -> Row \cup {None}]
           /\ entries'[req[r].entry].receipt = req[r].receipt
           /\ entries'[req[r].entry].anchor = req[r].anchor
           /\ \A e \in Entries \ {req[r].entry} : entries'[e] = entries[e]
           /\ Committed' = Committed \cup {req[r].entry}
<1>1. /\ HandlerOK(r) /\ req[r].pc \in Running /\ req[r].pc \in Signed
      /\ TypeOK /\ OneChain
  BY DEF ServerInv, ChainInv, Appends, Signed, Running
<1>2. /\ req[r].entry \in Entries /\ req[r].receipt \in Receipt
      /\ req[r].receipt.entry = req[r].entry
  BY <1>1 DEF HandlerOK
<1>3. /\ req[r].receipt.accepted \in Times /\ SeqOf[req[r].entry] \in Nat
      /\ req[r].anchor \in Entries \cup {None}
  BY <1>1, <1>2, Manifests DEF Receipt, HandlerOK, Committed
<1> DEFINE row == [receipt |-> req[r].receipt, anchor |-> req[r].anchor]
<1>4. row \in Row /\ row # None
  BY <1>2, <1>3, NoneIsNoRow DEF Row
<1>5. entries' = [entries EXCEPT ![req[r].entry] = row]
  BY DEF Appends, Commit
<1>6. head' = [seq |-> SeqOf[req[r].entry], entry |-> req[r].entry,
               accepted |-> req[r].receipt.accepted]
  BY DEF Appends, Commit
<1>7. head' \in HeadRow /\ head' # None
  BY <1>2, <1>3, <1>6, NoneIsNoRow DEF HeadRow
<1>8. /\ entries' \in [Entries -> Row \cup {None}]
      /\ entries'[req[r].entry] = row
      /\ \A e \in Entries \ {req[r].entry} : entries'[e] = entries[e]
  BY <1>1, <1>2, <1>4, <1>5 DEF TypeOK
<1>9. Committed' = Committed \cup {req[r].entry}
  BY <1>2, <1>4, <1>8 DEF Committed
<1> QED BY <1>2, <1>6, <1>7, <1>8, <1>9

LEMMA CommitKeepsChain ==
    ASSUME ServerInv, NEW r \in Requests, Appends(r)
    PROVE  ChainInv'
<1> DEFINE n == req[r].entry
<1>1. /\ n \in Entries /\ n \notin Committed /\ Committed \subseteq Entries
      /\ req[r].receipt.entry = n
      /\ head'.seq = SeqOf[n] /\ head'.entry = n /\ head' # None
      /\ head'.accepted = req[r].receipt.accepted
      /\ entries'[n].receipt = req[r].receipt
      /\ entries'[n].anchor = req[r].anchor
      /\ \A e \in Committed : entries'[e] = entries[e]
      /\ Committed' = Committed \cup {n}
      /\ req[r].receipt \in Receipt
  BY CommitRows DEF Appends, Committed
<1>2. /\ SeqOf[n] = NextSeq(head) /\ PrevOf[n] = NextPrev(head)
      /\ req[r].anchor = NextPrev(head)
      /\ head # None => req[r].receipt.accepted >= head.accepted
  BY DEF Appends, Extends
<1>3. /\ ChainInv /\ OneChain /\ TypeOK
      /\ Covered(req[r].receipt)
  BY DEF ServerInv, ChainInv, Appends, HandlerOK
<1>4. \A e \in Entries : SeqOf[e] \in Nat /\ PrevOf[e] \in Entries \cup {None}
  BY Manifests
<1>5. head # None => head.seq \in Nat /\ head.entry \in Committed
  BY <1>3 DEF TypeOK, HeadRow, OneChain
<1> HIDE DEF n
<1>6. OneChain'
  <2>1. \A e \in Committed : SeqOf[e] < SeqOf[n]
    BY <1>1, <1>2, <1>3, <1>4, <1>5 DEF OneChain, NextSeq
  <2>2. IF SeqOf[n] = 0 THEN PrevOf[n] = None
        ELSE PrevOf[n] \in Committed /\ SeqOf[PrevOf[n]] + 1 = SeqOf[n]
    <3>1. CASE head = None
      BY <1>2, <3>1 DEF NextSeq, NextPrev
    <3>2. CASE head # None
      BY <1>2, <1>3, <1>5, <3>2 DEF NextSeq, NextPrev, OneChain
    <3> QED BY <3>1, <3>2
  <2>3. \A e \in Committed :
          IF SeqOf[e] = 0 THEN PrevOf[e] = None
          ELSE PrevOf[e] \in Committed /\ SeqOf[PrevOf[e]] + 1 = SeqOf[e]
    BY <1>3 DEF OneChain
  <2>4. \A e, f \in Committed : SeqOf[f] = SeqOf[e] => f = e
    BY <1>3 DEF OneChain
  <2> QED BY <1>1, <1>4, <2>1, <2>2, <2>3, <2>4 DEF OneChain
<1>7. CheckpointsFollowChain'
  BY <1>1, <1>2, <1>3 DEF CheckpointsFollowChain, ChainInv
<1>8. AcceptedTimesMonotone'
  <2>1. ASSUME NEW e \in Committed, PrevOf[e] # None
        PROVE  PrevOf[e] \in Committed
    BY <1>3, <2>1 DEF OneChain
  <2>2. PrevOf[n] # None => head # None /\ PrevOf[n] = head.entry
    BY <1>2 DEF NextPrev
  <2> QED BY <1>1, <1>2, <1>3, <1>5, <2>1, <2>2 DEF AcceptedTimesMonotone, ChainInv
<1>9. \A k \in 0 .. head'.seq : \E e \in Committed' : SeqOf[e] = k
  <2> SUFFICES ASSUME NEW k \in 0 .. SeqOf[n], k # SeqOf[n]
               PROVE  \E e \in Committed : SeqOf[e] = k
    BY <1>1
  <2>1. head # None /\ k \in 0 .. head.seq
    BY <1>1, <1>2, <1>4, <1>5 DEF NextSeq
  <2> QED BY <1>3, <2>1 DEF ChainInv
<1>10. \A e \in Committed' : entries'[e].receipt.entry = e /\ Covered(entries'[e].receipt)
  BY <1>1, <1>3 DEF ChainInv
<1> QED BY <1>1, <1>6, <1>7, <1>8, <1>9, <1>10 DEF ChainInv, Covered

\* A commit does not disturb another handler, and leaves its own with the
\* stored receipt or with an answer that has none.
LEMMA CommitKeepsOthers ==
    ASSUME ServerInv, NEW r \in Requests, Appends(r), NEW q \in Requests \ {r},
           req'[q] = req[q]
    PROVE  HandlerOK(q)'
<1>1. /\ HandlerOK(q) /\ Committed \subseteq Committed'
      /\ \A e \in Committed : entries'[e] = entries[e]
      /\ head'.entry \notin Committed
  BY CommitRows DEF ServerInv, Appends, Committed
<1>2. req[q].seen # None => req'[q].seen # head'
  BY <1>1 DEF HandlerOK
<1>3. head' # None
  BY CommitRows
<1> QED BY <1>1, <1>2, <1>3 DEF HandlerOK, Covered

LEMMA CommitKeepsInv ==
    ASSUME ServerInv, NEW r \in Requests, Appends(r), UNCHANGED published
    PROVE  ServerInv'
<1>1. TypeOK /\ HandlerOK(r)
  BY DEF ServerInv
<1>2. Goto(r, "committed") \/ Answer(r, "unavailable", None)
  BY DEF Appends, Commit
<1>3. /\ req' \in [Requests -> Handler]
      /\ HandlerOK(r)'
      /\ \A q \in Requests \ {r} : req'[q] = req[q]
  <2>1. CASE Goto(r, "committed")
    <3>1. /\ req' \in [Requests -> Handler]
          /\ req'[r] = [req[r] EXCEPT !.pc = "committed"]
          /\ \A q \in Requests \ {r} : req'[q] = req[q]
      BY <1>1, <2>1 DEF Goto, TypeOK, Handler, Running
    <3>2. /\ req'[r].pc = "committed" /\ req'[r].entry = req[r].entry
          /\ req'[r].grants = req[r].grants /\ req'[r].receipt = req[r].receipt
          /\ req'[r].anchor = req[r].anchor /\ req'[r].seen = req[r].seen
          /\ req'[r].answer = req[r].answer
      BY <1>1, <3>1 DEF TypeOK, Handler
    <3>3. /\ req[r].entry \in Committed' /\ Committed \subseteq Committed'
          /\ entries'[req[r].entry].receipt = req[r].receipt
      BY CommitRows
    <3>4. /\ req[r].entry \in Entries /\ req[r].grants \in GrantSets
          /\ req[r].receipt \in Receipt /\ req[r].receipt.entry = req[r].entry
          /\ req[r].receipt.grants = req[r].grants /\ Covered(req[r].receipt)
          /\ req[r].answer = None
      BY <1>1 DEF HandlerOK, Appends, Signed, Running
    <3>5. HandlerOK(r)'
      BY <1>1, <3>2, <3>3, <3>4 DEF HandlerOK, Covered, Signed
    <3> QED BY <3>1, <3>5
  <2>2. CASE Answer(r, "unavailable", None)
    BY <1>1, <2>2, Answered DEF Answers
  <2> QED BY <1>2, <2>1, <2>2
<1>4. TypeOK'
  BY <1>1, <1>3, CommitRows DEF TypeOK
<1>5. \A q \in Requests : HandlerOK(q)'
  BY <1>3, CommitKeepsOthers
<1> QED BY <1>4, <1>5, CommitKeepsChain DEF ServerInv

-----------------------------------------------------------------------------
\* Every step.

\* A step of one handler that leaves the rows alone.
LEMMA HandlerStep ==
    ASSUME ServerInv, NEW r \in Requests, UNCHANGED <<head, entries, published>>,
           req' \in [Requests -> Handler], HandlerOK(r)',
           \A q \in Requests \ {r} : req'[q] = req[q]
    PROVE  ServerInv'
<1>1. ChainInv'
  BY RowsKept DEF ServerInv
<1>2. \A q \in Requests : HandlerOK(q)'
  BY OthersKept DEF ServerInv
<1> QED BY <1>1, <1>2 DEF ServerInv, TypeOK

LEMMA AnswerStep ==
    ASSUME ServerInv, NEW r \in Requests, NEW code \in Answers \ {"receipt"},
           NEW kind \in Events \cup {None}, Answer(r, code, kind),
           UNCHANGED <<head, entries, published>>
    PROVE  ServerInv'
BY Answered, HandlerStep DEF ServerInv

\* A handler that only moves on to a step which asks nothing new of it.
LEMMA GotoStep ==
    ASSUME ServerInv, NEW r \in Requests, req[r].pc \in Signed,
           NEW step \in {"unlocked", "lookedUp", "inserting", "conflict"},
           Goto(r, step),
           step \in {"lookedUp", "inserting"} =>
              SeqOf[req[r].entry] = 0 /\ PrevOf[req[r].entry] = None,
           step = "conflict" => req[r].entry \notin Committed,
           UNCHANGED <<head, entries, published>>
    PROVE  ServerInv'
<1>1. TypeOK /\ HandlerOK(r)
  BY DEF ServerInv
<1>2. /\ req' \in [Requests -> Handler]
      /\ req'[r] = [req[r] EXCEPT !.pc = step]
      /\ \A q \in Requests \ {r} : req'[q] = req[q]
  BY <1>1 DEF Goto, TypeOK, Handler, Running
<1>3. /\ req'[r].pc = step /\ req'[r].entry = req[r].entry
      /\ req'[r].grants = req[r].grants /\ req'[r].receipt = req[r].receipt
      /\ req'[r].anchor = req[r].anchor /\ req'[r].seen = req[r].seen
      /\ req'[r].answer = req[r].answer
  BY <1>1, <1>2 DEF TypeOK, Handler
<1>4. Committed' = Committed
  BY DEF Committed
<1>5. req[r].pc \in Running
  BY DEF Signed, Running
<1>6. HandlerOK(r)'
  BY <1>1, <1>3, <1>4, <1>5, NoneIsNoAnswer
     DEF HandlerOK, Covered, Signed, Running, Answers
<1> QED BY <1>2, <1>6, HandlerStep

\* Replay and Contradict: the entry is visible already.
LEMMA KnownEntryStep ==
    ASSUME ServerInv, NEW r \in Requests, req[r].pc \in Signed,
           Replay(r) \/ Contradict(r), UNCHANGED published
    PROVE  ServerInv'
<1>1. TypeOK /\ ChainInv /\ HandlerOK(r) /\ req[r].pc \in Running
  BY DEF ServerInv, Signed, Running
<1>2. CASE Contradict(r)
  BY <1>2, AnswerStep DEF Contradict, Answers, Events
<1>3. CASE Replay(r)
  <2> DEFINE stored == entries[req[r].entry].receipt
  <2>1. /\ req[r].entry \in Committed /\ stored.grants = req[r].grants
        /\ UNCHANGED <<head, entries>>
        /\ req' = [req EXCEPT ![r] = [@ EXCEPT !.pc = "committed",
                                               !.receipt = stored]]
    BY <1>3 DEF Replay, SameIdentity
  <2>2. stored \in Receipt /\ stored.entry = req[r].entry /\ Covered(stored)
    BY <1>1, <2>1 DEF TypeOK, Row, Committed, ChainInv
  <2> HIDE DEF stored
  <2> DEFINE new == [req[r] EXCEPT !.pc = "committed", !.receipt = stored]
  <2>3. /\ new \in Handler
        /\ new.pc = "committed" /\ new.entry = req[r].entry
        /\ new.grants = req[r].grants /\ new.receipt = stored
        /\ new.anchor = req[r].anchor /\ new.seen = req[r].seen
        /\ new.answer = req[r].answer
    BY <1>1, <2>2 DEF TypeOK, Handler, Running
  <2>4. req' = [req EXCEPT ![r] = new]
    BY <2>1
  <2> HIDE DEF new
  <2>7. /\ req' \in [Requests -> Handler] /\ req'[r] = new
        /\ \A q \in Requests \ {r} : req'[q] = req[q]
    BY <1>1, <2>3, <2>4, Updated
  <2>5. Committed' = Committed /\ entries'[req[r].entry].receipt = stored
    BY <2>1 DEF Committed, stored
  <2>6. HandlerOK(r)'
    BY <1>1, <2>1, <2>2, <2>3, <2>5, <2>7 DEF HandlerOK, Covered, Signed, Running
  <2> QED BY <2>1, <2>6, <2>7, HandlerStep
<1> QED BY <1>2, <1>3

LEMMA ReceiveStep ==
    ASSUME ServerInv, NEW r \in Requests, NEW e \in Entries, NEW g \in GrantSets,
           NEW now \in Times, Receive(r, e, g, now)
    PROVE  ServerInv'
<1> DEFINE new == [Idle EXCEPT !.pc = "received", !.entry = e, !.grants = g,
                               !.now = now]
<1>1. /\ new \in Handler /\ new.pc = "received" /\ new.entry = e
      /\ new.grants = g /\ new.now = now /\ new.answer = None
      /\ new.anchor = None /\ new.seen = None
  BY DEF Idle, Handler, Running
<1>2. req' = [req EXCEPT ![r] = new] /\ UNCHANGED <<head, entries, published>>
  BY DEF Receive
<1> HIDE DEF new
<1>3. /\ req' \in [Requests -> Handler] /\ req'[r] = new
      /\ \A q \in Requests \ {r} : req'[q] = req[q]
  BY <1>1, <1>2 DEF ServerInv, TypeOK
<1>4. HandlerOK(r)'
  BY <1>1, <1>3, NoneIsNoAnswer DEF HandlerOK, Signed, Answers
<1> QED BY <1>2, <1>3, <1>4, HandlerStep

LEMMA ReadHeadStep ==
    ASSUME ServerInv, NEW r \in Requests, ReadHead(r)
    PROVE  ServerInv'
<1>1. TypeOK /\ ChainInv /\ HandlerOK(r)
  BY DEF ServerInv
<1> DEFINE new == [req[r] EXCEPT !.pc = "headRead", !.seen = head]
<1>2. /\ req' = [req EXCEPT ![r] = new]
      /\ UNCHANGED <<head, entries, published>>
      /\ req[r].pc = "received"
  BY DEF ReadHead
<1>3. /\ new \in Handler
      /\ new.pc = "headRead" /\ new.seen = head
      /\ new.entry = req[r].entry /\ new.grants = req[r].grants
      /\ new.now = req[r].now /\ new.anchor = req[r].anchor
      /\ new.answer = req[r].answer
  <2>1. req[r] \in Handler /\ head \in HeadRow \cup {None}
    BY <1>1 DEF TypeOK
  <2>2. new.pc = "headRead" /\ new.seen = head
    BY <2>1 DEF Handler
  <2>3. /\ new.entry = req[r].entry /\ new.grants = req[r].grants
        /\ new.now = req[r].now /\ new.anchor = req[r].anchor
        /\ new.answer = req[r].answer
    BY <2>1 DEF Handler
  <2>4. new \in Handler
    BY <2>1 DEF Handler, Running
  <2> QED BY <2>2, <2>3, <2>4
<1> HIDE DEF new
<1>4. /\ req' \in [Requests -> Handler] /\ req'[r] = new
      /\ \A q \in Requests \ {r} : req'[q] = req[q]
  BY <1>1, <1>2, <1>3, Updated
<1>5. head # None => head.entry \in Committed'
  BY <1>1, <1>2 DEF ChainInv, OneChain, Committed
<1>6. HandlerOK(r)'
  BY <1>1, <1>2, <1>3, <1>5, <1>4, NoneIsNoAnswer
     DEF HandlerOK, Signed, Running, Answers, Committed
<1> QED BY <1>2, <1>6, <1>4, HandlerStep

LEMMA AdmitStep ==
    ASSUME ServerInv, NEW r \in Requests, Admit(r)
    PROVE  ServerInv'
<1>1. /\ TypeOK /\ HandlerOK(r) /\ req[r].pc = "headRead"
      /\ UNCHANGED <<head, entries, published>>
  BY DEF ServerInv, Admit
<1> DEFINE e == req[r].entry
           time == accepted_at(r)
           v == Pin(SeqOf[e], time)
           choice == select_head(SeqOf[e], time)
           verdict == validate_commit(e, v)
           receipt == [entry |-> e, grants |-> req[r].grants,
                       accepted |-> time, version |-> v]
<1>2. e \in Entries /\ req[r].grants \in GrantSets /\ time \in Times
  BY <1>1, AcceptedAtTyped DEF HandlerOK, Running
<1>3. CASE choice # "selected" /\ Answer(r, choice, None)
  <2>1. choice \in {"headRequired", "noHead"}
    BY <1>3 DEF select_head
  <2> HIDE DEF choice
  <2> QED BY <1>1, <1>3, <2>1, AnswerStep DEF Answers
<1>4. CASE verdict # "valid"
           /\ Answer(r, verdict, IF verdict = "writer" THEN "WriterUnauthorized"
                                 ELSE None)
  <2>1. verdict \in {"writer", "headRequired", "registry"}
    BY <1>4 DEF validate_commit
  <2> HIDE DEF verdict
  <2> QED BY <1>1, <1>4, <2>1, AnswerStep DEF Answers, Events
<1>5. CASE /\ choice = "selected" /\ verdict = "valid"
           /\ req' = [req EXCEPT ![r] = [@ EXCEPT !.pc = "stored",
                                       !.now = None, !.receipt = receipt]]
  <2>1. v \in Versions /\ Covered(receipt)
    BY <1>2, <1>5, SelectedCovers
  <2>2. /\ receipt \in Receipt /\ receipt.entry = e
        /\ receipt.grants = req[r].grants
    BY <1>2, <2>1 DEF Receipt
  <2> HIDE DEF receipt
  <2> DEFINE new == [req[r] EXCEPT !.pc = "stored", !.now = None,
                                   !.receipt = receipt]
  <2>3. /\ new \in Handler
        /\ new.pc = "stored" /\ new.entry = req[r].entry
        /\ new.grants = req[r].grants /\ new.receipt = receipt
        /\ new.anchor = req[r].anchor /\ new.seen = req[r].seen
        /\ new.answer = req[r].answer
    BY <1>1, <2>2 DEF TypeOK, Handler, Running
  <2>4. req' = [req EXCEPT ![r] = new]
    BY <1>5
  <2> HIDE DEF new
  <2>7. /\ req' \in [Requests -> Handler] /\ req'[r] = new
        /\ \A q \in Requests \ {r} : req'[q] = req[q]
    BY <1>1, <2>3, <2>4, Updated
  <2>5. Committed' = Committed
    BY <1>1 DEF Committed
  <2>6. HandlerOK(r)'
    BY <1>1, <1>2, <2>1, <2>2, <2>3, <2>5, <2>7, NoneIsNoAnswer
       DEF HandlerOK, Covered, Signed, Running, Answers
  <2> QED BY <1>1, <2>6, <2>7, HandlerStep
<1> QED BY <1>3, <1>4, <1>5 DEF Admit

LEMMA ReadCheckpointStep ==
    ASSUME ServerInv, NEW r \in Requests, ReadCheckpointHead(r)
    PROVE  ServerInv'
<1>1. /\ TypeOK /\ ChainInv /\ HandlerOK(r) /\ req[r].pc = "stored"
      /\ UNCHANGED <<head, entries, published>>
  BY DEF ServerInv, ReadCheckpointHead
<1>2. CheckpointHead \in Committed \cup {None} /\ Committed \subseteq Entries
  BY <1>1, CheckpointOfHead DEF ChainInv, OneChain, NextPrev, Committed
<1> DEFINE new == [req[r] EXCEPT !.pc = "ready", !.anchor = CheckpointHead]
<1>3. /\ new \in Handler
      /\ new.pc = "ready" /\ new.entry = req[r].entry
      /\ new.grants = req[r].grants /\ new.receipt = req[r].receipt
      /\ new.anchor = CheckpointHead /\ new.seen = req[r].seen
      /\ new.answer = req[r].answer
  BY <1>1, <1>2 DEF TypeOK, Handler, Running
<1>4. req' = [req EXCEPT ![r] = new]
  BY DEF ReadCheckpointHead
<1> HIDE DEF new
<1>5. /\ req' \in [Requests -> Handler] /\ req'[r] = new
      /\ \A q \in Requests \ {r} : req'[q] = req[q]
  BY <1>1, <1>3, <1>4, Updated
<1>6. Committed' = Committed
  BY <1>1 DEF Committed
<1>7. HandlerOK(r)'
  BY <1>1, <1>2, <1>3, <1>6, <1>5, NoneIsNoAnswer
     DEF HandlerOK, Covered, Signed, Running, Answers
<1> QED BY <1>1, <1>7, <1>5, HandlerStep

\* The transaction with a head row to lock.
LEMMA CommitLockedStep ==
    ASSUME ServerInv, NEW r \in Requests, CommitLockedHead(r)
    PROVE  Appends(r) \/ (UNCHANGED <<head, entries>> /\ ServerInv')
<1>1. /\ TypeOK /\ ChainInv /\ req[r].pc = "ready" /\ req[r].pc \in Signed
      /\ head # None /\ UNCHANGED published
  BY DEF ServerInv, CommitLockedHead, Signed
<1>2. CASE Replay(r) \/ Contradict(r)
  BY <1>1, <1>2, KnownEntryStep DEF Replay, Contradict
<1>3. CASE LoseHead(r, head)
  BY <1>1, <1>3, GotoStep DEF LoseHead
<1>4. CASE LoseAnchor(r)
  BY <1>1, <1>4, AnswerStep DEF LoseAnchor, Answers, Events
<1>5. CASE /\ req[r].entry \notin Committed /\ Extends(r, head)
           /\ ~AnchorMoved(r) /\ Commit(r)
  BY <1>1, <1>5, CheckpointOfHead DEF AnchorMoved, Appends, ChainInv, Signed
<1> QED BY <1>2, <1>3, <1>4, <1>5 DEF CommitLockedHead

\* The transaction of a first commit, statement by statement.
LEMMA FirstCommitStep ==
    ASSUME ServerInv, NEW r \in Requests,
           \/ LockMisses(r) \/ LookUpIdentity(r) \/ CompareCheckpointHead(r)
           \/ InsertFirst(r)
    PROVE  Appends(r) \/ (UNCHANGED <<head, entries>> /\ ServerInv')
<1>1. TypeOK /\ ChainInv /\ HandlerOK(r)
  BY DEF ServerInv
<1>2. CASE LockMisses(r)
  BY <1>2, GotoStep DEF LockMisses, Signed
<1>3. CASE LookUpIdentity(r)
  <2>1. req[r].pc \in Signed /\ UNCHANGED published
    BY <1>3 DEF LookUpIdentity, Signed
  <2>2. CASE Replay(r) \/ Contradict(r)
    BY <2>1, <2>2, KnownEntryStep DEF Replay, Contradict
  <2>3. CASE LoseHead(r, None)
    BY <2>1, <2>3, GotoStep DEF LoseHead
  <2>4. CASE Extends(r, None) /\ Goto(r, "lookedUp") /\ UNCHANGED <<head, entries>>
    BY <2>1, <2>4, GotoStep DEF Extends, NextSeq, NextPrev
  <2> QED BY <1>3, <2>2, <2>3, <2>4 DEF LookUpIdentity
<1>4. CASE CompareCheckpointHead(r)
  <2>1. /\ req[r].pc \in Signed /\ UNCHANGED published
        /\ SeqOf[req[r].entry] = 0 /\ PrevOf[req[r].entry] = None
    BY <1>1, <1>4 DEF CompareCheckpointHead, Signed, HandlerOK
  <2>2. CASE LoseAnchor(r)
    BY <2>1, <2>2, AnswerStep DEF LoseAnchor, Answers, Events
  <2>3. CASE Goto(r, "inserting") /\ UNCHANGED <<head, entries>>
    BY <2>1, <2>3, GotoStep
  <2> QED BY <1>4, <2>2, <2>3 DEF CompareCheckpointHead
<1>5. CASE InsertFirst(r)
  <2>1. /\ req[r].pc = "inserting" /\ req[r].pc \in Signed /\ UNCHANGED published
        /\ SeqOf[req[r].entry] = 0 /\ PrevOf[req[r].entry] = None
    BY <1>1, <1>5 DEF InsertFirst, Signed, HandlerOK
  <2>2. CASE Answer(r, "identity", "EntryIdentityMismatch") /\ UNCHANGED <<head, entries>>
    BY <2>1, <2>2, AnswerStep DEF Answers, Events
  <2>3. CASE /\ req[r].entry \notin Committed /\ Goto(r, "conflict")
             /\ UNCHANGED <<head, entries>>
    BY <2>1, <2>3, GotoStep
  <2>4. CASE req[r].entry \notin Committed /\ ~SequenceTaken(r) /\ Commit(r)
    \* No visible entry has sequence 0, so there is none at all.
    <3>1. head = None
      <4> SUFFICES ASSUME head # None PROVE FALSE
        OBVIOUS
      <4>1. head.seq \in Nat
        BY <1>1 DEF TypeOK, HeadRow
      <4>2. \E e \in Committed : SeqOf[e] = 0
        BY <1>1, <4>1 DEF ChainInv
      <4> QED BY <2>1, <2>4, <4>2 DEF SequenceTaken
    <3>2. req[r].anchor = None
      BY <1>1, <3>1 DEF HandlerOK, ChainInv, OneChain
    <3> QED BY <2>1, <2>4, <3>1, <3>2 DEF Appends, Extends, NextSeq, NextPrev, Signed
  <2> QED BY <1>5, <2>2, <2>3, <2>4 DEF InsertFirst
<1> QED BY <1>2, <1>3, <1>4, <1>5

LEMMA ClassifyStep ==
    ASSUME ServerInv, NEW r \in Requests, ClassifyHeadConflict(r)
    PROVE  ServerInv'
BY AnswerStep DEF ClassifyHeadConflict, Answers, Events

LEMMA DeliverStep ==
    ASSUME ServerInv, NEW r \in Requests, Deliver(r)
    PROVE  ServerInv' /\ req'[r].event = None
<1>1. /\ TypeOK /\ HandlerOK(r) /\ req[r].pc = "committed"
      /\ UNCHANGED <<head, entries, published>>
  BY DEF ServerInv, Deliver
<1> DEFINE new == [Idle EXCEPT !.pc = "done", !.entry = req[r].entry,
                               !.grants = req[r].grants,
                               !.receipt = req[r].receipt,
                               !.answer = "receipt", !.event = None]
<1>2. req' = [req EXCEPT ![r] = new]
  BY DEF Deliver, Answer
<1>3. /\ new \in Handler /\ new.pc = "done" /\ new.entry = req[r].entry
      /\ new.grants = req[r].grants /\ new.receipt = req[r].receipt
      /\ new.answer = "receipt" /\ new.event = None
      /\ new.seen = None /\ new.anchor = None
  BY <1>1 DEF TypeOK, Handler, Idle, Answers
<1> HIDE DEF new
<1>4. /\ req' \in [Requests -> Handler] /\ req'[r] = new
      /\ \A q \in Requests \ {r} : req'[q] = req[q]
  BY <1>1, <1>2, <1>3, Updated
<1>5. HandlerOK(r)'
  BY <1>1, <1>3, <1>4 DEF HandlerOK, Running, Signed, Committed
<1> QED BY <1>1, <1>3, <1>4, <1>5, HandlerStep

LEMMA ResetStep ==
    ASSUME ServerInv, UNCHANGED <<head, entries, published>>,
           NEW R \in SUBSET Requests,
           req' = [r \in Requests |-> IF r \in R THEN Idle ELSE req[r]]
    PROVE  ServerInv'
<1>1. /\ Idle \in Handler /\ Idle.pc = "idle" /\ Idle.answer = None
      /\ Idle.anchor = None /\ Idle.seen = None
  BY DEF Idle, Handler
<1>2. TypeOK'
  BY <1>1 DEF ServerInv, TypeOK
<1>3. ASSUME NEW r \in Requests PROVE HandlerOK(r)'
  <2>1. CASE r \in R
    BY <1>1, <2>1, NoneIsNoAnswer DEF HandlerOK, Running, Signed, Answers
  <2>2. CASE r \notin R
    BY <2>2, OthersKept DEF ServerInv
  <2> QED BY <2>1, <2>2
<1> QED BY <1>2, <1>3, RowsKept DEF ServerInv

\* Every step keeps the invariant, and either appends an entry or leaves
\* the rows alone.
LEMMA ServerInvNext ==
    ASSUME ServerInv, [Next]_vars
    PROVE  /\ ServerInv'
           /\ UNCHANGED <<head, entries>> \/ \E r \in Requests : Appends(r)
<1>1. CASE UNCHANGED vars
  BY <1>1, RowsKept, OthersKept DEF vars, ServerInv, TypeOK
<1>2. ASSUME NEW r \in Requests, NEW e \in Entries, NEW g \in GrantSets,
             NEW now \in Times, Receive(r, e, g, now)
      PROVE  ServerInv' /\ UNCHANGED <<head, entries>>
  BY <1>2, ReceiveStep DEF Receive
<1>3. ASSUME NEW r \in Requests, Step(r)
      PROVE  ServerInv' /\ (UNCHANGED <<head, entries>> \/ Appends(r))
  <2>1. CASE ReadHead(r)
    BY <2>1, ReadHeadStep DEF ReadHead
  <2>2. CASE Admit(r)
    BY <2>2, AdmitStep DEF Admit
  <2>3. CASE ReadCheckpointHead(r)
    BY <2>3, ReadCheckpointStep DEF ReadCheckpointHead
  <2>4. CASE CommitLockedHead(r)
    BY <2>4, CommitLockedStep, CommitKeepsInv DEF CommitLockedHead
  <2>5. CASE \/ LockMisses(r) \/ LookUpIdentity(r) \/ CompareCheckpointHead(r)
             \/ InsertFirst(r)
    BY <2>5, FirstCommitStep, CommitKeepsInv
       DEF LockMisses, LookUpIdentity, CompareCheckpointHead, InsertFirst
  <2>6. CASE ClassifyHeadConflict(r)
    BY <2>6, ClassifyStep DEF ClassifyHeadConflict
  <2>7. CASE Deliver(r)
    BY <2>7, DeliverStep DEF Deliver
  <2>8. CASE Unavailable(r)
    BY <2>8, AnswerStep DEF Unavailable, Answers
  <2> QED BY <1>3, <2>1, <2>2, <2>3, <2>4, <2>5, <2>6, <2>7, <2>8 DEF Step
<1>4. ASSUME NEW r \in Requests, Close(r)
      PROVE  ServerInv' /\ UNCHANGED <<head, entries>>
  <2>1. req' = [q \in Requests |-> IF q \in {r} THEN Idle ELSE req[q]]
    BY <1>4 DEF Close, ServerInv, TypeOK
  <2> QED BY <1>4, <2>1, ResetStep DEF Close
<1>5. CASE Crash
  <2>1. req' = [q \in Requests |-> IF q \in Requests THEN Idle ELSE req[q]]
    BY <1>5 DEF Crash
  <2> QED BY <1>5, <2>1, ResetStep DEF Crash
<1>6. CASE PublishHead
  BY <1>6, RowsKept, OthersKept DEF PublishHead, ServerInv, TypeOK
<1> QED BY <1>1, <1>2, <1>3, <1>4, <1>5, <1>6 DEF Next

-----------------------------------------------------------------------------
\* Security events.

Forks == {"SequenceFork", "PredecessorMismatch"}
\* A handler has no event before it answers.
EventInv == \A r \in Requests : req[r].pc # "done" => req[r].event = None

\* The event of a handler's step: none is lost or made up before the answer,
\* and only the classification of a head conflict speaks of a fork.
EventStep(r) ==
    /\ \A q \in Requests \ {r} : req'[q] = req[q]
    /\ req'[r].pc # "done" => req'[r].event = req[r].event
    /\ req'[r].event \in Forks =>
         req'[r].event = req[r].event \/ ClassifyHeadConflict(r)

LEMMA AnswerEvent ==
    ASSUME TypeOK, NEW r \in Requests, NEW code, NEW kind, Answer(r, code, kind)
    PROVE  /\ \A q \in Requests \ {r} : req'[q] = req[q]
           /\ req'[r].pc = "done" /\ req'[r].event \in {kind, None}
<1>1. PICK recorded \in {None, kind} :
        req' = [req EXCEPT ![r] =
            [Idle EXCEPT !.pc = "done", !.entry = req[r].entry,
                         !.grants = req[r].grants,
                         !.receipt = IF code = "receipt" THEN req[r].receipt
                                     ELSE None,
                         !.answer = code, !.event = recorded]]
  BY DEF Answer
<1> DEFINE new == [Idle EXCEPT !.pc = "done", !.entry = req[r].entry,
                         !.grants = req[r].grants,
                         !.receipt = IF code = "receipt" THEN req[r].receipt
                                     ELSE None,
                         !.answer = code, !.event = recorded]
<1>2. req' = [req EXCEPT ![r] = new]
  BY <1>1
<1>3. new.pc = "done" /\ new.event = recorded
  BY DEF Idle
<1> HIDE DEF new
<1> QED BY <1>2, <1>3 DEF TypeOK

LEMMA OtherAnswer ==
    ASSUME TypeOK, NEW r \in Requests, NEW code,
           NEW kind \in (Events \ Forks) \cup {None}, Answer(r, code, kind)
    PROVE  EventStep(r)
BY AnswerEvent, NoneIsNoAnswer DEF EventStep, Forks, Events

LEMMA MoveEvent ==
    ASSUME TypeOK, NEW r \in Requests, NEW new, new.event = req[r].event,
           req' = [req EXCEPT ![r] = new]
    PROVE  EventStep(r)
BY DEF EventStep, TypeOK

LEMMA GotoEvent ==
    ASSUME TypeOK, NEW r \in Requests, NEW step, Goto(r, step)
    PROVE  EventStep(r)
<1> DEFINE new == [req[r] EXCEPT !.pc = step]
<1>1. req' = [req EXCEPT ![r] = new]
  BY DEF Goto
<1>2. new.event = req[r].event
  BY DEF TypeOK, Handler
<1> HIDE DEF new
<1> QED BY <1>1, <1>2, MoveEvent

LEMMA KnownEntryEvent ==
    ASSUME TypeOK, NEW r \in Requests, Replay(r) \/ Contradict(r)
    PROVE  EventStep(r)
<1>1. CASE Replay(r)
  <2> DEFINE new == [req[r] EXCEPT !.pc = "committed",
                           !.receipt = entries[req[r].entry].receipt]
  <2>1. req' = [req EXCEPT ![r] = new]
    BY <1>1 DEF Replay
  <2>2. new.event = req[r].event
    BY DEF TypeOK, Handler
  <2> HIDE DEF new
  <2> QED BY <2>1, <2>2, MoveEvent
<1>2. CASE Contradict(r)
  BY <1>2, OtherAnswer DEF Contradict, Events, Forks
<1> QED BY <1>1, <1>2

LEMMA AdmitEvent ==
    ASSUME TypeOK, NEW r \in Requests, Admit(r)
    PROVE  EventStep(r)
<1> DEFINE time == accepted_at(r)
           v == Pin(SeqOf[req[r].entry], time)
           receipt == [entry |-> req[r].entry, grants |-> req[r].grants,
                       accepted |-> time, version |-> v]
           new == [req[r] EXCEPT !.pc = "stored", !.now = None,
                                 !.receipt = receipt]
           verdict == validate_commit(req[r].entry, v)
<1>1. \/ Answer(r, select_head(SeqOf[req[r].entry], time), None)
      \/ Answer(r, verdict, IF verdict = "writer"
                            THEN "WriterUnauthorized" ELSE None)
      \/ req' = [req EXCEPT ![r] = new]
  BY DEF Admit
<1>2. new.event = req[r].event
  BY DEF TypeOK, Handler
<1> HIDE DEF time, v, receipt, new, verdict
<1> QED BY <1>1, <1>2, OtherAnswer, MoveEvent DEF Events, Forks

LEMMA StepEvent ==
    ASSUME TypeOK, NEW r \in Requests, Step(r)
    PROVE  EventStep(r) /\ req[r].pc # "done"
<1>1. req[r].pc # "done"
  BY DEF Step, ReadHead, Admit, ReadCheckpointHead, CommitLockedHead, LockMisses,
         LookUpIdentity, CompareCheckpointHead, InsertFirst,
         ClassifyHeadConflict, Deliver, Unavailable, Running
<1>2. CASE ReadHead(r)
  <2> DEFINE new == [req[r] EXCEPT !.pc = "headRead", !.seen = head]
  <2>1. req' = [req EXCEPT ![r] = new]
    BY <1>2 DEF ReadHead
  <2>2. new.event = req[r].event
    BY DEF TypeOK, Handler
  <2> HIDE DEF new
  <2> QED BY <1>1, <2>1, <2>2, MoveEvent
<1>3. CASE Admit(r)
  BY <1>1, <1>3, AdmitEvent
<1>4. CASE ReadCheckpointHead(r)
  <2> DEFINE new == [req[r] EXCEPT !.pc = "ready", !.anchor = CheckpointHead]
  <2>1. req' = [req EXCEPT ![r] = new]
    BY <1>4 DEF ReadCheckpointHead
  <2>2. new.event = req[r].event
    BY DEF TypeOK, Handler
  <2> HIDE DEF new
  <2> QED BY <1>1, <2>1, <2>2, MoveEvent
<1>5. CASE \/ CommitLockedHead(r) \/ LockMisses(r) \/ LookUpIdentity(r)
           \/ CompareCheckpointHead(r) \/ InsertFirst(r)
  <2>1. \/ Replay(r) \/ Contradict(r)
        \/ \E step \in Running : Goto(r, step)
        \/ Answer(r, "anchor", "CheckpointPredecessorConflict")
        \/ Answer(r, "identity", "EntryIdentityMismatch")
        \/ Answer(r, "unavailable", None)
    BY <1>5 DEF CommitLockedHead, LockMisses, LookUpIdentity,
                CompareCheckpointHead, InsertFirst, LoseHead, LoseAnchor, Commit,
                Running
  <2> QED BY <1>1, <2>1, KnownEntryEvent, GotoEvent, OtherAnswer DEF Events, Forks
<1>6. CASE ClassifyHeadConflict(r)
  <2>1. \E code, kind : Answer(r, code, kind)
    BY <1>6 DEF ClassifyHeadConflict
  <2> QED BY <1>1, <1>6, <2>1, AnswerEvent DEF EventStep
<1>7. CASE Deliver(r) \/ Unavailable(r)
  BY <1>1, <1>7, OtherAnswer DEF Deliver, Unavailable
<1> QED BY <1>2, <1>3, <1>4, <1>5, <1>6, <1>7 DEF Step

\* Every step: no event appears before an answer, and a fork accusation is
\* the classification of a conflict.
LEMMA NextEvent ==
    ASSUME TypeOK, EventInv, [Next]_vars
    PROVE  /\ EventInv'
           /\ \A r \in Requests :
                req'[r] # req[r] /\ req'[r].event \in Forks =>
                    ClassifyHeadConflict(r)
<1>1. CASE UNCHANGED vars \/ PublishHead
  BY <1>1 DEF vars, PublishHead, EventInv
<1>2. ASSUME NEW r \in Requests, Step(r)
      PROVE  /\ EventInv'
             /\ \A q \in Requests :
                  req'[q] # req[q] /\ req'[q].event \in Forks =>
                      ClassifyHeadConflict(q)
  <2>1. EventStep(r) /\ req[r].event = None
    BY <1>2, StepEvent DEF EventInv
  <2>2. None \notin Forks
    BY NoneIsNoAnswer DEF Events, Forks
  <2>3. EventInv'
    BY <2>1 DEF EventInv, EventStep
  <2> QED BY <2>1, <2>2, <2>3 DEF EventStep
<1>3. ASSUME NEW r \in Requests, NEW new, req' = [req EXCEPT ![r] = new],
             new.event = None
      PROVE  /\ EventInv'
             /\ \A q \in Requests : req'[q] # req[q] => req'[q].event = None
  BY <1>3 DEF TypeOK, EventInv
<1>4. Idle.event = None /\ None \notin Forks
  BY NoneIsNoAnswer DEF Idle, Events, Forks
<1>5. CASE \E r \in Requests, e \in Entries, g \in GrantSets, now \in Times :
             Receive(r, e, g, now)
  <2>1. PICK r \in Requests, e \in Entries, g \in GrantSets, now \in Times :
          Receive(r, e, g, now)
    BY <1>5
  <2> DEFINE new == [Idle EXCEPT !.pc = "received", !.entry = e, !.grants = g,
                                 !.now = now]
  <2>2. req' = [req EXCEPT ![r] = new] /\ new.event = None
    BY <2>1 DEF Receive, Idle
  <2> HIDE DEF new
  <2> QED BY <2>2, <1>3, <1>4
<1>6. CASE \E r \in Requests : Close(r)
  BY <1>6, <1>3, <1>4 DEF Close
<1>7. CASE Crash
  BY <1>7, <1>4 DEF Crash, EventInv
<1> QED BY <1>1, <1>2, <1>5, <1>6, <1>7 DEF Next

-----------------------------------------------------------------------------
\* The abstract chain.

EntryAt(i) == CHOOSE e \in Committed : SeqOf[e] = i - 1

\* Each place up to the head is taken by one visible entry.
LEMMA EntryAtIs ==
    ASSUME TypeOK, ChainInv
    PROVE  /\ NextSeq(head) \in Nat
           /\ \A i \in 1 .. NextSeq(head) :
                /\ EntryAt(i) \in Committed /\ SeqOf[EntryAt(i)] = i - 1
                /\ \A e \in Committed : SeqOf[e] = i - 1 => e = EntryAt(i)
<1>1. NextSeq(head) \in Nat /\ (head # None => head.seq \in Nat)
  BY DEF TypeOK, HeadRow, NextSeq
<1>2. ASSUME NEW i \in 1 .. NextSeq(head)
      PROVE  \E e \in Committed : SeqOf[e] = i - 1
  <2>1. head # None /\ i - 1 \in 0 .. head.seq
    BY <1>1, <1>2 DEF NextSeq
  <2> QED BY <2>1 DEF ChainInv
<1>3. \A e, f \in Committed : SeqOf[f] = SeqOf[e] => f = e
  BY DEF ChainInv, OneChain
<1>4. ASSUME NEW i \in 1 .. NextSeq(head)
      PROVE  EntryAt(i) \in Committed /\ SeqOf[EntryAt(i)] = i - 1
  BY <1>2 DEF EntryAt
<1> QED BY <1>1, <1>3, <1>4

\* The abstract chain, place by place, and where it ends.
Mirrors ==
    /\ NextSeq(head) \in Nat
    /\ \A i \in 1 .. NextSeq(head) :
         /\ EntryAt(i) \in Committed /\ SeqOf[EntryAt(i)] = i - 1
         /\ \A e \in Committed : SeqOf[e] = i - 1 => e = EntryAt(i)
         /\ ChainSoFar[i] = entries[EntryAt(i)].receipt
    /\ ChainSoFar \in Seq(Receipt)
    /\ Len(ChainSoFar) = NextSeq(head)
    /\ Chain!LastEntry = NextPrev(head)
    /\ ChainSoFar # <<>> =>
         /\ head # None
         /\ ChainSoFar[Len(ChainSoFar)].accepted = head.accepted

LEMMA ChainSoFarIs == ServerInv => Mirrors
<1> SUFFICES ASSUME TypeOK, ChainInv PROVE Mirrors
  BY DEF ServerInv
<1> DEFINE n == NextSeq(head)
<1>1. /\ n \in Nat
      /\ \A i \in 1 .. n :
           /\ EntryAt(i) \in Committed /\ SeqOf[EntryAt(i)] = i - 1
           /\ \A e \in Committed : SeqOf[e] = i - 1 => e = EntryAt(i)
  BY EntryAtIs
<1>2. \A e \in Committed : entries[e].receipt \in Receipt
  BY DEF TypeOK, Committed, Row
<1>3. ChainSoFar = [i \in 1 .. n |-> entries[EntryAt(i)].receipt]
  BY DEF ChainSoFar, EntryAt
<1> HIDE DEF n
<1>4. /\ ChainSoFar \in [1 .. n -> Receipt]
      /\ \A i \in 1 .. n : ChainSoFar[i] = entries[EntryAt(i)].receipt
  BY <1>1, <1>2, <1>3
<1>5. ChainSoFar \in Seq(Receipt) /\ Len(ChainSoFar) = n
  BY <1>1, <1>4
<1>6. ChainSoFar = <<>> <=> n = 0
  BY <1>5, EmptySeq
<1>7. CASE head = None
  <2>1. n = 0
    BY <1>7 DEF n, NextSeq
  <2> QED BY <1>1, <1>4, <1>5, <1>6, <1>7, <2>1 DEF n, Mirrors, Chain!LastEntry, NextPrev
<1>8. CASE head # None
  <2>1. /\ n = head.seq + 1 /\ head.seq \in Nat
        /\ head.entry \in Committed /\ SeqOf[head.entry] = head.seq
        /\ entries[head.entry].receipt.entry = head.entry
        /\ entries[head.entry].receipt.accepted = head.accepted
    BY <1>8 DEF n, NextSeq, TypeOK, HeadRow, ChainInv, OneChain
  <2>2. n \in 1 .. n /\ n # 0 /\ SeqOf[head.entry] = n - 1
    BY <2>1
  <2>3. head.entry = EntryAt(n)
    BY <1>1, <2>1, <2>2
  <2>4. ChainSoFar[Len(ChainSoFar)] = entries[head.entry].receipt
    BY <1>4, <1>5, <2>2, <2>3
  <2>5. Chain!LastEntry = NextPrev(head)
    BY <1>6, <1>8, <2>1, <2>2, <2>4 DEF Chain!LastEntry, NextPrev
  <2> QED BY <1>1, <1>4, <1>5, <1>8, <2>1, <2>4, <2>5 DEF n, Mirrors
<1> QED BY <1>7, <1>8

\* A commit appends its receipt to the abstract chain.
LEMMA CommitAccepts ==
    ASSUME ServerInv, Mirrors, Mirrors', NEW r \in Requests, Appends(r)
    PROVE  Chain!Next
<1> DEFINE receipt == req[r].receipt
<1>0. PICK n \in Nat : n = NextSeq(head)
  BY DEF Mirrors
<1>1. /\ receipt \in Receipt /\ receipt.entry = req[r].entry
      /\ req[r].entry \in Entries /\ head' # None
      /\ head'.seq = SeqOf[req[r].entry]
      /\ entries'[req[r].entry].receipt = receipt
      /\ \A e \in Entries \ {req[r].entry} : entries'[e] = entries[e]
      /\ Committed' = Committed \cup {req[r].entry}
      /\ req[r].entry \notin Committed /\ Committed \subseteq Entries
  BY CommitRows DEF Appends, Committed
<1>2. /\ SeqOf[req[r].entry] = n /\ PrevOf[req[r].entry] = NextPrev(head)
      /\ head # None => receipt.accepted >= head.accepted
  BY <1>0 DEF Appends, Extends
<1>3. NextSeq(head)' = n + 1
  BY <1>0, <1>1, <1>2 DEF NextSeq
<1>4. /\ ChainSoFar \in Seq(Receipt) /\ Len(ChainSoFar) = n
      /\ Chain!LastEntry = NextPrev(head)
      /\ ChainSoFar # <<>> =>
           /\ head # None
           /\ ChainSoFar[Len(ChainSoFar)].accepted = head.accepted
      /\ \A i \in 1 .. n :
           /\ EntryAt(i) \in Committed /\ SeqOf[EntryAt(i)] = i - 1
           /\ ChainSoFar[i] = entries[EntryAt(i)].receipt
  BY <1>0 DEF Mirrors
<1>5. /\ ChainSoFar' \in Seq(Receipt) /\ Len(ChainSoFar') = n + 1
      /\ \A i \in 1 .. n + 1 :
           /\ ChainSoFar'[i] = entries'[EntryAt(i)'].receipt
           /\ \A e \in Committed' : SeqOf[e] = i - 1 => e = EntryAt(i)'
  BY <1>3 DEF Mirrors
<1> HIDE DEF receipt
<1>6. \A i \in 1 .. n : ChainSoFar'[i] = ChainSoFar[i]
  <2> TAKE i \in 1 .. n
  <2>1. i \in 1 .. n + 1
    BY <1>3
  <2>2. EntryAt(i)' = EntryAt(i)
    BY <1>1, <1>4, <1>5, <2>1
  <2>3. entries'[EntryAt(i)] = entries[EntryAt(i)]
    BY <1>1, <1>4
  <2> QED BY <1>4, <1>5, <2>1, <2>2, <2>3
<1>7. ChainSoFar'[n + 1] = receipt
  <2>1. n + 1 \in 1 .. n + 1 /\ SeqOf[req[r].entry] = (n + 1) - 1
    BY <1>2, <1>3
  <2>2. EntryAt(n + 1)' = req[r].entry
    BY <1>1, <1>5, <2>1
  <2> QED BY <1>1, <1>5, <2>1, <2>2
<1>8. ChainSoFar' = Append(ChainSoFar, receipt)
  <2>1. /\ Append(ChainSoFar, receipt) \in Seq(Receipt)
        /\ Len(Append(ChainSoFar, receipt)) = n + 1
        /\ \A i \in 1 .. n + 1 : Append(ChainSoFar, receipt)[i] =
               IF i = n + 1 THEN receipt ELSE ChainSoFar[i]
    BY <1>1, <1>3, <1>4
  <2>2. \A i \in 1 .. n + 1 : ChainSoFar'[i] = Append(ChainSoFar, receipt)[i]
    BY <1>3, <1>6, <1>7, <2>1
  <2> QED BY <1>5, <2>1, <2>2, SeqEqual
<1>9. Chain!Accept(receipt)
  BY <1>1, <1>2, <1>4, <1>8 DEF Chain!Accept
<1> QED BY <1>1, <1>9 DEF Chain!Next

-----------------------------------------------------------------------------
\* Theorems.

LEMMA ServerInvariant == Spec => [](ServerInv /\ EventInv)
<1>1. Init => ServerInv /\ EventInv
  <2>1. Init => EventInv
    BY DEF Init, EventInv, Idle
  <2> QED BY <2>1, ServerInvInit
<1>2. ServerInv /\ EventInv /\ [Next]_vars => (ServerInv /\ EventInv)'
  BY ServerInvNext, NextEvent DEF ServerInv
<1> QED BY <1>1, <1>2, PTL DEF Spec

\* commit_entry keeps one chain, for any number of concurrent handlers and
\* any registry: no sequence is taken twice and no predecessor is missing.
THEOREM ChainNeverForks == Spec => []OneChain
<1>1. ServerInv => OneChain
  BY DEF ServerInv, ChainInv
<1> QED BY <1>1, ServerInvariant, PTL

\* The checkpoint that was read and signed without a lock is the one of the
\* predecessor whenever the transaction commits.
THEOREM CheckpointsNeverFork == Spec => []CheckpointsFollowChain
<1>1. ServerInv => CheckpointsFollowChain
  BY DEF ServerInv, ChainInv
<1> QED BY <1>1, ServerInvariant, PTL

\* accepted_at and the comparison in the transaction keep the accepted times
\* in order for any clock.
THEOREM TimesNeverGoBack == Spec => []AcceptedTimesMonotone
<1>1. ServerInv => AcceptedTimesMonotone
  BY DEF ServerInv, ChainInv
<1> QED BY <1>1, ServerInvariant, PTL

\* Only the stored receipt, made for the entry and grants that were sent, is
\* ever delivered.
THEOREM StoredReceiptDelivered == Spec => []OneReceipt
<1>1. ServerInv => OneReceipt
  BY DEF ServerInv, HandlerOK, OneReceipt
<1> QED BY <1>1, ServerInvariant, PTL

\* Whatever the order in which registry heads and entries arrive, a visible
\* entry was accepted under a head that covers its sequence, time and writer.
THEOREM HeadCoversEntry == Spec => []AcceptedUnderHead
<1>1. ServerInv => AcceptedUnderHead
  <2> SUFFICES ASSUME ServerInv, NEW e \in Committed
               PROVE  /\ entries[e].receipt.entry = e
                      /\ Covered(entries[e].receipt)
    BY DEF AcceptedUnderHead, Covered
  <2> QED BY DEF ServerInv, ChainInv
<1> QED BY <1>1, ServerInvariant, PTL

\* classify_head_conflict accuses no entry that is in the chain or continues
\* it.
THEOREM NoFalseForkAccusation == Spec => AccusationTrue
<1>1. ServerInv /\ EventInv /\ [Next]_vars =>
        [\A r \in Requests : Accuses(r, {"SequenceFork", "PredecessorMismatch"})
            => req[r].entry \notin Committed /\ ~Continues(req[r].entry)]_vars
  <2> SUFFICES ASSUME ServerInv, EventInv, [Next]_vars, NEW r \in Requests,
                      req'[r] # req[r], req'[r].event \in Forks
               PROVE  req[r].entry \notin Committed /\ ~Continues(req[r].entry)
    BY DEF Accuses, Forks
  <2>1. ClassifyHeadConflict(r) /\ TypeOK /\ HandlerOK(r)
    BY NextEvent DEF ServerInv
  <2>2. ~Answer(r, "headConflict", None)
    BY <2>1, AnswerEvent, NoneIsNoAnswer DEF Forks, Events
  <2>3. /\ req[r].pc = "conflict" /\ req[r].seen = head
        /\ \/ SeqOf[req[r].entry] # NextSeq(head)
           \/ PrevOf[req[r].entry] # NextPrev(head)
    BY <2>1, <2>2 DEF ClassifyHeadConflict, HeadUnmoved
  <2> QED BY <2>1, <2>3 DEF HandlerOK, Continues
<1> QED BY <1>1, ServerInvariant, PTL DEF Spec, AccusationTrue

\* The commit implements the abstract chain of accepted entries.
THEOREM RefinesAcceptedChain == Spec => ImplementsChain
<1>1. Init => Chain!Init
  <2> SUFFICES ASSUME Init PROVE ChainSoFar = <<>>
    BY DEF Chain!Init
  <2>1. Mirrors /\ NextSeq(head) = 0
    BY ServerInvInit, ChainSoFarIs DEF Init, NextSeq
  <2> QED BY <2>1, EmptySeq DEF Mirrors
<1>2. ServerInv /\ Mirrors /\ Mirrors' /\ [Next]_vars => [Chain!Next]_ChainSoFar
  <2> SUFFICES ASSUME ServerInv, Mirrors, Mirrors', [Next]_vars
               PROVE  Chain!Next \/ UNCHANGED ChainSoFar
    OBVIOUS
  <2>1. CASE UNCHANGED <<head, entries>>
    BY <2>1 DEF ChainSoFar, Committed, NextSeq
  <2>2. CASE \E r \in Requests : Appends(r)
    BY <2>2, CommitAccepts
  <2> QED BY <2>1, <2>2, ServerInvNext
<1> QED BY <1>1, <1>2, ServerInvariant, ChainSoFarIs, PTL
        DEF Spec, ImplementsChain, Chain!Spec
=============================================================================
