-------------------------- MODULE NetworkHostProofs --------------------------
(***************************************************************************)
(* What the publishing host does to the network directory, for a chain, a  *)
(* queue and a number of attempts of any size: it implements NetworkArchive,*)
(* its loop misses no wake-up, and what it reports as saved is published.  *)
(***************************************************************************)
EXTENDS NetworkHost, NetworkArchiveProofs, FiniteSetTheorems

\* What must be in the directory before o may arrive.
Deps(o) ==
    IF o.kind = "eip"
    THEN {Grant(o.seq)} \cup {Entry(r) : r \in 0 .. o.seq - 1} ELSE {}

\* A plan never runs ahead: each object is committed, and what it needs is
\* published or stands before it.
Closed(p) ==
    \A i \in DOMAIN p :
        /\ p[i] \in net \cup local
        /\ Deps(p[i]) \subseteq net \cup {p[j] : j \in 1 .. i - 1}

QueueInv ==
    /\ slot \in Seq(Objects) /\ Closed(slot)
    /\ plan \in Seq(Objects) /\ Closed(plan)
    /\ drain.plan \in Seq(Objects) /\ Closed(drain.plan)
    /\ drain \in [by : Threads \cup {NoThread}, plan : Seq(Objects), done : Nat]
    /\ drain.done <= Len(drain.plan)
    /\ \A i \in 1 .. drain.done : drain.plan[i] \in net
    /\ outcome \in [Threads -> Queue!Outcomes]

\* Steps of a thread that holds `run`.
RunSteps == {"derive", "settleDerive", "observe", "drain", "record"}
WriterSteps == {"off", "boot", "run", "derive", "observe", "drain", "record",
                "idle", "act"}
LoopSteps == {"off", "delay", "rest", "wait", "settle", "settleDerive",
              "tryInner", "reopen", "run", "derive", "observe", "drain",
              "record", "clear", "ended"}

ThreadInv ==
    /\ thread \in [Threads -> WriterSteps \cup LoopSteps]
    /\ thread["writer"] \in WriterSteps /\ thread["loop"] \in LoopSteps
    /\ run \in Threads \cup {NoThread}
    /\ thread["writer"] = "off" <=> proc[Me].at = "off"
    /\ thread["writer"] = "boot" <=> proc[Me].at = "starting"
    /\ thread["writer"] \in {"off", "boot"} => thread["loop"] = "off"
    /\ \A t \in Threads : thread[t] \in RunSteps => run = t
    /\ \A t \in Threads : thread[t] = "drain" <=> drain.by = t
    /\ \A t \in Threads : thread[t] = "drain" => outcome[t] = "none"

\* The runtime that is kept sees the directory.
SeenInv == Seen(Me)

\* Nobody has written rows since t derived its plan, or an action that did
\* and failed has said so.
Settled(t) == t = "writer" \/ (thread["writer"] = "idle" /\ ~unreported)

SavedInv ==
    /\ unreported \in BOOLEAN
    /\ \A t \in Threads : Settled(t) =>
         /\ thread[t] = "observe" => local \subseteq net \cup Range(plan)
         /\ thread[t] = "drain" => local \subseteq net \cup Range(drain.plan)
         /\ thread[t] = "record" /\ outcome[t] \in Queue!NothingOutstanding =>
                local \subseteq net
    /\ /\ host.observed = "Clean" /\ thread["writer"] = "idle" /\ ~unreported
       /\ \A t \in Threads : thread[t] \notin {"observe", "drain", "record"}
       => local \subseteq net

\* Every attempt is a run that took place, or the one that is under way.
Counting == {"rest", "wait", "settle", "settleDerive", "tryInner", "reopen",
             "run", "derive", "observe", "drain", "record"}
AttemptInv ==
    /\ host \in [observed : {"Unknown", "Clean"} \cup Unclean, attempts : Nat,
                 counted : BOOLEAN, exhausted : BOOLEAN, signaled : BOOLEAN]
    /\ performed \in Nat
    /\ host.attempts <= MaxAttempts
    /\ host.attempts = performed +
           (IF thread["loop"] \in Counting /\ host.counted THEN 1 ELSE 0)
    /\ host.exhausted => thread["loop"] = "ended" /\ performed = MaxAttempts

WakeInv == NoLostWakeup

HostInv ==
    /\ ArchiveInv /\ QueueInv /\ ThreadInv /\ GrantInv /\ SeenInv /\ SavedInv
    /\ AttemptInv /\ WakeInv

-----------------------------------------------------------------------------
\* Data.

\* Induction: what holds at 0 and is passed on holds up to n.
LEMMA UpTo ==
    ASSUME NEW n \in Nat, NEW G \in SUBSET Nat, 0 \in G,
           \A i \in 1 .. n : i - 1 \in G => i \in G
    PROVE  0 .. n \subseteq G
<1> DEFINE Less == OpToRel(<, Nat)
           Bad == (0 .. n) \ G
<1> SUFFICES ASSUME Bad # {} PROVE FALSE
  OBVIOUS
<1>1. IsWellFoundedOn(Less, Nat)
  BY NatLessThanWellFounded
<1>2. Bad \in SUBSET Nat /\ \A b \in Bad : b \in 1 .. n /\ b \notin G
  OBVIOUS
<1>3. \A b \in 0 .. n : b \in Bad \/ b \in G
  OBVIOUS
<1> HIDE DEF Bad
<1>4. PICK b \in Bad : \A e \in Bad : <<e, b>> \notin Less
  BY <1>1, <1>2, WFMin
<1>5. b \in 1 .. n /\ b \notin G
  BY <1>2
<1>6. b \in Nat /\ b - 1 \in Nat /\ b - 1 \in 0 .. n /\ b - 1 < b
  BY <1>5
<1>7. <<b - 1, b>> \in Less
  BY <1>6 DEF OpToRel
<1>8. b - 1 \notin Bad
  BY <1>4, <1>7
<1> QED BY <1>3, <1>5, <1>6, <1>8

\* The values of the recursion in Merge, up to the n-th object of the plan.
Joins(J, w, p, n) ==
    /\ DOMAIN J = 0 .. n
    /\ J[0] = w
    /\ \A i \in 1 .. n : J[i] = IF p[i] \in Range(J[i - 1]) THEN J[i - 1]
                                ELSE Append(J[i - 1], p[i])

LEMMA JoinsExist ==
    ASSUME NEW w, NEW p, Len(p) \in Nat PROVE \E J : Joins(J, w, p, Len(p))
<1> DEFINE G == {n \in Nat : \E J : Joins(J, w, p, n)}
<1>1. 0 \in G
  <2> DEFINE J == [i \in 0 .. 0 |-> w]
  <2>1. Joins(J, w, p, 0)
    BY DEF Joins
  <2> QED BY <2>1
<1>2. ASSUME NEW i \in 1 .. Len(p), i - 1 \in G PROVE i \in G
  <2>1. PICK J : Joins(J, w, p, i - 1)
    BY <1>2
  <2> DEFINE next == IF p[i] \in Range(J[i - 1]) THEN J[i - 1] ELSE Append(J[i - 1], p[i])
             K == [k \in 0 .. i |-> IF k = i THEN next ELSE J[k]]
  <2>2. K[i] = next /\ DOMAIN K = 0 .. i /\ \A k \in 0 .. i - 1 : K[k] = J[k]
    OBVIOUS
  <2> HIDE DEF K
  <2>3. \A k \in 1 .. i : k - 1 \in 0 .. i - 1 /\ (k # i => k \in 1 .. i - 1)
    OBVIOUS
  <2>4. Joins(K, w, p, i)
    <3>1. K[0] = w
      BY <2>1, <2>2 DEF Joins
    <3>2. ASSUME NEW k \in 1 .. i
          PROVE  K[k] = IF p[k] \in Range(K[k - 1]) THEN K[k - 1]
                        ELSE Append(K[k - 1], p[k])
      <4>1. K[k - 1] = J[k - 1]
        BY <2>2, <2>3
      <4>2. CASE k = i
        BY <2>2, <4>1, <4>2
      <4>3. CASE k # i
        <5>1. K[k] = J[k] /\ k \in 1 .. i - 1
          BY <2>2, <2>3, <4>3
        <5> QED BY <2>1, <4>1, <5>1 DEF Joins
      <4> QED BY <4>2, <4>3
    <3> QED BY <2>2, <3>1, <3>2 DEF Joins
  <2> QED BY <2>4
<1>3. 0 .. Len(p) \subseteq G
  <2> HIDE DEF G
  <2>1. G \in SUBSET Nat
    BY DEF G
  <2> QED BY <1>1, <1>2, <2>1, UpTo
<1> QED BY <1>3

LEMMA QueueRange == \A f : Queue!Range(f) = Range(f)
BY DEF Queue!Range, Range

LEMMA MergeJoins ==
    ASSUME NEW w, NEW p, Len(p) \in Nat
    PROVE  \E J : Joins(J, w, p, Len(p)) /\ Queue!Merge(w, p) = J[Len(p)]
<1> DEFINE Rec(J) == J = [i \in 0 .. Len(p) |->
                 IF i = 0 THEN w
                 ELSE IF p[i] \in Queue!Range(J[i - 1]) THEN J[i - 1]
                 ELSE Append(J[i - 1], p[i])]
           M == CHOOSE J : Rec(J)
<1>1. ASSUME NEW J, Joins(J, w, p, Len(p)) PROVE J = [i \in 0 .. Len(p) |-> J[i]] => Rec(J)
  <2>1. ASSUME NEW i \in 0 .. Len(p)
        PROVE  J[i] = IF i = 0 THEN w
                      ELSE IF p[i] \in Queue!Range(J[i - 1]) THEN J[i - 1]
                      ELSE Append(J[i - 1], p[i])
    <3>1. i = 0 \/ i \in 1 .. Len(p)
      OBVIOUS
    <3> QED BY <1>1, <3>1, QueueRange DEF Joins
  <2> QED BY <2>1
<1>2. PICK J : Joins(J, w, p, Len(p))
  BY JoinsExist
<1>3. \E K : Rec(K)
  <2> DEFINE K == [i \in 0 .. Len(p) |-> J[i]]
  <2>1. Joins(K, w, p, Len(p)) /\ K = [i \in 0 .. Len(p) |-> K[i]]
    BY <1>2 DEF Joins
  <2> QED BY <1>1, <2>1
<1>4. Rec(M)
  BY <1>3
<1>5. Queue!Merge(w, p) = M[Len(p)]
  BY DEF Queue!Merge
<1> HIDE DEF M
<1>6. Joins(M, w, p, Len(p))
  <2>1. DOMAIN M = 0 .. Len(p) /\ M[0] = w
    BY <1>4
  <2>2. ASSUME NEW i \in 1 .. Len(p)
        PROVE  M[i] = IF p[i] \in Range(M[i - 1]) THEN M[i - 1] ELSE Append(M[i - 1], p[i])
    <3>1. i \in 0 .. Len(p) /\ i # 0
      OBVIOUS
    <3>2. M[i] = IF i = 0 THEN w
                 ELSE IF p[i] \in Queue!Range(M[i - 1]) THEN M[i - 1]
                 ELSE Append(M[i - 1], p[i])
      BY <1>4, <3>1
    <3>3. Queue!Range(M[i - 1]) = Range(M[i - 1])
      BY QueueRange
    <3> QED BY <3>1, <3>2, <3>3
  <2> QED BY <2>1, <2>2 DEF Joins
<1> QED BY <1>5, <1>6

LEMMA AppendIs ==
    ASSUME NEW S, NEW s \in Seq(S), NEW x \in S
    PROVE  /\ Append(s, x) \in Seq(S) /\ Len(Append(s, x)) = Len(s) + 1
           /\ \A i \in 1 .. Len(s) : Append(s, x)[i] = s[i]
           /\ Append(s, x)[Len(s) + 1] = x
           /\ Range(Append(s, x)) = Range(s) \cup {x}
<1>1. /\ Append(s, x) \in Seq(S) /\ Len(Append(s, x)) = Len(s) + 1
      /\ \A i \in 1 .. Len(s) : Append(s, x)[i] = s[i]
      /\ Append(s, x)[Len(s) + 1] = x
  OBVIOUS
<1>2. DOMAIN s = 1 .. Len(s) /\ DOMAIN Append(s, x) = 1 .. Len(s) + 1
  OBVIOUS
<1>3. Range(Append(s, x)) = Range(s) \cup {x}
  BY <1>1, <1>2 DEF Range
<1> QED BY <1>1, <1>3

\* A plan that is closed stays so when an object follows whose needs it meets.
LEMMA AppendClosed ==
    ASSUME NEW s \in Seq(Objects), NEW o \in Objects, Closed(s), o \in net \cup local,
           Deps(o) \subseteq net \cup Range(s)
    PROVE  Closed(Append(s, o))
<1> DEFINE a == Append(s, o)
<1>1. /\ Len(s) \in Nat /\ DOMAIN s = 1 .. Len(s) /\ DOMAIN a = 1 .. Len(s) + 1
      /\ \A i \in 1 .. Len(s) : a[i] = s[i]
      /\ a[Len(s) + 1] = o
  BY AppendIs
<1> HIDE DEF a
<1>2. ASSUME NEW i \in 1 .. Len(s)
      PROVE  a[i] \in net \cup local /\ Deps(a[i]) \subseteq net \cup {a[j] : j \in 1 .. i - 1}
  <2>1. \A j \in 1 .. i - 1 : a[j] = s[j]
    BY <1>1
  <2>2. {a[j] : j \in 1 .. i - 1} = {s[j] : j \in 1 .. i - 1}
    BY <2>1
  <2>3. a[i] = s[i] /\ i \in DOMAIN s
    BY <1>1
  <2> QED BY <2>2, <2>3 DEF Closed
<1>3. Range(s) \subseteq {a[j] : j \in 1 .. (Len(s) + 1) - 1}
  BY <1>1 DEF Range
<1>4. \A i \in DOMAIN a : i \in 1 .. Len(s) \/ i = Len(s) + 1
  BY <1>1
<1>5. Closed(a)
  BY <1>1, <1>2, <1>3, <1>4 DEF Closed
<1> QED BY <1>5 DEF a

\* The union has what both have, and does not run ahead when they do not.
LEMMA MergeIs ==
    ASSUME NEW w \in Seq(Objects), NEW p \in Seq(Objects), Closed(w), Closed(p)
    PROVE  /\ Queue!Merge(w, p) \in Seq(Objects)
           /\ Range(Queue!Merge(w, p)) = Range(w) \cup Range(p)
           /\ Closed(Queue!Merge(w, p))
<1>1. Len(p) \in Nat /\ DOMAIN p = 1 .. Len(p)
  OBVIOUS
<1>2. PICK J : Joins(J, w, p, Len(p)) /\ Queue!Merge(w, p) = J[Len(p)]
  BY <1>1, MergeJoins
<1> DEFINE G == {n \in 0 .. Len(p) : /\ J[n] \in Seq(Objects) /\ Closed(J[n])
                            /\ Range(J[n]) = Range(w) \cup {p[j] : j \in 1 .. n}}
<1>3. 0 \in G
  <2>1. {p[j] : j \in 1 .. 0} = {}
    OBVIOUS
  <2> QED BY <1>1, <1>2, <2>1 DEF Joins
<1>4. ASSUME NEW i \in 1 .. Len(p), i - 1 \in G PROVE i \in G
  <2> DEFINE s == J[i - 1]
  <2>1. /\ s \in Seq(Objects) /\ Closed(s) /\ i \in 0 .. Len(p)
        /\ Range(s) = Range(w) \cup {p[j] : j \in 1 .. i - 1}
    BY <1>4
  <2>2. J[i] = IF p[i] \in Range(s) THEN s ELSE Append(s, p[i])
    BY <1>2 DEF Joins
  <2> HIDE DEF s
  <2>3. /\ p[i] \in Objects /\ p[i] \in net \cup local
        /\ Deps(p[i]) \subseteq net \cup {p[j] : j \in 1 .. i - 1}
    BY <1>1 DEF Closed
  <2>4. {p[j] : j \in 1 .. i} = {p[j] : j \in 1 .. i - 1} \cup {p[i]}
    <3>1. \A j : j \in 1 .. i <=> (j \in 1 .. i - 1 \/ j = i)
      OBVIOUS
    <3> QED BY <3>1
  <2>5. Deps(p[i]) \subseteq net \cup Range(s)
    BY <2>1, <2>3
  <2>6. CASE p[i] \in Range(s)
    BY <2>1, <2>2, <2>4, <2>6
  <2>7. CASE p[i] \notin Range(s)
    <3>1. J[i] = Append(s, p[i])
      BY <2>2, <2>7
    <3>2. Closed(Append(s, p[i]))
      BY <2>1, <2>3, <2>5, AppendClosed
    <3>3. Append(s, p[i]) \in Seq(Objects) /\ Range(Append(s, p[i])) = Range(s) \cup {p[i]}
      BY <2>1, <2>3, AppendIs
    <3> QED BY <2>1, <2>4, <3>1, <3>2, <3>3
  <2> QED BY <2>6, <2>7
<1>5. Len(p) \in G
  <2> HIDE DEF G
  <2>1. G \in SUBSET Nat
    BY DEF G
  <2>2. 0 .. Len(p) \subseteq G
    BY <1>1, <1>3, <1>4, <2>1, UpTo
  <2> QED BY <1>1, <2>2
<1>6. Range(p) = {p[j] : j \in 1 .. Len(p)}
  BY <1>1 DEF Range
<1> QED BY <1>2, <1>5, <1>6

\* The place of an object in the order of the addresses.
Rank(o) == IF o.kind = "eag" THEN o.seq ELSE LastSeq + 1 + o.seq

LEMMA RankIs ==
    /\ \A o \in Objects : Rank(o) \in 0 .. 2 * LastSeq + 1
    /\ \A x, y \in Objects : (Before(x, y) <=> Rank(x) < Rank(y))
                             /\ (Rank(x) = Rank(y) => x = y)
<1>1. LastSeq \in Nat
  BY ArchiveAssumption
<1>2. \A o \in Objects : o.kind \in {"eag", "eip"} /\ o.seq \in 0 .. LastSeq
                         /\ o = [kind |-> o.kind, seq |-> o.seq]
  BY DEF Objects, Seqs
<1>3. \A o \in Objects : Rank(o) \in 0 .. 2 * LastSeq + 1
  BY <1>1, <1>2 DEF Rank
<1>4. ASSUME NEW x \in Objects, NEW y \in Objects
      PROVE  (Before(x, y) <=> Rank(x) < Rank(y)) /\ (Rank(x) = Rank(y) => x = y)
  <2>1. /\ x.kind \in {"eag", "eip"} /\ x.seq \in Nat /\ x.seq <= LastSeq
        /\ y.kind \in {"eag", "eip"} /\ y.seq \in Nat /\ y.seq <= LastSeq
    BY <1>1, <1>2
  <2>2. Rank(x) = Rank(y) => x.kind = y.kind /\ x.seq = y.seq
    BY <1>1, <2>1 DEF Rank
  <2>3. x.kind = y.kind /\ x.seq = y.seq => x = y
    BY <1>2
  <2>4. Before(x, y) <=> Rank(x) < Rank(y)
    BY <1>1, <2>1 DEF Rank, Before
  <2> QED BY <2>2, <2>3, <2>4
<1> QED BY <1>3, <1>4

\* Any set of objects can be listed in that order.
LEMMA SortExists ==
    ASSUME NEW M \in SUBSET Objects
    PROVE  /\ Cardinality(M) \in Nat
           /\ \E p \in [1 .. Cardinality(M) -> M] : Range(p) = M /\ Sorted(p)
<1> DEFINE Below(n) == {o \in M : Rank(o) < n}
           Lists(n) == /\ IsFiniteSet(Below(n))
                       /\ \E p \in [1 .. Cardinality(Below(n)) -> Below(n)] :
                             Range(p) = Below(n) /\ Sorted(p)
           G == {n \in Nat : Lists(n)}
           N == 2 * LastSeq + 2
<1>1. N \in Nat
  BY ArchiveAssumption
<1>2. 0 \in G
  <2>1. Below(0) = {}
    BY RankIs
  <2>2. IsFiniteSet({}) /\ Cardinality({}) = 0
    BY FS_EmptySet
  <2> DEFINE p == [k \in 1 .. 0 |-> 0]
  <2>3. p \in [1 .. 0 -> {}] /\ Range(p) = {} /\ Sorted(p)
    BY DEF Range, Sorted
  <2> HIDE DEF Below, p
  <2>4. Lists(0)
    BY <2>1, <2>2, <2>3
  <2> QED BY <2>4
<1>3. ASSUME NEW i \in 1 .. N, i - 1 \in G PROVE i \in G
  <2> DEFINE B == Below(i - 1)
             c == Cardinality(B)
  <2>1. i \in Nat /\ i - 1 \in Nat
    BY <1>1
  <2>2. IsFiniteSet(B) /\ c \in Nat
    BY <1>3, FS_CardinalityType
  <2>3. PICK p \in [1 .. c -> B] : Range(p) = B /\ Sorted(p)
    BY <1>3
  <2>4. \A o \in M : Rank(o) \in Nat /\ (Rank(o) < i <=> Rank(o) < i - 1 \/ Rank(o) = i - 1)
    BY <2>1, RankIs
  <2>5. CASE \A o \in M : Rank(o) # i - 1
    <3>1. Below(i) = B
      BY <2>4, <2>5
    <3> HIDE DEF Below
    <3> QED BY <2>1, <2>2, <2>3, <3>1
  <2>6. ASSUME NEW o \in M, Rank(o) = i - 1 PROVE i \in G
    <3>1. Below(i) = B \cup {o} /\ o \notin B /\ \A x \in B : Before(x, o)
      <4>1. \A x \in M : Rank(x) = i - 1 => x = o
        BY <2>6, RankIs
      <4>2. o \notin B /\ \A x \in B : Rank(x) < Rank(o)
        BY <2>1, <2>4, <2>6
      <4>3. \A x \in B : Before(x, o)
        BY <4>2, RankIs
      <4> QED BY <2>4, <2>6, <4>1, <4>2, <4>3
    <3> HIDE DEF B
    <3>2. IsFiniteSet(B \cup {o}) /\ Cardinality(B \cup {o}) = c + 1
      BY <2>2, <3>1, FS_AddElement
    <3> DEFINE q == [k \in 1 .. c + 1 |-> IF k = c + 1 THEN o ELSE p[k]]
    <3>3. \A k \in 1 .. c + 1 : k \in 1 .. c \/ k = c + 1
      BY <2>2
    <3>4. /\ q \in [1 .. c + 1 -> B \cup {o}] /\ DOMAIN q = 1 .. c + 1
          /\ q[c + 1] = o /\ \A k \in 1 .. c : q[k] = p[k]
      BY <2>2, <2>3, <3>3
    <3> HIDE DEF q, c
    <3>5. Range(q) = B \cup {o}
      <4>1. B \subseteq Range(q)
        BY <2>2, <2>3, <3>4 DEF Range
      <4>2. o \in Range(q)
        BY <2>2, <3>4 DEF Range
      <4> QED BY <3>4, <4>1, <4>2 DEF Range
    <3>6. Sorted(q)
      <4> SUFFICES ASSUME NEW k \in 1 .. c + 1, NEW l \in 1 .. c + 1, k < l
                   PROVE  Before(q[k], q[l])
        BY <3>4 DEF Sorted
      <4>1. k \in 1 .. c /\ p[k] \in B
        BY <2>2, <2>3, <3>3
      <4>2. CASE l = c + 1
        BY <3>1, <3>4, <4>1, <4>2
      <4>3. CASE l \in 1 .. c
        BY <2>3, <3>4, <4>1, <4>3 DEF Sorted
      <4> QED BY <3>3, <4>2, <4>3
    <3> HIDE DEF Below
    <3> QED BY <2>1, <3>1, <3>2, <3>4, <3>5, <3>6
  <2> QED BY <2>5, <2>6
<1>4. N \in G
  <2> HIDE DEF G
  <2>1. G \in SUBSET Nat
    BY DEF G
  <2> HIDE DEF N
  <2>2. 0 .. N \subseteq G
    BY <1>1, <1>2, <1>3, <2>1, UpTo
  <2> QED BY <1>1, <2>2
<1>5. Below(N) = M
  BY RankIs, ArchiveAssumption
<1> HIDE DEF Below, N
<1>6. Lists(N)
  BY <1>4
<1>7. Cardinality(M) \in Nat
  BY <1>5, <1>6, FS_CardinalityType
<1> QED BY <1>5, <1>6, <1>7

\* What is missing, all of it, each object after what it needs: the rows have
\* the grants of their entries and no gap.
LEMMA DeriveIs ==
    ASSUME ArchiveInv, GrantInv
    PROVE  /\ DerivePending \in Seq(Objects)
           /\ Range(DerivePending) = Missing
           /\ Closed(DerivePending)
<1> DEFINE p == DerivePending
           n == Cardinality(Missing)
<1>1. net \in SUBSET Objects /\ local \in SUBSET Objects /\ Missing \in SUBSET Objects
  BY DEF ArchiveInv, RowsOK, Missing
<1>2. p \in [1 .. n -> Missing] /\ Range(p) = Missing /\ Sorted(p)
  <2> DEFINE Is(q) == Range(q) = Missing /\ Sorted(q)
  <2>1. \E q \in [1 .. n -> Missing] : Is(q)
    BY <1>1, SortExists
  <2>2. p = CHOOSE q \in [1 .. n -> Missing] : Is(q)
    BY DEF DerivePending
  <2> HIDE DEF Is, p
  <2>3. p \in [1 .. n -> Missing] /\ Is(p)
    BY <2>1, <2>2
  <2> QED BY <2>3 DEF Is
<1>3. n \in Nat
  BY <1>1, SortExists
<1> HIDE DEF p, n
<1>4. p \in Seq(Objects) /\ DOMAIN p = 1 .. n
  BY <1>1, <1>2, <1>3
<1>5. ASSUME NEW i \in 1 .. n, NEW d \in Deps(p[i]), d \notin net
      PROVE  \E j \in 1 .. i - 1 : p[j] = d
  <2> DEFINE o == p[i]
  <2>1. o \in Objects /\ o \in local /\ o \in Missing
    BY <1>1, <1>2, <1>5 DEF Missing
  <2>2. o.kind = "eip" /\ o.seq \in Seqs /\ o = Entry(o.seq)
    <3>1. o.kind = "eip"
      BY <1>5 DEF Deps
    <3> QED BY <2>1, <3>1 DEF Objects, Entry
  <2>3. d \in {Grant(o.seq)} \cup {Entry(r) : r \in 0 .. o.seq - 1}
    BY <1>5, <2>2 DEF Deps
  <2> HIDE DEF o
  <2>4. d \in local /\ Rank(d) < Rank(o)
    <3>1. CASE d = Grant(o.seq)
      <4>1. d \in local
        BY <1>5, <2>1, <2>2, <3>1 DEF GrantInv
      <4> QED BY <2>2, <3>1, <4>1, ArchiveAssumption DEF Rank, Grant, Seqs
    <3>2. ASSUME NEW r \in 0 .. o.seq - 1, d = Entry(r) PROVE d \in local /\ Rank(d) < Rank(o)
      <4>1. /\ net \cup local \in SUBSET Objects
            /\ EntrySeqs(net \cup local) = 0 .. Top /\ Top \in Nat
        BY <1>1, SeqsAre DEF ArchiveInv, RowsOK
      <4>2. o.seq \in EntrySeqs(net \cup local)
        BY <2>1, <2>2, <4>1, EntrySeqsAre
      <4>3. r \in Seqs /\ r < o.seq /\ r \in 0 .. Top /\ o.seq \in Nat
        BY <2>2, <4>1, <4>2, ArchiveAssumption DEF Seqs
      <4>4. Entry(r) \in net \cup local
        BY <4>1, <4>3, EntrySeqsAre
      <4>5. Rank(d) = LastSeq + 1 + r /\ Rank(o) = LastSeq + 1 + o.seq
        BY <2>2, <3>2 DEF Rank, Entry
      <4> QED BY <1>5, <3>2, <4>3, <4>4, <4>5, ArchiveAssumption
    <3> QED BY <2>3, <3>1, <3>2
  <2>5. d \in Missing
    BY <1>5, <2>4 DEF Missing
  <2>6. PICK j \in 1 .. n : p[j] = d
    BY <1>2, <1>4, <2>5 DEF Range
  <2>7. ~(i < j)
    <3> SUFFICES ASSUME i < j PROVE FALSE
      OBVIOUS
    <3>1. Before(o, d)
      BY <1>2, <1>4, <1>5, <2>6 DEF Sorted, o
    <3>2. Rank(o) < Rank(d) /\ Rank(o) \in Nat /\ Rank(d) \in Nat
      BY <1>1, <2>1, <2>5, <3>1, RankIs
    <3> QED BY <2>4, <3>2
  <2>8. i # j
    <3>1. Rank(o) \in Nat
      BY <2>1, RankIs
    <3> QED BY <2>4, <2>6, <3>1 DEF o
  <2> QED BY <1>3, <2>6, <2>7, <2>8
<1>6. Closed(p)
  <2>1. ASSUME NEW i \in 1 .. n
        PROVE  p[i] \in net \cup local /\ Deps(p[i]) \subseteq net \cup {p[j] : j \in 1 .. i - 1}
    BY <1>2, <1>5 DEF Missing
  <2> QED BY <1>4, <2>1 DEF Closed
<1> QED BY <1>2, <1>4, <1>6 DEF p

-----------------------------------------------------------------------------
\* The one process.
LEMMA OneProcess == OneWriter /\ Me \in Processes /\ \A p \in Processes : p = Me
BY ArchiveAssumption, HostAssumption DEF OneWriter

-----------------------------------------------------------------------------
\* The host implements the archive, step by step.

\* Whoever drains belongs to a process that has opened its runtime.
LEMMA DrainOpened ==
    ASSUME ThreadInv, NEW t \in Threads, thread[t] # "off", thread[t] # "boot"
    PROVE  proc[Me].at \notin {"off", "starting"}
BY DEF ThreadInv, Threads

\* The next object of a plan is a committed one whose needs are published.
LEMMA NextObject ==
    ASSUME ArchiveInv, QueueInv, ThreadInv, NEW t \in Threads, thread[t] = "drain",
           drain.done < Len(drain.plan), reachable,
           net' = net \cup {drain.plan[drain.done + 1]},
           UNCHANGED <<local, reachable, proc, lock, staged, prepared>>
    PROVE  [ArchiveNext]_archiveVars
<1> DEFINE i == drain.done + 1
           o == drain.plan[i]
<1>1. /\ drain.plan \in Seq(Objects) /\ drain.done \in Nat /\ i \in DOMAIN drain.plan
      /\ o \in Objects /\ i - 1 = drain.done
  BY DEF QueueInv
<1>2. /\ o \in net \cup local
      /\ Deps(o) \subseteq net \cup {drain.plan[j] : j \in 1 .. i - 1}
  BY <1>1 DEF QueueInv, Closed
<1>3. {drain.plan[j] : j \in 1 .. i - 1} \subseteq net
  BY <1>1 DEF QueueInv
<1> HIDE DEF o, i
<1>4. Deps(o) \subseteq net
  BY <1>2, <1>3
<1>5. CASE o \in net
  BY <1>5 DEF archiveVars, o, i
<1>6. CASE o \notin net
  <2>1. \E p \in Processes : proc[p].at \notin {"off", "starting"}
    BY DrainOpened, OneProcess
  <2>2. ASSUME o.kind = "eip"
        PROVE  Grant(o.seq) \in net /\ 0 .. o.seq - 1 \subseteq EntrySeqs(net)
    <3>1. Grant(o.seq) \in net /\ \A r \in 0 .. o.seq - 1 : Entry(r) \in net
      BY <1>4, <2>2 DEF Deps
    <3>2. o.seq \in Seqs /\ net \in SUBSET Objects
      BY <1>1 DEF Objects, ArchiveInv, RowsOK
    <3>3. \A r \in 0 .. o.seq - 1 : r \in Seqs
      BY <3>2, ArchiveAssumption DEF Seqs
    <3> QED BY <3>1, <3>2, <3>3, EntrySeqsAre
  <2>3. Arrive(o)
    BY <1>2, <1>6, <2>1, <2>2 DEF Arrive, o, i
  <2> QED BY <1>1, <2>3 DEF ArchiveNext
<1> QED BY <1>5, <1>6

LEMMA DrainArrives ==
    ASSUME ArchiveInv, QueueInv, ThreadInv, NEW t \in Threads, DrainPlan(t)
    PROVE  [ArchiveNext]_archiveVars
<1>1. /\ thread[t] = "drain" /\ UNCHANGED <<local, reachable, proc, lock, staged, prepared>>
      /\ \/ net' = net
         \/ /\ drain.done < Len(drain.plan) /\ reachable
            /\ net' = net \cup {drain.plan[drain.done + 1]}
  BY DEF DrainPlan, Queue!Drain, Queue!DrainObject, Queue!DrainStops, Queue!DrainDone
<1>2. CASE net' = net
  BY <1>1, <1>2 DEF archiveVars
<1>3. CASE net' # net
  BY <1>1, <1>3, NextObject
<1> QED BY <1>2, <1>3

LEMMA QueueKeepsArchive ==
    ASSUME NEW t \in Threads, Run(t), ~DrainPlan(t)
    PROVE  UNCHANGED archiveVars
BY DEF Run, BeginRun, DeriveStops, DeriveNothing, DeriveMissing, ObserveStops,
       PublishPlan, Record, archiveVars

LEMMA StepIsArchive ==
    ASSUME ArchiveInv, QueueInv, ThreadInv, [Next]_vars
    PROVE  [ArchiveNext]_archiveVars
<1>1. ASSUME NEW t \in Threads, Run(t) PROVE [ArchiveNext]_archiveVars
  BY <1>1, DrainArrives, QueueKeepsArchive
<1>2. CASE Start \/ Act \/ Reopen \/ ExitHost
  <2>1. ProcessStep(Me)
    BY <1>2 DEF Start, Act, Reopen, ExitHost, ProcessStep
  <2> QED BY <2>1, OneProcess DEF ArchiveNext
<1>3. CASE BeginAction \/ (Loop /\ ~Reopen)
  BY <1>3 DEF BeginAction, Loop, NextDelay, WakeSignaled, WakeElapsed, TryInner,
       SkipRun, ClearSignal
<1>4. CASE SetReachable
  BY <1>4 DEF ArchiveNext
<1>5. CASE UNCHANGED vars
  BY <1>5 DEF vars
<1> QED BY <1>1, <1>2, <1>3, <1>4, <1>5 DEF Next, Loop

-----------------------------------------------------------------------------
\* The threads and the queue.

LEMMA Activity ==
    ASSUME ArchiveInv, Start \/ Act \/ Reopen
    PROVE  /\ proc[Me].at = "off" => proc'[Me].at = "starting"
           /\ proc[Me].at = "starting" => proc'[Me].at \in {"off", "idle"}
           /\ proc[Me].at \notin {"off", "starting"} => proc'[Me].at \notin {"off", "starting"}
BY StaysOpen, OneProcess DEF Start, Act, Reopen

\* Thread t moves on to pc, of a process whose runtime is open.
Moves(t, pc) ==
    /\ thread[t] \notin {"off", "boot"} /\ thread' = [thread EXCEPT ![t] = pc]
    /\ proc'[Me].at \notin {"off", "starting"} /\ run' \in Threads \cup {NoThread}
    /\ t = "writer" => pc \in WriterSteps \ {"off", "boot"}
    /\ t = "loop" => pc \in LoopSteps
    /\ pc \in RunSteps => run' = t
    /\ \A u \in Threads \ {t} : thread[u] \in RunSteps => run' = u
    /\ pc = "drain" <=> drain'.by = t
    /\ \A u \in Threads \ {t} : drain'.by = u <=> drain.by = u
    /\ pc = "drain" => outcome'[t] = "none"
    /\ \A u \in Threads \ {t} : outcome'[u] = outcome[u]

LEMMA ThreadMoves ==
    ASSUME ThreadInv, NEW t \in Threads, NEW pc, Moves(t, pc) PROVE ThreadInv'
<1>1. /\ thread \in [Threads -> WriterSteps \cup LoopSteps]
      /\ thread["writer"] \in WriterSteps /\ thread["loop"] \in LoopSteps
      /\ t \in {"writer", "loop"} /\ "writer" \in Threads /\ "loop" \in Threads
  BY DEF ThreadInv, Threads
<1>2. /\ thread'[t] = pc /\ \A u \in Threads \ {t} : thread'[u] = thread[u]
      /\ pc \in WriterSteps \cup LoopSteps
  BY <1>1 DEF Moves
<1>3. /\ thread' \in [Threads -> WriterSteps \cup LoopSteps]
      /\ thread'["writer"] \in WriterSteps /\ thread'["loop"] \in LoopSteps
      /\ run' \in Threads \cup {NoThread}
  <2>1. thread' \in [Threads -> WriterSteps \cup LoopSteps]
    BY <1>1, <1>2 DEF Moves
  <2>2. thread'["writer"] \in WriterSteps /\ thread'["loop"] \in LoopSteps
    BY <1>1, <1>2 DEF Moves
  <2> QED BY <2>1, <2>2 DEF Moves
<1>4. thread'["writer"] \notin {"off", "boot"} /\ proc'[Me].at \notin {"off", "starting"}
  <2>1. thread["writer"] \notin {"off", "boot"}
    BY <1>1 DEF Moves, ThreadInv
  <2>2. thread'["writer"] \notin {"off", "boot"}
    BY <1>1, <1>2, <2>1 DEF Moves
  <2> QED BY <2>2 DEF Moves
<1>5. \A u \in Threads : thread'[u] \in RunSteps => run' = u
  BY <1>2 DEF Moves
<1>6. \A u \in Threads : thread'[u] = "drain" <=> drain'.by = u
  BY <1>2 DEF Moves, ThreadInv
<1>7. \A u \in Threads : thread'[u] = "drain" => outcome'[u] = "none"
  BY <1>2 DEF Moves, ThreadInv
<1> QED BY <1>2, <1>3, <1>4, <1>5, <1>6, <1>7 DEF ThreadInv

\* The threads of a run: the other one is outside its run, unless the step
\* only begins one.
LEMMA ThreadRun ==
    ASSUME QueueInv, ThreadInv, NEW t \in Threads, Run(t) PROVE ThreadInv'
<1>0. /\ drain.by \in Threads \cup {NoThread} /\ outcome \in [Threads -> Queue!Outcomes]
      /\ thread["writer"] \in WriterSteps /\ t \in {"writer", "loop"}
      /\ thread \in [Threads -> WriterSteps \cup LoopSteps] /\ run \in Threads \cup {NoThread}
      /\ NoThread \notin Threads
  BY HostAssumption DEF QueueInv, ThreadInv, Threads
<1>1. CASE BeginRun(t)
  <2>1. PICK pc \in {"derive", "settleDerive"} :
          thread' = [thread EXCEPT ![t] = pc] /\ (t = "writer" => pc = "derive")
    BY <1>0, <1>1 DEF BeginRun, Go, WriterSteps
  <2>2. /\ thread[t] \in {"run", "settle"} /\ run = NoThread /\ run' = t
        /\ UNCHANGED <<proc, drain, outcome>>
    BY <1>1 DEF BeginRun, archiveVars
  <2>3. \A u \in Threads : thread[u] \notin RunSteps
    BY <1>0, <2>2 DEF ThreadInv
  <2>4. drain.by # t
    BY <2>2 DEF ThreadInv
  <2>5. proc'[Me].at \notin {"off", "starting"}
    BY <2>2, DrainOpened
  <2>6. Moves(t, pc)
    BY <2>1, <2>2, <2>3, <2>4, <2>5 DEF Moves, WriterSteps, LoopSteps
  <2> QED BY <2>6, ThreadMoves
<1>2. ASSUME NEW pc \in {"observe", "drain", "record", "tryInner"}, thread[t] \in RunSteps,
             thread' = [thread EXCEPT ![t] = pc], proc' = proc,
             IF pc = "tryInner" THEN t = "loop" /\ run' = NoThread ELSE run' = run,
             pc = "drain" <=> drain'.by = t,
             drain' = drain \/ drain'.by \in {t, NoThread},
             pc = "drain" => outcome'[t] = "none",
             outcome' = outcome \/ \E x : outcome' = [outcome EXCEPT ![t] = x]
      PROVE  ThreadInv'
  <2>1. run = t /\ \A u \in Threads \ {t} : thread[u] \notin RunSteps
    BY <1>0, <1>2 DEF ThreadInv
  <2>2. \A u \in Threads \ {t} : drain.by # u
    BY <2>1 DEF ThreadInv, RunSteps
  <2>3. \A u \in Threads \ {t} : drain'.by # u
    BY <1>0, <1>2, <2>2
  <2>4. \A u \in Threads \ {t} : outcome'[u] = outcome[u]
    BY <1>0, <1>2
  <2>5. thread[t] \notin {"off", "boot"} /\ run' \in Threads \cup {NoThread}
    BY <1>0, <1>2 DEF RunSteps
  <2>6. /\ t = "writer" => pc \in WriterSteps \ {"off", "boot"}
        /\ t = "loop" => pc \in LoopSteps
        /\ pc \in RunSteps => run' = t
    BY <1>2, <2>1 DEF WriterSteps, LoopSteps, RunSteps
  <2>7. proc'[Me].at \notin {"off", "starting"}
    BY <1>2, <2>5, DrainOpened
  <2>8. Moves(t, pc)
    BY <1>2, <2>1, <2>2, <2>3, <2>4, <2>5, <2>6, <2>7 DEF Moves
  <2> QED BY <2>8, ThreadMoves
<1>3. CASE DeriveStops(t)
  <2>1. /\ thread[t] \in RunSteps /\ thread[t] # "drain"
        /\ UNCHANGED <<proc, run, drain>> /\ Go(t, "record")
        /\ \E x : outcome' = [outcome EXCEPT ![t] = x]
    BY <1>3 DEF DeriveStops, Result, archiveVars, RunSteps
  <2> QED BY <1>2, <2>1 DEF Go, ThreadInv
<1>4. CASE DeriveNothing(t)
  <2>1. /\ thread[t] \in RunSteps /\ UNCHANGED <<proc, run>> /\ drain.by = NoThread
        /\ \/ Go(t, "record") /\ drain' = drain
           \/ Go(t, "drain") /\ drain'.by = t
    BY <1>4 DEF DeriveNothing, archiveVars, RunSteps, Queue!Resume, Queue!DrainLockFree
  <2>2. /\ \E x : outcome' = [outcome EXCEPT ![t] = x]
        /\ drain' # drain => outcome'[t] = "none"
    BY <1>0, <1>4 DEF DeriveNothing, Queue!Resume, Queue!Answer
  <2>3. drain' = drain => drain'.by # t
    BY <1>0, <2>1
  <2> QED BY <1>0, <1>2, <2>1, <2>2, <2>3 DEF Go
<1>5. CASE DeriveMissing(t)
  <2>1. /\ thread[t] \in RunSteps /\ thread[t] # "drain" /\ UNCHANGED <<proc, drain, outcome>>
        /\ \/ Go(t, "observe") /\ run' = run
           \/ Go(t, "tryInner") /\ run' = NoThread /\ t = "loop"
    BY <1>0, <1>5 DEF DeriveMissing, archiveVars, RunSteps, WriterSteps
  <2> QED BY <1>2, <2>1 DEF Go, ThreadInv
<1>6. CASE ObserveStops(t)
  <2>1. /\ thread[t] \in RunSteps /\ thread[t] # "drain"
        /\ UNCHANGED <<proc, run, drain>> /\ Go(t, "record")
        /\ \E x : outcome' = [outcome EXCEPT ![t] = x]
    BY <1>6 DEF ObserveStops, Result, archiveVars, RunSteps
  <2> QED BY <1>2, <2>1 DEF Go, ThreadInv
<1>7. CASE PublishPlan(t)
  <2>1. /\ thread[t] \in RunSteps /\ UNCHANGED <<proc, run>> /\ drain.by = NoThread
        /\ Go(t, IF outcome'[t] = "none" THEN "drain" ELSE "record")
    BY <1>7 DEF PublishPlan, archiveVars, RunSteps, Queue!Publish, Queue!PublishOverLimit,
         Queue!PublishDeferred, Queue!PublishDrain, Queue!DrainLockFree
  <2>2. \/ drain' = drain /\ outcome' = [outcome EXCEPT ![t] = "QueueLimitReached"]
        \/ drain' = drain /\ outcome' = [outcome EXCEPT ![t] = "Deferred"]
        \/ drain'.by = t /\ outcome' = [outcome EXCEPT ![t] = "none"]
    BY <1>7 DEF PublishPlan, Queue!Publish, Queue!PublishOverLimit,
         Queue!PublishDeferred, Queue!PublishDrain, Queue!Answer
  <2>3. CASE drain'.by = t /\ outcome' = [outcome EXCEPT ![t] = "none"]
    <3>1. Go(t, "drain") /\ outcome'[t] = "none"
      BY <1>0, <2>1, <2>3
    <3> QED BY <1>2, <2>1, <2>3, <3>1 DEF Go
  <2>4. CASE drain' = drain /\ \E x \in {"QueueLimitReached", "Deferred"} :
                                   outcome' = [outcome EXCEPT ![t] = x]
    <3>1. Go(t, "record") /\ drain'.by # t
      BY <1>0, <2>1, <2>4
    <3> QED BY <1>2, <2>1, <2>4, <3>1 DEF Go
  <2> QED BY <2>2, <2>3, <2>4
<1>8. CASE DrainPlan(t)
  <2>1. /\ thread[t] = "drain" /\ thread[t] \in RunSteps /\ UNCHANGED <<proc, run>>
        /\ Go(t, IF outcome'[t] = "none" THEN "drain" ELSE "record")
    BY <1>8 DEF DrainPlan, RunSteps
  <2>2. drain.by = t /\ outcome[t] = "none"
    BY <2>1 DEF ThreadInv
  <2>3. \/ drain'.by = drain.by /\ outcome' = outcome
        \/ /\ drain'.by = NoThread
           /\ \E x \in {"PublishedCompletely", "Deferred", "Failed"} :
                  outcome' = [outcome EXCEPT ![t] = x]
    <3>1. DOMAIN drain = {"by", "plan", "done"}
      BY DEF QueueInv
    <3> QED BY <1>8, <3>1 DEF DrainPlan, Queue!Drain, Queue!DrainObject, Queue!DrainStops,
              Queue!DrainDone, Queue!Answer, Queue!NoDrain
  <2>4. CASE drain'.by = drain.by /\ outcome' = outcome
    BY <1>2, <2>1, <2>2, <2>4 DEF Go
  <2>5. CASE /\ drain'.by = NoThread
             /\ \E x \in {"PublishedCompletely", "Deferred", "Failed"} :
                    outcome' = [outcome EXCEPT ![t] = x]
    <3>1. Go(t, "record") /\ drain'.by # t
      BY <1>0, <2>1, <2>5
    <3> QED BY <1>2, <2>1, <2>5, <3>1 DEF Go
  <2> QED BY <2>3, <2>4, <2>5
<1>9. CASE Record(t)
  <2>1. /\ thread[t] = "record" /\ run' = NoThread /\ UNCHANGED <<proc, drain>>
        /\ outcome' = [outcome EXCEPT ![t] = "none"]
    BY <1>9 DEF Record, Result, archiveVars
  <2>2. /\ t = "writer" => /\ thread'["writer"] = "idle"
                           /\ thread'["loop"] = IF thread["loop"] = "off" THEN "delay"
                                                ELSE thread["loop"]
        /\ t = "loop" => thread'["loop"] = "clear" /\ thread'["writer"] = thread["writer"]
        /\ thread' \in [Threads -> WriterSteps \cup LoopSteps]
    BY <1>0, <1>9 DEF Record, Threads, WriterSteps, LoopSteps
  <2>3. run = t /\ \A u \in Threads \ {t} : thread[u] \notin RunSteps
    BY <1>0, <2>1 DEF ThreadInv, RunSteps
  <2>4. \A u \in Threads : thread'[u] \notin RunSteps /\ thread[u] # "drain"
    BY <2>1, <2>2, <2>3 DEF RunSteps, Threads
  <2>5. \A u \in Threads : thread'[u] # "drain" /\ drain'.by # u
    BY <2>1, <2>4 DEF RunSteps, ThreadInv
  <2>6. thread["writer"] \notin {"off", "boot"} /\ thread["loop"] \in LoopSteps
    BY <1>0, <2>1 DEF ThreadInv
  <2>7. /\ thread'["writer"] \in WriterSteps \ {"off", "boot"} /\ thread'["loop"] \in LoopSteps
    BY <1>0, <2>2, <2>6 DEF WriterSteps, LoopSteps
  <2> QED BY <2>1, <2>2, <2>4, <2>5, <2>6, <2>7 DEF ThreadInv
<1> QED BY <1>1, <1>3, <1>4, <1>5, <1>6, <1>7, <1>8, <1>9 DEF Run

LEMMA ThreadNext ==
    ASSUME ArchiveInv, QueueInv, ThreadInv, [Next]_vars PROVE ThreadInv'
<1>0. /\ "writer" \in Threads /\ "loop" \in Threads /\ run \in Threads \cup {NoThread}
      /\ thread \in [Threads -> WriterSteps \cup LoopSteps] /\ NoThread \notin Threads
      /\ \A t \in Threads : thread[t] = "drain" <=> drain.by = t
      /\ \A t \in Threads : thread[t] \in RunSteps => run = t
  BY HostAssumption DEF ThreadInv, Threads
<1>1. ASSUME NEW t \in Threads, Run(t) PROVE ThreadInv'
  BY <1>1, ThreadRun
<1>2. CASE Start
  <2>1. /\ UNCHANGED <<run, drain, outcome>> /\ thread["writer"] \in {"off", "boot"}
        /\ proc[Me].at \in {"off", "starting"} /\ thread["loop"] = "off"
    BY <1>2 DEF Start, ThreadInv
  <2>2. proc'[Me].at \in {"off", "starting", "idle"}
    BY <1>2, <2>1, Activity
  <2>3. /\ thread'["loop"] = "off" /\ thread' \in [Threads -> WriterSteps \cup LoopSteps]
        /\ thread'["writer"] = CASE proc'[Me].at = "off" -> "off"
                                 [] proc'[Me].at = "starting" -> "boot"
                                 [] OTHER -> "run"
    BY <1>0, <1>2, <2>1 DEF Start, Go, WriterSteps
  <2>4. /\ thread'["writer"] = "off" <=> proc'[Me].at = "off"
        /\ thread'["writer"] = "boot" <=> proc'[Me].at = "starting"
        /\ thread'["writer"] \in {"off", "boot", "run"}
    BY <2>2, <2>3
  <2>5. \A t \in Threads : /\ thread'[t] \notin RunSteps /\ thread'[t] # "drain"
                           /\ thread[t] # "drain"
    BY <2>1, <2>3, <2>4 DEF RunSteps, Threads
  <2> QED BY <1>0, <2>1, <2>3, <2>4, <2>5 DEF ThreadInv, WriterSteps, LoopSteps
<1>3. ASSUME NEW t \in Threads, NEW pc, thread[t] \notin RunSteps \cup {"off", "boot"},
             pc \notin RunSteps \cup {"off", "boot"},
             t = "writer" => pc \in WriterSteps, t = "loop" => pc \in LoopSteps,
             thread' = [thread EXCEPT ![t] = pc], proc'[Me].at \notin {"off", "starting"},
             UNCHANGED <<run, drain, outcome>>
      PROVE  ThreadInv'
  <2>1. drain.by # t /\ pc # "drain"
    BY <1>0, <1>3 DEF RunSteps
  <2>2. Moves(t, pc)
    BY <1>0, <1>3, <2>1 DEF Moves
  <2> QED BY <2>2, ThreadMoves
<1>4. CASE BeginAction
  <2>1. /\ thread["writer"] = "idle" /\ thread' = [thread EXCEPT !["writer"] = "act"]
        /\ UNCHANGED <<proc, run, drain, outcome>>
    BY <1>4 DEF BeginAction, Go, archiveVars
  <2>2. proc'[Me].at \notin {"off", "starting"}
    BY <1>0, <2>1, DrainOpened
  <2> QED BY <1>0, <1>3, <2>1, <2>2 DEF RunSteps, WriterSteps
<1>5. CASE Act
  <2>1. UNCHANGED <<run, drain, outcome>> /\ thread["writer"] = "act"
    BY <1>5 DEF Act
  <2>2. PICK pc \in {"act", "run", "idle"} : thread' = [thread EXCEPT !["writer"] = pc]
    BY <1>0, <1>5, <2>1 DEF Act, Go
  <2>3. proc'[Me].at \notin {"off", "starting"}
    BY <1>0, <1>5, <2>1, Activity, DrainOpened
  <2> QED BY <1>0, <1>3, <2>1, <2>2, <2>3 DEF RunSteps, WriterSteps
<1>6. CASE Loop /\ ~Reopen
  <2>1. /\ UNCHANGED <<proc, run, drain, outcome>>
        /\ thread["loop"] \in {"delay", "rest", "wait", "tryInner", "clear"}
        /\ \E pc \in {"rest", "ended", "wait", "delay", "settle", "reopen"} :
               thread' = [thread EXCEPT !["loop"] = pc]
    <3>1. CASE NextDelay \/ WakeSignaled \/ WakeElapsed
      BY <3>1 DEF NextDelay, WakeSignaled, WakeElapsed, Go, archiveVars
    <3>2. CASE TryInner \/ SkipRun \/ ClearSignal
      BY <3>2 DEF TryInner, SkipRun, ClearSignal, Go, archiveVars
    <3> QED BY <1>6, <3>1, <3>2 DEF Loop
  <2>2. proc'[Me].at \notin {"off", "starting"}
    BY <1>0, <2>1, DrainOpened
  <2>3. PICK pc \in {"rest", "ended", "wait", "delay", "settle", "reopen"} :
            thread' = [thread EXCEPT !["loop"] = pc]
    BY <2>1
  <2>4. pc \notin RunSteps \cup {"off", "boot"} /\ pc \in LoopSteps
    BY DEF RunSteps, LoopSteps
  <2>5. thread["loop"] \notin RunSteps \cup {"off", "boot"}
    BY <2>1 DEF RunSteps
  <2> QED BY <1>0, <1>3, <2>1, <2>2, <2>3, <2>4, <2>5
<1>7. CASE Reopen
  <2>1. UNCHANGED <<run, drain, outcome>> /\ thread["loop"] = "reopen"
    BY <1>7 DEF Reopen
  <2>2. PICK pc \in {"reopen", "run"} : thread' = [thread EXCEPT !["loop"] = pc]
    BY <1>7, <2>1 DEF Reopen, Go
  <2>3. proc'[Me].at \notin {"off", "starting"}
    BY <1>0, <1>7, <2>1, Activity, DrainOpened
  <2> QED BY <1>0, <1>3, <2>1, <2>2, <2>3 DEF RunSteps, LoopSteps
<1>8. CASE ExitHost
  <2>1. proc'[Me].at = "off"
    BY <1>8, OneProcess DEF ExitHost, Exit, Idle, ArchiveInv
  <2>2. drain'.by = NoThread /\ run' = NoThread /\ thread' = [t \in Threads |-> "off"]
    BY <1>8 DEF ExitHost, Queue!QueueLost, Queue!NoDrain
  <2> QED BY <1>0, <2>1, <2>2 DEF ThreadInv, RunSteps, WriterSteps, LoopSteps
<1>9. CASE SetReachable /\ UNCHANGED hostVars
  BY <1>9 DEF SetReachable, hostVars, ThreadInv
<1>10. CASE UNCHANGED vars
  BY <1>10 DEF vars, archiveVars, hostVars, ThreadInv
<1> QED BY <1>1, <1>2, <1>4, <1>5, <1>6, <1>7, <1>8, <1>9, <1>10 DEF Next, Loop

\* The plans a step may put somewhere; none of them runs ahead of the
\* directory the step leaves.
Plans == {slot, plan, drain.plan, <<>>, Queue!Merge(slot, plan), DerivePending}
ClosedNext(p) ==
    \A i \in DOMAIN p :
        /\ p[i] \in net' \cup local'
        /\ Deps(p[i]) \subseteq net' \cup {p[j] : j \in 1 .. i - 1}

LEMMA PlansClosed ==
    ASSUME ArchiveInv, GrantInv, QueueInv, [ArchiveNext]_archiveVars
    PROVE  \A p \in Plans : p \in Seq(Objects) /\ ClosedNext(p)
<1>1. net \subseteq net' /\ net \cup local \subseteq net' \cup local'
  BY RowsKept
<1>2. ASSUME NEW p, Closed(p) PROVE ClosedNext(p)
  <2> SUFFICES ASSUME NEW i \in DOMAIN p
               PROVE  /\ p[i] \in net' \cup local'
                      /\ Deps(p[i]) \subseteq net' \cup {p[j] : j \in 1 .. i - 1}
    BY DEF ClosedNext
  <2>1. /\ p[i] \in net \cup local
        /\ Deps(p[i]) \subseteq net \cup {p[j] : j \in 1 .. i - 1}
    BY <1>2 DEF Closed
  <2> QED BY <1>1, <2>1
<1>3. /\ slot \in Seq(Objects) /\ Closed(slot)
      /\ plan \in Seq(Objects) /\ Closed(plan)
      /\ drain.plan \in Seq(Objects) /\ Closed(drain.plan)
  BY DEF QueueInv
<1>4. Queue!Merge(slot, plan) \in Seq(Objects) /\ Closed(Queue!Merge(slot, plan))
  BY <1>3, MergeIs
<1>5. DerivePending \in Seq(Objects) /\ Closed(DerivePending)
  BY DeriveIs
<1>6. <<>> \in Seq(Objects) /\ Closed(<<>>)
  BY DEF Closed
<1> QED BY <1>2, <1>3, <1>4, <1>5, <1>6 DEF Plans

\* Where plans go: between their place and the drain, from the derivation
\* to the queue.
LEMMA PlansMove ==
    ASSUME QueueInv, [Next]_vars
    PROVE  /\ slot' \in Plans /\ plan' \in Plans
           /\ \/ drain' = drain
              \/ \E c \in Threads \cup {NoThread}, p \in Plans :
                     drain' = [by |-> c, plan |-> p, done |-> 0]
              \/ /\ drain.done < Len(drain.plan)
                 /\ drain' = [drain EXCEPT !.done = drain.done + 1]
                 /\ net' = net \cup {drain.plan[drain.done + 1]}
           /\ \/ outcome' = [c \in Threads |-> "none"]
              \/ outcome' = outcome
              \/ \E c \in Threads, x \in Queue!Outcomes : outcome' = [outcome EXCEPT ![c] = x]
<1>0. /\ slot \in Plans /\ plan \in Plans /\ drain.plan \in Plans /\ <<>> \in Plans
      /\ Queue!Merge(slot, plan) \in Plans /\ DerivePending \in Plans
  BY DEF Plans
<1> USE <1>0 DEF Queue!Outcomes
<1>1. ASSUME NEW t \in Threads, BeginRun(t) \/ DeriveStops(t) \/ DeriveMissing(t)
                                \/ ObserveStops(t) \/ Record(t)
      PROVE  /\ slot' = slot /\ plan' \in Plans /\ drain' = drain
             /\ \/ outcome' = outcome
                \/ \E x \in {"Deferred", "Failed", "none"} : outcome' = [outcome EXCEPT ![t] = x]
  BY <1>1 DEF BeginRun, DeriveStops, DeriveMissing, ObserveStops, Record, Result
<1>2. ASSUME NEW t \in Threads, DeriveNothing(t)
      PROVE  /\ slot' \in Plans /\ plan' = plan
             /\ drain' = drain \/ drain' = [by |-> t, plan |-> slot, done |-> 0]
             /\ \E x \in {"NothingPending", "none"} : outcome' = [outcome EXCEPT ![t] = x]
  BY <1>2 DEF DeriveNothing, Queue!Resume, Queue!Answer
<1>3. ASSUME NEW t \in Threads, PublishPlan(t)
      PROVE  /\ slot' \in Plans /\ plan' = <<>>
             /\ \/ drain' = drain
                \/ drain' = [by |-> t, plan |-> Queue!Merge(slot, plan), done |-> 0]
             /\ \E x \in {"QueueLimitReached", "Deferred", "none"} :
                    outcome' = [outcome EXCEPT ![t] = x]
  BY <1>3 DEF PublishPlan, Queue!Publish, Queue!PublishOverLimit, Queue!PublishDeferred,
       Queue!PublishDrain, Queue!Answer
<1>4. ASSUME NEW t \in Threads, DrainPlan(t)
      PROVE  /\ slot' \in Plans /\ plan' = plan
             /\ \/ drain' = [by |-> NoThread, plan |-> <<>>, done |-> 0]
                \/ /\ drain.done < Len(drain.plan)
                   /\ drain' = [drain EXCEPT !.done = drain.done + 1]
                   /\ net' = net \cup {drain.plan[drain.done + 1]}
             /\ \/ outcome' = outcome
                \/ \E x \in {"PublishedCompletely", "Deferred", "Failed"} :
                       outcome' = [outcome EXCEPT ![t] = x]
  BY <1>4 DEF DrainPlan, Queue!Drain, Queue!DrainObject, Queue!DrainStops, Queue!DrainDone,
       Queue!Answer, Queue!NoDrain
<1>5. CASE Start \/ BeginAction \/ Act \/ Loop \/ UNCHANGED hostVars \/ UNCHANGED vars
  <2>1. UNCHANGED <<slot, plan, drain, outcome>>
    BY <1>5 DEF Start, BeginAction, Act, Loop, NextDelay, WakeSignaled, WakeElapsed,
         TryInner, SkipRun, Reopen, ClearSignal, hostVars, vars
  <2> QED BY <2>1
<1>6. CASE ExitHost
  BY <1>6 DEF ExitHost, Queue!QueueLost, Queue!NoDrain
<1>7. ASSUME NEW t \in Threads, Run(t)
      PROVE  \/ BeginRun(t) \/ DeriveStops(t) \/ DeriveMissing(t) \/ ObserveStops(t) \/ Record(t)
             \/ DeriveNothing(t) \/ PublishPlan(t) \/ DrainPlan(t)
  BY <1>7 DEF Run
<1> QED BY <1>1, <1>2, <1>3, <1>4, <1>5, <1>6, <1>7 DEF Next

LEMMA QueueNext ==
    ASSUME ArchiveInv, GrantInv, QueueInv, ThreadInv, [Next]_vars PROVE QueueInv'
<1>1. [ArchiveNext]_archiveVars
  BY StepIsArchive
<1>2. /\ net \subseteq net'
      /\ \A p \in Plans : p \in Seq(Objects) /\ ClosedNext(p)
  BY <1>1, RowsKept, PlansClosed
<1>3. /\ slot' \in Seq(Objects) /\ ClosedNext(slot') /\ plan' \in Seq(Objects)
      /\ ClosedNext(plan')
  BY <1>2, PlansMove
<1>4. outcome' \in [Threads -> Queue!Outcomes]
  <2>1. outcome \in [Threads -> Queue!Outcomes] /\ "none" \in Queue!Outcomes
    BY DEF QueueInv, Queue!Outcomes
  <2> QED BY <2>1, PlansMove
<1>5. /\ drain' \in [by : Threads \cup {NoThread}, plan : Seq(Objects), done : Nat]
      /\ drain'.plan \in Seq(Objects) /\ ClosedNext(drain'.plan)
      /\ drain'.done <= Len(drain'.plan)
      /\ \A i \in 1 .. drain'.done : drain'.plan[i] \in net'
  <2>0. /\ drain \in [by : Threads \cup {NoThread}, plan : Seq(Objects), done : Nat]
        /\ drain.done <= Len(drain.plan) /\ \A i \in 1 .. drain.done : drain.plan[i] \in net
        /\ ClosedNext(drain.plan)
    BY <1>2 DEF QueueInv, Plans
  <2>1. CASE drain' = drain
    BY <1>2, <2>0, <2>1
  <2>2. CASE \E c \in Threads \cup {NoThread}, p \in Plans :
                 drain' = [by |-> c, plan |-> p, done |-> 0]
    <3>1. PICK c \in Threads \cup {NoThread}, p \in Plans :
              drain' = [by |-> c, plan |-> p, done |-> 0]
      BY <2>2
    <3>2. p \in Seq(Objects) /\ ClosedNext(p) /\ Len(p) \in Nat
      BY <1>2
    <3>3. drain'.by = c /\ drain'.plan = p /\ drain'.done = 0
      BY <3>1
    <3>4. drain' \in [by : Threads \cup {NoThread}, plan : Seq(Objects), done : Nat]
      BY <3>1, <3>2
    <3> QED BY <3>2, <3>3, <3>4
  <2>3. CASE /\ drain.done < Len(drain.plan)
             /\ drain' = [drain EXCEPT !.done = drain.done + 1]
             /\ net' = net \cup {drain.plan[drain.done + 1]}
    <3>1. /\ drain'.by = drain.by /\ drain'.plan = drain.plan /\ drain'.done = drain.done + 1
          /\ drain' \in [by : Threads \cup {NoThread}, plan : Seq(Objects), done : Nat]
      BY <2>0, <2>3
    <3>2. \A i \in 1 .. drain.done + 1 : i \in 1 .. drain.done \/ i = drain.done + 1
      BY <2>0
    <3>3. drain.done + 1 <= Len(drain.plan)
      BY <2>0, <2>3
    <3> QED BY <2>0, <2>3, <3>1, <3>2, <3>3
  <2> QED BY <2>1, <2>2, <2>3, PlansMove
<1> QED BY <1>3, <1>4, <1>5 DEF QueueInv, ClosedNext, Closed

-----------------------------------------------------------------------------
\* What is shown as saved.

\* The loop adds no rows: it only prunes.
LEMMA LoopAddsNoRows ==
    ASSUME Loop PROVE local' \subseteq local
BY DEF Loop, NextDelay, WakeSignaled, WakeElapsed, TryInner, SkipRun, Reopen, ClearSignal,
       ReadNetwork, OpenVerified, OpenRefused, PruneRows, DropRuntime, archiveVars

\* The parts of SavedInv.
Covered(t) ==
    Settled(t) =>
      /\ thread[t] = "observe" => local \subseteq net \cup Range(plan)
      /\ thread[t] = "drain" => local \subseteq net \cup Range(drain.plan)
      /\ thread[t] = "record" /\ outcome[t] \in Queue!NothingOutstanding =>
             local \subseteq net
Shown ==
    /\ host.observed = "Clean" /\ thread["writer"] = "idle" /\ ~unreported
    /\ \A t \in Threads : thread[t] \notin {"observe", "drain", "record"}
    => local \subseteq net

LEMMA SavedParts ==
    SavedInv <=> unreported \in BOOLEAN /\ (\A t \in Threads : Covered(t)) /\ Shown
BY DEF SavedInv, Covered, Shown

\* The thread that runs decides; the other one is outside its run.
LEMMA SavedRun ==
    ASSUME ArchiveInv, GrantInv, QueueInv, ThreadInv, SavedInv, AttemptInv,
           NEW t \in Threads, Run(t), net \subseteq net', local' = local
    PROVE  SavedInv'
<1>0. /\ unreported \in BOOLEAN /\ Covered(t) /\ Shown
      /\ thread \in [Threads -> WriterSteps \cup LoopSteps]
      /\ outcome \in [Threads -> Queue!Outcomes] /\ "writer" \in Threads /\ "loop" \in Threads
  BY SavedParts DEF ThreadInv, QueueInv, Threads
<1> SUFFICES unreported' \in BOOLEAN /\ (\A u \in Threads : Covered(u)') /\ Shown'
  BY DEF SavedInv, Covered, Shown
<1>1. CASE BeginRun(t)
  <2>1. /\ UNCHANGED <<net, local, unreported, plan, drain, outcome, host>>
        /\ \A u \in Threads : /\ u # t => thread'[u] = thread[u]
                              /\ u = t => thread[u] \in {"run", "settle"}
                                          /\ thread'[u] \in {"derive", "settleDerive"}
    BY <1>0, <1>1 DEF BeginRun, Go, archiveVars, otherVars
  <2>2. \A u \in Threads : Covered(u)
    BY SavedParts
  <2>3. thread'["writer"] = "idle" => thread["writer"] = "idle"
    BY <1>0, <2>1
  <2>4. Shown'
    BY <1>0, <2>1, <2>3 DEF Shown
  <2>5. \A u \in Threads : Covered(u)'
    BY <1>0, <2>1, <2>2, <2>3 DEF Covered, Settled
  <2> QED BY <1>0, <2>1, <2>4, <2>5
<1>2. ASSUME thread[t] \in RunSteps
      PROVE  \A u \in Threads \ {t} : thread[u] \notin RunSteps
  BY <1>2, HostAssumption DEF ThreadInv
<1>3. ASSUME thread[t] \in RunSteps, \A u \in Threads \ {t} : thread'[u] = thread[u]
      PROVE  \A u \in Threads \ {t} : Covered(u)'
  <2>1. \A u \in Threads \ {t} : thread'[u] \notin {"observe", "drain", "record"}
    BY <1>2, <1>3 DEF RunSteps
  <2> QED BY <2>1 DEF Covered
<1>4. CASE DeriveStops(t)
  <2>1. /\ thread[t] \in RunSteps /\ thread' = [thread EXCEPT ![t] = "record"]
        /\ outcome'[t] \in {"Deferred", "Failed"} /\ unreported' = FALSE
    BY <1>0, <1>4 DEF DeriveStops, Go, Result, RunSteps
  <2>2. thread'[t] = "record" /\ \A u \in Threads \ {t} : thread'[u] = thread[u]
    BY <1>0, <2>1
  <2>3. Covered(t)' /\ Shown'
    BY <2>1, <2>2 DEF Covered, Shown, Queue!NothingOutstanding
  <2> QED BY <1>3, <2>1, <2>2, <2>3
<1>5. CASE DeriveNothing(t)
  <2>1. /\ thread[t] \in RunSteps /\ local \subseteq net /\ net' = net
        /\ \E pc \in {"drain", "record"} : thread' = [thread EXCEPT ![t] = pc]
        /\ unreported' = FALSE
    BY <1>5 DEF DeriveNothing, Go, RunSteps, Missing, archiveVars
  <2>2. \A u \in Threads \ {t} : thread'[u] = thread[u]
    BY <1>0, <2>1
  <2>3. Covered(t)' /\ Shown'
    BY <2>1 DEF Covered, Shown
  <2> QED BY <1>3, <2>1, <2>2, <2>3
<1>6. CASE DeriveMissing(t)
  <2>1. thread[t] \in {"derive", "settleDerive"} /\ thread[t] \in RunSteps
        /\ UNCHANGED <<net, drain, outcome, host>>
    BY <1>6 DEF DeriveMissing, RunSteps, archiveVars
  <2>2. CASE thread[t] = "derive"
    <3>1. /\ plan' = DerivePending /\ thread' = [thread EXCEPT ![t] = "observe"]
          /\ unreported' = FALSE
      BY <1>6, <2>2 DEF DeriveMissing, Go
    <3>2. thread'[t] = "observe" /\ \A u \in Threads \ {t} : thread'[u] = thread[u]
      BY <1>0, <3>1
    <3>3. local \subseteq net \cup Range(plan')
      BY <3>1, DeriveIs DEF Missing
    <3>4. Covered(t)' /\ Shown'
      BY <2>1, <3>2, <3>3 DEF Covered, Shown
    <3> QED BY <1>3, <2>1, <3>1, <3>2, <3>4
  <2>3. CASE thread[t] = "settleDerive"
    <3>1. thread' = [thread EXCEPT ![t] = "tryInner"] /\ UNCHANGED <<plan, unreported>>
      BY <1>6, <2>3 DEF DeriveMissing, Go
    <3>2. thread'[t] = "tryInner" /\ \A u \in Threads \ {t} : thread'[u] = thread[u]
      BY <1>0, <3>1
    <3>3. Covered(t)'
      BY <3>2 DEF Covered
    <3>4. Shown'
      BY <1>0, <2>1, <2>3, <3>1, <3>2 DEF Shown
    <3> QED BY <1>0, <1>3, <2>1, <3>1, <3>2, <3>3, <3>4
  <2> QED BY <2>1, <2>2, <2>3
<1>7. CASE ObserveStops(t)
  <2>1. /\ thread[t] \in RunSteps /\ thread' = [thread EXCEPT ![t] = "record"]
        /\ outcome'[t] \in {"Deferred", "Failed"} /\ unreported' = unreported
    BY <1>0, <1>7 DEF ObserveStops, Go, Result, RunSteps, otherVars
  <2>2. thread'[t] = "record" /\ \A u \in Threads \ {t} : thread'[u] = thread[u]
    BY <1>0, <2>1
  <2>3. Covered(t)' /\ Shown'
    BY <2>1, <2>2 DEF Covered, Shown, Queue!NothingOutstanding
  <2> QED BY <1>0, <1>3, <2>1, <2>2, <2>3
<1>8. CASE PublishPlan(t)
  <2>1. /\ thread[t] = "observe" /\ thread[t] \in RunSteps /\ UNCHANGED <<net, unreported>>
        /\ thread' = [thread EXCEPT ![t] = IF outcome'[t] = "none" THEN "drain" ELSE "record"]
    BY <1>8 DEF PublishPlan, Go, RunSteps, archiveVars, otherVars
  <2>2. \/ outcome'[t] \in {"QueueLimitReached", "Deferred"}
        \/ outcome'[t] = "none" /\ drain'.plan = Queue!Merge(slot, plan)
    <3>1. \/ outcome' = [outcome EXCEPT ![t] = "QueueLimitReached"]
          \/ outcome' = [outcome EXCEPT ![t] = "Deferred"]
          \/ /\ outcome' = [outcome EXCEPT ![t] = "none"]
             /\ drain' = [by |-> t, plan |-> Queue!Merge(slot, plan), done |-> 0]
      BY <1>8 DEF PublishPlan, Queue!Publish, Queue!PublishOverLimit,
           Queue!PublishDeferred, Queue!PublishDrain, Queue!Answer
    <3>2. outcome'[t] \in {"QueueLimitReached", "Deferred", "none"}
      BY <1>0, <3>1
    <3>3. ASSUME outcome'[t] = "none"
          PROVE  drain' = [by |-> t, plan |-> Queue!Merge(slot, plan), done |-> 0]
      BY <1>0, <3>1, <3>3
    <3>4. ASSUME outcome'[t] = "none" PROVE drain'.plan = Queue!Merge(slot, plan)
      BY <3>3, <3>4
    <3> QED BY <3>2, <3>4
  <2>3. Range(plan) \subseteq Range(Queue!Merge(slot, plan))
    BY MergeIs DEF QueueInv
  <2>4. thread'[t] \in {"drain", "record"} /\ \A u \in Threads \ {t} : thread'[u] = thread[u]
    BY <1>0, <2>1
  <2>5. Settled(t)' => Settled(t)
    BY <1>0, <2>1 DEF Settled
  <2>6. Covered(t)'
    BY <1>0, <2>1, <2>2, <2>3, <2>5 DEF Covered, Queue!NothingOutstanding
  <2>7. Shown'
    BY <2>4 DEF Shown
  <2> QED BY <1>0, <1>3, <2>1, <2>4, <2>6, <2>7
<1>9. CASE DrainPlan(t)
  <2>1. /\ thread[t] = "drain" /\ thread[t] \in RunSteps /\ UNCHANGED unreported
        /\ thread' = [thread EXCEPT ![t] = IF outcome'[t] = "none" THEN "drain" ELSE "record"]
    BY <1>9 DEF DrainPlan, Go, RunSteps, otherVars
  <2>2. \/ outcome' = outcome /\ drain'.plan = drain.plan
        \/ outcome'[t] \in {"Deferred", "Failed"}
        \/ outcome'[t] = "PublishedCompletely" /\ drain.done = Len(drain.plan)
    <3>1. drain \in [by : Threads \cup {NoThread}, plan : Seq(Objects), done : Nat]
      BY DEF QueueInv
    <3> QED BY <1>0, <1>9, <3>1 DEF DrainPlan, Queue!Drain, Queue!DrainObject,
              Queue!DrainStops, Queue!DrainDone, Queue!Answer
  <2>3. drain.done = Len(drain.plan) => Range(drain.plan) \subseteq net
    <3>1. DOMAIN drain.plan = 1 .. Len(drain.plan) /\ \A i \in 1 .. drain.done : drain.plan[i] \in net
      BY DEF QueueInv
    <3> QED BY <3>1 DEF Range
  <2>4. thread'[t] \in {"drain", "record"} /\ \A u \in Threads \ {t} : thread'[u] = thread[u]
    BY <1>0, <2>1
  <2>5. Settled(t)' => Settled(t)
    BY <1>0, <2>1 DEF Settled
  <2>6. outcome[t] = "none"
    BY <2>1 DEF ThreadInv
  <2>7. Settled(t) => local \subseteq net \cup Range(drain.plan)
    BY <1>0, <2>1 DEF Covered
  <2>8. CASE outcome' = outcome /\ drain'.plan = drain.plan
    <3>1. thread'[t] = "drain"
      BY <1>0, <2>1, <2>6, <2>8
    <3> QED BY <1>0, <1>3, <2>1, <2>4, <2>5, <2>7, <2>8, <3>1 DEF Covered, Shown
  <2>9. CASE outcome'[t] \in {"Deferred", "Failed"}
    <3>1. thread'[t] = "record"
      BY <1>0, <2>1, <2>9
    <3> QED BY <1>0, <1>3, <2>1, <2>4, <2>9, <3>1 DEF Covered, Shown, Queue!NothingOutstanding
  <2>10. CASE outcome'[t] = "PublishedCompletely" /\ drain.done = Len(drain.plan)
    <3>1. thread'[t] = "record"
      BY <1>0, <2>1, <2>10
    <3> QED BY <1>0, <1>3, <2>1, <2>3, <2>4, <2>5, <2>7, <2>10, <3>1 DEF Covered, Shown
  <2> QED BY <2>2, <2>8, <2>9, <2>10
<1>10. CASE Record(t)
  <2>1. /\ thread[t] = "record" /\ thread[t] \in RunSteps /\ UNCHANGED <<net, unreported>>
        /\ \A u \in Threads : /\ u = t => thread'[u] \in {"clear", "idle"}
                              /\ u # t => thread'[u] \in {thread[u], "delay"}
        /\ t = "loop" => thread'["writer"] = thread["writer"]
    BY <1>0, <1>10 DEF Record, RunSteps, archiveVars, Threads
  <2>2. \A u \in Threads : thread'[u] \notin {"observe", "drain", "record"}
    BY <1>2, <2>1 DEF RunSteps
  <2>3. host'.observed = "Clean" => outcome[t] \in Queue!NothingOutstanding
    <3>1. host'.observed = ObservedOf(outcome[t])
      BY <1>10 DEF Record, AttemptInv
    <3> QED BY <3>1 DEF ObservedOf
  <2>4. thread'["writer"] = "idle" /\ ~unreported => Settled(t)
    BY <2>1 DEF Settled, Threads
  <2>5. Shown'
    BY <1>0, <2>1, <2>3, <2>4 DEF Shown, Covered
  <2>6. \A u \in Threads : Covered(u)'
    BY <2>2 DEF Covered
  <2> QED BY <1>0, <2>1, <2>5, <2>6
<1> QED BY <1>1, <1>4, <1>5, <1>6, <1>7, <1>8, <1>9, <1>10 DEF Run

LEMMA SavedNext ==
    ASSUME ArchiveInv, GrantInv, QueueInv, ThreadInv, SavedInv, AttemptInv, [Next]_vars
    PROVE  SavedInv'
<1>0. net \subseteq net'
  BY StepIsArchive, RowsKept
<1>1. ASSUME NEW t \in Threads, Run(t) PROVE SavedInv'
  <2>1. local' = local
    BY <1>1, QueueKeepsArchive DEF archiveVars, DrainPlan
  <2> QED BY <1>0, <1>1, <2>1, SavedRun
<1>2. /\ unreported \in BOOLEAN /\ (\A t \in Threads : Covered(t)) /\ Shown
      /\ thread \in [Threads -> WriterSteps \cup LoopSteps]
      /\ \A t \in Threads : t \in {"writer", "loop"}
      /\ "writer" \in Threads /\ "loop" \in Threads
  BY SavedParts DEF ThreadInv, Threads
<1>3. ASSUME unreported' \in BOOLEAN, \A t \in Threads : Covered(t)', Shown'
      PROVE  SavedInv'
  BY <1>3 DEF SavedInv, Covered, Shown
<1>4. CASE Start
  <2>1. /\ thread'["writer"] \in {"off", "boot", "run"} /\ thread'["loop"] = "off"
        /\ unreported' = unreported
    <3>1. thread["loop"] = "off"
      BY <1>4 DEF Start, ThreadInv
    <3> QED BY <1>2, <1>4, <3>1 DEF Start, Go, otherVars
  <2> QED BY <1>2, <1>3, <2>1 DEF Covered, Shown
<1>5. CASE BeginAction
  <2>1. thread'["writer"] = "act" /\ unreported' = unreported
    BY <1>2, <1>5 DEF BeginAction, Go, otherVars
  <2> QED BY <1>2, <1>3, <2>1 DEF Covered, Shown, Settled
<1>6. CASE Act
  <2>1. \/ thread'["writer"] \in {"act", "run"} /\ unreported' = unreported
        \/ /\ thread'["writer"] = "idle"
           /\ unreported' = (unreported \/ ~(local' \subseteq net))
    BY <1>2, <1>6 DEF Act, Go
  <2>2. unreported' \in BOOLEAN /\ (thread'["writer"] = "idle" /\ ~unreported' => local' \subseteq net')
    BY <1>0, <1>2, <2>1
  <2>3. thread'["writer"] \in {"act", "run", "idle"}
    BY <2>1
  <2>4. \A t \in Threads : Covered(t)'
    <3>1. Covered("writer")'
      BY <2>3 DEF Covered
    <3>2. Covered("loop")'
      BY <2>2 DEF Covered, Settled
    <3> QED BY <1>2, <3>1, <3>2
  <2>5. Shown'
    BY <2>2 DEF Shown
  <2> QED BY <1>3, <2>2, <2>4, <2>5
<1>7. CASE Loop
  <2>1. /\ UNCHANGED <<plan, drain, outcome, unreported>> /\ local' \subseteq local
        /\ thread'["writer"] = thread["writer"]
        /\ thread["loop"] \notin {"observe", "drain", "record"}
        /\ thread'["loop"] \notin {"observe", "drain", "record"}
    <3>1. /\ UNCHANGED <<plan, drain, outcome, unreported>>
          /\ thread["loop"] \notin {"observe", "drain", "record"}
          /\ \E pc \in {"rest", "ended", "wait", "delay", "settle", "reopen", "run"} :
                 thread' = [thread EXCEPT !["loop"] = pc]
      <4>1. CASE NextDelay \/ WakeSignaled \/ WakeElapsed
        BY <1>2, <4>1 DEF NextDelay, WakeSignaled, WakeElapsed, Go, otherVars
      <4>2. CASE TryInner \/ SkipRun \/ ClearSignal
        BY <1>2, <4>2 DEF TryInner, SkipRun, ClearSignal, Go, otherVars
      <4>3. CASE Reopen
        BY <1>2, <4>3 DEF Reopen, Go
      <4> QED BY <1>7, <4>1, <4>2, <4>3 DEF Loop
    <3> QED BY <1>2, <1>7, <3>1, LoopAddsNoRows
  <2>2. host'.observed = host.observed
    <3>1. host \in [observed : {"Unknown", "Clean"} \cup Unclean, attempts : Nat,
                    counted : BOOLEAN, exhausted : BOOLEAN, signaled : BOOLEAN]
      BY DEF AttemptInv
    <3> QED BY <1>7, <3>1 DEF Loop, NextDelay, WakeSignaled, WakeElapsed, TryInner, SkipRun,
              Reopen, ClearSignal, Refund
  <2>3. Shown'
    BY <1>0, <1>2, <2>1, <2>2 DEF Shown
  <2>4. Covered("writer")' /\ Covered("loop")'
    BY <1>0, <1>2, <2>1 DEF Covered, Settled
  <2> QED BY <1>2, <1>3, <2>1, <2>3, <2>4
<1>8. CASE ExitHost
  <2>1. unreported' = FALSE /\ \A t \in Threads : thread'[t] = "off"
    BY <1>8 DEF ExitHost
  <2> QED BY <1>2, <1>3, <2>1 DEF Covered, Shown
<1>9. CASE SetReachable /\ UNCHANGED hostVars
  <2>1. UNCHANGED <<net, local, plan, drain, outcome, unreported, thread, host>>
    BY <1>9 DEF SetReachable, hostVars
  <2> QED BY <1>2, <1>3, <2>1 DEF Covered, Shown, Settled
<1>10. CASE UNCHANGED vars
  <2>1. UNCHANGED <<net, local, plan, drain, outcome, unreported, thread, host>>
    BY <1>10 DEF vars, archiveVars, hostVars
  <2> QED BY <1>2, <1>3, <2>1 DEF Covered, Shown, Settled
<1> QED BY <1>1, <1>4, <1>5, <1>6, <1>7, <1>8, <1>9, <1>10 DEF Next

-----------------------------------------------------------------------------
\* The loop.

LEMMA RecordHost ==
    ASSUME AttemptInv, ThreadInv, QueueInv, NEW t \in Threads, Record(t)
    PROVE  /\ host'.observed = ObservedOf(outcome[t])
           /\ host'.signaled = (host.signaled \/ Signals(outcome[t]))
           /\ host'.attempts = host.attempts /\ host'.counted = host.counted
           /\ host'.exhausted = host.exhausted
           /\ host' \in [observed : {"Unknown", "Clean"} \cup Unclean, attempts : Nat,
                         counted : BOOLEAN, exhausted : BOOLEAN, signaled : BOOLEAN]
<1>1. host \in [observed : {"Unknown", "Clean"} \cup Unclean, attempts : Nat,
                counted : BOOLEAN, exhausted : BOOLEAN, signaled : BOOLEAN]
  BY DEF AttemptInv
<1>2. ObservedOf(outcome[t]) \in {"Unknown", "Clean"} \cup Unclean
  BY DEF ObservedOf, Unclean
<1>3. (host.signaled \/ Signals(outcome[t])) \in BOOLEAN
  OBVIOUS
<1> DEFINE o == ObservedOf(outcome[t])
           g == (host.signaled \/ Signals(outcome[t]))
<1>4. host' = [host EXCEPT !.observed = o, !.signaled = g]
  BY DEF Record
<1>5. o \in {"Unknown", "Clean"} \cup Unclean /\ g \in BOOLEAN
  BY <1>2, <1>3
<1> HIDE DEF o, g
<1>6. /\ host'.observed = o /\ host'.signaled = g
      /\ host'.attempts = host.attempts /\ host'.counted = host.counted
      /\ host'.exhausted = host.exhausted
      /\ host' \in [observed : {"Unknown", "Clean"} \cup Unclean, attempts : Nat,
                    counted : BOOLEAN, exhausted : BOOLEAN, signaled : BOOLEAN]
  BY <1>1, <1>4, <1>5
<1> QED BY <1>6 DEF o, g

\* A run that finds something outstanding while the loop rests over a clean
\* archive signals; only the loop itself goes to rest, over a clean one.
LEMMA WakeNext ==
    ASSUME QueueInv, ThreadInv, AttemptInv, WakeInv, [Next]_vars PROVE WakeInv'
<1>0. /\ thread \in [Threads -> WriterSteps \cup LoopSteps]
      /\ "writer" \in Threads /\ "loop" \in Threads
      /\ thread["loop"] = "rest" /\ host.observed \in Unclean => host.signaled
      /\ host \in [observed : {"Unknown", "Clean"} \cup Unclean, attempts : Nat,
                   counted : BOOLEAN, exhausted : BOOLEAN, signaled : BOOLEAN]
  BY DEF ThreadInv, Threads, WakeInv, NoLostWakeup, AttemptInv
<1> SUFFICES ASSUME thread'["loop"] = "rest", host'.observed \in Unclean
             PROVE  host'.signaled
  BY DEF WakeInv, NoLostWakeup
<1>1. ASSUME NEW t \in Threads, Record(t) PROVE host'.signaled
  <2>1. thread["loop"] = "rest"
    BY <1>0, <1>1 DEF Record, Threads
  <2> QED BY <1>0, <1>1, <2>1, RecordHost DEF Signals
<1>2. ASSUME NEW t \in Threads, Run(t), ~Record(t) PROVE host'.signaled
  <2>1. host' = host /\ \E pc \in RunSteps \cup {"tryInner"} : thread' = [thread EXCEPT ![t] = pc]
    BY <1>2 DEF Run, BeginRun, DeriveStops, DeriveNothing, DeriveMissing, ObserveStops,
         PublishPlan, DrainPlan, Go, RunSteps
  <2>2. thread["loop"] = "rest"
    BY <1>0, <2>1 DEF RunSteps
  <2> QED BY <1>0, <2>1, <2>2
<1>3. CASE Start \/ BeginAction \/ Act
  <2>1. host' = host /\ (thread' = thread \/ \E pc : thread' = [thread EXCEPT !["writer"] = pc])
    BY <1>3 DEF Start, BeginAction, Act, Go
  <2> QED BY <1>0, <2>1
<1>4. CASE Loop
  <2>1. NextDelay
    BY <1>0, <1>4 DEF Loop, WakeSignaled, WakeElapsed, TryInner, SkipRun, Reopen,
         ClearSignal, Go
  <2>2. host.observed \notin Unclean /\ host' = [host EXCEPT !.counted = FALSE]
    BY <1>0, <2>1 DEF NextDelay, Go
  <2> QED BY <1>0, <2>2
<1>5. CASE ExitHost
  BY <1>0, <1>5 DEF ExitHost
<1>6. CASE UNCHANGED hostVars \/ UNCHANGED vars
  BY <1>0, <1>6 DEF hostVars, vars
<1> QED BY <1>1, <1>2, <1>3, <1>4, <1>5, <1>6 DEF Next

\* What a step does to the attempts: counted before the wait, given back
\* when no run takes place, kept as history when one has.
LEMMA AttemptNext ==
    ASSUME QueueInv, ThreadInv, AttemptInv, [Next]_vars PROVE AttemptInv'
<1> DEFINE Hosts == [observed : {"Unknown", "Clean"} \cup Unclean, attempts : Nat,
                     counted : BOOLEAN, exhausted : BOOLEAN, signaled : BOOLEAN]
<1>0. /\ thread \in [Threads -> WriterSteps \cup LoopSteps]
      /\ "writer" \in Threads /\ "loop" \in Threads /\ thread["loop"] \in LoopSteps
      /\ host \in Hosts /\ performed \in Nat /\ MaxAttempts \in Nat
      /\ host.attempts <= MaxAttempts
      /\ host.attempts = performed +
             (IF thread["loop"] \in Counting /\ host.counted THEN 1 ELSE 0)
      /\ host.exhausted => thread["loop"] = "ended" /\ performed = MaxAttempts
  BY HostAssumption DEF ThreadInv, Threads, AttemptInv
<1> SUFFICES /\ host' \in Hosts /\ performed' \in Nat
             /\ host'.attempts <= MaxAttempts
             /\ host'.attempts = performed' +
                   (IF thread'["loop"] \in Counting /\ host'.counted THEN 1 ELSE 0)
             /\ host'.exhausted => thread'["loop"] = "ended" /\ performed' = MaxAttempts
  BY DEF AttemptInv
<1>1. ASSUME NEW t \in Threads, Record(t), t = "loop"
      PROVE  AttemptInv'
  <2>1. /\ thread["loop"] = "record" /\ thread'["loop"] = "clear"
        /\ performed' = performed + (IF host.counted THEN 1 ELSE 0)
    BY <1>0, <1>1 DEF Record, Threads
  <2>2. /\ host'.attempts = host.attempts /\ host'.counted = host.counted
        /\ host'.exhausted = host.exhausted /\ host' \in Hosts
    BY <1>1, RecordHost
  <2>3. ~host.exhausted /\ performed' \in Nat /\ host.attempts = performed'
    BY <1>0, <2>1 DEF Counting
  <2>4. thread'["loop"] \notin Counting
    BY <2>1 DEF Counting
  <2>5. host'.attempts <= MaxAttempts
    BY <1>0, <2>2
  <2>6. host'.attempts = performed' /\ performed' \in Nat
    BY <2>2, <2>3
  <2>7. \A n \in Nat : n = n + 0
    OBVIOUS
  <2>8. host'.attempts = performed' + 0
    BY <2>6, <2>7, Zenon
  <2> QED BY <2>2, <2>3, <2>4, <2>5, <2>8 DEF AttemptInv
<1>2. ASSUME NEW t \in Threads, Record(t), t # "loop"
      PROVE  AttemptInv'
  <2>1. /\ performed' = performed
        /\ \/ thread'["loop"] = thread["loop"]
           \/ thread["loop"] = "off" /\ thread'["loop"] = "delay"
    <3>1. performed' = performed + 0
      BY <1>2 DEF Record
    <3> QED BY <1>0, <1>2, <3>1 DEF Record, Threads
  <2> QED BY <1>0, <1>2, <2>1, RecordHost DEF Counting, AttemptInv
<1>3. ASSUME NEW t \in Threads, Run(t), ~Record(t) PROVE AttemptInv'
  <2>1. /\ UNCHANGED <<host, performed>>
        /\ thread[t] \in Counting
        /\ \E pc \in RunSteps \cup {"tryInner"} : thread' = [thread EXCEPT ![t] = pc]
    BY <1>3 DEF Run, BeginRun, DeriveStops, DeriveNothing, DeriveMissing, ObserveStops,
         PublishPlan, DrainPlan, Go, RunSteps, otherVars, Counting
  <2>2. \/ thread'["loop"] = thread["loop"]
        \/ thread["loop"] \in Counting /\ thread'["loop"] \in Counting
    BY <1>0, <2>1 DEF RunSteps, Counting
  <2> QED BY <1>0, <2>1, <2>2 DEF Counting, AttemptInv
<1>4. CASE Start \/ BeginAction \/ Act
  <2>1. /\ UNCHANGED <<host, performed>>
        /\ thread' = thread \/ \E pc : thread' = [thread EXCEPT !["writer"] = pc]
    BY <1>4 DEF Start, BeginAction, Act, Go, otherVars
  <2>2. thread'["loop"] = thread["loop"]
    BY <1>0, <2>1
  <2> QED BY <1>0, <2>1, <2>2
<1>5. CASE NextDelay
  <2>0. thread["loop"] = "delay" /\ performed' = performed /\ ~host.exhausted
    BY <1>0, <1>5 DEF NextDelay, otherVars
  <2>1. CASE host' = [host EXCEPT !.counted = FALSE] /\ thread'["loop"] = "rest"
    BY <1>0, <2>0, <2>1 DEF Counting
  <2>2. CASE /\ host' = [host EXCEPT !.counted = FALSE, !.exhausted = TRUE]
             /\ thread'["loop"] = "ended" /\ host.attempts >= MaxAttempts
    <3>1. host'.attempts = host.attempts /\ host'.counted = FALSE
      BY <1>0, <2>2
    <3>2. host' \in Hosts
      BY <1>0, <2>2
    <3>3. host.attempts = performed
      BY <1>0, <2>0 DEF Counting
    <3>4. host.attempts \in Nat
      BY <1>0
    <3>5. performed = MaxAttempts
      BY <1>0, <2>2, <3>3, <3>4
    <3> QED BY <1>0, <2>0, <2>2, <3>1, <3>2, <3>3, <3>5
  <2>3. CASE /\ host' = [host EXCEPT !.counted = TRUE, !.attempts = @ + 1]
             /\ thread'["loop"] = "wait" /\ ~(host.attempts >= MaxAttempts)
    <3>1. host.attempts \in Nat /\ host.attempts + 1 \in Nat
      BY <1>0
    <3>2. host'.attempts = host.attempts + 1 /\ host'.counted = TRUE
          /\ host'.exhausted = host.exhausted
      BY <1>0, <2>3
    <3>3. host' \in Hosts
      BY <1>0, <2>3, <3>1
    <3>4. host.attempts = performed
      BY <1>0, <2>0 DEF Counting
    <3>5. host.attempts + 1 <= MaxAttempts
      BY <1>0, <2>3, <3>1
    <3> QED BY <1>0, <2>0, <2>3, <3>2, <3>3, <3>4, <3>5 DEF Counting
  <2> QED BY <1>0, <1>5, <2>1, <2>2, <2>3 DEF NextDelay, Go
<1>6. CASE WakeSignaled \/ SkipRun
  <2>0. /\ thread["loop"] \in {"rest", "wait", "tryInner"} /\ performed' = performed
        /\ thread'["loop"] = "delay" /\ ~host.exhausted
    BY <1>0, <1>6 DEF WakeSignaled, SkipRun, Go, otherVars
  <2> DEFINE quiet == [host EXCEPT !.signaled = FALSE]
  <2>1. CASE host.counted
    <3>1. host.attempts >= 1
      BY <1>0, <2>0, <2>1 DEF Counting
    <3>2. host.attempts \in Nat /\ host.attempts - 1 \in Nat
      BY <1>0, <3>1
    <3>3. \/ host' = [[host EXCEPT !.signaled = FALSE] EXCEPT
                        !.counted = FALSE, !.attempts = host.attempts - 1]
          \/ host' = [[host EXCEPT !.counted = FALSE, !.attempts = host.attempts - 1]
                        EXCEPT !.signaled = FALSE]
      BY <1>0, <1>6, <2>1 DEF WakeSignaled, SkipRun, Refund
    <3>4. host'.attempts = host.attempts - 1 /\ host'.exhausted = host.exhausted
          /\ host' \in Hosts
      BY <1>0, <3>2, <3>3
    <3>5. host.attempts = performed + 1
      BY <1>0, <2>0, <2>1 DEF Counting
    <3>6. host'.attempts <= MaxAttempts /\ host'.attempts = performed' + 0
      BY <1>0, <2>0, <3>2, <3>4, <3>5
    <3>7. thread'["loop"] \notin Counting
      BY <2>0 DEF Counting
    <3> QED BY <1>0, <2>0, <3>4, <3>6, <3>7
  <2>2. CASE ~host.counted
    <3>1. host' = quiet
      BY <1>0, <1>6, <2>2 DEF WakeSignaled, SkipRun, Refund
    <3>2. /\ host' \in Hosts /\ host'.attempts = host.attempts
          /\ host'.exhausted = host.exhausted
      BY <1>0, <3>1
    <3>3. host'.attempts <= MaxAttempts /\ host'.attempts = performed' + 0
      BY <1>0, <2>0, <2>2, <3>2
    <3>4. thread'["loop"] \notin Counting
      BY <2>0 DEF Counting
    <3> QED BY <1>0, <2>0, <3>2, <3>3, <3>4
  <2> QED BY <2>1, <2>2
<1>7. CASE WakeElapsed \/ TryInner \/ Reopen
  <2>1. /\ UNCHANGED <<host, performed>>
        /\ thread["loop"] \in Counting /\ thread'["loop"] \in Counting
        /\ thread["loop"] # "ended"
    BY <1>0, <1>7 DEF WakeElapsed, TryInner, Reopen, Go, otherVars, Counting
  <2> QED BY <1>0, <2>1
<1>8. CASE ClearSignal
  <2>1. /\ host' = [host EXCEPT !.signaled = FALSE] /\ performed' = performed
        /\ thread["loop"] = "clear" /\ thread'["loop"] = "delay"
    BY <1>0, <1>8 DEF ClearSignal, Go, otherVars
  <2> QED BY <1>0, <2>1 DEF Counting
<1>9. CASE ExitHost
  <2>1. thread'["loop"] = "off" /\ performed' = 0 /\ host' = NewHost
    BY <1>0, <1>9 DEF ExitHost
  <2>2. /\ NewHost \in Hosts /\ NewHost.attempts = 0 /\ NewHost.counted = FALSE
        /\ NewHost.exhausted = FALSE
    BY DEF NewHost
  <2> QED BY <1>0, <2>1, <2>2 DEF Counting
<1>10. CASE UNCHANGED hostVars \/ UNCHANGED vars
  BY <1>0, <1>10 DEF hostVars, vars
<1> QED BY <1>1, <1>2, <1>3, <1>4, <1>5, <1>6, <1>7, <1>8, <1>9, <1>10
        DEF Next, Loop, AttemptInv

-----------------------------------------------------------------------------
\* The invariant holds.

LEMMA HostInvInit ==
    ASSUME HostInit PROVE HostInv
<1>1. ArchiveInv /\ GrantInv
  BY ArchiveInvInit, GrantInit DEF HostInit
<1>2. proc[Me].at = "off"
  BY OneProcess DEF HostInit, ArchiveInit, Idle
<1>3. QueueInv
  <2>1. /\ slot = <<>> /\ plan = <<>> /\ drain = [by |-> NoThread, plan |-> <<>>, done |-> 0]
        /\ outcome = [t \in Threads |-> "none"]
    BY DEF HostInit, Queue!QueueInit, Queue!NoDrain
  <2>2. <<>> \in Seq(Objects) /\ Closed(<<>>)
    BY DEF Closed
  <2>3. outcome \in [Threads -> Queue!Outcomes]
    BY <2>1 DEF Queue!Outcomes
  <2>4. /\ drain \in [by : Threads \cup {NoThread}, plan : Seq(Objects), done : Nat]
        /\ drain.plan = <<>> /\ drain.done = 0 /\ Len(<<>>) = 0
    BY <2>1, <2>2
  <2>5. 0 <= Len(drain.plan) /\ \A i \in 1 .. drain.done : drain.plan[i] \in net
    BY <2>4
  <2>6. slot \in Seq(Objects) /\ plan \in Seq(Objects) /\ drain.plan \in Seq(Objects)
    BY <2>1, <2>2, <2>4
  <2>7. Closed(slot) /\ Closed(plan) /\ Closed(drain.plan)
    BY <2>1, <2>2, <2>4
  <2>8. drain.done <= Len(drain.plan)
    BY <2>4, <2>5
  <2> QED BY <2>3, <2>4, <2>5, <2>6, <2>7, <2>8, Zenon DEF QueueInv
<1>4. ThreadInv
  BY <1>2, HostAssumption DEF HostInit, Queue!QueueInit, Queue!NoDrain, ThreadInv, Threads,
       WriterSteps, LoopSteps, RunSteps
<1>5. SeenInv
  BY <1>2 DEF SeenInv, Seen
<1>6. SavedInv
  BY DEF HostInit, SavedInv, Settled, Threads
<1>7. AttemptInv
  <2>1. host = NewHost /\ performed = 0 /\ thread["loop"] = "off"
    BY DEF HostInit, Threads
  <2>2. /\ NewHost \in [observed : {"Unknown", "Clean"} \cup Unclean, attempts : Nat,
                        counted : BOOLEAN, exhausted : BOOLEAN, signaled : BOOLEAN]
        /\ NewHost.attempts = 0 /\ NewHost.counted = FALSE /\ NewHost.exhausted = FALSE
    BY DEF NewHost
  <2> QED BY <2>1, <2>2, HostAssumption DEF AttemptInv, Counting
<1>8. WakeInv
  BY DEF HostInit, WakeInv, NoLostWakeup, Threads
<1> QED BY <1>1, <1>3, <1>4, <1>5, <1>6, <1>7, <1>8 DEF HostInv

LEMMA HostInvNext ==
    ASSUME HostInv, [Next]_vars PROVE HostInv' /\ [ArchiveNext]_archiveVars
<1>1. /\ ArchiveInv /\ QueueInv /\ ThreadInv /\ GrantInv /\ SeenInv /\ SavedInv
      /\ AttemptInv /\ WakeInv
  BY DEF HostInv
<1>2. [ArchiveNext]_archiveVars
  BY <1>1, StepIsArchive
<1>3. ArchiveInv' /\ GrantInv' /\ SeenInv'
  BY <1>1, <1>2, OneProcess, HostAssumption, ArchiveInvNext, GrantNext, SeenNext DEF SeenInv
<1>4. QueueInv' /\ ThreadInv'
  BY <1>1, QueueNext, ThreadNext
<1>5. SavedInv' /\ AttemptInv' /\ WakeInv'
  BY <1>1, SavedNext, AttemptNext, WakeNext
<1> QED BY <1>2, <1>3, <1>4, <1>5 DEF HostInv

LEMMA HostAlways == Spec => [](HostInv /\ ArchiveInv)
<1>1. HostInit => HostInv
  BY HostInvInit
<1>2. HostInv /\ [Next]_vars => HostInv'
  BY HostInvNext
<1>3. HostInv => ArchiveInv
  BY DEF HostInv
<1> QED BY <1>1, <1>2, <1>3, PTL DEF Spec

\* However the two threads interleave, the loop never rests over work that a
\* run of the other thread has found (record, wait, run_loop).
THEOREM WakeupNeverLost == Spec => []NoLostWakeup
<1>1. HostInv => NoLostWakeup
  BY DEF HostInv, WakeInv
<1> QED BY <1>1, HostAlways, PTL

\* Between actions and runs, what is shown as saved is in the directory, for
\* every plan, merge, interrupted drain and prune (sync_state, record).
THEOREM SavedAlwaysPublished == Spec => []SavedIsPublished
<1>1. HostInv => SavedIsPublished
  <2> SUFFICES ASSUME HostInv, host.observed = "Clean", thread["writer"] = "idle",
                      run = NoThread, ~unreported
               PROVE  local \subseteq net
    BY DEF SavedIsPublished
  <2>1. \A t \in Threads : thread[t] \notin RunSteps
    BY HostAssumption DEF HostInv, ThreadInv
  <2> QED BY <2>1 DEF HostInv, SavedInv, RunSteps
<1> QED BY <1>1, HostAlways, PTL

\* Whoever prunes, the runtime that is kept goes on seeing the whole directory
\* (prune_published_rows).
THEOREM KeptViewAlwaysComplete == Spec => []KeptViewComplete
<1>1. HostInv => KeptViewComplete
  BY DEF HostInv, SeenInv, Seen, KeptViewComplete, WriterView
<1> QED BY <1>1, HostAlways, PTL

\* The loop gives up only after MaxAttempts runs that took place: a signal or
\* a skipped run costs no attempt (next_delay, refund_attempt).
THEOREM ExhaustedOnlyByRuns == Spec => []ExhaustedByRuns
<1>1. HostInv => ExhaustedByRuns
  BY DEF HostInv, AttemptInv, ExhaustedByRuns
<1> QED BY <1>1, HostAlways, PTL

\* What the host does to directory, rows and runtimes is what NetworkArchive
\* allows: the queue, its merges, its interrupted drains and its retries only
\* ever let a committed object arrive after its grants and after the entries
\* before it (derive_pending, publish, drain).
THEOREM HostImplementsArchive == Spec => ImplementsArchive
<1>1. HostInit => ArchiveInit
  BY DEF HostInit
<1>2. HostInv /\ [Next]_vars => [ArchiveNext]_archiveVars
  BY HostInvNext
<1> QED BY <1>1, <1>2, HostAlways, PTL DEF Spec, ImplementsArchive, ArchiveSpec

\* The writer of the host never takes a sequence that an entry has, and every
\* opening sees the last entry, while the loop publishes and prunes beside it.
THEOREM HostSequencesFresh == Spec => SequenceFresh /\ OpeningSeesHead
<1>1. OneWriter
  BY OneProcess
<1>2. (ArchiveSpec => SequenceFresh) /\ (ArchiveSpec => OpeningSeesHead)
  BY <1>1, SequenceAlwaysFresh, OpeningAlwaysSeesHead
<1> QED BY <1>2, HostImplementsArchive, PTL DEF ImplementsArchive
==============================================================================
