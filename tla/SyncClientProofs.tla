-------------------------- MODULE SyncClientProofs --------------------------
(***************************************************************************)
(* Proofs about SyncClient, for any number of entries and grants, any      *)
(* batch and any limit of the queue.                                       *)
(***************************************************************************)
EXTENDS SyncClient, WellFoundedInduction, TLAPS

\* What is in the directory or on its way there.
Held == net \cup Range(slot) \cup Range(drain.plan)

\* The queue: what it has taken it still holds, and while one caller drains,
\* nothing waits beside the plan and the caller has no answer yet.
QueueInv ==
    /\ slot \in Seq(Objects) /\ Len(slot) <= MaxObjects
    /\ drain \in [by : Callers \cup {NoCaller}, plan : Seq(Objects), done : Nat]
    /\ drain.done <= Len(drain.plan) /\ Len(drain.plan) <= MaxObjects
    /\ \A i \in 1 .. drain.done : drain.plan[i] \in net
    /\ outcome \in [Callers -> Queue!Outcomes]
    /\ drain.by = NoCaller => drain.plan = <<>>
    /\ drain.by # NoCaller => slot = <<>> /\ outcome[drain.by] = "none"
    /\ net \subseteq Objects
    /\ taken \subseteq Held

\* Steps of a run that is busy with the first of its entries.
Publishing == {"publish", "published"}
Uploading == {"challenge", "send"}
Confirming == {"publishReceipt", "receiptPublished", "clear"}
Busy == Publishing \cup Uploading \cup Confirming
Waiting == {"NetworkArchive", "QueueLimit", "ServerUpload", "ResumeExhausted", "none"}

\* A line of entries in their order, none of them after n.
Increasing(s, n) ==
    /\ \A i, j \in 1 .. Len(s) : i < j => s[i] < s[j]
    /\ \A i \in 1 .. Len(s) : s[i] <= n

\* The entries of a run: what it still has to do, in order, and that the
\* others it has seen are done.
Runs == [pc : Busy \cup Resting \cup {"next", "report"}, todo : Seq(Entries),
         pushed : Nat, confirmed : Nat, pending : Nat, step : Waiting]
RunInv ==
    /\ client \in Runs
    /\ committed \in 0 .. LastEntry
    /\ client.pushed + Len(client.todo) = client.pending
    /\ client.pending + client.confirmed <= committed
    /\ Increasing(client.todo, client.pending + client.confirmed)
    /\ \A e \in 1 .. client.pending + client.confirmed :
           e \in Range(client.todo) \/ (e \in accepted /\ Receipt(e) \in net)
    /\ client.pc \in Busy => client.todo # <<>>

\* The entry a run is busy with: each step has what the one before has left.
Called == IF client.pc = "published" THEN Plan(Current) ELSE <<Receipt(Current)>>
EntryInv ==
    /\ client.pc \in {"published", "receiptPublished"} =>
           /\ outcome["client"] = "none" =>
                  drain.by = "client" /\ Range(Called) \subseteq Range(drain.plan)
           /\ outcome["client"] \in Queue!NothingOutstanding => Range(Called) \subseteq net
    /\ client.pc \in Uploading => Range(Plan(Current)) \subseteq net
    /\ client.pc \in Confirming => Current \in accepted
    /\ client.pc = "clear" => Receipt(Current) \in net

\* Nothing but an accepted entry has a receipt, and a witness of it is in the
\* directory.
RecordInv ==
    /\ accepted \subseteq Entries /\ receipts \subseteq Entries /\ baseline \subseteq Entries
    /\ \A e \in receipts \cup baseline : Receipt(e) \in net
    /\ \A e \in Entries : Receipt(e) \in Held => e \in accepted
    /\ UploadAfterNetwork

\* No entry is tried once more than MaxAttempts times.
RetryInv ==
    /\ retry \in [Entries -> [failed : 0 .. MaxAttempts, due : BOOLEAN]]
    /\ client.pc \in Publishing \cup Uploading => retry[Current].failed < MaxAttempts

ClientInv == QueueInv /\ RunInv /\ EntryInv /\ RecordInv /\ RetryInv

-----------------------------------------------------------------------------
\* Sequences defined by recursion over an interval.

\* What holds at 0 and passes from i - 1 to i holds up to n.
LEMMA UpTo ==
    ASSUME NEW n \in Nat, NEW G \in SUBSET Nat, 0 \in G,
           \A i \in 1 .. n : i - 1 \in G => i \in G
    PROVE  0 .. n \subseteq G
<1> DEFINE Less == OpToRel(<, Nat)
           Bad == (0 .. n) \ G
<1> SUFFICES ASSUME Bad # {} PROVE FALSE
  OBVIOUS
<1>1. IsWellFoundedOn(Less, Nat)
  BY NatLessThanWellFounded
<1>2. Bad \in SUBSET Nat /\ \A b \in Bad : b \in 1 .. n /\ b \notin G
  OBVIOUS
<1>3. \A b \in 0 .. n : b \in Bad \/ b \in G
  OBVIOUS
<1> HIDE DEF Bad
<1>4. PICK b \in Bad : \A e \in Bad : <<e, b>> \notin Less
  BY <1>1, <1>2, WFMin
<1>5. b \in 1 .. n /\ b \notin G
  BY <1>2
<1>6. b \in Nat /\ b - 1 \in Nat /\ b - 1 \in 0 .. n /\ b - 1 < b
  BY <1>5
<1>7. <<b - 1, b>> \in Less
  BY <1>6 DEF OpToRel
<1>8. b - 1 \notin Bad
  BY <1>4, <1>7
<1> QED BY <1>3, <1>5, <1>6, <1>8

\* A step for each number and a start give the sequence of results.
IsStep(F, n, S) == F \in [1 .. n -> [S -> S]]
IsRun(J, n, S, w, F) ==
    J \in [0 .. n -> S] /\ J[0] = w /\ \A i \in 1 .. n : J[i] = F[i][J[i - 1]]

LEMMA Recursion ==
    ASSUME NEW n \in Nat, NEW S, NEW w \in S, NEW F, IsStep(F, n, S)
    PROVE  \E J : IsRun(J, n, S, w, F)
<1> DEFINE Run(J, m) == IsRun(J, m, S, w, F)
           G == {m \in 0 .. n : \E J : Run(J, m)}
<1> USE DEF IsStep, IsRun
<1>1. 0 \in G
  <2> DEFINE J == [i \in 0 .. 0 |-> w]
  <2>1. Run(J, 0) /\ 0 \in 0 .. n
    OBVIOUS
  <2> HIDE DEF J, Run
  <2> QED BY <2>1
<1>2. ASSUME NEW i \in 1 .. n, i - 1 \in G PROVE i \in G
  <2>1. PICK J : Run(J, i - 1)
    BY <1>2
  <2>2. J[i - 1] \in S /\ F[i][J[i - 1]] \in S
    BY <2>1
  <2> DEFINE K == [k \in 0 .. i |-> IF k = i THEN F[i][J[i - 1]] ELSE J[k]]
  <2>3. K \in [0 .. i -> S] /\ K[i] = F[i][J[i - 1]] /\ \A k \in 0 .. i - 1 : K[k] = J[k]
    BY <2>1, <2>2
  <2> HIDE DEF K
  <2>4. \A k \in 1 .. i : k - 1 \in 0 .. i - 1 /\ (k # i => k \in 1 .. i - 1 /\ k \in 0 .. i - 1)
    OBVIOUS
  <2>5. ASSUME NEW k \in 1 .. i PROVE K[k] = F[k][K[k - 1]]
    <3>1. K[k - 1] = J[k - 1]
      BY <2>3, <2>4
    <3>2. CASE k = i
      BY <2>3, <3>1, <3>2
    <3>3. CASE k # i
      <4>1. K[k] = J[k] /\ k \in 1 .. i - 1
        BY <2>3, <2>4, <3>3
      <4> QED BY <2>1, <3>1, <4>1
    <3> QED BY <3>2, <3>3
  <2>6. K[0] = w
    BY <2>1, <2>3
  <2> QED BY <2>3, <2>5, <2>6
<1>3. n \in G
  <2> HIDE DEF G
  <2>1. G \in SUBSET Nat
    BY DEF G
  <2>2. 0 .. n \subseteq G
    BY <1>1, <1>2, <2>1, UpTo
  <2> QED BY <2>2
<1> QED BY <1>3

LEMMA AppendIs ==
    ASSUME NEW S, NEW s \in Seq(S), NEW x \in S
    PROVE  /\ Append(s, x) \in Seq(S) /\ Len(Append(s, x)) = Len(s) + 1
           /\ \A i \in 1 .. Len(s) : Append(s, x)[i] = s[i]
           /\ Append(s, x)[Len(s) + 1] = x
           /\ Range(Append(s, x)) = Range(s) \cup {x}
<1>1. /\ Append(s, x) \in Seq(S) /\ Len(Append(s, x)) = Len(s) + 1
      /\ \A i \in 1 .. Len(s) : Append(s, x)[i] = s[i]
      /\ Append(s, x)[Len(s) + 1] = x
  OBVIOUS
<1>2. DOMAIN s = 1 .. Len(s) /\ DOMAIN Append(s, x) = 1 .. Len(s) + 1
  OBVIOUS
<1>3. Range(Append(s, x)) = Range(s) \cup {x}
  BY <1>1, <1>2 DEF Range
<1> QED BY <1>1, <1>3

\* The union of two plans has what both have.
LEMMA MergeIs ==
    ASSUME NEW v \in Seq(Objects), NEW p \in Seq(Objects)
    PROVE  /\ Queue!Merge(v, p) \in Seq(Objects)
           /\ Range(Queue!Merge(v, p)) = Range(v) \cup Range(p)
<1>0. /\ Len(p) \in Nat /\ DOMAIN p = 1 .. Len(p) /\ \A i \in 1 .. Len(p) : p[i] \in Objects
      /\ \A f : Queue!Range(f) = Range(f)
  BY DEF Queue!Range, Range
<1> DEFINE S == Seq(Objects)
           F == [i \in 1 .. Len(p) |->
                   [s \in S |-> IF p[i] \in Range(s) THEN s ELSE Append(s, p[i])]]
           Rec(J) == J = [i \in 0 .. Len(p) |->
                            IF i = 0 THEN v
                            ELSE IF p[i] \in Queue!Range(J[i - 1]) THEN J[i - 1]
                            ELSE Append(J[i - 1], p[i])]
           M == CHOOSE J : Rec(J)
           G == {n \in 0 .. Len(p) :
                    M[n] \in S /\ Range(M[n]) = Range(v) \cup {p[j] : j \in 1 .. n}}
<1>1. IsStep(F, Len(p), S)
  BY <1>0 DEF IsStep
<1>2. \E J : Rec(J)
  <2>1. PICK J : IsRun(J, Len(p), S, v, F)
    <3>1. v \in S /\ Len(p) \in Nat
      BY <1>0
    <3> HIDE DEF F, S
    <3> QED BY <1>1, <3>1, Recursion
  <2> HIDE DEF F
  <2>2. ASSUME NEW i \in 0 .. Len(p)
        PROVE  J[i] = IF i = 0 THEN v
                      ELSE IF p[i] \in Queue!Range(J[i - 1]) THEN J[i - 1]
                      ELSE Append(J[i - 1], p[i])
    <3>1. CASE i = 0
      BY <2>1, <3>1 DEF IsRun
    <3>2. CASE i # 0
      <4>1. i \in 1 .. Len(p) /\ i - 1 \in 0 .. Len(p)
        BY <1>0, <3>2
      <4>2. J[i] = F[i][J[i - 1]] /\ J[i - 1] \in S
        BY <2>1, <4>1 DEF IsRun
      <4> QED BY <1>0, <3>2, <4>1, <4>2 DEF F
    <3> QED BY <3>1, <3>2
  <2>3. J = [i \in 0 .. Len(p) |-> J[i]]
    BY <2>1 DEF IsRun
  <2> QED BY <2>2, <2>3
<1>3. Rec(M)
  BY <1>2
<1>4. Queue!Merge(v, p) = M[Len(p)]
  BY DEF Queue!Merge
<1>5. /\ M[0] = v
      /\ \A i \in 1 .. Len(p) : M[i] = IF p[i] \in Range(M[i - 1]) THEN M[i - 1]
                                      ELSE Append(M[i - 1], p[i])
  <2> HIDE DEF M
  <2>1. M[0] = v
    BY <1>0, <1>3
  <2>2. ASSUME NEW i \in 1 .. Len(p)
        PROVE  M[i] = IF p[i] \in Range(M[i - 1]) THEN M[i - 1] ELSE Append(M[i - 1], p[i])
    <3>1. i \in 0 .. Len(p) /\ i # 0
      OBVIOUS
    <3>2. M[i] = IF p[i] \in Queue!Range(M[i - 1]) THEN M[i - 1] ELSE Append(M[i - 1], p[i])
      BY <1>3, <3>1
    <3> QED BY <1>0, <3>2
  <2> QED BY <2>1, <2>2
<1> HIDE DEF M
<1>6. 0 \in G
  <2>1. {p[j] : j \in 1 .. 0} = {}
    OBVIOUS
  <2> QED BY <1>0, <1>5, <2>1
<1>7. ASSUME NEW i \in 1 .. Len(p), i - 1 \in G PROVE i \in G
  <2> DEFINE s == M[i - 1]
  <2>1. /\ s \in S /\ Range(s) = Range(v) \cup {p[j] : j \in 1 .. i - 1}
        /\ i \in 0 .. Len(p) /\ p[i] \in Objects
    BY <1>0, <1>7
  <2>2. M[i] = IF p[i] \in Range(s) THEN s ELSE Append(s, p[i])
    BY <1>5
  <2> HIDE DEF s
  <2>3. {p[j] : j \in 1 .. i} = {p[j] : j \in 1 .. i - 1} \cup {p[i]}
    <3>1. \A j : j \in 1 .. i <=> (j \in 1 .. i - 1 \/ j = i)
      OBVIOUS
    <3> QED BY <3>1
  <2>4. Append(s, p[i]) \in S /\ Range(Append(s, p[i])) = Range(s) \cup {p[i]}
    BY <2>1, AppendIs
  <2>5. M[i] \in S /\ Range(M[i]) = Range(s) \cup {p[i]}
    BY <2>1, <2>2, <2>4
  <2> QED BY <2>1, <2>3, <2>5
<1>8. Len(p) \in G
  <2> HIDE DEF G
  <2>1. G \in SUBSET Nat
    BY DEF G
  <2>2. 0 .. Len(p) \subseteq G
    BY <1>0, <1>6, <1>7, <2>1, UpTo
  <2> QED BY <1>0, <2>2
<1>9. Range(p) = {p[j] : j \in 1 .. Len(p)}
  BY <1>0 DEF Range
<1> QED BY <1>4, <1>8, <1>9

LEMMA AppendIncreasing ==
    ASSUME NEW n \in Nat, NEW s \in Seq(Entries), Increasing(s, n), n + 1 \in Entries
    PROVE  Increasing(s, n + 1) /\ Increasing(Append(s, n + 1), n + 1)
<1> DEFINE a == Append(s, n + 1)
<1>0. /\ Len(s) \in Nat /\ \A i \in 1 .. Len(s) : s[i] \in Nat /\ s[i] <= n
      /\ \A i, j \in 1 .. Len(s) : i < j => s[i] < s[j]
  <2>1. Len(s) \in Nat /\ \A i \in 1 .. Len(s) : s[i] \in Entries
    OBVIOUS
  <2>2. Entries \subseteq Nat
    BY ClientAssumption DEF Entries
  <2> QED BY <2>1, <2>2 DEF Increasing
<1>1. /\ Len(a) = Len(s) + 1 /\ a[Len(s) + 1] = n + 1
      /\ \A i \in 1 .. Len(s) : a[i] = s[i]
  BY AppendIs
<1> HIDE DEF a
<1>2. \A i \in 1 .. Len(a) : i = Len(s) + 1 \/ i \in 1 .. Len(s)
  BY <1>0, <1>1
<1>3. \A i \in 1 .. Len(a) : a[i] <= n + 1
  BY <1>0, <1>1, <1>2
<1>4. ASSUME NEW i \in 1 .. Len(a), NEW j \in 1 .. Len(a), i < j PROVE a[i] < a[j]
  <2>1. i \in 1 .. Len(s) /\ a[i] = s[i]
    BY <1>0, <1>1, <1>4
  <2>2. CASE j = Len(s) + 1
    BY <1>0, <1>1, <2>1, <2>2
  <2>3. CASE j \in 1 .. Len(s)
    BY <1>0, <1>1, <1>4, <2>1, <2>3
  <2> QED BY <1>2, <2>2, <2>3
<1>5. Increasing(a, n + 1)
  BY <1>3, <1>4 DEF Increasing
<1>6. Increasing(s, n + 1)
  BY <1>0 DEF Increasing
<1> QED BY <1>5, <1>6 DEF a

\* Derived is what is committed and not confirmed, in the order of the chain.
LEMMA OpenIs ==
    ASSUME committed \in 0 .. LastEntry
    PROVE  /\ Open \in Seq(Entries) /\ Len(Open) <= committed
           /\ Increasing(Open, committed)
           /\ Range(Open) = {e \in 1 .. committed : e \notin Confirmed}
<1>0. committed \in Nat /\ \A i \in 1 .. committed : i \in Entries
  BY ClientAssumption DEF Entries
<1> DEFINE S == Seq(Entries)
           F == [i \in 1 .. committed |->
                   [s \in S |-> IF i \in Confirmed THEN s ELSE Append(s, i)]]
           Rec(J) == J = [i \in 0 .. committed |->
                            IF i = 0 THEN <<>>
                            ELSE IF i \in Confirmed THEN J[i - 1]
                            ELSE Append(J[i - 1], i)]
           M == CHOOSE J : Rec(J)
           Good(s, n) == /\ s \in Seq(Entries) /\ Len(s) <= n /\ Increasing(s, n)
                         /\ Range(s) = {e \in 1 .. n : e \notin Confirmed}
           G == {n \in 0 .. committed : Good(M[n], n)}
<1>1. IsStep(F, committed, S)
  BY <1>0 DEF IsStep
<1>2. \E J : Rec(J)
  <2>1. PICK J : IsRun(J, committed, S, <<>>, F)
    <3>1. <<>> \in S
      OBVIOUS
    <3> HIDE DEF F, S
    <3> QED BY <1>0, <1>1, <3>1, Recursion
  <2> HIDE DEF F
  <2>2. ASSUME NEW i \in 0 .. committed
        PROVE  J[i] = IF i = 0 THEN <<>>
                      ELSE IF i \in Confirmed THEN J[i - 1] ELSE Append(J[i - 1], i)
    <3>1. CASE i = 0
      BY <2>1, <3>1 DEF IsRun
    <3>2. CASE i # 0
      <4>1. i \in 1 .. committed /\ i - 1 \in 0 .. committed
        BY <1>0, <3>2
      <4>2. J[i] = F[i][J[i - 1]] /\ J[i - 1] \in S
        BY <2>1, <4>1 DEF IsRun
      <4> QED BY <3>2, <4>1, <4>2 DEF F
    <3> QED BY <3>1, <3>2
  <2>3. J = [i \in 0 .. committed |-> J[i]]
    BY <2>1 DEF IsRun
  <2> QED BY <2>2, <2>3
<1>3. Rec(M)
  BY <1>2
<1>4. Open = M[committed]
  BY DEF Open
<1>5. /\ M[0] = <<>>
      /\ \A i \in 1 .. committed : M[i] = IF i \in Confirmed THEN M[i - 1]
                                         ELSE Append(M[i - 1], i)
  <2> HIDE DEF M
  <2>1. M[0] = <<>>
    BY <1>0, <1>3
  <2>2. ASSUME NEW i \in 1 .. committed
        PROVE  M[i] = IF i \in Confirmed THEN M[i - 1] ELSE Append(M[i - 1], i)
    <3>1. i \in 0 .. committed /\ i # 0
      OBVIOUS
    <3> QED BY <1>3, <3>1
  <2> QED BY <2>1, <2>2
<1> HIDE DEF M
<1>6. 0 \in G
  <2>1. Increasing(<<>>, 0) /\ Range(<<>>) = {}
    BY DEF Increasing, Range
  <2>2. {e \in 1 .. 0 : e \notin Confirmed} = {} /\ <<>> \in Seq(Entries) /\ Len(<<>>) <= 0
    OBVIOUS
  <2>3. Good(<<>>, 0) /\ 0 \in 0 .. committed
    BY <1>0, <2>1, <2>2
  <2> QED BY <1>5, <2>3
<1>7. ASSUME NEW i \in 1 .. committed, i - 1 \in G PROVE i \in G
  <2> DEFINE s == M[i - 1]
  <2>0. i - 1 \in Nat /\ (i - 1) + 1 = i /\ i \in Entries /\ i \in 0 .. committed
    BY <1>0
  <2>1. Good(s, i - 1)
    BY <1>7
  <2>2. M[i] = IF i \in Confirmed THEN s ELSE Append(s, i)
    BY <1>5
  <2> HIDE DEF s
  <2>3. Increasing(s, i) /\ Increasing(Append(s, i), i)
    BY <2>0, <2>1, AppendIncreasing
  <2>4. \A e : e \in 1 .. i <=> (e \in 1 .. i - 1 \/ e = i)
    OBVIOUS
  <2>5. /\ Append(s, i) \in Seq(Entries) /\ Len(Append(s, i)) = Len(s) + 1
        /\ Range(Append(s, i)) = Range(s) \cup {i}
    BY <2>0, <2>1, AppendIs
  <2>6. Len(s) \in Nat /\ Len(s) <= i /\ Len(s) + 1 <= i
    BY <2>1
  <2>7. CASE i \in Confirmed
    <3>1. Range(s) = {e \in 1 .. i : e \notin Confirmed}
      BY <2>1, <2>4, <2>7
    <3>2. Good(s, i)
      BY <2>1, <2>3, <2>6, <3>1
    <3> QED BY <2>0, <2>2, <2>7, <3>2
  <2>8. CASE i \notin Confirmed
    <3>1. Range(s) \cup {i} = {e \in 1 .. i : e \notin Confirmed}
      BY <2>1, <2>4, <2>8
    <3>2. Good(Append(s, i), i)
      BY <2>3, <2>5, <2>6, <3>1
    <3> QED BY <2>0, <2>2, <2>8, <3>2
  <2> QED BY <2>7, <2>8
<1>8. committed \in G
  <2> HIDE DEF G
  <2>1. G \in SUBSET Nat
    BY DEF G
  <2>2. 0 .. committed \subseteq G
    BY <1>0, <1>6, <1>7, <2>1, UpTo
  <2> QED BY <1>0, <2>2
<1> QED BY <1>4, <1>8

-----------------------------------------------------------------------------
\* Objects: a plan has the grants and the entry, and no receipt.

LEMMA PlanIs ==
    ASSUME NEW e \in Entries
    PROVE  /\ Plan(e) \in Seq(Objects) /\ <<Receipt(e)>> \in Seq(Objects)
           /\ Range(<<Receipt(e)>>) = {Receipt(e)}
           /\ \A d \in Entries : Receipt(d) \notin Range(Plan(e))
<1> DEFINE g == [i \in 1 .. Grants[e] |-> Grant(e, i)]
           T == {Grant(e, i) : i \in 1 .. Grants[e]} \cup {Entry(e)}
<1>1. Grants[e] \in Nat
  BY ClientAssumption
<1>2. g \in Seq(T) /\ <<Entry(e)>> \in Seq(T)
  BY <1>1
<1>3. Plan(e) \in Seq(T)
  <2> HIDE DEF g, T
  <2>1. Plan(e) = g \o <<Entry(e)>>
    BY DEF Plan, g
  <2> QED BY <1>2, <2>1
<1>4. Range(Plan(e)) \subseteq T
  <2> HIDE DEF T
  <2> QED BY <1>3 DEF Range
<1>5. Range(Plan(e)) \subseteq Objects /\ Receipt(e) \in Objects
  BY DEF Objects
<1>6. Plan(e) \in Seq(Objects)
  <2> HIDE DEF T
  <2>1. \A i \in 1 .. Len(Plan(e)) : Plan(e)[i] \in Objects
    BY <1>3, <1>5 DEF Range
  <2>2. Plan(e) = [i \in 1 .. Len(Plan(e)) |-> Plan(e)[i]] /\ Len(Plan(e)) \in Nat
    BY <1>3
  <2> QED BY <2>1, <2>2
<1>7. \A d \in Entries : Receipt(d) \notin T
  BY DEF Receipt, Grant, Entry
<1>8. Range(<<Receipt(e)>>) = {Receipt(e)} /\ <<Receipt(e)>> \in Seq(Objects)
  BY <1>5 DEF Range
<1> QED BY <1>4, <1>6, <1>7, <1>8

-----------------------------------------------------------------------------
\* What the steps of the queue do.

\* An answer at once, or a drain of what waited and what is new.
LEMMA SubmitMoves ==
    ASSUME QueueInv, NEW p \in Seq(Objects), NEW pc, Submit(p, pc)
    PROVE  /\ QueueInv' /\ net' = net /\ Held' \subseteq Held \cup Range(p)
           /\ \/ outcome'["client"] \in {"QueueLimitReached", "Deferred"}
              \/ /\ outcome'["client"] = "none" /\ drain'.by = "client"
                 /\ Range(p) \subseteq Range(drain'.plan)
<1> DEFINE m == Queue!Merge(slot, p)
<1>0. /\ slot \in Seq(Objects) /\ Len(slot) <= MaxObjects
      /\ drain \in [by : Callers \cup {NoCaller}, plan : Seq(Objects), done : Nat]
      /\ outcome \in [Callers -> Queue!Outcomes] /\ "client" \in Callers
      /\ NoCaller \notin Callers /\ MaxObjects \in Nat /\ net \subseteq Objects
      /\ taken \subseteq Held
  BY ClientAssumption DEF QueueInv, Callers
<1>1. m \in Seq(Objects) /\ Range(m) = Range(slot) \cup Range(p) /\ Len(m) \in Nat
  BY <1>0, MergeIs
<1>2. net' = net /\ drain.by = NoCaller /\ drain.plan = <<>>
  BY DEF Submit, QueueInv, Queue!Publish, Queue!PublishOverLimit, Queue!PublishDeferred,
       Queue!PublishDrain, Queue!DrainLockFree
<1>3. Range(<<>>) = {}
  BY DEF Range
<1>4. Held = net \cup Range(slot)
  BY <1>2, <1>3 DEF Held
<1>5. CASE Queue!PublishOverLimit("client", p)
  <2>1. /\ slot' = slot /\ drain' = drain
        /\ outcome' = [outcome EXCEPT !["client"] = "QueueLimitReached"]
    BY <1>5 DEF Queue!PublishOverLimit, Queue!Answer
  <2>2. /\ outcome'["client"] = "QueueLimitReached"
        /\ outcome' \in [Callers -> Queue!Outcomes]
    BY <1>0, <2>1 DEF Queue!Outcomes
  <2>3. taken' = taken
    BY <2>2 DEF Submit
  <2>4. Held' = Held
    BY <1>2, <2>1 DEF Held
  <2>5. QueueInv'
    BY <1>2, <2>1, <2>2, <2>3, <2>4 DEF QueueInv
  <2> QED BY <1>2, <2>2, <2>4, <2>5
<1>6. CASE Queue!PublishDeferred("client", p)
  <2>1. /\ slot' = m /\ drain' = drain /\ Len(m) <= MaxObjects
        /\ outcome' = [outcome EXCEPT !["client"] = "Deferred"]
    BY <1>0, <1>1, <1>6 DEF Queue!PublishDeferred, Queue!Answer, Queue!OverLimit
  <2> HIDE DEF m
  <2>2. /\ outcome'["client"] = "Deferred"
        /\ outcome' \in [Callers -> Queue!Outcomes]
    BY <1>0, <2>1 DEF Queue!Outcomes
  <2>3. taken' = taken \cup Range(p)
    BY <2>2 DEF Submit
  <2>4. Held' = Held \cup Range(p)
    BY <1>1, <1>2, <1>3, <1>4, <2>1 DEF Held
  <2>5. taken' \subseteq Held'
    BY <1>0, <2>3, <2>4
  <2>6. QueueInv'
    BY <1>0, <1>1, <1>2, <2>1, <2>2, <2>5 DEF QueueInv
  <2> QED BY <1>2, <2>2, <2>4, <2>6
<1>7. CASE Queue!PublishDrain("client", p)
  <2>1. /\ slot' = <<>> /\ Len(m) <= MaxObjects
        /\ drain' = [by |-> "client", plan |-> m, done |-> 0]
        /\ outcome' = [outcome EXCEPT !["client"] = "none"]
    BY <1>0, <1>1, <1>7 DEF Queue!PublishDrain, Queue!Answer, Queue!OverLimit
  <2> HIDE DEF m
  <2>2. /\ outcome'["client"] = "none"
        /\ outcome' \in [Callers -> Queue!Outcomes]
    BY <1>0, <2>1 DEF Queue!Outcomes
  <2>3. taken' = taken \cup Range(p)
    BY <2>2 DEF Submit
  <2>4. /\ drain'.by = "client" /\ drain'.plan = m /\ drain'.done = 0
        /\ drain' \in [by : Callers \cup {NoCaller}, plan : Seq(Objects), done : Nat]
    BY <1>0, <1>1, <2>1
  <2>5. Held' = Held \cup Range(p)
    BY <1>1, <1>2, <1>3, <1>4, <2>1, <2>4 DEF Held
  <2>6. taken' \subseteq Held'
    BY <1>0, <2>3, <2>5
  <2>7. <<>> \in Seq(Objects) /\ Len(<<>>) <= MaxObjects
    BY <1>0
  <2>8. QueueInv'
    BY <1>0, <1>1, <1>2, <2>1, <2>2, <2>4, <2>6, <2>7 DEF QueueInv
  <2> QED BY <1>1, <1>2, <2>2, <2>4, <2>5, <2>8
<1> QED BY <1>5, <1>6, <1>7 DEF Submit, Queue!Publish

\* A drain goes on, stops with its plan back in its place, or is done with all
\* of it in the directory.
LEMMA DrainMoves ==
    ASSUME QueueInv, NEW c \in Callers, DrainStep(c)
    PROVE  /\ QueueInv' /\ net \subseteq net' /\ Held' \subseteq Held
           /\ drain.by = c /\ outcome[c] = "none"
           /\ \A d \in Callers \ {c} : outcome'[d] = outcome[d]
           /\ \/ outcome'[c] = "none" /\ drain'.by = c /\ drain'.plan = drain.plan
              \/ outcome'[c] \in {"Deferred", "Failed"}
              \/ outcome'[c] = "PublishedCompletely" /\ Held \subseteq net
<1>0. /\ drain \in [by : Callers \cup {NoCaller}, plan : Seq(Objects), done : Nat]
      /\ drain.done <= Len(drain.plan) /\ Len(drain.plan) <= MaxObjects
      /\ \A i \in 1 .. drain.done : drain.plan[i] \in net
      /\ outcome \in [Callers -> Queue!Outcomes] /\ NoCaller \notin Callers
      /\ MaxObjects \in Nat /\ net \subseteq Objects /\ taken \subseteq Held
  BY ClientAssumption DEF QueueInv
<1>1. drain.by = c
  BY DEF DrainStep, Queue!Drain, Queue!DrainObject, Queue!DrainStops, Queue!DrainDone
<1>2. slot = <<>> /\ outcome[c] = "none" /\ taken' = taken
  BY <1>0, <1>1 DEF QueueInv, DrainStep
<1>3. Range(<<>>) = {} /\ <<>> \in Seq(Objects) /\ Len(<<>>) <= MaxObjects /\ Len(<<>>) = 0
  BY <1>0 DEF Range
<1>4. Held = net \cup Range(drain.plan)
  BY <1>2, <1>3 DEF Held
<1>5. /\ DOMAIN drain.plan = 1 .. Len(drain.plan) /\ drain.plan \in Seq(Objects)
      /\ drain.done \in Nat /\ Len(drain.plan) \in Nat
  BY <1>0
<1>6. Range(drain.plan) \subseteq Objects
  BY <1>5 DEF Range
<1>7. ASSUME drain.done < Len(drain.plan)
      PROVE  drain.plan[drain.done + 1] \in Range(drain.plan)
  <2>1. drain.done + 1 \in DOMAIN drain.plan
    BY <1>5, <1>7
  <2> QED BY <2>1 DEF Range
<1>8. CASE Queue!DrainObject(c, reachable)
  <2> DEFINE o == drain.plan[drain.done + 1]
  <2>1. /\ net' = net \cup {o} /\ drain' = [drain EXCEPT !.done = drain.done + 1]
        /\ slot' = slot /\ outcome' = outcome /\ drain.done < Len(drain.plan)
    BY <1>8 DEF Queue!DrainObject
  <2>2. o \in Range(drain.plan)
    BY <1>7, <2>1
  <2>3. \A i \in 1 .. drain.done + 1 : drain.plan[i] \in net'
    <3>1. \A i \in 1 .. drain.done + 1 : i \in 1 .. drain.done \/ i = drain.done + 1
      BY <1>5
    <3> QED BY <1>0, <2>1, <3>1
  <2> HIDE DEF o
  <2>4. /\ drain'.by = c /\ drain'.plan = drain.plan /\ drain'.done = drain.done + 1
        /\ drain' \in [by : Callers \cup {NoCaller}, plan : Seq(Objects), done : Nat]
    BY <1>0, <1>1, <2>1
  <2>5. Held' = Held
    BY <1>4, <2>1, <2>2, <2>4, <1>2, <1>3 DEF Held
  <2>6. drain'.done <= Len(drain'.plan) /\ net' \subseteq Objects
    BY <1>0, <1>5, <1>6, <2>1, <2>2, <2>4
  <2>7. QueueInv'
    BY <1>0, <1>1, <1>2, <1>3, <2>1, <2>3, <2>4, <2>5, <2>6 DEF QueueInv
  <2> QED BY <1>1, <1>2, <2>1, <2>4, <2>5, <2>7
<1>9. ASSUME NEW result \in {"Deferred", "Failed"}, Queue!DrainStops(c, reachable, result)
      PROVE  /\ QueueInv' /\ net \subseteq net' /\ Held' \subseteq Held
             /\ outcome'[c] = result
             /\ \A d \in Callers \ {c} : outcome'[d] = outcome[d]
  <2>1. /\ net' = net \/ net' = net \cup {drain.plan[drain.done + 1]}
        /\ drain' = [by |-> NoCaller, plan |-> <<>>, done |-> 0] /\ slot' = drain.plan
        /\ outcome' = [outcome EXCEPT ![c] = result] /\ drain.done < Len(drain.plan)
    BY <1>9 DEF Queue!DrainStops, Queue!Answer, Queue!NoDrain
  <2>2. net \subseteq net' /\ net' \subseteq net \cup Range(drain.plan)
    BY <1>7, <2>1
  <2>3. /\ drain'.by = NoCaller /\ drain'.plan = <<>> /\ drain'.done = 0
        /\ drain' \in [by : Callers \cup {NoCaller}, plan : Seq(Objects), done : Nat]
    BY <1>3, <2>1
  <2>4. Held' = Held
    BY <1>3, <1>4, <2>1, <2>2, <2>3 DEF Held
  <2>5. /\ outcome' \in [Callers -> Queue!Outcomes] /\ outcome'[c] = result
        /\ \A d \in Callers \ {c} : outcome'[d] = outcome[d]
    BY <1>0, <2>1 DEF Queue!Outcomes
  <2>6. net' \subseteq Objects /\ \A i \in 1 .. 0 : drain'.plan[i] \in net'
    BY <1>0, <1>6, <2>2
  <2>7. QueueInv'
    BY <1>0, <1>2, <1>3, <1>5, <2>1, <2>3, <2>4, <2>5, <2>6 DEF QueueInv
  <2> QED BY <2>2, <2>4, <2>5, <2>7
<1>10. CASE Queue!DrainDone(c)
  <2>1. /\ net' = net /\ slot' = slot /\ drain.done = Len(drain.plan)
        /\ drain' = [by |-> NoCaller, plan |-> <<>>, done |-> 0]
        /\ outcome' = [outcome EXCEPT ![c] = "PublishedCompletely"]
    BY <1>10 DEF Queue!DrainDone, Queue!Answer, Queue!NoDrain
  <2>2. Held \subseteq net
    BY <1>0, <1>4, <1>5, <2>1 DEF Range
  <2>3. /\ drain'.by = NoCaller /\ drain'.plan = <<>> /\ drain'.done = 0
        /\ drain' \in [by : Callers \cup {NoCaller}, plan : Seq(Objects), done : Nat]
    BY <1>3, <2>1
  <2>4. Held' = net
    BY <1>2, <1>3, <2>1, <2>3 DEF Held
  <2>5. net \subseteq Held
    BY <1>4
  <2>6. /\ outcome' \in [Callers -> Queue!Outcomes] /\ outcome'[c] = "PublishedCompletely"
        /\ \A d \in Callers \ {c} : outcome'[d] = outcome[d]
    BY <1>0, <2>1 DEF Queue!Outcomes
  <2>7. taken' \subseteq Held' /\ \A i \in 1 .. 0 : drain'.plan[i] \in net'
    BY <1>0, <1>2, <2>2, <2>4
  <2>8. QueueInv'
    BY <1>0, <1>2, <1>3, <2>1, <2>3, <2>6, <2>7 DEF QueueInv
  <2> QED BY <1>1, <1>2, <2>1, <2>2, <2>4, <2>5, <2>6, <2>8
<1> QED BY <1>1, <1>2, <1>8, <1>9, <1>10 DEF DrainStep, Queue!Drain

\* A migration is told at once that nothing waits, or drains what waits.
LEMMA AskMoves ==
    ASSUME QueueInv, MigrationAsks
    PROVE  /\ QueueInv' /\ net' = net /\ Held' = Held /\ drain.by = NoCaller
           /\ outcome'["client"] = outcome["client"]
           /\ outcome'["migration"] = "none" \/ Held \subseteq net
<1>0. /\ drain \in [by : Callers \cup {NoCaller}, plan : Seq(Objects), done : Nat]
      /\ outcome \in [Callers -> Queue!Outcomes] /\ NoCaller \notin Callers
      /\ "client" \in Callers /\ "migration" \in Callers /\ MaxObjects \in Nat
      /\ slot \in Seq(Objects) /\ Len(slot) <= MaxObjects /\ Len(slot) \in Nat
      /\ net \subseteq Objects /\ taken \subseteq Held
  BY ClientAssumption DEF QueueInv, Callers
<1>1. /\ drain.by = NoCaller /\ drain.plan = <<>> /\ net' = net /\ taken' = taken
  BY DEF MigrationAsks, Queue!Resume, Queue!DrainLockFree, QueueInv
<1>2. Range(<<>>) = {} /\ <<>> \in Seq(Objects) /\ Len(<<>>) <= MaxObjects
  BY <1>0 DEF Range
<1>3. Held = net \cup Range(slot)
  BY <1>1, <1>2 DEF Held
<1>4. CASE slot = <<>>
  <2>1. /\ slot' = slot /\ drain' = drain
        /\ outcome' = [outcome EXCEPT !["migration"] = "NothingPending"]
    BY <1>4 DEF MigrationAsks, Queue!Resume, Queue!Answer
  <2>2. outcome' \in [Callers -> Queue!Outcomes] /\ outcome'["client"] = outcome["client"]
    BY <1>0, <2>1 DEF Queue!Outcomes
  <2>3. Held' = Held
    BY <1>1, <2>1 DEF Held
  <2>4. QueueInv'
    BY <1>0, <1>1, <2>1, <2>2, <2>3 DEF QueueInv
  <2> QED BY <1>1, <1>2, <1>3, <1>4, <2>2, <2>3, <2>4
<1>5. CASE slot # <<>>
  <2>1. /\ slot' = <<>> /\ drain' = [by |-> "migration", plan |-> slot, done |-> 0]
        /\ outcome' = [outcome EXCEPT !["migration"] = "none"]
    BY <1>5 DEF MigrationAsks, Queue!Resume, Queue!Answer
  <2>2. /\ outcome' \in [Callers -> Queue!Outcomes] /\ outcome'["client"] = outcome["client"]
        /\ outcome'["migration"] = "none"
    BY <1>0, <2>1 DEF Queue!Outcomes
  <2>3. /\ drain'.by = "migration" /\ drain'.plan = slot /\ drain'.done = 0
        /\ drain' \in [by : Callers \cup {NoCaller}, plan : Seq(Objects), done : Nat]
    BY <1>0, <2>1
  <2>4. Held' = Held
    BY <1>1, <1>2, <1>3, <2>1, <2>3 DEF Held
  <2>5. QueueInv'
    BY <1>0, <1>1, <1>2, <2>1, <2>2, <2>3, <2>4 DEF QueueInv
  <2> QED BY <1>1, <2>2, <2>4, <2>5
<1> QED BY <1>4, <1>5

\* With the process its plan is gone.
LEMMA LostMoves ==
    ASSUME QueueInv, Restart
    PROVE  QueueInv' /\ net' = net /\ Held' = net
<1>0. MaxObjects \in Nat /\ NoCaller \notin Callers /\ net \subseteq Objects
  BY ClientAssumption DEF QueueInv
<1>1. /\ net' = net /\ taken' = {} /\ slot' = <<>>
      /\ drain' = [by |-> NoCaller, plan |-> <<>>, done |-> 0]
      /\ outcome' = [c \in Callers |-> "none"]
  BY DEF Restart, Queue!QueueLost, Queue!NoDrain
<1>2. Range(<<>>) = {} /\ <<>> \in Seq(Objects) /\ Len(<<>>) <= MaxObjects /\ Len(<<>>) = 0
  BY <1>0 DEF Range
<1>3. /\ drain'.by = NoCaller /\ drain'.plan = <<>> /\ drain'.done = 0
      /\ drain' \in [by : Callers \cup {NoCaller}, plan : Seq(Objects), done : Nat]
  BY <1>1, <1>2
<1>4. Held' = net
  BY <1>1, <1>2, <1>3 DEF Held
<1>5. outcome' \in [Callers -> Queue!Outcomes]
  BY <1>1 DEF Queue!Outcomes
<1>6. QueueInv'
  BY <1>0, <1>1, <1>2, <1>3, <1>4, <1>5 DEF QueueInv
<1> QED BY <1>1, <1>4, <1>6

-----------------------------------------------------------------------------
\* What the steps of a run do.

\* Entries and counters of the run stay as they are.
Kept == /\ client'.todo = client.todo /\ client'.pushed = client.pushed
        /\ client'.confirmed = client.confirmed /\ client'.pending = client.pending
\* Only more is committed, accepted and published.
Grows == /\ net \subseteq net' /\ accepted \subseteq accepted'
         /\ committed <= committed' /\ committed' \in 0 .. LastEntry

LEMMA GoIs ==
    ASSUME client \in Runs, NEW pc \in Busy \cup Resting \cup {"next", "report"}, Go(pc)
    PROVE  Kept /\ client' \in Runs /\ client'.pc = pc
BY DEF Go, Kept, Runs

LEMMA WaitsIs ==
    ASSUME client \in Runs, NEW step \in Waiting, Waits(step)
    PROVE  Kept /\ client' \in Runs /\ client'.pc = "report"
BY DEF Waits, Kept, Runs

LEMMA EndsIs ==
    ASSUME committed' \in 0 .. LastEntry, NEW pc \in Resting, client' = [Idle EXCEPT !.pc = pc]
    PROVE  RunInv' /\ client'.pc = pc
<1>1. /\ client'.pc = pc /\ client'.todo = <<>> /\ client'.pushed = 0
      /\ client'.confirmed = 0 /\ client'.pending = 0 /\ client'.step = "none"
  BY DEF Idle
<1>2. <<>> \in Seq(Entries) /\ Len(<<>>) = 0 /\ committed' \in Nat /\ 0 <= committed'
  BY ClientAssumption
<1>3. client' \in Runs
  BY <1>2 DEF Idle, Runs, Waiting
<1>4. Increasing(<<>>, 0)
  BY <1>2 DEF Increasing
<1>5. client'.pc \notin Busy
  BY <1>1 DEF Resting, Busy, Publishing, Uploading, Confirming
<1> QED BY <1>1, <1>2, <1>3, <1>4, <1>5 DEF RunInv

LEMMA KeptRun ==
    ASSUME RunInv, Kept, Grows, client' \in Runs,
           client'.pc \in Busy => client.todo # <<>>
    PROVE  RunInv'
<1>1. /\ client.pending \in Nat /\ client.confirmed \in Nat /\ committed \in Nat
      /\ committed' \in Nat
  BY ClientAssumption DEF RunInv, Runs, Grows
<1>2. client'.pending + client'.confirmed <= committed'
  BY <1>1 DEF RunInv, Kept, Grows
<1>3. client'.pending = client.pending /\ client'.confirmed = client.confirmed
      /\ client'.todo = client.todo /\ client'.pushed = client.pushed
  BY DEF Kept
<1>4. \A e \in 1 .. client.pending + client.confirmed :
          e \in Range(client.todo) \/ (e \in accepted' /\ Receipt(e) \in net')
  BY DEF RunInv, Grows
<1>5. /\ client.pushed + Len(client.todo) = client.pending
      /\ Increasing(client.todo, client.pending + client.confirmed)
  BY DEF RunInv
<1>6. committed' \in 0 .. LastEntry
  BY DEF Grows
<1> QED BY <1>2, <1>3, <1>4, <1>5, <1>6 DEF RunInv

\* The first entry of a run, and that its predecessor is accepted.
LEMMA FirstIs ==
    ASSUME RunInv, client.todo # <<>>
    PROVE  /\ Current \in Entries /\ Current \in Range(client.todo)
           /\ Current > 1 => Current - 1 \in accepted
<1>1. /\ client.todo \in Seq(Entries) /\ Len(client.todo) \in Nat
      /\ client.pending + client.confirmed \in Nat
      /\ \A i \in DOMAIN client.todo : client.todo[i] \in Entries
  BY DEF RunInv, Runs
<1>0. Entries \subseteq Nat
  BY ClientAssumption DEF Entries
<1>2. Len(client.todo) >= 1 /\ Current = client.todo[1] /\ 1 \in DOMAIN client.todo
  BY <1>1 DEF Current
<1>3. Current \in Entries /\ Current \in Range(client.todo) /\ Current \in Nat
  BY <1>0, <1>1, <1>2 DEF Range
<1>4. \A i \in DOMAIN client.todo : i = 1 \/ Current < client.todo[i]
  BY <1>1, <1>2 DEF RunInv, Increasing
<1>5. Current <= client.pending + client.confirmed
  BY <1>1, <1>2 DEF RunInv, Increasing
<1>6. ASSUME Current > 1 PROVE Current - 1 \in accepted
  <2>1. Current - 1 \in 1 .. client.pending + client.confirmed
    BY <1>1, <1>3, <1>5, <1>6
  <2>2. \A i \in DOMAIN client.todo : client.todo[i] \in Nat
    BY <1>0, <1>1
  <2>3. Current - 1 \notin Range(client.todo)
    BY <1>2, <1>3, <1>4, <2>2 DEF Range
  <2> QED BY <2>1, <2>3 DEF RunInv
<1> QED BY <1>3, <1>6

LEMMA Growth ==
    ASSUME QueueInv, RunInv, [Next]_vars PROVE Grows
<1>1. committed \in 0 .. LastEntry /\ committed \in Nat
  BY ClientAssumption DEF RunInv
<1>2. CASE CommitLocally
  BY <1>1, <1>2, ClientAssumption DEF CommitLocally, Grows
<1>3. CASE \E c \in Callers : DrainStep(c)
  <2>1. PICK c \in Callers : DrainStep(c)
    BY <1>3
  <2>2. net \subseteq net' /\ UNCHANGED <<committed, accepted>>
    BY <2>1, DrainMoves DEF DrainStep
  <2> QED BY <1>1, <2>2 DEF Grows
<1>4. CASE PublishEntry \/ PublishReceipt
  <2>1. UNCHANGED <<net, committed, accepted>>
    BY <1>4 DEF PublishEntry, PublishReceipt, Submit, Queue!Publish, Queue!PublishOverLimit,
         Queue!PublishDeferred, Queue!PublishDrain
  <2> QED BY <1>1, <2>1 DEF Grows
<1>5. CASE MigrationAsks \/ Restart
  <2>1. UNCHANGED <<net, committed, accepted>>
    BY <1>5 DEF MigrationAsks, Queue!Resume, Restart
  <2> QED BY <1>1, <2>1 DEF Grows
<1>6. CASE CommitAnswered \/ CommitUnanswered \/ RunFails
  <2>1. UNCHANGED <<net, committed>> /\ accepted \subseteq accepted'
    BY <1>6 DEF CommitAnswered, CommitUnanswered, RunFails
  <2> QED BY <1>1, <2>1 DEF Grows
<1>7. CASE \/ BeginRun \/ TakeEntry \/ EntryPublished \/ FetchChallenge \/ ReceiptPublished
           \/ ClearRetry \/ Report \/ (\E e \in Entries : BackoffElapses(e))
           \/ (\E up \in BOOLEAN : SetReachable(up)) \/ UNCHANGED vars
  <2>1. UNCHANGED <<net, committed, accepted>>
    BY <1>7 DEF BeginRun, TakeEntry, EntryPublished, FetchChallenge, ReceiptPublished,
         ClearRetry, Report, BackoffElapses, SetReachable, vars
  <2> QED BY <1>1, <2>1 DEF Grows
<1> QED BY <1>2, <1>3, <1>4, <1>5, <1>6, <1>7 DEF Next, RunStep

\* Most steps leave the run alone or turn it to another of its steps, with the
\* same entries; the others begin one, end one or finish an entry.
Turns(pc) == Kept /\ client' \in Runs /\ client'.pc = pc
LEMMA RunMoves ==
    ASSUME QueueInv, RunInv, [Next]_vars
    PROVE  \/ BeginRun \/ ClearRetry
           \/ /\ client' = client
              /\ (\E c \in Callers : DrainStep(c)) \/ MigrationAsks \/ UNCHANGED queue
           \/ Turns("report")
           \/ \E pc \in Resting : client' = [Idle EXCEPT !.pc = pc]
           \/ /\ TakeEntry /\ client.todo # <<>> /\ ~(retry[Current].failed >= MaxAttempts)
              /\ Turns("publish")
           \/ PublishEntry /\ Turns("published")
           \/ EntryPublished /\ outcome["client"] \in Queue!NothingOutstanding
              /\ Turns("challenge")
           \/ FetchChallenge /\ Turns("send")
           \/ CommitAnswered /\ Turns("publishReceipt")
           \/ PublishReceipt /\ Turns("receiptPublished")
           \/ ReceiptPublished /\ outcome["client"] \in Queue!NothingOutstanding
              /\ Turns("clear")
<1>0. client \in Runs
  BY DEF RunInv
<1>1. \A pc \in Busy \cup Resting \cup {"next", "report"} : Go(pc) => Turns(pc)
  BY <1>0, GoIs DEF Turns
<1>2. \A step \in Waiting : Waits(step) => Turns("report")
  BY <1>0, WaitsIs DEF Turns
<1>3. /\ \A pc \in Resting : Ends(pc) => client' = [Idle EXCEPT !.pc = pc]
      /\ {"failed", "restarted", "idle"} \subseteq Resting
      /\ Idle = [Idle EXCEPT !.pc = "idle"]
  BY DEF Ends, Resting, Idle
<1>4. /\ {"publish", "published", "challenge", "send", "publishReceipt", "receiptPublished",
          "clear"} \subseteq Busy
      /\ {"ResumeExhausted", "ServerUpload", "NetworkArchive", "QueueLimit"} \subseteq Waiting
  BY DEF Busy, Publishing, Uploading, Confirming, Waiting
<1>5. CASE TakeEntry
  <2>1. \/ Go("report") \/ Waits("ResumeExhausted") \/ Waits("ServerUpload")
        \/ client.todo # <<>> /\ ~(retry[Current].failed >= MaxAttempts) /\ Go("publish")
    BY <1>5 DEF TakeEntry
  <2> QED BY <1>1, <1>2, <1>4, <1>5, <2>1
<1>6. CASE PublishEntry
  BY <1>1, <1>4, <1>6 DEF PublishEntry, Submit
<1>7. CASE PublishReceipt
  BY <1>1, <1>4, <1>7 DEF PublishReceipt, Submit
<1>8. CASE FetchChallenge
  BY <1>1, <1>4, <1>8 DEF FetchChallenge
<1>9. CASE CommitAnswered
  BY <1>1, <1>4, <1>9 DEF CommitAnswered
<1>10. CASE CommitUnanswered
  <2>1. Waits("ResumeExhausted") \/ Waits("ServerUpload")
    BY <1>10 DEF CommitUnanswered
  <2> QED BY <1>2, <1>4, <2>1
<1>11. CASE Report
  BY <1>3, <1>11 DEF Report
<1>12. CASE RunFails \/ Restart
  <2>1. Ends("failed") \/ Ends("restarted")
    BY <1>12 DEF RunFails, Restart
  <2> QED BY <1>3, <2>1
<1>13. CASE \/ (\E c \in Callers : DrainStep(c)) \/ CommitLocally \/ MigrationAsks
            \/ (\E e \in Entries : BackoffElapses(e))
            \/ (\E up \in BOOLEAN : SetReachable(up)) \/ UNCHANGED vars
  BY <1>13 DEF DrainStep, CommitLocally, MigrationAsks, BackoffElapses, SetReachable, vars, queue
<1>14. CASE EntryPublished
  <2>1. outcome["client"] \in Queue!Outcomes \ {"none"}
    BY <1>14 DEF EntryPublished, QueueInv, Callers
  <2>2. CASE outcome["client"] = "Deferred"
    <3>1. Waits("NetworkArchive")
      BY <1>14, <2>2 DEF EntryPublished
    <3> QED BY <1>2, <1>4, <3>1
  <2>3. CASE outcome["client"] = "QueueLimitReached"
    <3>1. Waits("QueueLimit")
      BY <1>14, <2>3 DEF EntryPublished
    <3> QED BY <1>2, <1>4, <3>1
  <2>4. CASE outcome["client"] = "Failed"
    <3>1. client' = Idle
      BY <1>14, <2>4 DEF EntryPublished, Fails
    <3> QED BY <1>3, <3>1
  <2>5. CASE outcome["client"] \in Queue!NothingOutstanding
    <3>1. outcome["client"] \notin {"Deferred", "QueueLimitReached", "Failed"}
      BY <2>5 DEF Queue!NothingOutstanding
    <3>2. Go("challenge")
      BY <1>14, <3>1 DEF EntryPublished
    <3> QED BY <1>1, <1>4, <1>14, <2>5, <3>2
  <2> QED BY <2>1, <2>2, <2>3, <2>4, <2>5 DEF Queue!Outcomes, Queue!NothingOutstanding
<1>15. CASE ReceiptPublished
  <2>1. \/ client' = Idle
        \/ outcome["client"] \in Queue!NothingOutstanding /\ Go("clear")
    BY <1>15 DEF ReceiptPublished, Fails
  <2> QED BY <1>1, <1>3, <1>4, <1>15, <2>1
<1> QED BY <1>5, <1>6, <1>7, <1>8, <1>9, <1>10, <1>11, <1>12, <1>13, <1>14, <1>15
        DEF Next, RunStep

\* A run has its entries in order, and the others it has seen are done.
LEMMA RunNext ==
    ASSUME QueueInv, RunInv, EntryInv, RecordInv, [Next]_vars PROVE RunInv'
<1>0. Grows /\ committed' \in 0 .. LastEntry
  BY Growth DEF Grows
<1>1. CASE BeginRun
  <2> DEFINE open == Open
  <2>1. committed \in 0 .. LastEntry /\ committed \in Nat
    BY ClientAssumption DEF RunInv
  <2>2. /\ open \in Seq(Entries) /\ Len(open) <= committed /\ Increasing(open, committed)
        /\ Range(open) = {e \in 1 .. committed : e \notin Confirmed} /\ Len(open) \in Nat
    BY <2>1, OpenIs
  <2>3. client' = [pc |-> "next", todo |-> open, pushed |-> 0,
                   confirmed |-> committed - Len(open), pending |-> Len(open),
                   step |-> "none"]
        /\ UNCHANGED <<committed, accepted, net>>
    BY <1>1 DEF BeginRun
  <2> HIDE DEF open
  <2>4. /\ client'.pc = "next" /\ client'.todo = open /\ client'.pushed = 0
        /\ client'.confirmed = committed - Len(open) /\ client'.pending = Len(open)
        /\ client'.step = "none"
    BY <2>3
  <2>5. /\ committed - Len(open) \in Nat /\ 0 + Len(open) = Len(open)
        /\ Len(open) + (committed - Len(open)) = committed
    BY <2>1, <2>2
  <2>6. client' \in Runs
    BY <2>2, <2>3, <2>5 DEF Runs, Waiting
  <2>7. ASSUME NEW e \in 1 .. committed, e \notin Range(open)
        PROVE  e \in accepted /\ Receipt(e) \in net
    <3>1. e \in Confirmed /\ e \in Entries
      BY <2>1, <2>2, <2>7, ClientAssumption DEF Entries
    <3>2. Receipt(e) \in net
      BY <3>1 DEF Confirmed, RecordInv
    <3> QED BY <3>1, <3>2 DEF RecordInv, Held
  <2>8. client'.pc \notin Busy
    BY <2>4 DEF Busy, Publishing, Uploading, Confirming
  <2> QED BY <2>1, <2>2, <2>3, <2>4, <2>5, <2>6, <2>7, <2>8 DEF RunInv
<1>2. CASE ClearRetry
  <2> DEFINE rest == Tail(client.todo)
  <2>1. /\ client.pc = "clear" /\ UNCHANGED <<committed, accepted, net>>
        /\ client' = [client EXCEPT !.pc = "next", !.todo = Tail(client.todo),
                                    !.pushed = client.pushed + 1]
    BY <1>2 DEF ClearRetry
  <2>2. client.todo # <<>> /\ Current \in accepted /\ Receipt(Current) \in net
    BY <2>1 DEF RunInv, EntryInv, Busy, Confirming
  <2>3. /\ client \in Runs /\ client.todo \in Seq(Entries) /\ Len(client.todo) \in Nat
        /\ client.pushed \in Nat /\ client.pending \in Nat /\ client.confirmed \in Nat
    BY DEF RunInv, Runs
  <2>4. /\ rest \in Seq(Entries) /\ Len(rest) = Len(client.todo) - 1
        /\ \A i \in 1 .. Len(rest) : rest[i] = client.todo[i + 1]
        /\ Current = client.todo[1] /\ Len(client.todo) >= 1
    BY <2>2, <2>3 DEF Current
  <2> HIDE DEF rest
  <2>5. /\ client'.pc = "next" /\ client'.todo = rest /\ client'.pushed = client.pushed + 1
        /\ client'.confirmed = client.confirmed /\ client'.pending = client.pending
    BY <2>1, <2>3 DEF Runs, rest
  <2>6. client' \in Runs
    <3>1. client' = [client EXCEPT !.pc = "next", !.todo = rest, !.pushed = client.pushed + 1]
      BY <2>1 DEF rest
    <3>2. client.pushed + 1 \in Nat
      BY <2>3
    <3> QED BY <2>3, <2>4, <3>1, <3>2 DEF Runs
  <2>7. (client.pushed + 1) + Len(rest) = client.pending
    <3>1. client.pushed + Len(client.todo) = client.pending
      BY DEF RunInv
    <3>2. Len(rest) = Len(client.todo) - 1 /\ Len(rest) \in Nat
      BY <2>4
    <3>3. \A a, b, c, d \in Nat : a + b = c /\ d = b - 1 => (a + 1) + d = c
      OBVIOUS
    <3>4. /\ client.pushed \in Nat /\ client.pending \in Nat /\ Len(client.todo) \in Nat
          /\ Len(rest) \in Nat
      BY <2>3, <3>2
    <3> QED BY <3>1, <3>2, <3>3, <3>4
  <2>8. Increasing(rest, client.pending + client.confirmed)
    <3>1. \A i \in 1 .. Len(rest) : i + 1 \in 1 .. Len(client.todo)
      BY <2>3, <2>4
    <3>2. \A i, j \in 1 .. Len(rest) : i < j => i + 1 < j + 1
      OBVIOUS
    <3> QED BY <2>4, <3>1, <3>2 DEF RunInv, Increasing
  <2>9. ASSUME NEW e \in Range(client.todo) PROVE e = Current \/ e \in Range(rest)
    <3>1. PICK i \in 1 .. Len(client.todo) : e = client.todo[i]
      BY <2>3 DEF Range
    <3>2. CASE i = 1
      BY <2>4, <3>1, <3>2
    <3>3. CASE i # 1
      <4>1. i - 1 \in 1 .. Len(rest) /\ (i - 1) + 1 = i
        BY <2>3, <2>4, <3>3
      <4>2. rest[i - 1] = e /\ DOMAIN rest = 1 .. Len(rest)
        BY <2>4, <3>1, <4>1
      <4> QED BY <4>1, <4>2 DEF Range
    <3> QED BY <3>2, <3>3
  <2>10. \A e \in 1 .. client.pending + client.confirmed :
            e \in Range(rest) \/ (e \in accepted /\ Receipt(e) \in net)
    BY <2>2, <2>9 DEF RunInv
  <2>11. client'.pc \notin Busy
    BY <2>5 DEF Busy, Publishing, Uploading, Confirming
  <2>12. committed \in 0 .. LastEntry /\ client.pending + client.confirmed <= committed
    BY DEF RunInv
  <2> QED BY <2>1, <2>5, <2>6, <2>7, <2>8, <2>10, <2>11, <2>12 DEF RunInv
<1>3. CASE client' = client
  BY <1>0, <1>3, KeptRun DEF Kept, RunInv
<1>4. ASSUME NEW pc, Turns(pc), pc \in Busy => client.todo # <<>> PROVE RunInv'
  BY <1>0, <1>4, KeptRun DEF Turns
<1>5. CASE \E pc \in Resting : client' = [Idle EXCEPT !.pc = pc]
  BY <1>0, <1>5, EndsIs
<1>6. ASSUME client.pc \in Busy PROVE client.todo # <<>>
  BY <1>6 DEF RunInv
<1>7. ASSUME \/ PublishEntry \/ EntryPublished \/ FetchChallenge \/ CommitAnswered
             \/ PublishReceipt \/ ReceiptPublished
      PROVE  client.todo # <<>>
  <2>1. client.pc \in {"publish", "published", "challenge", "send", "publishReceipt",
                       "receiptPublished"}
    BY <1>7 DEF PublishEntry, EntryPublished, FetchChallenge, CommitAnswered, PublishReceipt,
         ReceiptPublished
  <2> QED BY <1>6, <2>1 DEF Busy, Publishing, Uploading, Confirming
<1>8. "report" \notin Busy
  BY DEF Busy, Publishing, Uploading, Confirming
<1> QED BY <1>1, <1>2, <1>3, <1>4, <1>5, <1>7, <1>8, RunMoves

\* Every step of an entry has what the one before has left: what was called
\* for is being drained or is there, and what was accepted stays so.
LEMMA EntryNext ==
    ASSUME QueueInv, RunInv, EntryInv, RecordInv, [Next]_vars PROVE EntryInv'
<1>0. Grows /\ outcome["client"] \in Queue!Outcomes /\ NoCaller \notin Callers
  BY Growth, ClientAssumption DEF QueueInv, Callers
<1>1. ASSUME client'.pc \in Resting \cup {"next", "report", "publish"} PROVE EntryInv'
  BY <1>1 DEF EntryInv, Resting, Uploading, Confirming
<1>2. ASSUME Kept PROVE Current' = Current
  BY <1>2 DEF Kept, Current
<1>3. CASE BeginRun \/ ClearRetry
  <2>1. CASE BeginRun
    BY <1>1, <2>1 DEF BeginRun
  <2>2. CASE ClearRetry
    <3>1. client' = [client EXCEPT !.pc = "next", !.todo = Tail(client.todo),
                                   !.pushed = client.pushed + 1]
      BY <2>2 DEF ClearRetry
    <3>2. client'.pc = "next"
      BY <3>1 DEF RunInv, Runs
    <3> QED BY <1>1, <3>2
  <2> QED BY <1>3, <2>1, <2>2
<1>4. CASE \E pc \in Resting : client' = [Idle EXCEPT !.pc = pc]
  <2>1. client'.pc \in Resting
    BY <1>4 DEF Idle
  <2> QED BY <1>1, <2>1
<1>5. CASE Turns("report") \/ Turns("publish")
  <2>1. client'.pc \in {"report", "publish"}
    BY <1>5 DEF Turns
  <2> QED BY <1>1, <2>1
<1>6. CASE PublishEntry /\ Turns("published")
  <2>1. client'.pc = "published" /\ Current' = Current
    BY <1>2, <1>6 DEF Turns
  <2>2. Called' = Plan(Current)
    BY <2>1 DEF Called
  <2>3. Current \in Entries
    BY <1>6, FirstIs DEF PublishEntry, RunInv, Busy, Publishing
  <2>4. \/ outcome'["client"] \in {"QueueLimitReached", "Deferred"}
        \/ /\ outcome'["client"] = "none" /\ drain'.by = "client"
           /\ Range(Plan(Current)) \subseteq Range(drain'.plan)
    BY <1>6, <2>3, PlanIs, SubmitMoves DEF PublishEntry
  <2> QED BY <2>1, <2>2, <2>4 DEF EntryInv, Uploading, Confirming, Queue!NothingOutstanding
<1>7. CASE PublishReceipt /\ Turns("receiptPublished")
  <2>1. client'.pc = "receiptPublished" /\ Current' = Current /\ client.pc = "publishReceipt"
        /\ accepted' = accepted
    BY <1>2, <1>7 DEF Turns, PublishReceipt, Submit
  <2>2. Called' = <<Receipt(Current)>>
    BY <2>1 DEF Called
  <2>3. Current \in Entries /\ Current \in accepted
    BY <2>1, FirstIs DEF RunInv, EntryInv, Busy, Confirming
  <2>4. \/ outcome'["client"] \in {"QueueLimitReached", "Deferred"}
        \/ /\ outcome'["client"] = "none" /\ drain'.by = "client"
           /\ Range(<<Receipt(Current)>>) \subseteq Range(drain'.plan)
    BY <1>7, <2>3, PlanIs, SubmitMoves DEF PublishReceipt
  <2> QED BY <2>1, <2>2, <2>3, <2>4
          DEF EntryInv, Uploading, Confirming, Queue!NothingOutstanding
<1>8. CASE /\ EntryPublished /\ outcome["client"] \in Queue!NothingOutstanding
           /\ Turns("challenge")
  <2>1. client'.pc = "challenge" /\ Current' = Current /\ client.pc = "published" /\ net' = net
    BY <1>2, <1>8 DEF Turns, EntryPublished
  <2>2. Range(Plan(Current)) \subseteq net
    BY <1>8, <2>1 DEF EntryInv, Called
  <2> QED BY <2>1, <2>2 DEF EntryInv, Uploading, Confirming
<1>9. CASE FetchChallenge /\ Turns("send")
  <2>1. client'.pc = "send" /\ Current' = Current /\ client.pc = "challenge" /\ net' = net
    BY <1>2, <1>9 DEF Turns, FetchChallenge
  <2> QED BY <2>1 DEF EntryInv, Uploading, Confirming
<1>10. CASE CommitAnswered /\ Turns("publishReceipt")
  <2>1. client'.pc = "publishReceipt" /\ Current' = Current
        /\ accepted' = accepted \cup {Current}
    BY <1>2, <1>10 DEF Turns, CommitAnswered
  <2> QED BY <2>1 DEF EntryInv, Uploading, Confirming
<1>11. CASE /\ ReceiptPublished /\ outcome["client"] \in Queue!NothingOutstanding
            /\ Turns("clear")
  <2>1. /\ client'.pc = "clear" /\ Current' = Current /\ client.pc = "receiptPublished"
        /\ UNCHANGED <<net, accepted>>
    BY <1>2, <1>11 DEF Turns, ReceiptPublished
  <2>2. Range(<<Receipt(Current)>>) \subseteq net /\ Current \in accepted
    BY <1>11, <2>1 DEF EntryInv, Called, Confirming
  <2>3. Current \in Entries
    BY <2>1, FirstIs DEF RunInv, Busy, Confirming
  <2>4. Receipt(Current) \in net
    BY <2>2, <2>3, PlanIs
  <2> QED BY <2>1, <2>2, <2>4 DEF EntryInv, Uploading, Confirming
<1>12. CASE /\ client' = client
            /\ (\E c \in Callers : DrainStep(c)) \/ MigrationAsks \/ UNCHANGED queue
  <2>0. Current' = Current /\ Called' = Called /\ net \subseteq net' /\ accepted \subseteq accepted'
    BY <1>0, <1>12 DEF Current, Called, Grows
  <2> DEFINE calls == client.pc \in {"published", "receiptPublished"}
  <2>1. ASSUME \/ calls => outcome'["client"] = outcome["client"] /\ outcome["client"] # "none"
               \/ UNCHANGED <<outcome, drain>>
               \/ calls => outcome'["client"] \in {"Deferred", "Failed"}
               \/ calls => outcome'["client"] = "PublishedCompletely"
                           /\ Range(Called) \subseteq net
               \/ calls => /\ outcome'["client"] = "none" /\ drain'.by = "client"
                           /\ Range(Called) \subseteq Range(drain'.plan)
        PROVE  EntryInv'
    BY <1>12, <2>0, <2>1 DEF EntryInv, Queue!NothingOutstanding
  <2>2. CASE UNCHANGED queue
    BY <2>1, <2>2 DEF queue
  <2>3. CASE MigrationAsks
    <3>1. drain.by # "client" /\ outcome'["client"] = outcome["client"]
      BY <1>0, <2>3, AskMoves DEF Callers
    <3>2. calls => outcome["client"] # "none"
      BY <3>1 DEF EntryInv
    <3> QED BY <2>1, <3>1, <3>2
  <2>4. CASE \E c \in Callers : DrainStep(c)
    <3>1. PICK c \in Callers : DrainStep(c)
      BY <2>4
    <3>2. CASE c # "client"
      <4>1. drain.by # "client" /\ outcome'["client"] = outcome["client"]
        BY <3>1, <3>2, DrainMoves DEF Callers
      <4>2. calls => outcome["client"] # "none"
        BY <4>1 DEF EntryInv
      <4> QED BY <2>1, <4>1, <4>2
    <3>3. CASE c = "client"
      <4>1. /\ outcome["client"] = "none"
            /\ \/ /\ outcome'["client"] = "none" /\ drain'.by = "client"
                  /\ drain'.plan = drain.plan
               \/ outcome'["client"] \in {"Deferred", "Failed"}
               \/ outcome'["client"] = "PublishedCompletely" /\ Held \subseteq net
        BY <3>1, <3>3, DrainMoves
      <4>2. calls => Range(Called) \subseteq Range(drain.plan)
        BY <4>1 DEF EntryInv
      <4>3. Range(drain.plan) \subseteq Held
        BY DEF Held
      <4>4. CASE outcome'["client"] = "none" /\ drain'.by = "client" /\ drain'.plan = drain.plan
        BY <2>1, <4>2, <4>4
      <4>5. CASE outcome'["client"] \in {"Deferred", "Failed"}
        BY <2>1, <4>5
      <4>6. CASE outcome'["client"] = "PublishedCompletely" /\ Held \subseteq net
        BY <2>1, <4>2, <4>3, <4>6
      <4> QED BY <4>1, <4>4, <4>5, <4>6
    <3> QED BY <3>2, <3>3
  <2> QED BY <1>12, <2>2, <2>3, <2>4
<1> QED BY <1>3, <1>4, <1>5, <1>6, <1>7, <1>8, <1>9, <1>10, <1>11, <1>12, RunMoves

\* Steps that have nothing to do with the queue.
LEMMA OtherSteps ==
    ASSUME [Next]_vars
    PROVE  \/ PublishEntry \/ PublishReceipt \/ MigrationAsks \/ Restart
           \/ \E c \in Callers : DrainStep(c)
           \/ UNCHANGED <<net, slot, drain, outcome, taken>>
<1>1. CASE \/ BeginRun \/ TakeEntry \/ EntryPublished \/ FetchChallenge \/ CommitAnswered
           \/ ReceiptPublished \/ ClearRetry \/ Report \/ CommitUnanswered \/ RunFails
  BY <1>1 DEF BeginRun, TakeEntry, EntryPublished, FetchChallenge, CommitAnswered,
       ReceiptPublished, ClearRetry, Report, CommitUnanswered, RunFails, queue
<1>2. CASE \/ CommitLocally \/ (\E e \in Entries : BackoffElapses(e))
           \/ (\E up \in BOOLEAN : SetReachable(up)) \/ UNCHANGED vars
  BY <1>2 DEF CommitLocally, BackoffElapses, SetReachable, vars, queue
<1> QED BY <1>1, <1>2 DEF Next, RunStep

LEMMA QueueNext ==
    ASSUME QueueInv, RunInv, [Next]_vars PROVE QueueInv'
<1>1. CASE PublishEntry \/ PublishReceipt
  <2>1. client.pc \in Busy
    BY <1>1 DEF PublishEntry, PublishReceipt, Busy, Publishing, Confirming
  <2>2. Current \in Entries
    BY <2>1, FirstIs DEF RunInv
  <2>3. Plan(Current) \in Seq(Objects) /\ <<Receipt(Current)>> \in Seq(Objects)
    BY <2>2, PlanIs
  <2>4. PICK p \in Seq(Objects), pc \in {"published", "receiptPublished"} : Submit(p, pc)
    BY <1>1, <2>3 DEF PublishEntry, PublishReceipt
  <2> QED BY <2>4, SubmitMoves
<1>2. CASE MigrationAsks
  BY <1>2, AskMoves
<1>3. CASE Restart
  BY <1>3, LostMoves
<1>4. CASE \E c \in Callers : DrainStep(c)
  BY <1>4, DrainMoves
<1>5. CASE UNCHANGED <<net, slot, drain, outcome, taken>>
  BY <1>5 DEF QueueInv, Held
<1> QED BY <1>1, <1>2, <1>3, <1>4, <1>5, OtherSteps

\* The records of what was accepted.
Recorded == UNCHANGED <<accepted, receipts, baseline>>
LEMMA RecordMoves ==
    ASSUME RunInv, [Next]_vars
    PROVE  \/ Recorded
           \/ Restart
           \/ ReceiptPublished /\ accepted' = accepted
           \/ /\ client.pc = "send" /\ accepted' \in {accepted, accepted \cup {Current}}
              /\ UNCHANGED <<receipts, baseline, net, slot, drain>>
<1>1. CASE CommitAnswered \/ CommitUnanswered
  BY <1>1 DEF CommitAnswered, CommitUnanswered, queue
<1>2. CASE RunFails
  BY <1>2 DEF RunFails, Recorded, queue
<1>3. CASE ReceiptPublished
  BY <1>3 DEF ReceiptPublished
<1>4. CASE \/ BeginRun \/ TakeEntry \/ PublishEntry \/ EntryPublished \/ FetchChallenge
           \/ PublishReceipt \/ ClearRetry \/ Report
  BY <1>4 DEF BeginRun, TakeEntry, PublishEntry, Submit, EntryPublished, FetchChallenge,
       PublishReceipt, ClearRetry, Report, Recorded
<1>5. CASE \/ (\E c \in Callers : DrainStep(c)) \/ CommitLocally \/ MigrationAsks
           \/ (\E e \in Entries : BackoffElapses(e))
           \/ (\E up \in BOOLEAN : SetReachable(up)) \/ UNCHANGED vars
  BY <1>5 DEF DrainStep, CommitLocally, MigrationAsks, BackoffElapses, SetReachable, vars,
       Recorded
<1> QED BY <1>1, <1>2, <1>3, <1>4, <1>5 DEF Next, RunStep

\* What is held grows only by the plan of an entry or by the receipt of an
\* accepted one.
LEMMA HeldMoves ==
    ASSUME QueueInv, RunInv, EntryInv, [Next]_vars,
           NEW e \in Entries, Receipt(e) \in Held'
    PROVE  Receipt(e) \in Held \/ e \in accepted
<1>1. CASE PublishEntry
  <2>1. Current \in Entries
    BY <1>1, FirstIs DEF PublishEntry, RunInv, Busy, Publishing
  <2>2. Held' \subseteq Held \cup Range(Plan(Current))
    BY <1>1, <2>1, PlanIs, SubmitMoves DEF PublishEntry
  <2> QED BY <2>1, <2>2, PlanIs
<1>2. CASE PublishReceipt
  <2>1. Current \in Entries /\ Current \in accepted
    BY <1>2, FirstIs DEF PublishReceipt, RunInv, EntryInv, Busy, Confirming
  <2>2. Held' \subseteq Held \cup Range(<<Receipt(Current)>>)
    BY <1>2, <2>1, PlanIs, SubmitMoves DEF PublishReceipt
  <2>3. Held' \subseteq Held \cup {Receipt(Current)}
    BY <2>1, <2>2, PlanIs
  <2>4. Receipt(e) = Receipt(Current) => e = Current
    BY DEF Receipt
  <2> QED BY <2>1, <2>3, <2>4
<1>3. CASE MigrationAsks
  BY <1>3, AskMoves
<1>4. CASE Restart
  BY <1>4, LostMoves DEF Held
<1>5. CASE \E c \in Callers : DrainStep(c)
  BY <1>5, DrainMoves
<1>6. CASE UNCHANGED <<net, slot, drain, outcome, taken>>
  BY <1>6 DEF Held
<1> QED BY <1>1, <1>2, <1>3, <1>4, <1>5, <1>6, OtherSteps

\* Accepted is only what is published, after its predecessor; confirmed only
\* what is accepted.
LEMMA RecordNext ==
    ASSUME QueueInv, RunInv, EntryInv, RecordInv, [Next]_vars PROVE RecordInv'
<1>0. net \subseteq net' /\ accepted \subseteq accepted'
  BY Growth DEF Grows
<1>1. \A e \in Entries : Receipt(e) \in Held' => e \in accepted'
  BY <1>0, HeldMoves DEF RecordInv
<1>2. ASSUME Recorded PROVE RecordInv'
  BY <1>0, <1>1, <1>2 DEF RecordInv, Recorded, UploadAfterNetwork
<1>3. CASE Restart
  <2>1. /\ accepted' = accepted /\ receipts' = receipts /\ net' = net
        /\ baseline' = {e \in Entries : Receipt(e) \in net}
    BY <1>3 DEF Restart
  <2> QED BY <1>1, <2>1 DEF RecordInv, UploadAfterNetwork
<1>4. CASE ReceiptPublished /\ accepted' = accepted
  <2>1. /\ client.pc = "receiptPublished" /\ UNCHANGED <<net, baseline>>
        /\ \/ receipts' = receipts
           \/ /\ receipts' = receipts \cup {Current}
              /\ outcome["client"] \in Queue!NothingOutstanding
    BY <1>4 DEF ReceiptPublished
  <2>2. Current \in Entries
    BY <2>1, FirstIs DEF RunInv, Busy, Confirming
  <2>3. outcome["client"] \in Queue!NothingOutstanding => Receipt(Current) \in net
    <3>1. outcome["client"] \in Queue!NothingOutstanding
              => Range(<<Receipt(Current)>>) \subseteq net
      BY <2>1 DEF EntryInv, Called
    <3> QED BY <2>2, <3>1, PlanIs
  <2> QED BY <1>1, <1>4, <2>1, <2>2, <2>3 DEF RecordInv, UploadAfterNetwork
<1>5. CASE /\ client.pc = "send" /\ accepted' \in {accepted, accepted \cup {Current}}
           /\ UNCHANGED <<receipts, baseline, net, slot, drain>>
  <2>1. Current \in Entries /\ (Current > 1 => Current - 1 \in accepted)
    BY <1>5, FirstIs DEF RunInv, Busy, Uploading
  <2>2. Range(Plan(Current)) \subseteq net
    BY <1>5 DEF EntryInv, Uploading
  <2>3. UploadAfterNetwork'
    BY <1>0, <1>5, <2>1, <2>2 DEF RecordInv, UploadAfterNetwork
  <2> QED BY <1>1, <1>5, <2>1, <2>3 DEF RecordInv
<1> QED BY <1>2, <1>3, <1>4, <1>5, RecordMoves

\* An entry is tried only while it has attempts left.
LEMMA RetryNext ==
    ASSUME QueueInv, RunInv, RetryInv, [Next]_vars PROVE RetryInv'
<1>0. /\ retry \in [Entries -> [failed : 0 .. MaxAttempts, due : BOOLEAN]]
      /\ MaxAttempts \in Nat /\ client \in Runs
  BY ClientAssumption DEF RetryInv, RunInv
<1>1. ASSUME client'.pc \notin Publishing \cup Uploading,
             retry' \in [Entries -> [failed : 0 .. MaxAttempts, due : BOOLEAN]]
      PROVE  RetryInv'
  BY <1>1 DEF RetryInv
<1>2. CASE CommitUnanswered
  <2>1. client.pc = "send"
    BY <1>2 DEF CommitUnanswered
  <2>2. Current \in Entries /\ retry[Current].failed < MaxAttempts
    BY <2>1, FirstIs DEF RunInv, RetryInv, Busy, Uploading
  <2>3. retry[Current].failed + 1 \in 0 .. MaxAttempts
    BY <1>0, <2>2
  <2>4. \/ retry' = [retry EXCEPT ![Current].failed = retry[Current].failed + 1]
        \/ retry' = [retry EXCEPT ![Current] =
                        [failed |-> retry[Current].failed + 1, due |-> FALSE]]
    BY <1>2 DEF CommitUnanswered
  <2>5. retry' \in [Entries -> [failed : 0 .. MaxAttempts, due : BOOLEAN]]
    <3> DEFINE n == retry[Current].failed + 1
               Rows == [failed : 0 .. MaxAttempts, due : BOOLEAN]
    <3>1. retry[Current] \in Rows
      BY <1>0, <2>2
    <3>2. [retry[Current] EXCEPT !.failed = n] \in Rows /\ [failed |-> n, due |-> FALSE] \in Rows
      BY <2>3, <3>1
    <3>3. \/ retry' = [retry EXCEPT ![Current] = [retry[Current] EXCEPT !.failed = n]]
          \/ retry' = [retry EXCEPT ![Current] = [failed |-> n, due |-> FALSE]]
      BY <2>4
    <3> HIDE DEF Rows, n
    <3>4. retry \in [Entries -> Rows]
      BY <1>0 DEF Rows
    <3>5. retry' \in [Entries -> Rows]
      BY <2>2, <3>2, <3>3, <3>4
    <3> QED BY <3>5 DEF Rows
  <2>6. Waits("ResumeExhausted") \/ Waits("ServerUpload")
    BY <1>2 DEF CommitUnanswered
  <2>7. client'.pc = "report"
    BY <1>0, <2>6, WaitsIs DEF Waiting
  <2> QED BY <1>1, <2>5, <2>7 DEF Publishing, Uploading
<1>3. CASE ClearRetry
  <2>1. Current \in Entries
    BY <1>3, FirstIs DEF ClearRetry, RunInv, Busy, Confirming
  <2>2. /\ retry' = [retry EXCEPT ![Current] = [failed |-> 0, due |-> TRUE]]
        /\ client' = [client EXCEPT !.pc = "next", !.todo = Tail(client.todo),
                                    !.pushed = client.pushed + 1]
    BY <1>3 DEF ClearRetry
  <2>3. retry' \in [Entries -> [failed : 0 .. MaxAttempts, due : BOOLEAN]]
    BY <1>0, <2>1, <2>2
  <2>4. client'.pc = "next"
    BY <1>0, <2>2 DEF Runs
  <2> QED BY <1>1, <2>3, <2>4 DEF Publishing, Uploading
<1>4. CASE \E e \in Entries : BackoffElapses(e)
  <2>1. PICK e \in Entries : retry' = [retry EXCEPT ![e].due = TRUE] /\ client' = client
    BY <1>4 DEF BackoffElapses
  <2>2. retry' \in [Entries -> [failed : 0 .. MaxAttempts, due : BOOLEAN]]
    BY <1>0, <2>1
  <2>3. \A d \in Entries : retry'[d].failed = retry[d].failed
    BY <1>0, <2>1
  <2>4. ASSUME client.pc \in Publishing \cup Uploading
        PROVE  Current \in Entries /\ retry[Current].failed < MaxAttempts
    BY <2>4, FirstIs DEF RunInv, RetryInv, Busy
  <2>5. Current' = Current
    BY <2>1 DEF Current
  <2> QED BY <2>1, <2>2, <2>3, <2>4, <2>5 DEF RetryInv
<1>5. CASE UNCHANGED retry /\ ~ClearRetry
  <2>1. ASSUME Kept, client'.pc \in Publishing \cup Uploading =>
                       client.pc \in Publishing \cup Uploading
        PROVE  RetryInv'
    <3>1. Current' = Current
      BY <2>1 DEF Kept, Current
    <3> QED BY <1>5, <2>1, <3>1 DEF RetryInv
  <2>2. CASE BeginRun
    <3>1. client'.pc = "next"
      BY <2>2 DEF BeginRun
    <3> QED BY <1>0, <1>1, <1>5, <3>1 DEF Publishing, Uploading
  <2>3. CASE client' = client
    BY <2>1, <2>3 DEF Kept
  <2>4. CASE \E pc \in Resting : client' = [Idle EXCEPT !.pc = pc]
    <3>1. client'.pc \in Resting
      BY <2>4 DEF Idle
    <3> QED BY <1>0, <1>1, <1>5, <3>1 DEF Publishing, Uploading, Resting
  <2>5. CASE /\ TakeEntry /\ client.todo # <<>> /\ ~(retry[Current].failed >= MaxAttempts)
             /\ Turns("publish")
    <3>1. Current' = Current
      BY <2>5 DEF Turns, Kept, Current
    <3>2. Current \in Entries
      BY <2>5, FirstIs
    <3>3. retry[Current].failed < MaxAttempts
      BY <1>0, <2>5, <3>2
    <3> QED BY <1>0, <1>5, <3>1, <3>3 DEF RetryInv
  <2>6. CASE \/ Turns("report") \/ Turns("publishReceipt") \/ Turns("receiptPublished")
             \/ Turns("clear")
    <3>1. client'.pc \in {"report", "publishReceipt", "receiptPublished", "clear"}
      BY <2>6 DEF Turns
    <3> QED BY <1>0, <1>1, <1>5, <3>1 DEF Publishing, Uploading
  <2>7. CASE PublishEntry /\ Turns("published")
    BY <2>1, <2>7 DEF Turns, PublishEntry, Publishing, Uploading
  <2>8. CASE EntryPublished /\ Turns("challenge")
    BY <2>1, <2>8 DEF Turns, EntryPublished, Publishing, Uploading
  <2>9. CASE FetchChallenge /\ Turns("send")
    BY <2>1, <2>9 DEF Turns, FetchChallenge, Publishing, Uploading
  <2> QED BY <1>5, <2>2, <2>3, <2>4, <2>5, <2>6, <2>7, <2>8, <2>9, RunMoves
<1>6. \/ CommitUnanswered \/ ClearRetry \/ (\E e \in Entries : BackoffElapses(e))
      \/ UNCHANGED retry
  <2>1. CASE \/ BeginRun \/ TakeEntry \/ PublishEntry \/ EntryPublished \/ FetchChallenge
             \/ CommitAnswered \/ PublishReceipt \/ ReceiptPublished \/ Report \/ RunFails
    BY <2>1 DEF BeginRun, TakeEntry, PublishEntry, Submit, EntryPublished, FetchChallenge,
         CommitAnswered, PublishReceipt, ReceiptPublished, Report, RunFails
  <2>2. CASE \/ (\E c \in Callers : DrainStep(c)) \/ CommitLocally \/ MigrationAsks
             \/ (\E up \in BOOLEAN : SetReachable(up)) \/ Restart \/ UNCHANGED vars
    BY <2>2 DEF DrainStep, CommitLocally, MigrationAsks, SetReachable, Restart, vars
  <2> QED BY <2>1, <2>2 DEF Next, RunStep
<1> QED BY <1>2, <1>3, <1>4, <1>5, <1>6

-----------------------------------------------------------------------------
\* The invariant holds.

LEMMA ClientInvInit == ASSUME Init PROVE ClientInv
<1>0. /\ LastEntry \in Nat /\ MaxObjects \in Nat /\ MaxAttempts \in Nat \ {0}
      /\ NoCaller \notin Callers
  BY ClientAssumption
<1>1. /\ committed = 0 /\ net = {} /\ receipts = {} /\ baseline = {} /\ accepted = {}
      /\ taken = {} /\ client = Idle /\ slot = <<>>
      /\ drain = [by |-> NoCaller, plan |-> <<>>, done |-> 0]
      /\ outcome = [c \in Callers |-> "none"]
      /\ retry = [e \in Entries |-> [failed |-> 0, due |-> TRUE]]
  BY DEF Init, Queue!QueueInit, Queue!NoDrain
<1>2. Range(<<>>) = {} /\ <<>> \in Seq(Objects) /\ Len(<<>>) = 0 /\ <<>> \in Seq(Entries)
  BY DEF Range
<1>3. /\ drain.by = NoCaller /\ drain.plan = <<>> /\ drain.done = 0
      /\ drain \in [by : Callers \cup {NoCaller}, plan : Seq(Objects), done : Nat]
  BY <1>1, <1>2
<1>4. Held = {}
  BY <1>1, <1>2, <1>3 DEF Held
<1>5. outcome \in [Callers -> Queue!Outcomes]
  BY <1>1 DEF Queue!Outcomes
<1>6. QueueInv
  <2>1. /\ slot \in Seq(Objects) /\ Len(slot) <= MaxObjects
        /\ drain.done <= Len(drain.plan) /\ Len(drain.plan) <= MaxObjects
    BY <1>0, <1>1, <1>2, <1>3
  <2>2. \A i \in 1 .. drain.done : drain.plan[i] \in net
    BY <1>3
  <2>3. net \subseteq Objects /\ taken \subseteq Held
    BY <1>1
  <2> QED BY <1>3, <1>5, <2>1, <2>2, <2>3 DEF QueueInv
<1>7. /\ client.pc = "idle" /\ client.todo = <<>> /\ client.pushed = 0
      /\ client.confirmed = 0 /\ client.pending = 0
  BY <1>1 DEF Idle
<1>8. client.pc \notin Busy
  BY <1>7 DEF Busy, Publishing, Uploading, Confirming
<1>9. client \in Runs
  <2>1. "idle" \in Resting /\ "none" \in Waiting
    BY DEF Resting, Waiting
  <2> QED BY <1>1, <1>2, <2>1 DEF Idle, Runs
<1>10. Increasing(<<>>, 0)
  BY <1>2 DEF Increasing
<1>11. RunInv
  <2>1. committed \in 0 .. LastEntry /\ client.pending + client.confirmed = 0
    BY <1>0, <1>1, <1>7
  <2>2. client.pushed + Len(client.todo) = client.pending
    BY <1>2, <1>7
  <2>3. Increasing(client.todo, client.pending + client.confirmed)
    BY <1>7, <1>10, <2>1
  <2>4. client.pending + client.confirmed <= committed
        /\ \A e \in 1 .. client.pending + client.confirmed : FALSE
    BY <1>1, <2>1
  <2> QED BY <1>8, <1>9, <2>1, <2>2, <2>3, <2>4 DEF RunInv
<1>12. EntryInv
  BY <1>7 DEF EntryInv, Uploading, Confirming
<1>13. RecordInv
  BY <1>1, <1>4 DEF RecordInv, UploadAfterNetwork
<1>14. RetryInv
  BY <1>0, <1>1, <1>7 DEF RetryInv, Publishing, Uploading
<1> QED BY <1>6, <1>11, <1>12, <1>13, <1>14 DEF ClientInv

LEMMA ClientInvNext == ASSUME ClientInv, [Next]_vars PROVE ClientInv'
BY QueueNext, RunNext, EntryNext, RecordNext, RetryNext DEF ClientInv

LEMMA ClientAlways == Spec => []ClientInv
<1>1. Init => ClientInv
  BY ClientInvInit
<1>2. ClientInv /\ [Next]_vars => ClientInv'
  BY ClientInvNext
<1> QED BY <1>1, <1>2, PTL DEF Spec

\* For any plan, limit, deferral, retry or restart, no entry is at the server
\* before it is published and before its predecessor is there
\* (publish_to_network_archive before commit_one, SyncQueueV1::derive).
THEOREM UploadAlwaysAfterNetwork == Spec => []UploadAfterNetwork
<1>1. ClientInv => UploadAfterNetwork
  BY DEF ClientInv, RecordInv
<1> QED BY <1>1, ClientAlways, PTL

\* A local receipt is never the only one (persist_verified_receipt).
THEOREM LocalReceiptAlwaysLast == Spec => []LocalReceiptLast
<1>1. ClientInv => LocalReceiptLast
  BY DEF ClientInv, RecordInv, LocalReceiptLast
<1> QED BY <1>1, ClientAlways, PTL

\* `Synchronized` is only reported of a run all of whose entries are accepted
\* and have their receipt in the directory (sync_state_of, push_pending).
THEOREM SynchronizedAlwaysTrue == Spec => []SynchronizedTrue
<1>1. ClientInv => SynchronizedTrue
  <2> SUFFICES ASSUME ClientInv, Status = "Synchronized",
                      NEW e \in 1 .. client.pending + client.confirmed
               PROVE  e \in accepted /\ Receipt(e) \in net
    BY DEF SynchronizedTrue
  <2>1. /\ client.pushed \in Nat /\ client.pending \in Nat /\ client.todo \in Seq(Entries)
        /\ Len(client.todo) \in Nat /\ client.pushed + Len(client.todo) = client.pending
    BY DEF ClientInv, RunInv, Runs
  <2>2. ~(client.pending - client.pushed > 0)
    BY DEF Status, Outstanding
  <2>3. Len(client.todo) = 0
    BY <2>1, <2>2
  <2>4. Range(client.todo) = {}
    BY <2>1, <2>3 DEF Range
  <2> QED BY <2>4 DEF ClientInv, RunInv
<1> QED BY <1>1, ClientAlways, PTL

\* A migration that is told that nothing is outstanding finds all that the
\* queue has accepted in the directory, whoever else publishes (resume, drain).
THEOREM GateAlwaysTruthful == Spec => GateTruthful
<1>1. ASSUME ClientInv, [Next]_vars, MigrationAsks \/ DrainStep("migration"),
             outcome'["migration"] \in Queue!NothingOutstanding
      PROVE  taken \subseteq net'
  <2>1. QueueInv /\ taken \subseteq Held /\ "migration" \in Callers
    BY <1>1 DEF ClientInv, QueueInv, Callers
  <2>2. outcome'["migration"] \notin {"none", "Deferred", "Failed"}
    BY <1>1 DEF Queue!NothingOutstanding
  <2>3. CASE MigrationAsks
    BY <2>1, <2>2, <2>3, AskMoves
  <2>4. CASE DrainStep("migration")
    BY <2>1, <2>2, <2>4, DrainMoves
  <2> QED BY <1>1, <2>3, <2>4
<1>2. ClientInv /\ [Next]_vars =>
          [(MigrationAsks \/ DrainStep("migration"))
           /\ outcome'["migration"] \in Queue!NothingOutstanding => taken \subseteq net']_vars
  BY <1>1
<1> QED BY <1>2, ClientAlways, PTL DEF Spec, GateTruthful

\* The queue never holds more than its limit and no entry is sent more often
\* than its attempts allow, in any order of runs (publish, record_failure).
THEOREM ClientTypeCorrect == Spec => []ClientTypeOK
<1> DEFINE Answers == reachable \in BOOLEAN
<1>1. ClientInv /\ Answers => ClientTypeOK
  <2> SUFFICES ASSUME ClientInv, reachable \in BOOLEAN PROVE ClientTypeOK
    OBVIOUS
  <2>1. net \subseteq Objects /\ Len(slot) <= MaxObjects /\ outcome \in [Callers -> Queue!Outcomes]
    BY DEF ClientInv, QueueInv
  <2>2. /\ committed \in 0 .. LastEntry /\ client.todo \in Seq(Entries)
        /\ client.pending + client.confirmed <= committed
    BY DEF ClientInv, RunInv, Runs
  <2>3. client.pushed + Len(client.todo) = client.pending /\ client.pending \in Nat
    BY DEF ClientInv, RunInv, Runs
  <2>4. receipts \subseteq Entries /\ baseline \subseteq Entries /\ accepted \subseteq Entries
    BY DEF ClientInv, RecordInv
  <2>5. retry \in [Entries -> [failed : 0 .. MaxAttempts, due : BOOLEAN]]
    BY DEF ClientInv, RetryInv
  <2>6. client.pushed + Len(client.todo) <= client.pending
    BY <2>3
  <2> QED BY <2>1, <2>2, <2>4, <2>5, <2>6 DEF ClientTypeOK
<1>2. Init => Answers
  BY DEF Init
<1>3. Answers /\ [Next]_vars => Answers'
  <2> SUFFICES ASSUME reachable \in BOOLEAN, [Next]_vars PROVE reachable' \in BOOLEAN
    OBVIOUS
  <2>1. CASE \E up \in BOOLEAN : SetReachable(up)
    BY <2>1 DEF SetReachable
  <2>2. CASE \/ BeginRun \/ RunStep \/ CommitUnanswered \/ RunFails
    BY <2>2 DEF BeginRun, RunStep, TakeEntry, PublishEntry, Submit, EntryPublished,
         FetchChallenge, CommitAnswered, PublishReceipt, ReceiptPublished, ClearRetry, Report,
         CommitUnanswered, RunFails
  <2>3. CASE \/ (\E c \in Callers : DrainStep(c)) \/ CommitLocally \/ MigrationAsks
             \/ (\E e \in Entries : BackoffElapses(e)) \/ Restart \/ UNCHANGED vars
    BY <2>3 DEF DrainStep, CommitLocally, MigrationAsks, BackoffElapses, Restart, vars
  <2> QED BY <2>1, <2>2, <2>3 DEF Next
<1> HIDE DEF Answers
<1> QED BY <1>1, <1>2, <1>3, ClientAlways, PTL DEF Spec
=============================================================================
