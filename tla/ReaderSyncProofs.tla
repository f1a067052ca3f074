--------------------------- MODULE ReaderSyncProofs ---------------------------
(***************************************************************************)
(* What the reader's cursor stands on, and that the reader never accuses an *)
(* honest server without a loss of its own, for any number of tabs, any     *)
(* chain, any page size and any number of unfinished puts.                  *)
(***************************************************************************)
EXTENDS ReaderSync, WellFoundedInduction, TLAPS

Heads == Positions \cup {Genesis}
Pages == [start : Heads, objects : SUBSET Objects, next : Tokens, covered : Positions]
TabStates == [pc : Steps, ask : Cursors, page : Pages,
              keys : SUBSET Objects, todo : SUBSET Objects]

\* The steps under which a tab has the store open: to read, and to write.
Reading == {"asking", "keying", "opened"}
Writing == {"objects", "manifest", "cursor"}

\* A token continues behind the head it was issued for.
Ordered(head, token) == token # None => head <= token.last

\* The objects a confirmed head needs are among L, unless the list was lost.
Needed(h, L) ==
  cut \/ \A n \in Positions : n <= h => Entry(n) \in L /\ Registry \in L

TabOK(t) ==
  LET r == tab[t] IN
  /\ r \in TabStates
  /\ Ordered(r.ask.head, r.ask.token)
  /\ Ordered(r.page.start, r.page.next)
  /\ \A n \in Positions : Entry(n) \in r.page.objects => r.page.start < n
  /\ r.todo \subseteq r.page.objects
  /\ r.pc = "asked" => Needed(r.ask.head, manifest.listed)
  /\ r.pc \in {"answered", "keying"} => Needed(r.page.start, manifest.listed)
  /\ r.pc \in Writing \cup {"keyed", "opened"} => Needed(r.page.start, r.keys)
  /\ r.pc \in {"keyed", "opened", "objects", "manifest"} =>
       cut \/ r.keys \subseteq manifest.listed \cup r.page.objects
  /\ r.pc = "cursor" => cut \/ r.keys \subseteq manifest.listed
  /\ r.pc \in Reading => holder = t
  /\ r.pc \in Writing => holder = t /\ cursor.opens /\ r.page.start = cursor.head

StoreOK ==
  /\ accepted \in Heads
  /\ cache \in [Objects -> {"absent", "present", "torn"}]
  /\ manifest \in [listed : SUBSET Objects, opens : BOOLEAN]
  /\ cursor \in Cursors
  /\ Ordered(cursor.head, cursor.token)
  /\ cursor.opens =>
       /\ Needed(cursor.head, manifest.listed)
       /\ \A n \in Positions : n <= cursor.head => cache[Entry(n)] = "present"

ReaderInv ==
  /\ StoreOK
  /\ DOMAIN tab = Tabs
  /\ \A t \in Tabs : TabOK(t)

-----------------------------------------------------------------------------
\* Data.

LEMMA EntryIs ==
  /\ \A n \in Positions : Entry(n) \in Objects /\ Entry(n) # Registry
  /\ \A m \in Positions, n \in Positions : Entry(m) = Entry(n) => m = n
  /\ Registry \in Objects
BY DEF Objects, Entry, Registry

\* A set of positions has its Max.
LEMMA MaxIs ==
  ASSUME NEW S \in SUBSET Positions, S # {}
  PROVE  Max(S) \in S /\ \A y \in S : y <= Max(S)
<1> DEFINE Less == OpToRel(<, Nat)
           D == {LastEntry - x : x \in S}
<1>1. LastEntry \in Nat /\ \A x \in S : x \in Nat /\ LastEntry - x \in Nat
  BY ReaderAssumption DEF Positions
<1>2. D \in SUBSET Nat /\ D # {}
  BY <1>1
<1>3. IsWellFoundedOn(Less, Nat)
  BY NatLessThanWellFounded
<1> HIDE DEF D
<1>4. PICK d \in D : \A e \in D : <<e, d>> \notin Less
  BY <1>2, <1>3, WFMin
<1>5. \A e \in D : d <= e
  <2> SUFFICES ASSUME NEW e \in D PROVE d <= e
    OBVIOUS
  <2>1. <<e, d>> \notin Less
    BY <1>4
  <2>2. d \in Nat /\ e \in Nat
    BY <1>2
  <2>3. ~(e < d)
    BY <2>1, <2>2 DEF OpToRel
  <2> QED BY <2>2, <2>3
<1>6. PICK x \in S : d = LastEntry - x
  BY DEF D
<1>7. \A y \in S : x >= y
  <2> SUFFICES ASSUME NEW y \in S PROVE x >= y
    OBVIOUS
  <2>1. LastEntry - y \in D
    BY DEF D
  <2>2. d <= LastEntry - y
    BY <1>5, <2>1
  <2>3. x \in Nat /\ y \in Nat /\ LastEntry \in Nat
    BY <1>1
  <2> QED BY <1>6, <2>2, <2>3
<1>8. Max(S) \in S /\ \A y \in S : Max(S) >= y
  BY <1>7 DEF Max
<1> QED BY <1>1, <1>8

\* A page begins behind the head it is for, and its token continues there.
LEMMA PageOK ==
  ASSUME accepted \in Heads, NEW ask \in Cursors, Ordered(ask.head, ask.token),
         NEW k \in Nat
  PROVE  LET p == Page(ask, k) IN
         /\ p \in Pages
         /\ p.start = ask.head
         /\ Ordered(p.start, p.next)
         /\ \A n \in Positions : Entry(n) \in p.objects => p.start < n
<1> DEFINE from == Delivered(ask)
           taken == {n \in Indexed(ask) : n <= Delivered(ask) + k}
           covered == IF taken # {} THEN Max(taken)
                      ELSE IF Delivered(ask) = Genesis THEN 0 ELSE Delivered(ask)
           more == Indexed(ask) # {}
                     /\ (taken # Indexed(ask) \/ Cardinality(Indexed(ask)) = PageEntries)
           objects == {Entry(n) : n \in taken}
                        \cup (IF taken = {} THEN {} ELSE {Registry})
           next == IF more THEN [last |-> covered, live |-> TRUE] ELSE None
<1>1. ask.head \in Heads /\ ask.token \in Tokens
  BY DEF Cursors, Heads
<1>2. from \in Heads /\ ask.head <= from
  BY <1>1, ReaderAssumption DEF Delivered, Ordered, Tokens, Heads, Positions, Genesis
<1>3. taken \in SUBSET Positions /\ \A n \in taken : from < n
  BY DEF Indexed
<1>4. covered \in Positions /\ from <= covered
  <2>1. CASE taken # {}
    <3>1. Max(taken) \in taken
      BY <1>3, <2>1, MaxIs
    <3>2. covered \in taken
      BY <2>1, <3>1
    <3>3. covered \in Positions /\ from < covered
      BY <1>3, <3>2
    <3>4. from \in Int /\ covered \in Int
      BY <1>2, <3>3 DEF Positions, Heads, Genesis
    <3> HIDE DEF taken, covered, from
    <3> QED BY <3>3, <3>4
  <2>2. CASE taken = {}
    BY <1>2, <2>2, ReaderAssumption DEF Positions, Heads, Genesis
  <2> HIDE DEF taken, covered
  <2> QED BY <2>1, <2>2
<1>5. objects \in SUBSET Objects
      /\ \A n \in Positions : Entry(n) \in objects => ask.head < n
  <2>1. ASSUME NEW n \in Positions, Entry(n) \in objects PROVE ask.head < n
    <3> HIDE DEF taken
    <3>1. n \in taken
      BY <1>3, <2>1, EntryIs
    <3>2. from < n /\ from \in Int /\ ask.head \in Int /\ n \in Int
      BY <1>1, <1>2, <1>3, <3>1 DEF Heads, Positions, Genesis
    <3> HIDE DEF from
    <3> QED BY <1>2, <3>2
  <2> HIDE DEF taken
  <2>2. objects \in SUBSET Objects
    BY <1>3, EntryIs
  <2> QED BY <2>1, <2>2
<1>6. next \in Tokens /\ Ordered(ask.head, next)
  <2>1. ask.head <= covered
    <3>1. ask.head \in Int /\ from \in Int /\ covered \in Int
      BY <1>1, <1>2, <1>4 DEF Heads, Positions, Genesis
    <3> HIDE DEF from, covered
    <3> QED BY <1>2, <1>4, <3>1
  <2> HIDE DEF covered, more
  <2> QED BY <1>4, <2>1 DEF Tokens, Ordered
<1>7. Page(ask, k) = [start |-> ask.head, objects |-> objects,
                      next |-> next, covered |-> covered]
  BY DEF Page
<1> HIDE DEF objects, next, covered
<1> QED BY <1>1, <1>4, <1>5, <1>6, <1>7 DEF Pages

\* What is verified is present under the keys, with the registry head.
LEMMA VerifiedIs ==
  ASSUME NEW t \in Tabs
  PROVE  /\ VerifiedHead(t) \in Heads
         /\ \A n \in Positions : n <= VerifiedHead(t) =>
              /\ Entry(n) \in tab[t].keys /\ cache[Entry(n)] = "present"
              /\ Registry \in tab[t].keys
         /\ \A n \in Chain(t) : n <= VerifiedHead(t)
<1>1. Chain(t) \in SUBSET Positions
  BY DEF Chain
<1>2. CASE Chain(t) = {}
  BY <1>2 DEF VerifiedHead, Heads, Genesis, Positions
<1>3. CASE Chain(t) # {}
  <2>1. /\ VerifiedHead(t) \in Chain(t)
        /\ \A n \in Chain(t) : n <= VerifiedHead(t)
    BY <1>1, <1>3, MaxIs DEF VerifiedHead
  <2>2. ASSUME NEW n \in Positions, n <= VerifiedHead(t)
        PROVE  Entry(n) \in Visible(t) /\ Registry \in Visible(t)
    <3>1. n \in 0 .. VerifiedHead(t)
      BY <1>1, <2>1, <2>2 DEF Positions
    <3> QED BY <2>1, <3>1 DEF Chain
  <2> QED BY <1>1, <2>1, <2>2 DEF Visible, Heads
<1> QED BY <1>2, <1>3

-----------------------------------------------------------------------------
\* Frames.

\* Only t moves, to the state new.
MovesTo(t, new) ==
  /\ tab'[t] = new
  /\ DOMAIN tab' = Tabs
  /\ \A q \in Tabs \ {t} : tab'[q] = tab[q]

LEMMA Moves ==
  ASSUME NEW t \in Tabs, DOMAIN tab = Tabs, NEW new, Set(t, new)
  PROVE  MovesTo(t, new)
BY DEF Set, MovesTo

\* What every step keeps of the list: it grows, or it was lost.
ListKept == /\ cut => cut'
            /\ cut' \/ manifest.listed \subseteq manifest'.listed

LEMMA NeededKept ==
  ASSUME ListKept, NEW h, NEW L, NEW M, Needed(h, L), cut' \/ L \subseteq M
  PROVE  Needed(h, M)'
BY DEF Needed, ListKept

\* A tab that does not move is not disturbed by what the others do.
LEMMA Undisturbed ==
  ASSUME NEW q \in Tabs, TabOK(q), tab'[q] = tab[q], ListKept,
         holder = q => /\ holder' = q /\ cursor'.opens = cursor.opens
                       /\ cursor'.head = cursor.head
  PROVE  TabOK(q)'
<1> DEFINE r == tab[q]
<1>1. /\ r.pc = "asked" => Needed(r.ask.head, manifest.listed)'
      /\ r.pc \in {"answered", "keying"} => Needed(r.page.start, manifest.listed)'
      /\ r.pc \in Writing \cup {"keyed", "opened"} => Needed(r.page.start, r.keys)'
  BY DEF TabOK, Needed, ListKept
<1>2. /\ r.pc \in {"keyed", "opened", "objects", "manifest"} =>
           cut' \/ r.keys \subseteq manifest'.listed \cup r.page.objects
      /\ r.pc = "cursor" => cut' \/ r.keys \subseteq manifest'.listed
  BY DEF TabOK, ListKept
<1>3. /\ r.pc \in Reading => holder' = q
      /\ r.pc \in Writing => holder' = q /\ cursor'.opens /\ r.page.start = cursor'.head
  BY DEF TabOK
<1> QED BY <1>1, <1>2, <1>3 DEF TabOK, Needed

\* A step of tab t.
LEMMA TabStepOK ==
  ASSUME ReaderInv, NEW t \in Tabs, NEW new, MovesTo(t, new), StoreOK', TabOK(t)',
         ListKept,
         \/ holder = t
         \/ holder = Nobody /\ UNCHANGED cursor
         \/ UNCHANGED <<holder, cursor>>
  PROVE  ReaderInv'
<1>1. ASSUME NEW q \in Tabs \ {t} PROVE TabOK(q)'
  BY <1>1, Undisturbed, ReaderAssumption DEF ReaderInv, MovesTo
<1> QED BY <1>1 DEF ReaderInv, MovesTo

LEMMA IdleIs ==
  /\ Idle \in TabStates /\ Idle.pc = "idle" /\ Idle.ask = NoCursor
  /\ Idle.page = NoPage /\ Idle.keys = {} /\ Idle.todo = {}
  /\ NoCursor \in Cursors /\ NoCursor.head = Genesis /\ NoCursor.token = None
  /\ NoPage \in Pages /\ NoPage.start = Genesis /\ NoPage.objects = {}
  /\ NoPage.next = None
<1>1. 0 \in Positions /\ None \in Tokens /\ Genesis \in Heads
  BY ReaderAssumption DEF Positions, Tokens, Heads
<1>2. NoCursor \in Cursors /\ NoPage \in Pages
  BY <1>1 DEF NoCursor, NoPage, Cursors, Pages, Heads
<1> QED BY <1>2 DEF Idle, TabStates, Steps, NoCursor, NoPage

\* A tab between two synchronisations.
LEMMA RestOK ==
  ASSUME NEW t \in Tabs, NEW pc \in {"idle", "closed"},
         tab'[t] = [Idle EXCEPT !.pc = pc]
  PROVE  TabOK(t)'
<1> DEFINE new == [Idle EXCEPT !.pc = pc]
<1>1. /\ new \in TabStates /\ new.pc = pc /\ new.ask = NoCursor
      /\ new.page = NoPage /\ new.todo = {}
  BY IdleIs DEF TabStates, Steps
<1> HIDE DEF new
<1> QED BY <1>1, IdleIs DEF TabOK, Ordered, Reading, Writing, new

LEMMA StopIs ==
  ASSUME ReaderInv, NEW t \in Tabs, Refuse(t) \/ Stop(t)
  PROVE  TabOK(t)' /\ \E new : MovesTo(t, new)
<1>1. \E pc \in {"idle", "closed"} : Set(t, [Idle EXCEPT !.pc = pc])
  BY IdleIs DEF Refuse, Stop, Idle
<1>2. PICK pc \in {"idle", "closed"} : Set(t, [Idle EXCEPT !.pc = pc])
  BY <1>1
<1>3. MovesTo(t, [Idle EXCEPT !.pc = pc])
  BY <1>2, Moves DEF ReaderInv
<1> QED BY <1>3, RestOK DEF MovesTo

-----------------------------------------------------------------------------
LEMMA ReaderInvInit == Init => ReaderInv
<1> SUFFICES ASSUME Init PROVE ReaderInv
  OBVIOUS
<1>1. StoreOK
  BY IdleIs, EntryIs DEF Init, StoreOK, NoManifest, Ordered, Needed, Genesis, Positions, Heads
<1>2. \A t \in Tabs : TabOK(t)
  BY IdleIs DEF Init, TabOK, Ordered, Reading, Writing
<1> QED BY <1>1, <1>2 DEF Init, ReaderInv

\* The server's steps.
LEMMA ServerStep ==
  ASSUME ReaderInv, Accept \/ Expire
  PROVE  ReaderInv'
<1>1. CASE Accept
  <2>1. StoreOK'
    BY <1>1, ReaderAssumption DEF Accept, Stored, ReaderInv, StoreOK, Heads, Positions, Genesis, Needed
  <2>2. \A q \in Tabs : TabOK(q)'
    BY <1>1, Undisturbed DEF Accept, Stored, ReaderInv, ListKept
  <2> QED BY <1>1, <2>1, <2>2 DEF Accept, ReaderInv
<1>2. CASE Expire
  <2>1. ASSUME NEW token \in Tokens
        PROVE  Dead(token) \in Tokens /\ \A h : Ordered(h, token) => Ordered(h, Dead(token))
    BY DEF Dead, Tokens, Ordered
  <2>2. cursor \in Cursors
    BY DEF ReaderInv, StoreOK
  <2>3. /\ cursor' \in Cursors /\ cursor'.head = cursor.head
        /\ cursor'.opens = cursor.opens /\ Ordered(cursor'.head, cursor'.token)
    BY <1>2, <2>1, <2>2 DEF Expire, Cursors, ReaderInv, StoreOK
  <2>4. StoreOK'
    BY <1>2, <2>3 DEF Expire, ReaderInv, StoreOK, Needed
  <2>5. ASSUME NEW q \in Tabs PROVE TabOK(q)'
    <3> DEFINE r == tab[q]
               new == [r EXCEPT !.ask.token = Dead(@), !.page.next = Dead(@)]
    <3>1. r \in TabStates /\ r.ask \in Cursors /\ r.page \in Pages
          /\ r.ask.token \in Tokens /\ r.page.next \in Tokens
      BY DEF ReaderInv, TabOK, TabStates, Cursors, Pages
    <3>2. tab'[q] = new
      BY <1>2 DEF Expire
    <3>3. /\ new.pc = r.pc /\ new.keys = r.keys /\ new.todo = r.todo
          /\ new.ask = [r.ask EXCEPT !.token = Dead(@)]
          /\ new.page = [r.page EXCEPT !.next = Dead(@)]
      BY <3>1 DEF TabStates
    <3>4. /\ new.ask \in Cursors /\ new.ask.head = r.ask.head
          /\ new.ask.token = Dead(r.ask.token)
          /\ new.page \in Pages /\ new.page.start = r.page.start
          /\ new.page.objects = r.page.objects
          /\ new.page.next = Dead(r.page.next)
      BY <2>1, <3>1, <3>3 DEF Cursors, Pages
    <3>5. new \in TabStates
      BY <2>1, <3>1 DEF TabStates, Cursors, Pages
    <3>6. /\ Ordered(new.ask.head, new.ask.token)
          /\ Ordered(new.page.start, new.page.next)
      BY <2>1, <3>1, <3>4 DEF ReaderInv, TabOK
    <3>7. UNCHANGED <<manifest, holder, cut>>
      BY <1>2 DEF Expire
    <3>8. TabOK(q)
      BY DEF ReaderInv
    <3> HIDE DEF new
    <3> QED BY <2>3, <3>2, <3>3, <3>4, <3>5, <3>6, <3>7, <3>8 DEF TabOK, Needed
  <2> QED BY <1>2, <2>4, <2>5 DEF Expire, ReaderInv
<1> QED BY <1>1, <1>2

-----------------------------------------------------------------------------
\* The steps of a tab.

\* A step that leaves the store as it is.
LEMMA StoreKept ==
  ASSUME ReaderInv, accepted' = accepted, UNCHANGED Stored
  PROVE  StoreOK' /\ ListKept /\ UNCHANGED <<cache, manifest, cursor, cut>>
BY DEF Stored, ReaderInv, StoreOK, ListKept, Needed

LEMMA OpenStoreStep ==
  ASSUME ReaderInv, NEW t \in Tabs, OpenStore(t) PROVE ReaderInv'
<1> DEFINE pc == Opening(tab[t].pc)
           new == [tab[t] EXCEPT !.pc = pc]
<1>1. /\ UNCHANGED accepted /\ UNCHANGED Stored /\ tab[t].pc \in Closed
      /\ holder = Nobody /\ holder' = t /\ Set(t, new)
  BY DEF OpenStore
<1>2. StoreOK' /\ ListKept /\ UNCHANGED <<cache, manifest, cursor, cut>>
  BY <1>1, StoreKept
<1>3. tab[t] \in TabStates /\ TabOK(t)
  BY DEF ReaderInv, TabOK
<1>4. /\ pc \in Reading
      /\ pc = "keying" => tab[t].pc = "answered"
      /\ pc = "opened" => tab[t].pc = "keyed"
  BY <1>1 DEF Opening, Reading
<1> HIDE DEF pc
<1>5. /\ new \in TabStates /\ new.pc = pc /\ new.ask = tab[t].ask
      /\ new.page = tab[t].page /\ new.todo = tab[t].todo /\ new.keys = tab[t].keys
  BY <1>3, <1>4 DEF TabStates, Steps, Reading
<1> HIDE DEF new
<1>6. MovesTo(t, new)
  BY <1>1, Moves DEF ReaderInv
<1>7. TabOK(t)'
  BY <1>1, <1>2, <1>3, <1>4, <1>5, <1>6 DEF TabOK, MovesTo, Reading, Writing, Needed
<1> QED BY <1>1, <1>2, <1>6, <1>7, TabStepOK

LEMMA RefuseStoreStep ==
  ASSUME ReaderInv, NEW t \in Tabs, RefuseStore(t) PROVE ReaderInv'
<1>1. UNCHANGED <<accepted, holder>> /\ UNCHANGED Stored /\ Refuse(t)
  BY DEF RefuseStore
<1>2. StoreOK' /\ ListKept /\ UNCHANGED <<cache, manifest, cursor, cut>>
  BY <1>1, StoreKept
<1> QED BY <1>1, <1>2, StopIs, TabStepOK

LEMMA NextRequestStep ==
  ASSUME ReaderInv, NEW t \in Tabs, NextRequest(t) PROVE ReaderInv'
<1> DEFINE new == [Idle EXCEPT !.pc = "asked", !.ask = cursor]
<1>1. /\ UNCHANGED accepted /\ UNCHANGED Stored
      /\ tab[t].pc = "asking" /\ holder = t
  BY DEF NextRequest, ReaderInv, TabOK, Reading
<1>2. StoreOK' /\ ListKept /\ UNCHANGED <<cache, manifest, cursor, cut>>
  BY <1>1, StoreKept
<1>3. CASE ~cursor.opens
  BY <1>1, <1>2, <1>3, StopIs, TabStepOK DEF NextRequest
<1>4. CASE cursor.opens
  <2>1. Set(t, new)
    BY <1>4 DEF NextRequest
  <2>2. /\ cursor \in Cursors /\ Ordered(cursor.head, cursor.token)
        /\ Needed(cursor.head, manifest.listed)
    BY <1>4 DEF ReaderInv, StoreOK
  <2>3. /\ new \in TabStates /\ new.pc = "asked" /\ new.ask = cursor
        /\ new.page = NoPage /\ new.todo = {}
    BY <2>2, IdleIs DEF TabStates, Steps
  <2> HIDE DEF new
  <2>4. MovesTo(t, new)
    BY <2>1, Moves DEF ReaderInv
  <2>5. TabOK(t)'
    BY <1>2, <2>2, <2>3, <2>4, IdleIs DEF TabOK, MovesTo, Ordered, Reading, Writing, Needed
  <2> QED BY <1>1, <1>2, <2>4, <2>5, TabStepOK
<1> QED BY <1>3, <1>4

LEMMA ServeStep ==
  ASSUME ReaderInv, NEW t \in Tabs, Serve(t) PROVE ReaderInv'
<1>1. UNCHANGED <<accepted, holder>> /\ UNCHANGED Stored /\ tab[t].pc = "asked"
  BY DEF Serve
<1>2. StoreOK' /\ ListKept /\ UNCHANGED <<cache, manifest, cursor, cut>>
  BY <1>1, StoreKept
<1>3. CASE Refuse(t)
  BY <1>1, <1>2, <1>3, StopIs, TabStepOK
<1>4. ASSUME NEW k \in 1 .. PageEntries,
             Set(t, [Idle EXCEPT !.pc = "answered", !.page = Page(tab[t].ask, k)])
      PROVE  ReaderInv'
  <2> DEFINE page == Page(tab[t].ask, k)
             new == [Idle EXCEPT !.pc = "answered", !.page = page]
  <2>1. /\ tab[t].ask \in Cursors /\ Ordered(tab[t].ask.head, tab[t].ask.token)
        /\ Needed(tab[t].ask.head, manifest.listed) /\ accepted \in Heads
    BY <1>1 DEF ReaderInv, StoreOK, TabOK, TabStates
  <2>2. k \in Nat
    OBVIOUS
  <2>3. /\ page \in Pages /\ page.start = tab[t].ask.head
        /\ Ordered(page.start, page.next)
        /\ \A n \in Positions : Entry(n) \in page.objects => page.start < n
    BY <2>1, <2>2, PageOK
  <2> HIDE DEF page
  <2>4. /\ new \in TabStates /\ new.pc = "answered" /\ new.ask = NoCursor
        /\ new.page = page /\ new.todo = {}
    BY <2>3, IdleIs DEF TabStates, Steps
  <2>5. Set(t, new)
    BY <1>4 DEF page
  <2> HIDE DEF new
  <2>6. MovesTo(t, new)
    BY <2>5, Moves DEF ReaderInv
  <2>7. TabOK(t)'
    BY <1>2, <2>1, <2>3, <2>4, <2>6, IdleIs DEF TabOK, MovesTo, Ordered, Reading, Writing, Needed
  <2> QED BY <1>1, <1>2, <2>6, <2>7, TabStepOK
<1> QED BY <1>3, <1>4 DEF Serve

LEMMA RequiredKeysStep ==
  ASSUME ReaderInv, NEW t \in Tabs, RequiredKeys(t) PROVE ReaderInv'
<1> DEFINE keys == Required(t)
           new == [tab[t] EXCEPT !.pc = "keyed", !.keys = keys]
<1>1. /\ UNCHANGED accepted /\ UNCHANGED Stored
      /\ tab[t].pc = "keying" /\ holder = t
  BY DEF RequiredKeys, ReaderInv, TabOK, Reading
<1>2. StoreOK' /\ ListKept /\ UNCHANGED <<cache, manifest, cursor, cut>>
  BY <1>1, StoreKept
<1>3. CASE ~manifest.opens
  BY <1>1, <1>2, <1>3, StopIs, TabStepOK DEF RequiredKeys
<1>4. CASE manifest.opens
  <2>1. Set(t, new)
    BY <1>4 DEF RequiredKeys
  <2>2. tab[t] \in TabStates /\ TabOK(t) /\ Needed(tab[t].page.start, manifest.listed)
    BY <1>1 DEF ReaderInv, TabOK
  <2>3. /\ keys \in SUBSET Objects /\ keys = manifest.listed \cup tab[t].page.objects
    BY <2>2 DEF Required, ReaderInv, StoreOK, TabStates, Pages
  <2> HIDE DEF keys
  <2>4. /\ new \in TabStates /\ new.pc = "keyed" /\ new.ask = tab[t].ask
        /\ new.page = tab[t].page /\ new.todo = tab[t].todo /\ new.keys = keys
    BY <2>2, <2>3 DEF TabStates, Steps
  <2> HIDE DEF new
  <2>5. MovesTo(t, new)
    BY <2>1, Moves DEF ReaderInv
  <2>6. cut' \/ \A n \in Positions : n <= new.page.start =>
                   Entry(n) \in new.keys /\ Registry \in new.keys
    BY <1>2, <2>2, <2>3, <2>4 DEF Needed
  <2>7. TabOK(t)'
    BY <1>2, <2>2, <2>3, <2>4, <2>5, <2>6 DEF TabOK, MovesTo, Reading, Writing, Needed
  <2> QED BY <1>1, <1>2, <2>5, <2>7, TabStepOK
<1> QED BY <1>3, <1>4

LEMMA AcceptBatchStep ==
  ASSUME ReaderInv, NEW t \in Tabs, AcceptBatch(t) PROVE ReaderInv'
<1> DEFINE new == [tab[t] EXCEPT !.pc = "objects", !.todo = tab[t].page.objects]
<1>1. UNCHANGED accepted /\ UNCHANGED Stored /\ tab[t].pc = "opened" /\ holder = t
  BY DEF AcceptBatch, ReaderInv, TabOK, Reading
<1>2. StoreOK' /\ ListKept /\ UNCHANGED <<cache, manifest, cursor, cut>>
  BY <1>1, StoreKept
<1>3. CASE Refuse(t)
  BY <1>1, <1>2, <1>3, StopIs, TabStepOK
<1>4. CASE cursor.opens /\ BindsCursor(t) /\ Set(t, new) /\ UNCHANGED holder
  <2>1. tab[t] \in TabStates /\ TabOK(t) /\ tab[t].page.objects \in SUBSET Objects
    BY DEF ReaderInv, TabOK, TabStates, Pages
  <2>2. /\ new \in TabStates /\ new.pc = "objects" /\ new.ask = tab[t].ask
        /\ new.page = tab[t].page /\ new.todo = tab[t].page.objects
        /\ new.keys = tab[t].keys
    BY <2>1 DEF TabStates, Steps
  <2> HIDE DEF new
  <2>3. MovesTo(t, new)
    BY <1>4, Moves DEF ReaderInv
  <2>4. TabOK(t)'
    BY <1>1, <1>2, <1>4, <2>1, <2>2, <2>3 DEF TabOK, MovesTo, Reading, Writing, Needed, BindsCursor
  <2> QED BY <1>1, <1>2, <2>3, <2>4, TabStepOK
<1> QED BY <1>3, <1>4 DEF AcceptBatch

\* What holds while a tab writes.
LEMMA WritingIs ==
  ASSUME ReaderInv, NEW t \in Tabs, tab[t].pc \in Writing
  PROVE  /\ holder = t /\ cursor.opens /\ tab[t].page.start = cursor.head
         /\ tab[t] \in TabStates /\ TabOK(t)
         /\ \A n \in Positions : Entry(n) \in tab[t].todo => cursor.head < n
BY DEF ReaderInv, TabOK

\* A put of an object of the page, whole or broken, is not one of an entry
\* the cursor stands on.
LEMMA ObjectPut ==
  ASSUME ReaderInv, NEW t \in Tabs, tab[t].pc = "objects", NEW o \in tab[t].todo,
         NEW v \in {"absent", "present", "torn"},
         cache' = [cache EXCEPT ![o] = v],
         UNCHANGED <<accepted, manifest, cursor, cut>>
  PROVE  StoreOK' /\ ListKept
<1>1. /\ o \in Objects
      /\ \A n \in Positions : Entry(n) = o => cursor.head < n
  BY WritingIs DEF Writing, TabStates
<1>2. cursor.head \in Int
  BY DEF ReaderInv, StoreOK, Cursors, Positions, Genesis
<1>3. ASSUME NEW n \in Positions, n <= cursor.head
      PROVE  cache'[Entry(n)] = cache[Entry(n)]
  <2>1. n \in Int /\ Entry(n) \in Objects
    BY EntryIs DEF Positions
  <2>2. Entry(n) # o
    BY <1>1, <1>2, <1>3, <2>1
  <2> QED BY <1>1, <2>1, <2>2 DEF ReaderInv, StoreOK
<1>4. cache' \in [Objects -> {"absent", "present", "torn"}]
  BY <1>1 DEF ReaderInv, StoreOK
<1> QED BY <1>3, <1>4 DEF ReaderInv, StoreOK, Needed, ListKept

LEMMA PutObjectStep ==
  ASSUME ReaderInv, NEW t \in Tabs, NEW o \in Objects, PutObject(t, o) PROVE ReaderInv'
<1> DEFINE new == [tab[t] EXCEPT !.todo = @ \ {o}]
<1>1. /\ tab[t].pc = "objects" /\ o \in tab[t].todo /\ Set(t, new)
      /\ cache' = [cache EXCEPT ![o] = "present"]
      /\ UNCHANGED <<accepted, manifest, cursor, holder, cut>>
  BY DEF PutObject
<1>2. StoreOK' /\ ListKept
  BY <1>1, ObjectPut
<1>3. tab[t] \in TabStates /\ TabOK(t)
  BY DEF ReaderInv, TabOK
<1>4. /\ new \in TabStates /\ new.pc = "objects" /\ new.ask = tab[t].ask
      /\ new.page = tab[t].page /\ new.todo \subseteq tab[t].todo
      /\ new.keys = tab[t].keys
  BY <1>1, <1>3 DEF TabStates
<1> HIDE DEF new
<1>5. MovesTo(t, new)
  BY <1>1, Moves DEF ReaderInv
<1>6. TabOK(t)'
  BY <1>1, <1>3, <1>4, <1>5 DEF TabOK, MovesTo, Reading, Writing, Needed
<1> QED BY <1>1, <1>2, <1>5, <1>6, TabStepOK

LEMMA VerifyBatchStep ==
  ASSUME ReaderInv, NEW t \in Tabs, VerifyBatch(t) PROVE ReaderInv'
<1> DEFINE new == [tab[t] EXCEPT !.pc = "manifest"]
<1>1. UNCHANGED accepted /\ UNCHANGED Stored /\ tab[t].pc = "objects"
  BY DEF VerifyBatch
<1>2. StoreOK' /\ ListKept /\ UNCHANGED <<cache, manifest, cursor, cut>>
  BY <1>1, StoreKept
<1>3. holder = t
  BY <1>1, WritingIs DEF Writing
<1>4. CASE Refuse(t) /\ holder' = Nobody
  BY <1>2, <1>3, <1>4, StopIs, TabStepOK
<1>5. CASE Set(t, new) /\ UNCHANGED holder
  <2>1. tab[t] \in TabStates /\ TabOK(t)
    BY DEF ReaderInv, TabOK
  <2>2. /\ new \in TabStates /\ new.pc = "manifest" /\ new.ask = tab[t].ask
        /\ new.page = tab[t].page /\ new.todo = tab[t].todo
        /\ new.keys = tab[t].keys
    BY <2>1 DEF TabStates, Steps
  <2> HIDE DEF new
  <2>3. MovesTo(t, new)
    BY <1>5, Moves DEF ReaderInv
  <2>4. TabOK(t)'
    BY <1>1, <1>2, <1>5, <2>1, <2>2, <2>3 DEF TabOK, MovesTo, Reading, Writing, Needed
  <2> QED BY <1>2, <1>3, <2>3, <2>4, TabStepOK
<1> QED BY <1>4, <1>5 DEF VerifyBatch

LEMMA PutManifestStep ==
  ASSUME ReaderInv, NEW t \in Tabs, PutManifest(t) PROVE ReaderInv'
<1> DEFINE new == [tab[t] EXCEPT !.pc = "cursor"]
           L == Extended(t)
<1>1. UNCHANGED <<accepted, cache, cursor, cut>> /\ tab[t].pc = "manifest"
  BY DEF PutManifest
<1>2. holder = t /\ tab[t] \in TabStates /\ TabOK(t)
  BY <1>1, WritingIs DEF Writing
<1>3. CASE Refuse(t) /\ holder' = Nobody /\ UNCHANGED manifest
  <2>1. StoreOK' /\ ListKept
    BY <1>1, <1>3 DEF ReaderInv, StoreOK, ListKept, Needed
  <2> QED BY <1>2, <1>3, <2>1, StopIs, TabStepOK
<1>4. CASE manifest' = [listed |-> L, opens |-> TRUE] /\ Set(t, new) /\ UNCHANGED holder
  <2>1. /\ L \in SUBSET Objects /\ manifest.listed \subseteq L
        /\ tab[t].page.objects \subseteq L
    BY <1>2 DEF Extended, ReaderInv, StoreOK, TabStates, Pages
  <2> HIDE DEF L
  <2>2. StoreOK' /\ ListKept
    BY <1>1, <1>4, <2>1 DEF ReaderInv, StoreOK, ListKept, Needed
  <2>3. /\ new \in TabStates /\ new.pc = "cursor" /\ new.ask = tab[t].ask
        /\ new.page = tab[t].page /\ new.todo = tab[t].todo
        /\ new.keys = tab[t].keys
    BY <1>2 DEF TabStates, Steps
  <2> HIDE DEF new
  <2>4. MovesTo(t, new)
    BY <1>4, Moves DEF ReaderInv
  <2>5. cut \/ tab[t].keys \subseteq L
    BY <1>1, <1>2, <2>1 DEF TabOK
  <2>6. TabOK(t)'
    BY <1>1, <1>2, <1>4, <2>1, <2>3, <2>4, <2>5 DEF TabOK, MovesTo, Reading, Writing, Needed
  <2> QED BY <1>2, <2>2, <2>4, <2>6, TabStepOK
<1> QED BY <1>3, <1>4 DEF PutManifest

LEMMA PutCursorStep ==
  ASSUME ReaderInv, NEW t \in Tabs, PutCursor(t) PROVE ReaderInv'
<1>1. /\ UNCHANGED <<accepted, cache, manifest, cut>> /\ tab[t].pc = "cursor"
      /\ cursor' = NextCursor(t) /\ Refuse(t)
  BY DEF PutCursor, Refuse
<1>2. /\ holder = t /\ tab[t] \in TabStates /\ TabOK(t) /\ cursor.opens
      /\ tab[t].page.start = cursor.head
  BY <1>1, WritingIs DEF Writing
<1>3. /\ cursor'.token = tab[t].page.next /\ cursor'.opens = TRUE
      /\ cursor'.head = IF tab[t].page.next # None THEN cursor.head ELSE VerifiedHead(t)
  BY <1>1 DEF NextCursor
<1>4. /\ cursor' \in Cursors /\ Ordered(cursor'.head, cursor'.token)
  <2>1. cursor.head \in Heads /\ VerifiedHead(t) \in Heads /\ tab[t].page.next \in Tokens
    BY <1>2, VerifiedIs DEF ReaderInv, StoreOK, Cursors, Heads, TabStates, Pages
  <2>2. cursor' \in Cursors
    BY <1>1, <2>1 DEF NextCursor, Cursors, Heads
  <2> QED BY <1>2, <1>3, <2>2 DEF TabOK, Ordered
<1>5. ASSUME NEW n \in Positions, n <= cursor'.head
      PROVE  /\ cache[Entry(n)] = "present"
             /\ cut \/ (Entry(n) \in manifest.listed /\ Registry \in manifest.listed)
  <2>1. CASE tab[t].page.next # None
    BY <1>2, <1>3, <1>5, <2>1 DEF ReaderInv, StoreOK, Needed
  <2>2. CASE tab[t].page.next = None
    <3>1. /\ cache[Entry(n)] = "present"
          /\ Entry(n) \in tab[t].keys /\ Registry \in tab[t].keys
      BY <1>3, <1>5, <2>2, VerifiedIs
    <3>2. cut \/ tab[t].keys \subseteq manifest.listed
      BY <1>1, <1>2 DEF TabOK
    <3> QED BY <3>1, <3>2
  <2> QED BY <2>1, <2>2
<1>6. StoreOK' /\ ListKept
  BY <1>1, <1>4, <1>5 DEF ReaderInv, StoreOK, ListKept, Needed
<1> QED BY <1>1, <1>2, <1>6, StopIs, TabStepOK

LEMMA FaultStep ==
  ASSUME ReaderInv, NEW t \in Tabs, PutBreaks(t) \/ Close(t) PROVE ReaderInv'
<1>1. CASE Close(t)
  <2>1. UNCHANGED accepted /\ UNCHANGED Stored /\ Stop(t)
        /\ (holder = t \/ UNCHANGED holder)
    BY <1>1 DEF Close
  <2>2. StoreOK' /\ ListKept /\ UNCHANGED cursor
    BY <2>1, StoreKept
  <2> QED BY <2>1, <2>2, StopIs, TabStepOK
<1>2. CASE PutBreaks(t)
  <2>1. tab[t].pc \in Writing /\ Stop(t) /\ UNCHANGED accepted
    BY <1>2 DEF PutBreaks, Writing
  <2>2. CASE tab[t].pc = "objects"
    <3>1. /\ UNCHANGED <<manifest, cursor, cut>>
          /\ \E o \in tab[t].todo, v \in {"absent", "torn"} :
               cache' = [cache EXCEPT ![o] = v]
      BY <1>2, <2>2 DEF PutBreaks
    <3>2. StoreOK' /\ ListKept
      BY <2>1, <2>2, <3>1, ObjectPut
    <3> QED BY <2>1, <3>2, WritingIs, StopIs, TabStepOK
  <2>3. CASE tab[t].pc = "manifest"
    <3>1. /\ UNCHANGED <<cache, cursor>> /\ cut'
          /\ \E whole \in BOOLEAN : manifest' = [NoManifest EXCEPT !.opens = whole]
      BY <1>2, <2>3 DEF PutBreaks
    <3>2. manifest' \in [listed : SUBSET Objects, opens : BOOLEAN]
      BY <3>1 DEF NoManifest
    <3>3. StoreOK' /\ ListKept
      BY <2>1, <3>1, <3>2 DEF ReaderInv, StoreOK, ListKept, Needed
    <3> QED BY <2>1, <3>3, WritingIs, StopIs, TabStepOK
  <2>4. CASE tab[t].pc = "cursor"
    <3>1. UNCHANGED <<cache, manifest, cut>>
          /\ \E whole \in BOOLEAN : cursor' = [NoCursor EXCEPT !.opens = whole]
      BY <1>2, <2>4 DEF PutBreaks
    <3>2. cursor' \in Cursors /\ cursor'.head = Genesis /\ cursor'.token = None
      BY <3>1, IdleIs DEF NoCursor, Cursors
    <3>3. \A n \in Positions : ~(n <= cursor'.head)
      BY <3>2 DEF Positions, Genesis
    <3>4. StoreOK' /\ ListKept
      BY <2>1, <3>1, <3>2, <3>3 DEF ReaderInv, StoreOK, ListKept, Needed, Ordered
    <3> QED BY <2>1, <3>4, WritingIs, StopIs, TabStepOK
  <2> QED BY <2>1, <2>2, <2>3, <2>4 DEF Writing
<1> QED BY <1>1, <1>2

LEMMA ReaderInvNext == ReaderInv /\ [Next]_vars => ReaderInv'
<1> SUFFICES ASSUME ReaderInv, [Next]_vars PROVE ReaderInv'
  OBVIOUS
<1>1. CASE UNCHANGED vars
  <2>1. StoreOK'
    BY <1>1 DEF vars, ReaderInv, StoreOK, Needed
  <2>2. \A q \in Tabs : TabOK(q)'
    BY <1>1, Undisturbed DEF vars, ReaderInv, ListKept
  <2> QED BY <1>1, <2>1, <2>2 DEF vars, ReaderInv
<1>2. ASSUME NEW t \in Tabs, TabStep(t) \/ Fault(t) PROVE ReaderInv'
  BY <1>2, OpenStoreStep, RefuseStoreStep, NextRequestStep, ServeStep,
     RequiredKeysStep, AcceptBatchStep, PutObjectStep, VerifyBatchStep, PutManifestStep, PutCursorStep, FaultStep
     DEF TabStep, Fault
<1> QED BY <1>1, <1>2, ServerStep DEF Next

-----------------------------------------------------------------------------
(* For every number of tabs, chain length, page size and number of broken   *)
(* puts: an entry the confirmed cursor covers is in the cache and, unless   *)
(* the list itself was lost, listed.                                        *)
THEOREM CursorAlwaysCovered == Spec => []CursorCovered
<1>1. ReaderInv => CursorCovered
  BY DEF ReaderInv, StoreOK, CursorCovered, Needed
<1> QED BY <1>1, ReaderInvInit, ReaderInvNext, PTL DEF Spec

(* For every instance: classify answers "fork" only to a reader that lost   *)
(* the object list or the registry head in a put of its own.                *)
THEOREM ForkNeverWithoutLoss == Spec => []ForkOnlyAfterLoss
<1>1. ReaderInv => ForkOnlyAfterLoss
  <2> SUFFICES ASSUME ReaderInv, NEW t \in Tabs, tab[t].pc = "objects",
                      Classified(t) = "fork", ~cut, cache[Registry] # "absent"
               PROVE  FALSE
    BY DEF ForkOnlyAfterLoss
  <2>1. /\ \A o \in tab[t].keys : cache[o] # "torn"
        /\ cursor.head # Genesis /\ VerifiedHead(t) < cursor.head
    BY DEF Classified
  <2>2. /\ cursor.opens /\ tab[t].page.start = cursor.head
        /\ Needed(tab[t].page.start, tab[t].keys)
    BY WritingIs DEF Writing, TabOK
  <2>3. cursor.head \in Positions /\ cursor.head \in 0 .. LastEntry
    BY <2>1 DEF ReaderInv, StoreOK, Cursors, Positions
  <2>4. \A n \in Positions : n <= cursor.head =>
          /\ Entry(n) \in tab[t].keys /\ Registry \in tab[t].keys
          /\ cache[Entry(n)] = "present"
    BY <2>2 DEF ReaderInv, StoreOK, Needed
  <2>5. Registry \in tab[t].keys /\ cache[Registry] = "present"
    <3>1. Registry \in tab[t].keys
      BY <2>3, <2>4
    <3>2. cache[Registry] \in {"absent", "present", "torn"}
      BY EntryIs DEF ReaderInv, StoreOK
    <3> QED BY <2>1, <3>1, <3>2
  <2>6. cursor.head \in Chain(t)
    <3>1. Registry \in Visible(t)
      BY <2>5 DEF Visible
    <3>2. ASSUME NEW m \in 0 .. cursor.head PROVE Entry(m) \in Visible(t)
      <4>1. m \in Positions /\ m <= cursor.head
        BY <2>3, ReaderAssumption DEF Positions
      <4> QED BY <2>4, <4>1 DEF Visible
    <3> QED BY <2>3, <3>1, <3>2 DEF Chain
  <2>7. cursor.head <= VerifiedHead(t) /\ VerifiedHead(t) \in Int
    BY <2>6, VerifiedIs DEF Heads, Positions, Genesis
  <2> QED BY <2>1, <2>3, <2>7
<1> QED BY <1>1, ReaderInvInit, ReaderInvNext, PTL DEF Spec
=============================================================================
