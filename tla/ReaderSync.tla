------------------------------ MODULE ReaderSync ------------------------------
(***************************************************************************)
(* The incremental synchronisation of the web reader: the endpoint that    *)
(* serves pages of the accepted chain, and the reader that stores a page   *)
(* in OPFS, verifies its whole local archive and then moves its confirmed  *)
(* cursor.  Several tabs of one browser share the store; a put into OPFS   *)
(* truncates the file, writes and flushes, so a closed tab or a full disk  *)
(* can leave a blob empty or torn.  The server is honest: a chain position *)
(* stands for the entry accepted there.  Objects are the entries and the   *)
(* registry head they all share.                                           *)
(***************************************************************************)
EXTENDS Integers, FiniteSets, FiniteSetsExt

CONSTANTS
  Tabs,
  LastEntry,     \* the last chain position the server accepts
  PageEntries,   \* MAX_ENTRIES_PER_PAGE_V1
  MaxCached,     \* MAX_CACHED_OBJECTS_V1
  MaxBreaks,     \* bound: puts that do not finish
  Nobody,        \* holder of the store when no tab has it open
  None           \* no page token
ASSUME ReaderAssumption ==
  /\ LastEntry \in Nat /\ PageEntries \in Nat \ {0} /\ MaxCached \in Nat
  /\ MaxBreaks \in Nat
  /\ Nobody \notin Tabs

VARIABLES
  accepted,   \* the server's chain head, -1 before the first entry
  cache,      \* the blob of each object: "absent", "present" or "torn"
  manifest,   \* sync/objects-v1: the listed objects, and whether it opens
  cursor,     \* sync/cursor-v1: confirmed head, page token, whether it opens
  holder,     \* the tab that has the access handle of sync/cursor-v1
  tab,        \* where each tab is in a synchronisation
  cut,        \* history: a put of the manifest broke off
  breaks      \* how many puts broke off
vars == <<accepted, cache, manifest, cursor, holder, tab, cut, breaks>>

Genesis == -1
Positions == 0..LastEntry
Registry == <<"registry", 0>>
Entry(n) == <<"entry", n>>
Objects == {Entry(n) : n \in Positions} \cup {Registry}

\* A page token: the last position delivered under it, and whether the server
\* still opens it (expiry, rotated key).  It binds the head it was issued for.
Tokens == [last : Positions, live : BOOLEAN] \cup {None}
Cursors == [head : Positions \cup {Genesis}, token : Tokens, opens : BOOLEAN]
NoCursor == [head |-> Genesis, token |-> None, opens |-> TRUE]
NoManifest == [listed |-> {}, opens |-> TRUE]
NoPage == [start |-> Genesis, objects |-> {}, next |-> None, covered |-> 0]

Idle == [pc |-> "idle", ask |-> NoCursor, page |-> NoPage, keys |-> {}, todo |-> {}]
Steps == {"idle", "closed", "asking", "asked", "answered", "keying", "keyed",
          "opened", "objects", "manifest", "cursor"}

\* Every variable has its type; exactly the holder has the store open.
TypeOK ==
  /\ accepted \in Positions \cup {Genesis}
  /\ cache \in [Objects -> {"absent", "present", "torn"}]
  /\ manifest \in [listed : SUBSET Objects, opens : BOOLEAN]
  /\ cursor \in Cursors
  /\ holder \in Tabs \cup {Nobody}
  /\ cut \in BOOLEAN /\ breaks \in 0..MaxBreaks
  /\ \A t \in Tabs :
       /\ tab[t].pc \in Steps /\ tab[t].ask \in Cursors
       /\ tab[t].keys \in SUBSET Objects /\ tab[t].todo \in SUBSET Objects
       /\ (holder = t) <=> (tab[t].pc \in {"asking", "keying", "opened", "objects",
                                            "manifest", "cursor"})

Init ==
  /\ accepted = Genesis
  /\ cache = [o \in Objects |-> "absent"]
  /\ manifest = NoManifest
  /\ cursor = NoCursor
  /\ holder = Nobody
  /\ tab = [t \in Tabs |-> Idle]
  /\ cut = FALSE /\ breaks = 0

Set(t, new) == tab' = [tab EXCEPT ![t] = new]
Refuse(t) == Set(t, Idle)
Stop(t) == Set(t, [Idle EXCEPT !.pc = "closed"])
Stored == <<cache, manifest, cursor, cut, breaks>>

-----------------------------------------------------------------------------
\* The server.

\* A writer's entry is accepted.
Accept ==
  /\ accepted < LastEntry
  /\ accepted' = accepted + 1
  /\ UNCHANGED <<Stored, holder, tab>>

\* The positions a request may get: from the one after the token, or after the
\* confirmed head, as many as one index query returns.
Delivered(ask) == IF ask.token = None THEN ask.head ELSE ask.token.last
Indexed(ask) ==
  {n \in Positions : Delivered(ask) < n /\ n <= accepted
                       /\ n <= Delivered(ask) + PageEntries}

\* reader_batch over the first k indexed entries; a page of fewer than all of
\* them was cut off by its byte or object ceiling.
Page(ask, k) ==
  LET taken == {n \in Indexed(ask) : n <= Delivered(ask) + k}
      covered == IF taken # {} THEN Max(taken)
                 ELSE IF Delivered(ask) = Genesis THEN 0 ELSE Delivered(ask)
      more == Indexed(ask) # {}
                /\ (taken # Indexed(ask) \/ Cardinality(Indexed(ask)) = PageEntries)
  IN [start |-> ask.head,
      objects |-> {Entry(n) : n \in taken}
                    \cup (IF taken = {} THEN {} ELSE {Registry}),
      next |-> IF more THEN [last |-> covered, live |-> TRUE] ELSE None,
      covered |-> covered]

\* TechnicalCursorV1::open: a token is good until it expires.
TokenOpens(token) == IF token = None THEN TRUE ELSE token.live

Serve(t) ==
  /\ tab[t].pc = "asked"
  /\ \/ /\ accepted # Genesis /\ TokenOpens(tab[t].ask.token)
        /\ \E k \in 1..PageEntries :
             Set(t, [Idle EXCEPT !.pc = "answered", !.page = Page(tab[t].ask, k)])
     \/ /\ accepted = Genesis \/ ~TokenOpens(tab[t].ask.token)
        /\ Refuse(t)
  /\ UNCHANGED <<accepted, Stored, holder>>

\* Time passes, or the server's key is rotated: the tokens issued so far do not
\* open any more.
Dead(token) == IF token = None THEN None ELSE [token EXCEPT !.live = FALSE]
Expire ==
  /\ cursor' = [cursor EXCEPT !.token = Dead(@)]
  /\ tab' = [t \in Tabs |->
               [tab[t] EXCEPT !.ask.token = Dead(@), !.page.next = Dead(@)]]
  /\ <<cursor', tab'>> # <<cursor, tab>>
  /\ UNCHANGED <<accepted, cache, manifest, holder, cut, breaks>>
-----------------------------------------------------------------------------
\* The reader.

\* OpfsBlobStore::open, which every call begins with and the accepting call
\* does twice.  It awaits one exclusive handle after the other, in the order of
\* the keys; every opening needs sync/cursor-v1, and keeps what it has until
\* the store is dropped.
Opening(pc) ==
  IF pc = "answered" THEN "keying" ELSE IF pc = "keyed" THEN "opened" ELSE "asking"
Closed == {"idle", "closed", "answered", "keyed"}

OpenStore(t) ==
  /\ tab[t].pc \in Closed /\ holder = Nobody
  /\ Set(t, [tab[t] EXCEPT !.pc = Opening(@)])
  /\ holder' = t
  /\ UNCHANGED <<accepted, Stored>>

\* The queue of a key belongs to one tab and the Web Lock is a shared one: a
\* file another tab has open refuses the handle, and that ends the call.  The
\* second opening of a call takes the objects before the cursor, so it may also
\* meet another second opening that has not reached the cursor yet.
Taken(t) ==
  \/ holder \notin {t, Nobody}
  \/ tab[t].pc = "keyed" /\ \E u \in Tabs \ {t} : tab[u].pc = "keyed"

RefuseStore(t) ==
  /\ tab[t].pc \in Closed /\ Taken(t)
  /\ Refuse(t)
  /\ UNCHANGED <<accepted, Stored, holder>>

\* readerSyncNextRequest: the stored cursor goes out as it is, its token too.
NextRequest(t) ==
  /\ tab[t].pc = "asking"
  /\ IF cursor.opens
     THEN Set(t, [Idle EXCEPT !.pc = "asked", !.ask = cursor])
     ELSE Refuse(t)
  /\ holder' = Nobody
  /\ UNCHANGED <<accepted, Stored>>

\* required_blob_keys: what the store must have open is the manifest and the
\* objects of the page; the handles of this opening are closed again.
Required(t) == manifest.listed \cup tab[t].page.objects

RequiredKeys(t) ==
  /\ tab[t].pc = "keying"
  /\ IF manifest.opens
     THEN Set(t, [tab[t] EXCEPT !.pc = "keyed", !.keys = Required(t)])
     ELSE Refuse(t)
  /\ holder' = Nobody
  /\ UNCHANGED <<accepted, Stored>>

\* accept_batch to the start-head check, against the cursor stored now.
BindsAnyCursor(t) == TRUE   \* mutant
BindsCursor(t) == tab[t].page.start = cursor.head

AcceptBatch(t) ==
  /\ tab[t].pc = "opened"
  /\ \/ /\ cursor.opens /\ BindsCursor(t)
        /\ Set(t, [tab[t] EXCEPT !.pc = "objects", !.todo = tab[t].page.objects])
        /\ UNCHANGED holder
     \/ /\ ~cursor.opens \/ ~BindsCursor(t)
        /\ Refuse(t)
        /\ holder' = Nobody
  /\ UNCHANGED <<accepted, Stored>>

\* put_exact_object, once for every object of the page, present or not.
PutObject(t, o) ==
  /\ tab[t].pc = "objects" /\ o \in tab[t].todo
  /\ cache' = [cache EXCEPT ![o] = "present"]
  /\ Set(t, [tab[t] EXCEPT !.todo = @ \ {o}])
  /\ UNCHANGED <<accepted, manifest, cursor, holder, cut, breaks>>

\* verify_archive_observed over the objects the store has open.
Visible(t) == {o \in tab[t].keys : cache[o] = "present"}
Chain(t) == {n \in Positions : Registry \in Visible(t)
                                 /\ \A m \in 0..n : Entry(m) \in Visible(t)}
VerifiedHead(t) == IF Chain(t) = {} THEN Genesis ELSE Max(Chain(t))
Gaps(t) == \E n \in Positions : Entry(n) \in Visible(t) /\ n > VerifiedHead(t)

\* classify, in the order of the code.
Sequence(head) == IF head = Genesis THEN 0 ELSE head
Classified(t) ==
  IF \E o \in tab[t].keys : cache[o] = "torn" THEN "store"
  ELSE IF cursor.head # Genesis /\ VerifiedHead(t) < cursor.head THEN "fork"
  ELSE IF Gaps(t) \/ Sequence(VerifiedHead(t)) < tab[t].page.covered THEN "gap"
  ELSE "nothing"

\* The head the next cursor names: the page's start as long as the server
\* hands out tokens, then the head that was verified.
NextCursorAtStart(t) ==   \* mutant
  [head |-> cursor.head, token |-> tab[t].page.next, opens |-> TRUE]
NextCursor(t) ==
  [head |-> IF tab[t].page.next # None THEN cursor.head ELSE VerifiedHead(t),
   token |-> tab[t].page.next, opens |-> TRUE]

VerifyBatch(t) ==
  /\ tab[t].pc = "objects" /\ tab[t].todo = {}
  /\ \/ /\ Classified(t) = "nothing"
        /\ Set(t, [tab[t] EXCEPT !.pc = "manifest"])
        /\ UNCHANGED holder
     \/ /\ Classified(t) # "nothing"
        /\ Refuse(t)
        /\ holder' = Nobody
  /\ UNCHANGED <<accepted, Stored>>

\* confirm, first half: the list is read again and may run ahead of the cursor.
ExtendedByPage(t) == tab[t].page.objects   \* mutant
Extended(t) == manifest.listed \cup tab[t].page.objects

PutManifest(t) ==
  /\ tab[t].pc = "manifest"
  /\ \/ /\ manifest.opens /\ Cardinality(Extended(t)) <= MaxCached
        /\ manifest' = [listed |-> Extended(t), opens |-> TRUE]
        /\ Set(t, [tab[t] EXCEPT !.pc = "cursor"])
        /\ UNCHANGED holder
     \/ /\ ~manifest.opens \/ Cardinality(Extended(t)) > MaxCached
        /\ Refuse(t)
        /\ holder' = Nobody
        /\ UNCHANGED manifest
  /\ UNCHANGED <<accepted, cache, cursor, cut, breaks>>

\* confirm, second half; the store closes.
PutCursor(t) ==
  /\ tab[t].pc = "cursor"
  /\ cursor' = NextCursor(t)
  /\ Set(t, Idle)
  /\ holder' = Nobody
  /\ UNCHANGED <<accepted, cache, manifest, cut, breaks>>

\* A put that does not finish: the file is cut to nothing, which reads as an
\* absent blob, or holds part of the bytes, which does not open.  put_cursor's
\* own error returns before the previous blob would be restored.
PutBreaks(t) ==
  /\ breaks < MaxBreaks /\ breaks' = breaks + 1
  /\ \/ /\ tab[t].pc = "objects"
        /\ \E o \in tab[t].todo, rest \in {"absent", "torn"} :
             cache' = [cache EXCEPT ![o] = rest]
        /\ UNCHANGED <<manifest, cursor, cut>>
     \/ /\ tab[t].pc = "manifest"
        /\ \E whole \in BOOLEAN : manifest' = [NoManifest EXCEPT !.opens = whole]
        /\ cut' = TRUE
        /\ UNCHANGED <<cache, cursor>>
     \/ /\ tab[t].pc = "cursor"
        /\ \E whole \in BOOLEAN : cursor' = [NoCursor EXCEPT !.opens = whole]
        /\ UNCHANGED <<cache, manifest, cut>>
  /\ Stop(t)
  /\ holder' = Nobody
  /\ UNCHANGED accepted

\* The tab closes, the session locks or the transport fails between two steps.
Close(t) ==
  /\ tab[t].pc \notin {"idle", "closed"}
  /\ Stop(t)
  /\ holder' = IF holder = t THEN Nobody ELSE holder
  /\ UNCHANGED <<accepted, Stored>>

-----------------------------------------------------------------------------
TabStep(t) ==
  \/ OpenStore(t) \/ RefuseStore(t)
  \/ NextRequest(t) \/ Serve(t) \/ RequiredKeys(t) \/ AcceptBatch(t)
  \/ (\E o \in Objects : PutObject(t, o))
  \/ VerifyBatch(t) \/ PutManifest(t) \/ PutCursor(t)
Fault(t) == PutBreaks(t) \/ Close(t)
Next ==
  \/ Accept \/ Expire
  \/ \E t \in Tabs : TabStep(t) \/ Fault(t)
Spec == Init /\ [][Next]_vars

\* Some tab goes on as long as any can (the host asks again and again), and
\* faults end some time.
FairSpec ==
  /\ Spec
  /\ WF_vars(\E t \in Tabs : TabStep(t))
  /\ <>[][\A t \in Tabs : ~Fault(t)]_vars

-----------------------------------------------------------------------------
\* What the confirmed cursor stands on: every entry up to it is in the cache,
\* and listed, unless the list itself was lost in an unfinished put (cursor
\* moved last, by confirm; a page accepted for another start head would let it
\* stand on nothing).
CursorCovered ==
  cursor.opens =>
    \A n \in Positions : n <= cursor.head =>
      /\ cache[Entry(n)] = "present"
      /\ cut \/ Entry(n) \in manifest.listed

\* A reader of an honest server speaks of a fork only when a put of its own was
\* cut off before: of the object list, or of the registry head, which every
\* page writes again.  No order of tabs, pages and tokens, and no broken put of
\* an entry or of the cursor, makes classify accuse the server.
ForkOnlyAfterLoss ==
  \A t \in Tabs :
    tab[t].pc = "objects" /\ tab[t].todo = {} /\ Classified(t) = "fork"
      => cut \/ cache[Registry] = "absent"

\* States without a way out in the product (rebuild_from_genesis has no caller
\* there): a token that does not open, a cursor that does not, a cut manifest,
\* a listed object cut by a later put of the same object.  The last one ends
\* when a page brings the object again.
TokenDead == ~TokenOpens(cursor.token)
Damaged ==
  ~cursor.opens \/ cut \/ \E o \in manifest.listed : cache[o] # "present"
Roomy == accepted + 2 <= MaxCached
Reached(n) == cursor.opens /\ cursor.head >= n

\* No other tab has a call under way.
Alone(t) == \A u \in Tabs \ {t} : tab[u].pc \in {"idle", "closed"}
Healthy == ~TokenDead /\ ~Damaged /\ Roomy

\* Once a single tab is left that synchronises, the reader confirms everything
\* the server has accepted, again and again, as long as the manifest has room,
\* no token dies and no blob is damaged: whatever tabs did to each other before
\* (refused openings, pages for an older cursor, closed tabs, lost answers, a
\* cursor cut to nothing) leaves a state the remaining tab gets on from.  (At
\* the limit a paged run confirms none of its pages: the head moves at its end.)
CatchesUp ==
  (\E t \in Tabs : <>[]Alone(t)) /\ <>[]Healthy => []<>Reached(accepted)

\* "haelt dieser Aufruf an, bis jener geschlossen ist" (opfs_worker.rs:614):
\* several tabs at once do not stop the reader either.  The code refuses where
\* the comment waits, and two tabs can refuse each other for ever.
TabsCatchUp == <>[]Healthy => []<>Reached(accepted)

\* "der Klient blaettert von einem frischen Cursor neu an, ohne Luecke in der
\* Batchfolge" (docs/traceability/stage-3-gate.md:160): a token that does not
\* open any more does not stop the reader either.
FreshCursorAfterExpiry ==
  <>[](~Damaged /\ Roomy) => \A n \in Positions : accepted >= n ~> Reached(n)
=============================================================================
