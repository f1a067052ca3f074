---------------------------- MODULE DesktopWriter ----------------------------
(***************************************************************************)
(* The writer core as the desktop program drives it.  The writer page      *)
(* opens with two concurrent host calls, loading the active draft and      *)
(* resolving a pending finalization; the host's mutex runs them in either  *)
(* order.  Only an open page asks for a save, a finalization or a discard; *)
(* the request outlives the page that issued it.  Sources: apps/desktop    *)
(* WriterPage.tsx, AppShell.tsx, commands/writer.rs, runtime/drafts.rs.    *)
(***************************************************************************)
EXTENDS WriterCore, FiniteSets

CONSTANT MaxRequests   \* bounds the requests in flight

\* An answer is none of the values that stand for something else.
ASSUME AnswersDistinct ==
    /\ "failed" \notin Drafts \cup {None}
    /\ None \notin {"running", "irreversible", "reversible", "blocked"}

VARIABLES
    page,        \* "starting", "open", "resume" (read-only) or "refused"
    draftAnswer, \* answer of draft_load_active: a draft, "failed" or None
    recoverCall, \* writer_recover_pending: None, "running", or its answer
    request,     \* calls issued by this or an earlier page, not yet run
    overtaken    \* one of them ran after this page's draft was loaded

pageVars == <<page, draftAnswer, recoverCall, request, overtaken>>
desktopVars == <<vars, pageVars>>

DesktopInit ==
    /\ Init
    /\ page = "starting" /\ draftAnswer = None /\ recoverCall = None
    /\ request = {} /\ overtaken = FALSE

\* A page begins: it has issued its two calls and has no answer.
NewPage ==
    /\ page' = "starting"
    /\ draftAnswer' = None
    /\ recoverCall' = None
    /\ overtaken' = FALSE

(***************************************************************************)
(* connectWriterBridge                                                     *)
(***************************************************************************)
LoadActiveDraft ==
    /\ page = "starting"
    /\ draftAnswer = None
    /\ pc = "idle"
    /\ draftAnswer' = IF Readable THEN row.id ELSE "failed"
    /\ UNCHANGED <<vars, page, recoverCall, request, overtaken>>

\* Every other host call takes back the preview that a finalization needs.
WithoutPreview(calls) == calls \ {"finalize"}

RecoverAfterLoad ==   \* mutant
    /\ page = "starting"
    /\ draftAnswer \in Drafts
    /\ recoverCall = None
    /\ Recover
    /\ recoverCall' = "running"
    /\ request' = WithoutPreview(request)
    /\ UNCHANGED <<page, draftAnswer, overtaken>>

\* Both calls are issued at once, so this one also runs after a refusal.
CallRecover ==
    /\ page \in {"starting", "refused"}
    /\ recoverCall = None
    /\ Recover
    /\ recoverCall' = "running"
    /\ request' = WithoutPreview(request)
    /\ UNCHANGED <<page, draftAnswer, overtaken>>

\* One refused call rejects both: the page stays closed.
Refuse ==
    /\ page = "starting"
    /\ draftAnswer = "failed"
    /\ page' = "refused"
    /\ UNCHANGED <<vars, draftAnswer, recoverCall, request, overtaken>>

\* Only a crossed boundary or a blockade withholds the entry form.
NoWithholding == {}   \* mutant
Withholding == {"irreversible", "blocked"}

OpenPage ==
    /\ page = "starting"
    /\ draftAnswer \in Drafts
    /\ recoverCall \notin {None, "running"}
    /\ page' = IF recoverCall \in Withholding THEN "resume" ELSE "open"
    /\ UNCHANGED <<vars, draftAnswer, recoverCall, request, overtaken>>

\* The operator leaves the page, at any time, and comes back.  Calls are not
\* stopped, only their answers dropped: a recovery that has not run yet will.
Reload ==
    /\ NewPage
    /\ request' = request \cup (IF recoverCall = None THEN {"recover"} ELSE {})
    /\ Cardinality(request') <= MaxRequests
    /\ UNCHANGED vars

(***************************************************************************)
(* The entry form.  A click starts a reauthentication and then the call;   *)
(* no later page waits for it.  draft_discard_resume is offered only after *)
(* discard_begin answered "not complete", which it never does.             *)
(***************************************************************************)
Click ==
    /\ page = "open"
    /\ \E call \in {"save", "discard", "finalize"} : request' = request \cup {call}
    /\ Cardinality(request') <= MaxRequests
    /\ UNCHANGED <<vars, page, draftAnswer, recoverCall, overtaken>>

Run(call) ==
    \/ call = "save" /\ Save
    \/ call = "discard" /\ BeginDiscard
    \/ call = "recover" /\ Recover
    \/ /\ call = "finalize"
       /\ \E t \in Txs : \/ \E n \in Numbers : FinalizeIncident(t, n)
                         \/ \E orig \in Txs : FinalizeAmendment(t, orig)

Operate ==
    /\ \E call \in request : /\ Run(call)
                             /\ request' = WithoutPreview(request \ {call})
    /\ overtaken' = (overtaken \/ (page = "starting" /\ draftAnswer # None))
    /\ UNCHANGED <<page, draftAnswer, recoverCall>>

\* A call of recover_pending that ends without an error restored the draft,
\* found nothing to do, or completed the finalization and opened a blank draft.
HostStep ==
    /\ Progress
    /\ recoverCall' =
         IF recoverCall # "running" \/ pc' # "idle" THEN recoverCall
         ELSE IF pc = "wrapped" THEN "irreversible"
         ELSE IF Readable \/ Releasable = {} THEN "reversible" ELSE "blocked"
    /\ UNCHANGED <<page, draftAnswer, request, overtaken>>

HostError ==
    /\ Error
    /\ recoverCall' = IF recoverCall = "running" THEN "blocked" ELSE recoverCall
    /\ UNCHANGED <<page, draftAnswer, request, overtaken>>

\* The program ends and is started again.
Restart ==
    /\ Crash
    /\ NewPage
    /\ request' = {}

CalmNext ==
    \/ LoadActiveDraft \/ CallRecover \/ Refuse \/ OpenPage \/ Reload
    \/ Click \/ Operate \/ HostStep

DesktopNext == CalmNext \/ HostError \/ Restart

DesktopSpec == DesktopInit /\ [][DesktopNext]_desktopVars

(***************************************************************************)
(* The host keeps working and the page is left and opened again and again; *)
(* from some time on nothing crashes and a call fails only where the code  *)
(* leaves it no other way.                                                 *)
(***************************************************************************)
ForcedHostError == HostError /\ ~ENABLED HostStep

DesktopFairness ==
    /\ WF_desktopVars(HostStep \/ HostError)
    /\ WF_desktopVars(LoadActiveDraft) /\ SF_desktopVars(CallRecover)
    /\ WF_desktopVars(Refuse) /\ WF_desktopVars(OpenPage)
    /\ SF_desktopVars(Reload)
    /\ <>[][CalmNext \/ ForcedHostError]_desktopVars

FairDesktopSpec == DesktopSpec /\ DesktopFairness
-----------------------------------------------------------------------------
\* The draft read for the form is the active one, no prepared finalization
\* waits beneath it, and it holds no number it cannot use.
FormIsCurrent == draftAnswer = row.id /\ transition \notin Txs /\ Releasable = {}

\* Whichever of the two startup calls the host ran first, whatever failed or
\* crashed before, and whatever calls of earlier pages are still to come, the
\* entry form opens on the active draft, unless a call of an earlier page ran
\* between this page's load and its opening (connectWriterBridge).
FormShowsActiveDraft ==
    [][page # "open" /\ page' = "open" /\ ~overtaken => FormIsCurrent]_desktopVars

\* The same without the exception, as design.md:1903 has it.  The code does not
\* ensure it (MCDesktopLateCall.cfg).
StartViewIsActiveDraft ==
    [][page # "open" /\ page' = "open" => FormIsCurrent]_desktopVars

\* A booked discard is carried on by restarts until it is done (design.md:432,
\* DiscardDraftAction.tsx:67).
DiscardResumed == transition \in Drafts ~> transition \notin Drafts

\* A prepared finalization does not outlast the restarts of the program.
RestartResolves == transition \in Txs ~> transition \notin Txs
=============================================================================
