-------------------------- MODULE PublicationQueue --------------------------
(***************************************************************************)
(* The queue of one process in front of a network target (ea-archive-fs,   *)
(* publication_queue.rs, network_target.rs).  It holds at most one plan, a *)
(* sequence of objects, and it holds it in memory only.  One lock is held  *)
(* from the moment a plan leaves its place until all of it is published or *)
(* it is back, so that nobody finds the place empty in between.            *)
(*                                                                         *)
(* An address contains the hash of the bytes, so an object stands for      *)
(* both and two plans never disagree about the bytes of an address.  The   *)
(* limit on bytes is the limit on objects once more.                       *)
(***************************************************************************)
EXTENDS Naturals, Sequences, Functions

CONSTANTS Callers, NoCaller, MaxObjects

VARIABLES
    slot,     \* the plan that waits, <<>> when there is none
    drain,    \* who drains, which plan, how much of it is published
    target,   \* objects of the network target
    outcome   \* the answer to the last call of each caller

queueVars == <<slot, drain, target, outcome>>

NoDrain == [by |-> NoCaller, plan |-> <<>>, done |-> 0]
Outcomes == {"none", "NothingPending", "PublishedCompletely", "Deferred",
             "QueueLimitReached", "Failed"}
NothingOutstanding == {"NothingPending", "PublishedCompletely"}

QueueInit ==
    /\ slot = <<>>
    /\ drain = NoDrain
    /\ outcome = [c \in Callers |-> "none"]

Answer(c, result) == outcome' = [outcome EXCEPT ![c] = result]

DrainLockFree == drain.by = NoCaller

\* The waiting plan first, then what is new in the other one.
Merge(waiting, plan) ==
    LET merged[i \in 0 .. Len(plan)] ==
          IF i = 0 THEN waiting
          ELSE IF plan[i] \in Range(merged[i - 1]) THEN merged[i - 1]
          ELSE Append(merged[i - 1], plan[i])
    IN merged[Len(plan)]

OverLimitAtLimit(plan) == Len(Merge(slot, plan)) >= MaxObjects   \* mutant
OverLimit(plan) == Len(Merge(slot, plan)) > MaxObjects

\* publish: an exceeded limit leaves the waiting plan as it was; without a
\* connection the union waits; else it is drained.
PublishOverLimit(c, plan) ==
    /\ DrainLockFree
    /\ OverLimit(plan)
    /\ Answer(c, "QueueLimitReached")
    /\ UNCHANGED <<slot, drain, target>>

PublishDeferred(c, plan) ==
    /\ DrainLockFree
    /\ ~OverLimit(plan)
    /\ slot' = Merge(slot, plan)
    /\ Answer(c, "Deferred")
    /\ UNCHANGED <<drain, target>>

PublishDrain(c, plan) ==
    /\ DrainLockFree
    /\ ~OverLimit(plan)
    /\ slot' = <<>>
    /\ drain' = [by |-> c, plan |-> Merge(slot, plan), done |-> 0]
    /\ Answer(c, "none")
    /\ UNCHANGED target

Publish(c, plan, connected) ==
    \/ PublishOverLimit(c, plan)
    \/ ~connected /\ PublishDeferred(c, plan)
    \/ connected /\ PublishDrain(c, plan)

\* resume: the plan that waits is drained, with nothing added.
ResumeUnlocked(c) ==   \* mutant
    /\ IF slot = <<>>
       THEN Answer(c, "NothingPending") /\ UNCHANGED <<slot, drain>>
       ELSE /\ DrainLockFree
            /\ slot' = <<>>
            /\ drain' = [by |-> c, plan |-> slot, done |-> 0]
            /\ Answer(c, "none")
    /\ UNCHANGED target
Resume(c) ==
    /\ DrainLockFree
    /\ IF slot = <<>>
       THEN Answer(c, "NothingPending") /\ UNCHANGED <<slot, drain>>
       ELSE /\ slot' = <<>>
            /\ drain' = [by |-> c, plan |-> slot, done |-> 0]
            /\ Answer(c, "none")
    /\ UNCHANGED target

\* One object: created if absent, flushed and read back.
DrainObject(c, connected) ==
    /\ drain.by = c
    /\ connected
    /\ drain.done < Len(drain.plan)
    /\ target' = target \cup {drain.plan[drain.done + 1]}
    /\ drain' = [drain EXCEPT !.done = @ + 1]
    /\ UNCHANGED <<slot, outcome>>

\* No connection, an I/O error or a failed flush defers the whole plan; any
\* other error puts it back as well and is reported.  The object on which
\* it stops may have been created.
DrainStops(c, connected, result) ==
    /\ drain.by = c
    /\ drain.done < Len(drain.plan)
    /\ slot' = drain.plan
    /\ drain' = NoDrain
    /\ \/ UNCHANGED target
       \/ connected /\ target' = target \cup {drain.plan[drain.done + 1]}
    /\ Answer(c, result)

DrainDone(c) ==
    /\ drain.by = c
    /\ drain.done = Len(drain.plan)
    /\ drain' = NoDrain
    /\ Answer(c, "PublishedCompletely")
    /\ UNCHANGED <<slot, target>>

Drain(c, connected) ==
    \/ DrainObject(c, connected)
    \/ DrainStops(c, connected, "Deferred")
    \/ DrainStops(c, connected, "Failed")
    \/ DrainDone(c)

\* The process ends.
QueueLost ==
    /\ slot' = <<>>
    /\ drain' = NoDrain
    /\ outcome' = [c \in Callers |-> "none"]
=============================================================================
