---------------------------- MODULE WriterBackup ----------------------------
(***************************************************************************)
(* The writer when its database is restored from a backup.  A backup holds *)
(* the database files: draft row, transition row, number register and      *)
(* confirmed originals.  The draftDEK is device-bound and does not return  *)
(* with them, and the archive directory is not part of them.               *)
(***************************************************************************)
EXTENDS WriterCore

VARIABLE backup      \* the saved database, or None

backupVars == <<vars, backup>>

BackupInit == Init /\ backup = None

\* The database files are copied while no operation runs.
TakeBackup ==
    /\ pc = "idle"
    /\ backup' = [row |-> row, transition |-> transition,
                  claim |-> claim, confirmed |-> confirmed]
    /\ UNCHANGED vars

RestoreBackupWithKey ==   \* mutant
    /\ pc = "idle"
    /\ backup # None
    /\ row' = backup.row
    /\ slot' = backup.row.id
    /\ transition' = backup.transition
    /\ claim' = backup.claim
    /\ confirmed' = backup.confirmed
    /\ UNCHANGED <<attempt, disk, pc, cur, backup>>

RestoreBackup ==
    /\ pc = "idle"
    /\ backup # None
    /\ row' = backup.row
    /\ transition' = backup.transition
    /\ claim' = backup.claim
    /\ confirmed' = backup.confirmed
    /\ UNCHANGED <<slot, attempt, disk, pc, cur, backup>>

\* resume_after_restart without an intent and without a marker: a draft that
\* no longer decrypts is replaced at once.
ReplaceUnreadable ==
    /\ pc = "idle"
    /\ transition = None
    /\ ~Readable
    /\ pc' = "blank"
    /\ UNCHANGED <<row, slot, transition, attempt, claim, confirmed, disk, cur>>

\* A fresh identity is also unknown to the backup.
KnownToBackup(d) == backup # None /\ d \in {backup.row.id, backup.transition}

WriterStep ==
    /\ Next \/ ReplaceUnreadable
    /\ slot' \in {slot, None} \/ ~KnownToBackup(slot')
    /\ UNCHANGED backup

BackupNext == WriterStep \/ TakeBackup \/ RestoreBackup

BackupSpec == BackupInit /\ [][BackupNext]_backupVars
-----------------------------------------------------------------------------
\* No sequence is used for two committed entries, also after a restore: the
\* design lets a restored writer do nothing new before its head is compared
\* (design.md:471), and lets no restart use a sequence otherwise (design.md:467).
SequenceUsedOnce ==
    \A t, u \in ChainNodes : attempt[t].seq = attempt[u].seq => t = u
=============================================================================
