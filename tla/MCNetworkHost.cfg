SPECIFICATION FairSpec
CONSTANTS
    a = a
    Processes = {a}
    Writers = {a}
    Me = a
    FirstSeq = 1
    FirstRow = TRUE
    LastSeq = 2
    RowLimit = 4
    MaxAttempts = 1
    NoProcess = NoProcess
    NoThread = NoThread
    NoSeq = NoSeq
INVARIANTS
    NoLostWakeup
    SavedIsPublished
    KeptViewComplete
PROPERTIES
    EntriesPublished
    ImplementsArchive
