CONSTANTS
    LastEntry = 2
    Grants <- GrantCounts
    MaxAttempts = 2
    Batch = 2
    MaxObjects = 3
    NoCaller = NoCaller
SPECIFICATION FairSpec
INVARIANTS
    UploadAfterNetwork
    SynchronizedTrue
PROPERTIES
    GateTruthful
    EntriesConfirmed
