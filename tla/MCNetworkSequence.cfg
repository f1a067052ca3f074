SPECIFICATION ArchiveSpec
CONSTANTS
    a = a
    b = b
    Processes = {a, b}
    Writers = {a, b}
    FirstSeq = 0
    FirstRow = FALSE
    LastSeq = 2
    RowLimit = 4
    NoProcess = NoProcess
    NoSeq = NoSeq
PROPERTY
    SequenceFresh
