SPECIFICATION ArchiveSpec
CONSTANTS
    a = a
    b = b
    Processes = {a, b}
    Writers = {a}
    FirstSeq = 0
    FirstRow = FALSE
    LastSeq = 3
    RowLimit = 4
    NoProcess = NoProcess
    NoSeq = NoSeq
PROPERTIES
    SequenceFresh
    OpeningSeesHead
