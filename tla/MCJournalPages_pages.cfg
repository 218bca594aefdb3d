\* One writer that may crash, one reader, every store, frames of any length.
CONSTANTS
    r1 = r1
    Readers = {r1}
    PageSize = 4
    Headroom = 1
    MaxFrame = 3
    MaxPage = 3
    MaxLog = 3
    MaxCrash = 2
    MaxSeek = 1
SPECIFICATION FairSpec
CHECK_DEADLOCK FALSE
INVARIANTS TypeOK OverrunIsLong ChainMatchesLog ClosedHasSuccessor
PROPERTIES ReaderKeepsPage ImplementsLog ReadUnlessAbandoned
