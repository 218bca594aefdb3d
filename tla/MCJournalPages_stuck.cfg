\* Refuted: a crash between two pages hides the frames that follow.
CONSTANTS
    r1 = r1
    Readers = {r1}
    PageSize = 5
    Headroom = 2
    MaxFrame = 2
    MaxPage = 3
    MaxLog = 5
    MaxCrash = 1
    MaxSeek = 1
SPECIFICATION FairSpec
CHECK_DEADLOCK FALSE
PROPERTIES EverythingRead
