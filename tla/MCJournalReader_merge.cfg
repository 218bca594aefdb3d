\* Two journals, one of them with two pages; one seek or expiry.
CONSTANTS
    NumJournals = 2
    PageFrames = 1
    MaxLog <- MCMaxLog
    MaxClock = 2
    MaxCall = 1
SPECIFICATION FairSpec
INVARIANTS TypeOK
PROPERTIES SeekFindsTime OldestFirst StreamsInOrder EverythingReturned
