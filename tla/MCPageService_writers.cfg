\* Two writers of one journal; the temp page cannot be renamed into its folder.
CONSTANTS
    w1 = w1  w2 = w2  w3 = w3  r1 = r1
    nw = nw  nx = nx  na = na
    pw = pw  px = px  py = py  pa = pa
    j1 = j1
    NoJournal = NoJournal
    NoClient = NoClient
    Handlers = {w1, w2}
    Writers = {w1, w2}
    Names <- MCNames
    Pids <- MCPids
    Name <- MCName
    Pid <- MCPid
    Journals = {j1}
    Foreign = {j1}
    Wants <- WantsAll
    Mortal = {}
    Seeks <- SeekOnce
    OnDisk = {}
    Outages = FALSE
    MaxUser = 2
    MaxPage = 3
    MaxCount = 2
SPECIFICATION ServiceSpec
CHECK_DEADLOCK FALSE
INVARIANTS OneAppender AppenderHoldsLock
PROPERTIES ImplementsEngine
