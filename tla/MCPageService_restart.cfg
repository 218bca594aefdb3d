\* A writer is killed and started again under the same name.
CONSTANTS
    w1 = w1  w2 = w2  w3 = w3  r1 = r1
    nw = nw  nx = nx  na = na
    pw = pw  px = px  py = py  pa = pa
    j1 = j1
    NoJournal = NoJournal
    NoClient = NoClient
    Handlers = {w2, w3}
    Writers = {w2, w3}
    Names <- MCNames
    Pids <- MCPids
    Name <- MCName
    Pid <- MCPid
    Journals = {j1}
    Foreign = {}
    Wants <- WantsAll
    Mortal = {px, py}
    Seeks <- SeekOnce
    OnDisk = {}
    Outages = FALSE
    MaxUser = 1
    MaxPage = 3
    MaxCount = 2
SPECIFICATION ServiceSpec
CHECK_DEADLOCK FALSE
INVARIANTS SlotOwnership AppenderHoldsLock
