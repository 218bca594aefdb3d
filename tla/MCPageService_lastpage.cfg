\* Refuted: the answer is stored before last_page_num.
CONSTANTS
    w1 = w1  w2 = w2  w3 = w3  r1 = r1
    nw = nw  nx = nx  na = na
    pw = pw  px = px  py = py  pa = pa
    j1 = j1
    NoJournal = NoJournal
    NoClient = NoClient
    Handlers = {w1}
    Writers = {w1}
    Names <- MCNames
    Pids <- MCPids
    Name <- MCName
    Pid <- MCPid
    Journals = {j1}
    Foreign = {}
    Wants <- WantsAll
    Mortal = {}
    Seeks <- SeekOnce
    OnDisk <- OnePage
    Outages = FALSE
    MaxUser = 1
    MaxPage = 3
    MaxCount = 2
SPECIFICATION ServiceSpec
CHECK_DEADLOCK FALSE
INVARIANTS WriterCountsExact
