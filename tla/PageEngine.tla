----------------------------- MODULE PageEngine -----------------------------
(***************************************************************************)
(* The page service of yijinjing-lite: class PageEngine with the three     *)
(* threads that share its mutex.                                           *)
(*                                                                         *)
(*   socket thread  reg_client, reg_journal, exit_client                   *)
(*                  (PageSocketHandler::process_msg, one request a time)   *)
(*   comm thread    start_comm: polls the status bytes of the comm file    *)
(*                  WITHOUT the mutex and serves page requests with it     *)
(*   task thread    start_task: PstPidCheck, then PstTempPage              *)
(*                                                                         *)
(* The comm file is memory shared with the clients.  Here the clients are  *)
(* an environment that may store anything a client stores (journal, role,  *)
(* page number, HOLDING, REQUESTING) into any slot at any time; module     *)
(* PageService replaces it by the clients of the library.                  *)
(*                                                                         *)
(* Abstractions.  (folder, name) is a journal; the hash_code of a          *)
(* registration is the identity of the handler it was given to; a key that *)
(* is absent from one of the count maps has count 0; user_index_vec and    *)
(* the names of a pid are sets.                                            *)
(***************************************************************************)
EXTENDS Integers, FiniteSets

CONSTANTS
    Handlers,   \* PageProvider instances, each registered at most once
    Names,      \* client names
    Pids,       \* operating system processes
    Name,       \* Name[h]: the client name h registers with
    Pid,        \* Pid[h]: the process h lives in
    Journals,   \* (folder, short name) pairs
    Foreign,    \* journals whose folder the temp page cannot be renamed into
    NoJournal,  \* the empty folder and name of a slot nobody ever filled
    NoClient,   \* no registration / no exit under way
    MaxUser,    \* MAX_COMM_USER_NUMBER
    MaxPage,    \* largest page number
    OnDisk,     \* page files that exist when the engine starts
    Outages     \* whether the engine may be stopped and started again

ASSUME EngineAssumption ==
    /\ Name \in [Handlers -> Names]
    /\ Pid \in [Handlers -> Pids]
    /\ Foreign \subseteq Journals
    /\ NoClient \notin Handlers \cup Names
    /\ MaxUser \in Nat \ {0}
    /\ MaxPage \in Nat \ {0}
    /\ OnDisk \subseteq Journals \X (1..MaxPage)
    /\ Outages \in BOOLEAN

Slots == 0..(MaxUser - 1)
PageNums == -1..MaxPage
Keys == (Journals \cup {NoJournal}) \X PageNums

(***************************************************************************)
(* PAGED_COMM_xxx.  PAGED_COMM_MEM_OVERFLOW is never stored.               *)
(***************************************************************************)
Status == {"RAW", "OCCUPIED", "HOLDING", "REQUESTING", "ALLOCATED",
           "NON_EXIST", "MORE_THAN_ONE_WRITE", "CANNOT_RENAME_FROM_TEMP"}

PageCommMsg == [status : Status, journal : Journals \cup {NoJournal},
                is_writer : BOOLEAN, page_num : PageNums,
                last_page_num : PageNums]

(***************************************************************************)
(* What the engine knows about pages: the two count maps, the pages it     *)
(* holds mapped (fileAddrs), the page files on disk, and whether the temp  *)
(* page is mapped (also an entry of fileAddrs in the code).                *)
(***************************************************************************)
Book == [writers : [Keys -> Nat], readers : [Keys -> Nat],
         addrs : SUBSET Keys, files : SUBSET Keys, temp : BOOLEAN]

VARIABLES
    comm,             \* the comm file
    maxIdx,           \* largest slot ever given out
    clientJournals,   \* name -> registered handler (its hash_code)
    user_index_vec,   \* name -> slots of that client
    pidClient,        \* pid -> names registered from that process
    book,
    commIdx, commPc,  \* the comm thread: slot polled, place in the loop
    mutex,            \* which thread holds PageEngine's mutex
    exiting,          \* the name exit_client is removing
    exitLeft,         \* its slots the loop has still to visit
    toRemove,         \* PstPidCheck: clientsToRemove
    alive,            \* which client processes run
    up                \* the engine process runs

registry == <<clientJournals, user_index_vec, pidClient>>
exitVars == <<exiting, exitLeft, toRemove>>
commVars == <<commIdx, commPc>>
engineVars == <<comm, maxIdx, clientJournals, user_index_vec, pidClient, book,
                commIdx, commPc, mutex, exiting, exitLeft, toRemove,
                alive, up>>

-----------------------------------------------------------------------------
(* Pages *)

release_page_mapped(b, k, w) ==     \* variant: the last one leaves it mapped
    IF w THEN [b EXCEPT !.writers[k] = IF @ = 0 THEN 0 ELSE @ - 1]
         ELSE [b EXCEPT !.readers[k] = IF @ = 0 THEN 0 ELSE @ - 1]

(* One writer or reader fewer of page k; the last one unmaps it. *)
release_page(b, k, w) ==
    LET mine == IF w THEN b.writers[k] ELSE b.readers[k]
        other == IF w THEN b.readers[k] ELSE b.writers[k]
        less == IF w THEN [b EXCEPT !.writers[k] = @ - 1]
                     ELSE [b EXCEPT !.readers[k] = @ - 1]
    IN  CASE mine = 0               -> b
          [] mine = 1 /\ other = 0  -> [less EXCEPT !.addrs = @ \ {k}]
          [] OTHER                  -> less

(* The file of page k exists and is mapped; a missing one is made from the  *)
(* temp page when there is one.                                             *)
MapPage(b, k) ==
    [b EXCEPT !.addrs = @ \cup {k},
              !.files = @ \cup {k},
              !.temp = @ /\ k \in b.addrs \cup b.files]

initiate_page_shared(b, k, w) ==    \* variant: a second writer is let in
    IF k \notin b.addrs \cup b.files /\ ~w
    THEN [book |-> b, status |-> "NON_EXIST"]
    ELSE [book |-> IF w THEN [MapPage(b, k) EXCEPT !.writers[k] = 1]
                        ELSE [MapPage(b, k) EXCEPT !.readers[k] = @ + 1],
          status |-> "ALLOCATED"]

initiate_page(b, k, w) ==
    LET missing == k \notin b.addrs \cup b.files
        m == MapPage(b, k)
    IN  IF missing /\ ~w
        THEN [book |-> b, status |-> "NON_EXIST"]
        ELSE IF missing /\ b.temp /\ k[1] \in Foreign
        THEN [book |-> b, status |-> "CANNOT_RENAME_FROM_TEMP"]
        ELSE IF w /\ b.writers[k] > 0
        THEN [book |-> m, status |-> "MORE_THAN_ONE_WRITE"]
        ELSE [book |-> IF w THEN [m EXCEPT !.writers[k] = 1]
                            ELSE [m EXCEPT !.readers[k] = @ + 1],
              status |-> "ALLOCATED"]

-----------------------------------------------------------------------------
(* PageEngine::start zeroes the comm file; a new process knows no client    *)
(* and no page, while page files and client processes are still there.      *)
ZeroMsg == [status |-> "RAW", journal |-> NoJournal, is_writer |-> FALSE,
            page_num |-> 0, last_page_num |-> 0]
EmptyBook(files) ==
    [writers |-> [k \in Keys |-> 0], readers |-> [k \in Keys |-> 0],
     addrs |-> {}, files |-> files, temp |-> FALSE]

Init ==
    /\ comm = [s \in Slots |-> ZeroMsg]
    /\ maxIdx = 0
    /\ clientJournals = [n \in Names |-> NoClient]
    /\ user_index_vec = [n \in Names |-> {}]
    /\ pidClient = [p \in Pids |-> {}]
    /\ book = EmptyBook(OnDisk)
    /\ commIdx = 0
    /\ commPc = "scan"
    /\ mutex = "free"
    /\ exiting = NoClient
    /\ exitLeft = {}
    /\ toRemove = {}
    /\ alive = [p \in Pids |-> TRUE]
    /\ up = TRUE

(* The engine process ends, by a signal or a crash, whatever it was doing. *)
EngineDies ==
    /\ Outages
    /\ up
    /\ up' = FALSE
    /\ UNCHANGED <<comm, maxIdx, registry, book, commVars, mutex, exitVars, alive>>

(* A new process has a fresh PageEngine object. *)
NewEngine ==
    /\ maxIdx' = 0
    /\ clientJournals' = [n \in Names |-> NoClient]
    /\ user_index_vec' = [n \in Names |-> {}]
    /\ pidClient' = [p \in Pids |-> {}]
    /\ commIdx' = 0 /\ commPc' = "scan"
    /\ mutex' = "free"
    /\ exiting' = NoClient /\ exitLeft' = {} /\ toRemove' = {}

startSameObject ==      \* variant: start is called again on the old object
    /\ Outages
    /\ ~up
    /\ comm' = [s \in Slots |-> ZeroMsg]
    /\ up' = TRUE
    /\ UNCHANGED <<maxIdx, registry, book, commVars, mutex, exitVars, alive>>

startKeepsCounts ==     \* variant: the counts outlive the mapped pages
    /\ Outages
    /\ ~up
    /\ comm' = [s \in Slots |-> ZeroMsg]
    /\ NewEngine
    /\ book' = [book EXCEPT !.addrs = {}]
    /\ up' = TRUE
    /\ UNCHANGED alive

start ==
    /\ Outages
    /\ ~up
    /\ comm' = [s \in Slots |-> ZeroMsg]
    /\ NewEngine
    /\ book' = EmptyBook(book.files)
    /\ up' = TRUE
    /\ UNCHANGED alive

-----------------------------------------------------------------------------
(***************************************************************************)
(* The socket thread.  process_msg ends by writing the answer; if the      *)
(* requesting process has died meanwhile the write throws, nothing catches *)
(* it, and the engine process terminates.                                  *)
(***************************************************************************)
Reply(h) == up' = alive[Pid[h]]

reg_client_again(h) ==  \* variant: a name that is in use is taken over
    /\ up
    /\ mutex = "free"
    /\ clientJournals' = [clientJournals EXCEPT ![Name[h]] = h]
    /\ user_index_vec' = [user_index_vec EXCEPT ![Name[h]] = {}]
    /\ pidClient' = [pidClient EXCEPT ![Pid[h]] = @ \cup {Name[h]}]
    /\ Reply(h)
    /\ UNCHANGED <<comm, maxIdx, book, commVars, mutex, exitVars, alive>>

reg_client(h) ==
    /\ up
    /\ mutex = "free"
    /\ IF clientJournals[Name[h]] = NoClient
       THEN /\ clientJournals' = [clientJournals EXCEPT ![Name[h]] = h]
            /\ user_index_vec' = [user_index_vec EXCEPT ![Name[h]] = {}]
            /\ pidClient' = [pidClient EXCEPT ![Pid[h]] = @ \cup {Name[h]}]
       ELSE UNCHANGED registry
    /\ Reply(h)
    /\ UNCHANGED <<comm, maxIdx, book, commVars, mutex, exitVars, alive>>

RawSlots == {s \in Slots : comm[s].status = "RAW"}
FirstRaw(s) == s \in RawSlots /\ \A t \in RawSlots : s <= t

(* The slot is taken before the client is looked up, so it is lost when the *)
(* name is unknown.                                                         *)
reg_journal_short(h) == \* variant: maxIdx is not raised
    /\ up
    /\ mutex = "free"
    /\ \E s \in Slots :
         /\ FirstRaw(s)
         /\ comm' = [comm EXCEPT ![s].status = "OCCUPIED",
                                 ![s].last_page_num = 0]
         /\ user_index_vec' = [user_index_vec EXCEPT ![Name[h]] = @ \cup {s}]
    /\ Reply(h)
    /\ UNCHANGED <<maxIdx, clientJournals, pidClient, book, commVars, mutex,
                   exitVars, alive>>

reg_journal(h) ==
    /\ up
    /\ mutex = "free"
    /\ \/ /\ RawSlots = {}
          /\ UNCHANGED <<comm, maxIdx, user_index_vec>>
       \/ \E s \in Slots :
            /\ FirstRaw(s)
            /\ maxIdx' = IF s > maxIdx THEN s ELSE maxIdx
            /\ comm' = [comm EXCEPT ![s].status = "OCCUPIED",
                                    ![s].last_page_num = 0]
            /\ IF clientJournals[Name[h]] # NoClient
               THEN user_index_vec' =
                      [user_index_vec EXCEPT ![Name[h]] = @ \cup {s}]
               ELSE UNCHANGED user_index_vec
    /\ Reply(h)
    /\ UNCHANGED <<clientJournals, pidClient, book, commVars, mutex, exitVars,
                   alive>>

(***************************************************************************)
(* exit_client: the head of the function, one iteration of its loop, and   *)
(* its tail.  The caller holds the mutex throughout.                       *)
(***************************************************************************)
ExitStart(n) ==
    /\ exiting' = n
    /\ exitLeft' = user_index_vec[n]

ExitSlotAll(s) ==       \* variant: the page is released whatever the status
    /\ up
    /\ exiting # NoClient
    /\ s \in exitLeft
    /\ book' = release_page(book, <<comm[s].journal, comm[s].page_num>>,
                            comm[s].is_writer)
    /\ comm' = [comm EXCEPT ![s].status = "RAW"]
    /\ exitLeft' = exitLeft \ {s}
    /\ UNCHANGED <<maxIdx, registry, commVars, mutex, exiting, toRemove, alive,
                   up>>

ExitSlot(s) ==
    /\ up
    /\ exiting # NoClient
    /\ s \in exitLeft
    /\ book' = IF comm[s].status = "ALLOCATED"
               THEN release_page(book, <<comm[s].journal, comm[s].page_num>>,
                                 comm[s].is_writer)
               ELSE book
    /\ comm' = [comm EXCEPT ![s].status = "RAW"]
    /\ exitLeft' = exitLeft \ {s}
    /\ UNCHANGED <<maxIdx, registry, commVars, mutex, exiting, toRemove, alive,
                   up>>

ExitFinishKeepsPid ==   \* variant: the name stays in pidClient
    /\ exiting # NoClient
    /\ exitLeft = {}
    /\ clientJournals' = [clientJournals EXCEPT ![exiting] = NoClient]
    /\ user_index_vec' = [user_index_vec EXCEPT ![exiting] = {}]
    /\ exiting' = NoClient
    /\ UNCHANGED <<comm, maxIdx, book, pidClient, commVars, exitLeft, alive>>

ExitFinish ==
    /\ exiting # NoClient
    /\ exitLeft = {}
    /\ pidClient' = [pidClient EXCEPT ![Pid[clientJournals[exiting]]] =
                                        @ \ {exiting}]
    /\ clientJournals' = [clientJournals EXCEPT ![exiting] = NoClient]
    /\ user_index_vec' = [user_index_vec EXCEPT ![exiting] = {}]
    /\ exiting' = NoClient
    /\ UNCHANGED <<comm, maxIdx, book, commVars, exitLeft, alive>>

(* A client says good-bye; its hash must be the one of the registration. *)
exit_client(h) ==
    /\ up
    /\ mutex = "free"
    /\ IF clientJournals[Name[h]] = h
       THEN /\ ExitStart(Name[h])
            /\ mutex' = "socket"
            /\ UNCHANGED up
       ELSE /\ Reply(h)
            /\ UNCHANGED <<exiting, exitLeft, mutex>>
    /\ UNCHANGED <<comm, maxIdx, registry, book, commVars, toRemove, alive>>

SocketExitEnd ==
    /\ up
    /\ mutex = "socket"
    /\ ExitFinish
    /\ mutex' = "free"
    /\ Reply(clientJournals[exiting])
    /\ UNCHANGED toRemove

-----------------------------------------------------------------------------
(***************************************************************************)
(* The task thread: one round runs under the mutex.  PstPidCheck first     *)
(* collects the clients of dead processes and then removes them one by     *)
(* one; PstTempPage prepares the temp page.                                *)
(***************************************************************************)
TaskStartAll ==         \* variant: no test whether the process runs
    /\ up
    /\ mutex = "free"
    /\ mutex' = "task"
    /\ toRemove' = UNION {pidClient[p] : p \in Pids}
    /\ UNCHANGED <<comm, maxIdx, registry, book, commVars, exiting, exitLeft,
                   alive, up>>

TaskStartNone ==        \* variant: dead processes are not noticed
    /\ up
    /\ mutex = "free"
    /\ mutex' = "task"
    /\ toRemove' = {}
    /\ UNCHANGED <<comm, maxIdx, registry, book, commVars, exiting, exitLeft,
                   alive, up>>

TaskStart ==
    /\ up
    /\ mutex = "free"
    /\ mutex' = "task"
    /\ toRemove' = UNION {pidClient[p] : p \in {q \in Pids : ~alive[q]}}
    /\ UNCHANGED <<comm, maxIdx, registry, book, commVars, exiting, exitLeft,
                   alive, up>>

(* exit_client(name, 0, false) returns at once if the name is gone. *)
TaskExit(n) ==
    /\ up
    /\ mutex = "task"
    /\ exiting = NoClient
    /\ n \in toRemove
    /\ toRemove' = toRemove \ {n}
    /\ IF clientJournals[n] # NoClient THEN ExitStart(n)
                                       ELSE UNCHANGED <<exiting, exitLeft>>
    /\ UNCHANGED <<comm, maxIdx, registry, book, commVars, mutex, alive, up>>

TaskExitEnd ==
    /\ up
    /\ mutex = "task"
    /\ ExitFinish
    /\ UNCHANGED <<mutex, toRemove, up>>

TaskEndEarly ==         \* variant: the mutex is given up between two exits
    /\ up
    /\ mutex = "task"
    /\ exiting = NoClient
    /\ book' = [book EXCEPT !.temp = TRUE]
    /\ mutex' = "free"
    /\ UNCHANGED <<comm, maxIdx, registry, commVars, exitVars, alive, up>>

TaskEnd ==
    /\ up
    /\ mutex = "task"
    /\ exiting = NoClient
    /\ toRemove = {}
    /\ book' = [book EXCEPT !.temp = TRUE]
    /\ mutex' = "free"
    /\ UNCHANGED <<comm, maxIdx, registry, commVars, exitVars, alive, up>>

-----------------------------------------------------------------------------
(***************************************************************************)
(* The comm thread.  CommScan is the unlocked read of a status byte;       *)
(* CommServe takes the mutex and serves the slot without looking at its    *)
(* status again, up to the store of the answer; CommDone is the store of   *)
(* last_page_num that follows it, the unlock, and the move to the next     *)
(* slot.  The client is released by the answer, before CommDone.           *)
(***************************************************************************)
NextIdxShort ==         \* variant: the slot maxIdx is not polled
    (commIdx + 1) % (IF maxIdx = 0 THEN 1 ELSE maxIdx)

NextIdx == (commIdx + 1) % (maxIdx + 1)

CommScan ==
    /\ up
    /\ commPc = "scan"
    /\ IF comm[commIdx].status = "REQUESTING"
       THEN commPc' = "serve" /\ UNCHANGED commIdx
       ELSE commIdx' = NextIdx /\ UNCHANGED commPc
    /\ UNCHANGED <<comm, maxIdx, registry, book, mutex, exitVars, alive, up>>

(* Serving request m: the page served last is given back first. *)
ServeRequest(b, m) ==
    LET b1 == IF m.last_page_num > 0 /\ m.last_page_num # m.page_num
              THEN release_page(b, <<m.journal, m.last_page_num>>, m.is_writer)
              ELSE b
    IN  initiate_page(b1, <<m.journal, m.page_num>>, m.is_writer)

CommServe ==
    /\ up
    /\ commPc = "serve"
    /\ mutex = "free"
    /\ LET r == ServeRequest(book, comm[commIdx])
       IN  /\ book' = r.book
           /\ comm' = [comm EXCEPT ![commIdx].status = r.status]
    /\ mutex' = "comm"
    /\ commPc' = "done"
    /\ UNCHANGED <<maxIdx, registry, commIdx, exitVars, alive, up>>

CommDone ==
    /\ up
    /\ commPc = "done"
    /\ comm' = [comm EXCEPT ![commIdx].last_page_num = comm[commIdx].page_num]
    /\ mutex' = "free"
    /\ commPc' = "scan"
    /\ commIdx' = NextIdx
    /\ UNCHANGED <<maxIdx, registry, book, exitVars, alive, up>>

-----------------------------------------------------------------------------
(***************************************************************************)
(* What client processes do to the shared memory, and their death.         *)
(***************************************************************************)
othersUnchanged == UNCHANGED <<maxIdx, registry, book, commVars, mutex,
                               exitVars, up>>

StoreJournal(s, j, w) ==
    /\ comm' = [comm EXCEPT ![s].journal = j, ![s].is_writer = w]
    /\ othersUnchanged /\ UNCHANGED alive

StorePageNum(s, p) ==
    /\ comm' = [comm EXCEPT ![s].page_num = p]
    /\ othersUnchanged /\ UNCHANGED alive

StoreStatus(s, st) ==
    /\ st \in {"HOLDING", "REQUESTING"}
    /\ comm' = [comm EXCEPT ![s].status = st]
    /\ othersUnchanged /\ UNCHANGED alive

Kill(p) ==
    /\ alive[p]
    /\ alive' = [alive EXCEPT ![p] = FALSE]
    /\ othersUnchanged /\ UNCHANGED comm

-----------------------------------------------------------------------------
(* The steps of the engine's threads that no client waits for. *)
TaskStep ==
    \/ \E n \in Names : TaskExit(n)
    \/ TaskExitEnd \/ TaskStart \/ TaskEnd

CommStep == CommScan \/ CommServe \/ CommDone

SocketRequest(h) == reg_client(h) \/ reg_journal(h) \/ exit_client(h)

ClientStore(s) ==
    \/ \E j \in Journals, w \in BOOLEAN : StoreJournal(s, j, w)
    \/ \E p \in PageNums : StorePageNum(s, p)
    \/ \E st \in {"HOLDING", "REQUESTING"} : StoreStatus(s, st)

Next ==
    \/ \E s \in Slots : ExitSlot(s)
    \/ SocketExitEnd
    \/ TaskStep
    \/ CommStep
    \/ \E h \in Handlers : SocketRequest(h)
    \/ \E s \in Slots : ClientStore(s)
    \/ \E p \in Pids : Kill(p)
    \/ EngineDies \/ start

Spec == Init /\ [][Next]_engineVars

-----------------------------------------------------------------------------
(* Every variable of the engine keeps its type. *)
TypeOK ==
    /\ comm \in [Slots -> PageCommMsg]
    /\ maxIdx \in Slots
    /\ clientJournals \in [Names -> Handlers \cup {NoClient}]
    /\ user_index_vec \in [Names -> SUBSET Slots]
    /\ pidClient \in [Pids -> SUBSET Names]
    /\ book \in Book
    /\ commIdx \in Slots
    /\ commPc \in {"scan", "serve", "done"}
    /\ mutex \in {"free", "socket", "task", "comm"}
    /\ exiting \in Names \cup {NoClient}
    /\ exitLeft \in SUBSET Slots
    /\ toRemove \in SUBSET Names
    /\ alive \in [Pids -> BOOLEAN]
    /\ up \in BOOLEAN

(* The page book (release_page, initiate_page): a page is mapped by the     *)
(* engine exactly while some count entry for it exists, no page ever has    *)
(* two writers, and only pages that are on disk are mapped.                 *)
Held(b, k) == b.writers[k] > 0 \/ b.readers[k] > 0
BookOK ==
    /\ \A k \in Keys : k \in book.addrs <=> Held(book, k)
    /\ \A k \in Keys : book.writers[k] <= 1
    /\ book.addrs \subseteq book.files

(* The registry (reg_client, exit_client, PstPidCheck): clientJournals and  *)
(* pidClient, which are updated separately, always describe the same        *)
(* registrations, and a registration is filed under its handler's name.     *)
RegistryOK ==
    /\ \A p \in Pids : \A n \in Names :
          n \in pidClient[p] <=> /\ clientJournals[n] # NoClient
                                 /\ Pid[clientJournals[n]] = p
    /\ \A n \in Names :
          clientJournals[n] # NoClient => Name[clientJournals[n]] = n

(* Slot allocation (reg_journal, exit_client): no slot is owned by two      *)
(* clients, only registered clients own slots, an owned slot is not offered *)
(* for allocation until exit_client has visited it, and every owned slot is *)
(* one the comm thread polls.                                               *)
Owned(n, s) == s \in user_index_vec[n]
Visited(n, s) == n = exiting /\ s \notin exitLeft
SlotsOK ==
    /\ \A n1, n2 \in Names : \A s \in Slots :
          Owned(n1, s) /\ Owned(n2, s) => n1 = n2
    /\ \A n \in Names : clientJournals[n] = NoClient => user_index_vec[n] = {}
    /\ \A n \in Names : \A s \in Slots :
          Owned(n, s) /\ ~Visited(n, s) => comm[s].status # "RAW"
    /\ \A n \in Names : \A s \in Slots : Owned(n, s) => s <= maxIdx

(* The mutex: the loop of exit_client only runs for a registered client,    *)
(* inside a critical section of the socket or the task thread, and the comm *)
(* thread is past its answer exactly when it holds the mutex.               *)
LockOK ==
    /\ exiting # NoClient => /\ mutex \in {"socket", "task"}
                             /\ clientJournals[exiting] # NoClient
                             /\ exitLeft \subseteq user_index_vec[exiting]
    /\ exiting = NoClient => exitLeft = {} /\ mutex # "socket"
    /\ toRemove # {} => mutex = "task"
    /\ commPc = "done" <=> mutex = "comm"
    /\ commIdx <= maxIdx

EngineInv == TypeOK /\ BookOK /\ RegistryOK /\ SlotsOK /\ LockOK
=============================================================================
