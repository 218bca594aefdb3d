---------------------------- MODULE PageService -----------------------------
(***************************************************************************)
(* The page engine together with the clients of the library: PageProvider  *)
(* (register_client, register_journal, getPage, exit_client), Journal      *)
(* (seekTime, locateFrame, loadNextPage, expire), JournalWriter and        *)
(* JournalReader.                                                          *)
(*                                                                         *)
(* A handler is single threaded; ctl[h].pc is where it is, one value for   *)
(* every point at which another thread or process can observe the shared   *)
(* memory differently.  A killed process simply takes no more steps: its   *)
(* request may still wait in the engine's socket, and its slots keep the   *)
(* values they had.                                                        *)
(*                                                                         *)
(* Of a page's content only what drives the control is kept: header[k] is  *)
(* "raw" before Page::load by a writer has initialised it, "open" while    *)
(* frames fit, "full" when the headroom is used up, and "closed" once      *)
(* finishPage has stored PAGE_END.                                         *)
(***************************************************************************)
EXTENDS PageEngine

CONSTANTS
    Writers,    \* handlers that are JournalWriters; the others are readers
    Wants,      \* Wants[h]: the journals h adds
    Seeks,      \* Seeks[h]: how many seekTime / expire calls h makes
    Mortal,     \* processes that may be killed
    MaxCount    \* bound on the reader count of a page

ASSUME ServiceAssumption ==
    /\ Writers \subseteq Handlers
    /\ Wants \in [Handlers -> SUBSET Journals]
    /\ Seeks \in [Handlers -> Nat]
    /\ Mortal \subseteq Pids
    /\ MaxCount \in Nat

Pages == 1..MaxPage
NoSlot == -1
NoPage == 0     \* curPage is a null pointer

VARIABLES
    ctl,        \* handler -> [pc, j, op, target]: the call it is executing
    jr,         \* handler -> journal -> [slot, page, expired]: its Journals
    calls,      \* handler -> seekTime / expire calls still to make
    header      \* content of the page files

clientVars == <<ctl, jr, calls, header>>
vars == <<engineVars, clientVars>>

PcValues == {"new", "regclient", "ready", "regjournal", "check", "fill",
             "hold", "scan", "post", "send", "spin", "finish", "locate",
             "bye", "leaving", "gone"}

Running(h) == alive[Pid[h]]
At(h, where) == Running(h) /\ ctl[h].pc = where
Slot(h) == jr[h][ctl[h].j].slot
CurPage(h) == jr[h][ctl[h].j].page
GoTo(h, where) == ctl' = [ctl EXCEPT ![h].pc = where]

PageFiles(j) == {p \in Pages : <<j, p>> \in book.files}
LastPage(j) ==      \* as a set of one element
    IF PageFiles(j) = {} THEN {1}
    ELSE {p \in PageFiles(j) : \A q \in PageFiles(j) : q <= p}

ServiceInit ==
    /\ Init
    /\ ctl = [h \in Handlers |->
                [pc |-> "new", j |-> NoJournal, op |-> "none", target |-> NoPage]]
    /\ jr = [h \in Handlers |-> [j \in Journals |->
                [slot |-> NoSlot, page |-> NoPage, expired |-> FALSE]]]
    /\ calls = Seeks
    /\ header = [k \in Journals \X Pages |->
                   CASE k \notin OnDisk             -> "raw"
                     [] <<k[1], k[2] + 1>> \in OnDisk -> "closed"
                     [] OTHER                       -> "open"]

-----------------------------------------------------------------------------
(* PageProvider::register_client and exit_client: a request is sent, the    *)
(* socket thread serves it.                                                 *)

register_client(h) ==
    /\ At(h, "new")
    /\ GoTo(h, "regclient")
    /\ UNCHANGED <<engineVars, jr, calls, header>>

(* A refused client throws in its constructor. *)
ServeClient(h) ==
    /\ ctl[h].pc = "regclient"
    /\ reg_client(h)
    /\ GoTo(h, IF clientJournals[Name[h]] = NoClient THEN "ready" ELSE "gone")
    /\ UNCHANGED <<jr, calls, header>>

(* ~JournalHandler. *)
exit(h) ==
    /\ At(h, "ready")
    /\ GoTo(h, "bye")
    /\ UNCHANGED <<engineVars, jr, calls, header>>

ServeExit(h) ==
    /\ ctl[h].pc = "bye"
    /\ exit_client(h)
    /\ GoTo(h, IF clientJournals[Name[h]] = h THEN "leaving" ELSE "gone")
    /\ UNCHANGED <<jr, calls, header>>

ServeExitEnd ==
    /\ SocketExitEnd
    /\ GoTo(clientJournals[exiting], "gone")
    /\ UNCHANGED <<jr, calls, header>>

-----------------------------------------------------------------------------
(***************************************************************************)
(* JournalHandler::addJournal -> PageProvider::register_journal: a slot is *)
(* granted, its status is checked, its fields are filled, then it is       *)
(* declared HOLDING.  A failure throws; the handler is destroyed.          *)
(***************************************************************************)
addJournal(h, j) ==
    /\ At(h, "ready")
    /\ j \in Wants[h]
    /\ jr[h][j].slot = NoSlot
    /\ ctl' = [ctl EXCEPT ![h].pc = "regjournal", ![h].j = j]
    /\ UNCHANGED <<engineVars, jr, calls, header>>

ServeJournal(h) ==
    /\ ctl[h].pc = "regjournal"
    /\ reg_journal(h)
    /\ IF RawSlots # {} /\ clientJournals[Name[h]] # NoClient
       THEN /\ jr' = [jr EXCEPT ![h][ctl[h].j].slot =
                                   CHOOSE s \in Slots : FirstRaw(s)]
            /\ GoTo(h, "check")
       ELSE GoTo(h, "bye") /\ UNCHANGED jr
    /\ UNCHANGED <<calls, header>>

CheckSlot(h) ==
    /\ At(h, "check")
    /\ GoTo(h, IF comm[Slot(h)].status = "OCCUPIED" THEN "fill" ELSE "bye")
    /\ UNCHANGED <<engineVars, jr, calls, header>>

FillSlotClears(h) ==    \* variant: the whole message is cleared first
    /\ At(h, "fill")
    /\ comm' = [comm EXCEPT ![Slot(h)] =
                 [status |-> "RAW", journal |-> ctl[h].j,
                  is_writer |-> h \in Writers, page_num |-> 0,
                  last_page_num |-> 0]]
    /\ othersUnchanged /\ UNCHANGED alive
    /\ GoTo(h, "hold")
    /\ UNCHANGED <<jr, calls, header>>

FillSlot(h) ==
    /\ At(h, "fill")
    /\ StoreJournal(Slot(h), ctl[h].j, h \in Writers)
    /\ GoTo(h, "hold")
    /\ UNCHANGED <<jr, calls, header>>

(* JournalWriter::init goes on to seekEnd. *)
HoldSlot(h) ==
    /\ At(h, "hold")
    /\ StoreStatus(Slot(h), "HOLDING")
    /\ IF h \in Writers
       THEN ctl' = [ctl EXCEPT ![h].pc = "scan", ![h].op = "seek"]
       ELSE GoTo(h, "ready")
    /\ UNCHANGED <<jr, calls, header>>

-----------------------------------------------------------------------------
(* Journal::seekTime: the directory is scanned, then the page asked for. *)

seekTime(h, j) ==
    /\ At(h, "ready")
    /\ calls[h] > 0
    /\ jr[h][j].slot # NoSlot
    /\ ctl' = [ctl EXCEPT ![h].pc = "scan", ![h].j = j, ![h].op = "seek"]
    /\ calls' = [calls EXCEPT ![h] = @ - 1]
    /\ UNCHANGED <<engineVars, jr, header>>

(* A writer seeks TIME_TO_LAST.  A reader may seek the first page, the last *)
(* one, or the one GetPageNumWithTime picks; all default to page 1.         *)
GetPageNums(h) ==
    /\ At(h, "scan")
    /\ LET j == ctl[h].j
       IN  \E p \in IF h \in Writers THEN LastPage(j) ELSE PageFiles(j) \cup {1} :
             ctl' = [ctl EXCEPT ![h].pc = "post", ![h].target = p]
    /\ UNCHANGED <<engineVars, jr, calls, header>>

(* Journal::expire, readers only. *)
expire_stale(h, j) ==   \* variant: the page to ask for is left unset
    /\ At(h, "ready")
    /\ h \notin Writers
    /\ calls[h] > 0
    /\ jr[h][j].slot # NoSlot
    /\ ~jr[h][j].expired
    /\ jr' = [jr EXCEPT ![h][j].expired = TRUE, ![h][j].page = -1]
    /\ ctl' = [ctl EXCEPT ![h].pc = "post", ![h].j = j, ![h].op = "expire"]
    /\ calls' = [calls EXCEPT ![h] = @ - 1]
    /\ UNCHANGED <<engineVars, header>>

expire(h, j) ==
    /\ At(h, "ready")
    /\ h \notin Writers
    /\ calls[h] > 0
    /\ jr[h][j].slot # NoSlot
    /\ ~jr[h][j].expired
    /\ jr' = [jr EXCEPT ![h][j].expired = TRUE, ![h][j].page = NoPage]
    /\ ctl' = [ctl EXCEPT ![h] = [pc |-> "post", j |-> j, op |-> "expire",
                                  target |-> -1]]
    /\ calls' = [calls EXCEPT ![h] = @ - 1]
    /\ UNCHANGED <<engineVars, header>>

(* Journal::locateFrame of a reader: loadNextPage at the page end, or from  *)
(* page 1 when there is no current page.                                    *)
ReaderLocate(h, j) ==
    /\ At(h, "ready")
    /\ h \notin Writers
    /\ jr[h][j].slot # NoSlot
    /\ ~jr[h][j].expired
    /\ jr[h][j].page # NoPage => header[<<j, jr[h][j].page>>] = "closed"
    /\ ctl' = [ctl EXCEPT ![h] = [pc |-> "post", j |-> j, op |-> "next",
                                  target |-> jr[h][j].page + 1]]
    /\ UNCHANGED <<engineVars, jr, calls, header>>

(* Journal::locateFrame of a writer: pages without room are left behind. *)
WriterTurnCloses(h, where) ==   \* variant: the old page is closed first
    /\ At(h, where)
    /\ h \in Writers
    /\ ctl[h].j # NoJournal
    /\ CurPage(h) # NoPage
    /\ header[<<ctl[h].j, CurPage(h)>>] \in {"full", "closed"}
    /\ CurPage(h) < MaxPage
    /\ header' = [header EXCEPT ![<<ctl[h].j, CurPage(h)>>] = "closed"]
    /\ ctl' = [ctl EXCEPT ![h].pc = "post", ![h].op = "next",
                          ![h].target = CurPage(h) + 1]
    /\ UNCHANGED <<engineVars, jr, calls>>

WriterTurn(h, where) ==
    /\ At(h, where)
    /\ h \in Writers
    /\ ctl[h].j # NoJournal
    /\ CurPage(h) # NoPage
    /\ header[<<ctl[h].j, CurPage(h)>>] \in {"full", "closed"}
    /\ CurPage(h) < MaxPage
    /\ ctl' = [ctl EXCEPT ![h].pc = "post", ![h].op = "next",
                          ![h].target = CurPage(h) + 1]
    /\ UNCHANGED <<engineVars, jr, calls, header>>

LocateEnd(h) ==
    /\ At(h, "locate")
    /\ CurPage(h) # NoPage => header[<<ctl[h].j, CurPage(h)>>] = "open"
    /\ GoTo(h, "ready")
    /\ UNCHANGED <<engineVars, jr, calls, header>>

(* JournalWriter::write_frame, when the frame uses up the page's headroom. *)
CanAppend(h) ==
    /\ At(h, "ready")
    /\ h \in Writers
    /\ ctl[h].j # NoJournal
    /\ CurPage(h) # NoPage
    /\ header[<<ctl[h].j, CurPage(h)>>] = "open"

write_frame(h) ==
    /\ CanAppend(h)
    /\ CurPage(h) < MaxPage
    /\ header' = [header EXCEPT ![<<ctl[h].j, CurPage(h)>>] = "full"]
    /\ UNCHANGED <<engineVars, ctl, jr, calls>>

(* Without a page locateFrame yields null, and the frame is written there. *)
write_null(h) ==
    /\ At(h, "ready")
    /\ h \in Writers
    /\ ctl[h].j # NoJournal
    /\ CurPage(h) = NoPage
    /\ Kill(Pid[h])
    /\ UNCHANGED clientVars

-----------------------------------------------------------------------------
(***************************************************************************)
(* PageProvider::getPage: two stores, a spin on the status, then           *)
(* Page::load, which initialises a raw page for a writer and returns null  *)
(* to a reader.                                                            *)
(***************************************************************************)
PostPageNum(h) ==
    /\ At(h, "post")
    /\ h \notin Writers => book.readers[<<ctl[h].j, ctl[h].target>>] < MaxCount
    /\ StorePageNum(Slot(h), ctl[h].target)
    /\ GoTo(h, "send")
    /\ UNCHANGED <<jr, calls, header>>

PostRequest(h) ==
    /\ At(h, "send")
    /\ StoreStatus(Slot(h), "REQUESTING")
    /\ GoTo(h, "spin")
    /\ UNCHANGED <<jr, calls, header>>

Answered(h) == At(h, "spin") /\ comm[Slot(h)].status # "REQUESTING"

(* The page getPage returns: null unless allocated and readable. *)
LoadedPage(h) ==
    IF /\ comm[Slot(h)].status = "ALLOCATED"
       /\ ctl[h].target \in Pages
       /\ h \in Writers \/ header[<<ctl[h].j, ctl[h].target>>] # "raw"
    THEN ctl[h].target ELSE NoPage

(* MORE_THAN_ONE_WRITE is thrown; the handler is destroyed. *)
GetPageThrows(h) ==
    /\ Answered(h)
    /\ comm[Slot(h)].status = "MORE_THAN_ONE_WRITE"
    /\ GoTo(h, "bye")
    /\ UNCHANGED <<engineVars, jr, calls, header>>

InitHeader(h) ==
    header' = IF h \in Writers /\ LoadedPage(h) # NoPage
              THEN [header EXCEPT ![<<ctl[h].j, LoadedPage(h)>>] =
                                    IF @ = "raw" THEN "open" ELSE @]
              ELSE header

SeekReturns(h) ==
    /\ Answered(h) /\ ctl[h].op = "seek"
    /\ comm[Slot(h)].status # "MORE_THAN_ONE_WRITE"
    /\ InitHeader(h)
    /\ jr' = [jr EXCEPT ![h][ctl[h].j].page = LoadedPage(h),
                        ![h][ctl[h].j].expired = LoadedPage(h) = NoPage]
    /\ GoTo(h, IF h \in Writers THEN "locate" ELSE "ready")
    /\ UNCHANGED <<engineVars, calls>>

ExpireReturns(h) ==
    /\ Answered(h) /\ ctl[h].op = "expire"
    /\ GoTo(h, "ready")
    /\ UNCHANGED <<engineVars, jr, calls, header>>

ReaderNextReturns(h) ==
    /\ Answered(h) /\ ctl[h].op = "next"
    /\ h \notin Writers
    /\ jr' = [jr EXCEPT ![h][ctl[h].j].page = LoadedPage(h)]
    /\ GoTo(h, "ready")
    /\ UNCHANGED <<engineVars, calls, header>>

(* loadNextPage of a writer has the new page but not yet closed the old one. *)
WriterNextReturns(h) ==
    /\ Answered(h) /\ ctl[h].op = "next"
    /\ comm[Slot(h)].status # "MORE_THAN_ONE_WRITE"
    /\ h \in Writers
    /\ InitHeader(h)
    /\ ctl' = [ctl EXCEPT ![h].pc = "finish", ![h].target = LoadedPage(h)]
    /\ UNCHANGED <<engineVars, jr, calls>>

(* Page::finishPage of the old page; without a new one the writer then      *)
(* dereferences a null page and its process dies.                           *)
finishPage(h) ==
    /\ At(h, "finish")
    /\ header' = [header EXCEPT ![<<ctl[h].j, CurPage(h)>>] = "closed"]
    /\ jr' = [jr EXCEPT ![h][ctl[h].j].page = ctl[h].target]
    /\ GoTo(h, "locate")
    /\ IF ctl[h].target = NoPage THEN Kill(Pid[h]) ELSE UNCHANGED engineVars
    /\ UNCHANGED calls

-----------------------------------------------------------------------------
(***************************************************************************)
(* A request while the engine is down: connect throws, or the connection   *)
(* breaks before the answer, and getSocketRsp returns with the answer      *)
(* buffer as it was, uninitialised.  register_client and register_journal  *)
(* then throw, or register_journal takes what it finds for a slot;         *)
(* exit_client ignores the answer, and what connect throws ends the        *)
(* process, because a destructor calls it.                                 *)
(***************************************************************************)
ClientUnanswered(h) ==
    /\ ~up
    /\ ctl[h].pc \in {"regclient", "bye", "leaving"}
    /\ GoTo(h, "gone")
    /\ \/ UNCHANGED engineVars
       \/ ctl[h].pc = "bye" /\ Kill(Pid[h])
    /\ UNCHANGED <<jr, calls, header>>

JournalUnanswered(h) ==
    /\ ~up
    /\ ctl[h].pc = "regjournal"
    /\ \/ GoTo(h, "bye") /\ UNCHANGED jr
       \/ \E s \in Slots : /\ jr' = [jr EXCEPT ![h][ctl[h].j].slot = s]
                            /\ GoTo(h, "check")
    /\ UNCHANGED <<engineVars, calls, header>>

(* A restarted engine makes a new socket: it never sees a request that was  *)
(* sent to the old one.                                                     *)
EngineStops == EngineDies /\ UNCHANGED clientVars
EngineRestarts ==
    /\ start
    /\ \A h \in Handlers :
         /\ ctl[h].pc \notin {"regclient", "regjournal", "leaving"}
         /\ ctl[h].pc = "bye" => Running(h)
    /\ UNCHANGED clientVars

-----------------------------------------------------------------------------
EngineExitSlot(s) == ExitSlot(s) /\ UNCHANGED clientVars
EngineTask == TaskStep /\ UNCHANGED clientVars
EngineComm == CommStep /\ UNCHANGED clientVars
KillProcess(p) == p \in Mortal /\ Kill(p) /\ UNCHANGED clientVars

SocketStep ==
    \/ \E h \in Handlers : ServeClient(h) \/ ServeJournal(h) \/ ServeExit(h)
    \/ ServeExitEnd

(* The steps a handler takes inside a call, and the calls it may make. *)
InCall(h) ==
    \/ CheckSlot(h) \/ FillSlot(h) \/ HoldSlot(h)
    \/ GetPageNums(h) \/ PostPageNum(h) \/ PostRequest(h)
    \/ GetPageThrows(h) \/ SeekReturns(h) \/ ExpireReturns(h)
    \/ ReaderNextReturns(h) \/ WriterNextReturns(h) \/ finishPage(h)
    \/ WriterTurn(h, "locate") \/ LocateEnd(h)

Call(h) ==
    \/ register_client(h) \/ exit(h) \/ write_frame(h) \/ write_null(h)
    \/ WriterTurn(h, "ready")
    \/ \E j \in Journals : \/ addJournal(h, j) \/ seekTime(h, j)
                           \/ expire(h, j) \/ ReaderLocate(h, j)

ServiceNext ==
    \/ \E s \in Slots : EngineExitSlot(s)
    \/ EngineTask
    \/ EngineComm
    \/ SocketStep
    \/ \E h \in Handlers : InCall(h) \/ Call(h)
    \/ \E h \in Handlers : ClientUnanswered(h) \/ JournalUnanswered(h)
    \/ \E p \in Pids : KillProcess(p)
    \/ EngineStops \/ EngineRestarts

ServiceSpec == ServiceInit /\ [][ServiceNext]_vars

(***************************************************************************)
(* Fairness.  Every thread of a running process is scheduled, so each is   *)
(* weakly fair; taking the mutex needs strong fairness, because another    *)
(* thread may hold it at any moment, although it always gives it back (the *)
(* task thread sleeps between its rounds, a client sends finitely many     *)
(* requests).  Calls are up to the application and get no fairness.        *)
(***************************************************************************)
Fairness ==
    /\ WF_vars(CommScan /\ UNCHANGED clientVars)
    /\ WF_vars(CommDone /\ UNCHANGED clientVars)
    /\ SF_vars(CommServe /\ UNCHANGED clientVars)
    /\ SF_vars(TaskStart /\ UNCHANGED clientVars)
    /\ WF_vars((TaskEnd \/ TaskExitEnd \/ \E n \in Names : TaskExit(n))
                 /\ UNCHANGED clientVars)
    /\ WF_vars(\E s \in Slots : EngineExitSlot(s))
    /\ WF_vars(ServeExitEnd)
    /\ \A h \in Handlers :
          /\ SF_vars(ServeClient(h) \/ ServeJournal(h) \/ ServeExit(h))
          /\ WF_vars(InCall(h))

FairSpec == ServiceSpec /\ Fairness

-----------------------------------------------------------------------------
(* Types of the client's variables, besides those of the engine. *)
ServiceTypeOK ==
    /\ TypeOK
    /\ ctl \in [Handlers -> [pc : PcValues, j : Journals \cup {NoJournal},
                             op : {"none", "seek", "next", "expire"},
                             target : PageNums]]
    /\ jr \in [Handlers -> [Journals ->
                 [slot : Slots \cup {NoSlot}, page : 0..MaxPage,
                  expired : BOOLEAN]]]
    /\ calls \in [Handlers -> Nat]
    /\ header \in [Journals \X Pages -> {"raw", "open", "full", "closed"}]

(* The library's clients touch the shared memory only as the environment of *)
(* the open engine does, so the service implements PageEngine's Spec and    *)
(* what is proved of the engine alone holds in the service.                 *)
ImplementsEngine == Spec

(* A process that runs and has been registered keeps its registration and   *)
(* the slots it was given, and no other running handler has one of them:    *)
(* exit_client and PstPidCheck only ever take slots from clients that are   *)
(* leaving or dead, and reg_journal never hands one out twice.              *)
Member(h) ==
    /\ Running(h)
    /\ ctl[h].pc \notin {"new", "regclient", "leaving", "gone"}
UsesSlot(h, s) == \E j \in Journals : jr[h][j].slot = s
SlotOwnership ==
    up => \A h \in Handlers : Member(h) =>
      /\ clientJournals[Name[h]] = h
      /\ \A s \in Slots : UsesSlot(h, s) =>
            /\ s \in user_index_vec[Name[h]]
            /\ \A g \in Handlers \ {h} : Member(g) => ~UsesSlot(g, s)

(* JournalWriter.h: "this journal cannot be linked by other writer".  Two   *)
(* running writers are never both about to store frames into the journal.   *)
OneAppender ==
    \A g, h \in Handlers :
      CanAppend(g) /\ CanAppend(h) /\ ctl[g].j = ctl[h].j => g = h

(* A writer that may store frames has the engine's writer entry for that    *)
(* very page, and its slot still says so: nothing that other clients do,    *)
(* or that is done for dead ones, takes the lock away from it.              *)
AppenderHoldsLock ==
    up => \A h \in Handlers : CanAppend(h) =>
      /\ book.writers[<<ctl[h].j, CurPage(h)>>] = 1
      /\ comm[Slot(h)].status = "ALLOCATED"
      /\ comm[Slot(h)].page_num = CurPage(h)

(* A reader that reaches the end of page p gets page p + 1 and nothing      *)
(* else while the engine runs: loadNextPage never yields null there, which  *)
(* would send the reader back to page 1 (Journal.cpp, loadNextPage).        *)
ReaderAdvances ==
    [][up => \A h \in Handlers \ Writers : \A j \in Journals :
         (ReaderNextReturns(h) /\ ctl[h].j = j /\ jr[h][j].page # NoPage)
            => jr'[h][j].page = jr[h][j].page + 1]_vars

(* Every page request is answered while the engine runs: a process that     *)
(* spins in getPage stops spinning, or dies, or the engine has gone down.   *)
RequestAnswered ==
    \A h \in Handlers :
      At(h, "spin") ~> ~At(h, "spin") \/ ~up

(* PstPidCheck: the registrations of a dead process are eventually removed, *)
(* unless the engine goes down.  A slot the comm thread had already found   *)
(* REQUESTING when exit_client freed it is served all the same and lost     *)
(* (start_comm tests the status before it takes the mutex).                 *)
DeadRemoved ==
    \A p \in Pids : ~alive[p] ~> pidClient[p] = {} \/ ~up

-----------------------------------------------------------------------------
(***************************************************************************)
(* What the repository says of the service and the code does not keep:     *)
(* each of these is refuted by a run of its own.                           *)
(***************************************************************************)

(* Nobody is inside a call and the engine has nothing left to do. *)
Settled ==
    /\ up /\ mutex = "free" /\ commPc = "scan"
    /\ \A h \in Handlers : ctl[h].pc \in {"new", "ready", "gone"}
    /\ \A n \in Names : clientJournals[n] # NoClient => Running(clientJournals[n])
SlotsHolding(k, w) ==
    {s \in Slots : /\ comm[s].status = "ALLOCATED"
                   /\ <<comm[s].journal, comm[s].page_num>> = k
                   /\ comm[s].is_writer = w}

(* PageEngine.h: fileWriterCounts is a "map: file attached with number of   *)
(* writers".                                                                *)
WriterCountsExact ==
    Settled => \A k \in Journals \X Pages :
      book.writers[k] = Cardinality(SlotsHolding(k, TRUE))

(* Journal.cpp, seekTime: a null page "means reader and no journal at all". *)
NullMeansNoJournal ==
    [][\A h \in Handlers \ Writers :
         SeekReturns(h) /\ LoadedPage(h) = NoPage
           => \A p \in Pages : header[<<ctl[h].j, p>>] = "raw"]_vars
=============================================================================
