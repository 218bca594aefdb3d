---------------------------- MODULE JournalPages ----------------------------
(***************************************************************************)
(* One journal, store by store: JournalWriter::write_frame, Frame and Page *)
(* on the shared memory of the page files, and Journal::locateFrame of the *)
(* readers, who take no lock and only look at status bytes.                *)
(*                                                                         *)
(* A page is an array of cells, one cell standing for the size of a frame  *)
(* header; a frame of length n takes n cells, the first of which is its    *)
(* header.  A cell the writer has filled with payload may look like any    *)
(* header at all; the model lets it look like the worst one, a WRITTEN     *)
(* frame that nobody wrote.                                                *)
(*                                                                         *)
(* The page service lets at most one writer append (OneAppender of module  *)
(* PageService), so there is one writer; it may be killed between any two  *)
(* stores and started again.                                               *)
(***************************************************************************)
EXTENDS Integers, Sequences, FiniteSets

CONSTANTS
    Readers,
    PageSize,       \* JOURNAL_PAGE_SIZE, in cells
    Headroom,       \* PAGE_MIN_HEADROOM, in cells
    MaxFrame,       \* bound on the length of a frame the application writes
    MaxPage,        \* bound on the pages of the journal
    MaxLog,         \* bound on the frames written
    MaxCrash,       \* bound on the crashes of the writer
    MaxSeek         \* bound on the seeks of a reader

(* Nothing relates the length of a frame to the headroom, or to the page. *)
ASSUME PagesAssumption ==
    /\ PageSize \in Nat /\ Headroom \in Nat /\ MaxFrame \in Nat
    /\ 0 < MaxFrame /\ Headroom < PageSize
    /\ MaxPage \in Nat \ {0}
    /\ MaxLog \in Nat /\ MaxCrash \in Nat /\ MaxSeek \in Nat

Pages == 1..MaxPage
Cells == 0..(PageSize - 1)
NoPage == 0

Cell == [status : {"RAW", "WRITTEN", "PAGE_END"}, length : 0..MaxFrame,
         nano : Nat]
ZeroCell == [status |-> "RAW", length |-> 0, nano |-> 0]
Payload == [status |-> "WRITTEN", length |-> 1, nano |-> 0]

VARIABLES
    mem,        \* page -> cell -> its content
    file,       \* page -> "none", "raw" (created) or "inited" (header set)
    writer,     \* [pc, page, position, length]: the writer's registers
    reader,     \* reader -> [pc, page, position, seeks]
    out,        \* reader -> the frame it was given last
    log,        \* history: the frames committed, with their place
    crashes     \* crashes so far

vars == <<mem, file, writer, reader, out, log, crashes>>

Off == [pc |-> "off", page |-> NoPage, position |-> 0, length |-> 0]

Init ==
    /\ mem = [p \in Pages |-> [a \in Cells |-> ZeroCell]]
    /\ file = [p \in Pages |-> "none"]
    /\ writer = Off
    /\ reader = [r \in Readers |-> [pc |-> "off", page |-> NoPage,
                                    position |-> 0, seeks |-> 0]]
    /\ out = [r \in Readers |-> <<>>]
    /\ log = <<>>
    /\ crashes = 0

Existing == {p \in Pages : file[p] # "none"}
LastPage == IF Existing = {} THEN 1
            ELSE CHOOSE p \in Existing : \A q \in Existing : q <= p

-----------------------------------------------------------------------------
(* The writer. *)
readVars == <<reader, out>>
Here == mem[writer.page][writer.position]
HasRoomEqual == writer.position + Headroom <= PageSize  \* variant: off by one
HasRoom == writer.position + Headroom < PageSize
Store(a, c) == mem' = [mem EXCEPT ![writer.page][a] = c]
WriterAt(where) == writer.pc = where
WriterGoes(where) == writer' = [writer EXCEPT !.pc = where]

(* JournalWriter::init -> seekEnd: seekTime(TIME_TO_LAST).  The page engine *)
(* creates a missing page file; Page::load initialises its header.          *)
StartWriter ==
    /\ WriterAt("off")
    /\ writer' = [Off EXCEPT !.pc = "load", !.page = LastPage]
    /\ file' = [file EXCEPT ![LastPage] = IF @ = "none" THEN "raw" ELSE @]
    /\ UNCHANGED <<mem, readVars, log, crashes>>

LoadPage ==
    /\ WriterAt("load")
    /\ file' = [file EXCEPT ![writer.page] = "inited"]
    /\ WriterGoes("locate")
    /\ UNCHANGED <<mem, readVars, log, crashes>>

(* Page::passWrittenFrame, one frame. *)
PassWrittenFrame ==
    /\ WriterAt("locate")
    /\ Here.status = "WRITTEN"
    /\ writer' = [writer EXCEPT !.position = @ + Here.length]
    /\ UNCHANGED <<mem, file, readVars, log, crashes>>

(* Page::locateWritableFrame finds a place, or loadNextPage asks for the    *)
(* next page, whose file the engine creates.                                *)
LocateWritableFrame ==
    /\ WriterAt("locate")
    /\ Here.status = "RAW"
    /\ HasRoom
    /\ WriterGoes(IF writer.length = 0 THEN "idle" ELSE "data")
    /\ UNCHANGED <<mem, file, readVars, log, crashes>>

LoadNextPageCloses ==   \* variant: the old page is closed first
    /\ WriterAt("locate")
    /\ Here.status = "RAW" /\ ~HasRoom
    /\ writer.page < MaxPage
    /\ Store(writer.position, [Here EXCEPT !.status = "PAGE_END"])
    /\ file' = [file EXCEPT ![writer.page + 1] = IF @ = "none" THEN "raw" ELSE @]
    /\ WriterGoes("loadnext")
    /\ UNCHANGED <<readVars, log, crashes>>

LoadNextPage ==
    /\ WriterAt("locate")
    /\ Here.status = "PAGE_END" \/ (Here.status = "RAW" /\ ~HasRoom)
    /\ writer.page < MaxPage
    /\ file' = [file EXCEPT ![writer.page + 1] = IF @ = "none" THEN "raw" ELSE @]
    /\ WriterGoes("loadnext")
    /\ UNCHANGED <<mem, readVars, log, crashes>>

LoadNewPageRaw ==       \* variant: Page::load leaves the header raw
    /\ WriterAt("loadnext")
    /\ WriterGoes("finish")
    /\ UNCHANGED <<mem, file, readVars, log, crashes>>

LoadNewPage ==
    /\ WriterAt("loadnext")
    /\ file' = [file EXCEPT ![writer.page + 1] = "inited"]
    /\ WriterGoes("finish")
    /\ UNCHANGED <<mem, readVars, log, crashes>>

(* Page::finishPage, then curPage = newPage. *)
NoFinishPage ==         \* variant: the old page is never closed
    /\ WriterAt("finish")
    /\ writer' = [writer EXCEPT !.pc = "locate", !.page = @ + 1, !.position = 0]
    /\ UNCHANGED <<mem, file, readVars, log, crashes>>

FinishPage ==
    /\ WriterAt("finish")
    /\ Store(writer.position, [Here EXCEPT !.status = "PAGE_END"])
    /\ writer' = [writer EXCEPT !.pc = "locate", !.page = @ + 1, !.position = 0]
    /\ UNCHANGED <<file, readVars, log, crashes>>

(* JournalWriter::write_frame: locateFrame, then ... *)
WriteFrame(n) ==
    /\ WriterAt("idle")
    /\ Len(log) < MaxLog
    /\ writer' = [writer EXCEPT !.pc = "locate", !.length = n]
    /\ UNCHANGED <<mem, file, readVars, log, crashes>>

(* ... (JournalWriter::locateFrame, the interface in two calls, stores the  *)
(* nano time first and leaves the rest to its caller and passFrame; a       *)
(* caller may also drop the frame, whatever it has stored in it) ...        *)
LocateFrame ==
    /\ WriterAt("data")
    /\ Here.nano # Len(log) + 1
    /\ Store(writer.position, [Here EXCEPT !.nano = Len(log) + 1])
    /\ UNCHANGED <<file, writer, readVars, log, crashes>>

DropFrame ==
    /\ writer.pc \in {"data", "header"}
    /\ Here.nano = Len(log) + 1
    /\ writer' = [writer EXCEPT !.pc = "idle", !.length = 0]
    /\ UNCHANGED <<mem, file, readVars, log, crashes>>

(* ... setMsgType, setLastFlag and the memcpy of setData.  Nobody has       *)
(* compared the length with what is left of the page: a store beyond its    *)
(* end kills the process, or hits what is mapped there, and the writer is   *)
(* not followed further ...                                                 *)
WriteData ==
    /\ WriterAt("data")
    /\ mem' = [mem EXCEPT ![writer.page] =
                 [a \in Cells |->
                    IF /\ a > writer.position
                       /\ a < writer.position + writer.length
                    THEN Payload ELSE @[a]]]
    /\ WriterGoes(IF writer.position + writer.length > PageSize
                  THEN "overrun" ELSE "header")
    /\ UNCHANGED <<file, readVars, log, crashes>>

(* ... setFrameLength and setNano ... *)
WriteHeaderWritten ==   \* variant: the status is stored with the header
    /\ WriterAt("header")
    /\ Store(writer.position, [status |-> "WRITTEN", length |-> writer.length,
                               nano |-> Len(log) + 1])
    /\ WriterGoes("clear")
    /\ UNCHANGED <<file, readVars, log, crashes>>

WriteHeader ==
    /\ WriterAt("header")
    /\ Store(writer.position, [Here EXCEPT !.length = writer.length,
                                           !.nano = Len(log) + 1])
    /\ WriterGoes("clear")
    /\ UNCHANGED <<file, readVars, log, crashes>>

(* ... setStatusWritten: the next entry is made RAW, wherever it is ...     *)
KeepNextEntry ==        \* variant: setStatusWritten does not clear it
    /\ WriterAt("clear")
    /\ WriterGoes(IF writer.position + Here.length \in Cells
                  THEN "commit" ELSE "overrun")
    /\ UNCHANGED <<mem, file, readVars, log, crashes>>

ClearNextEntry ==
    /\ WriterAt("clear")
    /\ mem' = [mem EXCEPT ![writer.page] =
                 [a \in Cells |-> IF a = writer.position + Here.length
                                  THEN [@[a] EXCEPT !.status = "RAW"]
                                  ELSE @[a]]]
    /\ WriterGoes(IF writer.position + Here.length \in Cells
                  THEN "commit" ELSE "overrun")
    /\ UNCHANGED <<file, readVars, log, crashes>>

(* ... and this one WRITTEN; then passFrame. *)
SetStatusWritten ==
    /\ WriterAt("commit")
    /\ Store(writer.position, [Here EXCEPT !.status = "WRITTEN"])
    /\ log' = Append(log, [page |-> writer.page, position |-> writer.position,
                           length |-> Here.length, nano |-> Here.nano])
    /\ writer' = [writer EXCEPT !.pc = "idle", !.length = 0,
                                !.position = @ + Here.length]
    /\ UNCHANGED <<file, readVars, crashes>>

(* The writer's process dies; the page files keep what was stored. *)
Crash ==
    /\ ~WriterAt("off")
    /\ crashes < MaxCrash
    /\ crashes' = crashes + 1
    /\ writer' = Off
    /\ UNCHANGED <<mem, file, readVars, log>>

-----------------------------------------------------------------------------
(* The readers. *)
writeVars == <<mem, file, writer, log, crashes>>
There(r) == mem[reader[r].page][reader[r].position]

(* JournalReader::addJournal without a seek: there is no page yet. *)
Join(r) ==
    /\ reader[r].pc = "off"
    /\ reader' = [reader EXCEPT ![r].pc = "read"]
    /\ UNCHANGED <<writeVars, out>>

(* Journal::seekTime: a reader opens a page it has found, or page 1, at its *)
(* first frame, and passes any number of frames.  A page that is not there, *)
(* or whose header Page::load finds raw, is null: the journal expires.      *)
Seek(r, p) ==
    /\ reader[r].pc \in {"off", "read", "expired"}
    /\ reader[r].seeks < MaxSeek
    /\ p \in Existing \cup {1}
    /\ LET seeks == reader[r].seeks + 1
       IN  reader' = [reader EXCEPT ![r] =
             IF file[p] = "inited"
             THEN [pc |-> "skip", page |-> p, position |-> 0, seeks |-> seeks]
             ELSE [pc |-> "expired", page |-> NoPage, position |-> 0, seeks |-> seeks]]
    /\ UNCHANGED <<writeVars, out>>

(* Journal::expire, by JournalReader::expireJournal: the page is released.  *)
(* An expired journal loads no page and gives no frame until it seeks.      *)
Expire(r) ==
    /\ reader[r].pc = "read"
    /\ reader' = [reader EXCEPT ![r].pc = "expired", ![r].page = NoPage,
                                ![r].position = 0]
    /\ UNCHANGED <<writeVars, out>>

(* passWrittenFrame or passToTime: frames are passed, until it stops. *)
SkipFrame(r) ==
    /\ reader[r].pc = "skip"
    /\ There(r).status = "WRITTEN"
    /\ reader' = [reader EXCEPT ![r].position = @ + There(r).length]
    /\ UNCHANGED <<writeVars, out>>

SkipEnds(r) ==
    /\ reader[r].pc = "skip"
    /\ reader' = [reader EXCEPT ![r].pc = "read"]
    /\ UNCHANGED <<writeVars, out>>

(* JournalReader::getNextFrame on one journal: locateFrame finds a frame,   *)
(* which is handed out and passed ...                                       *)
GetNextFrame(r) ==
    /\ reader[r].pc = "read"
    /\ reader[r].page # NoPage
    /\ There(r).status = "WRITTEN"
    /\ out' = [out EXCEPT ![r] = <<There(r).nano>>]
    /\ reader' = [reader EXCEPT ![r].position = @ + There(r).length]
    /\ UNCHANGED writeVars

(* ... or is at the page end, or has no page, and loads the next one, which *)
(* is null unless it is there and initialised.                              *)
ReaderNextPage(r) ==
    /\ reader[r].pc = "read"
    /\ reader[r].page # NoPage => There(r).status = "PAGE_END"
    /\ LET p == reader[r].page + 1
       IN  reader' = [reader EXCEPT ![r].position = 0, ![r].page =
                        IF p \in Pages /\ file[p] = "inited" THEN p ELSE NoPage]
    /\ UNCHANGED <<writeVars, out>>

-----------------------------------------------------------------------------
WriterStep ==
    \/ LoadPage \/ PassWrittenFrame \/ LocateWritableFrame
    \/ LoadNextPage \/ LoadNewPage \/ FinishPage
    \/ WriteData \/ WriteHeader \/ ClearNextEntry \/ SetStatusWritten

ReaderStep(r) == SkipFrame(r) \/ SkipEnds(r) \/ GetNextFrame(r) \/ ReaderNextPage(r)

Next ==
    \/ StartWriter \/ WriterStep \/ LocateFrame \/ DropFrame \/ Crash
    \/ \E n \in 1..MaxFrame : WriteFrame(n)
    \/ \E r \in Readers :
         Join(r) \/ ReaderStep(r) \/ Expire(r) \/ \E p \in Pages : Seek(r, p)

Spec == Init /\ [][Next]_vars

(***************************************************************************)
(* Fairness: a writer inside write_frame goes on, and a reader polls       *)
(* (JournalReader::startVisiting is a loop over getNextFrame).  Nothing    *)
(* obliges anybody to start a writer or to write.                          *)
(***************************************************************************)
Fairness ==
    /\ WF_vars(WriterStep)
    /\ \A r \in Readers : WF_vars(ReaderStep(r))

FairSpec == Spec /\ Fairness

-----------------------------------------------------------------------------
(* Types: in particular every position the writer or a reader has computed  *)
(* from the lengths it found in memory is a cell of the page.               *)
TypeOK ==
    /\ mem \in [Pages -> [Cells -> Cell]]
    /\ file \in [Pages -> {"none", "raw", "inited"}]
    /\ writer \in [pc : {"off", "load", "locate", "idle", "data", "header",
                         "clear", "commit", "loadnext", "finish", "overrun"},
                   page : 0..MaxPage, position : Cells, length : 0..MaxFrame]
    /\ reader \in [Readers -> [pc : {"off", "skip", "read", "expired"},
                               page : 0..MaxPage, position : Cells,
                               seeks : 0..MaxSeek]]
    /\ out \in [Readers -> Seq(Nat)]
    /\ log \in Seq([page : Pages, position : Cells, length : 1..MaxFrame,
                    nano : Nat])
    /\ crashes \in 0..MaxCrash

(* The headroom keeps every store of the writer inside its page, at any     *)
(* place and after any crash, unless the frame is longer than the headroom. *)
OverrunIsLong == WriterAt("overrun") => writer.length > Headroom

(* Memory as the log sees it: the chain of WRITTEN frames that starts at    *)
(* the top of a page is exactly the committed frames of that page, in       *)
(* order, whatever crashed writers have left behind.                        *)
EndOf(i) == log[i].position + log[i].length
ChainPoint(p, a) ==     \* where a frame of the page begins or the next one will
    a = 0 \/ \E i \in 1..Len(log) : log[i].page = p /\ EndOf(i) = a
FrameAt(p, a) ==
    \E i \in 1..Len(log) : log[i].page = p /\ log[i].position = a
Precedes(i, j) ==
    \/ log[i].page < log[j].page
    \/ log[i].page = log[j].page /\ EndOf(i) <= log[j].position
ChainMatchesLog ==
    /\ \A i \in 1..Len(log) :
         /\ mem[log[i].page][log[i].position] =
              [status |-> "WRITTEN", length |-> log[i].length, nano |-> log[i].nano]
         /\ EndOf(i) \in Cells
         /\ log[i].position = IF i > 1 /\ log[i-1].page = log[i].page
                              THEN EndOf(i-1) ELSE 0
         /\ \A j \in 1..(i-1) : Precedes(j, i)
    /\ \A p \in Pages, a \in Cells :
         ChainPoint(p, a) /\ mem[p][a].status = "WRITTEN" => FrameAt(p, a)

(* Pages in order: a page that is closed has an initialised successor, and  *)
(* pages are never created out of order.  loadNextPage gets the new page    *)
(* before it closes the old one.                                            *)
ClosedHasSuccessor ==
    \A p \in Pages :
      /\ (\E a \in Cells : mem[p][a].status = "PAGE_END")
            => p < MaxPage /\ file[p + 1] = "inited"
      /\ p > 1 /\ file[p] # "none" => file[p - 1] = "inited"

(* A reader keeps its place: it loses its page only when its journal is     *)
(* expired, by expireJournal or by a seek made while the newest page is     *)
(* being created.  At the end of a page it never finds the next one         *)
(* missing, which would make it start over at page 1.                       *)
ReaderKeepsPage ==
    [][\A r \in Readers : reader[r].page # NoPage =>
         \/ reader'[r].page # NoPage
         \/ Expire(r)
         \/ reader'[r].pc = "expired" /\ file[LastPage] = "raw"]_vars

(* Number of frames before a position. *)
Before(p, a) ==
    Cardinality({i \in 1..Len(log) : \/ log[i].page < p
                                     \/ log[i].page = p /\ log[i].position < a})

(* The journal as one continuous sequence (Journal.h): the pages implement  *)
(* JournalLog, a reader's place being the number of frames before it; no    *)
(* frame is given twice or left out unless the reader seeks or expires.     *)
Abstract == INSTANCE JournalLog WITH
    Readers <- Readers,
    Frames <- 1..MaxLog,
    log <- [i \in 1..Len(log) |-> log[i].nano],
    cursor <- [r \in Readers |-> Before(reader[r].page, reader[r].position)],
    seeking <- [r \in Readers |-> reader[r].pc \in {"skip", "expired"}],
    out <- out
ImplementsLog == Abstract!LogSpec

CaughtUp(r) == Before(reader[r].page, reader[r].position) = Len(log)

(* Every frame is read: a reader that has frames before it gets them,       *)
(* unless its journal expires.                                              *)
Expired(r) == reader[r].pc = "expired"
EverythingRead ==
    \A r \in Readers :
      (reader[r].pc = "read" /\ reader[r].page # NoPage)
        ~> (CaughtUp(r) \/ Expired(r))

(* A page that a crash has left open behind a newer one. *)
Abandoned(p) ==
    /\ p \in Pages /\ p + 1 \in Existing
    /\ crashes > 0 /\ writer.page # p
    /\ \A a \in Cells : mem[p][a].status # "PAGE_END"

(* Every frame is read by a reader of a writer that is killed and started   *)
(* again, too, unless it waits in a page that a crash has left open: this   *)
(* is the one thing that keeps a reader from the frames after it.           *)
ReadUnlessAbandoned ==
    \A r \in Readers :
      (reader[r].pc = "read" /\ reader[r].page # NoPage)
        ~> (CaughtUp(r) \/ Expired(r) \/ Abandoned(reader[r].page))
=============================================================================
