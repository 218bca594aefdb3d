---------------------------- MODULE JournalReader ----------------------------
(***************************************************************************)
(* One JournalReader over several journals: getNextFrame merges them by    *)
(* nano time, looking at one journal after the other, and seekTimeJournal  *)
(* finds its page by reading page headers, while a writer per journal      *)
(* stamps frames, turns pages and publishes.                               *)
(*                                                                         *)
(* Module JournalPages justifies the abstraction: a journal is its         *)
(* sequence of frames, of which a page holds a segment; here a frame is    *)
(* its nano time.  All processes read one clock (NanoTimer adds the same   *)
(* secDiff, which the engine hands out); it need not advance between two   *)
(* readings.                                                               *)
(***************************************************************************)
EXTENDS Integers, Sequences, FiniteSets

CONSTANTS
    NumJournals,    \* journals, in the order in which the reader adds them
    PageFrames,     \* frames a page has room for
    MaxLog,         \* journal -> bound on its frames
    MaxClock,       \* bound on the clock
    MaxCall         \* bound on the reader's seeks and expiries

ASSUME ReaderAssumption ==
    /\ NumJournals \in Nat \ {0} /\ PageFrames \in Nat \ {0}
    /\ MaxLog \in [1..NumJournals -> Nat] /\ MaxClock \in Nat \ {0} /\ MaxCall \in Nat

Journals == 1..NumJournals
TIME_TO_LAST == -1
TIME_FROM_FIRST == 0
Times == {TIME_TO_LAST, TIME_FROM_FIRST} \cup 1..MaxClock
NoPage == 0
Never == MaxClock + 1       \* later than any time; garbage of that size

VARIABLES
    clock,      \* what getNanoTime returns
    log,        \* journal -> the nano times of its written frames
    pages,      \* journal -> its page files, in order
    writer,     \* journal -> [pc, nano] of its writer inside write_frame
    added,      \* the journals 1..added are in the reader's vector
    cur,        \* journal -> [page, pos, expired]: the reader's Journal
    reader,     \* registers of the reader's call, see ReaderType
    out,        \* journal -> the last frame of it that was returned
    calls       \* seeks and expiries so far

writeVars == <<log, pages, writer>>
readVars == <<added, cur, reader, out, calls>>
vars == <<clock, writeVars, readVars>>

(* A page file: status and start_nano of its PageHeader, whether its chain  *)
(* ends in PAGE_END, and how many frames lie in the pages before it.        *)
PageType == [status : {"RAW", "INITED"}, start : 0..MaxClock, closed : BOOLEAN,
             before : Nat]
NewPage(n) == [status |-> "RAW", start |-> 0, closed |-> FALSE, before |-> n]

(* at, minNano and curJournal are getNextFrame's; journal, time, page and   *)
(* raw seekTime's (raw: the header it chose was not initialised).  oldest   *)
(* remembers the oldest frame that was unread when getNextFrame was called. *)
ReaderType ==
    [pc : {"idle", "look", "scan", "load", "pass"}, at : 1..(NumJournals + 1),
     minNano : {TIME_TO_LAST} \cup 1..MaxClock, curJournal : 0..NumJournals,
     oldest : 1..Never, journal : 0..NumJournals, time : Times,
     page : Nat, raw : BOOLEAN]

(* Between calls the registers are dead, but for curJournal, which only     *)
(* getFrameName reads: out keeps the frame returned under its journal.      *)
Idle == [pc |-> "idle", at |-> 1, minNano |-> TIME_TO_LAST, curJournal |-> 0,
         oldest |-> Never, journal |-> 0, time |-> TIME_FROM_FIRST,
         page |-> NoPage, raw |-> FALSE]

Init ==
    /\ clock = 1
    /\ log = [j \in Journals |-> <<>>]
    /\ pages = [j \in Journals |-> <<>>]
    /\ writer = [j \in Journals |-> [pc |-> "off", nano |-> 0]]
    /\ added = 0
    /\ cur = [j \in Journals |-> [page |-> NoPage, pos |-> 0, expired |-> FALSE]]
    /\ reader = Idle
    /\ out = [j \in Journals |-> <<>>]
    /\ calls = 0

(* Frames in the pages up to and including p. *)
PageEnd(j, p) == IF p < Len(pages[j]) THEN pages[j][p + 1].before ELSE Len(log[j])

(* Page::load for a reader: null unless the file is there and initialised.  *)
GetPage(j, p) ==
    IF p \in DOMAIN pages[j] /\ pages[j][p].status = "INITED" THEN p ELSE NoPage

Cursor(p, n, dead) == [page |-> p, pos |-> n, expired |-> dead]
FirstOf(j, p) == IF p = NoPage THEN 0 ELSE pages[j][p].before

Tick == clock < MaxClock /\ clock' = clock + 1 /\ UNCHANGED <<writeVars, readVars>>

-----------------------------------------------------------------------------
(* The writer of journal j. *)
HasRoom(j) == Len(log[j]) - pages[j][Len(pages[j])].before < PageFrames
WriterGoes(j, where) == writer' = [writer EXCEPT ![j].pc = where]

(* JournalWriter::write_frame takes the time before it locates a frame. *)
Stamp(j) ==
    /\ writer[j].pc = "idle"
    /\ Len(log[j]) < MaxLog[j]
    /\ writer' = [writer EXCEPT ![j] = [pc |-> "locate", nano |-> clock]]
    /\ UNCHANGED <<clock, log, pages, readVars>>

(* The first page of a new journal, or loadNextPage: the engine creates the *)
(* file; Page::load stores start_nano, then the status; finishPage closes   *)
(* the page before it.                                                      *)
CreatePage(j) ==
    /\ \/ writer[j].pc = "off"
       \/ writer[j].pc = "locate" /\ ~HasRoom(j)
    /\ pages' = [pages EXCEPT ![j] = Append(@, NewPage(Len(log[j])))]
    /\ WriterGoes(j, "init")
    /\ UNCHANGED <<clock, log, readVars>>

InitPage(j) ==
    /\ writer[j].pc = "init"
    /\ pages' = [pages EXCEPT ![j][Len(pages[j])].start = clock]
    /\ WriterGoes(j, "open")
    /\ UNCHANGED <<clock, log, readVars>>

OpenPage(j) ==
    /\ writer[j].pc = "open"
    /\ pages' = [pages EXCEPT ![j][Len(pages[j])].status = "INITED"]
    /\ WriterGoes(j, IF Len(pages[j]) > 1 THEN "close" ELSE "idle")
    /\ UNCHANGED <<clock, log, readVars>>

ClosePage(j) ==
    /\ writer[j].pc = "close"
    /\ pages' = [pages EXCEPT ![j][Len(pages[j]) - 1].closed = TRUE]
    /\ WriterGoes(j, "locate")
    /\ UNCHANGED <<clock, log, readVars>>

(* setNano and setStatusWritten, which commits the frame. *)
Publish(j) ==
    /\ writer[j].pc = "locate"
    /\ HasRoom(j)
    /\ log' = [log EXCEPT ![j] = Append(@, writer[j].nano)]
    /\ writer' = [writer EXCEPT ![j] = [pc |-> "idle", nano |-> 0]]
    /\ UNCHANGED <<clock, pages, readVars>>

WriterStep(j) ==
    CreatePage(j) \/ InitPage(j) \/ OpenPage(j) \/ ClosePage(j) \/ Publish(j)

-----------------------------------------------------------------------------
(* The reader's calls. *)
AddJournal ==
    /\ reader.pc = "idle"
    /\ added < NumJournals
    /\ added' = added + 1
    /\ UNCHANGED <<clock, writeVars, cur, reader, out, calls>>

(* Journal::expire *)
ExpireJournal(j) ==
    /\ reader.pc = "idle"
    /\ j <= added
    /\ calls < MaxCall
    /\ cur' = [cur EXCEPT ![j] = Cursor(NoPage, 0, TRUE)]
    /\ calls' = calls + 1
    /\ UNCHANGED <<clock, writeVars, added, reader, out>>

(* Journal::seekTime: the page files are listed, then ... *)
SeekTimeJournal(j, t) ==
    /\ reader.pc = "idle"
    /\ j <= added
    /\ calls < MaxCall
    /\ calls' = calls + 1
    /\ LET n == Len(pages[j])
       IN  reader' = [reader EXCEPT
             !.journal = j, !.time = t,
             !.pc = IF t \in {TIME_TO_LAST, TIME_FROM_FIRST} THEN "load" ELSE "scan",
             !.page = IF t = TIME_FROM_FIRST \/ (t = TIME_TO_LAST /\ n = 0)
                      THEN 1 ELSE n]
    /\ UNCHANGED <<clock, writeVars, added, cur, out>>

(* ... GetPageNumWithTime reads their headers from the last to the first    *)
(* (that of a file still being created may be short, and what is read then  *)
(* is anything) ...                                                         *)
Header(j, p) ==
    IF pages[j][p].start = 0 THEN {0, Never} ELSE {pages[j][p].start}

StartsBeforeOrAt(start, time) == start <= time  \* variant: off by one
StartsBefore(start, time) == start < time

GetPageNumWithTime ==
    /\ reader.pc = "scan"
    /\ IF reader.page = NoPage
       THEN reader' = [reader EXCEPT !.page = 1, !.pc = "load"]
       ELSE \E start \in Header(reader.journal, reader.page) :
              reader' = IF StartsBefore(start, reader.time)
                        THEN [reader EXCEPT !.pc = "load", !.raw = (start = 0)]
                        ELSE [reader EXCEPT !.page = @ - 1]
    /\ UNCHANGED <<clock, writeVars, added, cur, out, calls>>

(* ... the page is loaded; a null page expires the journal ... *)
LoadPage ==
    /\ reader.pc = "load"
    /\ LET j == reader.journal
           p == GetPage(j, reader.page)
       IN  /\ cur' = [cur EXCEPT ![j] = Cursor(p, FirstOf(j, p), p = NoPage)]
           /\ reader' = IF p = NoPage \/ reader.time = TIME_FROM_FIRST
                        THEN Idle ELSE [reader EXCEPT !.pc = "pass"]
    /\ UNCHANGED <<clock, writeVars, added, out, calls>>

(* ... and passWrittenFrame or passToTime pass the frames of that page. *)
Unread(j, c) == ~c.expired /\ c.page # NoPage /\ c.pos < PageEnd(j, c.page)

PassToTime ==
    LET j == reader.journal
        c == cur[j]
        more == /\ Unread(j, c)
                /\ reader.time # TIME_TO_LAST => log[j][c.pos + 1] < reader.time
    IN  /\ reader.pc = "pass"
        /\ cur' = IF more THEN [cur EXCEPT ![j].pos = @ + 1] ELSE cur
        /\ reader' = IF more THEN reader ELSE Idle
        /\ UNCHANGED <<clock, writeVars, added, out, calls>>

-----------------------------------------------------------------------------
(* JournalReader::getNextFrame. *)
SetMin(S) == CHOOSE x \in S : \A y \in S : x <= y
UnreadNanos == UNION {{log[j][i] : i \in (cur[j].pos + 1)..Len(log[j])} :
                        j \in {k \in 1..added : ~cur[k].expired}}

GetNextFrame ==
    /\ reader.pc = "idle"
    /\ added > 0
    /\ reader' = [reader EXCEPT !.pc = "look", !.oldest = SetMin(UnreadNanos \cup {Never})]
    /\ UNCHANGED <<clock, writeVars, added, cur, out, calls>>

(* Journal::locateFrame: at the page end, or with no page, loadNextPage. *)
LocatedStays(j) == cur[j]       \* variant: the next page is not loaded

LocatedAgain(j) ==              \* variant: the same page is loaded again
    LET c == cur[j]
    IN  IF \/ c.expired \/ c.page = NoPage
           \/ c.pos < PageEnd(j, c.page) \/ ~pages[j][c.page].closed
        THEN c ELSE Cursor(c.page, FirstOf(j, c.page), FALSE)

Located(j) ==
    LET c == cur[j]
        stays == c.expired \/ ( /\ c.page # NoPage
                                /\ \/ c.pos < PageEnd(j, c.page)
                                   \/ ~pages[j][c.page].closed )
        next == GetPage(j, c.page + 1)
    IN  IF stays THEN c ELSE Cursor(next, FirstOf(j, next), FALSE)

FirstFound(nano) == reader.minNano = TIME_TO_LAST   \* variant: no comparison
Earlier(nano) == reader.minNano = TIME_TO_LAST \/ nano < reader.minNano

LookAt ==
    /\ reader.pc = "look"
    /\ reader.at <= added
    /\ LET j == reader.at
           c == Located(j)
       IN  /\ cur' = [cur EXCEPT ![j] = c]
           /\ reader' = IF Unread(j, c) /\ Earlier(log[j][c.pos + 1])
                        THEN [reader EXCEPT !.at = @ + 1, !.curJournal = j,
                                            !.minNano = log[j][c.pos + 1]]
                        ELSE [reader EXCEPT !.at = @ + 1]
    /\ UNCHANGED <<clock, writeVars, added, out, calls>>

(* passFrame on curJournal, or no frame. *)
ReturnFrameLast ==      \* variant: the last journal of the loop is passed
    /\ reader.pc = "look"
    /\ reader.at > added
    /\ IF reader.minNano = TIME_TO_LAST THEN UNCHANGED <<cur, out>>
       ELSE /\ cur' = [cur EXCEPT ![added].pos = @ + 1]
            /\ out' = [out EXCEPT ![reader.curJournal] = <<reader.minNano>>]
    /\ reader' = Idle
    /\ UNCHANGED <<clock, writeVars, added, calls>>

ReturnFrame ==
    /\ reader.pc = "look"
    /\ reader.at > added
    /\ IF reader.minNano = TIME_TO_LAST THEN UNCHANGED <<cur, out>>
       ELSE /\ cur' = [cur EXCEPT ![reader.curJournal].pos = @ + 1]
            /\ out' = [out EXCEPT ![reader.curJournal] = <<reader.minNano>>]
    /\ reader' = Idle
    /\ UNCHANGED <<clock, writeVars, added, calls>>

ReaderStep ==
    \/ GetPageNumWithTime \/ LoadPage \/ PassToTime
    \/ GetNextFrame \/ LookAt \/ ReturnFrame

Next ==
    \/ Tick \/ AddJournal \/ ReaderStep
    \/ \E j \in Journals : \/ Stamp(j) \/ WriterStep(j) \/ ExpireJournal(j)
                           \/ \E t \in Times : SeekTimeJournal(j, t)

Spec == Init /\ [][Next]_vars

(* Fairness: a writer inside write_frame goes on, and the reader polls      *)
(* (startVisiting loops over getNextFrame).                                 *)
Fairness == WF_vars(ReaderStep) /\ \A j \in Journals : WF_vars(WriterStep(j))
FairSpec == Spec /\ Fairness

-----------------------------------------------------------------------------
(* Types: in particular no cursor is ever beyond the frames of its page.    *)
TypeOK ==
    /\ clock \in 1..MaxClock
    /\ \A j \in Journals :
         /\ log[j] \in Seq(1..MaxClock)
         /\ pages[j] \in Seq(PageType)
         /\ writer[j] \in [pc : {"off", "idle", "locate", "init", "open", "close"},
                           nano : 0..MaxClock]
         /\ cur[j] \in [page : 0..Len(pages[j]), pos : 0..Len(log[j]),
                        expired : BOOLEAN]
         /\ cur[j].pos <= PageEnd(j, cur[j].page)
         /\ out[j] \in Seq(1..MaxClock)
    /\ added \in 0..NumJournals
    /\ reader \in ReaderType
    /\ calls \in 0..MaxCall

(* A seekTime that succeeds, and a frame it was asked for lies behind. *)
SeekSkips ==
    LET c == cur'[reader.journal]
    IN  /\ reader.pc \in {"load", "pass"} /\ reader'.pc = "idle"
        /\ ~c.expired /\ reader.time # TIME_TO_LAST
        /\ \E i \in 1..c.pos : log[reader.journal][i] >= reader.time

(* Journal::seekTime skips no frame it was asked for: when it succeeds, no  *)
(* frame written at the time or later lies before the reader, unless        *)
(* GetPageNumWithTime chose the page by a header that was not initialised.  *)
SeekFindsTime == [][SeekSkips => reader.raw]_vars

(* getNextFrame leaves nothing older behind: whatever was published while   *)
(* it went from journal to journal, it returns a frame that is no younger   *)
(* than any frame that was there when it was called.                        *)
OldestFirst ==
    [][reader.pc = "look" /\ reader'.pc = "idle" /\ reader.oldest # Never
         => reader.minNano \in 1..reader.oldest]_vars

(* Journal j and the reader's place in it, as the log of module JournalLog; *)
(* an expired journal is one whose seek has not ended.                      *)
InSeek(j) == reader.pc \in {"scan", "load", "pass"} /\ reader.journal = j
Log(j) == INSTANCE JournalLog WITH
    Readers <- {1}, Frames <- 1..MaxClock, log <- log[j],
    cursor <- [r \in {1} |-> cur[j].pos],
    seeking <- [r \in {1} |-> InSeek(j) \/ cur[j].expired],
    out <- [r \in {1} |-> out[j]]

(* Every journal is such a log: outside seeks and expiries getNextFrame     *)
(* returns its frames one after the other, none left out and none twice,    *)
(* whatever the other journals contribute.                                  *)
StreamsInOrder ==
    /\ \A j \in Journals : Log(j)!LogInit
    /\ [][\A j \in Journals : [Log(j)!LogNext]_(Log(j)!LogVars)]_vars

(* Every frame is returned: a journal that was added and is not expired is  *)
(* read to its end, however far the other journals run ahead.               *)
EverythingReturned ==
    \A j \in Journals :
      j <= added ~> (cur[j].expired \/ cur[j].pos = Len(log[j]))
=============================================================================
