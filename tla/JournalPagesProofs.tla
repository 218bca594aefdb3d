------------------------- MODULE JournalPagesProofs -------------------------
(***************************************************************************)
(* The journal on its pages: for every page size, frame length, number of  *)
(* pages, frames, readers, crashes and seeks, the WRITTEN chain of a page  *)
(* is what was committed, no store leaves the page for a frame that fits   *)
(* the headroom, a closed page has its successor, a reader only loses its  *)
(* page by expiring, and the pages implement the append-only JournalLog.   *)
(***************************************************************************)
EXTENDS JournalPages, FiniteSetTheorems, TLAPS

(* The page files are pages 1 to n, for some n. *)
FilesInOrder ==
    \E n \in 0..MaxPage : \A p \in Pages : file[p] # "none" <=> p <= n

(* The log's frames lie on initialised pages, each of which has its first   *)
(* frame at the top; the frames before a page are an initial part of it.    *)
LogOK ==
    /\ \A i \in 1..Len(log) :
         file[log[i].page] = "inited" /\ FrameAt(log[i].page, 0)
    /\ \A p \in Pages : \E k \in 0..Len(log) :
         \A i \in 1..Len(log) : log[i].page < p <=> i <= k

Appending == {"data", "header", "clear", "commit"}
Turning == {"loadnext", "finish"}
WriterOn ==     \* the writer is at a chain point of the last page
    writer.pc # "off" =>
      /\ writer.page \in Pages
      /\ file[writer.page] # "none"
      /\ writer.pc # "load" => file[writer.page] = "inited"
      /\ ChainPoint(writer.page, writer.position)
      /\ writer.pc \notin Turning =>
           \A p \in Pages : file[p] # "none" => p <= writer.page
WriterTurns ==  \* or leaves it for the next one
    writer.pc \in Turning =>
      /\ writer.page + 1 \in Pages
      /\ file[writer.page + 1] # "none"
      /\ writer.pc = "finish" => file[writer.page + 1] = "inited"
      /\ Here.status # "WRITTEN"
      /\ \A p \in Pages : file[p] # "none" => p <= writer.page + 1
WriterFrame ==  \* what it has stored of the frame
    /\ writer.length > 0 => Len(log) < MaxLog
    /\ writer.pc \in Appending \cup {"idle"} => Here.status = "RAW"
    /\ writer.pc \in Appending => HasRoom /\ writer.length > 0
    /\ writer.pc \in {"clear", "commit"} =>
         Here.length = writer.length /\ Here.nano = Len(log) + 1
    /\ writer.pc = "commit" =>
         /\ writer.position + writer.length \in Cells
         /\ mem[writer.page][writer.position + writer.length].status = "RAW"
    /\ writer.pc = "overrun" => writer.length > Headroom

(* A reader is at a chain point of an initialised page. *)
ReaderOK ==
    \A r \in Readers :
      /\ reader[r].pc = "off" => reader[r].page = NoPage
      /\ reader[r].pc = "skip" => reader[r].page # NoPage
      /\ reader[r].pc = "expired" => reader[r].page = NoPage
      /\ IF reader[r].page = NoPage THEN reader[r].position = 0
         ELSE /\ file[reader[r].page] = "inited"
              /\ ChainPoint(reader[r].page, reader[r].position)

PagesInv ==
    /\ TypeOK
    /\ ChainMatchesLog
    /\ ClosedHasSuccessor
    /\ FilesInOrder
    /\ LogOK
    /\ WriterOn /\ WriterTurns /\ WriterFrame
    /\ ReaderOK

-----------------------------------------------------------------------------
LEMMA LogTypes ==
    ASSUME TypeOK
    PROVE  /\ Len(log) \in Nat
           /\ \A i \in 1..Len(log) :
                /\ log[i].page \in Pages /\ log[i].page \in Nat
                /\ log[i].position \in Cells /\ log[i].position \in Nat
                /\ log[i].length \in 1..MaxFrame /\ log[i].length \in Nat
                /\ log[i].nano \in Nat
                /\ EndOf(i) \in Nat /\ EndOf(i) > log[i].position
<1> DEFINE Entry == [page : Pages, position : Cells, length : 1..MaxFrame,
                     nano : Nat]
<1>1. log \in Seq(Entry)
  BY DEF TypeOK
<1> HIDE DEF Entry
<1>2. Len(log) \in Nat /\ \A i \in 1..Len(log) : log[i] \in Entry
  BY <1>1
<1> QED BY <1>2, PagesAssumption DEF Entry, Pages, Cells, EndOf

(* What ChainMatchesLog says of the order of the frames. *)
LEMMA LogOrder ==
    ASSUME TypeOK, ChainMatchesLog
    PROVE  /\ \A i, j \in 1..Len(log) : i < j =>
                \/ log[i].page < log[j].page
                \/ log[i].page = log[j].page /\ EndOf(i) <= log[j].position
           /\ \A i, j \in 1..Len(log) : j = i + 1 =>
                log[j].position = IF log[i].page = log[j].page THEN EndOf(i) ELSE 0
           /\ \A i \in 1..Len(log) :
                /\ mem[log[i].page][log[i].position].status = "WRITTEN"
                /\ EndOf(i) \in Cells
<1>1. Len(log) \in Nat
  BY LogTypes
<1>2. ASSUME NEW i \in 1..Len(log), NEW j \in 1..Len(log), i < j
      PROVE  \/ log[i].page < log[j].page
             \/ log[i].page = log[j].page /\ EndOf(i) <= log[j].position
  <2>1. i \in 1..(j - 1)
    BY <1>1, <1>2
  <2> QED BY <2>1 DEF ChainMatchesLog, Precedes
<1>3. ASSUME NEW i \in 1..Len(log), NEW j \in 1..Len(log), j = i + 1
      PROVE  log[j].position = IF log[i].page = log[j].page THEN EndOf(i) ELSE 0
  <2>1. j > 1 /\ j - 1 = i
    BY <1>1, <1>3
  <2>2. log[j].position = IF j > 1 /\ log[j - 1].page = log[j].page
                          THEN EndOf(j - 1) ELSE 0
    BY DEF ChainMatchesLog
  <2> QED BY <2>1, <2>2
<1>4. ASSUME NEW i \in 1..Len(log)
      PROVE  /\ mem[log[i].page][log[i].position].status = "WRITTEN"
             /\ EndOf(i) \in Cells
  <2>1. /\ mem[log[i].page][log[i].position] =
             [status |-> "WRITTEN", length |-> log[i].length, nano |-> log[i].nano]
        /\ EndOf(i) \in Cells
    BY DEF ChainMatchesLog
  <2> QED BY <2>1
<1> QED BY <1>2, <1>3, <1>4

(* The chain.  A chain point that holds WRITTEN is the place of a frame ... *)
LEMMA FrameFound ==
    ASSUME TypeOK, ChainMatchesLog, NEW p \in Pages, NEW a \in Cells,
           ChainPoint(p, a), mem[p][a].status = "WRITTEN"
    PROVE  \E i \in 1..Len(log) :
             /\ log[i].page = p /\ log[i].position = a
             /\ mem[p][a].length = log[i].length
             /\ mem[p][a].nano = log[i].nano
             /\ EndOf(i) = a + mem[p][a].length
             /\ EndOf(i) \in Cells
             /\ ChainPoint(p, a + mem[p][a].length)
<1>1. PICK i \in 1..Len(log) : log[i].page = p /\ log[i].position = a
  BY DEF ChainMatchesLog, FrameAt
<1>2. /\ mem[p][a] = [status |-> "WRITTEN", length |-> log[i].length,
                      nano |-> log[i].nano]
      /\ EndOf(i) \in Cells
  BY <1>1 DEF ChainMatchesLog
<1>3. EndOf(i) = a + mem[p][a].length
  BY <1>1, <1>2 DEF EndOf
<1> QED BY <1>1, <1>2, <1>3 DEF ChainPoint

(* ... and one that does not comes after all the frames of its page. *)
LEMMA ChainEnd ==
    ASSUME TypeOK, ChainMatchesLog, LogOK, NEW p \in Pages, NEW a \in Cells,
           ChainPoint(p, a), mem[p][a].status # "WRITTEN",
           NEW i \in 1..Len(log), log[i].page = p
    PROVE  EndOf(i) <= a
<1>1. ~FrameAt(p, a)
  BY LogOrder DEF FrameAt
<1>2. a # 0
  BY <1>1 DEF LogOK
<1>3. PICK j \in 1..Len(log) : log[j].page = p /\ EndOf(j) = a
  BY <1>2 DEF ChainPoint
<1>4. Len(log) \in Nat
  BY LogTypes
<1>5. CASE i < j
  <2>1. EndOf(i) <= log[j].position
    BY <1>3, <1>5, LogOrder, LogTypes
  <2> QED BY <1>3, <2>1, LogTypes
<1>6. CASE i = j
  BY <1>3, <1>6, LogTypes
<1>7. CASE i > j
  <2>1. j + 1 \in 1..Len(log) /\ (i = j + 1 \/ j + 1 < i) /\ j < j + 1
    BY <1>4, <1>7
  <2>2. log[j + 1].page = p
    BY <1>3, <2>1, LogOrder, LogTypes
  <2>3. log[j + 1].position = EndOf(j)
    BY <1>3, <2>1, <2>2, LogOrder
  <2> QED BY <1>1, <1>3, <2>1, <2>2, <2>3 DEF FrameAt
<1> QED BY <1>4, <1>5, <1>6, <1>7

-----------------------------------------------------------------------------
(* What a step that leaves the log alone keeps. *)
LEMMA ChainKeeps ==
    ASSUME TypeOK, ChainMatchesLog, UNCHANGED log,
           \A i \in 1..Len(log) : mem'[log[i].page][log[i].position]
                                    = mem[log[i].page][log[i].position],
           \A p \in Pages, a \in Cells :
             ChainPoint(p, a) /\ mem'[p][a].status = "WRITTEN"
               => mem[p][a].status = "WRITTEN"
    PROVE  ChainMatchesLog'
<1>1. \A i \in 1..Len(log) :
        /\ mem'[log[i].page][log[i].position] =
             [status |-> "WRITTEN", length |-> log[i].length, nano |-> log[i].nano]
        /\ EndOf(i) \in Cells
        /\ log[i].position = IF i > 1 /\ log[i-1].page = log[i].page
                             THEN EndOf(i-1) ELSE 0
        /\ \A j \in 1..(i-1) : Precedes(j, i)
  BY DEF ChainMatchesLog
<1>2. \A p \in Pages, a \in Cells :
        ChainPoint(p, a) /\ mem'[p][a].status = "WRITTEN" => FrameAt(p, a)
  BY DEF ChainMatchesLog
<1>3. /\ \A i : EndOf(i)' = EndOf(i)
      /\ \A i, j : Precedes(i, j)' <=> Precedes(i, j)
      /\ \A p, a : ChainPoint(p, a)' <=> ChainPoint(p, a)
      /\ \A p, a : FrameAt(p, a)' <=> FrameAt(p, a)
  BY DEF EndOf, Precedes, ChainPoint, FrameAt
<1> QED BY <1>1, <1>2, <1>3 DEF ChainMatchesLog

FilesGrow ==
    \A p \in Pages : /\ file[p] = "inited" => file'[p] = "inited"
                     /\ file[p] # "none" => file'[p] # "none"

LEMMA LogKeeps ==
    ASSUME TypeOK, LogOK, UNCHANGED log, FilesGrow PROVE LogOK'
<1>1. \A i \in 1..Len(log) : log[i].page \in Pages
  BY LogTypes
<1> QED BY <1>1 DEF LogOK, FrameAt, FilesGrow

LEMMA ReadersKeep ==
    ASSUME TypeOK, ReaderOK, UNCHANGED <<log, reader>>, FilesGrow PROVE ReaderOK'
<1>1. \A r \in Readers : reader[r].page # NoPage => reader[r].page \in Pages
  BY DEF TypeOK, Pages, NoPage
<1> QED BY <1>1 DEF ReaderOK, ChainPoint, EndOf, FilesGrow

(* A step that only moves the writer. *)
LEMMA WriterMoves ==
    ASSUME PagesInv, UNCHANGED <<mem, file, reader, log>>,
           TypeOK', WriterOn', WriterTurns', WriterFrame'
    PROVE  PagesInv'
<1>1. FilesGrow
  BY DEF FilesGrow
<1>2. ChainMatchesLog'
  BY ChainKeeps DEF PagesInv
<1>3. LogOK' /\ ReaderOK'
  BY <1>1, LogKeeps, ReadersKeep DEF PagesInv
<1> QED BY <1>2, <1>3 DEF PagesInv, ClosedHasSuccessor, FilesInOrder

(* A step of a reader. *)
LEMMA ReaderMoves ==
    ASSUME PagesInv, UNCHANGED <<mem, file, writer, log>>, TypeOK', ReaderOK'
    PROVE  PagesInv'
<1>1. ChainMatchesLog'
  BY ChainKeeps DEF PagesInv
<1>2. LogOK'
  BY LogKeeps DEF PagesInv, FilesGrow
<1> QED BY <1>1, <1>2
        DEF PagesInv, ClosedHasSuccessor, FilesInOrder, WriterOn, WriterTurns,
            WriterFrame, ChainPoint, EndOf, Here, HasRoom

(* A step that stores in cells of the writer's page that are no frames. *)
LEMMA WriterStores ==
    ASSUME PagesInv, UNCHANGED <<file, reader, log>>,
           \A i \in 1..Len(log) : mem'[log[i].page][log[i].position]
                                    = mem[log[i].page][log[i].position],
           \A p \in Pages, a \in Cells :
             ChainPoint(p, a) /\ mem'[p][a].status = "WRITTEN"
               => mem[p][a].status = "WRITTEN",
           \A p \in Pages, a \in Cells :
             mem'[p][a].status = "PAGE_END"
               => mem[p][a].status = "PAGE_END"
                  \/ (p < MaxPage /\ file[p + 1] = "inited"),
           TypeOK', WriterOn', WriterTurns', WriterFrame'
    PROVE  PagesInv'
<1>1. FilesGrow
  BY DEF FilesGrow
<1>2. ChainMatchesLog'
  BY ChainKeeps DEF PagesInv
<1>3. LogOK' /\ ReaderOK'
  BY <1>1, LogKeeps, ReadersKeep DEF PagesInv
<1>4. ClosedHasSuccessor'
  BY DEF PagesInv, ClosedHasSuccessor
<1> QED BY <1>2, <1>3, <1>4 DEF PagesInv, FilesInOrder

(* A step that creates or initialises page q. *)
LEMMA FileStep ==
    ASSUME PagesInv, UNCHANGED <<mem, reader, log>>, NEW q \in Pages,
           NEW v \in {"raw", "inited"}, file' = [file EXCEPT ![q] = v],
           file[q] = "inited" => v = "inited",
           file[q] = "none" =>
             /\ \A p \in Pages : file[p] # "none" => p < q
             /\ q > 1 => file[q - 1] = "inited",
           TypeOK', WriterOn', WriterTurns', WriterFrame'
    PROVE  PagesInv'
<1>0. \A p \in Pages : file'[p] = IF p = q THEN v ELSE file[p]
  BY DEF PagesInv, TypeOK
<1>1. FilesGrow
  BY <1>0 DEF FilesGrow
<1>2. ChainMatchesLog'
  BY ChainKeeps DEF PagesInv
<1>3. LogOK' /\ ReaderOK'
  BY <1>1, LogKeeps, ReadersKeep DEF PagesInv
<1>4. ClosedHasSuccessor'
  <2>1. \A p \in Pages : p < MaxPage => p + 1 \in Pages
    BY PagesAssumption DEF Pages
  <2>2. \A p \in Pages : p > 1 => p - 1 \in Pages
    BY PagesAssumption DEF Pages
  <2> QED BY <1>0, <1>1, <2>1, <2>2 DEF PagesInv, ClosedHasSuccessor, FilesGrow
<1>5. FilesInOrder'
  <2>1. PICK n \in 0..MaxPage : \A p \in Pages : file[p] # "none" <=> p <= n
    BY DEF PagesInv, FilesInOrder
  <2>2. CASE file[q] # "none"
    BY <1>0, <2>1, <2>2 DEF FilesInOrder
  <2>3. CASE file[q] = "none"
    <3>1. q = 1 \/ q - 1 \in Pages
      BY PagesAssumption DEF Pages
    <3>2. q = n + 1
      BY <2>1, <2>3, <3>1, PagesAssumption DEF Pages
    <3>3. \A p \in Pages : file'[p] # "none" <=> p <= q
      BY <1>0, <2>1, <3>2 DEF Pages
    <3>4. q \in 0..MaxPage
      BY PagesAssumption DEF Pages
    <3> QED BY <3>3, <3>4 DEF FilesInOrder
  <2> QED BY <2>2, <2>3
<1> QED BY <1>2, <1>3, <1>4, <1>5 DEF PagesInv

-----------------------------------------------------------------------------
(* The actions of the writer. *)
LEMMA LastPageIs ==
    ASSUME TypeOK, FilesInOrder
    PROVE  /\ LastPage \in Pages
           /\ \A p \in Pages : file[p] # "none" => p <= LastPage
           /\ file[LastPage] = "none" =>
                LastPage = 1 /\ \A p \in Pages : file[p] = "none"
<1>1. PICK n \in 0..MaxPage : \A p \in Pages : file[p] # "none" <=> p <= n
  BY DEF FilesInOrder
<1>2. CASE n = 0
  <2>1. \A p \in Pages : file[p] = "none"
    BY <1>1, <1>2 DEF Pages
  <2>2. LastPage = 1
    BY <2>1 DEF LastPage, Existing
  <2> QED BY <2>1, <2>2, PagesAssumption DEF Pages
<1>3. CASE n # 0
  <2>1. n \in Existing /\ \A q \in Existing : q <= n
    BY <1>1, <1>3, PagesAssumption DEF Existing, Pages
  <2>2. LastPage \in Existing /\ \A q \in Existing : q <= LastPage
    BY <2>1 DEF LastPage
  <2> QED BY <2>2 DEF Existing
<1> QED BY <1>2, <1>3

LEMMA StartWriterInv == ASSUME PagesInv, StartWriter PROVE PagesInv'
<1> DEFINE q == LastPage
<1> DEFINE v == IF file[q] = "none" THEN "raw" ELSE file[q]
<1>1. /\ q \in Pages /\ \A p \in Pages : file[p] # "none" => p <= q
      /\ file[q] = "none" => q = 1 /\ \A p \in Pages : file[p] = "none"
  BY LastPageIs DEF PagesInv
<1>2. /\ writer' = [Off EXCEPT !.pc = "load", !.page = q]
      /\ UNCHANGED <<mem, reader, out, log, crashes>>
      /\ file' = [file EXCEPT ![q] = v]
  BY DEF StartWriter, readVars
<1> HIDE DEF q
<1>3. v \in {"raw", "inited"} /\ (file[q] = "inited" => v = "inited")
  BY <1>1 DEF PagesInv, TypeOK
<1>4. /\ writer'.pc = "load" /\ writer'.page = q
      /\ writer'.position = 0 /\ writer'.length = 0
      /\ writer' = [pc |-> "load", page |-> q, position |-> 0, length |-> 0]
  BY <1>2 DEF Off
<1>5. file'[q] = v /\ \A p \in Pages : p # q => file'[p] = file[p]
  BY <1>1, <1>2 DEF PagesInv, TypeOK
<1> HIDE DEF v
<1>6. TypeOK'
  <2>1. q \in 0..MaxPage /\ 0 \in Cells /\ 0 \in 0..MaxFrame
    BY <1>1, PagesAssumption DEF Cells, Pages
  <2>2. file' \in [Pages -> {"none", "raw", "inited"}]
    BY <1>2, <1>3 DEF PagesInv, TypeOK
  <2> QED BY <1>2, <1>4, <2>1, <2>2 DEF PagesInv, TypeOK
<1>7. WriterOn' /\ WriterTurns' /\ WriterFrame'
  BY <1>1, <1>3, <1>4, <1>5 DEF WriterOn, WriterTurns, WriterFrame, ChainPoint,
                                Turning, Appending
<1>8. file[q] = "none" => /\ \A p \in Pages : file[p] # "none" => p < q
                          /\ q > 1 => file[q - 1] = "inited"
  BY <1>1
<1> QED BY <1>1, <1>2, <1>3, <1>6, <1>7, <1>8, FileStep

LEMMA LoadPageInv == ASSUME PagesInv, LoadPage PROVE PagesInv'
<1>1. /\ writer.pc = "load" /\ writer' = [writer EXCEPT !.pc = "locate"]
      /\ UNCHANGED <<mem, reader, out, log, crashes>>
      /\ file' = [file EXCEPT ![writer.page] = "inited"]
  BY DEF LoadPage, WriterAt, WriterGoes, readVars
<1>2. /\ writer.page \in Pages /\ file[writer.page] # "none"
      /\ ChainPoint(writer.page, writer.position)
      /\ \A p \in Pages : file[p] # "none" => p <= writer.page
  BY <1>1 DEF PagesInv, WriterOn, Turning
<1>3. /\ writer'.pc = "locate" /\ writer'.page = writer.page
      /\ writer'.position = writer.position /\ writer'.length = writer.length
  BY <1>1 DEF PagesInv, TypeOK
<1>4. file'[writer.page] = "inited"
      /\ \A p \in Pages : p # writer.page => file'[p] = file[p]
  BY <1>1, <1>2 DEF PagesInv, TypeOK
<1>5. TypeOK'
  BY <1>1 DEF PagesInv, TypeOK
<1>6. ChainPoint(writer.page, writer.position)'
  BY <1>1, <1>2, <1>3 DEF ChainPoint, EndOf
<1>7. WriterOn' /\ WriterTurns' /\ WriterFrame'
  BY <1>1, <1>2, <1>3, <1>4, <1>6
     DEF WriterOn, WriterTurns, WriterFrame, Turning, Appending, PagesInv
<1> QED BY <1>1, <1>2, <1>5, <1>7, FileStep

LEMMA PassWrittenFrameInv == ASSUME PagesInv, PassWrittenFrame PROVE PagesInv'
<1>1. /\ writer.pc = "locate" /\ Here.status = "WRITTEN"
      /\ writer' = [writer EXCEPT !.position = @ + Here.length]
      /\ UNCHANGED <<mem, file, reader, out, log, crashes>>
  BY DEF PassWrittenFrame, WriterAt, readVars
<1>2. /\ writer.page \in Pages /\ file[writer.page] = "inited"
      /\ ChainPoint(writer.page, writer.position) /\ writer.position \in Cells
      /\ \A p \in Pages : file[p] # "none" => p <= writer.page
  BY <1>1 DEF PagesInv, WriterOn, Turning, TypeOK
<1>3. /\ writer.position + Here.length \in Cells
      /\ ChainPoint(writer.page, writer.position + Here.length)
  BY <1>1, <1>2, FrameFound DEF Here, PagesInv
<1>4. /\ writer'.pc = "locate" /\ writer'.page = writer.page
      /\ writer'.position = writer.position + Here.length
      /\ writer'.length = writer.length
  BY <1>1 DEF PagesInv, TypeOK
<1>5. TypeOK'
  BY <1>1, <1>3 DEF PagesInv, TypeOK
<1>6. ChainPoint(writer.page, writer.position)'
  BY <1>1, <1>3, <1>4 DEF ChainPoint, EndOf
<1>7. WriterOn' /\ WriterTurns' /\ WriterFrame'
  BY <1>1, <1>2, <1>4, <1>6
     DEF WriterOn, WriterTurns, WriterFrame, Turning, Appending, PagesInv
<1> QED BY <1>1, <1>5, <1>7, WriterMoves

(* A step of the writer that changes its pc and length only. *)
LEMMA PcMoves ==
    ASSUME PagesInv, UNCHANGED <<mem, file, reader, out, log, crashes>>,
           writer.pc \notin {"off", "load"} \cup Turning,
           NEW w \in {"locate", "idle", "data"}, NEW n \in 0..MaxFrame,
           writer' = [writer EXCEPT !.pc = w, !.length = n],
           n > 0 => Len(log) < MaxLog,
           w # "locate" => Here.status = "RAW",
           w = "data" => HasRoom /\ n > 0
    PROVE  PagesInv'
<1>1. /\ writer'.pc = w /\ writer'.page = writer.page
      /\ writer'.position = writer.position /\ writer'.length = n
  BY DEF PagesInv, TypeOK
<1>2. TypeOK'
  BY DEF PagesInv, TypeOK
<1>3. Here' = Here /\ HasRoom' = HasRoom
  BY <1>1 DEF Here, HasRoom
<1>4. WriterOn' /\ WriterTurns' /\ WriterFrame'
  BY <1>1, <1>3 DEF PagesInv, WriterOn, WriterTurns, WriterFrame, Turning,
                    Appending, ChainPoint, EndOf
<1> QED BY <1>2, <1>4, WriterMoves

LEMMA LocateWritableFrameInv ==
    ASSUME PagesInv, LocateWritableFrame PROVE PagesInv'
<1> DEFINE w == IF writer.length = 0 THEN "idle" ELSE "data"
<1>1. /\ writer' = [writer EXCEPT !.pc = w, !.length = writer.length]
      /\ writer.length \in 0..MaxFrame
  BY DEF LocateWritableFrame, WriterGoes, PagesInv, TypeOK
<1>2. /\ w = "data" => HasRoom /\ writer.length > 0
      /\ Here.status = "RAW" /\ writer.pc = "locate"
      /\ writer.length > 0 => Len(log) < MaxLog
  BY <1>1, PagesAssumption DEF LocateWritableFrame, PagesInv, WriterFrame, WriterAt
<1>3. w \in {"locate", "idle", "data"}
  OBVIOUS
<1> HIDE DEF w
<1> QED BY <1>1, <1>2, <1>3, PcMoves DEF LocateWritableFrame, readVars, Turning

LEMMA WriteFrameInv ==
    ASSUME PagesInv, NEW n \in 1..MaxFrame, WriteFrame(n) PROVE PagesInv'
<1>1. n \in 0..MaxFrame
  BY PagesAssumption
<1> QED BY <1>1, PcMoves DEF WriteFrame, WriterAt, readVars, Turning

LEMMA DropFrameInv == ASSUME PagesInv, DropFrame PROVE PagesInv'
<1>1. /\ Here.status = "RAW" /\ 0 \in 0..MaxFrame /\ "idle" \in {"locate", "idle", "data"}
      /\ writer.pc \notin {"off", "load"} \cup Turning
      /\ writer' = [writer EXCEPT !.pc = "idle", !.length = 0]
      /\ ~(0 > 0) /\ "idle" # "data"
      /\ UNCHANGED <<mem, file, reader, out, log, crashes>>
  BY PagesAssumption DEF DropFrame, PagesInv, WriterFrame, Appending, readVars, Turning
<1> QED BY <1>1, PcMoves

LEMMA CrashInv == ASSUME PagesInv, Crash PROVE PagesInv'
<1>1. writer'.pc = "off" /\ writer'.length = 0
  BY DEF Crash, Off
<1>2. WriterOn' /\ WriterTurns' /\ WriterFrame'
  BY <1>1 DEF WriterOn, WriterTurns, WriterFrame, Turning, Appending
<1>3. TypeOK'
  BY PagesAssumption DEF PagesInv, TypeOK, Crash, Off, NoPage, Cells, readVars
<1> QED BY <1>2, <1>3, WriterMoves DEF Crash, readVars

LEMMA LoadNextPageInv == ASSUME PagesInv, LoadNextPage PROVE PagesInv'
<1> DEFINE q == writer.page + 1
<1> DEFINE v == IF file[q] = "none" THEN "raw" ELSE file[q]
<1>1. /\ writer.pc = "locate" /\ Here.status # "WRITTEN"
      /\ writer' = [writer EXCEPT !.pc = "loadnext"]
      /\ UNCHANGED <<mem, reader, out, log, crashes>>
      /\ file' = [file EXCEPT ![q] = v] /\ writer.page < MaxPage
  BY DEF LoadNextPage, WriterAt, WriterGoes, readVars
<1>2. /\ writer.page \in Pages /\ file[writer.page] = "inited"
      /\ ChainPoint(writer.page, writer.position)
      /\ \A p \in Pages : file[p] # "none" => p <= writer.page
  BY <1>1 DEF PagesInv, WriterOn, Turning
<1>3. q \in Pages /\ q - 1 = writer.page /\ q > writer.page /\ q # writer.page
  BY <1>1, <1>2, PagesAssumption DEF Pages
<1>4. v \in {"raw", "inited"} /\ (file[q] = "inited" => v = "inited")
  BY <1>3 DEF PagesInv, TypeOK
<1>5. /\ writer'.pc = "loadnext" /\ writer'.page = writer.page
      /\ writer'.position = writer.position /\ writer'.length = writer.length
  BY <1>1 DEF PagesInv, TypeOK
<1>6. file'[q] = v /\ \A p \in Pages : p # q => file'[p] = file[p]
  BY <1>1, <1>3 DEF PagesInv, TypeOK
<1> HIDE DEF v
<1>7. TypeOK'
  BY <1>1, <1>3, <1>4 DEF PagesInv, TypeOK
<1>8. ChainPoint(writer.page, writer.position)' /\ Here' = Here
  BY <1>1, <1>2, <1>5 DEF ChainPoint, EndOf, Here
<1>9. WriterOn'
  BY <1>2, <1>3, <1>5, <1>6, <1>8 DEF WriterOn, Turning
<1>10. \A p \in Pages : file'[p] # "none" => p <= q
  BY <1>2, <1>3, <1>6 DEF Pages
<1>11. WriterTurns' /\ WriterFrame'
  BY <1>1, <1>3, <1>4, <1>5, <1>6, <1>8, <1>10
     DEF WriterTurns, WriterFrame, Turning, Appending, PagesInv
<1>12. file[q] = "none" => /\ \A p \in Pages : file[p] # "none" => p < q
                           /\ q > 1 => file[q - 1] = "inited"
  BY <1>2, <1>3 DEF Pages
<1> QED BY <1>1, <1>3, <1>4, <1>7, <1>9, <1>11, <1>12, FileStep

LEMMA LoadNewPageInv == ASSUME PagesInv, LoadNewPage PROVE PagesInv'
<1> DEFINE q == writer.page + 1
<1>1. /\ writer.pc = "loadnext" /\ writer' = [writer EXCEPT !.pc = "finish"]
      /\ UNCHANGED <<mem, reader, out, log, crashes>>
      /\ file' = [file EXCEPT ![q] = "inited"]
  BY DEF LoadNewPage, WriterAt, WriterGoes, readVars
<1>2. /\ writer.page \in Pages /\ file[writer.page] = "inited"
      /\ ChainPoint(writer.page, writer.position)
      /\ q \in Pages /\ file[q] # "none" /\ Here.status # "WRITTEN"
      /\ \A p \in Pages : file[p] # "none" => p <= q
  BY <1>1 DEF PagesInv, WriterOn, WriterTurns, Turning
<1>3. /\ writer'.pc = "finish" /\ writer'.page = writer.page
      /\ writer'.position = writer.position /\ writer'.length = writer.length
  BY <1>1 DEF PagesInv, TypeOK
<1>4. /\ file'[q] = "inited" /\ \A p \in Pages : p # q => file'[p] = file[p]
      /\ q # writer.page
  BY <1>1, <1>2 DEF PagesInv, TypeOK, Pages
<1>5. TypeOK'
  BY <1>1, <1>2 DEF PagesInv, TypeOK
<1>6. ChainPoint(writer.page, writer.position)' /\ Here' = Here
  BY <1>1, <1>2, <1>3 DEF ChainPoint, EndOf, Here
<1>7. WriterOn' /\ WriterTurns' /\ WriterFrame'
  BY <1>1, <1>2, <1>3, <1>4, <1>6
     DEF WriterOn, WriterTurns, WriterFrame, Turning, Appending, PagesInv
<1> HIDE DEF q
<1> QED BY <1>1, <1>2, <1>5, <1>7, FileStep

-----------------------------------------------------------------------------
(* One cell of the writer's page is stored. *)
LEMMA StoreIs ==
    ASSUME TypeOK, writer.page \in Pages, NEW a \in Cells, NEW c \in Cell,
           Store(a, c)
    PROVE  /\ mem' \in [Pages -> [Cells -> Cell]]
           /\ mem'[writer.page][a] = c
           /\ \A p \in Pages, b \in Cells :
                p # writer.page \/ b # a => mem'[p][b] = mem[p][b]
BY DEF TypeOK, Store

(* The writer's own cell, which holds no frame, is stored and not WRITTEN. *)
LEMMA HereStored ==
    ASSUME PagesInv, UNCHANGED <<file, reader, log>>, writer.page \in Pages,
           Here.status # "WRITTEN",
           NEW c \in Cell, c.status # "WRITTEN", Store(writer.position, c),
           c.status = "PAGE_END" =>
             writer.page < MaxPage /\ file[writer.page + 1] = "inited",
           TypeOK', WriterOn', WriterTurns', WriterFrame'
    PROVE  PagesInv'
<1>1. TypeOK /\ writer.position \in Cells
  BY DEF PagesInv, TypeOK
<1>2. /\ mem'[writer.page][writer.position] = c
      /\ \A p \in Pages, b \in Cells :
           p # writer.page \/ b # writer.position => mem'[p][b] = mem[p][b]
  BY <1>1, StoreIs
<1>3. ASSUME NEW i \in 1..Len(log)
      PROVE  mem'[log[i].page][log[i].position] = mem[log[i].page][log[i].position]
  <2>1. /\ log[i].page \in Pages /\ log[i].position \in Cells
        /\ mem[log[i].page][log[i].position].status = "WRITTEN"
    BY <1>1, LogTypes, LogOrder DEF PagesInv
  <2> QED BY <1>2, <2>1 DEF Here
<1> QED BY <1>2, <1>3, WriterStores

LEMMA FinishPageInv == ASSUME PagesInv, FinishPage PROVE PagesInv'
<1> DEFINE c == [Here EXCEPT !.status = "PAGE_END"]
<1>1. /\ writer.pc = "finish" /\ Store(writer.position, c)
      /\ writer' = [writer EXCEPT !.pc = "locate", !.page = @ + 1, !.position = 0]
      /\ UNCHANGED <<file, reader, out, log, crashes>>
  BY DEF FinishPage, WriterAt, readVars
<1>2. /\ writer.page \in Pages /\ writer.page + 1 \in Pages
      /\ file[writer.page + 1] = "inited" /\ Here.status # "WRITTEN"
      /\ \A p \in Pages : file[p] # "none" => p <= writer.page + 1
      /\ writer.position \in Cells /\ writer.page < MaxPage
  BY <1>1, PagesAssumption DEF PagesInv, WriterOn, WriterTurns, Turning, TypeOK, Pages
<1>3. c \in Cell /\ c.status = "PAGE_END"
  <2>1. Here \in Cell
    BY <1>2 DEF PagesInv, TypeOK, Here
  <2> QED BY <2>1 DEF Cell
<1> HIDE DEF c
<1>4. /\ writer'.pc = "locate" /\ writer'.page = writer.page + 1
      /\ writer'.position = 0 /\ writer'.length = writer.length
  BY <1>1 DEF PagesInv, TypeOK
<1>5. mem' \in [Pages -> [Cells -> Cell]]
  BY <1>1, <1>2, <1>3, StoreIs DEF PagesInv
<1>6. TypeOK'
  <2>1. writer.page + 1 \in 0..MaxPage /\ 0 \in Cells
    BY <1>2, PagesAssumption DEF Cells, Pages
  <2> QED BY <1>1, <1>5, <2>1 DEF PagesInv, TypeOK
<1>7. WriterOn' /\ WriterTurns' /\ WriterFrame'
  BY <1>1, <1>2, <1>4
     DEF WriterOn, WriterTurns, WriterFrame, Turning, Appending, PagesInv, ChainPoint
<1> QED BY <1>1, <1>2, <1>3, <1>6, <1>7, HereStored

(* The writer before the commit of a frame. *)
LEMMA AppendingAt ==
    ASSUME PagesInv, writer.pc \in Appending
    PROVE  /\ writer.page \in Pages /\ writer.position \in Cells
           /\ file[writer.page] = "inited"
           /\ ChainPoint(writer.page, writer.position)
           /\ \A p \in Pages : file[p] # "none" => p <= writer.page
           /\ Here \in Cell /\ Here.status = "RAW"
           /\ writer.length \in 1..MaxFrame /\ Len(log) < MaxLog
           /\ Len(log) + 1 \in Nat
           /\ writer.position + Headroom < PageSize
           /\ writer.pc = "commit" => writer.position + writer.length \in Cells
<1>1. /\ writer.page \in Pages /\ file[writer.page] = "inited"
      /\ ChainPoint(writer.page, writer.position)
      /\ \A p \in Pages : file[p] # "none" => p <= writer.page
  BY DEF PagesInv, WriterOn, Turning, Appending
<1>2. /\ writer.position \in Cells /\ writer.length \in 0..MaxFrame
      /\ Here \in Cell /\ Len(log) \in Nat
  BY <1>1, LogTypes DEF PagesInv, TypeOK, Here
<1>3. Here.status = "RAW" /\ HasRoom /\ writer.length > 0 /\ Len(log) < MaxLog
  BY DEF PagesInv, WriterFrame
<1>4. /\ writer.length \in 1..MaxFrame /\ writer.position + Headroom < PageSize
      /\ writer.pc = "commit" => writer.position + writer.length \in Cells
  BY <1>2, <1>3, PagesAssumption DEF HasRoom, PagesInv, WriterFrame
<1> QED BY <1>1, <1>2, <1>3, <1>4

LEMMA LocateFrameInv == ASSUME PagesInv, LocateFrame PROVE PagesInv'
<1> DEFINE c == [Here EXCEPT !.nano = Len(log) + 1]
<1>1. /\ writer.pc = "data" /\ Store(writer.position, c)
      /\ UNCHANGED <<file, writer, reader, out, log, crashes>>
  BY DEF LocateFrame, WriterAt, readVars
<1>2. /\ writer.page \in Pages /\ writer.position \in Cells
      /\ Here \in Cell /\ Here.status = "RAW" /\ Len(log) + 1 \in Nat
  BY <1>1, AppendingAt DEF Appending
<1>3. c \in Cell /\ c.status = "RAW"
  BY <1>2 DEF Cell
<1> HIDE DEF c
<1>4. mem' \in [Pages -> [Cells -> Cell]] /\ Here' = c
  BY <1>1, <1>2, <1>3, StoreIs DEF PagesInv, Here
<1>5. TypeOK'
  BY <1>1, <1>4 DEF PagesInv, TypeOK
<1>6. WriterOn' /\ WriterTurns' /\ WriterFrame'
  BY <1>1, <1>3, <1>4
     DEF WriterOn, WriterTurns, WriterFrame, Turning, Appending, PagesInv,
         ChainPoint, EndOf, HasRoom
<1> QED BY <1>1, <1>2, <1>3, <1>5, <1>6, HereStored

LEMMA WriteHeaderInv == ASSUME PagesInv, WriteHeader PROVE PagesInv'
<1> DEFINE c == [Here EXCEPT !.length = writer.length, !.nano = Len(log) + 1]
<1>1. /\ writer.pc = "header" /\ Store(writer.position, c)
      /\ writer' = [writer EXCEPT !.pc = "clear"]
      /\ UNCHANGED <<file, reader, out, log, crashes>>
  BY DEF WriteHeader, WriterAt, WriterGoes, readVars
<1>2. /\ writer.page \in Pages /\ writer.position \in Cells
      /\ Here \in Cell /\ Here.status = "RAW" /\ Len(log) + 1 \in Nat
      /\ writer.length \in 0..MaxFrame
  BY <1>1, AppendingAt, PagesAssumption DEF Appending
<1>3. /\ c \in Cell /\ c.status = "RAW" /\ c.length = writer.length
      /\ c.nano = Len(log) + 1
  BY <1>2 DEF Cell
<1> HIDE DEF c
<1>4. /\ writer'.pc = "clear" /\ writer'.page = writer.page
      /\ writer'.position = writer.position /\ writer'.length = writer.length
  BY <1>1 DEF PagesInv, TypeOK
<1>5. mem' \in [Pages -> [Cells -> Cell]] /\ Here' = c
  BY <1>1, <1>2, <1>3, <1>4, StoreIs DEF PagesInv, Here
<1>6. TypeOK'
  BY <1>1, <1>5 DEF PagesInv, TypeOK
<1>7. WriterOn' /\ WriterTurns' /\ WriterFrame'
  BY <1>1, <1>3, <1>4, <1>5
     DEF WriterOn, WriterTurns, WriterFrame, Turning, Appending, PagesInv,
         ChainPoint, EndOf, HasRoom
<1> QED BY <1>1, <1>2, <1>3, <1>6, <1>7, HereStored

(* All the frames of the writer's page end before the one being written. *)
LEMMA FramesBehind ==
    ASSUME PagesInv, writer.pc \in Appending
    PROVE  /\ \A i \in 1..Len(log) :
                /\ log[i].page \in Pages /\ log[i].position \in Cells
                /\ log[i].page <= writer.page
                /\ log[i].page = writer.page =>
                     EndOf(i) <= writer.position /\ log[i].position < writer.position
           /\ \A a \in Cells : ChainPoint(writer.page, a) => a <= writer.position
<1>1. /\ writer.page \in Pages /\ writer.position \in Cells
      /\ ChainPoint(writer.page, writer.position)
      /\ mem[writer.page][writer.position].status # "WRITTEN"
      /\ \A p \in Pages : file[p] # "none" => p <= writer.page
  BY AppendingAt DEF Here
<1>2. ASSUME NEW i \in 1..Len(log)
      PROVE  /\ log[i].page \in Pages /\ log[i].position \in Cells
             /\ log[i].page <= writer.page
             /\ log[i].page = writer.page =>
                  EndOf(i) <= writer.position /\ log[i].position < writer.position
  <2>1. /\ log[i].page \in Pages /\ log[i].position \in Cells
        /\ log[i].position \in Nat /\ EndOf(i) \in Nat /\ log[i].position < EndOf(i)
    BY LogTypes DEF PagesInv
  <2>2. log[i].page <= writer.page
    BY <1>1, <2>1 DEF PagesInv, LogOK
  <2>3. log[i].page = writer.page => EndOf(i) <= writer.position
    BY <1>1, ChainEnd DEF PagesInv
  <2> QED BY <1>1, <2>1, <2>2, <2>3, PagesAssumption DEF Cells
<1>3. \A a \in Cells : ChainPoint(writer.page, a) => a <= writer.position
  BY <1>1, <1>2, PagesAssumption DEF ChainPoint, Cells
<1> QED BY <1>2, <1>3

LEMMA WriteDataInv == ASSUME PagesInv, WriteData PROVE PagesInv'
<1> DEFINE w == IF writer.position + writer.length > PageSize THEN "overrun"
                ELSE "header"
<1>1. /\ writer.pc = "data" /\ writer' = [writer EXCEPT !.pc = w]
      /\ UNCHANGED <<file, reader, out, log, crashes>>
  BY DEF WriteData, WriterAt, WriterGoes, readVars
<1>2. /\ writer.page \in Pages /\ writer.position \in Cells /\ Here.status = "RAW"
  BY <1>1, AppendingAt DEF Appending
<1>3. /\ mem' \in [Pages -> [Cells -> Cell]]
      /\ \A p \in Pages, a \in Cells :
           mem'[p][a] = IF /\ p = writer.page /\ a > writer.position
                           /\ a < writer.position + writer.length
                        THEN Payload ELSE mem[p][a]
  <2>1. Payload \in Cell
    BY PagesAssumption DEF Payload, Cell
  <2> QED BY <1>2, <2>1 DEF WriteData, PagesInv, TypeOK
<1>w. w \in {"header", "overrun"} /\ (w = "overrun" => writer.length > Headroom)
  <2>1. /\ writer.position \in Nat /\ writer.length \in Nat
        /\ writer.position + Headroom < PageSize
    BY <1>1, AppendingAt, PagesAssumption DEF Appending, Cells
  <2> QED BY <2>1, PagesAssumption
<1> HIDE DEF w
<1>4. /\ writer'.pc = w /\ writer'.page = writer.page
      /\ writer'.position = writer.position /\ writer'.length = writer.length
  BY <1>1 DEF PagesInv, TypeOK
<1>5. Here' = Here
  BY <1>2, <1>3, <1>4, PagesAssumption DEF Here, Cells
<1>6. TypeOK'
  BY <1>1, <1>3, <1>w DEF PagesInv, TypeOK
<1>7. WriterOn' /\ WriterTurns' /\ WriterFrame'
  BY <1>1, <1>4, <1>5, <1>w
     DEF WriterOn, WriterTurns, WriterFrame, Turning, Appending, PagesInv,
         ChainPoint, EndOf, HasRoom
<1>8. \A i \in 1..Len(log) : mem'[log[i].page][log[i].position]
                               = mem[log[i].page][log[i].position]
  <2>1. ASSUME NEW i \in 1..Len(log), log[i].page = writer.page
        PROVE  ~(log[i].position > writer.position)
    <3>1. log[i].position \in Cells /\ log[i].position < writer.position
      BY <1>1, <2>1, FramesBehind DEF Appending
    <3> QED BY <1>2, <3>1, PagesAssumption DEF Cells
  <2>2. \A i \in 1..Len(log) : log[i].page \in Pages /\ log[i].position \in Cells
    BY LogTypes DEF PagesInv
  <2> QED BY <1>3, <2>1, <2>2
<1>9. \A p \in Pages, a \in Cells : ChainPoint(p, a) => mem'[p][a] = mem[p][a]
  BY <1>1, <1>2, <1>3, FramesBehind, PagesAssumption DEF Appending, Cells
<1>10. \A p \in Pages, a \in Cells :
         mem'[p][a].status = "PAGE_END" => mem[p][a].status = "PAGE_END"
  BY <1>3 DEF Payload
<1> QED BY <1>1, <1>6, <1>7, <1>8, <1>9, <1>10, WriterStores

LEMMA ClearNextEntryInv == ASSUME PagesInv, ClearNextEntry PROVE PagesInv'
<1> DEFINE e == writer.position + writer.length
           w == IF e \in Cells THEN "commit" ELSE "overrun"
<1>0. writer.pc = "clear" /\ Here.length = writer.length
  BY DEF ClearNextEntry, WriterAt, PagesInv, WriterFrame
<1>1. /\ writer.pc = "clear" /\ writer' = [writer EXCEPT !.pc = w]
      /\ UNCHANGED <<file, reader, out, log, crashes>>
  BY <1>0 DEF ClearNextEntry, WriterAt, WriterGoes, readVars
<1>2. /\ writer.page \in Pages /\ writer.position \in Cells /\ Here.status = "RAW"
      /\ e > writer.position /\ Here.length = writer.length
      /\ e # writer.position
  BY <1>0, AppendingAt, PagesAssumption DEF Appending, Cells
<1>w. /\ w \in {"commit", "overrun"} /\ (w = "commit" => e \in Cells)
      /\ w = "overrun" => writer.length > Headroom
  <2>1. /\ writer.position \in Nat /\ writer.length \in Nat
        /\ writer.position + Headroom < PageSize
    BY <1>0, AppendingAt, PagesAssumption DEF Appending, Cells
  <2> QED BY <2>1, PagesAssumption DEF Cells
<1>3. /\ mem' \in [Pages -> [Cells -> Cell]]
      /\ \A p \in Pages, a \in Cells :
           mem'[p][a] = IF p = writer.page /\ a = e
                        THEN [mem[p][a] EXCEPT !.status = "RAW"] ELSE mem[p][a]
  <2>1. \A c \in Cell : [c EXCEPT !.status = "RAW"] \in Cell
    BY DEF Cell
  <2>2. mem \in [Pages -> [Cells -> Cell]]
    BY DEF PagesInv, TypeOK
  <2> QED BY <1>2, <2>1, <2>2 DEF ClearNextEntry
<1> HIDE DEF e, w
<1>4. /\ writer'.pc = w /\ writer'.page = writer.page
      /\ writer'.position = writer.position /\ writer'.length = writer.length
  BY <1>1 DEF PagesInv, TypeOK
<1>5. Here' = Here
  BY <1>2, <1>3, <1>4 DEF Here
<1>6. TypeOK'
  BY <1>1, <1>3, <1>w DEF PagesInv, TypeOK
<1>7. ASSUME NEW p \in Pages, NEW a \in Cells
      PROVE  /\ mem[p][a] \in Cell
             /\ mem'[p][a].status \in {mem[p][a].status, "RAW"}
  <2>1. mem[p][a] \in Cell
    BY DEF PagesInv, TypeOK
  <2>2. [mem[p][a] EXCEPT !.status = "RAW"].status = "RAW"
    BY <2>1 DEF Cell
  <2> QED BY <1>3, <2>1, <2>2
<1>8. e \in Cells => mem'[writer.page][e].status = "RAW"
  <2>1. e \in Cells => mem[writer.page][e] \in Cell
    BY <1>2, <1>7
  <2> QED BY <1>2, <1>3, <2>1 DEF Cell
<1>9. WriterOn' /\ WriterTurns' /\ WriterFrame'
  BY <1>1, <1>4, <1>5, <1>8, <1>w
     DEF WriterOn, WriterTurns, WriterFrame, Turning, Appending, PagesInv,
         ChainPoint, EndOf, HasRoom, e
<1>10. \A i \in 1..Len(log) : mem'[log[i].page][log[i].position]
                                = mem[log[i].page][log[i].position]
  <2>1. ASSUME NEW i \in 1..Len(log), log[i].page = writer.page
        PROVE  log[i].position # e
    <3>1. log[i].position \in Cells /\ log[i].position < writer.position
      BY <1>1, <2>1, FramesBehind DEF Appending
    <3> QED BY <1>2, <3>1, PagesAssumption DEF Cells
  <2>2. \A i \in 1..Len(log) : log[i].page \in Pages /\ log[i].position \in Cells
    BY LogTypes DEF PagesInv
  <2> QED BY <1>3, <2>1, <2>2
<1> QED BY <1>1, <1>6, <1>7, <1>9, <1>10, WriterStores

-----------------------------------------------------------------------------
(* The commit: one more frame, after all the others. *)
NewFrame == [page |-> writer.page, position |-> writer.position,
             length |-> writer.length, nano |-> Len(log) + 1]

LEMMA Committed ==
    ASSUME PagesInv, SetStatusWritten
    PROVE  /\ writer.pc \in Appending /\ writer.pc = "commit"
           /\ log' = Append(log, NewFrame)
           /\ Len(log') = Len(log) + 1 /\ log'[Len(log) + 1] = NewFrame
           /\ \A i \in 1..Len(log) : log'[i] = log[i]
           /\ NewFrame \in [page : Pages, position : Cells, length : 1..MaxFrame,
                            nano : Nat]
           /\ writer' = [pc |-> "idle", page |-> writer.page, length |-> 0,
                         position |-> writer.position + writer.length]
           /\ mem' \in [Pages -> [Cells -> Cell]]
           /\ mem'[writer.page][writer.position] =
                [status |-> "WRITTEN", length |-> writer.length, nano |-> Len(log) + 1]
           /\ \A p \in Pages, a \in Cells :
                p # writer.page \/ a # writer.position => mem'[p][a] = mem[p][a]
           /\ UNCHANGED <<file, reader, out, crashes>>
<1>1. writer.pc = "commit" /\ writer.pc \in Appending
  BY DEF SetStatusWritten, WriterAt, Appending
<1>2. Here.length = writer.length /\ Here.nano = Len(log) + 1
  BY <1>1 DEF PagesInv, WriterFrame
<1>3. /\ writer.page \in Pages /\ writer.position \in Cells /\ Here \in Cell
      /\ writer.length \in 1..MaxFrame /\ Len(log) + 1 \in Nat
  BY <1>1, AppendingAt
<1>4. log \in Seq([page : Pages, position : Cells, length : 1..MaxFrame, nano : Nat])
  BY DEF PagesInv, TypeOK
<1>5. log' = Append(log, NewFrame)
  BY <1>2 DEF SetStatusWritten, NewFrame
<1>6. NewFrame \in [page : Pages, position : Cells, length : 1..MaxFrame, nano : Nat]
  BY <1>3 DEF NewFrame
<1>7. /\ Len(log') = Len(log) + 1 /\ log'[Len(log) + 1] = NewFrame
      /\ \A i \in 1..Len(log) : log'[i] = log[i]
  <2> HIDE DEF NewFrame
  <2> QED BY <1>4, <1>5, <1>6
<1>8. writer' = [pc |-> "idle", page |-> writer.page, length |-> 0,
                 position |-> writer.position + writer.length]
  BY <1>2 DEF SetStatusWritten, PagesInv, TypeOK
<1>9. [Here EXCEPT !.status = "WRITTEN"] =
        [status |-> "WRITTEN", length |-> writer.length, nano |-> Len(log) + 1]
  BY <1>2, <1>3 DEF Cell
<1>10. [Here EXCEPT !.status = "WRITTEN"] \in Cell
  BY <1>3 DEF Cell
<1>11. Store(writer.position, [Here EXCEPT !.status = "WRITTEN"])
  BY DEF SetStatusWritten
<1>12. /\ mem' \in [Pages -> [Cells -> Cell]]
       /\ mem'[writer.page][writer.position] = [Here EXCEPT !.status = "WRITTEN"]
       /\ \A p \in Pages, a \in Cells :
            p # writer.page \/ a # writer.position => mem'[p][a] = mem[p][a]
  BY <1>3, <1>10, <1>11, StoreIs DEF PagesInv
<1> QED BY <1>1, <1>5, <1>6, <1>7, <1>8, <1>9, <1>12 DEF SetStatusWritten, readVars

LEMMA CommitChain ==
    ASSUME PagesInv, SetStatusWritten PROVE ChainMatchesLog'
<1> DEFINE e == writer.position + writer.length
<1>n. PICK n \in Nat : n = Len(log) + 1
  BY LogTypes DEF PagesInv
<1>0. /\ n = Len(log) + 1
      /\ writer.page \in Pages /\ writer.position \in Cells /\ e \in Cells
      /\ writer.length \in 1..MaxFrame /\ ChainPoint(writer.page, writer.position)
      /\ Len(log) \in Nat /\ e > writer.position /\ e # writer.position
  <2>1. /\ writer.page \in Pages /\ writer.position \in Cells /\ e \in Cells
        /\ writer.length \in 1..MaxFrame /\ ChainPoint(writer.page, writer.position)
    <3>1. writer.pc \in Appending /\ writer.pc = "commit"
      BY Committed
    <3> QED BY <3>1, AppendingAt
  <2>2. Len(log) \in Nat
    BY LogTypes DEF PagesInv
  <2>3. e > writer.position /\ e # writer.position
    BY <2>1, PagesAssumption DEF Cells
  <2> QED BY <1>n, <2>1, <2>2, <2>3
<1>1. /\ Len(log') = n /\ log'[n].page = writer.page /\ log'[n].length = writer.length
      /\ log'[n].position = writer.position /\ log'[n].nano = n
      /\ \A i \in 1..Len(log) : log'[i] = log[i] /\ EndOf(i)' = EndOf(i)
      /\ EndOf(n)' = e
  BY <1>n, Committed DEF NewFrame, EndOf
<1>2. \A i \in 1..Len(log) :
        /\ log[i].page \in Pages /\ log[i].position \in Cells
        /\ log[i].page <= writer.page
        /\ log[i].page = writer.page =>
             EndOf(i) <= writer.position /\ log[i].position < writer.position
  BY Committed, FramesBehind
<1>3. \A i \in 1..n : i \in 1..Len(log) \/ i = n
  BY <1>0
<1>4. mem[writer.page][e].status = "RAW"
  BY DEF SetStatusWritten, WriterAt, PagesInv, WriterFrame
<1>5. ASSUME NEW i \in 1..Len(log)
      PROVE  /\ mem'[log'[i].page][log'[i].position] =
                  [status |-> "WRITTEN", length |-> log'[i].length, nano |-> log'[i].nano]
             /\ EndOf(i)' \in Cells
             /\ log'[i].position = IF i > 1 /\ log'[i-1].page = log'[i].page
                                   THEN EndOf(i-1)' ELSE 0
             /\ \A j \in 1..(i-1) : Precedes(j, i)'
  <2>1. /\ mem[log[i].page][log[i].position] =
             [status |-> "WRITTEN", length |-> log[i].length, nano |-> log[i].nano]
        /\ EndOf(i) \in Cells
        /\ log[i].position = IF i > 1 /\ log[i-1].page = log[i].page
                             THEN EndOf(i-1) ELSE 0
        /\ \A j \in 1..(i-1) : Precedes(j, i)
    BY DEF PagesInv, ChainMatchesLog
  <2>2. log[i].page = writer.page => log[i].position # writer.position
    BY <1>0, <1>2, PagesAssumption DEF Cells
  <2>3. mem'[log[i].page][log[i].position] = mem[log[i].page][log[i].position]
    BY <1>2, <2>2, Committed
  <2>4. \A j \in 1..(i-1) : j \in 1..Len(log)
    BY <1>0
  <2>5. i > 1 => i - 1 \in 1..Len(log)
    BY <1>0
  <2> QED BY <1>1, <2>1, <2>3, <2>4, <2>5 DEF Precedes
<1>6. /\ mem'[log'[n].page][log'[n].position] =
           [status |-> "WRITTEN", length |-> log'[n].length, nano |-> log'[n].nano]
      /\ EndOf(n)' \in Cells
      /\ \A j \in 1..(n-1) : Precedes(j, n)'
  <2>1. \A j \in 1..(n-1) : Precedes(j, n)'
    <3>1. \A j \in 1..(n-1) : j \in 1..Len(log)
      BY <1>0
    <3>2. \A j \in 1..Len(log) : log[j].page \in Nat
      BY LogTypes DEF PagesInv
    <3> QED BY <1>0, <1>1, <1>2, <3>1, <3>2 DEF Precedes, Pages
  <2> QED BY <1>n, <1>0, <1>1, <2>1, Committed
<1>7. log'[n].position = IF n > 1 /\ log'[n-1].page = log'[n].page
                         THEN EndOf(n-1)' ELSE 0
  <2>1. CASE n > 1 /\ log'[n-1].page = writer.page
    <3>1. n - 1 \in 1..Len(log) /\ log[n-1].page = writer.page
      BY <1>0, <1>1, <2>1
    <3>2. EndOf(n-1) <= writer.position /\ EndOf(n-1) \in Nat /\ EndOf(n-1) > 0
      BY <1>2, <3>1, LogTypes DEF PagesInv
    <3>3. writer.position # 0
      BY <1>0, <3>2 DEF Cells
    <3>4. PICK j \in 1..Len(log) : log[j].page = writer.page /\ EndOf(j) = writer.position
      BY <1>0, <3>3 DEF ChainPoint
    <3>5. j = n - 1 \/ j < n - 1
      BY <1>0
    <3>6. j < n - 1 => EndOf(j) <= log[n-1].position /\ log[n-1].position < EndOf(n-1)
      BY <3>1, <3>4, LogOrder, LogTypes DEF PagesInv
    <3>7. EndOf(n-1) = writer.position
      BY <3>1, <3>2, <3>4, <3>5, <3>6, LogTypes DEF PagesInv
    <3> QED BY <1>1, <2>1, <3>1, <3>7
  <2>2. CASE ~(n > 1 /\ log'[n-1].page = writer.page)
    <3>1. ASSUME NEW j \in 1..Len(log), log[j].page = writer.page PROVE FALSE
      <4>1. n > 1 /\ n - 1 \in 1..Len(log)
        BY <1>0
      <4>2. log[n-1].page # writer.page /\ log[n-1].page <= writer.page
        BY <1>1, <1>2, <2>2, <4>1
      <4>3. j = n - 1 \/ j < n - 1
        BY <1>0
      <4> QED BY <1>0, <3>1, <4>1, <4>2, <4>3, LogOrder, LogTypes DEF PagesInv, Pages
    <3> QED BY <1>0, <1>1, <2>2, <3>1 DEF ChainPoint
  <2> QED BY <1>1, <2>1, <2>2
<1>8. ASSUME NEW p \in Pages, NEW a \in Cells, ChainPoint(p, a)',
             mem'[p][a].status = "WRITTEN"
      PROVE  FrameAt(p, a)'
  <2>1. CASE p = writer.page /\ a = writer.position
    BY <1>0, <1>1, <2>1 DEF FrameAt
  <2>2. CASE ~(p = writer.page /\ a = writer.position)
    <3>1. mem[p][a].status = "WRITTEN"
      BY <1>8, <2>2, Committed
    <3>2. ~(p = writer.page /\ a = e)
      BY <1>4, <3>1
    <3>3. ChainPoint(p, a)
      BY <1>1, <1>3, <1>8, <3>2 DEF ChainPoint
    <3>4. FrameAt(p, a)
      BY <3>1, <3>3 DEF PagesInv, ChainMatchesLog
    <3> QED BY <1>0, <1>1, <3>4 DEF FrameAt
  <2> QED BY <2>1, <2>2
<1> QED BY <1>1, <1>3, <1>5, <1>6, <1>7, <1>8 DEF ChainMatchesLog

LEMMA CommitLog ==
    ASSUME PagesInv, SetStatusWritten PROVE LogOK'
<1>n. PICK n \in Nat : n = Len(log) + 1
  BY LogTypes DEF PagesInv
<1>0. /\ writer.page \in Pages /\ file[writer.page] = "inited"
      /\ ChainPoint(writer.page, writer.position) /\ Len(log) \in Nat
  BY Committed, AppendingAt, LogTypes DEF PagesInv
<1>1. /\ Len(log') = n /\ log'[n].page = writer.page
      /\ log'[n].position = writer.position
      /\ \A i \in 1..Len(log) : log'[i] = log[i]
      /\ UNCHANGED file
  BY <1>n, Committed DEF NewFrame
<1>2. /\ \A i \in 1..n : i \in 1..Len(log) \/ i = n
      /\ \A i \in 1..Len(log) : i \in 1..n /\ i # n
      /\ n \in 1..n
  BY <1>n, <1>0
<1>3. \A p \in Pages : FrameAt(p, 0) => FrameAt(p, 0)'
  BY <1>1, <1>2 DEF FrameAt
<1>4. FrameAt(writer.page, 0) \/ writer.position = 0
  BY <1>0 DEF ChainPoint, PagesInv, LogOK
<1>5. ASSUME NEW i \in 1..n
      PROVE  (file[log[i].page] = "inited" /\ FrameAt(log[i].page, 0))'
  <2>1. CASE i = n
    <3>1. ASSUME NEW p \in Pages, p = writer.page PROVE FrameAt(p, 0)'
      BY <1>1, <1>2, <1>3, <1>4, <3>1 DEF FrameAt
    <3> QED BY <1>0, <1>1, <2>1, <3>1 DEF FrameAt
  <2>2. CASE i \in 1..Len(log)
    <3>1. /\ log[i].page \in Pages /\ file[log[i].page] = "inited"
          /\ FrameAt(log[i].page, 0)
      BY <2>2, LogTypes DEF PagesInv, LogOK
    <3> QED BY <1>1, <1>2, <2>2, <3>1 DEF FrameAt
  <2> QED BY <1>2, <2>1, <2>2
<1>6. ASSUME NEW p \in Pages
      PROVE  \E k \in 0..n : \A i \in 1..n : log'[i].page < p <=> i <= k
  <2>1. PICK k \in 0..Len(log) : \A i \in 1..Len(log) : log[i].page < p <=> i <= k
    BY DEF PagesInv, LogOK
  <2>2. CASE writer.page < p
    <3>1. \A i \in 1..Len(log) : log[i].page < p
      <4>1. \A i \in 1..Len(log) : log[i].page \in Nat /\ log[i].page <= writer.page
        BY Committed, FramesBehind, LogTypes DEF PagesInv
      <4> QED BY <1>0, <2>2, <4>1 DEF Pages
    <3>2. \A i \in 1..n : log'[i].page < p <=> i <= n
      BY <1>1, <1>2, <2>2, <3>1
    <3> QED BY <1>n, <3>2
  <2>3. CASE ~(writer.page < p)
    <3>1. \A i \in 1..n : log'[i].page < p <=> i <= k
      BY <1>n, <1>0, <1>1, <1>2, <2>1, <2>3
    <3> QED BY <1>n, <1>0, <3>1
  <2> QED BY <2>2, <2>3
<1> QED BY <1>1, <1>5, <1>6 DEF LogOK

LEMMA SetStatusWrittenInv == ASSUME PagesInv, SetStatusWritten PROVE PagesInv'
<1> DEFINE e == writer.position + writer.length
<1>n. PICK n \in Nat : n = Len(log) + 1
  BY LogTypes DEF PagesInv
<1>0. /\ writer.page \in Pages /\ writer.position \in Cells /\ e \in Cells
      /\ file[writer.page] = "inited" /\ Len(log) \in Nat
      /\ \A p \in Pages : file[p] # "none" => p <= writer.page
      /\ e # writer.position /\ mem[writer.page][e].status = "RAW"
  BY Committed, AppendingAt, LogTypes, PagesAssumption
     DEF PagesInv, Cells, WriterFrame, SetStatusWritten, WriterAt
<1>1. /\ Len(log') = n /\ log'[n].page = writer.page
      /\ log'[n].position + log'[n].length = e
      /\ \A i \in 1..Len(log) : log'[i] = log[i]
      /\ UNCHANGED <<file, reader, out, crashes>>
  BY <1>n, Committed DEF NewFrame
<1>2. \A i \in 1..Len(log) : i \in 1..n
  BY <1>n, <1>0
<1>3. /\ writer'.pc = "idle" /\ writer'.page = writer.page
      /\ writer'.position = e /\ writer'.length = 0
  BY Committed
<1>4. TypeOK'
  <2>1. log' \in Seq([page : Pages, position : Cells, length : 1..MaxFrame, nano : Nat])
    <3> DEFINE Entry == [page : Pages, position : Cells, length : 1..MaxFrame,
                         nano : Nat]
    <3>1. log \in Seq(Entry) /\ NewFrame \in Entry /\ log' = Append(log, NewFrame)
      BY Committed DEF PagesInv, TypeOK
    <3> HIDE DEF NewFrame, Entry
    <3>2. log' \in Seq(Entry)
      BY <3>1
    <3> QED BY <3>2 DEF Entry
  <2>2. writer.page \in 0..MaxPage /\ 0 \in 0..MaxFrame
    BY <1>0, PagesAssumption DEF Pages
  <2> QED BY <1>0, <1>1, <2>1, <2>2, Committed DEF PagesInv, TypeOK
<1>5. ASSUME NEW p \in Pages, NEW a \in Cells, ChainPoint(p, a)
      PROVE  ChainPoint(p, a)'
  BY <1>1, <1>2, <1>5 DEF ChainPoint, EndOf
<1>6. WriterOn' /\ WriterTurns' /\ WriterFrame'
  <2>1. ASSUME NEW p \in Pages, NEW a \in Cells, p = writer.page, a = e
        PROVE  ChainPoint(p, a)'
    BY <1>n, <1>0, <1>1, <2>1 DEF ChainPoint, EndOf
  <2>2. ChainPoint(writer.page, writer.position)'
    BY <1>0, <1>3, <2>1 DEF ChainPoint, EndOf
  <2>3. WriterOn'
    BY <1>0, <1>1, <1>3, <2>2 DEF WriterOn
  <2>4. mem'[writer.page][e].status = "RAW"
    BY <1>0, Committed
  <2> QED BY <1>3, <2>3, <2>4 DEF WriterTurns, WriterFrame, Turning, Appending, Here
<1>7. ReaderOK'
  <2>1. \A r \in Readers : /\ reader[r].page # NoPage => reader[r].page \in Pages
                           /\ reader[r].position \in Cells
    BY DEF PagesInv, TypeOK, Pages, NoPage
  <2>2. ASSUME NEW r \in Readers, reader[r].page # NoPage
        PROVE  ChainPoint(reader[r].page, reader[r].position)'
    <3>1. PICK p \in Pages, a \in Cells : p = reader[r].page /\ a = reader[r].position
      BY <2>1, <2>2
    <3>2. ChainPoint(p, a)'
      BY <2>2, <3>1, <1>5 DEF PagesInv, ReaderOK
    <3> QED BY <1>1, <3>1, <3>2 DEF ChainPoint, EndOf
  <2> QED BY <1>1, <2>2 DEF PagesInv, ReaderOK
<1>8. ClosedHasSuccessor'
  <2>1. ASSUME NEW p \in Pages, NEW a \in Cells, mem'[p][a].status = "PAGE_END"
        PROVE  mem[p][a].status = "PAGE_END"
    BY <1>0, <2>1, Committed
  <2> QED BY <1>1, <2>1 DEF PagesInv, ClosedHasSuccessor
<1>9. FilesInOrder'
  BY <1>1 DEF PagesInv, FilesInOrder
<1> QED BY <1>4, <1>6, <1>7, <1>8, <1>9, CommitChain, CommitLog DEF PagesInv

-----------------------------------------------------------------------------
(* The actions of the readers. *)
LEMMA ReaderTypes ==
    ASSUME PagesInv, NEW r \in Readers
    PROVE  /\ reader[r].page # NoPage =>
                /\ reader[r].page \in Pages /\ file[reader[r].page] = "inited"
                /\ ChainPoint(reader[r].page, reader[r].position)
           /\ reader[r].page = NoPage => reader[r].position = 0
           /\ reader[r].position \in Cells /\ reader[r].page \in Nat
BY PagesAssumption DEF PagesInv, TypeOK, ReaderOK, Pages, NoPage

(* Reader r goes to a chain point of an initialised page, or has no page. *)
ReaderType == [pc : {"off", "skip", "read", "expired"}, page : 0..MaxPage,
               position : Cells, seeks : 0..MaxSeek]
LEMMA ReaderGoes ==
    ASSUME PagesInv, UNCHANGED <<mem, file, writer, log, crashes>>,
           NEW r \in Readers, NEW c \in ReaderType, reader' = [reader EXCEPT ![r] = c],
           c.pc # "off", c.pc = "skip" => c.page # NoPage,
           c.pc = "expired" => c.page = NoPage,
           c.page = NoPage => c.position = 0,
           c.page # NoPage => file[c.page] = "inited" /\ ChainPoint(c.page, c.position),
           out' \in [Readers -> Seq(Nat)]
    PROVE  PagesInv'
<1>1. reader'[r] = c /\ \A q \in Readers : q # r => reader'[q] = reader[q]
  BY DEF PagesInv, TypeOK
<1>2. TypeOK'
  BY DEF PagesInv, TypeOK, ReaderType
<1>3. ASSUME NEW q \in Readers
      PROVE  /\ reader'[q].pc = "off" => reader'[q].page = NoPage
             /\ reader'[q].pc = "skip" => reader'[q].page # NoPage
             /\ reader'[q].pc = "expired" => reader'[q].page = NoPage
             /\ reader'[q].page = NoPage => reader'[q].position = 0
             /\ reader'[q].page # NoPage =>
                  /\ file'[reader'[q].page] = "inited"
                  /\ ChainPoint(reader[q].page, reader[q].position)'
  <2>1. CASE q = r
    BY <1>1, <2>1 DEF ChainPoint, EndOf
  <2>2. CASE q # r
    BY <1>1, <2>2 DEF PagesInv, ReaderOK, ChainPoint, EndOf
  <2> QED BY <2>1, <2>2
<1>4. ReaderOK'
  BY <1>3 DEF ReaderOK
<1> QED BY <1>2, <1>4, ReaderMoves

LEMMA ReaderIs ==
    ASSUME PagesInv, NEW r \in Readers
    PROVE  reader[r] \in ReaderType
BY DEF PagesInv, TypeOK, ReaderType

LEMMA JoinInv == ASSUME PagesInv, NEW r \in Readers, Join(r) PROVE PagesInv'
<1> DEFINE c == [reader[r] EXCEPT !.pc = "read"]
<1>1. reader' = [reader EXCEPT ![r] = c] /\ out' \in [Readers -> Seq(Nat)]
  BY DEF Join, PagesInv, TypeOK
<1>2. c \in ReaderType /\ c.pc = "read" /\ c.page = reader[r].page
      /\ c.position = reader[r].position
  BY ReaderIs DEF ReaderType
<1> HIDE DEF c
<1> QED BY <1>1, <1>2, ReaderTypes, ReaderGoes DEF Join, writeVars

LEMMA SeekInv ==
    ASSUME PagesInv, NEW r \in Readers, NEW p \in Pages, Seek(r, p) PROVE PagesInv'
<1> DEFINE n == reader[r].seeks + 1
           c == [pc |-> "skip", page |-> p, position |-> 0, seeks |-> n]
           d == [pc |-> "expired", page |-> NoPage, position |-> 0, seeks |-> n]
<1>1. /\ n \in 0..MaxSeek /\ p \in 0..MaxPage /\ NoPage \in 0..MaxPage /\ 0 \in Cells
      /\ p # NoPage /\ out' \in [Readers -> Seq(Nat)]
  BY PagesAssumption DEF Seek, PagesInv, TypeOK, Pages, Cells, NoPage
<1>2. reader' = [reader EXCEPT ![r] = IF file[p] = "inited" THEN c ELSE d]
  BY DEF Seek
<1>3. ChainPoint(p, 0)
  BY DEF ChainPoint
<1>4. /\ c \in ReaderType /\ c.pc = "skip" /\ c.page = p /\ c.position = 0
      /\ d \in ReaderType /\ d.pc = "expired" /\ d.page = NoPage /\ d.position = 0
  BY <1>1 DEF ReaderType
<1> HIDE DEF c, d
<1>5. CASE file[p] = "inited"
  BY <1>1, <1>2, <1>3, <1>4, <1>5, ReaderGoes DEF Seek, writeVars
<1>6. CASE file[p] # "inited"
  BY <1>1, <1>2, <1>4, <1>6, ReaderGoes DEF Seek, writeVars
<1> QED BY <1>5, <1>6

LEMMA ExpireInv == ASSUME PagesInv, NEW r \in Readers, Expire(r) PROVE PagesInv'
<1> DEFINE c == [reader[r] EXCEPT !.pc = "expired", !.page = NoPage, !.position = 0]
<1>1. reader' = [reader EXCEPT ![r] = c] /\ out' \in [Readers -> Seq(Nat)]
  BY DEF Expire, PagesInv, TypeOK
<1>2. c \in ReaderType /\ c.pc = "expired" /\ c.page = NoPage /\ c.position = 0
  <2>1. 0 \in Cells /\ NoPage \in 0..MaxPage
    BY PagesAssumption DEF Cells, NoPage
  <2> QED BY <2>1, ReaderIs DEF ReaderType
<1> HIDE DEF c
<1> QED BY <1>1, <1>2, ReaderGoes DEF Expire, writeVars

(* A reader that passes a frame, handed out or not. *)
LEMMA PassFrame ==
    ASSUME PagesInv, UNCHANGED <<mem, file, writer, log, crashes>>,
           NEW r \in Readers, reader[r].pc \in {"skip", "read"},
           reader[r].page # NoPage, There(r).status = "WRITTEN",
           reader' = [reader EXCEPT ![r].position = @ + There(r).length],
           out' \in [Readers -> Seq(Nat)]
    PROVE  PagesInv'
<1> DEFINE a == reader[r].position + There(r).length
           c == [reader[r] EXCEPT !.position = a]
<1>1. /\ reader[r].page \in Pages /\ file[reader[r].page] = "inited"
      /\ reader[r].position \in Cells
      /\ ChainPoint(reader[r].page, reader[r].position)
  BY ReaderTypes
<1>2. a \in Cells /\ ChainPoint(reader[r].page, a)
  BY <1>1, FrameFound DEF There, PagesInv
<1>3. reader' = [reader EXCEPT ![r] = c]
  BY DEF PagesInv, TypeOK
<1> HIDE DEF a
<1>4. c \in ReaderType /\ c.pc = reader[r].pc /\ c.page = reader[r].page
      /\ c.position = a
  BY <1>2, ReaderIs DEF ReaderType
<1> HIDE DEF c
<1> QED BY <1>1, <1>2, <1>3, <1>4, ReaderGoes

LEMMA SkipFrameInv == ASSUME PagesInv, NEW r \in Readers, SkipFrame(r) PROVE PagesInv'
<1>1. reader[r].page # NoPage /\ out' \in [Readers -> Seq(Nat)]
  BY DEF SkipFrame, PagesInv, ReaderOK, TypeOK
<1> QED BY <1>1, PassFrame DEF SkipFrame, writeVars

LEMMA GetNextFrameInv ==
    ASSUME PagesInv, NEW r \in Readers, GetNextFrame(r) PROVE PagesInv'
<1>1. There(r).nano \in Nat
  <2>1. There(r) \in Cell
    BY ReaderTypes DEF GetNextFrame, There, PagesInv, TypeOK
  <2> QED BY <2>1 DEF Cell
<1>2. out' \in [Readers -> Seq(Nat)]
  BY <1>1 DEF GetNextFrame, PagesInv, TypeOK
<1> QED BY <1>2, PassFrame DEF GetNextFrame, writeVars

LEMMA SkipEndsInv == ASSUME PagesInv, NEW r \in Readers, SkipEnds(r) PROVE PagesInv'
<1> DEFINE c == [reader[r] EXCEPT !.pc = "read"]
<1>1. reader' = [reader EXCEPT ![r] = c] /\ out' \in [Readers -> Seq(Nat)]
  BY DEF SkipEnds, PagesInv, TypeOK
<1>2. c \in ReaderType /\ c.pc = "read" /\ c.page = reader[r].page
      /\ c.position = reader[r].position
  BY ReaderIs DEF ReaderType
<1> HIDE DEF c
<1> QED BY <1>1, <1>2, ReaderTypes, ReaderGoes DEF SkipEnds, writeVars

LEMMA ReaderNextPageInv ==
    ASSUME PagesInv, NEW r \in Readers, ReaderNextPage(r) PROVE PagesInv'
<1> DEFINE q == reader[r].page + 1
           p == IF q \in Pages /\ file[q] = "inited" THEN q ELSE NoPage
           c == [reader[r] EXCEPT !.position = 0, !.page = p]
<1>1. reader' = [reader EXCEPT ![r] = c] /\ out' \in [Readers -> Seq(Nat)]
  BY DEF ReaderNextPage, PagesInv, TypeOK
<1>2. /\ p \in 0..MaxPage /\ 0 \in Cells
      /\ p # NoPage => file[p] = "inited"
  <2>1. q \in Pages => q \in 0..MaxPage
    BY PagesAssumption DEF Pages
  <2> QED BY <2>1, PagesAssumption DEF NoPage, Cells
<1>3. ChainPoint(p, 0)
  BY DEF ChainPoint
<1> HIDE DEF p
<1>4. c \in ReaderType /\ c.pc = reader[r].pc /\ c.page = p /\ c.position = 0
  BY <1>2, ReaderIs DEF ReaderType
<1> HIDE DEF c
<1> QED BY <1>1, <1>2, <1>3, <1>4, ReaderGoes DEF ReaderNextPage, writeVars

-----------------------------------------------------------------------------
LEMMA PagesStart == Init => PagesInv
<1> SUFFICES ASSUME Init PROVE PagesInv
  OBVIOUS
<1>0. log = <<>> /\ Len(log) = 0
  BY DEF Init
<1>1. TypeOK
  <2>1. 0 \in Cells /\ ZeroCell \in Cell
    BY PagesAssumption DEF Cells, ZeroCell, Cell
  <2> QED BY <2>1, PagesAssumption DEF Init, TypeOK, Off, NoPage, Cells
<1>2. ChainMatchesLog /\ LogOK
  BY <1>0, PagesAssumption DEF Init, ChainMatchesLog, LogOK, ZeroCell
<1>3. ClosedHasSuccessor
  BY DEF Init, ClosedHasSuccessor, ZeroCell
<1>4. FilesInOrder
  BY PagesAssumption DEF Init, FilesInOrder, Pages
<1>5. WriterOn /\ WriterTurns /\ WriterFrame /\ ReaderOK
  BY DEF Init, WriterOn, WriterTurns, WriterFrame, ReaderOK, Off, Turning, Appending
<1> QED BY <1>1, <1>2, <1>3, <1>4, <1>5 DEF PagesInv

LEMMA PagesStep == PagesInv /\ [Next]_vars => PagesInv'
<1> SUFFICES ASSUME PagesInv, [Next]_vars PROVE PagesInv'
  OBVIOUS
<1>1. CASE UNCHANGED vars
  <2>1. TypeOK' /\ ReaderOK'
    BY <1>1 DEF PagesInv, TypeOK, ReaderOK, ChainPoint, EndOf, vars
  <2> QED BY <1>1, <2>1, ReaderMoves DEF vars
<1>2. CASE StartWriter \/ WriterStep \/ LocateFrame \/ DropFrame \/ Crash
  BY <1>2, StartWriterInv, LoadPageInv, PassWrittenFrameInv, LocateWritableFrameInv,
     LoadNextPageInv, LoadNewPageInv, FinishPageInv, WriteDataInv, WriteHeaderInv,
     ClearNextEntryInv, SetStatusWrittenInv, LocateFrameInv, DropFrameInv, CrashInv
     DEF WriterStep
<1>3. ASSUME NEW n \in 1..MaxFrame, WriteFrame(n) PROVE PagesInv'
  BY <1>3, WriteFrameInv
<1>4. ASSUME NEW r \in Readers, Join(r) \/ ReaderStep(r) \/ Expire(r)
      PROVE  PagesInv'
  BY <1>4, JoinInv, ExpireInv, SkipFrameInv, SkipEndsInv, GetNextFrameInv, ReaderNextPageInv
     DEF ReaderStep
<1>5. ASSUME NEW r \in Readers, NEW p \in Pages, Seek(r, p) PROVE PagesInv'
  BY <1>5, SeekInv
<1> QED BY <1>1, <1>2, <1>3, <1>4, <1>5 DEF Next

(* The inductive invariant: what the writer, its crashed predecessors and   *)
(* the readers have left in memory and in their registers.                  *)
THEOREM PagesInvariant == Spec => []PagesInv
BY PagesStart, PagesStep, PTL DEF Spec

(* Types: every position that is computed from a length found in shared     *)
(* memory, by the writer after a crash or by a reader, is inside the page,  *)
(* however long the frames are that the application writes.                 *)
THEOREM PagesTypes == Spec => []TypeOK
BY PagesInvariant, PTL DEF PagesInv

(* setData and setStatusWritten store beyond the end of a page only for a   *)
(* frame that is longer than PAGE_MIN_HEADROOM: the place found by          *)
(* locateWritableFrame has room for any other, and for the next status.     *)
THEOREM PagesOverrun == Spec => []OverrunIsLong
<1>1. PagesInv => OverrunIsLong
  BY DEF PagesInv, WriterFrame, OverrunIsLong, WriterAt
<1> QED BY <1>1, PagesInvariant, PTL

(* The chain of WRITTEN frames of every page is what was committed there,   *)
(* whatever crashed writers have left behind it (setStatusWritten).         *)
THEOREM PagesChain == Spec => []ChainMatchesLog
BY PagesInvariant, PTL DEF PagesInv

(* loadNextPage: a closed page has an initialised successor. *)
THEOREM PagesSuccessor == Spec => []ClosedHasSuccessor
BY PagesInvariant, PTL DEF PagesInv

(* Only the newest page can be there and not be initialised. *)
LEMMA RawIsLast ==
    ASSUME PagesInv, NEW p \in Pages, p \in Existing \cup {1},
           file[p] # "inited", NEW q \in Pages, file[q] = "inited"
    PROVE  file[LastPage] = "raw"
<1>1. PICK n \in 0..MaxPage : \A b \in Pages : file[b] # "none" <=> b <= n
  BY DEF PagesInv, FilesInOrder
<1>2. file[p] # "none" /\ p <= n
  BY <1>1 DEF Existing, Pages
<1>3. LastPage \in Pages /\ p <= LastPage /\ LastPage <= n
  <2>1. LastPage \in Pages /\ p <= LastPage /\ file[LastPage] # "none"
    BY <1>2, LastPageIs DEF PagesInv
  <2> QED BY <1>1, <2>1
<1>4. ~(p < LastPage)
  <2>1. SUFFICES ASSUME p < LastPage PROVE FALSE
    OBVIOUS
  <2>2. PICK b \in Pages : b = p + 1
    BY <1>3, <2>1, PagesAssumption DEF Pages
  <2>3. b <= n /\ b > 1 /\ b - 1 = p
    BY <1>3, <2>1, <2>2 DEF Pages
  <2>4. file[b - 1] = "inited"
    BY <1>1, <2>3 DEF PagesInv, ClosedHasSuccessor
  <2> QED BY <2>3, <2>4
<1>5. p = LastPage
  BY <1>3, <1>4 DEF Pages
<1> QED BY <1>2, <1>5 DEF PagesInv, TypeOK

(* A reader loses its page by expiring only. *)
LEMMA KeepsPage ==
    ASSUME PagesInv, [Next]_vars, NEW r \in Readers, reader[r].page # NoPage
    PROVE  \/ reader'[r].page # NoPage
           \/ Expire(r)
           \/ reader'[r].pc = "expired" /\ file[LastPage] = "raw"
<1>0. reader \in [Readers -> ReaderType]
  BY DEF PagesInv, TypeOK, ReaderType
<1>1. CASE UNCHANGED reader
  BY <1>1
<1>2. ASSUME NEW q \in Readers,
             Join(q) \/ SkipFrame(q) \/ SkipEnds(q) \/ GetNextFrame(q)
      PROVE  reader'[r].page = reader[r].page
  BY <1>0, <1>2 DEF Join, SkipFrame, SkipEnds, GetNextFrame, ReaderType
<1>3. ASSUME NEW q \in Readers, NEW p \in Pages, Seek(q, p)
      PROVE  \/ reader'[r].page # NoPage
             \/ reader'[r].pc = "expired" /\ file[LastPage] = "raw"
  <2>1. CASE q # r
    BY <1>0, <1>3, <2>1 DEF Seek
  <2>2. CASE q = r /\ file[p] = "inited"
    BY <1>0, <1>3, <2>2 DEF Seek, Pages, NoPage
  <2>3. CASE q = r /\ file[p] # "inited"
    <3>1. reader'[r].pc = "expired" /\ p \in Existing \cup {1}
      BY <1>0, <1>3, <2>3 DEF Seek
    <3>2. reader[r].page \in Pages /\ file[reader[r].page] = "inited"
      BY ReaderTypes
    <3>3. file[LastPage] = "raw"
      BY <2>3, <3>1, <3>2, RawIsLast
    <3> QED BY <3>1, <3>3
  <2> QED BY <2>1, <2>2, <2>3
<1>4. ASSUME NEW q \in Readers, ReaderNextPage(q) PROVE reader'[r].page # NoPage
  <2>1. CASE q # r
    BY <1>0, <1>4, <2>1 DEF ReaderNextPage
  <2>2. CASE q = r
    <3>1. /\ There(r).status = "PAGE_END" /\ reader[r].page \in Pages
          /\ reader[r].position \in Cells
      BY <1>4, <2>2, ReaderTypes DEF ReaderNextPage
    <3>2. reader[r].page + 1 \in Pages /\ file[reader[r].page + 1] = "inited"
      BY <3>1, PagesAssumption DEF PagesInv, ClosedHasSuccessor, There, Pages
    <3>3. reader'[r].page = reader[r].page + 1
      BY <1>0, <1>4, <2>2, <3>2 DEF ReaderNextPage, ReaderType
    <3> QED BY <3>2, <3>3 DEF Pages, NoPage
  <2> QED BY <2>1, <2>2
<1>5. ASSUME NEW q \in Readers, Expire(q)
      PROVE  reader'[r].page # NoPage \/ Expire(r)
  <2>1. CASE q = r
    BY <1>5, <2>1
  <2>2. CASE q # r
    BY <1>0, <1>5, <2>2 DEF Expire
  <2> QED BY <2>1, <2>2
<1> QED BY <1>1, <1>2, <1>3, <1>4, <1>5
        DEF Next, vars, ReaderStep, readVars, StartWriter, WriterStep, LoadPage,
            PassWrittenFrame, LocateWritableFrame, LoadNextPage, LoadNewPage,
            FinishPage, WriteData, WriteHeader, ClearNextEntry, SetStatusWritten,
            LocateFrame, DropFrame, Crash, WriteFrame

(* A reader loses its page only when its journal is expired, by             *)
(* expireJournal or by a seek made while the newest page is being created   *)
(* (seekTime, Page::load): a page turn never takes it away.                 *)
THEOREM PagesReaderKeepsPage == Spec => ReaderKeepsPage
<1>1. PagesInv /\ [Next]_vars =>
        [\A r \in Readers : reader[r].page # NoPage =>
           \/ reader'[r].page # NoPage
           \/ Expire(r)
           \/ reader'[r].pc = "expired" /\ file[LastPage] = "raw"]_vars
  BY KeepsPage
<1> QED BY <1>1, PagesInvariant, PTL DEF Spec, ReaderKeepsPage

-----------------------------------------------------------------------------
(* Counting: the frames before a place are the first k of the log. *)
IsBefore(i, p, a) ==
    log[i].page < p \/ (log[i].page = p /\ log[i].position < a)

LEMMA BeforeIs ==
    ASSUME TypeOK, NEW p, NEW a, NEW k \in 0..Len(log),
           \A i \in 1..Len(log) : IsBefore(i, p, a) <=> i <= k
    PROVE  Before(p, a) = k
<1>1. Len(log) \in Nat
  BY LogTypes
<1>2. {i \in 1..Len(log) : \/ log[i].page < p
                           \/ log[i].page = p /\ log[i].position < a} = 1..k
  BY <1>1 DEF IsBefore
<1>3. Cardinality(1..k) = k
  <2>1. 1 \in Int /\ k \in Int /\ k - 1 + 1 = k
    BY <1>1
  <2>2. Cardinality(1..k) = IF 1 > k THEN 0 ELSE k - 1 + 1
    BY <2>1, FS_Interval
  <2> QED BY <1>1, <2>2
<1> QED BY <1>2, <1>3 DEF Before

(* At a frame, those are the frames before it; behind it, it is one more. *)
LEMMA BeforeFrame ==
    ASSUME TypeOK, ChainMatchesLog, NEW i \in 1..Len(log)
    PROVE  /\ Before(log[i].page, log[i].position) = i - 1
           /\ Before(log[i].page, EndOf(i)) = i
<1>1. Len(log) \in Nat
  BY LogTypes
<1>2. ASSUME NEW j \in 1..Len(log)
      PROVE  /\ IsBefore(j, log[i].page, log[i].position) <=> j <= i - 1
             /\ IsBefore(j, log[i].page, EndOf(i)) <=> j <= i
  <2>1. /\ log[i].page \in Nat /\ log[i].position \in Nat /\ EndOf(i) \in Nat
        /\ log[j].page \in Nat /\ log[j].position \in Nat /\ EndOf(j) \in Nat
        /\ EndOf(i) > log[i].position /\ EndOf(j) > log[j].position
    BY LogTypes
  <2>2. CASE j < i
    <3>1. \/ log[j].page < log[i].page
          \/ log[j].page = log[i].page /\ EndOf(j) <= log[i].position
      BY <2>2, LogOrder
    <3> QED BY <1>1, <2>1, <2>2, <3>1 DEF IsBefore
  <2>3. CASE j = i
    BY <1>1, <2>1, <2>3 DEF IsBefore
  <2>4. CASE i < j
    <3>1. \/ log[i].page < log[j].page
          \/ log[i].page = log[j].page /\ EndOf(i) <= log[j].position
      BY <2>4, LogOrder
    <3> QED BY <1>1, <2>1, <2>4, <3>1 DEF IsBefore
  <2> QED BY <1>1, <2>2, <2>3, <2>4
<1>3. i - 1 \in 0..Len(log) /\ i \in 0..Len(log)
  BY <1>1
<1> QED BY <1>2, <1>3, BeforeIs

(* The frames before the top of a page are those of the pages before it. *)
LEMMA BeforePage ==
    ASSUME TypeOK, LogOK, NEW p \in Pages
    PROVE  /\ Before(p, 0) \in 0..Len(log)
           /\ \A i \in 1..Len(log) : log[i].page < p <=> i <= Before(p, 0)
<1>1. PICK k \in 0..Len(log) : \A i \in 1..Len(log) : log[i].page < p <=> i <= k
  BY DEF LogOK
<1>2. \A i \in 1..Len(log) : IsBefore(i, p, 0) <=> i <= k
  BY <1>1, LogTypes DEF IsBefore
<1>3. Before(p, 0) = k
  BY <1>2, BeforeIs
<1> QED BY <1>1, <1>3

(* A reader is somewhere in the log. *)
LEMMA BeforeNothing == ASSUME TypeOK PROVE Before(NoPage, 0) = 0
<1>1. \A i \in 1..Len(log) : ~IsBefore(i, NoPage, 0)
  BY LogTypes DEF IsBefore, Pages, NoPage
<1>2. Len(log) \in Nat
  BY LogTypes
<1>3. \A i \in 1..Len(log) : IsBefore(i, NoPage, 0) <=> i <= 0
  BY <1>1, <1>2
<1> QED BY <1>2, <1>3, BeforeIs

LEMMA BeforeChainPoint ==
    ASSUME PagesInv, NEW p \in Pages, NEW a, ChainPoint(p, a)
    PROVE  Before(p, a) \in 0..Len(log)
<1>1. CASE a = 0
  BY <1>1, BeforePage DEF PagesInv
<1>2. CASE a # 0
  <2>1. PICK i \in 1..Len(log) : log[i].page = p /\ EndOf(i) = a
    BY <1>2 DEF ChainPoint
  <2>2. Before(p, a) = i
    BY <2>1, BeforeFrame DEF PagesInv
  <2> QED BY <2>1, <2>2, LogTypes DEF PagesInv
<1> QED BY <1>1, <1>2

(* At the end of a page, the next frame is the first of the next page. *)
LEMMA BeforeEnd ==
    ASSUME PagesInv, NEW p \in Pages, p + 1 \in Pages, NEW a \in Cells,
           ChainPoint(p, a), mem[p][a].status # "WRITTEN"
    PROVE  Before(p, a) = Before(p + 1, 0)
<1>1. PICK k \in 0..Len(log) : \A i \in 1..Len(log) : log[i].page < p + 1 <=> i <= k
  BY DEF PagesInv, LogOK
<1>2. ASSUME NEW i \in 1..Len(log)
      PROVE  /\ IsBefore(i, p, a) <=> log[i].page < p + 1
             /\ IsBefore(i, p + 1, 0) <=> log[i].page < p + 1
  <2>1. /\ log[i].page \in Nat /\ log[i].position \in Nat
        /\ EndOf(i) \in Nat /\ EndOf(i) > log[i].position
    BY LogTypes DEF PagesInv
  <2>2. log[i].page = p => EndOf(i) <= a
    BY ChainEnd DEF PagesInv
  <2> QED BY <2>1, <2>2 DEF IsBefore, Pages, Cells
<1> QED BY <1>1, <1>2, BeforeIs DEF PagesInv

-----------------------------------------------------------------------------
(* The refinement: the abstract log, cursors and seeks. *)
AbsLog == [i \in 1..Len(log) |-> log[i].nano]
Cursor(r) == Before(reader[r].page, reader[r].position)
Seeking(r) == reader[r].pc \in {"skip", "expired"}
AbsCursor == [r \in Readers |-> Cursor(r)]
AbsSeeking == [r \in Readers |-> Seeking(r)]

LEMMA AbsStutter ==
    ASSUME UNCHANGED <<log, out>>,
           \A r \in Readers : Cursor(r)' = Cursor(r) /\ Seeking(r)' = Seeking(r)
    PROVE  UNCHANGED Abstract!LogVars
<1>1. AbsCursor' = AbsCursor
  BY DEF AbsCursor
<1>2. AbsSeeking' = AbsSeeking
  BY DEF AbsSeeking
<1>3. AbsLog' = AbsLog
  BY DEF AbsLog
<1> QED BY <1>1, <1>2, <1>3
        DEF Abstract!LogVars, AbsCursor, AbsSeeking, AbsLog, Cursor, Seeking

LEMMA CursorInLog ==
    ASSUME PagesInv, NEW r \in Readers PROVE Cursor(r) \in 0..Len(log)
<1>1. CASE reader[r].page = NoPage
  BY <1>1, ReaderTypes, BeforeNothing, LogTypes DEF Cursor, PagesInv
<1>2. CASE reader[r].page # NoPage
  BY <1>2, ReaderTypes, BeforeChainPoint DEF Cursor
<1> QED BY <1>1, <1>2

LEMMA CursorsInLog == PagesInv => \A r \in Readers : Cursor(r) \in 0..Len(log)
BY CursorInLog

LEMMA CursorsStayInLog ==
    PagesInv' => (\A r \in Readers : Cursor(r) \in 0..Len(log))'
BY CursorsInLog, PTL

LEMMA AbsLen ==
    ASSUME TypeOK
    PROVE  /\ Len(AbsLog) = Len(log) /\ AbsLog \in Seq(Nat)
           /\ \A i \in 1..Len(log) : AbsLog[i] = log[i].nano
<1>1. Len(log) \in Nat /\ \A i \in 1..Len(log) : log[i].nano \in Nat
  BY LogTypes
<1> QED BY <1>1 DEF AbsLog

(* A step of reader r alone. *)
LEMMA OneReader ==
    ASSUME PagesInv, NEW r \in Readers, UNCHANGED log,
           \A q \in Readers : q # r => reader'[q] = reader[q]
    PROVE  /\ AbsLog' = AbsLog
           /\ AbsCursor' = [AbsCursor EXCEPT ![r] = Cursor(r)']
           /\ AbsSeeking' = [AbsSeeking EXCEPT ![r] = Seeking(r)']
           /\ AbsCursor[r] = Cursor(r) /\ AbsSeeking[r] = Seeking(r)
<1>1. \A q \in Readers : q # r => Cursor(q)' = Cursor(q) /\ Seeking(q)' = Seeking(q)
  BY DEF Cursor, Seeking, Before
<1>2. AbsCursor' = [AbsCursor EXCEPT ![r] = Cursor(r)']
  BY <1>1 DEF AbsCursor
<1>3. AbsSeeking' = [AbsSeeking EXCEPT ![r] = Seeking(r)']
  BY <1>1 DEF AbsSeeking
<1> QED BY <1>2, <1>3 DEF AbsLog, AbsCursor, AbsSeeking

LEMMA AbsSeekTo ==
    ASSUME PagesInv, PagesInv', NEW r \in Readers, UNCHANGED <<log, out>>,
           \A q \in Readers : q # r => reader'[q] = reader[q],
           reader[r].pc = "skip" \/ reader'[r].pc \in {"skip", "expired"}
    PROVE  Abstract!SeekTo(r)
<1>1. Cursor(r)' \in 0..Len(log)
  <2>1. Cursor(r)' \in 0..Len(log')
    BY CursorsStayInLog
  <2> QED BY <2>1
<1>2. /\ AbsLog' = AbsLog /\ AbsCursor' = [AbsCursor EXCEPT ![r] = Cursor(r)']
      /\ AbsSeeking' = [AbsSeeking EXCEPT ![r] = Seeking(r)']
      /\ AbsSeeking[r] \/ Seeking(r)'
  BY OneReader DEF Seeking
<1>3. Len(AbsLog) = Len(log) /\ Seeking(r)' \in BOOLEAN
  BY AbsLen DEF PagesInv, Seeking
<1>5. \E now \in BOOLEAN : /\ AbsSeeking[r] \/ now
                           /\ AbsSeeking' = [AbsSeeking EXCEPT ![r] = now]
  BY <1>2, <1>3
<1>4. \E n \in 0..Len(AbsLog) : AbsCursor' = [AbsCursor EXCEPT ![r] = n]
  BY <1>1, <1>2, <1>3
<1> QED BY <1>2, <1>4, <1>5
        DEF Abstract!SeekTo, AbsCursor, AbsSeeking, AbsLog, Cursor, Seeking

LEMMA AbsDeliver ==
    ASSUME PagesInv, NEW r \in Readers, GetNextFrame(r)
    PROVE  Abstract!Deliver(r)
<1>0. reader \in [Readers -> ReaderType]
  BY DEF PagesInv, TypeOK, ReaderType
<1>1. /\ reader[r].page \in Pages /\ reader[r].position \in Cells
      /\ ChainPoint(reader[r].page, reader[r].position)
      /\ reader[r].pc = "read" /\ There(r).status = "WRITTEN"
      /\ UNCHANGED log /\ out' = [out EXCEPT ![r] = <<There(r).nano>>]
  BY ReaderTypes DEF GetNextFrame, writeVars
<1>2. PICK i \in 1..Len(log) :
        /\ log[i].page = reader[r].page /\ log[i].position = reader[r].position
        /\ There(r).nano = log[i].nano
        /\ EndOf(i) = reader[r].position + There(r).length
  BY <1>1, FrameFound DEF There, PagesInv
<1>3. /\ reader'[r].page = reader[r].page /\ reader'[r].pc = "read"
      /\ reader'[r].position = EndOf(i)
      /\ \A q \in Readers : q # r => reader'[q] = reader[q]
  BY <1>0, <1>1, <1>2 DEF GetNextFrame, ReaderType
<1>4. Cursor(r) = i - 1 /\ Before(log[i].page, EndOf(i)) = i
  BY <1>2, BeforeFrame DEF Cursor, PagesInv
<1>5. Cursor(r)' = i
  BY <1>1, <1>2, <1>3, <1>4 DEF Cursor, Before
<1>6. Seeking(r) = FALSE /\ Seeking(r)' = FALSE
  BY <1>1, <1>3 DEF Seeking
<1>7. /\ Len(log) \in Nat /\ Len(AbsLog) = Len(log) /\ AbsLog[i] = log[i].nano
  BY AbsLen, LogTypes DEF PagesInv
<1>8. /\ AbsLog' = AbsLog /\ AbsCursor' = [AbsCursor EXCEPT ![r] = i]
      /\ AbsSeeking' = [AbsSeeking EXCEPT ![r] = FALSE]
      /\ AbsCursor[r] = i - 1 /\ AbsSeeking[r] = FALSE
  BY <1>1, <1>3, <1>4, <1>5, <1>6, OneReader
<1>9. AbsSeeking' = AbsSeeking
  BY <1>8 DEF AbsSeeking
<1>10. i - 1 < Len(AbsLog) /\ (i - 1) + 1 = i
  BY <1>7
<1>11. /\ ~AbsSeeking[r] /\ AbsCursor[r] < Len(AbsLog)
       /\ out' = [out EXCEPT ![r] = <<AbsLog[AbsCursor[r] + 1]>>]
       /\ AbsCursor' = [AbsCursor EXCEPT ![r] = AbsCursor[r] + 1]
  BY <1>1, <1>2, <1>7, <1>8, <1>10
<1> QED BY <1>8, <1>9, <1>11
        DEF Abstract!Deliver, AbsCursor, AbsSeeking, AbsLog, Cursor, Seeking

(* The frames go on at the top of the next page, and the first page is the  *)
(* beginning of the log.                                                    *)
LEMMA AbsNextPage ==
    ASSUME PagesInv, NEW r \in Readers, ReaderNextPage(r)
    PROVE  UNCHANGED Abstract!LogVars
<1> DEFINE q == reader[r].page + 1
           p == IF q \in Pages /\ file[q] = "inited" THEN q ELSE NoPage
<1>0. reader \in [Readers -> ReaderType]
  BY DEF PagesInv, TypeOK, ReaderType
<1>1. /\ UNCHANGED <<log, out>> /\ reader[r].pc = "read" /\ reader'[r].pc = "read"
      /\ reader'[r].page = p /\ reader'[r].position = 0
      /\ \A g \in Readers : g # r => reader'[g] = reader[g]
  BY <1>0 DEF ReaderNextPage, writeVars, ReaderType
<1>2. Before(p, 0) = Cursor(r)
  <2>1. CASE reader[r].page = NoPage
    <3>1. Cursor(r) = 0
      BY <2>1, ReaderTypes, BeforeNothing DEF Cursor, PagesInv
    <3>2. p = NoPage \/ p = 1
      BY <2>1 DEF NoPage
    <3>3. Before(1, 0) = 0
      <4>1. 1 \in Pages /\ Len(log) \in Nat
        BY PagesAssumption, LogTypes DEF Pages, PagesInv
      <4>2. \A i \in 1..Len(log) : ~(log[i].page < 1)
        BY LogTypes DEF PagesInv, Pages
      <4>3. Before(1, 0) \in 0..Len(log) /\ \A i \in 1..Len(log) : ~(i <= Before(1, 0))
        BY <4>1, <4>2, BeforePage DEF PagesInv
      <4>4. ~(1 <= Before(1, 0))
        BY <4>1, <4>3
      <4> QED BY <4>1, <4>3, <4>4
    <3>4. Before(NoPage, 0) = 0
      BY BeforeNothing DEF PagesInv
    <3> HIDE DEF p
    <3> QED BY <3>1, <3>2, <3>3, <3>4
  <2>2. CASE reader[r].page # NoPage
    <3>1. /\ There(r).status = "PAGE_END" /\ reader[r].page \in Pages
          /\ reader[r].position \in Cells
          /\ ChainPoint(reader[r].page, reader[r].position)
      BY <2>2, ReaderTypes DEF ReaderNextPage
    <3>2. q \in Pages /\ file[q] = "inited"
      BY <3>1, PagesAssumption DEF PagesInv, ClosedHasSuccessor, There, Pages
    <3>3. Cursor(r) = Before(q, 0)
      BY <3>1, <3>2, BeforeEnd DEF Cursor, There
    <3> QED BY <3>2, <3>3
  <2> QED BY <2>1, <2>2
<1> HIDE DEF p
<1>3. Cursor(r)' = Cursor(r)
  BY <1>1, <1>2 DEF Cursor, Before
<1>4. ASSUME NEW g \in Readers
      PROVE  Cursor(g)' = Cursor(g) /\ Seeking(g)' = Seeking(g)
  <2>1. CASE g = r
    BY <1>1, <1>3, <2>1 DEF Seeking
  <2>2. CASE g # r
    BY <1>1, <2>2 DEF Cursor, Before, Seeking
  <2> QED BY <2>1, <2>2
<1> QED BY <1>1, <1>4, AbsStutter

(* The commit appends, and no reader is beyond it. *)
LEMMA AbsAppend ==
    ASSUME PagesInv, SetStatusWritten
    PROVE  Abstract!AppendFrame
<1>n. PICK n \in Nat : n = Len(log) + 1
  BY LogTypes DEF PagesInv
<1>1. /\ Len(log') = n /\ log'[n].page = writer.page
      /\ log'[n].position = writer.position /\ log'[n].nano = n
      /\ \A i \in 1..Len(log) : log'[i] = log[i]
      /\ UNCHANGED <<reader, out, file>>
  BY <1>n, Committed DEF NewFrame
<1>2. /\ n \in 1..MaxLog /\ Len(log) \in Nat /\ Len(log) = n - 1
      /\ \A i \in 1..n : i \in 1..Len(log) \/ i = n
      /\ \A i \in 1..Len(log) : i \in 1..n
  BY <1>n, Committed, AppendingAt, LogTypes, PagesAssumption DEF PagesInv
<1>3. AbsLog' = Append(AbsLog, n)
  <2>1. /\ Len(AbsLog) = Len(log) /\ AbsLog \in Seq(Nat)
        /\ \A i \in 1..Len(log) : AbsLog[i] = log[i].nano
    BY AbsLen DEF PagesInv
  <2>2. AbsLog' = [i \in 1..n |-> log'[i].nano]
    BY <1>1 DEF AbsLog
  <2>3. \A i \in 1..n : log'[i].nano = IF i = n THEN n ELSE AbsLog[i]
    BY <1>1, <1>2, <2>1
  <2>4. AbsLog' = [i \in 1..n |-> IF i = n THEN n ELSE AbsLog[i]]
    BY <2>2, <2>3
  <2> HIDE DEF AbsLog
  <2> QED BY <1>n, <1>2, <2>1, <2>4
<1>4. ASSUME NEW r \in Readers
      PROVE  Cursor(r)' = Cursor(r) /\ Seeking(r)' = Seeking(r)
  <2> DEFINE p == reader[r].page
             a == reader[r].position
  <2>1. ~(writer.page < p \/ (writer.page = p /\ writer.position < a))
    <3>0. writer.page \in Pages /\ writer.position \in Cells
      BY Committed, AppendingAt
    <3>1. CASE p = NoPage
      BY <3>0, <3>1 DEF Pages, NoPage
    <3>2. CASE p # NoPage
      <4>1. /\ p \in Pages /\ file[p] = "inited" /\ ChainPoint(p, a) /\ a \in Cells
        BY <3>2, ReaderTypes
      <4>2. p <= writer.page /\ (p = writer.page => a <= writer.position)
        BY <4>1, Committed, AppendingAt, FramesBehind
      <4> QED BY <3>0, <4>1, <4>2, PagesAssumption DEF Pages, Cells
    <3> QED BY <3>1, <3>2
  <2> HIDE DEF p, a
  <2>2. {i \in 1..n : \/ log'[i].page < p
                      \/ log'[i].page = p /\ log'[i].position < a}
        = {i \in 1..Len(log) : \/ log[i].page < p
                               \/ log[i].page = p /\ log[i].position < a}
    BY <1>1, <1>2, <2>1
  <2> QED BY <1>1, <2>2 DEF Cursor, Before, Seeking, p, a
<1>5. AbsCursor' = AbsCursor /\ AbsSeeking' = AbsSeeking
  BY <1>4 DEF AbsCursor, AbsSeeking
<1>6. \E f \in 1..MaxLog : AbsLog' = Append(AbsLog, f)
  BY <1>2, <1>3
<1> QED BY <1>1, <1>5, <1>6
        DEF Abstract!AppendFrame, AbsCursor, AbsSeeking, AbsLog, Cursor, Seeking

LEMMA AbsInit == Init => Abstract!LogInit
<1> SUFFICES ASSUME Init PROVE Abstract!LogInit
  OBVIOUS
<1>1. PagesInv
  BY PagesStart
<1>2. AbsLog = <<>>
  <2>1. Len(log) = 0
    BY DEF Init
  <2> QED BY <2>1 DEF AbsLog
<1>3. \A r \in Readers : Cursor(r) = 0 /\ Seeking(r) = FALSE
  BY <1>1, BeforeNothing DEF Init, Cursor, Seeking, PagesInv
<1>4. AbsCursor = [r \in Readers |-> 0] /\ AbsSeeking = [r \in Readers |-> FALSE]
  BY <1>3 DEF AbsCursor, AbsSeeking
<1> QED BY <1>2, <1>4
        DEF Init, Abstract!LogInit, AbsCursor, AbsSeeking, AbsLog, Cursor, Seeking

LEMMA AbsStep ==
    PagesInv /\ PagesInv' /\ [Next]_vars => [Abstract!LogNext]_Abstract!LogVars
<1> SUFFICES ASSUME PagesInv, PagesInv', [Next]_vars
             PROVE  [Abstract!LogNext]_Abstract!LogVars
  OBVIOUS
<1>0. reader \in [Readers -> ReaderType]
  BY DEF PagesInv, TypeOK, ReaderType
<1>1. ASSUME UNCHANGED <<log, reader, out>> PROVE UNCHANGED Abstract!LogVars
  BY <1>1, AbsStutter DEF Cursor, Seeking, Before
<1>2. CASE SetStatusWritten
  BY <1>2, AbsAppend DEF Abstract!LogNext
<1>3. ASSUME NEW r \in Readers, Join(r) PROVE UNCHANGED Abstract!LogVars
  <2>1. UNCHANGED <<log, out>>
    BY <1>3 DEF Join, writeVars
  <2>2. ASSUME NEW q \in Readers
        PROVE  Cursor(q)' = Cursor(q) /\ Seeking(q)' = Seeking(q)
    <3>1. /\ reader'[q].page = reader[q].page
          /\ reader'[q].position = reader[q].position
      BY <1>0, <1>3 DEF Join, ReaderType
    <3>2. Cursor(q)' = Cursor(q)
      BY <2>1, <3>1 DEF Cursor, Before
    <3>3. CASE q = r
      <4>1. reader[r].pc = "off" /\ reader'[r].pc = "read"
        BY <1>0, <1>3 DEF Join, ReaderType
      <4>2. Seeking(r) = FALSE /\ Seeking(r)' = FALSE
        BY <4>1 DEF Seeking
      <4> QED BY <3>2, <3>3, <4>2
    <3>4. CASE q # r
      <4>1. reader'[q] = reader[q]
        BY <1>0, <1>3, <3>4 DEF Join
      <4> QED BY <3>2, <4>1 DEF Seeking
    <3> QED BY <3>3, <3>4
  <2> QED BY <2>1, <2>2, AbsStutter
<1>4. ASSUME NEW r \in Readers, NEW p \in Pages, Seek(r, p)
      PROVE  Abstract!SeekTo(r)
  BY <1>0, <1>4, AbsSeekTo DEF Seek, writeVars
<1>5. ASSUME NEW r \in Readers, SkipFrame(r) \/ SkipEnds(r) \/ Expire(r)
      PROVE  Abstract!SeekTo(r)
  <2>1. CASE SkipFrame(r) \/ SkipEnds(r)
    BY <1>0, <2>1, AbsSeekTo DEF SkipFrame, SkipEnds, writeVars
  <2>2. CASE Expire(r)
    <3>1. reader'[r].pc = "expired" /\ \A q \in Readers : q # r => reader'[q] = reader[q]
      BY <1>0, <2>2 DEF Expire, ReaderType
    <3> QED BY <2>2, <3>1, AbsSeekTo DEF Expire, writeVars
  <2> QED BY <1>5, <2>1, <2>2
<1>6. ASSUME NEW r \in Readers, GetNextFrame(r) \/ ReaderNextPage(r)
      PROVE  Abstract!Deliver(r) \/ UNCHANGED Abstract!LogVars
  BY <1>6, AbsDeliver, AbsNextPage
<1> QED BY <1>1, <1>2, <1>3, <1>4, <1>5, <1>6
        DEF Next, vars, ReaderStep, readVars, StartWriter, WriterStep, LoadPage,
            PassWrittenFrame, LocateWritableFrame, LoadNextPage, LoadNewPage,
            FinishPage, WriteData, WriteHeader, ClearNextEntry,
            LocateFrame, DropFrame, Crash, WriteFrame, Abstract!LogNext

(* The journal is one continuous, append-only sequence of frames, of which  *)
(* a reader that does not seek is given every one, in order, although the   *)
(* writer stores them piecemeal on several pages and may crash anywhere.    *)
THEOREM PagesImplementLog == Spec => ImplementsLog
<1>1. Init => Abstract!LogInit
  BY AbsInit
<1>2. PagesInv /\ PagesInv' /\ [Next]_vars => [Abstract!LogNext]_Abstract!LogVars
  BY AbsStep
<1> QED BY <1>1, <1>2, PagesInvariant, PTL DEF Spec, ImplementsLog, Abstract!LogSpec
=============================================================================
