------------------------- MODULE JournalReaderProofs -------------------------
(***************************************************************************)
(* JournalReader for any number of journals, pages, frames and calls:      *)
(* getNextFrame returns the frames of each journal in order and the oldest *)
(* of all that were there, and seekTime passes no frame it was asked for.  *)
(***************************************************************************)
EXTENDS JournalReader, WellFoundedInduction, TLAPS

WriterType == [pc : {"off", "idle", "locate", "init", "open", "close"},
               nano : 0..MaxClock]
CursorType == [page : Nat, pos : Nat, expired : BOOLEAN]

(* The variables are functions; TypeOK speaks of their values. *)
Shape ==
    /\ clock \in 1..MaxClock
    /\ log \in [Journals -> Seq(1..MaxClock)]
    /\ pages \in [Journals -> Seq(PageType)]
    /\ writer \in [Journals -> WriterType]
    /\ cur \in [Journals -> CursorType]
    /\ out \in [Journals -> Seq(1..MaxClock)]
    /\ added \in 0..NumJournals
    /\ reader \in ReaderType
    /\ calls \in 0..MaxCall

NumPages(j) == Len(pages[j])
LogLen(j) == Len(log[j])

(* The nano times of a journal never decrease. *)
LogSorted(j) ==
    /\ \A i \in 1..LogLen(j) : log[j][i] <= clock
    /\ \A i, k \in 1..LogLen(j) : i <= k => log[j][i] <= log[j][k]

Turning == {"init", "open", "close"}
WriterInv(j) ==
    /\ writer[j].pc = "off" <=> NumPages(j) = 0
    /\ NumPages(j) = 0 => LogLen(j) = 0
    /\ writer[j].pc = "close" => NumPages(j) > 1
    /\ writer[j].pc \in Turning => LogLen(j) = pages[j][NumPages(j)].before
    /\ \/ writer[j].pc \in {"locate", "close"}
       \/ writer[j].pc \in Turning /\ NumPages(j) > 1
       => /\ writer[j].nano \in 1..clock
          /\ \A i \in 1..LogLen(j) : log[j][i] <= writer[j].nano

(* Every page but the last is full, and closed unless the writer is about   *)
(* to do it; a page is initialised when the next one is created or when     *)
(* frames go to it; no frame of an earlier page is younger than its start.  *)
PageAt(j, p) ==
    /\ pages[j][p].before <= LogLen(j)
    /\ p < NumPages(j) => pages[j][p].before < pages[j][p + 1].before
    /\ p < NumPages(j) \/ writer[j].pc \notin {"init", "open"}
         => pages[j][p].status = "INITED"
    /\ pages[j][p].closed =>
         p < NumPages(j) /\ pages[j][p + 1].status = "INITED"
    /\ ~pages[j][p].closed /\ p < NumPages(j) =>
         p = NumPages(j) - 1 /\ writer[j].pc \in Turning
    /\ pages[j][p].start > 0 =>
         \A i \in 1..pages[j][p].before : log[j][i] <= pages[j][p].start
PageInv(j) ==
    /\ NumPages(j) > 0 => pages[j][1].before = 0
    /\ \A p \in 1..NumPages(j) : PageAt(j, p)

(* The reader's place in journal j. *)
CursorOK(j, c) ==
    /\ c.page = NoPage => c.pos = 0
    /\ c.expired => c.page = NoPage
    /\ c.page # NoPage =>
         /\ c.page \in 1..NumPages(j)
         /\ pages[j][c.page].status = "INITED"
         /\ pages[j][c.page].before <= c.pos
         /\ c.pos <= PageEnd(j, c.page)
CursorInv(j) == CursorOK(j, cur[j])

(* getNextFrame: what it has found is still there, and as long as it has    *)
(* not found a frame as old as the oldest, that one is in a journal it has  *)
(* not yet looked at.                                                       *)
Found ==
    reader.minNano # TIME_TO_LAST =>
      /\ reader.curJournal \in 1..added
      /\ reader.curJournal < reader.at
      /\ Unread(reader.curJournal, cur[reader.curJournal])
      /\ reader.minNano = log[reader.curJournal][cur[reader.curJournal].pos + 1]
Waiting(j) ==
    /\ reader.at <= j /\ ~cur[j].expired
    /\ \E i \in (cur[j].pos + 1)..LogLen(j) : log[j][i] = reader.oldest
LookInv ==
    reader.pc = "look" =>
      /\ reader.at <= added + 1
      /\ Found
      /\ reader.oldest # Never =>
           \/ reader.minNano \in 1..reader.oldest
           \/ \E j \in 1..added : Waiting(j)

(* seekTime: the page it goes to begins before the time it seeks. *)
AllBefore(n) == \A i \in 1..n : log[reader.journal][i] < reader.time
SeekInv ==
    /\ reader.pc = "idle" => reader = Idle
    /\ reader.pc \in {"scan", "load", "pass"} =>
         reader.journal \in 1..added
    /\ reader.pc = "scan" =>
         /\ reader.time > 0 /\ ~reader.raw
         /\ reader.page <= NumPages(reader.journal)
    /\ reader.pc = "load" =>
         /\ reader.page = 1 \/ reader.page \in 1..NumPages(reader.journal)
         /\ reader.time = TIME_FROM_FIRST => reader.page = 1
         /\ reader.time > 0 /\ ~reader.raw /\ reader.page <= NumPages(reader.journal)
              => AllBefore(pages[reader.journal][reader.page].before)
    /\ reader.pc = "pass" =>
         /\ reader.time # TIME_FROM_FIRST
         /\ ~cur[reader.journal].expired /\ cur[reader.journal].page # NoPage
         /\ reader.time > 0 /\ ~reader.raw => AllBefore(cur[reader.journal].pos)

ReaderInv ==
    /\ Shape
    /\ \A j \in Journals : LogSorted(j) /\ WriterInv(j) /\ PageInv(j) /\ CursorInv(j)
    /\ LookInv
    /\ SeekInv

-----------------------------------------------------------------------------
LEMMA Types ==
    ASSUME Shape, NEW j \in Journals
    PROVE  /\ LogLen(j) \in Nat /\ NumPages(j) \in Nat
           /\ \A i \in 1..LogLen(j) : log[j][i] \in 1..MaxClock /\ log[j][i] \in Nat
           /\ \A p \in 1..NumPages(j) :
                /\ pages[j][p] \in PageType
                /\ pages[j][p].start \in Nat /\ pages[j][p].before \in Nat
                /\ pages[j][p].closed \in BOOLEAN
           /\ DOMAIN pages[j] = 1..NumPages(j)
           /\ cur[j].page \in Nat /\ cur[j].pos \in Nat /\ cur[j].expired \in BOOLEAN
           /\ clock \in Nat /\ MaxClock \in Nat /\ added \in Nat
<1>1. log[j] \in Seq(1..MaxClock) /\ pages[j] \in Seq(PageType) /\ cur[j] \in CursorType
  BY DEF Shape
<1>2. /\ Len(log[j]) \in Nat
      /\ \A i \in 1..Len(log[j]) : log[j][i] \in 1..MaxClock
  <2> DEFINE Nanos == 1..MaxClock
  <2>1. log[j] \in Seq(Nanos)
    BY <1>1
  <2> HIDE DEF Nanos
  <2>2. Len(log[j]) \in Nat /\ \A i \in 1..Len(log[j]) : log[j][i] \in Nanos
    BY <2>1
  <2> QED BY <2>2 DEF Nanos
<1>5. /\ Len(pages[j]) \in Nat /\ DOMAIN pages[j] = 1..Len(pages[j])
      /\ \A p \in 1..Len(pages[j]) : pages[j][p] \in PageType
  BY <1>1
<1>3. \A x \in PageType : x.start \in Nat /\ x.before \in Nat /\ x.closed \in BOOLEAN
  BY ReaderAssumption DEF PageType
<1>4. clock \in Nat /\ MaxClock \in Nat /\ added \in Nat
  BY ReaderAssumption DEF Shape
<1> QED BY <1>1, <1>2, <1>3, <1>4, <1>5, ReaderAssumption
        DEF LogLen, NumPages, CursorType

(* Where pages and the log only grow, places in them remain good. *)
Grows(j) ==
    /\ LogLen(j)' >= LogLen(j)
    /\ \A i \in 1..LogLen(j) : log'[j][i] = log[j][i]
    /\ NumPages(j)' >= NumPages(j)
    /\ \A p \in 1..NumPages(j) :
         /\ pages'[j][p].before = pages[j][p].before
         /\ pages[j][p].status = "INITED" => pages'[j][p].status = "INITED"
         /\ PageEnd(j, p)' >= PageEnd(j, p)

LEMMA EndInLog ==
    ASSUME Shape, NEW j \in Journals, PageInv(j), NEW p \in 1..NumPages(j)
    PROVE  PageEnd(j, p) \in Nat /\ PageEnd(j, p) <= LogLen(j)
<1>1. CASE p < NumPages(j)
  <2>1. p + 1 \in 1..NumPages(j)
    BY <1>1, Types
  <2> QED BY <1>1, <2>1, Types DEF PageEnd, PageInv, PageAt, NumPages
<1>2. CASE ~(p < NumPages(j))
  BY <1>2, Types DEF PageEnd, NumPages, LogLen
<1> QED BY <1>1, <1>2

LEMMA CursorKeeps ==
    ASSUME Shape, Shape', NEW j \in Journals, PageInv(j), CursorInv(j), Grows(j),
           cur'[j] = cur[j]
    PROVE  CursorInv(j)'
<1>1. CASE cur[j].page = NoPage
  BY <1>1 DEF CursorInv, CursorOK
<1>2. CASE cur[j].page # NoPage
  <2>1. /\ cur[j].page \in 1..NumPages(j) /\ pages[j][cur[j].page].status = "INITED"
        /\ pages[j][cur[j].page].before <= cur[j].pos
        /\ cur[j].pos <= PageEnd(j, cur[j].page) /\ ~cur[j].expired
    BY <1>2 DEF CursorInv, CursorOK
  <2>2. PICK p \in 1..NumPages(j) : p = cur[j].page
    BY <2>1
  <2>3. /\ NumPages(j)' \in Nat /\ NumPages(j) \in Nat
        /\ PageEnd(j, p) \in Nat /\ cur[j].pos \in Nat
        /\ NumPages(j)' >= NumPages(j)
    <3>1. pages'[j] \in Seq(PageType)
      BY DEF Shape
    <3>2. Len(pages'[j]) \in Nat
      BY <3>1
    <3> QED BY <3>2, Types, EndInLog DEF NumPages, Grows
  <2>4. p \in 1..NumPages(j)'
    BY <2>3
  <2>5. /\ pages'[j][p].status = "INITED" /\ pages'[j][p].before = pages[j][p].before
        /\ PageEnd(j, p)' >= PageEnd(j, p)
    BY <2>1, <2>2 DEF Grows
  <2>6. PageEnd(j, p)' \in Int
    <3>1. log'[j] \in Seq(1..MaxClock) /\ pages'[j] \in Seq(PageType)
      BY DEF Shape
    <3>2. /\ Len(log'[j]) \in Nat /\ Len(pages'[j]) \in Nat
          /\ \A q \in 1..Len(pages'[j]) : pages'[j][q] \in PageType
      BY <3>1
    <3>3. \A x \in PageType : x.before \in Nat
      BY DEF PageType
    <3> QED BY <2>4, <3>2, <3>3 DEF PageEnd, NumPages
  <2>7. cur[j].pos <= PageEnd(j, p)'
    BY <2>1, <2>2, <2>3, <2>5, <2>6
  <2>8. (cur[j].pos <= PageEnd(j, cur[j].page))'
    BY <2>2, <2>7 DEF PageEnd
  <2> QED BY <2>1, <2>2, <2>4, <2>5, <2>8 DEF CursorInv, CursorOK
<1> QED BY <1>1, <1>2

(* A journal nothing happens to. *)
LEMMA OtherJournal ==
    ASSUME NEW k \in Journals, UNCHANGED clock,
           log'[k] = log[k], pages'[k] = pages[k], writer'[k] = writer[k]
    PROVE  /\ LogSorted(k)' <=> LogSorted(k)
           /\ WriterInv(k)' <=> WriterInv(k)
           /\ PageInv(k)' <=> PageInv(k)
           /\ cur'[k] = cur[k] => (CursorInv(k)' <=> CursorInv(k))
BY DEF LogSorted, WriterInv, PageInv, PageAt, CursorInv, CursorOK, NumPages, LogLen, PageEnd

LEMMA NothingGrows ==
    ASSUME Shape, NEW k \in Journals, PageInv(k), log'[k] = log[k], pages'[k] = pages[k]
    PROVE  Grows(k)
<1>1. \A p : PageEnd(k, p)' = PageEnd(k, p)
  BY DEF PageEnd
<1>2. LogLen(k)' = LogLen(k) /\ NumPages(k)' = NumPages(k)
  BY DEF LogLen, NumPages
<1>3. \A p \in 1..NumPages(k) : PageEnd(k, p) >= PageEnd(k, p)
  BY EndInLog
<1> QED BY <1>1, <1>2, <1>3, Types DEF Grows

(* The registers of the reader while the journals grow. *)
LEMMA RegistersKeep ==
    ASSUME ReaderInv, Shape', UNCHANGED readVars,
           \A j \in Journals : Grows(j) /\ PageInv(j)'
    PROVE  LookInv' /\ SeekInv'
<1>0. /\ UNCHANGED <<added, cur, reader>> /\ Shape
      /\ \A j \in 1..added : j \in Journals
  BY ReaderAssumption DEF readVars, ReaderInv, Shape, Journals
<1>1. LookInv'
  <2> SUFFICES ASSUME reader.pc = "look" PROVE LookInv'
    BY <1>0 DEF LookInv
  <2>1. /\ reader.at <= added + 1 /\ Found
        /\ reader.oldest # Never => \/ reader.minNano \in 1..reader.oldest
                                    \/ \E j \in 1..added : Waiting(j)
    BY DEF ReaderInv, LookInv
  <2>2. Found'
    <3> SUFFICES ASSUME reader.minNano # TIME_TO_LAST PROVE Found'
      BY <1>0 DEF Found
    <3>1. PICK j \in 1..added : j = reader.curJournal
      BY <2>1 DEF Found
    <3>2. /\ j < reader.at /\ Unread(j, cur[j]) /\ reader.minNano = log[j][cur[j].pos + 1]
      BY <2>1, <3>1 DEF Found
    <3>3. PICK p \in 1..NumPages(j) : p = cur[j].page
      BY <1>0, <3>2 DEF Unread, ReaderInv, CursorInv, CursorOK
    <3>4. /\ cur[j].pos < PageEnd(j, p) /\ PageEnd(j, p) <= LogLen(j)
          /\ PageEnd(j, p) \in Nat /\ LogLen(j) \in Nat /\ cur[j].pos \in Nat
      BY <1>0, <3>2, <3>3, Types, EndInLog DEF Unread, ReaderInv
    <3>5. cur[j].pos + 1 \in 1..LogLen(j)
      BY <3>4
    <3>6. log'[j][cur[j].pos + 1] = log[j][cur[j].pos + 1]
      BY <1>0, <3>5 DEF Grows
    <3>7. CursorInv(j)'
      BY <1>0, CursorKeeps DEF ReaderInv
    <3>8. PageEnd(j, p)' >= PageEnd(j, p) /\ NumPages(j)' >= NumPages(j)
      BY <1>0 DEF Grows
    <3>9. PageEnd(j, p)' \in Int
      <4>1. log'[j] \in Seq(1..MaxClock) /\ pages'[j] \in Seq(PageType)
        BY <1>0 DEF Shape
      <4>2. /\ Len(log'[j]) \in Nat /\ Len(pages'[j]) \in Nat
            /\ \A q \in 1..Len(pages'[j]) : pages'[j][q] \in PageType
        BY <4>1
      <4>3. \A x \in PageType : x.before \in Nat
        BY DEF PageType
      <4> QED BY <4>2, <4>3 DEF PageEnd
    <3>10. cur[j].pos < PageEnd(j, p)'
      BY <3>4, <3>8, <3>9
    <3>11. Unread(j, cur[j])'
      BY <1>0, <3>2, <3>3, <3>10 DEF Unread, PageEnd
    <3> QED BY <1>0, <3>1, <3>2, <3>6, <3>11 DEF Found, Unread, PageEnd
  <2>3. ASSUME NEW j \in 1..added, Waiting(j) PROVE Waiting(j)'
    <3>1. PICK i \in (cur[j].pos + 1)..LogLen(j) : log[j][i] = reader.oldest
      BY <2>3 DEF Waiting
    <3>2. /\ LogLen(j) \in Nat /\ cur[j].pos \in Nat /\ LogLen(j)' >= LogLen(j)
          /\ LogLen(j)' \in Int
      <4>1. log'[j] \in Seq(1..MaxClock)
        BY <1>0 DEF Shape
      <4>2. Len(log'[j]) \in Nat
        BY <4>1
      <4> QED BY <1>0, <4>2, Types DEF Grows, LogLen
    <3>3. i \in 1..LogLen(j) /\ i \in (cur[j].pos + 1)..LogLen(j)'
      BY <3>1, <3>2
    <3>4. log'[j][i] = reader.oldest
      BY <1>0, <3>1, <3>3 DEF Grows
    <3> QED BY <1>0, <2>3, <3>3, <3>4 DEF Waiting
  <2> QED BY <1>0, <2>1, <2>2, <2>3 DEF LookInv
<1>2. SeekInv'
  <2>0. SeekInv
    BY DEF ReaderInv
  <2>1. CASE reader.pc \notin {"scan", "load", "pass"}
    BY <1>0, <2>0, <2>1 DEF SeekInv
  <2>2. CASE reader.pc \in {"scan", "load", "pass"}
    <3>1. PICK j \in 1..added : j = reader.journal
      BY <2>0, <2>2 DEF SeekInv
    <3>2. /\ LogLen(j) \in Nat /\ NumPages(j) \in Nat /\ cur[j].pos \in Nat
          /\ NumPages(j)' >= NumPages(j) /\ NumPages(j)' \in Nat
          /\ reader.page \in Nat
      <4>1. pages'[j] \in Seq(PageType)
        BY <1>0 DEF Shape
      <4>2. Len(pages'[j]) \in Nat
        BY <4>1
      <4> QED BY <1>0, <4>2, Types DEF Grows, NumPages, Shape, ReaderType
    <3>3. ASSUME NEW n \in Nat, n <= LogLen(j), AllBefore(n) PROVE AllBefore(n)'
      <4>1. \A i \in 1..n : i \in 1..LogLen(j)
        BY <3>2, <3>3
      <4> QED BY <1>0, <3>1, <3>3, <4>1 DEF AllBefore, Grows
    <3>4. CASE reader.pc = "scan"
      BY <1>0, <2>0, <3>1, <3>2, <3>4 DEF SeekInv
    <3>5. CASE reader.pc = "load"
      <4>1. /\ reader.page = 1 \/ reader.page \in 1..NumPages(j)'
            /\ reader.time = TIME_FROM_FIRST => reader.page = 1
        BY <2>0, <3>1, <3>2, <3>5 DEF SeekInv
      <4>2. ASSUME reader.time > 0, ~reader.raw, reader.page <= NumPages(j)'
            PROVE  AllBefore(pages[j][reader.page].before)'
        <5>1. CASE reader.page \in 1..NumPages(j)
          <6>1. PICK n \in Nat : n = pages[j][reader.page].before
            BY <1>0, <5>1, Types
          <6>2. n <= LogLen(j) /\ AllBefore(n)
            BY <1>0, <2>0, <3>1, <3>2, <3>5, <4>2, <5>1, <6>1
               DEF SeekInv, ReaderInv, PageInv, PageAt
          <6>3. AllBefore(n)' /\ pages'[j][reader.page].before = n
            BY <1>0, <3>3, <5>1, <6>1, <6>2 DEF Grows
          <6> QED BY <1>0, <6>3 DEF AllBefore
        <5>2. CASE reader.page \notin 1..NumPages(j)
          <6>1. reader.page = 1 /\ NumPages(j)' > 0 /\ NumPages(j) = 0
            BY <2>0, <3>1, <3>2, <3>5, <4>2, <5>2 DEF SeekInv
          <6>2. pages'[j][1].before = 0
            BY <1>0, <6>1 DEF PageInv, PageAt
          <6> QED BY <1>0, <6>1, <6>2 DEF AllBefore
        <5> QED BY <5>1, <5>2
      <4> QED BY <1>0, <3>1, <3>5, <4>1, <4>2 DEF SeekInv, AllBefore
    <3>6. CASE reader.pc = "pass"
      <4>1. /\ reader.time # TIME_FROM_FIRST /\ ~cur[j].expired /\ cur[j].page # NoPage
            /\ reader.time > 0 /\ ~reader.raw => AllBefore(cur[j].pos)
        BY <2>0, <3>1, <3>6 DEF SeekInv
      <4>2. cur[j].pos <= LogLen(j)
        BY <1>0, <3>2, <4>1, EndInLog DEF ReaderInv, CursorInv, CursorOK
      <4>3. reader.time > 0 /\ ~reader.raw => AllBefore(cur[j].pos)'
        <5>1. PICK n \in Nat : n = cur[j].pos
          BY <3>2
        <5> QED BY <1>0, <3>3, <4>1, <4>2, <5>1 DEF AllBefore
      <4> QED BY <1>0, <3>1, <3>6, <4>1, <4>3 DEF SeekInv, AllBefore
    <3> QED BY <2>2, <3>4, <3>5, <3>6
  <2> QED BY <2>1, <2>2
<1> QED BY <1>1, <1>2

-----------------------------------------------------------------------------
(* The writer of journal j. *)
LEMMA WriterKeeps ==
    ASSUME ReaderInv, NEW j \in Journals, Shape', UNCHANGED <<clock, readVars>>,
           \A k \in Journals \ {j} : /\ log'[k] = log[k] /\ pages'[k] = pages[k]
                                     /\ writer'[k] = writer[k],
           Grows(j), LogSorted(j)', WriterInv(j)', PageInv(j)'
    PROVE  ReaderInv'
<1>0. Shape /\ UNCHANGED <<cur, reader, added>>
  BY DEF ReaderInv, readVars
<1>1. \A k \in Journals : Grows(k)
  BY <1>0, NothingGrows DEF ReaderInv
<1>2. \A k \in Journals : LogSorted(k)' /\ WriterInv(k)' /\ PageInv(k)'
  BY OtherJournal DEF ReaderInv
<1>3. \A k \in Journals : CursorInv(k)'
  BY <1>0, <1>1, CursorKeeps DEF ReaderInv
<1>4. LookInv' /\ SeekInv'
  BY <1>1, <1>2, RegistersKeep
<1> QED BY <1>2, <1>3, <1>4 DEF ReaderInv

LEMMA StampInv == ASSUME ReaderInv, NEW j \in Journals, Stamp(j) PROVE ReaderInv'
<1>0. Shape /\ LogSorted(j) /\ WriterInv(j) /\ PageInv(j)
  BY DEF ReaderInv
<1>1. /\ writer[j].pc = "idle" /\ UNCHANGED <<clock, log, pages, readVars>>
      /\ writer' = [writer EXCEPT ![j] = [pc |-> "locate", nano |-> clock]]
  BY DEF Stamp
<1>2. /\ writer'[j] = [pc |-> "locate", nano |-> clock]
      /\ \A k \in Journals \ {j} : writer'[k] = writer[k]
  BY <1>0, <1>1 DEF Shape
<1>3. Shape'
  <2>1. [pc |-> "locate", nano |-> clock] \in WriterType
    BY <1>0, ReaderAssumption DEF WriterType, Shape
  <2> QED BY <1>0, <1>1, <2>1 DEF Shape, readVars
<1>4. Grows(j)
  BY <1>0, <1>1, NothingGrows
<1>5. LogSorted(j)'
  BY <1>0, <1>1 DEF LogSorted, LogLen
<1>6. WriterInv(j)'
  BY <1>0, <1>1, <1>2, Types DEF WriterInv, LogLen, NumPages, Turning, LogSorted, Shape
<1>7. PageInv(j)'
  <2>1. \A p \in 1..NumPages(j) : writer[j].pc \notin Turning /\ writer'[j].pc \notin Turning
    BY <1>1, <1>2 DEF Turning
  <2> QED BY <1>0, <1>1, <1>2, <2>1 DEF PageInv, PageAt, NumPages, LogLen, Turning
<1> QED BY <1>1, <1>2, <1>3, <1>4, <1>5, <1>6, <1>7, WriterKeeps

LEMMA PublishInv == ASSUME ReaderInv, NEW j \in Journals, Publish(j) PROVE ReaderInv'
<1>0. Shape /\ LogSorted(j) /\ WriterInv(j) /\ PageInv(j)
  BY DEF ReaderInv
<1> DEFINE n == LogLen(j)
           nano == writer[j].nano
<1>1. /\ writer[j].pc = "locate" /\ UNCHANGED <<clock, pages, readVars>>
      /\ writer' = [writer EXCEPT ![j] = [pc |-> "idle", nano |-> 0]]
      /\ log' = [log EXCEPT ![j] = Append(@, writer[j].nano)]
  BY DEF Publish
<1>2. /\ nano \in 1..clock /\ nano \in 1..MaxClock /\ nano \in Nat /\ n \in Nat
      /\ \A i \in 1..n : log[j][i] <= nano /\ log[j][i] \in Nat
      /\ NumPages(j) # 0 /\ NumPages(j) \in Nat
  BY <1>0, <1>1, Types, ReaderAssumption DEF WriterInv, Shape
<1>3. /\ writer'[j] = [pc |-> "idle", nano |-> 0] /\ log'[j] = Append(log[j], nano)
      /\ \A k \in Journals \ {j} : writer'[k] = writer[k] /\ log'[k] = log[k]
  BY <1>0, <1>1 DEF Shape
<1>4. /\ LogLen(j)' = n + 1 /\ log'[j][n + 1] = nano
      /\ \A i \in 1..n : log'[j][i] = log[j][i]
      /\ log'[j] \in Seq(1..MaxClock)
  <2>1. log[j] \in Seq(1..MaxClock)
    BY <1>0 DEF Shape
  <2> HIDE DEF nano
  <2> QED BY <1>2, <1>3, <2>1 DEF LogLen
<1> HIDE DEF nano
<1>5. Shape'
  <2>1. [pc |-> "idle", nano |-> 0] \in WriterType
    BY ReaderAssumption DEF WriterType
  <2>2. log' \in [Journals -> Seq(1..MaxClock)]
    BY <1>0, <1>1, <1>4 DEF Shape
  <2> QED BY <1>0, <1>1, <2>1, <2>2 DEF Shape, readVars
<1>6. \A i \in 1..(n + 1) : i \in 1..n \/ i = n + 1
  BY <1>2
<1>7. Grows(j)
  <2>1. ASSUME NEW p \in 1..NumPages(j) PROVE PageEnd(j, p)' >= PageEnd(j, p)
    <3>1. CASE p < NumPages(j)
      <4>1. PageEnd(j, p)' = PageEnd(j, p)
        BY <1>1, <3>1 DEF PageEnd, NumPages
      <4> QED BY <1>0, <4>1, EndInLog
    <3>2. CASE ~(p < NumPages(j))
      BY <1>1, <1>2, <1>4, <3>2 DEF PageEnd, NumPages, LogLen
    <3> QED BY <3>1, <3>2
  <2>2. NumPages(j)' = NumPages(j)
    BY <1>1 DEF NumPages
  <2>3. LogLen(j)' >= LogLen(j) /\ NumPages(j)' >= NumPages(j) /\ pages' = pages
    BY <1>1, <1>2, <1>4, <2>2
  <2> QED BY <1>4, <2>1, <2>3 DEF Grows
<1>8. LogSorted(j)'
  <2>1. \A i \in 1..(n + 1) : log'[j][i] <= clock
    <3>1. \A i \in 1..n : log[j][i] <= clock
      BY <1>0 DEF LogSorted
    <3>2. nano <= clock
      <4>1. clock \in Nat
        BY <1>0, Types
      <4> QED BY <1>2, <4>1
    <3> HIDE DEF n
    <3> QED BY <1>4, <1>6, <3>1, <3>2
  <2>2. ASSUME NEW i \in 1..(n + 1), NEW k \in 1..(n + 1), i <= k
        PROVE  log'[j][i] <= log'[j][k]
    <3>1. CASE k = n + 1
      BY <1>2, <1>4, <1>6, <3>1
    <3>2. CASE k \in 1..n
      <4>1. i \in 1..n
        BY <1>2, <2>2, <3>2
      <4> QED BY <1>0, <1>4, <2>2, <3>2, <4>1 DEF LogSorted
    <3> QED BY <1>6, <3>1, <3>2
  <2> QED BY <1>1, <1>4, <2>1, <2>2 DEF LogSorted
<1>9. WriterInv(j)'
  BY <1>1, <1>2, <1>3 DEF WriterInv, NumPages, Turning
<1>10. PageInv(j)'
  <2>1. ASSUME NEW p \in 1..NumPages(j)
        PROVE  /\ pages[j][p].before <= n + 1
               /\ pages[j][p].start > 0 =>
                    \A i \in 1..pages[j][p].before : log'[j][i] <= pages[j][p].start
    <3>1. /\ pages[j][p].before \in Nat /\ pages[j][p].before <= n
          /\ pages[j][p].start > 0 =>
               \A i \in 1..pages[j][p].before : log[j][i] <= pages[j][p].start
      BY <1>0, Types DEF PageInv, PageAt
    <3>2. \A i \in 1..pages[j][p].before : i \in 1..n
      BY <1>2, <3>1
    <3> QED BY <1>2, <1>4, <3>1, <3>2
  <2>2. \A p \in 1..NumPages(j) :
          /\ p < NumPages(j) => pages[j][p].before < pages[j][p + 1].before
          /\ pages[j][p].status = "INITED"
          /\ pages[j][p].closed =>
               p < NumPages(j) /\ pages[j][p + 1].status = "INITED"
          /\ ~(~pages[j][p].closed /\ p < NumPages(j))
    BY <1>0, <1>1 DEF PageInv, PageAt, Turning
  <2>3. pages'[j] = pages[j] /\ NumPages(j)' = NumPages(j)
        /\ (NumPages(j) > 0 => pages[j][1].before = 0)
    BY <1>0, <1>1 DEF NumPages, PageInv, PageAt
  <2> QED BY <1>4, <2>1, <2>2, <2>3 DEF PageInv, PageAt
<1> QED BY <1>1, <1>3, <1>5, <1>7, <1>8, <1>9, <1>10, WriterKeeps

(* Journal j has one page more. *)
LEMMA CreatePageInv == ASSUME ReaderInv, NEW j \in Journals, CreatePage(j) PROVE ReaderInv'
<1>0. Shape /\ LogSorted(j) /\ WriterInv(j) /\ PageInv(j)
  BY DEF ReaderInv
<1> DEFINE n == NumPages(j)
           new == NewPage(LogLen(j))
<1>1. /\ UNCHANGED <<clock, log, readVars>>
      /\ writer' = [writer EXCEPT ![j].pc = "init"]
      /\ pages' = [pages EXCEPT ![j] = Append(@, new)]
      /\ \/ writer[j].pc = "off"
         \/ writer[j].pc = "locate" /\ ~HasRoom(j)
  BY DEF CreatePage, WriterGoes, LogLen
<1>2. n \in Nat /\ LogLen(j) \in Nat
  BY <1>0, Types
<1>3. /\ new \in PageType /\ new.before = LogLen(j) /\ new.start = 0
      /\ new.closed = FALSE
  BY <1>2, ReaderAssumption DEF NewPage, PageType
<1>4. /\ writer'[j].pc = "init" /\ writer'[j].nano = writer[j].nano
      /\ writer'[j] \in WriterType /\ pages'[j] = Append(pages[j], new)
      /\ \A k \in Journals \ {j} : writer'[k] = writer[k] /\ pages'[k] = pages[k]
  BY <1>0, <1>1 DEF Shape, WriterType
<1> HIDE DEF new
<1>5. /\ NumPages(j)' = n + 1 /\ pages'[j][n + 1] = new
      /\ \A p \in 1..n : pages'[j][p] = pages[j][p]
      /\ pages'[j] \in Seq(PageType)
  <2>1. pages[j] \in Seq(PageType)
    BY <1>0 DEF Shape
  <2> QED BY <1>3, <1>4, <2>1 DEF NumPages
<1>6. Shape'
  <2>1. writer' \in [Journals -> WriterType] /\ pages' \in [Journals -> Seq(PageType)]
    BY <1>0, <1>1, <1>4, <1>5 DEF Shape
  <2> QED BY <1>0, <1>1, <2>1 DEF Shape, readVars
<1>7. \A p \in 1..(n + 1) : p \in 1..n \/ p = n + 1
  BY <1>2
<1>8. Grows(j)
  <2>1. ASSUME NEW p \in 1..n PROVE PageEnd(j, p)' >= PageEnd(j, p)
    <3>1. CASE p < n
      <4>1. p + 1 \in 1..n /\ p < n + 1
        BY <1>2, <3>1
      <4>2. PageEnd(j, p)' = PageEnd(j, p)
        BY <1>5, <3>1, <4>1 DEF PageEnd, NumPages
      <4> QED BY <1>0, <4>2, EndInLog
    <3>2. CASE ~(p < n)
      <4>1. p = n /\ n < n + 1 /\ ~(n < n)
        BY <1>2, <3>2
      <4>2. PageEnd(j, p)' = LogLen(j) /\ PageEnd(j, p) = LogLen(j)
        BY <1>3, <1>5, <4>1 DEF PageEnd, NumPages, LogLen
      <4> QED BY <1>2, <4>2
    <3> QED BY <3>1, <3>2
  <2>2. LogLen(j)' = LogLen(j)
    BY <1>1 DEF LogLen
  <2>3. LogLen(j)' >= LogLen(j) /\ NumPages(j)' >= n /\ log' = log
    BY <1>1, <1>2, <1>5, <2>2
  <2> QED BY <1>5, <2>1, <2>3 DEF Grows
<1>9. LogSorted(j)'
  BY <1>0, <1>1 DEF LogSorted, LogLen
<1>10. CASE writer[j].pc = "off"
  <2>1. n = 0 /\ LogLen(j) = 0 /\ LogLen(j)' = 0
    BY <1>0, <1>1, <1>10 DEF WriterInv, LogLen
  <2>2. NumPages(j)' = 1 /\ pages'[j][1] = new
    BY <1>5, <2>1
  <2>3. WriterInv(j)'
    BY <1>3, <1>4, <2>1, <2>2 DEF WriterInv, Turning
  <2>4. PageInv(j)'
    BY <1>3, <1>4, <2>1, <2>2 DEF PageInv, PageAt, Turning
  <2> QED BY <1>1, <1>4, <1>6, <1>8, <1>9, <2>3, <2>4, WriterKeeps
<1>11. CASE writer[j].pc = "locate" /\ ~HasRoom(j)
  <2>1. /\ n > 0 /\ n \in 1..n /\ LogLen(j)' = LogLen(j)
        /\ writer[j].nano \in 1..clock
        /\ \A i \in 1..LogLen(j) : log[j][i] <= writer[j].nano
    BY <1>0, <1>1, <1>2, <1>11 DEF WriterInv, LogLen
  <2>2. pages[j][n].before < LogLen(j) /\ pages[j][n].before \in Nat
    BY <1>0, <1>2, <1>11, <2>1, Types, ReaderAssumption DEF HasRoom, NumPages, LogLen
  <2>3. WriterInv(j)'
    <3>1. /\ NumPages(j)' = n + 1 /\ n + 1 # 0 /\ n + 1 > 1
          /\ pages'[j][n + 1].before = LogLen(j)
      BY <1>2, <1>3, <1>5, <2>1
    <3>2. pages'[j][NumPages(j)'].before = LogLen(j)
      BY <3>1
    <3>3. /\ clock' = clock /\ log' = log
      BY <1>1
    <3>4. /\ writer'[j].nano \in 1..clock'
          /\ \A i \in 1..LogLen(j)' : log'[j][i] <= writer'[j].nano
      BY <1>4, <2>1, <3>3
    <3> HIDE DEF n
    <3> QED BY <1>4, <2>1, <3>1, <3>2, <3>4 DEF WriterInv, Turning
  <2>4. ASSUME NEW p \in 1..n
        PROVE  /\ pages[j][p].before <= LogLen(j)
               /\ pages'[j][p].before < pages'[j][p + 1].before
               /\ pages[j][p].status = "INITED"
               /\ pages[j][p].closed => p < n + 1 /\ pages'[j][p + 1].status = "INITED"
               /\ ~pages[j][p].closed => p = n
               /\ pages[j][p].start > 0 =>
                    \A i \in 1..pages[j][p].before : log[j][i] <= pages[j][p].start
    <3>1. /\ pages[j][p].before <= LogLen(j)
          /\ p < n => pages[j][p].before < pages[j][p + 1].before
          /\ pages[j][p].status = "INITED"
          /\ pages[j][p].closed => p < n /\ pages[j][p + 1].status = "INITED"
          /\ ~pages[j][p].closed /\ p < n => FALSE
          /\ pages[j][p].start > 0 =>
               \A i \in 1..pages[j][p].before : log[j][i] <= pages[j][p].start
      BY <1>0, <1>11 DEF PageInv, PageAt, Turning
    <3>2. CASE p < n
      <4>1. p + 1 \in 1..n /\ p < n + 1
        BY <1>2, <3>2
      <4> QED BY <1>5, <3>1, <3>2, <4>1
    <3>3. CASE ~(p < n)
      <4>1. p = n
        BY <1>2, <3>3
      <4> QED BY <1>3, <1>5, <2>2, <3>1, <3>3, <4>1
    <3> QED BY <3>2, <3>3
  <2>5. /\ 1 \in 1..n /\ pages[j][1].before = 0 /\ (n + 1) - 1 = n
        /\ LogLen(j) <= LogLen(j) /\ ~(n + 1 < n + 1)
    BY <1>0, <1>2, <2>1 DEF PageInv, PageAt
  <2>6. PageInv(j)'
    <3>1. log' = log /\ LogLen(j)' = LogLen(j) /\ NumPages(j)' = n + 1
      BY <1>1, <1>5, <2>1
    <3>2. ASSUME NEW p \in 1..n PROVE PageAt(j, p)'
      <4>1. p < n + 1
        BY <1>2
      <4> HIDE DEF n
      <4>2. pages'[j][p] = pages[j][p]
        BY <1>5
      <4> QED BY <1>4, <2>4, <2>5, <3>1, <4>1, <4>2 DEF PageAt, Turning
    <3>3. ASSUME NEW p, p = n + 1 PROVE PageAt(j, p)'
      <4>1. /\ pages'[j][p].before = LogLen(j) /\ pages'[j][p].closed = FALSE
            /\ ~(pages'[j][p].start > 0)
        BY <1>3, <1>5, <3>3
      <4> QED BY <1>4, <2>5, <3>1, <3>3, <4>1 DEF PageAt
    <3>4. pages'[j][1].before = 0
      BY <1>5, <2>5
    <3>5. \A p \in 1..NumPages(j)' : PageAt(j, p)'
      BY <1>7, <3>1, <3>2, <3>3
    <3> QED BY <3>1, <3>4, <3>5 DEF PageInv
  <2> QED BY <1>1, <1>4, <1>6, <1>8, <1>9, <2>3, <2>6, WriterKeeps
<1> QED BY <1>1, <1>10, <1>11

(* One field of the last page or the one before it is stored. *)
Stores(j, q, c) == pages' = [pages EXCEPT ![j] = [@ EXCEPT ![q] = c]]
LEMMA PageStored ==
    ASSUME ReaderInv, NEW j \in Journals, NEW q \in 1..NumPages(j),
           NEW c \in PageType, c.before = pages[j][q].before,
           pages[j][q].status = "INITED" => c.status = "INITED",
           Stores(j, q, c), UNCHANGED log
    PROVE  /\ pages' \in [Journals -> Seq(PageType)]
           /\ pages'[j][q] = c /\ NumPages(j)' = NumPages(j)
           /\ \A p \in 1..NumPages(j) : p # q => pages'[j][p] = pages[j][p]
           /\ \A k \in Journals \ {j} : pages'[k] = pages[k]
           /\ Grows(j) /\ LogLen(j)' = LogLen(j)
<1>0. Shape /\ PageInv(j)
  BY DEF ReaderInv
<1>1. pages[j] \in Seq(PageType) /\ pages \in [Journals -> Seq(PageType)]
  BY <1>0 DEF Shape
<1>2. /\ pages'[j] = [pages[j] EXCEPT ![q] = c]
      /\ \A k \in Journals \ {j} : pages'[k] = pages[k]
  BY <1>1 DEF Stores
<1>3. /\ pages'[j] \in Seq(PageType) /\ Len(pages'[j]) = Len(pages[j])
      /\ pages'[j][q] = c
      /\ \A p \in 1..Len(pages[j]) : p # q => pages'[j][p] = pages[j][p]
  BY <1>1, <1>2 DEF NumPages
<1>4. pages' \in [Journals -> Seq(PageType)]
  BY <1>1, <1>3 DEF Stores
<1>5. NumPages(j)' = NumPages(j) /\ LogLen(j)' = LogLen(j)
      /\ NumPages(j) \in Nat /\ LogLen(j) \in Nat
  BY <1>0, <1>3, Types DEF NumPages, LogLen
<1>6. \A p \in 1..NumPages(j) : pages'[j][p].before = pages[j][p].before
  BY <1>3 DEF NumPages
<1>7. ASSUME NEW p \in 1..NumPages(j) PROVE PageEnd(j, p)' >= PageEnd(j, p)
  <2>1. p < NumPages(j) => p + 1 \in 1..NumPages(j)
    BY <1>5
  <2>2. PageEnd(j, p)' = PageEnd(j, p)
    BY <1>5, <1>6, <2>1 DEF PageEnd, NumPages, LogLen
  <2> QED BY <1>0, <2>2, EndInLog
<1>8. /\ LogLen(j)' >= LogLen(j) /\ NumPages(j)' >= NumPages(j) /\ log' = log
      /\ \A p \in 1..NumPages(j) :
           pages[j][p].status = "INITED" => pages'[j][p].status = "INITED"
  BY <1>3, <1>5 DEF NumPages
<1>9. Grows(j)
  BY <1>6, <1>7, <1>8 DEF Grows
<1> QED BY <1>2, <1>3, <1>4, <1>5, <1>9 DEF NumPages

(* The writer goes on to its next step, and nothing but journal j changes.  *)
LEMMA WriterGone ==
    ASSUME ReaderInv, NEW j \in Journals, UNCHANGED <<clock, log, readVars>>,
           NEW where \in {"open", "close", "idle", "locate"}, WriterGoes(j, where),
           pages' \in [Journals -> Seq(PageType)]
    PROVE  /\ Shape' /\ LogSorted(j)'
           /\ writer'[j].pc = where /\ writer'[j].nano = writer[j].nano
           /\ \A k \in Journals \ {j} : writer'[k] = writer[k]
<1>0. Shape /\ LogSorted(j)
  BY DEF ReaderInv
<1>1. /\ writer'[j].pc = where /\ writer'[j].nano = writer[j].nano
      /\ writer'[j] \in WriterType /\ writer' \in [Journals -> WriterType]
      /\ \A k \in Journals \ {j} : writer'[k] = writer[k]
  BY <1>0 DEF Shape, WriterType, WriterGoes
<1>2. Shape'
  BY <1>0, <1>1 DEF Shape, readVars
<1>3. LogSorted(j)'
  BY <1>0 DEF LogSorted, LogLen
<1> QED BY <1>1, <1>2, <1>3

LEMMA InitPageInv == ASSUME ReaderInv, NEW j \in Journals, InitPage(j) PROVE ReaderInv'
<1>0. Shape /\ LogSorted(j) /\ WriterInv(j) /\ PageInv(j)
  BY DEF ReaderInv
<1>1. /\ writer[j].pc = "init" /\ WriterGoes(j, "open")
      /\ UNCHANGED <<clock, log, readVars>>
      /\ pages' = [pages EXCEPT ![j][Len(pages[j])].start = clock]
  BY DEF InitPage
<1>2. PICK n \in Nat : n = NumPages(j) /\ n > 0
  BY <1>0, <1>1, Types DEF WriterInv
<1>3. n \in 1..NumPages(j) /\ pages[j][n] \in PageType /\ LogLen(j) \in Nat
  BY <1>0, <1>2, Types
<1>4. PICK c \in PageType : c = [pages[j][n] EXCEPT !.start = clock]
  <2>1. clock \in 0..MaxClock
    BY <1>0, ReaderAssumption DEF Shape
  <2> QED BY <1>3, <2>1 DEF PageType
<1>5. /\ c.start = clock /\ c.status = pages[j][n].status
      /\ c.closed = pages[j][n].closed /\ c.before = pages[j][n].before
  BY <1>3, <1>4 DEF PageType
<1>6. Stores(j, n, c)
  BY <1>0, <1>1, <1>2, <1>4 DEF NumPages, Shape, Stores
<1>7. /\ pages' \in [Journals -> Seq(PageType)] /\ pages'[j][n] = c
      /\ NumPages(j)' = n /\ LogLen(j)' = LogLen(j) /\ Grows(j)
      /\ \A p \in 1..n : p # n => pages'[j][p] = pages[j][p]
      /\ \A k \in Journals \ {j} : pages'[k] = pages[k]
  <2>1. UNCHANGED log /\ (pages[j][n].status = "INITED" => c.status = "INITED")
    BY <1>1, <1>5
  <2>2. /\ pages' \in [Journals -> Seq(PageType)] /\ pages'[j][n] = c
        /\ NumPages(j)' = NumPages(j) /\ LogLen(j)' = LogLen(j) /\ Grows(j)
        /\ \A p \in 1..NumPages(j) : p # n => pages'[j][p] = pages[j][p]
        /\ \A k \in Journals \ {j} : pages'[k] = pages[k]
    BY <1>3, <1>5, <1>6, <2>1, PageStored
  <2> QED BY <1>2, <2>2
<1>8. /\ Shape' /\ LogSorted(j)'
      /\ writer'[j].pc = "open" /\ writer'[j].nano = writer[j].nano
      /\ \A k \in Journals \ {j} : writer'[k] = writer[k]
  BY <1>1, <1>7, WriterGone
<1>9. WriterInv(j)'
  <2>1. /\ clock' = clock /\ log' = log /\ n # 0
        /\ pages'[j][NumPages(j)'].before = pages[j][NumPages(j)].before
    BY <1>1, <1>2, <1>5, <1>7
  <2> QED BY <1>0, <1>1, <1>2, <1>7, <1>8, <2>1 DEF WriterInv, Turning
<1>10. PageInv(j)'
  <2>1. ASSUME NEW p \in 1..n, p # n PROVE PageAt(j, p)'
    <3>1. PageAt(j, p) /\ pages'[j][p] = pages[j][p] /\ p + 1 \in 1..n
      BY <1>0, <1>2, <1>7, <2>1 DEF PageInv
    <3>2. /\ pages'[j][p + 1].before = pages[j][p + 1].before
          /\ pages'[j][p + 1].status = pages[j][p + 1].status
      BY <1>5, <1>7, <3>1
    <3> QED BY <1>1, <1>2, <1>7, <1>8, <3>1, <3>2 DEF PageAt, Turning
  <2>2. PageAt(j, n)'
    <3>1. PageAt(j, n) /\ ~(n < n)
      BY <1>0, <1>2, <1>3 DEF PageInv
    <3>2. \A i \in 1..pages[j][n].before : log[j][i] <= clock
      <4>1. pages[j][n].before \in Nat /\ pages[j][n].before <= LogLen(j)
        BY <1>0, <1>3, <3>1, Types DEF PageAt
      <4>2. \A i \in 1..pages[j][n].before : i \in 1..LogLen(j)
        BY <1>3, <4>1
      <4> QED BY <1>0, <4>2 DEF LogSorted
    <3>3. log' = log
      BY <1>1
    <3> QED BY <1>1, <1>2, <1>5, <1>7, <1>8, <3>1, <3>2, <3>3 DEF PageAt
  <2>3. pages'[j][1].before = 0
    BY <1>0, <1>2, <1>5, <1>7 DEF PageInv
  <2> QED BY <1>7, <2>1, <2>2, <2>3 DEF PageInv
<1> QED BY <1>1, <1>7, <1>8, <1>9, <1>10, WriterKeeps

LEMMA OpenPageInv == ASSUME ReaderInv, NEW j \in Journals, OpenPage(j) PROVE ReaderInv'
<1>0. Shape /\ LogSorted(j) /\ WriterInv(j) /\ PageInv(j)
  BY DEF ReaderInv
<1>1. /\ writer[j].pc = "open"
      /\ WriterGoes(j, IF Len(pages[j]) > 1 THEN "close" ELSE "idle")
      /\ UNCHANGED <<clock, log, readVars>>
      /\ pages' = [pages EXCEPT ![j][Len(pages[j])].status = "INITED"]
  BY DEF OpenPage
<1>2. PICK n \in Nat : n = NumPages(j) /\ n > 0
  BY <1>0, <1>1, Types DEF WriterInv
<1>3. n \in 1..NumPages(j) /\ pages[j][n] \in PageType /\ LogLen(j) \in Nat
  BY <1>0, <1>2, Types
<1>4. PICK c \in PageType : c = [pages[j][n] EXCEPT !.status = "INITED"]
  BY <1>3 DEF PageType
<1>5. /\ c.start = pages[j][n].start /\ c.status = "INITED"
      /\ c.closed = pages[j][n].closed /\ c.before = pages[j][n].before
  BY <1>3, <1>4 DEF PageType
<1>6. Stores(j, n, c)
  BY <1>0, <1>1, <1>2, <1>4 DEF NumPages, Shape, Stores
<1>7. /\ pages' \in [Journals -> Seq(PageType)] /\ pages'[j][n] = c
      /\ NumPages(j)' = n /\ LogLen(j)' = LogLen(j) /\ Grows(j)
      /\ \A p \in 1..n : p # n => pages'[j][p] = pages[j][p]
      /\ \A k \in Journals \ {j} : pages'[k] = pages[k]
  <2>1. UNCHANGED log /\ (pages[j][n].status = "INITED" => c.status = "INITED")
    BY <1>1, <1>5
  <2>2. /\ pages' \in [Journals -> Seq(PageType)] /\ pages'[j][n] = c
        /\ NumPages(j)' = NumPages(j) /\ LogLen(j)' = LogLen(j) /\ Grows(j)
        /\ \A p \in 1..NumPages(j) : p # n => pages'[j][p] = pages[j][p]
        /\ \A k \in Journals \ {j} : pages'[k] = pages[k]
    BY <1>3, <1>5, <1>6, <2>1, PageStored
  <2> QED BY <1>2, <2>2
<1>8. PICK where \in {"close", "idle"} :
        WriterGoes(j, where) /\ where = (IF n > 1 THEN "close" ELSE "idle")
  BY <1>1, <1>2 DEF NumPages
<1>9. /\ Shape' /\ LogSorted(j)'
      /\ writer'[j].pc = where /\ writer'[j].nano = writer[j].nano
      /\ \A k \in Journals \ {j} : writer'[k] = writer[k]
  BY <1>1, <1>7, <1>8, WriterGone
<1>10. WriterInv(j)'
  <2>1. /\ clock' = clock /\ log' = log /\ n # 0
        /\ pages'[j][NumPages(j)'].before = pages[j][NumPages(j)].before
    BY <1>1, <1>2, <1>5, <1>7
  <2> QED BY <1>0, <1>1, <1>2, <1>7, <1>8, <1>9, <2>1 DEF WriterInv, Turning
<1>11. PageInv(j)'
  <2>1. ASSUME NEW p \in 1..n, p # n PROVE PageAt(j, p)'
    <3>1. PageAt(j, p) /\ pages'[j][p] = pages[j][p] /\ p + 1 \in 1..n /\ n > 1
      BY <1>0, <1>2, <1>7, <2>1 DEF PageInv
    <3>2. /\ pages'[j][p + 1].before = pages[j][p + 1].before
          /\ pages[j][p + 1].status = "INITED" => pages'[j][p + 1].status = "INITED"
      BY <1>5, <1>7, <3>1
    <3>3. log' = log /\ writer'[j].pc = "close"
      BY <1>1, <1>8, <1>9, <3>1
    <3> QED BY <1>1, <1>2, <1>7, <3>1, <3>2, <3>3 DEF PageAt, Turning
  <2>2. PageAt(j, n)'
    <3>1. PageAt(j, n) /\ ~(n < n) /\ log' = log
      BY <1>0, <1>1, <1>2, <1>3 DEF PageInv
    <3> QED BY <1>2, <1>5, <1>7, <3>1 DEF PageAt
  <2>3. pages'[j][1].before = 0
    BY <1>0, <1>2, <1>5, <1>7 DEF PageInv
  <2> QED BY <1>7, <2>1, <2>2, <2>3 DEF PageInv
<1> QED BY <1>1, <1>7, <1>9, <1>10, <1>11, WriterKeeps

LEMMA ClosePageInv == ASSUME ReaderInv, NEW j \in Journals, ClosePage(j) PROVE ReaderInv'
<1>0. Shape /\ LogSorted(j) /\ WriterInv(j) /\ PageInv(j)
  BY DEF ReaderInv
<1>1. /\ writer[j].pc = "close" /\ WriterGoes(j, "locate")
      /\ UNCHANGED <<clock, log, readVars>>
      /\ pages' = [pages EXCEPT ![j][Len(pages[j]) - 1].closed = TRUE]
  BY DEF ClosePage
<1>2. PICK n \in Nat : n = NumPages(j) /\ n > 1
  BY <1>0, <1>1, Types DEF WriterInv
<1>3. PICK m \in 1..NumPages(j) : m = n - 1 /\ m < n /\ m + 1 = n /\ n \in 1..n
  BY <1>2
<1>4. pages[j][m] \in PageType /\ LogLen(j) \in Nat
  BY <1>0, <1>3, Types
<1>5. PICK c \in PageType : c = [pages[j][m] EXCEPT !.closed = TRUE]
  BY <1>4 DEF PageType
<1>6. /\ c.start = pages[j][m].start /\ c.status = pages[j][m].status
      /\ c.closed = TRUE /\ c.before = pages[j][m].before
  BY <1>4, <1>5 DEF PageType
<1>7. Stores(j, m, c)
  BY <1>0, <1>1, <1>2, <1>3, <1>5 DEF NumPages, Shape, Stores
<1>8. /\ pages' \in [Journals -> Seq(PageType)] /\ pages'[j][m] = c
      /\ NumPages(j)' = n /\ LogLen(j)' = LogLen(j) /\ Grows(j)
      /\ \A p \in 1..n : p # m => pages'[j][p] = pages[j][p]
      /\ \A k \in Journals \ {j} : pages'[k] = pages[k]
  <2>1. UNCHANGED log /\ (pages[j][m].status = "INITED" => c.status = "INITED")
    BY <1>1, <1>6
  <2>2. /\ pages' \in [Journals -> Seq(PageType)] /\ pages'[j][m] = c
        /\ NumPages(j)' = NumPages(j) /\ LogLen(j)' = LogLen(j) /\ Grows(j)
        /\ \A p \in 1..NumPages(j) : p # m => pages'[j][p] = pages[j][p]
        /\ \A k \in Journals \ {j} : pages'[k] = pages[k]
    BY <1>3, <1>6, <1>7, <2>1, PageStored
  <2> QED BY <1>2, <2>2
<1>9. /\ Shape' /\ LogSorted(j)'
      /\ writer'[j].pc = "locate" /\ writer'[j].nano = writer[j].nano
      /\ \A k \in Journals \ {j} : writer'[k] = writer[k]
  BY <1>1, <1>8, WriterGone
<1>10. WriterInv(j)'
  <2>1. /\ clock' = clock /\ log' = log /\ n # 0
    BY <1>1, <1>2
  <2> QED BY <1>0, <1>1, <1>2, <1>8, <1>9, <2>1 DEF WriterInv, Turning
<1>11. PageInv(j)'
  <2>1. /\ log' = log
        /\ \A p \in 1..n : /\ pages'[j][p].before = pages[j][p].before
                           /\ pages'[j][p].start = pages[j][p].start
                           /\ pages'[j][p].status = pages[j][p].status
    BY <1>1, <1>3, <1>6, <1>8
  <2>2. ASSUME NEW p \in 1..n PROVE PageAt(j, p)'
    <3>1. PageAt(j, p)
      BY <1>0, <1>2 DEF PageInv
    <3>2. p < n => p + 1 \in 1..n /\ pages[j][p].status = "INITED"
      BY <1>2, <3>1 DEF PageAt
    <3>3. /\ pages'[j][p].before <= LogLen(j)'
          /\ p < n => pages'[j][p].before < pages'[j][p + 1].before
          /\ pages'[j][p].start > 0 =>
               \A i \in 1..pages'[j][p].before : log'[j][i] <= pages'[j][p].start
      BY <1>2, <1>8, <2>1, <3>1, <3>2 DEF PageAt
    <3>4. \A q \in 1..n : pages[j][q].status = "INITED"
      BY <1>0, <1>1, <1>2 DEF PageInv, PageAt
    <3>5. pages'[j][p].closed => p < n
      BY <1>2, <1>3, <1>8, <3>1 DEF PageAt
    <3>6. ~(~pages'[j][p].closed /\ p < n)
      <4>1. CASE p = m
        BY <1>6, <1>8, <4>1
      <4>2. CASE p # m
        BY <1>2, <1>3, <1>8, <3>1, <4>2 DEF PageAt
      <4> QED BY <4>1, <4>2
    <3> QED BY <1>8, <2>1, <3>2, <3>3, <3>4, <3>5, <3>6 DEF PageAt
  <2>3. pages'[j][1].before = 0
    BY <1>0, <1>2, <2>1 DEF PageInv
  <2> QED BY <1>8, <2>2, <2>3 DEF PageInv
<1> QED BY <1>1, <1>8, <1>9, <1>10, <1>11, WriterKeeps

LEMMA TickInv == ASSUME ReaderInv, Tick PROVE ReaderInv'
<1>0. Shape /\ \A j \in Journals : LogSorted(j) /\ WriterInv(j) /\ PageInv(j) /\ CursorInv(j)
  BY DEF ReaderInv
<1>1. /\ clock < MaxClock /\ clock' = clock + 1 /\ UNCHANGED <<log, pages, writer, readVars>>
      /\ clock \in Nat /\ MaxClock \in Nat
  BY <1>0, ReaderAssumption DEF Tick, writeVars, Shape
<1>2. Shape'
  BY <1>0, <1>1 DEF Shape, readVars
<1>3. ASSUME NEW j \in Journals PROVE LogSorted(j)' /\ WriterInv(j)' /\ PageInv(j)' /\ CursorInv(j)'
  <2>1. LogSorted(j) /\ WriterInv(j) /\ PageInv(j) /\ CursorInv(j)
    BY <1>0
  <2>2. LogSorted(j)'
    BY <1>0, <1>1, <2>1, Types DEF LogSorted, LogLen
  <2>3. writer[j].nano \in 1..clock => writer[j].nano \in 1..clock'
    BY <1>1
  <2>4. WriterInv(j)'
    BY <1>1, <2>1, <2>3 DEF WriterInv, LogLen, NumPages
  <2>5. PageInv(j)'
    BY <1>1, <2>1 DEF PageInv, PageAt, LogLen, NumPages
  <2>6. CursorInv(j)'
    BY <1>1, <2>1 DEF CursorInv, CursorOK, NumPages, PageEnd, readVars
  <2> QED BY <2>2, <2>4, <2>5, <2>6
<1>4. \A j \in Journals : Grows(j)
  BY <1>0, <1>1, NothingGrows
<1>5. LookInv' /\ SeekInv'
  BY <1>1, <1>2, <1>3, <1>4, RegistersKeep
<1> QED BY <1>2, <1>3, <1>5 DEF ReaderInv

-----------------------------------------------------------------------------
(* The reader's steps leave the journals alone. *)
LEMMA ReaderKeeps ==
    ASSUME ReaderInv, UNCHANGED <<clock, writeVars>>, Shape',
           \A k \in Journals : cur'[k] = cur[k] \/ CursorInv(k)', LookInv', SeekInv'
    PROVE  ReaderInv'
<1>1. UNCHANGED <<clock, log, pages, writer>>
  BY DEF writeVars
<1>2. \A k \in Journals : LogSorted(k)' /\ WriterInv(k)' /\ PageInv(k)' /\ CursorInv(k)'
  BY <1>1, OtherJournal DEF ReaderInv
<1> QED BY <1>2 DEF ReaderInv

LEMMA IdleType == Idle \in ReaderType
BY ReaderAssumption DEF Idle, ReaderType, TIME_TO_LAST, TIME_FROM_FIRST, Never, Times, NoPage

LEMMA IdleInv == (reader = Idle => LookInv /\ SeekInv)
BY DEF LookInv, SeekInv, Idle

LEMMA IdleInvNext == ASSUME reader' = Idle PROVE LookInv' /\ SeekInv'
<1>1. (reader = Idle => LookInv /\ SeekInv)'
  BY IdleInv, PTL
<1> QED BY <1>1 DEF Idle

LEMMA AddJournalInv == ASSUME ReaderInv, AddJournal PROVE ReaderInv'
<1>0. Shape /\ reader = Idle
  BY DEF ReaderInv, SeekInv, AddJournal
<1>1. /\ added < NumJournals /\ added' = added + 1
      /\ UNCHANGED <<clock, writeVars, cur, reader, out, calls>>
  BY DEF AddJournal
<1>2. Shape'
  BY <1>0, <1>1, ReaderAssumption DEF Shape, writeVars
<1>3. LookInv' /\ SeekInv'
  <2>1. reader' = Idle
    BY <1>0, <1>1 DEF Idle
  <2> QED BY <2>1, IdleInvNext
<1> QED BY <1>1, <1>2, <1>3, ReaderKeeps

LEMMA ExpireJournalInv == ASSUME ReaderInv, NEW j \in Journals, ExpireJournal(j) PROVE ReaderInv'
<1>0. Shape /\ reader = Idle
  BY DEF ReaderInv, SeekInv, ExpireJournal
<1>1. /\ calls < MaxCall /\ calls' = calls + 1 /\ UNCHANGED <<clock, writeVars, added, reader, out>>
      /\ cur' = [cur EXCEPT ![j] = Cursor(NoPage, 0, TRUE)]
  BY DEF ExpireJournal
<1>2. Cursor(NoPage, 0, TRUE) \in CursorType
  BY DEF Cursor, CursorType, NoPage
<1>3. Shape'
  <2>1. cur' \in [Journals -> CursorType]
    BY <1>0, <1>1, <1>2 DEF Shape
  <2>2. calls' \in 0..MaxCall
    BY <1>0, <1>1, ReaderAssumption DEF Shape
  <2> QED BY <1>0, <1>1, <2>1, <2>2 DEF Shape, writeVars
<1>4. \A k \in Journals : cur'[k] = cur[k] \/ CursorInv(k)'
  <2>1. cur'[j] = Cursor(NoPage, 0, TRUE) /\ \A k \in Journals \ {j} : cur'[k] = cur[k]
    BY <1>0, <1>1 DEF Shape
  <2>2. CursorInv(j)'
    BY <2>1 DEF CursorInv, CursorOK, Cursor, NoPage
  <2> QED BY <2>1, <2>2
<1>5. LookInv' /\ SeekInv'
  <2>1. reader' = Idle
    BY <1>0, <1>1 DEF Idle
  <2> QED BY <2>1, IdleInvNext
<1> QED BY <1>1, <1>3, <1>4, <1>5, ReaderKeeps

LEMMA SeekTimeJournalInv ==
    ASSUME ReaderInv, NEW j \in Journals, NEW t \in Times, SeekTimeJournal(j, t)
    PROVE  ReaderInv'
<1>0. Shape /\ reader = Idle /\ reader \in ReaderType
  BY DEF ReaderInv, SeekInv, SeekTimeJournal, Shape
<1> DEFINE first == t = TIME_FROM_FIRST \/ (t = TIME_TO_LAST /\ NumPages(j) = 0)
           page == IF first THEN 1 ELSE NumPages(j)
           pc == IF t \in {TIME_TO_LAST, TIME_FROM_FIRST} THEN "load" ELSE "scan"
<1>1. /\ calls < MaxCall /\ calls' = calls + 1 /\ UNCHANGED <<clock, writeVars, added, cur, out>>
      /\ j <= added
      /\ reader' = [reader EXCEPT !.journal = j, !.time = t, !.pc = pc, !.page = page]
  BY DEF SeekTimeJournal, NumPages
<1>2. NumPages(j) \in Nat /\ j \in 1..NumJournals /\ j \in 1..added /\ page \in Nat
  BY <1>0, <1>1, Types, ReaderAssumption DEF Journals
<1>3. /\ reader'.pc = pc /\ reader'.journal = j /\ reader'.time = t
      /\ reader'.page = page /\ reader'.raw = FALSE
  BY <1>0, <1>1 DEF Idle
<1>4. reader' \in ReaderType
  <2>1. pc \in {"idle", "look", "scan", "load", "pass"} /\ j \in 0..NumJournals
    BY <1>2, ReaderAssumption
  <2> HIDE DEF pc, page
  <2> QED BY <1>0, <1>1, <1>2, <2>1 DEF ReaderType
<1>5. Shape'
  BY <1>0, <1>1, <1>4, ReaderAssumption DEF Shape, writeVars
<1>6. LookInv'
  BY <1>3 DEF LookInv
<1>7. NumPages(j)' = NumPages(j)
  BY <1>1 DEF NumPages, writeVars
<1>8. t \notin {TIME_TO_LAST, TIME_FROM_FIRST} => t > 0
  BY ReaderAssumption DEF Times
<1>9. SeekInv'
  <2>1. CASE t \in {TIME_TO_LAST, TIME_FROM_FIRST}
    <3>1. /\ reader'.pc = "load" /\ ~(t > 0)
          /\ t = TIME_FROM_FIRST => page = 1
          /\ page = 1 \/ page \in 1..NumPages(j)
      BY <1>2, <1>3, <2>1 DEF TIME_TO_LAST, TIME_FROM_FIRST
    <3> HIDE DEF page
    <3> QED BY <1>1, <1>2, <1>3, <1>7, <3>1 DEF SeekInv
  <2>2. CASE t \notin {TIME_TO_LAST, TIME_FROM_FIRST}
    <3>1. reader'.pc = "scan" /\ t > 0 /\ page <= NumPages(j)
      BY <1>2, <1>3, <1>8, <2>2
    <3> HIDE DEF page
    <3> QED BY <1>1, <1>2, <1>3, <1>7, <3>1 DEF SeekInv
  <2> QED BY <2>1, <2>2
<1> QED BY <1>1, <1>5, <1>6, <1>9, ReaderKeeps

(* GetPageNumWithTime: frames before a page are no younger than its start. *)
LEMMA ScanInv == ASSUME ReaderInv, GetPageNumWithTime PROVE ReaderInv'
<1>0. Shape /\ SeekInv /\ reader \in ReaderType /\ reader.pc = "scan"
  BY DEF ReaderInv, Shape, GetPageNumWithTime
<1>1. UNCHANGED <<clock, writeVars, added, cur, out, calls>>
  BY DEF GetPageNumWithTime
<1>2. PICK j \in 1..added : j = reader.journal
  BY <1>0 DEF SeekInv
<1>3. /\ j \in Journals /\ PageInv(j) /\ NumPages(j) \in Nat /\ reader.page \in Nat
      /\ reader.time > 0 /\ ~reader.raw /\ reader.page <= NumPages(j)
      /\ reader.time \in Times
  <2>1. j \in Journals
    BY <1>0, <1>2, ReaderAssumption DEF Journals, Shape
  <2>2. reader.page \in Nat /\ reader.time \in Times
    BY <1>0 DEF ReaderType
  <2> QED BY <1>0, <1>2, <2>1, <2>2, Types DEF ReaderInv, SeekInv
<1>4. \/ /\ reader.page = NoPage
         /\ reader' = [reader EXCEPT !.page = 1, !.pc = "load"]
      \/ /\ reader.page # NoPage
         /\ \E start \in Header(j, reader.page) :
              /\ StartsBefore(start, reader.time)
              /\ reader' = [reader EXCEPT !.pc = "load", !.raw = (start = 0)]
      \/ /\ reader.page # NoPage
         /\ reader' = [reader EXCEPT !.page = @ - 1]
  BY <1>2 DEF GetPageNumWithTime
<1>5. SUFFICES reader' \in ReaderType /\ LookInv' /\ SeekInv'
  <2>1. ASSUME reader' \in ReaderType PROVE Shape'
    BY <1>0, <1>1, <2>1 DEF Shape, writeVars
  <2> QED BY <1>1, <2>1, ReaderKeeps
<1>6. NumPages(j)' = NumPages(j) /\ pages' = pages /\ log' = log /\ added' = added
  BY <1>1 DEF NumPages, writeVars
<1>7. CASE reader.page = NoPage /\ reader' = [reader EXCEPT !.page = 1, !.pc = "load"]
  <2>1. reader' \in ReaderType
    BY <1>0, <1>7 DEF ReaderType
  <2>2. /\ reader'.pc = "load" /\ reader'.page = 1 /\ reader'.journal = j
    BY <1>0, <1>2, <1>7 DEF ReaderType
  <2>3. 1 <= NumPages(j) => pages[j][1].before = 0
    BY <1>3 DEF PageInv
  <2>4. 1 <= NumPages(j) => AllBefore(pages[j][1].before)'
    BY <1>6, <2>3 DEF AllBefore
  <2> QED BY <1>2, <1>6, <2>1, <2>2, <2>4 DEF LookInv, SeekInv, AllBefore
<1>8. ASSUME reader.page # NoPage, NEW start \in Header(j, reader.page),
             StartsBefore(start, reader.time),
             reader' = [reader EXCEPT !.pc = "load", !.raw = (start = 0)]
      PROVE  reader' \in ReaderType /\ LookInv' /\ SeekInv'
  <2>1. reader' \in ReaderType
    BY <1>0, <1>8 DEF ReaderType
  <2>2. PICK p \in 1..NumPages(j) : p = reader.page
    BY <1>3, <1>8 DEF NoPage
  <2>3. /\ reader'.pc = "load" /\ reader'.page = p /\ reader'.journal = j
        /\ reader'.time = reader.time /\ reader'.raw = (start = 0)
    BY <1>0, <1>2, <1>8, <2>2 DEF ReaderType
  <2>4. ASSUME start # 0 PROVE AllBefore(pages[j][p].before)'
    <3>1. start = pages[j][p].start /\ start > 0 /\ start < reader.time
      <4>1. /\ reader.time \in Int /\ reader.time <= MaxClock /\ MaxClock \in Nat
            /\ pages[j][p].start \in Nat
        BY <1>0, <1>3, Types, ReaderAssumption DEF Times, TIME_TO_LAST, TIME_FROM_FIRST
      <4>2. start < reader.time
        BY <1>8 DEF StartsBefore
      <4>3. start \in {0, MaxClock + 1} \/ start = pages[j][p].start
        BY <2>2 DEF Header, Never
      <4> QED BY <2>4, <4>1, <4>2, <4>3
    <3>2. /\ \A i \in 1..pages[j][p].before : log[j][i] <= start
          /\ pages[j][p].before \in Nat /\ pages[j][p].before <= LogLen(j)
          /\ LogLen(j) \in Nat /\ start \in Nat /\ reader.time \in Int
      <4>1. PageAt(j, p) /\ reader.time \in Int
        BY <1>3, ReaderAssumption DEF PageInv, Times, TIME_TO_LAST, TIME_FROM_FIRST
      <4> QED BY <1>0, <1>3, <3>1, <4>1, Types DEF PageAt
    <3>3. \A i \in 1..pages[j][p].before : i \in 1..LogLen(j)
      BY <3>2
    <3>4. \A i \in 1..pages[j][p].before : log[j][i] < reader.time
      BY <1>0, <1>3, <3>1, <3>2, <3>3, Types
    <3> QED BY <1>6, <2>3, <3>4 DEF AllBefore
  <2>5. /\ p = 1 \/ p \in 1..NumPages(j)
        /\ ~(reader.time = TIME_FROM_FIRST)
    BY <1>3 DEF TIME_FROM_FIRST
  <2> QED BY <1>2, <1>6, <2>1, <2>2, <2>3, <2>4, <2>5 DEF LookInv, SeekInv, AllBefore
<1>9. CASE reader.page # NoPage /\ reader' = [reader EXCEPT !.page = @ - 1]
  <2>1. reader.page - 1 \in Nat /\ reader.page - 1 <= NumPages(j)
    BY <1>3, <1>9 DEF NoPage
  <2>2. reader' \in ReaderType
    BY <1>0, <1>9, <2>1 DEF ReaderType
  <2>3. /\ reader'.pc = "scan" /\ reader'.page = reader.page - 1 /\ reader'.journal = j
        /\ reader'.time = reader.time /\ reader'.raw = reader.raw
    BY <1>0, <1>2, <1>9 DEF ReaderType
  <2> QED BY <1>2, <1>3, <1>6, <2>1, <2>2, <2>3 DEF LookInv, SeekInv
<1> QED BY <1>4, <1>7, <1>8, <1>9

(* A page that getPage hands out, and the reader at its first frame. *)
LEMMA LoadedCursor ==
    ASSUME Shape, NEW j \in Journals, PageInv(j), NEW q \in Nat, NEW dead \in BOOLEAN,
           NEW p, p = GetPage(j, q), dead => p = NoPage
    PROVE  /\ Cursor(p, FirstOf(j, p), dead) \in CursorType
           /\ CursorOK(j, Cursor(p, FirstOf(j, p), dead))
           /\ p # NoPage => p = q /\ p \in 1..NumPages(j)
<1>0. /\ NumPages(j) \in Nat /\ LogLen(j) \in Nat /\ DOMAIN pages[j] = 1..NumPages(j)
  BY Types
<1>1. CASE p = NoPage
  BY <1>1 DEF Cursor, CursorType, CursorOK, FirstOf, NoPage
<1>2. CASE p # NoPage
  <2>1. p = q /\ p \in 1..NumPages(j) /\ pages[j][p].status = "INITED"
    BY <1>0, <1>2 DEF GetPage
  <2>2. pages[j][p].before \in Nat
    BY <2>1, Types
  <2>3. pages[j][p].before <= PageEnd(j, p)
    <3>1. PageAt(j, p)
      BY <2>1 DEF PageInv
    <3>2. CASE p < NumPages(j)
      <4>1. p + 1 \in 1..NumPages(j)
        BY <1>0, <2>1, <3>2
      <4>2. pages[j][p + 1].before \in Nat /\ pages[j][p].before < pages[j][p + 1].before
        BY <3>1, <3>2, <4>1, Types DEF PageAt
      <4>3. PageEnd(j, p) = pages[j][p + 1].before
        BY <3>2 DEF PageEnd, NumPages
      <4> QED BY <2>2, <4>2, <4>3
    <3>3. CASE ~(p < NumPages(j))
      BY <3>1, <3>3 DEF PageEnd, NumPages, LogLen, PageAt
    <3> QED BY <3>2, <3>3
  <2>4. /\ Cursor(p, FirstOf(j, p), dead).page = p
        /\ Cursor(p, FirstOf(j, p), dead).pos = pages[j][p].before
        /\ Cursor(p, FirstOf(j, p), dead).expired = dead
    BY <1>2 DEF Cursor, FirstOf
  <2>5. Cursor(p, FirstOf(j, p), dead) \in CursorType
    BY <1>2, <2>1, <2>2 DEF Cursor, FirstOf, CursorType
  <2>6. pages[j][p].before <= pages[j][p].before
    BY <2>2
  <2>7. CursorOK(j, Cursor(p, FirstOf(j, p), dead))
    BY <1>2, <2>1, <2>3, <2>4, <2>6 DEF CursorOK
  <2> QED BY <2>1, <2>5, <2>7
<1> QED BY <1>1, <1>2

(* The reader moves in journal j alone. *)
LEMMA CursorMoves ==
    ASSUME ReaderInv, NEW j \in Journals, NEW c \in CursorType, CursorOK(j, c),
           cur' = [cur EXCEPT ![j] = c], UNCHANGED <<clock, writeVars, added, calls>>,
           out' \in [Journals -> Seq(1..MaxClock)], reader' \in ReaderType
    PROVE  /\ Shape' /\ cur'[j] = c /\ \A k \in Journals \ {j} : cur'[k] = cur[k]
           /\ \A k \in Journals : cur'[k] = cur[k] \/ CursorInv(k)'
<1>0. Shape
  BY DEF ReaderInv
<1>1. /\ cur'[j] = c /\ \A k \in Journals \ {j} : cur'[k] = cur[k]
      /\ cur' \in [Journals -> CursorType]
  BY <1>0 DEF Shape
<1>2. Shape'
  BY <1>0, <1>1 DEF Shape, writeVars
<1>3. CursorInv(j)'
  BY <1>1 DEF CursorInv, CursorOK, NumPages, PageEnd, writeVars
<1> QED BY <1>1, <1>2, <1>3

LEMMA LoadPageInv == ASSUME ReaderInv, LoadPage PROVE ReaderInv'
<1>0. Shape /\ SeekInv /\ reader \in ReaderType /\ reader.pc = "load"
  BY DEF ReaderInv, Shape, LoadPage
<1>2. PICK j \in 1..added : j = reader.journal
  BY <1>0 DEF SeekInv
<1>3. j \in Journals /\ reader.page \in Nat
  BY <1>0, <1>2, ReaderAssumption DEF Journals, Shape, ReaderType
<1>4. PageInv(j)
  BY <1>3 DEF ReaderInv
<1>5. PICK p : p = GetPage(j, reader.page)
  OBVIOUS
<1>a. PICK dead \in BOOLEAN : dead = (p = NoPage)
  OBVIOUS
<1>6. PICK c : c = Cursor(p, FirstOf(j, p), dead)
  OBVIOUS
<1>7. /\ cur' = [cur EXCEPT ![j] = c] /\ UNCHANGED <<clock, writeVars, added, out, calls>>
      /\ reader' = IF p = NoPage \/ reader.time = TIME_FROM_FIRST
                   THEN Idle ELSE [reader EXCEPT !.pc = "pass"]
  BY <1>2, <1>5, <1>a, <1>6 DEF LoadPage
<1>8. /\ c \in CursorType /\ CursorOK(j, c)
      /\ p # NoPage => p = reader.page /\ p \in 1..NumPages(j)
  <2>1. dead => p = NoPage
    BY <1>a
  <2>2. /\ Cursor(p, FirstOf(j, p), dead) \in CursorType
        /\ CursorOK(j, Cursor(p, FirstOf(j, p), dead))
        /\ p # NoPage => p = reader.page /\ p \in 1..NumPages(j)
    BY <1>0, <1>3, <1>4, <1>5, <2>1, LoadedCursor
  <2> QED BY <1>6, <2>2
<1>9. reader' \in ReaderType
  BY <1>0, <1>7, IdleType DEF ReaderType
<1>10. out' \in [Journals -> Seq(1..MaxClock)]
  BY <1>0, <1>7 DEF Shape
<1>11. /\ Shape' /\ cur'[j] = c /\ \A k \in Journals : cur'[k] = cur[k] \/ CursorInv(k)'
  BY <1>3, <1>7, <1>8, <1>9, <1>10, CursorMoves
<1>12. LookInv' /\ SeekInv'
  <2>1. CASE p = NoPage \/ reader.time = TIME_FROM_FIRST
    BY <1>7, <2>1, IdleInvNext
  <2>2. CASE ~(p = NoPage \/ reader.time = TIME_FROM_FIRST)
    <3>1. /\ reader'.pc = "pass" /\ reader'.journal = j /\ reader'.time = reader.time
          /\ reader'.raw = reader.raw
      BY <1>0, <1>2, <1>7, <2>2 DEF ReaderType
    <3>2. c.page = p /\ c.pos = pages[j][p].before /\ c.expired = FALSE
      BY <1>a, <1>6, <2>2 DEF Cursor, FirstOf
    <3>3. log' = log /\ added' = added
      BY <1>7 DEF writeVars
    <3>4. reader.page <= NumPages(j)
      BY <1>0, <1>3, <1>8, <2>2, Types
    <3>5. reader.time > 0 /\ ~reader.raw => AllBefore(pages[j][p].before)
      BY <1>0, <1>2, <1>8, <2>2, <3>4 DEF SeekInv
    <3>6. reader.time > 0 /\ ~reader.raw => AllBefore(cur[j].pos)'
      BY <1>2, <1>11, <3>1, <3>2, <3>3, <3>5 DEF AllBefore
    <3> QED BY <1>2, <1>11, <2>2, <3>1, <3>2, <3>3, <3>6 DEF LookInv, SeekInv, AllBefore
  <2> QED BY <2>1, <2>2
<1> QED BY <1>7, <1>11, <1>12, ReaderKeeps

(* The reader passes one frame of its page. *)
LEMMA CursorPasses ==
    ASSUME Shape, NEW j \in Journals, PageInv(j), CursorInv(j), Unread(j, cur[j]),
           NEW c, c = [cur[j] EXCEPT !.pos = @ + 1]
    PROVE  /\ c \in CursorType /\ CursorOK(j, c)
           /\ c.pos = cur[j].pos + 1 /\ c.expired = cur[j].expired /\ c.page = cur[j].page
           /\ cur[j].pos + 1 \in 1..LogLen(j) /\ cur[j].pos \in Nat
<1>1. cur[j] \in CursorType
  BY DEF Shape
<1>2. /\ c \in CursorType
      /\ c.pos = cur[j].pos + 1 /\ c.expired = cur[j].expired /\ c.page = cur[j].page
      /\ cur[j].pos \in Nat
  BY <1>1 DEF CursorType
<1>3. PICK p \in 1..NumPages(j) : p = cur[j].page
  BY DEF Unread, CursorInv, CursorOK
<1>4. /\ PageEnd(j, p) \in Nat /\ PageEnd(j, p) <= LogLen(j) /\ LogLen(j) \in Nat
      /\ pages[j][p].before \in Nat /\ cur[j].pos < PageEnd(j, p)
  BY <1>3, EndInLog, Types DEF Unread
<1>5. /\ cur[j].pos + 1 \in 1..LogLen(j) /\ cur[j].pos + 1 <= PageEnd(j, p)
      /\ pages[j][p].before <= cur[j].pos => pages[j][p].before <= cur[j].pos + 1
  BY <1>2, <1>4
<1>6. CursorOK(j, c)
  BY <1>2, <1>3, <1>5 DEF CursorInv, CursorOK, Unread
<1> QED BY <1>2, <1>5, <1>6

LEMMA PassToTimeInv == ASSUME ReaderInv, PassToTime PROVE ReaderInv'
<1>0. Shape /\ SeekInv /\ reader \in ReaderType /\ reader.pc = "pass"
  BY DEF ReaderInv, Shape, PassToTime
<1>2. PICK j \in 1..added : j = reader.journal
  BY <1>0 DEF SeekInv
<1>3. j \in Journals
  BY <1>0, <1>2, ReaderAssumption DEF Journals, Shape
<1>4. PageInv(j) /\ CursorInv(j)
  BY <1>3 DEF ReaderInv
<1>5. UNCHANGED <<clock, writeVars, added, out, calls>>
  BY DEF PassToTime
<1>6. \/ UNCHANGED cur /\ reader' = Idle
      \/ /\ Unread(j, cur[j]) /\ UNCHANGED reader
         /\ reader.time # TIME_TO_LAST => log[j][cur[j].pos + 1] < reader.time
         /\ cur' = [cur EXCEPT ![j].pos = @ + 1]
  BY <1>2 DEF PassToTime
<1>7. CASE UNCHANGED cur /\ reader' = Idle
  <2>1. Shape'
    BY <1>0, <1>5, <1>7, IdleType DEF Shape, writeVars
  <2> QED BY <1>5, <1>7, <2>1, IdleInvNext, ReaderKeeps
<1>8. CASE /\ Unread(j, cur[j]) /\ UNCHANGED reader
           /\ reader.time # TIME_TO_LAST => log[j][cur[j].pos + 1] < reader.time
           /\ cur' = [cur EXCEPT ![j].pos = @ + 1]
  <2>1. PICK c : c = [cur[j] EXCEPT !.pos = @ + 1]
    OBVIOUS
  <2>2. cur' = [cur EXCEPT ![j] = c]
    BY <1>0, <1>3, <1>8, <2>1 DEF Shape
  <2>3. /\ c \in CursorType /\ CursorOK(j, c)
        /\ c.pos = cur[j].pos + 1 /\ c.expired = cur[j].expired /\ c.page = cur[j].page
        /\ cur[j].pos + 1 \in 1..LogLen(j) /\ cur[j].pos \in Nat
    BY <1>0, <1>3, <1>4, <1>8, <2>1, CursorPasses
  <2>4. reader' \in ReaderType /\ out' \in [Journals -> Seq(1..MaxClock)]
    BY <1>0, <1>5, <1>8 DEF Shape
  <2>5. /\ Shape' /\ cur'[j] = c /\ \A k \in Journals : cur'[k] = cur[k] \/ CursorInv(k)'
    BY <1>3, <1>5, <2>2, <2>3, <2>4, CursorMoves
  <2>6. /\ log' = log /\ added' = added /\ reader' = reader
    BY <1>5, <1>8 DEF writeVars
  <2>7. /\ reader.time # TIME_FROM_FIRST /\ ~cur[j].expired /\ cur[j].page # NoPage
        /\ reader.time > 0 /\ ~reader.raw => AllBefore(cur[j].pos)
    BY <1>0, <1>2 DEF SeekInv
  <2>8. ASSUME reader.time > 0, ~reader.raw PROVE AllBefore(cur[j].pos)'
    <3>1. \A i \in 1..cur[j].pos : log[j][i] < reader.time
      BY <1>2, <2>7, <2>8 DEF AllBefore
    <3>2. log[j][cur[j].pos + 1] < reader.time
      BY <1>8, <2>8 DEF TIME_TO_LAST
    <3>3. \A i \in 1..c.pos : i \in 1..cur[j].pos \/ i = cur[j].pos + 1
      BY <2>3
    <3>4. \A i \in 1..c.pos : log[j][i] < reader.time
      BY <3>1, <3>2, <3>3
    <3> QED BY <1>2, <2>5, <2>6, <3>4 DEF AllBefore
  <2>9. LookInv' /\ SeekInv'
    BY <1>0, <1>2, <2>3, <2>5, <2>6, <2>7, <2>8 DEF LookInv, SeekInv, AllBefore
  <2> QED BY <1>5, <2>5, <2>9, ReaderKeeps
<1> QED BY <1>6, <1>7, <1>8

-----------------------------------------------------------------------------
(* getNextFrame. *)
LEMMA SetMinIn ==
    ASSUME NEW S \in SUBSET Nat, S # {}
    PROVE  SetMin(S) \in S /\ \A y \in S : SetMin(S) <= y
<1>1. PICK R : R = OpToRel(<, Nat)
  OBVIOUS
<1>2. IsWellFoundedOn(R, Nat)
  BY <1>1, NatLessThanWellFounded
<1>3. PICK x \in S : \A y \in S : ~(<<y, x>> \in R)
  BY <1>2, WFMin
<1>4. \A y \in S : x <= y
  <2>1. \A y \in S : ~(y < x)
    BY <1>1, <1>3 DEF OpToRel
  <2> QED BY <2>1
<1> QED BY <1>4 DEF SetMin

LEMMA GetNextFrameInv == ASSUME ReaderInv, GetNextFrame PROVE ReaderInv'
<1>0. Shape /\ reader = Idle /\ reader \in ReaderType
  BY DEF ReaderInv, SeekInv, GetNextFrame, Shape
<1>1. PICK oldest : oldest = SetMin(UnreadNanos \cup {Never})
  OBVIOUS
<1>2. /\ added > 0 /\ UNCHANGED <<clock, writeVars, added, cur, out, calls>>
      /\ reader' = [reader EXCEPT !.pc = "look", !.oldest = oldest]
  BY <1>1 DEF GetNextFrame
<1>3. /\ \A j \in 1..added : j \in Journals
      /\ added \in Nat /\ MaxClock \in Nat
  BY <1>0, ReaderAssumption DEF Shape, Journals
<1>4. UnreadNanos \subseteq 1..MaxClock
  <2> SUFFICES ASSUME NEW j \in 1..added, NEW i \in (cur[j].pos + 1)..LogLen(j)
               PROVE  log[j][i] \in 1..MaxClock
    BY DEF UnreadNanos, LogLen
  <2>1. cur[j].pos \in Nat /\ LogLen(j) \in Nat
    BY <1>0, <1>3, Types
  <2>2. i \in 1..LogLen(j)
    BY <2>1
  <2> QED BY <1>0, <1>3, <2>2, Types
<1>5. oldest \in UnreadNanos \cup {Never}
  <2>1. UnreadNanos \cup {Never} \in SUBSET Nat /\ UnreadNanos \cup {Never} # {}
    BY <1>3, <1>4 DEF Never
  <2> QED BY <1>1, <2>1, SetMinIn
<1>6. oldest \in 1..Never
  BY <1>3, <1>4, <1>5 DEF Never
<1>7. /\ reader'.pc = "look" /\ reader'.oldest = oldest /\ reader'.at = 1
      /\ reader'.minNano = TIME_TO_LAST /\ reader' \in ReaderType
  BY <1>0, <1>2, <1>6 DEF ReaderType, Idle
<1>8. Shape'
  BY <1>0, <1>2, <1>7 DEF Shape, writeVars
<1>9. SeekInv'
  BY <1>7 DEF SeekInv
<1>10. ASSUME oldest # Never PROVE \E j \in 1..added : Waiting(j)'
  <2>1. PICK j \in 1..added : /\ ~cur[j].expired
                              /\ \E i \in (cur[j].pos + 1)..Len(log[j]) : log[j][i] = oldest
    BY <1>5, <1>10 DEF UnreadNanos
  <2>2. 1 <= j
    BY <1>3
  <2> QED BY <1>2, <1>7, <2>1, <2>2 DEF Waiting, LogLen, writeVars
<1>11. LookInv'
  <2>1. Found' /\ 1 <= added + 1 /\ added' = added
    BY <1>2, <1>3, <1>7 DEF Found
  <2> QED BY <1>7, <1>10, <2>1 DEF LookInv
<1> QED BY <1>2, <1>8, <1>9, <1>11, ReaderKeeps

(* locateFrame moves to the next page at the right moment: the reader stays *)
(* between the same two frames, and if the journal has more it sees one.    *)
LEMMA LocatedCursor ==
    ASSUME ReaderInv, NEW j \in Journals, NEW c, c = Located(j)
    PROVE  /\ c \in CursorType /\ CursorOK(j, c)
           /\ c.pos = cur[j].pos /\ c.expired = cur[j].expired
           /\ ~cur[j].expired /\ cur[j].pos < LogLen(j) => Unread(j, c)
<1>0. Shape /\ PageInv(j) /\ CursorInv(j) /\ WriterInv(j) /\ cur[j] \in CursorType
  BY DEF ReaderInv, Shape
<1>1. /\ NumPages(j) \in Nat /\ LogLen(j) \in Nat /\ cur[j].page \in Nat
      /\ cur[j].pos \in Nat /\ cur[j].expired \in BOOLEAN /\ DOMAIN pages[j] = 1..NumPages(j)
  BY <1>0, Types
<1>a. ASSUME ~cur[j].expired, c.expired = FALSE PROVE c.expired = cur[j].expired
  BY <1>1, <1>a, Zenon
<1>2. CASE cur[j].expired
  BY <1>0, <1>2 DEF Located, CursorInv
<1>3. ASSUME ~cur[j].expired, NEW q \in 1..NumPages(j), pages[j][q].status = "INITED",
             c = Cursor(q, pages[j][q].before, FALSE), pages[j][q].before = cur[j].pos
      PROVE  cur[j].pos < LogLen(j) => Unread(j, c)
  <2>1. c.pos = cur[j].pos /\ c.page = q /\ ~c.expired /\ q # NoPage
    BY <1>1, <1>3 DEF Cursor, NoPage
  <2>2. CASE q < NumPages(j)
    <3>1. PageAt(j, q) /\ PageEnd(j, q) = pages[j][q + 1].before
      BY <1>0, <2>2 DEF PageInv, PageEnd, NumPages
    <3> QED BY <1>3, <2>1, <2>2, <3>1 DEF Unread, PageAt
  <2>3. CASE ~(q < NumPages(j))
    <3>1. PageEnd(j, q) = LogLen(j)
      BY <2>3 DEF PageEnd, NumPages, LogLen
    <3> QED BY <2>1, <3>1 DEF Unread
  <2> QED BY <2>2, <2>3
<1>4. CASE ~cur[j].expired /\ cur[j].page = NoPage
  <2>1. PICK p : p = GetPage(j, 1)
    OBVIOUS
  <2>2. c = Cursor(p, FirstOf(j, p), FALSE)
    BY <1>4, <2>1 DEF Located, NoPage
  <2>3. /\ c \in CursorType /\ CursorOK(j, c)
        /\ p # NoPage => p = 1 /\ p \in 1..NumPages(j)
    <3>1. /\ Cursor(p, FirstOf(j, p), FALSE) \in CursorType
          /\ CursorOK(j, Cursor(p, FirstOf(j, p), FALSE))
          /\ p # NoPage => p = 1 /\ p \in 1..NumPages(j)
      BY <1>0, <2>1, LoadedCursor
    <3> QED BY <2>2, <3>1
  <2>4. cur[j].pos = 0
    BY <1>0, <1>4 DEF CursorInv, CursorOK
  <2>5. CASE p = NoPage
    <3>1. c.pos = 0 /\ c.expired = FALSE
      BY <2>2, <2>5 DEF Cursor, FirstOf
    <3>2. ~(NumPages(j) > 0 /\ pages[j][1].status = "INITED")
      BY <1>1, <2>1, <2>5 DEF GetPage, NoPage
    <3>3. LogLen(j) = 0
      <4>1. CASE NumPages(j) = 0
        BY <1>0, <4>1 DEF WriterInv
      <4>2. CASE NumPages(j) > 0
        <5>1. 1 \in 1..NumPages(j) /\ pages[j][1].before = 0 /\ PageAt(j, 1)
          BY <1>0, <1>1, <4>2 DEF PageInv
        <5>2. NumPages(j) = 1 /\ writer[j].pc \in {"init", "open"}
          BY <1>1, <3>2, <4>2, <5>1 DEF PageAt
        <5> QED BY <1>0, <5>1, <5>2 DEF WriterInv, Turning
      <4> QED BY <1>1, <4>1, <4>2
    <3>4. ~(cur[j].pos < LogLen(j))
      BY <2>4, <3>3
    <3> QED BY <1>a, <1>4, <2>3, <2>4, <3>1, <3>4
  <2>6. CASE p # NoPage
    <3>1. p = 1 /\ 1 \in 1..NumPages(j) /\ pages[j][1].before = 0
      BY <1>0, <1>1, <2>3, <2>6 DEF PageInv
    <3>2. pages[j][1].status = "INITED" /\ c = Cursor(1, pages[j][1].before, FALSE)
      BY <2>1, <2>2, <2>6, <3>1 DEF GetPage, FirstOf
    <3>3. c.pos = 0 /\ c.expired = FALSE
      BY <3>1, <3>2 DEF Cursor
    <3>4. cur[j].pos < LogLen(j) => Unread(j, c)
      BY <1>3, <1>4, <2>4, <3>1, <3>2
    <3> QED BY <1>a, <1>4, <2>3, <2>4, <3>3, <3>4
  <2> QED BY <2>5, <2>6
<1>5. CASE ~cur[j].expired /\ cur[j].page # NoPage
  <2>1. PICK q \in 1..NumPages(j) : q = cur[j].page
    BY <1>0, <1>5 DEF CursorInv, CursorOK
  <2>2. /\ PageAt(j, q) /\ cur[j].pos <= PageEnd(j, q) /\ PageEnd(j, q) \in Nat
    BY <1>0, <1>5, <2>1, EndInLog DEF PageInv, CursorInv, CursorOK
  <2>3. CASE cur[j].pos < PageEnd(j, q)
    BY <1>0, <1>5, <2>1, <2>3 DEF Located, Unread, CursorInv
  <2>4. CASE ~(cur[j].pos < PageEnd(j, q)) /\ ~pages[j][q].closed
    <3>1. c = cur[j] /\ cur[j].pos = PageEnd(j, q)
      <4>1. c = cur[j]
        BY <1>5, <2>1, <2>4 DEF Located
      <4> QED BY <1>1, <2>2, <2>4, <4>1
    <3>2. PageEnd(j, q) = LogLen(j)
      <4>1. CASE q < NumPages(j)
        <5>1. q = NumPages(j) - 1 /\ writer[j].pc \in Turning /\ q + 1 = NumPages(j)
          BY <1>1, <2>2, <2>4, <4>1 DEF PageAt
        <5> QED BY <1>0, <4>1, <5>1 DEF WriterInv, PageEnd, NumPages
      <4>2. CASE ~(q < NumPages(j))
        BY <4>2 DEF PageEnd, NumPages, LogLen
      <4> QED BY <4>1, <4>2
    <3> QED BY <1>0, <1>1, <3>1, <3>2 DEF CursorInv
  <2>5. CASE ~(cur[j].pos < PageEnd(j, q)) /\ pages[j][q].closed
    <3>1. PICK p : p = GetPage(j, q + 1)
      OBVIOUS
    <3>2. c = Cursor(p, FirstOf(j, p), FALSE)
      BY <1>5, <2>1, <2>5, <3>1 DEF Located
    <3>3. q < NumPages(j) /\ pages[j][q + 1].status = "INITED"
      BY <2>2, <2>5 DEF PageAt
    <3>4. q + 1 \in 1..NumPages(j)
      BY <1>1, <3>3
    <3>5. p = q + 1 /\ p # NoPage
      BY <1>1, <3>1, <3>3, <3>4 DEF GetPage, NoPage
    <3>6. pages[j][p].before = cur[j].pos
      BY <1>1, <2>2, <2>5, <3>3, <3>5 DEF PageEnd, NumPages
    <3>7. c = Cursor(p, pages[j][p].before, FALSE)
      BY <3>2, <3>5 DEF FirstOf
    <3>8. c \in CursorType /\ CursorOK(j, c)
      <4>1. q + 1 \in Nat
        BY <3>4
      <4> QED BY <1>0, <3>1, <3>2, <4>1, LoadedCursor
    <3>9. c.pos = cur[j].pos /\ c.expired = FALSE
      BY <3>6, <3>7 DEF Cursor
    <3>10. cur[j].pos < LogLen(j) => Unread(j, c)
      BY <1>3, <1>5, <3>3, <3>4, <3>5, <3>6, <3>7
    <3> QED BY <1>a, <1>5, <3>8, <3>9, <3>10
  <2> QED BY <2>3, <2>4, <2>5
<1> QED BY <1>2, <1>4, <1>5

LEMMA LookAtInv == ASSUME ReaderInv, LookAt PROVE ReaderInv'
<1>0. /\ Shape /\ LookInv /\ reader \in ReaderType /\ reader.pc = "look"
      /\ reader.at <= added
  BY DEF ReaderInv, Shape, LookAt
<1>1. /\ reader.at \in Nat /\ reader.at >= 1 /\ added \in Nat /\ added <= NumJournals
      /\ reader.minNano \in {-1} \cup 1..MaxClock /\ MaxClock \in Nat /\ NumJournals \in Nat
      /\ reader.oldest \in Nat
  BY <1>0, ReaderAssumption DEF Shape, ReaderType, TIME_TO_LAST, Never
<1>2. PICK j \in Journals : j = reader.at /\ j \in 1..added /\ j \in Nat
  BY <1>0, <1>1 DEF Journals
<1>3. PICK c : c = Located(j)
  OBVIOUS
<1>4. /\ c \in CursorType /\ CursorOK(j, c)
      /\ c.pos = cur[j].pos /\ c.expired = cur[j].expired
      /\ ~cur[j].expired /\ cur[j].pos < LogLen(j) => Unread(j, c)
  BY <1>3, LocatedCursor
<1>5. PICK nano : nano = log[j][c.pos + 1]
  OBVIOUS
<1>6. /\ cur' = [cur EXCEPT ![j] = c]
      /\ UNCHANGED <<clock, writeVars, added, out, calls>>
      /\ reader' = IF Unread(j, c) /\ Earlier(nano)
                   THEN [reader EXCEPT !.at = @ + 1, !.curJournal = j, !.minNano = nano]
                   ELSE [reader EXCEPT !.at = @ + 1]
  BY <1>2, <1>3, <1>5 DEF LookAt
<1>7. ASSUME Unread(j, c)
      PROVE  /\ nano \in 1..MaxClock /\ c.pos + 1 \in 1..LogLen(j)
  <2>1. c.page \in 1..NumPages(j) /\ c.pos < PageEnd(j, c.page) /\ PageInv(j)
    BY <1>4, <1>7 DEF Unread, CursorOK, ReaderInv
  <2>2. /\ PageEnd(j, c.page) \in Nat /\ PageEnd(j, c.page) <= LogLen(j)
        /\ LogLen(j) \in Nat /\ c.pos \in Nat
    BY <1>0, <1>4, <2>1, EndInLog, Types
  <2>3. c.pos + 1 \in 1..LogLen(j)
    BY <2>1, <2>2
  <2> QED BY <1>0, <1>5, <2>3, Types
<1>8. /\ reader' \in ReaderType /\ reader'.pc = "look" /\ reader'.at = reader.at + 1
      /\ reader'.oldest = reader.oldest
      /\ Unread(j, c) /\ Earlier(nano) => reader'.curJournal = j /\ reader'.minNano = nano
      /\ ~(Unread(j, c) /\ Earlier(nano)) =>
           reader'.curJournal = reader.curJournal /\ reader'.minNano = reader.minNano
  <2>1. reader.at + 1 \in 1..(NumJournals + 1) /\ j \in 0..NumJournals
    BY <1>0, <1>1, <1>2
  <2>2. CASE Unread(j, c) /\ Earlier(nano)
    BY <1>0, <1>6, <1>7, <2>1, <2>2 DEF ReaderType
  <2>3. CASE ~(Unread(j, c) /\ Earlier(nano))
    BY <1>0, <1>6, <2>1, <2>3 DEF ReaderType
  <2> QED BY <2>2, <2>3
<1>9. out' \in [Journals -> Seq(1..MaxClock)]
  BY <1>0, <1>6 DEF Shape
<1>10. /\ Shape' /\ cur'[j] = c /\ \A k \in Journals \ {j} : cur'[k] = cur[k]
       /\ \A k \in Journals : cur'[k] = cur[k] \/ CursorInv(k)'
  BY <1>4, <1>6, <1>8, <1>9, CursorMoves
<1>11. log' = log /\ pages' = pages /\ added' = added
  BY <1>6 DEF writeVars
<1>12. Found'
  <2>1. CASE Unread(j, c) /\ Earlier(nano)
    <3>1. j < reader.at + 1 /\ reader'.curJournal = j /\ reader'.minNano = nano
      BY <1>1, <1>2, <1>8, <2>1
    <3>2. Unread(j, cur[j])'
      BY <1>10, <1>11, <2>1 DEF Unread, PageEnd
    <3> QED BY <1>2, <1>5, <1>8, <1>10, <1>11, <3>1, <3>2 DEF Found, Unread, PageEnd
  <2>2. CASE ~(Unread(j, c) /\ Earlier(nano))
    <3> SUFFICES ASSUME reader.minNano # TIME_TO_LAST PROVE Found'
      BY <1>8, <2>2 DEF Found
    <3>1. PICK k \in 1..added : k = reader.curJournal
      BY <1>0 DEF LookInv, Found
    <3>2. /\ k < reader.at /\ Unread(k, cur[k]) /\ reader.minNano = log[k][cur[k].pos + 1]
      BY <1>0, <3>1 DEF LookInv, Found
    <3>3. k < reader.at + 1 /\ k \in Journals \ {j}
      BY <1>1, <1>2, <3>2 DEF Journals
    <3>4. cur'[k] = cur[k]
      BY <1>10, <3>3
    <3> QED BY <1>8, <1>11, <2>2, <3>1, <3>2, <3>3, <3>4 DEF Found, Unread, PageEnd
  <2> QED BY <2>1, <2>2
<1>13. ASSUME reader.oldest # Never
       PROVE  \/ reader'.minNano \in 1..reader.oldest
              \/ \E k \in 1..added : Waiting(k)'
  <2>1. ASSUME Unread(j, c), nano <= reader.oldest PROVE reader'.minNano \in 1..reader.oldest
    <3>1. CASE Earlier(nano)
      BY <1>1, <1>7, <1>8, <2>1, <3>1
    <3>2. CASE ~Earlier(nano)
      BY <1>1, <1>7, <1>8, <2>1, <3>2 DEF Earlier, TIME_TO_LAST
    <3> QED BY <3>1, <3>2
  <2>2. CASE reader.minNano \in 1..reader.oldest
    <3>1. CASE Unread(j, c) /\ Earlier(nano)
      <4>1. nano <= reader.oldest
        BY <1>1, <1>7, <2>2, <3>1 DEF Earlier, TIME_TO_LAST
      <4> QED BY <2>1, <3>1, <4>1
    <3>2. CASE ~(Unread(j, c) /\ Earlier(nano))
      BY <1>8, <2>2, <3>2
    <3> QED BY <3>1, <3>2
  <2>3. ASSUME NEW k \in 1..added, Waiting(k), k # j PROVE Waiting(k)'
    <3>1. k \in Journals \ {j} /\ reader.at + 1 <= k
      BY <1>1, <1>2, <2>3 DEF Waiting, Journals
    <3>2. cur'[k] = cur[k]
      BY <1>10, <3>1
    <3> QED BY <1>8, <1>11, <2>3, <3>1, <3>2 DEF Waiting, LogLen
  <2>4. ASSUME Waiting(j) PROVE reader'.minNano \in 1..reader.oldest
    <3>1. PICK i \in (cur[j].pos + 1)..LogLen(j) : log[j][i] = reader.oldest
      BY <2>4 DEF Waiting
    <3>2. /\ cur[j].pos \in Nat /\ LogLen(j) \in Nat /\ ~cur[j].expired
      BY <1>0, <2>4, Types DEF Waiting
    <3>3. /\ cur[j].pos < LogLen(j) /\ i \in 1..LogLen(j) /\ cur[j].pos + 1 \in 1..LogLen(j)
          /\ cur[j].pos + 1 <= i
      BY <3>1, <3>2
    <3>4. Unread(j, c)
      BY <1>4, <3>2, <3>3
    <3>5. log[j][cur[j].pos + 1] <= log[j][i]
      BY <3>3 DEF ReaderInv, LogSorted
    <3> QED BY <1>4, <1>5, <2>1, <3>1, <3>4, <3>5
  <2>5. \/ reader.minNano \in 1..reader.oldest
        \/ \E k \in 1..added : Waiting(k)
    BY <1>0, <1>13 DEF LookInv
  <2> QED BY <2>2, <2>3, <2>4, <2>5
<1>14. LookInv'
  <2>1. reader.at + 1 <= added + 1
    BY <1>0, <1>1
  <2> QED BY <1>8, <1>11, <1>12, <1>13, <2>1 DEF LookInv
<1>15. SeekInv'
  BY <1>8 DEF SeekInv
<1> QED BY <1>6, <1>10, <1>14, <1>15, ReaderKeeps

(* The frame found is the one after the reader's place in its journal. *)
LEMMA ReturnFrameInv == ASSUME ReaderInv, ReturnFrame PROVE ReaderInv'
<1>0. /\ Shape /\ LookInv /\ reader \in ReaderType /\ reader.pc = "look" /\ reader' = Idle
      /\ UNCHANGED <<clock, writeVars, added, calls>>
  BY DEF ReaderInv, Shape, ReturnFrame
<1>1. LookInv' /\ SeekInv' /\ reader' \in ReaderType
  BY <1>0, IdleInvNext, IdleType
<1>2. CASE reader.minNano = TIME_TO_LAST
  <2>1. UNCHANGED <<cur, out>>
    BY <1>2 DEF ReturnFrame
  <2>2. Shape'
    BY <1>0, <1>1, <2>1 DEF Shape, writeVars
  <2> QED BY <1>0, <1>1, <2>1, <2>2, ReaderKeeps
<1>3. CASE reader.minNano # TIME_TO_LAST
  <2>1. PICK j \in Journals : j = reader.curJournal /\ Unread(j, cur[j])
    <3>1. \A k \in 1..added : k \in Journals
      BY <1>0, ReaderAssumption DEF Shape, Journals
    <3> QED BY <1>0, <1>3, <3>1 DEF LookInv, Found
  <2>2. /\ cur' = [cur EXCEPT ![j].pos = @ + 1]
        /\ out' = [out EXCEPT ![j] = <<reader.minNano>>]
    BY <1>3, <2>1 DEF ReturnFrame
  <2>3. PICK c : c = [cur[j] EXCEPT !.pos = @ + 1]
    OBVIOUS
  <2>4. cur' = [cur EXCEPT ![j] = c]
    BY <1>0, <2>2, <2>3 DEF Shape
  <2>5. c \in CursorType /\ CursorOK(j, c)
    BY <1>0, <2>1, <2>3, CursorPasses DEF ReaderInv
  <2>6. out' \in [Journals -> Seq(1..MaxClock)]
    <3>1. reader.minNano \in 1..MaxClock
      BY <1>0, <1>3 DEF ReaderType
    <3>2. <<reader.minNano>> \in Seq(1..MaxClock)
      BY <3>1
    <3> QED BY <1>0, <2>2, <3>2 DEF Shape
  <2>7. /\ Shape' /\ \A k \in Journals : cur'[k] = cur[k] \/ CursorInv(k)'
    BY <1>0, <1>1, <2>4, <2>5, <2>6, CursorMoves
  <2> QED BY <1>0, <1>1, <2>7, ReaderKeeps
<1> QED BY <1>2, <1>3

-----------------------------------------------------------------------------
LEMMA InitReaderInv == Init => ReaderInv
<1> SUFFICES ASSUME Init PROVE ReaderInv
  OBVIOUS
<1>1. Shape
  <2>1. [pc |-> "off", nano |-> 0] \in WriterType
    BY ReaderAssumption DEF WriterType
  <2>2. [page |-> NoPage, pos |-> 0, expired |-> FALSE] \in CursorType
    BY DEF CursorType, NoPage
  <2> QED BY <2>1, <2>2, IdleType, ReaderAssumption DEF Init, Shape
<1>2. ASSUME NEW j \in Journals
      PROVE  LogSorted(j) /\ WriterInv(j) /\ PageInv(j) /\ CursorInv(j)
  <2>1. NumPages(j) = 0 /\ LogLen(j) = 0 /\ writer[j].pc = "off"
    BY DEF Init, NumPages, LogLen
  <2>2. cur[j] = [page |-> NoPage, pos |-> 0, expired |-> FALSE]
    BY DEF Init
  <2>3. LogSorted(j) /\ WriterInv(j) /\ PageInv(j)
    BY <2>1 DEF LogSorted, WriterInv, PageInv, Turning
  <2>4. CursorInv(j)
    BY <2>2 DEF CursorInv, CursorOK
  <2> QED BY <2>3, <2>4
<1>3. LookInv /\ SeekInv
  BY IdleInv DEF Init
<1> QED BY <1>1, <1>2, <1>3 DEF ReaderInv

LEMMA NextReaderInv == ReaderInv /\ [Next]_vars => ReaderInv'
<1> SUFFICES ASSUME ReaderInv, [Next]_vars PROVE ReaderInv'
  OBVIOUS
<1>1. CASE UNCHANGED vars
  <2>1. UNCHANGED <<clock, writeVars, readVars>>
    BY <1>1 DEF vars
  <2>2. UNCHANGED <<clock, log, pages, writer, added, cur, reader, out, calls>>
    BY <2>1 DEF writeVars, readVars
  <2>3. Shape' /\ \A j \in Journals : Grows(j) /\ PageInv(j)'
    BY <2>2, NothingGrows, OtherJournal DEF ReaderInv, Shape
  <2>4. LookInv' /\ SeekInv'
    BY <2>1, <2>3, RegistersKeep
  <2> QED BY <2>1, <2>2, <2>3, <2>4, ReaderKeeps
<1>2. CASE Next
  BY <1>2, TickInv, AddJournalInv, ScanInv, LoadPageInv, PassToTimeInv, GetNextFrameInv,
     LookAtInv, ReturnFrameInv, StampInv, CreatePageInv, InitPageInv, OpenPageInv,
     ClosePageInv, PublishInv, ExpireJournalInv, SeekTimeJournalInv
     DEF Next, ReaderStep, WriterStep
<1> QED BY <1>1, <1>2

(* The reader's whole inductive invariant. *)
THEOREM ReaderInvariant == Spec => []ReaderInv
BY InitReaderInv, NextReaderInv, PTL DEF Spec

LEMMA InvTypes == ReaderInv => TypeOK
<1> SUFFICES ASSUME ReaderInv PROVE TypeOK
  OBVIOUS
<1>0. Shape
  BY DEF ReaderInv
<1>1. ASSUME NEW j \in Journals
      PROVE  /\ cur[j] \in [page : 0..Len(pages[j]), pos : 0..Len(log[j]), expired : BOOLEAN]
             /\ cur[j].pos <= PageEnd(j, cur[j].page)
  <2>0. cur[j] \in CursorType /\ CursorInv(j) /\ PageInv(j) /\ LogLen(j) \in Nat /\ NumPages(j) \in Nat
    BY <1>0, Types DEF ReaderInv, Shape
  <2>1. CASE cur[j].page = NoPage
    <3>1. cur[j].page = 0 /\ cur[j].pos = 0
      BY <2>0, <2>1 DEF CursorInv, CursorOK, NoPage
    <3>2. 0 <= PageEnd(j, 0)
      BY <2>0 DEF PageEnd, PageInv, NumPages, LogLen
    <3>3. 0 \in 0..Len(pages[j]) /\ 0 \in 0..Len(log[j])
      BY <2>0 DEF NumPages, LogLen
    <3> QED BY <2>0, <3>1, <3>2, <3>3 DEF CursorType
  <2>2. CASE cur[j].page # NoPage
    <3>1. PICK p \in 1..NumPages(j) : p = cur[j].page
      BY <2>0, <2>2 DEF CursorInv, CursorOK
    <3>2. /\ cur[j].pos <= PageEnd(j, p) /\ PageEnd(j, p) <= LogLen(j) /\ PageEnd(j, p) \in Nat
          /\ cur[j].pos \in Nat
      BY <1>0, <2>0, <2>2, <3>1, EndInLog, Types DEF CursorInv, CursorOK
    <3>3. p \in 0..Len(pages[j]) /\ cur[j].pos \in 0..Len(log[j])
      BY <2>0, <3>2 DEF NumPages, LogLen
    <3> QED BY <2>0, <3>1, <3>2, <3>3 DEF CursorType
  <2> QED BY <2>1, <2>2
<1> QED BY <1>0, <1>1 DEF Shape, TypeOK, WriterType

(* Every variable keeps its type, and no cursor leaves the frames of its    *)
(* page (Journal::locateFrame and passFrame read inside the page).          *)
THEOREM ReaderTypes == Spec => []TypeOK
BY ReaderInvariant, InvTypes, PTL

(* getNextFrame, in a pass over the journals while their writers publish,   *)
(* returns a frame no younger than any that was there when it was called.   *)
THEOREM ReaderOldestFirst == Spec => OldestFirst
<1> DEFINE Step == reader.pc = "look" /\ reader'.pc = "idle" /\ reader.oldest # Never
                     => reader.minNano \in 1..reader.oldest
<1>1. ASSUME ReaderInv, [Next]_vars PROVE [Step]_vars
  <2> SUFFICES ASSUME Next, reader.pc = "look", reader'.pc = "idle", reader.oldest # Never
               PROVE  reader.minNano \in 1..reader.oldest
    BY <1>1
  <2>0. Shape /\ LookInv /\ reader \in ReaderType
    BY <1>1 DEF ReaderInv, Shape
  <2>1. reader' # reader
    OBVIOUS
  <2>2. ~LookAt
    <3>1. LookAt => reader'.pc = "look"
      BY <2>0 DEF LookAt, ReaderType
    <3> QED BY <3>1
  <2>3. ReturnFrame
    BY <2>1, <2>2 DEF Next, ReaderStep, Tick, AddJournal, GetPageNumWithTime, LoadPage,
       PassToTime, GetNextFrame, WriterStep, Stamp, CreatePage, InitPage, OpenPage, ClosePage,
       Publish, ExpireJournal, SeekTimeJournal, readVars
  <2>4. reader.at > added /\ reader.at \in Int /\ added \in Nat
    BY <2>0, <2>3, ReaderAssumption DEF ReturnFrame, Shape, ReaderType
  <2>5. \A j \in 1..added : ~Waiting(j)
    BY <2>4 DEF Waiting
  <2> QED BY <2>0, <2>5 DEF LookInv
<1>2. Spec => [][Step]_vars
  BY <1>1, ReaderInvariant, PTL DEF Spec
<1> QED BY <1>2 DEF OldestFirst

(* Journal::seekTime passes no frame it was asked for, unless it chose its  *)
(* page by the header of a file that was still being created.               *)
THEOREM ReaderSeekFindsTime == Spec => SeekFindsTime
<1>1. ASSUME ReaderInv, [Next]_vars PROVE [SeekSkips => reader.raw]_vars
  <2> SUFFICES ASSUME Next, SeekSkips, ~reader.raw PROVE FALSE
    BY <1>1
  <2>0. Shape /\ SeekInv /\ reader \in ReaderType
    BY <1>1 DEF ReaderInv, Shape
  <2>1. /\ reader.pc \in {"load", "pass"} /\ reader'.pc = "idle" /\ reader' # reader
        /\ ~cur'[reader.journal].expired /\ reader.time # TIME_TO_LAST
        /\ \E i \in 1..cur'[reader.journal].pos : log[reader.journal][i] >= reader.time
    BY DEF SeekSkips
  <2>2. LoadPage \/ PassToTime
    BY <2>1 DEF Next, ReaderStep, Tick, AddJournal, GetPageNumWithTime, LookAt, ReturnFrame,
       GetNextFrame, WriterStep, Stamp, CreatePage, InitPage, OpenPage, ClosePage,
       Publish, ExpireJournal, SeekTimeJournal, readVars
  <2>3. PICK j \in 1..added : j = reader.journal
    BY <2>0, <2>1 DEF SeekInv
  <2>4. j \in Journals
    BY <2>0, <2>3, ReaderAssumption DEF Journals, Shape
  <2>5. CASE LoadPage
    <3>1. PICK p : p = GetPage(j, reader.page)
      OBVIOUS
    <3>2. cur'[j] = Cursor(p, FirstOf(j, p), p = NoPage)
      BY <2>0, <2>3, <2>4, <2>5, <3>1 DEF LoadPage, Shape
    <3>3. /\ reader' = IF p = NoPage \/ reader.time = TIME_FROM_FIRST
                       THEN Idle ELSE [reader EXCEPT !.pc = "pass"]
          /\ reader.pc = "load"
      BY <2>3, <2>5, <3>1 DEF LoadPage
    <3>4. p # NoPage
      <4>1. cur'[j].expired = (p = NoPage)
        BY <3>2 DEF Cursor
      <4> QED BY <2>1, <2>3, <4>1, Zenon
    <3>5. reader.time = TIME_FROM_FIRST
      BY <2>0, <2>1, <3>3, <3>4 DEF ReaderType
    <3>6. reader.page = 1 /\ p = 1 /\ 1 \in DOMAIN pages[j]
      BY <2>0, <3>1, <3>3, <3>4, <3>5 DEF SeekInv, GetPage
    <3>7. pages[j][1].before = 0
      BY <1>1, <2>0, <2>4, <3>6, Types DEF ReaderInv, PageInv
    <3>8. cur'[j].pos = 0
      BY <3>2, <3>4, <3>6, <3>7 DEF Cursor, FirstOf
    <3> QED BY <2>1, <2>3, <3>8
  <2>6. CASE PassToTime
    <3>1. reader.pc = "pass" /\ reader' = Idle /\ cur' = cur
      BY <2>1, <2>6 DEF PassToTime
    <3>2. reader.time \in Int /\ reader.time > 0
      BY <2>0, <2>1, <3>1, ReaderAssumption
         DEF SeekInv, ReaderType, Times, TIME_TO_LAST, TIME_FROM_FIRST
    <3>3. \A i \in 1..cur[j].pos : log[j][i] < reader.time
      BY <2>0, <2>3, <3>1, <3>2 DEF SeekInv, AllBefore
    <3>4. PICK i \in 1..cur[j].pos : log[j][i] >= reader.time
      BY <2>1, <2>3, <3>1
    <3>5. log[j][i] \in Int
      <4>1. cur[j].pos \in 0..Len(log[j]) /\ LogLen(j) \in Nat
        BY <1>1, <2>0, <2>4, InvTypes, Types DEF TypeOK
      <4>2. i \in 1..LogLen(j)
        BY <4>1 DEF LogLen
      <4> QED BY <2>0, <2>4, <4>2, Types
    <3> QED BY <3>2, <3>3, <3>4, <3>5
  <2> QED BY <2>2, <2>5, <2>6
<1>2. Spec => [][SeekSkips => reader.raw]_vars
  BY <1>1, ReaderInvariant, PTL DEF Spec
<1> QED BY <1>2 DEF SeekFindsTime

-----------------------------------------------------------------------------
(* Each journal is a log, step by step. *)
Seeking(j) == InSeek(j) \/ cur[j].expired
LogStep(j) == [Log(j)!LogNext]_(Log(j)!LogVars)

LEMMA LogStutters ==
    ASSUME NEW j \in Journals, log'[j] = log[j], out'[j] = out[j],
           cur'[j].pos = cur[j].pos, Seeking(j)' = Seeking(j)
    PROVE  LogStep(j)
BY DEF LogStep, Log!LogVars, Seeking

LEMMA LogAppends ==
    ASSUME NEW j \in Journals, NEW f \in 1..MaxClock, log'[j] = Append(log[j], f),
           out'[j] = out[j], cur'[j] = cur[j], reader' = reader
    PROVE  LogStep(j)
<1>1. InSeek(j)' = InSeek(j)
  BY DEF InSeek
<1> QED BY <1>1 DEF LogStep, Log!LogNext, Log!AppendFrame

LEMMA LogSeeks ==
    ASSUME NEW j \in Journals, log'[j] = log[j], out'[j] = out[j],
           cur'[j].pos \in 0..Len(log[j]), Seeking(j) \/ Seeking(j)', Seeking(j)' \in BOOLEAN
    PROVE  LogStep(j)
<1> DEFINE cursor == [r \in {1} |-> cur[j].pos]
           seeking == [r \in {1} |-> InSeek(j) \/ cur[j].expired]
<1>1. PICK now \in BOOLEAN : now = Seeking(j)'
  OBVIOUS
<1>2. seeking' = [seeking EXCEPT ![1] = now]
  BY <1>1 DEF Seeking
<1>3. cursor' = [cursor EXCEPT ![1] = cur'[j].pos]
  OBVIOUS
<1>4. seeking[1] \/ now
  BY <1>1 DEF Seeking
<1>5. Log(j)!SeekTo(1)
  BY <1>2, <1>3, <1>4 DEF Log!SeekTo
<1> QED BY <1>5 DEF LogStep, Log!LogNext

LEMMA LogDelivers ==
    ASSUME NEW j \in Journals, log'[j] = log[j], ~Seeking(j), Seeking(j)' = Seeking(j),
           cur[j].pos < Len(log[j]), cur'[j].pos = cur[j].pos + 1,
           out'[j] = <<log[j][cur[j].pos + 1]>>
    PROVE  LogStep(j)
<1>1. Log(j)!Deliver(1)
  BY DEF Log!Deliver, Seeking
<1> QED BY <1>1 DEF LogStep, Log!LogNext

(* A step in journal k is a stutter of the log of another journal j. *)
LEMMA LogUntouched ==
    ASSUME ReaderInv, NEW j \in Journals, log'[j] = log[j], out'[j] = out[j],
           cur'[j] = cur[j], InSeek(j)' <=> InSeek(j)
    PROVE  LogStep(j)
<1>1. Seeking(j)' = Seeking(j)
  BY DEF Seeking
<1> QED BY <1>1, LogStutters

LEMMA WriterLog ==
    ASSUME ReaderInv, NEW k \in Journals, Stamp(k) \/ WriterStep(k), NEW j \in Journals
    PROVE  LogStep(j)
<1>0. /\ UNCHANGED readVars /\ reader' = reader /\ cur' = cur /\ out' = out
      /\ InSeek(j)' <=> InSeek(j)
  BY DEF Stamp, WriterStep, CreatePage, InitPage, OpenPage, ClosePage, Publish, readVars, InSeek
<1>1. CASE Publish(k) /\ j = k
  <2>1. writer[j].nano \in 1..MaxClock
    <3>1. writer[j].nano \in 1..clock
      BY <1>1 DEF Publish, ReaderInv, WriterInv
    <3> QED BY <3>1, ReaderAssumption DEF ReaderInv, Shape
  <2>2. log'[j] = Append(log[j], writer[j].nano)
    BY <1>1 DEF Publish, ReaderInv, Shape
  <2> QED BY <1>0, <2>1, <2>2, LogAppends
<1>2. CASE ~(Publish(k) /\ j = k)
  <2>1. log'[j] = log[j]
    BY <1>2 DEF Stamp, WriterStep, CreatePage, InitPage, OpenPage, ClosePage, Publish,
       ReaderInv, Shape
  <2> QED BY <1>0, <2>1, LogUntouched
<1> QED BY <1>1, <1>2

LEMMA CallLog ==
    ASSUME ReaderInv, NEW j \in Journals, NEW k \in Journals,
           ExpireJournal(k) \/ \E t \in Times : SeekTimeJournal(k, t)
    PROVE  LogStep(j)
<1>0. /\ Shape /\ reader = Idle /\ ~InSeek(j)
      /\ UNCHANGED <<log, out>>
  BY DEF ReaderInv, SeekInv, Idle, ExpireJournal, SeekTimeJournal, InSeek, writeVars
<1>1. CASE ExpireJournal(k)
  <2>1. ~InSeek(j)' /\ cur' = [cur EXCEPT ![k] = Cursor(NoPage, 0, TRUE)]
    BY <1>0, <1>1 DEF ExpireJournal, InSeek
  <2>2. CASE j = k
    <3>1. cur'[j].pos = 0 /\ cur'[j].expired = TRUE
      BY <1>0, <2>1, <2>2 DEF Shape, Cursor
    <3>2. Seeking(j)' /\ Seeking(j)' \in BOOLEAN
      BY <3>1, Zenon DEF Seeking
    <3>3. 0 \in 0..Len(log[j])
      BY <1>0, Types DEF LogLen
    <3> QED BY <1>0, <3>1, <3>2, <3>3, LogSeeks
  <2>3. CASE j # k
    <3>1. cur'[j] = cur[j]
      BY <1>0, <2>1, <2>3 DEF Shape
    <3> QED BY <1>0, <2>1, <3>1, LogUntouched
  <2> QED BY <2>2, <2>3
<1>2. ASSUME NEW t \in Times, SeekTimeJournal(k, t) PROVE LogStep(j)
  <2>1. /\ cur' = cur /\ reader'.journal = k /\ reader'.pc \in {"load", "scan"}
    BY <1>0, <1>2 DEF SeekTimeJournal, Idle
  <2>2. CASE j = k
    <3>1. Seeking(j)' /\ Seeking(j)' \in BOOLEAN
      BY <2>1, <2>2 DEF Seeking, InSeek
    <3>2. cur'[j].pos \in 0..Len(log[j])
      BY <2>1, InvTypes DEF TypeOK
    <3> QED BY <1>0, <3>1, <3>2, LogSeeks
  <2>3. CASE j # k
    <3>1. ~InSeek(j)'
      BY <2>1, <2>3 DEF InSeek
    <3> QED BY <1>0, <2>1, <3>1, LogUntouched
  <2> QED BY <2>2, <2>3
<1> QED BY <1>1, <1>2

LEMMA SeekLog ==
    ASSUME ReaderInv, ReaderInv', NEW j \in Journals,
           GetPageNumWithTime \/ LoadPage \/ PassToTime
    PROVE  LogStep(j)
<1>0. /\ Shape /\ reader \in ReaderType /\ UNCHANGED <<log, out>>
      /\ reader.pc \in {"scan", "load", "pass"}
  BY DEF ReaderInv, Shape, GetPageNumWithTime, LoadPage, PassToTime, writeVars
<1>1. CASE reader.journal = j
  <2>1. Seeking(j)
    BY <1>0, <1>1 DEF Seeking, InSeek
  <2>2. cur'[j].pos \in 0..Len(log[j])
    <3>1. ReaderInv' => TypeOK'
      BY InvTypes, PTL
    <3> QED BY <1>0, <3>1 DEF TypeOK
  <2>3. Seeking(j)' \in BOOLEAN
    BY Zenon DEF Seeking
  <2> QED BY <1>0, <2>1, <2>2, <2>3, LogSeeks
<1>2. CASE reader.journal # j
  <2>1. reader'.journal = reader.journal \/ reader'.pc = "idle"
    <3>1. GetPageNumWithTime => reader'.journal = reader.journal
      BY <1>0 DEF GetPageNumWithTime, ReaderType
    <3>2. LoadPage => reader' = Idle \/ reader'.journal = reader.journal
      BY <1>0 DEF LoadPage, ReaderType
    <3>3. PassToTime => reader' = Idle \/ reader'.journal = reader.journal
      BY DEF PassToTime
    <3> QED BY <3>1, <3>2, <3>3 DEF Idle
  <2>2. ~InSeek(j) /\ ~InSeek(j)'
    BY <1>2, <2>1 DEF InSeek
  <2>3. cur'[j] = cur[j]
    BY <1>0, <1>2 DEF GetPageNumWithTime, LoadPage, PassToTime, Shape
  <2> QED BY <1>0, <2>2, <2>3, LogUntouched
<1> QED BY <1>1, <1>2

LEMMA LookLog ==
    ASSUME ReaderInv, NEW j \in Journals, GetNextFrame \/ LookAt
    PROVE  LogStep(j)
<1>0. /\ Shape /\ reader \in ReaderType /\ UNCHANGED <<log, out>>
      /\ reader.pc \in {"idle", "look"}
  BY DEF ReaderInv, Shape, GetNextFrame, LookAt, writeVars
<1>1. ~InSeek(j) /\ ~InSeek(j)'
  BY <1>0 DEF InSeek, GetNextFrame, LookAt, ReaderType
<1>2. CASE GetNextFrame
  BY <1>0, <1>1, <1>2, LogUntouched DEF GetNextFrame
<1>3. CASE LookAt
  <2>1. CASE j = reader.at
    <3>1. cur'[j] = Located(j)
      BY <1>0, <1>3, <2>1 DEF LookAt, Shape
    <3>2. cur'[j].pos = cur[j].pos /\ cur'[j].expired = cur[j].expired
      BY <3>1, LocatedCursor
    <3>3. Seeking(j)' = Seeking(j)
      BY <1>1, <3>2 DEF Seeking
    <3> QED BY <1>0, <3>2, <3>3, LogStutters
  <2>2. CASE j # reader.at
    <3>1. cur'[j] = cur[j]
      BY <1>0, <1>3, <2>2 DEF LookAt, Shape
    <3> QED BY <1>0, <1>1, <3>1, LogUntouched
  <2> QED BY <2>1, <2>2
<1> QED BY <1>2, <1>3

LEMMA ReturnLog == ASSUME ReaderInv, NEW j \in Journals, ReturnFrame PROVE LogStep(j)
<1>0. /\ Shape /\ LookInv /\ UNCHANGED log /\ reader.pc = "look" /\ reader' = Idle
  BY DEF ReaderInv, ReturnFrame, writeVars
<1>1. ~InSeek(j) /\ ~InSeek(j)'
  BY <1>0 DEF InSeek, Idle
<1>2. CASE reader.minNano # TIME_TO_LAST /\ j = reader.curJournal
  <2>1. Unread(j, cur[j]) /\ reader.minNano = log[j][cur[j].pos + 1]
    BY <1>0, <1>2 DEF LookInv, Found
  <2>2. PICK c : c = [cur[j] EXCEPT !.pos = @ + 1]
    OBVIOUS
  <2>3. /\ c.pos = cur[j].pos + 1 /\ c.expired = cur[j].expired
        /\ cur[j].pos + 1 \in 1..LogLen(j) /\ cur[j].pos \in Nat
    BY <1>0, <2>1, <2>2, CursorPasses DEF ReaderInv
  <2>4. cur'[j] = c /\ out'[j] = <<log[j][cur[j].pos + 1]>>
    BY <1>0, <1>2, <2>1, <2>2 DEF ReturnFrame, Shape
  <2>5. cur[j].pos < Len(log[j])
    BY <1>0, <2>3, Types DEF LogLen
  <2>6. ~Seeking(j) /\ Seeking(j)' = Seeking(j)
    BY <1>1, <2>1, <2>3, <2>4 DEF Seeking, Unread
  <2> QED BY <1>0, <2>3, <2>4, <2>5, <2>6, LogDelivers
<1>3. CASE ~(reader.minNano # TIME_TO_LAST /\ j = reader.curJournal)
  <2>1. cur'[j] = cur[j] /\ out'[j] = out[j]
    BY <1>0, <1>3 DEF ReturnFrame, Shape
  <2> QED BY <1>0, <1>1, <2>1, LogUntouched
<1> QED BY <1>2, <1>3

LEMMA NextLog ==
    ASSUME ReaderInv, ReaderInv', [Next]_vars, NEW j \in Journals
    PROVE  LogStep(j)
<1>1. CASE Tick \/ AddJournal \/ UNCHANGED vars
  <2>1. UNCHANGED <<log, cur, reader, out>>
    BY <1>1 DEF Tick, AddJournal, vars, writeVars, readVars
  <2> QED BY <2>1, LogUntouched DEF InSeek
<1> QED BY <1>1, WriterLog, CallLog, SeekLog, LookLog, ReturnLog DEF Next, ReaderStep

(* Every journal implements the log: outside a seek or expiry of it         *)
(* getNextFrame returns its frames one after the other, none left out and   *)
(* none twice, in however many journals the reader looks.                   *)
THEOREM ReaderStreamsInOrder == Spec => StreamsInOrder
<1>1. Init => \A j \in Journals : Log(j)!LogInit
  <2> SUFFICES ASSUME Init, NEW j \in Journals PROVE Log(j)!LogInit
    OBVIOUS
  <2>1. /\ log[j] = <<>> /\ out[j] = <<>> /\ reader = Idle
        /\ cur[j].pos = 0 /\ cur[j].expired = FALSE
    BY DEF Init
  <2>2. ~InSeek(j)
    BY <2>1 DEF InSeek, Idle
  <2>3. (InSeek(j) \/ cur[j].expired) = FALSE
    BY <2>1, <2>2, Zenon
  <2> QED BY <2>1, <2>3 DEF Log!LogInit
<1>2. ReaderInv /\ ReaderInv' /\ [Next]_vars => [\A j \in Journals : LogStep(j)]_vars
  BY NextLog
<1>3. Spec => [][\A j \in Journals : LogStep(j)]_vars
  BY <1>2, ReaderInvariant, PTL DEF Spec
<1>4. Spec => \A j \in Journals : Log(j)!LogInit
  BY <1>1 DEF Spec
<1> QED BY <1>3, <1>4 DEF StreamsInOrder, LogStep
=============================================================================
