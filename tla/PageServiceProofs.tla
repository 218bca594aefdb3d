------------------------- MODULE PageServiceProofs --------------------------
(***************************************************************************)
(* The clients of the library do to the comm file only what the            *)
(* environment of the open engine may do.  So the service implements       *)
(* PageEngine's Spec, and the engine's theorems hold in the service, for   *)
(* every number of clients, slots, journals and pages.                     *)
(*                                                                         *)
(* What has to be known of the clients for this is that a handler only     *)
(* stores through a slot it was given, a page number that is one.          *)
(***************************************************************************)
EXTENDS PageService, PageEngineProofs

Ctl == [pc : PcValues, j : Journals \cup {NoJournal},
        op : {"none", "seek", "next", "expire"}, target : PageNums]
JournalState == [slot : Slots \cup {NoSlot}, page : 0..MaxPage,
                 expired : BOOLEAN]

(* Places inside a call for a journal; inside one that has its slot; inside *)
(* getPage.                                                                 *)
Asking == {"post", "send", "spin"}
WithSlot == Asking \cup {"check", "fill", "hold", "scan", "finish", "locate"}
WithJournal == WithSlot \cup {"regjournal"}

(* One handler: c is its call, r its journals, w whether it writes.  A      *)
(* journal with a page has a slot, and a writer that turns a page is not on *)
(* the last one the bound allows.                                           *)
HandlerOK(c, r, w) ==
    /\ c \in Ctl
    /\ r \in [Journals -> JournalState]
    /\ c.pc \in WithJournal => c.j \in Journals
    /\ c.pc \in WithSlot => r[c.j].slot \in Slots
    /\ \A j \in Journals : r[j].page # NoPage => r[j].slot \in Slots
    /\ c.pc = "scan" => c.op = "seek"
    /\ c.pc = "finish" => w /\ c.target \in 0..MaxPage
    /\ w /\ (c.pc = "finish" \/ (c.pc \in Asking /\ c.op = "next"))
         => r[c.j].page \in 1..(MaxPage - 1)

HeaderOK(hd) ==
    /\ hd \in [Journals \X Pages -> {"raw", "open", "full", "closed"}]
    /\ \A j \in Journals : hd[<<j, MaxPage>>] # "closed"

ClientInv ==
    /\ ctl \in [Handlers -> Ctl]
    /\ jr \in [Handlers -> [Journals -> JournalState]]
    /\ \A h \in Handlers : HandlerOK(ctl[h], jr[h], h \in Writers)
    /\ calls \in [Handlers -> Nat]
    /\ HeaderOK(header)

(* Storing into one page header: only the last page must not be closed. *)
LEMMA SetHeader ==
    ASSUME NEW hd, HeaderOK(hd), NEW j \in Journals, NEW p \in Pages,
           NEW v \in {"raw", "open", "full", "closed"},
           v = "closed" => p # MaxPage
    PROVE  HeaderOK([hd EXCEPT ![<<j, p>>] = v])
<1> DEFINE new == [hd EXCEPT ![<<j, p>>] = v]
<1>1. new \in [Journals \X Pages -> {"raw", "open", "full", "closed"}]
  BY DEF HeaderOK
<1>2. ASSUME NEW i \in Journals PROVE new[<<i, MaxPage>>] # "closed"
  <2>1. MaxPage \in Pages
    BY EngineAssumption DEF Pages
  <2>2. new[<<i, MaxPage>>] = IF <<i, MaxPage>> = <<j, p>> THEN v
                              ELSE hd[<<i, MaxPage>>]
    BY <1>2, <2>1 DEF HeaderOK
  <2> QED BY <1>2, <2>2 DEF HeaderOK
<1> QED BY <1>1, <1>2 DEF HeaderOK

(* A step of one handler keeps the others as they are. *)
LEMMA OneHandler ==
    ASSUME ClientInv, NEW h \in Handlers, NEW c, NEW r,
           ctl' = [ctl EXCEPT ![h] = c], jr' = [jr EXCEPT ![h] = r],
           HandlerOK(c, r, h \in Writers),
           calls' \in [Handlers -> Nat], HeaderOK(header')
    PROVE  ClientInv'
<1>1. c \in Ctl /\ r \in [Journals -> JournalState]
  BY DEF HandlerOK
<1>2. /\ ctl' \in [Handlers -> Ctl]
      /\ jr' \in [Handlers -> [Journals -> JournalState]]
  BY <1>1 DEF ClientInv
<1>3. \A g \in Handlers : HandlerOK(ctl'[g], jr'[g], g \in Writers)
  <2> SUFFICES ASSUME NEW g \in Handlers
               PROVE  HandlerOK(ctl'[g], jr'[g], g \in Writers)
    OBVIOUS
  <2>1. CASE g = h
    <3>1. ctl'[g] = c /\ jr'[g] = r
      BY <2>1 DEF ClientInv
    <3> QED BY <2>1, <3>1
  <2>2. CASE g # h
    <3>1. ctl'[g] = ctl[g] /\ jr'[g] = jr[g]
      BY <2>2 DEF ClientInv
    <3> QED BY <3>1 DEF ClientInv
  <2> QED BY <2>1, <2>2
<1> QED BY <1>2, <1>3 DEF ClientInv

(* The same for a step that leaves the journals, the calls and the pages    *)
(* alone.                                                                   *)
LEMMA OnlyControl ==
    ASSUME ClientInv, NEW h \in Handlers, NEW c,
           ctl' = [ctl EXCEPT ![h] = c], UNCHANGED <<jr, calls, header>>,
           HandlerOK(c, jr[h], h \in Writers)
    PROVE  ClientInv'
<1>1. jr' = [jr EXCEPT ![h] = jr[h]]
  BY DEF ClientInv
<1>2. calls' \in [Handlers -> Nat] /\ HeaderOK(header')
  BY DEF ClientInv
<1> QED BY <1>1, <1>2, OneHandler
-----------------------------------------------------------------------------
(* Leaving a page that has no room, between calls or in locateFrame. *)
LEMMA TurnKeeps ==
    ASSUME ClientInv, NEW h \in Handlers, NEW where, WriterTurn(h, where)
    PROVE  ClientInv' /\ UNCHANGED engineVars
<1> DEFINE d == [ctl[h] EXCEPT !.pc = "post", !.op = "next",
                               !.target = CurPage(h) + 1]
<1>0. HandlerOK(ctl[h], jr[h], h \in Writers)
  BY DEF ClientInv
<1>1. ctl[h].j \in Journals
  BY <1>0 DEF WriterTurn, HandlerOK, Ctl
<1>2. /\ CurPage(h) \in 1..(MaxPage - 1)
      /\ jr[h][ctl[h].j].slot \in Slots
  BY <1>0, <1>1, EngineAssumption DEF WriterTurn, HandlerOK, JournalState,
                                      CurPage, NoPage
<1>3. d \in Ctl
  <2>1. CurPage(h) + 1 \in PageNums
    BY <1>2, EngineAssumption DEF PageNums
  <2> QED BY <1>0, <2>1 DEF HandlerOK, Ctl, PcValues
<1>4. HandlerOK(d, jr[h], h \in Writers)
  BY <1>0, <1>1, <1>2, <1>3 DEF HandlerOK, Ctl, CurPage, Asking, WithSlot,
                                WithJournal
<1>5. ctl' = [ctl EXCEPT ![h] = d] /\ UNCHANGED <<engineVars, jr, calls, header>>
  BY DEF WriterTurn, ClientInv
<1> QED BY <1>4, <1>5, OnlyControl

-----------------------------------------------------------------------------
(* The calls an application makes (register_client, addJournal, seekTime,   *)
(* expire, exit, locateFrame, write_frame).                                 *)
LEMMA CallKeeps ==
    ASSUME ClientInv, NEW h \in Handlers, Call(h)
    PROVE  ClientInv' /\ (UNCHANGED engineVars \/ Kill(Pid[h]))
<1> DEFINE c == ctl[h]
           r == jr[h]
           w == h \in Writers
<1>0. HandlerOK(c, r, w) /\ calls \in [Handlers -> Nat] /\ HeaderOK(header)
  BY DEF ClientInv
<1>1. CASE register_client(h)
  <2>1. HandlerOK([c EXCEPT !.pc = "regclient"], r, w)
    BY <1>0 DEF HandlerOK, Ctl, PcValues, Asking, WithSlot, WithJournal
  <2> QED BY <1>1, <2>1, OnlyControl DEF register_client, GoTo
<1>2. CASE exit(h)
  <2>1. HandlerOK([c EXCEPT !.pc = "bye"], r, w)
    BY <1>0 DEF HandlerOK, Ctl, PcValues, Asking, WithSlot, WithJournal
  <2> QED BY <1>2, <2>1, OnlyControl DEF exit, GoTo
<1>3. CASE write_frame(h)
  <2>1. HeaderOK(header')
    <3>1. c.j \in Journals /\ CurPage(h) \in Pages
      BY <1>0, <1>3, EngineAssumption
         DEF write_frame, CanAppend, HandlerOK, Ctl, JournalState, CurPage,
             NoPage, Pages
    <3>2. header' = [header EXCEPT ![<<c.j, CurPage(h)>>] = "full"]
      BY <1>3 DEF write_frame
    <3> QED BY <1>0, <3>1, <3>2, SetHeader
  <2>2. ctl' = [ctl EXCEPT ![h] = c] /\ jr' = [jr EXCEPT ![h] = r]
    BY <1>3 DEF write_frame, ClientInv
  <2>3. UNCHANGED <<engineVars, calls>>
    BY <1>3 DEF write_frame
  <2> QED BY <1>0, <2>1, <2>2, <2>3, OneHandler
<1>4. CASE write_null(h)
  BY <1>4 DEF write_null, clientVars, ClientInv
<1>5. CASE WriterTurn(h, "ready")
  <2>1. ClientInv' /\ UNCHANGED engineVars
    BY <1>5, TurnKeeps
  <2> QED BY <2>1
<1>6. ASSUME NEW j \in Journals, addJournal(h, j)
      PROVE  ClientInv' /\ UNCHANGED engineVars
  <2>1. HandlerOK([c EXCEPT !.pc = "regjournal", !.j = j], r, w)
    BY <1>0 DEF HandlerOK, Ctl, PcValues, Asking, WithSlot, WithJournal
  <2>2. ctl' = [ctl EXCEPT ![h] = [c EXCEPT !.pc = "regjournal", !.j = j]]
    BY <1>6 DEF addJournal, ClientInv
  <2> QED BY <1>6, <2>1, <2>2, OnlyControl DEF addJournal
<1>7. ASSUME NEW j \in Journals, seekTime(h, j)
      PROVE  ClientInv' /\ UNCHANGED engineVars
  <2> DEFINE d == [c EXCEPT !.pc = "scan", !.j = j, !.op = "seek"]
  <2>1. HandlerOK(d, r, w)
    BY <1>0, <1>7 DEF seekTime, HandlerOK, Ctl, JournalState, NoSlot, PcValues,
                      Asking, WithSlot, WithJournal
  <2>2. ctl' = [ctl EXCEPT ![h] = d] /\ jr' = [jr EXCEPT ![h] = r]
    BY <1>7 DEF seekTime, ClientInv
  <2>3. calls' \in [Handlers -> Nat] /\ UNCHANGED <<engineVars, header>>
    BY <1>0, <1>7 DEF seekTime
  <2> QED BY <1>0, <2>1, <2>2, <2>3, OneHandler
<1>8. ASSUME NEW j \in Journals, expire(h, j)
      PROVE  ClientInv' /\ UNCHANGED engineVars
  <2> DEFINE d == [pc |-> "post", j |-> j, op |-> "expire", target |-> -1]
             e == [r[j] EXCEPT !.expired = TRUE, !.page = NoPage]
             q == [r EXCEPT ![j] = e]
  <2>0. e \in JournalState /\ e.slot \in Slots /\ e.page = NoPage
    <3>1. r[j] \in JournalState /\ r[j].slot \in Slots
      BY <1>0, <1>8 DEF expire, HandlerOK, JournalState
    <3>2. NoPage \in 0..MaxPage
      BY EngineAssumption DEF NoPage
    <3> QED BY <3>1, <3>2 DEF JournalState
  <2>1. q \in [Journals -> JournalState] /\ q[j] = e
    BY <1>0, <2>0 DEF HandlerOK
  <2>2. d \in Ctl
    BY EngineAssumption DEF Ctl, PcValues, PageNums
  <2>3. HandlerOK(d, q, w)
    BY <1>0, <1>8, <2>0, <2>1, <2>2
       DEF expire, HandlerOK, Asking, WithSlot, WithJournal
  <2>4. ctl' = [ctl EXCEPT ![h] = d]
    BY <1>8 DEF expire
  <2>5. jr' = [jr EXCEPT ![h] = q]
    BY <1>8 DEF expire, ClientInv
  <2>6. calls' \in [Handlers -> Nat] /\ UNCHANGED <<engineVars, header>>
    BY <1>0, <1>8 DEF expire
  <2> QED BY <1>0, <2>3, <2>4, <2>5, <2>6, OneHandler
<1>9. ASSUME NEW j \in Journals, ReaderLocate(h, j)
      PROVE  ClientInv' /\ UNCHANGED engineVars
  <2> DEFINE d == [pc |-> "post", j |-> j, op |-> "next",
                   target |-> jr[h][j].page + 1]
  <2>1. r[j].page \in 0..MaxPage /\ r[j].page # MaxPage /\ r[j].slot \in Slots
    BY <1>0, <1>9, EngineAssumption DEF ReaderLocate, HandlerOK, HeaderOK,
                                        JournalState, NoPage, NoSlot
  <2>2. d \in Ctl
    BY <2>1, EngineAssumption DEF Ctl, PcValues, PageNums
  <2>3. HandlerOK(d, r, w)
    BY <1>0, <1>9, <2>1, <2>2
       DEF ReaderLocate, HandlerOK, Asking, WithSlot, WithJournal
  <2> QED BY <1>9, <2>3, OnlyControl DEF ReaderLocate
<1> QED BY <1>1, <1>2, <1>3, <1>4, <1>5, <1>6, <1>7, <1>8, <1>9
           DEF Call, register_client, exit
-----------------------------------------------------------------------------
(* The page getPage returns is the one asked for, or null (Page::load). *)
LEMMA LoadedPageType ==
    ASSUME NEW h PROVE LoadedPage(h) \in 0..MaxPage
BY EngineAssumption DEF LoadedPage, Pages, NoPage

(* A writer's Page::load initialises the header of a new page only. *)
LEMMA InitHeaderKeeps ==
    ASSUME HeaderOK(header), NEW h, ctl[h].j \in Journals, InitHeader(h)
    PROVE  HeaderOK(header')
<1> DEFINE k == <<ctl[h].j, LoadedPage(h)>>
<1>1. CASE h \in Writers /\ LoadedPage(h) # NoPage
  <2>1. LoadedPage(h) \in Pages
    BY <1>1, LoadedPageType DEF Pages, NoPage
  <2>2. header' = [header EXCEPT ![k] =
                     IF header[k] = "raw" THEN "open" ELSE header[k]]
    BY <1>1 DEF InitHeader
  <2>3. header[k] \in {"raw", "open", "full", "closed"}
    BY <2>1 DEF HeaderOK
  <2>4. header[k] = "closed" => LoadedPage(h) # MaxPage
    BY DEF HeaderOK
  <2> DEFINE v == IF header[k] = "raw" THEN "open" ELSE header[k]
  <2>5. v \in {"raw", "open", "full", "closed"}
    BY <2>3
  <2>6. v = "closed" => LoadedPage(h) # MaxPage
    BY <2>4
  <2> HIDE DEF v
  <2>7. HeaderOK([header EXCEPT ![k] = v])
    BY <2>1, <2>5, <2>6, SetHeader
  <2> QED BY <2>2, <2>7 DEF v
<1>2. CASE ~(h \in Writers /\ LoadedPage(h) # NoPage)
  BY <1>2 DEF InitHeader
<1> QED BY <1>1, <1>2

(* The engine's variables during a step of handler h: nothing, a store into *)
(* the slot of h, or the death of its process.                              *)
EngineSees(h) ==
    \/ UNCHANGED engineVars
    \/ Slot(h) \in Slots /\ ClientStore(Slot(h))
    \/ Kill(Pid[h])

(* The steps of register_journal, seekTime, getPage and locateFrame. *)
LEMMA InCallKeeps ==
    ASSUME ClientInv, NEW h \in Handlers, InCall(h)
    PROVE  ClientInv' /\ EngineSees(h)
<1> DEFINE c == ctl[h]
           r == jr[h]
           w == h \in Writers
           Goes(x) == [c EXCEPT !.pc = x]
<1>0. HandlerOK(c, r, w) /\ calls \in [Handlers -> Nat] /\ HeaderOK(header)
  BY DEF ClientInv
<1>a. c.pc \in WithSlot => c.j \in Journals /\ Slot(h) \in Slots
  BY <1>0 DEF HandlerOK, WithJournal, Slot
<1>b. ASSUME NEW x, GoTo(h, x) PROVE ctl' = [ctl EXCEPT ![h] = Goes(x)]
  BY <1>b DEF GoTo, ClientInv
<1>1. CASE CheckSlot(h)
  <2>1. PICK x \in {"fill", "bye"} : GoTo(h, x)
    BY <1>1 DEF CheckSlot
  <2>2. c.pc = "check" /\ UNCHANGED <<engineVars, jr, calls, header>>
    BY <1>1 DEF CheckSlot, At
  <2>3. HandlerOK(Goes(x), r, w)
    BY <1>0, <2>2 DEF HandlerOK, Ctl, PcValues, Asking, WithSlot, WithJournal
  <2> QED BY <1>b, <2>1, <2>2, <2>3, OnlyControl DEF EngineSees
<1>2. CASE FillSlot(h)
  <2>1. c.pc = "fill" /\ GoTo(h, "hold") /\ UNCHANGED <<jr, calls, header>>
    BY <1>2 DEF FillSlot, At
  <2>2. HandlerOK(Goes("hold"), r, w)
    BY <1>0, <2>1 DEF HandlerOK, Ctl, PcValues, Asking, WithSlot, WithJournal
  <2>3. ClientInv'
    BY <1>b, <2>1, <2>2, OnlyControl
  <2>4. c.j \in Journals /\ Slot(h) \in Slots
    BY <1>a, <2>1 DEF WithSlot
  <2>5. ClientStore(Slot(h))
    <3>1. StoreJournal(Slot(h), c.j, w)
      BY <1>2 DEF FillSlot
    <3>2. \E b \in BOOLEAN : StoreJournal(Slot(h), c.j, b)
      <4>1. CASE w
        <5>1. StoreJournal(Slot(h), c.j, TRUE)
          BY <3>1, <4>1 DEF StoreJournal
        <5> QED BY <5>1
      <4>2. CASE ~w
        <5>1. w = FALSE
          BY <4>2
        <5>2. StoreJournal(Slot(h), c.j, FALSE)
          BY <3>1, <5>1, Zenon
        <5> QED BY <5>2
      <4> QED BY <4>1, <4>2
    <3> QED BY <2>4, <3>2, Zenon DEF ClientStore
  <2> QED BY <2>3, <2>4, <2>5 DEF EngineSees
<1>3. CASE HoldSlot(h)
  <2> DEFINE d == IF w THEN [c EXCEPT !.pc = "scan", !.op = "seek"]
                       ELSE Goes("ready")
  <2>1. c.pc = "hold" /\ UNCHANGED <<jr, calls, header>>
    BY <1>3 DEF HoldSlot, At
  <2>2. HandlerOK(d, r, w)
    BY <1>0, <2>1 DEF HandlerOK, Ctl, PcValues, Asking, WithSlot, WithJournal
  <2>3. ctl' = [ctl EXCEPT ![h] = d]
    BY <1>3 DEF HoldSlot, GoTo, ClientInv
  <2>4. ClientInv'
    BY <2>1, <2>2, <2>3, OnlyControl
  <2>5. Slot(h) \in Slots
    BY <1>a, <2>1 DEF WithSlot
  <2>6. ClientStore(Slot(h))
    BY <1>3 DEF HoldSlot, ClientStore
  <2> QED BY <2>4, <2>5, <2>6 DEF EngineSees
<1>4. CASE GetPageNums(h)
  <2>1. PICK p \in IF w THEN LastPage(c.j) ELSE PageFiles(c.j) \cup {1} :
             ctl' = [ctl EXCEPT ![h].pc = "post", ![h].target = p]
    BY <1>4 DEF GetPageNums
  <2>2. p \in PageNums
    BY <2>1, EngineAssumption DEF LastPage, PageFiles, Pages, PageNums
  <2> DEFINE d == [c EXCEPT !.pc = "post", !.target = p]
  <2>3. ctl' = [ctl EXCEPT ![h] = d]
    BY <2>1 DEF ClientInv
  <2>4. c.pc = "scan" /\ UNCHANGED <<engineVars, jr, calls, header>>
    BY <1>4 DEF GetPageNums, At
  <2>5. c.op = "seek"
    BY <1>0, <2>4 DEF HandlerOK
  <2>6. HandlerOK(d, r, w)
    BY <1>0, <2>2, <2>4, <2>5 DEF HandlerOK, Ctl, PcValues, Asking, WithSlot,
                                  WithJournal
  <2> QED BY <2>3, <2>4, <2>6, OnlyControl DEF EngineSees
<1>5. CASE PostPageNum(h)
  <2>1. c.pc = "post" /\ GoTo(h, "send") /\ UNCHANGED <<jr, calls, header>>
    BY <1>5 DEF PostPageNum, At
  <2>2. HandlerOK(Goes("send"), r, w)
    BY <1>0, <2>1 DEF HandlerOK, Ctl, PcValues, Asking, WithSlot, WithJournal
  <2>3. ClientInv'
    BY <1>b, <2>1, <2>2, OnlyControl
  <2>4. c.target \in PageNums /\ Slot(h) \in Slots
    BY <1>0, <1>a, <2>1 DEF WithSlot, Asking, HandlerOK, Ctl
  <2>5. ClientStore(Slot(h))
    BY <1>5, <2>4 DEF PostPageNum, ClientStore
  <2> QED BY <2>3, <2>4, <2>5 DEF EngineSees
<1>6. CASE PostRequest(h)
  <2>1. c.pc = "send" /\ GoTo(h, "spin") /\ UNCHANGED <<jr, calls, header>>
    BY <1>6 DEF PostRequest, At
  <2>2. HandlerOK(Goes("spin"), r, w)
    BY <1>0, <2>1 DEF HandlerOK, Ctl, PcValues, Asking, WithSlot, WithJournal
  <2>3. ClientInv'
    BY <1>b, <2>1, <2>2, OnlyControl
  <2>4. Slot(h) \in Slots
    BY <1>a, <2>1 DEF WithSlot, Asking
  <2>5. ClientStore(Slot(h))
    BY <1>6 DEF PostRequest, ClientStore
  <2> QED BY <2>3, <2>4, <2>5 DEF EngineSees
<1>7. CASE GetPageThrows(h)
  <2>1. GoTo(h, "bye") /\ UNCHANGED <<engineVars, jr, calls, header>>
    BY <1>7 DEF GetPageThrows
  <2>2. HandlerOK(Goes("bye"), r, w)
    BY <1>0 DEF HandlerOK, Ctl, PcValues, Asking, WithSlot, WithJournal
  <2> QED BY <1>b, <2>1, <2>2, OnlyControl DEF EngineSees
<1>8. CASE SeekReturns(h)
  <2> DEFINE e == [r[c.j] EXCEPT !.page = LoadedPage(h),
                                 !.expired = LoadedPage(h) = NoPage]
             q == [r EXCEPT ![c.j] = e]
  <2>0. c.pc = "spin" /\ UNCHANGED <<engineVars, calls>> /\ InitHeader(h)
    BY <1>8 DEF SeekReturns, Answered, At
  <2>1. c.j \in Journals /\ Slot(h) \in Slots
    BY <1>a, <2>0 DEF WithSlot, Asking
  <2>2. r[c.j] \in JournalState /\ r[c.j].slot \in Slots
    BY <1>0, <2>1 DEF HandlerOK, Slot
  <2>3. e \in JournalState /\ e.slot \in Slots
    BY <2>2, LoadedPageType DEF JournalState
  <2>4. PICK x \in {"locate", "ready"} : GoTo(h, x)
    BY <1>8 DEF SeekReturns
  <2>5. Goes(x) \in Ctl
    BY <1>0 DEF HandlerOK, Ctl, PcValues
  <2>6. HandlerOK(Goes(x), q, w)
    BY <1>0, <2>1, <2>3, <2>5 DEF HandlerOK, Ctl, Asking, WithSlot, WithJournal
  <2>7. jr' = [jr EXCEPT ![h] = q]
    BY <1>8 DEF SeekReturns, ClientInv
  <2>8. HeaderOK(header')
    BY <1>0, <2>0, <2>1, InitHeaderKeeps
  <2> QED BY <1>0, <1>b, <2>0, <2>4, <2>6, <2>7, <2>8, OneHandler DEF EngineSees
<1>9. CASE ExpireReturns(h)
  <2>1. GoTo(h, "ready") /\ UNCHANGED <<engineVars, jr, calls, header>>
    BY <1>9 DEF ExpireReturns
  <2>2. HandlerOK(Goes("ready"), r, w)
    BY <1>0 DEF HandlerOK, Ctl, PcValues, Asking, WithSlot, WithJournal
  <2> QED BY <1>b, <2>1, <2>2, OnlyControl DEF EngineSees
<1>10. CASE ReaderNextReturns(h)
  <2> DEFINE e == [r[c.j] EXCEPT !.page = LoadedPage(h)]
             q == [r EXCEPT ![c.j] = e]
  <2>0. /\ c.pc = "spin" /\ GoTo(h, "ready")
        /\ UNCHANGED <<engineVars, calls, header>>
    BY <1>10 DEF ReaderNextReturns, Answered, At
  <2>1. c.j \in Journals /\ Slot(h) \in Slots
    BY <1>a, <2>0 DEF WithSlot, Asking
  <2>2. r[c.j] \in JournalState /\ r[c.j].slot \in Slots
    BY <1>0, <2>1 DEF HandlerOK, Slot
  <2>3. e \in JournalState /\ e.slot \in Slots
    BY <2>2, LoadedPageType DEF JournalState
  <2>5. Goes("ready") \in Ctl
    BY <1>0 DEF HandlerOK, Ctl, PcValues
  <2>6. HandlerOK(Goes("ready"), q, w)
    BY <1>0, <2>1, <2>3, <2>5 DEF HandlerOK, Ctl, Asking, WithSlot, WithJournal
  <2>7. jr' = [jr EXCEPT ![h] = q]
    BY <1>10 DEF ReaderNextReturns, ClientInv
  <2> QED BY <1>0, <1>b, <2>0, <2>6, <2>7, OneHandler DEF EngineSees
<1>11. CASE WriterNextReturns(h)
  <2> DEFINE d == [c EXCEPT !.pc = "finish", !.target = LoadedPage(h)]
  <2>0. /\ c.pc = "spin" /\ c.op = "next" /\ w /\ InitHeader(h)
        /\ UNCHANGED <<engineVars, jr, calls>>
    BY <1>11 DEF WriterNextReturns, Answered, At
  <2>1. c.j \in Journals /\ Slot(h) \in Slots
    BY <1>a, <2>0 DEF WithSlot, Asking
  <2>2. LoadedPage(h) \in 0..MaxPage
    BY LoadedPageType
  <2>3. LoadedPage(h) \in PageNums
    BY <2>2, EngineAssumption DEF PageNums
  <2>4. HandlerOK(d, r, w)
    BY <1>0, <2>0, <2>2, <2>3 DEF HandlerOK, Ctl, PcValues, Asking, WithSlot,
                                  WithJournal
  <2>5. ctl' = [ctl EXCEPT ![h] = d] /\ jr' = [jr EXCEPT ![h] = r]
    BY <1>11 DEF WriterNextReturns, ClientInv
  <2>6. HeaderOK(header')
    BY <1>0, <2>0, <2>1, InitHeaderKeeps
  <2> QED BY <1>0, <2>0, <2>4, <2>5, <2>6, OneHandler DEF EngineSees
<1>12. CASE finishPage(h)
  <2> DEFINE e == [r[c.j] EXCEPT !.page = c.target]
             q == [r EXCEPT ![c.j] = e]
  <2>0. c.pc = "finish" /\ GoTo(h, "locate") /\ UNCHANGED calls
    BY <1>12 DEF finishPage, At
  <2>1. c.j \in Journals /\ Slot(h) \in Slots
    BY <1>a, <2>0 DEF WithSlot
  <2>2. r[c.j] \in JournalState /\ r[c.j].slot \in Slots
    BY <1>0, <2>1 DEF HandlerOK, Slot
  <2>3. e \in JournalState /\ e.slot \in Slots
    BY <1>0, <2>0, <2>2 DEF HandlerOK, JournalState
  <2>4. Goes("locate") \in Ctl
    BY <1>0 DEF HandlerOK, Ctl, PcValues
  <2>5. HandlerOK(Goes("locate"), q, w)
    BY <1>0, <2>1, <2>3, <2>4 DEF HandlerOK, Ctl, Asking, WithSlot, WithJournal
  <2>6. jr' = [jr EXCEPT ![h] = q]
    BY <1>12 DEF finishPage, ClientInv
  <2>7. HeaderOK(header')
    <3>1. CurPage(h) \in 1..(MaxPage - 1)
      BY <1>0, <2>0 DEF HandlerOK, CurPage
    <3>2. CurPage(h) \in Pages /\ CurPage(h) # MaxPage
      BY <3>1, EngineAssumption DEF Pages
    <3>3. header' = [header EXCEPT ![<<c.j, CurPage(h)>>] = "closed"]
      BY <1>12 DEF finishPage
    <3> QED BY <1>0, <2>1, <3>2, <3>3, SetHeader
  <2>8. EngineSees(h)
    BY <1>12 DEF finishPage, EngineSees
  <2> QED BY <1>0, <1>b, <2>0, <2>5, <2>6, <2>7, <2>8, OneHandler
<1>13. CASE LocateEnd(h)
  <2>1. GoTo(h, "ready") /\ UNCHANGED <<engineVars, jr, calls, header>>
    BY <1>13 DEF LocateEnd
  <2>2. HandlerOK(Goes("ready"), r, w)
    BY <1>0 DEF HandlerOK, Ctl, PcValues, Asking, WithSlot, WithJournal
  <2> QED BY <1>b, <2>1, <2>2, OnlyControl DEF EngineSees
<1>14. CASE WriterTurn(h, "locate")
  BY <1>14, TurnKeeps DEF EngineSees
<1> QED
  BY <1>1, <1>2, <1>3, <1>4, <1>5, <1>6, <1>7, <1>8, <1>9, <1>10, <1>11, <1>12,
     <1>13, <1>14 DEF InCall
-----------------------------------------------------------------------------
(* The requests the socket thread serves for a client. *)
LEMMA SocketKeeps ==
    ASSUME ClientInv, SocketStep
    PROVE  ClientInv' /\ Next
<1>1. ASSUME NEW h \in Handlers, ServeClient(h) PROVE ClientInv' /\ Next
  <2>1. PICK x \in {"ready", "gone"} : GoTo(h, x)
    BY <1>1 DEF ServeClient
  <2>2. HandlerOK([ctl[h] EXCEPT !.pc = x], jr[h], h \in Writers)
    BY DEF ClientInv, HandlerOK, Ctl, PcValues, Asking, WithSlot, WithJournal
  <2>3. ClientInv'
    BY <1>1, <2>1, <2>2, OnlyControl DEF ServeClient, GoTo
  <2>4. Next
    BY <1>1 DEF ServeClient, Next, SocketRequest
  <2> QED BY <2>3, <2>4
<1>2. ASSUME NEW h \in Handlers, ServeExit(h) PROVE ClientInv' /\ Next
  <2>1. PICK x \in {"leaving", "gone"} : GoTo(h, x)
    BY <1>2 DEF ServeExit
  <2>2. HandlerOK([ctl[h] EXCEPT !.pc = x], jr[h], h \in Writers)
    BY DEF ClientInv, HandlerOK, Ctl, PcValues, Asking, WithSlot, WithJournal
  <2>3. ClientInv'
    BY <1>2, <2>1, <2>2, OnlyControl DEF ServeExit, GoTo
  <2>4. Next
    BY <1>2 DEF ServeExit, Next, SocketRequest
  <2> QED BY <2>3, <2>4
<1>3. CASE ServeExitEnd
  <2> DEFINE h == clientJournals[exiting]
  <2>1. GoTo(h, "gone") /\ UNCHANGED <<jr, calls, header>>
    BY <1>3 DEF ServeExitEnd
  <2>2. CASE h \in Handlers
    <3>1. HandlerOK([ctl[h] EXCEPT !.pc = "gone"], jr[h], h \in Writers)
      BY <2>2 DEF ClientInv, HandlerOK, Ctl, PcValues, Asking, WithSlot,
                  WithJournal
    <3> QED BY <1>3, <2>1, <2>2, <3>1, OnlyControl DEF GoTo, ServeExitEnd, Next
  <2>3. CASE h \notin Handlers
    <3>1. ctl' = ctl
      BY <2>1, <2>3 DEF GoTo, ClientInv
    <3> QED BY <1>3, <2>1, <3>1 DEF ClientInv, ServeExitEnd, Next
  <2> QED BY <2>2, <2>3
<1>4. ASSUME NEW h \in Handlers, ServeJournal(h) PROVE ClientInv' /\ Next
  <2> DEFINE c == ctl[h]
             r == jr[h]
             w == h \in Writers
  <2>0. /\ HandlerOK(c, r, w) /\ calls \in [Handlers -> Nat]
        /\ HeaderOK(header)
    BY DEF ClientInv
  <2>1. Next
    BY <1>4 DEF ServeJournal, Next, SocketRequest
  <2>2. c.pc = "regjournal" /\ c.j \in Journals /\ UNCHANGED <<calls, header>>
    BY <1>4, <2>0 DEF ServeJournal, HandlerOK, WithJournal
  <2>3. CASE RawSlots # {} /\ clientJournals[Name[h]] # NoClient
    <3> DEFINE s == CHOOSE t \in Slots : FirstRaw(t)
               e == [r[c.j] EXCEPT !.slot = s]
               q == [r EXCEPT ![c.j] = e]
    <3>1. \E t \in Slots : FirstRaw(t)
      BY <1>4, <2>3 DEF ServeJournal, reg_journal
    <3>2. s \in Slots
      BY <3>1
    <3> HIDE DEF s
    <3>3. e \in JournalState /\ e.slot \in Slots
      BY <2>0, <2>2, <3>2 DEF HandlerOK, JournalState
    <3>4. [c EXCEPT !.pc = "check"] \in Ctl
      BY <2>0 DEF HandlerOK, Ctl, PcValues
    <3>5. HandlerOK([c EXCEPT !.pc = "check"], q, w)
      BY <2>0, <2>2, <3>3, <3>4 DEF HandlerOK, Ctl, Asking, WithSlot, WithJournal
    <3>6. /\ ctl' = [ctl EXCEPT ![h] = [c EXCEPT !.pc = "check"]]
          /\ jr' = [jr EXCEPT ![h] = q]
      BY <1>4, <2>3 DEF ServeJournal, GoTo, ClientInv, s
    <3> QED BY <2>0, <2>1, <2>2, <3>5, <3>6, OneHandler
  <2>4. CASE ~(RawSlots # {} /\ clientJournals[Name[h]] # NoClient)
    <3>1. GoTo(h, "bye") /\ UNCHANGED jr
      BY <1>4, <2>4 DEF ServeJournal
    <3>2. HandlerOK([c EXCEPT !.pc = "bye"], r, w)
      BY <2>0 DEF HandlerOK, Ctl, PcValues, Asking, WithSlot, WithJournal
    <3> QED BY <2>1, <2>2, <3>1, <3>2, OnlyControl DEF GoTo
  <2> QED BY <2>3, <2>4
<1> QED BY <1>1, <1>2, <1>3, <1>4 DEF SocketStep

(* What a client does when the engine does not answer. *)
LEMMA UnansweredKeeps ==
    ASSUME ClientInv, NEW h \in Handlers,
           ClientUnanswered(h) \/ JournalUnanswered(h)
    PROVE  ClientInv' /\ (UNCHANGED engineVars \/ Kill(Pid[h]))
<1> DEFINE c == ctl[h]
           r == jr[h]
           w == h \in Writers
<1>0. HandlerOK(c, r, w) /\ calls \in [Handlers -> Nat] /\ HeaderOK(header)
  BY DEF ClientInv
<1>1. CASE ClientUnanswered(h)
  <2>1. HandlerOK([c EXCEPT !.pc = "gone"], r, w)
    BY <1>0 DEF HandlerOK, Ctl, PcValues, Asking, WithSlot, WithJournal
  <2>2. ClientInv'
    BY <1>1, <2>1, OnlyControl DEF ClientUnanswered, GoTo
  <2> QED BY <1>1, <2>2 DEF ClientUnanswered
<1>2. CASE JournalUnanswered(h)
  <2>1. c.j \in Journals /\ UNCHANGED <<engineVars, calls, header>>
    BY <1>0, <1>2 DEF JournalUnanswered, HandlerOK, WithJournal
  <2>2. CASE GoTo(h, "bye") /\ UNCHANGED jr
    <3>1. HandlerOK([c EXCEPT !.pc = "bye"], r, w)
      BY <1>0 DEF HandlerOK, Ctl, PcValues, Asking, WithSlot, WithJournal
    <3> QED BY <2>1, <2>2, <3>1, OnlyControl DEF GoTo
  <2>3. ASSUME NEW s \in Slots, GoTo(h, "check"),
               jr' = [jr EXCEPT ![h][c.j].slot = s]
        PROVE  ClientInv'
    <3> DEFINE e == [r[c.j] EXCEPT !.slot = s]
               q == [r EXCEPT ![c.j] = e]
    <3>1. e \in JournalState /\ e.slot \in Slots
      BY <1>0, <2>1 DEF HandlerOK, JournalState
    <3>2. [c EXCEPT !.pc = "check"] \in Ctl
      BY <1>0 DEF HandlerOK, Ctl, PcValues
    <3>3. HandlerOK([c EXCEPT !.pc = "check"], q, w)
      BY <1>0, <2>1, <3>1, <3>2 DEF HandlerOK, Ctl, Asking, WithSlot, WithJournal
    <3>4. /\ ctl' = [ctl EXCEPT ![h] = [c EXCEPT !.pc = "check"]]
          /\ jr' = [jr EXCEPT ![h] = q]
      BY <2>3 DEF GoTo, ClientInv
    <3> QED BY <1>0, <2>1, <3>3, <3>4, OneHandler
  <2> QED BY <1>2, <2>1, <2>2, <2>3 DEF JournalUnanswered
<1> QED BY <1>1, <1>2

(* Every step of the service keeps the clients' invariant and is a step of  *)
(* the open engine, or leaves the engine alone.                             *)
LEMMA ServiceStep ==
    ASSUME ClientInv, [ServiceNext]_vars
    PROVE  ClientInv' /\ [Next]_engineVars
<1>a. ASSUME UNCHANGED clientVars PROVE ClientInv'
  BY <1>a DEF clientVars, ClientInv
<1>1. CASE UNCHANGED vars
  BY <1>1, <1>a DEF vars
<1>2. ASSUME NEW s \in Slots, EngineExitSlot(s)
      PROVE  ClientInv' /\ [Next]_engineVars
  BY <1>2, <1>a DEF EngineExitSlot, Next
<1>3. CASE EngineTask
  BY <1>3, <1>a DEF EngineTask, Next
<1>4. CASE EngineComm
  BY <1>4, <1>a DEF EngineComm, Next
<1>5. CASE SocketStep
  BY <1>5, SocketKeeps
<1>6. ASSUME NEW h \in Handlers, InCall(h)
      PROVE  ClientInv' /\ [Next]_engineVars
  <2>1. ClientInv' /\ EngineSees(h)
    BY <1>6, InCallKeeps
  <2>2. Pid[h] \in Pids
    BY <1>6, EngineAssumption
  <2> QED BY <2>1, <2>2 DEF EngineSees, Next
<1>7. ASSUME NEW h \in Handlers, Call(h)
      PROVE  ClientInv' /\ [Next]_engineVars
  <2>1. ClientInv' /\ (UNCHANGED engineVars \/ Kill(Pid[h]))
    BY <1>7, CallKeeps
  <2>2. Pid[h] \in Pids
    BY <1>7, EngineAssumption
  <2> QED BY <2>1, <2>2 DEF Next
<1>8. ASSUME NEW p \in Pids, KillProcess(p)
      PROVE  ClientInv' /\ [Next]_engineVars
  BY <1>8, <1>a DEF KillProcess, Next
<1>9. ASSUME NEW h \in Handlers, ClientUnanswered(h) \/ JournalUnanswered(h)
      PROVE  ClientInv' /\ [Next]_engineVars
  <2>1. ClientInv' /\ (UNCHANGED engineVars \/ Kill(Pid[h]))
    BY <1>9, UnansweredKeeps
  <2>2. Pid[h] \in Pids
    BY <1>9, EngineAssumption
  <2> QED BY <2>1, <2>2 DEF Next
<1>10. CASE EngineStops \/ EngineRestarts
  BY <1>10, <1>a DEF EngineStops, EngineRestarts, Next
<1> QED BY <1>1, <1>2, <1>3, <1>4, <1>5, <1>6, <1>7, <1>8, <1>9, <1>10
           DEF ServiceNext

(* The clients start idle, and no page on disk is closed without a next. *)
LEMMA ServiceStart == ServiceInit => ClientInv
<1> SUFFICES ASSUME ServiceInit PROVE ClientInv
  OBVIOUS
<1> DEFINE c0 == [pc |-> "new", j |-> NoJournal, op |-> "none",
                  target |-> NoPage]
           j0 == [slot |-> NoSlot, page |-> NoPage, expired |-> FALSE]
<1>1. c0 \in Ctl
  BY EngineAssumption DEF Ctl, PcValues, PageNums, NoPage
<1>2. j0 \in JournalState
  BY EngineAssumption DEF JournalState, NoPage
<1>3. /\ ctl = [h \in Handlers |-> c0]
      /\ jr = [h \in Handlers |-> [j \in Journals |-> j0]]
      /\ calls \in [Handlers -> Nat]
  BY ServiceAssumption DEF ServiceInit
<1>4. \A h \in Handlers : HandlerOK(ctl[h], jr[h], h \in Writers)
  BY <1>1, <1>2, <1>3 DEF HandlerOK, Asking, WithSlot, WithJournal
<1>5. HeaderOK(header)
  <2>1. header \in [Journals \X Pages -> {"raw", "open", "full", "closed"}]
    BY DEF ServiceInit
  <2>2. ASSUME NEW j \in Journals PROVE header[<<j, MaxPage>>] # "closed"
    <3>1. <<j, MaxPage + 1>> \notin OnDisk
      BY EngineAssumption
    <3>2. <<j, MaxPage>> \in Journals \X Pages
      BY <2>2, EngineAssumption DEF Pages
    <3> QED BY <3>1, <3>2 DEF ServiceInit
  <2> QED BY <2>1, <2>2 DEF HeaderOK
<1> QED BY <1>1, <1>2, <1>3, <1>4, <1>5 DEF ClientInv

-----------------------------------------------------------------------------
(* The clients of the library never leave the environment the open engine   *)
(* is specified against (PageProvider, Journal): the service implements     *)
(* PageEngine's Spec.                                                       *)
THEOREM ServiceImplementsEngine == ServiceSpec => ImplementsEngine
<1>1. ServiceInit => Init /\ ClientInv
  BY ServiceStart DEF ServiceInit
<1>2. ClientInv /\ [ServiceNext]_vars => ClientInv' /\ [Next]_engineVars
  BY ServiceStep
<1> QED BY <1>1, <1>2, PTL DEF ServiceSpec, ImplementsEngine, Spec

(* Every variable of engine and clients keeps its type; in particular every *)
(* slot a client stores through and every page number it asks for exists.   *)
THEOREM ServiceTypes == ServiceSpec => []ServiceTypeOK
<1>1. ServiceInit => ClientInv
  BY ServiceStart
<1>2. ClientInv /\ [ServiceNext]_vars => ClientInv'
  BY ServiceStep
<1>3. Spec => []EngineInv
  BY EngineInvariant
<1>4. ServiceSpec => Spec
  BY ServiceImplementsEngine DEF ImplementsEngine
<1>5. ClientInv /\ EngineInv => ServiceTypeOK
  BY DEF ClientInv, EngineInv, ServiceTypeOK, Ctl, JournalState, HeaderOK
<1> QED BY <1>1, <1>2, <1>3, <1>4, <1>5, PTL DEF ServiceSpec

(* The consistency of page book, registry, slots and mutex holds in the     *)
(* whole service (PageEngine with PageProvider clients that may be killed). *)
THEOREM ServiceConsistent ==
    ServiceSpec => [](BookOK /\ RegistryOK /\ SlotsOK /\ LockOK)
<1>1. Spec => []EngineInv
  BY EngineInvariant
<1>2. ServiceSpec => Spec
  BY ServiceImplementsEngine DEF ImplementsEngine
<1>3. EngineInv => BookOK /\ RegistryOK /\ SlotsOK /\ LockOK
  BY DEF EngineInv
<1> QED BY <1>1, <1>2, <1>3, PTL
=============================================================================
