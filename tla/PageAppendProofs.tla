-------------------------- MODULE PageAppendProofs ---------------------------
(***************************************************************************)
(* The writer lock of the service.  PageEngine counts writers per page, a  *)
(* client only knows its slot, and the page served last is given back by   *)
(* the numbers that the slot says it was; that these three agree is what   *)
(* keeps two writers out of one page.  It is so for any number of          *)
(* handlers, processes, names, journals, slots and pages until the first   *)
(* client process dies (what is done for a dead writer can give back the   *)
(* lock of a live one), while the engine runs (Outages is FALSE), where    *)
(* the temp page can be renamed into every folder (Foreign is empty).      *)
(* Unless somebody kills one, no client process dies.                      *)
(***************************************************************************)
EXTENDS PageAdvanceProofs

AllAlive == \A p \in Pids : alive[p]

(* A client that the engine has not finished removing, and those of its     *)
(* journals whose slots exit_client has not visited.                        *)
In(h) == Member(h) \/ ctl[h].pc = "leaving"
Has(h, j) ==
    /\ jr[h][j].slot # NoSlot
    /\ Member(h) \/ (ctl[h].pc = "leaving" /\ jr[h][j].slot \in exitLeft)

(* What a journal's slot says, where its client is with it, and whether the *)
(* comm thread has still to store last_page_num.                            *)
Msg(h, j) == comm[jr[h][j].slot]
Page(h, j) == jr[h][j].page
Where(h, j) == IF ctl[h].j = j THEN ctl[h].pc ELSE "ready"
Pending(s) == commPc = "done" /\ commIdx = s

(* The page a writer has the lock of: the one the engine has just granted,  *)
(* else the one it has, or none if it was refused.                          *)
Grant(h, j) ==
    IF Msg(h, j).status = "MORE_THAN_ONE_WRITE" THEN NoPage
    ELSE IF \/ Where(h, j) = "finish"
            \/ Where(h, j) = "spin" /\ Msg(h, j).status = "ALLOCATED"
    THEN ctl[h].target
    ELSE Page(h, j)

(* The slot tells the engine whose it is, from FillSlot on. *)
SlotSays(h, j) ==
    IF Where(h, j) \in {"check", "fill"} THEN Msg(h, j).status = "OCCUPIED"
    ELSE Msg(h, j).journal = j /\ Msg(h, j).is_writer = (h \in Writers)

(* Writers begin with the newest page: none that was on disk at the start   *)
(* is newer.  A page that is used up is never written to again.             *)
Newest(j, p) == \A q \in Pages : <<j, q>> \in OnDisk => q <= p
UsedUp(k) == header[k] \in {"full", "closed"}

(* A writer's slot: the status that goes with where the writer is, the page *)
(* number it has stored there, what the engine remembers as served last     *)
(* (nothing, the page the writer has, or the one that is asked for), and    *)
(* the page asked for: the newest at the time of the seek, or the next.     *)
Unserved(h, j) ==
    Page(h, j) = NoPage /\ Msg(h, j).last_page_num = 0 /\ ~Pending(jr[h][j].slot)
StatusFits(h, j) ==
    LET w == Where(h, j)
        st == Msg(h, j).status
    IN  \/ w \in {"check", "fill", "hold"} /\ st = "OCCUPIED" /\ Unserved(h, j)
        \/ w \in {"scan", "post", "send"} /\ st = "HOLDING" /\ Unserved(h, j)
        \/ w = "spin" /\ st = "REQUESTING" /\ (Unserved(h, j) \/ Page(h, j) # NoPage)
        \/ w \in {"spin", "finish"} /\ st = "ALLOCATED"
        \/ /\ w \in {"ready", "scan", "post", "send", "locate", "bye", "leaving"}
           /\ st = "ALLOCATED" /\ Page(h, j) # NoPage
        \/ w \in {"spin", "bye", "leaving"} /\ st = "MORE_THAN_ONE_WRITE"
NumberFits(h, j) ==
    IF Where(h, j) \in {"send", "spin", "finish"}
    THEN Msg(h, j).page_num = ctl[h].target
    ELSE Msg(h, j).status = "ALLOCATED" => Msg(h, j).page_num = Page(h, j)
TargetFits(h, j) ==
    Where(h, j) \in {"post", "send", "spin", "finish"} =>
      /\ ctl[h].target \in Pages /\ Newest(j, ctl[h].target)
      /\ \/ /\ ctl[h].op = "seek"
            /\ ctl[h].target = 1 \/ <<j, ctl[h].target>> \in book.files
         \/ /\ ctl[h].op = "next" /\ Page(h, j) # NoPage
            /\ ctl[h].target = Page(h, j) + 1 /\ UsedUp(<<j, Page(h, j)>>)
LastFits(h, j) ==
    \/ Pending(jr[h][j].slot) \/ Msg(h, j).status = "MORE_THAN_ONE_WRITE"
    \/ Msg(h, j).last_page_num \in {0, Grant(h, j), Msg(h, j).page_num}
WriterSlot(h, j) ==
    /\ StatusFits(h, j) /\ NumberFits(h, j) /\ TargetFits(h, j) /\ LastFits(h, j)
    /\ Page(h, j) # NoPage => Newest(j, Page(h, j))
SlotOK(h, j) ==
    Has(h, j) => SlotSays(h, j) /\ (h \in Writers => WriterSlot(h, j))

(* A client and the engine's lists: exit_client works for the one that      *)
(* leaves, a name lists no other slots than its client has, no two of its   *)
(* journals share one, and addJournal adds a new one.                       *)
Leaves(h) ==
    ctl[h].pc = "leaving" => exiting # NoClient /\ clientJournals[exiting] = h
Lists(h) ==
    /\ In(h) => /\ \A s \in user_index_vec[Name[h]] :
                     \E j \in Journals : jr[h][j].slot = s
                /\ Apart(h)
    /\ ctl[h].pc = "regjournal" => jr[h][ctl[h].j].slot = NoSlot

(* A slot is REQUESTING only while its client waits, and the comm thread    *)
(* serves such slots only.                                                  *)
Waits(h, s) == Member(h) /\ ctl[h].pc = "spin" /\ Slot(h) = s
RequestsWait ==
    \A s \in Slots : comm[s].status = "REQUESTING" =>
      \E h \in Handlers : Waits(h, s)
ServesRequest == commPc = "serve" => comm[commIdx].status = "REQUESTING"

(* The engine has a writer entry for every page that is granted, and grants *)
(* none twice.                                                              *)
Granted(h, j) == Has(h, j) /\ Grant(h, j) # NoPage
Locked ==
    \A h \in Writers : \A j \in Journals :
      Granted(h, j) => book.writers[<<j, Grant(h, j)>>] = 1
Exclusive ==
    \A g, h \in Writers : \A j \in Journals :
      Granted(g, j) /\ Granted(h, j) /\ Grant(g, j) = Grant(h, j) => g = h

(* No page file is removed.  A page with a newer one is used up: a new file *)
(* is only made for a writer that has used up the page it comes from.       *)
Chain ==
    /\ OnDisk \subseteq book.files
    /\ \A j \in Journals : \A p, q \in Pages :
         Newest(j, p) /\ p < q /\ <<j, q>> \in book.files => UsedUp(<<j, p>>)

AppendInv ==
    AllAlive =>
      /\ up
      /\ \A h \in Handlers : Leaves(h) /\ Lists(h)
      /\ \A h \in Handlers : \A j \in Journals : SlotOK(h, j)
      /\ RequestsWait /\ ServesRequest
      /\ Locked /\ Exclusive /\ Chain

-----------------------------------------------------------------------------
LEMMA HasPlace ==
    ASSUME EngineInv, ClientInv, NEW h \in Handlers, NEW j \in Journals, Has(h, j)
    PROVE  /\ jr[h][j].slot \in Slots /\ Msg(h, j) \in PageCommMsg
           /\ Page(h, j) \in 0..MaxPage
           /\ ctl[h] \in Ctl
BY Place DEF Has, Msg, Page, EngineInv, TypeOK, ClientInv

LEMMA GrantedPage ==
    ASSUME EngineInv, ClientInv, AppendInv, AllAlive,
           NEW h \in Writers, NEW j \in Journals, Granted(h, j)
    PROVE  Grant(h, j) \in Pages /\ <<j, Grant(h, j)>> \in book.files
<1>1. h \in Handlers
  BY ServiceAssumption
<1>2. Grant(h, j) \in Pages
  <2>1. /\ WriterSlot(h, j) /\ Page(h, j) \in 0..MaxPage
    BY <1>1, HasPlace DEF AppendInv, SlotOK, Granted
  <2>2. Grant(h, j) \in {ctl[h].target, Page(h, j)} /\ Grant(h, j) # 0
    BY DEF Granted, Grant, NoPage
  <2>3. Grant(h, j) = ctl[h].target => Grant(h, j) \in Pages \/ Grant(h, j) = Page(h, j)
    BY <2>1 DEF WriterSlot, TargetFits, Grant, Granted
  <2> QED BY <2>1, <2>2, <2>3, EngineAssumption DEF Pages
<1>3. book.writers[<<j, Grant(h, j)>>] = 1
  BY DEF AppendInv, Locked
<1>4. <<j, Grant(h, j)>> \in Keys
  BY <1>2, EngineAssumption DEF Keys, Pages, PageNums
<1> QED BY <1>2, <1>3, <1>4 DEF EngineInv, BookOK, Held

(* What the engine and the clients agree on is what the properties ask for: *)
(* of two writers on different pages, one has used its page up.             *)
LEMMA AppendGives ==
    ASSUME EngineInv, ClientInv, AppendInv, AllAlive
    PROVE  OneAppender /\ AppenderHoldsLock
<1>1. ASSUME NEW h \in Handlers, CanAppend(h)
      PROVE  /\ ctl[h].j \in Journals /\ h \in Writers
             /\ Granted(h, ctl[h].j) /\ Grant(h, ctl[h].j) = CurPage(h)
             /\ comm[Slot(h)].status = "ALLOCATED"
             /\ comm[Slot(h)].page_num = CurPage(h)
  <2> DEFINE j == ctl[h].j
  <2>1. /\ j \in Journals /\ ctl[h].pc = "ready" /\ h \in Writers
        /\ Page(h, j) # NoPage /\ Page(h, j) = CurPage(h) /\ Slot(h) = jr[h][j].slot
    BY <1>1 DEF CanAppend, At, ClientInv, Ctl, Page, CurPage, Slot
  <2> HIDE DEF j
  <2>2. jr[h][j].slot # NoSlot
    BY <2>1 DEF ClientInv, HandlerOK, Page, NoSlot, Slots
  <2>3. Has(h, j) /\ Where(h, j) = "ready"
    BY <1>1, <2>1, <2>2 DEF Has, Member, CanAppend, At, Where
  <2>4. StatusFits(h, j) /\ NumberFits(h, j)
    BY <2>1, <2>3 DEF AppendInv, SlotOK, WriterSlot
  <2>5. Msg(h, j).status = "ALLOCATED" /\ Msg(h, j).page_num = Page(h, j)
    BY <2>3, <2>4 DEF StatusFits, NumberFits
  <2>6. Grant(h, j) = Page(h, j)
    BY <2>3, <2>5 DEF Grant
  <2> QED BY <2>1, <2>3, <2>5, <2>6 DEF Granted, Msg, j
<1>2. ASSUME NEW g \in Handlers, NEW h \in Handlers, CanAppend(g), CanAppend(h),
             ctl[g].j = ctl[h].j, CurPage(g) < CurPage(h)
      PROVE  FALSE
  <2> DEFINE j == ctl[g].j
  <2>1. /\ j \in Journals /\ g \in Writers /\ h \in Writers
        /\ Granted(g, j) /\ Grant(g, j) = CurPage(g)
        /\ Granted(h, j) /\ Grant(h, j) = CurPage(h)
    BY <1>1, <1>2
  <2>2. header[<<j, CurPage(g)>>] = "open" /\ ctl[g].pc = "ready"
    BY <1>2 DEF CanAppend, At
  <2>3. Page(g, j) = CurPage(g) /\ CurPage(g) # NoPage
    BY <1>2 DEF Page, CurPage, CanAppend
  <2> HIDE DEF j
  <2>4. /\ CurPage(g) \in Pages /\ CurPage(h) \in Pages
        /\ <<j, CurPage(h)>> \in book.files
    BY <2>1, GrantedPage
  <2>5. Newest(j, CurPage(g))
    BY <2>1, <2>3 DEF AppendInv, SlotOK, WriterSlot, Granted
  <2>6. UsedUp(<<j, CurPage(g)>>)
    BY <1>2, <2>1, <2>4, <2>5 DEF AppendInv, Chain
  <2> QED BY <2>2, <2>6 DEF UsedUp
<1>4. ASSUME NEW g \in Handlers, NEW h \in Handlers, CanAppend(g), CanAppend(h),
             ctl[g].j = ctl[h].j
      PROVE  g = h
  <2>1. CurPage(g) \in 0..MaxPage /\ CurPage(h) \in 0..MaxPage
    BY <1>1, <1>4, Place DEF CurPage
  <2>2. CurPage(g) = CurPage(h)
    BY <1>2, <1>4, <2>1, EngineAssumption
  <2> QED BY <1>1, <1>4, <2>2 DEF AppendInv, Exclusive
<1>3. AppenderHoldsLock
  BY <1>1 DEF AppenderHoldsLock, AppendInv, Locked
<1> QED BY <1>3, <1>4 DEF OneAppender

-----------------------------------------------------------------------------
(* No slot serves two journals, of one client or of two. *)
LEMMA HasIsMine ==
    ASSUME EngineInv, ClientInv, OwnerInv, up, NEW g \in Handlers, NEW h \in Handlers,
           NEW i \in Journals, NEW j \in Journals, Leaves(g), Leaves(h), Lists(h),
           Has(g, i), Has(h, j), jr[g][i].slot = jr[h][j].slot
    PROVE  g = h /\ i = j
<1>1. CASE g = h
  BY <1>1 DEF Lists, Has, In, Apart
<1>2. CASE g # h /\ Member(g)
  <2>1. ~Member(h)
    BY <1>2, SlotIsMine DEF Has
  <2>2. exiting # NoClient /\ jr[g][i].slot \in exitLeft
    BY <2>1 DEF Has, Leaves
  <2> QED BY <1>2, <2>2, SlotIsMine DEF Has
<1>3. CASE g # h /\ ~Member(g)
  <2>1. exiting # NoClient /\ jr[h][j].slot \in exitLeft /\ clientJournals[exiting] = g
    BY <1>3 DEF Has, Leaves
  <2>2. ~Member(h)
    BY <2>1, SlotIsMine DEF Has
  <2> QED BY <1>3, <2>1, <2>2 DEF Has, Leaves
<1> QED BY <1>1, <1>2, <1>3

(* What no step undoes: files stay, and a page that is used up stays so. *)
OnlyMore ==
    /\ book.files \subseteq book'.files
    /\ \A k \in Journals \X Pages : UsedUp(k) => UsedUp(k)'

(* A journal that a step does not touch. *)
Untouched(h, j) ==
    /\ Where(h, j)' = Where(h, j) /\ jr'[h][j] = jr[h][j]
    /\ Where(h, j) # "ready" => ctl'[h] = ctl[h]
    /\ comm'[jr[h][j].slot] = comm[jr[h][j].slot]
    /\ Pending(jr[h][j].slot)' = Pending(jr[h][j].slot)
    /\ Has(h, j)' => Has(h, j)

LEMMA UntouchedKept ==
    ASSUME EngineInv, ClientInv, OnlyMore, NEW h \in Handlers, NEW j \in Journals,
           SlotOK(h, j), Untouched(h, j)
    PROVE  /\ SlotOK(h, j)'
           /\ Granted(h, j)' => Granted(h, j) /\ Grant(h, j)' = Grant(h, j)
<1> SUFFICES ASSUME Has(h, j)'
             PROVE  /\ SlotSays(h, j)' /\ (h \in Writers => WriterSlot(h, j)')
                    /\ Grant(h, j)' = Grant(h, j)
  BY DEF SlotOK, Granted, Untouched
<1>1. /\ Has(h, j) /\ SlotSays(h, j) /\ (h \in Writers => WriterSlot(h, j))
      /\ Msg(h, j)' = Msg(h, j) /\ Page(h, j)' = Page(h, j)
      /\ Where(h, j)' = Where(h, j)
      /\ Pending(jr[h][j].slot)' = Pending(jr[h][j].slot)
      /\ jr'[h][j].slot = jr[h][j].slot
  BY DEF SlotOK, Untouched, Msg, Page
<1>2. Where(h, j) # "ready" => ctl'[h] = ctl[h]
  BY DEF Untouched
<1>3. Grant(h, j)' = Grant(h, j)
  BY <1>1, <1>2 DEF Grant
<1>4. SlotSays(h, j)'
  BY <1>1 DEF SlotSays
<1>5. ASSUME h \in Writers PROVE WriterSlot(h, j)'
  <2>2. StatusFits(h, j)'
    BY <1>1, <1>5 DEF WriterSlot, StatusFits, Unserved
  <2>3. NumberFits(h, j)'
    BY <1>1, <1>2, <1>5 DEF WriterSlot, NumberFits
  <2>4. TargetFits(h, j)'
    BY <1>1, <1>2, <1>5, HasPlace DEF WriterSlot, TargetFits, OnlyMore, NoPage, Pages, Newest
  <2>5. LastFits(h, j)'
    BY <1>1, <1>3, <1>5 DEF WriterSlot, LastFits
  <2> QED BY <1>1, <1>5, <2>2, <2>3, <2>4, <2>5 DEF WriterSlot, Newest
<1> QED BY <1>3, <1>4, <1>5

(* A step that grants nothing new and leaves the writer entries alone. *)
LEMMA LocksKept ==
    ASSUME Locked, Exclusive, book'.writers = book.writers,
           \A h \in Writers : \A j \in Journals : Granted(h, j)' =>
             Granted(h, j) /\ Grant(h, j)' = Grant(h, j)
    PROVE  Locked' /\ Exclusive'
<1>1. Locked'
  BY DEF Locked
<1>2. Exclusive'
  BY DEF Exclusive
<1> QED BY <1>1, <1>2

LEMMA ChainKept ==
    ASSUME Chain, OnlyMore, book'.files = book.files PROVE Chain'
BY DEF Chain, OnlyMore, Newest

-----------------------------------------------------------------------------
(* A step that changes nothing the invariant speaks of: the task thread,    *)
(* which finds nobody to remove. *)
Idle ==
    /\ UNCHANGED <<ctl, jr, header, comm, commPc, commIdx, up>>
    /\ UNCHANGED <<clientJournals, user_index_vec, exiting, exitLeft>>
    /\ book'.writers = book.writers /\ book'.files = book.files

LEMMA IdleKept ==
    ASSUME EngineInv, ClientInv, AppendInv, NoneRevived, AllAlive => Idle
    PROVE  AppendInv'
<1> SUFFICES ASSUME AllAlive' PROVE AppendInv'
  BY DEF AppendInv
<1>1. AllAlive /\ Idle /\ \A h \in Handlers : Running(h) /\ Running(h)'
  BY EngineAssumption DEF AllAlive, NoneRevived, Running
<1>2. OnlyMore
  BY <1>1 DEF OnlyMore, Idle, UsedUp
<1>3. \A h \in Handlers : (Member(h)' <=> Member(h)) /\ (In(h)' <=> In(h))
  BY <1>1 DEF Member, In, Idle
<1>4. \A h \in Handlers : Leaves(h)' /\ Lists(h)'
  BY <1>1, <1>3 DEF AppendInv, Leaves, Lists, Idle, Apart
<1>5. ASSUME NEW h \in Handlers, NEW j \in Journals
      PROVE  /\ SlotOK(h, j)'
             /\ Granted(h, j)' => Granted(h, j) /\ Grant(h, j)' = Grant(h, j)
  <2>1. Untouched(h, j)
    BY <1>1, <1>3 DEF Untouched, Where, Idle, Pending, Has
  <2> QED BY <1>1, <1>2, <2>1, UntouchedKept DEF AppendInv
<1>6. RequestsWait' /\ ServesRequest'
  BY <1>1, <1>3 DEF AppendInv, RequestsWait, Waits, ServesRequest, Idle, Slot
<1>7. Locked' /\ Exclusive'
  BY <1>1, <1>5, LocksKept, ServiceAssumption DEF AppendInv, Idle
<1>8. Chain'
  BY <1>1, <1>2, ChainKept DEF AppendInv, Idle
<1> QED BY <1>1, <1>4, <1>5, <1>6, <1>7, <1>8 DEF AppendInv, Idle

LEMMA TaskAppend ==
    ASSUME EngineInv, ClientInv, OwnerInv, AppendInv, TaskStep, UNCHANGED clientVars
    PROVE  AppendInv'
<1>1. UNCHANGED <<ctl, jr, header, comm, commPc, commIdx, up, alive>> /\ up
  BY DEF TaskStep, TaskExit, TaskExitEnd, TaskStart, TaskEnd, ExitFinish, clientVars, commVars
<1>2. book'.writers = book.writers /\ book'.files = book.files
  BY DEF TaskStep, TaskExit, TaskExitEnd, TaskStart, TaskEnd, ExitFinish,
         EngineInv, TypeOK, Book
<1>3. ASSUME AllAlive, NEW n \in Names, clientJournals[n] # NoClient
      PROVE  alive[Pid[clientJournals[n]]]
  BY <1>3, EngineAssumption DEF AllAlive, EngineInv, TypeOK
<1>4. ASSUME AllAlive PROVE UNCHANGED <<clientJournals, user_index_vec, exiting, exitLeft>>
  <2>1. CASE TaskStart \/ TaskEnd
    BY <2>1 DEF TaskStart, TaskEnd, registry, exitVars
  <2>2. ASSUME NEW n \in Names, TaskExit(n)
        PROVE  UNCHANGED <<clientJournals, user_index_vec, exiting, exitLeft>>
    BY <1>1, <1>3, <1>4, <2>2 DEF TaskExit, registry, OwnerInv, RemovesOnlyDead
  <2>3. ~TaskExitEnd
    BY <1>1, <1>3, <1>4 DEF TaskExitEnd, ExitFinish, OwnerInv, ExitIsDue, EngineInv,
                            LockOK, TypeOK
  <2> QED BY <2>1, <2>2, <2>3 DEF TaskStep
<1> QED BY <1>1, <1>2, <1>4, IdleKept DEF Idle, NoneRevived

-----------------------------------------------------------------------------
(* A client that waits has the slot, and only it. *)
LEMMA WaiterHas ==
    ASSUME ClientInv, NEW h \in Handlers, NEW s \in Slots, Waits(h, s)
    PROVE  /\ ctl[h].j \in Journals /\ jr[h][ctl[h].j].slot = s
           /\ Has(h, ctl[h].j) /\ Where(h, ctl[h].j) = "spin"
BY Place DEF Waits, Has, Where, WithSlot, WithJournal, Asking

(* exit_client gives back the lock of the client that leaves, no other. *)
LEMMA ReleaseWriters ==
    ASSUME NEW b \in Book, NEW k \in Keys, NEW w \in BOOLEAN
    PROVE  /\ \A q \in Keys : q # k \/ ~w =>
                release_page(b, k, w).writers[q] = b.writers[q]
           /\ b.writers[k] \in {0, 1} /\ w => release_page(b, k, w).writers[k] = 0
<1>1. b.writers \in [Keys -> Nat]
  BY DEF Book
<1>2. CASE w
  BY <1>1, <1>2 DEF release_page, Book
<1>3. CASE ~w
  BY <1>1, <1>3 DEF release_page, Book
<1> QED BY <1>2, <1>3

LEMMA ExitSlotAppend ==
    ASSUME EngineInv, ClientInv, OwnerInv, AppendInv, NEW s \in Slots,
           ExitSlot(s), UNCHANGED clientVars
    PROVE  AppendInv'
<1> SUFFICES ASSUME AllAlive' PROVE AppendInv'
  BY DEF AppendInv
<1>1. /\ up /\ exiting # NoClient /\ s \in exitLeft /\ exitLeft' = exitLeft \ {s}
      /\ comm' = [comm EXCEPT ![s].status = "RAW"]
      /\ UNCHANGED <<ctl, jr, header, commPc, commIdx, up, alive>>
      /\ UNCHANGED <<clientJournals, user_index_vec, exiting>>
  BY DEF ExitSlot, clientVars, registry, commVars
<1>2. AllAlive /\ \A h \in Handlers : Running(h) /\ Running(h)'
  BY <1>1, EngineAssumption DEF AllAlive, Running
<1>3. PICK x \in Handlers :
        /\ x = clientJournals[exiting] /\ ctl[x].pc = "leaving" /\ Name[x] = exiting
        /\ s \in user_index_vec[exiting]
  BY <1>1, <1>2, EngineAssumption DEF Running, OwnerInv, ExitIsDue, EngineInv, LockOK,
                                      RegistryOK, TypeOK
<1>4. PICK c \in Journals : jr[x][c].slot = s
  BY <1>2, <1>3 DEF AppendInv, Lists, In
<1>5. Has(x, c) /\ ~Has(x, c)' /\ Where(x, c) \in {"ready", "leaving"}
  <2>1. NoSlot \notin Slots
    BY DEF NoSlot, Slots
  <2>2. Has(x, c)
    BY <1>1, <1>3, <1>4, <2>1 DEF Has
  <2>3. jr'[x][c].slot \notin exitLeft' /\ ctl'[x].pc = "leaving"
    BY <1>1, <1>3, <1>4
  <2>4. ~Has(x, c)'
    BY <2>3 DEF Has, Member
  <2> QED BY <1>3, <2>2, <2>4 DEF Where
<1>6. \A h \in Handlers : (Member(h)' <=> Member(h)) /\ (In(h)' <=> In(h))
  BY <1>1, <1>2 DEF Member, In
<1>7. \A t \in Slots \ {s} : comm'[t] = comm[t]
  BY <1>1 DEF EngineInv, TypeOK
<1>8. ASSUME NEW h \in Handlers, NEW j \in Journals, Has(h, j)'
      PROVE  Has(h, j) /\ Untouched(h, j)
  <2>1. Has(h, j)
    BY <1>1, <1>6, <1>8 DEF Has
  <2>2. jr[h][j].slot \in Slots
    BY <2>1, HasPlace
  <2>3. jr[h][j].slot # s
    <3>1. jr[h][j].slot = s => h = x /\ j = c
      BY <1>1, <1>2, <1>3, <1>4, <1>5, <2>1, HasIsMine DEF AppendInv
    <3> QED BY <1>5, <1>8, <3>1 DEF Has
  <2> QED BY <1>1, <1>7, <2>1, <2>2, <2>3 DEF Untouched, Where, Pending
<1> DEFINE m == comm[s]
           k == <<m.journal, m.page_num>>
<1>9. m \in PageCommMsg /\ k \in Keys /\ m.is_writer \in BOOLEAN /\ book \in Book
  BY DEF EngineInv, TypeOK, PageCommMsg, Keys
<1>10. /\ SlotSays(x, c) /\ (x \in Writers => WriterSlot(x, c)) /\ Msg(x, c) = m
  BY <1>2, <1>3, <1>4, <1>5 DEF AppendInv, SlotOK, Msg
<1>11. book' = IF m.status = "ALLOCATED" THEN release_page(book, k, m.is_writer) ELSE book
  BY DEF ExitSlot
<1> HIDE DEF m, k
<1>12. book'.files = book.files
  BY <1>9, <1>11, ReleaseKeepsFiles
<1>13. OnlyMore
  BY <1>1, <1>12 DEF OnlyMore, UsedUp
<1>14. ASSUME NEW h \in Handlers, NEW j \in Journals
       PROVE  /\ SlotOK(h, j)'
              /\ Granted(h, j)' => Granted(h, j) /\ Grant(h, j)' = Grant(h, j)
  <2>1. CASE Has(h, j)'
    BY <1>2, <1>8, <1>13, <2>1, UntouchedKept DEF AppendInv
  <2>2. CASE ~Has(h, j)'
    BY <2>2 DEF SlotOK, Granted
  <2> QED BY <2>1, <2>2
<1>15. \A h \in Handlers : Leaves(h)' /\ Lists(h)'
  BY <1>1, <1>2, <1>6 DEF AppendInv, Leaves, Lists, Apart
<1>16. commPc = "serve" => commIdx # s
  <2> SUFFICES ASSUME commPc = "serve", commIdx = s PROVE FALSE
    OBVIOUS
  <2>1. PICK g \in Handlers : Waits(g, s)
    BY <1>2 DEF AppendInv, ServesRequest, RequestsWait
  <2> QED BY <1>1, <2>1, WaiterHas, SlotIsMine DEF Waits, Has
<1>17. RequestsWait' /\ ServesRequest'
  <2>1. comm'[s].status = "RAW"
    BY <1>1 DEF EngineInv, TypeOK, PageCommMsg
  <2>2. RequestsWait'
    BY <1>1, <1>2, <1>6, <1>7, <2>1 DEF AppendInv, RequestsWait, Waits, Slot
  <2>3. ServesRequest'
    BY <1>1, <1>2, <1>7, <1>16 DEF AppendInv, ServesRequest, EngineInv, TypeOK
  <2> QED BY <2>2, <2>3
<1>18. ASSUME NEW h \in Writers, NEW j \in Journals, Granted(h, j)'
       PROVE  book'.writers[<<j, Grant(h, j)>>] = book.writers[<<j, Grant(h, j)>>]
  <2>1. h \in Handlers
    BY ServiceAssumption
  <2>2. Granted(h, j) /\ <<j, Grant(h, j)>> \in Keys
    BY <1>2, <1>14, <1>18, <2>1, GrantedPage DEF EngineInv, TypeOK, Book
  <2>3. CASE m.status = "ALLOCATED" /\ m.is_writer /\ k = <<j, Grant(h, j)>>
    <3>1. k = <<c, m.page_num>> /\ x \in Writers
      BY <1>3, <1>5, <1>10, <2>3 DEF SlotSays, k
    <3>2. m.page_num = Page(x, c) /\ Page(x, c) # NoPage /\ Grant(x, c) = Page(x, c)
      BY <1>5, <1>10, <2>3, <3>1 DEF WriterSlot, NumberFits, StatusFits, Grant
    <3>3. h = x /\ j = c
      BY <1>2, <1>5, <2>2, <2>3, <3>1, <3>2 DEF AppendInv, Exclusive, Granted
    <3> QED BY <1>5, <1>18, <3>3 DEF Granted, Has
  <2>4. CASE ~(m.status = "ALLOCATED" /\ m.is_writer /\ k = <<j, Grant(h, j)>>)
    BY <1>9, <1>11, <2>2, <2>4, ReleaseWriters
  <2> QED BY <2>3, <2>4
<1>19. Locked'
  BY <1>2, <1>14, <1>18, ServiceAssumption DEF AppendInv, Locked
<1>20. Exclusive'
  BY <1>2, <1>14, ServiceAssumption DEF AppendInv, Exclusive
<1>21. Chain'
  BY <1>2, <1>12, <1>13, ChainKept DEF AppendInv
<1> QED BY <1>1, <1>14, <1>15, <1>17, <1>19, <1>20, <1>21 DEF AppendInv

-----------------------------------------------------------------------------
(* The comm thread: what initiate_page does to the writer entries and to    *)
(* the files, and what the whole request does to them.                      *)
LEMMA InitiateWriters ==
    ASSUME NEW b \in Book, NEW k \in Keys, NEW w \in BOOLEAN,
           NEW r, r = initiate_page(b, k, w), b.addrs \subseteq b.files
    PROVE  /\ \A q \in Keys : q # k \/ ~w => r.book.writers[q] = b.writers[q]
           /\ w /\ r.status = "ALLOCATED" =>
                b.writers[k] = 0 /\ r.book.writers[k] = 1
           /\ w /\ r.status # "ALLOCATED" => r.book.writers[k] = b.writers[k]
           /\ r.book.files \subseteq b.files \cup {k}
           /\ ~w => r.book.files = b.files
<1> DEFINE m == MapPage(b, k)
           missing == k \notin b.addrs \cup b.files
<1>1. /\ m.files = b.files \cup {k} /\ m.writers = b.writers
      /\ m.writers \in [Keys -> Nat] /\ m \in Book
  BY DEF MapPage, Book
<1>2. CASE missing /\ ~w
  BY <1>2 DEF initiate_page
<1>3. CASE ~(missing /\ ~w) /\ missing /\ b.temp /\ k[1] \in Foreign
  BY <1>3 DEF initiate_page
<1>4. CASE ~(missing /\ ~w) /\ ~(missing /\ b.temp /\ k[1] \in Foreign)
           /\ w /\ b.writers[k] > 0
  <2>1. r = [book |-> m, status |-> "MORE_THAN_ONE_WRITE"]
    BY <1>4 DEF initiate_page
  <2> HIDE DEF m
  <2>2. r.book = m /\ r.status = "MORE_THAN_ONE_WRITE"
    BY <2>1
  <2> QED BY <1>1, <1>4, <2>2
<1>5. CASE ~(missing /\ ~w) /\ ~(missing /\ b.temp /\ k[1] \in Foreign)
           /\ ~(w /\ b.writers[k] > 0)
  <2>1. r = [book |-> IF w THEN [m EXCEPT !.writers[k] = 1]
                           ELSE [m EXCEPT !.readers[k] = @ + 1],
             status |-> "ALLOCATED"]
    BY <1>5 DEF initiate_page
  <2>2. ~w => k \in b.files
    BY <1>5
  <2>3. w => b.writers[k] = 0
    BY <1>5 DEF Book
  <2> HIDE DEF m
  <2>4. CASE w
    <3>1. r.book = [m EXCEPT !.writers[k] = 1]
      BY <2>1, <2>4
    <3>2. r.book.files = m.files /\ r.book.writers = [m.writers EXCEPT ![k] = 1]
      BY <1>1, <3>1 DEF Book
    <3>3. r.status = "ALLOCATED"
      BY <2>1
    <3> QED BY <1>1, <2>3, <2>4, <3>2, <3>3
  <2>5. CASE ~w
    <3>1. r.book = [m EXCEPT !.readers[k] = @ + 1]
      BY <2>1, <2>5
    <3>2. r.book.files = m.files /\ r.book.writers = m.writers
      BY <1>1, <3>1 DEF Book
    <3> QED BY <1>1, <2>2, <2>5, <3>2
  <2> QED BY <2>4, <2>5
<1> QED BY <1>2, <1>3, <1>4, <1>5

Returns(m) == m.last_page_num > 0 /\ m.last_page_num # m.page_num

LEMMA ServeWriters ==
    ASSUME EngineInv, CommServe, NEW m, m = comm[commIdx],
           NEW k, k = <<m.journal, m.page_num>>,
           NEW last, last = <<m.journal, m.last_page_num>>
    PROVE  /\ \A q \in Keys : ~m.is_writer \/ (q # k /\ ~(Returns(m) /\ q = last))
                => book'.writers[q] = book.writers[q]
           /\ m.is_writer /\ comm'[commIdx].status = "ALLOCATED" =>
                book.writers[k] = 0 /\ book'.writers[k] = 1
           /\ m.is_writer /\ comm'[commIdx].status # "ALLOCATED" =>
                book'.writers[k] = book.writers[k]
           /\ book'.files \subseteq book.files \cup {k}
           /\ ~m.is_writer => book'.files = book.files
<1> DEFINE b == IF Returns(m) THEN release_page(book, last, m.is_writer) ELSE book
<1>1. /\ commIdx \in Slots /\ m \in PageCommMsg /\ book \in Book
      /\ comm \in [Slots -> PageCommMsg] /\ GoodBook(book)
  BY DEF EngineInv, TypeOK, BookOK, GoodBook
<1>2. k \in Keys /\ last \in Keys /\ m.is_writer \in BOOLEAN /\ (Returns(m) => last # k)
  BY <1>1 DEF PageCommMsg, Keys, Returns
<1>3. b \in Book /\ b.files = book.files /\ b.addrs \subseteq b.files
  BY <1>1, <1>2, ReleaseKeepsFiles, ReleaseKeepsBook DEF GoodBook
<1>4. /\ \A q \in Keys : ~m.is_writer \/ ~(Returns(m) /\ q = last) =>
           b.writers[q] = book.writers[q]
      /\ b.writers[k] = book.writers[k]
  BY <1>1, <1>2, ReleaseWriters
<1> DEFINE r == initiate_page(b, k, m.is_writer)
<1>5. /\ book' = r.book /\ comm' = [comm EXCEPT ![commIdx].status = r.status]
  BY DEF CommServe, ServeRequest, Returns
<1> HIDE DEF b
<1>6. /\ \A q \in Keys : q # k \/ ~m.is_writer => r.book.writers[q] = b.writers[q]
      /\ m.is_writer /\ r.status = "ALLOCATED" =>
           b.writers[k] = 0 /\ r.book.writers[k] = 1
      /\ m.is_writer /\ r.status # "ALLOCATED" => r.book.writers[k] = b.writers[k]
      /\ r.book.files \subseteq b.files \cup {k}
      /\ ~m.is_writer => r.book.files = b.files
  BY <1>2, <1>3, InitiateWriters
<1> HIDE DEF r
<1>7. comm'[commIdx].status = r.status
  BY <1>1, <1>5 DEF PageCommMsg
<1> QED BY <1>2, <1>3, <1>4, <1>5, <1>6, <1>7

LEMMA CommFrame ==
    ASSUME AppendInv, AllAlive, CommStep, UNCHANGED clientVars
    PROVE  /\ up /\ UNCHANGED <<ctl, jr, header, up, alive, exitLeft>>
           /\ \A h \in Handlers : Member(h)' <=> Member(h)
           /\ \A h \in Handlers : \A j \in Journals : Has(h, j)' <=> Has(h, j)
           /\ \A h \in Handlers : Leaves(h)' /\ Lists(h)'
<1>1. /\ up /\ UNCHANGED <<ctl, jr, header, up, alive, exitLeft>>
      /\ UNCHANGED <<clientJournals, user_index_vec, exiting>>
  BY DEF CommStep, CommScan, CommServe, CommDone, clientVars, registry, exitVars
<1>2. \A h \in Handlers : (Member(h)' <=> Member(h)) /\ (In(h)' <=> In(h))
  BY <1>1 DEF Member, Running, In
<1>3. \A h \in Handlers : \A j \in Journals : Has(h, j)' <=> Has(h, j)
  BY <1>1, <1>2 DEF Has
<1>4. \A h \in Handlers : Leaves(h)' /\ Lists(h)'
  BY <1>1, <1>2 DEF AppendInv, Leaves, Lists, Apart
<1> QED BY <1>1, <1>2, <1>3, <1>4

LEMMA CommScanAppend ==
    ASSUME EngineInv, ClientInv, OwnerInv, AppendInv, AllAlive,
           CommScan, UNCHANGED clientVars
    PROVE  AppendInv'
<1>1. CommStep
  BY DEF CommStep
<1>2. /\ UNCHANGED <<comm, book>> /\ commPc = "scan" /\ commPc' \in {"scan", "serve"}
      /\ commPc' = "serve" => commIdx' = commIdx /\ comm[commIdx].status = "REQUESTING"
  BY DEF CommScan
<1>3. OnlyMore
  BY <1>1, <1>2, CommFrame DEF OnlyMore, UsedUp
<1>4. ASSUME NEW h \in Handlers, NEW j \in Journals
      PROVE  /\ SlotOK(h, j)'
             /\ Granted(h, j)' => Granted(h, j) /\ Grant(h, j)' = Grant(h, j)
  <2>1. Untouched(h, j)
    BY <1>1, <1>2, CommFrame DEF Untouched, Where, Pending
  <2> QED BY <1>3, <2>1, UntouchedKept DEF AppendInv
<1>5. RequestsWait' /\ ServesRequest'
  BY <1>1, <1>2, CommFrame DEF AppendInv, RequestsWait, Waits, ServesRequest, Slot
<1>6. Locked' /\ Exclusive'
  BY <1>2, <1>4, LocksKept, ServiceAssumption DEF AppendInv
<1>7. Chain'
  BY <1>2, <1>3, ChainKept DEF AppendInv
<1> QED BY <1>1, <1>4, <1>5, <1>6, <1>7, CommFrame DEF AppendInv

(* The store of last_page_num: the page number may be that of the next      *)
(* request already. *)
LEMMA CommDoneAppend ==
    ASSUME EngineInv, ClientInv, OwnerInv, AppendInv, AllAlive,
           CommDone, UNCHANGED clientVars
    PROVE  AppendInv'
<1>1. CommStep
  BY DEF CommStep
<1>2. /\ UNCHANGED book /\ commPc = "done" /\ commPc' = "scan"
      /\ \A s \in Slots \ {commIdx} : comm'[s] = comm[s]
      /\ comm'[commIdx].status = comm[commIdx].status
      /\ comm'[commIdx].journal = comm[commIdx].journal
      /\ comm'[commIdx].is_writer = comm[commIdx].is_writer
      /\ comm'[commIdx].page_num = comm[commIdx].page_num
      /\ comm'[commIdx].last_page_num = comm[commIdx].page_num
  BY DEF CommDone, EngineInv, TypeOK, PageCommMsg
<1>3. OnlyMore
  BY <1>1, <1>2, CommFrame DEF OnlyMore, UsedUp
<1>4. ASSUME NEW h \in Handlers, NEW j \in Journals, Has(h, j), jr[h][j].slot = commIdx
      PROVE  SlotOK(h, j)' /\ Grant(h, j)' = Grant(h, j)
  <2>1. /\ Where(h, j)' = Where(h, j) /\ Page(h, j)' = Page(h, j)
        /\ ctl' = ctl /\ header' = header
        /\ Msg(h, j)' = comm'[commIdx] /\ Msg(h, j) = comm[commIdx]
    BY <1>1, <1>4, CommFrame DEF Where, Page, Msg
  <2>2. Grant(h, j)' = Grant(h, j)
    BY <1>2, <2>1 DEF Grant
  <2>3. SlotSays(h, j) /\ (h \in Writers => WriterSlot(h, j))
    BY <1>4 DEF AppendInv, SlotOK
  <2>4. SlotSays(h, j)'
    BY <1>2, <2>1, <2>3 DEF SlotSays
  <2>5. ASSUME h \in Writers PROVE WriterSlot(h, j)'
    <3>1. ~Unserved(h, j)
      BY <1>2, <1>4 DEF Unserved, Pending
    <3>2. StatusFits(h, j)'
      BY <1>2, <2>1, <2>3, <2>5, <3>1 DEF WriterSlot, StatusFits
    <3>3. NumberFits(h, j)'
      BY <1>2, <2>1, <2>3, <2>5 DEF WriterSlot, NumberFits
    <3>4. TargetFits(h, j)'
      BY <1>2, <2>1, <2>3, <2>5 DEF WriterSlot, TargetFits, UsedUp, Newest
    <3>5. LastFits(h, j)'
      BY <1>2, <2>1 DEF LastFits
    <3> QED BY <2>1, <2>3, <2>5, <3>2, <3>3, <3>4, <3>5 DEF WriterSlot, Newest
  <2> QED BY <2>2, <2>4, <2>5 DEF SlotOK
<1>5. ASSUME NEW h \in Handlers, NEW j \in Journals
      PROVE  /\ SlotOK(h, j)'
             /\ Granted(h, j)' => Granted(h, j) /\ Grant(h, j)' = Grant(h, j)
  <2>1. CASE ~Has(h, j)
    BY <1>1, <2>1, CommFrame DEF SlotOK, Granted
  <2>2. CASE Has(h, j) /\ jr[h][j].slot # commIdx
    <3>1. Untouched(h, j)
      BY <1>1, <1>2, <2>2, CommFrame, HasPlace DEF Untouched, Where, Pending
    <3> QED BY <1>3, <3>1, UntouchedKept DEF AppendInv
  <2>3. CASE Has(h, j) /\ jr[h][j].slot = commIdx
    BY <1>1, <1>4, <2>3, CommFrame DEF Granted
  <2> QED BY <2>1, <2>2, <2>3
<1>6. \A s \in Slots : comm'[s].status = comm[s].status
  BY <1>2
<1>7. RequestsWait' /\ ServesRequest'
  BY <1>1, <1>2, <1>6, CommFrame DEF AppendInv, RequestsWait, Waits, ServesRequest, Slot
<1>8. Locked' /\ Exclusive'
  BY <1>2, <1>5, LocksKept, ServiceAssumption DEF AppendInv
<1>9. Chain'
  BY <1>2, <1>3, ChainKept DEF AppendInv
<1> QED BY <1>1, <1>5, <1>7, <1>8, <1>9, CommFrame DEF AppendInv

(* Serving a request: the client that is served gives back its own page and *)
(* is granted one that nobody has; all others keep what they have.          *)
LEMMA CommServeAppend ==
    ASSUME Foreign = {}, EngineInv, ClientInv, OwnerInv, AppendInv, AllAlive,
           CommServe, UNCHANGED clientVars
    PROVE  AppendInv'
<1>1. CommStep
  BY DEF CommStep
<1>2. /\ up /\ commPc = "serve" /\ commPc' = "done" /\ commIdx' = commIdx
      /\ commIdx \in Slots /\ comm[commIdx].status = "REQUESTING"
      /\ mutex = "free"
  BY DEF CommServe, AppendInv, ServesRequest, EngineInv, TypeOK
<1>3. PICK g \in Handlers : Waits(g, commIdx)
  BY <1>2 DEF AppendInv, RequestsWait
<1>4. PICK c \in Journals : c = ctl[g].j
  BY <1>2, <1>3, WaiterHas
<1>5. /\ jr[g][c].slot = commIdx /\ Has(g, c) /\ Where(g, c) = "spin"
      /\ ctl[g].pc = "spin"
  BY <1>2, <1>3, <1>4, WaiterHas DEF Waits
<1>6. PICK m : m = comm[commIdx]
  OBVIOUS
<1>7. PICK p : p = ctl[g].target
  OBVIOUS
<1>8. /\ m \in PageCommMsg /\ m.journal = c /\ m.is_writer = (g \in Writers)
      /\ Msg(g, c) = m /\ m.status = "REQUESTING" /\ Page(g, c) \in 0..MaxPage
  <2>1. SlotSays(g, c)
    BY <1>5 DEF AppendInv, SlotOK
  <2> QED BY <1>2, <1>5, <1>6, <2>1, HasPlace DEF SlotSays, Msg
<1>9. PICK k : k = <<m.journal, m.page_num>>
  OBVIOUS
<1>10. PICK last : last = <<m.journal, m.last_page_num>>
  OBVIOUS
<1>11. k \in Keys /\ last \in Keys
  BY <1>8, <1>9, <1>10 DEF PageCommMsg, Keys
<1>12. /\ \A s \in Slots : /\ comm'[s].journal = comm[s].journal
                           /\ comm'[s].is_writer = comm[s].is_writer
                           /\ comm'[s].page_num = comm[s].page_num
                           /\ s # commIdx => comm'[s].status = comm[s].status
       /\ \A s \in Slots \ {commIdx} : comm'[s] = comm[s]
       /\ comm'[commIdx].status \in {"NON_EXIST", "MORE_THAN_ONE_WRITE", "ALLOCATED"}
       /\ comm'[commIdx].status = "NON_EXIST" => ~m.is_writer
       /\ book.files \subseteq book'.files
  <2>1. \A s \in Slots \ {commIdx} : comm'[s] = comm[s]
    BY DEF CommServe, EngineInv, TypeOK
  <2> QED BY <1>6, <2>1, CommServeFacts
<1>13. /\ \A q \in Keys : ~m.is_writer \/ (q # k /\ ~(Returns(m) /\ q = last))
                            => book'.writers[q] = book.writers[q]
       /\ m.is_writer /\ comm'[commIdx].status = "ALLOCATED" =>
            book.writers[k] = 0 /\ book'.writers[k] = 1
       /\ m.is_writer /\ comm'[commIdx].status # "ALLOCATED" =>
            book'.writers[k] = book.writers[k]
       /\ book'.files \subseteq book.files \cup {k}
       /\ ~m.is_writer => book'.files = book.files
  BY <1>6, <1>9, <1>10, ServeWriters
<1>14. OnlyMore
  BY <1>1, <1>12, CommFrame DEF OnlyMore, UsedUp
(* The client that is served. *)
<1>15. g \in Writers =>
         /\ WriterSlot(g, c) /\ k = <<c, p>> /\ p \in Pages
         /\ Grant(g, c) = Page(g, c)
         /\ Returns(m) => last = <<c, Page(g, c)>> /\ Page(g, c) # NoPage
  <2> SUFFICES ASSUME g \in Writers
               PROVE  /\ WriterSlot(g, c) /\ k = <<c, p>> /\ p \in Pages
                      /\ Grant(g, c) = Page(g, c)
                      /\ Returns(m) => last = <<c, Page(g, c)>> /\ Page(g, c) # NoPage
    OBVIOUS
  <2>1. WriterSlot(g, c)
    BY <1>5 DEF AppendInv, SlotOK
  <2>2. Grant(g, c) = Page(g, c)
    BY <1>5, <1>8 DEF Grant
  <2>3. m.page_num = p
    BY <1>5, <1>7, <1>8, <2>1 DEF WriterSlot, NumberFits
  <2>4. p \in Pages
    BY <1>5, <1>7, <2>1 DEF WriterSlot, TargetFits
  <2>5. Returns(m) => m.last_page_num = Page(g, c) /\ Page(g, c) # NoPage
    BY <1>2, <1>8, <2>1, <2>2 DEF WriterSlot, LastFits, Pending, Returns, NoPage
  <2> QED BY <1>8, <1>9, <1>10, <2>1, <2>2, <2>3, <2>4, <2>5
<1>16. /\ SlotOK(g, c)'
       /\ g \in Writers /\ Granted(g, c)' =>
            comm'[commIdx].status = "ALLOCATED" /\ Grant(g, c)' = p
  <2>1. /\ Where(g, c)' = "spin" /\ Page(g, c)' = Page(g, c)
        /\ ctl' = ctl /\ header' = header
        /\ Msg(g, c)' = comm'[commIdx] /\ jr' = jr
    BY <1>1, <1>5, CommFrame DEF Where, Page, Msg
  <2>2. SlotSays(g, c)'
    BY <1>2, <1>6, <1>8, <1>12, <2>1 DEF SlotSays
  <2>3. ASSUME g \in Writers PROVE WriterSlot(g, c)'
    <3>1. comm'[commIdx].status \in {"MORE_THAN_ONE_WRITE", "ALLOCATED"}
      BY <1>8, <1>12, <2>3
    <3>2. StatusFits(g, c)'
      BY <2>1, <3>1 DEF StatusFits
    <3>3. NumberFits(g, c)'
      BY <1>2, <1>5, <1>6, <1>8, <1>12, <1>15, <2>1, <2>3 DEF WriterSlot, NumberFits
    <3>4. TargetFits(g, c)'
      BY <1>5, <1>12, <1>15, <2>1, <2>3 DEF WriterSlot, TargetFits, UsedUp, Newest
    <3>5. LastFits(g, c)'
      BY <1>2, <1>5, <2>1 DEF LastFits, Pending
    <3> QED BY <1>15, <2>1, <2>3, <3>2, <3>3, <3>4, <3>5 DEF WriterSlot, Newest
  <2>4. g \in Writers /\ Granted(g, c)' =>
          comm'[commIdx].status = "ALLOCATED" /\ Grant(g, c)' = p
    BY <1>7, <1>8, <1>12, <2>1 DEF Granted, Grant
  <2> QED BY <2>2, <2>3, <2>4 DEF SlotOK
(* The others. *)
<1>17. ASSUME NEW h \in Handlers, NEW j \in Journals, ~(h = g /\ j = c)
       PROVE  /\ SlotOK(h, j)'
              /\ Granted(h, j)' => Granted(h, j) /\ Grant(h, j)' = Grant(h, j)
  <2>1. CASE ~Has(h, j)
    BY <1>1, <2>1, CommFrame DEF SlotOK, Granted
  <2>2. CASE Has(h, j)
    <3>1. jr[h][j].slot \in Slots \ {commIdx}
      BY <1>2, <1>5, <1>17, <2>2, HasPlace, HasIsMine DEF AppendInv
    <3>2. Untouched(h, j)
      BY <1>1, <1>2, <1>12, <2>2, <3>1, CommFrame DEF Untouched, Where, Pending
    <3> QED BY <1>14, <3>2, UntouchedKept DEF AppendInv
  <2> QED BY <2>1, <2>2
<1>18. \A h \in Handlers : \A j \in Journals : SlotOK(h, j)'
  <2> SUFFICES ASSUME NEW h \in Handlers, NEW j \in Journals PROVE SlotOK(h, j)'
    OBVIOUS
  <2>1. CASE h = g /\ j = c
    BY <1>16, <2>1
  <2>2. CASE ~(h = g /\ j = c)
    BY <1>17, <2>2
  <2> QED BY <2>1, <2>2
(* The locks. *)
<1>19. ASSUME NEW h \in Writers, NEW j \in Journals, ~(h = g /\ j = c), Granted(h, j)'
       PROVE  /\ book'.writers[<<j, Grant(h, j)'>>] = 1
              /\ ~(g \in Writers /\ Granted(g, c)' /\ j = c /\ Grant(h, j)' = p)
  <2>1. h \in Handlers
    BY ServiceAssumption
  <2>2. Granted(h, j) /\ Grant(h, j)' = Grant(h, j) /\ Grant(h, j) \in Pages
    BY <1>17, <1>19, <2>1, GrantedPage
  <2>3. PICK q : q = <<j, Grant(h, j)>>
    OBVIOUS
  <2>4. q \in Keys /\ book.writers[q] = 1
    BY <2>2, <2>3, EngineAssumption DEF AppendInv, Locked, Keys, PageNums, Pages
  <2>5. g \in Writers /\ Returns(m) => q # last
    BY <1>5, <1>15, <1>19, <2>2, <2>3 DEF AppendInv, Exclusive, Granted
  <2>6. book'.writers[q] = 1
    BY <1>8, <1>13, <2>4, <2>5
  <2>7. ~(g \in Writers /\ Granted(g, c)' /\ j = c /\ Grant(h, j)' = p)
    <3> SUFFICES ASSUME g \in Writers, Granted(g, c)', j = c, Grant(h, j)' = p
                 PROVE  FALSE
      OBVIOUS
    <3>1. q = k
      BY <1>15, <2>2, <2>3
    <3>2. comm'[commIdx].status = "ALLOCATED"
      BY <1>16
    <3>3. book.writers[k] = 0
      BY <1>8, <1>13, <3>2
    <3> QED BY <2>4, <3>1, <3>3
  <2> QED BY <2>2, <2>3, <2>6, <2>7
<1>20. Locked'
  <2> SUFFICES ASSUME NEW h \in Writers, NEW j \in Journals, Granted(h, j)'
               PROVE  book'.writers[<<j, Grant(h, j)'>>] = 1
    BY DEF Locked
  <2>1. CASE h = g /\ j = c
    <3>1. g \in Writers /\ Granted(g, c)' /\ Grant(h, j)' = Grant(g, c)'
      BY <2>1
    <3> QED BY <1>8, <1>13, <1>15, <1>16, <2>1, <3>1
  <2>2. CASE ~(h = g /\ j = c)
    BY <1>19, <2>2
  <2> QED BY <2>1, <2>2
<1>21. Exclusive'
  <2> SUFFICES ASSUME NEW e \in Writers, NEW h \in Writers, NEW j \in Journals,
                      Granted(e, j)', Granted(h, j)', Grant(e, j)' = Grant(h, j)', e # h
               PROVE  FALSE
    BY DEF Exclusive
  <2>1. CASE ~(e = g /\ j = c) /\ ~(h = g /\ j = c)
    <3>1. /\ Granted(e, j) /\ Grant(e, j)' = Grant(e, j)
          /\ Granted(h, j) /\ Grant(h, j)' = Grant(h, j)
      BY <1>17, <2>1, ServiceAssumption
    <3> QED BY <3>1 DEF AppendInv, Exclusive
  <2>2. CASE e = g /\ j = c
    <3>1. g \in Writers /\ Granted(g, c)' /\ Grant(h, j)' = Grant(g, c)'
      BY <2>2
    <3> QED BY <1>16, <1>19, <2>2, <3>1
  <2>3. CASE h = g /\ j = c
    <3>1. g \in Writers /\ Granted(g, c)' /\ Grant(e, j)' = Grant(g, c)'
      BY <2>3
    <3> QED BY <1>16, <1>19, <2>3, <3>1
  <2> QED BY <2>1, <2>2, <2>3
(* The files. *)
<1>22. Chain'
  <2> SUFFICES ASSUME NEW j \in Journals, NEW e \in Pages, NEW f \in Pages,
                      Newest(j, e), e < f, <<j, f>> \in book'.files
               PROVE  UsedUp(<<j, e>>)
    BY <1>14 DEF AppendInv, Chain, OnlyMore, Newest
  <2>1. CASE <<j, f>> \in book.files
    BY <2>1 DEF AppendInv, Chain
  <2>2. CASE <<j, f>> \notin book.files
    <3>1. g \in Writers /\ j = c /\ f = p
      <4>1. <<j, f>> = k /\ m.is_writer
        BY <1>13, <2>2
      <4>2. g \in Writers
        BY <1>8, <4>1
      <4> QED BY <1>15, <4>1, <4>2
    <3>2. TargetFits(g, c)
      BY <1>15, <3>1 DEF WriterSlot
    <3>3. p # 1 /\ <<c, p>> \notin book.files
      BY <2>2, <3>1, EngineAssumption DEF Pages
    <3>4. Page(g, c) # NoPage /\ p = Page(g, c) + 1 /\ UsedUp(<<c, Page(g, c)>>)
      BY <1>5, <1>7, <3>2, <3>3 DEF TargetFits
    <3>5. Page(g, c) \in Pages /\ <<c, Page(g, c)>> \in book.files
      BY <1>5, <1>15, <3>1, <3>4, GrantedPage DEF Granted
    <3>6. CASE e = Page(g, c)
      BY <3>1, <3>4, <3>6
    <3>7. CASE e # Page(g, c)
      <4>1. e < Page(g, c)
        BY <3>1, <3>4, <3>5, <3>7 DEF Pages
      <4> QED BY <3>1, <3>5, <4>1 DEF AppendInv, Chain
    <3> QED BY <3>6, <3>7
  <2> QED BY <2>1, <2>2
<1>23. RequestsWait' /\ ServesRequest'
  <2>1. RequestsWait'
    <3> SUFFICES ASSUME NEW s \in Slots, comm'[s].status = "REQUESTING"
                 PROVE  \E h \in Handlers : Waits(h, s)'
      BY DEF RequestsWait
    <3>1. s # commIdx /\ comm[s].status = "REQUESTING"
      BY <1>12
    <3>2. PICK h \in Handlers : Waits(h, s)
      BY <3>1 DEF AppendInv, RequestsWait
    <3> QED BY <1>1, <3>2, CommFrame DEF Waits, Slot
  <2> QED BY <1>2, <2>1 DEF ServesRequest
<1> QED BY <1>1, <1>18, <1>20, <1>21, <1>22, <1>23, CommFrame DEF AppendInv

-----------------------------------------------------------------------------
(* The socket thread takes the mutex, so nobody is leaving then. *)
LEMMA NobodyLeaves ==
    ASSUME EngineInv, AppendInv, AllAlive, mutex = "free", NEW h \in Handlers
    PROVE  ctl[h].pc # "leaving" /\ (In(h) <=> Member(h)) /\ commPc # "done"
BY DEF AppendInv, Leaves, EngineInv, LockOK, In

(* The registration of a client and the end of its good-bye: h has no slot, *)
(* or none any more.                                                        *)
LEMMA SlotlessAppend ==
    ASSUME EngineInv, ClientInv, OwnerInv, AppendInv, AllAlive, up',
           NEW h \in Handlers, ctl[h].pc # "spin", ctl'[h].pc \notin {"leaving", "regjournal"},
           UNCHANGED <<jr, header, alive, comm, book, commPc, commIdx, exitLeft>>,
           \A g \in Handlers \ {h} : ctl'[g] = ctl[g],
           \A j \in Journals : ~Has(h, j)',
           \A g \in Handlers : Leaves(g)' /\ Lists(g)'
    PROVE  AppendInv'
<1>1. OnlyMore
  BY DEF OnlyMore, UsedUp
<1>2. ASSUME NEW g \in Handlers, NEW j \in Journals
      PROVE  /\ SlotOK(g, j)'
             /\ Granted(g, j)' => Granted(g, j) /\ Grant(g, j)' = Grant(g, j)
  <2>1. CASE g = h
    <3>1. ~Has(g, j)'
      BY <2>1
    <3> QED BY <3>1 DEF SlotOK, Granted
  <2>2. CASE g # h
    <3>1. Untouched(g, j)
      BY <2>2 DEF Untouched, Where, Pending, Has, Member, Running
    <3> QED BY <1>1, <3>1, UntouchedKept DEF AppendInv
  <2> QED BY <2>1, <2>2
<1>3. RequestsWait' /\ ServesRequest'
  <2>1. RequestsWait'
    <3> SUFFICES ASSUME NEW s \in Slots, comm[s].status = "REQUESTING"
                 PROVE  \E g \in Handlers : Waits(g, s)'
      BY DEF RequestsWait
    <3>1. PICK g \in Handlers : Waits(g, s)
      BY DEF AppendInv, RequestsWait
    <3>2. ctl'[g] = ctl[g]
      BY <3>1 DEF Waits
    <3> QED BY <3>1, <3>2 DEF Waits, Slot, Member, Running
  <2> QED BY <2>1 DEF AppendInv, ServesRequest
<1>4. Locked' /\ Exclusive'
  BY <1>2, LocksKept, ServiceAssumption DEF AppendInv
<1>5. Chain'
  BY <1>1, ChainKept DEF AppendInv
<1> QED BY <1>2, <1>3, <1>4, <1>5 DEF AppendInv

LEMMA ServeClientAppend ==
    ASSUME EngineInv, ClientInv, OwnerInv, AppendInv, AllAlive,
           NEW h \in Handlers, ServeClient(h)
    PROVE  AppendInv'
<1>1. /\ mutex = "free" /\ ctl[h].pc = "regclient" /\ up'
      /\ UNCHANGED <<jr, header, alive, comm, book, commPc, commIdx, exiting, exitLeft>>
  BY EngineAssumption DEF ServeClient, reg_client, Reply, AllAlive, commVars, exitVars
<1>2. PICK x \in {"ready", "gone"} : ctl' = [ctl EXCEPT ![h].pc = x]
  BY DEF ServeClient, GoTo
<1>3. ctl'[h].pc = x /\ \A g \in Handlers \ {h} : ctl'[g] = ctl[g]
  BY <1>2 DEF ClientInv, Ctl
<1>4. \A j \in Journals : jr[h][j].slot = NoSlot /\ ~Has(h, j)'
  BY <1>1 DEF OwnerInv, NewHasNone, Has
<1>5. ASSUME NEW n \in Names
      PROVE  user_index_vec'[n] = user_index_vec[n] \/ user_index_vec'[n] = {}
  BY <1>5 DEF ServeClient, reg_client, registry, EngineInv, TypeOK
<1>6. x = "ready" => user_index_vec'[Name[h]] = {}
  <2>1. x = "ready" => clientJournals[Name[h]] = NoClient
    BY <1>3 DEF ServeClient, GoTo, ClientInv, Ctl
  <2>2. Name[h] \in Names
    BY EngineAssumption
  <2> QED BY <2>1, <2>2 DEF ServeClient, reg_client, EngineInv, TypeOK
<1>7. ASSUME NEW g \in Handlers PROVE Leaves(g)' /\ Lists(g)'
  <2>1. Name[g] \in Names
    BY EngineAssumption
  <2>2. Leaves(g)'
    BY <1>1, <1>3, NobodyLeaves DEF Leaves
  <2>3. CASE g = h
    <3>1. Apart(h)'
      BY <1>1, <1>4 DEF Apart
    <3> QED BY <1>3, <1>6, <2>2, <2>3, <3>1 DEF Lists, In, Member
  <2>4. CASE g # h
    <3>1. In(g)' => In(g)
      BY <1>1, <1>3, <2>4 DEF In, Member, Running
    <3> QED BY <1>1, <1>3, <1>5, <2>1, <2>2, <2>4, <3>1 DEF AppendInv, Lists, Apart
  <2> QED BY <2>3, <2>4
<1> QED BY <1>1, <1>3, <1>4, <1>7, SlotlessAppend

LEMMA ServeExitEndAppend ==
    ASSUME EngineInv, ClientInv, OwnerInv, AppendInv, AllAlive, ServeExitEnd
    PROVE  AppendInv'
<1>1. PICK h : h = clientJournals[exiting]
  OBVIOUS
<1>2. /\ exiting # NoClient /\ exitLeft = {} /\ mutex = "socket"
      /\ user_index_vec' = [user_index_vec EXCEPT ![exiting] = {}]
      /\ UNCHANGED <<jr, header, alive, comm, book, commPc, commIdx, exitLeft>>
      /\ ctl' = [ctl EXCEPT ![h].pc = "gone"]
  BY <1>1 DEF ServeExitEnd, SocketExitEnd, ExitFinish, commVars, GoTo
<1>3. h \in Handlers /\ ctl[h].pc = "leaving"
  BY <1>1, <1>2 DEF OwnerInv, ExitIsDue, AppendInv, EngineInv, LockOK, TypeOK
<1>4. up'
  BY <1>1, <1>3, EngineAssumption DEF ServeExitEnd, SocketExitEnd, Reply, AllAlive
<1>5. ctl'[h].pc = "gone" /\ \A g \in Handlers \ {h} : ctl'[g] = ctl[g]
  BY <1>2, <1>3 DEF ClientInv, Ctl
<1>6. ASSUME NEW g \in Handlers PROVE Leaves(g)' /\ Lists(g)'
  <2>1. CASE g = h
    BY <1>5, <2>1 DEF Leaves, Lists, In, Member
  <2>2. CASE g # h
    <3>1. ctl[g].pc # "leaving"
      BY <1>1, <2>2 DEF AppendInv, Leaves
    <3>2. In(g)' => In(g)
      BY <1>2, <1>5, <2>2 DEF In, Member, Running
    <3>3. user_index_vec'[Name[g]] \subseteq user_index_vec[Name[g]]
      BY <1>2, EngineAssumption DEF EngineInv, TypeOK
    <3> QED BY <1>2, <1>5, <2>2, <3>1, <3>2, <3>3 DEF AppendInv, Leaves, Lists, Apart
  <2> QED BY <2>1, <2>2
<1>7. \A j \in Journals : ~Has(h, j)'
  BY <1>5 DEF Has, Member
<1> QED BY <1>2, <1>3, <1>4, <1>5, <1>6, <1>7, SlotlessAppend

LEMMA ServeExitAppend ==
    ASSUME EngineInv, ClientInv, OwnerInv, AppendInv, AllAlive,
           NEW h \in Handlers, ServeExit(h)
    PROVE  AppendInv'
<1>1. /\ mutex = "free" /\ ctl[h].pc = "bye" /\ up
      /\ UNCHANGED <<jr, header, alive, comm, book, commPc, commIdx>>
      /\ UNCHANGED <<clientJournals, user_index_vec>>
  BY DEF ServeExit, exit_client, commVars, registry
<1>2. \A g \in Handlers : Running(g) /\ Running(g)'
  BY <1>1, EngineAssumption DEF AllAlive, Running
<1>3. Member(h) /\ clientJournals[Name[h]] = h
  BY <1>1, <1>2 DEF Member, OwnerInv, Registered
<1>4. /\ exiting' = Name[h] /\ exitLeft' = user_index_vec[Name[h]] /\ up'
      /\ ctl' = [ctl EXCEPT ![h].pc = "leaving"]
  BY <1>1, <1>3 DEF ServeExit, exit_client, ExitStart, GoTo
<1>5. /\ ctl'[h].pc = "leaving" /\ ctl'[h].j = ctl[h].j
      /\ \A g \in Handlers \ {h} : ctl'[g] = ctl[g]
  BY <1>4 DEF ClientInv, Ctl
<1>6. ASSUME NEW g \in Handlers PROVE Leaves(g)' /\ Lists(g)'
  <2>1. CASE g = h
    BY <1>1, <1>3, <1>4, <1>5, <2>1, EngineAssumption
       DEF AppendInv, Leaves, Lists, In, Apart
  <2>2. CASE g # h
    <3>1. ctl[g].pc # "leaving" /\ (In(g)' => In(g))
      BY <1>1, <1>5, <2>2, NobodyLeaves DEF In, Member, Running
    <3> QED BY <1>1, <1>5, <2>2, <3>1 DEF AppendInv, Leaves, Lists, Apart
  <2> QED BY <2>1, <2>2
<1>7. OnlyMore
  BY <1>1 DEF OnlyMore, UsedUp
<1>8. ASSUME NEW g \in Handlers, NEW j \in Journals
      PROVE  /\ SlotOK(g, j)'
             /\ Granted(g, j)' => Granted(g, j) /\ Grant(g, j)' = Grant(g, j)
  <2>1. CASE g # h \/ ctl[h].j # j
    <3>1. Has(g, j)' => Has(g, j)
      <4>1. CASE g = h
        BY <1>1, <1>3, <4>1 DEF Has
      <4>2. CASE g # h
        BY <1>1, <1>2, <1>5, <4>2, NobodyLeaves DEF Has, Member
      <4> QED BY <4>1, <4>2
    <3>2. Where(g, j)' = Where(g, j) /\ (Where(g, j) # "ready" => ctl'[g] = ctl[g])
      BY <1>5, <2>1 DEF Where
    <3>3. Untouched(g, j)
      BY <1>1, <3>1, <3>2 DEF Untouched, Pending
    <3> QED BY <1>7, <3>3, UntouchedKept DEF AppendInv
  <2>2. CASE g = h /\ ctl[h].j = j
    <3>1. /\ Where(h, j) = "bye" /\ Where(h, j)' = "leaving"
          /\ Has(h, j)' => Has(h, j)
          /\ Msg(h, j)' = Msg(h, j) /\ Page(h, j)' = Page(h, j)
          /\ jr'[h][j] = jr[h][j]
      BY <1>1, <1>3, <1>5, <2>2 DEF Where, Has, Msg, Page
    <3>2. Grant(h, j)' = Grant(h, j)
      BY <3>1 DEF Grant
    <3>3. ASSUME Has(h, j) PROVE SlotSays(h, j)'
      BY <3>1, <3>3 DEF AppendInv, SlotOK, SlotSays
    <3>4. ASSUME Has(h, j), h \in Writers PROVE WriterSlot(h, j)'
      <4>1. WriterSlot(h, j)
        BY <3>4 DEF AppendInv, SlotOK
      <4>2. StatusFits(h, j)'
        BY <3>1, <4>1 DEF WriterSlot, StatusFits
      <4>3. NumberFits(h, j)' /\ TargetFits(h, j)'
        BY <3>1, <4>1 DEF WriterSlot, NumberFits, TargetFits
      <4>4. LastFits(h, j)'
        BY <1>1, <3>1, <3>2, <4>1 DEF WriterSlot, LastFits, Pending
      <4> QED BY <3>1, <4>1, <4>2, <4>3, <4>4 DEF WriterSlot, Newest
    <3>5. SlotOK(h, j)'
      BY <3>1, <3>3, <3>4 DEF SlotOK
    <3>6. Granted(h, j)' => Granted(h, j)
      BY <3>1, <3>2 DEF Granted
    <3> QED BY <2>2, <3>2, <3>5, <3>6
  <2> QED BY <2>1, <2>2
<1>9. RequestsWait' /\ ServesRequest'
  <2>1. RequestsWait'
    <3> SUFFICES ASSUME NEW s \in Slots, comm[s].status = "REQUESTING"
                 PROVE  \E g \in Handlers : Waits(g, s)'
      BY <1>1 DEF RequestsWait
    <3>1. PICK g \in Handlers : Waits(g, s)
      BY DEF AppendInv, RequestsWait
    <3>2. ctl'[g] = ctl[g]
      BY <1>1, <1>5, <3>1 DEF Waits
    <3> QED BY <1>1, <3>1, <3>2 DEF Waits, Slot, Member, Running
  <2> QED BY <1>1, <2>1 DEF AppendInv, ServesRequest
<1>10. Locked' /\ Exclusive'
  BY <1>1, <1>8, LocksKept, ServiceAssumption DEF AppendInv
<1>11. Chain'
  BY <1>1, <1>7, ChainKept DEF AppendInv
<1> QED BY <1>4, <1>6, <1>8, <1>9, <1>10, <1>11 DEF AppendInv

(* The slot that is given out belongs to nobody, and says nothing yet. *)
LEMMA ServeJournalAppend ==
    ASSUME EngineInv, ClientInv, OwnerInv, AppendInv, AllAlive,
           NEW h \in Handlers, ServeJournal(h)
    PROVE  AppendInv'
<1>1. /\ mutex = "free" /\ ctl[h].pc = "regjournal" /\ up /\ up'
      /\ UNCHANGED <<header, alive, book, commPc, commIdx, exiting, exitLeft, clientJournals>>
  BY EngineAssumption DEF ServeJournal, reg_journal, Reply, AllAlive, commVars, exitVars
<1>2. PICK c \in Journals : c = ctl[h].j
  BY <1>1, Place DEF WithJournal
<1>3. /\ \A g \in Handlers : Running(g) /\ Running(g)'
      /\ Member(h) /\ clientJournals[Name[h]] = h /\ Registered(h)
      /\ clientJournals[Name[h]] # NoClient
  BY <1>1, EngineAssumption DEF AllAlive, Running, Member, OwnerInv, Registered
<1>4. /\ jr[h][c].slot = NoSlot /\ jr[h][c].page = NoPage
      /\ \A g \in Handlers : \A j \in Journals : jr[g][j].slot # NoSlot =>
           jr[g][j].slot \in Slots
  <2>1. jr[h][c].slot = NoSlot
    BY <1>1, <1>2 DEF AppendInv, Lists
  <2>2. NoSlot \notin Slots
    BY DEF NoSlot, Slots
  <2> QED BY <2>1, <2>2, Place DEF ClientInv, HandlerOK
<1>5. PICK x \in {"check", "bye"} : ctl' = [ctl EXCEPT ![h].pc = x]
  BY DEF ServeJournal, GoTo
<1>6. /\ ctl'[h].pc = x /\ ctl'[h].j = c
      /\ \A g \in Handlers \ {h} : ctl'[g] = ctl[g] /\ jr'[g] = jr[g]
      /\ \A j \in Journals \ {c} : jr'[h][j] = jr[h][j]
  BY <1>2, <1>5 DEF ServeJournal, ClientInv, Ctl
<1>7. \A g \in Handlers : Member(g)' = Member(g) /\ (In(g)' <=> In(g))
  BY <1>1, <1>3, <1>5, <1>6, NobodyLeaves DEF Member, In
<1>8. OnlyMore
  BY <1>1 DEF OnlyMore, UsedUp
(* Two outcomes. *)
<1>9. \/ x = "bye" /\ UNCHANGED <<comm, jr, user_index_vec>>
      \/ \E s \in Slots :
           /\ x = "check" /\ comm[s].status = "RAW"
           /\ comm' = [comm EXCEPT ![s].status = "OCCUPIED", ![s].last_page_num = 0]
           /\ user_index_vec' = [user_index_vec EXCEPT ![Name[h]] = @ \cup {s}]
           /\ jr' = [jr EXCEPT ![h][c].slot = s]
  <2>1. CASE RawSlots = {}
    <3>1. GoTo(h, "bye") /\ UNCHANGED <<comm, jr, user_index_vec>>
      BY <2>1 DEF ServeJournal, reg_journal, FirstRaw
    <3> QED BY <1>6, <3>1 DEF GoTo, ClientInv, Ctl
  <2>2. CASE RawSlots # {}
    <3>1. PICK s \in Slots :
            /\ FirstRaw(s)
            /\ comm' = [comm EXCEPT ![s].status = "OCCUPIED", ![s].last_page_num = 0]
            /\ user_index_vec' = [user_index_vec EXCEPT ![Name[h]] = @ \cup {s}]
      BY <1>3, <2>2 DEF ServeJournal, reg_journal
    <3> DEFINE new == CHOOSE t \in Slots : FirstRaw(t)
    <3>2. jr' = [jr EXCEPT ![h][c].slot = new] /\ GoTo(h, "check")
      BY <1>2, <1>3, <2>2 DEF ServeJournal
    <3>3. new \in Slots /\ FirstRaw(new)
      BY <3>1
    <3> HIDE DEF new
    <3>4. new <= s /\ s <= new
      BY <3>1, <3>3 DEF FirstRaw
    <3>5. new = s
      BY <3>3, <3>4 DEF Slots
    <3>6. x = "check"
      BY <1>6, <3>2 DEF GoTo, ClientInv, Ctl
    <3> QED BY <3>1, <3>2, <3>5, <3>6 DEF FirstRaw, RawSlots
  <2> QED BY <2>1, <2>2
<1>10. ASSUME NEW g \in Handlers, NEW j \in Journals, Has(g, j)
       PROVE  comm'[jr[g][j].slot] = comm[jr[g][j].slot] /\ ~(g = h /\ j = c)
  <2>1. Member(g) /\ jr[g][j].slot # NoSlot
    BY <1>1, <1>10, NobodyLeaves DEF Has
  <2>2. comm[jr[g][j].slot].status # "RAW" /\ jr[g][j].slot \in Slots
    BY <1>1, <2>1, SlotIsMine
  <2>3. comm'[jr[g][j].slot] = comm[jr[g][j].slot]
    BY <1>9, <2>2 DEF EngineInv, TypeOK
  <2> QED BY <1>4, <2>1, <2>3
<1>11. ASSUME NEW g \in Handlers, NEW j \in Journals, ~(g = h /\ j = c)
       PROVE  /\ SlotOK(g, j)'
              /\ Granted(g, j)' => Granted(g, j) /\ Grant(g, j)' = Grant(g, j)
  <2>1. jr'[g][j] = jr[g][j]
    BY <1>6, <1>11
  <2>2. Has(g, j)' <=> Has(g, j)
    BY <1>1, <1>6, <1>7, <2>1, NobodyLeaves DEF Has
  <2>3. CASE ~Has(g, j)
    BY <2>2, <2>3 DEF SlotOK, Granted
  <2>4. CASE Has(g, j)
    <3>1. Where(g, j)' = Where(g, j) /\ (Where(g, j) # "ready" => ctl'[g] = ctl[g])
      BY <1>2, <1>6, <1>11 DEF Where
    <3>2. Untouched(g, j)
      BY <1>1, <1>10, <2>1, <2>2, <2>4, <3>1 DEF Untouched, Pending
    <3> QED BY <1>8, <3>2, UntouchedKept DEF AppendInv
  <2> QED BY <2>3, <2>4
<1>12. SlotOK(h, c)' /\ ~Granted(h, c)'
  <2>1. CASE x = "bye"
    <3>1. ~Has(h, c)'
      BY <1>4, <1>9, <2>1 DEF Has
    <3> QED BY <3>1 DEF SlotOK, Granted
  <2>2. CASE x = "check"
    <3>1. PICK s \in Slots :
            /\ comm' = [comm EXCEPT ![s].status = "OCCUPIED", ![s].last_page_num = 0]
            /\ jr' = [jr EXCEPT ![h][c].slot = s]
      BY <1>9, <2>2
    <3>2. /\ jr'[h][c].slot = s /\ jr'[h][c].page = NoPage
          /\ comm'[s].status = "OCCUPIED" /\ comm'[s].last_page_num = 0
      BY <1>4, <3>1 DEF ClientInv, JournalState, EngineInv, TypeOK, PageCommMsg
    <3>3. /\ Msg(h, c)' = comm'[s] /\ Page(h, c)' = NoPage /\ Where(h, c)' = "check"
      BY <1>6, <2>2, <3>2 DEF Msg, Page, Where
    <3>4. ~Pending(jr[h][c].slot)'
      BY <1>1, NobodyLeaves DEF Pending
    <3>5. SlotSays(h, c)' /\ WriterSlot(h, c)'
      BY <3>2, <3>3, <3>4 DEF SlotSays, WriterSlot, StatusFits, Unserved, NumberFits,
                              TargetFits, LastFits
    <3>6. Grant(h, c)' = NoPage
      BY <3>2, <3>3 DEF Grant
    <3> QED BY <3>5, <3>6 DEF SlotOK, Granted
  <2> QED BY <2>1, <2>2
<1>13. ASSUME NEW g \in Handlers PROVE Leaves(g)' /\ Lists(g)'
  <2>1. Leaves(g)'
    BY <1>1, <1>5, <1>6, NobodyLeaves DEF Leaves
  <2>2. CASE g # h
    <3>1. In(g) => Name[g] # Name[h]
      BY <1>1, <1>3, <2>2, NobodyLeaves DEF OwnerInv, Registered
    <3>2. In(g) => user_index_vec'[Name[g]] = user_index_vec[Name[g]]
      BY <1>9, <3>1, EngineAssumption DEF EngineInv, TypeOK
    <3> QED BY <1>6, <1>7, <2>1, <2>2, <3>2 DEF AppendInv, Lists, Apart
  <2>3. CASE g = h /\ x = "bye"
    BY <1>3, <1>6, <1>7, <1>9, <2>1, <2>3 DEF AppendInv, Lists, Apart, In
  <2>4. CASE g = h /\ x = "check"
    <3>1. PICK s \in Slots :
            /\ comm[s].status = "RAW"
            /\ user_index_vec' = [user_index_vec EXCEPT ![Name[h]] = @ \cup {s}]
            /\ jr' = [jr EXCEPT ![h][c].slot = s]
      BY <1>9, <2>4
    <3>2. jr'[h][c].slot = s
      BY <3>1 DEF ClientInv, JournalState
    <3>3. user_index_vec'[Name[h]] = user_index_vec[Name[h]] \cup {s}
      BY <3>1, EngineAssumption DEF EngineInv, TypeOK
    <3>4. \A t \in user_index_vec[Name[h]] : \E j \in Journals : jr[h][j].slot = t
      BY <1>3 DEF AppendInv, Lists, In
    <3>5. \A t \in user_index_vec'[Name[h]] : \E j \in Journals : jr'[h][j].slot = t
      <4> SUFFICES ASSUME NEW t \in user_index_vec[Name[h]]
                   PROVE  \E j \in Journals : jr'[h][j].slot = t
        BY <3>2, <3>3
      <4>1. PICK j \in Journals : jr[h][j].slot = t
        BY <3>4
      <4>2. t \in Slots
        BY EngineAssumption DEF EngineInv, TypeOK
      <4>3. NoSlot \notin Slots
        BY DEF NoSlot, Slots
      <4>4. j # c
        BY <1>4, <4>1, <4>2, <4>3
      <4> QED BY <1>6, <4>1, <4>4
    <3>6. \A j \in Journals \ {c} : jr[h][j].slot # s
      <4>1. NoSlot \notin Slots
        BY DEF NoSlot, Slots
      <4> QED BY <1>1, <1>3, <3>1, <4>1, SlotIsMine
    <3>7. Apart(h)
      BY <1>3 DEF AppendInv, Lists, In
    <3>8. Apart(h)'
      BY <1>6, <3>2, <3>6, <3>7 DEF Apart
    <3> QED BY <1>6, <2>1, <2>4, <3>5, <3>8 DEF Lists
  <2> QED BY <2>1, <2>2, <2>3, <2>4
<1>14. \A s \in Slots : comm[s].status = "REQUESTING" =>
                          comm'[s].status = "REQUESTING"
  BY <1>9 DEF EngineInv, TypeOK, PageCommMsg
<1>15. \A s \in Slots : comm'[s].status = "REQUESTING" =>
                          comm[s].status = "REQUESTING"
  <2>1. CASE UNCHANGED comm
    BY <2>1
  <2>2. ASSUME NEW t \in Slots,
               comm' = [comm EXCEPT ![t].status = "OCCUPIED", ![t].last_page_num = 0]
        PROVE  /\ comm'[t].status = "OCCUPIED"
               /\ \A s \in Slots \ {t} : comm'[s] = comm[s]
    BY <2>2 DEF EngineInv, TypeOK, PageCommMsg
  <2> QED BY <1>9, <2>1, <2>2
<1>16. RequestsWait' /\ ServesRequest'
  <2>1. RequestsWait'
    <3> SUFFICES ASSUME NEW s \in Slots, comm[s].status = "REQUESTING"
                 PROVE  \E g \in Handlers : Waits(g, s)'
      BY <1>15 DEF RequestsWait
    <3>1. PICK g \in Handlers : Waits(g, s)
      BY DEF AppendInv, RequestsWait
    <3>2. ctl'[g] = ctl[g] /\ jr'[g] = jr[g]
      BY <1>1, <1>6, <3>1 DEF Waits
    <3> QED BY <1>7, <3>1, <3>2 DEF Waits, Slot
  <2> QED BY <1>1, <1>14, <2>1 DEF AppendInv, ServesRequest, EngineInv, TypeOK
<1>17. ASSUME NEW g \in Handlers, NEW j \in Journals
       PROVE  /\ SlotOK(g, j)'
              /\ Granted(g, j)' => Granted(g, j) /\ Grant(g, j)' = Grant(g, j)
  <2>1. CASE g = h /\ j = c
    BY <1>12, <2>1
  <2>2. CASE ~(g = h /\ j = c)
    BY <1>11, <2>2
  <2> QED BY <2>1, <2>2
<1>18. Locked' /\ Exclusive'
  BY <1>1, <1>17, LocksKept, ServiceAssumption DEF AppendInv
<1>19. Chain'
  BY <1>1, <1>8, ChainKept DEF AppendInv
<1> QED BY <1>1, <1>13, <1>16, <1>17, <1>18, <1>19 DEF AppendInv

-----------------------------------------------------------------------------
(* The clients.  A page that is used up stays so. *)
LEMMA ClientOnlyMore ==
    ASSUME EngineInv, ClientInv, NEW h \in Handlers, Call(h) \/ InCall(h)
    PROVE  OnlyMore /\ book' = book
<1>1. book' = book
  BY StoresOwn
<1>2. ASSUME NEW k \in Journals \X Pages, UsedUp(k) PROVE UsedUp(k)'
  <2>0. header \in [Journals \X Pages -> {"raw", "open", "full", "closed"}]
    BY DEF ClientInv, HeaderOK
  <2>1. CASE UNCHANGED header
    BY <1>2, <2>1 DEF UsedUp
  <2>2. CASE write_frame(h)
    BY <1>2, <2>0, <2>2 DEF write_frame, CanAppend, UsedUp
  <2>3. CASE finishPage(h)
    BY <1>2, <2>0, <2>3 DEF finishPage, At, UsedUp
  <2>4. CASE InitHeader(h)
    BY <1>2, <2>0, <2>4 DEF InitHeader, UsedUp
  <2>5. UNCHANGED header \/ write_frame(h) \/ finishPage(h) \/ InitHeader(h)
    BY DEF Call, register_client, exit, write_null, clientVars, WriterTurn,
           addJournal, seekTime, expire, ReaderLocate, InCall, CheckSlot, FillSlot, HoldSlot,
           GetPageNums, PostPageNum, PostRequest, GetPageThrows, SeekReturns,
           ExpireReturns, ReaderNextReturns, WriterNextReturns, LocateEnd
  <2> QED BY <2>1, <2>2, <2>3, <2>4, <2>5
<1> QED BY <1>1, <1>2 DEF OnlyMore

(* What is left of the invariant when a handler takes a step is what its    *)
(* slot for the journal says that the step is about (c, which is no journal *)
(* before the first addJournal).                                            *)
LEMMA ClientAppend ==
    ASSUME EngineInv, ClientInv, OwnerInv, AppendInv, AllAlive, AllAlive',
           NEW h \in Handlers, Call(h) \/ InCall(h),
           NEW c, ctl'[h].j = c, ctl[h].j = c \/ ctl[h].pc = "ready",
           \A j \in Journals \ {c} : jr'[h][j] = jr[h][j],
           ctl'[h].pc # "leaving",
           ctl'[h].pc = "regjournal" => jr'[h][c].slot = NoSlot,
           \A s \in Slots : comm'[s] = comm[s] \/ (c \in Journals /\ jr[h][c].slot = s),
           ctl[h].pc = "spin" => Msg(h, c).status # "REQUESTING",
           ctl'[h].pc # "spin" => Msg(h, c)'.status # "REQUESTING" \/ comm' = comm,
           c \in Journals /\ Has(h, c) =>
             /\ SlotSays(h, c)'
             /\ h \in Writers => WriterSlot(h, c)' /\ Grant(h, c)' = Grant(h, c)
    PROVE  AppendInv'
<1>1. /\ UNCHANGED <<clientJournals, user_index_vec, exiting, exitLeft>>
      /\ UNCHANGED <<commPc, commIdx, book, up>> /\ up
  <2>1. EngineSees(h)
    BY InCallKeeps, CallKeeps DEF EngineSees
  <2> QED BY <2>1 DEF EngineSees, engineVars, ClientStore, StoreJournal, StorePageNum,
                      StoreStatus, Kill, othersUnchanged, registry, exitVars, commVars, AppendInv
<1>2. /\ \A g \in Handlers \ {h} : ctl'[g] = ctl[g] /\ jr'[g] = jr[g]
      /\ \A j \in Journals : jr'[h][j].slot = jr[h][j].slot
      /\ ctl[h].pc # "leaving" /\ (Member(h)' => Member(h))
  BY CallIsCalm, EngineAssumption DEF OthersCalm, HandlerCalm, Outside, Member, Running, AllAlive
<1>3. \A g \in Handlers : Running(g) /\ Running(g)'
  BY EngineAssumption DEF AllAlive, Running
<1>4. OnlyMore
  BY ClientOnlyMore
<1>5. \A g \in Handlers : (Member(g)' => Member(g)) /\ (In(g)' => In(g))
  BY <1>2, <1>3 DEF Member, In
<1>6. ASSUME NEW g \in Handlers, NEW j \in Journals, Has(g, j)' PROVE Has(g, j)
  <2>1. jr'[g][j].slot = jr[g][j].slot
    BY <1>2
  <2>2. ctl'[g].pc = "leaving" => ctl[g].pc = "leaving"
    BY <1>2
  <2> QED BY <1>1, <1>5, <1>6, <2>1, <2>2 DEF Has
<1>7. ASSUME NEW g \in Handlers, NEW j \in Journals, Has(g, j), Has(h, c),
             c \in Journals, jr[g][j].slot = jr[h][c].slot
      PROVE  g = h /\ j = c
  BY <1>1, <1>7, HasIsMine DEF AppendInv
<1>8. ASSUME NEW g \in Handlers, NEW j \in Journals, Has(g, j)', ~(g = h /\ j = c)
      PROVE  Untouched(g, j)
  <2>1. Has(g, j) /\ jr[g][j].slot \in Slots
    BY <1>6, <1>8, HasPlace
  <2>2. jr'[g][j] = jr[g][j]
    BY <1>2, <1>8
  <2>3. comm'[jr[g][j].slot] = comm[jr[g][j].slot]
    <3> SUFFICES ASSUME comm'[jr[g][j].slot] # comm[jr[g][j].slot] PROVE FALSE
      OBVIOUS
    <3>1. c \in Journals /\ jr[h][c].slot = jr[g][j].slot
      BY <2>1
    <3>2. Member(h)
      BY StoresOwn DEF Working
    <3>3. Has(h, c)
      BY <2>1, <3>1, <3>2 DEF Has
    <3> QED BY <1>7, <1>8, <2>1, <3>1, <3>3
  <2>4. Where(g, j)' = Where(g, j) /\ (Where(g, j) # "ready" => ctl'[g] = ctl[g])
    <3>1. CASE g = h
      <4>1. j # c
        BY <1>8, <3>1
      <4> QED BY <3>1, <4>1 DEF Where
    <3>2. CASE g # h
      <4>1. ctl'[g] = ctl[g]
        BY <1>2, <3>2
      <4> QED BY <4>1 DEF Where
    <3> QED BY <3>1, <3>2
  <2> QED BY <1>1, <2>1, <2>2, <2>3, <2>4 DEF Untouched, Pending
<1>9. ASSUME NEW g \in Handlers, NEW j \in Journals
      PROVE  /\ SlotOK(g, j)'
             /\ g \in Writers /\ Granted(g, j)' =>
                  Granted(g, j) /\ Grant(g, j)' = Grant(g, j)
  <2>1. CASE ~Has(g, j)'
    BY <2>1 DEF SlotOK, Granted
  <2>2. CASE Has(g, j)' /\ ~(g = h /\ j = c)
    BY <1>4, <1>8, <2>2, UntouchedKept DEF AppendInv
  <2>3. CASE Has(g, j)' /\ g = h /\ j = c
    <3>1. c \in Journals /\ Has(h, c)
      BY <1>6, <2>3
    <3>2. SlotSays(h, c)' /\ (h \in Writers => WriterSlot(h, c)' /\ Grant(h, c)' = Grant(h, c))
      BY <3>1
    <3>3. SlotOK(h, c)'
      BY <3>2 DEF SlotOK
    <3>4. h \in Writers /\ Granted(h, c)' => Granted(h, c) /\ Grant(h, c)' = Grant(h, c)
      BY <3>1, <3>2 DEF Granted
    <3> QED BY <2>3, <3>3, <3>4
  <2> QED BY <2>1, <2>2, <2>3
<1>10. ASSUME NEW g \in Handlers PROVE Leaves(g)' /\ Lists(g)'
  <2>1. Leaves(g)'
    BY <1>1, <1>2 DEF AppendInv, Leaves
  <2>2. ctl'[g].pc = "regjournal" => jr'[g][ctl'[g].j].slot = NoSlot
    BY <1>2 DEF AppendInv, Lists
  <2>3. jr'[g] = jr[g] \/ g = h
    BY <1>2
  <2>4. \A j \in Journals : jr'[g][j].slot = jr[g][j].slot
    BY <1>2, <2>3
  <2>5. In(g)' => /\ \A s \in user_index_vec'[Name[g]] :
                       \E j \in Journals : jr'[g][j].slot = s
                  /\ Apart(g)'
    BY <1>1, <1>5, <2>4 DEF AppendInv, Lists, Apart
  <2> QED BY <2>1, <2>2, <2>5 DEF Lists
<1>11. ASSUME NEW g \in Handlers, NEW s \in Slots, Waits(g, s), comm[s].status = "REQUESTING"
       PROVE  g # h
  BY <1>11 DEF Waits, Slot, Msg
<1>12. RequestsWait'
  <2> SUFFICES ASSUME NEW s \in Slots, comm'[s].status = "REQUESTING"
               PROVE  \E g \in Handlers : Waits(g, s)'
    BY DEF RequestsWait
  <2>1. CASE comm'[s] = comm[s]
    <3>1. PICK g \in Handlers : Waits(g, s)
      BY <2>1 DEF AppendInv, RequestsWait
    <3>2. g # h
      BY <1>11, <2>1, <3>1
    <3>3. ctl'[g] = ctl[g] /\ jr'[g] = jr[g]
      BY <1>2, <3>2
    <3> QED BY <1>3, <3>1, <3>3 DEF Waits, Slot, Member
  <2>2. CASE comm'[s] # comm[s]
    <3>1. c \in Journals /\ jr[h][c].slot = s /\ jr'[h][c].slot = s
      BY <1>2, <2>2
    <3>2. ctl'[h].pc = "spin"
      BY <2>2, <3>1 DEF Msg
    <3> QED BY <1>3, <3>1, <3>2 DEF Waits, Slot, Member
  <2> QED BY <2>1, <2>2
<1>13. ServesRequest'
  <2> SUFFICES ASSUME commPc = "serve", comm'[commIdx] # comm[commIdx] PROVE FALSE
    BY <1>1 DEF AppendInv, ServesRequest
  <2>1. commIdx \in Slots /\ comm[commIdx].status = "REQUESTING"
    BY DEF AppendInv, ServesRequest, EngineInv, TypeOK
  <2>2. PICK g \in Handlers : Waits(g, commIdx)
    BY <2>1 DEF AppendInv, RequestsWait
  <2>3. g # h
    BY <1>11, <2>1, <2>2
  <2>4. c \in Journals /\ jr[h][c].slot = commIdx
    BY <2>1
  <2>5. Member(h) /\ Member(g) /\ commIdx # NoSlot
    BY <2>1, <2>2, StoresOwn DEF Working, Waits, NoSlot, Slots
  <2>6. ctl[g].j \in Journals /\ jr[g][ctl[g].j].slot = commIdx
    BY <2>1, <2>2, WaiterHas
  <2> QED BY <1>1, <2>3, <2>4, <2>5, <2>6, SlotIsMine
<1>14. Locked' /\ Exclusive'
  BY <1>1, <1>9, LocksKept, ServiceAssumption DEF AppendInv
<1>15. Chain'
  BY <1>1, <1>4, ChainKept DEF AppendInv
<1> QED BY <1>1, <1>9, <1>10, <1>12, <1>13, <1>14, <1>15 DEF AppendInv

-----------------------------------------------------------------------------
(* A writer's slot during a step of the writer itself.  First the steps     *)
(* that only move on (exit, seekTime, CheckSlot, GetPageThrows, and the end *)
(* of locateFrame), or name the page to ask for.                            *)
OwnSame(h, c) ==
    /\ UNCHANGED <<commPc, commIdx>> /\ OnlyMore
    /\ jr'[h][c].slot = jr[h][c].slot

LEMMA TargetKept ==
    ASSUME ClientInv, NEW h \in Writers, NEW c \in Journals, TargetFits(h, c), OnlyMore,
           Where(h, c) \in {"post", "send", "spin", "finish"}, Page(h, c)' = Page(h, c),
           ctl'[h].target = ctl[h].target, ctl'[h].op = ctl[h].op
    PROVE  TargetFits(h, c)'
<1>1. Page(h, c) # NoPage => <<c, Page(h, c)>> \in Journals \X Pages
  BY Place, ServiceAssumption DEF Page
<1>2. /\ ctl[h].target \in Pages /\ Newest(c, ctl[h].target)
      /\ \/ /\ ctl[h].op = "seek"
            /\ ctl[h].target = 1 \/ <<c, ctl[h].target>> \in book.files
         \/ /\ ctl[h].op = "next" /\ Page(h, c) # NoPage
            /\ ctl[h].target = Page(h, c) + 1 /\ UsedUp(<<c, Page(h, c)>>)
  BY DEF TargetFits
<1>3. UsedUp(<<c, Page(h, c)>>) /\ Page(h, c) # NoPage => UsedUp(<<c, Page(h, c)>>)'
  BY <1>1 DEF OnlyMore, UsedUp
<1> QED BY <1>2, <1>3 DEF TargetFits, Newest, OnlyMore

LEMMA WriterMoves ==
    ASSUME ClientInv, NEW h \in Writers, NEW c \in Journals, WriterSlot(h, c),
           OwnSame(h, c), Msg(h, c)' = Msg(h, c), Page(h, c)' = Page(h, c),
           NEW a, a = Where(h, c), NEW b, b = Where(h, c)',
           \/ <<a, b>> \in {<<"ready", "bye">>, <<"ready", "scan">>, <<"locate", "ready">>}
           \/ <<a, b>> = <<"check", "fill">> /\ Msg(h, c).status = "OCCUPIED"
           \/ <<a, b>> = <<"spin", "bye">> /\ Msg(h, c).status = "MORE_THAN_ONE_WRITE"
    PROVE  WriterSlot(h, c)' /\ Grant(h, c)' = Grant(h, c)
<1>1. a \in {"ready", "locate", "check", "spin"} /\ b \in {"bye", "scan", "ready", "fill"}
  OBVIOUS
<1>2. Grant(h, c)' = Grant(h, c)
  BY <1>1 DEF Grant
<1>3. Unserved(h, c)' <=> Unserved(h, c)
  BY DEF Unserved, Pending, OwnSame
<1>4. StatusFits(h, c)'
  BY <1>1, <1>3 DEF WriterSlot, StatusFits
<1>5. NumberFits(h, c)' /\ TargetFits(h, c)'
  BY <1>1 DEF WriterSlot, StatusFits, NumberFits, TargetFits
<1>6. LastFits(h, c)'
  BY <1>2 DEF WriterSlot, LastFits, Pending, OwnSame
<1> QED BY <1>2, <1>4, <1>5, <1>6 DEF WriterSlot, Newest

LEMMA WriterAsks ==
    ASSUME ClientInv, NEW h \in Writers, NEW c \in Journals, WriterSlot(h, c),
           OwnSame(h, c), Msg(h, c)' = Msg(h, c), Page(h, c)' = Page(h, c),
           Where(h, c) \in {"ready", "locate", "scan"}, Where(h, c)' = "post",
           ctl'[h].target \in Pages, Newest(c, ctl'[h].target),
           \/ /\ ctl'[h].op = "seek"
              /\ ctl'[h].target = 1 \/ <<c, ctl'[h].target>> \in book.files
           \/ /\ ctl'[h].op = "next" /\ Page(h, c) # NoPage
              /\ ctl'[h].target = Page(h, c) + 1 /\ UsedUp(<<c, Page(h, c)>>)'
    PROVE  WriterSlot(h, c)' /\ Grant(h, c)' = Grant(h, c)
<1>2. Grant(h, c)' = Grant(h, c)
  BY DEF Grant
<1>3. Unserved(h, c)' <=> Unserved(h, c)
  BY DEF Unserved, Pending, OwnSame
<1>4. StatusFits(h, c)'
  BY <1>3 DEF WriterSlot, StatusFits
<1>5. NumberFits(h, c)'
  BY DEF WriterSlot, NumberFits
<1>6. TargetFits(h, c)'
  BY DEF TargetFits, Newest, OwnSame, OnlyMore
<1>7. LastFits(h, c)'
  BY <1>2 DEF WriterSlot, LastFits, Pending, OwnSame
<1> QED BY <1>2, <1>4, <1>5, <1>6, <1>7 DEF WriterSlot, Newest

(* The stores of FillSlot, HoldSlot, PostPageNum and PostRequest. *)
LEMMA WriterStores ==
    ASSUME ClientInv, NEW h \in Writers, NEW c \in Journals, WriterSlot(h, c),
           OwnSame(h, c), Page(h, c)' = Page(h, c),
           Msg(h, c)'.last_page_num = Msg(h, c).last_page_num,
           ctl'[h].target = ctl[h].target,
           NEW a, a = Where(h, c), NEW b, b = Where(h, c)',
           \/ /\ <<a, b>> = <<"fill", "hold">>
              /\ Msg(h, c)'.status = Msg(h, c).status
              /\ Msg(h, c)'.page_num = Msg(h, c).page_num
           \/ <<a, b>> = <<"hold", "scan">> /\ Msg(h, c)'.status = "HOLDING"
           \/ /\ <<a, b>> = <<"post", "send">> /\ ctl'[h].op = ctl[h].op
              /\ Msg(h, c)'.status = Msg(h, c).status
              /\ Msg(h, c)'.page_num = ctl[h].target
           \/ /\ <<a, b>> = <<"send", "spin">> /\ ctl'[h].op = ctl[h].op
              /\ Msg(h, c)'.status = "REQUESTING"
              /\ Msg(h, c)'.page_num = Msg(h, c).page_num
    PROVE  WriterSlot(h, c)' /\ Grant(h, c)' = Grant(h, c)
<1>1. Unserved(h, c)' <=> Unserved(h, c)
  BY DEF Unserved, Pending, OwnSame
<1>2. StatusFits(h, c) /\ NumberFits(h, c) /\ TargetFits(h, c) /\ LastFits(h, c)
  BY DEF WriterSlot
<1>3. CASE <<a, b>> = <<"fill", "hold">>
  <2>1. /\ Msg(h, c).status = "OCCUPIED" /\ Msg(h, c)'.status = "OCCUPIED"
        /\ Unserved(h, c) /\ a = "fill" /\ b = "hold"
    BY <1>2, <1>3 DEF StatusFits
  <2>2. Grant(h, c)' = Grant(h, c)
    BY <2>1 DEF Grant
  <2>3. StatusFits(h, c)' /\ NumberFits(h, c)' /\ TargetFits(h, c)'
    BY <1>1, <2>1 DEF StatusFits, NumberFits, TargetFits
  <2>4. LastFits(h, c)'
    BY <2>1 DEF LastFits, Unserved
  <2> QED BY <2>2, <2>3, <2>4 DEF WriterSlot, Newest
<1>4. CASE <<a, b>> = <<"hold", "scan">>
  <2>1. /\ Msg(h, c).status = "OCCUPIED" /\ Msg(h, c)'.status = "HOLDING"
        /\ Unserved(h, c) /\ a = "hold" /\ b = "scan"
    BY <1>2, <1>4 DEF StatusFits
  <2>2. Grant(h, c)' = Grant(h, c)
    BY <2>1 DEF Grant
  <2>3. StatusFits(h, c)' /\ NumberFits(h, c)' /\ TargetFits(h, c)'
    BY <1>1, <2>1 DEF StatusFits, NumberFits, TargetFits
  <2>4. LastFits(h, c)'
    BY <2>1 DEF LastFits, Unserved
  <2> QED BY <2>2, <2>3, <2>4 DEF WriterSlot, Newest
<1>5. CASE <<a, b>> = <<"post", "send">>
  <2>1. /\ a = "post" /\ b = "send" /\ ctl'[h].op = ctl[h].op
        /\ Msg(h, c)'.status = Msg(h, c).status
        /\ Msg(h, c)'.page_num = ctl'[h].target
    BY <1>5
  <2>2. Grant(h, c) = Page(h, c) /\ Grant(h, c)' = Page(h, c)
    BY <1>2, <2>1 DEF Grant, StatusFits
  <2>3. StatusFits(h, c)' /\ NumberFits(h, c)'
    BY <1>1, <1>2, <2>1 DEF StatusFits, NumberFits
  <2>4. TargetFits(h, c)'
    BY <1>2, <2>1, TargetKept DEF OwnSame
  <2>5. LastFits(h, c)'
    BY <1>2, <2>1, <2>2 DEF StatusFits, NumberFits, LastFits, Pending, OwnSame, Unserved
  <2> QED BY <2>2, <2>3, <2>4, <2>5 DEF WriterSlot, Newest
<1>6. CASE <<a, b>> = <<"send", "spin">>
  <2>1. /\ a = "send" /\ b = "spin" /\ ctl'[h].op = ctl[h].op
        /\ Msg(h, c)'.status = "REQUESTING"
        /\ Msg(h, c)'.page_num = Msg(h, c).page_num
    BY <1>6
  <2>2. Grant(h, c) = Page(h, c) /\ Grant(h, c)' = Page(h, c)
    BY <1>2, <2>1 DEF Grant, StatusFits
  <2>3. StatusFits(h, c)' /\ NumberFits(h, c)'
    BY <1>1, <1>2, <2>1 DEF StatusFits, NumberFits
  <2>4. TargetFits(h, c)'
    BY <1>2, <2>1, TargetKept DEF OwnSame
  <2>5. LastFits(h, c)'
    BY <1>2, <2>1, <2>2 DEF StatusFits, NumberFits, LastFits, Pending, OwnSame, Unserved
  <2> QED BY <2>2, <2>3, <2>4, <2>5 DEF WriterSlot, Newest
<1> QED BY <1>3, <1>4, <1>5, <1>6

(* getPage returns the page asked for, and finishPage makes it the current  *)
(* one: the writer has then what the engine granted it.                     *)
LEMMA WriterReturns ==
    ASSUME ClientInv, NEW h \in Writers, NEW c \in Journals, WriterSlot(h, c),
           OwnSame(h, c), Msg(h, c)' = Msg(h, c),
           Where(h, c) \in {"spin", "finish"}, Msg(h, c).status = "ALLOCATED",
           \/ Where(h, c)' = "locate" /\ Page(h, c)' = ctl[h].target
           \/ /\ Where(h, c)' = "finish" /\ Page(h, c)' = Page(h, c)
              /\ ctl'[h].target = ctl[h].target /\ ctl'[h].op = ctl[h].op
    PROVE  WriterSlot(h, c)' /\ Grant(h, c)' = Grant(h, c)
<1>1. /\ StatusFits(h, c) /\ NumberFits(h, c) /\ TargetFits(h, c) /\ LastFits(h, c)
      /\ ctl[h].target \in Pages /\ Newest(c, ctl[h].target)
      /\ Msg(h, c).page_num = ctl[h].target
  BY DEF WriterSlot, TargetFits, NumberFits
<1>2. ctl[h].target # NoPage
  BY <1>1, EngineAssumption DEF Pages, NoPage
<1>3. Grant(h, c) = ctl[h].target /\ Grant(h, c)' = ctl[h].target
  BY DEF Grant
<1>4. StatusFits(h, c)' /\ NumberFits(h, c)'
  BY <1>1, <1>2 DEF StatusFits, NumberFits
<1>5. TargetFits(h, c)'
  <2>1. CASE Where(h, c)' = "finish"
    BY <1>1, <2>1, TargetKept DEF OwnSame
  <2>2. CASE Where(h, c)' = "locate"
    BY <2>2 DEF TargetFits
  <2> QED BY <2>1, <2>2
<1>6. LastFits(h, c)'
  BY <1>1, <1>3 DEF LastFits, Pending, OwnSame
<1>7. Page(h, c)' # NoPage => Newest(c, Page(h, c)')
  BY <1>1 DEF WriterSlot
<1> QED BY <1>3, <1>4, <1>5, <1>6, <1>7 DEF WriterSlot, Newest

-----------------------------------------------------------------------------
LEMMA ClientSame ==
    ASSUME EngineInv, ClientInv, NEW h \in Handlers, Call(h) \/ InCall(h)
    PROVE  /\ \A c \in Journals : OwnSame(h, c)
           /\ \A j \in Journals : jr'[h][j].slot = jr[h][j].slot
<1>1. UNCHANGED <<commPc, commIdx>>
  <2>1. EngineSees(h)
    BY InCallKeeps, CallKeeps DEF EngineSees
  <2> QED BY <2>1 DEF EngineSees, engineVars, ClientStore, StoreJournal, StorePageNum,
                      StoreStatus, Kill, othersUnchanged, commVars
<1> QED BY <1>1, ClientOnlyMore, CallIsCalm DEF OwnSame, HandlerCalm

(* What SlotSays and the writer's slot are before the step. *)
LEMMA OwnSlot ==
    ASSUME AppendInv, AllAlive, NEW h \in Handlers, NEW c \in Journals, Has(h, c)
    PROVE  SlotSays(h, c) /\ (h \in Writers => WriterSlot(h, c))
BY DEF AppendInv, SlotOK

LEMMA SaysKept ==
    ASSUME NEW h \in Handlers, NEW c \in Journals, SlotSays(h, c),
           Msg(h, c)'.journal = Msg(h, c).journal,
           Msg(h, c)'.is_writer = Msg(h, c).is_writer,
           \/ /\ Where(h, c) \notin {"check", "fill"}
              /\ Where(h, c)' \notin {"check", "fill"}
           \/ /\ Where(h, c) \in {"check", "fill"} /\ Where(h, c)' \in {"check", "fill"}
              /\ Msg(h, c)'.status = Msg(h, c).status
    PROVE  SlotSays(h, c)'
BY DEF SlotSays

(* A step that changes nothing but where the handler is, and the page to    *)
(* ask for.                                                                 *)
LEMMA MoveAppend ==
    ASSUME EngineInv, ClientInv, OwnerInv, AppendInv, AllAlive, AllAlive',
           NEW h \in Handlers, Call(h) \/ InCall(h), UNCHANGED <<comm, jr>>,
           NEW c, ctl'[h].j = c, ctl[h].j = c \/ ctl[h].pc = "ready",
           ctl[h].pc \notin {"check", "fill"}, ctl'[h].pc \notin {"check", "fill", "leaving"},
           ctl'[h].pc = "regjournal" => jr[h][c].slot = NoSlot,
           ctl[h].pc = "spin" => Msg(h, c).status # "REQUESTING",
           c \in Journals /\ Has(h, c) /\ h \in Writers /\ WriterSlot(h, c) =>
             WriterSlot(h, c)' /\ Grant(h, c)' = Grant(h, c)
    PROVE  AppendInv'
<1>1. ASSUME c \in Journals, Has(h, c)
      PROVE  /\ SlotSays(h, c)'
             /\ h \in Writers => WriterSlot(h, c)' /\ Grant(h, c)' = Grant(h, c)
  <2>1. Where(h, c) \notin {"check", "fill"} /\ Where(h, c)' \notin {"check", "fill"}
    BY DEF Where
  <2>2. Msg(h, c)' = Msg(h, c)
    BY DEF Msg
  <2>3. SlotSays(h, c) /\ (h \in Writers => WriterSlot(h, c))
    BY <1>1, OwnSlot
  <2>4. SlotSays(h, c)'
    BY <1>1, <2>1, <2>2, <2>3, SaysKept
  <2> QED BY <1>1, <2>3, <2>4
<1> QED BY <1>1, ClientAppend

LEMMA TurnAppend ==
    ASSUME EngineInv, ClientInv, OwnerInv, AppendInv, AllAlive, AllAlive',
           NEW h \in Handlers, NEW where \in {"ready", "locate"},
           WriterTurn(h, where), Call(h) \/ InCall(h)
    PROVE  AppendInv'
<1>3. PICK c \in Journals : c = ctl[h].j
  BY DEF WriterTurn, ClientInv, Ctl
<1>1. /\ h \in Writers /\ ctl[h].pc = where /\ UNCHANGED <<comm, jr, header>>
      /\ Page(h, c) \in Pages /\ Page(h, c) + 1 \in Pages /\ UsedUp(<<c, Page(h, c)>>)
      /\ ctl' = [ctl EXCEPT ![h].pc = "post", ![h].op = "next", ![h].target = Page(h, c) + 1]
  <2>1. CurPage(h) \in Pages /\ CurPage(h) + 1 \in Pages
    BY <1>3, Place, EngineAssumption DEF WriterTurn, CurPage, Pages
  <2> QED BY <1>3, <2>1 DEF WriterTurn, CurPage, Page, UsedUp, engineVars, At
<1>2. /\ ctl'[h].pc = "post" /\ ctl'[h].op = "next" /\ ctl'[h].target = Page(h, c) + 1
      /\ ctl'[h].j = c
  BY <1>1, <1>3 DEF ClientInv, Ctl
<1>4. ASSUME Has(h, c), WriterSlot(h, c)
      PROVE  WriterSlot(h, c)' /\ Grant(h, c)' = Grant(h, c)
  <2>1. OwnSame(h, c) /\ Msg(h, c)' = Msg(h, c) /\ Page(h, c)' = Page(h, c)
    BY <1>1, ClientSame DEF Msg, Page
  <2>2. Where(h, c) \in {"ready", "locate"} /\ Where(h, c)' = "post"
    BY <1>1, <1>2, <1>3 DEF Where
  <2>3. Newest(c, ctl'[h].target)
    BY <1>1, <1>2, <1>4, EngineAssumption DEF WriterSlot, Newest, Pages, NoPage
  <2>4. UsedUp(<<c, Page(h, c)>>)'
    BY <1>1, <2>1 DEF UsedUp
  <2>5. Page(h, c) # NoPage
    BY <1>1 DEF Pages, NoPage
  <2> QED BY <1>1, <1>2, <1>4, <2>1, <2>2, <2>3, <2>4, <2>5, WriterAsks
<1> QED BY <1>1, <1>2, <1>3, <1>4, MoveAppend

LEMMA CallAppend ==
    ASSUME EngineInv, ClientInv, OwnerInv, AppendInv, AllAlive, AllAlive',
           NEW h \in Handlers, Call(h)
    PROVE  AppendInv'
<1>0. ctl \in [Handlers -> Ctl] /\ ctl[h] \in Ctl
  BY DEF ClientInv
(* A journal that a reader has a step about. *)
<1>a. ASSUME NEW j \in Journals, ctl'[h].j = j, ctl[h].pc = "ready",
             ctl'[h].pc \notin {"check", "fill", "leaving", "regjournal", "spin"},
             UNCHANGED comm, \A i \in Journals \ {j} : jr'[h][i] = jr[h][i],
             h \notin Writers
      PROVE  AppendInv'
  <2>1. Where(h, j) = "ready" /\ Where(h, j)' \notin {"check", "fill"}
    BY <1>a DEF Where
  <2>2. Msg(h, j)' = Msg(h, j)
    BY <1>a, ClientSame DEF Msg
  <2>3. Has(h, j) => SlotSays(h, j)'
    BY <2>1, <2>2, OwnSlot, SaysKept
  <2> QED BY <1>a, <2>3, ClientAppend
<1>1. CASE register_client(h)
  <2>1. /\ ctl[h].pc = "new" /\ ctl'[h].pc = "regclient" /\ ctl'[h].j = ctl[h].j
        /\ UNCHANGED <<comm, jr>>
    BY <1>0, <1>1 DEF register_client, At, GoTo, engineVars, Ctl
  <2>2. PICK c : c = ctl[h].j
    OBVIOUS
  <2>3. ~Has(h, c)
    <3>1. c \in Journals => jr[h][c].slot = NoSlot
      BY <2>1 DEF OwnerInv, NewHasNone
    <3>2. ~Member(h) /\ ctl[h].pc # "leaving"
      BY <2>1 DEF Member
    <3> QED BY <3>2 DEF Has
  <2> QED BY <2>1, <2>2, <2>3, MoveAppend
<1>2. CASE exit(h)
  <2>1. /\ ctl[h].pc = "ready" /\ ctl'[h].pc = "bye" /\ ctl'[h].j = ctl[h].j
        /\ UNCHANGED <<comm, jr>>
    BY <1>0, <1>2 DEF exit, At, GoTo, engineVars, Ctl
  <2>2. PICK c : c = ctl[h].j
    OBVIOUS
  <2>3. ASSUME c \in Journals, h \in Writers, WriterSlot(h, c)
        PROVE  WriterSlot(h, c)' /\ Grant(h, c)' = Grant(h, c)
    <3>1. OwnSame(h, c) /\ Msg(h, c)' = Msg(h, c) /\ Page(h, c)' = Page(h, c)
      BY <2>1, <2>3, ClientSame DEF Msg, Page
    <3>2. Where(h, c) = "ready" /\ Where(h, c)' = "bye"
      BY <2>1, <2>2 DEF Where
    <3> QED BY <2>3, <3>1, <3>2, WriterMoves
  <2> QED BY <2>1, <2>2, <2>3, MoveAppend
<1>3. CASE write_frame(h)
  <2>1. UNCHANGED <<comm, jr, ctl>> /\ ctl[h].pc = "ready"
    BY <1>3 DEF write_frame, engineVars, CanAppend, At
  <2>2. PICK c : c = ctl[h].j
    OBVIOUS
  <2>3. ASSUME c \in Journals, h \in Writers, WriterSlot(h, c), Has(h, c)
        PROVE  WriterSlot(h, c)' /\ Grant(h, c)' = Grant(h, c)
    <3>1. OwnSame(h, c) /\ Msg(h, c)' = Msg(h, c) /\ Page(h, c)' = Page(h, c)
          /\ Where(h, c) = "ready" /\ Where(h, c)' = "ready"
      BY <2>1, <2>2, <2>3, ClientSame DEF Msg, Page, Where
    <3>2. Grant(h, c)' = Grant(h, c)
      BY <3>1 DEF Grant
    <3>3. StatusFits(h, c)' /\ NumberFits(h, c)' /\ TargetFits(h, c)'
      BY <2>3, <3>1 DEF WriterSlot, StatusFits, NumberFits, TargetFits, Unserved,
                        Pending, OwnSame
    <3>4. LastFits(h, c)'
      BY <2>3, <3>1, <3>2 DEF WriterSlot, LastFits, Pending, OwnSame
    <3> QED BY <2>3, <3>1, <3>2, <3>3, <3>4 DEF WriterSlot, Newest
  <2> QED BY <2>1, <2>2, <2>3, MoveAppend
<1>4. ~write_null(h)
  BY EngineAssumption DEF write_null, Kill, AllAlive, EngineInv, TypeOK
<1>5. CASE WriterTurn(h, "ready")
  BY <1>5, TurnAppend
<1>6. ASSUME NEW j \in Journals, addJournal(h, j) PROVE AppendInv'
  <2>1. /\ ctl[h].pc = "ready" /\ ctl'[h].pc = "regjournal" /\ ctl'[h].j = j
        /\ UNCHANGED <<comm, jr>> /\ jr[h][j].slot = NoSlot
    BY <1>0, <1>6 DEF addJournal, At, engineVars, Ctl
  <2>2. ~Has(h, j)
    BY <2>1 DEF Has
  <2> QED BY <2>1, <2>2, MoveAppend
<1>7. ASSUME NEW j \in Journals, seekTime(h, j) PROVE AppendInv'
  <2>1. /\ ctl[h].pc = "ready" /\ ctl'[h].pc = "scan" /\ ctl'[h].j = j
        /\ UNCHANGED <<comm, jr>>
    BY <1>0, <1>7 DEF seekTime, At, engineVars, Ctl
  <2>2. ASSUME h \in Writers, WriterSlot(h, j)
        PROVE  WriterSlot(h, j)' /\ Grant(h, j)' = Grant(h, j)
    <3>1. OwnSame(h, j) /\ Msg(h, j)' = Msg(h, j) /\ Page(h, j)' = Page(h, j)
      BY <2>1, <2>2, ClientSame DEF Msg, Page
    <3>2. Where(h, j) = "ready" /\ Where(h, j)' = "scan"
      BY <2>1 DEF Where
    <3> QED BY <2>2, <3>1, <3>2, WriterMoves
  <2> QED BY <2>1, <2>2, MoveAppend
<1>8. ASSUME NEW j \in Journals, expire(h, j) PROVE AppendInv'
  <2>1. /\ ctl[h].pc = "ready" /\ ctl'[h].pc = "post" /\ ctl'[h].j = j
        /\ UNCHANGED comm /\ h \notin Writers
    BY <1>0, <1>8 DEF expire, At, engineVars
  <2>2. \A i \in Journals \ {j} : jr'[h][i] = jr[h][i]
    BY <1>8 DEF expire, ClientInv, JournalState
  <2> QED BY <1>a, <2>1, <2>2
<1>9. ASSUME NEW j \in Journals, ReaderLocate(h, j) PROVE AppendInv'
  <2>1. /\ ctl[h].pc = "ready" /\ ctl'[h].pc = "post" /\ ctl'[h].j = j
        /\ UNCHANGED <<comm, jr>> /\ h \notin Writers
    BY <1>0, <1>9 DEF ReaderLocate, At, engineVars
  <2> QED BY <1>a, <2>1
<1> QED BY <1>1, <1>2, <1>3, <1>4, <1>5, <1>6, <1>7, <1>8, <1>9 DEF Call

(* The steps of register_journal and of getPage up to the request. *)
LEMMA StepsAppend ==
    ASSUME EngineInv, ClientInv, OwnerInv, AppendInv, AllAlive, AllAlive',
           NEW h \in Handlers, InCall(h),
           \/ CheckSlot(h) \/ FillSlot(h) \/ HoldSlot(h)
           \/ GetPageNums(h) \/ PostPageNum(h) \/ PostRequest(h)
    PROVE  AppendInv'
<1>0. ctl \in [Handlers -> Ctl] /\ ctl[h] \in Ctl
  BY DEF ClientInv
<1>1. PICK c \in Journals : c = ctl[h].j
  BY Place DEF CheckSlot, FillSlot, HoldSlot, GetPageNums, PostPageNum, PostRequest, At,
               WithJournal, WithSlot, Asking
<1>2. /\ Slot(h) = jr[h][c].slot /\ jr[h][c].slot \in Slots /\ UNCHANGED jr
      /\ ctl[h].pc \in WithSlot /\ jr[h][c].slot # NoSlot
  BY <1>1, Place DEF CheckSlot, FillSlot, HoldSlot, GetPageNums, PostPageNum, PostRequest,
                     At, WithSlot, Asking
<1>3. Has(h, c)
  BY <1>2, EngineAssumption DEF Has, Member, Running, AllAlive, WithSlot, Asking
<1>4. SlotSays(h, c) /\ (h \in Writers => WriterSlot(h, c)) /\ Where(h, c) = ctl[h].pc
  BY <1>1, <1>3, OwnSlot DEF Where
<1>5. /\ OwnSame(h, c) /\ Page(h, c)' = Page(h, c)
      /\ comm \in [Slots -> PageCommMsg] /\ Msg(h, c) = comm[jr[h][c].slot]
      /\ Msg(h, c)' = comm'[jr[h][c].slot]
  BY <1>2, ClientSame DEF Page, Msg, EngineInv, TypeOK
<1>6. CASE CheckSlot(h)
  <2>1. Msg(h, c).status = "OCCUPIED" /\ ctl[h].pc = "check"
    BY <1>4, <1>6 DEF SlotSays, CheckSlot, At
  <2>2. ctl' = [ctl EXCEPT ![h].pc = "fill"] /\ UNCHANGED comm
    BY <1>2, <1>5, <1>6, <2>1 DEF CheckSlot, GoTo, engineVars
  <2>3. ctl'[h].pc = "fill" /\ ctl'[h].j = c
    BY <1>0, <1>1, <2>2 DEF Ctl
  <2>4. Where(h, c)' = "fill" /\ Msg(h, c)' = Msg(h, c)
    BY <1>5, <2>2, <2>3 DEF Where
  <2>5. SlotSays(h, c)'
    BY <1>4, <2>1, <2>4, SaysKept
  <2>6. h \in Writers => WriterSlot(h, c)' /\ Grant(h, c)' = Grant(h, c)
    BY <1>4, <1>5, <2>1, <2>4, WriterMoves
  <2> QED BY <1>1, <1>2, <2>1, <2>2, <2>3, <2>5, <2>6, ClientAppend
<1>7. CASE FillSlot(h)
  <2>1. /\ ctl[h].pc = "fill" /\ ctl' = [ctl EXCEPT ![h].pc = "hold"]
        /\ comm' = [comm EXCEPT ![jr[h][c].slot].journal = c,
                                ![jr[h][c].slot].is_writer = (h \in Writers)]
    BY <1>1, <1>2, <1>7 DEF FillSlot, At, GoTo, StoreJournal
  <2>2. /\ ctl'[h].pc = "hold" /\ ctl'[h].j = c /\ ctl'[h].target = ctl[h].target
    BY <1>0, <1>1, <2>1 DEF Ctl
  <2>3. /\ Msg(h, c)'.journal = c /\ Msg(h, c)'.is_writer = (h \in Writers)
        /\ Msg(h, c)'.status = Msg(h, c).status
        /\ Msg(h, c)'.page_num = Msg(h, c).page_num
        /\ Msg(h, c)'.last_page_num = Msg(h, c).last_page_num
        /\ \A s \in Slots \ {jr[h][c].slot} : comm'[s] = comm[s]
    BY <1>2, <1>5, <2>1 DEF PageCommMsg
  <2>4. Where(h, c)' = "hold" /\ Msg(h, c).status = "OCCUPIED"
    BY <1>4, <2>1, <2>2 DEF Where, SlotSays
  <2>5. SlotSays(h, c)'
    BY <2>3, <2>4 DEF SlotSays
  <2>6. ASSUME h \in Writers PROVE WriterSlot(h, c)' /\ Grant(h, c)' = Grant(h, c)
    <3>1. Where(h, c) = "fill" /\ Where(h, c)' = "hold" /\ WriterSlot(h, c)
      BY <1>4, <2>1, <2>2, <2>4, <2>6
    <3> QED BY <1>5, <2>2, <2>3, <2>6, <3>1, WriterStores
  <2>7. /\ ctl'[h].j = c /\ ctl[h].j = c /\ ctl[h].pc # "spin"
        /\ ctl'[h].pc \notin {"leaving", "regjournal"}
        /\ Msg(h, c)'.status # "REQUESTING"
        /\ \A s \in Slots : comm'[s] = comm[s] \/ jr[h][c].slot = s
    BY <1>1, <2>1, <2>2, <2>3, <2>4
  <2> QED BY <1>2, <2>5, <2>6, <2>7, ClientAppend
<1>8. CASE HoldSlot(h)
  <2>1. /\ ctl[h].pc = "hold" /\ comm' = [comm EXCEPT ![jr[h][c].slot].status = "HOLDING"]
        /\ ctl' = IF h \in Writers THEN [ctl EXCEPT ![h].pc = "scan", ![h].op = "seek"]
                  ELSE [ctl EXCEPT ![h].pc = "ready"]
    BY <1>1, <1>2, <1>8 DEF HoldSlot, At, GoTo, StoreStatus
  <2>2. /\ ctl'[h].pc = (IF h \in Writers THEN "scan" ELSE "ready")
        /\ ctl'[h].j = c /\ ctl'[h].target = ctl[h].target
    BY <1>0, <1>1, <2>1 DEF Ctl
  <2>3. /\ Msg(h, c)'.journal = Msg(h, c).journal
        /\ Msg(h, c)'.is_writer = Msg(h, c).is_writer
        /\ Msg(h, c)'.status = "HOLDING"
        /\ Msg(h, c)'.page_num = Msg(h, c).page_num
        /\ Msg(h, c)'.last_page_num = Msg(h, c).last_page_num
        /\ \A s \in Slots \ {jr[h][c].slot} : comm'[s] = comm[s]
    BY <1>2, <1>5, <2>1 DEF PageCommMsg
  <2>4. Where(h, c)' = ctl'[h].pc
    BY <2>2 DEF Where
  <2>5. SlotSays(h, c)'
    BY <1>4, <2>1, <2>2, <2>3, <2>4, SaysKept
  <2>6. ASSUME h \in Writers PROVE WriterSlot(h, c)' /\ Grant(h, c)' = Grant(h, c)
    <3>1. Where(h, c) = "hold" /\ Where(h, c)' = "scan" /\ WriterSlot(h, c)
      BY <1>4, <2>1, <2>2, <2>4, <2>6
    <3> QED BY <1>5, <2>2, <2>3, <2>6, <3>1, WriterStores
  <2>7. /\ ctl'[h].j = c /\ ctl[h].j = c /\ ctl[h].pc # "spin"
        /\ ctl'[h].pc \notin {"leaving", "regjournal"}
        /\ Msg(h, c)'.status # "REQUESTING"
        /\ \A s \in Slots : comm'[s] = comm[s] \/ jr[h][c].slot = s
    <3>1. ctl'[h].pc \in {"scan", "ready"} /\ ctl'[h].j = c
      BY <2>2
    <3>2. ctl[h].pc = "hold"
      BY <2>1
    <3>3. /\ Msg(h, c)'.status = "HOLDING"
          /\ \A s \in Slots \ {jr[h][c].slot} : comm'[s] = comm[s]
      BY <2>3
    <3> QED BY <1>1, <3>1, <3>2, <3>3
  <2> QED BY <1>2, <2>5, <2>6, <2>7, ClientAppend
<1>9. CASE GetPageNums(h)
  <2>1. PICK p \in IF h \in Writers THEN LastPage(c) ELSE PageFiles(c) \cup {1} :
          ctl' = [ctl EXCEPT ![h].pc = "post", ![h].target = p]
    BY <1>1, <1>9 DEF GetPageNums
  <2>2. ctl[h].pc = "scan" /\ UNCHANGED comm /\ ctl[h].op = "seek"
    BY <1>9 DEF GetPageNums, At, engineVars, ClientInv, HandlerOK
  <2>3. /\ ctl'[h].pc = "post" /\ ctl'[h].j = c /\ ctl'[h].target = p /\ ctl'[h].op = "seek"
    BY <1>0, <1>1, <2>1, <2>2 DEF Ctl
  <2>4. ASSUME h \in Writers
        PROVE  p \in Pages /\ Newest(c, p) /\ (p = 1 \/ <<c, p>> \in book.files)
    <3>1. p \in LastPage(c)
      BY <2>1, <2>4
    <3>2. OnDisk \subseteq book.files
      BY DEF AppendInv, Chain
    <3>3. CASE PageFiles(c) = {}
      BY <3>1, <3>2, <3>3, EngineAssumption DEF LastPage, PageFiles, Newest, Pages
    <3>4. CASE PageFiles(c) # {}
      BY <3>1, <3>2, <3>4 DEF LastPage, PageFiles, Newest
    <3> QED BY <3>3, <3>4
  <2>5. ASSUME h \in Writers PROVE WriterSlot(h, c)' /\ Grant(h, c)' = Grant(h, c)
    <3>1. Where(h, c)' = "post" /\ Where(h, c) = "scan" /\ Msg(h, c)' = Msg(h, c)
      BY <1>4, <1>5, <2>2, <2>3 DEF Where
    <3> QED BY <1>4, <1>5, <2>3, <2>4, <2>5, <3>1, WriterAsks
  <2> QED BY <1>1, <1>2, <2>2, <2>3, <2>5, MoveAppend
<1>10. CASE PostPageNum(h)
  <2>1. /\ ctl[h].pc = "post" /\ ctl' = [ctl EXCEPT ![h].pc = "send"]
        /\ comm' = [comm EXCEPT ![jr[h][c].slot].page_num = ctl[h].target]
    BY <1>1, <1>2, <1>10 DEF PostPageNum, At, GoTo, StorePageNum
  <2>2. /\ ctl'[h].pc = "send" /\ ctl'[h].j = c /\ ctl'[h].target = ctl[h].target
        /\ ctl'[h].op = ctl[h].op
    BY <1>0, <1>1, <2>1 DEF Ctl
  <2>3. /\ Msg(h, c)'.journal = Msg(h, c).journal
        /\ Msg(h, c)'.is_writer = Msg(h, c).is_writer
        /\ Msg(h, c)'.status = Msg(h, c).status
        /\ Msg(h, c)'.page_num = ctl[h].target
        /\ Msg(h, c)'.last_page_num = Msg(h, c).last_page_num
        /\ \A s \in Slots \ {jr[h][c].slot} : comm'[s] = comm[s]
    BY <1>2, <1>5, <2>1 DEF PageCommMsg
  <2>4. Where(h, c)' = "send"
    BY <2>2 DEF Where
  <2>5. SlotSays(h, c)'
    BY <1>4, <2>1, <2>3, <2>4, SaysKept
  <2>6. ASSUME h \in Writers PROVE WriterSlot(h, c)' /\ Grant(h, c)' = Grant(h, c)
    <3>1. Where(h, c) = "post" /\ Where(h, c)' = "send" /\ WriterSlot(h, c)
      BY <1>4, <2>1, <2>2, <2>4, <2>6
    <3> QED BY <1>5, <2>2, <2>3, <2>6, <3>1, WriterStores
  <2>7. Msg(h, c).status # "REQUESTING"
    <3> SUFFICES ASSUME comm[jr[h][c].slot].status = "REQUESTING" PROVE FALSE
      BY <1>5
    <3>1. PICK g \in Handlers : Waits(g, jr[h][c].slot)
      BY <1>2 DEF AppendInv, RequestsWait
    <3>2. g # h
      BY <2>1, <3>1 DEF Waits
    <3>3. Member(h) /\ Member(g) /\ ctl[g].j \in Journals /\ jr[g][ctl[g].j].slot = jr[h][c].slot
      BY <1>2, <1>3, <2>1, <3>1, WaiterHas DEF Has, Waits
    <3> QED BY <1>2, <3>2, <3>3, SlotIsMine DEF AppendInv
  <2> QED BY <1>1, <1>2, <2>1, <2>2, <2>3, <2>5, <2>6, <2>7, ClientAppend
<1>11. CASE PostRequest(h)
  <2>1. /\ ctl[h].pc = "send" /\ ctl' = [ctl EXCEPT ![h].pc = "spin"]
        /\ comm' = [comm EXCEPT ![jr[h][c].slot].status = "REQUESTING"]
    BY <1>1, <1>2, <1>11 DEF PostRequest, At, GoTo, StoreStatus
  <2>2. /\ ctl'[h].pc = "spin" /\ ctl'[h].j = c /\ ctl'[h].target = ctl[h].target
        /\ ctl'[h].op = ctl[h].op
    BY <1>0, <1>1, <2>1 DEF Ctl
  <2>3. /\ Msg(h, c)'.journal = Msg(h, c).journal
        /\ Msg(h, c)'.is_writer = Msg(h, c).is_writer
        /\ Msg(h, c)'.status = "REQUESTING"
        /\ Msg(h, c)'.page_num = Msg(h, c).page_num
        /\ Msg(h, c)'.last_page_num = Msg(h, c).last_page_num
        /\ \A s \in Slots \ {jr[h][c].slot} : comm'[s] = comm[s]
    BY <1>2, <1>5, <2>1 DEF PageCommMsg
  <2>4. Where(h, c)' = "spin"
    BY <2>2 DEF Where
  <2>5. SlotSays(h, c)'
    BY <1>4, <2>1, <2>3, <2>4, SaysKept
  <2>6. ASSUME h \in Writers PROVE WriterSlot(h, c)' /\ Grant(h, c)' = Grant(h, c)
    <3>1. Where(h, c) = "send" /\ Where(h, c)' = "spin" /\ WriterSlot(h, c)
      BY <1>4, <2>1, <2>2, <2>4, <2>6
    <3> QED BY <1>5, <2>2, <2>3, <2>6, <3>1, WriterStores
  <2> QED BY <1>1, <1>2, <2>1, <2>2, <2>3, <2>5, <2>6, ClientAppend
<1> QED BY <1>6, <1>7, <1>8, <1>9, <1>10, <1>11

(* The steps of getPage after the answer, and of locateFrame. *)
LEMMA ReturnsAppend ==
    ASSUME EngineInv, ClientInv, OwnerInv, AppendInv, AllAlive, AllAlive',
           NEW h \in Handlers, InCall(h),
           \/ GetPageThrows(h) \/ SeekReturns(h) \/ ExpireReturns(h)
           \/ ReaderNextReturns(h) \/ WriterNextReturns(h)
    PROVE  AppendInv'
<1>0. ctl \in [Handlers -> Ctl] /\ ctl[h] \in Ctl
  BY DEF ClientInv
<1>1. Answered(h) /\ ctl[h].pc = "spin" /\ UNCHANGED comm
  BY DEF GetPageThrows, SeekReturns, ExpireReturns, ReaderNextReturns, WriterNextReturns,
         Answered, At, engineVars
<1>2. PICK c \in Journals : c = ctl[h].j
  BY <1>1, Place DEF WithJournal, WithSlot, Asking
<1>3. /\ Slot(h) = jr[h][c].slot /\ jr[h][c].slot \in Slots /\ jr[h][c].slot # NoSlot
  BY <1>1, <1>2, Place DEF WithSlot, Asking
<1>4. Has(h, c)
  BY <1>1, <1>3, EngineAssumption DEF Has, Member, Running, AllAlive
<1>5. SlotSays(h, c) /\ (h \in Writers => WriterSlot(h, c)) /\ Where(h, c) = "spin"
  BY <1>1, <1>2, <1>4, OwnSlot DEF Where
<1>6. /\ OwnSame(h, c) /\ Msg(h, c) = comm[Slot(h)] /\ Msg(h, c)' = Msg(h, c)
      /\ Msg(h, c).status # "REQUESTING"
  BY <1>1, <1>3, ClientSame DEF Msg, OwnSame, Answered
<1>7. ASSUME h \in Writers
      PROVE  /\ Msg(h, c).status = "ALLOCATED" \/ Msg(h, c).status = "MORE_THAN_ONE_WRITE"
             /\ Msg(h, c).status = "ALLOCATED" => LoadedPage(h) = ctl[h].target
             /\ ctl[h].op \in {"seek", "next"}
             /\ ctl[h].target \in Pages
  <2>1. StatusFits(h, c) /\ TargetFits(h, c)
    BY <1>5, <1>7 DEF WriterSlot
  <2> QED BY <1>5, <1>6, <1>7, <2>1 DEF StatusFits, TargetFits, LoadedPage
(* What each of them leaves as it is, and where it goes. *)
<1>8. ASSUME NEW x \in {"bye", "locate", "ready", "finish"},
             ctl'[h].pc = x, ctl'[h].j = c,
             \A j \in Journals \ {c} : jr'[h][j] = jr[h][j],
             h \in Writers => WriterSlot(h, c)' /\ Grant(h, c)' = Grant(h, c)
      PROVE  AppendInv'
  <2>1. SlotSays(h, c)'
    <3>1. Where(h, c)' \notin {"check", "fill"}
      BY <1>8 DEF Where
    <3> QED BY <1>5, <1>6, <3>1, SaysKept
  <2> QED BY <1>1, <1>2, <1>6, <1>8, <2>1, ClientAppend
<1>9. CASE GetPageThrows(h)
  <2>1. /\ UNCHANGED jr /\ ctl' = [ctl EXCEPT ![h].pc = "bye"]
        /\ Msg(h, c).status = "MORE_THAN_ONE_WRITE"
    BY <1>6, <1>9 DEF GetPageThrows, GoTo
  <2>2. ctl'[h].pc = "bye" /\ ctl'[h].j = c
    BY <1>0, <1>2, <2>1 DEF Ctl
  <2>3. Where(h, c)' = "bye" /\ Page(h, c)' = Page(h, c)
    BY <2>1, <2>2 DEF Where, Page
  <2>4. h \in Writers => WriterSlot(h, c)' /\ Grant(h, c)' = Grant(h, c)
    BY <1>5, <1>6, <2>1, <2>3, WriterMoves
  <2> QED BY <1>8, <2>1, <2>2, <2>4
<1>10. CASE SeekReturns(h)
  <2>1. /\ ctl' = [ctl EXCEPT ![h].pc = IF h \in Writers THEN "locate" ELSE "ready"]
        /\ jr' = [jr EXCEPT ![h][c].page = LoadedPage(h), ![h][c].expired = LoadedPage(h) = NoPage]
        /\ Msg(h, c).status # "MORE_THAN_ONE_WRITE"
    BY <1>2, <1>6, <1>10 DEF SeekReturns, GoTo
  <2>2. ctl'[h].pc = (IF h \in Writers THEN "locate" ELSE "ready") /\ ctl'[h].j = c
    BY <1>0, <1>2, <2>1 DEF Ctl
  <2>3. Page(h, c)' = LoadedPage(h) /\ \A j \in Journals \ {c} : jr'[h][j] = jr[h][j]
    BY <2>1 DEF Page, ClientInv, JournalState
  <2>4. ASSUME h \in Writers PROVE WriterSlot(h, c)' /\ Grant(h, c)' = Grant(h, c)
    <3>1. Where(h, c)' = "locate" /\ Page(h, c)' = ctl[h].target
          /\ Msg(h, c).status = "ALLOCATED"
      BY <1>7, <2>1, <2>2, <2>3, <2>4 DEF Where
    <3> QED BY <1>5, <1>6, <2>4, <3>1, WriterReturns
  <2> QED BY <1>8, <2>2, <2>3, <2>4
<1>11. CASE ExpireReturns(h)
  <2>1. UNCHANGED jr /\ ctl' = [ctl EXCEPT ![h].pc = "ready"] /\ h \notin Writers
    BY <1>7, <1>11 DEF ExpireReturns, GoTo
  <2>2. ctl'[h].pc = "ready" /\ ctl'[h].j = c
    BY <1>0, <1>2, <2>1 DEF Ctl
  <2> QED BY <1>8, <2>1, <2>2
<1>12. CASE ReaderNextReturns(h)
  <2>1. /\ ctl' = [ctl EXCEPT ![h].pc = "ready"] /\ h \notin Writers
        /\ jr' = [jr EXCEPT ![h][c].page = LoadedPage(h)]
    BY <1>2, <1>12 DEF ReaderNextReturns, GoTo
  <2>2. ctl'[h].pc = "ready" /\ ctl'[h].j = c
    BY <1>0, <1>2, <2>1 DEF Ctl
  <2>3. \A j \in Journals \ {c} : jr'[h][j] = jr[h][j]
    BY <2>1 DEF ClientInv, JournalState
  <2> QED BY <1>8, <2>1, <2>2, <2>3
<1>13. CASE WriterNextReturns(h)
  <2>1. /\ h \in Writers /\ UNCHANGED jr
        /\ ctl' = [ctl EXCEPT ![h].pc = "finish", ![h].target = LoadedPage(h)]
        /\ Msg(h, c).status = "ALLOCATED" /\ LoadedPage(h) = ctl[h].target
    BY <1>6, <1>7, <1>13 DEF WriterNextReturns
  <2>2. /\ ctl'[h].pc = "finish" /\ ctl'[h].j = c /\ ctl'[h].target = ctl[h].target
        /\ ctl'[h].op = ctl[h].op
    BY <1>0, <1>2, <2>1 DEF Ctl
  <2>3. Where(h, c)' = "finish" /\ Page(h, c)' = Page(h, c)
    BY <2>1, <2>2 DEF Where, Page
  <2>4. WriterSlot(h, c)' /\ Grant(h, c)' = Grant(h, c)
    BY <1>5, <1>6, <2>1, <2>2, <2>3, WriterReturns
  <2> QED BY <1>8, <2>1, <2>2, <2>4
<1> QED BY <1>9, <1>10, <1>11, <1>12, <1>13

LEMMA InCallAppend ==
    ASSUME EngineInv, ClientInv, OwnerInv, AppendInv, AllAlive, AllAlive',
           NEW h \in Handlers, InCall(h)
    PROVE  AppendInv'
<1>0. ctl \in [Handlers -> Ctl] /\ ctl[h] \in Ctl
  BY DEF ClientInv
<1>1. CASE finishPage(h)
  <2>1. /\ ctl[h].pc = "finish" /\ UNCHANGED comm
        /\ ctl' = [ctl EXCEPT ![h].pc = "locate"]
    BY <1>1 DEF finishPage, At, GoTo, engineVars, Kill
  <2>2. PICK c \in Journals : c = ctl[h].j
    BY <2>1, Place DEF WithJournal, WithSlot
  <2>3. /\ jr[h][c].slot \in Slots /\ jr[h][c].slot # NoSlot /\ h \in Writers
        /\ jr' = [jr EXCEPT ![h][c].page = ctl[h].target]
    BY <1>1, <2>1, <2>2, Place DEF WithSlot, ClientInv, HandlerOK, finishPage
  <2>4. /\ ctl'[h].pc = "locate" /\ ctl'[h].j = c
        /\ Page(h, c)' = ctl[h].target
        /\ \A j \in Journals \ {c} : jr'[h][j] = jr[h][j]
    BY <1>0, <2>1, <2>2, <2>3 DEF Ctl, ClientInv, JournalState, Page
  <2>5. Has(h, c)
    BY <2>1, <2>3, EngineAssumption DEF Has, Member, Running, AllAlive
  <2>6. /\ SlotSays(h, c) /\ WriterSlot(h, c) /\ OwnSame(h, c) /\ Msg(h, c)' = Msg(h, c)
        /\ Where(h, c) = "finish" /\ Where(h, c)' = "locate"
    BY <2>1, <2>2, <2>3, <2>4, <2>5, OwnSlot, ClientSame DEF Msg, Where, OwnSame
  <2>7. Msg(h, c).status = "ALLOCATED"
    BY <2>6 DEF WriterSlot, StatusFits
  <2>8. WriterSlot(h, c)' /\ Grant(h, c)' = Grant(h, c)
    BY <2>3, <2>4, <2>6, <2>7, WriterReturns
  <2>9. SlotSays(h, c)'
    BY <2>6, SaysKept
  <2> QED BY <2>1, <2>2, <2>4, <2>8, <2>9, ClientAppend
<1>2. CASE WriterTurn(h, "locate")
  BY <1>2, TurnAppend
<1>3. CASE LocateEnd(h)
  <2>1. /\ ctl[h].pc = "locate" /\ UNCHANGED <<comm, jr>>
        /\ ctl' = [ctl EXCEPT ![h].pc = "ready"]
    BY <1>3 DEF LocateEnd, At, GoTo, engineVars
  <2>2. PICK c \in Journals : c = ctl[h].j
    BY <2>1, Place DEF WithJournal, WithSlot
  <2>3. ctl'[h].pc = "ready" /\ ctl'[h].j = c
    BY <1>0, <2>1, <2>2 DEF Ctl
  <2>4. ASSUME h \in Writers, WriterSlot(h, c)
        PROVE  WriterSlot(h, c)' /\ Grant(h, c)' = Grant(h, c)
    <3>1. OwnSame(h, c) /\ Msg(h, c)' = Msg(h, c) /\ Page(h, c)' = Page(h, c)
      BY <2>1, ClientSame DEF Msg, Page
    <3>2. Where(h, c) = "locate" /\ Where(h, c)' = "ready"
      BY <2>1, <2>2, <2>3 DEF Where
    <3> QED BY <2>4, <3>1, <3>2, WriterMoves
  <2> QED BY <2>1, <2>2, <2>3, <2>4, MoveAppend
<1> QED BY <1>1, <1>2, <1>3, StepsAppend, ReturnsAppend DEF InCall

-----------------------------------------------------------------------------
LEMMA AppendStep ==
    ASSUME ~Outages, Foreign = {}, EngineInv, ClientInv, OwnerInv, AppendInv,
           [ServiceNext]_vars
    PROVE  AppendInv'
<1> SUFFICES ASSUME AllAlive' PROVE AppendInv'
  BY DEF AppendInv
<1>0. alive \in [Pids -> BOOLEAN]
  BY DEF EngineInv, TypeOK
<1>1. CASE UNCHANGED vars
  <2>1. AllAlive /\ Idle /\ NoneRevived
    BY <1>1 DEF vars, engineVars, clientVars, AllAlive, Idle, NoneRevived
  <2> QED BY <2>1, IdleKept
<1>2. ASSUME NEW s \in Slots, EngineExitSlot(s) PROVE AppendInv'
  BY <1>2, ExitSlotAppend DEF EngineExitSlot
<1>3. CASE EngineTask
  BY <1>3, TaskAppend DEF EngineTask
<1>4. CASE EngineComm
  <2>1. AllAlive
    BY <1>4 DEF EngineComm, CommStep, CommScan, CommServe, CommDone, AllAlive
  <2> QED BY <1>4, <2>1, CommScanAppend, CommServeAppend, CommDoneAppend
          DEF EngineComm, CommStep
<1>5. CASE SocketStep
  <2>1. AllAlive
    BY <1>5 DEF SocketStep, ServeClient, ServeJournal, ServeExit, ServeExitEnd, reg_client,
                reg_journal, exit_client, SocketExitEnd, ExitFinish, AllAlive
  <2> QED BY <1>5, <2>1, ServeClientAppend, ServeJournalAppend, ServeExitAppend,
             ServeExitEndAppend DEF SocketStep
<1>6. ASSUME NEW h \in Handlers, InCall(h) \/ Call(h) PROVE AppendInv'
  <2>1. NoneRevived
    BY <1>6, StoresOwn
  <2>2. AllAlive
    BY <2>1 DEF NoneRevived, AllAlive
  <2> QED BY <1>6, <2>2, InCallAppend, CallAppend
<1>7. ASSUME NEW h \in Handlers, ClientUnanswered(h) \/ JournalUnanswered(h)
      PROVE  AppendInv'
  <2>1. ~up /\ ~AllAlive
    <3>1. ~up
      BY <1>7 DEF ClientUnanswered, JournalUnanswered
    <3> QED BY <3>1 DEF AppendInv
  <2>2. NoneRevived
    BY <1>0, <1>7 DEF ClientUnanswered, JournalUnanswered, engineVars, Kill, NoneRevived
  <2> QED BY <2>1, <2>2 DEF NoneRevived, AllAlive
<1>8. ASSUME NEW p \in Pids, KillProcess(p) PROVE AppendInv'
  BY <1>0, <1>8 DEF KillProcess, Kill, AllAlive
<1>9. ~EngineStops /\ ~EngineRestarts
  BY DEF EngineStops, EngineRestarts, EngineDies, start
<1> QED BY <1>1, <1>2, <1>3, <1>4, <1>5, <1>6, <1>7, <1>8, <1>9 DEF ServiceNext

LEMMA AppendStart == ServiceInit => AppendInv
<1> SUFFICES ASSUME ServiceInit PROVE AppendInv
  OBVIOUS
<1>1. /\ up /\ book.files = OnDisk /\ commPc = "scan"
      /\ \A s \in Slots : comm[s].status = "RAW"
      /\ \A h \in Handlers : ctl[h].pc = "new" /\ ~Member(h)
  BY DEF ServiceInit, Init, EmptyBook, ZeroMsg, Member
<1>2. \A h \in Handlers : \A j \in Journals : ~Has(h, j)
  BY <1>1 DEF Has
<1>3. \A h \in Handlers : Leaves(h) /\ Lists(h)
  BY <1>1 DEF Leaves, Lists, In
<1>4. RequestsWait /\ ServesRequest
  BY <1>1 DEF RequestsWait, ServesRequest
<1>5. Locked /\ Exclusive
  BY <1>2, ServiceAssumption DEF Locked, Exclusive, Granted
<1>6. Chain
  BY <1>1 DEF Chain, Newest, Pages
<1> QED BY <1>1, <1>2, <1>3, <1>4, <1>5, <1>6 DEF AppendInv, SlotOK

(* JournalWriter.h: "this journal cannot be linked by other writer".  Until *)
(* the first client process dies, never two writers store frames into one   *)
(* journal, and the engine's entry for the page and the slot's status and   *)
(* page number say what the writer does: neither exit_client of another     *)
(* client, nor a page given back by the numbers of a slot, takes the lock   *)
(* of a writer (PageEngine, Journal::locateFrame, JournalWriter).           *)
THEOREM ServiceLocksHold ==
    ASSUME ~Outages, Foreign = {}
    PROVE  ServiceSpec => [](AllAlive => OneAppender /\ AppenderHoldsLock)
<1>1. ServiceInit => ClientInv /\ OwnerInv /\ AppendInv
  BY ServiceStart, OwnerStart, AppendStart
<1>2. EngineInv /\ ClientInv /\ OwnerInv /\ AppendInv /\ [ServiceNext]_vars
        => ClientInv' /\ OwnerInv' /\ AppendInv'
  BY ServiceStep, OwnerStep, AppendStep
<1>3. Spec => []EngineInv
  BY EngineInvariant
<1>4. ServiceSpec => Spec
  BY ServiceImplementsEngine DEF ImplementsEngine
<1>5. EngineInv /\ ClientInv /\ AppendInv => (AllAlive => OneAppender /\ AppenderHoldsLock)
  BY AppendGives
<1> QED BY <1>1, <1>2, <1>3, <1>4, <1>5, PTL DEF ServiceSpec

-----------------------------------------------------------------------------
(* Nobody is killed from outside: then no writer dies of a null page, and   *)
(* the locks hold for ever.                                                 *)
WriterReady(h) ==
    /\ ctl[h].pc \in {"new", "regclient"} => ctl[h].j = NoJournal
    /\ ctl[h].pc = "ready" =>
         ctl[h].j = NoJournal \/ jr[h][ctl[h].j].slot # NoSlot
WritersReady == \A h \in Writers : WriterReady(h)

LEMMA StaysReady ==
    ASSUME ClientInv, NEW h \in Handlers, h \in Writers => WriterReady(h),
           Call(h) \/ InCall(h)
    PROVE  h \in Writers => WriterReady(h)'
<1> SUFFICES ASSUME h \in Writers, WriterReady(h) PROVE WriterReady(h)'
  OBVIOUS
<1>0. /\ ctl \in [Handlers -> Ctl] /\ ctl[h] \in Ctl
      /\ \A j \in Journals : jr'[h][j].slot = jr[h][j].slot
  BY CallIsCalm DEF ClientInv, HandlerCalm
<1>1. CASE InCall(h)
  <2>1. ctl'[h].j = ctl[h].j /\ ctl'[h].pc \notin {"new", "regclient"}
    BY <1>0, <1>1 DEF InCall, CheckSlot, FillSlot, HoldSlot, GetPageNums, PostPageNum,
       PostRequest, GetPageThrows, SeekReturns, ExpireReturns, ReaderNextReturns,
       WriterNextReturns, finishPage, WriterTurn, LocateEnd, GoTo, Ctl
  <2>2. ctl[h].pc \in WithSlot
    BY <1>1, InCallPlace
  <2>3. ctl[h].j \in Journals /\ jr[h][ctl[h].j].slot # NoSlot
    BY <2>2, Place DEF WithJournal
  <2> QED BY <1>0, <2>1, <2>3 DEF WriterReady
<1>2. CASE register_client(h) \/ exit(h) \/ WriterTurn(h, "ready")
  BY <1>0, <1>2 DEF register_client, exit, WriterTurn, GoTo, At, WriterReady, Ctl
<1>3. CASE write_frame(h) \/ write_null(h)
  BY <1>3 DEF write_frame, write_null, clientVars, WriterReady
<1>4. ASSUME NEW j \in Journals,
             addJournal(h, j) \/ seekTime(h, j) \/ expire(h, j) \/ ReaderLocate(h, j)
      PROVE  WriterReady(h)'
  BY <1>0, <1>4 DEF addJournal, seekTime, expire, ReaderLocate, WriterReady, Ctl
<1> QED BY <1>1, <1>2, <1>3, <1>4 DEF Call

LEMMA ReadyStep ==
    ASSUME EngineInv, ClientInv, WritersReady, up, ~Outages, [ServiceNext]_vars
    PROVE  WritersReady'
<1>0. ctl \in [Handlers -> Ctl]
  BY DEF ClientInv
<1>a. ASSUME UNCHANGED clientVars PROVE WritersReady'
  BY <1>a DEF clientVars, WritersReady, WriterReady
(* A step of handler h alone. *)
<1>b. ASSUME NEW h \in Handlers, h \in Writers => WriterReady(h)',
             \A g \in Handlers \ {h} : ctl'[g] = ctl[g] /\ jr'[g] = jr[g]
      PROVE  WritersReady'
  BY <1>b, ServiceAssumption DEF WritersReady, WriterReady
<1>1. CASE \/ UNCHANGED vars \/ EngineTask \/ EngineComm
           \/ \E s \in Slots : EngineExitSlot(s)
           \/ \E p \in Pids : KillProcess(p)
  BY <1>1, <1>a DEF vars, EngineTask, EngineComm, EngineExitSlot, KillProcess
<1>2. ASSUME NEW h \in Handlers, ServeClient(h) PROVE WritersReady'
  <2>1. PICK x \in {"ready", "gone"} : ctl' = [ctl EXCEPT ![h].pc = x]
    BY <1>2 DEF ServeClient, GoTo
  <2>2. /\ ctl'[h].pc = x /\ ctl'[h].j = ctl[h].j /\ ctl[h].pc = "regclient"
        /\ UNCHANGED jr /\ \A g \in Handlers \ {h} : ctl'[g] = ctl[g]
    BY <1>0, <1>2, <2>1 DEF ServeClient, Ctl
  <2> QED BY <1>b, <2>2 DEF WritersReady, WriterReady
<1>3. ASSUME NEW h \in Handlers, ServeJournal(h) \/ ServeExit(h) PROVE WritersReady'
  <2>1. PICK x \in {"check", "bye", "leaving", "gone"} : ctl' = [ctl EXCEPT ![h].pc = x]
    BY <1>3 DEF ServeJournal, ServeExit, GoTo
  <2>2. ctl'[h].pc = x /\ \A g \in Handlers \ {h} : ctl'[g] = ctl[g]
    BY <1>0, <2>1 DEF Ctl
  <2>3. \A g \in Handlers \ {h} : jr'[g] = jr[g]
    BY <1>3 DEF ServeJournal, ServeExit, ClientInv
  <2> QED BY <1>b, <2>2, <2>3 DEF WriterReady
<1>4. CASE ServeExitEnd
  <2>1. PICK h \in Handlers : h = clientJournals[exiting]
    BY <1>4 DEF ServeExitEnd, SocketExitEnd, ExitFinish, EngineInv, LockOK, TypeOK
  <2>2. UNCHANGED jr /\ ctl' = [ctl EXCEPT ![h].pc = "gone"]
    BY <1>4, <2>1 DEF ServeExitEnd, GoTo
  <2>3. ctl'[h].pc = "gone" /\ \A g \in Handlers \ {h} : ctl'[g] = ctl[g]
    BY <1>0, <2>2 DEF Ctl
  <2> QED BY <1>b, <2>2, <2>3 DEF WriterReady
<1>5. ASSUME NEW h \in Handlers, InCall(h) \/ Call(h) PROVE WritersReady'
  BY <1>5, <1>b, StaysReady, CallIsCalm DEF WritersReady, OthersCalm
<1>6. \A h \in Handlers : ~ClientUnanswered(h) /\ ~JournalUnanswered(h)
  BY DEF ClientUnanswered, JournalUnanswered
<1>7. ~EngineStops /\ ~EngineRestarts
  BY DEF EngineStops, EngineRestarts, EngineDies, start
<1> QED BY <1>1, <1>2, <1>3, <1>4, <1>5, <1>6, <1>7 DEF ServiceNext, SocketStep

LEMMA AliveStep ==
    ASSUME ~Outages, Mortal = {}, EngineInv, ClientInv, AppendInv, WritersReady, AllAlive,
           [ServiceNext]_vars
    PROVE  AllAlive'
<1>0. up
  BY DEF AppendInv
<1>1. CASE UNCHANGED vars
  BY <1>1 DEF vars, engineVars, AllAlive
<1>2. CASE EngineTask \/ EngineComm \/ (\E s \in Slots : EngineExitSlot(s)) \/ SocketStep
  BY <1>2 DEF EngineTask, TaskStep, TaskExit, TaskExitEnd, TaskStart, TaskEnd, EngineComm,
     CommStep, CommScan, CommServe, CommDone, EngineExitSlot, ExitSlot, SocketStep,
     ServeClient, ServeJournal, ServeExit, ServeExitEnd, reg_client, reg_journal,
     exit_client, SocketExitEnd, ExitFinish, AllAlive
<1>3. ASSUME NEW h \in Handlers, InCall(h) \/ Call(h) PROVE AllAlive'
  <2>1. CASE write_null(h)
    <3>1. PICK c \in Journals : c = ctl[h].j
      BY <2>1 DEF write_null, ClientInv, Ctl
    <3>2. /\ h \in Writers /\ ctl[h].pc = "ready" /\ Page(h, c) = NoPage /\ Where(h, c) = "ready"
          /\ c # NoJournal
      BY <2>1, <3>1 DEF write_null, At, CurPage, Page, Where
    <3>3. Has(h, c)
      BY <3>1, <3>2, EngineAssumption
         DEF Has, Member, Running, AllAlive, WritersReady, WriterReady
    <3>4. StatusFits(h, c)
      BY <3>2, <3>3, OwnSlot DEF WriterSlot
    <3> QED BY <3>2, <3>4 DEF StatusFits
  <2>2. CASE finishPage(h)
    <3>1. PICK c \in Journals : c = ctl[h].j
      BY <2>2, Place DEF finishPage, At, WithJournal, WithSlot
    <3>2. /\ h \in Writers /\ ctl[h].pc = "finish" /\ Where(h, c) = "finish"
          /\ jr[h][c].slot # NoSlot
      BY <2>2, <3>1, Place DEF finishPage, At, Where, ClientInv, HandlerOK, WithSlot
    <3>3. Has(h, c)
      BY <3>2, EngineAssumption DEF Has, Member, Running, AllAlive
    <3>4. ctl[h].target \in Pages
      BY <3>2, <3>3, OwnSlot DEF WriterSlot, TargetFits
    <3>5. UNCHANGED engineVars
      BY <2>2, <3>4, EngineAssumption DEF finishPage, Pages, NoPage
    <3> QED BY <3>5 DEF engineVars, AllAlive
  <2>3. CASE ~write_null(h) /\ ~finishPage(h)
    <3>1. UNCHANGED alive
      BY <1>3, <2>3 DEF Call, register_client, exit, write_frame, WriterTurn,
         addJournal, seekTime, expire, ReaderLocate, InCall, CheckSlot, FillSlot, HoldSlot,
         GetPageNums, PostPageNum, PostRequest, GetPageThrows, SeekReturns, ExpireReturns,
         ReaderNextReturns, WriterNextReturns, LocateEnd, engineVars,
         StoreJournal, StorePageNum, StoreStatus
    <3> QED BY <3>1 DEF AllAlive
  <2> QED BY <2>1, <2>2, <2>3
<1>4. \A h \in Handlers : ~ClientUnanswered(h) /\ ~JournalUnanswered(h)
  BY <1>0 DEF ClientUnanswered, JournalUnanswered
<1>5. \A p \in Pids : ~KillProcess(p)
  BY DEF KillProcess
<1>6. ~EngineStops /\ ~EngineRestarts
  BY DEF EngineStops, EngineRestarts, EngineDies, start
<1> QED BY <1>1, <1>2, <1>3, <1>4, <1>5, <1>6 DEF ServiceNext

(* With clients that nobody kills, no writer ever runs into the null page   *)
(* of locateFrame or loadNextPage (JournalWriter::write_frame and           *)
(* Journal::loadNextPage would dereference it), so two writers never store  *)
(* frames into one journal and each that may has the lock of its page.      *)
THEOREM ServiceNoWriterDies ==
    ASSUME ~Outages, Foreign = {}, Mortal = {}
    PROVE  ServiceSpec => [](AllAlive /\ OneAppender /\ AppenderHoldsLock)
<1>1. ServiceInit => ClientInv /\ OwnerInv /\ AppendInv /\ AllAlive /\ WritersReady
  <2>1. ServiceInit => AllAlive
    BY DEF ServiceInit, Init, AllAlive
  <2>2. ServiceInit => WritersReady
    BY ServiceAssumption DEF ServiceInit, WritersReady, WriterReady
  <2> QED BY <2>1, <2>2, ServiceStart, OwnerStart, AppendStart
<1>2. EngineInv /\ ClientInv /\ OwnerInv /\ AppendInv /\ AllAlive /\ WritersReady
        /\ [ServiceNext]_vars
        => ClientInv' /\ OwnerInv' /\ AppendInv' /\ AllAlive' /\ WritersReady'
  <2> SUFFICES ASSUME EngineInv, ClientInv, OwnerInv, AppendInv, AllAlive, WritersReady,
                      [ServiceNext]_vars
               PROVE  ClientInv' /\ OwnerInv' /\ AppendInv' /\ AllAlive' /\ WritersReady'
    OBVIOUS
  <2>1. up
    BY DEF AppendInv
  <2> QED BY <2>1, ServiceStep, OwnerStep, AppendStep, AliveStep, ReadyStep
<1>3. Spec => []EngineInv
  BY EngineInvariant
<1>4. ServiceSpec => Spec
  BY ServiceImplementsEngine DEF ImplementsEngine
<1>5. EngineInv /\ ClientInv /\ AppendInv /\ AllAlive => OneAppender /\ AppenderHoldsLock
  BY AppendGives
<1> QED BY <1>1, <1>2, <1>3, <1>4, <1>5, PTL DEF ServiceSpec
=============================================================================
