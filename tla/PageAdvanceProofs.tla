-------------------------- MODULE PageAdvanceProofs --------------------------
(***************************************************************************)
(* ReaderAdvances of the service: at the end of a page a reader gets the   *)
(* next one.  Three parties have to agree for this: the writer closes a    *)
(* page only when it has the next one, the engine serves what the client   *)
(* asked for, in whatever order stores and polls interleave, and the       *)
(* client's slot is nobody else's.  Proved for any number of handlers,     *)
(* processes, journals, slots and pages, with processes that are killed at *)
(* any step, as long as the engine stays up and the temp page can be       *)
(* renamed into every folder (Foreign is empty).                           *)
(***************************************************************************)
EXTENDS PageOwnershipProofs

(* A member that has not begun to leave. *)
Working(h) == Member(h) /\ ctl[h].pc # "bye"

(* The slots of a handler's journals are different, and say which journal   *)
(* they are for and in which role, once register_journal has filled them.   *)
Apart(h) ==
    \A i, j \in Journals :
      jr[h][i].slot # NoSlot /\ jr[h][i].slot = jr[h][j].slot => i = j
Filled(h, j) ==
    /\ jr[h][j].slot # NoSlot
    /\ ~(ctl[h].j = j /\ ctl[h].pc \in {"check", "fill"})
Contents(h) ==
    \A j \in Journals : Filled(h, j) =>
      /\ comm[jr[h][j].slot].journal = j
      /\ comm[jr[h][j].slot].is_writer = (h \in Writers)

(* A page that is closed has a successor, with a header: finishPage comes   *)
(* after the load of the next page.                                         *)
HasNext(j, p) ==
    p + 1 \in Pages /\ <<j, p + 1>> \in book.files /\ header[<<j, p + 1>>] # "raw"
NextExists ==
    \A j \in Journals : \A p \in Pages :
      header[<<j, p>>] = "closed" => HasNext(j, p)

(* Inside getPage for the next page: what was asked for, what the engine    *)
(* may answer, and what a writer has when it is about to close the old one. *)
Turning(h) ==
    ctl[h].pc \in Asking /\ ctl[h].op = "next" /\ CurPage(h) # NoPage
Posted(h) ==
    ctl[h].pc \in {"send", "spin"} => comm[Slot(h)].page_num = ctl[h].target
Turns(h) ==
    Turning(h) =>
      /\ ctl[h].target = CurPage(h) + 1
      /\ h \notin Writers => header[<<ctl[h].j, CurPage(h)>>] = "closed"
Answers(h) ==
    Turning(h) /\ ctl[h].pc = "spin" =>
      /\ comm[Slot(h)].status \in {"REQUESTING", "ALLOCATED", "MORE_THAN_ONE_WRITE"}
      /\ comm[Slot(h)].status = "MORE_THAN_ONE_WRITE" => h \in Writers
      /\ comm[Slot(h)].status = "ALLOCATED" =>
           <<ctl[h].j, ctl[h].target>> \in book.files
Finishing(h) ==
    ctl[h].pc = "finish" =>
      ctl[h].target = CurPage(h) + 1 /\ HasNext(ctl[h].j, CurPage(h))

InStep(h) == Posted(h) /\ Turns(h) /\ Answers(h) /\ Finishing(h)
AdvInv ==
    up => /\ NextExists
          /\ \A h \in Handlers : /\ Member(h) => Apart(h)
                                 /\ Working(h) => Contents(h) /\ InStep(h)

-----------------------------------------------------------------------------
(* Page files are never removed, and a header only moves on. *)
Grows ==
    /\ book.files \subseteq book'.files
    /\ \A k \in Journals \X Pages :
         /\ header[k] # "raw" => header'[k] # "raw"
         /\ header[k] = "closed" => header'[k] = "closed"

(* What a step must leave alone for a client not to notice it: its slots,   *)
(* where its answer may change only when it waits for one.                  *)
SlotsKept(h) ==
    \A j \in Journals : jr[h][j].slot # NoSlot =>
      /\ comm'[jr[h][j].slot].journal = comm[jr[h][j].slot].journal
      /\ comm'[jr[h][j].slot].is_writer = comm[jr[h][j].slot].is_writer
      /\ comm'[jr[h][j].slot].page_num = comm[jr[h][j].slot].page_num
StatusKept(h) ==
    ctl[h].pc = "spin" => comm'[Slot(h)].status = comm[Slot(h)].status

LEMMA HasNextKept ==
    ASSUME Grows, NEW j \in Journals, NEW p, HasNext(j, p)
    PROVE  HasNext(j, p)'
BY DEF Grows, HasNext

LEMMA NextKept ==
    ASSUME Grows, NextExists,
           \A k \in Journals \X Pages : header'[k] = "closed" => header[k] = "closed"
    PROVE  NextExists'
<1> SUFFICES ASSUME NEW j \in Journals, NEW p \in Pages, header'[<<j, p>>] = "closed"
             PROVE  HasNext(j, p)'
  BY DEF NextExists
<1>1. HasNext(j, p)
  BY DEF NextExists
<1> QED BY <1>1, HasNextKept

(* Where a client that is inside a call has its page and its slot. *)
LEMMA Place ==
    ASSUME ClientInv, NEW h \in Handlers
    PROVE  /\ ctl[h].pc \in WithJournal => ctl[h].j \in Journals
           /\ ctl[h].pc \in WithSlot =>
                Slot(h) \in Slots /\ Slot(h) # NoSlot /\ Slot(h) = jr[h][ctl[h].j].slot
           /\ \A j \in Journals : /\ jr[h][j].slot \in Slots \cup {NoSlot}
                                  /\ jr[h][j].page \in 0..MaxPage
           /\ \A j \in Journals : jr[h][j].page # NoPage => jr[h][j].page \in Pages
<1>1. HandlerOK(ctl[h], jr[h], h \in Writers)
  BY DEF ClientInv
<1>2. NoSlot \notin Slots
  BY DEF NoSlot, Slots
<1>3. \A j \in Journals : jr[h][j].page \in 0..MaxPage
  BY <1>1 DEF HandlerOK, JournalState
<1> QED BY <1>1, <1>2, <1>3, EngineAssumption
        DEF HandlerOK, JournalState, Slot, NoPage, Pages

(* A client that is left alone keeps what it knows. *)
LEMMA OtherKept ==
    ASSUME ClientInv, Grows, NEW h \in Handlers, ctl'[h] = ctl[h], jr'[h] = jr[h],
           SlotsKept(h), StatusKept(h), Contents(h), InStep(h)
    PROVE  Contents(h)' /\ InStep(h)'
<1>1. /\ ctl[h].pc \in Asking \cup {"finish"} =>
           /\ ctl[h].j \in Journals /\ Slot(h) # NoSlot
           /\ Slot(h) = jr[h][ctl[h].j].slot
      /\ CurPage(h)' = CurPage(h) /\ Slot(h)' = Slot(h)
      /\ Turning(h)' = Turning(h)
  BY Place DEF WithSlot, WithJournal, CurPage, Slot, Turning
<1>2. Contents(h)'
  BY DEF Contents, Filled, SlotsKept
<1>3. Posted(h)'
  BY <1>1 DEF InStep, Posted, SlotsKept, Asking
<1>4. Turns(h)'
  <2> SUFFICES ASSUME Turning(h)
               PROVE  /\ ctl[h].target = CurPage(h) + 1
                      /\ h \notin Writers => header'[<<ctl[h].j, CurPage(h)>>] = "closed"
    BY <1>1 DEF Turns
  <2>1. CurPage(h) \in Pages /\ ctl[h].j \in Journals
    BY <1>1, Place DEF CurPage, Turning
  <2> QED BY <2>1 DEF InStep, Turns, Grows
<1>5. Answers(h)'
  BY <1>1 DEF InStep, Answers, StatusKept, Grows
<1>6. Finishing(h)'
  <2>1. CASE ctl[h].pc = "finish"
    <3>1. PICK j, p : j \in Journals /\ j = ctl[h].j /\ p = CurPage(h)
      BY <1>1, <2>1
    <3>2. HasNext(j, p) /\ ctl[h].target = p + 1
      BY <2>1, <3>1 DEF InStep, Finishing, HasNext
    <3>3. HasNext(j, p)'
      BY <3>1, <3>2, HasNextKept
    <3> QED BY <1>1, <3>1, <3>2, <3>3 DEF Finishing, HasNext
  <2>2. CASE ctl[h].pc # "finish"
    BY <2>2 DEF Finishing
  <2> QED BY <2>1, <2>2
<1> QED BY <1>2, <1>3, <1>4, <1>5, <1>6 DEF InStep

(* Nothing that is done for those who leave, and no slot given out, touches *)
(* the slots of a client that runs.                                         *)
LEMMA SlotIsMine ==
    ASSUME EngineInv, ClientInv, OwnerInv, up, NEW h \in Handlers, Member(h),
           NEW j \in Journals, jr[h][j].slot # NoSlot
    PROVE  /\ jr[h][j].slot \in Slots
           /\ exiting # NoClient => jr[h][j].slot \notin exitLeft
           /\ mutex = "free" => comm[jr[h][j].slot].status # "RAW"
           /\ \A g \in Handlers \ {h} : \A i \in Journals :
                Member(g) => jr[g][i].slot # jr[h][j].slot
<1> DEFINE s == jr[h][j].slot
<1>1. s \in Slots
  BY Place
<1> HIDE DEF s
<1>2. Registered(h) /\ s \in user_index_vec[Name[h]] /\ Name[h] \in Names
      /\ Name[h] # NoClient
  BY EngineAssumption DEF OwnerInv, Registered, s
<1>3. ASSUME exiting # NoClient, s \in exitLeft PROVE FALSE
  <2>1. exiting = Name[h]
    BY <1>1, <1>2, <1>3 DEF EngineInv, LockOK, SlotsOK, Owned, TypeOK
  <2> QED BY <1>2, <1>3, <2>1 DEF OwnerInv, ExitIsDue, Registered, Member, Running
<1>4. mutex = "free" => comm[s].status # "RAW"
  BY <1>1, <1>2 DEF EngineInv, LockOK, SlotsOK, Owned, Visited
<1>5. ASSUME NEW g \in Handlers \ {h}, NEW i \in Journals, Member(g)
      PROVE  jr[g][i].slot # s
  <2>1. UsesSlot(h, s)
    BY DEF UsesSlot, s
  <2>2. SlotOwnership
    BY OwnerGivesOwnership
  <2>3. ~UsesSlot(g, s)
    BY <1>1, <1>5, <2>1, <2>2 DEF SlotOwnership
  <2> QED BY <2>3 DEF UsesSlot
<1> QED BY <1>1, <1>3, <1>4, <1>5 DEF s

(* A step that leaves client g alone, or at most kills it. *)
NoneRevived == \A p \in Pids : alive'[p] => alive[p]
Kept(g) ==
    /\ Member(g) => Apart(g)
    /\ Working(g) => Contents(g) /\ InStep(g)

LEMMA ClientKept ==
    ASSUME ClientInv, AdvInv, up, Grows, NoneRevived, NEW g \in Handlers,
           ctl'[g] = ctl[g], jr'[g] = jr[g],
           Working(g) => SlotsKept(g) /\ StatusKept(g)
    PROVE  Kept(g)'
<1>1. Pid[g] \in Pids
  BY EngineAssumption
<1>2. (Member(g)' => Member(g)) /\ (Working(g)' => Working(g))
  BY <1>1 DEF Member, Running, Working, NoneRevived
<1>3. Member(g) => Apart(g)'
  BY DEF AdvInv, Apart
<1>4. Working(g) => Contents(g)' /\ InStep(g)'
  BY OtherKept DEF AdvInv
<1> QED BY <1>2, <1>3, <1>4 DEF Kept

LEMMA AdvFrom ==
    NextExists /\ (\A h \in Handlers : Kept(h)) => AdvInv
BY DEF AdvInv, Kept

-----------------------------------------------------------------------------
LEMMA ReleaseKeepsFiles ==
    ASSUME NEW b \in Book, NEW k \in Keys, NEW w \in BOOLEAN
    PROVE  release_page(b, k, w).files = b.files
BY DEF release_page, Book

(* What initiate_page may answer when every folder takes the temp page, and *)
(* what it has done to the files then.                                      *)
LEMMA InitiateAnswers ==
    ASSUME Foreign = {}, NEW b \in Book, NEW k \in Keys, NEW w \in BOOLEAN,
           NEW r, r = initiate_page(b, k, w)
    PROVE  /\ b.files \subseteq r.book.files
           /\ r.status \in {"NON_EXIST", "MORE_THAN_ONE_WRITE", "ALLOCATED"}
           /\ r.status = "NON_EXIST" => ~w /\ k \notin b.files
           /\ r.status = "MORE_THAN_ONE_WRITE" => w
           /\ r.status = "ALLOCATED" => k \in r.book.files
<1> DEFINE m == MapPage(b, k)
           missing == k \notin b.addrs \cup b.files
<1>1. m.files = b.files \cup {k}
  BY DEF MapPage, Book
<1>2. CASE missing /\ ~w
  BY <1>2 DEF initiate_page
<1>3. CASE ~(missing /\ ~w) /\ w /\ b.writers[k] > 0
  <2>1. r = [book |-> m, status |-> "MORE_THAN_ONE_WRITE"]
    BY <1>3 DEF initiate_page
  <2> HIDE DEF m
  <2>2. r.book = m /\ r.status = "MORE_THAN_ONE_WRITE"
    BY <2>1
  <2> QED BY <1>1, <1>3, <2>2
<1>4. CASE ~(missing /\ ~w) /\ ~(w /\ b.writers[k] > 0)
  <2>1. r = [book |-> IF w THEN [m EXCEPT !.writers[k] = 1]
                           ELSE [m EXCEPT !.readers[k] = @ + 1],
             status |-> "ALLOCATED"]
    BY <1>4 DEF initiate_page
  <2>2. r.book.files = m.files
    BY <2>1 DEF MapPage, Book
  <2> QED BY <1>1, <2>1, <2>2
<1> QED BY <1>2, <1>3, <1>4

(* exit_client's loop and the rounds of PstPidCheck and PstTempPage. *)
LEMMA ExitSlotAdv ==
    ASSUME EngineInv, ClientInv, OwnerInv, AdvInv, NEW s \in Slots,
           ExitSlot(s), UNCHANGED clientVars
    PROVE  AdvInv'
<1>1. /\ up /\ exiting # NoClient /\ s \in exitLeft
      /\ UNCHANGED <<ctl, jr, header, alive>>
      /\ comm' = [comm EXCEPT ![s].status = "RAW"]
  BY DEF ExitSlot, clientVars
<1>2. book'.files = book.files
  <2>1. comm[s] \in PageCommMsg /\ book \in Book
    BY DEF EngineInv, TypeOK
  <2>2. <<comm[s].journal, comm[s].page_num>> \in Keys /\ comm[s].is_writer \in BOOLEAN
    BY <2>1 DEF PageCommMsg, Keys
  <2> QED BY <2>1, <2>2, ReleaseKeepsFiles DEF ExitSlot
<1>3. Grows /\ NoneRevived
  BY <1>1, <1>2 DEF Grows, NoneRevived
<1>4. NextExists'
  BY <1>1, <1>3, NextKept DEF AdvInv
<1>5. ASSUME NEW g \in Handlers, Working(g) PROVE SlotsKept(g) /\ StatusKept(g)
  <2>1. ASSUME NEW j \in Journals, jr[g][j].slot # NoSlot
        PROVE  jr[g][j].slot # s /\ comm'[jr[g][j].slot] = comm[jr[g][j].slot]
    BY <1>1, <1>5, <2>1, SlotIsMine DEF Working, EngineInv, TypeOK
  <2> QED BY <2>1, Place DEF SlotsKept, StatusKept, WithSlot, WithJournal, Asking
<1>6. \A g \in Handlers : Kept(g)'
  BY <1>1, <1>3, <1>5, ClientKept
<1> QED BY <1>4, <1>6 DEF AdvInv, Kept

LEMMA TaskAdv ==
    ASSUME EngineInv, ClientInv, OwnerInv, AdvInv, TaskStep, UNCHANGED clientVars
    PROVE  AdvInv'
<1>1. up /\ UNCHANGED <<ctl, jr, header, alive, comm>>
  BY DEF TaskStep, TaskExit, TaskExitEnd, TaskStart, TaskEnd, ExitFinish, clientVars
<1>2. book'.files = book.files
  BY DEF TaskStep, TaskExit, TaskExitEnd, TaskStart, TaskEnd, ExitFinish,
         EngineInv, TypeOK, Book
<1>3. Grows /\ NoneRevived
  BY <1>1, <1>2 DEF Grows, NoneRevived
<1>4. NextExists'
  BY <1>1, <1>3, NextKept DEF AdvInv
<1>5. \A g \in Handlers : SlotsKept(g) /\ StatusKept(g)
  BY <1>1 DEF SlotsKept, StatusKept
<1>6. \A g \in Handlers : Kept(g)'
  BY <1>1, <1>3, <1>5, ClientKept
<1> QED BY <1>4, <1>6 DEF AdvInv, Kept

LEMMA KillAdv ==
    ASSUME EngineInv, ClientInv, AdvInv, NEW p \in Pids, Kill(p), UNCHANGED clientVars
    PROVE  AdvInv'
<1> SUFFICES ASSUME up' PROVE AdvInv'
  BY DEF AdvInv
<1>1. up /\ UNCHANGED <<ctl, jr, header, comm, book>>
  BY DEF Kill, othersUnchanged, clientVars
<1>2. NoneRevived
  BY DEF Kill, NoneRevived, EngineInv, TypeOK
<1>3. Grows
  BY <1>1 DEF Grows
<1>4. NextExists'
  BY <1>1, <1>3, NextKept DEF AdvInv
<1>5. \A g \in Handlers : SlotsKept(g) /\ StatusKept(g)
  BY <1>1 DEF SlotsKept, StatusKept
<1>6. \A g \in Handlers : Kept(g)'
  BY <1>1, <1>2, <1>3, <1>5, ClientKept
<1> QED BY <1>4, <1>6 DEF AdvInv, Kept

-----------------------------------------------------------------------------
(* The comm thread.  The slot it serves may have changed hands or may no    *)
(* longer be asked for anything; the client that owns it is told about what *)
(* it has stored there itself.                                              *)
LEMMA CommServeFacts ==
    ASSUME Foreign = {}, EngineInv, CommServe,
           NEW k, k = <<comm[commIdx].journal, comm[commIdx].page_num>>
    PROVE  /\ up /\ commIdx \in Slots
           /\ book.files \subseteq book'.files
           /\ \A s \in Slots : /\ comm'[s].journal = comm[s].journal
                               /\ comm'[s].is_writer = comm[s].is_writer
                               /\ comm'[s].page_num = comm[s].page_num
                               /\ s # commIdx => comm'[s].status = comm[s].status
           /\ comm'[commIdx].status \in {"NON_EXIST", "MORE_THAN_ONE_WRITE", "ALLOCATED"}
           /\ comm'[commIdx].status = "NON_EXIST" =>
                ~comm[commIdx].is_writer /\ k \notin book.files
           /\ comm'[commIdx].status = "MORE_THAN_ONE_WRITE" => comm[commIdx].is_writer
           /\ comm'[commIdx].status = "ALLOCATED" => k \in book'.files
<1> DEFINE m == comm[commIdx]
           last == <<m.journal, m.last_page_num>>
           b == IF m.last_page_num > 0 /\ m.last_page_num # m.page_num
                THEN release_page(book, last, m.is_writer) ELSE book
<1>1. /\ commIdx \in Slots /\ m \in PageCommMsg /\ book \in Book
      /\ comm \in [Slots -> PageCommMsg] /\ GoodBook(book)
  BY DEF EngineInv, TypeOK, BookOK, GoodBook
<1>2. k \in Keys /\ last \in Keys /\ m.is_writer \in BOOLEAN
  BY <1>1 DEF PageCommMsg, Keys
<1>3. b \in Book /\ b.files = book.files
  BY <1>1, <1>2, ReleaseKeepsFiles, ReleaseKeepsBook DEF GoodBook
<1> DEFINE r == initiate_page(b, k, m.is_writer)
<1>4. /\ b.files \subseteq r.book.files
      /\ r.status \in {"NON_EXIST", "MORE_THAN_ONE_WRITE", "ALLOCATED"}
      /\ r.status = "NON_EXIST" => ~m.is_writer /\ k \notin b.files
      /\ r.status = "MORE_THAN_ONE_WRITE" => m.is_writer
      /\ r.status = "ALLOCATED" => k \in r.book.files
  BY <1>2, <1>3, InitiateAnswers
<1>5. /\ up /\ book' = r.book
      /\ comm' = [comm EXCEPT ![commIdx].status = r.status]
  BY DEF CommServe, ServeRequest
<1> HIDE DEF r, b
<1>6. /\ comm'[commIdx].status = r.status
      /\ \A s \in Slots : /\ comm'[s].journal = comm[s].journal
                          /\ comm'[s].is_writer = comm[s].is_writer
                          /\ comm'[s].page_num = comm[s].page_num
                          /\ s # commIdx => comm'[s].status = comm[s].status
  BY <1>1, <1>5 DEF PageCommMsg
<1> QED BY <1>1, <1>3, <1>4, <1>5, <1>6

LEMMA CommServeAdv ==
    ASSUME Foreign = {}, EngineInv, ClientInv, OwnerInv, AdvInv,
           CommServe, UNCHANGED clientVars
    PROVE  AdvInv'
<1> DEFINE k == <<comm[commIdx].journal, comm[commIdx].page_num>>
<1>1. up /\ UNCHANGED <<ctl, jr, header, alive>>
  BY DEF CommServe, clientVars
<1>2. Grows /\ NoneRevived
  BY <1>1, CommServeFacts DEF Grows, NoneRevived
<1>3. NextExists'
  BY <1>1, <1>2, NextKept DEF AdvInv
<1>4. ASSUME NEW g \in Handlers, ~(Working(g) /\ ctl[g].pc = "spin" /\ Slot(g) = commIdx)
      PROVE  Kept(g)'
  <2>1. Working(g) => SlotsKept(g)
    BY CommServeFacts, Place DEF SlotsKept
  <2>2. Working(g) => StatusKept(g)
    BY <1>4, CommServeFacts, Place DEF StatusKept, WithSlot, Asking
  <2> QED BY <1>1, <1>2, <2>1, <2>2, ClientKept
<1>5. ASSUME NEW g \in Handlers, Working(g), ctl[g].pc = "spin", Slot(g) = commIdx
      PROVE  Kept(g)'
  <2>1. /\ Apart(g) /\ Contents(g) /\ InStep(g) /\ NextExists
        /\ ctl[g].j \in Journals /\ commIdx = jr[g][ctl[g].j].slot /\ commIdx # NoSlot
    BY <1>1, <1>5, Place DEF AdvInv, Working, WithSlot, WithJournal, Asking
  <2>2. k = <<ctl[g].j, ctl[g].target>> /\ comm[commIdx].is_writer = (g \in Writers)
    BY <1>5, <2>1 DEF Contents, Filled, InStep, Posted
  <2>3. Turning(g) => /\ ctl[g].target = CurPage(g) + 1
                      /\ g \notin Writers => k \in book.files
    <3> SUFFICES ASSUME Turning(g)
                 PROVE  /\ ctl[g].target = CurPage(g) + 1
                        /\ g \notin Writers => k \in book.files
      OBVIOUS
    <3>1. /\ ctl[g].target = CurPage(g) + 1
          /\ g \notin Writers => header[<<ctl[g].j, CurPage(g)>>] = "closed"
      BY <2>1 DEF InStep, Turns
    <3>2. CurPage(g) \in Pages
      BY <2>1, Place DEF CurPage, Turning
    <3> QED BY <2>1, <2>2, <3>1, <3>2 DEF NextExists, HasNext
  <2>4. /\ comm'[commIdx].status \in {"NON_EXIST", "MORE_THAN_ONE_WRITE", "ALLOCATED"}
        /\ comm'[commIdx].status = "NON_EXIST" =>
             g \notin Writers /\ k \notin book.files
        /\ comm'[commIdx].status = "MORE_THAN_ONE_WRITE" => g \in Writers
        /\ comm'[commIdx].status = "ALLOCATED" => k \in book'.files
    BY <2>2, CommServeFacts
  <2>5. Answers(g)'
    <3>1. Turning(g)' = Turning(g) /\ Slot(g)' = commIdx
      BY <1>1, <1>5 DEF Turning, CurPage, Slot
    <3> QED BY <1>1, <2>2, <2>3, <2>4, <3>1 DEF Answers
  <2>6. Contents(g)'
    BY <1>1, <2>1, CommServeFacts, Place DEF Contents, Filled
  <2>7. Posted(g)'
    <3>1. comm'[commIdx].page_num = comm[commIdx].page_num /\ Slot(g)' = commIdx
      BY <1>1, <1>5, CommServeFacts DEF Slot
    <3> QED BY <1>1, <1>5, <2>1, <3>1 DEF InStep, Posted
  <2>8. Turns(g)' /\ Finishing(g)' /\ Apart(g)'
    BY <1>1, <1>5, <2>1 DEF InStep, Turns, Turning, CurPage, Finishing, Apart
  <2> QED BY <2>5, <2>6, <2>7, <2>8 DEF Kept, InStep
<1> QED BY <1>3, <1>4, <1>5 DEF AdvInv, Kept

LEMMA CommAdv ==
    ASSUME Foreign = {}, EngineInv, ClientInv, OwnerInv, AdvInv,
           CommStep, UNCHANGED clientVars
    PROVE  AdvInv'
<1>1. CASE CommServe
  BY <1>1, CommServeAdv
<1>2. CASE CommScan \/ CommDone
  <2>1. up /\ UNCHANGED <<ctl, jr, header, alive, book>>
    BY <1>2 DEF CommScan, CommDone, clientVars
  <2>2. Grows /\ NoneRevived
    BY <2>1 DEF Grows, NoneRevived
  <2>3. NextExists'
    BY <2>1, <2>2, NextKept DEF AdvInv
  <2>4. \A s \in Slots : /\ comm'[s].journal = comm[s].journal
                         /\ comm'[s].is_writer = comm[s].is_writer
                         /\ comm'[s].page_num = comm[s].page_num
                         /\ comm'[s].status = comm[s].status
    BY <1>2 DEF CommScan, CommDone, EngineInv, TypeOK, PageCommMsg
  <2>5. \A g \in Handlers : SlotsKept(g) /\ StatusKept(g)
    BY <2>4, Place DEF SlotsKept, StatusKept, WithSlot, Asking
  <2>6. \A g \in Handlers : Kept(g)'
    BY <2>1, <2>2, <2>5, ClientKept
  <2> QED BY <2>3, <2>6 DEF AdvInv, Kept
<1> QED BY <1>1, <1>2 DEF CommStep

-----------------------------------------------------------------------------
(* Outside getPage and finishPage there is nothing to know but the slots. *)
LEMMA Quiet ==
    ASSUME NEW h \in Handlers, ctl'[h].pc \notin Asking \cup {"finish"}
    PROVE  InStep(h)'
BY DEF InStep, Posted, Turns, Turning, Answers, Finishing, Asking

(* The socket thread: registration, reg_journal and good-byes. *)
LEMMA ServeClientAdv ==
    ASSUME EngineInv, ClientInv, OwnerInv, AdvInv, NEW h \in Handlers, ServeClient(h)
    PROVE  AdvInv'
<1>1. /\ up /\ ctl[h].pc = "regclient"
      /\ UNCHANGED <<jr, header, alive, comm, book>>
  BY DEF ServeClient, reg_client
<1>2. PICK x \in {"ready", "gone"} : ctl' = [ctl EXCEPT ![h].pc = x]
  BY DEF ServeClient, GoTo
<1>3. ctl'[h].pc = x /\ \A g \in Handlers \ {h} : ctl'[g] = ctl[g]
  BY <1>2 DEF ClientInv, Ctl
<1>4. Grows /\ NoneRevived
  BY <1>1 DEF Grows, NoneRevived
<1>5. NextExists'
  BY <1>1, <1>4, NextKept DEF AdvInv
<1>6. ASSUME NEW g \in Handlers \ {h} PROVE Kept(g)'
  BY <1>1, <1>3, <1>4, ClientKept DEF SlotsKept, StatusKept
<1>7. Kept(h)'
  <2>1. \A j \in Journals : jr'[h][j].slot = NoSlot
    BY <1>1 DEF OwnerInv, NewHasNone
  <2>2. Apart(h)' /\ Contents(h)'
    BY <2>1 DEF Apart, Contents, Filled
  <2> QED BY <1>3, <2>2, Quiet DEF Kept, Asking
<1> QED BY <1>5, <1>6, <1>7 DEF AdvInv, Kept

LEMMA ServeExitAdv ==
    ASSUME EngineInv, ClientInv, AdvInv, NEW h,
           \/ h \in Handlers /\ ServeExit(h)
           \/ h = clientJournals[exiting] /\ ServeExitEnd
    PROVE  AdvInv'
<1>1. up /\ UNCHANGED <<jr, header, alive, comm, book>>
  BY DEF ServeExit, exit_client, ServeExitEnd, SocketExitEnd, ExitFinish
<1>2. PICK x \in {"leaving", "gone"} : ctl' = [ctl EXCEPT ![h].pc = x]
  BY DEF ServeExit, ServeExitEnd, GoTo
<1>3. \A g \in Handlers : g # h => ctl'[g] = ctl[g]
  BY <1>2 DEF ClientInv
<1>4. Grows /\ NoneRevived
  BY <1>1 DEF Grows, NoneRevived
<1>5. NextExists'
  BY <1>1, <1>4, NextKept DEF AdvInv
<1>6. ASSUME NEW g \in Handlers, g # h PROVE Kept(g)'
  BY <1>1, <1>3, <1>4, <1>6, ClientKept DEF SlotsKept, StatusKept
<1>7. ASSUME h \in Handlers PROVE Kept(h)'
  <2>1. ctl'[h].pc = x
    BY <1>2, <1>7 DEF ClientInv, Ctl
  <2> QED BY <2>1 DEF Kept, Working, Member
<1> QED BY <1>5, <1>6, <1>7 DEF AdvInv, Kept

(* The slot granted was RAW, so it is no running client's. *)
LEMMA ServeJournalAdv ==
    ASSUME EngineInv, ClientInv, OwnerInv, AdvInv, NEW h \in Handlers, ServeJournal(h)
    PROVE  AdvInv'
<1>1. /\ up /\ mutex = "free" /\ ctl[h].pc = "regjournal" /\ ctl[h].j \in Journals
      /\ UNCHANGED <<header, alive, book>>
  BY Place DEF ServeJournal, reg_journal, WithJournal
<1>2. Grows /\ NoneRevived
  BY <1>1 DEF Grows, NoneRevived
<1>3. NextExists'
  BY <1>1, <1>2, NextKept DEF AdvInv
<1>4. CASE RawSlots = {}
  <2>1. /\ ctl' = [ctl EXCEPT ![h].pc = "bye"] /\ UNCHANGED <<comm, jr>>
    BY <1>4 DEF ServeJournal, reg_journal, FirstRaw, GoTo
  <2>2. ctl'[h].pc = "bye" /\ \A g \in Handlers \ {h} : ctl'[g] = ctl[g]
    BY <2>1 DEF ClientInv, Ctl
  <2>3. ASSUME NEW g \in Handlers \ {h} PROVE Kept(g)'
    BY <1>1, <1>2, <2>1, <2>2, ClientKept DEF SlotsKept, StatusKept
  <2>4. Kept(h)'
    <3>1. Member(h)' => Member(h)
      BY <1>1 DEF Member, Running
    <3>2. Member(h) => Apart(h)'
      BY <1>1, <2>1 DEF AdvInv, Apart
    <3> QED BY <2>2, <3>1, <3>2 DEF Kept, Working
  <2> QED BY <1>3, <2>3, <2>4 DEF AdvInv, Kept
<1>5. CASE RawSlots # {}
  <2>1. PICK s \in Slots :
          FirstRaw(s) /\ comm' = [comm EXCEPT ![s].status = "OCCUPIED",
                                              ![s].last_page_num = 0]
    BY <1>5 DEF ServeJournal, reg_journal
  <2>2. comm[s].status = "RAW" /\ \A t \in Slots \ {s} : comm'[t] = comm[t]
    BY <2>1 DEF FirstRaw, RawSlots, EngineInv, TypeOK
  <2>3. ASSUME NEW g \in Handlers, Member(g), NEW j \in Journals,
               jr[g][j].slot # NoSlot
        PROVE  jr[g][j].slot # s /\ comm'[jr[g][j].slot] = comm[jr[g][j].slot]
    BY <1>1, <2>2, <2>3, SlotIsMine
  <2>4. /\ \A g \in Handlers \ {h} : ctl'[g] = ctl[g] /\ jr'[g] = jr[g]
        /\ ctl'[h].pc \in {"check", "bye"} /\ ctl'[h].j = ctl[h].j
    BY <1>1 DEF ServeJournal, GoTo, ClientInv, Ctl
  <2>5. ASSUME NEW g \in Handlers \ {h} PROVE Kept(g)'
    <3>1. Working(g) => SlotsKept(g)
      BY <2>3 DEF Working, SlotsKept
    <3>2. Working(g) => StatusKept(g)
      BY <2>3, Place DEF Working, StatusKept, WithSlot, WithJournal, Asking
    <3> QED BY <1>1, <1>2, <2>4, <3>1, <3>2, ClientKept
  <2>6. ASSUME Member(h)' PROVE Kept(h)'
    <3>1. Member(h)
      BY <1>1, <2>6 DEF Member, Running
    <3>2. CASE clientJournals[Name[h]] = NoClient
      <4>1. jr' = jr /\ ctl'[h].pc = "bye"
        BY <3>2 DEF ServeJournal, GoTo, ClientInv, Ctl
      <4> QED BY <1>1, <3>1, <4>1 DEF Kept, Working, AdvInv, Apart
    <3>3. CASE clientJournals[Name[h]] # NoClient
      <4> DEFINE new == CHOOSE t \in Slots : FirstRaw(t)
      <4>1. new = s
        <5>1. new \in Slots /\ FirstRaw(new)
          BY <2>1
        <5> HIDE DEF new
        <5>2. new <= s /\ s <= new
          BY <2>1, <5>1 DEF FirstRaw
        <5> QED BY <5>1, <5>2 DEF Slots
      <4>2. jr' = [jr EXCEPT ![h][ctl[h].j].slot = s] /\ ctl'[h].pc = "check"
        <5>1. jr' = [jr EXCEPT ![h][ctl[h].j].slot = new] /\ GoTo(h, "check")
          BY <1>5, <3>3 DEF ServeJournal
        <5> HIDE DEF new
        <5> QED BY <4>1, <5>1 DEF GoTo, ClientInv, Ctl
      <4> HIDE DEF new
      <4>3. /\ jr'[h][ctl[h].j].slot = s
            /\ \A j \in Journals \ {ctl[h].j} : jr'[h][j] = jr[h][j]
        BY <1>1, <4>2 DEF ClientInv, JournalState
      <4>4. Apart(h)
        BY <1>1, <3>1 DEF AdvInv
      <4>5. Apart(h)'
        BY <2>3, <3>1, <4>3, <4>4 DEF Apart
      <4>6. Contents(h)
        BY <1>1, <3>1 DEF AdvInv, Working
      <4>7. Contents(h)'
        BY <1>1, <2>3, <2>4, <3>1, <4>2, <4>3, <4>6 DEF Contents, Filled
      <4> QED BY <4>2, <4>5, <4>7, Quiet DEF Kept, Asking
    <3> QED BY <3>2, <3>3
  <2> QED BY <1>3, <2>5, <2>6 DEF AdvInv, Kept, Working
<1> QED BY <1>4, <1>5

-----------------------------------------------------------------------------
(* The clients.  Only inside a call, with a slot, does one store into the   *)
(* comm file, and only there.                                               *)
LEMMA CallPlace ==
    ASSUME ClientInv, NEW h \in Handlers, Call(h)
    PROVE  Running(h) /\ ctl[h].pc \in {"new", "ready"}
BY DEF Call, At, register_client, exit, write_frame, CanAppend, write_null, WriterTurn,
       addJournal, seekTime, expire, ReaderLocate

LEMMA InCallPlace ==
    ASSUME ClientInv, NEW h \in Handlers, InCall(h)
    PROVE  Working(h) /\ ctl[h].pc \in WithSlot
BY DEF InCall, At, CheckSlot, FillSlot, HoldSlot, GetPageNums, PostPageNum,
       PostRequest, GetPageThrows, SeekReturns, ExpireReturns, ReaderNextReturns,
       WriterNextReturns, Answered, finishPage, WriterTurn, LocateEnd, WithSlot, Asking,
       Working, Member

LEMMA StoresOwn ==
    ASSUME EngineInv, ClientInv, NEW h \in Handlers, Call(h) \/ InCall(h)
    PROVE  /\ UNCHANGED <<book, up>> /\ NoneRevived
           /\ \/ UNCHANGED comm
              \/ /\ Working(h) /\ ctl[h].pc \in WithSlot
                 /\ \A s \in Slots \ {Slot(h)} : comm'[s] = comm[s]
<1>1. EngineSees(h)
  BY InCallKeeps, CallKeeps DEF EngineSees
<1>2. UNCHANGED <<book, up>>
  BY <1>1 DEF EngineSees, engineVars, ClientStore, StoreJournal, StorePageNum,
              StoreStatus, Kill, othersUnchanged
<1>3. NoneRevived
  BY <1>1, ClientIsCalm DEF NoneRevived, EngineCalm, EngineInv
<1>4. CASE UNCHANGED comm
  BY <1>2, <1>3, <1>4
<1>5. CASE comm' # comm
  <2>1. InCall(h)
    BY <1>5, CallKeeps DEF engineVars, Kill
  <2>2. ClientStore(Slot(h))
    BY <1>1, <1>5 DEF EngineSees, engineVars, Kill
  <2>3. \A s \in Slots \ {Slot(h)} : comm'[s] = comm[s]
    BY <2>2 DEF ClientStore, StoreJournal, StorePageNum, StoreStatus, EngineInv, TypeOK
  <2> QED BY <1>2, <1>3, <2>1, <2>3, InCallPlace
<1> QED BY <1>4, <1>5

(* Headers only move on, and only finishPage closes a page. *)
LEMMA HeaderMoves ==
    ASSUME ClientInv, NEW h \in Handlers, Call(h) \/ InCall(h),
           NEW k \in Journals \X Pages
    PROVE  /\ header[k] # "raw" => header'[k] # "raw"
           /\ header[k] = "closed" => header'[k] = "closed"
           /\ header'[k] = "closed" =>
                \/ header[k] = "closed"
                \/ ctl[h].pc = "finish" /\ k = <<ctl[h].j, CurPage(h)>>
<1>0. header \in [Journals \X Pages -> {"raw", "open", "full", "closed"}]
  BY DEF ClientInv, HeaderOK
<1>1. CASE UNCHANGED header
  BY <1>1
<1>2. CASE write_frame(h)
  BY <1>0, <1>2 DEF write_frame, CanAppend
<1>3. CASE finishPage(h)
  BY <1>0, <1>3 DEF finishPage, At
<1>4. CASE InitHeader(h)
  BY <1>0, <1>4 DEF InitHeader
<1>5. UNCHANGED header \/ write_frame(h) \/ finishPage(h) \/ InitHeader(h)
  BY DEF Call, register_client, exit, write_null, clientVars, WriterTurn,
         addJournal, seekTime, expire, ReaderLocate, InCall, CheckSlot, FillSlot, HoldSlot,
         GetPageNums, PostPageNum, PostRequest, GetPageThrows, SeekReturns,
         ExpireReturns, ReaderNextReturns, WriterNextReturns, LocateEnd
<1> QED BY <1>1, <1>2, <1>3, <1>4, <1>5

LEMMA ClientGrows ==
    ASSUME EngineInv, ClientInv, AdvInv, up, NEW h \in Handlers, Call(h) \/ InCall(h)
    PROVE  Grows /\ NextExists'
<1>1. Grows
  BY StoresOwn, HeaderMoves DEF Grows
<1>2. ASSUME NEW j \in Journals, NEW p \in Pages, header'[<<j, p>>] = "closed"
      PROVE  HasNext(j, p)
  <2>1. CASE header[<<j, p>>] = "closed"
    BY <2>1 DEF AdvInv, NextExists
  <2>2. CASE ctl[h].pc = "finish" /\ <<j, p>> = <<ctl[h].j, CurPage(h)>>
    <3>1. Working(h)
      BY <2>2, InCallPlace, CallPlace
    <3>2. Finishing(h)
      BY <3>1 DEF AdvInv, InStep
    <3> QED BY <2>2, <3>2 DEF Finishing, HasNext
  <2> QED BY <1>2, <2>1, <2>2, HeaderMoves
<1>3. NextExists'
  BY <1>1, <1>2, HasNextKept DEF NextExists
<1> QED BY <1>1, <1>3

(* The other clients. *)
LEMMA OthersAdv ==
    ASSUME EngineInv, ClientInv, OwnerInv, AdvInv, up, NEW h \in Handlers,
           Call(h) \/ InCall(h), NEW g \in Handlers \ {h}
    PROVE  Kept(g)'
<1>1. ctl'[g] = ctl[g] /\ jr'[g] = jr[g] /\ Grows /\ NoneRevived
  BY CallIsCalm, ClientGrows, StoresOwn DEF OthersCalm
<1>2. ASSUME Working(g), NEW j \in Journals, jr[g][j].slot # NoSlot
      PROVE  comm'[jr[g][j].slot] = comm[jr[g][j].slot]
  <2>1. CASE UNCHANGED comm
    BY <2>1
  <2>2. CASE comm' # comm
    <3>1. /\ Working(h) /\ ctl[h].pc \in WithSlot
          /\ \A s \in Slots \ {Slot(h)} : comm'[s] = comm[s]
      BY <2>2, StoresOwn
    <3>2. ctl[h].j \in Journals /\ Slot(h) = jr[h][ctl[h].j].slot
      BY <3>1, Place DEF WithJournal
    <3>3. jr[g][j].slot \in Slots /\ jr[g][j].slot # Slot(h)
      BY <1>2, <3>1, <3>2, SlotIsMine DEF Working
    <3> QED BY <3>1, <3>3
  <2> QED BY <2>1, <2>2
<1>3. Working(g) => SlotsKept(g)
  BY <1>2 DEF SlotsKept
<1>4. Working(g) => StatusKept(g)
  BY <1>2, Place DEF StatusKept, WithSlot, WithJournal, Asking
<1> QED BY <1>1, <1>3, <1>4, ClientKept

-----------------------------------------------------------------------------
(* The client that takes the step. *)
LEMMA ContentsKept ==
    ASSUME NEW h \in Handlers, Contents(h),
           \A j \in Journals : jr'[h][j].slot = jr[h][j].slot,
           \A j \in Journals : Filled(h, j)' => Filled(h, j),
           \A j \in Journals : jr[h][j].slot # NoSlot =>
             /\ comm'[jr[h][j].slot].journal = comm[jr[h][j].slot].journal
             /\ comm'[jr[h][j].slot].is_writer = comm[jr[h][j].slot].is_writer
    PROVE  Contents(h)'
BY DEF Contents, Filled

(* The stores of register_journal and getPage. *)
LEMMA FillAdv ==
    ASSUME EngineInv, ClientInv, NEW h \in Handlers, FillSlot(h), Apart(h), Contents(h)
    PROVE  Contents(h)' /\ InStep(h)'
<1> DEFINE c == ctl[h].j
<1>1. /\ c \in Journals /\ Slot(h) = jr[h][c].slot /\ Slot(h) \in Slots
      /\ ctl[h].pc = "fill"
  BY Place DEF FillSlot, At, WithSlot, WithJournal
<1>2. /\ ctl'[h].j = c /\ ctl'[h].pc = "hold" /\ UNCHANGED jr
      /\ comm' = [comm EXCEPT ![Slot(h)].journal = c, ![Slot(h)].is_writer = h \in Writers]
  BY DEF FillSlot, GoTo, StoreJournal, ClientInv, Ctl
<1>3. /\ \A s \in Slots \ {Slot(h)} : comm'[s] = comm[s]
      /\ comm'[Slot(h)].journal = c
      /\ comm'[Slot(h)].is_writer = (h \in Writers)
  BY <1>1, <1>2 DEF EngineInv, TypeOK, PageCommMsg
<1>4. ASSUME NEW j \in Journals, jr[h][j].slot # NoSlot
      PROVE  /\ comm'[jr[h][j].slot].journal = j
             /\ comm'[jr[h][j].slot].is_writer = (h \in Writers)
  <2>1. CASE j = c
    BY <1>1, <1>3, <2>1
  <2>2. CASE j # c
    <3>1. jr[h][j].slot \in Slots \ {Slot(h)}
      BY <1>1, <1>4, <2>2, Place DEF Apart
    <3>2. Filled(h, j)
      BY <1>4, <2>2 DEF Filled
    <3> QED BY <1>3, <3>1, <3>2 DEF Contents
  <2> QED BY <2>1, <2>2
<1>5. Contents(h)'
  BY <1>2, <1>4 DEF Contents, Filled
<1> QED BY <1>2, <1>5, Quiet DEF Asking

LEMMA StoreAdv ==
    ASSUME EngineInv, ClientInv, NEW h \in Handlers, Contents(h), InStep(h),
           HoldSlot(h) \/ PostPageNum(h) \/ PostRequest(h)
    PROVE  Contents(h)' /\ InStep(h)'
<1>1. /\ ctl[h].j \in Journals /\ Slot(h) \in Slots
      /\ ctl[h].pc \in {"hold", "post", "send"} /\ UNCHANGED <<jr, header>>
  BY Place DEF HoldSlot, PostPageNum, PostRequest, At, WithSlot, WithJournal, Asking
<1>2. \A s \in Slots : /\ comm'[s].journal = comm[s].journal
                       /\ comm'[s].is_writer = comm[s].is_writer
  BY DEF HoldSlot, PostPageNum, PostRequest, StoreStatus, StorePageNum,
         EngineInv, TypeOK, PageCommMsg
<1>3. ctl'[h].pc \notin {"check", "fill"}
  BY DEF HoldSlot, PostPageNum, PostRequest, GoTo, ClientInv, Ctl
<1>4. Contents(h)'
  <2>1. \A j \in Journals : Filled(h, j)' => Filled(h, j)
    BY <1>1 DEF Filled
  <2> QED BY <1>1, <1>2, <2>1, ContentsKept, Place
<1>5. CASE HoldSlot(h)
  <2>1. ctl'[h].pc \in {"scan", "ready"}
    BY <1>5 DEF HoldSlot, GoTo, ClientInv, Ctl
  <2> QED BY <1>4, <2>1, Quiet DEF Asking
<1>6. CASE PostPageNum(h)
  <2>1. /\ ctl[h].pc = "post" /\ ctl' = [ctl EXCEPT ![h].pc = "send"]
        /\ comm'[Slot(h)].page_num = ctl[h].target
    BY <1>1, <1>6 DEF PostPageNum, StorePageNum, GoTo, At, EngineInv, TypeOK, PageCommMsg
  <2>2. /\ ctl'[h].pc = "send" /\ ctl'[h].j = ctl[h].j /\ ctl'[h].op = ctl[h].op
        /\ ctl'[h].target = ctl[h].target
    BY <2>1 DEF ClientInv, Ctl
  <2>3. Slot(h)' = Slot(h) /\ CurPage(h)' = CurPage(h)
    BY <1>1, <2>2 DEF Slot, CurPage
  <2> QED BY <1>1, <1>4, <2>1, <2>2, <2>3
          DEF InStep, Posted, Turns, Turning, Answers, Finishing, Asking
<1>7. CASE PostRequest(h)
  <2>1. /\ ctl[h].pc = "send" /\ ctl' = [ctl EXCEPT ![h].pc = "spin"]
        /\ comm'[Slot(h)].page_num = comm[Slot(h)].page_num
        /\ comm'[Slot(h)].status = "REQUESTING"
    BY <1>1, <1>7 DEF PostRequest, StoreStatus, GoTo, At, EngineInv, TypeOK, PageCommMsg
  <2>2. /\ ctl'[h].pc = "spin" /\ ctl'[h].j = ctl[h].j /\ ctl'[h].op = ctl[h].op
        /\ ctl'[h].target = ctl[h].target
    BY <2>1 DEF ClientInv, Ctl
  <2>3. Slot(h)' = Slot(h) /\ CurPage(h)' = CurPage(h)
    BY <1>1, <2>2 DEF Slot, CurPage
  <2> QED BY <1>1, <1>4, <2>1, <2>2, <2>3
          DEF InStep, Posted, Turns, Turning, Answers, Finishing, Asking
<1> QED BY <1>5, <1>6, <1>7, <1>4

(* The steps that leave the comm file alone keep the contents of the slots. *)
LEMMA NoStoreKeeps ==
    ASSUME ClientInv, NEW h \in Handlers, Call(h) \/ InCall(h), UNCHANGED comm,
           Contents(h), ctl[h].pc # "fill", ctl'[h].pc # "bye"
    PROVE  Contents(h)'
<1>1. \A j \in Journals : jr'[h][j].slot = jr[h][j].slot
  BY CallIsCalm DEF HandlerCalm
<1>2. CASE ctl[h].pc \notin {"check", "fill"}
  <2>1. \A j \in Journals : Filled(h, j)' => Filled(h, j)
    BY <1>1, <1>2 DEF Filled
  <2> QED BY <1>1, <2>1, ContentsKept
<1>3. CASE CheckSlot(h)
  <2>1. ctl[h].pc = "check" /\ ctl'[h].pc = "fill" /\ ctl'[h].j = ctl[h].j
    BY <1>3 DEF CheckSlot, At, GoTo, ClientInv, Ctl
  <2>2. \A j \in Journals : Filled(h, j)' => Filled(h, j)
    BY <1>1, <2>1 DEF Filled
  <2> QED BY <1>1, <2>2, ContentsKept
<1>4. ctl[h].pc = "check" => CheckSlot(h)
  BY CallPlace DEF InCall, At, FillSlot, HoldSlot, GetPageNums, PostPageNum,
     PostRequest, GetPageThrows, SeekReturns, ExpireReturns, ReaderNextReturns,
     WriterNextReturns, Answered, finishPage, WriterTurn, LocateEnd
<1> QED BY <1>2, <1>3, <1>4

(* What a client has when it begins to ask for a page ... *)
LEMMA AskAdv ==
    ASSUME ClientInv, NEW h \in Handlers, Call(h) \/ InCall(h), InStep(h),
           ctl'[h].pc = "post"
    PROVE  InStep(h)'
<1>1. CASE GetPageNums(h)
  <2>1. ctl[h].pc = "scan" /\ ctl'[h].op = ctl[h].op /\ ctl[h].op = "seek"
    BY <1>1 DEF GetPageNums, At, ClientInv, Ctl, HandlerOK
  <2> QED BY <2>1 DEF InStep, Posted, Turns, Turning, Answers, Finishing
<1>2. ASSUME NEW j \in Journals, expire(h, j) PROVE InStep(h)'
  <2>1. ctl'[h].op = "expire"
    BY <1>2 DEF expire, ClientInv, Ctl
  <2> QED BY <2>1 DEF InStep, Posted, Turns, Turning, Answers, Finishing
<1>3. ASSUME NEW j \in Journals, ReaderLocate(h, j) PROVE InStep(h)'
  <2>1. /\ ctl'[h].j = j /\ ctl'[h].target = jr[h][j].page + 1
        /\ jr[h][j].page # NoPage => header[<<j, jr[h][j].page>>] = "closed"
        /\ UNCHANGED <<jr, header>>
    BY <1>3 DEF ReaderLocate, ClientInv, Ctl
  <2> QED BY <2>1 DEF InStep, Posted, Turns, Turning, Answers, Finishing, CurPage
<1>4. ASSUME NEW where, WriterTurn(h, where) PROVE InStep(h)'
  <2>1. /\ ctl'[h].j = ctl[h].j /\ ctl'[h].target = CurPage(h) + 1
        /\ h \in Writers /\ UNCHANGED jr
    BY <1>4 DEF WriterTurn, ClientInv, Ctl
  <2>2. CurPage(h)' = CurPage(h)
    BY <2>1 DEF CurPage
  <2> QED BY <2>1, <2>2 DEF InStep, Posted, Turns, Turning, Answers, Finishing
<1>5. CASE write_frame(h) \/ write_null(h)
  BY <1>5 DEF write_frame, write_null, CanAppend, At, clientVars
<1>6. ASSUME NEW j \in Journals, addJournal(h, j) \/ seekTime(h, j) PROVE FALSE
  BY <1>6 DEF addJournal, seekTime, ClientInv, Ctl
<1>7. ~(register_client(h) \/ exit(h) \/ CheckSlot(h) \/ FillSlot(h) \/ HoldSlot(h))
  BY DEF register_client, exit, CheckSlot, FillSlot, HoldSlot, GoTo, ClientInv, Ctl
<1>8. ~(PostPageNum(h) \/ PostRequest(h) \/ GetPageThrows(h) \/ SeekReturns(h)
        \/ ExpireReturns(h))
  BY DEF PostPageNum, PostRequest, GetPageThrows, SeekReturns, ExpireReturns, GoTo,
         ClientInv, Ctl
<1>9. ~(ReaderNextReturns(h) \/ WriterNextReturns(h) \/ finishPage(h) \/ LocateEnd(h))
  BY DEF ReaderNextReturns, WriterNextReturns, finishPage, LocateEnd, GoTo, ClientInv, Ctl
<1> QED BY <1>1, <1>2, <1>3, <1>4, <1>5, <1>6, <1>7, <1>8, <1>9 DEF Call, InCall

(* ... and what it has got when the next page has been loaded: there is     *)
(* one, for a reader because the page it comes from is closed.              *)
LEMMA NextPageLoads ==
    ASSUME ClientInv, AdvInv, up, NEW h \in Handlers, Answered(h),
           ctl[h].op = "next", CurPage(h) # NoPage,
           comm[Slot(h)].status # "MORE_THAN_ONE_WRITE"
    PROVE  /\ LoadedPage(h) = CurPage(h) + 1
           /\ LoadedPage(h) \in Pages
           /\ <<ctl[h].j, LoadedPage(h)>> \in book.files
<1>1. Working(h) /\ Turning(h) /\ ctl[h].pc = "spin" /\ NextExists /\ InStep(h)
  BY DEF AdvInv, Answered, At, Working, Member, Turning, Asking
<1>2. /\ comm[Slot(h)].status = "ALLOCATED"
      /\ <<ctl[h].j, ctl[h].target>> \in book.files
  BY <1>1 DEF InStep, Answers, Answered
<1>3. ctl[h].target = CurPage(h) + 1
  BY <1>1 DEF InStep, Turns
<1>4. ctl[h].j \in Journals /\ CurPage(h) \in Pages
  BY <1>1, Place DEF CurPage, WithJournal, WithSlot, Asking
<1>5. CASE h \in Writers
  <2>1. CurPage(h) \in 1..(MaxPage - 1)
    BY <1>1, <1>5 DEF ClientInv, HandlerOK, CurPage, Turning
  <2>2. ctl[h].target \in Pages
    BY <1>3, <2>1, EngineAssumption DEF Pages
  <2> QED BY <1>2, <1>3, <1>5, <2>2 DEF LoadedPage
<1>6. CASE h \notin Writers
  <2>1. HasNext(ctl[h].j, CurPage(h))
    BY <1>1, <1>4, <1>6 DEF InStep, Turns, NextExists
  <2> QED BY <1>2, <1>3, <1>6, <2>1 DEF LoadedPage, HasNext
<1> QED BY <1>5, <1>6

LEMMA LoadAdv ==
    ASSUME EngineInv, ClientInv, AdvInv, up, NEW h \in Handlers, WriterNextReturns(h)
    PROVE  InStep(h)'
<1>1. /\ Answered(h) /\ ctl[h].op = "next" /\ ctl[h].pc = "spin" /\ h \in Writers
      /\ comm[Slot(h)].status # "MORE_THAN_ONE_WRITE"
      /\ UNCHANGED <<jr, book>>
  BY DEF WriterNextReturns, Answered, At, engineVars
<1>2. CurPage(h) \in 1..(MaxPage - 1) /\ ctl[h].j \in Journals
  BY <1>1, Place DEF ClientInv, HandlerOK, CurPage, WithJournal, WithSlot, Asking
<1>3. CurPage(h) # NoPage
  BY <1>2 DEF NoPage
<1>4. /\ LoadedPage(h) = CurPage(h) + 1 /\ LoadedPage(h) \in Pages
      /\ <<ctl[h].j, LoadedPage(h)>> \in book.files
  BY <1>1, <1>3, NextPageLoads
<1>5. PICK p \in Pages : p = LoadedPage(h) /\ p # NoPage
  BY <1>4 DEF Pages, NoPage
<1>6. /\ ctl'[h].pc = "finish" /\ ctl'[h].target = p /\ ctl'[h].j = ctl[h].j
  BY <1>5 DEF WriterNextReturns, ClientInv, Ctl
<1>7. header'[<<ctl[h].j, p>>] # "raw"
  BY <1>1, <1>2, <1>5 DEF WriterNextReturns, InitHeader, ClientInv, HeaderOK
<1>8. CurPage(h)' = CurPage(h)
  BY <1>1, <1>6 DEF CurPage
<1> QED BY <1>1, <1>4, <1>5, <1>6, <1>7, <1>8
        DEF InStep, Posted, Turns, Turning, Answers, Finishing, HasNext, Asking

(* Which steps store, and which lead into getPage and finishPage. *)
LEMMA StepsInto ==
    ASSUME ClientInv, NEW h \in Handlers, Call(h) \/ InCall(h)
    PROVE  /\ ctl[h].pc = "fill" => FillSlot(h)
           /\ \/ FillSlot(h) \/ HoldSlot(h) \/ PostPageNum(h) \/ PostRequest(h)
              \/ UNCHANGED comm
           /\ ctl'[h].pc \in {"send", "spin"} => PostPageNum(h) \/ PostRequest(h)
           /\ ctl'[h].pc = "finish" => WriterNextReturns(h)
<1>1. CASE Call(h)
  <2>1. UNCHANGED comm
    BY <1>1, CallKeeps DEF engineVars, Kill
  <2>2. ctl[h].pc # "fill"
    BY <1>1, CallPlace
  <2>3. CASE write_frame(h) \/ write_null(h)
    <3>1. ctl' = ctl /\ ctl[h].pc = "ready"
      BY <2>3 DEF write_frame, CanAppend, write_null, At, clientVars
    <3> QED BY <2>1, <3>1
  <2>4. CASE register_client(h) \/ exit(h) \/ WriterTurn(h, "ready")
    <3>1. ctl'[h].pc \in {"regclient", "bye", "post"}
      BY <2>4 DEF register_client, exit, WriterTurn, GoTo, ClientInv, Ctl
    <3> QED BY <2>1, <2>2, <3>1
  <2>5. ASSUME NEW j \in Journals,
               addJournal(h, j) \/ seekTime(h, j) \/ expire(h, j) \/ ReaderLocate(h, j)
        PROVE  ctl'[h].pc \in {"regjournal", "scan", "post"}
    BY <2>5 DEF addJournal, seekTime, expire, ReaderLocate, ClientInv, Ctl
  <2> QED BY <1>1, <2>1, <2>2, <2>3, <2>4, <2>5 DEF Call
<1>2. CASE FillSlot(h) \/ HoldSlot(h)
  <2>1. /\ ctl[h].pc \in {"fill", "hold"} /\ (ctl[h].pc = "fill" => FillSlot(h))
        /\ ctl'[h].pc \in {"hold", "scan", "ready"}
    BY <1>2 DEF FillSlot, HoldSlot, At, GoTo, ClientInv, Ctl
  <2> QED BY <1>2, <2>1
<1>3. CASE PostPageNum(h) \/ PostRequest(h)
  <2>1. ctl[h].pc \in {"post", "send"} /\ ctl'[h].pc \in {"send", "spin"}
    BY <1>3 DEF PostPageNum, PostRequest, At, GoTo, ClientInv, Ctl
  <2> QED BY <1>3, <2>1
<1>5. CASE CheckSlot(h) \/ GetPageNums(h)
  <2>1. /\ ctl[h].pc \in {"check", "scan"} /\ ctl'[h].pc \in {"fill", "bye", "post"}
        /\ UNCHANGED comm
    BY <1>5 DEF CheckSlot, GetPageNums, At, GoTo, ClientInv, Ctl, engineVars
  <2> QED BY <2>1
<1>6. CASE GetPageThrows(h) \/ SeekReturns(h) \/ ExpireReturns(h) \/ ReaderNextReturns(h)
  <2>1. /\ ctl[h].pc = "spin" /\ ctl'[h].pc \in {"bye", "locate", "ready"}
        /\ UNCHANGED comm
    BY <1>6 DEF GetPageThrows, SeekReturns, ExpireReturns, ReaderNextReturns, Answered,
                At, GoTo, ClientInv, Ctl, engineVars
  <2> QED BY <2>1
<1>7. CASE WriterNextReturns(h)
  <2>1. ctl[h].pc = "spin" /\ ctl'[h].pc = "finish" /\ UNCHANGED comm
    BY <1>7 DEF WriterNextReturns, Answered, At, ClientInv, Ctl, engineVars
  <2> QED BY <1>7, <2>1
<1>4. CASE finishPage(h) \/ WriterTurn(h, "locate") \/ LocateEnd(h)
  BY <1>4 DEF finishPage, WriterTurn, LocateEnd, At, GoTo, ClientInv, Ctl, engineVars, Kill
<1> QED BY <1>1, <1>2, <1>3, <1>4, <1>5, <1>6, <1>7 DEF InCall

LEMMA OwnAdv ==
    ASSUME EngineInv, ClientInv, OwnerInv, AdvInv, up, NEW h \in Handlers,
           Call(h) \/ InCall(h)
    PROVE  Kept(h)'
<1>1. OthersCalm(h) /\ HandlerCalm(h) /\ NoneRevived
  BY CallIsCalm, StoresOwn
<1>2. Member(h)' => Member(h)
  <2>1. Pid[h] \in Pids
    BY EngineAssumption
  <2> QED BY <1>1, <2>1 DEF Member, Running, HandlerCalm, Outside, NoneRevived
<1>3. Member(h) => Apart(h)'
  BY <1>1 DEF AdvInv, Apart, HandlerCalm
<1>4. ASSUME Working(h)' PROVE Contents(h)' /\ InStep(h)'
  <2>1. Working(h)
    BY <1>2, <1>4, CallPlace, InCallPlace DEF Working
  <2>2. Contents(h) /\ InStep(h) /\ Apart(h)
    BY <2>1 DEF AdvInv, Working
  <2>3. CASE FillSlot(h)
    BY <2>2, <2>3, FillAdv
  <2>4. CASE HoldSlot(h) \/ PostPageNum(h) \/ PostRequest(h)
    BY <2>2, <2>4, StoreAdv
  <2>5. CASE ~(FillSlot(h) \/ HoldSlot(h) \/ PostPageNum(h) \/ PostRequest(h))
    <3>1. Contents(h)'
      BY <1>4, <2>2, <2>5, StepsInto, NoStoreKeeps DEF Working
    <3>2. CASE ctl'[h].pc = "post"
      BY <2>2, <3>1, <3>2, AskAdv
    <3>3. CASE ctl'[h].pc = "finish"
      BY <3>1, <3>3, StepsInto, LoadAdv
    <3>4. CASE ctl'[h].pc \notin {"post", "finish"}
      BY <2>5, <3>1, <3>4, StepsInto, Quiet DEF Asking
    <3> QED BY <3>1, <3>2, <3>3, <3>4
  <2> QED BY <2>3, <2>4, <2>5
<1> QED BY <1>2, <1>3, <1>4 DEF Kept, Working

-----------------------------------------------------------------------------
LEMMA AdvStep ==
    ASSUME ~Outages, Foreign = {}, EngineInv, ClientInv, OwnerInv, AdvInv,
           [ServiceNext]_vars
    PROVE  AdvInv'
<1>1. CASE UNCHANGED vars
  <2>1. UNCHANGED <<ctl, jr, header, alive, comm, book, up>>
    BY <1>1 DEF vars, engineVars, clientVars
  <2>2. CASE up
    <3>1. Grows /\ NoneRevived /\ \A g \in Handlers : SlotsKept(g) /\ StatusKept(g)
      BY <2>1 DEF Grows, NoneRevived, SlotsKept, StatusKept
    <3>2. NextExists'
      BY <2>1, <2>2, <3>1, NextKept DEF AdvInv
    <3>3. \A g \in Handlers : Kept(g)'
      BY <2>1, <2>2, <3>1, ClientKept
    <3> QED BY <3>2, <3>3 DEF AdvInv, Kept
  <2>3. CASE ~up
    BY <2>1, <2>3 DEF AdvInv
  <2> QED BY <2>2, <2>3
<1>2. ASSUME NEW s \in Slots, EngineExitSlot(s) PROVE AdvInv'
  BY <1>2, ExitSlotAdv DEF EngineExitSlot
<1>3. CASE EngineTask
  BY <1>3, TaskAdv DEF EngineTask
<1>4. CASE EngineComm
  BY <1>4, CommAdv DEF EngineComm
<1>5. CASE SocketStep
  BY <1>5, ServeClientAdv, ServeJournalAdv, ServeExitAdv DEF SocketStep
<1>6. ASSUME NEW h \in Handlers, InCall(h) \/ Call(h) PROVE AdvInv'
  <2> SUFFICES ASSUME up' PROVE AdvInv'
    BY DEF AdvInv
  <2>1. up
    BY <1>6, StoresOwn
  <2>2. NextExists'
    BY <1>6, <2>1, ClientGrows
  <2>3. \A g \in Handlers : Kept(g)'
    BY <1>6, <2>1, OwnAdv, OthersAdv
  <2> QED BY <2>2, <2>3 DEF AdvInv, Kept
<1>7. ASSUME NEW h \in Handlers, ClientUnanswered(h) \/ JournalUnanswered(h)
      PROVE  AdvInv'
  <2>1. ~up'
    BY <1>7 DEF ClientUnanswered, JournalUnanswered, engineVars, Kill, othersUnchanged
  <2> QED BY <2>1 DEF AdvInv
<1>8. ASSUME NEW p \in Pids, KillProcess(p) PROVE AdvInv'
  BY <1>8, KillAdv DEF KillProcess
<1>9. ~EngineStops /\ ~EngineRestarts
  BY DEF EngineStops, EngineRestarts, EngineDies, start
<1> QED BY <1>1, <1>2, <1>3, <1>4, <1>5, <1>6, <1>7, <1>8, <1>9 DEF ServiceNext

LEMMA AdvStart == ServiceInit => AdvInv
<1> SUFFICES ASSUME ServiceInit PROVE AdvInv
  OBVIOUS
<1>1. NextExists
  <2> SUFFICES ASSUME NEW j \in Journals, NEW p \in Pages, header[<<j, p>>] = "closed"
               PROVE  HasNext(j, p)
    BY DEF NextExists
  <2>1. <<j, p + 1>> \in OnDisk
    BY DEF ServiceInit
  <2>2. p + 1 \in Pages
    BY <2>1, EngineAssumption DEF Pages
  <2>3. header[<<j, p + 1>>] # "raw"
    BY <2>1, <2>2 DEF ServiceInit
  <2>4. book.files = OnDisk
    BY DEF ServiceInit, Init, EmptyBook
  <2> QED BY <2>1, <2>2, <2>3, <2>4 DEF HasNext
<1>2. \A h \in Handlers : ~Member(h)
  BY DEF ServiceInit, Member
<1> QED BY <1>1, <1>2 DEF AdvInv, Working

(* What the engine and the clients know of each other in getPage. *)
THEOREM ServiceInStep ==
    ASSUME ~Outages, Foreign = {} PROVE ServiceSpec => []AdvInv
<1>1. ServiceInit => ClientInv /\ OwnerInv /\ AdvInv
  BY ServiceStart, OwnerStart, AdvStart
<1>2. EngineInv /\ ClientInv /\ OwnerInv /\ AdvInv /\ [ServiceNext]_vars
        => ClientInv' /\ OwnerInv' /\ AdvInv'
  BY ServiceStep, OwnerStep, AdvStep
<1>3. Spec => []EngineInv
  BY EngineInvariant
<1>4. ServiceSpec => Spec
  BY ServiceImplementsEngine DEF ImplementsEngine
<1> QED BY <1>1, <1>2, <1>3, <1>4, PTL DEF ServiceSpec

(* Journal::loadNextPage at the end of a page gets the next page and never  *)
(* null, which would send the reader back to page 1.                        *)
THEOREM ServiceReaderAdvances ==
    ASSUME ~Outages, Foreign = {} PROVE ServiceSpec => ReaderAdvances
<1> DEFINE Advance ==
      up => \A h \in Handlers \ Writers : \A j \in Journals :
         (ReaderNextReturns(h) /\ ctl[h].j = j /\ jr[h][j].page # NoPage)
            => jr'[h][j].page = jr[h][j].page + 1
<1>1. ClientInv /\ AdvInv => [Advance]_vars
  <2> SUFFICES ASSUME ClientInv, AdvInv, up, NEW h \in Handlers \ Writers, NEW j \in Journals,
                      ReaderNextReturns(h), ctl[h].j = j, jr[h][j].page # NoPage
               PROVE  jr'[h][j].page = jr[h][j].page + 1
    OBVIOUS
  <2>1. /\ Answered(h) /\ ctl[h].op = "next" /\ CurPage(h) = jr[h][j].page
        /\ jr' = [jr EXCEPT ![h][j].page = LoadedPage(h)] /\ ctl[h].pc = "spin"
    BY DEF ReaderNextReturns, CurPage, Answered, At
  <2>2. comm[Slot(h)].status # "MORE_THAN_ONE_WRITE"
    <3>1. Working(h) /\ Turning(h)
      BY <2>1 DEF Answered, At, Working, Member, Turning, Asking
    <3> QED BY <2>1, <3>1 DEF AdvInv, InStep, Answers
  <2>3. LoadedPage(h) = jr[h][j].page + 1
    BY <2>1, <2>2, NextPageLoads
  <2> QED BY <2>1, <2>3 DEF ClientInv, JournalState
<1>2. ServiceSpec => []AdvInv
  BY ServiceInStep
<1>3. ServiceInit => ClientInv
  BY ServiceStart
<1>4. ClientInv /\ [ServiceNext]_vars => ClientInv'
  BY ServiceStep
<1>5. ServiceSpec => [][Advance]_vars
  BY <1>1, <1>2, <1>3, <1>4, PTL DEF ServiceSpec
<1> QED BY <1>5 DEF ReaderAdvances
=============================================================================
