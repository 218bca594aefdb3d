------------------------- MODULE PageEngineProofs --------------------------
(***************************************************************************)
(* EngineInv, the inductive invariant of PageEngine, proved for every      *)
(* number of handlers, processes, journals, slots and pages, and for       *)
(* clients that store into the comm file what they like, when they like.   *)
(***************************************************************************)
EXTENDS PageEngine, TLAPS

(* The book keeps its shape: what release_page and initiate_page need and   *)
(* give, without reference to the state.                                    *)
GoodBook(b) ==
    /\ b \in Book
    /\ \A k \in Keys : k \in b.addrs <=> Held(b, k)
    /\ \A k \in Keys : b.writers[k] <= 1
    /\ b.addrs \subseteq b.files

(* release_page never breaks the book, whether or not the caller's page was *)
(* counted (PageEngine::release_page looks the key up before decrementing). *)
LEMMA ReleaseKeepsBook ==
    ASSUME NEW b, GoodBook(b), NEW k \in Keys, NEW w \in BOOLEAN
    PROVE  GoodBook(release_page(b, k, w))
<1>1. CASE w
  <2> DEFINE f == [b.writers EXCEPT ![k] = b.writers[k] - 1]
             c == [b EXCEPT !.writers = f]
             d == [c EXCEPT !.addrs = @ \ {k}]
  <2>1. CASE b.writers[k] = 0
    BY <1>1, <2>1 DEF release_page
  <2>2. CASE b.writers[k] # 0
    <3>0. f \in [Keys -> Nat]
      BY <2>2 DEF GoodBook, Book
    <3>1. c \in Book /\ d \in Book
      BY <3>0 DEF GoodBook, Book
    <3>2. CASE b.readers[k] = 0
      <4>1. release_page(b, k, w) = d
        BY <1>1, <2>2, <3>2 DEF release_page, GoodBook, Book
      <4>2. GoodBook(d)
        BY <2>2, <3>1, <3>2 DEF GoodBook, Book, Held
      <4> QED BY <4>1, <4>2
    <3>3. CASE b.readers[k] # 0
      <4>1. release_page(b, k, w) = c
        BY <1>1, <2>2, <3>3 DEF release_page
      <4>2. GoodBook(c)
        BY <2>2, <3>1, <3>3 DEF GoodBook, Book, Held
      <4> QED BY <4>1, <4>2
    <3> QED BY <3>2, <3>3
  <2> QED BY <2>1, <2>2
<1>2. CASE ~w
  <2> DEFINE f == [b.readers EXCEPT ![k] = b.readers[k] - 1]
             c == [b EXCEPT !.readers = f]
             d == [c EXCEPT !.addrs = @ \ {k}]
  <2>1. CASE b.readers[k] = 0
    BY <1>2, <2>1 DEF release_page
  <2>2. CASE b.readers[k] # 0
    <3>0. f \in [Keys -> Nat]
      BY <2>2 DEF GoodBook, Book
    <3>1. c \in Book /\ d \in Book
      BY <3>0 DEF GoodBook, Book
    <3>2. CASE b.readers[k] = 1 /\ b.writers[k] = 0
      <4>1. release_page(b, k, w) = d
        BY <1>2, <3>2 DEF release_page
      <4>2. GoodBook(d)
        BY <2>2, <3>1, <3>2 DEF GoodBook, Book, Held
      <4> QED BY <4>1, <4>2
    <3>3. CASE ~(b.readers[k] = 1 /\ b.writers[k] = 0)
      <4>1. release_page(b, k, w) = c
        BY <1>2, <2>2, <3>3 DEF release_page
      <4>2. GoodBook(c)
        BY <2>2, <3>1, <3>3 DEF GoodBook, Book, Held
      <4> QED BY <4>1, <4>2
    <3> QED BY <3>2, <3>3
  <2> QED BY <2>1, <2>2
<1> QED BY <1>1, <1>2

(* initiate_page keeps the book and answers with one of the four statuses   *)
(* (PageEngine::initiate_page).                                             *)
LEMMA InitiateKeepsBook ==
    ASSUME NEW b, GoodBook(b), NEW k \in Keys, NEW w \in BOOLEAN
    PROVE  /\ GoodBook(initiate_page(b, k, w).book)
           /\ initiate_page(b, k, w).status \in Status \ {"RAW"}
<1> DEFINE missing == k \notin b.addrs \cup b.files
           m == MapPage(b, k)
           r == initiate_page(b, k, w)
<1>4. /\ m \in Book
      /\ m.writers = b.writers /\ m.readers = b.readers
      /\ m.addrs = b.addrs \cup {k} /\ m.files = b.files \cup {k}
  BY DEF GoodBook, Book, MapPage
<1>1. CASE missing /\ ~w
  BY <1>1 DEF initiate_page, Status
<1>2. CASE missing /\ w /\ b.temp /\ k[1] \in Foreign
  BY <1>2 DEF initiate_page, Status
<1>3. CASE ~(missing /\ ~w) /\ ~(missing /\ b.temp /\ k[1] \in Foreign)
  <2>1. CASE w /\ b.writers[k] > 0
    <3>1. r = [book |-> m, status |-> "MORE_THAN_ONE_WRITE"]
      BY <1>3, <2>1 DEF initiate_page
    <3>2. GoodBook(m)
      BY <2>1 DEF GoodBook, Book, Held, MapPage
    <3> QED BY <3>1, <3>2 DEF Status
  <2>2. CASE w /\ ~(b.writers[k] > 0)
    <3>1. r = [book |-> [m EXCEPT !.writers[k] = 1], status |-> "ALLOCATED"]
      BY <1>3, <2>2 DEF initiate_page
    <3>2. [b.writers EXCEPT ![k] = 1] \in [Keys -> Nat]
      BY DEF GoodBook, Book
    <3>3. [m EXCEPT !.writers[k] = 1] =
             [m EXCEPT !.writers = [b.writers EXCEPT ![k] = 1]]
      BY <1>4
    <3>4. GoodBook([m EXCEPT !.writers = [b.writers EXCEPT ![k] = 1]])
      BY <1>4, <2>2, <3>2 DEF GoodBook, Book, Held
    <3> QED BY <3>1, <3>3, <3>4 DEF Status
  <2>3. CASE ~w
    <3>1. r = [book |-> [m EXCEPT !.readers[k] = @ + 1], status |-> "ALLOCATED"]
      BY <1>3, <2>3 DEF initiate_page
    <3>2. [b.readers EXCEPT ![k] = b.readers[k] + 1] \in [Keys -> Nat]
      BY DEF GoodBook, Book
    <3>3. [m EXCEPT !.readers[k] = @ + 1] =
             [m EXCEPT !.readers = [b.readers EXCEPT ![k] = b.readers[k] + 1]]
      BY <1>4
    <3>4. GoodBook([m EXCEPT !.readers =
                               [b.readers EXCEPT ![k] = b.readers[k] + 1]])
      BY <1>4, <2>3, <3>2 DEF GoodBook, Book, Held
    <3> QED BY <3>1, <3>3, <3>4 DEF Status
  <2> QED BY <2>1, <2>2, <2>3
<1> QED BY <1>1, <1>2, <1>3

(* Serving a request keeps the book and never answers RAW (start_comm). *)
LEMMA ServeKeepsBook ==
    ASSUME NEW b, GoodBook(b), NEW m \in PageCommMsg
    PROVE  /\ GoodBook(ServeRequest(b, m).book)
           /\ ServeRequest(b, m).status \in Status \ {"RAW"}
<1> DEFINE b1 == IF m.last_page_num > 0 /\ m.last_page_num # m.page_num
                 THEN release_page(b, <<m.journal, m.last_page_num>>,
                                   m.is_writer)
                 ELSE b
<1>1. /\ <<m.journal, m.last_page_num>> \in Keys
      /\ <<m.journal, m.page_num>> \in Keys
      /\ m.is_writer \in BOOLEAN
  BY DEF PageCommMsg, Keys
<1>2. GoodBook(b1)
  BY <1>1, ReleaseKeepsBook
<1> QED
  <2> HIDE DEF b1
  <2>1. ServeRequest(b, m) = initiate_page(b1, <<m.journal, m.page_num>>,
                                           m.is_writer)
    BY DEF ServeRequest, b1
  <2> QED BY <1>1, <1>2, <2>1, InitiateKeepsBook

(* The page book is well typed and consistent exactly when GoodBook holds of it. *)
LEMMA BookIsGood == TypeOK /\ BookOK <=> TypeOK /\ GoodBook(book)
BY DEF TypeOK, BookOK, GoodBook

-----------------------------------------------------------------------------
(* A freshly started engine (PageEngine::start): no client, RAW slots, no   *)
(* page mapped.                                                             *)
LEMMA InitHolds == Init => EngineInv
<1> SUFFICES ASSUME Init PROVE EngineInv
  OBVIOUS
<1> USE EngineAssumption
<1>1. 0 \in Slots /\ 0 \in PageNums
  BY DEF Slots, PageNums
<1>2. OnDisk \subseteq Keys
  BY DEF Keys, PageNums
<1>3. book \in Book
  BY <1>2 DEF Init, EmptyBook, Book
<1>4. comm \in [Slots -> PageCommMsg]
  BY <1>1 DEF Init, ZeroMsg, PageCommMsg, Status
<1>5. TypeOK
  BY <1>1, <1>3, <1>4 DEF Init, TypeOK
<1>6. BookOK
  BY DEF Init, EmptyBook, BookOK, Held
<1>7. RegistryOK /\ SlotsOK
  BY DEF Init, RegistryOK, SlotsOK, Owned, Visited
<1>8. LockOK
  BY DEF Init, LockOK
<1> QED BY <1>5, <1>6, <1>7, <1>8 DEF EngineInv

(* reg_client files a name under a pid only when the name is free. *)
LEMMA RegClientKeeps ==
    ASSUME EngineInv, NEW h \in Handlers, reg_client(h)
    PROVE  EngineInv'
<1> USE EngineAssumption DEF EngineInv, reg_client, Reply
<1>1. Name[h] \in Names /\ Pid[h] \in Pids /\ h # NoClient
  OBVIOUS
<1>2. TypeOK'
  BY <1>1 DEF TypeOK, registry, commVars, exitVars
<1>3. BookOK'
  BY DEF BookOK, Held
<1>4. RegistryOK'
  BY <1>1 DEF RegistryOK, TypeOK, registry
<1>5. SlotsOK'
  <2>1. user_index_vec' = user_index_vec
    <3>1. CASE clientJournals[Name[h]] = NoClient
      <4>1. user_index_vec[Name[h]] = {}
        BY <1>1, <3>1 DEF SlotsOK
      <4>2. user_index_vec' =
              [user_index_vec EXCEPT ![Name[h]] = user_index_vec[Name[h]]]
        BY <3>1, <4>1
      <4> QED BY <1>1, <4>2 DEF TypeOK
    <3>2. CASE clientJournals[Name[h]] # NoClient
      BY <3>2 DEF registry
    <3> QED BY <3>1, <3>2
  <2>2. \A n \in Names : clientJournals'[n] = NoClient => clientJournals[n] = NoClient
    BY <1>1 DEF TypeOK, registry
  <2> QED BY <2>1, <2>2 DEF SlotsOK, Owned, Visited, exitVars
<1>6. LockOK'
  BY <1>1 DEF LockOK, TypeOK, registry, exitVars, commVars
<1> QED BY <1>2, <1>3, <1>4, <1>5, <1>6

(* reg_journal takes a slot nobody owns and raises maxIdx over it. *)
LEMMA RegJournalKeeps ==
    ASSUME EngineInv, NEW h \in Handlers, reg_journal(h)
    PROVE  EngineInv'
<1> USE EngineAssumption DEF EngineInv, Reply
<1>1. Name[h] \in Names /\ Pid[h] \in Pids /\ h # NoClient
  OBVIOUS
<1>2. /\ BookOK'
      /\ RegistryOK'
      /\ exiting = NoClient /\ exiting' = NoClient
  BY DEF reg_journal, BookOK, Held, RegistryOK, LockOK, exitVars
<1>3. CASE UNCHANGED <<comm, maxIdx, user_index_vec>>
  <2>1. TypeOK'
    BY <1>1, <1>3 DEF reg_journal, TypeOK, commVars, exitVars
  <2>2. SlotsOK'
    BY <1>3 DEF reg_journal, SlotsOK, Owned, Visited, exitVars
  <2>3. LockOK'
    BY <1>3 DEF reg_journal, LockOK, exitVars, commVars
  <2> QED BY <1>2, <2>1, <2>2, <2>3
<1>4. ASSUME NEW s \in Slots, FirstRaw(s),
             maxIdx' = IF s > maxIdx THEN s ELSE maxIdx,
             comm' = [comm EXCEPT ![s].status = "OCCUPIED",
                                  ![s].last_page_num = 0],
             IF clientJournals[Name[h]] # NoClient
             THEN user_index_vec' =
                    [user_index_vec EXCEPT ![Name[h]] = @ \cup {s}]
             ELSE UNCHANGED user_index_vec
      PROVE  EngineInv'
  <2>1. /\ comm' \in [Slots -> PageCommMsg]
        /\ comm'[s].status = "OCCUPIED"
        /\ \A t \in Slots \ {s} : comm'[t] = comm[t]
    <3> DEFINE m == [comm[s] EXCEPT !.status = "OCCUPIED", !.last_page_num = 0]
    <3>1. comm[s] \in PageCommMsg /\ 0 \in PageNums
      BY DEF TypeOK, PageNums
    <3>2. m \in PageCommMsg /\ m.status = "OCCUPIED"
      BY <3>1 DEF PageCommMsg, Status
    <3>3. comm' = [comm EXCEPT ![s] = m]
      BY <1>4
    <3> HIDE DEF m
    <3> QED BY <3>2, <3>3 DEF TypeOK
  <2>2. TypeOK'
    BY <1>1, <1>4, <2>1 DEF reg_journal, TypeOK, commVars, exitVars
  <2>3. maxIdx \in Int /\ s \in Int /\ maxIdx' \in Int
    BY <1>4 DEF TypeOK, Slots
  <2>4. comm[s].status = "RAW"
    BY <1>4 DEF FirstRaw, RawSlots
  <2>5. \A n \in Names : ~Owned(n, s)
    BY <1>2, <2>4 DEF SlotsOK, Visited, TypeOK
  <2>6. SlotsOK'
    <3>1. \A n \in Names : \A t \in Slots : Owned(n, t)' =>
             \/ Owned(n, t) /\ t # s
             \/ t = s /\ n = Name[h] /\ clientJournals[n] # NoClient
      BY <1>1, <1>4, <2>5 DEF Owned, TypeOK
    <3>2. clientJournals' = clientJournals
      BY DEF reg_journal
    <3>3. \A n1, n2 \in Names : \A t \in Slots :
             Owned(n1, t)' /\ Owned(n2, t)' => n1 = n2
      BY <3>1 DEF SlotsOK
    <3>4. \A n \in Names : clientJournals'[n] = NoClient => user_index_vec'[n] = {}
      BY <1>1, <1>4, <3>2 DEF SlotsOK, TypeOK
    <3>5. \A n \in Names : \A t \in Slots :
             Owned(n, t)' /\ ~Visited(n, t)' => comm'[t].status # "RAW"
      BY <1>2, <2>1, <3>1 DEF SlotsOK, Visited, TypeOK
    <3>6. \A n \in Names : \A t \in Slots : Owned(n, t)' => t <= maxIdx'
      BY <1>4, <2>3, <3>1 DEF SlotsOK, Slots
    <3> QED BY <3>3, <3>4, <3>5, <3>6 DEF SlotsOK
  <2>7. LockOK'
    BY <1>2, <1>4, <2>3 DEF reg_journal, LockOK, exitVars, commVars, TypeOK, Slots
  <2> QED BY <1>2, <2>2, <2>6, <2>7
<1> QED BY <1>3, <1>4 DEF reg_journal

(* One turn of exit_client's loop: a slot is given back and set to RAW. *)
LEMMA ExitSlotKeeps ==
    ASSUME EngineInv, NEW s \in Slots, ExitSlot(s)
    PROVE  EngineInv'
<1> USE DEF EngineInv, ExitSlot
<1> DEFINE m == [comm[s] EXCEPT !.status = "RAW"]
<1>1. comm[s] \in PageCommMsg
  BY DEF TypeOK
<1>2. m \in PageCommMsg
  BY <1>1 DEF PageCommMsg, Status
<1>3. /\ comm' \in [Slots -> PageCommMsg]
      /\ \A t \in Slots \ {s} : comm'[t] = comm[t]
  BY <1>2 DEF TypeOK
<1>4. GoodBook(book')
  <2>1. GoodBook(book)
    BY BookIsGood
  <2>2. /\ <<comm[s].journal, comm[s].page_num>> \in Keys
        /\ comm[s].is_writer \in BOOLEAN
    BY <1>1 DEF PageCommMsg, Keys
  <2> QED BY <2>1, <2>2, ReleaseKeepsBook
<1>5. TypeOK'
  BY <1>3, <1>4 DEF TypeOK, GoodBook, registry, commVars
<1>6. BookOK'
  BY <1>4 DEF BookOK, GoodBook
<1>7. RegistryOK'
  BY DEF RegistryOK, registry
<1>8. SlotsOK'
  <2>1. exiting \in Names /\ s \in user_index_vec[exiting]
    BY DEF LockOK, TypeOK
  <2>2. \A n \in Names : \A t \in Slots :
           Owned(n, t) /\ ~Visited(n, t)' => t # s /\ ~Visited(n, t)
    BY <2>1 DEF SlotsOK, Owned, Visited
  <2>3. \A n \in Names : \A t \in Slots :
           Owned(n, t)' /\ ~Visited(n, t)' => comm'[t].status # "RAW"
    BY <1>3, <2>2 DEF SlotsOK, Owned, registry
  <2> QED BY <2>3 DEF SlotsOK, Owned, registry
<1>9. LockOK'
  BY DEF LockOK, registry, commVars
<1> QED BY <1>5, <1>6, <1>7, <1>8, <1>9

(* The tail of exit_client removes the registration from both maps. *)
LEMMA ExitFinishKeeps ==
    ASSUME EngineInv, ExitFinish, up' \in BOOLEAN,
           \/ mutex = "socket" /\ mutex' = "free" /\ toRemove' = toRemove
           \/ mutex = "task" /\ UNCHANGED <<mutex, toRemove>>
    PROVE  EngineInv'
<1> USE EngineAssumption DEF EngineInv, ExitFinish
<1>1. /\ exiting \in Names
      /\ clientJournals[exiting] \in Handlers
      /\ Name[clientJournals[exiting]] = exiting
      /\ Pid[clientJournals[exiting]] \in Pids
  BY DEF LockOK, TypeOK, RegistryOK
<1>2. TypeOK'
  BY <1>1 DEF TypeOK, commVars
<1>3. BookOK'
  BY DEF BookOK, Held
<1>4. RegistryOK'
  BY <1>1 DEF RegistryOK, TypeOK
<1>5. SlotsOK'
  <2>1. \A n \in Names : \A t \in Slots : Owned(n, t)' =>
           n # exiting /\ Owned(n, t)
    BY <1>1 DEF Owned, TypeOK
  <2> QED BY <1>1, <2>1 DEF SlotsOK, Owned, Visited, TypeOK
<1>6. LockOK'
  BY <1>1 DEF LockOK, commVars
<1> QED BY <1>2, <1>3, <1>4, <1>5, <1>6

(* The head of exit_client, called by the socket thread. *)
LEMMA ExitClientKeeps ==
    ASSUME EngineInv, NEW h \in Handlers, exit_client(h)
    PROVE  EngineInv'
<1> USE EngineAssumption DEF EngineInv, exit_client
<1>1. Name[h] \in Names /\ Pid[h] \in Pids /\ h # NoClient
  OBVIOUS
<1>2. TypeOK'
  <2>1. CASE clientJournals[Name[h]] = h
    BY <1>1, <2>1 DEF TypeOK, ExitStart, registry, commVars
  <2>2. CASE clientJournals[Name[h]] # h
    BY <1>1, <2>2 DEF TypeOK, Reply, registry, commVars
  <2> QED BY <2>1, <2>2
<1>3. BookOK' /\ RegistryOK'
  BY DEF BookOK, Held, RegistryOK, registry
<1>4. SlotsOK'
  BY <1>1 DEF SlotsOK, Owned, Visited, ExitStart, registry, LockOK, TypeOK
<1>5. LockOK'
  BY <1>1 DEF LockOK, ExitStart, registry, commVars
<1> QED BY <1>2, <1>3, <1>4, <1>5

(* PstPidCheck::go: collecting the dead, removing each, giving up the mutex. *)
LEMMA TaskStepKeeps ==
    ASSUME EngineInv, TaskStep
    PROVE  EngineInv'
<1> USE DEF EngineInv
<1>1. CASE TaskStart
  <2>1. TypeOK'
    BY <1>1 DEF TaskStart, TypeOK, registry, commVars
  <2>2. BookOK' /\ RegistryOK' /\ SlotsOK'
    BY <1>1 DEF TaskStart, BookOK, Held, RegistryOK, SlotsOK, Owned, Visited,
                registry
  <2>3. LockOK'
    BY <1>1 DEF TaskStart, LockOK, registry, commVars
  <2> QED BY <2>1, <2>2, <2>3
<1>2. ASSUME NEW n \in Names, TaskExit(n) PROVE EngineInv'
  <2>1. /\ exiting = NoClient /\ exitLeft = {}
        /\ NoClient \notin Names
    BY <1>2, EngineAssumption DEF TaskExit, LockOK
  <2>2. TypeOK'
    BY <1>2 DEF TaskExit, ExitStart, TypeOK, registry, commVars
  <2>3. BookOK' /\ RegistryOK'
    BY <1>2 DEF TaskExit, BookOK, Held, RegistryOK, registry
  <2>4. \A x \in Names : \A t \in Slots :
           Owned(x, t) => ~Visited(x, t) /\ ~Visited(x, t)'
    BY <1>2, <2>1 DEF TaskExit, ExitStart, Owned, Visited
  <2>5. SlotsOK'
    BY <1>2, <2>4 DEF TaskExit, SlotsOK, Owned, registry
  <2>6. LockOK'
    BY <1>2, <2>1 DEF TaskExit, ExitStart, LockOK, registry, commVars
  <2> QED BY <2>2, <2>3, <2>5, <2>6
<1>3. CASE TaskExitEnd
  BY <1>3, ExitFinishKeeps DEF TaskExitEnd, TypeOK
<1>4. CASE TaskEnd
  <2>1. TypeOK'
    BY <1>4 DEF TaskEnd, TypeOK, Book, registry, commVars, exitVars
  <2>2. BookOK'
    BY <1>4 DEF TaskEnd, BookOK, Held, TypeOK, Book
  <2>3. RegistryOK' /\ SlotsOK' /\ LockOK'
    BY <1>4 DEF TaskEnd, RegistryOK, SlotsOK, LockOK, Owned, Visited, registry,
                exitVars, commVars
  <2> QED BY <2>1, <2>2, <2>3
<1> QED BY <1>1, <1>2, <1>3, <1>4 DEF TaskStep

(* start_comm: the unlocked test, the answer, the store of last_page_num. *)
LEMMA CommStepKeeps ==
    ASSUME EngineInv, CommStep
    PROVE  EngineInv'
<1> USE EngineAssumption DEF EngineInv
<1>0. /\ maxIdx \in Int /\ 0 <= maxIdx /\ maxIdx <= MaxUser - 1
      /\ commIdx \in Int /\ 0 <= commIdx
      /\ NextIdx \in 0..maxIdx
      /\ 0..maxIdx \subseteq Slots
  BY DEF TypeOK, Slots, NextIdx
<1>1. CASE CommScan
  <2>1. TypeOK'
    BY <1>0, <1>1 DEF CommScan, TypeOK, registry, exitVars
  <2>2. BookOK' /\ RegistryOK' /\ SlotsOK'
    BY <1>1 DEF CommScan, BookOK, Held, RegistryOK, SlotsOK, Owned, Visited,
                registry, exitVars
  <2>3. LockOK'
    BY <1>0, <1>1 DEF CommScan, LockOK, registry, exitVars
  <2> QED BY <2>1, <2>2, <2>3
<1>2. CASE CommServe
  <2> DEFINE r == ServeRequest(book, comm[commIdx])
             m == [comm[commIdx] EXCEPT !.status = r.status]
  <2>1. commIdx \in Slots /\ comm[commIdx] \in PageCommMsg
    BY DEF TypeOK
  <2>2. GoodBook(r.book) /\ r.status \in Status \ {"RAW"}
    BY <2>1, BookIsGood, ServeKeepsBook
  <2>3. book' = r.book /\ comm' = [comm EXCEPT ![commIdx] = m]
    BY <1>2 DEF CommServe
  <2> HIDE DEF r
  <2>4. m \in PageCommMsg /\ m.status # "RAW"
    BY <2>1, <2>2 DEF PageCommMsg
  <2> HIDE DEF m
  <2>5. TypeOK'
    BY <1>2, <2>1, <2>2, <2>3, <2>4 DEF CommServe, TypeOK, GoodBook, registry,
                                         exitVars
  <2>6. BookOK'
    BY <2>2, <2>3 DEF BookOK, GoodBook
  <2>7. RegistryOK'
    BY <1>2 DEF CommServe, RegistryOK, registry
  <2>8. SlotsOK'
    <3>1. \A t \in Slots : comm[t].status # "RAW" => comm'[t].status # "RAW"
      BY <2>1, <2>3, <2>4 DEF TypeOK
    <3> QED BY <1>2, <3>1 DEF CommServe, SlotsOK, Owned, Visited, registry,
                             exitVars
  <2>9. LockOK'
    BY <1>2 DEF CommServe, LockOK, registry, exitVars
  <2> QED BY <2>5, <2>6, <2>7, <2>8, <2>9
<1>3. CASE CommDone
  <2> DEFINE m == [comm[commIdx] EXCEPT !.last_page_num = comm[commIdx].page_num]
  <2>1. commIdx \in Slots /\ comm[commIdx] \in PageCommMsg
    BY DEF TypeOK
  <2>2. m \in PageCommMsg /\ m.status = comm[commIdx].status
    BY <2>1 DEF PageCommMsg
  <2>3. comm' = [comm EXCEPT ![commIdx] = m]
    BY <1>3 DEF CommDone
  <2> HIDE DEF m
  <2>4. TypeOK'
    BY <1>0, <1>3, <2>1, <2>2, <2>3 DEF CommDone, TypeOK, registry, exitVars
  <2>5. BookOK' /\ RegistryOK'
    BY <1>3 DEF CommDone, BookOK, Held, RegistryOK, registry
  <2>6. SlotsOK'
    <3>1. \A t \in Slots : comm'[t].status = comm[t].status
      BY <2>1, <2>2, <2>3 DEF TypeOK
    <3> QED BY <1>3, <3>1 DEF CommDone, SlotsOK, Owned, Visited, registry,
                             exitVars
  <2>7. LockOK'
    BY <1>0, <1>3 DEF CommDone, LockOK, registry, exitVars
  <2> QED BY <2>4, <2>5, <2>6, <2>7
<1> QED BY <1>1, <1>2, <1>3 DEF CommStep

(* Whatever clients store, the engine's own invariant survives. *)
LEMMA ClientStoreKeeps ==
    ASSUME EngineInv, NEW s \in Slots, ClientStore(s)
    PROVE  EngineInv'
<1> USE DEF EngineInv
<1>1. comm[s] \in PageCommMsg
  BY DEF TypeOK
<1> DEFINE stored == \E m \in PageCommMsg :
                       /\ comm' = [comm EXCEPT ![s] = m]
                       /\ comm[s].status # "RAW" => m.status # "RAW"
<1>2. stored
  <2>1. ASSUME NEW j \in Journals, NEW w \in BOOLEAN, StoreJournal(s, j, w)
        PROVE  stored
    <3> DEFINE m == [comm[s] EXCEPT !.journal = j, !.is_writer = w]
    <3>1. m \in PageCommMsg /\ m.status = comm[s].status
      BY <1>1 DEF PageCommMsg
    <3>2. comm' = [comm EXCEPT ![s] = m]
      BY <2>1 DEF StoreJournal
    <3> HIDE DEF m
    <3> QED BY <3>1, <3>2
  <2>2. ASSUME NEW p \in PageNums, StorePageNum(s, p)
        PROVE  stored
    <3> DEFINE m == [comm[s] EXCEPT !.page_num = p]
    <3>1. m \in PageCommMsg /\ m.status = comm[s].status
      BY <1>1 DEF PageCommMsg
    <3>2. comm' = [comm EXCEPT ![s] = m]
      BY <2>2 DEF StorePageNum
    <3> HIDE DEF m
    <3> QED BY <3>1, <3>2
  <2>3. ASSUME NEW st \in {"HOLDING", "REQUESTING"}, StoreStatus(s, st)
        PROVE  stored
    <3> DEFINE m == [comm[s] EXCEPT !.status = st]
    <3>1. m \in PageCommMsg /\ m.status # "RAW"
      BY <1>1 DEF PageCommMsg, Status
    <3>2. comm' = [comm EXCEPT ![s] = m]
      BY <2>3 DEF StoreStatus
    <3> HIDE DEF m
    <3> QED BY <3>1, <3>2
  <2> QED BY <2>1, <2>2, <2>3 DEF ClientStore
<1>3. othersUnchanged /\ UNCHANGED alive
  BY DEF ClientStore, StoreJournal, StorePageNum, StoreStatus
<1>4. /\ comm' \in [Slots -> PageCommMsg]
      /\ \A t \in Slots : comm[t].status # "RAW" => comm'[t].status # "RAW"
  BY <1>2 DEF TypeOK
<1>5. TypeOK'
  BY <1>3, <1>4 DEF TypeOK, othersUnchanged, registry, commVars, exitVars
<1>6. BookOK' /\ RegistryOK'
  BY <1>3 DEF BookOK, Held, RegistryOK, othersUnchanged, registry
<1>7. SlotsOK'
  BY <1>3, <1>4 DEF SlotsOK, Owned, Visited, othersUnchanged, registry, exitVars
<1>8. LockOK'
  BY <1>3 DEF LockOK, othersUnchanged, registry, commVars, exitVars
<1> QED BY <1>5, <1>6, <1>7, <1>8

(* The death of a client process changes nothing in the engine. *)
LEMMA KillKeeps ==
    ASSUME EngineInv, NEW p \in Pids, Kill(p)
    PROVE  EngineInv'
BY DEF EngineInv, Kill, othersUnchanged, TypeOK, BookOK, Held, RegistryOK,
       SlotsOK, Owned, Visited, LockOK, registry, commVars, exitVars

(* The engine may end at any step and be started again (PageEngine::start); *)
(* what survivors then store is already part of ClientStore.                *)
LEMMA OutageKeeps ==
    ASSUME EngineInv, EngineDies \/ start
    PROVE  EngineInv'
<1>1. CASE EngineDies
  BY <1>1 DEF EngineInv, EngineDies, TypeOK, BookOK, Held, RegistryOK, SlotsOK,
              Owned, Visited, LockOK, registry, commVars, exitVars
<1>2. CASE start
  <2>1. ZeroMsg \in PageCommMsg
    BY EngineAssumption DEF ZeroMsg, PageCommMsg, Status, PageNums
  <2>2. 0 \in Slots
    BY EngineAssumption DEF Slots
  <2>3. book.files \in SUBSET Keys
    BY DEF EngineInv, TypeOK, Book
  <2>4. EmptyBook(book.files) \in Book
    BY <2>3 DEF EmptyBook, Book
  <2>5. TypeOK'
    BY <1>2, <2>1, <2>2, <2>4 DEF start, NewEngine, EngineInv, TypeOK
  <2>6. BookOK'
    BY <1>2 DEF start, EmptyBook, BookOK, Held
  <2>7. RegistryOK' /\ SlotsOK'
    BY <1>2, EngineAssumption
       DEF start, NewEngine, RegistryOK, SlotsOK, Owned, Visited
  <2>8. LockOK'
    BY <1>2 DEF start, NewEngine, LockOK
  <2> QED BY <2>5, <2>6, <2>7, <2>8 DEF EngineInv
<1> QED BY <1>1, <1>2

(* Every step of the engine and of its environment keeps the invariant. *)
LEMMA NextKeeps ==
    ASSUME EngineInv, [Next]_engineVars
    PROVE  EngineInv'
<1>1. CASE UNCHANGED engineVars
  BY <1>1 DEF EngineInv, engineVars, TypeOK, BookOK, Held, RegistryOK, SlotsOK,
              Owned, Visited, LockOK
<1>2. CASE SocketExitEnd
  <2>1. /\ ExitFinish
        /\ mutex = "socket" /\ mutex' = "free" /\ toRemove' = toRemove
    BY <1>2 DEF SocketExitEnd
  <2>2. up' \in BOOLEAN
    BY <1>2, EngineAssumption DEF SocketExitEnd, ExitFinish, Reply, EngineInv,
                                  TypeOK, LockOK
  <2> QED BY <2>1, <2>2, ExitFinishKeeps
<1>3. ASSUME NEW h \in Handlers, SocketRequest(h) PROVE EngineInv'
  BY <1>3, RegClientKeeps, RegJournalKeeps, ExitClientKeeps DEF SocketRequest
<1> QED
  BY <1>1, <1>2, <1>3, ExitSlotKeeps, TaskStepKeeps, CommStepKeeps,
     ClientStoreKeeps, KillKeeps, OutageKeeps DEF Next

-----------------------------------------------------------------------------
(* The engine's invariant holds in every state it can reach, for every      *)
(* choice of the constants: the page book, the registry, the slot           *)
(* allocation and the use of the mutex survive any interleaving of the      *)
(* three threads, any client crash, any outage of the engine and any store  *)
(* into the comm file.                                                      *)
THEOREM EngineInvariant == Spec => []EngineInv
<1>1. Init => EngineInv
  BY InitHolds
<1>2. EngineInv /\ [Next]_engineVars => EngineInv'
  BY NextKeeps
<1> QED BY <1>1, <1>2, PTL DEF Spec

(* The page book of the engine is always consistent (release_page,          *)
(* initiate_page): never two writers of a page, no page mapped that nobody  *)
(* counts, none counted that is not mapped.                                 *)
THEOREM EngineBook == Spec => []BookOK
BY EngineInvariant, PTL DEF EngineInv

(* Slot allocation is exclusive (reg_journal, exit_client). *)
THEOREM EngineSlots == Spec => []SlotsOK
BY EngineInvariant, PTL DEF EngineInv

(* The two maps of the registry agree (reg_client, exit_client). *)
THEOREM EngineRegistry == Spec => []RegistryOK
BY EngineInvariant, PTL DEF EngineInv
=============================================================================
