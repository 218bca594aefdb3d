------------------------- MODULE PageEngineLifecycle -------------------------
(***************************************************************************)
(* The life of the page engine's process: start, its three threads (main   *)
(* with the task loop, the comm thread, the socket thread), the singleton  *)
(* socket handler that two of them create, signals, and stop_all.  What a  *)
(* request, a task or a poll does to the engine's data is in module        *)
(* PageEngine; here it only holds the mutex.                               *)
(***************************************************************************)
EXTENDS Naturals, FiniteSets

CONSTANTS
    Tasks,          \* names of the registered tasks
    MaxSignal,      \* bound on the signals sent to the process
    MaxClient       \* bound on the connections made to it

ASSUME LifecycleAssumption ==
    IsFiniteSet(Tasks) /\ MaxSignal \in Nat /\ MaxClient \in Nat

Threads == {"main", "comm", "sock"}
Nobody == "nobody"
None == "none"      \* the null handler; a handler is named after its maker

VARIABLES
    pc,             \* thread -> where it is
    process,        \* "up", "returned" (from start), "exited" or "aborted"
    is_task_running, comm_running,
    mutex,          \* paged_mtx: who holds it
    todo,           \* tasks the running round has still to call
    m_ptr,          \* PageSocketHandler::m_ptr
    this,           \* the handler the socket thread runs
    io_running,     \* the handlers whose io_running is set
    destroyed,      \* the handlers that getInstance destroyed
    io,             \* _io: "none", "ready" or "stopped"
    acceptor,       \* _acceptor: "none", "open" or "closed"
    socket,         \* _socket: "open", "closed" or "used" (by a past client)
    client,         \* the connection: "none", "connected", "sent" or "dead"
    signals, clients    \* how many there were

flags == <<is_task_running, comm_running>>
handler == <<m_ptr, this, io_running, destroyed>>
sockets == <<io, acceptor, socket>>
bounds == <<signals, clients>>
vars == <<pc, process, flags, mutex, todo, handler, sockets, client, bounds>>

Init ==
    /\ pc = [main |-> "start", comm |-> "off", sock |-> "off"]
    /\ process = "up"
    /\ is_task_running = TRUE /\ comm_running = FALSE
    /\ mutex = Nobody /\ todo = {}
    /\ m_ptr = None /\ this = None /\ io_running = {} /\ destroyed = {}
    /\ io = "none" /\ acceptor = "none" /\ socket = "closed"
    /\ client = "none"
    /\ signals = 0 /\ clients = 0

At(t, where) == process = "up" /\ pc[t] = where
Goes(t, where) == pc' = [pc EXCEPT ![t] = where]
Ends(how) == process' = how

-----------------------------------------------------------------------------
(* PageEngine::start.  The comm flag is cleared before the thread exists.   *)
StartClearsLate ==      \* variant: the flag is cleared after the thread starts
    /\ At("main", "start")
    /\ IF pc["comm"] = "off"
       THEN /\ pc' = [main |-> "start", comm |-> "begin", sock |-> "test"]
            /\ UNCHANGED comm_running
       ELSE /\ Goes("main", "test")
            /\ comm_running' = FALSE
    /\ UNCHANGED <<process, is_task_running, mutex, todo, handler, sockets, client, bounds>>

Start ==
    /\ At("main", "start")
    /\ comm_running' = FALSE
    /\ pc' = [main |-> "test", comm |-> "begin", sock |-> "test"]
    /\ UNCHANGED <<process, is_task_running, mutex, todo, handler, sockets, client, bounds>>

(* PageSocketHandler::getInstance, by main (in start's loop) and by the     *)
(* socket thread: a test, then a store that destroys the handler that was   *)
(* there, then the pointer is read.  Nothing synchronises them: of two      *)
(* stores that overlap, the pointer may be one's and the count the other's, *)
(* and the handler that is left is the one destroyed.                       *)
TestInstance(t) ==
    /\ At(t, "test")
    /\ Goes(t, IF m_ptr = None THEN "make" ELSE "get")
    /\ UNCHANGED <<process, flags, mutex, todo, handler, sockets, client, bounds>>

MakeInstance(t) ==
    /\ At(t, "make")
    /\ m_ptr' = t
    /\ \/ m_ptr = None /\ UNCHANGED destroyed
       \/ m_ptr # None /\ destroyed' = destroyed \cup {m_ptr}
       \/ /\ \E u \in {"main", "sock"} \ {t} : pc[u] = "get"
          /\ destroyed' = destroyed \cup {t}
    /\ Goes(t, "get")
    /\ UNCHANGED <<process, flags, mutex, todo, this, io_running, sockets, client, bounds>>

(* A destroyed handler is used: by the thread that has just been given its  *)
(* pointer, by the socket thread running on it, by stop.  Its memory may    *)
(* still be as it was, and the thread goes on, or the process goes down.    *)
DestroyedUsed ==
    /\ process = "up" /\ destroyed # {}
    /\ \/ \E t \in {"main", "sock"} : pc[t] = "get"
       \/ this \in destroyed /\ pc["sock"] \in {"open", "flag", "io", "read", "lock",
                                                "process", "rearm"}
       \/ m_ptr \in destroyed /\ pc["main"] \in {"stopio", "closesocket", "closeacceptor"}
    /\ Ends("aborted")
    /\ UNCHANGED <<pc, flags, mutex, todo, handler, sockets, client, bounds>>

(* start waits until both are running; is_running of a destroyed handler    *)
(* may read anything ...                                                    *)
AnyRunning == m_ptr \in io_running \/ comm_running  \* variant: one will do
BothRunning == m_ptr \in io_running /\ comm_running

AwaitRunning ==
    /\ At("main", "get")
    /\ \/ Goes("main", IF BothRunning THEN "loop" ELSE "test")
       \/ destroyed # {} /\ comm_running /\ Goes("main", "loop")
    /\ UNCHANGED <<process, flags, mutex, todo, handler, sockets, client, bounds>>

(* ... and start_task loops; a task may call stop() (PstTimeCtrl of         *)
(* test/page_service.cpp).                                                  *)
TaskLoop ==
    /\ At("main", "loop")
    /\ Goes("main", IF is_task_running THEN "lock" ELSE "stopcomm")
    /\ UNCHANGED <<process, flags, mutex, todo, handler, sockets, client, bounds>>

TaskLock ==
    /\ At("main", "lock") /\ mutex = Nobody
    /\ mutex' = "main" /\ todo' = Tasks
    /\ Goes("main", "go")
    /\ UNCHANGED <<process, flags, handler, sockets, client, bounds>>

TaskGo(name) ==
    /\ At("main", "go") /\ name \in todo
    /\ todo' = todo \ {name}
    /\ is_task_running' \in IF name = "TimeCtrl" THEN {is_task_running, FALSE}
                            ELSE {is_task_running}
    /\ UNCHANGED <<pc, process, comm_running, mutex, handler, sockets, client, bounds>>

TaskUnlockStops ==      \* variant: a stop leaves the loop with the mutex held
    /\ At("main", "go") /\ todo = {}
    /\ mutex' = IF is_task_running THEN Nobody ELSE mutex
    /\ Goes("main", IF is_task_running THEN "loop" ELSE "stopcomm")
    /\ UNCHANGED <<process, flags, todo, handler, sockets, client, bounds>>

TaskUnlock ==
    /\ At("main", "go") /\ todo = {}
    /\ mutex' = Nobody
    /\ Goes("main", "loop")
    /\ UNCHANGED <<process, flags, todo, handler, sockets, client, bounds>>

(* stop_all: the comm thread is told and joined, then the socket thread.    *)
StopComm ==
    /\ At("main", "stopcomm")
    /\ comm_running' = FALSE
    /\ Goes("main", "joincomm")
    /\ UNCHANGED <<process, is_task_running, mutex, todo, handler, sockets, client, bounds>>

JoinComm ==
    /\ At("main", "joincomm") /\ pc["comm"] = "ended"
    /\ Goes("main", "stopio")
    /\ UNCHANGED <<process, flags, mutex, todo, handler, sockets, client, bounds>>

(* PageSocketHandler::stop, one call after the other. *)
StopIo ==
    /\ At("main", "stopio")
    /\ io' = IF io = "none" THEN io ELSE "stopped"
    /\ Goes("main", "closesocket")
    /\ UNCHANGED <<process, flags, mutex, todo, handler, acceptor, socket, client, bounds>>

CloseSocket ==
    /\ At("main", "closesocket")
    /\ socket' = "closed"
    /\ Goes("main", "closeacceptor")
    /\ UNCHANGED <<process, flags, mutex, todo, handler, io, acceptor, client, bounds>>

CloseAcceptor ==
    /\ At("main", "closeacceptor")
    /\ acceptor' = IF acceptor = "none" THEN acceptor ELSE "closed"
    /\ io_running' = io_running \ {m_ptr}
    /\ Goes("main", "joinsock")
    /\ UNCHANGED <<process, flags, mutex, todo, m_ptr, this, destroyed, io, socket, client, bounds>>

JoinSocket ==
    /\ At("main", "joinsock") /\ pc["sock"] = "ended"
    /\ Ends("returned")
    /\ UNCHANGED <<pc, flags, mutex, todo, handler, sockets, client, bounds>>

-----------------------------------------------------------------------------
(* PageEngine::start_comm.  A poll that finds a request goes on to serve it *)
(* and waits for the mutex whatever comes; one that finds none changes      *)
(* nothing.                                                                 *)
CommBegin ==
    /\ At("comm", "begin")
    /\ comm_running' = TRUE
    /\ Goes("comm", "poll")
    /\ UNCHANGED <<process, is_task_running, mutex, todo, handler, sockets, client, bounds>>

CommFind ==
    /\ At("comm", "poll") /\ comm_running
    /\ Goes("comm", "lock")
    /\ UNCHANGED <<process, flags, mutex, todo, handler, sockets, client, bounds>>

CommEnds ==
    /\ At("comm", "poll") /\ ~comm_running
    /\ Goes("comm", "ended")
    /\ UNCHANGED <<process, flags, mutex, todo, handler, sockets, client, bounds>>

CommLockless ==         \* variant: the request is served without the mutex
    /\ At("comm", "lock")
    /\ Goes("comm", "serve")
    /\ UNCHANGED <<process, flags, mutex, todo, handler, sockets, client, bounds>>

CommLock ==
    /\ At("comm", "lock") /\ mutex = Nobody
    /\ mutex' = "comm"
    /\ Goes("comm", "serve")
    /\ UNCHANGED <<process, flags, todo, handler, sockets, client, bounds>>

CommUnlock ==
    /\ At("comm", "serve")
    /\ mutex' = Nobody
    /\ Goes("comm", "poll")
    /\ UNCHANGED <<process, flags, todo, handler, sockets, client, bounds>>

-----------------------------------------------------------------------------
(* The socket thread: start_socket, PageSocketHandler::run ... *)
SocketGet ==
    /\ At("sock", "get")
    /\ this' = m_ptr
    /\ Goes("sock", "open")
    /\ UNCHANGED <<process, flags, mutex, todo, m_ptr, io_running, destroyed, sockets, client, bounds>>

SocketOpen ==
    /\ At("sock", "open")
    /\ io' = "ready" /\ acceptor' = "open" /\ socket' = "open"
    /\ Goes("sock", "flag")
    /\ UNCHANGED <<process, flags, mutex, todo, handler, client, bounds>>

(* The acceptor cannot bind its address: it throws, and nothing catches it. *)
BindFails ==
    /\ At("sock", "open")
    /\ io' = "ready"
    /\ Ends("aborted")
    /\ UNCHANGED <<pc, flags, mutex, todo, handler, acceptor, socket, client, bounds>>

SocketFlag ==
    /\ At("sock", "flag")
    /\ io_running' = io_running \cup {this}
    /\ Goes("sock", "io")
    /\ UNCHANGED <<process, flags, mutex, todo, m_ptr, this, destroyed, sockets, client, bounds>>

(* ... and _io->run(): it returns when stopped, or accepts a connection.    *)
SocketAccept ==
    /\ At("sock", "io")
    /\ \/ io = "stopped" /\ Goes("sock", "ended")
       \/ io = "ready" /\ client # "none" /\ Goes("sock", "read")
    /\ UNCHANGED <<process, flags, mutex, todo, handler, sockets, client, bounds>>

(* An accept that fails completes like one that worked: handle_accept takes *)
(* no error code, and its read_some throws on a socket nobody is behind.    *)
AcceptFails ==
    /\ At("sock", "io") /\ io = "ready" /\ client # "none"
    /\ Ends("aborted")
    /\ UNCHANGED <<pc, flags, mutex, todo, handler, sockets, client, bounds>>

(* handle_accept: read_some blocks until the client sends, and throws when  *)
(* it has died or the socket is not the client's; nothing catches it.       *)
SocketRead ==
    /\ At("sock", "read")
    /\ \/ /\ client = "dead" \/ socket # "open"
          /\ Ends("aborted") /\ UNCHANGED pc
       \/ /\ client = "sent" /\ socket = "open"
          /\ Goes("sock", "lock") /\ UNCHANGED process
    /\ UNCHANGED <<flags, mutex, todo, handler, sockets, client, bounds>>

(* A read that was blocked when stop closed the socket still gets its data. *)
SocketReadLate ==
    /\ At("sock", "read")
    /\ socket = "closed" /\ client = "sent"
    /\ Goes("sock", "lock")
    /\ UNCHANGED <<process, flags, mutex, todo, handler, sockets, client, bounds>>

SocketLock ==
    /\ At("sock", "lock") /\ mutex = Nobody
    /\ mutex' = "sock"
    /\ Goes("sock", "process")
    /\ UNCHANGED <<process, flags, todo, handler, sockets, client, bounds>>

(* process_msg answers with a write that throws on a closed socket. *)
ProcessMsg ==
    /\ At("sock", "process")
    /\ IF client = "dead" \/ socket # "open"
       THEN Ends("aborted") /\ UNCHANGED <<pc, mutex, socket, client>>
       ELSE /\ mutex' = Nobody /\ socket' = "used" /\ client' = "none"
            /\ Goes("sock", "rearm") /\ UNCHANGED process
    /\ UNCHANGED <<flags, todo, handler, io, acceptor, bounds>>

RearmUsed ==            \* variant: the socket is not replaced
    /\ At("sock", "rearm")
    /\ Goes("sock", "io")
    /\ UNCHANGED <<process, flags, mutex, todo, handler, sockets, client, bounds>>

Rearm ==
    /\ At("sock", "rearm")
    /\ socket' = "open"
    /\ Goes("sock", "io")
    /\ UNCHANGED <<process, flags, mutex, todo, handler, io, acceptor, client, bounds>>

-----------------------------------------------------------------------------
(* The clients: connect, then write the request; or be killed. *)
Connect ==
    /\ process = "up" /\ acceptor = "open" /\ client = "none"
    /\ clients < MaxClient
    /\ clients' = clients + 1
    /\ client' = "connected"
    /\ UNCHANGED <<pc, process, flags, mutex, todo, handler, sockets, signals>>

ClientStep ==
    /\ client = "connected"
    /\ client' \in {"sent", "dead"}
    /\ UNCHANGED <<pc, process, flags, mutex, todo, handler, sockets, bounds>>

ClientKilled ==
    /\ client = "sent"
    /\ client' = "dead"
    /\ UNCHANGED <<pc, process, flags, mutex, todo, handler, sockets, bounds>>

(* signal_callback: the first signal stops the tasks, a further one exits.  *)
Signal ==
    /\ process = "up" /\ signals < MaxSignal
    /\ signals' = signals + 1
    /\ is_task_running' = FALSE
    /\ process' = IF is_task_running THEN process ELSE "exited"
    /\ UNCHANGED <<pc, comm_running, mutex, todo, handler, sockets, client, clients>>

-----------------------------------------------------------------------------
MainStep ==
    \/ Start \/ TestInstance("main") \/ MakeInstance("main") \/ AwaitRunning
    \/ TaskLoop \/ TaskLock \/ TaskUnlock \/ \E name \in Tasks : TaskGo(name)
    \/ StopComm \/ JoinComm \/ StopIo \/ CloseSocket \/ CloseAcceptor \/ JoinSocket
CommStep == CommBegin \/ CommEnds \/ CommLock \/ CommUnlock
SocketStep ==
    \/ TestInstance("sock") \/ MakeInstance("sock") \/ SocketGet \/ SocketOpen
    \/ BindFails \/ SocketFlag \/ SocketAccept \/ AcceptFails \/ SocketRead \/ SocketReadLate
    \/ SocketLock \/ ProcessMsg \/ Rearm

Next ==
    \/ MainStep \/ CommStep \/ SocketStep \/ DestroyedUsed
    \/ CommFind \/ Connect \/ ClientStep \/ ClientKilled \/ Signal

Spec == Init /\ [][Next]_vars

(* Fairness: the scheduler runs every thread, std::mutex starves none of    *)
(* them for ever, and a client that has connected sends its request or is   *)
(* killed (PageProvider writes right after connecting).  Nobody need        *)
(* connect, ask for a page or send a signal, and no failure need happen.    *)
Fairness ==
    /\ WF_vars(MainStep) /\ SF_vars(TaskLock)
    /\ WF_vars(CommStep) /\ SF_vars(CommLock)
    /\ WF_vars(SocketStep) /\ SF_vars(SocketLock)
    /\ WF_vars(ClientStep)
FairSpec == Spec /\ Fairness

-----------------------------------------------------------------------------
(* Types; and the holder of the mutex is where the code holds it. *)
TypeOK ==
    /\ pc["main"] \in {"start", "test", "make", "get", "loop", "lock", "go",
                       "stopcomm", "joincomm", "stopio", "closesocket",
                       "closeacceptor", "joinsock"}
    /\ pc["comm"] \in {"off", "begin", "poll", "lock", "serve", "ended"}
    /\ pc["sock"] \in {"off", "test", "make", "get", "open", "flag", "io", "read",
                       "lock", "process", "rearm", "ended"}
    /\ process \in {"up", "returned", "exited", "aborted"}
    /\ is_task_running \in BOOLEAN /\ comm_running \in BOOLEAN
    /\ mutex \in Threads \cup {Nobody}
    /\ \A t \in Threads : mutex = t <=> pc[t] \in {"go", "serve", "process"}
    /\ todo \subseteq Tasks
    /\ m_ptr \in {None, "main", "sock"} /\ this \in {None, "main", "sock"}
    /\ io_running \subseteq {"main", "sock"} /\ destroyed \subseteq {"main", "sock"}
    /\ io \in {"none", "ready", "stopped"}
    /\ acceptor \in {"none", "open", "closed"}
    /\ socket \in {"open", "closed", "used"}
    /\ client \in {"none", "connected", "sent", "dead"}
    /\ signals \in 0..MaxSignal /\ clients \in 0..MaxClient

(* getInstance has made two handlers, and one of them is gone. *)
HandlerDestroyed == destroyed # {}

(* start makes sure that "buffer / socket are running" (PageEngine.cpp):    *)
(* when the tasks run, the comm thread polls and the socket thread accepts, *)
(* on the handler that stop will address.  Of the socket thread this holds  *)
(* only while getInstance has not destroyed a handler.                      *)
ServesWhenStarted ==
    process = "up" /\ pc["main"] \in {"loop", "lock", "go"} =>
      /\ comm_running /\ pc["comm"] \in {"poll", "lock", "serve"}
      /\ \/ HandlerDestroyed
         \/ /\ acceptor = "open" /\ io = "ready" /\ this = m_ptr
            /\ pc["sock"] \in {"io", "read", "lock", "process", "rearm"}

(* The engine was opening its socket, or accepting, when it went down. *)
SocketCallFailed == pc["sock"] \in {"open", "io"}

(* Every way the engine goes down by an exception: a client that died in    *)
(* the middle of a request, a bind or an accept that failed, a handler that *)
(* getInstance destroyed, or it was being stopped anyway.  Never a client   *)
(* that behaves, whatever the order of the threads.                         *)
AbortExplained ==
    process = "aborted" =>
      client = "dead" \/ SocketCallFailed \/ HandlerDestroyed \/ ~is_task_running

(* The wait in start ends: the service comes up, or the process goes down,  *)
(* unless getInstance made two handlers.                                    *)
StartEnds ==
    process = "up" ~> (pc["main"] = "loop" \/ process # "up" \/ HandlerDestroyed)

(* A signal, or a task that calls stop, ends the process: no thread is left *)
(* waiting for another or for the mutex, unless getInstance made two        *)
(* handlers.                                                                *)
StopEnds == ~is_task_running ~> (process # "up" \/ HandlerDestroyed)
=============================================================================
