---------------------- MODULE PageEngineLifecycleProofs ----------------------
(***************************************************************************)
(* What start promises and why the engine goes down, proved for any set of *)
(* tasks and any number of signals and clients: in every interleaving of   *)
(* main, the comm thread, the socket thread and the clients.               *)
(***************************************************************************)
EXTENDS PageEngineLifecycle, TLAPS

(* Places of the socket thread inside _io->run(); of main once start has    *)
(* seen both threads run; of main inside stop_all; and of main once the io  *)
(* service is stopped, and once the socket is closed.                       *)
Serving == {"io", "read", "lock", "process", "rearm"}
Stopping == {"stopcomm", "joincomm", "stopio", "closesocket", "closeacceptor",
             "joinsock"}
Started == {"loop", "lock", "go"} \cup Stopping
IoStopped == {"closesocket", "closeacceptor", "joinsock"}
SocketClosed == {"closeacceptor", "joinsock"}

(* getInstance returns a handler, and only the handler that the socket      *)
(* thread runs ever has io_running set, from SocketFlag on.                 *)
HandlerInv ==
    /\ pc["main"] = "get" \/ pc["sock"] = "get" => m_ptr # None
    /\ pc["sock"] \in Serving \cup {"open", "flag", "ended"} => this # None
    /\ io_running \subseteq {this}
    /\ io_running # {} => pc["sock"] \in Serving \cup {"ended"}

(* The flags of the comm thread: set while it polls, cleared by StopComm.   *)
CommInv ==
    /\ pc["main"] = "start" => pc["comm"] = "off" /\ pc["sock"] = "off"
    /\ comm_running => pc["comm"] \in {"poll", "lock", "serve"}
    /\ pc["main"] \in {"loop", "lock", "go"} => comm_running

(* What PageSocketHandler::run has opened stays open until stop closes it,  *)
(* and the thread ends only then; the handler that main saw running is the  *)
(* one the thread runs, unless one was destroyed.                           *)
SocketInv ==
    /\ pc["main"] \in Started /\ ~HandlerDestroyed =>
         this = m_ptr /\ pc["sock"] \in Serving \cup {"ended"}
    /\ io = "stopped" \/ pc["sock"] = "ended" => pc["main"] \in IoStopped
    /\ pc["sock"] \in Serving \cup {"flag"} /\ pc["main"] \notin IoStopped
         => io = "ready" /\ acceptor = "open"
    /\ pc["sock"] \in (Serving \ {"rearm"}) \cup {"flag"}
       /\ pc["main"] \notin SocketClosed => socket = "open"
    /\ pc["main"] \in Stopping => ~is_task_running

(* pc is a function on the threads, which EXCEPT needs. *)
PcInv == pc = [t \in Threads |-> pc[t]]

LifecycleInv ==
    TypeOK /\ PcInv /\ HandlerInv /\ CommInv /\ SocketInv /\ AbortExplained

-----------------------------------------------------------------------------
(* A thread that moves leaves the others where they are. *)
LEMMA Moves ==
    ASSUME PcInv, NEW t \in Threads, NEW w, Goes(t, w)
    PROVE  /\ PcInv'
           /\ pc'[t] = w
           /\ \A u \in Threads \ {t} : pc'[u] = pc[u]
BY DEF PcInv, Goes

(* The process has just started. *)
LEMMA LifecycleStart == Init => LifecycleInv
<1> SUFFICES ASSUME Init PROVE LifecycleInv
  OBVIOUS
<1>1. PcInv
  BY DEF Init, PcInv, Threads
<1>2. is_task_running \in BOOLEAN /\ comm_running \in BOOLEAN
  BY Zenon DEF Init
<1>3. TypeOK
  BY <1>2, LifecycleAssumption DEF Init, TypeOK, Threads, Nobody, None
<1>4. HandlerInv /\ CommInv /\ SocketInv /\ AbortExplained
  BY DEF Init, HandlerInv, CommInv, SocketInv, AbortExplained, HandlerDestroyed, Serving,
         Stopping, Started, IoStopped, SocketClosed
<1> QED BY <1>1, <1>3, <1>4 DEF LifecycleInv

(* Steps of main: start, the task loop, stop_all. *)
LEMMA MainKeeps ==
    ASSUME LifecycleInv, MainStep PROVE LifecycleInv'
<1> USE LifecycleAssumption
    DEF LifecycleInv, TypeOK, Threads, Nobody, None, HandlerInv, CommInv,
        SocketInv, AbortExplained, SocketCallFailed, HandlerDestroyed, Serving,
        Stopping, Started, IoStopped, SocketClosed, At, flags, handler, sockets, bounds
<1>1. CASE Start
  <2>1. PcInv' /\ pc'["main"] = "test" /\ pc'["comm"] = "begin" /\ pc'["sock"] = "test"
    BY <1>1 DEF Start, PcInv
  <2>2. comm_running' \in BOOLEAN
    BY <1>1, Zenon DEF Start
  <2> QED BY <1>1, <2>1, <2>2 DEF Start
<1>2. CASE TestInstance("main")
  BY <1>2, Moves DEF TestInstance
<1>3. CASE MakeInstance("main")
  <2>1. /\ PcInv' /\ pc'["main"] = "get"
        /\ \A u \in Threads \ {"main"} : pc'[u] = pc[u]
    BY <1>3, Moves DEF MakeInstance
  <2>2. destroyed' \subseteq {"main", "sock"} /\ destroyed \subseteq destroyed'
    BY <1>3 DEF MakeInstance
  <2>3. m_ptr # None => HandlerDestroyed'
    BY <1>3 DEF MakeInstance
  <2> QED BY <1>3, <2>1, <2>2, <2>3 DEF MakeInstance
<1>4. CASE AwaitRunning
  BY <1>4, Moves DEF AwaitRunning, BothRunning
<1>5. CASE TaskLoop
  BY <1>5, Moves DEF TaskLoop
<1>6. CASE TaskLock
  BY <1>6, Moves DEF TaskLock
<1>7. CASE TaskUnlock
  BY <1>7, Moves DEF TaskUnlock
<1>8. ASSUME NEW name \in Tasks, TaskGo(name) PROVE LifecycleInv'
  <2>1. is_task_running' \in BOOLEAN /\ (~is_task_running => ~is_task_running')
    <3>1. is_task_running' \in {is_task_running, FALSE}
      BY <1>8 DEF TaskGo
    <3>2. CASE is_task_running' = is_task_running
      BY <3>2, Zenon
    <3>3. CASE is_task_running' = FALSE
      BY <3>3, Zenon
    <3> QED BY <3>1, <3>2, <3>3, Zenon
  <2>2. TypeOK'
    BY <1>8, <2>1 DEF TaskGo
  <2>3. PcInv' /\ HandlerInv' /\ CommInv'
    BY <1>8 DEF TaskGo, PcInv
  <2>4. SocketInv' /\ AbortExplained'
    BY <1>8, <2>1 DEF TaskGo
  <2> QED BY <2>2, <2>3, <2>4
<1>9. CASE StopComm
  <2>1. comm_running' \in BOOLEAN
    BY <1>9, Zenon DEF StopComm
  <2> QED BY <1>9, <2>1, Moves DEF StopComm
<1>10. CASE JoinComm
  BY <1>10, Moves DEF JoinComm
<1>11. CASE StopIo
  BY <1>11, Moves DEF StopIo
<1>12. CASE CloseSocket
  BY <1>12, Moves DEF CloseSocket
<1>13. CASE CloseAcceptor
  BY <1>13, Moves DEF CloseAcceptor
<1>14. CASE JoinSocket
  BY <1>14 DEF JoinSocket, Ends, PcInv
<1> QED BY <1>1, <1>2, <1>3, <1>4, <1>5, <1>6, <1>7, <1>8, <1>9, <1>10, <1>11, <1>12, <1>13, <1>14 DEF MainStep

(* Steps of the comm thread. *)
LEMMA CommKeeps ==
    ASSUME LifecycleInv, CommStep \/ CommFind PROVE LifecycleInv'
<1> USE LifecycleAssumption
    DEF LifecycleInv, TypeOK, Threads, Nobody, None, HandlerInv, CommInv,
        SocketInv, AbortExplained, SocketCallFailed, HandlerDestroyed, Serving,
        Stopping, Started, IoStopped, SocketClosed, At, flags, handler, sockets, bounds
<1>1. CASE CommBegin
  BY <1>1, Moves DEF CommBegin
<1>2. CASE CommEnds
  BY <1>2, Moves DEF CommEnds
<1>3. CASE CommLock
  BY <1>3, Moves DEF CommLock
<1>4. CASE CommUnlock
  BY <1>4, Moves DEF CommUnlock
<1>5. CASE CommFind
  BY <1>5, Moves DEF CommFind
<1> QED BY <1>1, <1>2, <1>3, <1>4, <1>5 DEF CommStep

(* Steps of the socket thread. *)
LEMMA SocketKeeps ==
    ASSUME LifecycleInv, SocketStep PROVE LifecycleInv'
<1> USE LifecycleAssumption
    DEF LifecycleInv, TypeOK, Threads, Nobody, None, HandlerInv, CommInv,
        SocketInv, AbortExplained, SocketCallFailed, HandlerDestroyed, Serving,
        Stopping, Started, IoStopped, SocketClosed, At, flags, handler, sockets, bounds
<1>1. CASE TestInstance("sock")
  BY <1>1, Moves DEF TestInstance
<1>2. CASE MakeInstance("sock")
  <2>1. /\ PcInv' /\ pc'["sock"] = "get"
        /\ \A u \in Threads \ {"sock"} : pc'[u] = pc[u]
    BY <1>2, Moves DEF MakeInstance
  <2>2. destroyed' \subseteq {"main", "sock"} /\ destroyed \subseteq destroyed'
    BY <1>2 DEF MakeInstance
  <2>3. m_ptr # None => HandlerDestroyed'
    BY <1>2 DEF MakeInstance
  <2> QED BY <1>2, <2>1, <2>2, <2>3 DEF MakeInstance
<1>3. CASE SocketGet
  BY <1>3, Moves DEF SocketGet
<1>4. CASE SocketOpen
  BY <1>4, Moves DEF SocketOpen
<1>5. CASE SocketFlag
  BY <1>5, Moves DEF SocketFlag
<1>6. CASE SocketAccept
  BY <1>6, Moves DEF SocketAccept
<1>7. CASE SocketRead
  <2>1. CASE Ends("aborted") /\ UNCHANGED pc
    BY <1>7, <2>1 DEF SocketRead, Ends, PcInv
  <2>2. CASE Goes("sock", "lock") /\ UNCHANGED process
    BY <1>7, <2>2, Moves DEF SocketRead
  <2> QED BY <1>7, <2>1, <2>2 DEF SocketRead
<1>8. CASE SocketReadLate
  BY <1>8, Moves DEF SocketReadLate
<1>9. CASE SocketLock
  BY <1>9, Moves DEF SocketLock
<1>10. CASE ProcessMsg
  <2>1. CASE client = "dead" \/ socket # "open"
    BY <1>10, <2>1 DEF ProcessMsg, Ends, PcInv
  <2>2. CASE ~(client = "dead" \/ socket # "open")
    BY <1>10, <2>2, Moves DEF ProcessMsg
  <2> QED BY <2>1, <2>2
<1>11. CASE Rearm
  BY <1>11, Moves DEF Rearm
<1>12. CASE BindFails
  BY <1>12 DEF BindFails, Ends, PcInv
<1>13. CASE AcceptFails
  BY <1>13 DEF AcceptFails, Ends, PcInv
<1> QED BY <1>1, <1>2, <1>3, <1>4, <1>5, <1>6, <1>7, <1>8, <1>9, <1>10, <1>11, <1>12, <1>13 DEF SocketStep

(* Clients, signals, and the use of a destroyed handler. *)
LEMMA OutsideKeeps ==
    ASSUME LifecycleInv,
           Connect \/ ClientStep \/ ClientKilled \/ Signal \/ DestroyedUsed
    PROVE  LifecycleInv'
<1> USE LifecycleAssumption
    DEF LifecycleInv, TypeOK, PcInv, Threads, HandlerInv, CommInv, SocketInv,
        AbortExplained, SocketCallFailed, HandlerDestroyed, flags, handler, sockets,
        bounds
<1>1. CASE Connect
  BY <1>1 DEF Connect
<1>2. CASE ClientStep
  BY <1>2 DEF ClientStep
<1>3. CASE ClientKilled
  BY <1>3 DEF ClientKilled
<1>4. CASE Signal
  <2>0. is_task_running' \in BOOLEAN
    BY <1>4, Zenon DEF Signal
  <2>1. TypeOK'
    BY <1>4, <2>0 DEF Signal
  <2>2. PcInv' /\ HandlerInv' /\ CommInv' /\ SocketInv'
    BY <1>4 DEF Signal
  <2>3. AbortExplained'
    BY <1>4 DEF Signal
  <2> QED BY <2>1, <2>2, <2>3
<1>5. CASE DestroyedUsed
  BY <1>5 DEF DestroyedUsed, Ends
<1> QED BY <1>1, <1>2, <1>3, <1>4, <1>5

(* LifecycleInv is inductive: in every interleaving of the engine's three   *)
(* threads, its clients and signals.                                        *)
THEOREM LifecycleInvariant == Spec => []LifecycleInv
<1>1. Init => LifecycleInv
  BY LifecycleStart
<1>2. LifecycleInv /\ [Next]_vars => LifecycleInv'
  <2>1. CASE UNCHANGED vars
    BY <2>1 DEF vars, flags, handler, sockets, bounds, LifecycleInv, TypeOK, PcInv,
                HandlerInv, CommInv, SocketInv, AbortExplained, SocketCallFailed,
                HandlerDestroyed
  <2> QED BY <2>1, MainKeeps, CommKeeps, SocketKeeps, OutsideKeeps DEF Next
<1> QED BY <1>1, <1>2, PTL DEF Spec

(* Types, and mutual exclusion: who holds paged_mtx is in the section the   *)
(* mutex protects, and nobody else is (start_comm, start_task,              *)
(* handle_accept).                                                          *)
THEOREM LifecycleTypes == Spec => []TypeOK
BY LifecycleInvariant, PTL DEF LifecycleInv

(* start returns to the task loop only when the comm thread polls and the   *)
(* socket thread serves, on the handler that stop will address, and they    *)
(* go on while it loops; of the socket thread, unless getInstance has       *)
(* destroyed a handler.                                                     *)
THEOREM StartedMeansServing == Spec => []ServesWhenStarted
<1>1. LifecycleInv => ServesWhenStarted
  BY DEF LifecycleInv, TypeOK, CommInv, SocketInv, ServesWhenStarted, Serving,
         Started, Stopping, IoStopped
<1> QED BY <1>1, LifecycleInvariant, PTL

(* An exception ends the engine only for a client that died in the middle   *)
(* of a request (handle_accept, process_msg), a bind or an accept that      *)
(* failed (run), a handler that was destroyed (getInstance), or while it is *)
(* being stopped: the order of the threads never ends it.                   *)
THEOREM AbortIsExplained == Spec => []AbortExplained
BY LifecycleInvariant, PTL DEF LifecycleInv
=============================================================================
