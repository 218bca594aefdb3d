------------------------- MODULE PageOwnershipProofs -------------------------
(***************************************************************************)
(* SlotOwnership of the service: what exit_client and PstPidCheck do for a *)
(* client that leaves or has died never takes anything from a client that  *)
(* runs, and no slot is given out twice.  Proved for any number of         *)
(* handlers, processes, names, journals and slots, with processes that are *)
(* killed at any step; an engine that goes down stays down (Outages is     *)
(* FALSE), because a new one knows nothing of the old one's clients.       *)
(***************************************************************************)
EXTENDS PageServiceProofs

(* PstPidCheck only ever has the names of dead processes on its list, and   *)
(* the one it is removing is dead; the one the socket thread is removing    *)
(* has said good-bye.                                                       *)
RemovesOnlyDead ==
    \A n \in toRemove :
      clientJournals[n] # NoClient => ~alive[Pid[clientJournals[n]]]
ExitIsDue ==
    exiting # NoClient =>
      \/ mutex = "task" /\ ~alive[Pid[clientJournals[exiting]]]
      \/ mutex = "socket" /\ ctl[clientJournals[exiting]].pc = "leaving"

(* A running client has its registration, which lists all its slots. *)
Registered(h) ==
    /\ clientJournals[Name[h]] = h
    /\ \A j \in Journals : jr[h][j].slot # NoSlot =>
                              jr[h][j].slot \in user_index_vec[Name[h]]

(* A handler that is not registered yet has no slot. *)
NewHasNone ==
    \A h \in Handlers : ctl[h].pc \in {"new", "regclient"} =>
      \A j \in Journals : jr[h][j].slot = NoSlot

OwnerInv ==
    /\ NewHasNone
    /\ up => /\ RemovesOnlyDead
             /\ ExitIsDue
             /\ \A h \in Handlers : Member(h) => Registered(h)

-----------------------------------------------------------------------------
(* A step of handler h that leaves the registry, the mutex and all slots    *)
(* alone and does not begin or end a registration.                          *)
Outside == {"new", "regclient", "leaving", "gone"}
EngineCalm ==
    /\ UNCHANGED <<clientJournals, user_index_vec, toRemove, exiting, mutex, up>>
    /\ \A p \in Pids : alive'[p] => alive[p]
OthersCalm(h) ==
    \A g \in Handlers \ {h} : ctl'[g] = ctl[g] /\ jr'[g] = jr[g]
HandlerCalm(h) ==
    /\ \A j \in Journals : jr'[h][j].slot = jr[h][j].slot
    /\ ctl[h].pc # "leaving" /\ ctl'[h].pc # "new"
    /\ ctl'[h].pc = "regclient" => ctl[h].pc = "new"
    /\ ctl'[h].pc \notin Outside => ctl[h].pc \notin Outside

LEMMA CalmKeeps ==
    ASSUME EngineInv, OwnerInv, NEW h \in Handlers,
           EngineCalm, OthersCalm(h), HandlerCalm(h)
    PROVE  OwnerInv'
<1>0. \A g \in Handlers : Pid[g] \in Pids
  BY EngineAssumption
<1>1. NewHasNone'
  BY DEF OwnerInv, NewHasNone, OthersCalm, HandlerCalm
<1>2. ASSUME up'
      PROVE  /\ RemovesOnlyDead'
             /\ ExitIsDue'
             /\ \A g \in Handlers : Member(g)' => Registered(g)'
  <2>1. /\ RemovesOnlyDead /\ ExitIsDue
        /\ \A g \in Handlers : Member(g) => Registered(g)
    BY <1>2 DEF OwnerInv, EngineCalm
  <2>2. \A n \in Names : clientJournals[n] # NoClient =>
                            clientJournals[n] \in Handlers
    BY DEF EngineInv, TypeOK
  <2>3. RemovesOnlyDead'
    BY <1>0, <2>1, <2>2 DEF RemovesOnlyDead, EngineCalm, EngineInv, TypeOK
  <2>4. ASSUME exiting' # NoClient PROVE ExitIsDue'
    <3> DEFINE g == clientJournals[exiting]
    <3>1. g \in Handlers /\ exiting # NoClient /\ clientJournals'[exiting'] = g
      BY <2>2, <2>4 DEF EngineCalm, EngineInv, LockOK, TypeOK
    <3>2. \/ mutex = "task" /\ ~alive[Pid[g]]
          \/ mutex = "socket" /\ ctl[g].pc = "leaving"
      BY <2>1, <3>1 DEF ExitIsDue
    <3> HIDE DEF g
    <3>3. ctl[g].pc = "leaving" => ctl'[g] = ctl[g]
      BY <3>1 DEF OthersCalm, HandlerCalm
    <3> QED BY <1>0, <3>1, <3>2, <3>3 DEF ExitIsDue, EngineCalm
  <2>5. ASSUME NEW g \in Handlers, Member(g)' PROVE Registered(g)'
    <3>1. Member(g)
      BY <1>0, <2>5 DEF Member, Running, EngineCalm, OthersCalm, HandlerCalm, Outside
    <3>2. \A j \in Journals : jr'[g][j].slot = jr[g][j].slot
      BY DEF OthersCalm, HandlerCalm
    <3> QED BY <2>1, <3>1, <3>2 DEF Registered, EngineCalm
  <2> QED BY <2>3, <2>4, <2>5 DEF ExitIsDue
<1> QED BY <1>1, <1>2 DEF OwnerInv

(* Client steps as the engine sees them. *)
LEMMA ClientIsCalm ==
    ASSUME TypeOK, NEW h \in Handlers, EngineSees(h) PROVE EngineCalm
<1>1. CASE UNCHANGED engineVars
  BY <1>1 DEF engineVars, EngineCalm
<1>2. CASE ClientStore(Slot(h))
  BY <1>2 DEF ClientStore, StoreJournal, StorePageNum, StoreStatus,
              othersUnchanged, registry, exitVars, EngineCalm
<1>3. CASE Kill(Pid[h])
  BY <1>3 DEF Kill, othersUnchanged, registry, exitVars, EngineCalm, TypeOK
<1> QED BY <1>1, <1>2, <1>3 DEF EngineSees

(* No call of the application, and no step inside one, touches the slots a  *)
(* handler has or the membership of another.                                *)
LEMMA CallIsCalm ==
    ASSUME ClientInv, NEW h \in Handlers, Call(h) \/ InCall(h)
    PROVE  OthersCalm(h) /\ HandlerCalm(h)
<1> USE DEF ClientInv, Ctl, JournalState, OthersCalm, HandlerCalm, Outside, At, GoTo
<1>1. CASE register_client(h)
  BY <1>1 DEF register_client
<1>2. CASE exit(h)
  BY <1>2 DEF exit
<1>3. CASE write_frame(h)
  BY <1>3 DEF write_frame, CanAppend
<1>4. CASE write_null(h)
  BY <1>4 DEF write_null, clientVars
<1>5. CASE WriterTurn(h, "ready")
  BY <1>5 DEF WriterTurn
<1>6. ASSUME NEW j \in Journals, addJournal(h, j)
      PROVE  OthersCalm(h) /\ HandlerCalm(h)
  BY <1>6 DEF addJournal
<1>7. ASSUME NEW j \in Journals, seekTime(h, j)
      PROVE  OthersCalm(h) /\ HandlerCalm(h)
  BY <1>7 DEF seekTime
<1>8. ASSUME NEW j \in Journals, expire(h, j)
      PROVE  OthersCalm(h) /\ HandlerCalm(h)
  BY <1>8 DEF expire
<1>9. ASSUME NEW j \in Journals, ReaderLocate(h, j)
      PROVE  OthersCalm(h) /\ HandlerCalm(h)
  BY <1>9 DEF ReaderLocate
<1>10. CASE CheckSlot(h)
  BY <1>10 DEF CheckSlot
<1>11. CASE FillSlot(h)
  BY <1>11 DEF FillSlot
<1>12. CASE HoldSlot(h)
  BY <1>12 DEF HoldSlot
<1>13. CASE GetPageNums(h)
  BY <1>13 DEF GetPageNums
<1>14. CASE PostPageNum(h)
  BY <1>14 DEF PostPageNum
<1>15. CASE PostRequest(h)
  BY <1>15 DEF PostRequest
<1>16. CASE GetPageThrows(h)
  BY <1>16 DEF GetPageThrows, Answered
<1>17. CASE SeekReturns(h)
  BY <1>17 DEF SeekReturns, Answered
<1>18. CASE ExpireReturns(h)
  BY <1>18 DEF ExpireReturns, Answered
<1>19. CASE ReaderNextReturns(h)
  BY <1>19 DEF ReaderNextReturns, Answered
<1>20. CASE WriterNextReturns(h)
  BY <1>20 DEF WriterNextReturns, Answered
<1>21. CASE finishPage(h)
  BY <1>21 DEF finishPage
<1>22. CASE LocateEnd(h)
  BY <1>22 DEF LocateEnd
<1>23. CASE WriterTurn(h, "locate")
  BY <1>23 DEF WriterTurn
<1> HIDE DEF OthersCalm, HandlerCalm
<1> QED
  BY <1>1, <1>2, <1>3, <1>4, <1>5, <1>6, <1>7, <1>8, <1>9, <1>10, <1>11, <1>12, <1>13, <1>14, <1>15, <1>16, <1>17, <1>18, <1>19, <1>20, <1>21, <1>22, <1>23
     DEF Call, InCall

-----------------------------------------------------------------------------
(* A step in which only the socket thread and handler h take part. *)
LEMMA ServeClientOwner ==
    ASSUME EngineInv, ClientInv, OwnerInv, NEW h \in Handlers, ServeClient(h)
    PROVE  OwnerInv'
<1>1. /\ ctl[h].pc = "regclient" /\ up /\ mutex = "free"
      /\ exiting = NoClient /\ toRemove = {}
      /\ \A j \in Journals : jr[h][j].slot = NoSlot
      /\ UNCHANGED <<jr, exiting, toRemove, mutex, alive>>
  BY DEF ServeClient, reg_client, EngineInv, LockOK, OwnerInv, NewHasNone, exitVars
<1>2. Name[h] \in Names /\ h # NoClient
  BY EngineAssumption
<1>3. CASE clientJournals[Name[h]] = NoClient
  <2>1. /\ clientJournals' = [clientJournals EXCEPT ![Name[h]] = h]
        /\ user_index_vec' = [user_index_vec EXCEPT ![Name[h]] = {}]
        /\ ctl' = [ctl EXCEPT ![h].pc = "ready"]
    BY <1>3 DEF ServeClient, reg_client, GoTo
  <2>2. NewHasNone'
    BY <1>1, <2>1 DEF OwnerInv, NewHasNone, ClientInv, Ctl
  <2>3. RemovesOnlyDead' /\ ExitIsDue'
    BY <1>1 DEF RemovesOnlyDead, ExitIsDue
  <2>4. ASSUME NEW g \in Handlers, Member(g)' PROVE Registered(g)'
    <3>1. CASE g = h
      BY <1>1, <1>2, <2>1, <3>1 DEF Registered, EngineInv, TypeOK
    <3>2. CASE g # h
      <4>1. Member(g)
        BY <1>1, <2>1, <2>4, <3>2 DEF Member, Running, ClientInv
      <4>2. Registered(g) /\ g # NoClient
        BY <1>1, <4>1, EngineAssumption DEF OwnerInv
      <4>3. Name[g] # Name[h]
        BY <1>3, <4>2 DEF Registered
      <4> QED BY <1>1, <1>2, <2>1, <4>2, <4>3, EngineAssumption
                 DEF Registered, EngineInv, TypeOK
    <3> QED BY <3>1, <3>2
  <2> QED BY <2>2, <2>3, <2>4 DEF OwnerInv
<1>4. CASE clientJournals[Name[h]] # NoClient
  <2>1. UNCHANGED <<clientJournals, user_index_vec>>
        /\ ctl' = [ctl EXCEPT ![h].pc = "gone"]
    BY <1>4 DEF ServeClient, reg_client, GoTo, registry
  <2>2. NewHasNone'
    BY <1>1, <2>1 DEF OwnerInv, NewHasNone, ClientInv, Ctl
  <2>3. RemovesOnlyDead' /\ ExitIsDue'
    BY <1>1 DEF RemovesOnlyDead, ExitIsDue
  <2>4. ASSUME NEW g \in Handlers, Member(g)' PROVE Registered(g)'
    <3>1. Member(g)
      BY <1>1, <2>1, <2>4 DEF Member, Running, ClientInv, Ctl
    <3> QED BY <1>1, <2>1, <3>1 DEF OwnerInv, Registered
  <2> QED BY <2>2, <2>3, <2>4 DEF OwnerInv
<1> QED BY <1>3, <1>4

(* The new slot is the one reg_journal has filed for the client. *)
LEMMA ServeJournalOwner ==
    ASSUME EngineInv, ClientInv, OwnerInv, NEW h \in Handlers, ServeJournal(h)
    PROVE  OwnerInv'
<1>1. /\ ctl[h].pc = "regjournal" /\ up /\ mutex = "free"
      /\ exiting = NoClient /\ toRemove = {} /\ ctl[h].j \in Journals
      /\ UNCHANGED <<clientJournals, exiting, toRemove, mutex, alive>>
  BY DEF ServeJournal, reg_journal, EngineInv, LockOK, ClientInv, HandlerOK,
         WithJournal, exitVars
<1>2. Name[h] \in Names
  BY EngineAssumption
<1>3. RemovesOnlyDead' /\ ExitIsDue'
  BY <1>1 DEF RemovesOnlyDead, ExitIsDue
<1>4. CASE RawSlots # {} /\ clientJournals[Name[h]] # NoClient
  <2> DEFINE new == CHOOSE s \in Slots : FirstRaw(s)
  <2>1. PICK s \in Slots :
          /\ FirstRaw(s)
          /\ user_index_vec' = [user_index_vec EXCEPT ![Name[h]] = @ \cup {s}]
    BY <1>4 DEF ServeJournal, reg_journal
  <2>2. new = s
    <3>1. new \in Slots /\ FirstRaw(new)
      BY <2>1
    <3> HIDE DEF new
    <3>2. new <= s /\ s <= new
      BY <2>1, <3>1 DEF FirstRaw
    <3> QED BY <3>1, <3>2 DEF Slots
  <2>3. /\ jr' = [jr EXCEPT ![h][ctl[h].j].slot = s]
        /\ ctl' = [ctl EXCEPT ![h].pc = "check"]
    BY <1>4, <2>2 DEF ServeJournal, GoTo
  <2> HIDE DEF new
  <2>4. /\ ctl'[h].pc = "check"
        /\ \A g \in Handlers \ {h} : ctl'[g] = ctl[g] /\ jr'[g] = jr[g]
        /\ jr'[h][ctl[h].j].slot = s
        /\ \A j \in Journals \ {ctl[h].j} : jr'[h][j] = jr[h][j]
    BY <1>1, <2>3 DEF ClientInv, Ctl, JournalState
  <2>5. NewHasNone'
    BY <2>4 DEF OwnerInv, NewHasNone
  <2>6. ASSUME NEW g \in Handlers, Member(g)' PROVE Registered(g)'
    <3>1. Member(g)
      BY <1>1, <2>4, <2>6 DEF Member, Running
    <3>2. Registered(g) /\ Name[g] \in Names
      BY <1>1, <3>1, EngineAssumption DEF OwnerInv
    <3>3. user_index_vec[Name[g]] \subseteq user_index_vec'[Name[g]]
      BY <1>2, <2>1, <3>2 DEF EngineInv, TypeOK
    <3>4. s \in user_index_vec'[Name[h]]
      BY <1>2, <2>1 DEF EngineInv, TypeOK
    <3> QED BY <1>1, <2>4, <3>2, <3>3, <3>4 DEF Registered
  <2> QED BY <1>3, <2>5, <2>6 DEF OwnerInv
<1>5. CASE ~(RawSlots # {} /\ clientJournals[Name[h]] # NoClient)
  <2>1. UNCHANGED <<jr, user_index_vec>> /\ ctl' = [ctl EXCEPT ![h].pc = "bye"]
    BY <1>5 DEF ServeJournal, reg_journal, GoTo, FirstRaw
  <2>2. NewHasNone'
    BY <1>1, <2>1 DEF OwnerInv, NewHasNone, ClientInv, Ctl
  <2>3. ASSUME NEW g \in Handlers, Member(g)' PROVE Registered(g)'
    <3>1. Member(g)
      BY <1>1, <2>1, <2>3 DEF Member, Running, ClientInv, Ctl
    <3> QED BY <1>1, <2>1, <3>1 DEF OwnerInv, Registered
  <2> QED BY <1>3, <2>2, <2>3 DEF OwnerInv
<1> QED BY <1>4, <1>5

(* exit_client starts only for the handler that said good-bye ... *)
LEMMA ServeExitOwner ==
    ASSUME EngineInv, ClientInv, OwnerInv, NEW h \in Handlers, ServeExit(h)
    PROVE  OwnerInv'
<1>1. /\ ctl[h].pc = "bye" /\ up /\ mutex = "free"
      /\ exiting = NoClient /\ toRemove = {}
      /\ UNCHANGED <<jr, clientJournals, user_index_vec, toRemove, alive>>
  BY DEF ServeExit, exit_client, EngineInv, LockOK, registry
<1>2. PICK x \in {"leaving", "gone"} : ctl' = [ctl EXCEPT ![h].pc = x]
  BY DEF ServeExit, GoTo
<1>3. /\ ctl'[h].pc = x
      /\ \A g \in Handlers \ {h} : ctl'[g] = ctl[g]
  BY <1>2 DEF ClientInv, Ctl
<1>4. NewHasNone'
  BY <1>1, <1>3 DEF OwnerInv, NewHasNone
<1>5. RemovesOnlyDead'
  BY <1>1 DEF RemovesOnlyDead
<1>6. ExitIsDue'
  <2>1. CASE clientJournals[Name[h]] = h
    <3>1. exiting' = Name[h] /\ mutex' = "socket" /\ ctl'[h].pc = "leaving"
      BY <2>1 DEF ServeExit, exit_client, ExitStart, GoTo, ClientInv, Ctl
    <3> QED BY <1>1, <2>1, <3>1 DEF ExitIsDue
  <2>2. CASE clientJournals[Name[h]] # h
    BY <1>1, <2>2 DEF ServeExit, exit_client, ExitIsDue
  <2> QED BY <2>1, <2>2
<1>7. ASSUME NEW g \in Handlers, Member(g)' PROVE Registered(g)'
  <2>1. Member(g)
    BY <1>1, <1>3, <1>7 DEF Member, Running
  <2> QED BY <1>1, <2>1 DEF OwnerInv, Registered
<1> QED BY <1>4, <1>5, <1>6, <1>7 DEF OwnerInv

(* ... and what it removes at the end is nothing a running client has. *)
LEMMA ExitFinishOwner ==
    ASSUME EngineInv, ClientInv, OwnerInv, up, ExitFinish,
           NEW g \in Handlers, Member(g)
    PROVE  /\ Name[g] # exiting
           /\ clientJournals'[Name[g]] = clientJournals[Name[g]]
           /\ user_index_vec'[Name[g]] = user_index_vec[Name[g]]
<1>1. Registered(g) /\ ExitIsDue /\ Name[g] \in Names /\ exiting # NoClient
  BY EngineAssumption DEF OwnerInv, ExitFinish
<1>2. clientJournals[exiting] # g
  BY <1>1 DEF ExitIsDue, Member, Running
<1>3. Name[g] # exiting
  BY <1>1, <1>2 DEF Registered
<1> QED BY <1>1, <1>3 DEF ExitFinish, EngineInv, TypeOK

LEMMA ServeExitEndOwner ==
    ASSUME EngineInv, ClientInv, OwnerInv, ServeExitEnd
    PROVE  OwnerInv'
<1> DEFINE h == clientJournals[exiting]
<1>1. /\ up /\ mutex = "socket" /\ ExitFinish /\ exiting' = NoClient
      /\ toRemove = {} /\ UNCHANGED <<jr, toRemove, alive>>
      /\ exiting # NoClient
  BY DEF ServeExitEnd, SocketExitEnd, ExitFinish, EngineInv, LockOK
<1>2. h \in Handlers /\ ctl' = [ctl EXCEPT ![h].pc = "gone"]
  BY <1>1 DEF ServeExitEnd, GoTo, EngineInv, LockOK, TypeOK
<1>3. /\ ctl'[h].pc = "gone"
      /\ \A g \in Handlers \ {h} : ctl'[g] = ctl[g]
  BY <1>2 DEF ClientInv, Ctl
<1>4. NewHasNone'
  BY <1>1, <1>3 DEF OwnerInv, NewHasNone
<1>5. RemovesOnlyDead' /\ ExitIsDue'
  BY <1>1 DEF RemovesOnlyDead, ExitIsDue
<1>6. ASSUME NEW g \in Handlers, Member(g)' PROVE Registered(g)'
  <2>1. Member(g)
    BY <1>1, <1>3, <1>6 DEF Member, Running
  <2> QED BY <1>1, <2>1, ExitFinishOwner DEF OwnerInv, Registered
<1> QED BY <1>4, <1>5, <1>6 DEF OwnerInv

(* PstPidCheck, the comm thread and the loop of exit_client. *)
LEMMA EngineOwner ==
    ASSUME EngineInv, ClientInv, OwnerInv, UNCHANGED clientVars,
           TaskStep \/ CommStep \/ \E s \in Slots : ExitSlot(s)
    PROVE  OwnerInv'
<1>0. UNCHANGED <<ctl, jr>> /\ NewHasNone'
  BY DEF clientVars, OwnerInv, NewHasNone
<1>a. \A g \in Handlers : Pid[g] \in Pids
  BY EngineAssumption
<1>1. CASE TaskStart
  <2>1. /\ up /\ mutex = "free" /\ exiting = NoClient
        /\ UNCHANGED <<clientJournals, user_index_vec, exiting, alive>>
    BY <1>1 DEF TaskStart, EngineInv, LockOK, registry
  <2>2. RemovesOnlyDead'
    BY <1>1, <2>1 DEF TaskStart, RemovesOnlyDead, EngineInv, RegistryOK, TypeOK
  <2>3. ExitIsDue'
    BY <2>1 DEF ExitIsDue
  <2>4. \A g \in Handlers : Member(g)' => Registered(g)'
    BY <1>0, <2>1 DEF OwnerInv, Member, Running, Registered
  <2> QED BY <1>0, <2>2, <2>3, <2>4 DEF OwnerInv
<1>2. CASE TaskEnd
  <2>1. /\ up /\ exiting = NoClient /\ toRemove = {}
        /\ UNCHANGED <<clientJournals, user_index_vec, exiting, toRemove, alive>>
    BY <1>2 DEF TaskEnd, registry, exitVars
  <2>2. RemovesOnlyDead' /\ ExitIsDue'
    BY <2>1 DEF RemovesOnlyDead, ExitIsDue
  <2>3. \A g \in Handlers : Member(g)' => Registered(g)'
    BY <1>0, <2>1 DEF OwnerInv, Member, Running, Registered
  <2> QED BY <1>0, <2>2, <2>3 DEF OwnerInv
<1>3. ASSUME NEW n \in Names, TaskExit(n) PROVE OwnerInv'
  <2>1. /\ up /\ mutex = "task" /\ n \in toRemove /\ toRemove' \subseteq toRemove
        /\ UNCHANGED <<clientJournals, user_index_vec, mutex, alive>>
    BY <1>3 DEF TaskExit, registry
  <2>2. RemovesOnlyDead'
    BY <2>1 DEF OwnerInv, RemovesOnlyDead
  <2>3. ExitIsDue'
    BY <1>3, <2>1 DEF TaskExit, ExitStart, OwnerInv, RemovesOnlyDead, ExitIsDue
  <2>4. \A g \in Handlers : Member(g)' => Registered(g)'
    BY <1>0, <2>1 DEF OwnerInv, Member, Running, Registered
  <2> QED BY <1>0, <2>2, <2>3, <2>4 DEF OwnerInv
<1>4. CASE TaskExitEnd
  <2>1. /\ up /\ ExitFinish /\ exiting' = NoClient /\ UNCHANGED <<toRemove, alive>>
        /\ exiting \in Names
    BY <1>4 DEF TaskExitEnd, ExitFinish, EngineInv, TypeOK
  <2>2. \A n \in Names : clientJournals'[n] \in {clientJournals[n], NoClient}
    BY <2>1 DEF ExitFinish, EngineInv, TypeOK
  <2>3. RemovesOnlyDead'
    BY <2>1, <2>2 DEF OwnerInv, RemovesOnlyDead, EngineInv, TypeOK
  <2>4. ExitIsDue'
    BY <2>1 DEF ExitIsDue
  <2>5. ASSUME NEW g \in Handlers, Member(g)' PROVE Registered(g)'
    <3>1. Member(g)
      BY <1>0, <2>1, <2>5 DEF Member, Running
    <3> QED BY <1>0, <2>1, <3>1, ExitFinishOwner DEF OwnerInv, Registered
  <2> QED BY <1>0, <2>3, <2>4, <2>5 DEF OwnerInv
<1>5. CASE CommStep
  <2>1. /\ up /\ UNCHANGED <<clientJournals, user_index_vec, exiting, toRemove, alive>>
        /\ exiting # NoClient => UNCHANGED mutex
    BY <1>5 DEF CommStep, CommScan, CommServe, CommDone, registry, exitVars,
                EngineInv, LockOK
  <2>2. RemovesOnlyDead' /\ ExitIsDue'
    BY <1>0, <2>1 DEF OwnerInv, RemovesOnlyDead, ExitIsDue
  <2>3. \A g \in Handlers : Member(g)' => Registered(g)'
    BY <1>0, <2>1 DEF OwnerInv, Member, Running, Registered
  <2> QED BY <1>0, <2>2, <2>3 DEF OwnerInv
<1>6. ASSUME NEW s \in Slots, ExitSlot(s) PROVE OwnerInv'
  <2>1. up /\ UNCHANGED <<clientJournals, user_index_vec, exiting, toRemove, alive, mutex>>
    BY <1>6 DEF ExitSlot, registry
  <2>2. RemovesOnlyDead' /\ ExitIsDue'
    BY <1>0, <2>1 DEF OwnerInv, RemovesOnlyDead, ExitIsDue
  <2>3. \A g \in Handlers : Member(g)' => Registered(g)'
    BY <1>0, <2>1 DEF OwnerInv, Member, Running, Registered
  <2> QED BY <1>0, <2>2, <2>3 DEF OwnerInv
<1> QED BY <1>1, <1>2, <1>3, <1>4, <1>5, <1>6 DEF TaskStep

(* A process that is killed takes nothing with it but itself. *)
LEMMA KillOwner ==
    ASSUME EngineInv, OwnerInv, NEW p \in Pids, Kill(p), UNCHANGED clientVars
    PROVE  OwnerInv'
<1>1. /\ UNCHANGED <<ctl, jr, clientJournals, user_index_vec, exiting, toRemove, mutex, up>>
      /\ \A q \in Pids : alive'[q] => alive[q]
  BY DEF Kill, othersUnchanged, registry, exitVars, clientVars, EngineInv, TypeOK
<1>2. \A g \in Handlers : Pid[g] \in Pids
  BY EngineAssumption
<1>3. \A n \in Names : clientJournals[n] # NoClient =>
                          clientJournals[n] \in Handlers
  BY DEF EngineInv, TypeOK
<1>4. NewHasNone'
  BY <1>1 DEF OwnerInv, NewHasNone
<1>5. ASSUME up'
      PROVE  /\ RemovesOnlyDead' /\ ExitIsDue'
             /\ \A g \in Handlers : Member(g)' => Registered(g)'
  <2>1. /\ RemovesOnlyDead /\ ExitIsDue
        /\ \A g \in Handlers : Member(g) => Registered(g)
    BY <1>1, <1>5 DEF OwnerInv
  <2>2. RemovesOnlyDead'
    BY <1>1, <1>2, <1>3, <2>1 DEF RemovesOnlyDead, EngineInv, TypeOK
  <2>3. ASSUME exiting' # NoClient PROVE ExitIsDue'
    <3> DEFINE g == clientJournals[exiting]
    <3>1. g \in Handlers /\ exiting # NoClient /\ clientJournals'[exiting'] = g
      BY <1>1, <1>3, <2>3 DEF EngineInv, LockOK, TypeOK
    <3>2. \/ mutex = "task" /\ ~alive[Pid[g]]
          \/ mutex = "socket" /\ ctl[g].pc = "leaving"
      BY <2>1, <3>1 DEF ExitIsDue
    <3> HIDE DEF g
    <3> QED BY <1>1, <1>2, <3>1, <3>2 DEF ExitIsDue
  <2>4. \A g \in Handlers : Member(g)' => Registered(g)'
    BY <1>1, <1>2, <2>1 DEF Member, Running, Registered
  <2> QED BY <2>2, <2>3, <2>4 DEF ExitIsDue
<1> QED BY <1>4, <1>5 DEF OwnerInv

(* Once the engine is down only the clients that have no slot matter. *)
LEMMA UnansweredOwner ==
    ASSUME EngineInv, ClientInv, OwnerInv, NEW h \in Handlers,
           ClientUnanswered(h) \/ JournalUnanswered(h)
    PROVE  OwnerInv'
<1>1. ~up'
  BY DEF ClientUnanswered, JournalUnanswered, engineVars, Kill, othersUnchanged
<1>2. NewHasNone'
  <2>1. /\ ctl'[h].pc \in {"gone", "bye", "check"}
        /\ \A g \in Handlers \ {h} : ctl'[g] = ctl[g] /\ jr'[g] = jr[g]
    BY DEF ClientUnanswered, JournalUnanswered, GoTo, ClientInv, Ctl
  <2> QED BY <2>1 DEF OwnerInv, NewHasNone
<1> QED BY <1>1, <1>2 DEF OwnerInv

-----------------------------------------------------------------------------
LEMMA OwnerStep ==
    ASSUME ~Outages, EngineInv, ClientInv, OwnerInv, [ServiceNext]_vars
    PROVE  OwnerInv'
<1>1. CASE UNCHANGED vars
  BY <1>1 DEF vars, engineVars, clientVars, OwnerInv, NewHasNone, RemovesOnlyDead,
              ExitIsDue, Member, Running, Registered
<1>2. ASSUME NEW s \in Slots, EngineExitSlot(s) PROVE OwnerInv'
  BY <1>2, EngineOwner DEF EngineExitSlot
<1>3. CASE EngineTask
  BY <1>3, EngineOwner DEF EngineTask
<1>4. CASE EngineComm
  BY <1>4, EngineOwner DEF EngineComm
<1>5. CASE SocketStep
  BY <1>5, ServeClientOwner, ServeJournalOwner, ServeExitOwner, ServeExitEndOwner
     DEF SocketStep
<1>6. ASSUME NEW h \in Handlers, InCall(h) \/ Call(h) PROVE OwnerInv'
  <2>1. EngineSees(h)
    BY <1>6, InCallKeeps, CallKeeps DEF EngineSees
  <2>2. EngineCalm
    BY <1>6, <2>1, ClientIsCalm DEF EngineInv
  <2> QED BY <1>6, <2>2, CallIsCalm, CalmKeeps DEF EngineInv
<1>7. ASSUME NEW h \in Handlers, ClientUnanswered(h) \/ JournalUnanswered(h)
      PROVE  OwnerInv'
  BY <1>7, UnansweredOwner
<1>8. ASSUME NEW p \in Pids, KillProcess(p) PROVE OwnerInv'
  BY <1>8, KillOwner DEF KillProcess
<1>9. ~EngineStops /\ ~EngineRestarts
  BY DEF EngineStops, EngineRestarts, EngineDies, start
<1> QED BY <1>1, <1>2, <1>3, <1>4, <1>5, <1>6, <1>7, <1>8, <1>9 DEF ServiceNext

LEMMA OwnerStart == ServiceInit => OwnerInv
BY DEF ServiceInit, Init, OwnerInv, NewHasNone, RemovesOnlyDead, ExitIsDue,
       Member, Running

(* Two registered clients with one slot would be one client (SlotsOK). *)
LEMMA OwnerGivesOwnership == EngineInv /\ ClientInv /\ OwnerInv => SlotOwnership
<1> SUFFICES ASSUME EngineInv, ClientInv, OwnerInv, up,
                    NEW h \in Handlers, Member(h)
             PROVE  /\ clientJournals[Name[h]] = h
                    /\ \A s \in Slots : UsesSlot(h, s) =>
                         /\ s \in user_index_vec[Name[h]]
                         /\ \A g \in Handlers \ {h} : Member(g) => ~UsesSlot(g, s)
  BY DEF SlotOwnership
<1>1. ASSUME NEW g \in Handlers, Member(g), NEW s \in Slots, UsesSlot(g, s)
      PROVE  s \in user_index_vec[Name[g]] /\ clientJournals[Name[g]] = g
  <2>1. NoSlot \notin Slots
    BY DEF NoSlot, Slots
  <2> QED BY <1>1, <2>1 DEF OwnerInv, Registered, UsesSlot
<1>2. ASSUME NEW s \in Slots, UsesSlot(h, s), NEW g \in Handlers \ {h},
             Member(g), UsesSlot(g, s)
      PROVE  FALSE
  <2>1. Name[g] = Name[h]
    BY <1>1, <1>2, EngineAssumption DEF EngineInv, SlotsOK, Owned
  <2> QED BY <1>1, <1>2, <2>1
<1> QED BY <1>1, <1>2 DEF OwnerInv, Registered

(* A running client keeps its registration and its slots to itself          *)
(* (reg_journal, exit_client, PstPidCheck), as long as no second engine is  *)
(* started under its clients.                                               *)
THEOREM ServiceSlotOwnership ==
    ASSUME ~Outages PROVE ServiceSpec => []SlotOwnership
<1>1. ServiceInit => ClientInv /\ OwnerInv
  BY ServiceStart, OwnerStart
<1>2. EngineInv /\ ClientInv /\ OwnerInv /\ [ServiceNext]_vars
        => ClientInv' /\ OwnerInv'
  BY ServiceStep, OwnerStep
<1>3. Spec => []EngineInv
  BY EngineInvariant
<1>4. ServiceSpec => Spec
  BY ServiceImplementsEngine DEF ImplementsEngine
<1>5. EngineInv /\ ClientInv /\ OwnerInv => SlotOwnership
  BY OwnerGivesOwnership
<1> QED BY <1>1, <1>2, <1>3, <1>4, <1>5, PTL DEF ServiceSpec
=============================================================================
