--------------------------- MODULE LifecycleProofs ---------------------------
(***************************************************************************)
(* Proofs about Lifecycle, for any number of restarts: a socket file left  *)
(* behind does no harm, a stop that went to its end has cleaned up, and    *)
(* the wg.Done that eventLogger owes nobody costs it one goroutine.        *)
(***************************************************************************)
EXTENDS Lifecycle, FiniteSetTheorems, TLAPS

States == {"none", "spawned", "joined", "cleared", "serving", "closed", "left"}
Busy == {"joined", "cleared", "serving", "closed"}

\* Before the go statements of Run there are no goroutines.
Early == {"config", "tun", "host", "services"}
Spawned ==
    IF main \in Early THEN events = "none" /\ \A x \in Services : svc[x] = "none"
                      ELSE \A x \in Services : svc[x] # "none"

\* The socket file is not there once the RPC server removed it, or closed.
SocketFile == svc["rpc"] \in {"cleared", "closed", "left"} => ~socket

\* The lock file is not there once Stop removed it.
LockFile == main \in {"down", "closeTun", "cancel", "wait", "waiting", "exit"} => ~lockFile

\* The counter is one below the goroutines it stands for once eventLogger left.
Owed == IF events = "left" THEN 1 ELSE 0
Counted == wg = Cardinality(Unfinished) - Owed

IInv ==
    /\ svc \in [Services -> States]
    /\ Spawned /\ SocketFile /\ LockFile /\ Counted
    /\ process = "exit0" => main = "exit"
    /\ process # "rpcInUse"

-----------------------------------------------------------------------------
LEMMA UnfinishedFinite ==
    IsFiniteSet(Unfinished) /\ Cardinality(Unfinished) \in Nat
<1>1. IsFiniteSet(Services)
  <2>1. IsFiniteSet({}) /\ \A S, x : IsFiniteSet(S) => IsFiniteSet(S \cup {x})
    BY FS_EmptySet, FS_AddElement
  <2>2. Services = ((({"discover"} \cup {"pex"}) \cup {"metrics"}) \cup {"rpc"}) \cup {"dns"}
    BY DEF Services
  <2>3. IsFiniteSet({"discover"})
    BY FS_Singleton, ZenonT(30)
  <2> QED BY <2>1, <2>2, <2>3, Zenon
<1>2. Unfinished \subseteq Services
  BY DEF Unfinished
<1> QED BY <1>1, <1>2, FS_Subset, FS_CardinalityType

LEMMA InitInv == Init => IInv
<1> SUFFICES ASSUME Init PROVE IInv
  OBVIOUS
<1>1. svc \in [Services -> States] /\ \A x \in Services : svc[x] = "none"
  BY DEF Init, States
<1>2. Unfinished = {}
  BY <1>1 DEF Unfinished
<1>3. Counted
  BY <1>2, FS_EmptySet DEF Counted, Owed, Init
<1>4. "rpc" \in Services
  BY DEF Services
<1> QED BY <1>1, <1>3, <1>4 DEF IInv, Init, Spawned, Early, SocketFile, LockFile

\* A step of the main goroutine that starts no other.
LEMMA MainStep == ASSUME IInv, mainStep, ~StartServices PROVE IInv'
<1> DEFINE Past == {"down", "closeTun", "cancel", "wait", "waiting", "exit"}
<1>1. /\ svc' = svc /\ events' = events /\ wg' = wg /\ socket' = socket /\ process = "running"
  BY DEF mainStep, ReadConfig, CreateTun, CreateNode, NewServiceNetwork, WriteLock, Up,
     ApplyRoutes, MakeMap, Notify, Rebootstrap, ForceRefresh, Rediscover, Shutdown, CloseHost, RemoveLock,
     Down, CloseTun, Cancel, Wait, Exit, At, Running, goroutines, files
<1>2. Counted' /\ svc' \in [Services -> States] /\ SocketFile'
  BY <1>1 DEF IInv, Counted, Owed, Unfinished, SocketFile
<1>3. (main \in Early /\ main' \in Early) \/ (main \notin Early /\ main' \notin Early)
  BY DEF mainStep, ReadConfig, CreateTun, CreateNode, NewServiceNetwork, WriteLock, Up,
     ApplyRoutes, MakeMap, Notify, Rebootstrap, ForceRefresh, Rediscover, Shutdown, CloseHost, RemoveLock,
     Down, CloseTun, Cancel, Wait, Exit, At, Goto, Early
<1>4. main' \in Past => (main \in Past /\ lockFile' = lockFile) \/ ~lockFile'
  BY DEF mainStep, ReadConfig, CreateTun, CreateNode, NewServiceNetwork, WriteLock, Up,
     ApplyRoutes, MakeMap, Notify, Rebootstrap, ForceRefresh, Rediscover, Shutdown, CloseHost, RemoveLock,
     Down, CloseTun, Cancel, Wait, Exit, At, Goto, files
<1>5. process' = "running" \/ (process' = "exit0" /\ main' = "exit")
  BY DEF mainStep, ReadConfig, CreateTun, CreateNode, NewServiceNetwork, WriteLock, Up,
     ApplyRoutes, MakeMap, Notify, Rebootstrap, ForceRefresh, Rediscover, Shutdown, CloseHost, RemoveLock,
     Down, CloseTun, Cancel, Wait, Exit, At, End, Running
<1>6. Spawned'
  BY <1>1, <1>3 DEF IInv, Spawned
<1>7. LockFile'
  BY <1>4 DEF IInv, LockFile
<1> QED BY <1>2, <1>5, <1>6, <1>7 DEF IInv

\* The signals, and the ways the process ends.
LEMMA EndStep ==
    ASSUME IInv,
           \/ RunFails \/ StopFails \/ SignalKills \/ SignalExit \/ SignalUsr
           \/ SecondSignal \/ RpcFails \/ StreamBeforeMap \/ PumpFails
           \/ \E x \in Services : SubscribeFails(x)
    PROVE  IInv'
<1>1. /\ svc' = svc /\ events' = events /\ wg' = wg /\ socket' = socket /\ lockFile' = lockFile
      /\ main' = main
  BY DEF RunFails, StopFails, SignalKills, SignalExit, SignalUsr, SecondSignal, RpcFails,
     StreamBeforeMap, PumpFails, SubscribeFails, goroutines, files
<1>2. process' \notin {"exit0", "rpcInUse"}
  BY DEF RunFails, StopFails, SignalKills, SignalExit, SignalUsr, SecondSignal, RpcFails,
     StreamBeforeMap, PumpFails, SubscribeFails, End, Running
<1> QED BY <1>1, <1>2 DEF IInv, Counted, Owed, Unfinished, SocketFile, LockFile, Spawned

\* The go statements of Run, and a new process.
LEMMA StartStep == ASSUME IInv, StartServices \/ Restart PROVE IInv'
<1>1. "rpc" \in Services
  BY DEF Services
<1>2. CASE StartServices
  <2>1. /\ svc' \in [Services -> States] /\ \A x \in Services : svc'[x] = "spawned"
        /\ \A x \in Services : svc[x] = "none"
        /\ main \in Early /\ main' = "network" /\ process' = "running" /\ lockFile' = lockFile
        /\ wg' = wg /\ events' = "running" /\ events = "none"
    BY <1>2 DEF StartServices, IInv, Spawned, States, Early, At, Goto, Running, files
  <2>2. Unfinished = {} /\ Unfinished' = {}
    BY <2>1 DEF Unfinished
  <2>3. Counted'
    BY <2>1, <2>2 DEF IInv, Counted, Owed
  <2> QED BY <1>1, <2>1, <2>3 DEF IInv, Spawned, Early, SocketFile, LockFile
<1>3. CASE Restart
  <2>1. /\ svc' \in [Services -> States] /\ \A x \in Services : svc'[x] = "none"
        /\ main' = "config" /\ process' = "running" /\ wg' = 0 /\ events' = "none"
    BY <1>3 DEF Restart, States
  <2>2. Unfinished' = {}
    BY <2>1 DEF Unfinished
  <2>3. Counted'
    BY <2>1, <2>2, FS_EmptySet DEF Counted, Owed
  <2> QED BY <1>1, <2>1, <2>3 DEF IInv, Spawned, Early, SocketFile, LockFile
<1> QED BY <1>2, <1>3

\* A goroutine joins the WaitGroup.
LEMMA JoinStep == ASSUME IInv, NEW x \in Services, Join(x) PROVE IInv'
<1>1. /\ svc[x] = "spawned" /\ svc' = [svc EXCEPT ![x] = "joined"] /\ wg' = wg + 1
      /\ process' = process /\ main' = main /\ events' = events /\ lockFile' = lockFile
      /\ socket' = socket /\ svc \in [Services -> States]
  BY DEF Join, files, IInv
<1>2. svc' \in [Services -> States] /\ svc'[x] = "joined" /\ \A y \in Services \ {x} : svc'[y] = svc[y]
  BY <1>1 DEF States
<1>3. x \notin Unfinished /\ Unfinished' = Unfinished \cup {x}
  BY <1>1, <1>2 DEF Unfinished
<1>4. Cardinality(Unfinished') = Cardinality(Unfinished) + 1
  BY <1>3, UnfinishedFinite, FS_AddElement
<1>5. Counted'
  BY <1>1, <1>4, UnfinishedFinite DEF IInv, Counted, Owed
<1>6. main \notin Early
  BY <1>1 DEF IInv, Spawned
<1>7. Spawned'
  BY <1>1, <1>2, <1>6 DEF IInv, Spawned
<1>8. SocketFile'
  BY <1>1, <1>2 DEF IInv, SocketFile, Services
<1> QED BY <1>1, <1>2, <1>5, <1>7, <1>8 DEF IInv, LockFile

\* The RPC server makes and removes its socket file.
LEMMA RpcStep == ASSUME IInv, RpcRemoveOld \/ RpcListen \/ RpcClose PROVE IInv'
<1>1. /\ process = "running" /\ main' = main /\ events' = events /\ wg' = wg
      /\ lockFile' = lockFile /\ svc \in [Services -> States] /\ "rpc" \in Services
      /\ process # "rpcInUse"
  BY DEF RpcRemoveOld, RpcListen, RpcClose, Running, IInv, Services
<1>2. /\ svc["rpc"] \in Busy /\ svc'["rpc"] \in Busy /\ svc' \in [Services -> States]
      /\ \A y \in Services \ {"rpc"} : svc'[y] = svc[y]
  BY <1>1 DEF RpcRemoveOld, RpcListen, RpcClose, Busy, States
<1>3. process' = "running"
  BY <1>1 DEF RpcRemoveOld, RpcListen, RpcClose, IInv, SocketFile
<1>4. SocketFile'
  BY <1>1 DEF RpcRemoveOld, RpcListen, RpcClose, SocketFile
<1>5. Unfinished' = Unfinished
  BY <1>1, <1>2 DEF Unfinished, Busy
<1>6. Counted'
  BY <1>1, <1>5 DEF IInv, Counted, Owed
<1>7. Spawned'
  BY <1>1, <1>2 DEF IInv, Spawned, Busy
<1> QED BY <1>1, <1>2, <1>3, <1>4, <1>6, <1>7 DEF IInv, LockFile

\* wg.Done releases Stop, or panics: it does neither make the process fail to
\* serve nor bring the main goroutine back.
LEMMA DoneStep ==
    ASSUME IInv, Done, Running, main \notin Early, lockFile' = lockFile
    PROVE  /\ main' \notin Early /\ LockFile' /\ wg' = wg - 1
           /\ process' \in {"running", "panicWg"}
BY DEF Done, Running, IInv, LockFile, Early

\* A goroutine, or eventLogger, leaves the WaitGroup.
LEMMA LeaveStep == ASSUME IInv, NEW x \in Services, Leave(x) PROVE IInv'
<1>1. /\ svc[x] \in Busy /\ svc' = [svc EXCEPT ![x] = "left"] /\ svc \in [Services -> States]
      /\ events' = events /\ lockFile' = lockFile /\ socket' = socket /\ Done /\ Running
      /\ (x = "rpc" => svc[x] = "closed")
  BY DEF Leave, files, IInv, Busy
<1>2. svc' \in [Services -> States] /\ svc'[x] = "left" /\ \A y \in Services \ {x} : svc'[y] = svc[y]
  BY <1>1 DEF States
<1>3. main \notin Early
  BY <1>1 DEF IInv, Spawned, Busy
<1>4. main' \notin Early /\ LockFile' /\ wg' = wg - 1 /\ process' \in {"running", "panicWg"}
  BY <1>1, <1>3, DoneStep
<1>5. x \in Unfinished /\ Unfinished' = Unfinished \ {x}
  BY <1>1, <1>2 DEF Unfinished, Busy
<1>6. Cardinality(Unfinished') = Cardinality(Unfinished) - 1
  BY <1>5, UnfinishedFinite, FS_RemoveElement, SMTT(30)
<1>7. Counted'
  BY <1>1, <1>4, <1>6, UnfinishedFinite DEF IInv, Counted, Owed
<1>8. Spawned'
  BY <1>2, <1>3, <1>4 DEF IInv, Spawned
<1>9. SocketFile'
  BY <1>1, <1>2 DEF IInv, SocketFile, Services
<1> QED BY <1>2, <1>4, <1>7, <1>8, <1>9 DEF IInv

LEMMA LoggerStep == ASSUME IInv, eventLoggerLeaves PROVE IInv'
<1>1. /\ svc' = svc /\ events = "running" /\ events' = "left" /\ lockFile' = lockFile
      /\ socket' = socket /\ Done /\ Running
  BY DEF eventLoggerLeaves, files
<1>2. main \notin Early
  BY <1>1 DEF IInv, Spawned
<1>3. main' \notin Early /\ LockFile' /\ wg' = wg - 1 /\ process' \in {"running", "panicWg"}
  BY <1>1, <1>2, DoneStep
<1>4. Counted'
  BY <1>1, <1>3, UnfinishedFinite DEF IInv, Counted, Owed, Unfinished
<1> QED BY <1>1, <1>2, <1>3, <1>4 DEF IInv, Spawned, SocketFile

LEMMA NextInv == IInv /\ [Next]_vars => IInv'
<1> SUFFICES ASSUME IInv, [Next]_vars PROVE IInv'
  OBVIOUS
<1>1. CASE UNCHANGED vars
  BY <1>1 DEF vars, goroutines, files, IInv, Counted, Owed, Unfinished, SocketFile,
     LockFile, Spawned
<1>2. CASE mainStep
  BY <1>2, MainStep, StartStep
<1>3. ASSUME NEW x \in Services, service(x) PROVE IInv'
  BY <1>3, JoinStep, RpcStep, LeaveStep DEF service
<1> QED BY <1>1, <1>2, <1>3, EndStep, StartStep, LoggerStep DEF Next

LEMMA Invariance == Spec => []IInv
BY InitInv, NextInv, PTL DEF Spec

-----------------------------------------------------------------------------
\* However often the process is started and however it ended before, Listen does
\* not meet an old socket file.
THEOREM SocketNeverInTheWay == Spec => []StaleSocketHarmless
<1>1. IInv => StaleSocketHarmless
  BY DEF IInv, StaleSocketHarmless
<1> QED BY <1>1, Invariance, PTL

\* A stop that went to its end has removed the lock file, and the socket file
\* unless wg.Wait missed the RPC server.
THEOREM StopsClean == Spec => []CleanExit
<1>1. IInv => CleanExit
  <2> SUFFICES ASSUME IInv, process = "exit0" PROVE CleanExit
    BY DEF CleanExit
  <2>1. main = "exit" /\ ~lockFile /\ svc["rpc"] \in States /\ svc["rpc"] # "none"
        /\ "rpc" \in Services
    BY DEF IInv, LockFile, Spawned, Early, Services
  <2> QED BY <2>1 DEF IInv, SocketFile, CleanExit, Unfinished, States
<1> QED BY <1>1, Invariance, PTL

\* When wg.Wait returns at most one goroutine that joined has not left.
THEOREM WaitMissesOne == Spec => WaitMissesAtMostOne
<1>1. ASSUME IInv, [Next]_vars, main # "exit", main' = "exit"
      PROVE  wg' = 0
  <2>1. wg \in Int
    BY <1>1, UnfinishedFinite, SMTT(30) DEF IInv, Counted, Owed
  <2>2. CASE mainStep
    BY <1>1, <2>2 DEF mainStep, ReadConfig, CreateTun, CreateNode, StartServices,
       NewServiceNetwork, WriteLock, Up, ApplyRoutes, MakeMap, Notify, Rebootstrap, ForceRefresh, Rediscover,
       Shutdown, CloseHost, RemoveLock, Down, CloseTun, Cancel, Wait, Exit, Goto, goroutines
  <2>3. CASE \E x \in Services : service(x)
    BY <1>1, <2>1, <2>3 DEF service, Join, RpcRemoveOld, RpcListen, RpcClose, Leave, Done
  <2>4. CASE eventLoggerLeaves
    BY <1>1, <2>1, <2>4 DEF eventLoggerLeaves, Done
  <2>5. CASE UNCHANGED vars
    BY <1>1, <2>5 DEF vars
  <2>6. CASE \/ RunFails \/ StopFails \/ SignalKills \/ SignalExit \/ SignalUsr
             \/ SecondSignal \/ RpcFails \/ StreamBeforeMap \/ PumpFails
             \/ \E x \in Services : SubscribeFails(x)
    BY <1>1, <2>6 DEF RunFails, StopFails, SignalKills, SignalExit, SignalUsr, SecondSignal,
       RpcFails, StreamBeforeMap, PumpFails, SubscribeFails
  <2>7. CASE Restart
    BY <1>1, <2>7 DEF Restart
  <2> QED BY <1>1, <2>2, <2>3, <2>4, <2>5, <2>6, <2>7 DEF Next
<1>2. ASSUME IInv', wg' = 0 PROVE Cardinality(Unfinished') <= 1
  BY <1>2 DEF IInv, Counted, Owed
<1>3. IInv /\ IInv' /\ [Next]_vars =>
          [main # "exit" /\ main' = "exit" => Cardinality(Unfinished') <= 1]_vars
  BY <1>1, <1>2
<1> QED BY <1>3, Invariance, PTL DEF Spec, WaitMissesAtMostOne
=============================================================================
