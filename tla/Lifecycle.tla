----------------------------- MODULE Lifecycle -----------------------------
(***************************************************************************)
(* The life of the daemon process: Node.Run and Node.Stop (node/node.go),  *)
(* the signal loop of UpRun (cli/up.go), the goroutines Run starts and     *)
(* their WaitGroup, and what outlives the process: the lock file and the   *)
(* socket file of the RPC server.  The process may be started again after  *)
(* it ended, whatever way it ended.                                        *)
(***************************************************************************)
EXTENDS Integers, FiniteSets

CONSTANT MaxBoots   \* bound on the number of times the process is started

ASSUME MaxBootsAssumption == MaxBoots \in Nat \ {0}

VARIABLES
    process,    \* "running", or how it ended
    main,       \* the main goroutine: the next step of UpRun, Run or Stop
    svc,        \* the goroutines that join the WaitGroup
    events,     \* the goroutine of eventLogger, which only leaves it
    wg,         \* Node.wg: its counter
    cancelled,  \* node.ctx is cancelled
    host,       \* the libp2p host: it calls streamHandler while it is "up"
    tun,        \* the TUN device
    mapMade,    \* Node.activeStreams is not nil
    pump,       \* the goroutine NewServiceNetwork starts
    exitCh,     \* a signal is waiting in exitCh (capacity 1)
    usrCh,      \* a signal is waiting in rebootstrapCh (capacity 1)
    lockFile,   \* the lock file exists
    socket,     \* the RPC socket file exists
    boots       \* how many times the process was started

goroutines == <<svc, events, wg>>
resources == <<host, tun, mapMade, pump>>
signals == <<exitCh, usrCh>>
files == <<lockFile, socket>>
vars == <<process, main, goroutines, cancelled, resources, signals, files, boots>>

Services == {"discover", "pex", "metrics", "rpc", "dns"}
\* These subscribe to the event bus before they join the WaitGroup.
Subscribers == {"pex", "metrics"}

Run == {"config", "tun", "host", "services", "network", "lock", "up", "routes"}
Starting == Run \cup {"map", "notify"}
Stop == {"close", "unlock", "down"}
Stopping == Stop \cup {"closeTun", "cancel", "wait", "waiting", "exit"}

Ended == {"exit0", "runFailed", "stopFailed", "aborted", "busFailed", "rpcInUse",
          "rpcFailed", "killed", "panicMap", "panicWg", "panicPump"}

Init ==
    /\ process = "running" /\ main = "config" /\ svc = [x \in Services |-> "none"]
    /\ events = "none" /\ wg = 0 /\ cancelled = FALSE
    /\ host = "none" /\ tun = "none" /\ mapMade = FALSE /\ pump = FALSE
    /\ exitCh = FALSE /\ usrCh = FALSE
    /\ lockFile = FALSE /\ socket = FALSE
    /\ boots = 1

\* The process ended and is started again; the files are as they were left,
\* the TUN device went with the process.
Restart ==
    /\ process # "running" /\ boots < MaxBoots
    /\ boots' = boots + 1
    /\ process' = "running" /\ main' = "config" /\ svc' = [x \in Services |-> "none"]
    /\ events' = "none" /\ wg' = 0 /\ cancelled' = FALSE
    /\ host' = "none" /\ tun' = "none" /\ mapMade' = FALSE /\ pump' = FALSE
    /\ exitCh' = FALSE /\ usrCh' = FALSE
    /\ UNCHANGED files

Running == process = "running"
End(how) == process' = how
At(step) == Running /\ main = step
Goto(step) == main' = step

-----------------------------------------------------------------------------
(* Node.Run. *)

ReadConfig ==
    /\ At("config") /\ Goto("tun")
    /\ UNCHANGED <<process, goroutines, cancelled, resources, signals, files, boots>>

CreateTun ==
    /\ At("tun") /\ Goto("host")
    /\ tun' = "created"
    /\ UNCHANGED <<process, goroutines, cancelled, host, mapMade, pump, signals, files, boots>>

\* From here on peers can open streams to this node.
CreateNode ==
    /\ At("host") /\ Goto("services")
    /\ host' = "up"
    /\ UNCHANGED <<process, goroutines, cancelled, tun, mapMade, pump, signals, files, boots>>

\* The go statements of Run, in eventLogger too.
StartServices ==
    /\ At("services") /\ Goto("network")
    /\ svc' = [x \in Services |-> "spawned"]
    /\ events' = "running"
    /\ UNCHANGED <<process, wg, cancelled, resources, signals, files, boots>>

NewServiceNetwork ==
    /\ At("network") /\ Goto("lock")
    /\ pump' = TRUE
    /\ UNCHANGED <<process, goroutines, cancelled, host, tun, mapMade, signals, files, boots>>

WriteLock ==
    /\ At("lock") /\ Goto("up")
    /\ lockFile' = TRUE
    /\ UNCHANGED <<process, goroutines, cancelled, resources, signals, socket, boots>>

Up ==
    /\ At("up") /\ Goto("routes")
    /\ tun' = "up"
    /\ UNCHANGED <<process, goroutines, cancelled, host, mapMade, pump, signals, files, boots>>

ApplyRoutes ==
    /\ At("routes") /\ Goto("map")
    /\ UNCHANGED <<process, goroutines, cancelled, resources, signals, files, boots>>

\* The map is made and Run returns; then UpRun calls signal.Notify.
MakeMap ==
    /\ At("map") /\ Goto("notify")
    /\ mapMade' = TRUE
    /\ UNCHANGED <<process, goroutines, cancelled, host, tun, pump, signals, files, boots>>

\* Any call of Run fails: checkErr ends the process as it is.
RunFails ==
    /\ Running /\ main \in Run
    /\ End("runFailed")
    /\ UNCHANGED <<main, goroutines, cancelled, resources, signals, files, boots>>

\* A peer of the configuration opens a version 1 stream before the map is
\* made: insertActiveStream assigns to an entry of a nil map.
StreamBeforeMap ==
    /\ Running /\ host = "up" /\ ~mapMade
    /\ End("panicMap")
    /\ UNCHANGED <<main, goroutines, cancelled, resources, signals, files, boots>>

-----------------------------------------------------------------------------
(* UpRun: signals. *)

Notify ==
    /\ At("notify") /\ Goto("select")
    /\ UNCHANGED <<process, goroutines, cancelled, resources, signals, files, boots>>

\* Until Notify a signal, SIGUSR1 too, has its default effect.
SignalKills ==
    /\ Running /\ main \in Starting
    /\ End("killed")
    /\ UNCHANGED <<main, goroutines, cancelled, resources, signals, files, boots>>

SignalExit ==
    /\ Running /\ main \notin Starting
    /\ ~exitCh /\ exitCh' = TRUE
    /\ UNCHANGED <<process, main, goroutines, cancelled, resources, usrCh, files, boots>>

SignalUsr ==
    /\ Running /\ main \notin Starting
    /\ ~usrCh /\ usrCh' = TRUE
    /\ UNCHANGED <<process, main, goroutines, cancelled, resources, exitCh, files, boots>>

Rebootstrap ==
    /\ At("select") /\ usrCh
    /\ usrCh' = FALSE /\ Goto("refresh")
    /\ UNCHANGED <<process, goroutines, cancelled, resources, exitCh, files, boots>>

\* TrimOpenConns, then the receive from ForceRefresh, which ends when the DHT has
\* refreshed its routing table.
ForceRefresh ==
    /\ At("refresh") /\ Goto("rebootstrap")
    /\ UNCHANGED <<process, goroutines, cancelled, resources, signals, files, boots>>

\* discoverNow has no buffer: the send ends when Discover receives.
Rediscover ==
    /\ At("rebootstrap") /\ svc["discover"] = "joined"
    /\ Goto("select")
    /\ UNCHANGED <<process, goroutines, cancelled, resources, signals, files, boots>>

Shutdown ==
    /\ At("select") /\ exitCh
    /\ exitCh' = FALSE /\ Goto("close")
    /\ UNCHANGED <<process, goroutines, cancelled, resources, usrCh, files, boots>>

\* A second exit signal while Stop runs: logger.Fatal.
SecondSignal ==
    /\ Running /\ main \in Stopping /\ exitCh
    /\ exitCh' = FALSE /\ End("aborted")
    /\ UNCHANGED <<main, goroutines, cancelled, resources, usrCh, files, boots>>

-----------------------------------------------------------------------------
(* Node.Stop, and the os.Exit(0) that follows it. *)

CloseHost ==
    /\ At("close") /\ Goto("unlock")
    /\ host' = "closed"
    /\ UNCHANGED <<process, goroutines, cancelled, tun, mapMade, pump, signals, files, boots>>

RemoveLock ==
    /\ At("unlock") /\ Goto("down")
    /\ lockFile' = FALSE
    /\ UNCHANGED <<process, goroutines, cancelled, resources, signals, socket, boots>>

Down ==
    /\ At("down") /\ Goto("closeTun")
    /\ tun' = "down"
    /\ UNCHANGED <<process, goroutines, cancelled, host, mapMade, pump, signals, files, boots>>

CloseTun ==
    /\ At("closeTun") /\ Goto("cancel")
    /\ tun' = "closed"
    /\ UNCHANGED <<process, goroutines, cancelled, host, mapMade, pump, signals, files, boots>>

StopFails ==
    /\ Running /\ main \in Stop
    /\ End("stopFailed")
    /\ UNCHANGED <<main, goroutines, cancelled, resources, signals, files, boots>>

\* Defect used to test the properties: the context is not cancelled.
CancelForgotten ==
    /\ At("cancel") /\ Goto("wait")
    /\ UNCHANGED <<process, goroutines, cancelled, resources, signals, files, boots>>

Cancel ==
    /\ At("cancel") /\ Goto("wait")
    /\ cancelled' = TRUE
    /\ UNCHANGED <<process, goroutines, resources, signals, files, boots>>

\* Defect used to test the properties: Stop does not wait.
WaitSkipped ==
    /\ At("wait") /\ Goto("exit")
    /\ UNCHANGED <<process, goroutines, cancelled, resources, signals, files, boots>>

\* wg.Wait returns at once or blocks; the Done that makes the counter zero
\* releases it.
Wait ==
    /\ At("wait") /\ Goto(IF wg = 0 THEN "exit" ELSE "waiting")
    /\ UNCHANGED <<process, goroutines, cancelled, resources, signals, files, boots>>

Exit ==
    /\ At("exit") /\ End("exit0")
    /\ UNCHANGED <<main, goroutines, cancelled, resources, signals, files, boots>>

-----------------------------------------------------------------------------
(* The goroutines. *)

\* wg.Add(1), the first thing the goroutine does, not the go statement's caller.
Join(x) ==
    /\ Running /\ svc[x] = "spawned"
    /\ svc' = [svc EXCEPT ![x] = "joined"]
    /\ wg' = wg + 1
    /\ UNCHANGED <<process, main, events, cancelled, resources, signals, files, boots>>

SubscribeFails(x) ==
    /\ Running /\ x \in Subscribers /\ svc[x] = "spawned"
    /\ End("busFailed")
    /\ UNCHANGED <<main, goroutines, cancelled, resources, signals, files, boots>>

\* wg.Done: a negative counter panics, zero releases a waiting Stop.
Done ==
    /\ wg' = wg - 1
    /\ process' = IF wg = 0 THEN "panicWg" ELSE process
    /\ main' = IF main = "waiting" /\ wg = 1 THEN "exit" ELSE main

\* Defect used to test the properties: the old socket file is not removed.
RpcRemoveNothing ==
    /\ Running /\ svc["rpc"] = "joined"
    /\ svc' = [svc EXCEPT !["rpc"] = "cleared"]
    /\ UNCHANGED <<process, main, events, wg, cancelled, resources, signals, files, boots>>

\* os.Remove of a socket file left by an earlier process, if there is one.
RpcRemoveOld ==
    /\ Running /\ svc["rpc"] = "joined"
    /\ socket' = FALSE
    /\ svc' = [svc EXCEPT !["rpc"] = "cleared"]
    /\ UNCHANGED <<process, main, events, wg, cancelled, resources, signals, lockFile, boots>>

\* The address does not parse, Remove fails on a file that is there, or Listen
\* fails for another reason than that file: all fatal.
RpcFails ==
    /\ Running /\ svc["rpc"] \in {"joined", "cleared"}
    /\ End("rpcFailed")
    /\ UNCHANGED <<main, goroutines, cancelled, resources, signals, files, boots>>

\* The socket file is made; where one is in the way Listen fails, and that is
\* fatal too.
RpcListen ==
    /\ Running /\ svc["rpc"] = "cleared"
    /\ socket' = TRUE
    /\ svc' = [svc EXCEPT !["rpc"] = "serving"]
    /\ process' = IF socket THEN "rpcInUse" ELSE process
    /\ UNCHANGED <<main, events, wg, cancelled, resources, signals, lockFile, boots>>

\* Defect used to test the properties: the listener is not closed.
RpcCloseForgotten ==
    /\ Running /\ svc["rpc"] = "serving" /\ cancelled
    /\ svc' = [svc EXCEPT !["rpc"] = "closed"]
    /\ UNCHANGED <<process, main, events, wg, cancelled, resources, signals, files, boots>>

\* The deferred l.Close removes the socket file, before the deferred Done.
RpcClose ==
    /\ Running /\ svc["rpc"] = "serving" /\ cancelled
    /\ socket' = FALSE
    /\ svc' = [svc EXCEPT !["rpc"] = "closed"]
    /\ UNCHANGED <<process, main, events, wg, cancelled, resources, signals, lockFile, boots>>

Leave(x) ==
    /\ Running /\ cancelled
    /\ svc[x] = IF x = "rpc" THEN "closed" ELSE "joined"
    /\ svc' = [svc EXCEPT ![x] = "left"]
    /\ Done
    /\ UNCHANGED <<events, cancelled, resources, signals, files, boots>>

\* eventLogger calls wg.Done on a WaitGroup it never joined.
eventLoggerLeaves ==
    /\ Running /\ cancelled /\ events = "running"
    /\ events' = "left"
    /\ Done
    /\ UNCHANGED <<svc, cancelled, resources, signals, files, boots>>

\* A service connection still has a packet to send: Iface.Write fails on a
\* device that is down or closed, and the pump panics.
PumpFails ==
    /\ Running /\ pump /\ tun \in {"down", "closed"}
    /\ End("panicPump")
    /\ UNCHANGED <<main, goroutines, cancelled, resources, signals, files, boots>>

service(x) ==
    Join(x) \/ Leave(x) \/ (x = "rpc" /\ (RpcRemoveOld \/ RpcListen \/ RpcClose))

mainStep ==
    \/ ReadConfig \/ CreateTun \/ CreateNode \/ StartServices \/ NewServiceNetwork
    \/ WriteLock \/ Up \/ ApplyRoutes \/ MakeMap \/ Notify
    \/ Rebootstrap \/ ForceRefresh \/ Rediscover \/ Shutdown
    \/ CloseHost \/ RemoveLock \/ Down \/ CloseTun \/ Cancel \/ Wait \/ Exit

Next ==
    \/ mainStep \/ RunFails \/ StopFails
    \/ SignalKills \/ SignalExit \/ SignalUsr \/ SecondSignal
    \/ \E x \in Services : service(x) \/ SubscribeFails(x)
    \/ eventLoggerLeaves
    \/ RpcFails \/ StreamBeforeMap \/ PumpFails
    \/ Restart

Spec == Init /\ [][Next]_vars

\* The Go scheduler runs every goroutine that can run, and the calls Stop makes
\* return, and so does the refresh of the DHT, which nothing bounds.  A select with several ready cases picks one at random, so that
\* repeated SIGUSR1 cannot keep an exit signal waiting for ever.
Fairness ==
    /\ WF_vars(mainStep) /\ SF_vars(Shutdown)
    /\ \A x \in Services : WF_vars(service(x))
    /\ WF_vars(eventLoggerLeaves)

FairSpec == Spec /\ Fairness

-----------------------------------------------------------------------------
(* Properties. *)

\* The goroutines between their wg.Add and their wg.Done.
Unfinished == {x \in Services : svc[x] \in {"joined", "cleared", "serving", "closed"}}

\* The Done that eventLogger owes nobody costs Stop one goroutine and no more:
\* when wg.Wait returns, at most one goroutine that joined has not left.
WaitMissesAtMostOne ==
    [][main # "exit" /\ main' = "exit" => Cardinality(Unfinished') <= 1]_vars

\* A socket file left by a process that ended in any way does not keep the next
\* one from serving: RpcServer removes it before it listens, or says why it cannot.
StaleSocketHarmless == process # "rpcInUse"

\* An exit signal ends the process, whatever the goroutines and a rebootstrap
\* in progress do: Stop waits for nothing that does not come.
ExitSignalEnds == exitCh ~> process # "running"

\* A stop that went to its end leaves no lock file, and leaves the socket file
\* only where wg.Wait did not wait for the RPC server: it has not left, or not
\* even joined.  The README has it that killing the process cleans up the system;
\* this is how far that holds.
CleanExit ==
    process = "exit0" =>
        ~lockFile /\ (socket => "rpc" \in Unfinished \/ svc["rpc"] = "spawned")

=============================================================================
