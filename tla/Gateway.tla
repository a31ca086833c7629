-------------------------------- MODULE Gateway --------------------------------
(***************************************************************************)
(* The gateway process (cmd/gateway/main.go): the goroutines main starts,  *)
(* the locks they meet on, and the shutdown that ends them one after the   *)
(* other within ten seconds, or tries to.                                  *)
(*                                                                         *)
(* Three locks nest: GetStatus (internal/health/monitor.go) holds the      *)
(* monitor's for reading while GetStats (internal/sync/engine.go) takes    *)
(* the engine's, and that while IsConnected (internal/wsclient/client.go)  *)
(* takes the connection's, which a sync keeps until the cloud answers.  A  *)
(* Go RWMutex lets no reader in once a writer waits.  Who holds or waits   *)
(* for what follows from how far each goroutine is.                        *)
(*                                                                         *)
(* The sync engine and the sessions of the antennas are the modules        *)
(* SyncEngine and AntennaSession; here they are what they do to the locks, *)
(* to the event bus and to the shutdown.  Not in the state: the tools      *)
(* sync, whose Stop returns within five seconds whatever it waits for, the *)
(* metrics, and what the requests of the bridge other than the status do.  *)
(*                                                                         *)
(* Definitions named <operation>_<fault> are not part of the               *)
(* specification: each is the operation with a fault some property catches.*)
(***************************************************************************)
EXTENDS EventStream

CONSTANTS
    Requesters \* requests for the status at a time, over the bridge or /health

VARIABLES
    main,      \* how far main is
    engine,    \* how far the loop of the sync engine is
    monitor,   \* how far the loop of the health monitor is
    antenna,   \* how far the loop of each antenna is
    requester, \* how far each request for the status is
    expired    \* the ten seconds of the shutdown are over

gatewayVars == <<streamVars, main, engine, monitor, antenna, requester, expired>>

GatewayInit ==
    /\ StreamInit
    /\ main = "running"
    /\ engine = "idle"
    /\ monitor = "idle"
    /\ antenna = [a \in Antennas |-> "waiting"]
    /\ requester = [r \in Requesters |-> "none"]
    /\ expired = FALSE

\* Stages of main, in the order of the shutdown.
Stages == <<"running", "stopEngine", "waitEngine", "stopMonitor", "waitMonitor",
            "stopWeb", "waitBridge", "waitAntennas", "exited">>

Reached(stage) ==
    \E i, j \in DOMAIN Stages : Stages[i] = stage /\ Stages[j] = main /\ i <= j

EngineCancelled   == Reached("waitEngine")
MonitorCancelled  == Reached("waitMonitor")
AntennasCancelled == Reached("waitAntennas")

\* Stages in which the loop of an antenna asks for the monitor's lock, and
\* what may follow each.  A manager that does not start ends runAntenna without
\* the farewell.
AfterUpdate ==
    [announce |-> {"dialing"}, greet |-> {"connected", "waiting"}, farewell |-> {"waiting"}]

Updating(a) == antenna[a] \in DOMAIN AfterUpdate

\* A request at "stats" has the monitor's lock, one at "connection" the
\* engine's as well.
NoMonitorReader == \A r \in Requesters : requester[r] \notin {"stats", "connection"}
NoMonitorWriter ==
    /\ \A a \in Antennas : ~ Updating(a)
    /\ monitor # "updating"
    /\ main # "stopMonitor"

NoEngineReader == \A r \in Requesters : requester[r] # "connection"
NoEngineWriter == engine # "settling" /\ main # "stopEngine"

ConnectionIsFree == engine # "calling"

-----------------------------------------------------------------------------
(* Requests for the status. *)

\* The server of /health is never stopped, and a connection the bridge accepted
\* is served even after it stops accepting.
GetStatus(r) ==
    /\ requester[r] = "none"
    /\ NoMonitorWriter
    /\ requester' = [requester EXCEPT ![r] = "stats"]
    /\ UNCHANGED <<streamVars, main, engine, monitor, antenna, expired>>

GetStats(r) ==
    /\ requester[r] = "stats"
    /\ NoEngineWriter
    /\ requester' = [requester EXCEPT ![r] = "connection"]
    /\ UNCHANGED <<streamVars, main, engine, monitor, antenna, expired>>

\* Both locks are released as the calls return.
IsConnected(r) ==
    /\ requester[r] = "connection"
    /\ ConnectionIsFree
    /\ requester' = [requester EXCEPT ![r] = "none"]
    /\ UNCHANGED <<streamVars, main, engine, monitor, antenna, expired>>

Answer(r) == GetStats(r) \/ IsConnected(r)

-----------------------------------------------------------------------------
(* The sync engine. *)

EngineMoves(from, to) ==
    /\ engine = from
    /\ engine' = to
    /\ UNCHANGED <<streamVars, main, monitor, antenna, requester, expired>>

\* A tick.  The context is looked at before the connection is used; there may
\* be nothing to send, or an error.
BeginSync ==
    \/ ~ EngineCancelled /\ EngineMoves("idle", "calling")
    \/ EngineMoves("idle", "settling")

\* Read has no time limit; the dial of Reconnect, which is here as well, has.
CloudAnswers == EngineMoves("calling", "settling")

\* Fault: the engine tells the monitor of the result under its own lock.
Settle_TellsMonitor ==
    NoEngineReader /\ NoMonitorReader /\ EngineMoves("settling", "idle")

\* The counters, and the count of retries.
Settle == NoEngineReader /\ EngineMoves("settling", "idle")

EngineExit == EngineCancelled /\ EngineMoves("idle", "exited")

-----------------------------------------------------------------------------
(* The health monitor. *)

MonitorMoves(from, to) ==
    /\ monitor = from
    /\ monitor' = to
    /\ UNCHANGED <<streamVars, main, engine, antenna, requester, expired>>

Tick == MonitorMoves("idle", "updating")

\* Fault: Stop waits for the loop with the lock in its hands.
UpdateStatus_StopKeepsLock ==
    main # "waitMonitor" /\ NoMonitorReader /\ MonitorMoves("updating", "idle")

UpdateStatus == NoMonitorReader /\ MonitorMoves("updating", "idle")

MonitorExit == MonitorCancelled /\ MonitorMoves("idle", "exited")

-----------------------------------------------------------------------------
(* The antennas. *)

AntennaMoves(a, from, to) ==
    /\ antenna[a] = from
    /\ antenna' = [antenna EXCEPT ![a] = to]
    /\ UNCHANGED <<streamVars, main, engine, monitor, requester, expired>>

RunAntenna(a) == ~ AntennasCancelled /\ AntennaMoves(a, "waiting", "announce")

UpdateAntennaStatus(a) ==
    /\ Updating(a)
    /\ NoMonitorReader
    /\ \E stage \in AfterUpdate[antenna[a]] : AntennaMoves(a, antenna[a], stage)

Dial(a) ==
    \/ AntennaMoves(a, "dialing", "greet")
    \/ AntennaMoves(a, "dialing", "waiting")

Detect(a) ==
    /\ antenna[a] = "connected"
    /\ PublishBegin(a)
    /\ UNCHANGED <<main, engine, monitor, antenna, requester, expired>>

SessionBreaks(a) == AntennaMoves(a, "connected", "farewell")

SessionStops(a) == AntennasCancelled /\ AntennaMoves(a, "connected", "farewell")

AntennaExit(a) == AntennasCancelled /\ AntennaMoves(a, "waiting", "exited")

AntennaStep(a) ==
    \/ RunAntenna(a)
    \/ UpdateAntennaStatus(a)
    \/ Dial(a)
    \/ SessionStops(a)
    \/ AntennaExit(a)

-----------------------------------------------------------------------------
(* The shutdown. *)

MainMoves(from, to) ==
    /\ main = from
    /\ main' = to
    /\ UNCHANGED <<engine, monitor, antenna, requester, expired>>

Signal == MainMoves("running", "stopEngine") /\ UNCHANGED streamVars

Expire ==
    /\ main # "running"
    /\ ~ expired
    /\ expired' = TRUE
    /\ UNCHANGED <<streamVars, main, engine, monitor, antenna, requester>>

StopEngine ==
    /\ NoEngineReader
    /\ MainMoves("stopEngine", "waitEngine")
    /\ UNCHANGED streamVars

EngineStopped ==
    /\ engine = "exited"
    /\ MainMoves("waitEngine", "stopMonitor")
    /\ UNCHANGED streamVars

\* The lock is given back before the loop is waited for.
StopMonitor ==
    /\ NoMonitorReader
    /\ MainMoves("stopMonitor", "waitMonitor")
    /\ UNCHANGED streamVars

\* The tools sync is stopped in between, within five seconds.
MonitorStopped ==
    /\ monitor = "exited"
    /\ MainMoves("waitMonitor", "stopWeb")
    /\ WebStop

CloseClient ==
    /\ MainMoves("stopWeb", "stopWeb")
    /\ \E h \in Handlers : WebCloseClient(h)

StopListener == MainMoves("stopWeb", "stopWeb") /\ WebShutdown

\* The bridge takes no more connections.
WebIsDown == MainMoves("stopWeb", "waitBridge") /\ WebStopped(expired)

\* The last connection ended, or five seconds passed.
BridgeIsDown == MainMoves("waitBridge", "waitAntennas") /\ UNCHANGED streamVars

Exit ==
    /\ expired \/ \A a \in Antennas : antenna[a] = "exited"
    /\ MainMoves("waitAntennas", "exited")
    /\ UNCHANGED streamVars

MainStep ==
    \/ StopEngine \/ EngineStopped
    \/ StopMonitor \/ MonitorStopped
    \/ CloseClient \/ StopListener \/ WebIsDown
    \/ BridgeIsDown
    \/ Exit

-----------------------------------------------------------------------------
StreamOnly(step) == step /\ UNCHANGED <<main, engine, monitor, antenna, requester, expired>>

\* Nothing runs once main has returned or a panic has ended the program.
Runs == main # "exited" /\ ~ crashed

GatewayNext ==
    /\ Runs
    /\ \/ Signal \/ Expire \/ MainStep
       \/ StreamOnly(StreamStep)
       \/ BeginSync \/ CloudAnswers \/ Settle \/ EngineExit
       \/ Tick \/ UpdateStatus \/ MonitorExit
       \/ \E r \in Requesters : GetStatus(r) \/ Answer(r)
       \/ \E a \in Antennas :
             \/ AntennaStep(a) \/ SessionBreaks(a)
             \/ Detect(a) \/ StreamOnly(Deliver(a))

\* The ends of the loops compete with their tickers in a select, which is
\* random, and an RWMutex that a writer gives back lets in the readers that
\* wait: hence SF.  Nothing says that the cloud answers, that a browser
\* leaves, that a session breaks, or that anybody asks for the status.
Fairness ==
    /\ WF_gatewayVars(Runs /\ MainStep)
    /\ WF_gatewayVars(Runs /\ Expire)
    /\ WF_gatewayVars(Runs /\ Settle)
    /\ SF_gatewayVars(Runs /\ EngineExit)
    /\ WF_gatewayVars(Runs /\ UpdateStatus)
    /\ SF_gatewayVars(Runs /\ MonitorExit)
    /\ \A r \in Requesters : SF_gatewayVars(Runs /\ Answer(r))
    /\ \A a \in Antennas : WF_gatewayVars(Runs /\ AntennaStep(a))
    /\ \A a \in Antennas : WF_gatewayVars(Runs /\ StreamOnly(Deliver(a)))

GatewaySpec == GatewayInit /\ [][GatewayNext]_gatewayVars /\ Fairness

-----------------------------------------------------------------------------
CloudHangs == <>[](engine = "calling")

(* Unless the cloud leaves a request unanswered for ever, the loop of an   *)
(* antenna that reports its state to the monitor gets on: no request for   *)
(* the status, no tick and no shutdown holds it up (main.go:365,           *)
(* monitor.go:119).                                                        *)
OnlyTheCloudHoldsAntennas ==
    \/ CloudHangs
    \/ \A a \in Antennas : Updating(a) ~> (~ Updating(a) \/ ~ Runs)

(* With the same exception a signal ends the program, wherever each of its *)
(* goroutines is (main.go:228).                                            *)
OnlyTheCloudHoldsTheShutdown ==
    \/ CloudHangs
    \/ main # "running" ~> main = "exited"
=============================================================================
