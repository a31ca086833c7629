--------------------------- MODULE AntennaSession ---------------------------
(***************************************************************************)
(* One antenna of the gateway: the reconnection loop of                    *)
(* cmd/gateway/main.go (runAntennaWithReconnect, runAntenna), and the      *)
(* goroutines AntennaManager.Start launches for each connection            *)
(* (internal/antenna/manager.go) over one TCP client                       *)
(* (internal/rawtcp/client.go).                                            *)
(*                                                                         *)
(* Done of a manager closes when its context ends, not when its goroutines *)
(* do, so those of an old session may run beside the next one: the state   *)
(* of a session is a record of the function `manager`.                     *)
(*                                                                         *)
(* With the protocol chainway the four goroutines are the start command,   *)
(* the reader, the watchdog and the monitor; with the generic one they are *)
(* the poller, the reader, the heartbeat and the monitor.  `sender` and    *)
(* `watcher` stand for the first and the third of either.                  *)
(*                                                                         *)
(* Time is the silence of a connection: 0 is below the threshold that      *)
(* makes a watcher send, 2 (of chainway) is chainwayDeadAfter.  isRunning is only read   *)
(* by the calls of Stop.  The locks of the manager and of the client are   *)
(* held for one step each (a write has a deadline), so are not in the      *)
(* state; neither are the delays of the poller.                            *)
(*                                                                         *)
(* Definitions named <operation>_<fault> are not part of the               *)
(* specification: each is the operation with a fault some property catches.*)
(***************************************************************************)
EXTENDS Integers, Sequences

CONSTANTS
    Protocols,      \* protocols the antenna may be configured with
    InitialBackoff, \* ReconnectInitialBackoff
    MaxBackoff,     \* ReconnectMaxBackoff
    MaxSilent,      \* silent intervals heartbeatPing puts up with (3)
    Width,          \* bits of an int and of a time.Duration (64)
    MaxSession,     \* bound of the model on the connections
    Stoppable,      \* bound of the model: the sessions somebody may call Stop on
    MaxAttempt      \* bound of the model on the waits between connections

ASSUME AntennaSessionAssumption ==
    /\ Protocols \subseteq {"chainway", "generic"}
    /\ InitialBackoff \in Nat \ {0}
    /\ MaxBackoff \in Nat \ {0}
    /\ MaxSilent \in Nat \ {0}
    /\ Width \in Nat \ {0}
    /\ MaxSession \in Nat
    /\ Stoppable \subseteq 1 .. MaxSession
    /\ MaxAttempt \in Nat

Sessions == 1 .. MaxSession

VARIABLES
    protocol,   \* the antenna's
    loop,       \* where runAntennaWithReconnect is
    session,    \* the connections made so far
    attempt,    \* its local variable attempt
    backoff,    \* the wait it last computed
    shutdown,   \* main has cancelled the context of the antennas
    manager,    \* the manager of each session
    link,       \* the TCP connection of each session, and the antenna behind it
    silence,    \* how long the connection of each session has been silent
    count       \* consecutiveSilentIntervals of each session; 1 once probed

vars == <<protocol, loop, session, attempt, backoff, shutdown, manager, link,
          silence, count>>

loopVars  == <<protocol, loop, session, attempt, backoff, shutdown>>
watchVars == <<silence, count>>

Managers ==
    [cancelled : BOOLEAN,     \* m.cancel was called
     running   : BOOLEAN,     \* isRunning
     sender    : {"waiting", "ready", "exited"},
     reader    : {"running", "ending", "exited"},
     watcher   : {"running", "exited"},
     monitor   : {"watching", "stopping", "sending", "closing", "exited"},
     caller    : {"none", "stopping", "sending", "closing", "returned"},
     once      : {"free", "held", "done"},   \* sessionStopOnce
     done      : BOOLEAN]     \* doneCh is closed

\* connected: the client has it.  state: it works, the antenna closed it, or it
\* died without a sign.  sent: the inventory commands written with no error,
\* rf: whether the antenna transmits.  failed: writing one of them failed.
Links ==
    [connected : BOOLEAN,
     state     : {"up", "closed", "silent"},
     sent      : Seq({"start", "stop"}),
     rf        : BOOLEAN,
     failed    : BOOLEAN]

Loops == {"connecting", "serving", "ended", "waiting", "returned"}

NewManager ==
    [cancelled |-> FALSE, running |-> TRUE,
     sender |-> "waiting", reader |-> "running", watcher |-> "running",
     monitor |-> "watching", caller |-> "none", once |-> "free", done |-> FALSE]

NewLink == [connected |-> TRUE, state |-> "up", sent |-> <<>>, rf |-> FALSE, failed |-> FALSE]

\* The child context of Start ends with its parent.
ContextDone(s) == manager[s].cancelled \/ shutdown

-----------------------------------------------------------------------------
(* calculateBackoff, in signed integers of Width bits. *)

Wrap(n) == ((n + 2^(Width - 1)) % 2^Width) - 2^(Width - 1)

calculateBackoff(n) ==
    LET product == Wrap(InitialBackoff * Wrap(2^n))
    IN  IF product > MaxBackoff THEN MaxBackoff ELSE product

-----------------------------------------------------------------------------
Init ==
    /\ protocol \in Protocols
    /\ loop = "connecting"
    /\ session = 0
    /\ attempt = 0
    /\ backoff = InitialBackoff
    /\ shutdown = FALSE
    /\ manager = <<>>
    /\ link = <<>>
    /\ silence = <<>>
    /\ count = <<>>

-----------------------------------------------------------------------------
(* runAntennaWithReconnect and runAntenna. *)

LoopReturns ==
    /\ shutdown
    /\ loop \in {"connecting", "ended", "waiting"}
    /\ loop' = "returned"
    /\ UNCHANGED <<protocol, session, attempt, backoff, shutdown, manager, link, watchVars>>

\* Connect, then Start: a context that ends meanwhile is seen by the goroutines.
Connect ==
    /\ loop = "connecting"
    /\ session < MaxSession
    /\ session' = session + 1
    /\ manager' = Append(manager, NewManager)
    /\ link' = Append(link, NewLink)
    /\ silence' = Append(silence, 0)
    /\ count' = Append(count, 0)
    /\ loop' = "serving"
    /\ UNCHANGED <<protocol, attempt, backoff, shutdown>>

ConnectFails ==
    /\ loop = "connecting"
    /\ loop' = "ended"
    /\ UNCHANGED <<protocol, session, attempt, backoff, shutdown, manager, link, watchVars>>

\* Done, then Disconnect.
Disconnect ==
    /\ loop = "serving"
    /\ manager[session].done
    /\ link' = [link EXCEPT ![session].connected = FALSE]
    /\ loop' = "ended"
    /\ UNCHANGED <<protocol, session, attempt, backoff, shutdown, manager, watchVars>>

ComputeBackoff ==
    /\ loop = "ended"
    /\ ~shutdown
    /\ attempt < MaxAttempt
    /\ backoff' = calculateBackoff(attempt)
    /\ attempt' = attempt + 1
    /\ loop' = "waiting"
    /\ UNCHANGED <<protocol, session, shutdown, manager, link, watchVars>>

WaitEnds ==
    /\ loop = "waiting"
    /\ loop' = "connecting"
    /\ UNCHANGED <<protocol, session, attempt, backoff, shutdown, manager, link, watchVars>>

\* antennaCancel of main.
Shutdown ==
    /\ ~shutdown
    /\ shutdown' = TRUE
    /\ UNCHANGED <<protocol, loop, session, attempt, backoff, manager, link, watchVars>>

-----------------------------------------------------------------------------
(* SendCommand over the connection of session s.  A write to a connection  *)
(* that died without a sign still succeeds, in the kernel's buffer, and so *)
(* does one to a connection the antenna closed, until its reset arrives;   *)
(* one that stalls fails at its deadline.  Nothing is written after        *)
(* Disconnect.                                                             *)

Written(s, command) ==
    /\ link[s].connected
    /\ link' = IF command = "poll" THEN link
               ELSE [link EXCEPT ![s].sent = Append(@, command),
                                 ![s].rf = IF link[s].state = "up" THEN command = "start" ELSE @]

NotWritten(s, command) ==
    link' = IF command = "poll" THEN link ELSE [link EXCEPT ![s].failed = TRUE]

-----------------------------------------------------------------------------
(* The sender: chainwayStartInventory checks the context, then writes.     *)

\* Fault: startDone stays open when the context is done.
CheckStart_NeverDone(s) ==
    /\ protocol = "chainway"
    /\ manager[s].sender = "waiting"
    /\ ~ContextDone(s)
    /\ manager' = [manager EXCEPT ![s].sender = "ready"]
    /\ UNCHANGED <<loopVars, watchVars, link>>

CheckStart(s) ==
    /\ protocol = "chainway"
    /\ manager[s].sender = "waiting"
    /\ manager' = [manager EXCEPT ![s].sender = IF ContextDone(s) THEN "exited" ELSE "ready"]
    /\ UNCHANGED <<loopVars, watchVars, link>>

StartInventory(s) ==
    /\ protocol = "chainway"
    /\ manager[s].sender = "ready"
    /\ \/ /\ Written(s, "start")
          /\ manager' = [manager EXCEPT ![s].sender = "exited"]
       \/ /\ NotWritten(s, "start")
          /\ manager' = [manager EXCEPT ![s].sender = "exited", ![s].cancelled = TRUE]
    /\ UNCHANGED <<loopVars, watchVars>>

\* intelligentReadLoop: a command that cannot be written ends it, one that can
\* changes nothing here; with listen_mode passive only PollReturns is left.
PollFails(s) ==
    /\ protocol = "generic"
    /\ manager[s].sender = "waiting"
    /\ NotWritten(s, "poll")
    /\ manager' = [manager EXCEPT ![s].sender = "exited", ![s].cancelled = TRUE]
    /\ UNCHANGED <<loopVars, watchVars>>

PollReturns(s) ==
    /\ protocol = "generic"
    /\ manager[s].sender = "waiting"
    /\ ContextDone(s)
    /\ manager' = [manager EXCEPT ![s].sender = "exited"]
    /\ UNCHANGED <<loopVars, watchVars, link>>

-----------------------------------------------------------------------------
(* The reader: dataReader, which chainwayDataReader follows with a cancel. *)

\* Data of any kind (chainway), a valid packet (generic).
Receive(s) ==
    /\ manager[s].reader = "running"
    /\ link[s].connected
    /\ link[s].state = "up"
    /\ silence[s] > 0
    /\ silence' = [silence EXCEPT ![s] = 0]
    /\ count' = [count EXCEPT ![s] = IF protocol = "chainway" THEN 0 ELSE @]
    /\ UNCHANGED <<loopVars, manager, link>>

ReaderReturns(s) ==
    /\ manager[s].reader = "running"
    /\ ContextDone(s) \/ link[s].state = "closed" \/ ~link[s].connected
    /\ manager' = [manager EXCEPT ![s].reader =
                      IF protocol = "chainway" THEN "ending" ELSE "exited"]
    /\ UNCHANGED <<loopVars, watchVars, link>>

ReaderCancels(s) ==
    /\ manager[s].reader = "ending"
    /\ manager' = [manager EXCEPT ![s].reader = "exited", ![s].cancelled = TRUE]
    /\ UNCHANGED <<loopVars, watchVars, link>>

-----------------------------------------------------------------------------
(* The watcher: chainwayWatchdog or heartbeatPing.                         *)

WatcherReturns(s) ==
    /\ manager[s].watcher = "running"
    /\ ContextDone(s)
    /\ manager' = [manager EXCEPT ![s].watcher = "exited"]
    /\ UNCHANGED <<loopVars, watchVars, link>>

GiveUp(s) ==
    /\ manager' = [manager EXCEPT ![s].watcher = "exited", ![s].cancelled = TRUE]
    /\ UNCHANGED watchVars

Counts(s, n) ==
    /\ count' = [count EXCEPT ![s] = n]
    /\ UNCHANGED <<manager, silence>>

\* A silence of chainwayDeadAfter, or a probe that cannot be written.
WatchdogTick(s) ==
    /\ protocol = "chainway"
    /\ manager[s].watcher = "running"
    /\ \/ silence[s] = 2 /\ GiveUp(s) /\ UNCHANGED link
       \/ /\ silence[s] = 1
          /\ count[s] = 0
          /\ \/ Written(s, "poll") /\ Counts(s, 1)
             \/ NotWritten(s, "poll") /\ GiveUp(s)
    /\ UNCHANGED loopVars

\* Fault: at the limit the counter starts over.
HeartbeatTick_StartsOver(s) ==
    /\ protocol = "generic"
    /\ manager[s].watcher = "running"
    /\ \/ silence[s] = 0 /\ count[s] > 0 /\ Counts(s, 0) /\ UNCHANGED link
       \/ /\ silence[s] > 0
          /\ \/ /\ Written(s, "poll")
                /\ Counts(s, IF count[s] + 1 >= MaxSilent THEN 0 ELSE count[s] + 1)
             \/ NotWritten(s, "poll") /\ GiveUp(s)
    /\ UNCHANGED loopVars

\* The last of MaxSilent silent intervals in a row gives the connection up.
HeartbeatTick(s) ==
    /\ protocol = "generic"
    /\ manager[s].watcher = "running"
    /\ \/ silence[s] = 0 /\ count[s] > 0 /\ Counts(s, 0) /\ UNCHANGED link
       \/ /\ silence[s] > 0
          /\ \/ /\ Written(s, "poll")
                /\ IF count[s] + 1 >= MaxSilent THEN GiveUp(s) ELSE Counts(s, count[s] + 1)
             \/ NotWritten(s, "poll") /\ GiveUp(s)
    /\ UNCHANGED loopVars

-----------------------------------------------------------------------------
(* stopSession by `who`, the monitor or a caller of Stop, whoever comes    *)
(* first: the others wait in sessionStopOnce until it has ended.           *)

EnterStopSession(s, who) ==
    /\ manager[s][who] = "stopping"
    /\ \/ /\ protocol = "generic"
          /\ manager' = [manager EXCEPT ![s][who] = "closing"]
       \/ /\ protocol = "chainway"
          /\ manager[s].once = "free"
          /\ manager' = [manager EXCEPT ![s][who] = "sending", ![s].once = "held"]
       \/ /\ protocol = "chainway"
          /\ manager[s].once = "done"
          /\ manager' = [manager EXCEPT ![s][who] = "closing"]
    /\ UNCHANGED <<loopVars, watchVars, link>>

\* Fault: the stop command does not wait for startDone.
StopInventory_NoWait(s, who) ==
    /\ manager[s][who] = "sending"
    /\ Written(s, "stop") \/ NotWritten(s, "stop")
    /\ manager' = [manager EXCEPT ![s][who] = "closing", ![s].once = "done"]
    /\ UNCHANGED <<loopVars, watchVars>>

\* startDone is closed when the sender has returned.
StopInventory(s, who) ==
    /\ manager[s][who] = "sending"
    /\ manager[s].sender = "exited"
    /\ Written(s, "stop") \/ NotWritten(s, "stop")
    /\ manager' = [manager EXCEPT ![s][who] = "closing", ![s].once = "done"]
    /\ UNCHANGED <<loopVars, watchVars>>

\* closeDoneOnce.
CloseDone(s, who, after) ==
    /\ manager[s][who] = "closing"
    /\ manager' = [manager EXCEPT ![s][who] = after, ![s].done = TRUE]
    /\ UNCHANGED <<loopVars, watchVars, link>>

-----------------------------------------------------------------------------
(* monitorContext and Stop. *)

\* Fault: the branch of the child context closes Done without stopSession.
MonitorWakes_SkipsStop(s) ==
    /\ manager[s].monitor = "watching"
    /\ \/ /\ shutdown
          /\ manager' = [manager EXCEPT ![s].monitor = "stopping",
                                        ![s].running = FALSE,
                                        ![s].cancelled = @ \/ manager[s].running]
       \/ /\ ContextDone(s)
          /\ manager' = [manager EXCEPT ![s].monitor = "closing"]
    /\ UNCHANGED <<loopVars, watchVars, link>>

\* The branch of the parent context, if it is done, or the one of the child.
MonitorWakes(s) ==
    /\ manager[s].monitor = "watching"
    /\ \/ /\ shutdown
          /\ manager' = [manager EXCEPT ![s].monitor = "stopping",
                                        ![s].running = FALSE,
                                        ![s].cancelled = @ \/ manager[s].running]
       \/ /\ ContextDone(s)
          /\ manager' = [manager EXCEPT ![s].monitor = "stopping"]
    /\ UNCHANGED <<loopVars, watchVars, link>>

\* Stop then waits for the four goroutines, five seconds at most: it may go on
\* at any time.
StopCall(s) ==
    /\ s \in Stoppable
    /\ manager[s].caller = "none"
    /\ manager[s].running
    /\ manager' = [manager EXCEPT ![s].caller = "stopping",
                                  ![s].running = FALSE,
                                  ![s].cancelled = TRUE]
    /\ UNCHANGED <<loopVars, watchVars, link>>

-----------------------------------------------------------------------------
(* Time and the antenna. *)

SilenceGrows(s) ==
    /\ manager[s].watcher = "running"
    /\ silence[s] < IF protocol = "chainway" THEN 2 ELSE 1
    /\ silence' = [silence EXCEPT ![s] = @ + 1]
    /\ UNCHANGED <<loopVars, manager, link, count>>

\* The antenna closes the connection, or it dies without a sign (a pulled cable).
LinkBreaks(s) ==
    /\ link[s].connected
    /\ link[s].state = "up"
    /\ \E state \in {"closed", "silent"} :
          link' = [link EXCEPT ![s].state = state]
    /\ UNCHANGED <<loopVars, watchVars, manager>>

-----------------------------------------------------------------------------
LoopStep ==
    \/ LoopReturns
    \/ Connect
    \/ ConnectFails
    \/ Disconnect
    \/ ComputeBackoff
    \/ WaitEnds

SenderStep(s)  == CheckStart(s) \/ StartInventory(s) \/ PollReturns(s)
ReaderStep(s)  == ReaderReturns(s) \/ ReaderCancels(s)
WatcherStep(s) == WatcherReturns(s) \/ WatchdogTick(s) \/ HeartbeatTick(s)
StopSession(s, who, after) ==
    EnterStopSession(s, who) \/ StopInventory(s, who) \/ CloseDone(s, who, after)
MonitorStep(s) == MonitorWakes(s) \/ StopSession(s, "monitor", "exited")
CallerStep(s)  == StopSession(s, "caller", "returned")

SessionStep(s) ==
    \/ SenderStep(s)
    \/ PollFails(s)
    \/ ReaderStep(s)
    \/ Receive(s)
    \/ WatcherStep(s)
    \/ MonitorStep(s)
    \/ StopCall(s)
    \/ CallerStep(s)
    \/ SilenceGrows(s)
    \/ LinkBreaks(s)

Next ==
    \/ LoopStep
    \/ Shutdown
    \/ \E s \in 1 .. session : SessionStep(s)

Spec == Init /\ [][Next]_vars

\* The goroutines run whenever they can, their tickers fire, and time passes.
\* Nothing makes the antenna send, the link break, a poll fail or anybody call
\* Stop.
FairSpec ==
    /\ Spec
    /\ WF_vars(LoopStep)
    /\ \A s \in Sessions :
          /\ WF_vars(s \in 1 .. session /\ SenderStep(s))
          /\ WF_vars(s \in 1 .. session /\ ReaderStep(s))
          /\ WF_vars(s \in 1 .. session /\ WatcherStep(s))
          /\ WF_vars(s \in 1 .. session /\ MonitorStep(s))
          /\ WF_vars(s \in 1 .. session /\ CallerStep(s))
          /\ WF_vars(s \in 1 .. session /\ SilenceGrows(s))

-----------------------------------------------------------------------------
(* The types; the sessions so far are the domain of `manager` and `link`. *)
TypeOK ==
    /\ protocol \in {"chainway", "generic"}
    /\ loop \in Loops
    /\ session \in 0 .. MaxSession
    /\ attempt \in 0 .. MaxAttempt
    /\ backoff \in Int
    /\ shutdown \in BOOLEAN
    /\ manager \in [1 .. session -> Managers]
    /\ link \in [1 .. session -> Links]
    /\ silence \in [1 .. session -> 0 .. 2]
    /\ count \in [1 .. session -> 0 .. MaxSilent]

(* In one session at most one start of the inventory is written and at most *)
(* one stop, and no start after a stop, however the start, the end of the   *)
(* connection, Stop and the shutdown interleave (stopSession, startDone).   *)
StartThenStop ==
    \A s \in 1 .. session :
        link[s].sent \in {<<>>, <<"start">>, <<"stop">>, <<"start", "stop">>}

(* When a session is over for the loop, its stop command was tried after    *)
(* its start command and before the connection was given up; so an antenna  *)
(* whose connection worked until then does not transmit (Done closes after  *)
(* stopSession, and runAntenna disconnects after Done).                     *)
NoRFLeftOn ==
    \A s \in 1 .. session :
        manager[s].done \/ ~link[s].connected =>
            /\ link[s].sent # <<"start">> \/ link[s].failed
            /\ link[s].rf => link[s].failed \/ link[s].state # "up"

(* Only the connection the loop is serving is open: those before it are     *)
(* closed, and so is the last one when the loop returns (runAntenna         *)
(* disconnects after Done, whatever ends the session).                      *)
OneConnection ==
    \A s \in 1 .. session :
        link[s].connected => s = session /\ loop = "serving"

(* A connection that the antenna closed or that died without a sign is      *)
(* given up: the session ends, with either protocol (the watchdog, the      *)
(* heartbeat, the reader).                                                  *)
DeadLinkIsGivenUp ==
    \A s \in Sessions :
        s \in 1 .. session /\ link[s].state # "up" ~> s \in 1 .. session /\ ~link[s].connected

(* After main cancels the context of the antennas, the loop returns and the *)
(* goroutines of every session end, with either protocol, and so do the     *)
(* calls of Stop (runAntennaWithReconnect, antennaWg, Start).               *)
ShutdownEnds ==
    shutdown ~> /\ loop = "returned"
                /\ \A s \in 1 .. session :
                      /\ manager[s].sender = "exited"
                      /\ manager[s].reader = "exited"
                      /\ manager[s].watcher = "exited"
                      /\ manager[s].monitor = "exited"
                      /\ manager[s].caller \in {"none", "returned"}

(* The comment of calculateBackoff: initial, twice initial, ... up to max:  *)
(* the loop never waits less than the initial time.                         *)
WaitsAtLeastInitial == backoff >= InitialBackoff
=============================================================================
