------------------------------ MODULE EventStream ------------------------------
(***************************************************************************)
(* The event bus (internal/events/bus.go) and its only subscribers, the    *)
(* handlers of /events of the web server (internal/web/sse.go), with the   *)
(* end of that server (internal/web/server.go).                            *)
(*                                                                         *)
(* A handler is one connection of a browser, or, once that has ended, the  *)
(* next one.  Its channel is in two lists: that of the bus, behind the     *)
(* bus's lock, and that of the server, behind the server's.  Both          *)
(* Unsubscribe and the end of the server close it, and to close a closed   *)
(* channel, or to send on one, is a panic: in a handler net/http recovers  *)
(* it, in Publish the code does, and in Stop nobody does.  Publish holds   *)
(* the bus's lock for reading over all of its sends, so that no handler    *)
(* subscribes or leaves in the middle of one; Stop does not ask for that   *)
(* lock.                                                                   *)
(*                                                                         *)
(* Not in the state: what the events are, what is written to the browser,  *)
(* the heartbeats and the other routes.  Definitions named                 *)
(* <operation>_<fault> are not part of the specification: each is the      *)
(* operation with a fault some property catches.                           *)
(***************************************************************************)
EXTENDS Integers, SequencesExt

CONSTANTS
    Handlers,  \* the most connections to /events at a time
    Antennas,  \* what publishes: the data reader of each antenna
    Buffer     \* capacity of a channel; the program's 1000

ASSUME EventStreamAssumption == Buffer \in Nat \ {0}

VARIABLES
    subscribers, \* the list of the bus
    clients,     \* sseClients of the server
    queue,       \* how many events each channel holds
    closed,      \* the handlers whose channel is closed
    handler,     \* how far each handler is
    web,         \* how far the server is
    pending,     \* the subscribers a Publish in progress has yet to send to
    crashed      \* a panic nobody recovers ended the program

channels == <<subscribers, clients, queue, closed>>
streamVars ==
    <<channels, handler, web, pending, crashed>>

StreamInit ==
    /\ subscribers = <<>>
    /\ clients = {}
    /\ queue = [h \in Handlers |-> 0]
    /\ closed = {}
    /\ handler = [h \in Handlers |-> "none"]
    /\ web = "up"
    /\ pending = [a \in Antennas |-> <<>>]
    /\ crashed = FALSE

\* Nobody holds the lock of the bus for reading.
BusIsFree == \A a \in Antennas : pending[a] = <<>>

\* Stop holds the lock of the server while it closes channels.
ServerIsFree == web # "closing"

Becomes(h, stage) == handler' = [handler EXCEPT ![h] = stage]

-----------------------------------------------------------------------------
(* The handler of one connection. *)

\* A connection the listener took before Shutdown closed it may send its request
\* at any time.
Subscribe(h) ==
    /\ handler[h] = "none"
    /\ BusIsFree
    /\ subscribers' = Append(subscribers, h)
    /\ Becomes(h, "subscribed")
    /\ UNCHANGED <<clients, queue, closed, web, pending, crashed>>

Register(h) ==
    /\ handler[h] = "subscribed"
    /\ ServerIsFree
    /\ clients' = clients \union {h}
    /\ Becomes(h, "streaming")
    /\ UNCHANGED <<subscribers, queue, closed, web, pending, crashed>>

Receive(h) ==
    /\ handler[h] = "streaming"
    /\ queue[h] > 0
    /\ queue' = [queue EXCEPT ![h] = @ - 1]
    /\ UNCHANGED <<subscribers, clients, closed, handler, web, pending, crashed>>

\* A closed channel is noticed once it is empty.
SeeClosed(h) ==
    /\ handler[h] = "streaming"
    /\ h \in closed
    /\ queue[h] = 0
    /\ Becomes(h, "leaving")
    /\ UNCHANGED <<channels, web, pending, crashed>>

\* The context of the request is done: the browser left, or a write failed,
\* as all do once the server's deadline for writing has passed.
ClientLeaves(h) ==
    /\ handler[h] = "streaming"
    /\ Becomes(h, "leaving")
    /\ UNCHANGED <<channels, web, pending, crashed>>

Deregister(h) ==
    /\ handler[h] = "leaving"
    /\ ServerIsFree
    /\ clients' = clients \ {h}
    /\ Becomes(h, "deregistered")
    /\ UNCHANGED <<subscribers, queue, closed, web, pending, crashed>>

\* The channel of a handler that ended is nobody's.
Forget(h) ==
    /\ queue' = [queue EXCEPT ![h] = 0]
    /\ closed' = closed \ {h}

\* Fault: the channel is closed first, and the panic keeps it on the list.
Unsubscribe_CloseFirst(h) ==
    /\ handler[h] = "deregistered"
    /\ BusIsFree
    /\ subscribers' = IF h \in closed THEN subscribers ELSE RemoveFirst(subscribers, h)
    /\ Becomes(h, "none")
    /\ Forget(h)
    /\ UNCHANGED <<clients, web, pending, crashed>>

\* The channel is off the list before it is closed: when Stop closed it
\* already, the panic unlocks the bus and ends the handler, and nothing more.
Unsubscribe(h) ==
    /\ handler[h] = "deregistered"
    /\ BusIsFree
    /\ subscribers' = RemoveFirst(subscribers, h)
    /\ Becomes(h, "none")
    /\ Forget(h)
    /\ UNCHANGED <<clients, web, pending, crashed>>

-----------------------------------------------------------------------------
(* The bus. *)

PublishBegin(a) ==
    /\ pending[a] = <<>>
    /\ pending' = [pending EXCEPT ![a] = subscribers]
    /\ UNCHANGED <<channels, handler, web, crashed>>

\* Fault: nothing recovers the panic of a send on a closed channel.
Send_NoRecover(h) ==
    /\ queue' = [queue EXCEPT ![h] = IF h \notin closed /\ @ < Buffer THEN @ + 1 ELSE @]
    /\ crashed' = (crashed \/ h \in closed)

\* A send that does not wait, and drops the event when the channel is full;
\* one on a closed channel panics and is recovered.
Send(h) ==
    /\ \/ h \notin closed /\ queue[h] < Buffer /\ queue' = [queue EXCEPT ![h] = @ + 1]
       \/ (h \in closed \/ queue[h] = Buffer) /\ UNCHANGED queue
    /\ UNCHANGED crashed

Deliver(a) ==
    /\ pending[a] # <<>>
    /\ Send(Head(pending[a]))
    /\ pending' = [pending EXCEPT ![a] = Tail(@)]
    /\ UNCHANGED <<subscribers, clients, closed, handler, web>>

-----------------------------------------------------------------------------
(* The end of the server. *)

WebStop ==
    /\ web = "up"
    /\ web' = "closing"
    /\ UNCHANGED <<channels, handler, pending, crashed>>

WebCloseClient(h) ==
    /\ web = "closing"
    /\ h \in clients
    /\ clients' = clients \ {h}
    /\ closed' = closed \union {h}
    /\ crashed' = (crashed \/ h \in closed)
    /\ UNCHANGED <<subscribers, queue, handler, web, pending>>

WebShutdown ==
    /\ web = "closing"
    /\ clients = {}
    /\ web' = "shutdown"
    /\ UNCHANGED <<channels, handler, pending, crashed>>

\* Shutdown returns when the last connection is idle, or on its context.
WebStopped(expired) ==
    /\ web = "shutdown"
    /\ expired \/ \A h \in Handlers : handler[h] = "none"
    /\ web' = "stopped"
    /\ UNCHANGED <<channels, handler, pending, crashed>>

\* A step of the web server's own goroutines.
StreamStep ==
    \E h \in Handlers :
        \/ Subscribe(h)
        \/ Register(h)
        \/ Receive(h)
        \/ SeeClosed(h)
        \/ ClientLeaves(h)
        \/ Deregister(h)
        \/ Unsubscribe(h)

-----------------------------------------------------------------------------
(* A connection that ended is in neither list, however the end of its      *)
(* handler and the end of the server interleave: no later Publish and no   *)
(* Stop meets its channel (bus.go:47, sse.go:36, server.go:164).           *)
GoneLeavesNothing ==
    \A h \in Handlers : handler[h] = "none" =>
        /\ ~ Contains(subscribers, h)
        /\ h \notin clients

(* A channel is closed twice, or sent on when closed, only where the panic *)
(* is recovered: neither an antenna's data reader (bus.go:70) nor the      *)
(* shutdown (server.go:171) ends the program.                              *)
PanicsAreContained == ~ crashed
=============================================================================
