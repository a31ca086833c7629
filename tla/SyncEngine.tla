----------------------------- MODULE SyncEngine -----------------------------
(***************************************************************************)
(* The sync engine of the gateway (internal/sync/engine.go) over its       *)
(* WebSocket client (internal/wsclient/client.go): one goroutine fetches   *)
(* the oldest unsynced rows of the cache, sends them in one request, waits *)
(* for the reply and marks as many rows, oldest first, as the reply says   *)
(* the cloud accepted.  Stop, GetStats, the writer of the cache and the    *)
(* cloud run beside it.                                                    *)
(*                                                                         *)
(* A row is its position in the order of the readings' timestamps.  The    *)
(* cloud is external: it stores a row once (SyncResponse counts the rows   *)
(* it had already as Duplicates) and replies to the requests of a          *)
(* connection in order.  With InOrder it stops at the first row it cannot  *)
(* store; without, it goes on with the next one.                           *)
(*                                                                         *)
(* Not in the state: retryCount, which only feeds a delay nobody waits     *)
(* for, and the totals of the statistics.                                  *)
(*                                                                         *)
(* Definitions named <operation>_<fault> are not part of the               *)
(* specification: each is the operation with a fault some property catches.*)
(***************************************************************************)
EXTENDS Integers, Sequences, FiniteSets

CONSTANTS
    MaxRow,     \* the rows are 1 .. MaxRow, in timestamp order
    BatchSize,  \* rows of one request (batch_size, 100)
    MarkBatch,  \* rows of one UPDATE of MarkSynced (500)
    InOrder,    \* the cloud stores a prefix of a request
    MaxFaults   \* bound of the model on the failures of the environment

ASSUME SyncEngineAssumption ==
    /\ MaxRow \in Nat
    /\ BatchSize \in Nat \ {0}
    /\ MarkBatch \in Nat \ {0}
    /\ InOrder \in BOOLEAN
    /\ MaxFaults \in Nat

Rows == 1 .. MaxRow

VARIABLES
    stored,     \* rows of pending_readings
    synced,     \* rows whose column synced is 1
    conn,       \* the client's field conn: nil, usable, or broken and kept
    requests,   \* requests on their way to the cloud
    replies,    \* replies on their way back
    engine,     \* where the engine's goroutine is
    batch,      \* the rows of the current cycle
    marking,    \* the rows MarkSynced still has to mark
    lifecycle,  \* Start and Stop
    observer,   \* a call of GetStats
    received,   \* rows the cloud has stored
    orphans,    \* requests of a lost connection the cloud may still process
    lostAcks,   \* history: rows the cloud accepted and nobody was told of
    faults      \* failures so far

database == <<stored, synced>>
wire     == <<conn, requests, replies>>
process  == <<engine, batch, marking, lifecycle, observer>>
cloud    == <<received, orphans>>
vars     == <<database, wire, process, cloud, lostAcks, faults>>

Connections == {"none", "open", "broken"}
EngineStates == {"idle", "reconnecting", "dialing", "connected", "fetched",
                 "sending", "waiting", "marking", "ending", "exited"}
LifecycleStates == {"running", "stopping", "cancelled", "stopped"}
Replies == [success : BOOLEAN, accepted : Nat]

Cancelled == lifecycle \in {"cancelled", "stopped"}

-----------------------------------------------------------------------------
(* Oldest rows first. *)

\* The sets of rows that hold, with a row, every older row of S.
Prefixes(S) == {P \in SUBSET S : \A p \in P, q \in S : q < p => q \in P}

\* The first k rows of S, or all of them (the one element of this set).
FirstOf(S, k) ==
    {P \in Prefixes(S) :
        Cardinality(P) = IF k < Cardinality(S) THEN k ELSE Cardinality(S)}

-----------------------------------------------------------------------------
(* NewEngine and Start over the cache as it is: nobody has dialled yet.    *)

Init ==
    /\ stored = {}
    /\ synced = {}
    /\ conn = "none"
    /\ requests = <<>>
    /\ replies = <<>>
    /\ engine = "idle"
    /\ batch = {}
    /\ marking = {}
    /\ lifecycle = "running"
    /\ observer = "idle"
    /\ received = {}
    /\ orphans = {}
    /\ lostAcks = 0
    /\ faults = 0

Fault == faults < MaxFaults /\ faults' = faults + 1

\* The writer of the cache commits a row; antennas differ in their delays, so
\* an older reading may arrive later.
Insert(row) ==
    /\ row \notin stored
    /\ stored' = stored \cup {row}
    /\ UNCHANGED <<synced, wire, process, cloud, lostAcks, faults>>

-----------------------------------------------------------------------------
(* syncOnce, from the tick (or the start) to the request. *)

\* The first check of the context, then IsConnected: conn # nil.
BeginCycle ==
    /\ engine = "idle"
    /\ engine' = IF Cancelled THEN "ending"
                 ELSE IF conn = "none" THEN "reconnecting" ELSE "connected"
    /\ UNCHANGED <<database, wire, batch, marking, lifecycle, observer, cloud, lostAcks, faults>>

\* Reconnect: Disconnect does nothing, the sleep, then Connect with c.mu held.
WakeUp ==
    /\ engine = "reconnecting"
    /\ engine' = "dialing"
    /\ UNCHANGED <<database, wire, batch, marking, lifecycle, observer, cloud, lostAcks, faults>>

DialSucceeds ==
    /\ engine = "dialing"
    /\ conn' = "open"
    /\ engine' = "connected"
    /\ UNCHANGED <<database, requests, replies, batch, marking, lifecycle, observer,
                   cloud, lostAcks, faults>>

\* Fault: the loop ends when the cloud cannot be reached.
DialFails_GivesUp ==
    /\ engine = "dialing"
    /\ Fault
    /\ engine' = "exited"
    /\ UNCHANGED <<database, wire, batch, marking, lifecycle, observer, cloud, lostAcks>>

DialFails ==
    /\ engine = "dialing"
    /\ Fault
    /\ engine' = "ending"
    /\ UNCHANGED <<database, wire, batch, marking, lifecycle, observer, cloud, lostAcks>>

\* GetUnsynced.
Fetch ==
    /\ engine = "connected"
    /\ batch' \in FirstOf(stored \ synced, BatchSize)
    /\ engine' = IF batch' = {} THEN "ending" ELSE "fetched"
    /\ UNCHANGED <<database, wire, marking, lifecycle, observer, cloud, lostAcks, faults>>

FetchFails ==
    /\ engine = "connected"
    /\ Fault
    /\ engine' = "ending"
    /\ UNCHANGED <<database, wire, batch, marking, lifecycle, observer, cloud, lostAcks>>

\* The second check of the context.
CheckContext ==
    /\ engine = "fetched"
    /\ engine' = IF Cancelled THEN "ending" ELSE "sending"
    /\ UNCHANGED <<database, wire, batch, marking, lifecycle, observer, cloud, lostAcks, faults>>

Send ==
    /\ engine = "sending"
    /\ conn = "open"
    /\ requests' = Append(requests, batch)
    /\ engine' = "waiting"
    /\ UNCHANGED <<database, conn, replies, batch, marking, lifecycle, observer,
                   cloud, lostAcks, faults>>

\* The write or the read on a broken connection fails; conn is kept.
ConnectionError ==
    /\ engine \in {"sending", "waiting"}
    /\ conn = "broken"
    /\ engine' = "ending"
    /\ UNCHANGED <<database, wire, batch, marking, lifecycle, observer, cloud, lostAcks, faults>>

-----------------------------------------------------------------------------
(* syncOnce, from the reply to the end of the cycle. *)

\* Fault: a reply that accepts anything marks the whole batch.
ReadReply_MarksAll ==
    /\ engine = "waiting"
    /\ replies # <<>>
    /\ replies' = Tail(replies)
    /\ LET reply == Head(replies)
       IN  IF reply.success /\ reply.accepted \in 1 .. Cardinality(batch)
             THEN marking' = batch /\ engine' = "marking"
             ELSE engine' = "ending" /\ UNCHANGED marking
    /\ UNCHANGED <<database, conn, requests, batch, lifecycle, observer, cloud, lostAcks, faults>>

ReadReply ==
    /\ engine = "waiting"
    /\ replies # <<>>
    /\ replies' = Tail(replies)
    /\ LET reply == Head(replies)
       IN  IF reply.success /\ reply.accepted \in 1 .. Cardinality(batch)
             THEN marking' \in FirstOf(batch, reply.accepted) /\ engine' = "marking"
             ELSE engine' = "ending" /\ UNCHANGED marking
    /\ UNCHANGED <<database, conn, requests, batch, lifecycle, observer, cloud, lostAcks, faults>>

\* The reply cannot be parsed.
ReadGarbled ==
    /\ engine = "waiting"
    /\ replies # <<>>
    /\ Fault
    /\ replies' = Tail(replies)
    /\ lostAcks' = lostAcks + Head(replies).accepted
    /\ engine' = "ending"
    /\ UNCHANGED <<database, conn, requests, batch, marking, lifecycle, observer, cloud>>

\* Fault: MarkSynced stops after its first UPDATE.
MarkSynced_FirstOnly ==
    /\ engine = "marking"
    /\ \E chunk \in FirstOf(marking, MarkBatch) :
          /\ synced' = synced \cup chunk
          /\ marking' = {}
          /\ engine' = "ending"
    /\ UNCHANGED <<stored, wire, batch, lifecycle, observer, cloud, lostAcks, faults>>

\* One UPDATE of MarkSynced, a transaction of its own.
MarkSynced ==
    /\ engine = "marking"
    /\ \E chunk \in FirstOf(marking, MarkBatch) :
          /\ synced' = synced \cup chunk
          /\ marking' = marking \ chunk
          /\ engine' = IF marking' = {} THEN "ending" ELSE "marking"
    /\ UNCHANGED <<stored, wire, batch, lifecycle, observer, cloud, lostAcks, faults>>

MarkFails ==
    /\ engine = "marking"
    /\ Fault
    /\ lostAcks' = lostAcks + Cardinality(marking)
    /\ marking' = {}
    /\ engine' = "ending"
    /\ UNCHANGED <<database, wire, batch, lifecycle, observer, cloud>>

\* Fault: Stop keeps e.mu while it waits for the goroutine.
FinishCycle_StopHoldsLock ==
    /\ engine = "ending"
    /\ observer = "idle"
    /\ lifecycle # "cancelled"
    /\ engine' = "idle"
    /\ batch' = {}
    /\ UNCHANGED <<database, wire, marking, lifecycle, observer, cloud, lostAcks, faults>>

\* Every cycle ends with a section under e.mu (retryCount, the statistics).
FinishCycle ==
    /\ engine = "ending"
    /\ observer = "idle"
    /\ engine' = "idle"
    /\ batch' = {}
    /\ UNCHANGED <<database, wire, marking, lifecycle, observer, cloud, lostAcks, faults>>

\* The select of run takes the case of stopCh.
Exit ==
    /\ engine = "idle"
    /\ Cancelled
    /\ engine' = "exited"
    /\ UNCHANGED <<database, wire, batch, marking, lifecycle, observer, cloud, lostAcks, faults>>

-----------------------------------------------------------------------------
(* Stop takes e.mu for the field running, cancels the context, closes      *)
(* stopCh and waits.  Nothing interrupts a request that waits for a reply. *)

StopCall ==
    /\ lifecycle = "running"
    /\ lifecycle' = "stopping"
    /\ UNCHANGED <<database, wire, engine, batch, marking, observer, cloud, lostAcks, faults>>

StopCancel ==
    /\ lifecycle = "stopping"
    /\ observer = "idle"
    /\ lifecycle' = "cancelled"
    /\ UNCHANGED <<database, wire, engine, batch, marking, observer, cloud, lostAcks, faults>>

\* Fault: Stop does not wait for the goroutine.
StopReturn_NoWait ==
    /\ lifecycle = "cancelled"
    /\ lifecycle' = "stopped"
    /\ UNCHANGED <<database, wire, engine, batch, marking, observer, cloud, lostAcks, faults>>

StopReturn ==
    /\ lifecycle = "cancelled"
    /\ engine = "exited"
    /\ lifecycle' = "stopped"
    /\ UNCHANGED <<database, wire, engine, batch, marking, observer, cloud, lostAcks, faults>>

(* GetStats holds e.mu for reading while IsConnected waits for c.mu, which *)
(* Connect and Read hold while they wait for the network.  A Stop or the   *)
(* end of a cycle that waits for e.mu keeps new readers out.               *)

StatsBegin ==
    /\ observer = "idle"
    /\ lifecycle # "stopping"
    /\ engine # "ending"
    /\ observer' = "holding"
    /\ UNCHANGED <<database, wire, engine, batch, marking, lifecycle, cloud, lostAcks, faults>>

StatsEnd ==
    /\ observer = "holding"
    /\ engine \notin {"dialing", "waiting"}
    /\ observer' = "idle"
    /\ UNCHANGED <<database, wire, engine, batch, marking, lifecycle, cloud, lostAcks, faults>>

-----------------------------------------------------------------------------
(* The cloud and the network. *)

Processable(rows) == IF InOrder THEN Prefixes(rows) ELSE SUBSET rows

CloudStores(rows) ==
    /\ received' = received \cup rows
    /\ replies' = Append(replies, [success |-> TRUE, accepted |-> Cardinality(rows \ received)])

CloudReplies ==
    /\ requests # <<>>
    /\ requests' = Tail(requests)
    /\ \/ CloudStores(Head(requests)) /\ UNCHANGED faults
       \/ /\ Fault
          /\ \/ \E rows \in Processable(Head(requests)) : CloudStores(rows)
             \/ /\ replies' = Append(replies, [success |-> FALSE, accepted |-> 0])
                /\ UNCHANGED received
    /\ UNCHANGED <<database, conn, process, orphans, lostAcks>>

\* A request that outlived its connection: nobody hears of what it stored.
CloudProcessesOrphan(request) ==
    /\ orphans' = orphans \ {request}
    /\ \E rows \in Processable(request) :
          /\ received' = received \cup rows
          /\ lostAcks' = lostAcks + Cardinality(rows \ received)
    /\ UNCHANGED <<database, wire, process, faults>>

\* What the connection carries is lost with it, or reaches the cloud later.
LoseWire ==
    /\ requests' = <<>>
    /\ replies' = <<>>
    /\ orphans' = orphans \cup {requests[i] : i \in DOMAIN requests}

UnreadAcks == IF replies = <<>> THEN 0 ELSE Head(replies).accepted

\* The engine notices when it next writes or reads; the field keeps its value.
Break ==
    /\ conn = "open"
    /\ Fault
    /\ conn' = "broken"
    /\ LoseWire
    /\ lostAcks' = lostAcks + UnreadAcks
    /\ UNCHANGED <<database, process, received>>

\* The process ends anywhere and starts again over the same table.
Restart ==
    /\ Fault
    /\ conn' = "none"
    /\ LoseWire
    /\ lostAcks' = lostAcks + UnreadAcks + Cardinality(marking)
    /\ engine' = "idle"
    /\ batch' = {}
    /\ marking' = {}
    /\ lifecycle' = "running"
    /\ observer' = "idle"
    /\ UNCHANGED <<database, received>>

-----------------------------------------------------------------------------
EngineStep ==
    \/ BeginCycle
    \/ WakeUp
    \/ DialSucceeds
    \/ DialFails
    \/ Fetch
    \/ FetchFails
    \/ CheckContext
    \/ Send
    \/ ConnectionError
    \/ ReadReply
    \/ ReadGarbled
    \/ MarkSynced
    \/ MarkFails
    \/ FinishCycle
    \/ Exit

CallerStep == StopCall \/ StopCancel \/ StopReturn \/ StatsBegin \/ StatsEnd

EnvironmentStep ==
    \/ \E row \in Rows : Insert(row)
    \/ CloudReplies
    \/ \E request \in orphans : CloudProcessesOrphan(request)
    \/ Break
    \/ Restart

Next == EngineStep \/ CallerStep \/ EnvironmentStep

Spec == Init /\ [][Next]_vars

(***************************************************************************)
(* The goroutine of the engine runs whenever it can, and the select of run *)
(* takes stopCh sooner or later once it is closed.  The calls of Stop and  *)
(* GetStats go on once they have begun; nobody has to make them.           *)
(***************************************************************************)
ProcessFairness ==
    /\ WF_vars(EngineStep)
    /\ SF_vars(Exit)
    /\ WF_vars(StopCancel)
    /\ WF_vars(StopReturn)
    /\ WF_vars(StatsEnd)

\* The gateway alone: the cloud may never reply.
ProcessSpec == Spec /\ ProcessFairness

\* With a cloud that replies.
FairSpec == ProcessSpec /\ WF_vars(CloudReplies)

-----------------------------------------------------------------------------
(* Properties. *)

\* Every variable keeps its type; a batch keeps its bound, and the connection
\* carries one message at most.
TypeOK ==
    /\ stored \subseteq Rows
    /\ synced \subseteq stored
    /\ conn \in Connections
    /\ requests \in Seq(SUBSET Rows)
    /\ replies \in Seq(Replies)
    /\ Len(requests) + Len(replies) <= 1
    /\ engine \in EngineStates
    /\ batch \subseteq Rows
    /\ Cardinality(batch) <= BatchSize
    /\ marking \subseteq batch
    /\ lifecycle \in LifecycleStates
    /\ observer \in {"idle", "holding"}
    /\ received \subseteq stored
    /\ orphans \subseteq SUBSET stored
    /\ lostAcks \in Nat
    /\ faults \in 0 .. MaxFaults

\* A row is marked only after the cloud stored it, although the reply names no
\* row and only counts them: across lost replies, duplicates, late requests of
\* an earlier connection and rows inserted out of order.  It needs a cloud
\* that stores a prefix of each request.
SyncedWereReceived == synced \subseteq received

\* Every row the cloud has and the table does not know of stands for one lost
\* acknowledgement: the backlog of duplicates never grows in another way, and
\* it never shrinks either, because the cloud acknowledges a row once.
InFlightAcks == UnreadAcks + Cardinality(marking)

BacklogIsLostAcks == Cardinality(received \ synced) = lostAcks + InFlightAcks

\* Once Stop has returned, the engine marks no row, sends no request and dials
\* no connection: main closes the cache after that.
QuietAfterStop ==
    [][lifecycle = "stopped" => /\ UNCHANGED synced
                                /\ Len(requests') <= Len(requests)
                                /\ conn' = "open" => conn = "open"]_vars

\* Stop returns if the cloud replies: neither GetStats, nor the end of a
\* cycle, nor a tick that is ready together with stopCh keeps it waiting.
StopReturns == lifecycle = "stopping" ~> lifecycle \in {"stopped", "running"}

\* A row reaches the cloud, oldest first, whatever fails for a while, unless
\* Stop was called, the connection broke, or a whole batch of duplicates whose
\* acknowledgement was lost is at the head of the queue.
EveryRowReachesCloud ==
    \A row \in Rows :
        row \in stored ~> \/ row \in received
                          \/ lifecycle # "running"
                          \/ conn = "broken"
                          \/ lostAcks >= BatchSize

\* A test of the client on a connection the server closed: "should detect
\* closure".  A broken connection is replaced while the engine runs.
BrokenConnectionIsReplaced ==
    conn = "broken" ~> conn # "broken" \/ lifecycle # "running"

=============================================================================
