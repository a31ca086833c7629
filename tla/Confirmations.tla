---------------------------- MODULE Confirmations ----------------------------
(***************************************************************************)
(* Confirmations of a tool's movement.  The handler of POST /api/confirm   *)
(* (internal/web/handlers.go) sends one to the VPS while the operator      *)
(* waits, or queues it in the table pending_confirmations                  *)
(* (internal/localstore/store.go); the flush loop of ToolsSync             *)
(* (internal/sync/toolssync.go) sends the queued ones.  Handlers and the   *)
(* flusher run beside each other over one table, without a lock.           *)
(*                                                                         *)
(* A confirmation is one request of an operator.  created_at has seconds   *)
(* (CURRENT_TIMESTAMP), so rows may tie and SQL leaves their order open.   *)
(* An id is never used twice (AUTOINCREMENT), so a confirmation stands for *)
(* its row.                                                                *)
(*                                                                         *)
(* Not in the state: vpsOnline, which no code of the gateway reads, and    *)
(* the loop of ToolsSync that refreshes the catalogue of tools and users.  *)
(*                                                                         *)
(* Definitions named <operation>_<fault> are not part of the               *)
(* specification: each is the operation with a fault some property catches.*)
(***************************************************************************)
EXTENDS Integers, FiniteSets

CONSTANTS
    Confirmations,  \* the requests of the operators
    MaxPending,     \* max_pending_confirmations; 0 is no cap
    Limit,          \* rows of one snapshot of the flusher (100)
    MaxRetries,     \* MaxRetries of toolssync.go (10)
    None,           \* no confirmation
    MaxSecond,      \* bound of the model on the clock of created_at
    MaxFaults       \* bound of the model on failures and restarts

ASSUME ConfirmationsAssumption ==
    /\ IsFiniteSet(Confirmations)
    /\ MaxPending \in Nat
    /\ Limit \in Nat \ {0}
    /\ MaxRetries \in Nat
    /\ None \notin Confirmations
    /\ MaxSecond \in Nat
    /\ MaxFaults \in Nat

VARIABLES
    request,    \* where the handler of each request is
    row,        \* the row of each confirmation
    created,    \* its created_at
    retry,      \* its retry_count
    second,     \* the clock of CURRENT_TIMESTAMP
    flusher,    \* where the flush goroutine is
    snapshot,   \* rows of the query it has not come to
    current,    \* the row it is at
    stopping,   \* ToolsSync.Stop was called
    delivered,  \* how often the VPS has recorded each confirmation
    sent,       \* history: how often the flusher has sent it
    lost,       \* history: answers to it that were lost after the VPS acted
    unwritten,  \* history: sends of it whose outcome the row does not show
    faults      \* failures and restarts so far

table   == <<row, created, retry>>
process == <<flusher, snapshot, current, stopping>>
history == <<sent, lost, unwritten>>
vars    == <<request, table, second, process, delivered, history, faults>>

\* The answers: sent and queued are successes; failed is any other end.
RequestStates == {"new", "sending", "queueing", "sent", "queued", "failed"}
RowStates == {"absent", "unsynced", "synced", "evicted"}
FlusherStates == {"idle", "flushing", "sending", "accepted", "rejected", "exited"}

Unsynced == {c \in Confirmations : row[c] = "unsynced"}
Evicted  == {c \in Confirmations : row[c] = "evicted"}
Queued   == {c \in Confirmations : row[c] # "absent"}
Exhausted == {c \in Unsynced : retry[c] >= MaxRetries}

\* ORDER BY created_at.
Oldest(S) == {c \in S : \A d \in S : created[c] <= created[d]}

-----------------------------------------------------------------------------
Init ==
    /\ request = [c \in Confirmations |-> "new"]
    /\ row = [c \in Confirmations |-> "absent"]
    /\ created = [c \in Confirmations |-> 0]
    /\ retry = [c \in Confirmations |-> 0]
    /\ second = 0
    /\ flusher = "idle"
    /\ snapshot = {}
    /\ current = None
    /\ stopping = FALSE
    /\ delivered = [c \in Confirmations |-> 0]
    /\ sent = [c \in Confirmations |-> 0]
    /\ lost = [c \in Confirmations |-> 0]
    /\ unwritten = [c \in Confirmations |-> 0]
    /\ faults = 0

Fault == faults < MaxFaults /\ faults' = faults + 1

Answer(c, outcome) == request' = [request EXCEPT ![c] = outcome]

-----------------------------------------------------------------------------
(* handleConfirm. *)

\* A bad method, body or action.
Refuse(c) ==
    /\ request[c] = "new"
    /\ Answer(c, "failed")
    /\ UNCHANGED <<table, second, process, delivered, history, faults>>

\* checkVPSHealth: any HTTP response counts, so the VPS may still refuse.
CheckHealth(c) ==
    /\ request[c] = "new"
    /\ \E next \in {"sending", "queueing"} : Answer(c, next)
    /\ UNCHANGED <<table, second, process, delivered, history, faults>>

\* Fault: the return after the answer is missing.
SendNow_FallsThrough(c) ==
    /\ request[c] = "sending"
    /\ delivered' = [delivered EXCEPT ![c] = @ + 1]
    /\ Answer(c, "queueing")
    /\ UNCHANGED <<table, second, process, history, faults>>

SendNow(c) ==
    /\ request[c] = "sending"
    /\ delivered' = [delivered EXCEPT ![c] = @ + 1]
    /\ Answer(c, "sent")
    /\ UNCHANGED <<table, second, process, history, faults>>

\* The VPS does not answer, refuses, or acts and the answer is lost.
SendNowFails(c) ==
    /\ request[c] = "sending"
    /\ Fault
    /\ \/ UNCHANGED <<delivered, lost>>
       \/ /\ delivered' = [delivered EXCEPT ![c] = @ + 1]
          /\ lost' = [lost EXCEPT ![c] = @ + 1]
    /\ Answer(c, "queueing")
    /\ UNCHANGED <<table, second, process, sent, unwritten>>

Full == MaxPending > 0 /\ Cardinality(Unsynced) >= MaxPending

InsertRow(c, rows) ==
    /\ row' = [rows EXCEPT ![c] = "unsynced"]
    /\ second' \in second .. MaxSecond
    /\ created' = [created EXCEPT ![c] = second']
    /\ UNCHANGED retry

\* CreateConfirmation: one transaction.
Queue(c) ==
    /\ request[c] = "queueing"
    /\ \/ /\ Full
          /\ \E old \in Oldest(Unsynced) : InsertRow(c, [row EXCEPT ![old] = "evicted"])
       \/ ~Full /\ InsertRow(c, row)
    /\ Answer(c, "queued")
    /\ UNCHANGED <<process, delivered, history, faults>>

\* An error of the database, or an action like "Entrada", which ValidateAction
\* takes and the CHECK of the column refuses: rolled back.
QueueFails(c) ==
    /\ request[c] = "queueing"
    /\ Answer(c, "failed")
    /\ UNCHANGED <<table, second, process, delivered, history, faults>>

-----------------------------------------------------------------------------
(* performFlush: a snapshot of the oldest rows, then one row at a time.    *)
(* A tick that finds no row, or whose query fails, changes nothing.  The   *)
(* retry count of the snapshot is the row's: nobody else changes it.       *)

Snapshots ==
    {S \in SUBSET Unsynced :
        /\ Cardinality(S) = IF Limit < Cardinality(Unsynced)
                              THEN Limit ELSE Cardinality(Unsynced)
        /\ \A c \in S, d \in Unsynced \ S : created[c] <= created[d]}

FlushBegin ==
    /\ flusher = "idle"
    /\ Unsynced # {}
    /\ snapshot' \in Snapshots
    /\ flusher' = "flushing"
    /\ UNCHANGED <<request, table, second, current, stopping, delivered, history, faults>>

\* Rows at the limit stay in the queue.
FlushSkip ==
    /\ flusher = "flushing"
    /\ \E c \in Oldest(snapshot) :
          /\ retry[c] >= MaxRetries
          /\ snapshot' = snapshot \ {c}
    /\ UNCHANGED <<request, table, second, flusher, current, stopping,
                   delivered, history, faults>>

FlushSend ==
    /\ flusher = "flushing"
    /\ \E c \in Oldest(snapshot) :
          /\ retry[c] < MaxRetries
          /\ current' = c
          /\ snapshot' = snapshot \ {c}
          /\ sent' = [sent EXCEPT ![c] = @ + 1]
    /\ flusher' = "sending"
    /\ UNCHANGED <<request, table, second, stopping, delivered, lost, unwritten, faults>>

FlushEnd ==
    /\ flusher = "flushing"
    /\ snapshot = {}
    /\ flusher' = "idle"
    /\ UNCHANGED <<request, table, second, snapshot, current, stopping, delivered, history, faults>>

Accepted ==
    /\ flusher = "sending"
    /\ delivered' = [delivered EXCEPT ![current] = @ + 1]
    /\ flusher' = "accepted"
    /\ UNCHANGED <<request, table, second, snapshot, current, stopping, history, faults>>

Rejected ==
    /\ flusher = "sending"
    /\ Fault
    /\ \/ UNCHANGED <<delivered, lost>>
       \/ /\ delivered' = [delivered EXCEPT ![current] = @ + 1]
          /\ lost' = [lost EXCEPT ![current] = @ + 1]
    /\ flusher' = "rejected"
    /\ UNCHANGED <<request, table, second, snapshot, current, stopping, sent, unwritten>>

\* Fault: the UPDATE marks every row that is no newer.
MarkSynced_Range ==
    /\ flusher = "accepted"
    /\ row' = [c \in Confirmations |->
                  IF row[c] = "unsynced" /\ created[c] <= created[current]
                    THEN "synced" ELSE row[c]]
    /\ flusher' = "flushing"
    /\ current' = None
    /\ UNCHANGED <<request, created, retry, second, snapshot, stopping,
                   delivered, history, faults>>

\* An UPDATE of the row, which finds none when a handler evicted it meanwhile.
MarkSynced ==
    /\ flusher = "accepted"
    /\ row' = [row EXCEPT ![current] = IF @ = "evicted" THEN @ ELSE "synced"]
    /\ flusher' = "flushing"
    /\ current' = None
    /\ UNCHANGED <<request, created, retry, second, snapshot, stopping,
                   delivered, history, faults>>

IncrementRetryCount ==
    /\ flusher = "rejected"
    /\ retry' = [retry EXCEPT ![current] = IF row[current] = "evicted" THEN @ ELSE @ + 1]
    /\ flusher' = "flushing"
    /\ current' = None
    /\ UNCHANGED <<request, row, created, second, snapshot, stopping,
                   delivered, history, faults>>

\* Fault: the loop returns at the first failed write and is not started again.
WriteFails_Returns ==
    /\ flusher \in {"accepted", "rejected"}
    /\ Fault
    /\ unwritten' = [unwritten EXCEPT ![current] = @ + 1]
    /\ flusher' = "exited"
    /\ current' = None
    /\ UNCHANGED <<request, table, second, snapshot, stopping,
                   delivered, sent, lost>>

\* The error of the UPDATE is logged: the row stays as it was.
WriteFails ==
    /\ flusher \in {"accepted", "rejected"}
    /\ Fault
    /\ unwritten' = [unwritten EXCEPT ![current] = @ + 1]
    /\ flusher' = "flushing"
    /\ current' = None
    /\ UNCHANGED <<request, table, second, snapshot, stopping,
                   delivered, sent, lost>>

-----------------------------------------------------------------------------
(* ToolsSync.Stop, and the end of the process. *)

\* A flush under way goes on: performFlush does not look at the context.
Stop ==
    /\ ~stopping
    /\ stopping' = TRUE
    /\ UNCHANGED <<request, table, second, flusher, snapshot, current,
                   delivered, history, faults>>

FlusherExits ==
    /\ flusher = "idle"
    /\ stopping
    /\ flusher' = "exited"
    /\ UNCHANGED <<request, table, second, snapshot, current, stopping,
                   delivered, history, faults>>

InFlight == {c \in Confirmations : \/ request[c] = "sending"
                                   \/ flusher = "sending" /\ c = current}

\* The process ends, after Stop (which waits five seconds for the flusher) or
\* anywhere, and starts over the same table.  The VPS may act on what was sent.
Restart ==
    /\ Fault
    /\ request' = [c \in Confirmations |->
                      IF request[c] \in {"sending", "queueing"} THEN "failed" ELSE request[c]]
    /\ \E S \in SUBSET InFlight :
          delivered' = [c \in Confirmations |->
                           IF c \in S THEN delivered[c] + 1 ELSE delivered[c]]
    /\ unwritten' = [c \in Confirmations |->
                        IF c = current THEN unwritten[c] + 1 ELSE unwritten[c]]
    /\ flusher' = "idle"
    /\ snapshot' = {}
    /\ current' = None
    /\ stopping' = FALSE
    /\ UNCHANGED <<table, second, sent, lost>>

-----------------------------------------------------------------------------
HandlerStep(c) ==
    \/ Refuse(c)
    \/ CheckHealth(c)
    \/ SendNow(c)
    \/ SendNowFails(c)
    \/ Queue(c)
    \/ QueueFails(c)

FlusherStep ==
    \/ FlushBegin
    \/ FlushSkip
    \/ FlushSend
    \/ FlushEnd
    \/ MarkSynced
    \/ IncrementRetryCount
    \/ WriteFails

VPSStep == Accepted \/ Rejected

Next ==
    \/ \E c \in Confirmations : HandlerStep(c)
    \/ FlusherStep
    \/ VPSStep
    \/ Stop
    \/ FlusherExits
    \/ Restart

Spec == Init /\ [][Next]_vars

\* The ticker of the flush loop keeps firing, its goroutine runs whenever it
\* can, and every request to the VPS ends (the client has a timeout).
FairSpec == Spec /\ WF_vars(FlusherStep) /\ WF_vars(VPSStep)

-----------------------------------------------------------------------------
(* The types of the variables; only a sender at work has a current row. *)
TypeOK ==
    /\ request \in [Confirmations -> RequestStates]
    /\ row \in [Confirmations -> RowStates]
    /\ created \in [Confirmations -> 0 .. MaxSecond]
    /\ retry \in [Confirmations -> 0 .. MaxRetries]
    /\ second \in 0 .. MaxSecond
    /\ flusher \in FlusherStates
    /\ snapshot \subseteq Confirmations
    /\ current \in Confirmations \cup {None}
    /\ current # None <=> flusher \in {"sending", "accepted", "rejected"}
    /\ stopping \in BOOLEAN
    /\ delivered \in [Confirmations -> Nat]
    /\ sent \in [Confirmations -> Nat]
    /\ lost \in [Confirmations -> Nat]
    /\ unwritten \in [Confirmations -> Nat]
    /\ faults \in 0 .. MaxFaults

(* What the operator was told "sent" or "queued" has reached the VPS, waits *)
(* in the queue, or gave way to a newer confirmation at the cap, whatever   *)
(* fails or restarts; and only what reached the VPS leaves the queue as     *)
(* synced (handleConfirm, performFlush).                                    *)
AcceptedIsKept ==
    \A c \in Confirmations :
        /\ request[c] = "sent" => delivered[c] > 0
        /\ request[c] = "queued" => row[c] # "absent"
        /\ row[c] = "synced" => delivered[c] > 0

(* The VPS records a confirmation twice only when an answer was lost or its *)
(* outcome could not be written to the row: the handler's fallback, the     *)
(* retries and the flusher never send twice on their own.                   *)
DuplicatesAreAccounted ==
    \A c \in Confirmations : delivered[c] <= 1 + lost[c] + unwritten[c]

(* MaxRetries bounds how often the flusher sends a confirmation, but for    *)
(* sends whose outcome was never written (performFlush).                    *)
SendsAreBounded ==
    \A c \in Confirmations : sent[c] <= MaxRetries + unwritten[c]

(* The queue keeps to its cap, and a row is evicted only to make room for   *)
(* one that was then stored: a request that could not be queued evicts      *)
(* nothing (CreateConfirmation).                                            *)
EvictionsMakeRoom ==
    /\ MaxPending > 0 => Cardinality(Unsynced) <= MaxPending
    /\ Evicted # {} => /\ MaxPending > 0
                       /\ Cardinality(Evicted) + MaxPending <= Cardinality(Queued)

(* A queued confirmation is delivered, evicted or out of retries sooner or  *)
(* later, unless the gateway stops or the rows out of retries fill the      *)
(* snapshot: they are never removed, and the query takes the oldest rows    *)
(* (performFlush, GetUnsyncedConfirmations).                                *)
QueuedSettles ==
    \A c \in Confirmations :
        row[c] = "unsynced" ~> \/ row[c] # "unsynced"
                               \/ retry[c] >= MaxRetries
                               \/ Cardinality(Exhausted) >= Limit
                               \/ stopping
=============================================================================
