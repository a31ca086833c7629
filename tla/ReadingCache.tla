---------------------------- MODULE ReadingCache ----------------------------
(***************************************************************************)
(* The write path of the gateway's SQLite cache (internal/cache/sqlite.go):*)
(* antenna handlers call Store, which hands a reading to a bounded Go      *)
(* channel; one writer goroutine collects readings into a batch and        *)
(* inserts the batch into the table pending_readings with up to three      *)
(* attempts; Flush asks the writer to empty the channel; Close stops it.   *)
(*                                                                         *)
(* A reading is its own identity: one Store call per reading, each call in *)
(* a goroutine of its own, so the calls of different antennas interleave   *)
(* in every way.  A restart of the process (a crash, a panic or the end of *)
(* a clean shutdown) loses the memory and keeps the table.                 *)
(*                                                                         *)
(* Definitions named <operation>_<fault> are not part of the               *)
(* specification: each is the operation with a fault some property catches.*)
(***************************************************************************)
EXTENDS Integers, Sequences, FiniteSets, Functions

CONSTANTS
    Readings,       \* the readings the antennas produce
    Invalid,        \* those that models.Reading.Validate refuses
    Flushers,       \* the calls of Flush
    BufferSize,     \* capacity of the channel c.readings (1000)
    BatchMax,       \* the batch length at which the writer flushes (100)
    MaxAttempts,    \* maxRetries of flush (3)
    MaxRestarts     \* bound of the model on restarts of the process

ASSUME ReadingCacheAssumption ==
    /\ Invalid \subseteq Readings
    /\ BufferSize \in Nat \ {0}
    /\ BatchMax \in Nat \ {0}
    /\ MaxAttempts \in Nat \ {0}
    /\ MaxRestarts \in Nat

NoFlusher == "no flusher"
ASSUME NoFlusherAssumption == NoFlusher \notin Flushers

VARIABLES
    store,      \* what became of the Store call of each reading
    readings,   \* the buffered channel c.readings
    batch,      \* the writer's local batch
    writer,     \* where the writer goroutine is
    after,      \* where the writer goes when the current flush is over
    attempt,    \* failed attempts of the current flush
    closer,     \* how far Close has got
    flusher,    \* where each call of Flush is
    serving,    \* the call whose done channel the writer holds
    copies,     \* rows of pending_readings for each reading
    abandoned,  \* history: readings dropped when the last attempt failed
    wiped,      \* history: readings a restart erased from memory
    partial,    \* history: readings of a batch in which some row failed
    barrier,    \* history: readings this process accepted before each Flush
    restarts    \* restarts so far

memory   == <<store, readings, batch, writer, after, attempt>>
control  == <<closer, flusher, serving>>
history  == <<abandoned, wiped, partial, barrier, restarts>>
vars     == <<memory, control, copies, history>>

StoreStates  == {"new", "checked", "accepted", "rejected", "panicked"}
WriterStates == {"select", "drain", "flush", "exited"}
AfterStates  == {"select", "drain", "ack", "exit"}
CloserStates == {"open", "marked", "signalled", "done"}
FlusherStates == {"idle", "checked", "waiting", "flushed", "failed"}

-----------------------------------------------------------------------------
(* Where a reading can be. *)

Accepted == {r \in Readings : store[r] = "accepted"}
InMemory == Range(readings) \cup Range(batch)
Stored   == {r \in Readings : copies[r] > 0}

Closed        == closer # "open"         \* the field closed is true
CloseSignal   == closer \in {"signalled", "done"}  \* closeCh is closed
ReadingsClosed == closer = "done"        \* c.readings is closed, so is the db

-----------------------------------------------------------------------------
(* NewSQLite: an open cache over the table as it is, the writer started. *)

Init ==
    /\ store = [r \in Readings |-> "new"]
    /\ readings = <<>>
    /\ batch = <<>>
    /\ writer = "select"
    /\ after = "select"
    /\ attempt = 0
    /\ closer = "open"
    /\ flusher = [f \in Flushers |-> "idle"]
    /\ serving = NoFlusher
    /\ copies = [r \in Readings |-> 0]
    /\ abandoned = {}
    /\ wiped = {}
    /\ partial = {}
    /\ barrier = [f \in Flushers |-> {}]
    /\ restarts = 0

-----------------------------------------------------------------------------
(* Store reads closed under the read lock, releases the lock, validates    *)
(* and sends: what it read of closed may be stale when it sends.           *)

\* Fault: the reading is not validated.
StoreCheck_Unvalidated(r) ==
    /\ store[r] = "new"
    /\ store' = [store EXCEPT ![r] = IF Closed THEN "rejected" ELSE "checked"]
    /\ UNCHANGED <<readings, batch, writer, after, attempt, control, copies, history>>

StoreCheck(r) ==
    /\ store[r] = "new"
    /\ store' = [store EXCEPT ![r] =
                    IF Closed \/ r \in Invalid THEN "rejected" ELSE "checked"]
    /\ UNCHANGED <<readings, batch, writer, after, attempt, control, copies, history>>

StoreSend(r) ==
    /\ store[r] = "checked"
    /\ ~ReadingsClosed
    /\ Len(readings) < BufferSize
    /\ readings' = Append(readings, r)
    /\ store' = [store EXCEPT ![r] = "accepted"]
    /\ UNCHANGED <<batch, writer, after, attempt, control, copies, history>>

\* The 100 ms timer fires while the channel is full.
StoreTimeout(r) ==
    /\ store[r] = "checked"
    /\ ~ReadingsClosed
    /\ Len(readings) = BufferSize
    /\ store' = [store EXCEPT ![r] = "rejected"]
    /\ UNCHANGED <<readings, batch, writer, after, attempt, control, copies, history>>

-----------------------------------------------------------------------------
(* The writer's select: a reading, a tick, a flush request, the close      *)
(* signal, in any order when several are ready.                            *)

StartFlush(next) ==
    /\ writer' = "flush"
    /\ after' = next
    /\ attempt' = 0

\* One case of the select, and of the inner select of a drain.
Receive(state) ==
    /\ writer = state
    /\ readings # <<>>
    /\ batch' = Append(batch, Head(readings))
    /\ readings' = Tail(readings)
    /\ IF Len(batch') >= BatchMax
         THEN StartFlush(state)
         ELSE UNCHANGED <<writer, after, attempt>>
    /\ UNCHANGED <<store, control, copies, history>>

\* Fault: the ticker flushes full batches only.
Tick_FullOnly ==
    /\ writer = "select"
    /\ Len(batch) = BatchMax
    /\ StartFlush("select")
    /\ UNCHANGED <<store, readings, batch, control, copies, history>>

Tick ==
    /\ writer = "select"
    /\ batch # <<>>
    /\ StartFlush("select")
    /\ UNCHANGED <<store, readings, batch, control, copies, history>>

\* Fault: the writer leaves without flushing its batch.
ReceiveClose_NoFlush ==
    /\ writer = "select"
    /\ CloseSignal
    /\ writer' = "exited"
    /\ batch' = <<>>
    /\ UNCHANGED <<after, attempt, store, readings, control, copies, history>>

ReceiveClose ==
    /\ writer = "select"
    /\ CloseSignal
    /\ IF batch # <<>>
         THEN StartFlush("exit")
         ELSE writer' = "exited" /\ UNCHANGED <<after, attempt>>
    /\ UNCHANGED <<store, readings, batch, control, copies, history>>

ReceiveFlush(f) ==
    /\ writer = "select"
    /\ flusher[f] = "checked"
    /\ flusher' = [flusher EXCEPT ![f] = "waiting"]
    /\ serving' = f
    /\ writer' = "drain"
    /\ UNCHANGED <<store, readings, batch, after, attempt, closer, copies, history>>

\* close(done): the caller the writer serves returns.
Acknowledge ==
    /\ flusher' = [flusher EXCEPT ![serving] = "flushed"]
    /\ serving' = NoFlusher

\* Fault: the caller is released before the batch it waits for is written.
DrainEmpty_EarlyAck ==
    /\ writer = "drain"
    /\ readings = <<>>
    /\ Acknowledge
    /\ IF batch # <<>>
         THEN StartFlush("select")
         ELSE writer' = "select" /\ UNCHANGED <<after, attempt>>
    /\ UNCHANGED <<store, readings, batch, closer, copies, history>>

\* Fault: nobody is released when there is nothing to write.
DrainEmpty_NoAck ==
    /\ writer = "drain"
    /\ readings = <<>>
    /\ IF batch # <<>>
         THEN StartFlush("ack")
         ELSE writer' = "select" /\ UNCHANGED <<after, attempt>>
    /\ UNCHANGED <<store, readings, batch, control, copies, history>>

\* The default case of the inner select: the channel is empty.
DrainEmpty ==
    /\ writer = "drain"
    /\ readings = <<>>
    /\ IF batch # <<>>
         THEN StartFlush("ack") /\ UNCHANGED <<flusher, serving>>
         ELSE /\ Acknowledge
              /\ writer' = "select"
              /\ UNCHANGED <<after, attempt>>
    /\ UNCHANGED <<store, readings, batch, closer, copies, history>>

-----------------------------------------------------------------------------
(* flush: up to MaxAttempts transactions (flushOnce), a sleep in between.  *)

\* Fault: the batch is not emptied after a flush.
EndFlush_KeepsBatch ==
    /\ batch' = batch
    /\ attempt' = 0
    /\ writer' = CASE after = "exit" -> "exited"
                   [] after = "drain" -> "drain"
                   [] OTHER -> "select"
    /\ IF after = "ack" THEN Acknowledge ELSE UNCHANGED <<flusher, serving>>
    /\ UNCHANGED after

\* The flush is over: the batch is emptied whatever became of it.
EndFlush ==
    /\ batch' = <<>>
    /\ attempt' = 0
    /\ writer' = CASE after = "exit" -> "exited"
                   [] after = "drain" -> "drain"
                   [] OTHER -> "select"
    /\ IF after = "ack" THEN Acknowledge ELSE UNCHANGED <<flusher, serving>>
    /\ UNCHANGED after

\* Begin, Prepare or Commit failed: nothing is inserted.
\* Otherwise the rows outside "failed" are committed, and the attempt counts
\* as failed if any row did.
FlushOnce(inserted, failed) ==
    /\ writer = "flush"
    /\ copies' = [r \in Readings |->
                    IF r \in inserted THEN copies[r] + 1 ELSE copies[r]]
    /\ IF failed = {}
         THEN EndFlush /\ UNCHANGED <<abandoned, partial>>
         ELSE /\ partial' = partial \cup inserted
              /\ IF attempt + 1 < MaxAttempts
                   THEN /\ attempt' = attempt + 1
                        /\ UNCHANGED <<batch, writer, after, flusher, serving, abandoned>>
                   ELSE /\ EndFlush
                        /\ abandoned' = abandoned \cup
                             {r \in Range(batch) : copies'[r] = 0}
    /\ UNCHANGED <<store, readings, closer, wiped, barrier, restarts>>

FlushCommits ==
    \E failed \in SUBSET Range(batch) : FlushOnce(Range(batch) \ failed, failed)

FlushAborts == FlushOnce({}, Range(batch))

-----------------------------------------------------------------------------
(* Flush checks closed as Store does, then offers its done channel to the  *)
(* writer for five seconds.                                                *)

FlushCall(f) ==
    /\ flusher[f] = "idle"
    /\ flusher' = [flusher EXCEPT ![f] = IF Closed THEN "failed" ELSE "checked"]
    /\ barrier' = [barrier EXCEPT ![f] = Accepted \ wiped]
    /\ UNCHANGED <<memory, closer, serving, copies, abandoned, wiped, partial, restarts>>

\* The writer was elsewhere for five seconds.
FlushTimeout(f) ==
    /\ flusher[f] = "checked"
    /\ writer # "select"
    /\ flusher' = [flusher EXCEPT ![f] = "failed"]
    /\ UNCHANGED <<memory, closer, serving, copies, history>>

-----------------------------------------------------------------------------
(* Close marks the cache closed, signals the writer, waits for it and      *)
(* closes the channel and the database.  A second call returns at once.    *)

CloseMark ==
    /\ closer = "open"
    /\ closer' = "marked"
    /\ UNCHANGED <<memory, flusher, serving, copies, history>>

CloseSignalWriter ==
    /\ closer = "marked"
    /\ closer' = "signalled"
    /\ UNCHANGED <<memory, flusher, serving, copies, history>>

CloseFinish ==
    /\ closer = "signalled"
    /\ writer = "exited"
    /\ closer' = "done"
    /\ UNCHANGED <<memory, flusher, serving, copies, history>>

-----------------------------------------------------------------------------
(* The process ends and starts again over the same table.                  *)

Restart(calls) ==
    /\ restarts < MaxRestarts
    /\ restarts' = restarts + 1
    /\ store' = calls
    /\ readings' = <<>>
    /\ batch' = <<>>
    /\ writer' = "select"
    /\ after' = "select"
    /\ attempt' = 0
    /\ closer' = "open"
    /\ flusher' = [f \in Flushers |-> "idle"]
    /\ serving' = NoFlusher
    /\ wiped' = wiped \cup (InMemory \ Stored)
    /\ barrier' = [f \in Flushers |-> {}]
    /\ UNCHANGED <<copies, abandoned, partial>>

\* A Store call in progress never returns.
Interrupted ==
    [r \in Readings |-> IF store[r] = "checked" THEN "rejected" ELSE store[r]]

\* A crash, or the next start after a clean Close.
ProcessRestart == Restart(Interrupted)

\* A send on the closed channel panics, which ends the process.
StorePanic(r) ==
    /\ store[r] = "checked"
    /\ ReadingsClosed
    /\ Restart([Interrupted EXCEPT ![r] = "panicked"])

-----------------------------------------------------------------------------
WriterStep ==
    \/ Receive("select")
    \/ Receive("drain")
    \/ Tick
    \/ ReceiveClose
    \/ \E f \in Flushers : ReceiveFlush(f)
    \/ DrainEmpty
    \/ FlushCommits
    \/ FlushAborts

StoreStep(r) ==
    \/ StoreCheck(r)
    \/ StoreSend(r)
    \/ StoreTimeout(r)
    \/ StorePanic(r)

FlushStep(f) == FlushCall(f) \/ FlushTimeout(f)

CloseStep == CloseMark \/ CloseSignalWriter \/ CloseFinish

Next ==
    \/ \E r \in Readings : StoreStep(r)
    \/ WriterStep
    \/ \E f \in Flushers : FlushStep(f)
    \/ CloseStep
    \/ ProcessRestart

Spec == Init /\ [][Next]_vars

(***************************************************************************)
(* The Go scheduler runs a goroutine that can run, and a one-second ticker *)
(* keeps waking the writer.  A select picks among its ready cases with     *)
(* equal chance, so the close case is taken if it stays ready.  Store,     *)
(* Flush, Close and the restarts are up to the callers; a Close that has   *)
(* begun, and the timer of a Flush that has begun, go on.                  *)
(***************************************************************************)
WriterFairness ==
    /\ WF_vars(WriterStep)
    /\ WF_vars(ReceiveClose)
    /\ WF_vars(CloseSignalWriter)
    /\ WF_vars(CloseFinish)
    /\ \A f \in Flushers :
         /\ SF_vars(ReceiveFlush(f))
         /\ WF_vars(FlushTimeout(f))

FairSpec == Spec /\ WriterFairness

-----------------------------------------------------------------------------
(* Properties. *)

\* Every variable keeps its type; the channel and the batch keep their bounds.
TypeOK ==
    /\ store \in [Readings -> StoreStates]
    /\ readings \in Seq(Readings)
    /\ Len(readings) <= BufferSize
    /\ batch \in Seq(Readings)
    /\ Len(batch) <= BatchMax
    /\ writer \in WriterStates
    /\ after \in AfterStates
    /\ attempt \in 0 .. (MaxAttempts - 1)
    /\ closer \in CloserStates
    /\ flusher \in [Flushers -> FlusherStates]
    /\ serving \in Flushers \cup {NoFlusher}
    /\ copies \in [Readings -> Nat]
    /\ abandoned \subseteq Readings
    /\ wiped \subseteq Readings
    /\ partial \subseteq Readings
    /\ barrier \in [Flushers -> SUBSET Readings]
    /\ restarts \in 0 .. MaxRestarts

\* Store's nil result is a promise: the reading is in the channel, in the
\* writer's batch or in the table, or it was given up in one of the two ways
\* the code has: the last attempt of a flush failed, or the process ended.
NothingUnaccounted ==
    Accepted \subseteq InMemory \cup Stored \cup abandoned \cup wiped

\* A reading waits in one place, and it gets a second row only because an
\* attempt that committed its row also failed on another row of the batch and
\* was repeated; even then it gets at most one row per attempt.
SecondRowOnlyAfterPartialFailure ==
    /\ IsInjective(readings)
    /\ Range(readings) \cap (Range(batch) \cup Stored) = {}
    /\ \A r \in Readings : /\ copies[r] > 1 => r \in partial
                           /\ copies[r] <= MaxAttempts

\* When Flush returns nil, every reading accepted before the call is in the
\* table, unless a flush gave it up: nothing is left behind in the channel or
\* in the batch by the drain loop.
FlushIsABarrier ==
    \A f \in Flushers : flusher[f] = "flushed" =>
        barrier[f] \subseteq Stored \cup abandoned

\* The cache implements the abstract store.
Phase(r) ==
    CASE copies[r] > 0 -> "stored"
      [] copies[r] = 0 /\ r \in InMemory -> "pending"
      [] copies[r] = 0 /\ r \notin InMemory /\ store[r] = "accepted" -> "lost"
      [] store[r] \in {"rejected", "panicked"} -> "refused"
      [] OTHER -> "unoffered"

Abstract == INSTANCE ReadingStore WITH phase <- [r \in Readings |-> Phase(r)]

ImplementsReadingStore == Abstract!Spec

\* An accepted reading is stored or given up in the end, with nobody calling
\* Flush: the ticker wakes the writer.  Only Close ends that: what is still
\* in the channel when the writer leaves stays there.
AcceptedIsSettled ==
    \A r \in Readings :
        store[r] = "accepted" ~>
            r \in Stored \cup abandoned \cup wiped \/ Closed

\* Close and Flush return: neither waits for ever on the writer, whatever the
\* other one and the antennas do at the same time.
CallsReturn ==
    /\ closer = "marked" ~> closer \in {"done", "open"}
    /\ \A f \in Flushers :
         flusher[f] \in {"checked", "waiting"} ~> flusher[f] \in {"flushed", "failed", "idle"}

\* A comment of the type: "a thread-safe cache".  No interleaving of Store and
\* Close makes Store panic.
NoStorePanics == \A r \in Readings : store[r] # "panicked"

=============================================================================
