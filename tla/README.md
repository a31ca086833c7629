# A formal model of the RFID gateway

The gateway (`amg-rfid-gateway`, Go) reads RFID tags from antennas over TCP,
keeps the readings in a local SQLite cache, sends them to a cloud over a
WebSocket, lets a warehouse worker confirm tool movements in a web page, and
keeps those confirmations until a REST API (the "VPS") has taken them. It runs
for months beside unreliable antennas, on an unreliable network, and is stopped
by losing its power. This directory models the parts of it in which order,
failure and concurrency decide whether it is correct; every definition is
written from the source, and `PROJECT.json` ("map") names the lines.

* `M.tla` is a component, `MCM*.cfg` instantiates it for TLC, with definitions in
  `MCM.tla` where it needs some, and `MProofs.tla` holds theorems about it that
  TLAPS checks. Three proof modules are about two components each and extend both:
  `SQLiteProofs` is about `ReadingCache` and `LocalDatabase`, `ProcessProofs`
  about `Updater` and `Gateway`, `AntennaProofs` about `AntennaSession` and
  `StreamFrames`. That is why the initial state and the specification of
  `LocalDatabase`, `Gateway` and `StreamFrames` carry a name of their own
  (`DatabaseInit`, `GatewaySpec`, `FramesSpec`).
* `Operation_Fault` definitions are not part of a specification. Each is an
  operation with a plausible mistake; "mutants" in `PROJECT.json` says which
  property finds it.

## 1. Inventory of the system

| Component (source) | State it keeps | Operations | What makes it hard |
|---|---|---|---|
| SQLite cache (`internal/cache/sqlite.go`) | buffered channel, writer's batch, table `pending_readings`, `closed` | `Store`, writer loop, `flush`, `Flush`, `GetUnsynced`, `MarkSynced`, `Close`, migrations | several producers, one writer, retries of a batch that partly succeeded, close racing store, crashes |
| Sync engine (`internal/sync/engine.go`) | `running`, context, retry count, statistics | `Start`, `syncOnce`, `Stop`, `GetStats` | a reply that only counts rows, lost replies, a lock held across the network, stop during a cycle |
| WebSocket client (`internal/wsclient`) | `conn` | `Connect`, `Reconnect`, `SendSyncRequest`, `IsConnected` | `conn` says nothing about the connection; the mutex is held while reading |
| Catalogue and schema (`internal/sync/toolssync.go`, `internal/localstore/store.go`, `internal/cache/sqlite.go`) | tables `tools`, `tool_tags`, `users`, the version of every table | `createTables`, four migrations, `performSync`, upserts, `GetToolByUII` | a kill between two statements of a migration; three transactions per refresh; conflicts of ids and UIIs |
| Confirmations (`internal/web/handlers.go`, `internal/localstore/store.go`, `internal/sync/toolssync.go`, `internal/httpclient`) | table `pending_confirmations`, `vpsOnline` | `handleConfirm`, `CreateConfirmation`, `performFlush`, `performSync` | online and queued paths race, retries after a lost answer, a capped queue that evicts, exhausted rows at the head |
| Antenna session (`internal/antenna`, `internal/rawtcp`) | connection, context, `Done` channel, auto-reading flag, heartbeat counter | generic reader with heartbeat, Chainway reader with watchdog, start and stop of the inventory | five goroutines end one session; the RF field must be switched off exactly once |
| Frame extraction (`amg-rfid-shared-go/protocol`, `internal/chainway`) | byte buffer | `Append`, `Decode` | frames split over reads, noise, resynchronisation, a bounded buffer |
| Event bus and SSE (`internal/events`, `internal/web/sse.go`, `server.go`) | subscribers, registered clients | `Subscribe`, `Publish`, `Unsubscribe`, `Stop` | two owners close the same channel; slow subscribers |
| Homebrew deployment (`internal/deploy/homebrew`) | files, directory modes, owners, two journals | plan, mode transaction, ownership transaction, recovery | crash between any two steps; a step done and not recorded; objects somebody else changes |
| Updater (`internal/updater`) | binary, backups, download, the flag of an update | download, backup, apply, rollback, cleanup | crash between remove and rename; copies cut short; two callers |
| Configuration (`internal/config`) | file, backup, live pointer | load, validate, `SaveToYAML`, `Holder.Swap` | replacing a file and a pointer while others read |
| TUI and bridge (`internal/tui`, `screens`) | editor state, socket | polling, settings editor, config reload | message order of the Bubbletea loop, copies of the configuration |
| Health and metrics (`internal/health`, `internal/monitoring`) | antenna status map | `GetStatus`, handlers | reads through the locks of other components |
| Verification rules (`internal/verify`) | none | `SuggestAction`, `ResolveExitDestination` | precedence of zone, location, default |
| Entry point (`cmd/gateway/main.go`) | goroutines | start order, reconnect loop, shutdown order | shutdown of components that wait for each other |

Interactions: antenna goroutines call `Store` (cache) and `Publish` (event bus);
the sync engine polls the cache and calls the client; the web server subscribes
to the bus, calls the VPS client and writes `pending_confirmations`, which
`ToolsSync` drains; health, metrics and the bridge read `GetStats` and the antenna
statuses; `main` starts everything and stops it in a fixed order.

## 2. Plan

Order: first what loses or duplicates data or leaves hardware on, then what a
crash can break, then the rest.

| # | Module | Models | State |
|---|---|---|---|
| 1 | `ReadingStore`, `ReadingCache` | the promise of the cache to the antennas, and its write path | checked, proved |
| 2 | `SyncEngine` | engine, WebSocket client, table, cloud | checked, proved |
| 3 | `Confirmations` | web handler, local queue, flush loop, VPS | checked, proved |
| 4 | `AntennaSession` | reconnection loop, manager, TCP client, antenna | checked, proved |
| 5 | `DurableChange`, `DeployTransaction` | the journalled change of a directory mode (`homebrew/transaction.go`) over a file system that may lose unsynced metadata | checked, proved |
| 6 | `OwnershipTransaction` | the journalled change of owner and mode of several objects (`homebrew/ownership_transaction.go`): a step that was done and not recorded | checked, proved |
| 7 | `EventStream` | event bus, SSE handlers and `Server.Stop`: the channel two owners close | checked in 8, proved |
| 8 | `Gateway` | the goroutines of `main`, the locks of health, engine and client, and the shutdown; extends 7 | checked, proved |
| 9 | `Updater` | backup, remove and rename, rollback, cleanup, with a kill between any two | checked, proved |
| 10 | `Settings` | the configuration file, the settings screen with its antenna editor and its late messages, the save | checked, proved |
| 11 | `LocalDatabase` | the tables and their migrations, and the copy of the VPS's tools, tags and users | checked, proved |
| 12 | `StreamFrames` | both frame extractors (`protocol/packet.go`, `chainway/frame.go`): the frames must not depend on how TCP cuts the bytes | checked, proved |

Composition: `Gateway` extends `EventStream` and sees the engine and the
antenna sessions by what they do to the locks they share, to the bus and to the
shutdown; `SyncEngine` contains the client, the table and the cloud;
`Confirmations` the web handler, the queue and the VPS; `AntennaSession` the
loop of `main`, the manager and the link.

Abstract specifications: `ReadingStore`, which `ReadingCache` implements, and
`DurableChange`, which `DeployTransaction` implements.

Theorems: every safety property and both refinements that a passing run checks
are proved (section 5). What could still be stated are the bounds of the counters
of `AntennaSession`, and that an extractor returns every byte it read in a frame
or passes it over where no frame begins.

## 3. The modules

### 3.1 ReadingCache and ReadingStore

`ReadingStore` is what an antenna's handler may believe: a reading is refused,
or accepted and then held, stored or given up; a held reading may be lost only
by a failed write or a restart, and a stored one stays. `ReadingCache` is the
code of `internal/cache/sqlite.go`:

| Model | Code |
|---|---|
| `readings`, `batch`, `copies` | the channel `c.readings`, the writer's local slice, the rows of `pending_readings` |
| `StoreCheck`, `StoreSend`, `StoreTimeout` | `Store`: validation and the check of `closed` under the read lock; later, without it, the send, or the 100 ms timeout when the channel is full |
| `Receive`, `Tick`, `ReceiveClose`, `ReceiveFlush` | the four cases of the writer's `select` |
| `DrainEmpty` | the end of the inner loop which empties the channel for a `Flush` |
| `FlushOnce`, `EndFlush` | one attempt of `flush`: the rows it inserted, the rows that failed (the transaction is committed with what succeeded); after a success or the last attempt the batch is emptied |
| `FlushCall`, `FlushTimeout` | `Flush` and its five-second limit to reach the writer |
| `CloseMark`, `CloseSignalWriter`, `CloseFinish` | `Close`: the field, the signal and the wait for the writer, the close of the channel and the database |
| `ProcessRestart` | the end of the process at any step: memory is lost, the table kept |

Checks (`reading_cache`): `NothingUnaccounted`, no accepted reading disappears
unless a failed flush or a restart gave it up; `SecondRowOnlyAfterPartialFailure`,
a reading is in the table twice only after an attempt that failed on another
row of its batch; `FlushIsABarrier`, when `Flush` returns nil everything
accepted before the call is in the table or given up; `ImplementsReadingStore`,
the refinement; `AcceptedIsSettled` and `CallsReturn`, liveness.
`NothingUnaccounted` and the refinement
hold only because `abandoned` counts as an outcome: the code's comment says the
failed batch is retried later, and it is not (section 6). The definition
`NoStorePanics` says that no `Store` sends on the channel `Close` closes; it is
false (section 6), so that it is in no run.

Bounds: three valid readings and one invalid, one `Flush` at a time, channel
capacity 1, batches of 2, 2 attempts, 1 restart. Two readings in a batch are the
least that make a partial failure, one more in the channel is the least that
makes a `Store` wait while the writer flushes; a second attempt is the least
that repeats one.

### 3.2 SyncEngine

| Model | Code |
|---|---|
| `stored`, `synced` | `pending_readings` and its column `synced` |
| `conn`, `requests`, `replies` | the client's field `conn` (which stays set when the connection breaks) and the messages in flight |
| `BeginCycle` … `FinishCycle` | the ticker's case and `syncOnce` step by step: the check of `running`, `Reconnect`, `GetUnsynced`, the check of the context, `SendSyncRequest`, `MarkSynced`, the statistics under `e.mu` |
| `Exit`, `StopCall`, `StopCancel`, `StopReturn` | the loop's end, and the three phases of `Stop` |
| `StatsBegin`, `StatsEnd` | `GetStats`, which holds `e.mu` while it waits for the client's mutex |
| `CloudReplies`, `CloudProcessesOrphan` | the cloud (external): it stores rows once and counts the new ones; a request of a lost connection may be processed late |
| `Break`, `Restart`, `Insert` | connection loss, the end of the process, the cache's writer (which may insert an older row than the batch's) |

The reply carries a number of rows, and the engine marks that many from the front
of its batch. With a cloud that stores a prefix of each request (`InOrder`) the
run `sync_engine` shows `SyncedWereReceived` (no row is marked that the cloud
does not have), `BacklogIsLostAcks` (the rows the cloud has and the table does
not know of are exactly the acknowledgements lost or in flight),
`QuietAfterStop`, `StopReturns`, and `EveryRowReachesCloud`, whose exception is
the case the code is in after lost acknowledgements have filled a batch with
rows the cloud reports as duplicates, not as accepted, and after a connection
broke (it is never replaced). `sync_broken_connection` shows where the
documentation and the code disagree: a broken connection is never replaced.
`StopReturns` needs a cloud that answers, and `SyncedWereReceived` a cloud that
stores a prefix of each request: with one that skips a row, the wrong rows are
marked.

Bounds: 3 rows, batches of 2 (so a batch leaves a row out and a prefix can be
proper), 1 row per UPDATE (so `MarkSynced` can fail between two), 3 faults (a
lost reply, a restart, a late request; fewer in `sync_broken_connection`).

### 3.3 Confirmations

| Model | Code |
|---|---|
| `request` | the handler `handleConfirm` of each operator's request |
| `row`, `created`, `retry` | `pending_confirmations`, with `created_at` in seconds: rows may tie, and SQL leaves their order open |
| `Refuse`, `CheckHealth`, `SendNow`, `SendNowFails`, `Queue`, `QueueFails` | validation, the health check, the send while the operator waits, `CreateConfirmation` with its eviction in one transaction |
| `FlushBegin` … `FlushEnd` | `performFlush`: the snapshot of at most `Limit` rows, the skip of exhausted ones, the send, `MarkConfirmationSynced` or `IncrementConfirmationRetry` |
| `Accepted`, `Rejected` | the VPS (external): a rejection may be an answer lost after it recorded the confirmation |
| `WriteFails`, `Stop`, `FlusherExits`, `Restart` | a busy database, `ToolsSync.Stop`, the end of the process |

Checks (`confirmations`): `AcceptedIsKept`, what the operator was told is sent or
queued is with the VPS, in the queue or was evicted by the cap;
`DuplicatesAreAccounted`, each delivery beyond the first is paid for by a lost
answer or an outcome that could not be written; `QueuedSettles`, a queued confirmation is
delivered, evicted or runs out of retries, unless the gateway stops or `Limit`
exhausted rows fill every snapshot. `SendsAreBounded` (`MaxRetries` bounds the
sends whose outcome was written) and `EvictionsMakeRoom` are proved and in no run.

Bounds: 3 confirmations over a cap and a snapshot of 2 (an eviction, and a row
outside the snapshot), 1 retry, 2 distinct seconds, 2 faults.

### 3.4 AntennaSession

| Model | Code |
|---|---|
| `loop`, `session`, `attempt`, `backoff` | `runAntennaWithReconnect` and `runAntenna` in `main.go`; `calculateBackoff` with integers of `Width` bits |
| `manager[s]` | the `AntennaManager` of the s-th connection: its context, `Done`, `sessionStopOnce`, and where its sender, reader, watcher, monitor and a caller of `Stop` are |
| `link[s]` | the TCP connection and the antenna: the commands written, whether its RF field is on, whether a stop command was tried and could not be written |
| `CheckStart`, `StartInventory` | `chainwayStartInventory`: the check of the context, and later the write |
| `PollFails`, `PollReturns`, `Receive`, `ReaderReturns`, `ReaderCancels` | the generic poller, whose write may fail, or which sees the context end and returns; data, and a reader whose error cancels the session |
| `WatchdogTick`, `HeartbeatTick`, `GiveUp` | both watchers: the count of silent intervals, the probe, the end of the session |
| `EnterStopSession`, `StopInventory`, `CloseDone` | `stopSession` under its `Once`: the wait for the start attempt, the stop command, then `Done` |
| `MonitorWakes`, `StopCall`, `Shutdown`, `LinkBreaks`, `SilenceGrows` | the monitor, `Stop`, main's cancellation, the network, time |

Checks: `antenna_session` has one session in every interleaving of its five
goroutines, with a concurrent `Stop`: `StartThenStop` (never two starts, two
stops, or a start after a stop), `NoRFLeftOn` (a session that is over has tried to
stop what it started before its connection was given up), `DeadLinkIsGivenUp`
(a connection that stays silent ends the session) and `ShutdownEnds` (after the
cancellation the sender, which with a generic antenna is the poller, the reader,
the watcher and the monitor of every session end, and a caller of `Stop`
returns). `Done` does not wait for the
goroutines of a session, which run on beside the next one: two sessions are too
many states beside these properties, and `OneConnection` and the safety above are
proved for any number of them. The definition `WaitsAtLeastInitial` says that the loop
waits at least the initial backoff; it is false, because the product overflows
(section 6): with `Width` 6 after 8 attempts, with 64 bits after 34.

Bounds: `MaxSilent` 3 intervals as in the code, 1 session, 2 attempts, 1 call of
`Stop`. The proofs hold for every value of these.

### 3.5 DeployTransaction and DurableChange

`DurableChange` is what a deployment may rely on whenever the power goes: the
data directory is open (0775) or private (0700), or a change that was begun is on
its way, to the mode it was begun for. `DeployTransaction` is
`internal/deploy/homebrew/transaction.go` over a file system that keeps in memory
what no `fsync` has reached:

| Model | Code |
|---|---|
| `inode`, `dir`, `disk` | the files `record` and `record.new`: their data, the entries the process sees, and every state of the entries a power loss may leave |
| `mode`, `modes` | the directory's mode, and what it may be after a power loss |
| `Begin`; `NothingToRecover`, `Discard`, `Promote`, `RefuseJournal` | the lock and first sync of `run`; what it does with a `record.new` it finds |
| `AlreadyDone`, `WritePending`, `Resume`, `RefuseDirection` | the decision on the last record |
| `CreateRecord` … `SyncDirectory` | `syncRecord`, call by call |
| `Mutate`, `SyncTarget`, `Verify` | the chmod, its sync, the check and the completion |
| `Fail`, `PowerLoss` | a failure of the call at hand or the end of the process; the loss of some of what was not synced (external) |

Checks (`deploy_transaction`): `JournalExplains`, in whatever state a power loss
leaves the disk, the record is whole and agrees with the mode;
`RefusedWhenForbidden`, a run is refused exactly when the journal it found is
damaged, or holds an unfinished change in the other direction, or a rollback
finds no apply, so that an interrupted change can always be taken up;
`ImplementsDurableChange`, the refinement.
A damaged `record.new` is refused for ever: the code leaves it to an operator.

Bounds: two inodes (`Inodes`), the least that holds `record` beside `record.new`.
The number of runs, failures and power losses has none: 1 448 states. The proofs
hold for any inodes, so also for a file system that uses another one each time.

### 3.6 StreamFrames

| Model | Code |
|---|---|
| `stream`, `read`, `Send`, `Read` | the bytes of one connection, and how many `dataReader` has read in chunks of any length |
| `extractor`, `buffer` | the one `NewFrameExtractor` makes for the antenna's protocol, and the bytes it keeps |
| `GenericExtract`, `GenericGuard` | `StreamExtractor.Append` and `enforceMaxBuffer` of `protocol/packet.go` (the bound before the extraction) |
| `ChainwayExtract`, `ChainwayGuard`, `keepPossibleHeaderStart` | the same of `chainway/frame.go` (the bound after it) |

The loops of the two `Append` are recursive functions on the buffer. `Reading` is
the reference, written without a buffer or a bound: what is left of the input is
read from the left; a complete frame is taken whole (`Complete`), one that more
bytes may complete ends the reading (`Waiting`), any other byte is passed over.

Checks (`stream_frames`): the frames are those of the reading of all bytes read
so far (`FramesDoNotDependOnChunks`), so that the bound of the buffer cuts none
either.
The generic protocol has neither a maximum nor a checksum here: a start byte in
noise takes the bytes its length claims, in the model as in the code, whatever
the chunks.

Bounds: frames of 3 to 5 and of 4 bytes, streams of 8, chunks of up to 4 and a
buffer of 8, the least that holds a chunk beside a rest; two frames, or a false
start and a frame inside the bytes it claims, fit in a stream. The code's constants
leave far more room (4096 + 2047 of 65536 bytes): the assumption `RoomForAChunk`.
The checksum is a sum modulo 3 in place of an exclusive or; it stands for the
trailer as well. The proofs hold for any bytes, layouts, bounds that leave that
room, and streams.

### 3.7 OwnershipTransaction

No production code calls the transaction (nor that of section 3.5; the source
says so above `errOwnershipFixture` and `dataTransaction`), and only tests give it an
adapter. What is modelled is what they would do for a caller. An inspection
observes one object after the other, and the change comes two calls later, so
each observation, change and record is a step, and another program may change an
object between any two.

| Model | Code |
|---|---|
| `object`, `same` | the owner and mode of each object: the state before, the one after, or another; `same` are the objects for which the first two are alike |
| `journal`, `lingering` | the record of the journal file, and a `journal.new` that a failed write left |
| `Begin`, `Refused`, `RecordIntent` | `run` up to its loop: what it reads, what it refuses, the first record |
| `InspectAtBegin`, `ObserveForIntent`, `Inspect`, `Fits` | `inspect` of the journal that was read, the observation of all objects for a new intent, and the inspections before a change, after it and after the loop; each step observes one object, `seen` counts them |
| `Observe`, `Mutate` | the loop: the second look at the object, and the adapter's change, which is refused if the object is no longer in the state before |
| `RecordProgress`, `RecordDone` | the records of the loop and the last one |
| `moved` | history: what another program changed since the run turned to the object at hand, and after the run's last look at it |
| `Record` | `record`: a failure before the rename leaves `journal.new`, one after it has replaced the journal |
| `Interrupt`, `Tamper` | a failed step or the end of the process; another program that changes an object (external) |

Checks (`ownership_transaction`): `JournalExplains`, the journal explains every
object, wherever a run ended, unless somebody else changed one;
`SuccessIsWhole`, a run that reports success has all objects where its direction
wants them, whoever changed what, but for what was changed behind the last look
of its last inspection; `UnexplainedIsLeftAlone`, an object is changed only if
the run looked at all the others since it turned to this one, and each was where
the journal says when it did; `PendingIsTakenUp`, an unfinished run is
not refused when it is begun again, if every object needs the change.

Bounds: 3 objects, as in the program: one recorded, one in flight and one
untouched. The number of runs and failures has no bound. The proofs hold for any
number of objects. 898 040 states.

### 3.8 EventStream and Gateway

`EventStream` is the channel of a browser: the bus lists it, the server lists it,
and both close it.

| Model | Code |
|---|---|
| `subscribers`, `clients`, `queue`, `closed` | the list of `EventBus`, `sseClients` of the server, how many events a channel holds, and which are closed |
| `Subscribe`, `Register`, `Receive`, `SeeClosed`, `ClientLeaves`, `Deregister`, `Unsubscribe` | `SSEHandler` from its subscription to its deferred calls, which run in the reverse order |
| `PublishBegin`, `Send`, `Deliver` | `Publish` under the lock for reading: one send after the other |
| `WebStop`, `WebCloseClient`, `WebShutdown`, `WebStopped` | `Server.Stop` |
| `crashed` | a panic that nobody recovers |

`Gateway` is the process:

| Model | Code |
|---|---|
| `main`, `expired` | the shutdown sequence of `main`, and the end of its ten seconds |
| `engine`, `monitor`, `antenna` | the loops of the sync engine, of the health monitor and of each antenna, by what they do to locks |
| `requester` | a request for the status, of the bridge or of `/health`: `GetStatus`, under its lock `GetStats`, under that `IsConnected` |
| `NoMonitorReader`, `NoMonitorWriter`, `NoEngineReader`, `NoEngineWriter`, `ConnectionIsFree` | who holds a lock or waits for it, which follows from how far each goroutine is; a writer that waits keeps new readers out |

Checks (`gateway`): `GoneLeavesNothing`, a connection that ended is in neither
list, whichever of the two owners closed its channel; `PanicsAreContained`, no
channel is closed twice or sent on when closed where the panic ends the program;
`OnlyTheCloudHoldsAntennas` and `OnlyTheCloudHoldsTheShutdown`, unless the cloud
leaves a request unanswered for ever, an antenna that reports its state gets on
and a signal ends the program, wherever each goroutine is.

Bounds: one antenna, one browser that comes and goes and comes again, a channel
of 1 (an event, a full channel), two status requests at a time (one that holds
the monitor's lock beside one that waits behind a writer). One antenna is enough:
several meet only at the lock, where the ticks of the monitor are a second
writer. 53 586 states.

### 3.9 Updater

| Model | Code |
|---|---|
| `binary`, `backups`, `download` | the files: the version, whether the file is whole, whether it can be executed |
| `running`, `updating` | `currentVersion`, which a process never changes, and the flag of the `Updater` |
| `Check`, `Claim` | `Update`: the load and the compare-and-swap of the flag |
| `GetLatestRelease`, `Download` | the release and its download, which may end early unnoticed |
| `BackupBegin`, `BackupCopy` | `backup` and `copyFile` |
| `RemoveBinary`, `RenameBinary`, `ChmodBinary` | `applyUpdate` |
| `RollbackRemove`, `RollbackCopy`, `RollbackEnd` | `rollback` |
| `Cleanup` | `cleanup` of old backups |
| `Kill`, `Start`, `Reinstall`, `Publish` | the end of the process anywhere, its start, an operator, a new release (external) |

Checks (`updater`): `Recoverable`, there is always a whole binary or a whole backup,
unless a binary that was cut short was itself made a backup; `RolledBackIsRestored`,
an update that says it was rolled back left the binary it found.

Bounds: 2 callers, 5 versions (one without a semantic version) so that there are
more backups than the 2 the cleanup leaves. 1 012 506 states.

### 3.10 Settings

| Model | Code |
|---|---|
| `file`, `saving` | the configuration file, and the call `SaveToYAML` is at |
| `cfg`, `screen`, `pending` | the `App`: its configuration, its current screen, and the messages of commands that have not come back |
| `values`, `rows`, `draft`, `form`, `prompt`, `hasChanges`, `editorChanged` | the settings screen and its antenna editor |
| `Load`, `ApplyDefaults`, `WithProtocols`, `Validate` | `LoadFromYAML` with its refusals, the defaults, those of the antennas too, the validation |
| `FieldValues`, `ProtocolRows`, `GetConfig` | the conversions between the configuration and the texts |
| `EditField`, `CycleRow`, `EditorKey` | the keys of the screen and of the editor, with the copy of protocols both ways |
| `AskSave`, `Leave`, `Answer` | the questions; their answers leave messages |
| `HandleBack`, `HandleDiscard`, `HandleSave`, `DropMessage` | `App.Update`: a message that comes to another screen is dropped |
| `WriteTemp`, `RenameTemp`, `SaveFails`, `Restart` | the save, a failure of any of its calls, the end of the program anywhere |

Checks (`settings`): `UnsavedIsNoticed`, what is on the screen and not in the
configuration is known to be unsaved, whatever came late; `SavedAntennasAreTheDraft`,
a save writes the antennas of the editor, although the protocol rows are taken
last; `FileStaysUsable`, a file the gateway starts with stays one it starts with,
whichever call fails and wherever the program is killed; `NextStartSeesTheSame`,
writing and loading loses nothing but the address of the health endpoint.

Texts are strings, of which the constant `Strings` has those that occur, and
`Numerals` has the number each text of a number stands for: the conversion of a
limit is the code's (`QueueCaps`, `ThresholdText`), that of a numeral is not
spelled out.

Bounds: two antennas, two protocols, one or two texts per field (those that the
conversions treat differently), two messages on their way. The two ids are
symmetric: each file comes with either. The file leaves out what has a default,
the protocol of its antenna among it, and has no token, so that a save in lan mode
is refused; a file that is not read gives way to an environment with a token, from
where lan mode is saved. Nobody types a token. 4 102 221 states. The proofs hold
for any antennas, texts, protocols and files, and any number of messages.

### 3.11 LocalDatabase

| Model | Code |
|---|---|
| `toolsTable`, `tagsTable`, `queueTable`, `flat` | the version of each table the gateway finds: none, that of an older gateway (a flat table of tools with the UII in it; a queue of confirmations without `antenna_id` and `created_at`), the present one |
| `pc` | the statement `NewSQLite` is at |
| `Start`, `CreateTools`, `CreateTags`, `CreateQueue` | `createTables`; the statements of one `Exec` are transactions of their own |
| `AddAntennaID`, `AddCreatedAt`, `FillCreatedAt` | `migratePendingConfirmations` |
| `Normalize`, `Opened` | `migrateNormalizedSchema`, one transaction, and `migrateNullableFields`, which changes nothing of this state |
| `tools`, `tags`, `users`, `refresh`, `fetched` | the tables, and how far `performSync` is with what it got |
| `FetchSyncData`, `FetchUsers`, `UpsertToolsRecords`, `UpsertToolTags`, `UpsertUsers`, `RefreshFails` | `performSync`: two requests, three transactions, and an error of any |
| `Fits`, `Updated` | `ON CONFLICT(uii)`: a row of the same UII is updated and keeps its id; an id that a row of another UII has is an error |
| `CreateConfirmation`, `PerformFlush` | the queue, by which rows have a NULL (what else is done with it is section 3.3) |
| `Selections`, `GetUnsyncedConfirmations`, `Limit` | the flush's query: rows without `created_at` come first, `LIMIT` (100) cuts, and only then a row with a NULL fails its scan and is left out. The order of rows with a date is open, so the query has several possible results |
| `Kill`, `Announce` | the end of the process at any step, or an error that ends `NewSQLite`; what the VPS says (external) |

Checks (`database`): `TagsHaveTools`, no tag is without its tool, whichever
transaction was the last; `KnownStaysKnown`, no migration, no kill in one and no
refresh makes the gateway forget a tag; `CatalogueFollows`, what the VPS keeps
saying of a tag and of a user arrives, unless the id of one of its tags is taken;
`UnreadableHoldUpNone`, a row with a NULL, which the scan drops, never takes the
place under the flush's `LIMIT` of one that can be read. It rests on every NULL
of an upgraded table: rows that waited keep theirs in `antenna_id`, also if the
process ended before the `UPDATE` of `created_at`, and later ones have theirs in
`created_at`, so such a table has no readable row that could be held up. That is
the price of it: none of its confirmations is ever sent. `ListsAllUnsynced`, what
the comment of the query says, is a definition in no run. `CatalogueFollows` too
has an exception the code does not mean to make (section 6).

Bounds: four items, of which two have one id and two one UII (a replaced tag, a
UII that moves) and one has no SKU; one flat tool, one user, two confirmations,
which is one more than the `LIMIT` of 1, and one kill or error, which may fall
between any two statements. 615 960 states. The proofs hold for any number of
each and any `LIMIT`.

## 4. Fairness, and runs that may stop

The runs of a part that stops have `CHECK_DEADLOCK FALSE`: `Close` and `Stop` end
goroutines for good, streams end, and the bounds (`MaxRestarts`, `MaxFaults`,
`MaxSession`, `MaxAttempt`) end what could go on. Waiting for ever is what the
liveness properties are for. `database`, `ownership_transaction`, `settings` and
`updater` do check it: there is always a next refresh, run, key or update.

* Weak fairness is assumed of what a running goroutine does by itself: the
  writer of the cache, the engine, the flusher, the goroutines of a session, the
  phases of a call that has begun. Of the poller that is its return when the
  context has ended, not that it polls. The Go scheduler runs every goroutine that
  can run, tickers fire and deadlines pass.
* Strong fairness is assumed where one case of a Go `select` competes with
  others that keep being ready: `ReceiveFlush` of the writer, `Exit` of the
  engine. `select` chooses at random among the ready cases, so a case that is
  ready infinitely often is taken.
* The external cloud and VPS answer (`WF CloudReplies`, `WF VPSStep`) only where
  a property is about what the gateway does then; the HTTP client has a timeout,
  so `VPSStep` (which includes the failure) is its own. `ProcessSpec` of
  `SyncEngine` leaves the cloud's reply out, and `StopReturns` then fails.
* In `Gateway` weak fairness is that of the shutdown, of its ten seconds, of each
  loop's own steps and of a delivery; strong fairness is that of the two exits
  that compete with a ticker in a `select`, and of a request that waits for a
  lock for reading: when a writer gives a Go `RWMutex` back, the readers that
  wait go first. The cloud has none: `CloudHangs` is the exception in both
  liveness properties.
* In `LocalDatabase` weak fairness is that of `NewSQLite` (the service manager
  starts the gateway again) and of `performSync` (its ticker fires, and the VPS
  answers); faults are bounded, so there is a last one.
* Nothing makes a reading arrive, an antenna answer, a connection break, a
  browser leave, or somebody call `Stop`, `Flush`, `GetStats` or the status.
* `DeployTransaction`, `OwnershipTransaction`, `Updater`, `Settings` and
  `StreamFrames` assume no fairness: they have no liveness property.

## 5. Proofs

The theorems hold for every value of the constants the modules' assumptions
admit (finite sets and natural numbers; no bound of section 3). Each inductive
invariant was checked by TLC on the instance of its run before it was proved, and
is preserved by one lemma per action, or per group of actions that do the same to
it. All but the proofs about `LocalDatabase` and `Gateway` include the type
invariant, which no run checks for that reason.

* `SQLiteProofs`, of `ReadingCache`: `CacheInv` adds to the properties where a reading can be
  (`PlaceInv`: channel, batch and table are disjoint except for rows a partial
  failure left), how many rows a reading of the batch has (`CopiesInv`: at most
  one per failed attempt; without it a batch could be repeated on rows of an
  earlier flush) and what the writer owes the caller it serves (`BarrierInv`).
  `CacheRefinesStore` maps every step to a step or a stutter of `ReadingStore`.
* `SyncEngineProofs`: `SyncInv` says what a reply in flight may claim
  (`DeliveryInv`: some prefix of the batch that the cloud has is as long as the
  claim), that request, batch and reply go in lockstep, and that the rows of the
  batch stay unsynced until the engine marks them. `SyncedRowsWereReceived` and
  `SyncBacklog` assume `InOrder`, which is needed (section 6).
* `ConfirmationsProofs`: `DeliveredInv` and `SentInv` say what the deliveries and
  sends of a confirmation are worth while the flusher may still send it (in the
  table, in the snapshot, in its hand), which `DuplicatesAreAccounted` alone
  does not.
* `AntennaProofs`, of `AntennaSession`: `OnceInv` says who is inside `sessionStopOnce`,
  `CommandInv` what was written before and after, `DoneInv` that `Done` follows
  `stopSession` and the disconnection follows `Done`. They hold of each session,
  so of any number of them, whatever the goroutines of old ones still do.
* `AntennaProofs`, of `StreamFrames`: `FramesInv` adds to
  `FramesDoNotDependOnChunks` that the buffer is what the reading leaves. The
  steps rest on induction over the length of a sequence, which the library's
  induction theorems do not give (they take an operator); `LengthInduction` is
  over sets and follows from `WFMin`, that a well-founded relation has a minimum in
  every set. `FixedPoint` shows from it that a recursive definition defines its
  function, if a step looks only at shorter sequences; so `GenericExtract`,
  `ChainwayExtract` and `Reading` can be unfolded. Then: `DecisionsAreFinal`, more
  bytes do not change whether a place that does not wait has a frame, nor which;
  `ReadingOfConcat`, so bytes that come later are read from the rest;
  `GenericReads` and `ChainwayReads`, each extractor computes the reading of its
  buffer, although both search for a start instead of trying every byte;
  `RestFits`, a rest leaves room for a chunk, so that neither bound ever drops a
  byte (`ChunksHaveRoom`); `ReadingIsWhole`, a frame that is returned has its
  header, its length and, with chainway, its checksum (`FramesAreWhole`).
* `OwnershipTransactionProofs`: the journal explains the objects as long as
  nobody tampers with them. To keep that, a run must know in its loop that it
  works for the record it read and is at most one object behind it (`Loop`), and
  that the object it is about to record is changed (`Ahead`). When somebody
  tampers, what an inspection found stays true of the objects outside `moved`;
  that it has looked at every other object since the run turned to this one, and at
  all of them before success (`Looked`, `Whole`), gives the two other properties.
* `ProcessProofs`, of `Gateway`: `StreamInv` says that a closed channel belongs to a handler
  that has not ended and is no longer among the clients of the server. So the
  server closes no channel twice, and the two panics that are possible are in a
  handler or in `Publish`, which recover them. `ListInv` says that the bus lists
  each handler once and none that has ended: `Unsubscribe` takes the first entry
  off, which would leave another one otherwise.
* `ProcessProofs`, of `Updater`: `FlagOK` says that the flag keeps all callers but one in front
  of the release, `NamesOK` that a name is that of one backup, and `FoundOK` that
  the binary is the one this caller found until it is removed, and that from the
  end of its copy on the newest backup is of that binary, and whole unless
  `poisoned`. So a rollback has one file to go to, and the cleanup, which keeps
  the newest, cannot remove it.
* `SQLiteProofs`, of `LocalDatabase`: `ToolsFirst` adds to `TagsHaveTools` that before the
  second transaction the tools of all fetched items are there, `QueueOK` which
  version the queue's table can have at each statement of `NewSQLite`. That a
  known tag stays known follows, since then every row of a tag counts as known. For `UnreadableHoldUpNone`
  `QueueOK` also says which rows have a NULL by then: all that wait, from the
  first column added to the last statement.
* `DeployTransactionProofs`: `JournalExplains` is about all the directories a
  power loss may leave, and is not inductive: a rename may add a directory, so
  `DiskInv` says which there can be (the record, or the record and the next entry;
  a `record.new` that repeats the record or is the next entry), `Place` what the
  run has synced at each of its calls (the data of `record.new` before the
  rename, everything before the mode is touched), `Purpose` which entry it is
  writing (a completion only when every mode that may survive is the new one),
  and `Blocked` what its recovery knows by then of the journal it began with,
  part of which it has promoted or discarded. `TransactionImplementsDurableChange`
  maps the phase of `DurableChange` to the earlier of the phases on disk: the
  rename of a record changes nothing yet, the sync of the directory, or a power
  loss that settles which record survives, is the step to the next phase.
* `SettingsProofs`: `UnsavedIsNoticed` needs that a change in the editor implies
  one on the screen, since the screen takes only the first change of the editor
  for one (`ChangeInv`). That a save writes the editor's antennas, although
  `GetConfig` overwrites their protocols by the rows, needs that each row agrees
  with its antenna (`RowsInv`); that holds only of an antenna that is alone with
  its id, because a file may have an id twice until `Validate` refuses it, and
  a save is behind `Validate` (`SaveInv`: what a save writes was valid and no key
  changes it on the way). `DiskInv` is `NextStartSeesTheSame` also while a save
  runs; it rests on `Load` being the identity, but for the health address, on
  what passes `Validate`.

Only model-checked: all liveness (`AcceptedIsSettled`, `CallsReturn`,
`StopReturns`, `EveryRowReachesCloud`, `QueuedSettles`, `DeadLinkIsGivenUp`,
`ShutdownEnds`, `CatalogueFollows`, `OnlyTheCloudHoldsAntennas`, `OnlyTheCloudHoldsTheShutdown`; the
prover has neither fairness nor ENABLED), and the run that shows a violation.

## 6. Where the code and its documentation disagree

`PROJECT.json` ("findings") quotes the lines.

Shown by a run: a broken WebSocket is never replaced (`sync_broken_connection`).

Where a property of a passing run holds only with an exception the documentation
does not make: a batch whose last attempt failed is dropped although a comment
says it is retried (`NothingUnaccounted`); exhausted confirmations at the head of
the queue starve the others (`QueuedSettles`); an action in capitals passes
validation and is refused by the table (`AcceptedIsKept`); `Stop` of the engine
waits for the cloud (`StopReturns`); a partial reply marks the wrong rows when
the cloud skips one (`SyncedWereReceived`); a status request during a sync the
cloud does not answer holds up every antenna (`OnlyTheCloudHoldsAntennas`), and
such a cloud keeps a signal from ending the program, whatever the ten seconds
(`OnlyTheCloudHoldsTheShutdown`); an object whose owner and mode need no change
makes a resumed run refuse (`PendingIsTakenUp`); an object changed after the
last look at it is not noticed before success is reported (`SuccessIsWhole`); a tag of
the VPS whose id is held by another UII ends every refresh before the users
(`CatalogueFollows`).

Definitions that the model violates, kept beside the properties and in no run:
`NoStorePanics` (`Store` may panic when it races `Close`), `WaitsAtLeastInitial` (the
backoff overflows to no wait at all), `HealthAddressIsKept` (a save from the
settings screen loses `health_listen_addr`), `BackupIsOfItsVersion` (a second
update of one process backs up the new binary under the old version),
`ListsAllUnsynced` (a confirmation queued by an upgraded gateway is never listed
and never sent).

Read while modelling: `attempt` is never reset after a successful connection; the
provider keeps the managers of dead connections; `Server.Stop` misses a handler
that has not registered yet; the bus drops the newest event and a test is named
for the oldest; a failed save leaves its temporary file; the text `never` is
accepted as a limit and then ignored.

## 7. Not modelled

* The formats (JSON of the WebSocket, HTTP bodies, SQL text, the contents of frames) are
  abstracted to what they decide; logging, metrics and their Prometheus names
  are left out.
* `internal/services/sync_service.go` is not used by the program. Terminal rendering and the
  web page's assets have no state that others depend on.
* Real time: a timeout is a step that may happen whenever the code waits with
  one. That a timeout is long enough is not checked.
* The protocol handlers, the verification rules, the inspection and the plans of
  the deployment, the service evidence, metrics and version: functions without a
  state, or counters nothing reads back.
* The migrations of the configuration file, and the search of its path.
* The order in which confirmations reach the VPS: one sent online may overtake an
  older one of the same tag that is queued, and nothing in the code says that it
  may not.
* What the model of one component leaves to another: `Gateway` has one sync in
  flight without its rows, `AntennaSession` has readings without the cache.
