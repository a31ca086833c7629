----------------------------- MODULE LocalDatabase -----------------------------
(***************************************************************************)
(* The file of the database: how NewSQLite brings one of an older version  *)
(* up to date (internal/cache/sqlite.go), and the copy of the VPS's tools, *)
(* tags and users that ToolsSync keeps in it (internal/sync/toolssync.go,  *)
(* internal/localstore/store.go).  Every statement outside a transaction,  *)
(* and every transaction, is one step; the process may end between two.    *)
(*                                                                         *)
(* An older file has a flat table of tools, or a queue of confirmations    *)
(* without the columns antenna_id and created_at, or both.  How the queue  *)
(* is worked off is the module Confirmations; here it matters which rows   *)
(* the flush is given, so the order of rows with a date is left open.  Not *)
(* in the state: the other columns and the change of empty texts to NULL,  *)
(* the indexes, the readings, and a flat tool without a UII, which has no  *)
(* tag.                                                                    *)
(*                                                                         *)
(* Definitions named <operation>_<fault> are not part of the               *)
(* specification: each is the operation with a fault some property catches.*)
(***************************************************************************)
EXTENDS Integers, FiniteSets

CONSTANTS
    Items,         \* what the VPS may say of a tag: its id, tool and UII
    NoSKU,         \* the items without a SKU, which performSync leaves out
    FlatTools,     \* what a flat table may hold: an id and a UII
    Users,         \* the ids of users
    Confirmations, \* the ids of confirmations
    Limit,         \* the rows the flush asks for (100)
    MaxFaults      \* bound of the model on ends of the process and errors

ASSUME DatabaseAssumption ==
    /\ Items \subseteq [id : Nat, tool : Nat, uii : STRING]
    /\ NoSKU \subseteq Items
    /\ FlatTools \subseteq [id : Nat, uii : STRING]
    /\ \A i, j \in FlatTools : i.id = j.id \/ i.uii = j.uii => i = j
    /\ Limit \in Nat \ {0}
    /\ MaxFaults \in Nat

VARIABLES
    toolsTable,   \* the table tools: "none", "flat" or "normalized"
    tagsTable,    \* there is a table tool_tags
    queueTable,   \* pending_confirmations: its version
    flat,         \* the rows of a flat table tools
    tools,        \* the ids in a normalized table tools
    tags,         \* the rows of tool_tags
    users,        \* the ids in the table users
    row,          \* of each confirmation: "absent", "queued" or "synced"
    noAntenna,    \* the confirmations whose antenna_id is NULL
    noDate,       \* those whose created_at is NULL
    pc,           \* how far NewSQLite is, or "running", or "off"
    refresh,      \* how far performSync is
    fetched,      \* the items it got
    fetchedUsers, \* the users it got
    vpsItems,     \* what the VPS has
    vpsUsers,
    faults

schema    == <<toolsTable, tagsTable, queueTable>>
catalogue == <<flat, tools, tags, users>>
queue     == <<row, noAntenna, noDate>>
syncing   == <<refresh, fetched, fetchedUsers>>
vps       == <<vpsItems, vpsUsers>>
databaseVars == <<schema, catalogue, queue, pc, syncing, vps, faults>>

UIIs(rows) == {r.uii : r \in rows}

\* The VPS has one item of an id, and one of a UII.
Consistent(items) == \A i, j \in items : i.id = j.id \/ i.uii = j.uii => i = j

\* The file of a gateway that never ran, or of an older version.
DatabaseInit ==
    /\ \/ toolsTable = "none" /\ flat = {}
       \/ toolsTable = "flat" /\ flat \in SUBSET FlatTools
    /\ tagsTable = FALSE
    /\ \/ queueTable = "none" /\ noDate = {}
       \/ queueTable = "old" /\ noDate \in SUBSET Confirmations
    /\ noAntenna = noDate
    /\ row = [c \in Confirmations |-> IF c \in noDate THEN "queued" ELSE "absent"]
    /\ tools = {} /\ tags = {} /\ users = {}
    /\ pc = "off"
    /\ refresh = "idle" /\ fetched = {} /\ fetchedUsers = {}
    /\ vpsItems = {} /\ vpsUsers = {}
    /\ faults = 0

-----------------------------------------------------------------------------
(* NewSQLite.                                                              *)

Opens(from, to) == pc = from /\ pc' = to /\ UNCHANGED <<users, row, syncing, vps, faults>>

\* createTables looks for the table tools first.
Start ==
    /\ Opens("off", IF toolsTable = "none" THEN "tools" ELSE "queue")
    /\ UNCHANGED <<schema, flat, tools, tags, noAntenna, noDate>>

CreateTools ==
    /\ Opens("tools", "tags")
    /\ toolsTable' = "normalized"
    /\ UNCHANGED <<tagsTable, queueTable, flat, tools, tags, noAntenna, noDate>>

CreateTags ==
    /\ Opens("tags", "queue")
    /\ tagsTable' = TRUE
    /\ UNCHANGED <<toolsTable, queueTable, flat, tools, tags, noAntenna, noDate>>

CreateQueue ==
    /\ Opens("queue", "antenna_id")
    /\ queueTable' = IF queueTable = "none" THEN "current" ELSE queueTable
    /\ UNCHANGED <<toolsTable, tagsTable, flat, tools, tags, noAntenna, noDate>>

\* Fault: the column is added with an empty text as its default, and the rows
\* that wait can be read; those that come later have no date.
AddAntennaID_Default ==
    /\ Opens("antenna_id", "created_at")
    /\ queueTable' = IF queueTable = "old" THEN "antenna_id" ELSE queueTable
    /\ noAntenna' = IF queueTable = "old" THEN {} ELSE noAntenna
    /\ UNCHANGED <<toolsTable, tagsTable, flat, tools, tags, noDate>>

\* migratePendingConfirmations: a column that is added is NULL in every row.
AddAntennaID ==
    /\ Opens("antenna_id", "created_at")
    /\ queueTable' = IF queueTable = "old" THEN "antenna_id" ELSE queueTable
    /\ UNCHANGED <<toolsTable, tagsTable, flat, tools, tags, noAntenna, noDate>>

\* Added, the column has no default, whatever a new table would have.
AddCreatedAt ==
    /\ Opens("created_at", IF queueTable = "antenna_id" THEN "dates" ELSE "normalize")
    /\ queueTable' = IF queueTable = "antenna_id" THEN "altered" ELSE queueTable
    /\ UNCHANGED <<toolsTable, tagsTable, flat, tools, tags, noAntenna, noDate>>

\* Only the run that added the column does this.
FillCreatedAt ==
    /\ Opens("dates", "normalize")
    /\ noDate' = {}
    /\ UNCHANGED <<schema, flat, tools, tags, noAntenna>>

\* A flat tool becomes a tool and a tag, both of its id.
Migrated(rows) == {[id |-> r.id, tool |-> r.id, uii |-> r.uii] : r \in rows}

\* Fault: the statements are no transaction, and the process may end after the
\* table of the tags has been created.
Normalize_NoTransaction ==
    /\ \/ Opens("normalize", "empty texts")
       \/ Opens("normalize", "off")
    /\ toolsTable' = "normalized"
    /\ tagsTable' = TRUE
    /\ flat' = {}
    /\ tools' = tools \cup {r.id : r \in flat}
    /\ tags' = IF pc' = "off" THEN tags ELSE tags \cup Migrated(flat)
    /\ UNCHANGED <<queueTable, noAntenna, noDate>>

\* migrateNormalizedSchema: one transaction, if there is no table of the tags.
Normalize ==
    /\ Opens("normalize", "empty texts")
    /\ tagsTable' = TRUE
    /\ toolsTable' = "normalized"
    /\ flat' = {}
    /\ tools' = tools \cup {r.id : r \in flat}
    /\ tags' = tags \cup Migrated(flat)
    /\ UNCHANGED <<queueTable, noAntenna, noDate>>

\* migrateNullableFields changes nothing of the state.
Opened ==
    /\ Opens("empty texts", "running")
    /\ UNCHANGED <<schema, flat, tools, tags, noAntenna, noDate>>

NewSQLite ==
    \/ Start \/ CreateTools \/ CreateTags \/ CreateQueue
    \/ AddAntennaID \/ AddCreatedAt \/ FillCreatedAt
    \/ Normalize \/ Opened

Fault == faults < MaxFaults /\ faults' = faults + 1

\* The process ends, or a statement of NewSQLite fails, which ends it.
Kill ==
    /\ pc # "off"
    /\ Fault
    /\ pc' = "off"
    /\ refresh' = "idle"
    /\ fetched' = {}
    /\ fetchedUsers' = {}
    /\ UNCHANGED <<schema, catalogue, queue, vps>>

-----------------------------------------------------------------------------
(* The queue of confirmations.                                             *)

\* The insert does not name created_at: it is the default of the table.
CreateConfirmation(c) ==
    /\ pc = "running"
    /\ row[c] = "absent"
    /\ row' = [row EXCEPT ![c] = "queued"]
    /\ noDate' = IF queueTable = "current" THEN noDate ELSE noDate \cup {c}
    /\ UNCHANGED <<schema, catalogue, noAntenna, pc, syncing, vps, faults>>

Queued     == {c \in Confirmations : row[c] = "queued"}
Unreadable == noAntenna \cup noDate

Smaller(m, n) == IF m < n THEN m ELSE n

\* What the query may select: ORDER BY created_at puts the rows without one
\* first, and LIMIT cuts before the rows are scanned.
Selections ==
    {rows \in SUBSET Queued :
        /\ Cardinality(rows) = Smaller(Limit, Cardinality(Queued))
        /\ rows \subseteq noDate \/ Queued \cap noDate \subseteq rows}

\* What it may return: a row with a NULL cannot be scanned, and is left out.
GetUnsyncedConfirmations == {rows \ Unreadable : rows \in Selections}

PerformFlush(c) ==
    /\ pc = "running"
    /\ \E listed \in GetUnsyncedConfirmations : c \in listed
    /\ row' = [row EXCEPT ![c] = "synced"]
    /\ UNCHANGED <<schema, catalogue, noAntenna, noDate, pc, syncing, vps, faults>>

-----------------------------------------------------------------------------
(* performSync.                                                            *)

Announce ==
    /\ vpsItems' \in {items \in SUBSET Items : Consistent(items)}
    /\ vpsUsers' \in SUBSET Users
    /\ UNCHANGED <<schema, catalogue, queue, pc, syncing, faults>>

Syncs(from, to) ==
    /\ pc = "running"
    /\ refresh = from
    /\ refresh' = to
    /\ fetched' = IF to = "idle" THEN {} ELSE fetched
    /\ fetchedUsers' = IF to = "idle" THEN {} ELSE fetchedUsers
    /\ UNCHANGED <<schema, flat, queue, pc, vps>>

FetchSyncData ==
    /\ pc = "running"
    /\ refresh = "idle"
    /\ refresh' = "fetch users"
    /\ fetched' = vpsItems \ NoSKU
    /\ UNCHANGED <<schema, catalogue, queue, pc, fetchedUsers, vps, faults>>

FetchUsers ==
    /\ pc = "running"
    /\ refresh = "fetch users"
    /\ refresh' = "tools"
    /\ fetchedUsers' = vpsUsers
    /\ UNCHANGED <<schema, catalogue, queue, pc, fetched, vps, faults>>

\* Fault: an error of the first transaction is not the end of performSync.
UpsertToolsRecords_GoesOn ==
    /\ Syncs("tools", "tags")
    /\ \/ tools' = tools \cup {i.tool : i \in fetched} /\ UNCHANGED faults
       \/ Fault /\ UNCHANGED tools
    /\ UNCHANGED <<tags, users>>

UpsertToolsRecords ==
    /\ Syncs("tools", "tags")
    /\ tools' = tools \cup {i.tool : i \in fetched}
    /\ UNCHANGED <<tags, users, faults>>

\* Fault: the conflict that updates is that of the id.
Fits_ByID(i) == (\E r \in tags : r.id = i.id) \/ i.uii \notin UIIs(tags)

\* A row of the same UII is updated and keeps its id; a row of another UII that
\* has the id is an error.
Fits(i) == i.uii \in UIIs(tags) \/ \A r \in tags : r.id # i.id

Updated(r) == [r EXCEPT !.tool = (CHOOSE i \in fetched : i.uii = r.uii).tool]

Upserted ==
    LET known == {r \in tags : r.uii \in UIIs(fetched)}
    IN  (tags \ known) \cup {Updated(r) : r \in known}
            \cup {i \in fetched : i.uii \notin UIIs(tags)}

UpsertToolTags ==
    /\ \/ /\ \A i \in fetched : Fits(i)
          /\ Syncs("tags", "users")
          /\ tags' = Upserted
       \/ /\ \E i \in fetched : ~Fits(i)
          /\ Syncs("tags", "idle")
          /\ UNCHANGED tags
    /\ UNCHANGED <<tools, users, faults>>

UpsertUsers ==
    /\ Syncs("users", "idle")
    /\ users' = users \cup fetchedUsers
    /\ UNCHANGED <<tools, tags, faults>>

\* A request or a transaction fails: the rest of this refresh is left out.
RefreshFails ==
    /\ refresh # "idle"
    /\ Syncs(refresh, "idle")
    /\ Fault
    /\ UNCHANGED <<tools, tags, users>>

PerformSync ==
    FetchSyncData \/ FetchUsers \/ UpsertToolsRecords \/ UpsertToolTags \/ UpsertUsers

-----------------------------------------------------------------------------
DatabaseNext ==
    \/ NewSQLite
    \/ Kill
    \/ \E c \in Confirmations : CreateConfirmation(c) \/ PerformFlush(c)
    \/ Announce
    \/ PerformSync
    \/ RefreshFails

DatabaseSpec == DatabaseInit /\ [][DatabaseNext]_databaseVars

\* The gateway is started again, its ticker goes on, and the VPS answers it.
FairDatabaseSpec == DatabaseSpec /\ WF_databaseVars(NewSQLite) /\ WF_databaseVars(PerformSync)

-----------------------------------------------------------------------------
\* The tag joined with its tool.
GetToolByUII(uii) == \E r \in tags : r.uii = uii /\ r.tool \in tools

(* A tag is never without its tool: three transactions refresh the tables   *)
(* and any of them may be the last before the process ends, and a flat      *)
(* table is taken apart (performSync, migrateNormalizedSchema).             *)
TagsHaveTools == \A r \in tags : GetToolByUII(r.uii)

Known == UIIs(flat) \cup {uii \in UIIs(tags) : GetToolByUII(uii)}

(* What the gateway knows it keeps knowing: no end of the process while an  *)
(* older file is brought up to date, and no refresh, makes it forget a tag  *)
(* (migrateNormalizedSchema, the upserts).                                  *)
KnownStaysKnown == [][Known \subseteq Known']_databaseVars

\* A row of another UII has the id of an item: no refresh gets past it.
IDIsTaken ==
    \E i \in vpsItems \ NoSKU, r \in tags :
        r.id = i.id /\ r.uii # i.uii /\ i.uii \notin UIIs(tags)

(* What the VPS keeps saying of a tag, and of a user, the gateway comes to  *)
(* know, unless the id of a tag of the VPS is taken (performSync).          *)
CatalogueFollows ==
    /\ \A i \in Items \ NoSKU :
          []<>(i \in vpsItems =>
                  IDIsTaken \/ \E r \in tags : r.uii = i.uii /\ r.tool = i.tool)
    /\ \A u \in Users : []<>(u \in vpsUsers => IDIsTaken \/ u \in users)

(* The comment of GetUnsyncedConfirmations: it retrieves all of them, those *)
(* its LIMIT leaves out aside.                                              *)
ListsAllUnsynced ==
    pc = "running" => \A listed \in GetUnsyncedConfirmations :
        Cardinality(listed) = Smaller(Limit, Cardinality(Queued))

(* It does not, but a row that cannot be read never takes the place of one  *)
(* that can: the LIMIT counts rows before they are scanned, and those       *)
(* without a date come first, but a table has only rows that can be read or *)
(* only such that cannot, whatever version it was of and wherever NewSQLite *)
(* was ended.                                                               *)
UnreadableHoldUpNone ==
    pc = "running" => \A listed \in GetUnsyncedConfirmations :
        Cardinality(listed) = Smaller(Limit, Cardinality(Queued \ Unreadable))
=============================================================================
