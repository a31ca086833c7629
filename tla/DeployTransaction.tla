-------------------------- MODULE DeployTransaction --------------------------
(***************************************************************************)
(* The journalled change of a directory's mode                             *)
(* (internal/deploy/homebrew/transaction.go): apply makes it 0700 and an   *)
(* explicitly selected rollback 0775 again.  Any call may fail and the     *)
(* process may end after any call; the power may go at any time, also      *)
(* between two runs.                                                       *)
(*                                                                         *)
(* The file system keeps in memory what no fsync has reached.  `dir` is    *)
(* the journal directory as the process sees it, `disk` the directories a  *)
(* power loss may leave: a rename that was not synced may have happened,   *)
(* not happened, or left both names.  An entry is an inode, whose data     *)
(* survive only once they are synced.  A successful fsync is taken at its  *)
(* word.                                                                   *)
(*                                                                         *)
(* Not in the state: identity, owner and version, which a record repeats   *)
(* from the plan; the checks of paths, owners and file types; the lock,    *)
(* which makes a second run beside the first return at once.               *)
(*                                                                         *)
(* Definitions named <operation>_<fault> are not part of the               *)
(* specification: each is the operation with a fault some property catches.*)
(***************************************************************************)
EXTENDS Integers, FiniteSets

CONSTANT Inodes   \* the files of the file system

ASSUME InodesAssumption == 0 \notin Inodes

VARIABLES
    inode,      \* the files the journal directory has entries for
    dir,        \* its entries `record` and `record.new`; 0 is no file
    disk,       \* what they may be after a power loss
    mode,       \* the mode of the data directory
    modes,      \* what it may be after a power loss
    pc,         \* the next call of the run
    direction,  \* the direction the caller selected
    then,       \* where the run goes once the journal directory is synced
    outcome,    \* of the run, or of the last one
    blocked     \* history: the run began with a journal that forbids it

journal == <<inode, dir, disk>>
target  == <<mode, modes>>
vars    == <<journal, target, pc, direction, then, outcome, blocked>>

Directions == {"apply", "rollback"}
Phases     == {"pending", "done"}
Modes      == {"0775", "0700"}

Files   == [direction : Directions, phase : Phases, data : {"torn", "cached", "durable"}]
Entries == [record : {0} \cup Inodes, new : {0} \cup Inodes]
Calls   == {"idle", "recover", "decide", "create", "write", "filesync", "rename",
            "dirsync", "mutate", "targetsync", "verify"}

Pre(d)   == IF d = "apply" THEN "0775" ELSE "0700"
Post(d)  == IF d = "apply" THEN "0700" ELSE "0775"
Other(d) == IF d = "apply" THEN "rollback" ELSE "apply"

Torn(i)     == i # 0 /\ inode[i].data = "torn"
Is(i, d, p) == i # 0 /\ inode[i].direction = d /\ inode[i].phase = p
SameBytes(i, j) == Is(i, inode[j].direction, inode[j].phase)

Init ==
    /\ inode = [i \in Inodes |-> [direction |-> "apply", phase |-> "pending", data |-> "torn"]]
    /\ dir = [record |-> 0, new |-> 0]
    /\ disk = {dir}
    /\ mode = "0775"
    /\ modes = {mode}
    /\ pc = "idle"
    /\ direction = "apply"
    /\ then = "decide"
    /\ outcome = "none"
    /\ blocked = FALSE

Goto(call) == pc' = call /\ UNCHANGED <<direction, outcome, blocked>>

End(result) == pc' = "idle" /\ outcome' = result /\ UNCHANGED <<direction, then, blocked>>

-----------------------------------------------------------------------------
(* The recovery at the start of run. *)

\* The latest record was written for d, and what it says is not finished.
Unfinished(d) ==
    IF dir.new # 0 /\ (dir.record = 0 \/ ~SameBytes(dir.new, dir.record))
    THEN inode[dir.new].direction = d
    ELSE Is(dir.record, d, "pending")

\* What the doc of the transaction says must be refused: a damaged journal, the
\* other direction unfinished, a rollback without an apply.
Forbidden(d) ==
    \/ Torn(dir.record)
    \/ Torn(dir.new)
    \/ Unfinished(Other(d))
    \/ d = "rollback" /\ dir.record = 0

\* run takes the lock and syncs the journal directory before it reads it.
Begin(d) ==
    /\ pc = "idle"
    /\ disk' = {dir}
    /\ pc' = "recover"
    /\ direction' = d
    /\ outcome' = "running"
    /\ blocked' = Forbidden(d)
    /\ UNCHANGED <<inode, dir, target, then>>

Readable == ~Torn(dir.record) /\ ~Torn(dir.new)

\* record.new repeats the record, or is a second pending apply after the first
\* one was done.
Disposable ==
    /\ dir.record # 0
    /\ \/ SameBytes(dir.new, dir.record)
       \/ /\ Is(dir.record, "apply", "done")
          /\ Is(dir.new, "apply", "pending")
          /\ direction = "apply"
          /\ mode = "0700"

\* Fault: a completion whose rename failed is not recognised.
Promotable_NoCompletion ==
    \/ /\ dir.record = 0
       /\ Is(dir.new, "apply", "pending")
       /\ mode = "0775"
    \/ /\ Is(dir.record, Other(direction), "done")
       /\ Is(dir.new, direction, "pending")
       /\ mode = Pre(direction)

\* record.new is the next entry of the journal: the first pending apply (its
\* direction is not asked for), a completion, or the start of the other
\* direction.
Promotable ==
    \/ /\ dir.record = 0
       /\ Is(dir.new, "apply", "pending")
       /\ mode = "0775"
    \/ /\ Is(dir.record, direction, "pending")
       /\ Is(dir.new, direction, "done")
       /\ mode = Post(direction)
    \/ /\ Is(dir.record, Other(direction), "done")
       /\ Is(dir.new, direction, "pending")
       /\ mode = Pre(direction)

NothingToRecover ==
    /\ pc = "recover"
    /\ dir.new = 0
    /\ Readable
    /\ Goto("decide")
    /\ UNCHANGED <<journal, target, then>>

Discard ==
    /\ pc = "recover"
    /\ dir.new # 0
    /\ Readable
    /\ Disposable
    /\ dir' = [dir EXCEPT !.new = 0]
    /\ disk' = disk \cup {dir'}
    /\ then' = "decide"
    /\ Goto("dirsync")
    /\ UNCHANGED <<inode, target>>

\* syncTemp is the same call as the sync of a new record.
Promote ==
    /\ pc = "recover"
    /\ dir.new # 0
    /\ Readable
    /\ Promotable
    /\ then' = "decide"
    /\ Goto("filesync")
    /\ UNCHANGED <<journal, target>>

RefuseJournal ==
    /\ pc = "recover"
    /\ \/ ~Readable
       \/ dir.new # 0 /\ ~Disposable /\ ~Promotable
    /\ End("refused")
    /\ UNCHANGED <<journal, target>>

-----------------------------------------------------------------------------
(* What the record makes of the selected direction. *)

Fresh == \/ dir.record = 0 /\ direction = "apply"
         \/ Is(dir.record, Other(direction), "done")

AlreadyDone ==
    /\ pc = "decide"
    /\ Is(dir.record, direction, "done")
    /\ mode = Post(direction)
    /\ End("ok")
    /\ UNCHANGED <<journal, target>>

WritePending ==
    /\ pc = "decide"
    /\ Fresh
    /\ mode = Pre(direction)
    /\ then' = "mutate"
    /\ Goto("create")
    /\ UNCHANGED <<journal, target>>

Resume ==
    /\ pc = "decide"
    /\ Is(dir.record, direction, "pending")
    /\ Goto(IF mode = Pre(direction) THEN "mutate" ELSE "verify")
    /\ UNCHANGED <<journal, target, then>>

RefuseDirection ==
    /\ pc = "decide"
    /\ ~(Fresh /\ mode = Pre(direction))
    /\ ~(Is(dir.record, direction, "done") /\ mode = Post(direction))
    /\ ~Is(dir.record, direction, "pending")
    /\ End("refused")
    /\ UNCHANGED <<journal, target>>

-----------------------------------------------------------------------------
(* syncRecord: create, write, sync the file, rename, sync the directory. *)

\* The pending record comes before the mutation, the other one ends the run.
CreateRecord ==
    /\ pc = "create"
    /\ dir.new = 0
    /\ \E i \in Inodes \ {dir.record} :
         /\ inode' = [inode EXCEPT ![i] =
              [direction |-> direction,
               phase |-> IF then = "mutate" THEN "pending" ELSE "done",
               data |-> "torn"]]
         /\ dir' = [dir EXCEPT !.new = i]
    /\ disk' = disk \cup {dir'}
    /\ Goto("write")
    /\ UNCHANGED <<target, then>>

\* Fault: the file is renamed before it is synced.
WriteRecord_NoSync ==
    /\ pc = "write"
    /\ inode' = [inode EXCEPT ![dir.new].data = "cached"]
    /\ Goto("rename")
    /\ UNCHANGED <<dir, disk, target, then>>

WriteRecord ==
    /\ pc = "write"
    /\ inode' = [inode EXCEPT ![dir.new].data = "cached"]
    /\ Goto("filesync")
    /\ UNCHANGED <<dir, disk, target, then>>

SyncFile ==
    /\ pc = "filesync"
    /\ inode' = [inode EXCEPT ![dir.new].data = "durable"]
    /\ Goto("rename")
    /\ UNCHANGED <<dir, disk, target, then>>

Rename ==
    /\ pc = "rename"
    /\ dir' = [record |-> dir.new, new |-> 0]
    /\ disk' = disk \cup {dir', [dir EXCEPT !.record = dir.new]}
    /\ Goto("dirsync")
    /\ UNCHANGED <<inode, target, then>>

SyncDirectory ==
    /\ pc = "dirsync"
    /\ disk' = {dir}
    /\ IF then = "return" THEN End("ok") ELSE Goto(then) /\ UNCHANGED then
    /\ UNCHANGED <<inode, dir, target>>

-----------------------------------------------------------------------------
(* The mutation. *)

Mutate ==
    /\ pc = "mutate"
    /\ mode = Pre(direction)
    /\ mode' = Post(direction)
    /\ modes' = modes \cup {mode'}
    /\ Goto("targetsync")
    /\ UNCHANGED <<journal, then>>

SyncTarget ==
    /\ pc = "targetsync"
    /\ modes' = {mode}
    /\ Goto("verify")
    /\ UNCHANGED <<journal, mode, then>>

\* Fault: a mutation found done is not synced again.
Verify_NoSync ==
    /\ pc = "verify"
    /\ mode = Post(direction)
    /\ then' = "return"
    /\ Goto("create")
    /\ UNCHANGED <<journal, target>>

\* The target is synced again: the run may have found it mutated by one that
\* did not come to its sync.
Verify ==
    /\ pc = "verify"
    /\ mode = Post(direction)
    /\ modes' = {mode}
    /\ then' = "return"
    /\ Goto("create")
    /\ UNCHANGED <<journal, mode>>

-----------------------------------------------------------------------------
(* Failures. *)

\* A call fails, a hook does, or the process ends: what it did stays in memory.
Fail ==
    /\ pc # "idle"
    /\ End("failed")
    /\ UNCHANGED <<journal, target>>

\* What was not synced survives or does not.
PowerLoss ==
    /\ dir' \in disk
    /\ disk' = {dir'}
    /\ mode' \in modes
    /\ modes' = {mode'}
    /\ \E torn \in SUBSET Inodes :
         inode' = [i \in Inodes |->
             IF inode[i].data # "cached" THEN inode[i]
             ELSE [inode[i] EXCEPT !.data = IF i \in torn THEN "torn" ELSE "durable"]]
    /\ pc' = "idle"
    /\ outcome' = IF pc = "idle" THEN outcome ELSE "failed"
    /\ UNCHANGED <<direction, then, blocked>>

Next ==
    \/ \E d \in Directions : Begin(d)
    \/ NothingToRecover
    \/ Discard
    \/ Promote
    \/ RefuseJournal
    \/ AlreadyDone
    \/ WritePending
    \/ Resume
    \/ RefuseDirection
    \/ CreateRecord
    \/ WriteRecord
    \/ SyncFile
    \/ Rename
    \/ SyncDirectory
    \/ Mutate
    \/ SyncTarget
    \/ Verify
    \/ Fail
    \/ PowerLoss

Spec == Init /\ [][Next]_vars

-----------------------------------------------------------------------------
(* Properties. *)

\* Types; memory and disk agree on what was synced: what the process sees is
\* always one of the states a power loss may leave.
TypeOK ==
    /\ inode \in [Inodes -> Files]
    /\ dir \in disk
    /\ disk \subseteq Entries
    /\ mode \in modes
    /\ modes \subseteq Modes
    /\ pc \in Calls
    /\ direction \in Directions
    /\ then \in {"decide", "mutate", "return"}
    /\ outcome \in {"none", "running", "ok", "refused", "failed"}
    /\ blocked \in BOOLEAN

\* Wherever the power goes, the record can be read, and it says which mode the
\* directory has, or that a change is on its way.
JournalExplains ==
    \A d \in disk, m \in modes :
        /\ d.record # 0 => inode[d.record].data = "durable"
        /\ d.record = 0 => m = "0775"
        /\ \A x \in Directions : Is(d.record, x, "done") => m = Post(x)

\* An interrupted change can always be taken up, in its own direction, and no
\* other run succeeds or is let through until then: a run is refused exactly
\* when the journal it began with forbids it.
RefusedWhenForbidden ==
    /\ outcome = "refused" => blocked
    /\ outcome = "ok" => ~blocked
    /\ pc \in {"create", "mutate"} => ~blocked

\* The phase of the change that a record stands for.
PhaseOf(i) ==
    IF i = 0 THEN "open"
    ELSE CASE Is(i, "apply", "pending")    -> "applying"
           [] Is(i, "apply", "done")       -> "private"
           [] Is(i, "rollback", "pending") -> "rolling back"
           [] OTHER                        -> "open"

PhasesOnDisk == {PhaseOf(d.record) : d \in disk}

\* The one before, as long as a power loss may bring it back.
EarlierPhase ==
    IF PhasesOnDisk = {PhaseOf(dir.record)}
    THEN PhaseOf(dir.record)
    ELSE CHOOSE p \in PhasesOnDisk : p # PhaseOf(dir.record)

Abstract == INSTANCE DurableChange WITH phase <- EarlierPhase, modes <- modes

\* Whatever fails, the directory goes from open to private and back through
\* changes that are announced first and finished before they are called done.
ImplementsDurableChange == Abstract!Spec

=============================================================================
