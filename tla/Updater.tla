-------------------------------- MODULE Updater --------------------------------
(***************************************************************************)
(* The update of the gateway's own binary (internal/updater/updater.go and *)
(* safety.go): download, backup, replacement, and on an error the rollback *)
(* to the backup.  Each step is one call that changes a file.  Any call    *)
(* may fail, and the process may be killed between two of them and in the  *)
(* middle of a copy.                                                       *)
(*                                                                         *)
(* A process keeps running the version it was started with, which is also  *)
(* the name of the backups it makes.  Not in the state: the checksum of a  *)
(* release, which getLatestRelease never sets, so that it is never         *)
(* verified; the health checks and listBackups, which Update does not      *)
(* call; and what a power loss undoes.                                     *)
(*                                                                         *)
(* Definitions named <operation>_<fault> are not part of the               *)
(* specification: each is the operation with a fault some property catches.*)
(***************************************************************************)
EXTENDS Integers, FiniteSets, SequencesExt

CONSTANTS
    Callers,   \* goroutines that call Update
    Keep,      \* backups cleanup leaves; the program's 3
    MaxVersion \* bound of the model on the releases

ASSUME UpdaterAssumption ==
    /\ Keep \in Nat \ {0}
    /\ MaxVersion \in Nat \ {0}

VARIABLES
    latest,    \* the version of the latest release
    binary,    \* the file at binaryPath
    backups,   \* the files of backupDir, the oldest first
    download,  \* the file of this process in downloadDir
    running,   \* currentVersion, or None when the gateway does not run
    updating,  \* the flag of the Updater
    pc,        \* the next call of each caller
    release,   \* the release each caller got
    outcome,   \* of the last call of Update to end
    before,    \* history: the binary when that call had the flag
    poisoned   \* history: a binary that was not whole became a backup

files == <<binary, backups, download>>
calls == <<updating, pc, release, outcome, before>>
vars  == <<latest, files, running, calls, poisoned>>

None == -1

\* A version that is no semantic version.
Dev == 0

Versions == Dev .. MaxVersion

\* The file is there; in the middle of a copy it is not whole.
File(version, whole, executable) ==
    [version |-> version, whole |-> whole, executable |-> executable]

Missing == File(None, FALSE, FALSE)

Startable(f) == f.whole /\ f.executable

Newer(local, remote) ==
    local # remote /\ (local = Dev \/ (remote # Dev /\ remote > local))

-----------------------------------------------------------------------------
Init ==
    /\ latest \in Versions
    /\ \E version \in Versions :
          binary = File(version, TRUE, TRUE) /\ running = version
    /\ backups = <<>>
    /\ download = Missing
    /\ updating = FALSE
    /\ pc = [c \in Callers |-> "idle"]
    /\ release = [c \in Callers |-> None]
    /\ outcome = "none"
    /\ before = Missing
    /\ poisoned = FALSE

Publish ==
    /\ latest < MaxVersion
    /\ latest' = latest + 1
    /\ UNCHANGED <<files, running, calls, poisoned>>

\* The process is stopped or killed.
Kill ==
    /\ running # None
    /\ running' = None
    /\ updating' = FALSE
    /\ pc' = [c \in Callers |-> "idle"]
    /\ release' = [c \in Callers |-> None]
    /\ outcome' = "none"
    /\ before' = Missing
    /\ download' = Missing   \* its name has the process id: no other reads it
    /\ UNCHANGED <<latest, binary, backups, poisoned>>

Start ==
    /\ running = None
    /\ Startable(binary)
    /\ running' = binary.version
    /\ UNCHANGED <<latest, files, calls, poisoned>>

\* Somebody installs a gateway that starts.
Reinstall ==
    /\ running = None
    /\ ~Startable(binary)
    /\ binary' = File(latest, TRUE, TRUE)
    /\ poisoned' = FALSE
    /\ UNCHANGED <<latest, backups, download, running, calls>>

-----------------------------------------------------------------------------
(* Update.                                                                 *)

Goto(c, label) == pc' = [pc EXCEPT ![c] = label]

\* The deferred reset of the flag.
Return(c, result) ==
    /\ Goto(c, "idle")
    /\ updating' = FALSE
    /\ release' = [release EXCEPT ![c] = None]
    /\ outcome' = result
    /\ UNCHANGED before

Proceed(c, label) ==
    /\ Goto(c, label)
    /\ UNCHANGED <<updating, release, outcome, before>>

At(c, label) ==
    /\ running # None
    /\ pc[c] = label
    /\ UNCHANGED <<latest, running>>

Check(c) ==
    /\ At(c, "idle")
    /\ ~updating
    /\ Proceed(c, "claim")
    /\ UNCHANGED <<files, poisoned>>

\* CompareAndSwap.
Claim(c) ==
    /\ At(c, "claim")
    /\ IF updating
       THEN Goto(c, "idle") /\ UNCHANGED <<updating, outcome, before>>
       ELSE /\ Goto(c, "release")
            /\ updating' = TRUE
            /\ outcome' = "none"
            /\ before' = binary
    /\ UNCHANGED <<release, files, poisoned>>

GetLatestRelease(c) ==
    /\ At(c, "release")
    /\ \/ Return(c, "failed")
       \/ ~Newer(running, latest) /\ Return(c, "up to date")
       \/ /\ Newer(running, latest)
          /\ Goto(c, "download")
          /\ release' = [release EXCEPT ![c] = latest]
          /\ UNCHANGED <<updating, outcome, before>>
    /\ UNCHANGED <<files, poisoned>>

\* A body without a length that ends early is taken for a whole one.
Download(c) ==
    /\ At(c, "download")
    /\ \/ Return(c, "failed") /\ download' \in {download, Missing}
       \/ \E whole \in BOOLEAN :
             download' = File(release[c], whole, FALSE) /\ Proceed(c, "backup")
    /\ UNCHANGED <<binary, backups, poisoned>>

-----------------------------------------------------------------------------
(* backup.                                                                 *)

Named(b) == b.name = running

\* The other files: a name is that of one file at most.
Others == RemoveFirstMatch(backups, Named)

BackupOf(f) == [name |-> running, version |-> f.version, whole |-> f.whole]

BackupBegin(c) ==
    /\ At(c, "backup")
    /\ \/ /\ Return(c, "failed")
          /\ download' = Missing
          /\ UNCHANGED <<backups, poisoned>>
       \/ /\ binary # Missing
          /\ Proceed(c, "copy")
          /\ backups' = Append(Others, BackupOf(File(binary.version, FALSE, FALSE)))
          /\ poisoned' = (poisoned \/ ~binary.whole)
          /\ UNCHANGED download
    /\ UNCHANGED binary

\* Fault: an error of the copy is not one of the update.
BackupCopy_IgnoresError(c) ==
    /\ At(c, "copy")
    /\ Proceed(c, "remove")
    /\ backups' \in {backups, Append(Others, BackupOf(binary))}
    /\ UNCHANGED <<binary, download, poisoned>>

BackupCopy(c) ==
    /\ At(c, "copy")
    /\ \/ /\ Return(c, "failed")
          /\ download' = Missing
          /\ backups' \in {backups, Append(Others, BackupOf(binary))}
       \/ /\ Proceed(c, "remove")
          /\ backups' = Append(Others, BackupOf(binary))
          /\ UNCHANGED download
    /\ UNCHANGED <<binary, poisoned>>

-----------------------------------------------------------------------------
(* applyUpdate.                                                            *)

RemoveBinary(c) ==
    /\ At(c, "remove")
    /\ \/ Proceed(c, "rollback") /\ UNCHANGED binary
       \/ Proceed(c, "rename") /\ binary' = Missing
    /\ UNCHANGED <<backups, download, poisoned>>

RenameBinary(c) ==
    /\ At(c, "rename")
    /\ \/ Proceed(c, "rollback") /\ UNCHANGED <<binary, download>>
       \/ Proceed(c, "chmod") /\ binary' = download /\ download' = Missing
    /\ UNCHANGED <<backups, poisoned>>

ChmodBinary(c) ==
    /\ At(c, "chmod")
    /\ \/ Proceed(c, "rollback") /\ UNCHANGED binary
       \/ Proceed(c, "cleanup") /\ binary' = [binary EXCEPT !.executable = TRUE]
    /\ UNCHANGED <<backups, download, poisoned>>

-----------------------------------------------------------------------------
(* rollback, to the backup of the version that runs.                       *)

\* Fault: the oldest backup.
RollbackTo_Oldest == Head(backups)

RollbackTo == CHOOSE b \in ToSet(backups) : Named(b)

RollbackRemove(c) ==
    /\ At(c, "rollback")
    /\ \/ Return(c, "lost") /\ UNCHANGED binary
       \/ Proceed(c, "restore") /\ binary' = Missing
    /\ UNCHANGED <<backups, download, poisoned>>

RollbackCopy(c) ==
    /\ At(c, "restore")
    /\ \/ Return(c, "lost") /\ UNCHANGED binary
       \/ /\ binary' = File(RollbackTo.version, FALSE, FALSE)
          /\ Return(c, "lost") \/ Proceed(c, "restored")
    /\ UNCHANGED <<backups, download, poisoned>>

\* The end of the copy, with the mode the backup has; chmod; the checksums.
RollbackEnd(c) ==
    /\ At(c, "restored")
    /\ \E executable \in BOOLEAN :
          /\ binary' = File(RollbackTo.version, RollbackTo.whole, executable)
          /\ Return(c, "lost") \/ (executable /\ Return(c, "rolled back"))
    /\ UNCHANGED <<backups, download, poisoned>>

-----------------------------------------------------------------------------
\* An error ends it early, and is not one of the update.
Cleanup(c) ==
    /\ At(c, "cleanup")
    /\ \E n \in 0 .. Len(backups) :
          /\ n = 0 \/ Len(backups) - n >= Keep
          /\ backups' = SubSeq(backups, n + 1, Len(backups))
    /\ Return(c, "updated")
    /\ UNCHANGED <<binary, download, poisoned>>

Update(c) ==
    \/ Check(c)
    \/ Claim(c)
    \/ GetLatestRelease(c)
    \/ Download(c)
    \/ BackupBegin(c)
    \/ BackupCopy(c)
    \/ RemoveBinary(c)
    \/ RenameBinary(c)
    \/ ChmodBinary(c)
    \/ RollbackRemove(c)
    \/ RollbackCopy(c)
    \/ RollbackEnd(c)
    \/ Cleanup(c)

Next ==
    \/ Publish
    \/ Kill
    \/ Start
    \/ Reinstall
    \/ \E c \in Callers : Update(c)

Spec == Init /\ [][Next]_vars

-----------------------------------------------------------------------------
(* There is always a gateway to go back to: the binary starts, is about to  *)
(* (the chmod after its rename), or there is a whole backup.  Wherever a    *)
(* call failed or the process was killed, between the removal of the binary *)
(* and the rename too; unless a binary that was cut short, by a download or *)
(* a rollback, was made the backup of a version by a later update of the    *)
(* same process, which is what backup does.                                 *)
Recoverable ==
    ~poisoned => binary.whole \/ \E b \in ToSet(backups) : b.whole

(* An update that says it was rolled back left the binary it found, and it  *)
(* is executable (applyUpdate after any of its calls, rollback).            *)
RolledBackIsRestored ==
    outcome = "rolled back" =>
        binary = File(before.version, before.whole, TRUE)

(* The comment in Update: the backup is of the current version.             *)
BackupIsOfItsVersion == \A b \in ToSet(backups) : b.version = b.name
=============================================================================
