------------------------ MODULE DeployTransactionProofs ------------------------
(***************************************************************************)
(* Proofs about DeployTransaction, whatever files the file system has: the *)
(* journal explains the mode, a run is refused exactly when it has to be,  *)
(* and the transaction implements DurableChange.                           *)
(*                                                                         *)
(* What a power loss may leave is a set of directories, so the invariant   *)
(* says which sets there can be (DiskInv): only the last step of the       *)
(* journal is uncertain.  It also says what the run at hand has synced     *)
(* (Place), which entry it is about to write (Purpose) and what its        *)
(* recovery has found out so far (Blocked).  The refinement takes the      *)
(* earlier of the two phases that may be on disk, so that a phase counts   *)
(* once no power loss can take it back.                                    *)
(***************************************************************************)
EXTENDS DeployTransaction, TLAPS

\* n is the next entry of a journal whose record is r.
Follows(r, n) ==
    /\ n # 0
    /\ \/ r = 0 /\ Is(n, "apply", "pending")
       \/ \E d \in Directions :
             \/ Is(r, d, "pending") /\ Is(n, d, "done")
             \/ Is(r, Other(d), "done") /\ Is(n, d, "pending")

(* The journal directory, however much of it was synced: only the step to   *)
(* the last record is uncertain, and record.new repeats the record or is    *)
(* the next entry.  One that says that a change is done does so for good.   *)
DiskInv ==
    /\ \E r \in {0} \cup Inodes :
          /\ r = dir.record \/ Follows(r, dir.record)
          /\ \A e \in disk : e.record \in {r, dir.record}
    /\ \A e \in disk : e.new # 0 => e.new = e.record \/ Follows(e.record, e.new)
    /\ \A e \in disk, d \in Directions, m \in modes : Is(e.new, d, "done") => m = Post(d)

Settled == disk = {dir}

\* Where the run is: what it has synced, and what its record says.
Place ==
    /\ pc \in {"recover", "decide", "create", "mutate", "targetsync", "verify"} => Settled
    /\ pc \in {"decide", "create", "mutate", "targetsync", "verify", "dirsync"} => dir.new = 0
    /\ pc \in {"write", "filesync", "rename"} =>
          /\ dir.new # 0 /\ dir.new # dir.record
          /\ \A e \in disk : e.record = dir.record
    /\ pc = "rename" => inode[dir.new].data = "durable"

\* What the run does its call for.
Purpose ==
    /\ pc \in {"mutate", "targetsync", "verify"} => Is(dir.record, direction, "pending")
    /\ pc \in {"create", "write"} => then \in {"mutate", "return"}
    /\ pc = "create" /\ then = "mutate" => Fresh
    /\ pc = "create" /\ then = "return" =>
          /\ Is(dir.record, direction, "pending")
          /\ \A m \in modes : m = Post(direction)
    /\ pc \in {"write", "filesync", "rename"} /\ then = "mutate" =>
          Is(dir.new, direction, "pending")
    /\ pc = "dirsync" /\ then = "mutate" => Is(dir.record, direction, "pending")

\* What a run without record.new is refused for.
Barred ==
    \/ Is(dir.record, Other(direction), "pending")
    \/ direction = "rollback" /\ dir.record = 0

\* How far the question whether the run is forbidden is settled.
Blocked ==
    /\ pc = "recover" => blocked = Forbidden(direction)
    /\ pc = "decide" \/ (pc = "dirsync" /\ then = "decide") => blocked = Barred
    /\ pc \in {"filesync", "rename"} /\ then = "decide" =>
          blocked = Is(dir.new, Other(direction), "pending")
    /\ pc \in {"create", "write", "mutate", "targetsync", "verify"} => ~blocked
    /\ pc \in {"filesync", "rename", "dirsync"} /\ then # "decide" => ~blocked

IInv == TypeOK /\ JournalExplains /\ DiskInv /\ Place /\ Purpose /\ Blocked
          /\ RefusedWhenForbidden

-----------------------------------------------------------------------------
(* What entries say.                                                       *)

LEMMA OtherDirection ==
    ASSUME NEW d \in Directions
    PROVE  /\ Other(d) \in Directions /\ Other(d) # d /\ Other(Other(d)) = d
           /\ Pre(d) = Post(Other(d)) /\ Post(d) # Pre(d)
           /\ Pre(d) \in Modes /\ Post(d) \in Modes
           /\ \A e \in Directions : e = d \/ e = Other(d)
BY DEF Directions, Other, Pre, Post, Modes

\* The files and the entries there are.
LEMMA EntryTypes ==
    ASSUME TypeOK, NEW e \in disk
    PROVE  /\ e = [record |-> e.record, new |-> e.new]
           /\ e.record \in {0} \cup Inodes /\ e.new \in {0} \cup Inodes
BY DEF TypeOK, Entries

LEMMA FileTypes ==
    ASSUME TypeOK, NEW i \in Inodes
    PROVE  /\ i # 0
           /\ inode[i] \in Files
           /\ inode[i].direction \in Directions /\ inode[i].phase \in Phases
BY InodesAssumption DEF TypeOK, Files

\* A write or a loss of data leaves what a record says.
SaysTheSame(i) ==
    inode'[i].direction = inode[i].direction /\ inode'[i].phase = inode[i].phase

LEMMA SameRecords ==
    ASSUME NEW i, i = 0 \/ SaysTheSame(i), NEW d, NEW p
    PROVE  Is(i, d, p)' <=> Is(i, d, p)
BY DEF Is, SaysTheSame

LEMMA SameFollows ==
    ASSUME NEW r, NEW n, r = 0 \/ SaysTheSame(r), n = 0 \/ SaysTheSame(n)
    PROVE  Follows(r, n)' <=> Follows(r, n)
<1>1. \A d, p : (Is(r, d, p)' <=> Is(r, d, p)) /\ (Is(n, d, p)' <=> Is(n, d, p))
  BY SameRecords
<1> QED  BY <1>1 DEF Follows

LEMMA InitInv == Init => IInv
<1> SUFFICES ASSUME Init PROVE IInv
  OBVIOUS
<1>1. TypeOK
  <2>1. inode \in [Inodes -> Files]
    BY DEF Init, Files, Directions, Phases
  <2>2. dir \in disk /\ disk \subseteq Entries
    BY DEF Init, Entries
  <2>3. mode \in modes /\ modes \subseteq Modes
    BY DEF Init, Modes
  <2> QED  BY <2>1, <2>2, <2>3 DEF Init, TypeOK, Calls, Directions
<1>2. /\ dir = [record |-> 0, new |-> 0] /\ disk = {dir} /\ modes = {"0775"}
      /\ pc = "idle" /\ outcome = "none"
  BY DEF Init
<1>3. JournalExplains /\ DiskInv
  BY <1>2 DEF JournalExplains, DiskInv, Is
<1>4. Place /\ Purpose /\ Blocked /\ RefusedWhenForbidden
  BY <1>2 DEF Place, Purpose, Blocked, RefusedWhenForbidden
<1> QED  BY <1>1, <1>3, <1>4 DEF IInv

\* A sync, a power loss or a write to record.new leaves less that is uncertain.
LEMMA LessUncertain ==
    ASSUME IInv, TypeOK', disk' \subseteq disk, modes' \subseteq modes,
           dir' = dir \/ disk' = {dir'},
           \A i \in Inodes : SaysTheSame(i),
           \A e \in disk' : e.record # 0 /\ inode[e.record].data = "durable"
                               => inode'[e.record].data = "durable"
    PROVE  JournalExplains' /\ DiskInv'
<1>1. \A i \in {0} \cup Inodes : \A d, p : Is(i, d, p)' <=> Is(i, d, p)
  BY SameRecords
<1>2. \A e \in disk : e.record \in {0} \cup Inodes /\ e.new \in {0} \cup Inodes
  BY EntryTypes DEF IInv
<1>3. JournalExplains'
  <2> SUFFICES ASSUME NEW e \in disk', NEW m \in modes'
               PROVE  /\ e.record # 0 => inode'[e.record].data = "durable"
                      /\ e.record = 0 => m = "0775"
                      /\ \A x \in Directions : Is(e.record, x, "done")' => m = Post(x)
    BY DEF JournalExplains
  <2>1. e \in disk /\ m \in modes
    OBVIOUS
  <2>2. \A x \in Directions : Is(e.record, x, "done")' <=> Is(e.record, x, "done")
    BY <1>1, <1>2, <2>1
  <2> QED  BY <2>1, <2>2 DEF IInv, JournalExplains
<1>4. \A r, n \in {0} \cup Inodes : Follows(r, n)' <=> Follows(r, n)
  BY SameFollows
<1>5. dir \in disk /\ dir' \in disk'
  BY DEF IInv, TypeOK
<1>6. \E r \in {0} \cup Inodes :
         (r = dir'.record \/ Follows(r, dir.record)')
            /\ \A e \in disk' : e.record \in {r, dir'.record}
  <2>1. CASE dir' = dir
    <3>1. PICK r \in {0} \cup Inodes :
             /\ r = dir.record \/ Follows(r, dir.record)
             /\ \A e \in disk : e.record \in {r, dir.record}
      BY DEF IInv, DiskInv
    <3>2. PICK k \in {0} \cup Inodes : k = dir.record
      BY <1>2, <1>5
    <3>3. r = k \/ Follows(r, k)'
      BY <1>4, <3>1, <3>2
    <3> QED  BY <2>1, <3>1, <3>2, <3>3
  <2>2. CASE disk' = {dir'}
    BY <1>2, <1>5, <2>2
  <2> QED  BY <2>1, <2>2
<1>7. ASSUME NEW e \in disk', e.new # 0
      PROVE  e.new = e.record \/ Follows(e.record, e.new)'
  BY <1>2, <1>4, <1>7 DEF IInv, DiskInv
<1>8. ASSUME NEW e \in disk', NEW x \in Directions, NEW m \in modes', Is(e.new, x, "done")'
      PROVE  m = Post(x)
  <2>1. e.new \in {0} \cup Inodes
    BY <1>2
  <2>2. Is(e.new, x, "done")
    BY <1>1, <1>8, <2>1
  <2> QED  BY <2>2 DEF IInv, DiskInv
<1> QED  BY <1>3, <1>6, <1>7, <1>8 DEF DiskInv

LEMMA BeginStep ==
    ASSUME IInv, NEW d \in Directions, Begin(d)
    PROVE  IInv'
<1>1. /\ UNCHANGED <<inode, dir, mode, modes, then>> /\ disk' = {dir} /\ pc' = "recover"
      /\ direction' = d /\ outcome' = "running" /\ blocked' = Forbidden(d)
  BY DEF Begin, target
<1>2. dir \in disk
  BY DEF IInv, TypeOK
<1>3. TypeOK'
  <2>1. Forbidden(d) \in BOOLEAN
    BY DEF Forbidden
  <2> QED  BY <1>1, <1>2, <2>1 DEF IInv, TypeOK, Calls
<1>4. JournalExplains' /\ DiskInv'
  BY <1>1, <1>2, <1>3, LessUncertain DEF SaysTheSame
<1>5. Place' /\ Purpose' /\ RefusedWhenForbidden'
  BY <1>1 DEF Place, Settled, Purpose, RefusedWhenForbidden
<1>6. Blocked'
  <2>1. Forbidden(direction)' = Forbidden(d)
    BY <1>1 DEF Forbidden, Torn, Unfinished, SameBytes, Is, Other
  <2> QED  BY <1>1, <2>1 DEF Blocked
<1> QED  BY <1>3, <1>4, <1>5, <1>6 DEF IInv

-----------------------------------------------------------------------------
(* The steps that change neither the journal nor the directory.            *)

LEMMA ControlStep ==
    ASSUME IInv, UNCHANGED <<journal, target, direction, blocked>>, pc' \in Calls,
           then' \in {"decide", "mutate", "return"},
           outcome' \in {"none", "running", "ok", "refused", "failed"},
           Place', Purpose', Blocked', RefusedWhenForbidden'
    PROVE  IInv'
<1>1. TypeOK'
  BY DEF IInv, TypeOK, journal, target
<1>2. JournalExplains' /\ DiskInv'
  BY <1>1, LessUncertain DEF SaysTheSame, journal, target
<1> QED  BY <1>1, <1>2 DEF IInv

\* record.new repeats the record or is the next entry.
LEMMA NewEntry ==
    ASSUME IInv, dir.new # 0
    PROVE  /\ dir.new \in Inodes /\ dir.record \in {0} \cup Inodes
           /\ dir.new = dir.record \/ Follows(dir.record, dir.new)
BY EntryTypes DEF IInv, TypeOK, DiskInv

LEMMA DisposableRepeats ==
    ASSUME IInv, dir.new # 0, Disposable
    PROVE  dir.new = dir.record
<1> SUFFICES ASSUME Follows(dir.record, dir.new) PROVE FALSE
  BY NewEntry
<1>1. dir.record # 0
  BY DEF Disposable
<1> QED  BY <1>1, OtherDirection DEF Disposable, Follows, SameBytes, Is, Directions, Other

LEMMA PromotableFollows ==
    ASSUME IInv, dir.new # 0, Promotable
    PROVE  dir.new # dir.record /\ Follows(dir.record, dir.new)
<1> SUFFICES ASSUME dir.new = dir.record PROVE FALSE
  BY NewEntry
<1> QED  BY DEF Promotable, Is

LEMMA EndStep ==
    ASSUME IInv, NEW result \in {"ok", "refused", "failed"},
           pc' = "idle", outcome' = result, UNCHANGED <<direction, then, blocked>>,
           UNCHANGED <<journal, target>>,
           result = "ok" => ~blocked, result = "refused" => blocked
    PROVE  IInv'
<1>1. pc' \in Calls
  BY DEF Calls
<1>2. Place' /\ Purpose' /\ Blocked'
  BY DEF Place, Purpose, Blocked
<1>3. RefusedWhenForbidden'
  BY DEF RefusedWhenForbidden
<1> QED  BY <1>1, <1>2, <1>3, ControlStep DEF IInv, TypeOK

LEMMA NothingToRecoverStep == IInv /\ NothingToRecover => IInv'
<1> SUFFICES ASSUME IInv, NothingToRecover PROVE IInv'
  OBVIOUS
<1>1. /\ pc = "recover" /\ dir.new = 0 /\ Readable /\ pc' = "decide"
      /\ UNCHANGED <<inode, dir, disk, mode, modes, then, direction, outcome, blocked>>
  BY DEF NothingToRecover, Goto, journal, target
<1>2. Place' /\ Purpose' /\ RefusedWhenForbidden'
  BY <1>1 DEF IInv, Place, Settled, Purpose, RefusedWhenForbidden
<1>3. blocked = Barred
  <2>1. blocked = Forbidden(direction)
    BY <1>1 DEF IInv, Blocked
  <2> QED  BY <1>1, <2>1 DEF Forbidden, Readable, Unfinished, Barred
<1>4. Blocked'
  BY <1>1, <1>3 DEF Blocked, Barred, Is, Other
<1> QED  BY <1>1, <1>2, <1>4, ControlStep DEF IInv, TypeOK, Calls, journal, target

LEMMA PromoteStep == IInv /\ Promote => IInv'
<1> SUFFICES ASSUME IInv, Promote PROVE IInv'
  OBVIOUS
<1>1. /\ pc = "recover" /\ dir.new # 0 /\ Readable /\ Promotable
      /\ pc' = "filesync" /\ then' = "decide"
      /\ UNCHANGED <<inode, dir, disk, mode, modes, direction, outcome, blocked>>
  BY DEF Promote, Goto, journal, target
<1>2. dir.new # dir.record /\ Settled
  BY <1>1, PromotableFollows DEF IInv, Place
<1>3. Place' /\ Purpose' /\ RefusedWhenForbidden'
  BY <1>1, <1>2 DEF IInv, Place, Settled, Purpose, RefusedWhenForbidden
<1>4. blocked = Is(dir.new, Other(direction), "pending")
  <2>1. blocked = Forbidden(direction) /\ direction \in Directions
    BY <1>1 DEF IInv, Blocked, TypeOK
  <2>2. ~SameBytes(dir.new, dir.record) \/ dir.record = 0
    BY <1>1 DEF Promotable, SameBytes, Is
  <2>3. Forbidden(direction) =
          (inode[dir.new].direction = Other(direction)
             \/ (direction = "rollback" /\ dir.record = 0))
    BY <1>1, <2>2 DEF Forbidden, Readable, Unfinished
  <2>4. CASE dir.record = 0
    <3>1. Is(dir.new, "apply", "pending")
      BY <1>1, <2>4 DEF Promotable, Is
    <3> QED  BY <2>1, <2>3, <2>4, <3>1, OtherDirection DEF Is, Directions, Other
  <2>5. CASE dir.record # 0
    <3>1. inode[dir.new].direction = direction
      BY <1>1, <2>5 DEF Promotable, Is
    <3> QED  BY <2>1, <2>3, <2>5, <3>1, OtherDirection DEF Is
  <2> QED  BY <2>4, <2>5
<1>5. Blocked'
  BY <1>1, <1>4 DEF Blocked, Is, Other
<1> QED  BY <1>1, <1>3, <1>5, ControlStep DEF IInv, TypeOK, Calls, journal, target

LEMMA RefuseJournalStep == IInv /\ RefuseJournal => IInv'
<1> SUFFICES ASSUME IInv, RefuseJournal PROVE IInv'
  OBVIOUS
<1>1. pc = "recover" /\ blocked = Forbidden(direction) /\ direction \in Directions
  BY DEF RefuseJournal, IInv, Blocked, TypeOK
<1>2. blocked
  <2>1. CASE ~Readable
    BY <1>1, <2>1 DEF Readable, Forbidden
  <2>2. CASE dir.new # 0 /\ ~Disposable /\ ~Promotable
    <3>1. dir.new # dir.record
      <4> SUFFICES ASSUME dir.new = dir.record PROVE FALSE
        OBVIOUS
      <4> QED  BY <2>2 DEF Disposable, SameBytes, Is
    <3>2. Follows(dir.record, dir.new)
      BY <2>2, <3>1, NewEntry
    <3>3. dir \in disk /\ mode \in modes
      BY DEF IInv, TypeOK
    <3>4. CASE dir.record = 0 /\ Is(dir.new, "apply", "pending")
      <4>1. mode = "0775"
        BY <3>3, <3>4 DEF IInv, JournalExplains
      <4> QED  BY <2>2, <3>4, <4>1 DEF Promotable
    <3>5. ASSUME NEW d \in Directions,
                 Is(dir.record, d, "pending"), Is(dir.new, d, "done")
          PROVE  Forbidden(direction)
      <4>1. mode = Post(d)
        BY <3>3, <3>5 DEF IInv, DiskInv
      <4>2. d = Other(direction)
        BY <1>1, <2>2, <3>5, <4>1, OtherDirection DEF Promotable
      <4>3. ~SameBytes(dir.new, dir.record)
        BY <3>5 DEF SameBytes, Is
      <4> QED  BY <2>2, <3>5, <4>2, <4>3 DEF Forbidden, Unfinished, Is
    <3>6. ASSUME NEW d \in Directions,
                 Is(dir.record, Other(d), "done"), Is(dir.new, d, "pending")
          PROVE  Forbidden(direction)
      <4>1. mode = Pre(d)
        BY <3>3, <3>6, OtherDirection DEF IInv, JournalExplains
      <4>2. d = Other(direction)
        BY <1>1, <2>2, <3>6, <4>1, OtherDirection DEF Promotable
      <4>3. ~SameBytes(dir.new, dir.record)
        BY <3>6 DEF SameBytes, Is
      <4> QED  BY <2>2, <3>6, <4>2, <4>3 DEF Forbidden, Unfinished, Is
    <3> QED  BY <1>1, <3>2, <3>4, <3>5, <3>6 DEF Follows
  <2> QED  BY <2>1, <2>2 DEF RefuseJournal
<1> QED  BY <1>2, EndStep DEF RefuseJournal, End

LEMMA DecideStep == IInv /\ (AlreadyDone \/ RefuseDirection) => IInv'
<1> SUFFICES ASSUME IInv, AlreadyDone \/ RefuseDirection PROVE IInv'
  OBVIOUS
<1>1. /\ pc = "decide" /\ blocked = Barred /\ direction \in Directions
      /\ dir \in disk /\ mode \in modes
  BY DEF AlreadyDone, RefuseDirection, IInv, Blocked, TypeOK
<1>2. CASE AlreadyDone
  <2>1. ~blocked
    BY <1>1, <1>2 DEF AlreadyDone, Barred, Is
  <2> QED  BY <1>2, <2>1, EndStep DEF AlreadyDone, End
<1>3. CASE RefuseDirection
  <2>1. blocked
    <3>1. CASE dir.record = 0
      <4>1. mode = "0775"
        BY <1>1, <3>1 DEF IInv, JournalExplains
      <4> QED  BY <1>1, <1>3, <3>1, <4>1 DEF RefuseDirection, Fresh, Barred, Pre, Directions
    <3>2. CASE dir.record # 0
      <4>1. dir.record \in Inodes
        BY <1>1, <3>2, EntryTypes DEF IInv
      <4> DEFINE d == inode[dir.record].direction
      <4>2. d \in Directions /\ inode[dir.record].phase \in Phases
        BY <4>1, FileTypes DEF IInv
      <4>3. CASE Is(dir.record, d, "done")
        <5>1. mode = Post(d)
          BY <1>1, <4>2, <4>3 DEF IInv, JournalExplains
        <5>2. CASE d = direction
          BY <1>3, <4>3, <5>1, <5>2 DEF RefuseDirection
        <5>3. CASE d = Other(direction)
          BY <1>1, <1>3, <4>3, <5>1, <5>3, OtherDirection DEF RefuseDirection, Fresh
        <5> QED  BY <1>1, <4>2, <5>2, <5>3, OtherDirection
      <4>4. CASE Is(dir.record, d, "pending")
        <5>1. d # direction
          BY <1>3, <4>4 DEF RefuseDirection
        <5>2. d = Other(direction)
          BY <1>1, <4>2, <5>1, OtherDirection
        <5> QED  BY <1>1, <4>4, <5>2 DEF Barred
      <4> QED  BY <3>2, <4>2, <4>3, <4>4 DEF Is, Phases
    <3> QED  BY <3>1, <3>2
  <2> QED  BY <1>3, <2>1, EndStep DEF RefuseDirection, End
<1> QED  BY <1>2, <1>3

LEMMA WritePendingStep == IInv /\ WritePending => IInv'
<1> SUFFICES ASSUME IInv, WritePending PROVE IInv'
  OBVIOUS
<1>1. /\ pc = "decide" /\ Fresh /\ mode = Pre(direction) /\ then' = "mutate"
      /\ pc' = "create"
      /\ UNCHANGED <<inode, dir, disk, mode, modes, direction, outcome, blocked>>
  BY DEF WritePending, Goto, journal, target
<1>2. ~blocked
  <2>1. blocked = Barred /\ direction \in Directions
    BY <1>1 DEF IInv, Blocked, TypeOK
  <2> QED  BY <1>1, <2>1 DEF Fresh, Barred, Is
<1>3. Place' /\ Purpose' /\ Blocked' /\ RefusedWhenForbidden'
  BY <1>1, <1>2 DEF IInv, Place, Settled, Purpose, Fresh, Is, Other, Blocked,
                    RefusedWhenForbidden
<1> QED  BY <1>1, <1>3, ControlStep DEF IInv, TypeOK, Calls, journal, target

LEMMA ResumeStep == IInv /\ Resume => IInv'
<1> SUFFICES ASSUME IInv, Resume PROVE IInv'
  OBVIOUS
<1>1. /\ pc = "decide" /\ Is(dir.record, direction, "pending")
      /\ pc' \in {"mutate", "verify"}
      /\ UNCHANGED <<inode, dir, disk, mode, modes, then, direction, outcome, blocked>>
  BY DEF Resume, Goto, journal, target
<1>2. ~blocked
  <2>1. blocked = Barred /\ direction \in Directions
    BY <1>1 DEF IInv, Blocked, TypeOK
  <2> QED  BY <1>1, <2>1, OtherDirection DEF Barred, Is
<1>3. Place' /\ Purpose' /\ Blocked' /\ RefusedWhenForbidden'
  BY <1>1, <1>2 DEF IInv, Place, Settled, Purpose, Is, Blocked, RefusedWhenForbidden
<1> QED  BY <1>1, <1>3, ControlStep DEF IInv, TypeOK, Calls, journal, target

LEMMA FailStep == IInv /\ Fail => IInv'
BY EndStep DEF Fail, End

-----------------------------------------------------------------------------
(* The steps of the journal.                                               *)

LEMMA DiscardStep == IInv /\ Discard => IInv'
<1> SUFFICES ASSUME IInv, Discard PROVE IInv'
  OBVIOUS
<1>1. /\ pc = "recover" /\ dir.new # 0 /\ Readable /\ Disposable
      /\ dir' = [dir EXCEPT !.new = 0] /\ disk' = disk \cup {dir'}
      /\ then' = "decide" /\ pc' = "dirsync"
      /\ UNCHANGED <<inode, mode, modes, direction, outcome, blocked>>
  BY DEF Discard, Goto, target
<1>2. dir.new = dir.record /\ disk = {dir} /\ dir \in disk
  BY <1>1, DisposableRepeats DEF IInv, Place, Settled
<1>3. dir' = [record |-> dir.record, new |-> 0] /\ dir.record \in {0} \cup Inodes
  BY <1>1, <1>2, EntryTypes DEF IInv
<1>4. TypeOK'
  <2>1. dir' \in Entries
    BY <1>3 DEF Entries
  <2> QED  BY <1>1, <2>1 DEF IInv, TypeOK, Calls
<1>5. \A e \in disk' : e.record = dir.record /\ (e = dir \/ e.new = 0)
  BY <1>1, <1>2, <1>3
<1>6. JournalExplains' /\ DiskInv'
  <2>1. JournalExplains'
    <3> SUFFICES ASSUME NEW e \in disk', NEW m \in modes'
                 PROVE  /\ e.record # 0 => inode'[e.record].data = "durable"
                        /\ e.record = 0 => m = "0775"
                        /\ \A x \in Directions : Is(e.record, x, "done")' => m = Post(x)
      BY DEF JournalExplains
    <3>1. e.record = dir.record /\ m \in modes /\ inode' = inode
      BY <1>1, <1>5
    <3>2. \A x \in Directions : Is(e.record, x, "done")' => Is(dir.record, x, "done")
      BY <3>1 DEF Is
    <3> QED  BY <1>2, <3>1, <3>2 DEF IInv, JournalExplains
  <2>2. \E r \in {0} \cup Inodes :
           (r = dir'.record \/ Follows(r, dir.record)')
              /\ \A e \in disk' : e.record \in {r, dir'.record}
    BY <1>3, <1>5
  <2>3. \A e \in disk', x \in Directions, m \in modes' : Is(e.new, x, "done")' => m = Post(x)
    BY <1>1, <1>2, <1>5 DEF IInv, DiskInv, Is
  <2> QED  BY <1>2, <1>5, <2>1, <2>2, <2>3 DEF DiskInv
<1>7. blocked = Barred
  <2>1. blocked = Forbidden(direction)
    BY <1>1 DEF IInv, Blocked
  <2>2. SameBytes(dir.new, dir.record) /\ dir.record # 0
    BY <1>1, <1>2 DEF SameBytes, Is
  <2> QED  BY <1>1, <2>1, <2>2 DEF Forbidden, Readable, Unfinished, Barred
<1>8. Barred' = Barred
  BY <1>1, <1>3 DEF Barred, Is, Other
<1>9. Place' /\ Purpose' /\ Blocked' /\ RefusedWhenForbidden'
  BY <1>1, <1>3, <1>7, <1>8 DEF IInv, Place, Purpose, Blocked, RefusedWhenForbidden
<1> QED  BY <1>4, <1>6, <1>9 DEF IInv

LEMMA CreateRecordStep == IInv /\ CreateRecord => IInv'
<1> SUFFICES ASSUME IInv, CreateRecord PROVE IInv'
  OBVIOUS
<1> DEFINE phase == IF then = "mutate" THEN "pending" ELSE "done"
<1>1. PICK i \in Inodes \ {dir.record} :
         /\ inode' = [inode EXCEPT ![i] =
              [direction |-> direction, phase |-> phase, data |-> "torn"]]
         /\ dir' = [dir EXCEPT !.new = i]
  BY DEF CreateRecord
<1>2. /\ pc = "create" /\ disk' = disk \cup {dir'} /\ pc' = "write"
      /\ UNCHANGED <<mode, modes, then, direction, outcome, blocked>>
  BY DEF CreateRecord, Goto, target
<1>3. /\ disk = {dir} /\ dir.new = 0 /\ dir \in disk /\ then \in {"mutate", "return"}
      /\ direction \in Directions /\ ~blocked
  BY <1>2 DEF IInv, Place, Settled, Purpose, TypeOK, Blocked
<1> DEFINE r == dir.record
<1>4. /\ dir' = [record |-> r, new |-> i] /\ r \in {0} \cup Inodes
      /\ i \in Inodes /\ i # 0 /\ i # r
  BY <1>1, <1>3, EntryTypes, InodesAssumption DEF IInv
<1>5. /\ inode'[i].direction = direction /\ inode'[i].phase = phase
      /\ \A j \in Inodes : j # i => inode'[j] = inode[j]
  BY <1>1 DEF IInv, TypeOK
<1>6. TypeOK'
  <2>1. inode' \in [Inodes -> Files]
    <3>1. [direction |-> direction, phase |-> phase, data |-> "torn"] \in Files
      BY <1>3 DEF Files, Phases
    <3> QED  BY <1>1, <3>1 DEF IInv, TypeOK
  <2>2. dir' \in Entries
    BY <1>4 DEF Entries
  <2> QED  BY <1>2, <2>1, <2>2 DEF IInv, TypeOK, Calls
<1>7. \A e \in disk' : e.record = r /\ e.new \in {0, i}
  BY <1>2, <1>3, <1>4
<1>8. PICK k : k = r
  OBVIOUS
<1>9. /\ k = 0 \/ inode'[k] = inode[k]
      /\ \A d, p : Is(k, d, p)' <=> Is(k, d, p)
      /\ Is(i, direction, phase)'
  BY <1>2, <1>4, <1>5, <1>8 DEF Is
<1>10. JournalExplains'
  <2> SUFFICES ASSUME NEW e \in disk', NEW m \in modes'
               PROVE  /\ e.record # 0 => inode'[e.record].data = "durable"
                      /\ e.record = 0 => m = "0775"
                      /\ \A x \in Directions : Is(e.record, x, "done")' => m = Post(x)
    BY DEF JournalExplains
  <2>1. e.record = k /\ m \in modes /\ k = dir.record
    BY <1>2, <1>7, <1>8
  <2>2. \A x \in Directions : Is(e.record, x, "done")' => Is(k, x, "done")
    BY <1>9, <2>1 DEF Is
  <2> QED  BY <1>3, <1>9, <2>1, <2>2 DEF IInv, JournalExplains
<1>11. Follows(k, i)'
  <2>1. CASE then = "mutate"
    <3>1. Fresh /\ Is(i, direction, "pending")'
      BY <1>2, <1>9, <2>1 DEF IInv, Purpose
    <3>2. CASE k = 0 /\ direction = "apply"
      BY <1>2, <1>4, <3>1, <3>2 DEF Follows, Is
    <3>3. CASE Is(k, Other(direction), "done")
      <4>1. Is(k, Other(direction), "done")'
        BY <1>2, <1>9, <3>3 DEF Is, Other
      <4> QED  BY <1>2, <1>3, <1>4, <3>1, <4>1 DEF Follows, Is, Other
    <3> QED  BY <1>8, <3>1, <3>2, <3>3 DEF Fresh
  <2>2. CASE then = "return"
    <3>1. Is(k, direction, "pending") /\ Is(i, direction, "done")'
      BY <1>2, <1>8, <1>9, <2>2 DEF IInv, Purpose
    <3> QED  BY <1>2, <1>3, <1>4, <1>9, <3>1 DEF Follows, Is
  <2> QED  BY <1>3, <2>1, <2>2
<1>12. DiskInv'
  <2>1. \E q \in {0} \cup Inodes :
           (q = dir'.record \/ Follows(q, dir.record)')
              /\ \A e \in disk' : e.record \in {q, dir'.record}
    BY <1>4, <1>7
  <2>2. ASSUME NEW e \in disk', e.new # 0
        PROVE  Follows(e.record, e.new)'
    <3>1. e.record = k /\ e.new = i
      BY <1>7, <1>8, <2>2
    <3> QED  BY <1>11, <3>1
  <2>3. ASSUME NEW e \in disk', NEW x \in Directions, NEW m \in modes',
               Is(e.new, x, "done")'
        PROVE  m = Post(x)
    <3>1. e.new = i
      BY <1>7, <2>3 DEF Is
    <3>2. x = direction /\ then = "return"
      BY <1>3, <1>5, <2>3, <3>1 DEF Is
    <3> QED  BY <1>2, <3>2 DEF IInv, Purpose
  <2> QED  BY <2>1, <2>2, <2>3 DEF DiskInv
<1>13. Place'
  BY <1>2, <1>4, <1>7 DEF Place
<1>14. Purpose'
  BY <1>2, <1>3, <1>4, <1>9 DEF Purpose, Is
<1>15. Blocked' /\ RefusedWhenForbidden'
  BY <1>2, <1>3 DEF IInv, Blocked, RefusedWhenForbidden
<1> QED  BY <1>6, <1>10, <1>12, <1>13, <1>14, <1>15 DEF IInv

\* The data of record.new are written or synced.
LEMMA DataStep ==
    ASSUME IInv, pc \in {"write", "filesync"}, NEW data \in {"cached", "durable"},
           inode' = [inode EXCEPT ![dir.new].data = data],
           UNCHANGED <<dir, disk, mode, modes, then, direction, outcome, blocked>>,
           pc' = IF pc = "write" THEN "filesync" ELSE "rename",
           pc = "filesync" => data = "durable"
    PROVE  IInv'
<1>1. /\ dir.new \in Inodes /\ dir.new # 0 /\ dir.new # dir.record
      /\ dir \in disk /\ \A e \in disk : e.record = dir.record
      /\ inode \in [Inodes -> Files]
  BY EntryTypes DEF IInv, TypeOK, Place
<1>2. /\ \A i \in Inodes : SaysTheSame(i) /\ (i # dir.new => inode'[i] = inode[i])
      /\ inode'[dir.new].data = data
      /\ inode' \in [Inodes -> Files]
  BY <1>1 DEF SaysTheSame, Files
<1>3. TypeOK'
  BY <1>2 DEF IInv, TypeOK, Calls
<1>4. JournalExplains' /\ DiskInv'
  <2>1. ASSUME NEW e \in disk', e.record # 0, inode[e.record].data = "durable"
        PROVE  inode'[e.record].data = "durable"
    BY <1>1, <1>2, <2>1, EntryTypes DEF IInv
  <2> QED  BY <1>2, <1>3, <2>1, LessUncertain
<1>5. PICK n : n = dir.new
  OBVIOUS
<1>6. \A d, p : (Is(n, d, p)' <=> Is(n, d, p)) /\ Is(dir.new, d, p)' = Is(n, d, p)'
  BY <1>1, <1>2, <1>5, SameRecords
<1>7. Place'
  BY <1>1, <1>2 DEF Place, Settled
<1>8. Purpose'
  BY <1>1, <1>5, <1>6 DEF IInv, Purpose
<1>9. Blocked'
  <2>1. CASE pc = "write"
    BY <2>1 DEF IInv, Blocked, Purpose
  <2>2. CASE pc = "filesync"
    <3>1. Is(dir.new, Other(direction), "pending")' <=> Is(dir.new, Other(direction), "pending")
      BY <1>1, <1>2 DEF Is, SaysTheSame, Other
    <3>2. Is(dir.new, Other(direction), "pending")' = Is(dir.new, Other(direction), "pending")
      BY <3>1 DEF Is
    <3> QED  BY <2>2, <3>2 DEF IInv, Blocked
  <2> QED  BY <2>1, <2>2
<1>10. RefusedWhenForbidden'
  BY DEF IInv, RefusedWhenForbidden
<1> QED  BY <1>3, <1>4, <1>7, <1>8, <1>9, <1>10 DEF IInv

LEMMA RenameStep == IInv /\ Rename => IInv'
<1> SUFFICES ASSUME IInv, Rename PROVE IInv'
  OBVIOUS
<1>1. PICK r, n : r = dir.record /\ n = dir.new
  OBVIOUS
<1>2. /\ pc = "rename" /\ dir' = [record |-> n, new |-> 0]
      /\ disk' = disk \cup {dir', [dir EXCEPT !.record = n]}
      /\ pc' = "dirsync"
      /\ UNCHANGED <<inode, mode, modes, then, direction, outcome, blocked>>
  BY <1>1 DEF Rename, Goto, target
<1>3. /\ r \in {0} \cup Inodes /\ n \in Inodes /\ n # 0 /\ n # r
      /\ inode[n].data = "durable" /\ dir \in disk
      /\ \A e \in disk : e.record = r
      /\ Follows(r, n)
  <2>1. dir \in disk
    BY DEF IInv, TypeOK
  <2> QED  BY <1>1, <1>2, <2>1, EntryTypes, NewEntry DEF IInv, Place
<1>4. [dir EXCEPT !.record = n] = [record |-> n, new |-> n]
  BY <1>1, <1>3, EntryTypes DEF IInv
<1>5. \A e \in disk' : e \in disk \/ (e.record = n /\ e.new \in {0, n})
  BY <1>2, <1>4
<1>6. TypeOK'
  <2>1. [record |-> n, new |-> 0] \in Entries /\ [record |-> n, new |-> n] \in Entries
    BY <1>3 DEF Entries
  <2> QED  BY <1>2, <1>4, <2>1 DEF IInv, TypeOK, Calls
<1>7. \A x \in Directions, m \in modes : Is(n, x, "done") => m = Post(x)
  BY <1>1, <1>3 DEF IInv, DiskInv
<1>8. \A i, d, p : Is(i, d, p)' <=> Is(i, d, p)
  BY <1>2 DEF Is
<1>9. JournalExplains'
  <2> SUFFICES ASSUME NEW e \in disk', NEW m \in modes'
               PROVE  /\ e.record # 0 => inode'[e.record].data = "durable"
                      /\ e.record = 0 => m = "0775"
                      /\ \A x \in Directions : Is(e.record, x, "done")' => m = Post(x)
    BY DEF JournalExplains
  <2>1. CASE e \in disk
    BY <1>2, <1>8, <2>1 DEF IInv, JournalExplains
  <2>2. CASE e.record = n
    BY <1>2, <1>3, <1>7, <1>8, <2>2
  <2> QED  BY <1>5, <2>1, <2>2
<1>10. DiskInv'
  <2>1. Follows(r, n)'
    BY <1>2, <1>3 DEF Follows, Is, Other
  <2>2. \E q \in {0} \cup Inodes :
           (q = dir'.record \/ Follows(q, dir.record)')
              /\ \A e \in disk' : e.record \in {q, dir'.record}
    <3>1. dir'.record = n
      BY <1>2
    <3>2. Follows(r, dir.record)'
      BY <2>1, <3>1
    <3>3. \A e \in disk' : e.record \in {r, dir'.record}
      BY <1>3, <1>5, <3>1
    <3> QED  BY <1>3, <3>2, <3>3
  <2>3. ASSUME NEW e \in disk', e.new # 0
        PROVE  e.new = e.record \/ Follows(e.record, e.new)'
    <3>1. CASE e \in disk
      <4>1. e.new = e.record \/ Follows(e.record, e.new)
        BY <2>3, <3>1 DEF IInv, DiskInv
      <4>2. Follows(e.record, e.new)' <=> Follows(e.record, e.new)
        BY <1>2 DEF Follows, Is, Other
      <4> QED  BY <4>1, <4>2
    <3>2. CASE e.record = n /\ e.new \in {0, n}
      BY <2>3, <3>2
    <3> QED  BY <1>5, <3>1, <3>2
  <2>4. ASSUME NEW e \in disk', NEW x \in Directions, NEW m \in modes',
               Is(e.new, x, "done")'
        PROVE  m = Post(x)
    <3>1. Is(e.new, x, "done") /\ m \in modes
      BY <1>2, <1>8, <2>4
    <3>2. CASE e \in disk
      BY <3>1, <3>2 DEF IInv, DiskInv
    <3>3. CASE e.new \in {0, n}
      BY <1>7, <3>1, <3>3 DEF Is
    <3> QED  BY <1>5, <3>2, <3>3
  <2> QED  BY <2>2, <2>3, <2>4 DEF DiskInv
<1>11. Place'
  BY <1>2 DEF Place
<1>12. Purpose'
  <2>1. then = "mutate" => Is(n, direction, "pending")
    BY <1>1, <1>2 DEF IInv, Purpose
  <2> QED  BY <1>2, <2>1 DEF Purpose, Is
<1>13. Blocked'
  <2>1. CASE then = "decide"
    <3>1. blocked = Is(n, Other(direction), "pending")
      BY <1>1, <1>2, <2>1 DEF IInv, Blocked
    <3>2. Barred' = Is(n, Other(direction), "pending")
      BY <1>2, <1>3 DEF Barred, Is, Other
    <3>3. blocked' = Barred'
      BY <1>2, <3>1, <3>2
    <3> QED  BY <1>2, <2>1, <3>3 DEF Blocked
  <2>2. CASE then # "decide"
    BY <1>2, <2>2 DEF IInv, Blocked
  <2> QED  BY <2>1, <2>2
<1>14. RefusedWhenForbidden'
  BY <1>2 DEF IInv, RefusedWhenForbidden
<1> QED  BY <1>6, <1>9, <1>10, <1>11, <1>12, <1>13, <1>14 DEF IInv

LEMMA SyncDirectoryStep == IInv /\ SyncDirectory => IInv'
<1> SUFFICES ASSUME IInv, SyncDirectory PROVE IInv'
  OBVIOUS
<1>1. /\ pc = "dirsync" /\ disk' = {dir} /\ dir \in disk /\ dir.new = 0
      /\ UNCHANGED <<inode, dir, mode, modes, then, direction, blocked>>
      /\ then \in {"decide", "mutate", "return"}
  BY DEF SyncDirectory, target, End, Goto, IInv, TypeOK, Place
<1>2. \/ then = "return" /\ pc' = "idle" /\ outcome' = "ok"
      \/ then # "return" /\ pc' = then /\ outcome' = outcome
  BY DEF SyncDirectory, End, Goto
<1>3. TypeOK'
  BY <1>1, <1>2 DEF IInv, TypeOK, Calls
<1>4. JournalExplains' /\ DiskInv'
  BY <1>1, <1>3, LessUncertain DEF SaysTheSame
<1>5. Place'
  BY <1>1, <1>2 DEF Place, Settled
<1>6. Purpose'
  BY <1>1, <1>2 DEF IInv, Purpose, Is
<1>7. Blocked'
  <2>1. then = "decide" => blocked = Barred
    BY <1>1 DEF IInv, Blocked
  <2>2. Barred' = Barred
    BY <1>1 DEF Barred, Is, Other
  <2>3. then # "decide" => ~blocked
    BY <1>1 DEF IInv, Blocked
  <2> QED  BY <1>1, <1>2, <2>1, <2>2, <2>3 DEF Blocked
<1>8. RefusedWhenForbidden'
  BY <1>1, <1>2 DEF IInv, RefusedWhenForbidden, Blocked
<1> QED  BY <1>3, <1>4, <1>5, <1>6, <1>7, <1>8 DEF IInv

-----------------------------------------------------------------------------
(* The steps of the directory, and the loss of power.                      *)

LEMMA MutateStep == IInv /\ Mutate => IInv'
<1> SUFFICES ASSUME IInv, Mutate PROVE IInv'
  OBVIOUS
<1>1. /\ pc = "mutate" /\ mode' = Post(direction) /\ modes' = modes \cup {mode'}
      /\ pc' = "targetsync"
      /\ UNCHANGED <<inode, dir, disk, then, direction, outcome, blocked>>
  BY DEF Mutate, Goto, journal
<1>2. /\ disk = {dir} /\ dir \in disk /\ dir.new = 0 /\ Is(dir.record, direction, "pending")
      /\ direction \in Directions /\ ~blocked
  BY <1>1 DEF IInv, TypeOK, Place, Settled, Purpose, Blocked
<1>3. TypeOK'
  BY <1>1, <1>2, OtherDirection DEF IInv, TypeOK, Calls
<1>4. JournalExplains'
  <2> SUFFICES ASSUME NEW e \in disk', NEW m \in modes'
               PROVE  /\ e.record # 0 => inode'[e.record].data = "durable"
                      /\ e.record = 0 => m = "0775"
                      /\ \A x \in Directions : Is(e.record, x, "done")' => m = Post(x)
    BY DEF JournalExplains
  <2>1. e = dir /\ mode \in modes
    BY <1>1, <1>2 DEF IInv, TypeOK
  <2>2. inode[dir.record].data = "durable"
    BY <1>2, <2>1 DEF IInv, JournalExplains, Is
  <2> QED  BY <1>1, <1>2, <2>1, <2>2 DEF Is
<1>5. DiskInv'
  <2>1. \A e \in disk' : e.new = 0 /\ e.record = dir.record
    BY <1>1, <1>2
  <2> QED  BY <1>1, <1>2, <2>1, EntryTypes DEF IInv, DiskInv, Is
<1>6. Place' /\ Purpose' /\ Blocked' /\ RefusedWhenForbidden'
  BY <1>1, <1>2 DEF IInv, Place, Settled, Purpose, Is, Blocked, RefusedWhenForbidden
<1> QED  BY <1>3, <1>4, <1>5, <1>6 DEF IInv

LEMMA SyncTargetStep == IInv /\ (SyncTarget \/ Verify) => IInv'
<1> SUFFICES ASSUME IInv, SyncTarget \/ Verify PROVE IInv'
  OBVIOUS
<1>1. /\ modes' = {mode} /\ mode \in modes /\ mode' = mode
      /\ UNCHANGED <<inode, dir, disk, direction, outcome, blocked>>
      /\ \/ pc = "targetsync" /\ pc' = "verify" /\ then' = then
         \/ pc = "verify" /\ pc' = "create" /\ then' = "return" /\ mode = Post(direction)
  BY DEF SyncTarget, Verify, Goto, journal, IInv, TypeOK
<1>2. /\ Settled /\ dir.new = 0 /\ Is(dir.record, direction, "pending") /\ ~blocked
  BY <1>1 DEF IInv, Place, Purpose, Blocked
<1>3. TypeOK'
  BY <1>1 DEF IInv, TypeOK, Calls
<1>4. JournalExplains' /\ DiskInv'
  BY <1>1, <1>3, LessUncertain DEF SaysTheSame
<1>5. Place' /\ Purpose' /\ Blocked' /\ RefusedWhenForbidden'
  BY <1>1, <1>2 DEF IInv, Place, Settled, Purpose, Is, Blocked, RefusedWhenForbidden
<1> QED  BY <1>3, <1>4, <1>5 DEF IInv

LEMMA PowerLossStep == IInv /\ PowerLoss => IInv'
<1> SUFFICES ASSUME IInv, PowerLoss PROVE IInv'
  OBVIOUS
<1>1. /\ dir' \in disk /\ disk' = {dir'} /\ mode' \in modes /\ modes' = {mode'}
      /\ pc' = "idle" /\ outcome' \in {outcome, "failed"}
      /\ UNCHANGED <<direction, then, blocked>>
  BY DEF PowerLoss
<1>2. PICK torn \in SUBSET Inodes :
         inode' = [i \in Inodes |->
             IF inode[i].data # "cached" THEN inode[i]
             ELSE [inode[i] EXCEPT !.data = IF i \in torn THEN "torn" ELSE "durable"]]
  BY DEF PowerLoss
<1>3. ASSUME NEW i \in Inodes
      PROVE  /\ SaysTheSame(i) /\ inode'[i] \in Files
             /\ inode[i].data = "durable" => inode'[i].data = "durable"
  <2>1. inode[i] \in Files
    BY FileTypes DEF IInv
  <2>2. CASE inode[i].data # "cached"
    BY <1>2, <2>1, <2>2 DEF SaysTheSame
  <2>3. CASE inode[i].data = "cached"
    <3> DEFINE data == IF i \in torn THEN "torn" ELSE "durable"
    <3>1. inode'[i] = [inode[i] EXCEPT !.data = data] /\ data \in {"torn", "durable"}
      BY <1>2, <2>3
    <3> HIDE DEF data
    <3> QED  BY <2>1, <2>3, <3>1 DEF Files, SaysTheSame
  <2> QED  BY <2>2, <2>3
<1>4. TypeOK'
  <2>1. inode' \in [Inodes -> Files]
    BY <1>2, <1>3
  <2> QED  BY <1>1, <2>1 DEF IInv, TypeOK, Calls
<1>5. JournalExplains' /\ DiskInv'
  <2>1. \A e \in disk' : e.record \in {0} \cup Inodes
    BY <1>1, EntryTypes DEF IInv
  <2> QED  BY <1>1, <1>3, <1>4, <2>1, LessUncertain
<1>6. Place' /\ Purpose' /\ Blocked' /\ RefusedWhenForbidden'
  BY <1>1 DEF IInv, Place, Purpose, Blocked, RefusedWhenForbidden
<1> QED  BY <1>4, <1>5, <1>6 DEF IInv

LEMMA NextInv == IInv /\ [Next]_vars => IInv'
<1> SUFFICES ASSUME IInv, [Next]_vars PROVE IInv'
  OBVIOUS
<1>1. CASE \E d \in Directions : Begin(d)
  BY <1>1, BeginStep
<1>2. CASE NothingToRecover \/ Promote \/ RefuseJournal \/ Fail
  BY <1>2, NothingToRecoverStep, PromoteStep, RefuseJournalStep, FailStep
<1>3. CASE AlreadyDone \/ RefuseDirection \/ WritePending \/ Resume
  BY <1>3, DecideStep, WritePendingStep, ResumeStep
<1>4. CASE Discard \/ CreateRecord \/ Rename \/ SyncDirectory
  BY <1>4, DiscardStep, CreateRecordStep, RenameStep, SyncDirectoryStep
<1>5. CASE WriteRecord
  BY <1>5, DataStep DEF WriteRecord, Goto, target
<1>6. CASE SyncFile
  BY <1>6, DataStep DEF SyncFile, Goto, target
<1>7. CASE Mutate \/ SyncTarget \/ Verify \/ PowerLoss
  BY <1>7, MutateStep, SyncTargetStep, PowerLossStep
<1>8. CASE UNCHANGED vars
  <2>1. UNCHANGED <<inode, dir, disk, mode, modes, pc, direction, then, outcome, blocked>>
    BY <1>8 DEF vars, journal, target
  <2>2. Place' /\ Purpose' /\ RefusedWhenForbidden'
    BY <2>1 DEF IInv, Place, Settled, Purpose, Fresh, Is, Other, RefusedWhenForbidden
  <2>3. Blocked'
    BY <2>1 DEF IInv, Blocked, Barred, Forbidden, Torn, Unfinished, SameBytes, Is, Other
  <2> QED  BY <2>1, <2>2, <2>3, ControlStep DEF IInv, TypeOK, journal, target
<1> QED  BY <1>1, <1>2, <1>3, <1>4, <1>5, <1>6, <1>7, <1>8 DEF Next

-----------------------------------------------------------------------------
(* The theorems.                                                           *)

(* The journal directory and the run keep to the invariant, with failures   *)
(* and power losses anywhere (dataTransaction.run, syncRecord).             *)
THEOREM TransactionInvariant == Spec => []IInv
<1>1. Init => IInv
  BY InitInv
<1>2. IInv /\ [Next]_vars => IInv'
  BY NextInv
<1> QED  BY <1>1, <1>2, PTL DEF Spec

(* Whatever a power loss leaves, the record can be read and explains every  *)
(* mode the directory may have (the order of the calls of syncRecord and of *)
(* the mutation).                                                           *)
THEOREM JournalAlwaysExplains == Spec => []JournalExplains
<1>1. IInv => JournalExplains
  BY DEF IInv
<1> QED  BY <1>1, TransactionInvariant, PTL

(* A run is refused exactly when the journal it began with forbids it, and  *)
(* none that is forbidden writes a record or changes the mode (recovery in  *)
(* dataTransaction.run).                                                    *)
THEOREM RefusalIsRight == Spec => []RefusedWhenForbidden
<1>1. IInv => RefusedWhenForbidden
  BY DEF IInv
<1> QED  BY <1>1, TransactionInvariant, PTL

-----------------------------------------------------------------------------
(* The refinement.                                                         *)

PhaseNames == {"open", "applying", "private", "rolling back"}

LEMMA PhaseOfEntry ==
    ASSUME TypeOK, NEW i \in {0} \cup Inodes
    PROVE  /\ PhaseOf(i) \in PhaseNames
           /\ PhaseOf(i) = "open" <=> i = 0 \/ Is(i, "rollback", "done")
           /\ PhaseOf(i) = "applying" <=> Is(i, "apply", "pending")
           /\ PhaseOf(i) = "private" <=> Is(i, "apply", "done")
           /\ PhaseOf(i) = "rolling back" <=> Is(i, "rollback", "pending")
<1>1. CASE i = 0
  BY <1>1 DEF PhaseOf, PhaseNames, Is
<1>2. CASE i # 0
  <2>1. i \in Inodes
    BY <1>2
  <2>2. /\ inode[i].direction \in {"apply", "rollback"}
        /\ inode[i].phase \in {"pending", "done"}
    BY <2>1, FileTypes DEF Directions, Phases
  <2> QED  BY <1>2, <2>2 DEF PhaseOf, PhaseNames, Is
<1> QED  BY <1>1, <1>2

\* The next entry is the next phase.
LEMMA FollowsPhase ==
    ASSUME TypeOK, NEW r \in {0} \cup Inodes, NEW n \in {0} \cup Inodes, Follows(r, n)
    PROVE  PhaseOf(n) = Abstract!Successor[PhaseOf(r)] /\ PhaseOf(n) # PhaseOf(r)
<1>1. \/ PhaseOf(r) = "open" /\ PhaseOf(n) = "applying"
      \/ PhaseOf(r) = "applying" /\ PhaseOf(n) = "private"
      \/ PhaseOf(r) = "private" /\ PhaseOf(n) = "rolling back"
      \/ PhaseOf(r) = "rolling back" /\ PhaseOf(n) = "open"
  BY PhaseOfEntry DEF Follows, Directions, Other
<1> QED  BY <1>1 DEF Abstract!Successor

\* In a phase without a change the mode is certain.
LEMMA PhaseModes ==
    ASSUME IInv, NEW e \in disk, PhaseOf(e.record) \in {"open", "private"}
    PROVE  modes = {Abstract!ModeOf[PhaseOf(e.record)]}
<1>1. mode \in modes /\ e.record \in {0} \cup Inodes
  BY EntryTypes DEF IInv, TypeOK
<1>2. CASE PhaseOf(e.record) = "open"
  <2>1. \A m \in modes : m = "0775"
    BY <1>1, <1>2, PhaseOfEntry DEF IInv, JournalExplains, Directions, Post
  <2> QED  BY <1>1, <1>2, <2>1 DEF Abstract!ModeOf
<1>3. CASE PhaseOf(e.record) = "private"
  <2>1. \A m \in modes : m = "0700"
    BY <1>1, <1>3, PhaseOfEntry DEF IInv, JournalExplains, Directions, Post
  <2> QED  BY <1>1, <1>3, <2>1 DEF Abstract!ModeOf
<1> QED  BY <1>2, <1>3

\* The phase of the change is that of a record on disk, which the last one is
\* or follows.
LEMMA EarlierRecord ==
    ASSUME IInv
    PROVE  \E r \in {0} \cup Inodes :
              /\ EarlierPhase = PhaseOf(r)
              /\ \E e \in disk : e.record = r
              /\ \A e \in disk : e.record \in {r, dir.record}
              /\ r = dir.record \/ Follows(r, dir.record)
<1>1. PICK r \in {0} \cup Inodes :
         /\ r = dir.record \/ Follows(r, dir.record)
         /\ \A e \in disk : e.record \in {r, dir.record}
  BY DEF IInv, DiskInv
<1>2. dir \in disk /\ dir.record \in {0} \cup Inodes /\ TypeOK
  BY EntryTypes DEF IInv, TypeOK
<1>3. CASE r = dir.record \/ \A e \in disk : e.record = dir.record
  <2>1. PhasesOnDisk = {PhaseOf(dir.record)}
    BY <1>1, <1>2, <1>3 DEF PhasesOnDisk
  <2>2. EarlierPhase = PhaseOf(dir.record)
    BY <2>1 DEF EarlierPhase
  <2> QED  BY <1>1, <1>2, <1>3, <2>2
<1>4. CASE r # dir.record /\ \E e \in disk : e.record # dir.record
  <2>1. \E e \in disk : e.record = r
    BY <1>1, <1>4
  <2>2. PhaseOf(dir.record) # PhaseOf(r)
    BY <1>1, <1>2, <1>4, FollowsPhase
  <2>3. PhasesOnDisk = {PhaseOf(r), PhaseOf(dir.record)}
    BY <1>1, <1>2, <2>1 DEF PhasesOnDisk
  <2>4. EarlierPhase = PhaseOf(r)
    BY <2>2, <2>3 DEF EarlierPhase
  <2> QED  BY <1>1, <2>1, <2>4
<1> QED  BY <1>3, <1>4

LEMMA InitRefines == Init => Abstract!Init
<1> SUFFICES ASSUME Init PROVE Abstract!Init
  OBVIOUS
<1>1. PhasesOnDisk = {"open"} /\ PhaseOf(dir.record) = "open"
  BY DEF Init, PhasesOnDisk, PhaseOf
<1> QED  BY <1>1 DEF Init, Abstract!Init, EarlierPhase

\* What the abstract change asks of the modes outside a change.
Certain == EarlierPhase \in {"open", "private"} => modes = {Abstract!ModeOf[EarlierPhase]}

LEMMA ModesAreCertain == IInv => Certain
<1> SUFFICES ASSUME IInv, EarlierPhase \in {"open", "private"}
             PROVE  modes = {Abstract!ModeOf[EarlierPhase]}
  BY DEF Certain
<1>1. PICK r \in {0} \cup Inodes :
         EarlierPhase = PhaseOf(r) /\ \E e \in disk : e.record = r
  BY EarlierRecord
<1> QED  BY <1>1, PhaseModes

\* The phase stays: the modes change only on the way.
LEMMA SamePhaseRefines ==
    ASSUME IInv, IInv', Certain', EarlierPhase' = EarlierPhase
    PROVE  [Abstract!Next]_Abstract!vars
<1>1. PICK r \in {0} \cup Inodes : EarlierPhase = PhaseOf(r)
  BY EarlierRecord
<1>2. EarlierPhase \in PhaseNames
  BY <1>1, PhaseOfEntry DEF IInv
<1>3. CASE EarlierPhase \in {"applying", "rolling back"}
  <2>1. modes' \in (SUBSET Abstract!Modes) \ {{}}
    BY DEF IInv, TypeOK, Modes, Abstract!Modes
  <2> QED  BY <1>3, <2>1 DEF Abstract!Next, Abstract!Change, Abstract!InProgress
<1>4. CASE EarlierPhase \in {"open", "private"}
  <2>1. modes' = modes
    BY <1>4, ModesAreCertain DEF Certain
  <2> QED  BY <2>1 DEF Abstract!vars
<1> QED  BY <1>2, <1>3, <1>4 DEF PhaseNames

\* The next phase has come, and cannot be lost again.
LEMMA NextPhaseRefines ==
    ASSUME IInv, IInv', Certain', modes' \subseteq modes,
           NEW r \in {0} \cup Inodes, EarlierPhase = PhaseOf(r),
           Follows(r, dir.record), EarlierPhase' = PhaseOf(dir.record)
    PROVE  Abstract!Next
<1>1. dir \in disk /\ dir.record \in {0} \cup Inodes /\ TypeOK
  BY EntryTypes DEF IInv, TypeOK
<1>2. EarlierPhase' = Abstract!Successor[EarlierPhase] /\ EarlierPhase \in PhaseNames
  BY <1>1, FollowsPhase, PhaseOfEntry
<1>3. mode' \in modes'
  BY DEF IInv, TypeOK
<1>4. CASE EarlierPhase \in {"open", "private"}
  <2>1. modes' = modes
    BY <1>3, <1>4, ModesAreCertain DEF Certain
  <2> QED  BY <1>2, <1>4, <2>1 DEF Abstract!Next, Abstract!Start, Abstract!InProgress
<1>5. CASE EarlierPhase \in {"applying", "rolling back"}
  <2>1. EarlierPhase' \in {"open", "private"}
    BY <1>2, <1>5 DEF Abstract!Successor
  <2>2. modes = {Abstract!ModeOf[PhaseOf(dir.record)]}
    BY <1>1, <2>1, PhaseModes
  <2>3. modes' = modes
    BY <1>3, <2>2
  <2> QED  BY <1>2, <1>5, <2>2, <2>3 DEF Abstract!Next, Abstract!Finish, Abstract!InProgress
<1> QED  BY <1>2, <1>4, <1>5 DEF PhaseNames

\* The records on disk stay, and what they say.
LEMMA SamePhase ==
    ASSUME IInv, dir'.record = dir.record,
           {e.record : e \in disk'} = {e.record : e \in disk},
           \A e \in disk : e.record = 0 \/ SaysTheSame(e.record)
    PROVE  EarlierPhase' = EarlierPhase
<1>1. ASSUME NEW i, i = 0 \/ SaysTheSame(i)
      PROVE  PhaseOf(i)' = PhaseOf(i)
  BY <1>1 DEF PhaseOf, Is, SaysTheSame
<1> DEFINE records == {e.record : e \in disk}
<1>2. PhasesOnDisk = {PhaseOf(i) : i \in records}
  BY DEF PhasesOnDisk
<1>3. PhasesOnDisk' = {PhaseOf(i)' : i \in records'}
  BY DEF PhasesOnDisk
<1>4. \A i \in records : PhaseOf(i)' = PhaseOf(i)
  BY <1>1
<1>5. PhasesOnDisk' = PhasesOnDisk
  BY <1>2, <1>3, <1>4
<1>6. PhaseOf(dir.record)' = PhaseOf(dir.record)
  <2>1. PICK k : k = dir.record
    OBVIOUS
  <2>2. dir \in disk
    BY DEF IInv, TypeOK
  <2>3. PhaseOf(k)' = PhaseOf(k)
    BY <1>1, <2>1, <2>2
  <2> QED  BY <2>1, <2>3
<1> QED  BY <1>5, <1>6 DEF EarlierPhase

\* A rename adds a phase that may still be lost.
LEMMA RenamePhase == IInv /\ Rename => EarlierPhase' = EarlierPhase
<1> SUFFICES ASSUME IInv, Rename PROVE EarlierPhase' = EarlierPhase
  OBVIOUS
<1>1. PICK r, n : r = dir.record /\ n = dir.new
  OBVIOUS
<1>2. /\ dir' = [record |-> n, new |-> 0]
      /\ disk' = disk \cup {dir', [dir EXCEPT !.record = n]}
      /\ inode' = inode
      /\ dir \in disk /\ \A e \in disk : e.record = r
      /\ dir.new # 0 /\ dir.new # dir.record
  BY <1>1 DEF Rename, IInv, TypeOK, Place
<1>3. /\ r \in {0} \cup Inodes /\ n \in {0} \cup Inodes /\ Follows(r, n)
      /\ [dir EXCEPT !.record = n] = [record |-> n, new |-> n]
  BY <1>1, <1>2, EntryTypes, NewEntry DEF IInv
<1>4. \A i : PhaseOf(i)' = PhaseOf(i)
  BY <1>2 DEF PhaseOf, Is
<1>5. PhasesOnDisk = {PhaseOf(r)} /\ EarlierPhase = PhaseOf(r)
  BY <1>1, <1>2 DEF PhasesOnDisk, EarlierPhase
<1>6. PhasesOnDisk' = {PhaseOf(r), PhaseOf(n)}
  BY <1>1, <1>2, <1>3, <1>4 DEF PhasesOnDisk
<1>7. PhaseOf(dir.record)' = PhaseOf(n)
  BY <1>2, <1>4
<1>8. PhaseOf(n) # PhaseOf(r)
  BY <1>3, FollowsPhase DEF IInv
<1>9. EarlierPhase' = PhaseOf(r)
  BY <1>6, <1>7, <1>8 DEF EarlierPhase
<1> QED  BY <1>5, <1>9

\* What is settled, by a sync or by a loss, is this phase or the next.
LEMMA SettledRefines ==
    ASSUME IInv, IInv', Certain', dir' \in disk, disk' = {dir'}, modes' \subseteq modes,
           \A i \in Inodes : SaysTheSame(i)
    PROVE  [Abstract!Next]_Abstract!vars
<1>1. PICK r \in {0} \cup Inodes :
         /\ EarlierPhase = PhaseOf(r)
         /\ \A e \in disk : e.record \in {r, dir.record}
         /\ r = dir.record \/ Follows(r, dir.record)
  BY EarlierRecord
<1>2. PICK k : k = dir'.record
  OBVIOUS
<1>3. k \in {0} \cup Inodes /\ k \in {r, dir.record}
  BY <1>1, <1>2, EntryTypes DEF IInv
<1>4. PhaseOf(k)' = PhaseOf(k)
  BY <1>3 DEF PhaseOf, Is, SaysTheSame
<1>5. EarlierPhase' = PhaseOf(k)
  <2>1. PhaseOf(dir.record)' = PhaseOf(k)
    BY <1>2, <1>4
  <2>2. PhasesOnDisk' = {PhaseOf(dir.record)'}
    BY DEF PhasesOnDisk
  <2> QED  BY <2>1, <2>2 DEF EarlierPhase
<1>6. CASE k = r
  BY <1>1, <1>5, <1>6, SamePhaseRefines
<1>7. CASE k = dir.record /\ k # r
  BY <1>1, <1>5, <1>7, NextPhaseRefines
<1> QED  BY <1>3, <1>6, <1>7

LEMMA NextRefines ==
    ASSUME IInv, IInv', Certain', [Next]_vars
    PROVE  [Abstract!Next]_Abstract!vars
<1>1. dir \in disk /\ mode \in modes
  BY DEF IInv, TypeOK
<1>2. CASE (\E d \in Directions : Begin(d)) \/ SyncDirectory
  <2>1. disk' = {dir} /\ UNCHANGED <<inode, dir, modes>>
    BY <1>2 DEF Begin, SyncDirectory, target
  <2> QED  BY <1>1, <2>1, SettledRefines DEF SaysTheSame
<1>3. CASE PowerLoss
  <2>1. \A i \in Inodes : SaysTheSame(i)
    <3> TAKE i \in Inodes
    <3>1. inode[i] \in Files
      BY FileTypes DEF IInv
    <3> QED  BY <1>3, <3>1 DEF PowerLoss, SaysTheSame, Files
  <2> QED  BY <1>3, <2>1, SettledRefines DEF PowerLoss
<1>4. CASE Rename
  BY <1>4, RenamePhase, SamePhaseRefines
<1>5. CASE CreateRecord
  <2>1. PICK i \in Inodes \ {dir.record} :
           /\ \E file : inode' = [inode EXCEPT ![i] = file]
           /\ dir' = [dir EXCEPT !.new = i]
    BY <1>5 DEF CreateRecord
  <2>2. disk = {dir} /\ disk' = disk \cup {dir'}
    BY <1>5 DEF CreateRecord, IInv, Place, Settled
  <2>3. dir'.record = dir.record
    BY <2>1, <1>1, EntryTypes DEF IInv
  <2>4. dir.record = 0 \/ SaysTheSame(dir.record)
    BY <1>1, <2>1, EntryTypes DEF IInv, TypeOK, SaysTheSame
  <2> QED  BY <2>2, <2>3, <2>4, SamePhase, SamePhaseRefines
<1>6. CASE Discard
  <2>1. dir' = [dir EXCEPT !.new = 0] /\ disk' = disk \cup {dir'} /\ inode' = inode
    BY <1>6 DEF Discard
  <2>2. dir'.record = dir.record
    BY <2>1, <1>1, EntryTypes DEF IInv
  <2> QED  BY <1>1, <2>1, <2>2, SamePhase, SamePhaseRefines DEF SaysTheSame
<1>7. CASE WriteRecord \/ SyncFile
  <2>1. /\ \E data \in {"cached", "durable"} : inode' = [inode EXCEPT ![dir.new].data = data]
        /\ UNCHANGED <<dir, disk>>
        /\ dir.new # dir.record /\ \A e \in disk : e.record = dir.record
    BY <1>7 DEF WriteRecord, SyncFile, IInv, Place
  <2>2. dir.record = 0 \/ SaysTheSame(dir.record)
    BY <1>1, <2>1, EntryTypes DEF IInv, TypeOK, SaysTheSame
  <2> QED  BY <2>1, <2>2, SamePhase, SamePhaseRefines
<1>8. CASE UNCHANGED journal
  <2>1. UNCHANGED <<inode, dir, disk>>
    BY <1>8 DEF journal
  <2> QED  BY <2>1, SamePhase, SamePhaseRefines DEF SaysTheSame
<1> QED
  BY <1>2, <1>3, <1>4, <1>5, <1>6, <1>7, <1>8
     DEF Next, NothingToRecover, Promote, RefuseJournal, AlreadyDone, WritePending, Resume,
         RefuseDirection, Mutate, SyncTarget, Verify, Fail, vars

(* The transaction implements the change that cannot be half done: however  *)
(* calls fail and the power goes, the directory goes from open to private   *)
(* and back through changes that are announced in the journal first and     *)
(* called done only when no power loss can take them back.                  *)
THEOREM TransactionImplementsDurableChange == Spec => ImplementsDurableChange
<1>1. Init => Abstract!Init
  BY InitRefines
<1>2. IInv /\ IInv' /\ Certain' /\ [Next]_vars => [Abstract!Next]_Abstract!vars
  BY NextRefines
<1> QED
  BY <1>1, <1>2, TransactionInvariant, ModesAreCertain, PTL
     DEF Spec, ImplementsDurableChange, Abstract!Spec
=============================================================================
