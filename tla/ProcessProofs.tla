---------------------------- MODULE ProcessProofs ----------------------------
(***************************************************************************)
(* Proofs about what may end the process, and what may replace it: Updater *)
(* and Gateway, for any number of callers, releases, kept backups,         *)
(* antennas, browsers and requests for the status.                         *)
(*                                                                         *)
(* There is always a binary or a backup to go back to, and an update that  *)
(* says it was rolled back left the binary it found.  Both rest on two     *)
(* facts: the flag keeps all callers but one in front of Claim, and from   *)
(* the end of its copy on the newest backup is that of the binary this     *)
(* caller found, under the one name a rollback looks for.                  *)
(*                                                                         *)
(* No step of the shutdown, of a browser or of an antenna ends the program *)
(* with a panic, and a browser that left is on no list.  The channel of a  *)
(* client is open until the server closes it, once; the list of the bus    *)
(* has each handler once.                                                  *)
(***************************************************************************)
EXTENDS Updater, Gateway, SequenceTheorems, TLAPS

Files == [version : Int, whole : BOOLEAN, executable : BOOLEAN]
Backups == [name : Int, version : Int, whole : BOOLEAN]

Early == {"release", "download", "backup"}
Late == {"remove", "rename", "chmod", "rollback", "restore", "restored", "cleanup"}
Labels == {"idle", "claim", "copy"} \cup Early \cup Late

FilesOK ==
    /\ binary \in Files /\ download \in Files /\ before \in Files
    /\ running \in Int /\ latest \in Int
    /\ release \in [Callers -> Int]
    /\ backups \in Seq(Backups)
    /\ pc \in [Callers -> Labels]
    /\ poisoned \in BOOLEAN /\ updating \in BOOLEAN

\* A name is that of one backup.
NamesOK == \A i, j \in 1 .. Len(backups) : backups[i].name = backups[j].name => i = j

\* One caller has the flag.
FlagOK ==
    /\ \A c \in Callers : pc[c] \notin {"idle", "claim"} => updating = TRUE
    /\ \A c, d \in Callers :
          pc[c] \notin {"idle", "claim"} /\ pc[d] \notin {"idle", "claim"} => c = d
    /\ running = None => \A c \in Callers : pc[c] = "idle"

\* What the caller with the flag found, and what it has saved of it.
FoundOK ==
    \A c \in Callers :
        /\ pc[c] \in Early \cup {"copy", "remove"} => binary = before
        /\ pc[c] \in {"copy"} \cup Late => poisoned \/ before.whole
        /\ pc[c] \in Late => /\ Len(backups) > 0
                             /\ backups[Len(backups)] = BackupOf(before)

WholeOK ==
    ~poisoned => binary.whole \/ \E i \in 1 .. Len(backups) : backups[i].whole

OutcomeOK ==
    outcome = "rolled back" =>
        /\ updating = FALSE
        /\ running # None
        /\ binary = File(before.version, before.whole, TRUE)

Free == {"idle", "claim"}

UpdaterInv == FilesOK /\ NamesOK /\ FlagOK /\ FoundOK /\ WholeOK /\ OutcomeOK

-----------------------------------------------------------------------------
(* The list of backups.                                                    *)

LEMMA RemoveAtProperties ==
    ASSUME NEW S, NEW s \in Seq(S), NEW i \in 1 .. Len(s)
    PROVE  /\ RemoveAt(s, i) \in Seq(S)
           /\ Len(RemoveAt(s, i)) = Len(s) - 1
           /\ \A j \in 1 .. (Len(s) - 1) :
                 RemoveAt(s, i)[j] = IF j < i THEN s[j] ELSE s[j + 1]
<1> DEFINE front == SubSeq(s, 1, i - 1)
           rest == SubSeq(s, i + 1, Len(s))
<1>1. /\ front \in Seq(S) /\ Len(front) = i - 1
      /\ \A j \in 1 .. (i - 1) : front[j] = s[j]
  BY LenProperties, SubSeqProperties, ElementOfSeq
<1>2. /\ rest \in Seq(S) /\ Len(rest) = Len(s) - i
      /\ \A j \in 1 .. (Len(s) - i) : rest[j] = s[j + i]
  BY LenProperties, SubSeqProperties, ElementOfSeq
<1> HIDE DEF front, rest
<1>3. RemoveAt(s, i) = front \o rest
  BY DEF RemoveAt, front, rest
<1>4. Len(s) \in Nat
  BY LenProperties
<1>5. /\ front \o rest \in Seq(S)
      /\ Len(front \o rest) = Len(front) + Len(rest)
      /\ \A j \in 1 .. (Len(front) + Len(rest)) :
            (front \o rest)[j] = IF j <= Len(front) THEN front[j]
                                 ELSE rest[j - Len(front)]
  BY <1>1, <1>2, ConcatProperties
<1>6. ASSUME NEW j \in 1 .. (Len(s) - 1)
      PROVE  (front \o rest)[j] = IF j < i THEN s[j] ELSE s[j + 1]
  <2>1. CASE j < i
    BY <1>1, <1>2, <1>4, <1>5, <2>1
  <2>2. CASE ~(j < i)
    <3>1. j - (i - 1) \in 1 .. (Len(s) - i) /\ (j - (i - 1)) + i = j + 1
      BY <1>4, <2>2
    <3>2. (front \o rest)[j] = rest[j - (i - 1)]
      BY <1>1, <1>2, <1>4, <1>5, <2>2
    <3> QED  BY <1>2, <2>2, <3>1, <3>2
  <2> QED  BY <2>1, <2>2
<1> QED  BY <1>1, <1>2, <1>3, <1>4, <1>5, <1>6

\* The other files have another name, and differ from each other.
LEMMA OthersProperties ==
    ASSUME backups \in Seq(Backups), NamesOK
    PROVE  /\ Others \in Seq(Backups)
           /\ \A i \in 1 .. Len(Others) : Others[i].name # running
           /\ \A i, j \in 1 .. Len(Others) : Others[i].name = Others[j].name => i = j
<1>1. CASE \E i \in 1 .. Len(backups) : Named(backups[i])
  <2>1. PICK k \in 1 .. Len(backups) : backups[k].name = running
    BY <1>1 DEF Named
  <2>2. Others = RemoveAt(backups, k)
    <3> DEFINE I == {i \in 1 .. Len(backups) : Named(backups[i])}
    <3>1. I = {k}
      BY <2>1 DEF Named, NamesOK
    <3>2. Min(I) = k
      BY <3>1 DEF Min
    <3> QED  BY <1>1, <3>1, <3>2 DEF Others, RemoveFirstMatch, SelectInSeq
  <2>3. /\ Others \in Seq(Backups)
        /\ Len(Others) = Len(backups) - 1
        /\ \A j \in 1 .. (Len(backups) - 1) :
              Others[j] = IF j < k THEN backups[j] ELSE backups[j + 1]
    BY <2>1, <2>2, RemoveAtProperties
  <2>4. Len(backups) \in Nat
    BY LenProperties
  <2> DEFINE o == Others
             at(j) == IF j < k THEN j ELSE j + 1
  <2>5. ASSUME NEW j \in 1 .. Len(o)
        PROVE  at(j) \in 1 .. Len(backups) /\ at(j) # k /\ o[j] = backups[at(j)]
    BY <2>1, <2>3, <2>4
  <2>6. \A i, j \in 1 .. Len(o) : at(i) = at(j) => i = j
    BY <2>1, <2>3, <2>4
  <2> HIDE DEF o, at
  <2>7. \A j \in 1 .. Len(o) : o[j].name # running
    BY <2>1, <2>5 DEF NamesOK
  <2>8. \A i, j \in 1 .. Len(o) : o[i].name = o[j].name => i = j
    BY <2>5, <2>6 DEF NamesOK
  <2> QED  BY <2>3, <2>7, <2>8 DEF o
<1>2. CASE ~ \E i \in 1 .. Len(backups) : Named(backups[i])
  BY <1>2, LenProperties DEF Others, RemoveFirstMatch, Named, NamesOK
<1> QED  BY <1>1, <1>2

\* A backup is the newest, and the only of its name.
LEMMA AppendedBackup ==
    ASSUME FilesOK, NamesOK, NEW f \in Files,
           backups' = Append(Others, BackupOf(f))
    PROVE  /\ backups' \in Seq(Backups)
           /\ NamesOK'
           /\ Len(backups') > 0
           /\ backups'[Len(backups')] = BackupOf(f)
<1>1. BackupOf(f) \in Backups /\ BackupOf(f).name = running
  BY DEF BackupOf, FilesOK, Backups, Files
<1>2. /\ Others \in Seq(Backups)
      /\ \A i \in 1 .. Len(Others) : Others[i].name # running
      /\ \A i, j \in 1 .. Len(Others) : Others[i].name = Others[j].name => i = j
  BY OthersProperties DEF FilesOK
<1> DEFINE b == BackupOf(f)
           o == Others
<1>3. /\ Append(o, b) \in Seq(Backups)
      /\ Len(Append(o, b)) = Len(o) + 1
      /\ \A i \in 1 .. Len(o) : Append(o, b)[i] = o[i]
      /\ Append(o, b)[Len(o) + 1] = b
      /\ Len(o) \in Nat
  BY <1>1, <1>2, AppendProperties, LenProperties
<1> HIDE DEF b, o
<1> QED  BY <1>1, <1>2, <1>3 DEF NamesOK, b, o

\* A rollback goes back to the newest backup.
LEMMA RollbackToIsNewest ==
    ASSUME FilesOK, NamesOK, FoundOK, NEW c \in Callers, pc[c] \in Late
    PROVE  RollbackTo = BackupOf(before)
<1> DEFINE n == Len(backups)
<1>1. n \in 1 .. n /\ backups[n] = BackupOf(before) /\ Named(backups[n])
  BY LenProperties DEF FoundOK, FilesOK, BackupOf, Named
<1>2. ToSet(backups) = {backups[i] : i \in 1 .. n}
  BY LenProperties DEF ToSet, FilesOK
<1>3. \A x \in ToSet(backups) : Named(x) => x = backups[n]
  BY <1>1, <1>2 DEF NamesOK, Named
<1> QED  BY <1>1, <1>2, <1>3 DEF RollbackTo

-----------------------------------------------------------------------------
(* What every call of the caller with the flag does to the control.        *)

LEMMA OneCaller ==
    ASSUME FilesOK, FlagOK, NEW c \in Callers, running # None, pc[c] \notin Free,
           NEW l \in Labels, pc' = [pc EXCEPT ![c] = l], running' = running,
           updating' = updating \/ l \in Free, updating' \in BOOLEAN
    PROVE  /\ pc' \in [Callers -> Labels]
           /\ pc'[c] = l
           /\ \A d \in Callers : d # c => pc'[d] = pc[d] /\ pc[d] \in Free
           /\ FlagOK'
<1>1. pc' \in [Callers -> Labels] /\ pc'[c] = l
  BY DEF FilesOK
<1>2. \A d \in Callers : d # c => pc'[d] = pc[d] /\ pc[d] \in Free
  BY DEF FilesOK, FlagOK, Free
<1>3. FlagOK'
  BY <1>1, <1>2 DEF FlagOK, Free
<1> QED  BY <1>1, <1>2, <1>3

LEMMA ProceedKeeps ==
    ASSUME FilesOK, FlagOK, OutcomeOK, NEW c \in Callers, NEW from, At(c, from),
           from \notin Free, NEW l \in Labels \ Free, Goto(c, l),
           updating' = updating, outcome' = outcome
    PROVE  /\ pc' \in [Callers -> Labels]
           /\ pc'[c] = l
           /\ \A d \in Callers : d # c => pc'[d] \in Free
           /\ FlagOK' /\ OutcomeOK'
<1>1. /\ pc' \in [Callers -> Labels]
      /\ pc'[c] = l
      /\ \A d \in Callers : d # c => pc'[d] \in Free
      /\ FlagOK'
  BY OneCaller DEF At, Goto, FilesOK
<1>2. updating = TRUE /\ outcome' = outcome
  BY DEF At, FlagOK, Free
<1>3. OutcomeOK'
  BY <1>2 DEF OutcomeOK
<1> QED  BY <1>1, <1>3

LEMMA ReturnKeeps ==
    ASSUME FilesOK, FlagOK, NEW c \in Callers, NEW from, At(c, from),
           from \notin Free, NEW r, Return(c, r)
    PROVE  /\ pc' \in [Callers -> Labels]
           /\ release' \in [Callers -> Int]
           /\ before' = before /\ updating' = FALSE /\ outcome' = r
           /\ FlagOK' /\ FoundOK'
<1>1. /\ pc' \in [Callers -> Labels]
      /\ pc'[c] = "idle"
      /\ \A d \in Callers : d # c => pc'[d] \in Free
      /\ FlagOK'
  BY OneCaller DEF At, Return, Goto, Labels, Free
<1>2. \A d \in Callers : pc'[d] \in Free
  BY <1>1 DEF Free
<1>3. FoundOK'
  BY <1>2 DEF FoundOK, Free, Early, Late
<1>4. release' \in [Callers -> Int]
  BY DEF Return, None, FilesOK
<1>5. before' = before /\ updating' = FALSE /\ outcome' = r
  BY DEF Return
<1> QED  BY <1>1, <1>3, <1>4, <1>5

\* The conditions on the caller that goes on are those of all.
LEMMA FoundByOne ==
    ASSUME NEW c \in Callers, \A d \in Callers : d # c => pc'[d] \in Free,
           pc'[c] \in Early \cup {"copy", "remove"} => binary' = before',
           pc'[c] \in {"copy"} \cup Late => poisoned' \/ before'.whole,
           pc'[c] \in Late => /\ Len(backups') > 0
                              /\ backups'[Len(backups')] = BackupOf(before)'
    PROVE  FoundOK'
<1>1. \A d \in Callers : d # c => pc'[d] \notin Early \cup Late \cup {"copy", "remove"}
  BY DEF Early, Late, Free
<1> QED  BY <1>1 DEF FoundOK

-----------------------------------------------------------------------------
(* The steps, one lemma each.                                              *)

LEMMA InitInv == Init => UpdaterInv
<1> SUFFICES ASSUME Init
             PROVE  UpdaterInv
  OBVIOUS
<1>1. backups = <<>> /\ Len(backups) = 0 /\ backups \in Seq(Backups)
  BY DEF Init
<1>2. Versions \subseteq Int /\ None \in Int /\ Missing \in Files
  BY UpdaterAssumption DEF Versions, Dev, None, Missing, File, Files
<1>3. binary \in Files /\ binary.whole
  BY <1>2 DEF Init, File, Files
<1>4. FilesOK
  BY <1>1, <1>2, <1>3 DEF Init, FilesOK, Labels
<1>5. FlagOK /\ FoundOK /\ OutcomeOK
  BY DEF Init, FlagOK, FoundOK, OutcomeOK, Early, Late
<1> QED  BY <1>1, <1>3, <1>4, <1>5 DEF UpdaterInv, NamesOK, WholeOK

LEMMA KillInv ==
    ASSUME UpdaterInv, Kill
    PROVE  UpdaterInv'
<1>1. None \in Int /\ Missing \in Files
  BY DEF None, Missing, File, Files
<1>2. FilesOK'
  BY <1>1 DEF Kill, UpdaterInv, FilesOK, Labels
<1>3. FlagOK' /\ FoundOK' /\ OutcomeOK'
  BY DEF Kill, FlagOK, FoundOK, OutcomeOK, Early, Late
<1>4. NamesOK' /\ WholeOK'
  BY DEF Kill, UpdaterInv, NamesOK, WholeOK
<1> QED  BY <1>2, <1>3, <1>4 DEF UpdaterInv

\* Publish, and what happens while no gateway runs.
LEMMA OutsideInv ==
    ASSUME UpdaterInv, Publish \/ Start \/ Reinstall
    PROVE  UpdaterInv'
<1>1. CASE Publish
  <2>1. /\ files' = files /\ running' = running /\ calls' = calls
        /\ poisoned' = poisoned
    BY <1>1 DEF Publish
  <2>2. FilesOK'
    BY <1>1, <2>1 DEF Publish, UpdaterInv, FilesOK, files, calls
  <2>3. NamesOK' /\ WholeOK'
    BY <2>1 DEF UpdaterInv, NamesOK, WholeOK, files
  <2>4. FlagOK' /\ OutcomeOK'
    BY <2>1 DEF UpdaterInv, FlagOK, OutcomeOK, files, calls
  <2>5. FoundOK'
    BY <2>1 DEF UpdaterInv, FoundOK, BackupOf, files, calls
  <2> QED  BY <2>2, <2>3, <2>4, <2>5 DEF UpdaterInv
<1>2. CASE Start \/ Reinstall
  <2>1. /\ running = None /\ \A c \in Callers : pc[c] = "idle"
        /\ calls' = calls /\ backups' = backups /\ download' = download /\ latest' = latest
    BY <1>2 DEF Start, Reinstall, files, calls, UpdaterInv, FlagOK
  <2>2. binary' \in Files /\ running' \in Int /\ poisoned' \in BOOLEAN
    <3>1. binary \in Files /\ running \in Int /\ latest \in Int /\ poisoned \in BOOLEAN
      BY DEF UpdaterInv, FilesOK
    <3>2. binary.version \in Int /\ File(latest, TRUE, TRUE) \in Files
      BY <3>1 DEF File, Files
    <3> QED  BY <1>2, <3>1, <3>2 DEF Start, Reinstall, files
  <2>3. FilesOK'
    BY <2>1, <2>2 DEF calls, UpdaterInv, FilesOK
  <2>4. FlagOK' /\ FoundOK' /\ OutcomeOK'
    BY <2>1 DEF calls, UpdaterInv, FlagOK, FoundOK, OutcomeOK, Early, Late
  <2>5. WholeOK'
    <3>1. CASE Start
      BY <3>1 DEF Start, files, UpdaterInv, WholeOK
    <3>2. CASE Reinstall
      BY <3>2 DEF Reinstall, File, WholeOK
    <3> QED  BY <1>2, <3>1, <3>2
  <2>6. NamesOK'
    BY <2>1 DEF UpdaterInv, NamesOK
  <2> QED  BY <2>3, <2>4, <2>5, <2>6 DEF UpdaterInv
<1> QED  BY <1>1, <1>2

\* Before the flag: the caller that gets it is the only one.
LEMMA ClaimInv ==
    ASSUME UpdaterInv, NEW c \in Callers, Check(c) \/ Claim(c)
    PROVE  UpdaterInv'
<1>1. /\ files' = files /\ running' = running /\ latest' = latest
      /\ release' = release /\ poisoned' = poisoned
      /\ running # None /\ pc[c] \in Free
  BY DEF Check, Claim, At, Proceed, Free
<1>2. NamesOK' /\ WholeOK'
  BY <1>1 DEF files, UpdaterInv, NamesOK, WholeOK
<1>3. CASE /\ pc' = [pc EXCEPT ![c] = "idle"] \/ pc' = [pc EXCEPT ![c] = "claim"]
           /\ updating' = updating /\ outcome' = outcome /\ before' = before
  <2>1. updating' = updating /\ outcome' = outcome /\ before' = before
    BY <1>3
  <2>2. /\ pc' \in [Callers -> Labels]
        /\ pc'[c] \in Free
        /\ \A d \in Callers : d # c => pc'[d] = pc[d]
    BY <1>3 DEF UpdaterInv, FilesOK, Labels, Free
  <2>3. FilesOK'
    BY <1>1, <2>1, <2>2 DEF files, UpdaterInv, FilesOK
  <2>4. FlagOK' /\ FoundOK' /\ OutcomeOK'
    BY <1>1, <2>1, <2>2
       DEF files, UpdaterInv, FlagOK, FoundOK, OutcomeOK, Early, Late, Free, BackupOf
  <2> QED  BY <1>2, <2>3, <2>4 DEF UpdaterInv
<1>4. CASE /\ ~updating /\ pc' = [pc EXCEPT ![c] = "release"]
           /\ updating' = TRUE /\ outcome' = "none" /\ before' = binary
  <2>1. /\ pc' \in [Callers -> Labels]
        /\ pc'[c] = "release"
        /\ \A d \in Callers : d # c => pc'[d] \in Free
    BY <1>4 DEF UpdaterInv, FilesOK, FlagOK, Labels, Early, Free
  <2>2. FilesOK'
    BY <1>1, <1>4, <2>1 DEF files, UpdaterInv, FilesOK
  <2>3. FlagOK' /\ OutcomeOK'
    BY <1>1, <1>4, <2>1 DEF FlagOK, OutcomeOK, Free
  <2>4. FoundOK'
    BY <1>1, <1>4, <2>1, FoundByOne DEF files, Late
  <2> QED  BY <1>2, <2>2, <2>3, <2>4 DEF UpdaterInv
<1> QED  BY <1>3, <1>4 DEF Check, Claim, At, Proceed, Goto

\* A call after which Update returns.
LEMMA ReturnInv ==
    ASSUME UpdaterInv, NEW c \in Callers, NEW from, At(c, from),
           from \notin Free, NEW r, Return(c, r), r # "rolled back",
           binary' \in Files, download' \in Files, backups' \in Seq(Backups),
           poisoned' \in BOOLEAN, NamesOK', WholeOK'
    PROVE  UpdaterInv'
<1>1. /\ pc' \in [Callers -> Labels]
      /\ release' \in [Callers -> Int]
      /\ before' = before /\ updating' = FALSE /\ outcome' = r
      /\ FlagOK' /\ FoundOK'
  BY ReturnKeeps DEF UpdaterInv
<1>2. FilesOK'
  BY <1>1 DEF At, UpdaterInv, FilesOK
<1>3. OutcomeOK'
  BY <1>1 DEF OutcomeOK
<1> QED  BY <1>1, <1>2, <1>3 DEF UpdaterInv

\* A call after which it goes on.
LEMMA ProceedInv ==
    ASSUME UpdaterInv, NEW c \in Callers, NEW from, At(c, from),
           from \notin Free, NEW l \in Labels \ Free, Proceed(c, l),
           binary' \in Files, download' \in Files, backups' \in Seq(Backups),
           poisoned' \in BOOLEAN, NamesOK', WholeOK',
           l \in Early \cup {"copy", "remove"} => binary' = before,
           l \in {"copy"} \cup Late => poisoned' \/ before.whole,
           l \in Late => /\ Len(backups') > 0
                         /\ backups'[Len(backups')] = BackupOf(before)
    PROVE  UpdaterInv'
<1>1. /\ Goto(c, l) /\ running' = running /\ latest' = latest
      /\ updating' = updating /\ release' = release
      /\ outcome' = outcome /\ before' = before
  BY DEF Proceed, At
<1>2. /\ pc' \in [Callers -> Labels]
      /\ pc'[c] = l
      /\ \A d \in Callers : d # c => pc'[d] \in Free
      /\ FlagOK' /\ OutcomeOK'
  BY <1>1, ProceedKeeps DEF UpdaterInv
<1>3. FilesOK'
  BY <1>1, <1>2 DEF UpdaterInv, FilesOK
<1>4. BackupOf(before)' = BackupOf(before)
  BY <1>1 DEF BackupOf
<1>5. FoundOK'
  BY <1>1, <1>2, <1>4, FoundByOne
<1> QED  BY <1>2, <1>3, <1>5 DEF UpdaterInv

\* What the caller relies on.
LEMMA FoundFacts ==
    ASSUME UpdaterInv, NEW c \in Callers
    PROVE  /\ binary \in Files /\ download \in Files /\ before \in Files
           /\ running \in Int /\ backups \in Seq(Backups) /\ poisoned \in BOOLEAN
           /\ release[c] \in Int
           /\ pc[c] \in Early \cup {"copy", "remove"} => binary = before
           /\ pc[c] \in {"copy"} \cup Late => poisoned \/ before.whole
           /\ pc[c] \in Late => /\ Len(backups) > 0
                                /\ backups[Len(backups)] = BackupOf(before)
           /\ Missing \in Files
           /\ NamesOK /\ WholeOK
<1>1. Missing \in Files
  BY DEF Missing, File, Files, None
<1> QED  BY <1>1 DEF UpdaterInv, FilesOK, FoundOK

LEMMA DownloadInv ==
    ASSUME UpdaterInv, NEW c \in Callers, GetLatestRelease(c) \/ Download(c)
    PROVE  UpdaterInv'
<1> USE FoundFacts
<1>1. /\ binary' = binary /\ backups' = backups /\ poisoned' = poisoned
      /\ download' \in Files
  <2>1. \A whole \in BOOLEAN : File(release[c], whole, FALSE) \in Files
    BY DEF File, Files
  <2> QED  BY <2>1 DEF GetLatestRelease, Download, files, At, Return, Proceed
<1>2. NamesOK' /\ WholeOK'
  BY <1>1 DEF NamesOK, WholeOK
<1>3. PICK from \in {"release", "download"} : At(c, from)
  BY DEF GetLatestRelease, Download
<1>4. from \notin Free /\ pc[c] = from
  BY <1>3 DEF Free, At
<1>5. ASSUME NEW r \in {"failed", "up to date"}, Return(c, r)
      PROVE  UpdaterInv'
  BY <1>1, <1>2, <1>3, <1>4, <1>5, ReturnInv
<1>6. CASE Proceed(c, "backup")
  <2>1. binary = before /\ "backup" \in Labels \ Free /\ "backup" \notin {"copy"} \cup Late
    BY <1>4 DEF Early, Late, Labels, Free
  <2> QED  BY <1>1, <1>2, <1>3, <1>4, <1>6, <2>1, ProceedInv
<1>7. CASE /\ Goto(c, "download") /\ release' = [release EXCEPT ![c] = latest]
           /\ UNCHANGED <<updating, outcome, before>>
  <2>1. /\ pc' \in [Callers -> Labels]
        /\ pc'[c] = "download"
        /\ \A d \in Callers : d # c => pc'[d] \in Free
        /\ FlagOK' /\ OutcomeOK'
    <3>1. "download" \in Labels \ Free
      BY DEF Labels, Early, Free
    <3> QED  BY <1>3, <1>4, <1>7, <3>1, ProceedKeeps DEF UpdaterInv
  <2>2. FilesOK'
    BY <1>1, <1>3, <1>7, <2>1 DEF At, UpdaterInv, FilesOK
  <2>3. FoundOK'
    BY <1>1, <1>4, <1>7, <2>1, FoundByOne DEF Early, Late
  <2> QED  BY <1>2, <2>1, <2>2, <2>3 DEF UpdaterInv
<1> QED  BY <1>5, <1>6, <1>7 DEF GetLatestRelease, Download

\* A part of the binary takes the place of an older backup: the binary is whole.
LEMMA BackupBeginInv ==
    ASSUME UpdaterInv, NEW c \in Callers, BackupBegin(c)
    PROVE  UpdaterInv'
<1> USE FoundFacts
<1>1. At(c, "backup") /\ pc[c] = "backup" /\ "backup" \notin Free /\ binary' = binary
  BY DEF BackupBegin, At, Free
<1>2. binary = before
  BY <1>1 DEF Early
<1>3. CASE /\ Return(c, "failed") /\ download' = Missing
           /\ backups' = backups /\ poisoned' = poisoned
  <2>1. NamesOK' /\ WholeOK'
    BY <1>1, <1>3 DEF NamesOK, WholeOK
  <2> QED  BY <1>1, <1>3, <2>1, ReturnInv
<1>4. CASE /\ Proceed(c, "copy") /\ download' = download
           /\ backups' = Append(Others, BackupOf(File(binary.version, FALSE, FALSE)))
           /\ poisoned' = (poisoned \/ ~binary.whole)
  <2>1. File(binary.version, FALSE, FALSE) \in Files
    BY DEF File, Files
  <2>2. backups' \in Seq(Backups) /\ NamesOK'
    BY <1>4, <2>1, AppendedBackup DEF UpdaterInv
  <2>3. poisoned' \in BOOLEAN /\ (poisoned' \/ before.whole) /\ WholeOK'
    BY <1>1, <1>2, <1>4 DEF WholeOK
  <2>4. "copy" \in Labels \ Free /\ "copy" \notin Late
    BY DEF Labels, Free, Late
  <2> QED  BY <1>1, <1>2, <1>4, <2>2, <2>3, <2>4, ProceedInv
<1> QED  BY <1>3, <1>4 DEF BackupBegin

LEMMA BackupCopyInv ==
    ASSUME UpdaterInv, NEW c \in Callers, BackupCopy(c)
    PROVE  UpdaterInv'
<1> USE FoundFacts
<1>1. /\ At(c, "copy") /\ pc[c] = "copy" /\ "copy" \notin Free
      /\ binary' = binary /\ poisoned' = poisoned
  BY DEF BackupCopy, At, Free
<1>2. binary = before /\ (poisoned \/ before.whole)
  BY <1>1
<1>3. WholeOK'
  BY <1>1, <1>2 DEF WholeOK
<1>4. backups' = Append(Others, BackupOf(binary)) =>
        /\ backups' \in Seq(Backups)
        /\ NamesOK'
        /\ Len(backups') > 0
        /\ backups'[Len(backups')] = BackupOf(binary)
  BY AppendedBackup DEF UpdaterInv
<1>5. CASE /\ Return(c, "failed") /\ download' = Missing
           /\ backups' \in {backups, Append(Others, BackupOf(binary))}
  <2>1. NamesOK' /\ backups' \in Seq(Backups)
    BY <1>4, <1>5 DEF NamesOK
  <2> QED  BY <1>1, <1>3, <1>5, <2>1, ReturnInv
<1>6. CASE /\ Proceed(c, "remove") /\ download' = download
           /\ backups' = Append(Others, BackupOf(binary))
  <2>1. "remove" \in Labels \ Free
    BY DEF Labels, Free, Late
  <2> QED  BY <1>1, <1>2, <1>3, <1>4, <1>6, <2>1, ProceedInv
<1> QED  BY <1>5, <1>6 DEF BackupCopy

\* From here on the newest backup is there to go back to.
LEMMA LateFacts ==
    ASSUME UpdaterInv, NEW c \in Callers, pc[c] \in Late, backups' = backups,
           poisoned' = poisoned
    PROVE  /\ poisoned \/ before.whole
           /\ Len(backups') > 0
           /\ backups'[Len(backups')] = BackupOf(before)
           /\ backups' \in Seq(Backups) /\ poisoned' \in BOOLEAN
           /\ NamesOK' /\ WholeOK'
<1> USE FoundFacts
<1>1. Len(backups) \in 1 .. Len(backups) /\ backups[Len(backups)] = BackupOf(before)
  BY LenProperties
<1>2. WholeOK'
  BY <1>1 DEF WholeOK, BackupOf
<1> QED  BY <1>1, <1>2 DEF NamesOK

LEMMA ApplyUpdateInv ==
    ASSUME UpdaterInv, NEW c \in Callers,
           RemoveBinary(c) \/ RenameBinary(c) \/ ChmodBinary(c)
    PROVE  UpdaterInv'
<1> USE FoundFacts
<1>1. PICK from \in {"remove", "rename", "chmod"} : At(c, from)
  BY DEF RemoveBinary, RenameBinary, ChmodBinary
<1>2. pc[c] = from /\ from \in Late /\ from \notin Free
  BY <1>1 DEF At, Late, Free
<1>3. backups' = backups /\ poisoned' = poisoned
  BY DEF RemoveBinary, RenameBinary, ChmodBinary
<1>4. PICK l \in {"rollback", "rename", "chmod", "cleanup"} : Proceed(c, l)
  BY DEF RemoveBinary, RenameBinary, ChmodBinary
<1>5. l \in Labels \ Free /\ l \notin Early \cup {"copy", "remove"}
  BY <1>4 DEF Labels, Late, Early, Free
<1>6. download' \in {download, Missing} /\ binary' \in Files
  <2>1. [binary EXCEPT !.executable = TRUE] \in Files
    BY DEF Files
  <2> QED  BY <2>1 DEF RemoveBinary, RenameBinary, ChmodBinary
<1> QED  BY <1>1, <1>2, <1>3, <1>4, <1>5, <1>6, LateFacts, ProceedInv

\* What a rollback ends with is the binary the update found.
LEMMA RollbackInv ==
    ASSUME UpdaterInv, NEW c \in Callers,
           RollbackRemove(c) \/ RollbackCopy(c) \/ RollbackEnd(c)
    PROVE  UpdaterInv'
<1> USE FoundFacts
<1>1. PICK from \in {"rollback", "restore", "restored"} : At(c, from)
  BY DEF RollbackRemove, RollbackCopy, RollbackEnd
<1>2. pc[c] = from /\ from \in Late /\ from \notin Free
  BY <1>1 DEF At, Late, Free
<1>3. backups' = backups /\ poisoned' = poisoned /\ download' = download
  BY DEF RollbackRemove, RollbackCopy, RollbackEnd
<1>4. RollbackTo.version = before.version /\ RollbackTo.whole = before.whole
  BY <1>2, RollbackToIsNewest DEF UpdaterInv, BackupOf
<1>5. binary' \in Files
  <2>1. ASSUME NEW x \in BOOLEAN, NEW w \in {FALSE, before.whole}
        PROVE  File(before.version, w, x) \in Files
    BY DEF File, Files
  <2> QED  BY <1>4, <2>1 DEF RollbackRemove, RollbackCopy, RollbackEnd
<1>6. ASSUME NEW l \in {"restore", "restored"}, Proceed(c, l)
      PROVE  UpdaterInv'
  <2>1. l \in Labels \ Free /\ l \notin Early \cup {"copy", "remove"}
    BY <1>6 DEF Labels, Late, Early, Free
  <2> QED  BY <1>1, <1>2, <1>3, <1>5, <1>6, <2>1, LateFacts, ProceedInv
<1>7. ASSUME Return(c, "lost")
      PROVE  UpdaterInv'
  BY <1>1, <1>2, <1>3, <1>5, <1>7, LateFacts, ReturnInv
<1>8. ASSUME Return(c, "rolled back"), binary' = File(before.version, before.whole, TRUE)
      PROVE  UpdaterInv'
  <2>1. /\ pc' \in [Callers -> Labels]
        /\ release' \in [Callers -> Int]
        /\ before' = before /\ updating' = FALSE
        /\ FlagOK' /\ FoundOK'
    BY <1>1, <1>2, <1>8, ReturnKeeps DEF UpdaterInv
  <2>2. FilesOK'
    BY <1>1, <1>2, <1>3, <1>5, <2>1, LateFacts DEF At, UpdaterInv, FilesOK
  <2>3. OutcomeOK'
    BY <1>1, <1>8, <2>1 DEF At, OutcomeOK, File
  <2> QED  BY <1>2, <1>3, <2>1, <2>2, <2>3, LateFacts DEF UpdaterInv
<1>9. RollbackEnd(c) => \/ Return(c, "lost")
                        \/ /\ Return(c, "rolled back")
                           /\ binary' = File(before.version, before.whole, TRUE)
  BY <1>4 DEF RollbackEnd
<1> QED  BY <1>6, <1>7, <1>8, <1>9 DEF RollbackRemove, RollbackCopy

\* The newest backup is one of those that stay.
LEMMA CleanupInv ==
    ASSUME UpdaterInv, NEW c \in Callers, Cleanup(c)
    PROVE  UpdaterInv'
<1> USE FoundFacts
<1>1. /\ At(c, "cleanup") /\ pc[c] = "cleanup" /\ "cleanup" \notin Free
      /\ "cleanup" \in Late /\ Return(c, "updated")
      /\ binary' = binary /\ download' = download /\ poisoned' = poisoned
  BY DEF Cleanup, At, Late, Free
<1>2. PICK n \in 0 .. Len(backups) :
        /\ n = 0 \/ Len(backups) - n >= Keep
        /\ backups' = SubSeq(backups, n + 1, Len(backups))
  BY DEF Cleanup
<1>3. Len(backups) \in Nat /\ Len(backups) - n > 0
  BY <1>1, <1>2, LenProperties, UpdaterAssumption
<1>4. /\ backups' \in Seq(Backups)
      /\ Len(backups') = Len(backups) - n
      /\ \A i \in 1 .. (Len(backups) - n) : backups'[i] = backups[i + n]
  BY <1>2, <1>3, SubSeqProperties, ElementOfSeq
<1>5. NamesOK'
  BY <1>2, <1>3, <1>4 DEF NamesOK
<1>6. WholeOK'
  <2>1. /\ Len(backups') \in 1 .. Len(backups')
        /\ backups'[Len(backups')] = backups[Len(backups)]
    <3> DEFINE m == Len(backups) - n
    <3>1. m \in 1 .. m /\ m + n = Len(backups)
      BY <1>3
    <3>2. Len(backups') = m /\ backups'[m] = backups[m + n]
      BY <1>4, <3>1
    <3> QED  BY <3>1, <3>2
  <2>2. ~poisoned => backups[Len(backups)].whole
    BY <1>1 DEF BackupOf
  <2> QED  BY <1>1, <2>1, <2>2 DEF WholeOK
<1> QED  BY <1>1, <1>4, <1>5, <1>6, ReturnInv
-----------------------------------------------------------------------------
LEMMA NextInv ==
    ASSUME UpdaterInv, [Next]_vars
    PROVE  UpdaterInv'
<1>1. CASE UNCHANGED vars
  <2>1. FilesOK' /\ NamesOK' /\ WholeOK'
    BY <1>1 DEF vars, files, calls, UpdaterInv, FilesOK, NamesOK, WholeOK
  <2>2. FlagOK' /\ OutcomeOK'
    BY <1>1 DEF vars, files, calls, UpdaterInv, FlagOK, OutcomeOK
  <2>3. FoundOK'
    BY <1>1 DEF vars, files, calls, UpdaterInv, FoundOK, BackupOf
  <2> QED  BY <2>1, <2>2, <2>3 DEF UpdaterInv
<1>2. CASE Publish \/ Start \/ Reinstall
  BY <1>2, OutsideInv
<1>3. CASE Kill
  BY <1>3, KillInv
<1>4. ASSUME NEW c \in Callers, Update(c)
      PROVE  UpdaterInv'
  BY <1>4, ClaimInv, DownloadInv, BackupBeginInv, BackupCopyInv, ApplyUpdateInv,
     RollbackInv, CleanupInv DEF Update
<1> QED  BY <1>1, <1>2, <1>3, <1>4 DEF Next

(* The flag, the files and the newest backup are always in these relations. *)
THEOREM UpdaterInvariant == Spec => []UpdaterInv
<1>1. Init => UpdaterInv
  BY InitInv
<1>2. UpdaterInv /\ [Next]_vars => UpdaterInv'
  BY NextInv
<1> QED  BY <1>1, <1>2, PTL DEF Spec

(* Whatever call fails and wherever the process is killed, there is a whole *)
(* binary or a whole backup, unless a binary that was cut short was backed  *)
(* up (Update, applyUpdate, rollback, cleanup).                             *)
THEOREM UpdaterRecoverable == Spec => []Recoverable
<1>1. UpdaterInv => Recoverable
  <2>1. backups \in Seq(Backups) => ToSet(backups) = {backups[i] : i \in 1 .. Len(backups)}
    BY LenProperties DEF ToSet
  <2> QED  BY <2>1 DEF UpdaterInv, FilesOK, WholeOK, Recoverable
<1> QED  BY <1>1, UpdaterInvariant, PTL

(* An update that says it was rolled back left the binary it found, and it  *)
(* is executable (rollback, and everything before it).                      *)
THEOREM UpdaterRolledBackIsRestored == Spec => []RolledBackIsRestored
<1>1. UpdaterInv => RolledBackIsRestored
  BY DEF UpdaterInv, OutcomeOK, RolledBackIsRestored
<1> QED  BY <1>1, UpdaterInvariant, PTL
-----------------------------------------------------------------------------
(* The gateway process.                                                    *)

\* A channel that is closed is that of a handler that has not ended; its
\* handler is not among the clients of the server any more, so that Stop never
\* meets it again.
StreamInv ==
    /\ crashed = FALSE
    /\ clients \subseteq Handlers
    /\ handler \in [Handlers -> {"none", "subscribed", "streaming", "leaving", "deregistered"}]
    /\ closed \cap clients = {}
    /\ \A h \in clients : handler[h] \in {"streaming", "leaving"}
    /\ \A h \in closed : handler[h] \in {"streaming", "leaving", "deregistered"}

\* The list of the bus has each handler once, and none that has ended.
ListInv ==
    /\ subscribers \in Seq(Handlers)
    /\ \A i, j \in 1 .. Len(subscribers) : subscribers[i] = subscribers[j] => i = j
    /\ \A i \in 1 .. Len(subscribers) : handler[subscribers[i]] # "none"

-----------------------------------------------------------------------------
LEMMA InitStream == GatewayInit => StreamInv
  BY DEF GatewayInit, StreamInit, StreamInv

\* What one connection does.
LEMMA HandlerKeeps ==
    ASSUME NEW h \in Handlers, StreamInv,
           \/ Subscribe(h) \/ Register(h) \/ Receive(h) \/ SeeClosed(h)
           \/ ClientLeaves(h) \/ Deregister(h) \/ Unsubscribe(h)
    PROVE  StreamInv'
<1>1. CASE Subscribe(h)
  BY <1>1 DEF StreamInv, Subscribe, Becomes
<1>2. CASE Register(h)
  BY <1>2 DEF StreamInv, Register, Becomes
<1>3. CASE Receive(h)
  BY <1>3 DEF StreamInv, Receive
<1>4. CASE SeeClosed(h)
  BY <1>4 DEF StreamInv, SeeClosed, Becomes, channels
<1>5. CASE ClientLeaves(h)
  BY <1>5 DEF StreamInv, ClientLeaves, Becomes, channels
<1>6. CASE Deregister(h)
  BY <1>6 DEF StreamInv, Deregister, Becomes
<1>7. CASE Unsubscribe(h)
  BY <1>7 DEF StreamInv, Unsubscribe, Becomes, Forget
<1> QED
  BY <1>1, <1>2, <1>3, <1>4, <1>5, <1>6, <1>7

\* A Publish meets a closed channel and survives.
LEMMA PublishKeeps ==
    ASSUME NEW a \in Antennas, StreamInv, PublishBegin(a) \/ Deliver(a)
    PROVE  StreamInv'
  BY DEF StreamInv, PublishBegin, Deliver, Send, channels

\* The server closes the channel of a client, which is open.
LEMMA CloseClientKeeps ==
    ASSUME NEW h \in Handlers, StreamInv, WebCloseClient(h)
    PROVE  StreamInv'
  BY DEF StreamInv, WebCloseClient

\* Of the shutdown, only the end of the web server touches a channel.
LEMMA MainKeeps == ASSUME StreamInv, MainStep PROVE StreamInv'
<1>1. CASE CloseClient
  BY <1>1, CloseClientKeeps DEF CloseClient
<1>2. CASE StopEngine \/ EngineStopped \/ StopMonitor \/ BridgeIsDown \/ Exit
  BY <1>2 DEF StreamInv, StopEngine, EngineStopped, StopMonitor, BridgeIsDown,
              Exit,
              streamVars, channels
<1>3. CASE MonitorStopped \/ StopListener \/ WebIsDown
  BY <1>3 DEF StreamInv, MonitorStopped, StopListener, WebIsDown, WebStop, WebShutdown,
              WebStopped, channels
<1> QED
  BY <1>1, <1>2, <1>3 DEF MainStep

\* The other goroutines leave the event stream alone.
LEMMA OthersKeep ==
    ASSUME StreamInv, UNCHANGED streamVars
    PROVE  StreamInv'
  BY DEF StreamInv, streamVars, channels

LEMMA StepKeeps == StreamInv /\ [GatewayNext]_gatewayVars => StreamInv'
<1> SUFFICES ASSUME StreamInv, [GatewayNext]_gatewayVars PROVE StreamInv'
  OBVIOUS
<1>1. CASE Signal \/ Expire
  BY <1>1, OthersKeep DEF Signal, Expire
<1>2. CASE MainStep
  BY <1>2, MainKeeps
<1>3. CASE StreamOnly(StreamStep)
  BY <1>3, HandlerKeeps DEF StreamOnly, StreamStep
<1>4. CASE BeginSync \/ CloudAnswers \/ Settle \/ EngineExit
  BY <1>4, OthersKeep DEF BeginSync, CloudAnswers, Settle, EngineExit, EngineMoves
<1>5. CASE Tick \/ UpdateStatus \/ MonitorExit
  BY <1>5, OthersKeep DEF Tick, UpdateStatus, MonitorExit, MonitorMoves
<1>6. ASSUME NEW r \in Requesters, GetStatus(r) \/ Answer(r)
      PROVE  StreamInv'
  BY <1>6, OthersKeep DEF GetStatus, Answer, GetStats, IsConnected
<1>7. ASSUME NEW a \in Antennas, AntennaStep(a) \/ SessionBreaks(a)
      PROVE  StreamInv'
  BY <1>7, OthersKeep
  DEF AntennaStep, SessionBreaks, RunAntenna, UpdateAntennaStatus, Dial, SessionStops,
      AntennaExit, AntennaMoves
<1>8. ASSUME NEW a \in Antennas, Detect(a) \/ StreamOnly(Deliver(a))
      PROVE  StreamInv'
  BY <1>8, PublishKeeps DEF Detect, StreamOnly
<1>9. CASE UNCHANGED gatewayVars
  BY <1>9, OthersKeep DEF gatewayVars
<1> QED
  BY <1>1, <1>2, <1>3, <1>4, <1>5, <1>6, <1>7, <1>8, <1>9 DEF GatewayNext

-----------------------------------------------------------------------------
(* Whatever the browsers, the antennas and the shutdown do, no channel is  *)
(* closed twice and none that is closed is sent on where the panic would   *)
(* end the program (bus.go:70, server.go:171).                             *)
THEOREM GatewayPanicsAreContained == GatewaySpec => []PanicsAreContained
<1>1. StreamInv => PanicsAreContained
  BY DEF StreamInv, PanicsAreContained
<1> QED
  BY <1>1, InitStream, StepKeeps, PTL DEF GatewaySpec

-----------------------------------------------------------------------------
(* The list of the bus.                                                    *)

\* A handler that is once on a list is not on it when it is taken off.
LEMMA RemoveFirstProperties ==
    ASSUME NEW S, NEW s \in Seq(S), NEW e,
           \A i, j \in 1 .. Len(s) : s[i] = s[j] => i = j
    PROVE  /\ RemoveFirst(s, e) \in Seq(S)
           /\ \A i, j \in 1 .. Len(RemoveFirst(s, e)) :
                 RemoveFirst(s, e)[i] = RemoveFirst(s, e)[j] => i = j
           /\ \A i \in 1 .. Len(RemoveFirst(s, e)) :
                 /\ RemoveFirst(s, e)[i] # e
                 /\ \E j \in 1 .. Len(s) : RemoveFirst(s, e)[i] = s[j]
<1> DEFINE r == RemoveFirst(s, e)
<1>1. CASE ~ \E i \in 1 .. Len(s) : s[i] = e
  <2>1. r = s
    BY <1>1 DEF RemoveFirst
  <2> QED  BY <1>1, <2>1
<1>2. CASE \E i \in 1 .. Len(s) : s[i] = e
  <2>1. PICK k \in 1 .. Len(s) : s[k] = e
    BY <1>2
  <2>2. r = RemoveAt(s, k)
    <3> DEFINE I == {i \in 1 .. Len(s) : s[i] = e}
    <3>1. I = {k}
      BY <2>1
    <3>2. Min(I) = k
      BY <3>1 DEF Min
    <3> QED
      BY <1>2, <3>1, <3>2
      DEF RemoveFirst, SelectInSeq
  <2> HIDE DEF r
  <2>3. Len(s) \in Nat
    BY LenProperties
  <2>4. /\ r \in Seq(S)
        /\ Len(r) = Len(s) - 1
        /\ \A j \in 1 .. (Len(s) - 1) : r[j] = IF j < k THEN s[j] ELSE s[j + 1]
    BY <2>1, <2>2, RemoveAtProperties
  <2> DEFINE at(j) == IF j < k THEN j ELSE j + 1
  <2>5. ASSUME NEW j \in 1 .. Len(r)
        PROVE  at(j) \in 1 .. Len(s) /\ at(j) # k /\ r[j] = s[at(j)]
    BY <2>1, <2>3, <2>4
  <2>6. \A i, j \in 1 .. Len(r) : at(i) = at(j) => i = j
    BY <2>1, <2>3, <2>4
  <2> HIDE DEF at
  <2>7. \A i, j \in 1 .. Len(r) : r[i] = r[j] => i = j
    BY <2>5, <2>6
  <2>8. \A i \in 1 .. Len(r) : r[i] # e /\ \E j \in 1 .. Len(s) : r[i] = s[j]
    BY <2>1, <2>5
  <2> QED  BY <2>4, <2>7, <2>8 DEF r
<1> QED  BY <1>1, <1>2

\* A handler is put on the list before it begins, and off it as it ends.
LEMMA SubscribeLists ==
    ASSUME StreamInv, ListInv, NEW h \in Handlers, Subscribe(h)
    PROVE  ListInv'
<1>1. /\ subscribers' \in Seq(Handlers)
      /\ Len(subscribers') = Len(subscribers) + 1
      /\ \A i \in 1 .. Len(subscribers) : subscribers'[i] = subscribers[i]
      /\ subscribers'[Len(subscribers) + 1] = h
      /\ Len(subscribers) \in Nat
  BY AppendProperties, LenProperties DEF Subscribe, ListInv
<1>2. \A i \in 1 .. Len(subscribers) : subscribers[i] \in Handlers /\ subscribers[i] # h
  BY ElementOfSeq DEF Subscribe, ListInv
<1>3. handler'[h] # "none" /\ \A g \in Handlers : g # h => handler'[g] = handler[g]
  BY DEF Subscribe, Becomes, StreamInv
<1> QED  BY <1>1, <1>2, <1>3 DEF ListInv

LEMMA UnsubscribeLists ==
    ASSUME StreamInv, ListInv, NEW h \in Handlers, Unsubscribe(h)
    PROVE  ListInv'
<1>1. subscribers' = RemoveFirst(subscribers, h)
  BY DEF Unsubscribe
<1>2. /\ subscribers' \in Seq(Handlers)
      /\ \A i, j \in 1 .. Len(subscribers') : subscribers'[i] = subscribers'[j] => i = j
      /\ \A i \in 1 .. Len(subscribers') :
            /\ subscribers'[i] # h
            /\ \E j \in 1 .. Len(subscribers) : subscribers'[i] = subscribers[j]
  BY <1>1, RemoveFirstProperties DEF ListInv
<1>3. \A g \in Handlers : g # h => handler'[g] = handler[g]
  BY DEF Unsubscribe, Becomes, StreamInv
<1>4. \A i \in 1 .. Len(subscribers) : subscribers[i] \in Handlers
  BY ElementOfSeq DEF ListInv
<1> QED  BY <1>2, <1>3, <1>4 DEF ListInv

\* The other steps of a handler do not end it.
LEMMA StreamingLists ==
    ASSUME StreamInv, ListInv, subscribers' = subscribers,
           \A g \in Handlers : handler[g] # "none" => handler'[g] # "none"
    PROVE  ListInv'
<1>1. \A i \in 1 .. Len(subscribers) : subscribers[i] \in Handlers
  BY ElementOfSeq DEF ListInv
<1> QED  BY <1>1 DEF ListInv

LEMMA HandlerLists ==
    ASSUME StreamInv, ListInv, NEW h \in Handlers,
           \/ Register(h) \/ Receive(h) \/ SeeClosed(h) \/ ClientLeaves(h) \/ Deregister(h)
    PROVE  ListInv'
<1>1. subscribers' = subscribers
  BY DEF Register, Receive, SeeClosed, ClientLeaves, Deregister, channels
<1>2. \A g \in Handlers : handler[g] # "none" => handler'[g] # "none"
  BY DEF Register, Receive, SeeClosed, ClientLeaves, Deregister, Becomes, StreamInv
<1> QED  BY <1>1, <1>2, StreamingLists

LEMMA StepLists == StreamInv /\ ListInv /\ [GatewayNext]_gatewayVars => ListInv'
<1> SUFFICES ASSUME StreamInv, ListInv, [GatewayNext]_gatewayVars PROVE ListInv'
  OBVIOUS
<1>1. ASSUME UNCHANGED <<subscribers, handler>>
      PROVE  ListInv'
  BY <1>1, StreamingLists
<1>2. CASE StreamOnly(StreamStep)
  BY <1>2, SubscribeLists, UnsubscribeLists, HandlerLists DEF StreamOnly, StreamStep
<1>3. CASE MainStep
  <2>1. CASE CloseClient \/ StopListener \/ MonitorStopped \/ WebIsDown
    BY <1>1, <2>1 DEF CloseClient, StopListener, MonitorStopped, WebIsDown, WebCloseClient,
                      WebShutdown, WebStop, WebStopped, channels
  <2>2. CASE StopEngine \/ EngineStopped \/ StopMonitor \/ BridgeIsDown \/ Exit
    BY <1>1, <2>2 DEF StopEngine, EngineStopped, StopMonitor, BridgeIsDown, Exit,
                      streamVars, channels
  <2> QED  BY <1>3, <2>1, <2>2 DEF MainStep
<1>4. ASSUME NEW a \in Antennas, Detect(a) \/ StreamOnly(Deliver(a))
      PROVE  ListInv'
  BY <1>1, <1>4 DEF Detect, StreamOnly, PublishBegin, Deliver, channels
<1>5. CASE UNCHANGED streamVars
  BY <1>1, <1>5 DEF streamVars, channels
<1>6. CASE UNCHANGED gatewayVars
  BY <1>5, <1>6 DEF gatewayVars
<1>7. ASSUME \/ Signal \/ Expire
             \/ BeginSync \/ CloudAnswers \/ Settle \/ EngineExit
             \/ Tick \/ UpdateStatus \/ MonitorExit
             \/ \E r \in Requesters : GetStatus(r) \/ Answer(r)
             \/ \E a \in Antennas : AntennaStep(a) \/ SessionBreaks(a)
      PROVE  UNCHANGED streamVars
  BY <1>7 DEF Signal, Expire, BeginSync, CloudAnswers, Settle, EngineExit, EngineMoves,
              Tick, UpdateStatus, MonitorExit, MonitorMoves,
              GetStatus, Answer, GetStats, IsConnected,
              AntennaStep, SessionBreaks, RunAntenna, UpdateAntennaStatus, Dial,
              SessionStops, AntennaExit, AntennaMoves
<1> QED
  BY <1>2, <1>3, <1>4, <1>5, <1>6, <1>7 DEF GatewayNext

(* A connection that ended is in neither list, however its end, those of   *)
(* others and that of the server interleave (bus.go:47, sse.go:36,         *)
(* server.go:164).                                                         *)
THEOREM GatewayGoneLeavesNothing == GatewaySpec => []GoneLeavesNothing
<1>1. GatewayInit => ListInv
  BY DEF GatewayInit, StreamInit, ListInv
<1>2. StreamInv /\ ListInv => GoneLeavesNothing
  BY DEF StreamInv, ListInv, GoneLeavesNothing, Contains
<1> QED
  BY <1>1, <1>2, InitStream, StepKeeps, StepLists, PTL DEF GatewaySpec
=============================================================================
