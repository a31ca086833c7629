------------------------- MODULE OwnershipTransaction -------------------------
(***************************************************************************)
(* The change of the owner and mode of a directory and of what is in it    *)
(* (internal/deploy/homebrew/ownership_transaction.go): apply brings every *)
(* object from its state before to the one after, inverse brings it back.  *)
(* A journal has the direction, and the progress object by object.         *)
(*                                                                         *)
(* Any call may fail, the process may end between two calls, and somebody *)
(* else may change an object between any two looks at one: an inspection   *)
(* observes one object after the other, and what it saw may no longer be   *)
(* so when the run acts on it.  Not in the state: the identity of the      *)
(* objects and the checks of paths and file types (inventory), the mode    *)
(* and the size of the journal (read), and what a power loss undoes.       *)
(*                                                                         *)
(* Definitions named <operation>_<fault> are not part of the               *)
(* specification: each is the operation with a fault some property catches.*)
(***************************************************************************)
EXTENDS Integers

CONSTANT N   \* the objects; the program has three

ASSUME OwnershipAssumption == N \in Nat \ {0}

VARIABLES
    same,       \* the objects whose state after is the one before
    object,     \* the state of each object
    journal,    \* what the journal file says
    lingering,  \* there is a file journal.new
    pc,         \* the next call of the run
    direction,  \* of the run, or of the last one
    at,         \* the object the loop of run is at
    seen,       \* how many objects the inspection has observed
    outcome,    \* of the run, or of the last one
    moved,      \* history: objects somebody else changed since the run turned
                \* to the one at hand, and after its last look at them
    tampered,   \* history: somebody else has changed an object
    resumable   \* history: the run began with its own direction pending

vars == <<same, object, journal, lingering, pc, direction, at, seen, outcome,
          moved, tampered, resumable>>

Objects    == 1 .. N
Directions == {"apply", "inverse"}
States     == {"before", "after", "same", "other"}

\* progress: the objects before it are recorded as changed; the flags of a
\* record that read accepts are a prefix.
Records == [direction : Directions, phase : {"pending", "done"}, progress : 0 .. N]

NoRecord == [direction |-> "none", phase |-> "none", progress |-> 0]

Before(i) == IF i \in same THEN "same" ELSE "before"
After(i)  == IF i \in same THEN "same" ELSE "after"

Pre(d, i)  == IF d = "apply" THEN Before(i) ELSE After(i)
Post(d, i) == IF d = "apply" THEN After(i) ELSE Before(i)

\* Fault: only the object in flight is looked at.
Fits_OnlyCurrent(r, i) ==
    i = r.progress + 1 => object[i] \in {Pre(r.direction, i), Post(r.direction, i)}

\* Fault: the object in flight may not be ahead of its record either.
Fits_Strict(r, i) ==
    object[i] = IF i <= r.progress \/ r.phase = "done" THEN Post(r.direction, i)
                                                       ELSE Pre(r.direction, i)

\* What inspect accepts of one object: only the one in flight may be ahead of
\* its record.
Fits(r, i) ==
    IF i <= r.progress \/ r.phase = "done"
    THEN object[i] = Post(r.direction, i)
    ELSE \/ object[i] = Pre(r.direction, i)
         \/ i = r.progress + 1 /\ object[i] = Post(r.direction, i)

-----------------------------------------------------------------------------
\* The objects may be as another program left them; the change is new.
Init ==
    /\ same \in SUBSET Objects
    /\ object \in [Objects -> States]
    /\ journal = NoRecord
    /\ lingering = FALSE
    /\ pc = "idle"
    /\ direction = "apply"
    /\ at = 1
    /\ seen = 0
    /\ outcome = "none"
    /\ moved = {}
    /\ tampered = FALSE
    /\ resumable = FALSE

\* Somebody else changes an object.
Tamper ==
    /\ \E i \in Objects, s \in States :
          /\ s # object[i]
          /\ object' = [object EXCEPT ![i] = s]
          /\ moved' = moved \cup {i}
    /\ tampered' = TRUE
    /\ resumable' = FALSE
    /\ UNCHANGED <<same, journal, lingering, pc, direction, at, seen, outcome>>

\* The process ends, or a step of the run returns an error.
Interrupt ==
    /\ pc # "idle"
    /\ pc' = "idle"
    /\ outcome' = "failed"
    /\ UNCHANGED <<same, object, journal, lingering, direction, at, seen, moved,
                   tampered, resumable>>

Refuse == pc' = "idle" /\ outcome' = "refused"

-----------------------------------------------------------------------------
(* run up to its loop.                                                     *)

Exists == journal # NoRecord

\* The journal is ambiguous, or belongs to an unfinished run of the other
\* direction, or there is nothing to invert.
Refused(d) ==
    \/ lingering
    \/ Exists /\ journal.direction # d /\ journal.phase # "done"
    \/ d = "inverse" /\ ~Exists

Begin(d) ==
    /\ pc = "idle"
    /\ direction' = d
    /\ at' = 1
    /\ seen' = 0
    /\ moved' = {}
    /\ resumable' = (/\ journal.direction = d
                     /\ journal.phase = "pending"
                     /\ ~lingering
                     /\ ~tampered)
    /\ IF Refused(d) THEN Refuse
       ELSE outcome' = "running" /\ pc' = IF Exists THEN "begin" ELSE "intent"
    /\ UNCHANGED <<same, object, journal, lingering, tampered>>

\* One object is observed and accepted; after the last one the run goes on.
Observed(next, result) ==
    IF seen + 1 < N
    THEN /\ seen' = seen + 1
         /\ moved' = moved \ {seen + 1}
         /\ UNCHANGED <<pc, outcome>>
    ELSE /\ seen' = 0
         /\ moved' = IF next \in {"before", "final"} THEN {} ELSE moved \ {seen + 1}
         /\ pc' = next
         /\ outcome' = result

\* inspect of the journal that run has read: a change that is complete is left
\* alone, a pending one is resumed, a complete one of the other direction undone.
InspectAtBegin ==
    /\ pc = "begin"
    /\ \/ ~Fits(journal, seen + 1) /\ Refuse /\ UNCHANGED <<seen, moved>>
       \/ /\ Fits(journal, seen + 1)
          /\ IF journal.direction # direction THEN Observed("intent", "running")
             ELSE IF journal.phase = "done" THEN Observed("idle", "ok")
             ELSE Observed("before", "running")
    /\ UNCHANGED <<same, object, journal, lingering, direction, at, tampered, resumable>>

\* record: an error before the rename leaves journal.new, one after it has
\* replaced the journal.
Record(r, next, result) ==
    \/ /\ journal' = r
       /\ \/ pc' = next /\ outcome' = result
          \/ pc' = "idle" /\ outcome' = "failed"
       /\ UNCHANGED lingering
    \/ /\ lingering' = TRUE
       /\ pc' = "idle"
       /\ outcome' = "failed"
       /\ UNCHANGED journal

\* Fault: a partly changed tree is adopted.
ObserveForIntent_Adopts ==
    /\ pc = "intent"
    /\ Observed("record", "running")
    /\ UNCHANGED <<same, object, journal, lingering, direction, at, tampered, resumable>>

\* A new intent takes only objects that are all in the state it starts from.
ObserveForIntent ==
    /\ pc = "intent"
    /\ \/ object[seen + 1] # Pre(direction, seen + 1) /\ Refuse /\ UNCHANGED <<seen, moved>>
       \/ object[seen + 1] = Pre(direction, seen + 1) /\ Observed("record", "running")
    /\ UNCHANGED <<same, object, journal, lingering, direction, at, tampered, resumable>>

RecordIntent ==
    /\ pc = "record"
    /\ Record([direction |-> direction, phase |-> "pending", progress |-> 0],
              "before", "running")
    /\ moved' = {}
    /\ UNCHANGED <<same, object, direction, at, seen, tampered, resumable>>

-----------------------------------------------------------------------------
(* The loop.                                                               *)

\* Fault: success is recorded without a last look.
NextObject_Blind == IF at = N THEN "done" ELSE "before"

\* Behind an object comes the next one, and the last inspection behind the last.
NextObject == IF at = N THEN "final" ELSE "before"

\* The progress is recorded, unless it is.
AfterMutation == IF at > journal.progress THEN "progress" ELSE NextObject

\* inspect before the change of an object, after it, and after the loop.
Inspect ==
    /\ \/ /\ pc \in {"before", "mutation", "final"}
          /\ ~Fits(journal, seen + 1)
          /\ Refuse
          /\ UNCHANGED <<at, seen, moved>>
       \/ pc = "before" /\ Fits(journal, seen + 1) /\ Observed("observe", "running") /\ UNCHANGED at
       \/ /\ pc = "mutation"
          /\ Fits(journal, seen + 1)
          /\ Observed(AfterMutation, "running")
          /\ at' = IF pc' \in {"mutation", "progress"} THEN at ELSE at + 1
       \/ pc = "final" /\ Fits(journal, seen + 1) /\ Observed("done", "running") /\ UNCHANGED at
    /\ UNCHANGED <<same, object, journal, lingering, direction, tampered, resumable>>

\* The object is observed again: one in the state before is changed, a recorded
\* one must not be in it.
Observe ==
    /\ pc = "observe"
    /\ \/ object[at] # Pre(direction, at) /\ pc' = "mutation" /\ UNCHANGED outcome
       \/ object[at] = Pre(direction, at) /\ at <= journal.progress /\ Refuse
       \/ /\ object[at] = Pre(direction, at)
          /\ at > journal.progress
          /\ pc' = "mutate"
          /\ UNCHANGED outcome
    /\ moved' = moved \ {at}
    /\ UNCHANGED <<same, object, journal, lingering, direction, at, seen, tampered, resumable>>

\* The adapter changes only an object that is in the state before.  mutate may
\* report an error although it has changed the object.
Mutate ==
    /\ pc = "mutate"
    /\ \/ object[at] # Pre(direction, at) /\ Refuse /\ UNCHANGED object
       \/ /\ object[at] = Pre(direction, at)
          /\ object' = [object EXCEPT ![at] = Post(direction, at)]
          /\ \/ pc' = "mutation" /\ UNCHANGED outcome
             \/ pc' = "idle" /\ outcome' = "failed"
    /\ UNCHANGED <<same, journal, lingering, direction, at, seen, moved, tampered, resumable>>

RecordProgress ==
    /\ pc = "progress"
    /\ Record([journal EXCEPT !.progress = at], NextObject, "running")
    /\ at' = at + 1
    /\ moved' = {}
    /\ UNCHANGED <<same, object, direction, seen, tampered, resumable>>

RecordDone ==
    /\ pc = "done"
    /\ Record([journal EXCEPT !.phase = "done"], "idle", "ok")
    /\ UNCHANGED <<same, object, direction, at, seen, moved, tampered, resumable>>

Next ==
    \/ Tamper
    \/ Interrupt
    \/ \E d \in Directions : Begin(d)
    \/ InspectAtBegin
    \/ ObserveForIntent
    \/ RecordIntent
    \/ Inspect
    \/ Observe
    \/ Mutate
    \/ RecordProgress
    \/ RecordDone

Spec == Init /\ [][Next]_vars

-----------------------------------------------------------------------------
TypeOK ==
    /\ same \subseteq Objects
    /\ object \in [Objects -> States]
    /\ journal \in Records \cup {NoRecord}
    /\ lingering \in BOOLEAN
    /\ pc \in {"idle", "begin", "intent", "record", "before", "observe", "mutate",
               "mutation", "progress", "final", "done"}
    /\ direction \in Directions
    /\ at \in 1 .. N + 1
    /\ seen \in 0 .. N - 1
    /\ outcome \in {"none", "running", "ok", "failed", "refused"}
    /\ moved \subseteq Objects
    /\ tampered \in BOOLEAN
    /\ resumable \in BOOLEAN

(* The journal explains every object, whatever call failed and wherever the *)
(* run ended, unless somebody else changed one: those recorded are changed, *)
(* the next may be, the others are not.                                     *)
JournalExplains == Exists /\ ~tampered => \A i \in Objects : Fits(journal, i)

(* A run that reports success leaves every object as its direction wants    *)
(* it, also after runs that ended anywhere and after somebody else changed  *)
(* objects, but for what is changed behind its last look: the inspection    *)
(* after the loop (run).                                                    *)
SuccessIsWhole ==
    outcome = "ok" => \A i \in Objects \ moved : object[i] = Post(direction, i)

(* A run changes an object only if, when it last looked, every other one    *)
(* was where the journal says, and it looked at all of them since it turned *)
(* to this one: what somebody else changed is not taken for its own.        *)
UnexplainedIsLeftAlone ==
    [][pc # "idle" /\ pc' # pc /\ object' # object =>
         \A i \in Objects \ (moved \cup {at}) :
             object[i] = IF i < at THEN Post(direction, i) ELSE Pre(direction, i)]_vars

(* A pending run is taken up again in its direction: the comment of run     *)
(* says so of a pending inverse.  It fails to when an object needed no      *)
(* change: once recorded it is still in the state before, and is refused.   *)
PendingIsTakenUp == resumable /\ same = {} => outcome # "refused"
=============================================================================
