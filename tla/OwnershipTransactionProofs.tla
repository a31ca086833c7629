---------------------- MODULE OwnershipTransactionProofs ----------------------
(***************************************************************************)
(* Proofs about OwnershipTransaction, for any number of objects.           *)
(*                                                                         *)
(* The journal explains the objects wherever nobody tampered with them     *)
(* (JournalExplains).  To keep that, a run needs to know more: that in its *)
(* loop it works for the record it read (Loop); what an intent was taken   *)
(* for (Intent); and that an object is in the state before when it is      *)
(* about to be changed and in the one after when that is about to be       *)
(* recorded (Ready, Ahead).  What it may say whoever tampers with objects  *)
(* rests on what its inspections have seen (Looked).                       *)
(***************************************************************************)
EXTENDS OwnershipTransaction, TLAPS

InLoop == {"before", "observe", "mutate", "mutation", "progress", "final", "done"}

\* Where the loop is, and the record of the run: it is at most one object behind.
Loop ==
    /\ pc \in {"begin", "intent", "record"} => at = 1
    /\ pc = "begin" => journal \in Records
    /\ pc \in InLoop =>
          /\ journal \in Records
          /\ journal.direction = direction
          /\ journal.phase = "pending"
          /\ at <= journal.progress + 1
    /\ pc \in InLoop \ {"final", "done"} => at \in Objects
    /\ pc \in {"mutate", "progress"} => at > journal.progress
    /\ pc \in {"final", "done"} => at = N + 1
    /\ pc \in {"record", "observe", "mutate", "progress", "done"} => seen = 0

\* What an inspection has observed fits, unless it was changed again.
Looked ==
    /\ pc \in {"begin", "before", "final"} =>
          \A i \in Objects \ moved : i <= seen => Fits(journal, i)
    /\ pc \in {"observe", "mutate", "done"} => \A i \in Objects \ moved : Fits(journal, i)

\* A new intent is taken for objects in the state it starts from.
Intent ==
    ~tampered =>
        /\ pc = "intent" => \A i \in Objects : i <= seen => object[i] = Pre(direction, i)
        /\ pc = "record" => \A i \in Objects : object[i] = Pre(direction, i)

\* The object that is about to be changed is in the state before, and the one
\* whose progress is about to be recorded is changed.
Ready == pc = "mutate" /\ ~tampered => object[at] = Pre(direction, at)
Ahead == pc \in {"mutation", "progress"} /\ ~tampered => object[at] = Post(direction, at)

Whole ==
    outcome = "ok" => pc = "idle" /\ \A i \in Objects \ moved : object[i] = Post(direction, i)

TakenUp ==
    resumable /\ same = {} =>
        /\ ~tampered
        /\ outcome # "refused"
        /\ pc \notin {"intent", "record"}
        /\ pc = "begin" => journal.direction = direction

IInv ==
    /\ TypeOK
    /\ Loop
    /\ Looked
    /\ Intent
    /\ Ready
    /\ Ahead
    /\ JournalExplains
    /\ Whole
    /\ TakenUp

-----------------------------------------------------------------------------
(* The state an object comes from and the one it goes to.                  *)

\* Both are states, and differ where the change is not empty.
LEMMA PreAndPost ==
    ASSUME NEW d \in Directions, NEW i \in Objects
    PROVE  /\ Pre(d, i) \in States
           /\ Post(d, i) \in States
           /\ same = {} => Pre(d, i) # Post(d, i)
  BY DEF Pre, Post, Before, After, States, Directions

\* The objects are numbered from one.
LEMMA ObjectsAre ==
    /\ N \in Nat /\ 1 \in Objects
    /\ \A i \in Objects : i \in Nat /\ 1 <= i /\ i <= N
  BY OwnershipAssumption DEF Objects

\* The record of a new intent, with its type.
LEMMA NewIntent ==
    ASSUME NEW d \in Directions
    PROVE  LET r == [direction |-> d, phase |-> "pending", progress |-> 0]
           IN  r \in Records /\ r # NoRecord
  BY OwnershipAssumption DEF Records, NoRecord

\* A record of a run is not the absence of one.
LEMMA RecordsExist == \A r \in Records : r # NoRecord
  BY DEF Records, NoRecord

\* What the next record of a run is.
LEMMA NextRecords ==
    ASSUME NEW r \in Records, NEW i \in Objects
    PROVE  /\ [r EXCEPT !.progress = i] \in Records
           /\ [r EXCEPT !.phase = "done"] \in Records
           /\ [r EXCEPT !.progress = i].progress = i
           /\ [r EXCEPT !.progress = i].phase = r.phase
           /\ [r EXCEPT !.progress = i].direction = r.direction
           /\ [r EXCEPT !.phase = "done"].phase = "done"
           /\ [r EXCEPT !.phase = "done"].direction = r.direction
  BY OwnershipAssumption DEF Records, Objects

\* An object fits as long as neither it nor the journal changes.
LEMMA FitsStays ==
    ASSUME UNCHANGED <<same, object, journal>>
    PROVE  \A i \in Objects : Fits(journal, i)' <=> Fits(journal, i)
  BY DEF Fits, Pre, Post, Before, After

\* So does its place in the change.
LEMMA PlacesStay ==
    ASSUME UNCHANGED <<same, direction>>
    PROVE  \A i \in Objects : /\ Pre(direction, i)' = Pre(direction, i)
                              /\ Post(direction, i)' = Post(direction, i)
  BY DEF Pre, Post, Before, After

\* The object in flight may be in the state before or in the one after.
LEMMA FitsAt ==
    ASSUME NEW r \in Records, NEW i \in Objects, r.phase = "pending", i <= r.progress + 1,
           Fits(r, i)
    PROVE  /\ i <= r.progress => object[i] = Post(r.direction, i)
           /\ object[i] # Pre(r.direction, i) => object[i] = Post(r.direction, i)
  BY DEF Fits

\* An observation sees one object more, or it was the last one.
LEMMA ObservedOneMore ==
    ASSUME TypeOK, NEW next, NEW result, Observed(next, result)
    PROVE  /\ seen + 1 \in Objects
           /\ \/ /\ seen' = seen + 1
                 /\ seen' < N
                 /\ moved' = moved \ {seen + 1}
                 /\ UNCHANGED <<pc, outcome>>
              \/ /\ seen' = 0
                 /\ seen + 1 = N
                 /\ moved' = IF next \in {"before", "final"} THEN {} ELSE moved \ {seen + 1}
                 /\ pc' = next
                 /\ outcome' = result
           /\ seen' \in 0 .. N - 1
           /\ moved' \subseteq Objects
<1>1. /\ N \in Nat /\ seen \in Nat /\ seen + 1 <= N
      /\ moved \subseteq Objects
  BY OwnershipAssumption DEF TypeOK
<1>2. CASE seen + 1 < N
  <2>1. seen' = seen + 1 /\ moved' = moved \ {seen + 1} /\ UNCHANGED <<pc, outcome>>
    BY <1>2 DEF Observed
  <2>2. moved' \subseteq Objects
    BY <1>1, <2>1
  <2>3. seen + 1 \in Objects /\ seen' \in 0 .. N - 1 /\ seen' < N
    BY <1>1, <1>2, <2>1 DEF Objects
  <2> QED
    BY <2>1, <2>2, <2>3
<1>3. CASE seen + 1 = N
  <2>1. /\ seen' = 0
        /\ moved' = IF next \in {"before", "final"} THEN {} ELSE moved \ {seen + 1}
        /\ pc' = next
        /\ outcome' = result
    BY <1>1, <1>3 DEF Observed
  <2>2. moved' \subseteq Objects
    BY <1>1, <2>1
  <2>3. seen + 1 \in Objects /\ seen' \in 0 .. N - 1
    BY <1>1, <1>3, <2>1 DEF Objects
  <2> QED
    BY <1>3, <2>1, <2>2, <2>3
<1> QED
  BY <1>1, <1>2, <1>3

-----------------------------------------------------------------------------
(* The initial states, and one lemma for each action.                      *)

LEMMA InitInv == Init => IInv
<1> SUFFICES ASSUME Init PROVE IInv
  OBVIOUS
<1>1. TypeOK
  <2>1. at \in 1 .. N + 1 /\ seen \in 0 .. N - 1
    BY OwnershipAssumption DEF Init
  <2>2. journal \in Records \cup {NoRecord}
    BY DEF Init
  <2> QED
    BY <2>1, <2>2 DEF Init, TypeOK, Directions
<1>2. Loop /\ Looked /\ Intent /\ Ready /\ Ahead /\ JournalExplains /\ Whole /\ TakenUp
  BY DEF Init, Loop, InLoop, Looked, Intent, Ready, Ahead, JournalExplains, Exists,
         Whole, TakenUp
<1> QED
  BY <1>1, <1>2 DEF IInv

LEMMA TamperKeeps == IInv /\ Tamper => IInv'
<1> SUFFICES ASSUME IInv, Tamper PROVE IInv'
  OBVIOUS
<1>0. PICK k \in Objects, s \in States :
         object' = [object EXCEPT ![k] = s] /\ moved' = moved \cup {k}
  BY DEF Tamper
<1>1. TypeOK'
  BY <1>0 DEF IInv, TypeOK, Tamper
<1>2. Loop'
  BY DEF IInv, Loop, Tamper
<1>3. Intent' /\ Ready' /\ Ahead' /\ JournalExplains' /\ TakenUp'
  BY DEF Intent, Ready, Ahead, JournalExplains, TakenUp, Tamper
<1>4. \A i \in Objects \ moved' : i \notin moved /\ object'[i] = object[i]
  BY <1>0 DEF IInv, TypeOK
<1>5. \A i \in Objects \ moved' : Fits(journal, i)' <=> Fits(journal, i)
  BY <1>4 DEF Fits, Pre, Post, Before, After, Tamper
<1>6. Looked'
  BY <1>4, <1>5 DEF IInv, Looked, Tamper
<1>7. Whole'
  BY <1>4, PlacesStay DEF IInv, Whole, Tamper
<1> QED
  BY <1>1, <1>2, <1>3, <1>6, <1>7 DEF IInv

LEMMA InterruptKeeps == IInv /\ Interrupt => IInv'
<1> SUFFICES ASSUME IInv, Interrupt PROVE IInv'
  OBVIOUS
<1>1. TypeOK'
  BY DEF IInv, TypeOK, Interrupt
<1>2. Loop' /\ Looked' /\ Intent' /\ Ready' /\ Ahead' /\ Whole' /\ TakenUp'
  BY DEF IInv, Interrupt, Loop, InLoop, Looked, Intent, Ready, Ahead, Whole, TakenUp
<1>3. JournalExplains'
  BY FitsStays DEF IInv, Interrupt, JournalExplains, Exists
<1> QED
  BY <1>1, <1>2, <1>3 DEF IInv

LEMMA BeginKeeps == ASSUME NEW d \in Directions PROVE IInv /\ Begin(d) => IInv'
<1> SUFFICES ASSUME IInv, Begin(d) PROVE IInv'
  OBVIOUS
<1>0. /\ \/ Refused(d) /\ outcome' = "refused" /\ pc' = "idle"
         \/ ~Refused(d) /\ outcome' = "running" /\ pc' = "begin" /\ Exists
         \/ ~Refused(d) /\ outcome' = "running" /\ pc' = "intent" /\ ~Exists
      /\ direction' = d /\ at' = 1 /\ seen' = 0 /\ moved' = {}
      /\ UNCHANGED <<same, object, journal, lingering, tampered>>
      /\ resumable' = (/\ journal.direction = d
                       /\ journal.phase = "pending"
                       /\ ~lingering
                       /\ ~tampered)
  BY DEF Begin, Refuse
<1>1. TypeOK'
  BY <1>0, OwnershipAssumption DEF IInv, TypeOK
<1>2. Loop'
  BY <1>0 DEF IInv, TypeOK, Exists, Loop, InLoop
<1>3. Looked' /\ Intent'
  BY <1>0, ObjectsAre DEF Looked, Intent
<1>4. Ready' /\ Ahead' /\ Whole'
  BY <1>0 DEF Ready, Ahead, Whole
<1>5. JournalExplains'
  BY <1>0, FitsStays DEF IInv, JournalExplains, Exists
<1>6. TakenUp'
  <2> SUFFICES ASSUME resumable' PROVE ~tampered /\ outcome' # "refused" /\ pc' = "begin"
    BY <1>0 DEF TakenUp
  <2>1. ~tampered /\ ~lingering /\ journal.direction = d /\ journal.phase = "pending"
    BY <1>0
  <2>2. ~Refused(d) /\ Exists
    BY <2>1 DEF Refused, Exists, NoRecord
  <2> QED
    BY <1>0, <2>1, <2>2
<1> QED
  BY <1>1, <1>2, <1>3, <1>4, <1>5, <1>6 DEF IInv

LEMMA InspectAtBeginKeeps == IInv /\ InspectAtBegin => IInv'
<1> SUFFICES ASSUME IInv, InspectAtBegin PROVE IInv'
  OBVIOUS
<1>0. /\ pc = "begin" /\ journal \in Records /\ at = 1
      /\ UNCHANGED <<same, object, journal, lingering, direction, at, tampered, resumable>>
  BY DEF IInv, Loop, InspectAtBegin
<1>1. TypeOK /\ Exists
  BY <1>0, RecordsExist DEF IInv, Exists
<1>2. CASE Refuse /\ ~Fits(journal, seen + 1) /\ UNCHANGED <<seen, moved>>
  <2>1. pc' = "idle" /\ outcome' = "refused"
    BY <1>2 DEF Refuse
  <2>2. TypeOK'
    BY <1>0, <1>2, <2>1 DEF IInv, TypeOK
  <2>3. Loop' /\ Looked' /\ Intent' /\ Ready' /\ Ahead' /\ Whole'
    BY <2>1 DEF Loop, InLoop, Looked, Intent, Ready, Ahead, Whole
  <2>4. JournalExplains'
    BY <1>0, FitsStays DEF IInv, JournalExplains, Exists
  <2>5. ~JournalExplains \/ tampered
    BY <1>1, <1>2, OwnershipAssumption DEF JournalExplains, TypeOK, Objects
  <2>6. TakenUp'
    BY <1>0, <2>5 DEF IInv, TakenUp
  <2> QED
    BY <2>2, <2>3, <2>4, <2>6 DEF IInv
<1>3. CASE /\ Fits(journal, seen + 1)
           /\ \/ journal.direction # direction /\ Observed("intent", "running")
              \/ /\ journal.direction = direction
                 /\ journal.phase = "done"
                 /\ Observed("idle", "ok")
              \/ /\ journal.direction = direction
                 /\ journal.phase # "done"
                 /\ Observed("before", "running")
  <2>1. /\ seen + 1 \in Objects
        /\ seen' \in 0 .. N - 1
        /\ moved' \subseteq Objects
        /\ \/ /\ seen' = seen + 1
              /\ moved' = moved \ {seen + 1}
              /\ UNCHANGED <<pc, outcome>>
           \/ /\ seen' = 0 /\ moved' = moved \ {seen + 1} /\ seen + 1 = N
              /\ pc' = "intent" /\ outcome' = "running" /\ journal.direction # direction
           \/ /\ seen' = 0 /\ moved' = moved \ {seen + 1} /\ seen + 1 = N
              /\ pc' = "idle" /\ outcome' = "ok"
              /\ journal.direction = direction /\ journal.phase = "done"
           \/ /\ seen' = 0 /\ moved' = {}
              /\ pc' = "before" /\ outcome' = "running"
              /\ journal.direction = direction /\ journal.phase # "done"
    BY <1>1, <1>3, ObservedOneMore
  <2>2. TypeOK'
    BY <1>0, <2>1 DEF IInv, TypeOK
  <2>3. journal.progress \in Nat /\ journal.phase \in {"pending", "done"}
    BY <1>0, OwnershipAssumption DEF Records
  <2>4. Loop'
    BY <1>0, <2>1, <2>3, ObjectsAre DEF IInv, Loop, InLoop
  <2>5. \A i \in Objects \ (moved \ {seen + 1}) : i <= seen + 1 => Fits(journal, i)
    BY <1>0, <1>3, <2>1, ObjectsAre DEF IInv, Looked, TypeOK
  <2>6. Looked'
    BY <1>0, <2>1, <2>5, FitsStays, ObjectsAre DEF Looked
  <2>7. Intent' /\ Ready' /\ Ahead'
    BY <1>0, <2>1, ObjectsAre DEF Intent, Ready, Ahead
  <2>8. JournalExplains'
    BY <1>0, FitsStays DEF IInv, JournalExplains, Exists
  <2>9. Whole'
    <3> SUFFICES ASSUME outcome' = "ok"
                 PROVE  pc' = "idle" /\ \A i \in Objects \ moved' : object[i] = Post(direction, i)
      BY <1>0, PlacesStay DEF Whole
    <3>1. /\ pc' = "idle" /\ moved' = moved \ {seen + 1} /\ seen + 1 = N
          /\ journal.direction = direction /\ journal.phase = "done"
      BY <1>0, <2>1 DEF IInv, Whole
    <3>2. \A i \in Objects \ moved' : Fits(journal, i)
      BY <2>5, <3>1, ObjectsAre
    <3> QED
      BY <3>1, <3>2 DEF Fits
  <2>10. TakenUp'
    BY <1>0, <2>1 DEF IInv, TakenUp
  <2> QED
    BY <2>2, <2>4, <2>6, <2>7, <2>8, <2>9, <2>10 DEF IInv
<1> QED
  BY <1>2, <1>3 DEF InspectAtBegin

LEMMA ObserveForIntentKeeps == IInv /\ ObserveForIntent => IInv'
<1> SUFFICES ASSUME IInv, ObserveForIntent PROVE IInv'
  OBVIOUS
<1>0. /\ pc = "intent" /\ at = 1
      /\ UNCHANGED <<same, object, journal, lingering, direction, at, tampered, resumable>>
  BY DEF IInv, Loop, ObserveForIntent
<1>1. TypeOK
  BY DEF IInv
<1>2. JournalExplains'
  BY <1>0, FitsStays DEF IInv, JournalExplains, Exists
<1>3. TakenUp'
  BY <1>0 DEF IInv, TakenUp
<1>4. CASE Refuse /\ UNCHANGED <<seen, moved>>
  <2>1. pc' = "idle" /\ outcome' = "refused"
    BY <1>4 DEF Refuse
  <2>2. TypeOK'
    BY <1>0, <1>4, <2>1 DEF IInv, TypeOK
  <2>3. Loop' /\ Looked' /\ Intent' /\ Ready' /\ Ahead' /\ Whole'
    BY <2>1 DEF Loop, InLoop, Looked, Intent, Ready, Ahead, Whole
  <2> QED
    BY <1>2, <1>3, <2>2, <2>3 DEF IInv
<1>5. CASE object[seen + 1] = Pre(direction, seen + 1) /\ Observed("record", "running")
  <2>1. /\ seen + 1 \in Objects
        /\ seen' \in 0 .. N - 1
        /\ moved' \subseteq Objects
        /\ \/ seen' = seen + 1 /\ UNCHANGED <<pc, outcome>>
           \/ seen' = 0 /\ seen + 1 = N /\ pc' = "record" /\ outcome' = "running"
    BY <1>1, <1>5, ObservedOneMore
  <2>2. TypeOK'
    BY <1>0, <2>1 DEF IInv, TypeOK
  <2>3. Loop' /\ Looked' /\ Ready' /\ Ahead'
    BY <1>0, <2>1 DEF Loop, InLoop, Looked, Ready, Ahead
  <2>4. ~tampered => \A i \in Objects : i <= seen + 1 => object[i] = Pre(direction, i)
    BY <1>0, <1>5, <2>1, ObjectsAre DEF IInv, Intent, TypeOK
  <2>5. Intent'
    BY <1>0, <2>1, <2>4, PlacesStay, ObjectsAre DEF Intent
  <2>6. Whole'
    BY <1>0, <2>1 DEF IInv, Whole
  <2> QED
    BY <1>2, <1>3, <2>2, <2>3, <2>5, <2>6 DEF IInv
<1> QED
  BY <1>4, <1>5 DEF ObserveForIntent

LEMMA RecordIntentKeeps == IInv /\ RecordIntent => IInv'
<1> SUFFICES ASSUME IInv, RecordIntent PROVE IInv'
  OBVIOUS
<1> DEFINE r == [direction |-> direction, phase |-> "pending", progress |-> 0]
<1>0. /\ pc = "record" /\ at = 1 /\ seen = 0 /\ moved' = {}
      /\ UNCHANGED <<same, object, direction, at, seen, tampered, resumable>>
      /\ direction \in Directions
  BY DEF IInv, Loop, TypeOK, RecordIntent
<1>1. r \in Records /\ r.progress = 0 /\ r.phase = "pending" /\ r.direction = direction
  BY <1>0, NewIntent
<1>2. \/ journal' = r /\ pc' = "before" /\ outcome' = "running" /\ lingering' = lingering
      \/ journal' = r /\ pc' = "idle" /\ outcome' = "failed" /\ lingering' = lingering
      \/ journal' = journal /\ pc' = "idle" /\ outcome' = "failed" /\ lingering' = TRUE
  BY DEF RecordIntent, Record
<1> HIDE DEF r
<1>3. TypeOK'
  BY <1>0, <1>1, <1>2 DEF IInv, TypeOK
<1>4. Loop'
  BY <1>0, <1>1, <1>2, ObjectsAre DEF Loop, InLoop
<1>5. Looked' /\ Intent' /\ Ready' /\ Ahead' /\ Whole'
  BY <1>0, <1>2, ObjectsAre DEF Looked, Intent, Ready, Ahead, Whole
<1>6. JournalExplains'
  <2>1. CASE journal' = journal
    BY <1>0, <2>1, FitsStays DEF IInv, JournalExplains, Exists
  <2>2. CASE journal' = r
    <3> SUFFICES ASSUME ~tampered, NEW i \in Objects PROVE Fits(journal, i)'
      BY <1>0 DEF JournalExplains
    <3>1. object[i] = Pre(direction, i)
      BY <1>0 DEF IInv, Intent
    <3>2. ~(i <= 0)
      BY ObjectsAre
    <3> QED
      BY <1>0, <1>1, <2>2, <3>1, <3>2 DEF Fits, Pre, Post, Before, After
  <2> QED
    BY <1>2, <2>1, <2>2
<1>7. TakenUp'
  BY <1>0 DEF IInv, TakenUp
<1> QED
  BY <1>3, <1>4, <1>5, <1>6, <1>7 DEF IInv

LEMMA InspectKeeps == IInv /\ Inspect => IInv'
<1> SUFFICES ASSUME IInv, Inspect PROVE IInv'
  OBVIOUS
<1>0. /\ pc \in {"before", "mutation", "final"}
      /\ journal \in Records /\ journal.direction = direction /\ journal.phase = "pending"
      /\ journal.progress \in Nat /\ at \in Nat
      /\ at <= journal.progress + 1
      /\ UNCHANGED <<same, object, journal, lingering, direction, tampered, resumable>>
  BY DEF IInv, Loop, InLoop, Inspect, TypeOK, Records
<1>1. TypeOK /\ Exists
  BY <1>0, RecordsExist DEF IInv, Exists
<1>2. JournalExplains'
  BY <1>0, FitsStays DEF IInv, JournalExplains, Exists
<1>3. CASE ~Fits(journal, seen + 1) /\ Refuse /\ UNCHANGED <<at, seen, moved>>
  <2>1. pc' = "idle" /\ outcome' = "refused"
    BY <1>3 DEF Refuse
  <2>2. TypeOK'
    BY <1>0, <1>3, <2>1 DEF IInv, TypeOK
  <2>3. Loop' /\ Looked' /\ Intent' /\ Ready' /\ Ahead' /\ Whole'
    BY <2>1 DEF Loop, InLoop, Looked, Intent, Ready, Ahead, Whole
  <2>4. tampered
    BY <1>1, <1>3, OwnershipAssumption DEF IInv, JournalExplains, TypeOK, Objects
  <2>5. TakenUp'
    BY <1>0, <2>4 DEF IInv, TakenUp
  <2> QED
    BY <1>2, <2>2, <2>3, <2>5 DEF IInv
<1>4. CASE /\ Fits(journal, seen + 1)
           /\ \/ pc = "before" /\ Observed("observe", "running") /\ UNCHANGED at
              \/ /\ pc = "mutation"
                 /\ Observed(AfterMutation, "running")
                 /\ at' = IF pc' \in {"mutation", "progress"} THEN at ELSE at + 1
              \/ pc = "final" /\ Observed("done", "running") /\ UNCHANGED at
  <2>1. /\ seen + 1 \in Objects
        /\ seen' \in 0 .. N - 1
        /\ moved' \subseteq Objects
        /\ \/ /\ seen' = seen + 1
              /\ moved' = moved \ {seen + 1}
              /\ UNCHANGED <<pc, outcome, at>>
           \/ /\ pc = "before" /\ pc' = "observe" /\ at' = at /\ outcome' = "running"
              /\ seen' = 0 /\ seen + 1 = N /\ moved' = moved \ {seen + 1}
           \/ /\ pc = "mutation" /\ pc' = "progress" /\ at' = at /\ outcome' = "running"
              /\ at > journal.progress
              /\ seen' = 0
           \/ /\ pc = "mutation" /\ pc' = NextObject /\ at' = at + 1 /\ outcome' = "running"
              /\ at <= journal.progress
              /\ seen' = 0 /\ moved' = {}
           \/ /\ pc = "final" /\ pc' = "done" /\ at' = at /\ outcome' = "running"
              /\ seen' = 0 /\ seen + 1 = N /\ moved' = moved \ {seen + 1}
    BY <1>0, <1>1, <1>4, ObservedOneMore DEF AfterMutation, NextObject
  <2>2. pc = "mutation" => at \in Objects
    BY DEF IInv, Loop, InLoop
  <2>3. TypeOK'
    BY <1>0, <2>1, <2>2, ObjectsAre DEF IInv, TypeOK, NextObject
  <2>4. Loop'
    BY <1>0, <2>1, <2>2, ObjectsAre DEF IInv, Loop, InLoop, NextObject, Objects
  <2>5. pc \in {"before", "final"} =>
           \A i \in Objects \ (moved \ {seen + 1}) : i <= seen + 1 => Fits(journal, i)
    BY <1>4, <2>1, ObjectsAre DEF IInv, Looked, TypeOK
  <2>6. Looked'
    BY <1>0, <2>1, <2>5, FitsStays, ObjectsAre DEF Looked, NextObject
  <2>7. Intent' /\ Ready' /\ Ahead'
    BY <1>0, <2>1 DEF IInv, Intent, Ready, Ahead, NextObject, Post, Before, After
  <2>8. Whole' /\ TakenUp'
    BY <1>0, <2>1 DEF IInv, Whole, TakenUp, NextObject
  <2> QED
    BY <1>2, <2>3, <2>4, <2>6, <2>7, <2>8 DEF IInv
<1> QED
  BY <1>3, <1>4 DEF Inspect

LEMMA ObserveKeeps == IInv /\ Observe => IInv'
<1> SUFFICES ASSUME IInv, Observe PROVE IInv'
  OBVIOUS
<1>0. /\ pc = "observe" /\ at \in Objects /\ seen = 0
      /\ journal \in Records /\ journal.direction = direction /\ journal.phase = "pending"
      /\ journal.progress \in Nat /\ at \in Nat
      /\ at <= journal.progress + 1
      /\ moved' = moved \ {at}
      /\ direction \in Directions
      /\ UNCHANGED <<same, object, journal, lingering, direction, at, seen, tampered, resumable>>
  BY ObjectsAre DEF IInv, Loop, InLoop, Observe, TypeOK, Records
<1>1. \/ /\ pc' = "mutation" /\ outcome' = outcome
         /\ object[at] # Pre(direction, at)
      \/ /\ pc' = "idle" /\ outcome' = "refused"
         /\ object[at] = Pre(direction, at) /\ at <= journal.progress
      \/ /\ pc' = "mutate" /\ outcome' = outcome
         /\ object[at] = Pre(direction, at) /\ at > journal.progress
  BY DEF Observe, Refuse
<1>2. Exists
  BY <1>0, RecordsExist DEF Exists
<1>3. ~tampered => /\ at <= journal.progress => object[at] = Post(direction, at)
                   /\ object[at] # Pre(direction, at) => object[at] = Post(direction, at)
  BY <1>0, <1>2, FitsAt DEF IInv, JournalExplains
<1>4. TypeOK' /\ Loop'
  BY <1>0, <1>1 DEF IInv, TypeOK, Loop, InLoop
<1>5. Looked'
  <2> SUFFICES ASSUME pc' = "mutate", NEW i \in Objects \ (moved \ {at})
               PROVE  Fits(journal, i)
    BY <1>0, <1>1, FitsStays DEF Looked
  <2>1. CASE i = at
    BY <1>0, <1>1, <2>1 DEF Fits
  <2>2. CASE i # at
    BY <1>0, <2>2 DEF IInv, Looked
  <2> QED
    BY <2>1, <2>2
<1>6. Intent' /\ Ready' /\ Ahead'
  BY <1>0, <1>1, <1>3, PlacesStay DEF Intent, Ready, Ahead
<1>7. JournalExplains'
  BY <1>0, FitsStays DEF IInv, JournalExplains, Exists
<1>8. Whole'
  BY <1>0, <1>1 DEF IInv, Whole
<1>9. TakenUp'
  <2>1. same = {} => Pre(direction, at) # Post(direction, at)
    BY <1>0, PreAndPost
  <2> QED
    BY <1>0, <1>1, <1>3, <2>1 DEF IInv, TakenUp
<1> QED
  BY <1>4, <1>5, <1>6, <1>7, <1>8, <1>9 DEF IInv

\* The object the loop is at, when its record is behind it, is the one the
\* journal leaves open.
LEMMA InFlight ==
    ASSUME IInv, pc \in {"mutate", "progress"}
    PROVE  /\ at \in Objects /\ at = journal.progress + 1
           /\ journal \in Records /\ journal.progress \in Nat
           /\ journal.direction = direction /\ journal.phase = "pending"
  BY DEF IInv, Loop, InLoop, TypeOK, Records

LEMMA MutateKeeps == IInv /\ Mutate => IInv'
<1> SUFFICES ASSUME IInv, Mutate PROVE IInv'
  OBVIOUS
<1>0. /\ pc = "mutate"
      /\ UNCHANGED <<same, journal, lingering, direction, at, seen, moved, tampered, resumable>>
      /\ object \in [Objects -> States]
      /\ direction \in Directions
  BY DEF IInv, TypeOK, Mutate
<1>1. /\ at \in Objects /\ at = journal.progress + 1
      /\ journal \in Records /\ journal.progress \in Nat
      /\ journal.direction = direction /\ journal.phase = "pending"
  BY <1>0, InFlight
<1>2. \/ /\ pc' = "idle" /\ outcome' = "refused" /\ object' = object
         /\ object[at] # Pre(direction, at)
      \/ /\ object' = [object EXCEPT ![at] = Post(direction, at)]
         /\ \/ pc' = "mutation" /\ outcome' = outcome
            \/ pc' = "idle" /\ outcome' = "failed"
  BY DEF Mutate, Refuse
<1>3. TypeOK'
  <2>1. object' \in [Objects -> States]
    BY <1>0, <1>1, <1>2, PreAndPost
  <2> QED
    BY <1>0, <1>2, <2>1 DEF IInv, TypeOK
<1>4. Loop'
  BY <1>0, <1>2 DEF IInv, Loop, InLoop
<1>5. Looked' /\ Intent' /\ Ready'
  BY <1>0, <1>2 DEF Looked, Intent, Ready
<1>6. Ahead'
  BY <1>0, <1>1, <1>2, PlacesStay DEF Ahead
<1>7. JournalExplains'
  <2>1. CASE object' = object
    BY <1>0, <2>1, FitsStays DEF IInv, JournalExplains, Exists
  <2>2. CASE object' = [object EXCEPT ![at] = Post(direction, at)]
    <3> SUFFICES ASSUME ~tampered, NEW i \in Objects PROVE Fits(journal, i)'
      BY <1>0 DEF JournalExplains
    <3>1. CASE i = at
      BY <1>0, <1>1, <2>2, <3>1 DEF Fits, Pre, Post, Before, After
    <3>2. CASE i # at
      <4>1. Fits(journal, i)
        BY <1>1, RecordsExist DEF IInv, JournalExplains, Exists
      <4>2. object'[i] = object[i]
        BY <1>0, <1>1, <2>2, <3>2
      <4> QED
        BY <1>0, <4>1, <4>2 DEF Fits, Pre, Post, Before, After
    <3> QED
      BY <3>1, <3>2
  <2> QED
    BY <1>2, <2>1, <2>2
<1>8. Whole'
  BY <1>0, <1>2 DEF IInv, Whole
<1>9. TakenUp'
  BY <1>0, <1>2 DEF IInv, Ready, TakenUp
<1> QED
  BY <1>3, <1>4, <1>5, <1>6, <1>7, <1>8, <1>9 DEF IInv

LEMMA RecordProgressKeeps == IInv /\ RecordProgress => IInv'
<1> SUFFICES ASSUME IInv, RecordProgress PROVE IInv'
  OBVIOUS
<1> DEFINE r == [journal EXCEPT !.progress = at]
<1>0. /\ pc = "progress" /\ seen = 0 /\ moved' = {} /\ at' = at + 1
      /\ UNCHANGED <<same, object, direction, seen, tampered, resumable>>
  BY DEF IInv, Loop, RecordProgress
<1>1. /\ at \in Objects /\ at = journal.progress + 1
      /\ journal \in Records /\ journal.progress \in Nat
      /\ journal.direction = direction /\ journal.phase = "pending"
  BY <1>0, InFlight
<1>2. r \in Records /\ r.progress = at /\ r.phase = "pending" /\ r.direction = direction
  BY <1>1, NextRecords
<1>3. \/ /\ journal' = r /\ pc' = NextObject /\ outcome' = "running"
         /\ lingering' = lingering
      \/ journal' = r /\ pc' = "idle" /\ outcome' = "failed" /\ lingering' = lingering
      \/ journal' = journal /\ pc' = "idle" /\ outcome' = "failed" /\ lingering' = TRUE
  BY DEF RecordProgress, Record
<1> HIDE DEF r
<1>4. TypeOK'
  <2>1. at' \in 1 .. N + 1 /\ journal' \in Records
    BY <1>0, <1>1, <1>2, <1>3, ObjectsAre
  <2>2. moved' \subseteq Objects
    BY <1>0
  <2>3. pc' \in {"idle", "before", "final"} /\ outcome' \in {"running", "failed"}
    BY <1>3 DEF NextObject
  <2> QED
    BY <1>0, <1>3, <2>1, <2>2, <2>3 DEF IInv, TypeOK
<1>5. Loop'
  BY <1>0, <1>1, <1>2, <1>3, ObjectsAre DEF Loop, InLoop, NextObject, Objects
<1>6. Looked' /\ Intent' /\ Ready' /\ Ahead' /\ Whole'
  BY <1>0, <1>3, ObjectsAre DEF Looked, Intent, Ready, Ahead, Whole, NextObject
<1>7. JournalExplains'
  <2>1. CASE journal' = journal
    BY <1>0, <2>1, FitsStays DEF IInv, JournalExplains, Exists
  <2>2. CASE journal' = r
    <3> SUFFICES ASSUME ~tampered, NEW i \in Objects PROVE Fits(journal, i)'
      BY <1>0 DEF JournalExplains
    <3>1. Fits(journal, i) /\ object[at] = Post(direction, at)
      BY <1>0, <1>1, RecordsExist DEF IInv, JournalExplains, Exists, Ahead
    <3>2. i \in Nat
      BY ObjectsAre
    <3>3. IF i <= at THEN object[i] = Post(direction, i) ELSE object[i] = Pre(direction, i)
      BY <1>1, <3>1, <3>2 DEF Fits
    <3> QED
      BY <1>0, <1>2, <2>2, <3>3 DEF Fits, Pre, Post, Before, After
  <2> QED
    BY <1>3, <2>1, <2>2
<1>8. TakenUp'
  BY <1>0, <1>3 DEF IInv, TakenUp, NextObject
<1> QED
  BY <1>4, <1>5, <1>6, <1>7, <1>8 DEF IInv

LEMMA RecordDoneKeeps == IInv /\ RecordDone => IInv'
<1> SUFFICES ASSUME IInv, RecordDone PROVE IInv'
  OBVIOUS
<1> DEFINE r == [journal EXCEPT !.phase = "done"]
<1>0. /\ pc = "done"
      /\ UNCHANGED <<same, object, direction, at, seen, moved, tampered, resumable>>
  BY DEF RecordDone
<1>1. /\ journal \in Records /\ journal.direction = direction
      /\ \A i \in Objects : i <= journal.progress
  BY <1>0, ObjectsAre DEF IInv, Loop, InLoop, Records
<1>2. r \in Records /\ r.phase = "done" /\ r.direction = direction
  BY <1>1, ObjectsAre, NextRecords
<1>3. \/ journal' = r /\ pc' = "idle" /\ outcome' = "ok" /\ lingering' = lingering
      \/ journal' = r /\ pc' = "idle" /\ outcome' = "failed" /\ lingering' = lingering
      \/ journal' = journal /\ pc' = "idle" /\ outcome' = "failed" /\ lingering' = TRUE
  BY DEF RecordDone, Record
<1> HIDE DEF r
<1>4. \A i \in Objects : Fits(journal, i) => object[i] = Post(direction, i)
  BY <1>1 DEF Fits
<1>5. TypeOK'
  BY <1>0, <1>2, <1>3 DEF IInv, TypeOK
<1>6. Loop' /\ Looked' /\ Intent' /\ Ready' /\ Ahead'
  BY <1>3 DEF Loop, InLoop, Looked, Intent, Ready, Ahead
<1>7. JournalExplains'
  <2>1. CASE journal' = journal
    BY <1>0, <2>1, FitsStays DEF IInv, JournalExplains, Exists
  <2>2. CASE journal' = r
    <3> SUFFICES ASSUME ~tampered, NEW i \in Objects PROVE Fits(journal, i)'
      BY <1>0 DEF JournalExplains
    <3>1. object[i] = Post(direction, i)
      BY <1>1, <1>4, RecordsExist DEF IInv, JournalExplains, Exists
    <3> QED
      BY <1>0, <1>2, <2>2, <3>1 DEF Fits, Pre, Post, Before, After
  <2> QED
    BY <1>3, <2>1, <2>2
<1>8. Whole'
  <2>1. \A i \in Objects \ moved : object[i] = Post(direction, i)
    BY <1>0, <1>4 DEF IInv, Looked
  <2> QED
    BY <1>0, <1>3, <2>1, PlacesStay DEF Whole
<1>9. TakenUp'
  BY <1>0, <1>3 DEF IInv, TakenUp
<1> QED
  BY <1>5, <1>6, <1>7, <1>8, <1>9 DEF IInv

LEMMA StutterKeeps == IInv /\ UNCHANGED vars => IInv'
<1> SUFFICES ASSUME IInv, UNCHANGED vars PROVE IInv'
  OBVIOUS
<1>1. TypeOK' /\ Loop' /\ TakenUp'
  BY DEF vars, IInv, TypeOK, Loop, TakenUp
<1>2. Looked' /\ JournalExplains'
  BY FitsStays DEF vars, IInv, Looked, JournalExplains, Exists
<1>3. Intent' /\ Ready' /\ Ahead' /\ Whole'
  BY DEF vars, IInv, Intent, Ready, Ahead, Whole, Pre, Post, Before, After
<1> QED
  BY <1>1, <1>2, <1>3 DEF IInv

-----------------------------------------------------------------------------
(* The theorems.                                                           *)

\* IInv is an invariant for any number of objects.
THEOREM OwnershipInvariant == Spec => []IInv
<1>1. IInv /\ [Next]_vars => IInv'
  BY TamperKeeps, InterruptKeeps, BeginKeeps, InspectAtBeginKeeps, ObserveForIntentKeeps,
     RecordIntentKeeps, InspectKeeps, ObserveKeeps, MutateKeeps, RecordProgressKeeps,
     RecordDoneKeeps, StutterKeeps
  DEF Next
<1> QED
  BY <1>1, InitInv, PTL DEF Spec

(* Each variable of the transaction keeps its type.                        *)
THEOREM OwnershipTypeOK == Spec => []TypeOK
  BY OwnershipInvariant, PTL DEF IInv

(* The journal explains every object, whatever call failed and wherever a  *)
(* run ended, unless somebody else changed one (ownership_transaction.go,  *)
(* inspect and record).                                                    *)
THEOREM OwnershipJournalExplains == Spec => []JournalExplains
  BY OwnershipInvariant, PTL DEF IInv

(* A run that reports success leaves every object as its direction wants   *)
(* it, whoever changed objects before or meanwhile, but for those that     *)
(* were changed behind its last look at them (run, inspect).               *)
THEOREM OwnershipSuccessIsWhole == Spec => []SuccessIsWhole
<1>1. IInv => SuccessIsWhole
  BY DEF IInv, Whole, SuccessIsWhole
<1> QED
  BY <1>1, OwnershipInvariant, PTL

(* A pending run is taken up again in its direction, if every object needs *)
(* the change.                                                             *)
THEOREM OwnershipPendingIsTakenUp == Spec => []PendingIsTakenUp
<1>1. IInv => PendingIsTakenUp
  BY DEF IInv, TakenUp, PendingIsTakenUp
<1> QED
  BY <1>1, OwnershipInvariant, PTL

\* A step of a run that changes an object has seen the others explained.
LEMMA ChangeIsExplained ==
    ASSUME IInv, Next, pc # "idle", pc' # pc, object' # object
    PROVE  \A i \in Objects \ (moved \cup {at}) :
               object[i] = IF i < at THEN Post(direction, i) ELSE Pre(direction, i)
<1>1. pc = "mutate"
  BY DEF Next, Tamper, Interrupt, Begin, InspectAtBegin, ObserveForIntent, RecordIntent,
         Inspect, Observe, RecordProgress, RecordDone, Mutate
<1>2. /\ at = journal.progress + 1
      /\ journal.direction = direction /\ journal.phase = "pending"
      /\ journal.progress \in Nat
  BY <1>1, InFlight
<1> SUFFICES ASSUME NEW i \in Objects \ (moved \cup {at})
             PROVE  object[i] = IF i < at THEN Post(direction, i) ELSE Pre(direction, i)
  OBVIOUS
<1>3. Fits(journal, i)
  BY <1>1 DEF IInv, Looked
<1>4. i \in Nat /\ i # at
  BY ObjectsAre
<1> QED
  BY <1>2, <1>3, <1>4 DEF Fits

(* A run changes an object only if, when it last looked, every other one   *)
(* was where the journal says, whoever changes objects between any two of  *)
(* its steps: what somebody else changed is not taken for its own.         *)
THEOREM OwnershipUnexplainedIsLeftAlone == Spec => UnexplainedIsLeftAlone
<1> DEFINE Explained ==
       pc # "idle" /\ pc' # pc /\ object' # object =>
         \A i \in Objects \ (moved \cup {at}) :
             object[i] = IF i < at THEN Post(direction, i) ELSE Pre(direction, i)
<1>1. IInv /\ [Next]_vars => [Explained]_vars
  BY ChangeIsExplained
<1>2. Spec => [][Explained]_vars
  BY <1>1, OwnershipInvariant, PTL DEF Spec
<1> QED
  BY <1>2 DEF UnexplainedIsLeftAlone
=============================================================================
