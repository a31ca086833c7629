------------------------ MODULE ConfirmationsProofs ------------------------
(***************************************************************************)
(* Proofs about Confirmations for every finite set of requests, every cap, *)
(* snapshot length and retry limit, any number of failures and restarts:   *)
(* the inductive invariant ConfirmationsInv gives the safety properties.   *)
(***************************************************************************)
EXTENDS Confirmations, FiniteSetTheorems, TLAPS

-----------------------------------------------------------------------------
(* The inductive invariant. *)

\* A confirmation has a row exactly when its request was queued; the flusher
\* has nothing at hand between flushes, and what it has was not synced before.
PlaceInv ==
    /\ \A c \in Confirmations : request[c] = "queued" <=> row[c] # "absent"
    /\ flusher \in {"idle", "exited"} => snapshot = {}
    /\ \A c \in snapshot \cup {current} : c # None => row[c] \in {"unsynced", "evicted"}
    /\ current \notin snapshot
    /\ current # None => retry[current] < MaxRetries

\* The flusher may still send it.
Open(c) == row[c] = "unsynced" \/ c \in snapshot \/ c = current

\* Whatever may be sent again was delivered only in ways the history counts.
DeliveredInv ==
    \A c \in Confirmations :
        /\ request[c] \in {"new", "sending"} => delivered[c] = 0
        /\ request[c] = "sent" => delivered[c] > 0
        /\ request[c] = "queueing" => delivered[c] <= lost[c]
        /\ row[c] = "synced" => delivered[c] > 0
        /\ flusher = "accepted" /\ c = current => delivered[c] > 0
        /\ Open(c) /\ ~(flusher = "accepted" /\ c = current) =>
             delivered[c] <= lost[c] + unwritten[c]

\* Each send so far shows in the retry count or in the history.
SentInv ==
    \A c \in Confirmations :
        /\ row[c] = "absent" => sent[c] = 0
        /\ Open(c) => sent[c] <= retry[c] + unwritten[c] + (IF c = current THEN 1 ELSE 0)

ConfirmationsInv ==
    /\ TypeOK
    /\ PlaceInv
    /\ DeliveredInv
    /\ SentInv
    /\ DuplicatesAreAccounted
    /\ SendsAreBounded
    /\ EvictionsMakeRoom

-----------------------------------------------------------------------------
(* The steps that leave the rows alone. *)

LEMMA RowsAlone ==
    ASSUME EvictionsMakeRoom, UNCHANGED row
    PROVE  EvictionsMakeRoom'
  BY DEF EvictionsMakeRoom, Unsynced, Evicted, Queued

LEMMA RefuseStep ==
    ASSUME NEW c \in Confirmations, ConfirmationsInv, Refuse(c)
    PROVE  ConfirmationsInv'
<1> USE ConfirmationsAssumption DEF ConfirmationsInv, TypeOK, Refuse, Answer, table, process, history,
        RequestStates, RowStates, FlusherStates
<1>1. TypeOK'
  BY DEF PlaceInv
<1>2. PlaceInv'
  BY DEF PlaceInv
<1>3. DeliveredInv' /\ DuplicatesAreAccounted'
  BY DEF PlaceInv, DeliveredInv, DuplicatesAreAccounted, Open
<1>4. SentInv' /\ SendsAreBounded'
  BY DEF PlaceInv, SentInv, SendsAreBounded, Open
<1>5. EvictionsMakeRoom'
  BY RowsAlone
<1>6. QED
  BY <1>1, <1>2, <1>3, <1>4, <1>5

LEMMA CheckHealthStep ==
    ASSUME NEW c \in Confirmations, ConfirmationsInv, CheckHealth(c)
    PROVE  ConfirmationsInv'
<1> USE ConfirmationsAssumption DEF ConfirmationsInv, TypeOK, CheckHealth, Answer, table, process, history,
        RequestStates, RowStates, FlusherStates
<1>1. TypeOK'
  BY DEF PlaceInv
<1>2. PlaceInv'
  BY DEF PlaceInv
<1>3. DeliveredInv' /\ DuplicatesAreAccounted'
  BY DEF PlaceInv, DeliveredInv, DuplicatesAreAccounted, Open
<1>4. SentInv' /\ SendsAreBounded'
  BY DEF PlaceInv, SentInv, SendsAreBounded, Open
<1>5. EvictionsMakeRoom'
  BY RowsAlone
<1>6. QED
  BY <1>1, <1>2, <1>3, <1>4, <1>5

LEMMA SendNowStep ==
    ASSUME NEW c \in Confirmations, ConfirmationsInv, SendNow(c)
    PROVE  ConfirmationsInv'
<1> USE ConfirmationsAssumption DEF ConfirmationsInv, TypeOK, SendNow, Answer, table, process, history,
        RequestStates, RowStates, FlusherStates
<1>1. TypeOK'
  BY DEF PlaceInv
<1>2. PlaceInv'
  BY DEF PlaceInv
<1>3. DeliveredInv' /\ DuplicatesAreAccounted'
  BY DEF PlaceInv, DeliveredInv, DuplicatesAreAccounted, Open
<1>4. SentInv' /\ SendsAreBounded'
  BY DEF PlaceInv, SentInv, SendsAreBounded, Open
<1>5. EvictionsMakeRoom'
  BY RowsAlone
<1>6. QED
  BY <1>1, <1>2, <1>3, <1>4, <1>5

LEMMA SendNowFailsStep ==
    ASSUME NEW c \in Confirmations, ConfirmationsInv, SendNowFails(c)
    PROVE  ConfirmationsInv'
<1> USE ConfirmationsAssumption DEF ConfirmationsInv, TypeOK, SendNowFails, Answer, Fault, table, process, history,
        RequestStates, RowStates, FlusherStates
<1>1. TypeOK'
  BY DEF PlaceInv
<1>2. PlaceInv'
  BY DEF PlaceInv
<1>3. DeliveredInv' /\ DuplicatesAreAccounted'
  BY DEF PlaceInv, DeliveredInv, DuplicatesAreAccounted, Open
<1>4. SentInv' /\ SendsAreBounded'
  BY DEF PlaceInv, SentInv, SendsAreBounded, Open
<1>5. EvictionsMakeRoom'
  BY RowsAlone
<1>6. QED
  BY <1>1, <1>2, <1>3, <1>4, <1>5

LEMMA QueueFailsStep ==
    ASSUME NEW c \in Confirmations, ConfirmationsInv, QueueFails(c)
    PROVE  ConfirmationsInv'
<1> USE ConfirmationsAssumption DEF ConfirmationsInv, TypeOK, QueueFails, Answer, table, process, history,
        RequestStates, RowStates, FlusherStates
<1>1. TypeOK'
  BY DEF PlaceInv
<1>2. PlaceInv'
  BY DEF PlaceInv
<1>3. DeliveredInv' /\ DuplicatesAreAccounted'
  BY DEF PlaceInv, DeliveredInv, DuplicatesAreAccounted, Open
<1>4. SentInv' /\ SendsAreBounded'
  BY DEF PlaceInv, SentInv, SendsAreBounded, Open
<1>5. EvictionsMakeRoom'
  BY RowsAlone
<1>6. QED
  BY <1>1, <1>2, <1>3, <1>4, <1>5

LEMMA FlushBeginStep ==
    ASSUME ConfirmationsInv, FlushBegin
    PROVE  ConfirmationsInv'
<1> USE ConfirmationsAssumption DEF ConfirmationsInv, TypeOK, FlushBegin, Snapshots, Unsynced, table, process, history,
        RequestStates, RowStates, FlusherStates
<1>1. TypeOK'
  BY DEF PlaceInv
<1>2. PlaceInv'
  BY DEF PlaceInv
<1>3. DeliveredInv' /\ DuplicatesAreAccounted'
  BY DEF PlaceInv, DeliveredInv, DuplicatesAreAccounted, Open
<1>4. SentInv' /\ SendsAreBounded'
  BY DEF PlaceInv, SentInv, SendsAreBounded, Open
<1>5. EvictionsMakeRoom'
  BY RowsAlone
<1>6. QED
  BY <1>1, <1>2, <1>3, <1>4, <1>5

LEMMA FlushSkipStep ==
    ASSUME ConfirmationsInv, FlushSkip
    PROVE  ConfirmationsInv'
<1> USE ConfirmationsAssumption DEF ConfirmationsInv, TypeOK, FlushSkip, Oldest, table, process, history,
        RequestStates, RowStates, FlusherStates
<1>1. TypeOK'
  BY DEF PlaceInv
<1>2. PlaceInv'
  BY DEF PlaceInv
<1>3. DeliveredInv' /\ DuplicatesAreAccounted'
  BY DEF PlaceInv, DeliveredInv, DuplicatesAreAccounted, Open
<1>4. SentInv' /\ SendsAreBounded'
  BY DEF PlaceInv, SentInv, SendsAreBounded, Open
<1>5. EvictionsMakeRoom'
  BY RowsAlone
<1>6. QED
  BY <1>1, <1>2, <1>3, <1>4, <1>5

LEMMA FlushSendStep ==
    ASSUME ConfirmationsInv, FlushSend
    PROVE  ConfirmationsInv'
<1> USE ConfirmationsAssumption DEF ConfirmationsInv, TypeOK, FlushSend, Oldest, table, process, history,
        RequestStates, RowStates, FlusherStates
<1>1. TypeOK'
  BY DEF PlaceInv
<1>2. PlaceInv'
  BY DEF PlaceInv
<1>3. DeliveredInv' /\ DuplicatesAreAccounted'
  BY DEF PlaceInv, DeliveredInv, DuplicatesAreAccounted, Open
<1>4. SentInv' /\ SendsAreBounded'
  BY DEF PlaceInv, SentInv, SendsAreBounded, Open
<1>5. EvictionsMakeRoom'
  BY RowsAlone
<1>6. QED
  BY <1>1, <1>2, <1>3, <1>4, <1>5

LEMMA FlushEndStep ==
    ASSUME ConfirmationsInv, FlushEnd
    PROVE  ConfirmationsInv'
<1> USE ConfirmationsAssumption DEF ConfirmationsInv, TypeOK, FlushEnd, table, process, history,
        RequestStates, RowStates, FlusherStates
<1>1. TypeOK'
  BY DEF PlaceInv
<1>2. PlaceInv'
  BY DEF PlaceInv
<1>3. DeliveredInv' /\ DuplicatesAreAccounted'
  BY DEF PlaceInv, DeliveredInv, DuplicatesAreAccounted, Open
<1>4. SentInv' /\ SendsAreBounded'
  BY DEF PlaceInv, SentInv, SendsAreBounded, Open
<1>5. EvictionsMakeRoom'
  BY RowsAlone
<1>6. QED
  BY <1>1, <1>2, <1>3, <1>4, <1>5

LEMMA AcceptedStep ==
    ASSUME ConfirmationsInv, Accepted
    PROVE  ConfirmationsInv'
<1> USE ConfirmationsAssumption DEF ConfirmationsInv, TypeOK, Accepted, table, process, history,
        RequestStates, RowStates, FlusherStates
<1>1. TypeOK'
  BY DEF PlaceInv
<1>2. PlaceInv'
  BY DEF PlaceInv
<1>3. DeliveredInv' /\ DuplicatesAreAccounted'
  BY DEF PlaceInv, DeliveredInv, DuplicatesAreAccounted, Open
<1>4. SentInv' /\ SendsAreBounded'
  BY DEF PlaceInv, SentInv, SendsAreBounded, Open
<1>5. EvictionsMakeRoom'
  BY RowsAlone
<1>6. QED
  BY <1>1, <1>2, <1>3, <1>4, <1>5

LEMMA RejectedStep ==
    ASSUME ConfirmationsInv, Rejected
    PROVE  ConfirmationsInv'
<1> USE ConfirmationsAssumption DEF ConfirmationsInv, TypeOK, Rejected, Fault, table, process, history,
        RequestStates, RowStates, FlusherStates
<1>1. TypeOK'
  BY DEF PlaceInv
<1>2. PlaceInv'
  BY DEF PlaceInv
<1>3. DeliveredInv' /\ DuplicatesAreAccounted'
  BY DEF PlaceInv, DeliveredInv, DuplicatesAreAccounted, Open
<1>4. SentInv' /\ SendsAreBounded'
  BY DEF PlaceInv, SentInv, SendsAreBounded, Open
<1>5. EvictionsMakeRoom'
  BY RowsAlone
<1>6. QED
  BY <1>1, <1>2, <1>3, <1>4, <1>5

LEMMA IncrementRetryCountStep ==
    ASSUME ConfirmationsInv, IncrementRetryCount
    PROVE  ConfirmationsInv'
<1> USE ConfirmationsAssumption DEF ConfirmationsInv, TypeOK, IncrementRetryCount, table, process, history,
        RequestStates, RowStates, FlusherStates
<1>1. TypeOK'
  BY DEF PlaceInv
<1>2. PlaceInv'
  BY DEF PlaceInv
<1>3. DeliveredInv' /\ DuplicatesAreAccounted'
  BY DEF PlaceInv, DeliveredInv, DuplicatesAreAccounted, Open
<1>4. SentInv' /\ SendsAreBounded'
  BY DEF PlaceInv, SentInv, SendsAreBounded, Open
<1>5. EvictionsMakeRoom'
  BY RowsAlone
<1>6. QED
  BY <1>1, <1>2, <1>3, <1>4, <1>5

LEMMA WriteFailsStep ==
    ASSUME ConfirmationsInv, WriteFails
    PROVE  ConfirmationsInv'
<1> USE ConfirmationsAssumption DEF ConfirmationsInv, TypeOK, WriteFails, Fault, table, process, history,
        RequestStates, RowStates, FlusherStates
<1>1. TypeOK'
  BY DEF PlaceInv
<1>2. PlaceInv'
  BY DEF PlaceInv
<1>3. DeliveredInv' /\ DuplicatesAreAccounted'
  BY DEF PlaceInv, DeliveredInv, DuplicatesAreAccounted, Open
<1>4. SentInv' /\ SendsAreBounded'
  BY DEF PlaceInv, SentInv, SendsAreBounded, Open
<1>5. EvictionsMakeRoom'
  BY RowsAlone
<1>6. QED
  BY <1>1, <1>2, <1>3, <1>4, <1>5

LEMMA StopStep ==
    ASSUME ConfirmationsInv, Stop
    PROVE  ConfirmationsInv'
<1> USE ConfirmationsAssumption DEF ConfirmationsInv, TypeOK, Stop, table, process, history,
        RequestStates, RowStates, FlusherStates
<1>1. TypeOK'
  BY DEF PlaceInv
<1>2. PlaceInv'
  BY DEF PlaceInv
<1>3. DeliveredInv' /\ DuplicatesAreAccounted'
  BY DEF PlaceInv, DeliveredInv, DuplicatesAreAccounted, Open
<1>4. SentInv' /\ SendsAreBounded'
  BY DEF PlaceInv, SentInv, SendsAreBounded, Open
<1>5. EvictionsMakeRoom'
  BY RowsAlone
<1>6. QED
  BY <1>1, <1>2, <1>3, <1>4, <1>5

LEMMA FlusherExitsStep ==
    ASSUME ConfirmationsInv, FlusherExits
    PROVE  ConfirmationsInv'
<1> USE ConfirmationsAssumption DEF ConfirmationsInv, TypeOK, FlusherExits, table, process, history,
        RequestStates, RowStates, FlusherStates
<1>1. TypeOK'
  BY DEF PlaceInv
<1>2. PlaceInv'
  BY DEF PlaceInv
<1>3. DeliveredInv' /\ DuplicatesAreAccounted'
  BY DEF PlaceInv, DeliveredInv, DuplicatesAreAccounted, Open
<1>4. SentInv' /\ SendsAreBounded'
  BY DEF PlaceInv, SentInv, SendsAreBounded, Open
<1>5. EvictionsMakeRoom'
  BY RowsAlone
<1>6. QED
  BY <1>1, <1>2, <1>3, <1>4, <1>5

LEMMA RestartStep ==
    ASSUME ConfirmationsInv, Restart
    PROVE  ConfirmationsInv'
<1> USE ConfirmationsAssumption DEF ConfirmationsInv, TypeOK, Restart, Fault, InFlight, table, process, history,
        RequestStates, RowStates, FlusherStates
<1>1. TypeOK'
  <2>1. /\ request' \in [Confirmations -> RequestStates]
        /\ delivered' \in [Confirmations -> Nat]
        /\ unwritten' \in [Confirmations -> Nat]
        /\ faults' \in 0 .. MaxFaults
    OBVIOUS
  <2>2. QED
    BY <2>1
<1>2. PlaceInv'
  BY DEF PlaceInv
<1>3. DeliveredInv' /\ DuplicatesAreAccounted'
  BY DEF PlaceInv, DeliveredInv, DuplicatesAreAccounted, Open
<1>4. SentInv' /\ SendsAreBounded'
  BY DEF PlaceInv, SentInv, SendsAreBounded, Open
<1>5. EvictionsMakeRoom'
  BY RowsAlone
<1>6. QED
  BY <1>1, <1>2, <1>3, <1>4, <1>5

-----------------------------------------------------------------------------
(* The steps that write a row: what they do to the sizes of the queue. *)

LEMMA QueueIsFinite ==
    ASSUME ConfirmationsInv
    PROVE  /\ IsFiniteSet(Unsynced)
           /\ IsFiniteSet(Evicted)
           /\ IsFiniteSet(Queued)
           /\ Cardinality(Unsynced) \in Nat
           /\ Cardinality(Evicted) \in Nat
           /\ Cardinality(Queued) \in Nat
           /\ Cardinality(Unsynced) + Cardinality(Evicted) <= Cardinality(Queued)
<1>1. /\ IsFiniteSet(Unsynced)
      /\ IsFiniteSet(Evicted)
      /\ IsFiniteSet(Queued)
  BY ConfirmationsAssumption, FS_Subset DEF Unsynced, Evicted, Queued
<1>2. Unsynced \cap Evicted = {}
  BY DEF Unsynced, Evicted
<1>3. /\ IsFiniteSet(Unsynced \cup Evicted)
      /\ Cardinality(Unsynced \cup Evicted) =
           Cardinality(Unsynced) + Cardinality(Evicted) - Cardinality(Unsynced \cap Evicted)
  BY <1>1, FS_Union
<1>4. Cardinality(Unsynced \cap Evicted) = 0
  BY <1>2, FS_EmptySet
<1>5. Unsynced \cup Evicted \subseteq Queued
  BY DEF Unsynced, Evicted, Queued
<1>6. Cardinality(Unsynced \cup Evicted) <= Cardinality(Queued)
  BY <1>1, <1>5, FS_Subset
<1>7. /\ Cardinality(Unsynced) \in Nat
      /\ Cardinality(Evicted) \in Nat
      /\ Cardinality(Queued) \in Nat
  BY <1>1, FS_CardinalityType
<1>8. QED
  BY <1>1, <1>3, <1>4, <1>6, <1>7

LEMMA QueueStep ==
    ASSUME NEW c \in Confirmations, ConfirmationsInv, Queue(c)
    PROVE  ConfirmationsInv'
<1> USE ConfirmationsAssumption
<1>1. PICK rows \in [Confirmations -> RowStates] :
          /\ InsertRow(c, rows)
          /\ \/ Full /\ \E old \in Unsynced : rows = [row EXCEPT ![old] = "evicted"]
             \/ ~Full /\ rows = row
  BY DEF Queue, ConfirmationsInv, TypeOK, RowStates, Oldest, Unsynced
<1>2. /\ request[c] = "queueing"
      /\ request' = [request EXCEPT ![c] = "queued"]
      /\ row[c] = "absent"
      /\ rows[c] = "absent"
      /\ c # current
      /\ c \notin snapshot
      /\ UNCHANGED <<process, delivered, history, faults>>
  BY <1>1 DEF Queue, Answer, ConfirmationsInv, TypeOK, PlaceInv, RowStates, RequestStates, Unsynced
<1>3. /\ row' = [rows EXCEPT ![c] = "unsynced"]
      /\ second' \in second .. MaxSecond
      /\ created' = [created EXCEPT ![c] = second']
      /\ retry' = retry
  BY <1>1 DEF InsertRow
<1>4. \A d \in Confirmations : \/ rows[d] = row[d]
                               \/ row[d] = "unsynced" /\ rows[d] = "evicted"
  BY <1>1 DEF ConfirmationsInv, TypeOK, Unsynced
<1> USE DEF ConfirmationsInv, TypeOK, process, history
<1>5. TypeOK'
  <2>1. row' \in [Confirmations -> RowStates]
    BY <1>3 DEF RowStates
  <2>2. second' \in 0 .. MaxSecond /\ created' \in [Confirmations -> 0 .. MaxSecond]
    BY <1>3
  <2>3. request' \in [Confirmations -> RequestStates]
    BY <1>2 DEF RequestStates
  <2>4. QED
    BY <1>2, <1>3, <2>1, <2>2, <2>3
<1>6. PlaceInv'
  BY <1>2, <1>3, <1>4 DEF PlaceInv
<1>7. DeliveredInv' /\ DuplicatesAreAccounted'
  BY <1>2, <1>3, <1>4 DEF DeliveredInv, DuplicatesAreAccounted, Open
<1>8. SentInv' /\ SendsAreBounded'
  BY <1>2, <1>3, <1>4 DEF SentInv, SendsAreBounded, Open
<1>9. EvictionsMakeRoom'
  <2>1. /\ c \notin Queued
        /\ c \notin Unsynced
        /\ c \notin Evicted
    BY <1>2 DEF Queued, Unsynced, Evicted
  <2>2. Queued' = Queued \cup {c}
    BY <1>2, <1>3, <1>4 DEF Queued
  <2>3. Cardinality(Queued') = Cardinality(Queued) + 1
    BY <2>1, <2>2, QueueIsFinite, FS_AddElement
  <2>4. CASE ~Full /\ rows = row
    <3>1. /\ Unsynced' = Unsynced \cup {c}
          /\ Evicted' = Evicted
      BY <1>2, <1>3, <2>4 DEF Unsynced, Evicted
    <3>2. Cardinality(Unsynced') = Cardinality(Unsynced) + 1
      BY <2>1, <3>1, QueueIsFinite, FS_AddElement
    <3>3. QED
      BY <2>3, <2>4, <3>1, <3>2, QueueIsFinite DEF EvictionsMakeRoom, Full
  <2>5. ASSUME Full, NEW old \in Unsynced, rows = [row EXCEPT ![old] = "evicted"]
        PROVE  EvictionsMakeRoom'
    <3>1. /\ old \in Confirmations
          /\ old # c
          /\ old \notin Evicted
      BY <2>1 DEF Unsynced, Evicted
    <3>2. /\ Unsynced' = (Unsynced \ {old}) \cup {c}
          /\ Evicted' = Evicted \cup {old}
      BY <1>2, <1>3, <2>5, <3>1 DEF Unsynced, Evicted
    <3>3. /\ IsFiniteSet(Unsynced \ {old})
          /\ Cardinality(Unsynced \ {old}) = Cardinality(Unsynced) - 1
      BY QueueIsFinite, FS_RemoveElement
    <3>4. Cardinality(Unsynced') = Cardinality(Unsynced \ {old}) + 1
      BY <2>1, <3>2, <3>3, FS_AddElement
    <3>5. Cardinality(Evicted') = Cardinality(Evicted) + 1
      BY <3>1, <3>2, QueueIsFinite, FS_AddElement
    <3>6. QED
      BY <2>3, <2>5, <3>3, <3>4, <3>5, QueueIsFinite DEF EvictionsMakeRoom, Full
  <2>6. QED
    BY <1>1, <2>4, <2>5
<1>10. QED
  BY <1>5, <1>6, <1>7, <1>8, <1>9

LEMMA MarkSyncedStep ==
    ASSUME ConfirmationsInv, MarkSynced
    PROVE  ConfirmationsInv'
<1> USE ConfirmationsAssumption DEF ConfirmationsInv, TypeOK, MarkSynced, process, history,
        RowStates, FlusherStates
<1>1. TypeOK'
  OBVIOUS
<1>2. PlaceInv'
  BY DEF PlaceInv
<1>3. DeliveredInv' /\ DuplicatesAreAccounted'
  BY DEF PlaceInv, DeliveredInv, DuplicatesAreAccounted, Open
<1>4. SentInv' /\ SendsAreBounded'
  BY DEF PlaceInv, SentInv, SendsAreBounded, Open
<1>5. EvictionsMakeRoom'
  <2>1. /\ Unsynced' \subseteq Unsynced
        /\ Evicted' = Evicted
        /\ Queued' = Queued
    BY DEF PlaceInv, Unsynced, Evicted, Queued
  <2>2. Cardinality(Unsynced') \in Nat /\ Cardinality(Unsynced') <= Cardinality(Unsynced)
    BY <2>1, QueueIsFinite, FS_Subset, FS_CardinalityType
  <2>3. QED
    BY <2>1, <2>2, QueueIsFinite DEF EvictionsMakeRoom
<1>6. QED
  BY <1>1, <1>2, <1>3, <1>4, <1>5

-----------------------------------------------------------------------------
(* The theorems. *)

LEMMA ConfirmationsInit == Init => ConfirmationsInv
<1> SUFFICES ASSUME Init
             PROVE  ConfirmationsInv
  OBVIOUS
<1> USE ConfirmationsAssumption DEF Init
<1>1. TypeOK
  <2>1. /\ request \in [Confirmations -> RequestStates]
        /\ row \in [Confirmations -> RowStates]
    BY DEF RequestStates, RowStates
  <2>2. /\ created \in [Confirmations -> 0 .. MaxSecond]
        /\ retry \in [Confirmations -> 0 .. MaxRetries]
        /\ second \in 0 .. MaxSecond
        /\ faults \in 0 .. MaxFaults
    OBVIOUS
  <2>3. /\ delivered \in [Confirmations -> Nat]
        /\ sent \in [Confirmations -> Nat]
        /\ lost \in [Confirmations -> Nat]
        /\ unwritten \in [Confirmations -> Nat]
    OBVIOUS
  <2>4. QED
    BY <2>1, <2>2, <2>3 DEF TypeOK, FlusherStates
<1>2. PlaceInv /\ DeliveredInv /\ SentInv /\ DuplicatesAreAccounted /\ SendsAreBounded
  BY DEF PlaceInv, DeliveredInv, SentInv, Open, DuplicatesAreAccounted, SendsAreBounded
<1>3. EvictionsMakeRoom
  <2>1. Unsynced = {} /\ Evicted = {}
    BY DEF Unsynced, Evicted
  <2>2. QED
    BY <2>1, FS_EmptySet DEF EvictionsMakeRoom
<1>4. QED
  BY <1>1, <1>2, <1>3 DEF ConfirmationsInv

LEMMA ConfirmationsNext == ConfirmationsInv /\ [Next]_vars => ConfirmationsInv'
<1> SUFFICES ASSUME ConfirmationsInv, [Next]_vars
             PROVE  ConfirmationsInv'
  OBVIOUS
<1>1. ASSUME NEW c \in Confirmations, HandlerStep(c)
      PROVE  ConfirmationsInv'
  BY <1>1, RefuseStep, CheckHealthStep, SendNowStep, SendNowFailsStep, QueueStep, QueueFailsStep
     DEF HandlerStep
<1>2. CASE FlusherStep
  BY <1>2, FlushBeginStep, FlushSkipStep, FlushSendStep, FlushEndStep, MarkSyncedStep,
     IncrementRetryCountStep, WriteFailsStep DEF FlusherStep
<1>3. CASE VPSStep
  BY <1>3, AcceptedStep, RejectedStep DEF VPSStep
<1>4. CASE Stop \/ FlusherExits \/ Restart
  BY <1>4, StopStep, FlusherExitsStep, RestartStep
<1>5. CASE UNCHANGED vars
  BY <1>5 DEF vars, table, process, history, ConfirmationsInv, TypeOK, PlaceInv, DeliveredInv,
     SentInv, Open, DuplicatesAreAccounted, SendsAreBounded, EvictionsMakeRoom,
     Unsynced, Evicted, Queued
<1>6. QED
  BY <1>1, <1>2, <1>3, <1>4, <1>5 DEF Next

(* The inductive invariant holds in every state of the program.            *)
THEOREM ConfirmationsInvariant == Spec => []ConfirmationsInv
  BY ConfirmationsInit, ConfirmationsNext, PTL DEF Spec

(* Every variable keeps its type; the retry counts keep to MaxRetries.     *)
THEOREM ConfirmationsTypeOK == Spec => []TypeOK
<1>1. ConfirmationsInv => TypeOK
  BY DEF ConfirmationsInv
<1>2. QED
  BY <1>1, ConfirmationsInvariant, PTL

(* What the operator was told "sent" or "queued" is delivered, queued or   *)
(* evicted at the cap; what leaves the queue as synced was delivered       *)
(* (handleConfirm, performFlush).                                          *)
THEOREM ConfirmationsAreKept == Spec => []AcceptedIsKept
<1>1. ConfirmationsInv => AcceptedIsKept
  BY DEF ConfirmationsInv, PlaceInv, DeliveredInv, AcceptedIsKept
<1>2. QED
  BY <1>1, ConfirmationsInvariant, PTL

(* A confirmation is recorded twice by the VPS only when an answer was     *)
(* lost or its outcome was not written (handleConfirm, performFlush).      *)
THEOREM ConfirmationsDuplicates == Spec => []DuplicatesAreAccounted
<1>1. ConfirmationsInv => DuplicatesAreAccounted
  BY DEF ConfirmationsInv
<1>2. QED
  BY <1>1, ConfirmationsInvariant, PTL

(* MaxRetries bounds the sends of the flusher whose outcome was written    *)
(* (performFlush).                                                         *)
THEOREM ConfirmationsSends == Spec => []SendsAreBounded
<1>1. ConfirmationsInv => SendsAreBounded
  BY DEF ConfirmationsInv
<1>2. QED
  BY <1>1, ConfirmationsInvariant, PTL

(* The cap of the queue, and evictions that only make room for a stored    *)
(* confirmation (CreateConfirmation).                                      *)
THEOREM ConfirmationsCap == Spec => []EvictionsMakeRoom
<1>1. ConfirmationsInv => EvictionsMakeRoom
  BY DEF ConfirmationsInv
<1>2. QED
  BY <1>1, ConfirmationsInvariant, PTL
=============================================================================
