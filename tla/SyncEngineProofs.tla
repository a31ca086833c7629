-------------------------- MODULE SyncEngineProofs --------------------------
(***************************************************************************)
(* Proofs about SyncEngine for every number of rows, batch size and bound  *)
(* on the faults.  The inductive invariant SyncInv says what a reply in    *)
(* flight may claim; SyncedWereReceived, BacklogIsLostAcks and             *)
(* QuietAfterStop follow from it.                                          *)
(***************************************************************************)
EXTENDS SyncEngine, FiniteSetTheorems, TLAPS

-----------------------------------------------------------------------------
(* The inductive invariant. *)

\* The connection carries something only while the engine waits, and what it
\* carries to the cloud is the batch of the current cycle.
Lockstep ==
    /\ requests # <<>> => conn = "open" /\ engine = "waiting" /\ requests = <<batch>>
    /\ replies # <<>> => conn = "open" /\ engine = "waiting"
    /\ requests = <<>> \/ replies = <<>>

\* The rows of the batch stay unsynced until the engine marks them itself.
BatchInv ==
    /\ batch \subseteq stored
    /\ engine \in {"idle", "reconnecting", "dialing", "connected", "exited"} => batch = {}
    /\ engine \in {"fetched", "sending", "waiting"} => batch \cap synced = {}

\* A reply claims no more rows than the batch has, and none if it failed.
ReplyInv ==
    replies # <<>> => /\ Head(replies).accepted <= Cardinality(batch)
                      /\ ~Head(replies).success => Head(replies).accepted = 0

\* With a cloud that works in order, the claim of a reply is covered by a
\* prefix of the batch the cloud has; so is what is left to mark.
DeliveryInv ==
    /\ SyncedWereReceived
    /\ marking \subseteq received
    /\ replies # <<>> =>
         \E P \in Prefixes(batch) : /\ P \subseteq received
                                    /\ Head(replies).accepted <= Cardinality(P)

MarkingInv ==
    /\ marking \cap synced = {}
    /\ marking # {} <=> engine = "marking"

StoppedInv == lifecycle = "stopped" => engine = "exited"

SyncInv ==
    /\ TypeOK
    /\ Lockstep
    /\ BatchInv
    /\ ReplyInv
    /\ MarkingInv
    /\ StoppedInv
    /\ InOrder => DeliveryInv /\ BacklogIsLostAcks

-----------------------------------------------------------------------------
(* Finite sets of rows, their prefixes, and channels with one message.     *)

LEMMA RowsFinite ==
    ASSUME NEW S \in SUBSET Rows
    PROVE  IsFiniteSet(S) /\ Cardinality(S) \in Nat
<1>1. IsFiniteSet(Rows)
  BY SyncEngineAssumption, FS_Interval DEF Rows
<1>2. QED
  BY <1>1, FS_Subset, FS_CardinalityType

LEMMA CardinalityMonotone ==
    ASSUME NEW T \in SUBSET Rows, NEW S \in SUBSET T
    PROVE  /\ Cardinality(S) <= Cardinality(T)
           /\ Cardinality(S) = Cardinality(T) => S = T
  BY RowsFinite, FS_Subset

LEMMA CardinalityDisjoint ==
    ASSUME NEW S \in SUBSET Rows, NEW T \in SUBSET Rows, S \cap T = {}
    PROVE  Cardinality(S \cup T) = Cardinality(S) + Cardinality(T)
<1>1. Cardinality(S \cup T) = Cardinality(S) + Cardinality(T) - Cardinality({})
  BY RowsFinite, FS_Union
<1>2. Cardinality({}) = 0
  BY FS_EmptySet
<1>3. QED
  BY <1>1, <1>2, RowsFinite

\* Of two prefixes of a set of rows, one contains the other.
LEMMA PrefixesNested ==
    ASSUME NEW S \in SUBSET Rows, NEW P \in Prefixes(S), NEW Q \in Prefixes(S)
    PROVE  P \subseteq Q \/ Q \subseteq P
<1> SUFFICES ASSUME NEW p \in P, p \notin Q, NEW q \in Q, q \notin P
             PROVE  FALSE
  OBVIOUS
<1>1. p \in S /\ q \in S /\ p \in Int /\ q \in Int
  BY DEF Prefixes, Rows
<1>2. ~(q < p) /\ ~(p < q)
  BY <1>1 DEF Prefixes
<1>3. QED
  BY <1>1, <1>2

\* The first k rows lie in every prefix that has k rows or more.
LEMMA FirstWithinPrefix ==
    ASSUME NEW S \in SUBSET Rows, NEW P \in Prefixes(S), NEW k \in Nat,
           k <= Cardinality(P), NEW Q \in FirstOf(S, k)
    PROVE  Q \subseteq P /\ Q \subseteq S /\ Cardinality(Q) = k
<1>1. /\ P \in SUBSET S /\ Q \in SUBSET S /\ Q \in Prefixes(S)
      /\ P \in SUBSET Rows /\ Q \in SUBSET Rows
  BY DEF FirstOf, Prefixes
<1>2. /\ Cardinality(P) \in Nat /\ Cardinality(Q) \in Nat /\ Cardinality(S) \in Nat
      /\ Cardinality(P) <= Cardinality(S)
  BY <1>1, RowsFinite, CardinalityMonotone
<1>3. Cardinality(Q) = k
  BY <1>2 DEF FirstOf
<1>4. CASE P \subseteq Q
  <2>1. Cardinality(P) <= Cardinality(Q) /\ (Cardinality(P) = Cardinality(Q) => P = Q)
    BY <1>1, <1>4, CardinalityMonotone
  <2>2. QED
    BY <1>1, <1>2, <1>3, <2>1
<1>5. QED
  BY <1>1, <1>3, <1>4, PrefixesNested

LEMMA FirstOfBounds ==
    ASSUME NEW S \in SUBSET Rows, NEW k \in Nat, NEW Q \in FirstOf(S, k)
    PROVE  /\ Q \subseteq S
           /\ Cardinality(Q) <= k
           /\ k <= Cardinality(S) => Cardinality(Q) = k
           /\ k > 0 /\ S # {} => Q # {}
<1>1. Q \subseteq S /\ Cardinality(S) \in Nat /\ Cardinality({}) = 0
  BY RowsFinite, FS_EmptySet DEF FirstOf, Prefixes
<1>2. S # {} => Cardinality(S) # 0
  BY RowsFinite, FS_EmptySet
<1>3. QED
  BY <1>1, <1>2 DEF FirstOf

LEMMA SingleMessage ==
    ASSUME NEW S, NEW q \in Seq(S), Len(q) <= 1, q # <<>>
    PROVE  /\ Len(q) = 1
           /\ Head(q) \in S
           /\ q = <<Head(q)>>
           /\ Tail(q) = <<>>
<1>0. Head(q) \in S /\ Head(q) = q[1] /\ Len(q) \in Nat \ {0} /\ DOMAIN q = 1 .. Len(q)
  OBVIOUS
<1>1. Len(q) = 1 /\ Head(q) \in S /\ Head(q) = q[1] /\ DOMAIN q = 1 .. 1
  <2>1. Len(q) = 1
    BY <1>0
  <2>2. QED
    BY <1>0, <2>1
<1>2. Tail(q) \in Seq(S) /\ Len(Tail(q)) = 0
  BY <1>1
<1>3. Tail(q) = <<>>
  BY <1>2
<1>4. q = <<Head(q)>>
  <2> DEFINE m == <<Head(q)>>
  <2>1. m \in Seq(S) /\ Len(m) = 1 /\ m[1] = Head(q)
    BY <1>1
  <2>2. QED
    BY <1>1, <2>1
<1>5. QED
  BY <1>1, <1>3, <1>4

LEMMA NewMessage ==
    ASSUME NEW S, NEW e \in S
    PROVE  /\ Append(<<>>, e) = <<e>>
           /\ <<e>> \in Seq(S)
           /\ <<e>> # <<>>
           /\ Len(<<e>>) = 1
           /\ Head(<<e>>) = e
  OBVIOUS

-----------------------------------------------------------------------------
(* The initial states and the steps. *)

LEMMA InitSyncInv == Init => SyncInv
<1> SUFFICES ASSUME Init
             PROVE  SyncInv
  OBVIOUS
<1> USE DEF Init
<1>1. Cardinality({}) = 0
  BY FS_EmptySet
<1>2. TypeOK
  BY <1>1, SyncEngineAssumption
     DEF TypeOK, Connections, EngineStates, LifecycleStates, Replies
<1>3. Lockstep /\ BatchInv /\ ReplyInv /\ MarkingInv /\ StoppedInv
  BY DEF Lockstep, BatchInv, ReplyInv, MarkingInv, StoppedInv
<1>4. DeliveryInv /\ BacklogIsLostAcks
  <2>1. received \ synced = {} /\ marking = {} /\ UnreadAcks = 0
    BY DEF UnreadAcks
  <2>2. BacklogIsLostAcks
    BY <1>1, <2>1 DEF BacklogIsLostAcks, InFlightAcks
  <2>3. QED
    BY <2>2 DEF DeliveryInv, SyncedWereReceived
<1>5. QED
  BY <1>2, <1>3, <1>4 DEF SyncInv

\* The steps that only move the goroutine, Stop or GetStats, or count a fault.
ControlStep ==
    \/ BeginCycle \/ WakeUp \/ DialSucceeds \/ DialFails \/ FetchFails
    \/ CheckContext \/ ConnectionError \/ FinishCycle \/ Exit
    \/ CallerStep

LEMMA ControlKeepsSyncInv ==
    ASSUME SyncInv, ControlStep
    PROVE  SyncInv'
<1> USE DEF SyncInv
<1>1. /\ UNCHANGED <<database, requests, replies, marking, cloud, lostAcks>>
      /\ batch' = batch \/ (batch' = {} /\ engine = "ending")
      /\ conn' = conn \/ engine = "dialing"
      /\ engine' = engine \/ engine \in {"idle", "reconnecting", "dialing", "connected",
                                        "fetched", "sending", "waiting", "ending"}
      /\ engine = "waiting" => engine' = "waiting" \/ conn = "broken"
      /\ engine' # "marking" \/ engine = "marking"
  BY DEF ControlStep, CallerStep, BeginCycle, WakeUp, DialSucceeds, DialFails, FetchFails,
         CheckContext, ConnectionError, FinishCycle, Exit, StopCall, StopCancel, StopReturn,
         StatsBegin, StatsEnd, database, wire, cloud, process, TypeOK
<1>2. TypeOK'
  <2>1. Cardinality({}) = 0
    BY FS_EmptySet
  <2>2. marking # {} => engine = "marking"
    BY DEF MarkingInv
  <2>3. /\ conn' \in Connections
        /\ engine' \in EngineStates
        /\ lifecycle' \in LifecycleStates
        /\ observer' \in {"idle", "holding"}
    BY DEF TypeOK, ControlStep, CallerStep, BeginCycle, WakeUp, DialSucceeds, DialFails,
           FetchFails, CheckContext, ConnectionError, FinishCycle, Exit, StopCall,
           StopCancel, StopReturn, StatsBegin, StatsEnd, Fault, database, wire, cloud,
           process, Connections, EngineStates, LifecycleStates
  <2>4. faults' \in 0 .. MaxFaults
    BY SyncEngineAssumption
       DEF TypeOK, ControlStep, CallerStep, BeginCycle, WakeUp, DialSucceeds, DialFails,
           FetchFails, CheckContext, ConnectionError, FinishCycle, Exit, StopCall,
           StopCancel, StopReturn, StatsBegin, StatsEnd, Fault
  <2>5. batch' \subseteq Rows /\ Cardinality(batch') <= BatchSize /\ marking \subseteq batch'
    <3>1. CASE batch' = batch
      BY <3>1 DEF TypeOK
    <3>2. CASE batch' = {} /\ engine = "ending"
      <4>1. marking = {}
        BY <2>2, <3>2
      <4>2. 0 <= BatchSize
        BY SyncEngineAssumption
      <4>3. QED
        BY <2>1, <3>2, <4>1, <4>2
    <3>3. QED
      BY <1>1, <3>1, <3>2
  <2>6. QED
    BY <1>1, <2>3, <2>4, <2>5 DEF TypeOK, database, cloud
<1>3. Lockstep'
  BY <1>1 DEF Lockstep
<1>4. BatchInv'
  BY <1>1 DEF BatchInv, ControlStep, CallerStep, BeginCycle, WakeUp, DialSucceeds,
         DialFails, FetchFails, CheckContext, ConnectionError, FinishCycle, Exit, StopCall,
         StopCancel, StopReturn, StatsBegin, StatsEnd, database
<1>5. ReplyInv'
  BY <1>1 DEF ReplyInv, Lockstep
<1>6. MarkingInv'
  BY <1>1 DEF MarkingInv, database
<1>7. StoppedInv'
  BY DEF StoppedInv, ControlStep, CallerStep, BeginCycle, WakeUp, DialSucceeds,
         DialFails, FetchFails, CheckContext, ConnectionError, FinishCycle, Exit, StopCall,
         StopCancel, StopReturn, StatsBegin, StatsEnd
<1>8. ASSUME InOrder
      PROVE  DeliveryInv' /\ BacklogIsLostAcks'
  <2>1. replies # <<>> => batch' = batch
    BY <1>1 DEF Lockstep
  <2>2. DeliveryInv /\ BacklogIsLostAcks
    BY <1>8
  <2>3. DeliveryInv'
    BY <1>1, <2>1, <2>2 DEF DeliveryInv, SyncedWereReceived, database, cloud
  <2>4. BacklogIsLostAcks'
    BY <1>1, <2>2 DEF BacklogIsLostAcks, InFlightAcks, UnreadAcks, database, cloud
  <2>5. QED
    BY <2>3, <2>4
<1>9. QED
  BY <1>2, <1>3, <1>4, <1>5, <1>6, <1>7, <1>8

\* The steps below leave the control of Stop and GetStats alone.
LEMMA InsertKeepsSyncInv ==
    ASSUME SyncInv, NEW row \in Rows, Insert(row)
    PROVE  SyncInv'
<1> USE DEF SyncInv
<1>1. /\ stored' = stored \cup {row}
      /\ UNCHANGED <<synced, conn, requests, replies, engine, batch, marking, lifecycle,
                    observer, received, orphans, lostAcks, faults>>
  BY DEF Insert, wire, process, cloud
<1>2. TypeOK'
  BY <1>1 DEF TypeOK
<1>3. Lockstep' /\ BatchInv' /\ ReplyInv' /\ MarkingInv' /\ StoppedInv'
  BY <1>1 DEF Lockstep, BatchInv, ReplyInv, MarkingInv, StoppedInv
<1>4. ASSUME InOrder
      PROVE  DeliveryInv' /\ BacklogIsLostAcks'
  BY <1>1, <1>4 DEF DeliveryInv, SyncedWereReceived, BacklogIsLostAcks, InFlightAcks,
                    UnreadAcks
<1>5. QED
  BY <1>2, <1>3, <1>4

LEMMA FetchKeepsSyncInv ==
    ASSUME SyncInv, Fetch
    PROVE  SyncInv'
<1> USE DEF SyncInv
<1>1. /\ UNCHANGED <<stored, synced, conn, requests, replies, marking, lifecycle,
                    observer, received, orphans, lostAcks, faults>>
      /\ engine = "connected"
      /\ engine' = IF batch' = {} THEN "ending" ELSE "fetched"
      /\ batch' \in FirstOf(stored \ synced, BatchSize)
  BY DEF Fetch, database, wire, cloud
<1>2. requests = <<>> /\ replies = <<>> /\ marking = {}
  BY <1>1 DEF Lockstep, MarkingInv
<1>3. batch' \subseteq stored \ synced /\ Cardinality(batch') <= BatchSize
  <2>1. PICK b : b = batch'
    OBVIOUS
  <2>2. stored \ synced \in SUBSET Rows /\ b \in FirstOf(stored \ synced, BatchSize)
    BY <1>1, <2>1 DEF TypeOK
  <2>3. QED
    BY <2>1, <2>2, FirstOfBounds, SyncEngineAssumption
<1>4. TypeOK'
  BY <1>1, <1>2, <1>3 DEF TypeOK, EngineStates
<1>5. Lockstep' /\ ReplyInv' /\ MarkingInv' /\ StoppedInv'
  BY <1>1, <1>2 DEF Lockstep, ReplyInv, MarkingInv, StoppedInv
<1>6. BatchInv'
  BY <1>1, <1>3 DEF BatchInv
<1>7. ASSUME InOrder
      PROVE  DeliveryInv' /\ BacklogIsLostAcks'
  BY <1>1, <1>2, <1>7 DEF DeliveryInv, SyncedWereReceived, BacklogIsLostAcks,
                          InFlightAcks, UnreadAcks
<1>8. QED
  BY <1>4, <1>5, <1>6, <1>7

LEMMA SendKeepsSyncInv ==
    ASSUME SyncInv, Send
    PROVE  SyncInv'
<1> USE DEF SyncInv
<1>1. /\ UNCHANGED <<stored, synced, conn, replies, batch, marking, lifecycle,
                    observer, received, orphans, lostAcks, faults>>
      /\ engine = "sending" /\ engine' = "waiting" /\ conn = "open"
      /\ requests' = Append(requests, batch)
  BY DEF Send, database, cloud
<1>2. requests = <<>> /\ replies = <<>>
  BY <1>1 DEF Lockstep
<1>3. requests' = <<batch>> /\ <<batch>> \in Seq(SUBSET Rows) /\ Len(<<batch>>) = 1
  BY <1>1, <1>2, NewMessage DEF TypeOK
<1>4. TypeOK'
  <2>1. Len(requests') + Len(replies') <= 1
    BY <1>1, <1>2, <1>3
  <2>2. QED
    BY <1>1, <1>3, <2>1 DEF TypeOK, EngineStates
<1>5. Lockstep' /\ BatchInv' /\ ReplyInv' /\ MarkingInv' /\ StoppedInv'
  BY <1>1, <1>2, <1>3 DEF Lockstep, BatchInv, ReplyInv, MarkingInv, StoppedInv
<1>6. ASSUME InOrder
      PROVE  DeliveryInv' /\ BacklogIsLostAcks'
  BY <1>1, <1>6 DEF DeliveryInv, SyncedWereReceived, BacklogIsLostAcks,
                    InFlightAcks, UnreadAcks
<1>7. QED
  BY <1>4, <1>5, <1>6

\* The rows ReadReply is about to mark are rows the cloud has, and they are as
\* many as the reply acknowledged.
LEMMA ReadReplyKeepsSyncInv ==
    ASSUME SyncInv, ReadReply
    PROVE  SyncInv'
<1> USE DEF SyncInv
<1> DEFINE accepted == Head(replies).accepted
           success == Head(replies).success
<1>1. /\ UNCHANGED <<stored, synced, conn, requests, batch, lifecycle,
                    observer, received, orphans, lostAcks, faults>>
      /\ engine = "waiting" /\ replies # <<>>
      /\ replies' = Tail(replies)
  BY DEF ReadReply, database, cloud
<1>2. IF success /\ accepted \in 1 .. Cardinality(batch)
        THEN marking' \in FirstOf(batch, accepted) /\ engine' = "marking"
        ELSE engine' = "ending" /\ marking' = marking
  BY DEF ReadReply
<1>3. /\ replies' = <<>> /\ requests = <<>> /\ marking = {}
      /\ accepted \in Nat /\ success \in BOOLEAN
      /\ accepted <= Cardinality(batch) /\ (~success => accepted = 0)
  <2>1. replies' = <<>> /\ Head(replies) \in Replies
    <3>1. replies \in Seq(Replies) /\ Len(replies) <= 1
      BY DEF TypeOK
    <3>2. QED
      BY <1>1, <3>1, SingleMessage
  <2>2. QED
    BY <1>1, <2>1 DEF Lockstep, MarkingInv, ReplyInv, Replies
<1>4. batch \in SUBSET Rows /\ Cardinality(batch) \in Nat /\ batch \subseteq stored
      /\ batch \cap synced = {}
  BY <1>1, RowsFinite DEF TypeOK, BatchInv
<1> HIDE DEF accepted, success
<1>5. /\ marking' \subseteq batch
      /\ Cardinality(marking') = accepted
      /\ marking' # {} <=> engine' = "marking"
      /\ engine' \in {"marking", "ending"}
  <2>1. CASE success /\ accepted \in 1 .. Cardinality(batch)
    <3>1. PICK m : m = marking'
      OBVIOUS
    <3>2. m \in FirstOf(batch, accepted) /\ accepted > 0 /\ accepted <= Cardinality(batch)
      BY <1>2, <1>3, <1>4, <2>1, <3>1
    <3>3. m \subseteq batch /\ Cardinality(m) = accepted
      BY <1>3, <1>4, <3>2, FirstOfBounds
    <3>4. m # {}
      BY <3>2, <3>3, FS_EmptySet
    <3>5. QED
      BY <1>2, <2>1, <3>1, <3>3, <3>4
  <2>2. CASE ~(success /\ accepted \in 1 .. Cardinality(batch))
    <3>1. accepted = 0
      BY <1>3, <1>4, <2>2
    <3>2. Cardinality({}) = 0
      BY FS_EmptySet
    <3>3. QED
      BY <1>2, <1>3, <2>2, <3>1, <3>2
  <2>3. QED
    BY <2>1, <2>2
<1>6. TypeOK'
  BY <1>1, <1>3, <1>5 DEF TypeOK, EngineStates
<1>7. Lockstep' /\ BatchInv' /\ ReplyInv' /\ MarkingInv' /\ StoppedInv'
  BY <1>1, <1>3, <1>4, <1>5 DEF Lockstep, BatchInv, ReplyInv, MarkingInv, StoppedInv
<1>8. ASSUME InOrder
      PROVE  DeliveryInv' /\ BacklogIsLostAcks'
  <2>1. DeliveryInv /\ BacklogIsLostAcks
    BY <1>8
  <2>2. PICK P \in Prefixes(batch) : P \subseteq received /\ accepted <= Cardinality(P)
    BY <1>1, <2>1 DEF DeliveryInv, accepted
  <2>3. marking' \subseteq received
    <3>1. CASE success /\ accepted \in 1 .. Cardinality(batch)
      <4>1. PICK m : m = marking'
        OBVIOUS
      <4>2. m \in FirstOf(batch, accepted)
        BY <1>2, <3>1, <4>1
      <4>3. m \subseteq P
        BY <1>3, <1>4, <2>2, <4>2, FirstWithinPrefix
      <4>4. QED
        BY <2>2, <4>1, <4>3
    <3>2. CASE ~(success /\ accepted \in 1 .. Cardinality(batch))
      BY <1>2, <1>3, <3>2
    <3>3. QED
      BY <3>1, <3>2
  <2>4. DeliveryInv'
    BY <1>1, <1>3, <2>1, <2>3 DEF DeliveryInv, SyncedWereReceived
  <2>5. BacklogIsLostAcks'
    <3>1. UnreadAcks = accepted /\ UnreadAcks' = 0 /\ Cardinality(marking) = 0
      BY <1>1, <1>3, FS_EmptySet DEF UnreadAcks, accepted
    <3>2. Cardinality(received \ synced) = lostAcks + (accepted + 0)
      BY <2>1, <3>1 DEF BacklogIsLostAcks, InFlightAcks
    <3>3. Cardinality((received \ synced)') = lostAcks' + (0 + Cardinality(marking'))
      BY <1>1, <1>3, <1>5, <3>2 DEF TypeOK
    <3>4. QED
      BY <3>1, <3>3 DEF BacklogIsLostAcks, InFlightAcks
  <2>6. QED
    BY <2>4, <2>5
<1>9. QED
  BY <1>6, <1>7, <1>8

LEMMA ReadGarbledKeepsSyncInv ==
    ASSUME SyncInv, ReadGarbled
    PROVE  SyncInv'
<1> USE DEF SyncInv
<1>1. /\ UNCHANGED <<stored, synced, conn, requests, batch, marking, lifecycle,
                    observer, received, orphans>>
      /\ engine = "waiting" /\ engine' = "ending" /\ replies # <<>>
      /\ replies' = Tail(replies)
      /\ lostAcks' = lostAcks + Head(replies).accepted
      /\ faults' \in 0 .. MaxFaults
  BY SyncEngineAssumption DEF ReadGarbled, Fault, database, cloud, TypeOK
<1>2. /\ replies' = <<>> /\ requests = <<>> /\ marking = {}
      /\ Head(replies).accepted \in Nat
  <2>1. replies \in Seq(Replies) /\ Len(replies) <= 1
    BY DEF TypeOK
  <2>2. replies' = <<>> /\ Head(replies) \in Replies
    BY <1>1, <2>1, SingleMessage
  <2>3. QED
    BY <1>1, <2>2 DEF Lockstep, MarkingInv, Replies
<1>3. TypeOK'
  BY <1>1, <1>2 DEF TypeOK, EngineStates
<1>4. Lockstep' /\ BatchInv' /\ ReplyInv' /\ MarkingInv' /\ StoppedInv'
  BY <1>1, <1>2 DEF Lockstep, BatchInv, ReplyInv, MarkingInv, StoppedInv
<1>5. ASSUME InOrder
      PROVE  DeliveryInv' /\ BacklogIsLostAcks'
  <2>1. DeliveryInv /\ BacklogIsLostAcks
    BY <1>5
  <2>2. DeliveryInv'
    BY <1>1, <1>2, <2>1 DEF DeliveryInv, SyncedWereReceived
  <2>3. UnreadAcks = Head(replies).accepted /\ UnreadAcks' = 0 /\ Cardinality(marking) = 0
    BY <1>1, <1>2, FS_EmptySet DEF UnreadAcks
  <2>4. Cardinality((received \ synced)') = lostAcks' + (0 + Cardinality(marking'))
    BY <1>1, <1>2, <2>1, <2>3 DEF BacklogIsLostAcks, InFlightAcks, TypeOK
  <2>5. QED
    BY <2>2, <2>3, <2>4 DEF BacklogIsLostAcks, InFlightAcks
<1>6. QED
  BY <1>3, <1>4, <1>5

LEMMA MarkSyncedKeepsSyncInv ==
    ASSUME SyncInv, MarkSynced
    PROVE  SyncInv'
<1> USE DEF SyncInv
<1>1. /\ UNCHANGED <<stored, conn, requests, replies, batch, lifecycle,
                    observer, received, orphans, lostAcks, faults>>
      /\ engine = "marking"
  BY DEF MarkSynced, wire, cloud
<1>2. PICK chunk \in FirstOf(marking, MarkBatch) :
         /\ synced' = synced \cup chunk
         /\ marking' = marking \ chunk
         /\ engine' = IF marking' = {} THEN "ending" ELSE "marking"
  BY DEF MarkSynced
<1>3. /\ marking \in SUBSET Rows /\ marking \subseteq batch /\ batch \subseteq stored
      /\ marking \cap synced = {} /\ requests = <<>> /\ replies = <<>>
  BY <1>1 DEF TypeOK, BatchInv, MarkingInv, Lockstep
<1>4. chunk \subseteq marking
  BY <1>3, FirstOfBounds, SyncEngineAssumption
<1>5. TypeOK'
  BY <1>1, <1>2, <1>3, <1>4 DEF TypeOK, EngineStates
<1>6. Lockstep' /\ BatchInv' /\ ReplyInv' /\ MarkingInv' /\ StoppedInv'
  BY <1>1, <1>2, <1>3, <1>4 DEF Lockstep, BatchInv, ReplyInv, MarkingInv, StoppedInv
<1>7. ASSUME InOrder
      PROVE  DeliveryInv' /\ BacklogIsLostAcks'
  <2>1. DeliveryInv /\ BacklogIsLostAcks
    BY <1>7
  <2>2. DeliveryInv'
    BY <1>1, <1>2, <1>3, <1>4, <2>1 DEF DeliveryInv, SyncedWereReceived
  <2>3. Cardinality(marking) = Cardinality(marking') + Cardinality(chunk)
    <3>1. PICK rest : rest = marking \ chunk
      OBVIOUS
    <3>2. rest \in SUBSET Rows /\ chunk \in SUBSET Rows /\ rest \cap chunk = {}
          /\ marking = rest \cup chunk
      BY <1>3, <1>4, <3>1
    <3>3. QED
      BY <1>2, <3>1, <3>2, CardinalityDisjoint
  <2>4. Cardinality(received \ synced)
          = Cardinality((received \ synced)') + Cardinality(chunk)
    <3>1. PICK rest : rest = received \ (synced \cup chunk)
      OBVIOUS
    <3>2. rest \in SUBSET Rows /\ chunk \in SUBSET Rows /\ rest \cap chunk = {}
          /\ received \ synced = rest \cup chunk
      BY <1>3, <1>4, <2>1, <3>1 DEF TypeOK, DeliveryInv
    <3>3. QED
      BY <1>1, <1>2, <3>1, <3>2, CardinalityDisjoint
  <2>5. UnreadAcks = 0 /\ UnreadAcks' = 0
    BY <1>1, <1>3 DEF UnreadAcks
  <2>6. /\ Cardinality(chunk) \in Nat
        /\ Cardinality(marking') \in Nat
        /\ Cardinality((received \ synced)') \in Nat
    <3>1. marking' \in SUBSET Rows /\ (received \ synced)' \in SUBSET Rows
          /\ chunk \in SUBSET Rows
      BY <1>3, <1>4, <1>5 DEF TypeOK
    <3>2. PICK m, d : m = marking' /\ d = (received \ synced)'
      OBVIOUS
    <3>3. QED
      BY <3>1, <3>2, RowsFinite
  <2>7. BacklogIsLostAcks'
    BY <1>1, <2>1, <2>3, <2>4, <2>5, <2>6 DEF BacklogIsLostAcks, InFlightAcks, TypeOK
  <2>8. QED
    BY <2>2, <2>7
<1>8. QED
  BY <1>5, <1>6, <1>7

LEMMA MarkFailsKeepsSyncInv ==
    ASSUME SyncInv, MarkFails
    PROVE  SyncInv'
<1> USE DEF SyncInv
<1>1. /\ UNCHANGED <<stored, synced, conn, requests, replies, batch, lifecycle,
                    observer, received, orphans>>
      /\ engine = "marking" /\ engine' = "ending" /\ marking' = {}
      /\ lostAcks' = lostAcks + Cardinality(marking)
      /\ faults' \in 0 .. MaxFaults
  BY SyncEngineAssumption DEF MarkFails, Fault, database, wire, cloud, TypeOK
<1>2. marking \in SUBSET Rows /\ Cardinality(marking) \in Nat
  BY RowsFinite DEF TypeOK
<1>3. TypeOK'
  BY <1>1, <1>2 DEF TypeOK, EngineStates
<1>4. Lockstep' /\ BatchInv' /\ ReplyInv' /\ MarkingInv' /\ StoppedInv'
  BY <1>1 DEF Lockstep, BatchInv, ReplyInv, MarkingInv, StoppedInv
<1>5. ASSUME InOrder
      PROVE  DeliveryInv' /\ BacklogIsLostAcks'
  <2>1. DeliveryInv /\ BacklogIsLostAcks
    BY <1>5
  <2>2. DeliveryInv'
    BY <1>1, <2>1 DEF DeliveryInv, SyncedWereReceived
  <2>3. UnreadAcks = 0 /\ UnreadAcks' = 0 /\ Cardinality({}) = 0
    BY <1>1, FS_EmptySet DEF UnreadAcks, Lockstep
  <2>4. Cardinality((received \ synced)') = lostAcks' + (0 + 0)
    BY <1>1, <1>2, <2>1, <2>3 DEF BacklogIsLostAcks, InFlightAcks, TypeOK
  <2>5. QED
    BY <1>1, <2>2, <2>3, <2>4 DEF BacklogIsLostAcks, InFlightAcks
<1>6. QED
  BY <1>3, <1>4, <1>5

\* What the cloud stores is a part of the request, a prefix if it works in
\* order; the rows it acknowledges are those it did not have.
LEMMA ProcessableRows ==
    ASSUME NEW request \in SUBSET Rows, NEW rows \in Processable(request) \cup {request}
    PROVE  rows \subseteq request /\ (InOrder => rows \in Prefixes(request))
  BY DEF Processable, Prefixes

LEMMA StoringGrowsBacklog ==
    ASSUME TypeOK, SyncedWereReceived, NEW rows \in SUBSET Rows
    PROVE  Cardinality((received \cup rows) \ synced)
             = Cardinality(received \ synced) + Cardinality(rows \ received)
<1>1. (received \cup rows) \ synced = (received \ synced) \cup (rows \ received)
  BY DEF SyncedWereReceived
<1>2. PICK old, new : old = received \ synced /\ new = rows \ received
  OBVIOUS
<1>3. old \in SUBSET Rows /\ new \in SUBSET Rows /\ old \cap new = {}
  BY <1>2 DEF TypeOK
<1>4. QED
  BY <1>1, <1>2, <1>3, CardinalityDisjoint

LEMMA CloudRepliesKeepsSyncInv ==
    ASSUME SyncInv, CloudReplies
    PROVE  SyncInv'
<1> USE DEF SyncInv
<1>1. /\ UNCHANGED <<stored, synced, conn, engine, batch, marking, lifecycle,
                    observer, orphans, lostAcks>>
      /\ requests # <<>> /\ requests' = Tail(requests)
      /\ faults' \in 0 .. MaxFaults
  BY SyncEngineAssumption DEF CloudReplies, Fault, database, process, TypeOK
<1>2. /\ Head(requests) = batch /\ requests' = <<>> /\ replies = <<>> /\ marking = {}
      /\ engine = "waiting" /\ conn = "open"
      /\ batch \in SUBSET Rows /\ batch \subseteq stored
  <2>1. requests \in Seq(SUBSET Rows) /\ Len(requests) <= 1
    BY DEF TypeOK
  <2>2. Tail(requests) = <<>>
    BY <1>1, <2>1, SingleMessage
  <2>3. requests = <<batch>> /\ engine = "waiting" /\ conn = "open" /\ replies = <<>>
    BY <1>1 DEF Lockstep
  <2>4. QED
    BY <1>1, <2>2, <2>3 DEF TypeOK, BatchInv, MarkingInv
<1>3. PICK rows \in SUBSET batch, reply \in Replies :
        /\ received' = received \cup rows
        /\ replies' = Append(replies, reply)
        /\ reply.accepted = Cardinality(rows \ received)
        /\ ~reply.success => reply.accepted = 0
        /\ InOrder => rows \in Prefixes(batch)
  <2>1. CASE \E r \in Processable(batch) \cup {batch} : CloudStores(r)
    <3>1. PICK r \in Processable(batch) \cup {batch} : CloudStores(r)
      BY <2>1
    <3>2. r \in SUBSET batch /\ (InOrder => r \in Prefixes(batch))
      BY <1>2, <3>1, ProcessableRows
    <3>3. Cardinality(r \ received) \in Nat
      BY <1>2, <3>2, RowsFinite
    <3>4. PICK reply \in Replies :
             reply = [success |-> TRUE, accepted |-> Cardinality(r \ received)]
      BY <3>3 DEF Replies
    <3>5. QED
      BY <3>1, <3>2, <3>4 DEF CloudStores
  <2>2. CASE /\ replies' = Append(replies, [success |-> FALSE, accepted |-> 0])
             /\ UNCHANGED received
    <3>1. {} \in SUBSET batch /\ {} \in Prefixes(batch) /\ {} \ received = {}
          /\ Cardinality({}) = 0
      BY FS_EmptySet DEF Prefixes
    <3>2. PICK reply \in Replies : reply = [success |-> FALSE, accepted |-> 0]
      BY DEF Replies
    <3>3. received' = received \cup {}
      BY <2>2
    <3>4. reply.accepted = Cardinality({} \ received) /\ (~reply.success => reply.accepted = 0)
      BY <3>1, <3>2
    <3>5. QED
      BY <2>2, <3>1, <3>2, <3>3, <3>4
  <2>3. QED
    BY <1>2, <2>1, <2>2 DEF CloudReplies
<1>4. replies' = <<reply>> /\ replies' \in Seq(Replies) /\ Len(replies') = 1
      /\ replies' # <<>> /\ Head(replies') = reply
  BY <1>2, <1>3, NewMessage
<1>5. /\ Cardinality(rows \ received) <= Cardinality(rows)
      /\ Cardinality(rows) <= Cardinality(batch)
      /\ Cardinality(rows) \in Nat /\ Cardinality(batch) \in Nat
      /\ Cardinality(rows \ received) \in Nat
  <2>1. rows \in SUBSET Rows /\ rows \ received \in SUBSET rows
        /\ rows \ received \in SUBSET Rows
    BY <1>2
  <2>2. QED
    BY <1>2, <2>1, RowsFinite, CardinalityMonotone
<1>6. TypeOK'
  <2>1. Len(requests') + Len(replies') <= 1 /\ requests' \in Seq(SUBSET Rows)
    BY <1>2, <1>4
  <2>2. received' \subseteq stored
    BY <1>2, <1>3 DEF TypeOK
  <2>3. QED
    BY <1>1, <1>4, <2>1, <2>2 DEF TypeOK
<1>7. Lockstep' /\ BatchInv' /\ MarkingInv' /\ StoppedInv'
  BY <1>1, <1>2 DEF Lockstep, BatchInv, MarkingInv, StoppedInv
<1>8. ReplyInv'
  BY <1>1, <1>3, <1>4, <1>5 DEF ReplyInv
<1>9. ASSUME InOrder
      PROVE  DeliveryInv' /\ BacklogIsLostAcks'
  <2>1. DeliveryInv /\ BacklogIsLostAcks
    BY <1>9
  <2>2. rows \in Prefixes(batch)
    BY <1>3, <1>9
  <2>3. DeliveryInv'
    BY <1>1, <1>2, <1>3, <1>4, <1>5, <2>1, <2>2 DEF DeliveryInv, SyncedWereReceived
  <2>4. Cardinality((received \ synced)')
          = Cardinality(received \ synced) + Cardinality(rows \ received)
    BY <1>1, <1>2, <1>3, <2>1, StoringGrowsBacklog DEF DeliveryInv
  <2>5. UnreadAcks = 0 /\ UnreadAcks' = Cardinality(rows \ received)
    BY <1>2, <1>3, <1>4 DEF UnreadAcks
  <2>6. Cardinality(marking) = 0 /\ Cardinality(marking') = 0
    BY <1>1, <1>2, FS_EmptySet
  <2>7. BacklogIsLostAcks'
    BY <1>1, <1>5, <2>1, <2>4, <2>5, <2>6 DEF BacklogIsLostAcks, InFlightAcks, TypeOK
  <2>8. QED
    BY <2>3, <2>7
<1>10. QED
  BY <1>6, <1>7, <1>8, <1>9

LEMMA CloudProcessesOrphanKeepsSyncInv ==
    ASSUME SyncInv, NEW request \in orphans, CloudProcessesOrphan(request)
    PROVE  SyncInv'
<1> USE DEF SyncInv
<1>1. /\ UNCHANGED <<stored, synced, conn, requests, replies, engine, batch, marking,
                    lifecycle, observer, faults>>
      /\ orphans' = orphans \ {request}
  BY DEF CloudProcessesOrphan, database, wire, process
<1>2. PICK rows \in Processable(request) :
         /\ received' = received \cup rows
         /\ lostAcks' = lostAcks + Cardinality(rows \ received)
  BY DEF CloudProcessesOrphan
<1>3. request \in SUBSET stored /\ stored \subseteq Rows
  BY DEF TypeOK
<1>4. rows \subseteq stored /\ rows \in SUBSET Rows /\ Cardinality(rows \ received) \in Nat
  BY <1>3, ProcessableRows, RowsFinite
<1>5. TypeOK'
  BY <1>1, <1>2, <1>4 DEF TypeOK
<1>6. Lockstep' /\ BatchInv' /\ ReplyInv' /\ MarkingInv' /\ StoppedInv'
  BY <1>1 DEF Lockstep, BatchInv, ReplyInv, MarkingInv, StoppedInv
<1>7. ASSUME InOrder
      PROVE  DeliveryInv' /\ BacklogIsLostAcks'
  <2>1. DeliveryInv /\ BacklogIsLostAcks
    BY <1>7
  <2>2. DeliveryInv'
    BY <1>1, <1>2, <2>1 DEF DeliveryInv, SyncedWereReceived
  <2>3. Cardinality((received \ synced)')
          = Cardinality(received \ synced) + Cardinality(rows \ received)
    BY <1>1, <1>2, <1>4, <2>1, StoringGrowsBacklog DEF DeliveryInv
  <2>4. UnreadAcks \in Nat /\ Cardinality(marking) \in Nat
    <3>1. Cardinality(marking) \in Nat
      BY RowsFinite DEF TypeOK
    <3>2. CASE replies = <<>>
      BY <3>1, <3>2 DEF UnreadAcks
    <3>3. CASE replies # <<>>
      <4>1. replies \in Seq(Replies)
        BY DEF TypeOK
      <4>2. Head(replies) \in Replies
        BY <3>3, <4>1
      <4>3. QED
        BY <3>1, <3>3, <4>2 DEF UnreadAcks, Replies
    <3>4. QED
      BY <3>2, <3>3
  <2>5. UnreadAcks' = UnreadAcks
    BY <1>1 DEF UnreadAcks
  <2>6. BacklogIsLostAcks'
    BY <1>1, <1>2, <1>4, <2>1, <2>3, <2>4, <2>5
       DEF BacklogIsLostAcks, InFlightAcks, TypeOK
  <2>7. QED
    BY <2>2, <2>6
<1>8. QED
  BY <1>5, <1>6, <1>7

\* A lost connection turns its request into an orphan and its reply into lost
\* acknowledgements.
LEMMA LoseWireFacts ==
    ASSUME SyncInv, LoseWire
    PROVE  /\ requests' = <<>> /\ replies' = <<>>
           /\ orphans' \subseteq SUBSET stored
           /\ UnreadAcks \in Nat /\ Cardinality(marking) \in Nat
           /\ UnreadAcks' = 0
<1>1. requests' = <<>> /\ replies' = <<>>
      /\ orphans' = orphans \cup {requests[i] : i \in DOMAIN requests}
  BY DEF LoseWire
<1>2. \A i \in DOMAIN requests : requests[i] \subseteq stored
  <2>1. CASE requests = <<>>
    BY <2>1
  <2>2. CASE requests # <<>>
    <3>1. requests = <<batch>> /\ batch \subseteq stored
      BY <2>2 DEF SyncInv, Lockstep, BatchInv
    <3>2. QED
      BY <3>1
  <2>3. QED
    BY <2>1, <2>2
<1>3. orphans' \subseteq SUBSET stored
  BY <1>1, <1>2 DEF SyncInv, TypeOK
<1>4. UnreadAcks \in Nat
  <2>1. CASE replies = <<>>
    BY <2>1 DEF UnreadAcks
  <2>2. CASE replies # <<>>
    <3>1. replies \in Seq(Replies)
      BY DEF SyncInv, TypeOK
    <3>2. Head(replies) \in Replies
      BY <2>2, <3>1
    <3>3. QED
      BY <2>2, <3>2 DEF UnreadAcks, Replies
  <2>3. QED
    BY <2>1, <2>2
<1>5. UnreadAcks' = 0
  BY <1>1 DEF UnreadAcks
<1>6. Cardinality(marking) \in Nat
  BY RowsFinite DEF SyncInv, TypeOK
<1>7. QED
  BY <1>1, <1>3, <1>4, <1>5, <1>6

LEMMA BreakKeepsSyncInv ==
    ASSUME SyncInv, Break
    PROVE  SyncInv'
<1>1. /\ UNCHANGED <<stored, synced, engine, batch, marking, lifecycle, observer, received>>
      /\ conn' = "broken" /\ LoseWire
      /\ lostAcks' = lostAcks + UnreadAcks
      /\ faults' \in 0 .. MaxFaults
  BY SyncEngineAssumption DEF Break, Fault, database, process, SyncInv, TypeOK
<1>2. /\ requests' = <<>> /\ replies' = <<>>
      /\ orphans' \subseteq SUBSET stored
      /\ UnreadAcks \in Nat /\ Cardinality(marking) \in Nat
      /\ UnreadAcks' = 0
  BY <1>1, LoseWireFacts
<1> USE DEF SyncInv
<1>3. TypeOK'
  BY <1>1, <1>2 DEF TypeOK, Connections
<1>4. Lockstep' /\ BatchInv' /\ ReplyInv' /\ MarkingInv' /\ StoppedInv'
  BY <1>1, <1>2 DEF Lockstep, BatchInv, ReplyInv, MarkingInv, StoppedInv
<1>5. ASSUME InOrder
      PROVE  DeliveryInv' /\ BacklogIsLostAcks'
  <2>1. DeliveryInv /\ BacklogIsLostAcks
    BY <1>5
  <2>2. DeliveryInv'
    BY <1>1, <1>2, <2>1 DEF DeliveryInv, SyncedWereReceived
  <2>3. BacklogIsLostAcks'
    BY <1>1, <1>2, <2>1 DEF BacklogIsLostAcks, InFlightAcks, TypeOK
  <2>4. QED
    BY <2>2, <2>3
<1>6. QED
  BY <1>3, <1>4, <1>5

LEMMA RestartKeepsSyncInv ==
    ASSUME SyncInv, Restart
    PROVE  SyncInv'
<1>1. /\ UNCHANGED <<stored, synced, received>>
      /\ conn' = "none" /\ LoseWire
      /\ lostAcks' = lostAcks + UnreadAcks + Cardinality(marking)
      /\ engine' = "idle" /\ batch' = {} /\ marking' = {}
      /\ lifecycle' = "running" /\ observer' = "idle"
      /\ faults' \in 0 .. MaxFaults
  BY SyncEngineAssumption DEF Restart, Fault, database, SyncInv, TypeOK
<1>2. /\ requests' = <<>> /\ replies' = <<>>
      /\ orphans' \subseteq SUBSET stored
      /\ UnreadAcks \in Nat /\ Cardinality(marking) \in Nat
      /\ UnreadAcks' = 0
  BY <1>1, LoseWireFacts
<1>3. Cardinality({}) = 0
  BY FS_EmptySet
<1> USE DEF SyncInv
<1>4. TypeOK'
  <2>1. lostAcks' \in Nat /\ Cardinality(batch') <= BatchSize
    BY <1>1, <1>2, <1>3, SyncEngineAssumption DEF TypeOK
  <2>2. QED
    BY <1>1, <1>2, <2>1 DEF TypeOK, Connections, EngineStates, LifecycleStates
<1>5. Lockstep' /\ BatchInv' /\ ReplyInv' /\ MarkingInv' /\ StoppedInv'
  BY <1>1, <1>2 DEF Lockstep, BatchInv, ReplyInv, MarkingInv, StoppedInv
<1>6. ASSUME InOrder
      PROVE  DeliveryInv' /\ BacklogIsLostAcks'
  <2>1. DeliveryInv /\ BacklogIsLostAcks
    BY <1>6
  <2>2. DeliveryInv'
    BY <1>1, <1>2, <2>1 DEF DeliveryInv, SyncedWereReceived
  <2>3. BacklogIsLostAcks'
    BY <1>1, <1>2, <1>3, <2>1 DEF BacklogIsLostAcks, InFlightAcks, TypeOK
  <2>4. QED
    BY <2>2, <2>3
<1>7. QED
  BY <1>4, <1>5, <1>6

-----------------------------------------------------------------------------
(* The theorems. *)

LEMMA StepKeepsSyncInv == SyncInv /\ [Next]_vars => SyncInv'
<1> SUFFICES ASSUME SyncInv, [Next]_vars
             PROVE  SyncInv'
  OBVIOUS
<1>1. CASE ControlStep
  BY <1>1, ControlKeepsSyncInv
<1>2. CASE Fetch
  BY <1>2, FetchKeepsSyncInv
<1>3. CASE Send
  BY <1>3, SendKeepsSyncInv
<1>4. CASE ReadReply
  BY <1>4, ReadReplyKeepsSyncInv
<1>5. CASE ReadGarbled
  BY <1>5, ReadGarbledKeepsSyncInv
<1>6. CASE MarkSynced
  BY <1>6, MarkSyncedKeepsSyncInv
<1>7. CASE MarkFails
  BY <1>7, MarkFailsKeepsSyncInv
<1>8. CASE \E row \in Rows : Insert(row)
  BY <1>8, InsertKeepsSyncInv
<1>9. CASE CloudReplies
  BY <1>9, CloudRepliesKeepsSyncInv
<1>10. CASE \E request \in orphans : CloudProcessesOrphan(request)
  BY <1>10, CloudProcessesOrphanKeepsSyncInv
<1>11. CASE Break
  BY <1>11, BreakKeepsSyncInv
<1>12. CASE Restart
  BY <1>12, RestartKeepsSyncInv
<1>13. CASE UNCHANGED vars
  <2>1. UNCHANGED <<stored, synced, conn, requests, replies, engine, batch, marking,
                    lifecycle, observer, received, orphans, lostAcks, faults>>
    BY <1>13 DEF vars, database, wire, process, cloud
  <2>2. TypeOK' /\ Lockstep' /\ BatchInv' /\ ReplyInv' /\ MarkingInv' /\ StoppedInv'
    BY <2>1 DEF SyncInv, TypeOK, Lockstep, BatchInv, ReplyInv, MarkingInv, StoppedInv
  <2>3. ASSUME InOrder
        PROVE  DeliveryInv' /\ BacklogIsLostAcks'
    BY <2>1, <2>3 DEF SyncInv, DeliveryInv, SyncedWereReceived, BacklogIsLostAcks,
                      InFlightAcks, UnreadAcks
  <2>4. QED
    BY <2>2, <2>3 DEF SyncInv
<1>14. QED
  BY <1>1, <1>2, <1>3, <1>4, <1>5, <1>6, <1>7, <1>8, <1>9, <1>10, <1>11, <1>12, <1>13
     DEF Next, EngineStep, EnvironmentStep, ControlStep

\* SyncInv is an inductive invariant of the engine, its client and the cloud.
THEOREM SyncInvariant == Spec => []SyncInv
<1>1. Init => SyncInv
  BY InitSyncInv
<1>2. SyncInv /\ [Next]_vars => SyncInv'
  BY StepKeepsSyncInv
<1>3. QED
  BY <1>1, <1>2, PTL DEF Spec

\* Every variable keeps its type, a batch its bound, and a connection carries
\* one message at most.
THEOREM SyncTypeOK == Spec => []TypeOK
<1>1. SyncInv => TypeOK
  BY DEF SyncInv
<1>2. QED
  BY <1>1, SyncInvariant, PTL

\* With a cloud that stores a prefix of each request, no row is marked synced
\* that the cloud does not have, although a reply only counts rows.
THEOREM SyncedRowsWereReceived == InOrder => (Spec => []SyncedWereReceived)
<1>1. ASSUME InOrder
      PROVE  SyncInv => SyncedWereReceived
  BY <1>1 DEF SyncInv, DeliveryInv
<1>2. ASSUME InOrder
      PROVE  Spec => []SyncedWereReceived
  BY <1>1, <1>2, SyncInvariant, PTL
<1>3. QED
  BY <1>2

\* With such a cloud, the rows it has and the table does not know of are as
\* many as the acknowledgements lost or still on their way.
THEOREM SyncBacklog == InOrder => (Spec => []BacklogIsLostAcks)
<1>1. ASSUME InOrder
      PROVE  SyncInv => BacklogIsLostAcks
  BY <1>1 DEF SyncInv
<1>2. ASSUME InOrder
      PROVE  Spec => []BacklogIsLostAcks
  BY <1>1, <1>2, SyncInvariant, PTL
<1>3. QED
  BY <1>2

\* After Stop has returned the engine marks no row, sends no request and dials
\* no connection.
THEOREM SyncQuietAfterStop == Spec => QuietAfterStop
<1> DEFINE Quiet == lifecycle = "stopped" =>
                      /\ UNCHANGED synced
                      /\ Len(requests') <= Len(requests)
                      /\ conn' = "open" => conn = "open"
<1>1. ASSUME SyncInv, [Next]_vars
      PROVE  Quiet
  <2> SUFFICES ASSUME lifecycle = "stopped"
               PROVE  /\ UNCHANGED synced
                      /\ Len(requests') <= Len(requests)
                      /\ conn' = "open" => conn = "open"
    OBVIOUS
  <2>1. engine = "exited" /\ requests = <<>> /\ Len(<<>>) = 0
    BY <1>1 DEF SyncInv, StoppedInv, Lockstep
  <2>2. CASE UNCHANGED vars
    BY <2>1, <2>2 DEF vars, database, wire
  <2>3. CASE EngineStep
    BY <2>1, <2>3 DEF EngineStep, BeginCycle, WakeUp, DialSucceeds, DialFails, Fetch,
           FetchFails, CheckContext, Send, ConnectionError, ReadReply, ReadGarbled,
           MarkSynced, MarkFails, FinishCycle, Exit
  <2>4. CASE CallerStep
    BY <2>1, <2>4 DEF CallerStep, StopCall, StopCancel, StopReturn, StatsBegin, StatsEnd,
           database, wire
  <2>5. CASE EnvironmentStep
    BY <2>1, <2>5 DEF EnvironmentStep, Insert, CloudReplies, CloudProcessesOrphan, Break,
           Restart, LoseWire, database, wire
  <2>6. QED
    BY <1>1, <2>2, <2>3, <2>4, <2>5 DEF Next
<1>2. SyncInv /\ [Next]_vars => [Quiet]_vars
  BY <1>1
<1>3. Spec => [][Quiet]_vars
  BY <1>2, SyncInvariant, PTL DEF Spec
<1>4. QED
  BY <1>3 DEF QuietAfterStop

=============================================================================
