----------------------------- MODULE SQLiteProofs -----------------------------
(***************************************************************************)
(* Proofs about internal/cache/sqlite.go: ReadingCache, its write path, and*)
(* LocalDatabase, its schema and the catalogue in it.                      *)
(*                                                                         *)
(* Of the first, for every set of readings and of Flush calls and every    *)
(* capacity, batch length and number of attempts: the inductive invariant  *)
(* CacheInv gives the safety properties and the refinement of              *)
(* ReadingStore.                                                           *)
(*                                                                         *)
(* Of the second, for any items, flat tables, confirmations and number of  *)
(* faults: a tag has its tool, a tag that is known stays known, and a row  *)
(* that cannot be read takes no place of one that can.  The first needs to *)
(* know what performSync has written before the tags; the last how far the *)
(* queue's table is at each statement of NewSQLite, and which of its rows  *)
(* have a NULL by then.                                                    *)
(***************************************************************************)
EXTENDS ReadingCache, LocalDatabase, FiniteSetTheorems, TLAPS

-----------------------------------------------------------------------------
(* The inductive invariant. *)

\* The writer starts a flush of a nonempty batch, keeps it below its limit
\* between flushes, and leaves with nothing in its hands.
WriterInv ==
    /\ writer \in {"select", "drain"} => Len(batch) < BatchMax
    /\ writer # "flush" => attempt = 0
    /\ writer = "flush" => batch # <<>>
    /\ writer = "exited" => batch = <<>>

\* Only accepted, hence valid, readings are anywhere; a reading in the channel
\* has no row and is not in the batch; a reading given up never comes back.
PlaceInv ==
    /\ \A r \in Readings : store[r] \in {"checked", "accepted"} => r \notin Invalid
    /\ InMemory \cup Stored \cup abandoned \cup wiped \subseteq Accepted
    /\ NothingUnaccounted
    /\ IsInjective(readings)
    /\ Range(readings) \cap (Range(batch) \cup Stored) = {}
    /\ (abandoned \cup wiped) \cap (InMemory \cup Stored) = {}

\* A reading of the batch has at most one row for each failed attempt, and
\* only an attempt that failed on another reading gave it one.
CopiesInv ==
    \A r \in Readings :
        /\ copies[r] > 1 => r \in partial
        /\ copies[r] <= MaxAttempts
        /\ r \in Range(batch) => copies[r] <= attempt
        /\ r \in Range(batch) /\ copies[r] > 0 => r \in partial

\* The call the writer serves is the one that waits; once the drain is over
\* what the call waits for is in the batch or settled.
BarrierInv ==
    /\ \A f \in Flushers :
         /\ flusher[f] = "waiting" <=> serving = f
         /\ barrier[f] \subseteq Accepted
         /\ barrier[f] \cap wiped = {}
         /\ flusher[f] = "flushed" => barrier[f] \subseteq Stored \cup abandoned
    /\ writer = "drain" => serving \in Flushers
    /\ writer = "flush" /\ after \in {"drain", "ack"} => serving \in Flushers
    /\ writer = "flush" /\ after \in {"select", "exit"} => serving = NoFlusher
    /\ writer \in {"select", "exited"} => serving = NoFlusher
    /\ writer = "flush" /\ after = "ack" =>
         barrier[serving] \subseteq Range(batch) \cup Stored \cup abandoned

CacheInv == TypeOK /\ WriterInv /\ PlaceInv /\ CopiesInv /\ BarrierInv

-----------------------------------------------------------------------------
(* Sequences without repetition, as the channel and the batch are. *)

LEMMA RangeOfAppend ==
    ASSUME NEW S, NEW q \in Seq(S), NEW e \in S
    PROVE  /\ Append(q, e) \in Seq(S)
           /\ Range(Append(q, e)) = Range(q) \cup {e}
           /\ Len(Append(q, e)) = Len(q) + 1
           /\ IsInjective(q) /\ e \notin Range(q) => IsInjective(Append(q, e))
<1> DEFINE p == Append(q, e)
<1>1. /\ p \in Seq(S)
      /\ Len(p) = Len(q) + 1
      /\ Len(q) \in Nat
      /\ DOMAIN q = 1 .. Len(q)
      /\ DOMAIN p = 1 .. Len(q) + 1
      /\ \A i \in 1 .. Len(q) : p[i] = q[i]
      /\ p[Len(q) + 1] = e
  OBVIOUS
<1> HIDE DEF p
<1>2. Range(p) = Range(q) \cup {e}
  <2>1. \A i \in DOMAIN p : p[i] \in Range(q) \cup {e}
    BY <1>1 DEF Range
  <2>2. \A i \in DOMAIN q : q[i] \in Range(p)
    BY <1>1 DEF Range
  <2>3. e \in Range(p)
    BY <1>1 DEF Range
  <2>4. QED
    BY <2>1, <2>2, <2>3 DEF Range
<1>3. ASSUME IsInjective(q), e \notin Range(q)
      PROVE  IsInjective(p)
  <2> SUFFICES ASSUME NEW i \in DOMAIN p, NEW j \in DOMAIN p, p[i] = p[j]
               PROVE  i = j
    BY DEF IsInjective
  <2>1. CASE i \in DOMAIN q /\ j \in DOMAIN q
    BY <1>1, <1>3, <2>1 DEF IsInjective
  <2>2. CASE i \in DOMAIN q /\ j = Len(q) + 1
    BY <1>1, <1>3, <2>2 DEF Range
  <2>3. CASE j \in DOMAIN q /\ i = Len(q) + 1
    BY <1>1, <1>3, <2>3 DEF Range
  <2>4. QED
    BY <1>1, <2>1, <2>2, <2>3
<1>4. QED
  BY <1>1, <1>2, <1>3 DEF p

LEMMA RangeOfTail ==
    ASSUME NEW S, NEW q \in Seq(S), q # <<>>
    PROVE  /\ Head(q) \in S
           /\ Tail(q) \in Seq(S)
           /\ Len(Tail(q)) = Len(q) - 1
           /\ Range(q) = {Head(q)} \cup Range(Tail(q))
           /\ IsInjective(q) => /\ IsInjective(Tail(q))
                               /\ Head(q) \notin Range(Tail(q))
<1> DEFINE t == Tail(q)
<1>1. /\ Head(q) \in S
      /\ Head(q) = q[1]
      /\ t \in Seq(S)
      /\ Len(t) = Len(q) - 1
      /\ Len(q) \in Nat \ {0}
      /\ DOMAIN q = 1 .. Len(q)
      /\ DOMAIN t = 1 .. Len(q) - 1
      /\ \A i \in 1 .. Len(q) - 1 : t[i] = q[i + 1]
  OBVIOUS
<1> HIDE DEF t
<1>2. Range(q) = {Head(q)} \cup Range(t)
  <2>1. \A i \in DOMAIN t : t[i] \in Range(q)
    BY <1>1 DEF Range
  <2>2. Head(q) \in Range(q)
    BY <1>1 DEF Range
  <2>3. ASSUME NEW i \in DOMAIN q
        PROVE  q[i] \in {Head(q)} \cup Range(t)
    <3>1. CASE i = 1
      BY <1>1, <3>1
    <3>2. CASE i # 1
      <4>1. i - 1 \in DOMAIN t /\ t[i - 1] = q[i]
        BY <1>1, <3>2
      <4>2. QED
        BY <4>1 DEF Range
    <3>3. QED
      BY <3>1, <3>2
  <2>4. QED
    BY <2>1, <2>2, <2>3 DEF Range
<1>3. ASSUME IsInjective(q)
      PROVE  IsInjective(t) /\ Head(q) \notin Range(t)
  <2>1. \A i, j \in DOMAIN q : q[i] = q[j] => i = j
    BY <1>3 DEF IsInjective
  <2>2. ASSUME NEW i \in DOMAIN t, NEW j \in DOMAIN t, t[i] = t[j]
        PROVE  i = j
    <3>1. /\ i + 1 \in DOMAIN q /\ j + 1 \in DOMAIN q
          /\ q[i + 1] = q[j + 1]
          /\ i \in Nat /\ j \in Nat
      BY <1>1, <2>2
    <3>2. i + 1 = j + 1
      BY <2>1, <3>1
    <3>3. QED
      BY <3>1, <3>2
  <2>3. ASSUME NEW i \in DOMAIN t
        PROVE  t[i] # Head(q)
    <3>1. /\ i + 1 \in DOMAIN q /\ 1 \in DOMAIN q
          /\ t[i] = q[i + 1] /\ i + 1 # 1
      BY <1>1, <2>3
    <3>2. QED
      BY <1>1, <2>1, <3>1
  <2>4. QED
    BY <2>2, <2>3 DEF IsInjective, Range
<1>4. QED
  BY <1>1, <1>2, <1>3 DEF t

LEMMA RangeOfEmpty ==
    /\ Range(<<>>) = {}
    /\ IsInjective(<<>>)
    /\ Len(<<>>) = 0
BY DEF Range, IsInjective

LEMMA RangeOfSeq ==
    ASSUME NEW S, NEW q \in Seq(S)
    PROVE  /\ Range(q) \subseteq S
           /\ Range(q) = {} <=> q = <<>>
           /\ Len(q) = 0 <=> q = <<>>
           /\ Len(q) \in Nat
<1>1. Len(q) \in Nat /\ DOMAIN q = 1 .. Len(q) /\ \A i \in 1 .. Len(q) : q[i] \in S
  OBVIOUS
<1>2. Len(q) = 0 <=> q = <<>>
  OBVIOUS
<1>3. Range(q) = {} <=> Len(q) = 0
  <2>1. Len(q) > 0 => q[1] \in Range(q)
    BY <1>1 DEF Range
  <2>2. QED
    BY <1>1, <2>1 DEF Range
<1>4. QED
  BY <1>1, <1>2, <1>3 DEF Range

-----------------------------------------------------------------------------
(* Every step keeps the invariant. *)

LEMMA InitInv == Init => CacheInv
<1> SUFFICES ASSUME Init PROVE CacheInv
  OBVIOUS
<1> USE ReadingCacheAssumption, NoFlusherAssumption, RangeOfEmpty DEF Init
<1>1. TypeOK
  BY DEF TypeOK, StoreStates, WriterStates, AfterStates, CloserStates, FlusherStates
<1>2. WriterInv
  BY DEF WriterInv
<1>3. PlaceInv
  BY DEF PlaceInv, NothingUnaccounted, InMemory, Stored, Accepted
<1>4. CopiesInv
  BY DEF CopiesInv
<1>5. BarrierInv
  BY DEF BarrierInv
<1>6. QED
  BY <1>1, <1>2, <1>3, <1>4, <1>5 DEF CacheInv

LEMMA StoreCheckInv ==
    ASSUME CacheInv, NEW r \in Readings, StoreCheck(r)
    PROVE  CacheInv'
<1> USE DEF CacheInv, StoreCheck, control, history
<1>1. TypeOK'
  BY DEF TypeOK, StoreStates
<1>2. WriterInv'
  BY DEF WriterInv
<1>3. PlaceInv'
  BY DEF PlaceInv, NothingUnaccounted, InMemory, Stored, Accepted, TypeOK
<1>4. CopiesInv'
  BY DEF CopiesInv
<1>5. BarrierInv'
  BY DEF BarrierInv, Stored, Accepted, TypeOK
<1>6. QED
  BY <1>1, <1>2, <1>3, <1>4, <1>5

LEMMA StoreSendInv ==
    ASSUME CacheInv, NEW r \in Readings, StoreSend(r)
    PROVE  CacheInv'
<1> USE DEF CacheInv, StoreSend, control, history
<1>1. /\ readings' \in Seq(Readings)
      /\ Range(readings') = Range(readings) \cup {r}
      /\ Len(readings') = Len(readings) + 1
      /\ IsInjective(readings) /\ r \notin Range(readings) => IsInjective(readings')
  BY RangeOfAppend DEF TypeOK
<1>2. r \notin InMemory \cup Stored \cup abandoned \cup wiped
  BY DEF PlaceInv, Accepted
<1>3. TypeOK'
  <2>1. Len(readings') <= BufferSize
    BY <1>1, RangeOfSeq, ReadingCacheAssumption DEF TypeOK
  <2>2. QED
    BY <1>1, <2>1 DEF TypeOK, StoreStates
<1>4. WriterInv'
  BY DEF WriterInv
<1>5. PlaceInv'
  <2>1. Accepted' = Accepted \cup {r} /\ Stored' = Stored /\ InMemory' = InMemory \cup {r}
    BY <1>1 DEF Accepted, Stored, InMemory, TypeOK
  <2>2. \A x \in Readings : store'[x] \in {"checked", "accepted"} => x \notin Invalid
    BY DEF PlaceInv, TypeOK
  <2>3. IsInjective(readings')
    BY <1>1, <1>2 DEF PlaceInv, InMemory
  <2>4. Range(readings') \cap (Range(batch') \cup Stored') = {}
    BY <1>1, <1>2, <2>1 DEF PlaceInv, InMemory
  <2>5. QED
    BY <1>2, <2>1, <2>2, <2>3, <2>4 DEF PlaceInv, NothingUnaccounted
<1>6. CopiesInv'
  BY DEF CopiesInv
<1>7. BarrierInv'
  BY DEF BarrierInv, Stored, Accepted, TypeOK
<1>8. QED
  BY <1>3, <1>4, <1>5, <1>6, <1>7

LEMMA StoreTimeoutInv ==
    ASSUME CacheInv, NEW r \in Readings, StoreTimeout(r)
    PROVE  CacheInv'
<1> USE DEF CacheInv, StoreTimeout, control, history
<1>1. TypeOK'
  BY DEF TypeOK, StoreStates
<1>2. WriterInv'
  BY DEF WriterInv
<1>3. PlaceInv'
  BY DEF PlaceInv, NothingUnaccounted, InMemory, Stored, Accepted, TypeOK
<1>4. CopiesInv'
  BY DEF CopiesInv
<1>5. BarrierInv'
  BY DEF BarrierInv, Stored, Accepted, TypeOK
<1>6. QED
  BY <1>1, <1>2, <1>3, <1>4, <1>5

LEMMA ReceiveInv ==
    ASSUME CacheInv, NEW state \in {"select", "drain"}, Receive(state)
    PROVE  CacheInv'
<1> USE DEF CacheInv, Receive, StartFlush, control, history
<1> DEFINE r == Head(readings)
<1>1. /\ r \in Readings
      /\ readings' \in Seq(Readings)
      /\ Len(readings') = Len(readings) - 1
      /\ Range(readings) = {r} \cup Range(readings')
      /\ IsInjective(readings')
      /\ r \notin Range(readings')
  BY RangeOfTail DEF TypeOK, PlaceInv
<1>2. /\ batch' \in Seq(Readings)
      /\ Range(batch') = Range(batch) \cup {r}
      /\ Len(batch') = Len(batch) + 1
  BY <1>1, RangeOfAppend DEF TypeOK
<1>3. Len(batch) \in Nat /\ Len(readings) \in Nat
  BY RangeOfSeq DEF TypeOK
<1>4. attempt = 0 /\ attempt' = 0
  BY DEF WriterInv
<1>5. r \in Range(readings) /\ r \notin Range(batch) \cup Stored
  BY <1>1 DEF PlaceInv
<1> HIDE DEF r
<1>6. TypeOK'
  BY <1>1, <1>2, <1>3, <1>4, ReadingCacheAssumption
    DEF TypeOK, WriterInv, WriterStates, AfterStates
<1>7. WriterInv'
  <2>1. batch' # <<>>
    BY <1>2, RangeOfEmpty
  <2>2. QED
    BY <1>2, <1>3, <1>4, <2>1, ReadingCacheAssumption DEF WriterInv, TypeOK
<1>8. PlaceInv'
  <2>1. InMemory' = InMemory /\ Stored' = Stored /\ Accepted' = Accepted
    BY <1>1, <1>2 DEF InMemory, Stored, Accepted
  <2>2. QED
    BY <1>1, <1>2, <1>5, <2>1 DEF PlaceInv, NothingUnaccounted
<1>9. CopiesInv'
  <2>1. copies[r] = 0
    BY <1>1, <1>5 DEF Stored, TypeOK
  <2>2. QED
    BY <1>2, <1>4, <2>1 DEF CopiesInv, TypeOK
<1>10. BarrierInv'
  BY DEF BarrierInv, Stored, Accepted, TypeOK
<1>11. QED
  BY <1>6, <1>7, <1>8, <1>9, <1>10

LEMMA TickInv ==
    ASSUME CacheInv, Tick
    PROVE  CacheInv'
<1> USE DEF CacheInv, Tick, StartFlush, control, history
<1>1. TypeOK'
  BY ReadingCacheAssumption DEF TypeOK, WriterStates, AfterStates
<1>2. WriterInv'
  BY DEF WriterInv
<1>3. PlaceInv'
  BY DEF PlaceInv, NothingUnaccounted, InMemory, Stored, Accepted, TypeOK
<1>4. CopiesInv'
  BY DEF CopiesInv, WriterInv
<1>5. BarrierInv'
  BY DEF BarrierInv, Stored, Accepted, TypeOK
<1>6. QED
  BY <1>1, <1>2, <1>3, <1>4, <1>5

LEMMA ReceiveCloseInv ==
    ASSUME CacheInv, ReceiveClose
    PROVE  CacheInv'
<1> USE DEF CacheInv, ReceiveClose, StartFlush, control, history
<1>1. TypeOK'
  BY ReadingCacheAssumption DEF TypeOK, WriterStates, AfterStates
<1>2. WriterInv'
  BY DEF WriterInv
<1>3. PlaceInv'
  BY DEF PlaceInv, NothingUnaccounted, InMemory, Stored, Accepted, TypeOK
<1>4. CopiesInv'
  BY DEF CopiesInv, WriterInv
<1>5. BarrierInv'
  BY DEF BarrierInv, Stored, Accepted, TypeOK
<1>6. QED
  BY <1>1, <1>2, <1>3, <1>4, <1>5

LEMMA ReceiveFlushInv ==
    ASSUME CacheInv, NEW f \in Flushers, ReceiveFlush(f)
    PROVE  CacheInv'
<1> USE DEF CacheInv, ReceiveFlush, history
<1>1. TypeOK'
  BY DEF TypeOK, WriterStates, FlusherStates
<1>2. WriterInv'
  BY DEF WriterInv
<1>3. PlaceInv'
  BY DEF PlaceInv, NothingUnaccounted, InMemory, Stored, Accepted, TypeOK
<1>4. CopiesInv'
  BY DEF CopiesInv
<1>5. BarrierInv'
  BY NoFlusherAssumption DEF BarrierInv, Stored, Accepted, TypeOK
<1>6. QED
  BY <1>1, <1>2, <1>3, <1>4, <1>5

LEMMA DrainEmptyInv ==
    ASSUME CacheInv, DrainEmpty
    PROVE  CacheInv'
<1> USE DEF CacheInv, DrainEmpty, StartFlush, Acknowledge, history
<1>1. TypeOK'
  BY ReadingCacheAssumption DEF TypeOK, WriterStates, AfterStates, FlusherStates
<1>2. WriterInv'
  BY ReadingCacheAssumption, RangeOfEmpty DEF WriterInv
<1>3. PlaceInv'
  BY DEF PlaceInv, NothingUnaccounted, InMemory, Stored, Accepted, TypeOK
<1>4. CopiesInv'
  BY DEF CopiesInv, WriterInv
<1>5. BarrierInv'
  <2>1. serving \in Flushers
    BY DEF BarrierInv
  <2>2. barrier[serving] \subseteq Range(batch) \cup Stored \cup abandoned
    BY <2>1, RangeOfEmpty DEF BarrierInv, PlaceInv, NothingUnaccounted, InMemory
  <2>3. Stored' = Stored /\ Accepted' = Accepted
    BY DEF Stored, Accepted
  <2>4. CASE batch # <<>>
    BY <2>1, <2>2, <2>3, <2>4 DEF BarrierInv, TypeOK
  <2>5. CASE batch = <<>>
    <3>1. barrier[serving] \subseteq Stored \cup abandoned
      BY <2>2, <2>5, RangeOfEmpty
    <3>2. QED
      BY <2>1, <2>3, <2>5, <3>1, NoFlusherAssumption DEF BarrierInv, TypeOK
  <2>6. QED
    BY <2>4, <2>5
<1>6. QED
  BY <1>1, <1>2, <1>3, <1>4, <1>5

\* An attempt: inserted are the rows it commits, failed those it does not.
LEMMA FlushOnceInv ==
    ASSUME CacheInv,
           NEW inserted \in SUBSET Range(batch), NEW failed \in SUBSET Range(batch),
           inserted \cap failed = {},
           failed = {} => inserted = Range(batch),
           FlushOnce(inserted, failed)
    PROVE  CacheInv'
<1> USE DEF CacheInv
<1>1. /\ writer = "flush" /\ batch # <<>>
      /\ store' = store /\ readings' = readings /\ closer' = closer
      /\ wiped' = wiped /\ barrier' = barrier /\ restarts' = restarts
      /\ copies' = [r \in Readings |->
                       IF r \in inserted THEN copies[r] + 1 ELSE copies[r]]
  BY DEF FlushOnce, WriterInv
<1>2. Range(batch) \subseteq Readings
  BY RangeOfSeq DEF TypeOK
<1>3. copies' \in [Readings -> Nat]
  BY <1>1 DEF TypeOK
<1>4. Stored' = Stored \cup inserted
  BY <1>1, <1>2, <1>3 DEF Stored, TypeOK
<1>5. Accepted' = Accepted
  BY <1>1 DEF Accepted
<1>6. attempt \in Nat /\ attempt < MaxAttempts
  BY ReadingCacheAssumption DEF TypeOK
<1>7. \A r \in Readings : r \in inserted => copies'[r] <= attempt + 1
  BY <1>1, <1>2, <1>6 DEF CopiesInv, TypeOK
<1>8. inserted \subseteq Accepted /\ inserted \cap (abandoned \cup wiped) = {}
      /\ inserted \cap Range(readings) = {}
  BY DEF PlaceInv, InMemory
\* The attempt failed and another one follows.
<1>9. ASSUME failed # {}, attempt + 1 < MaxAttempts
      PROVE  CacheInv'
  <2>1. /\ partial' = partial \cup inserted
        /\ attempt' = attempt + 1
        /\ UNCHANGED <<batch, writer, after, flusher, serving, abandoned>>
    BY <1>9 DEF FlushOnce
  <2>2. TypeOK'
    BY <1>1, <1>2, <1>3, <1>6, <1>9, <2>1, ReadingCacheAssumption DEF TypeOK
  <2>3. WriterInv'
    BY <1>1, <2>1 DEF WriterInv
  <2>4. PlaceInv'
    <3>1. InMemory' = InMemory
      BY <1>1, <2>1 DEF InMemory
    <3>2. QED
      BY <1>1, <1>4, <1>5, <1>8, <2>1, <3>1 DEF PlaceInv, NothingUnaccounted
  <2>5. CopiesInv'
    BY <1>1, <1>2, <1>6, <1>7, <1>9, <2>1, ReadingCacheAssumption DEF CopiesInv, TypeOK
  <2>6. BarrierInv'
    BY <1>1, <1>4, <1>5, <2>1 DEF BarrierInv
  <2>7. QED
    BY <2>2, <2>3, <2>4, <2>5, <2>6
\* It was the last one, or it succeeded: the batch is emptied.
<1>10. ASSUME failed = {} \/ ~(attempt + 1 < MaxAttempts)
       PROVE  CacheInv'
  <2>1. /\ EndFlush
        /\ partial' = partial \/ partial' = partial \cup inserted
        /\ \/ failed = {} /\ abandoned' = abandoned /\ partial' = partial
           \/ abandoned' = abandoned \cup {r \in Range(batch) : copies'[r] = 0}
              /\ partial' = partial \cup inserted
    BY <1>10 DEF FlushOnce
  <2>2. /\ batch' = <<>> /\ attempt' = 0 /\ after' = after
        /\ writer' \in {"exited", "drain", "select"}
        /\ writer' = "exited" <=> after = "exit"
        /\ writer' = "drain" <=> after = "drain"
        /\ IF after = "ack" THEN Acknowledge ELSE UNCHANGED <<flusher, serving>>
    BY <2>1 DEF EndFlush, TypeOK, AfterStates
  <2>3. Range(batch') = {} /\ Len(batch') = 0 /\ batch' \in Seq(Readings)
    BY <2>2, RangeOfEmpty
  <2>4. abandoned' \subseteq abandoned \cup Range(batch)
    BY <2>1
  <2>5. Range(batch) \subseteq Stored' \cup abandoned'
    <3>1. CASE failed = {}
      BY <1>4, <3>1
    <3>2. CASE abandoned' = abandoned \cup {r \in Range(batch) : copies'[r] = 0}
      BY <1>2, <1>3, <3>2 DEF Stored
    <3>3. QED
      BY <2>1, <3>1, <3>2
  <2>6. abandoned' \cap Stored' = {}
    BY <1>2, <1>3, <1>4, <1>8, <2>1 DEF PlaceInv, Stored
  <2>7. after = "ack" => serving \in Flushers
    BY <1>1 DEF BarrierInv
  <2>8. TypeOK'
    <3>1. flusher' \in [Flushers -> FlusherStates] /\ serving' \in Flushers \cup {NoFlusher}
      BY <2>2 DEF Acknowledge, TypeOK, FlusherStates
    <3>2. abandoned' \subseteq Readings /\ partial' \subseteq Readings
      BY <1>2, <2>1, <2>4 DEF TypeOK
    <3>3. QED
      BY <1>1, <1>3, <2>2, <2>3, <3>1, <3>2, ReadingCacheAssumption DEF TypeOK, WriterStates
  <2>9. WriterInv'
    BY <2>2, <2>3, ReadingCacheAssumption DEF WriterInv
  <2>10. PlaceInv'
    <3>1. InMemory' = Range(readings) /\ InMemory \subseteq Range(readings) \cup Range(batch)
      BY <1>1, <2>3 DEF InMemory
    <3>2. NothingUnaccounted'
      BY <1>1, <1>4, <1>5, <2>1, <2>5, <3>1 DEF PlaceInv, NothingUnaccounted
    <3>3. abandoned' \subseteq Accepted'
      BY <1>5, <2>4 DEF PlaceInv, InMemory
    <3>4. (abandoned' \cup wiped') \cap (InMemory' \cup Stored') = {}
      BY <1>1, <1>4, <1>8, <2>4, <2>6, <3>1 DEF PlaceInv, InMemory
    <3>5. Range(readings') \cap (Range(batch') \cup Stored') = {}
      BY <1>1, <1>4, <1>8, <2>3 DEF PlaceInv
    <3>6. QED
      BY <1>1, <1>4, <1>5, <1>8, <3>1, <3>2, <3>3, <3>4, <3>5 DEF PlaceInv, InMemory
  <2>11. CopiesInv'
    <3>1. \A r \in Readings : r \in inserted /\ copies[r] > 0 => r \in partial
      BY DEF CopiesInv
    <3>2. \A r \in Readings : copies'[r] > 1 => r \in partial'
      BY <1>1, <2>1, <3>1 DEF CopiesInv, TypeOK
    <3>3. \A r \in Readings : copies'[r] <= MaxAttempts
      BY <1>1, <1>6, <1>7, ReadingCacheAssumption DEF CopiesInv, TypeOK
    <3>4. QED
      BY <2>3, <3>2, <3>3 DEF CopiesInv
  <2>12. BarrierInv'
    <3>1. CASE after = "ack"
      <4>1. /\ serving \in Flushers
            /\ flusher' = [flusher EXCEPT ![serving] = "flushed"]
            /\ serving' = NoFlusher
            /\ writer' = "select"
        BY <2>2, <2>7, <3>1 DEF Acknowledge
      <4>2. barrier[serving] \subseteq Stored' \cup abandoned'
        BY <1>1, <1>4, <2>1, <2>5, <3>1 DEF BarrierInv
      <4>3. QED
        BY <1>1, <1>4, <1>5, <2>1, <4>1, <4>2, NoFlusherAssumption DEF BarrierInv, TypeOK
    <3>2. CASE after # "ack"
      <4>1. after \in {"select", "exit", "drain"}
        BY <3>2 DEF TypeOK, AfterStates
      <4>2. UNCHANGED <<flusher, serving>>
        BY <2>2, <3>2
      <4>3. QED
        BY <1>1, <1>4, <1>5, <2>1, <2>2, <4>1, <4>2 DEF BarrierInv
    <3>3. QED
      BY <3>1, <3>2
  <2>13. QED
    BY <2>8, <2>9, <2>10, <2>11, <2>12
<1>11. QED
  BY <1>9, <1>10

LEMMA FlushCallInv ==
    ASSUME CacheInv, NEW f \in Flushers, FlushCall(f)
    PROVE  CacheInv'
<1> USE DEF CacheInv, FlushCall, memory
<1>1. TypeOK'
  BY DEF TypeOK, FlusherStates, Accepted
<1>2. WriterInv'
  BY DEF WriterInv
<1>3. PlaceInv'
  BY DEF PlaceInv, NothingUnaccounted, InMemory, Stored, Accepted, TypeOK
<1>4. CopiesInv'
  BY DEF CopiesInv
<1>5. BarrierInv'
  <2>1. serving # f
    BY DEF BarrierInv
  <2>2. QED
    BY <2>1 DEF BarrierInv, Stored, Accepted, TypeOK
<1>6. QED
  BY <1>1, <1>2, <1>3, <1>4, <1>5

LEMMA FlushTimeoutInv ==
    ASSUME CacheInv, NEW f \in Flushers, FlushTimeout(f)
    PROVE  CacheInv'
<1> USE DEF CacheInv, FlushTimeout, memory, history
<1>1. TypeOK'
  BY DEF TypeOK, FlusherStates
<1>2. WriterInv'
  BY DEF WriterInv
<1>3. PlaceInv'
  BY DEF PlaceInv, NothingUnaccounted, InMemory, Stored, Accepted, TypeOK
<1>4. CopiesInv'
  BY DEF CopiesInv
<1>5. BarrierInv'
  BY DEF BarrierInv, Stored, Accepted, TypeOK
<1>6. QED
  BY <1>1, <1>2, <1>3, <1>4, <1>5

LEMMA CloseInv ==
    ASSUME CacheInv, CloseStep
    PROVE  CacheInv'
<1> USE DEF CacheInv, CloseStep, CloseMark, CloseSignalWriter, CloseFinish, memory, history
<1>1. TypeOK'
  BY DEF TypeOK, CloserStates
<1>2. WriterInv'
  BY DEF WriterInv
<1>3. PlaceInv'
  BY DEF PlaceInv, NothingUnaccounted, InMemory, Stored, Accepted, TypeOK
<1>4. CopiesInv'
  BY DEF CopiesInv
<1>5. BarrierInv'
  BY DEF BarrierInv, Stored, Accepted, TypeOK
<1>6. QED
  BY <1>1, <1>2, <1>3, <1>4, <1>5

\* A restart ends the calls in progress, whichever way they end.
LEMMA RestartInv ==
    ASSUME CacheInv,
           NEW calls \in [Readings -> StoreStates],
           \A r \in Readings :
             /\ calls[r] = "accepted" <=> store[r] = "accepted"
             /\ calls[r] # "checked",
           Restart(calls)
    PROVE  CacheInv'
<1> USE RangeOfEmpty DEF CacheInv, Restart
<1>1. TypeOK'
  <2>1. InMemory \subseteq Readings
    BY RangeOfSeq DEF TypeOK, InMemory
  <2>2. QED
    BY <2>1, ReadingCacheAssumption
      DEF TypeOK, WriterStates, AfterStates, CloserStates, FlusherStates
<1>2. WriterInv'
  BY ReadingCacheAssumption DEF WriterInv
<1>3. PlaceInv'
  <2>1. /\ InMemory' = {} /\ Stored' = Stored /\ Accepted' = Accepted
    BY DEF InMemory, Stored, Accepted
  <2>2. QED
    BY <2>1 DEF PlaceInv, NothingUnaccounted
<1>4. CopiesInv'
  BY DEF CopiesInv, TypeOK
<1>5. BarrierInv'
  BY NoFlusherAssumption DEF BarrierInv
<1>6. QED
  BY <1>1, <1>2, <1>3, <1>4, <1>5

\* The calls of both restarts meet the conditions of RestartInv.
LEMMA InterruptedCalls ==
    ASSUME TypeOK
    PROVE  /\ Interrupted \in [Readings -> StoreStates]
           /\ \A r \in Readings :
                /\ Interrupted[r] = "accepted" <=> store[r] = "accepted"
                /\ Interrupted[r] # "checked"
BY DEF Interrupted, TypeOK, StoreStates

THEOREM CacheInvInductive == CacheInv /\ [Next]_vars => CacheInv'
<1> SUFFICES ASSUME CacheInv, [Next]_vars
             PROVE  CacheInv'
  OBVIOUS
<1>1. ASSUME NEW r \in Readings, StoreStep(r)
      PROVE  CacheInv'
  <2>1. CASE StoreCheck(r)
    BY <2>1, StoreCheckInv
  <2>2. CASE StoreSend(r)
    BY <2>2, StoreSendInv
  <2>3. CASE StoreTimeout(r)
    BY <2>3, StoreTimeoutInv
  <2>4. CASE StorePanic(r)
    <3>1. PICK calls \in [Readings -> StoreStates] :
            calls = [Interrupted EXCEPT ![r] = "panicked"]
      BY InterruptedCalls DEF CacheInv, StoreStates
    <3>2. \A x \in Readings : /\ calls[x] = "accepted" <=> store[x] = "accepted"
                              /\ calls[x] # "checked"
      BY <2>4, <3>1, InterruptedCalls DEF CacheInv, StorePanic
    <3>3. Restart(calls)
      BY <2>4, <3>1 DEF StorePanic
    <3>4. QED
      BY <3>2, <3>3, RestartInv
  <2>5. QED
    BY <1>1, <2>1, <2>2, <2>3, <2>4 DEF StoreStep
<1>2. CASE WriterStep
  <2>1. CASE Receive("select")
    BY <2>1, ReceiveInv
  <2>2. CASE Receive("drain")
    BY <2>2, ReceiveInv
  <2>3. CASE Tick
    BY <2>3, TickInv
  <2>4. CASE ReceiveClose
    BY <2>4, ReceiveCloseInv
  <2>5. CASE \E f \in Flushers : ReceiveFlush(f)
    BY <2>5, ReceiveFlushInv
  <2>6. CASE DrainEmpty
    BY <2>6, DrainEmptyInv
  <2>7. CASE FlushCommits
    <3>1. PICK failed \in SUBSET Range(batch) : FlushOnce(Range(batch) \ failed, failed)
      BY <2>7 DEF FlushCommits
    <3>2. QED
      BY <3>1, FlushOnceInv
  <2>8. CASE FlushAborts
    <3>1. Range(batch) # {}
      BY <2>8, RangeOfSeq DEF FlushAborts, FlushOnce, CacheInv, WriterInv, TypeOK
    <3>2. FlushOnce({}, Range(batch))
      BY <2>8 DEF FlushAborts
    <3>3. QED
      BY <3>1, <3>2, FlushOnceInv
  <2>9. QED
    BY <1>2, <2>1, <2>2, <2>3, <2>4, <2>5, <2>6, <2>7, <2>8 DEF WriterStep
<1>3. ASSUME NEW f \in Flushers, FlushStep(f)
      PROVE  CacheInv'
  BY <1>3, FlushCallInv, FlushTimeoutInv DEF FlushStep
<1>4. CASE CloseStep
  BY <1>4, CloseInv
<1>5. CASE ProcessRestart
  <2>1. Restart(Interrupted)
    BY <1>5 DEF ProcessRestart
  <2>2. QED
    BY <2>1, RestartInv, InterruptedCalls DEF CacheInv
<1>6. CASE UNCHANGED vars
  BY <1>6 DEF vars, memory, control, history, CacheInv, TypeOK, WriterInv, PlaceInv,
       CopiesInv, BarrierInv, NothingUnaccounted, InMemory, Stored, Accepted
<1>7. QED
  BY <1>1, <1>2, <1>3, <1>4, <1>5, <1>6 DEF Next

-----------------------------------------------------------------------------
(* The safety properties. *)

THEOREM CacheInvariant == Spec => []CacheInv
<1>1. Init => CacheInv
  BY InitInv
<1>2. CacheInv /\ [Next]_vars => CacheInv'
  BY CacheInvInductive
<1>3. QED
  BY <1>1, <1>2, PTL DEF Spec

\* Type correctness: the channel and the batch never outgrow their bounds,
\* however Store, Flush, Close and restarts interleave.
THEOREM CacheTypeOK == Spec => []TypeOK
<1>1. CacheInv => TypeOK
  BY DEF CacheInv
<1>2. QED
  BY <1>1, CacheInvariant, PTL

\* A reading for which Store returned nil is never silently lost.
THEOREM CacheLosesNothing == Spec => []NothingUnaccounted
<1>1. CacheInv => NothingUnaccounted
  BY DEF CacheInv, PlaceInv
<1>2. QED
  BY <1>1, CacheInvariant, PTL

\* Duplicated rows come only from a repeated attempt that had partly succeeded.
THEOREM CacheDuplicates == Spec => []SecondRowOnlyAfterPartialFailure
<1>1. CacheInv => SecondRowOnlyAfterPartialFailure
  BY DEF CacheInv, PlaceInv, CopiesInv, SecondRowOnlyAfterPartialFailure
<1>2. QED
  BY <1>1, CacheInvariant, PTL

\* A Flush that returns nil left nothing it waited for behind.
THEOREM CacheFlushBarrier == Spec => []FlushIsABarrier
<1>1. CacheInv => FlushIsABarrier
  BY DEF CacheInv, BarrierInv, FlushIsABarrier
<1>2. QED
  BY <1>1, CacheInvariant, PTL

-----------------------------------------------------------------------------
(* The cache implements the abstract store. *)

Ph == [r \in Readings |-> Phase(r)]

\* What the phase of a reading says of the state.
PhaseMeaning ==
    \A r \in Readings :
        /\ Phase(r) = "stored" <=> r \in Stored
        /\ Phase(r) = "pending" <=> r \in InMemory \ Stored
        /\ Phase(r) = "lost" <=> r \in Accepted \ (InMemory \cup Stored)
        /\ Phase(r) = "refused" <=> store[r] \in {"rejected", "panicked"}
        /\ Phase(r) = "unoffered" <=> store[r] \in {"new", "checked"}
        /\ Phase(r) \in {"stored", "pending", "lost", "refused", "unoffered"}

LEMMA PhaseOf == CacheInv => PhaseMeaning
<1> SUFFICES ASSUME CacheInv, NEW r \in Readings
             PROVE  /\ Phase(r) = "stored" <=> r \in Stored
                    /\ Phase(r) = "pending" <=> r \in InMemory \ Stored
                    /\ Phase(r) = "lost" <=> r \in Accepted \ (InMemory \cup Stored)
                    /\ Phase(r) = "refused" <=> store[r] \in {"rejected", "panicked"}
                    /\ Phase(r) = "unoffered" <=> store[r] \in {"new", "checked"}
                    /\ Phase(r) \in {"stored", "pending", "lost", "refused", "unoffered"}
  BY DEF PhaseMeaning
<1>1. /\ copies[r] \in Nat
      /\ store[r] \in {"new", "checked", "accepted", "rejected", "panicked"}
      /\ r \in Stored <=> copies[r] > 0
      /\ r \in Accepted <=> store[r] = "accepted"
      /\ r \in InMemory \cup Stored => r \in Accepted
  BY DEF CacheInv, TypeOK, StoreStates, PlaceInv, Stored, Accepted
<1>2. CASE r \in Stored
  BY <1>1, <1>2 DEF Phase
<1>3. CASE r \in InMemory /\ r \notin Stored
  BY <1>1, <1>3 DEF Phase
<1>4. CASE r \in Accepted /\ r \notin InMemory \cup Stored
  BY <1>1, <1>4 DEF Phase
<1>5. CASE r \notin Accepted
  BY <1>1, <1>5 DEF Phase
<1>6. QED
  BY <1>1, <1>2, <1>3, <1>4, <1>5

LEMMA PhaseOfNext == CacheInv' => PhaseMeaning'
BY PhaseOf, PTL

\* A step that moves no reading and answers no call is a stuttering step.
LEMMA PhaseUnchanged ==
    ASSUME store' = store, copies' = copies, InMemory' = InMemory
    PROVE  Ph' = Ph
BY DEF Ph, Phase

LEMMA StoreRefines ==
    ASSUME CacheInv, CacheInv', NEW r \in Readings,
           StoreCheck(r) \/ StoreSend(r) \/ StoreTimeout(r)
    PROVE  [Abstract!Next]_Ph
<1>1. \A x \in Readings \ {r} : Phase(x)' = Phase(x)
  <2> SUFFICES ASSUME NEW x \in Readings, x # r
               PROVE  Phase(x)' = Phase(x)
    OBVIOUS
  <2>0. x # r
    OBVIOUS
  <2>1. store'[x] = store[x] /\ copies'[x] = copies[x]
    BY DEF StoreCheck, StoreSend, StoreTimeout, CacheInv, TypeOK
  <2>2. x \in InMemory' <=> x \in InMemory
    <3>1. CASE StoreSend(r)
      <4>1. Range(readings') = Range(readings) \cup {r} /\ batch' = batch
        BY <3>1, RangeOfAppend DEF StoreSend, CacheInv, TypeOK
      <4>2. QED
        BY <4>1, <2>0 DEF InMemory
    <3>2. CASE StoreCheck(r) \/ StoreTimeout(r)
      BY <3>2 DEF StoreCheck, StoreTimeout, InMemory
    <3>3. QED
      BY <3>1, <3>2
  <2>3. QED
    BY <2>1, <2>2 DEF Phase
<1>2. Phase(r) = "unoffered"
  BY PhaseOf DEF PhaseMeaning, StoreCheck, StoreSend, StoreTimeout
<1>3. CASE Phase(r)' = "unoffered"
  BY <1>1, <1>2, <1>3 DEF Ph
<1>4. CASE Phase(r)' = "refused"
  <2>1. Abstract!Refuse(r)
    BY <1>1, <1>2, <1>4 DEF Abstract!Refuse, Ph
  <2>2. QED
    BY <2>1 DEF Abstract!Next
<1>5. CASE Phase(r)' = "pending" /\ r \notin Invalid
  <2>1. Abstract!Accept(r)
    BY <1>1, <1>2, <1>5 DEF Abstract!Accept, Ph
  <2>2. QED
    BY <2>1 DEF Abstract!Next
<1>6. CASE StoreCheck(r)
  <2>1. store'[r] \in {"rejected", "checked"}
    BY <1>6 DEF StoreCheck, CacheInv, TypeOK
  <2>2. Phase(r)' \in {"refused", "unoffered"}
    BY <2>1, PhaseOfNext DEF PhaseMeaning
  <2>3. QED
    BY <1>3, <1>4, <2>2
<1>7. CASE StoreTimeout(r)
  <2>1. store'[r] = "rejected"
    BY <1>7 DEF StoreTimeout, CacheInv, TypeOK
  <2>2. Phase(r)' = "refused"
    BY <2>1, PhaseOfNext DEF PhaseMeaning
  <2>3. QED
    BY <1>4, <2>2
<1>8. CASE StoreSend(r)
  <2>1. r \in Range(readings)'
    BY <1>8, RangeOfAppend DEF StoreSend, CacheInv, TypeOK
  <2>2. r \in InMemory' /\ r \notin Stored'
    BY <2>1 DEF InMemory, CacheInv, PlaceInv
  <2>3. Phase(r)' = "pending"
    BY <2>2, PhaseOfNext DEF PhaseMeaning
  <2>4. r \notin Invalid
    BY <1>8 DEF StoreSend, CacheInv, PlaceInv
  <2>5. QED
    BY <1>5, <2>3, <2>4
<1>9. QED
  BY <1>6, <1>7, <1>8

\* An attempt settles the rows it commits for the first time and, if it was
\* the last, the readings of the batch that still have no row.
LEMMA FlushRefines ==
    ASSUME CacheInv, CacheInv',
           NEW inserted \in SUBSET Range(batch), NEW failed \in SUBSET Range(batch),
           failed = {} => inserted = Range(batch),
           FlushOnce(inserted, failed)
    PROVE  [Abstract!Next]_Ph
<1> DEFINE durable == inserted \ Stored
           dropped == IF batch' = batch THEN {} ELSE Range(batch) \ Stored'
<1>1. /\ store' = store /\ readings' = readings
      /\ copies' = [r \in Readings |->
                       IF r \in inserted THEN copies[r] + 1 ELSE copies[r]]
      /\ batch' = batch \/ batch' = <<>>
  BY DEF FlushOnce, EndFlush
<1>2. Range(batch) \subseteq Readings
  BY RangeOfSeq DEF CacheInv, TypeOK
<1>3. Stored' = Stored \cup inserted
  BY <1>1, <1>2 DEF Stored, CacheInv, TypeOK
<1>4. Accepted' = Accepted
  BY <1>1 DEF Accepted
<1>5. /\ durable \subseteq InMemory \ Stored
      /\ dropped \subseteq (InMemory \ Stored) \ durable
      /\ dropped \cap Stored' = {}
      /\ durable \subseteq Readings /\ dropped \subseteq Readings
  BY <1>2, <1>3 DEF InMemory
<1>6. InMemory' \ Stored' = ((InMemory \ Stored) \ durable) \ dropped
  <2>1. CASE batch' = batch
    BY <1>1, <1>3, <2>1 DEF InMemory
  <2>2. CASE batch' = <<>> /\ batch' # batch
    <3>1. InMemory' = Range(readings) /\ Range(readings) \cap Range(batch) = {}
      BY <1>1, <2>2, RangeOfEmpty DEF InMemory, CacheInv, PlaceInv
    <3>2. dropped = Range(batch) \ Stored'
      BY <2>2
    <3>3. QED
      BY <1>3, <3>1, <3>2 DEF InMemory
  <2>3. QED
    BY <1>1, <2>1, <2>2
<1> HIDE DEF durable, dropped
<1>7. durable = Stored' \ Stored
  BY <1>3 DEF durable
<1>8. ASSUME NEW r \in Readings
      PROVE  Phase(r)' = CASE r \in durable -> "stored"
                           [] r \in dropped -> "lost"
                           [] OTHER -> Phase(r)
  <2>1. CASE r \in durable
    <3>1. r \notin dropped
      BY <1>5, <2>1
    <3>2. Phase(r)' = "stored"
      BY <1>7, <2>1, PhaseOfNext DEF PhaseMeaning
    <3>3. QED
      BY <2>1, <3>1, <3>2
  <2>2. CASE r \in dropped /\ r \notin durable
    <3>1. r \in InMemory \ Stored /\ r \notin Stored' /\ r \notin InMemory' \ Stored'
      BY <1>5, <1>6, <2>2
    <3>2. r \in Accepted
      BY <3>1 DEF CacheInv, PlaceInv
    <3>3. Phase(r)' = "lost"
      BY <1>4, <3>1, <3>2, PhaseOfNext DEF PhaseMeaning
    <3>4. QED
      BY <2>2, <3>3
  <2>3. CASE r \notin durable /\ r \notin dropped
    <3>1. /\ r \in Stored' <=> r \in Stored
          /\ r \in InMemory' \ Stored' <=> r \in InMemory \ Stored
          /\ store'[r] = store[r]
      BY <1>1, <1>3, <1>6, <1>7, <2>3
    <3>2. Phase(r)' = Phase(r)
      BY <1>4, <3>1, PhaseOf, PhaseOfNext DEF PhaseMeaning
    <3>3. QED
      BY <2>3, <3>2
  <2>4. QED
    BY <2>1, <2>2, <2>3
<1>9. Abstract!In("pending") = InMemory \ Stored
  <2>1. InMemory \subseteq Readings
    BY <1>2, RangeOfSeq DEF InMemory, CacheInv, TypeOK
  <2>2. QED
    BY <2>1, PhaseOf DEF PhaseMeaning, Abstract!In
<1>10. Abstract!Settle(durable, dropped)
  BY <1>5, <1>8, <1>9 DEF Abstract!Settle
<1>11. QED
  BY <1>5, <1>10 DEF Abstract!Next

\* A restart refuses the calls in progress and loses what is pending.
LEMMA RestartRefines ==
    ASSUME CacheInv, CacheInv',
           NEW calls \in [Readings -> StoreStates],
           \A r \in Readings :
             /\ calls[r] = store[r] \/ calls[r] \in {"rejected", "panicked"}
             /\ store[r] # "checked" => calls[r] = store[r]
             /\ calls[r] # "checked",
           Restart(calls)
    PROVE  [Abstract!Next]_Ph
<1> DEFINE interrupted == {r \in Readings : store[r] = "checked"}
<1>1. /\ InMemory' = {} /\ Stored' = Stored /\ store' = calls
  BY RangeOfEmpty DEF Restart, InMemory, Stored
<1>2. Accepted' = Accepted
  BY <1>1 DEF Accepted
<1>3. ASSUME NEW r \in Readings
      PROVE  Phase(r)' = CASE r \in interrupted -> "refused"
                           [] Phase(r) = "pending" -> "lost"
                           [] OTHER -> Phase(r)
  <2>1. CASE r \in interrupted
    <3>1. Phase(r) # "pending"
      BY <2>1, PhaseOf DEF PhaseMeaning
    <3>2. Phase(r)' = "refused"
      BY <1>1, <2>1, PhaseOfNext DEF PhaseMeaning
    <3>3. QED
      BY <2>1, <3>1, <3>2
  <2>2. CASE r \notin interrupted /\ Phase(r) = "pending"
    <3>1. r \in Accepted' \ (InMemory' \cup Stored')
      BY <1>1, <1>2, <2>2, PhaseOf DEF PhaseMeaning, CacheInv, PlaceInv
    <3>2. QED
      BY <2>2, <3>1, PhaseOfNext DEF PhaseMeaning
  <2>3. CASE r \notin interrupted /\ Phase(r) # "pending"
    <3>1. store'[r] = store[r] /\ r \notin InMemory \ Stored
      BY <1>1, <2>3, PhaseOf DEF PhaseMeaning
    <3>2. Phase(r)' = Phase(r)
      BY <1>1, <1>2, <3>1, PhaseOf, PhaseOfNext DEF PhaseMeaning
    <3>3. QED
      BY <2>3, <3>2
  <2>4. QED
    BY <2>1, <2>2, <2>3
<1>4. interrupted \subseteq Abstract!In("unoffered")
  BY PhaseOf DEF PhaseMeaning, Abstract!In
<1> HIDE DEF interrupted
<1>5. Abstract!Restart(interrupted)
  BY <1>3, <1>4 DEF Abstract!Restart
<1>6. interrupted \in SUBSET Readings
  BY DEF interrupted
<1>7. QED
  BY <1>5, <1>6 DEF Abstract!Next

\* Every behaviour of the cache is one of the abstract store: readings are
\* accepted once, only valid ones are stored, and a stored reading stays so.
THEOREM CacheRefinesStore == Spec => ImplementsReadingStore
<1>1. Init => Abstract!Init
  <2> SUFFICES ASSUME Init, NEW r \in Readings
               PROVE  Phase(r) = "unoffered"
    BY DEF Abstract!Init
  <2>1. r \notin InMemory
    BY RangeOfEmpty DEF Init, InMemory
  <2>2. QED
    BY <2>1 DEF Init, Phase
<1>2. CacheInv /\ CacheInv' /\ [Next]_vars => [Abstract!Next]_Ph
  <2> SUFFICES ASSUME CacheInv, CacheInv', [Next]_vars
               PROVE  [Abstract!Next]_Ph
    OBVIOUS
  <2>1. ASSUME NEW r \in Readings, StoreStep(r)
        PROVE  [Abstract!Next]_Ph
    <3>1. CASE StoreCheck(r) \/ StoreSend(r) \/ StoreTimeout(r)
      BY <3>1, StoreRefines
    <3>2. CASE StorePanic(r)
      <4>1. PICK calls \in [Readings -> StoreStates] :
              calls = [Interrupted EXCEPT ![r] = "panicked"]
        BY InterruptedCalls DEF CacheInv, StoreStates
      <4>2. \A x \in Readings :
              /\ calls[x] = store[x] \/ calls[x] \in {"rejected", "panicked"}
              /\ store[x] # "checked" => calls[x] = store[x]
              /\ calls[x] # "checked"
        BY <3>2, <4>1 DEF StorePanic, Interrupted
      <4>3. Restart(calls)
        BY <3>2, <4>1 DEF StorePanic
      <4>4. QED
        BY <4>2, <4>3, RestartRefines
    <3>3. QED
      BY <2>1, <3>1, <3>2 DEF StoreStep
  <2>2. CASE FlushCommits
    <3>1. PICK failed \in SUBSET Range(batch) : FlushOnce(Range(batch) \ failed, failed)
      BY <2>2 DEF FlushCommits
    <3>2. QED
      BY <3>1, FlushRefines
  <2>3. CASE FlushAborts
    <3>1. Range(batch) # {}
      BY <2>3, RangeOfSeq DEF FlushAborts, FlushOnce, CacheInv, WriterInv, TypeOK
    <3>2. FlushOnce({}, Range(batch))
      BY <2>3 DEF FlushAborts
    <3>3. QED
      BY <3>1, <3>2, FlushRefines
  <2>4. ASSUME NEW state \in {"select", "drain"}, Receive(state)
        PROVE  Ph' = Ph
    <3>1. /\ Head(readings) \in Readings
          /\ Range(readings) = {Head(readings)} \cup Range(readings')
      BY <2>4, RangeOfTail DEF Receive, CacheInv, TypeOK
    <3>2. Range(batch') = Range(batch) \cup {Head(readings)}
      BY <2>4, <3>1, RangeOfAppend DEF Receive, CacheInv, TypeOK
    <3>3. InMemory' = InMemory
      BY <3>1, <3>2 DEF InMemory
    <3>4. QED
      BY <2>4, <3>3, PhaseUnchanged DEF Receive
  <2>5. CASE Tick \/ ReceiveClose \/ DrainEmpty \/ (\E f \in Flushers : ReceiveFlush(f))
    <3>1. store' = store /\ copies' = copies /\ InMemory' = InMemory
      BY <2>5 DEF Tick, ReceiveClose, DrainEmpty, ReceiveFlush, InMemory
    <3>2. QED
      BY <3>1, PhaseUnchanged
  <2>6. CASE WriterStep
    BY <2>2, <2>3, <2>4, <2>5, <2>6 DEF WriterStep
  <2>7. CASE CloseStep \/ (\E f \in Flushers : FlushStep(f))
    <3>1. store' = store /\ copies' = copies /\ InMemory' = InMemory
      BY <2>7 DEF CloseStep, CloseMark, CloseSignalWriter, CloseFinish, FlushStep,
           FlushCall, FlushTimeout, memory, InMemory
    <3>2. QED
      BY <3>1, PhaseUnchanged
  <2>8. CASE ProcessRestart
    <3>1. PICK calls \in [Readings -> StoreStates] : calls = Interrupted
      BY InterruptedCalls DEF CacheInv
    <3>2. \A x \in Readings :
            /\ calls[x] = store[x] \/ calls[x] \in {"rejected", "panicked"}
            /\ store[x] # "checked" => calls[x] = store[x]
            /\ calls[x] # "checked"
      BY <3>1 DEF Interrupted
    <3>3. Restart(calls)
      BY <2>8, <3>1 DEF ProcessRestart
    <3>4. QED
      BY <3>2, <3>3, RestartRefines
  <2>9. CASE UNCHANGED vars
    <3>1. store' = store /\ copies' = copies /\ InMemory' = InMemory
      BY <2>9 DEF vars, memory, InMemory
    <3>2. QED
      BY <3>1, PhaseUnchanged
  <2>10. QED
    BY <2>1, <2>6, <2>7, <2>8, <2>9 DEF Next
<1>3. QED
  BY <1>1, <1>2, CacheInvariant, PTL DEF Spec, ImplementsReadingStore, Abstract!Spec, Ph


-----------------------------------------------------------------------------
(* The schema, and the catalogue.                                          *)

Rows == [id : Nat, tool : Nat, uii : STRING]

\* The rows are rows.
RowsOK ==
    /\ tags \subseteq Rows
    /\ flat \subseteq FlatTools
    /\ fetched \subseteq Items
    /\ vpsItems \subseteq Items

ToolsFirst ==
    /\ \A r \in tags : r.tool \in tools
    /\ refresh = "tags" => \A i \in fetched : i.tool \in tools

\* The version of the queue's table at each statement of NewSQLite.  A table of
\* the present version has no NULL; in one that was upgraded every row that
\* waits has one: of antenna_id if it waited before, which the UPDATE of
\* created_at does not change, and of created_at if it came since.
QueueOK ==
    /\ DOMAIN row = Confirmations
    /\ pc \in {"antenna_id", "created_at", "dates", "normalize", "empty texts", "running"}
         => queueTable # "none"
    /\ pc \in {"created_at", "dates", "normalize", "empty texts", "running"}
         => queueTable # "old"
    /\ pc \in {"dates", "normalize", "empty texts", "running"}
         => queueTable # "antenna_id"
    /\ queueTable \in {"none", "old", "antenna_id", "altered", "current"}
    /\ queueTable \in {"none", "current"} => noDate = {} /\ noAntenna = {}
    /\ queueTable \in {"old", "antenna_id"} \/ pc = "dates" => Queued \subseteq noAntenna
    /\ queueTable = "altered" => Queued \subseteq Unreadable

DatabaseInv == RowsOK /\ ToolsFirst /\ QueueOK

\* The steps of NewSQLite that change no row of the catalogue.
Prepares ==
    \/ Start \/ CreateTools \/ CreateTags \/ CreateQueue
    \/ AddAntennaID \/ AddCreatedAt \/ FillCreatedAt \/ Opened

-----------------------------------------------------------------------------
LEMMA UpdatedIsARow ==
    ASSUME RowsOK, ToolsFirst, refresh = "tags",
           NEW r \in tags, r.uii \in UIIs(fetched)
    PROVE  Updated(r) \in Rows /\ Updated(r).uii = r.uii /\ Updated(r).tool \in tools
<1> DEFINE i == CHOOSE i \in fetched : i.uii = r.uii
<1>1. i \in fetched
  BY DEF UIIs
<1>2. i \in Rows /\ i.tool \in tools /\ r \in Rows
  BY <1>1, DatabaseAssumption DEF RowsOK, ToolsFirst, Rows
<1> HIDE DEF i
<1>3. Updated(r) = [r EXCEPT !.tool = i.tool]
  BY DEF Updated, i
<1> QED  BY <1>2, <1>3 DEF Rows

LEMMA UpsertedRows ==
    ASSUME RowsOK, ToolsFirst, refresh = "tags"
    PROVE  /\ Upserted \subseteq Rows
           /\ \A r \in Upserted : r.tool \in tools
           /\ UIIs(tags) \subseteq UIIs(Upserted)
<1> DEFINE known == {r \in tags : r.uii \in UIIs(fetched)}
           new == {i \in fetched : i.uii \notin UIIs(tags)}
<1>1. Upserted = (tags \ known) \cup {Updated(r) : r \in known} \cup new
  BY DEF Upserted
<1>2. \A r \in known : Updated(r) \in Rows /\ Updated(r).uii = r.uii /\ Updated(r).tool \in tools
  BY UpdatedIsARow
<1>3. new \subseteq Rows /\ \A i \in new : i.tool \in tools
  BY DatabaseAssumption DEF RowsOK, ToolsFirst, Rows
<1>4. \A r \in tags : r \in Rows /\ r.tool \in tools
  BY DEF RowsOK, ToolsFirst
<1>5. ASSUME NEW r \in tags PROVE r.uii \in UIIs(Upserted)
  <2>1. CASE r \in known
    BY <1>1, <1>2, <2>1 DEF UIIs
  <2>2. CASE r \notin known
    BY <1>1, <2>2 DEF UIIs
  <2> QED  BY <2>1, <2>2
<1>6. UIIs(tags) \subseteq UIIs(Upserted)
  BY <1>5 DEF UIIs
<1> HIDE DEF known, new
<1> QED  BY <1>1, <1>2, <1>3, <1>4, <1>6 DEF known

LEMMA MigratedRows ==
    ASSUME RowsOK
    PROVE  /\ Migrated(flat) \subseteq Rows
           /\ \A r \in Migrated(flat) : r.tool \in {f.id : f \in flat}
           /\ UIIs(flat) \subseteq UIIs(Migrated(flat))
<1> DEFINE tag(f) == [id |-> f.id, tool |-> f.id, uii |-> f.uii]
<1>1. \A f \in flat : f.id \in Nat /\ f.uii \in STRING
  BY DatabaseAssumption DEF RowsOK
<1>2. Migrated(flat) = {tag(f) : f \in flat}
  BY DEF Migrated
<1>3. \A f \in flat : tag(f) \in Rows /\ tag(f).tool = f.id /\ tag(f).uii = f.uii
  BY <1>1 DEF Rows
<1> HIDE DEF tag
<1>4. UIIs(flat) \subseteq UIIs(Migrated(flat))
  <2> SUFFICES ASSUME NEW f \in flat PROVE f.uii \in UIIs(Migrated(flat))
    BY DEF UIIs
  <2>1. tag(f) \in Migrated(flat) /\ tag(f).uii = f.uii
    BY <1>2, <1>3
  <2> QED  BY <2>1 DEF UIIs
<1> QED  BY <1>2, <1>3, <1>4

-----------------------------------------------------------------------------
LEMMA DatabaseInitInv == DatabaseInit => DatabaseInv
BY DEF DatabaseInit, DatabaseInv, RowsOK, ToolsFirst, QueueOK, Queued

LEMMA PreparesRows ==
    ASSUME Prepares
    PROVE  /\ UNCHANGED <<catalogue, fetched, vpsItems, refresh>>
BY DEF Prepares, Start, CreateTools, CreateTags, CreateQueue, AddAntennaID,
       AddCreatedAt, FillCreatedAt, Opened, Opens, catalogue, syncing, vps

LEMMA PreparesQueue ==
    ASSUME QueueOK, Prepares
    PROVE  QueueOK'
<1>1. CASE Start
  BY <1>1 DEF Start, Opens, QueueOK, Queued, Unreadable, schema
<1>2. CASE CreateTools
  BY <1>2 DEF CreateTools, Opens, QueueOK, Queued, Unreadable
<1>3. CASE CreateTags
  BY <1>3 DEF CreateTags, Opens, QueueOK, Queued, Unreadable
<1>4. CASE CreateQueue
  BY <1>4 DEF CreateQueue, Opens, QueueOK, Queued, Unreadable
<1>5. CASE AddAntennaID
  BY <1>5 DEF AddAntennaID, Opens, QueueOK, Queued, Unreadable
<1>6. CASE AddCreatedAt
  BY <1>6 DEF AddCreatedAt, Opens, QueueOK, Queued, Unreadable
<1>7. CASE FillCreatedAt
  BY <1>7 DEF FillCreatedAt, Opens, QueueOK, Queued, Unreadable, schema
<1>8. CASE Opened
  BY <1>8 DEF Opened, Opens, QueueOK, Queued, Unreadable, schema
<1> QED  BY <1>1, <1>2, <1>3, <1>4, <1>5, <1>6, <1>7, <1>8 DEF Prepares

\* One transaction: the tools and the tags of a flat table together.
LEMMA NormalizeKeeps ==
    ASSUME DatabaseInv, Normalize
    PROVE  DatabaseInv'
<1>1. RowsOK'
  BY MigratedRows DEF DatabaseInv, RowsOK, Normalize, Opens, syncing, vps
<1>2. ToolsFirst'
  BY MigratedRows DEF DatabaseInv, ToolsFirst, Normalize, Opens, syncing
<1>3. QueueOK'
  BY DEF DatabaseInv, QueueOK, Queued, Unreadable, Normalize, Opens
<1> QED  BY <1>1, <1>2, <1>3 DEF DatabaseInv

LEMMA KillKeeps == ASSUME DatabaseInv, Kill PROVE DatabaseInv'
<1>1. RowsOK' /\ ToolsFirst'
  BY DEF DatabaseInv, RowsOK, ToolsFirst, Kill, catalogue, vps
<1>2. QueueOK'
  BY DEF DatabaseInv, QueueOK, Queued, Unreadable, Kill, schema, queue
<1> QED  BY <1>1, <1>2 DEF DatabaseInv

LEMMA ConfirmationKeeps ==
    ASSUME DatabaseInv, NEW c \in Confirmations, CreateConfirmation(c) \/ PerformFlush(c)
    PROVE  DatabaseInv'
<1>1. RowsOK' /\ ToolsFirst'
  BY DEF DatabaseInv, RowsOK, ToolsFirst, CreateConfirmation, PerformFlush,
         catalogue, syncing, vps
<1>2. DOMAIN row = Confirmations /\ pc = "running"
  BY DEF DatabaseInv, QueueOK, CreateConfirmation, PerformFlush
<1>3. CASE CreateConfirmation(c)
  <2>1. Queued' \subseteq Queued \cup {c}
    BY <1>2, <1>3 DEF CreateConfirmation, Queued
  <2>2. queueTable # "current" => Queued \cup {c} \subseteq noAntenna \cup noDate'
    BY <1>2, <1>3 DEF CreateConfirmation, DatabaseInv, QueueOK, Unreadable
  <2> QED
    BY <1>1, <1>2, <1>3, <2>1, <2>2 DEF CreateConfirmation, DatabaseInv, QueueOK, Unreadable, schema
<1>4. CASE PerformFlush(c)
  <2>1. Queued' \subseteq Queued
    BY <1>2, <1>4 DEF PerformFlush, Queued
  <2> QED  BY <1>1, <1>2, <1>4, <2>1 DEF DatabaseInv, QueueOK, PerformFlush, Unreadable, schema
<1> QED  BY <1>3, <1>4

\* Nothing of performSync touches the queue or how far NewSQLite is.
LEMMA SyncQueue ==
    ASSUME QueueOK, UNCHANGED <<schema, queue, pc>>
    PROVE  QueueOK'
  BY DEF QueueOK, Queued, Unreadable, schema, queue

LEMMA AnnounceKeeps == ASSUME DatabaseInv, Announce PROVE DatabaseInv'
<1>1. RowsOK' /\ ToolsFirst'
  BY DEF DatabaseInv, RowsOK, ToolsFirst, Announce, catalogue, syncing
<1>2. QueueOK'
  BY SyncQueue DEF DatabaseInv, Announce
<1> QED  BY <1>1, <1>2 DEF DatabaseInv

LEMMA FetchKeeps == ASSUME DatabaseInv, FetchSyncData \/ FetchUsers PROVE DatabaseInv'
<1>1. RowsOK' /\ ToolsFirst'
  BY DEF DatabaseInv, RowsOK, ToolsFirst, FetchSyncData, FetchUsers, catalogue, vps
<1>2. QueueOK'
  BY SyncQueue DEF DatabaseInv, FetchSyncData, FetchUsers
<1> QED  BY <1>1, <1>2 DEF DatabaseInv

\* The tools are written before the tags that name them.
LEMMA ToolsKeep == ASSUME DatabaseInv, UpsertToolsRecords PROVE DatabaseInv'
<1>1. RowsOK'
  BY DEF DatabaseInv, RowsOK, UpsertToolsRecords, Syncs, vps
<1>2. ToolsFirst'
  BY DEF DatabaseInv, ToolsFirst, UpsertToolsRecords, Syncs
<1>3. QueueOK'
  BY SyncQueue DEF DatabaseInv, UpsertToolsRecords, Syncs, schema
<1> QED  BY <1>1, <1>2, <1>3 DEF DatabaseInv

LEMMA TagsKeep == ASSUME DatabaseInv, UpsertToolTags PROVE DatabaseInv'
<1>1. QueueOK'
  BY SyncQueue DEF DatabaseInv, UpsertToolTags, Syncs, schema
<1>2. CASE UNCHANGED tags
  BY <1>1, <1>2 DEF DatabaseInv, RowsOK, ToolsFirst, UpsertToolTags, Syncs, vps
<1>3. CASE tags' = Upserted /\ Syncs("tags", "users")
  <2>1. refresh = "tags"
    BY <1>3 DEF Syncs
  <2>2. RowsOK'
    BY <1>3, <2>1, UpsertedRows DEF DatabaseInv, RowsOK, Syncs, vps
  <2>3. ToolsFirst'
    BY <1>3, <2>1, UpsertedRows DEF DatabaseInv, ToolsFirst, Syncs, UpsertToolTags
  <2> QED  BY <1>1, <2>2, <2>3 DEF DatabaseInv
<1> QED  BY <1>2, <1>3 DEF UpsertToolTags

LEMMA EndKeeps == ASSUME DatabaseInv, UpsertUsers \/ RefreshFails PROVE DatabaseInv'
<1>1. RowsOK' /\ ToolsFirst'
  BY DEF DatabaseInv, RowsOK, ToolsFirst, UpsertUsers, RefreshFails, Syncs, vps
<1>2. QueueOK'
  BY SyncQueue DEF DatabaseInv, UpsertUsers, RefreshFails, Syncs, schema
<1> QED  BY <1>1, <1>2 DEF DatabaseInv

LEMMA StepKeeps == DatabaseInv /\ [DatabaseNext]_databaseVars => DatabaseInv'
<1> SUFFICES ASSUME DatabaseInv, [DatabaseNext]_databaseVars PROVE DatabaseInv'
  OBVIOUS
<1>1. CASE Prepares
  BY <1>1, PreparesRows, PreparesQueue DEF DatabaseInv, RowsOK, ToolsFirst, catalogue
<1>2. CASE Normalize
  BY <1>2, NormalizeKeeps
<1>3. CASE Kill
  BY <1>3, KillKeeps
<1>4. CASE \E c \in Confirmations : CreateConfirmation(c) \/ PerformFlush(c)
  BY <1>4, ConfirmationKeeps
<1>5. CASE Announce
  BY <1>5, AnnounceKeeps
<1>6. CASE PerformSync
  BY <1>6, FetchKeeps, ToolsKeep, TagsKeep, EndKeeps DEF PerformSync
<1>7. CASE RefreshFails
  BY <1>7, EndKeeps
<1>8. CASE UNCHANGED databaseVars
  BY <1>8 DEF databaseVars, DatabaseInv, RowsOK, ToolsFirst, QueueOK, Queued, Unreadable,
              schema, catalogue, queue, syncing, vps
<1> QED
  BY <1>1, <1>2, <1>3, <1>4, <1>5, <1>6, <1>7, <1>8 DEF DatabaseNext, NewSQLite, Prepares

(* The invariant holds of every behaviour: rows, tools before tags, and at  *)
(* each statement of NewSQLite the version of the queue's table and which   *)
(* of its rows have a NULL.                                                 *)
THEOREM DatabaseInvariant == DatabaseSpec => []DatabaseInv
<1> QED  BY DatabaseInitInv, StepKeeps, PTL DEF DatabaseSpec

(* A tag is never without its tool, whichever transaction of a refresh or   *)
(* statement of NewSQLite was the last before the process ended.            *)
THEOREM DatabaseTagsHaveTools == DatabaseSpec => []TagsHaveTools
<1>1. DatabaseInv => TagsHaveTools
  BY DEF DatabaseInv, ToolsFirst, TagsHaveTools, GetToolByUII
<1> QED  BY <1>1, DatabaseInvariant, PTL

(* The LIMIT of the flush's query is never spent on rows it cannot read     *)
(* while it leaves out some that it could: a table of the present version   *)
(* has only rows that can be read, and an upgraded one none, whichever      *)
(* statement of NewSQLite was the last before the process ended.            *)
THEOREM DatabaseUnreadableHoldUpNone == DatabaseSpec => []UnreadableHoldUpNone
<1>1. DatabaseInv => UnreadableHoldUpNone
  <2> SUFFICES ASSUME DatabaseInv, pc = "running", NEW listed \in GetUnsyncedConfirmations
               PROVE  Cardinality(listed) = Smaller(Limit, Cardinality(Queued \ Unreadable))
    BY DEF UnreadableHoldUpNone
  <2>1. PICK rows \in Selections : listed = rows \ Unreadable
    BY DEF GetUnsyncedConfirmations
  <2>2. rows \subseteq Queued /\ Cardinality(rows) = Smaller(Limit, Cardinality(Queued))
    BY <2>1 DEF Selections
  <2>3. CASE queueTable = "current"
    <3>1. Unreadable = {}
      BY <2>3 DEF DatabaseInv, QueueOK, Unreadable
    <3>2. listed = rows /\ Queued \ Unreadable = Queued
      BY <2>1, <3>1
    <3> QED  BY <2>2, <3>2
  <2>4. CASE queueTable = "altered"
    <3>1. listed = {} /\ Queued \ Unreadable = {}
      BY <2>1, <2>2, <2>4 DEF DatabaseInv, QueueOK
    <3>2. Cardinality(listed) = 0 /\ Cardinality(Queued \ Unreadable) = 0
      BY <3>1, FS_EmptySet
    <3> QED  BY <3>2, DatabaseAssumption DEF Smaller
  <2> QED  BY <2>3, <2>4 DEF DatabaseInv, QueueOK
<1> QED  BY <1>1, DatabaseInvariant, PTL

-----------------------------------------------------------------------------
\* With every tag's tool there, what is known is what has a row.
LEMMA KnownRows == ASSUME ToolsFirst PROVE Known = UIIs(flat) \cup UIIs(tags)
  BY DEF ToolsFirst, Known, GetToolByUII, UIIs

LEMMA KnownGrows ==
    ASSUME DatabaseInv, [DatabaseNext]_databaseVars
    PROVE  UIIs(flat) \cup UIIs(tags) \subseteq UIIs(flat') \cup UIIs(tags')
<1>1. CASE UNCHANGED <<flat, tags>>
  BY <1>1
<1>2. CASE Normalize
  BY <1>2, MigratedRows DEF DatabaseInv, Normalize, UIIs
<1>3. CASE UpsertToolTags
  <2>1. flat' = flat
    BY <1>3 DEF UpsertToolTags, Syncs
  <2>2. CASE tags' = Upserted /\ refresh = "tags"
    BY <2>1, <2>2, UpsertedRows DEF DatabaseInv
  <2> QED  BY <1>1, <1>3, <2>1, <2>2 DEF UpsertToolTags, Syncs
<1>4. CASE Prepares
  BY <1>1, <1>4, PreparesRows DEF catalogue
<1>5. CASE Kill \/ Announce \/ RefreshFails
  BY <1>1, <1>5 DEF Kill, Announce, RefreshFails, Syncs, catalogue
<1>6. CASE \E c \in Confirmations : CreateConfirmation(c) \/ PerformFlush(c)
  BY <1>1, <1>6 DEF CreateConfirmation, PerformFlush, catalogue
<1>7. CASE FetchSyncData \/ FetchUsers \/ UpsertToolsRecords \/ UpsertUsers
  BY <1>1, <1>7 DEF FetchSyncData, FetchUsers, UpsertToolsRecords, UpsertUsers, Syncs, catalogue
<1>8. CASE UNCHANGED databaseVars
  BY <1>1, <1>8 DEF databaseVars, catalogue
<1> QED
  BY <1>2, <1>3, <1>4, <1>5, <1>6, <1>7, <1>8 DEF DatabaseNext, NewSQLite, Prepares, PerformSync

(* What the gateway knows it keeps knowing: a flat table is taken apart in  *)
(* one transaction, and a refresh updates the row of a UII and removes none.*)
THEOREM DatabaseKnownStaysKnown == DatabaseSpec => KnownStaysKnown
<1>1. ASSUME DatabaseInv, DatabaseInv', [DatabaseNext]_databaseVars
      PROVE  [Known \subseteq Known']_databaseVars
  <2>1. Known = UIIs(flat) \cup UIIs(tags)
    BY <1>1, KnownRows DEF DatabaseInv
  <2>2. Known' = UIIs(flat') \cup UIIs(tags')
    BY <1>1 DEF DatabaseInv, ToolsFirst, Known, GetToolByUII, UIIs
  <2> QED  BY <1>1, <2>1, <2>2, KnownGrows
<1> QED  BY <1>1, DatabaseInvariant, PTL DEF DatabaseSpec, KnownStaysKnown
=============================================================================
