---------------------------- MODULE ReadingStore ----------------------------
(***************************************************************************)
(* What the cache promises of a reading handed to Store, whatever its      *)
(* goroutines do: it is refused or accepted once; an accepted reading is   *)
(* pending until it is stored or lost, and both are final.  Readings are   *)
(* settled by the batch; a restart settles every call and every pending    *)
(* reading at once.  ReadingCache implements this specification.           *)
(***************************************************************************)
CONSTANTS Readings, Invalid

VARIABLE phase

Phases == {"unoffered", "refused", "pending", "stored", "lost"}

In(p) == {r \in Readings : phase[r] = p}

Init == phase = [r \in Readings |-> "unoffered"]

Refuse(r) ==
    /\ phase[r] = "unoffered"
    /\ phase' = [phase EXCEPT ![r] = "refused"]

Accept(r) ==
    /\ phase[r] = "unoffered"
    /\ r \notin Invalid
    /\ phase' = [phase EXCEPT ![r] = "pending"]

\* One attempt at a batch: some of it becomes durable, some of it is given up.
Settle(durable, dropped) ==
    /\ durable \subseteq In("pending")
    /\ dropped \subseteq In("pending") \ durable
    /\ phase' = [r \in Readings |-> CASE r \in durable -> "stored"
                                      [] r \in dropped -> "lost"
                                      [] OTHER -> phase[r]]

Restart(interrupted) ==
    /\ interrupted \subseteq In("unoffered")
    /\ phase' = [r \in Readings |-> CASE r \in interrupted -> "refused"
                                      [] phase[r] = "pending" -> "lost"
                                      [] OTHER -> phase[r]]

Next ==
    \/ \E r \in Readings : Refuse(r) \/ Accept(r)
    \/ \E durable, dropped \in SUBSET Readings : Settle(durable, dropped)
    \/ \E interrupted \in SUBSET Readings : Restart(interrupted)

Spec == Init /\ [][Next]_phase
=============================================================================
