---------------------------- MODULE AntennaProofs ----------------------------
(***************************************************************************)
(* Proofs about what is between the gateway and its antennas:              *)
(* AntennaSession and StreamFrames.                                        *)
(*                                                                         *)
(* For any number of sessions, of reconnection attempts and of calls of    *)
(* Stop, beside each other, the inductive invariant SessionsInv gives the  *)
(* safety properties of AntennaSession.                                    *)
(*                                                                         *)
(* For any layout of the two frames and any length of a connection, the    *)
(* frames are those of the bytes, however TCP cuts them.  The argument is  *)
(* by induction over the length of what is left to read: each of the two   *)
(* recursive extractors computes what one reads on paper, what is decided  *)
(* at a place does not change with more bytes, and so the reading of two   *)
(* pieces is that of the first and then of its rest with the second.       *)
(***************************************************************************)
EXTENDS AntennaSession, StreamFrames, WellFoundedInduction, FiniteSetTheorems,
        SequenceTheorems, TLAPS

-----------------------------------------------------------------------------
(* AntennaSession.  The inductive invariant: what holds of each session m, l     *)
(* apart.                                                                        *)

\* The generic protocol has no inventory commands and no session to stop.
GenericInv(m, l) ==
    protocol = "generic" =>
        /\ l.sent = <<>>
        /\ ~l.rf
        /\ m.monitor # "sending"
        /\ m.caller # "sending"

\* Who holds sessionStopOnce is about to write the stop command.
OnceInv(m) ==
    /\ m.once = "held" <=> m.monitor = "sending" \/ m.caller = "sending"
    /\ ~(m.monitor = "sending" /\ m.caller = "sending")

\* Before the start attempt has ended nothing was written; until stopSession
\* has ended, no stop command; then the start command had its stop tried.
CommandInv(m, l) ==
    /\ m.sender # "exited" => l.sent = <<>> /\ m.once # "done"
    /\ m.once # "done" => l.sent \in {<<>>, <<"start">>}
    /\ m.once = "done" =>
         /\ l.sent \in {<<>>, <<"start">>, <<"stop">>, <<"start", "stop">>}
         /\ l.sent = <<"start">> => l.failed
         /\ l.rf => l.failed \/ l.state # "up"
    /\ l.sent = <<>> => ~l.rf

\* Done is closed by one that has been through stopSession, and the loop
\* disconnects after Done.
DoneInv(m, l) ==
    /\ m.monitor \in {"closing", "exited"} => m.once = "done" \/ protocol = "generic"
    /\ m.caller \in {"closing", "returned"} => m.once = "done" \/ protocol = "generic"
    /\ m.done => m.monitor = "exited" \/ m.caller = "returned"
    /\ ~l.connected => m.done

SessionInv(m, l) == GenericInv(m, l) /\ OnceInv(m) /\ CommandInv(m, l) /\ DoneInv(m, l)

SessionsInv ==
    /\ TypeOK
    /\ \A s \in 1 .. session : SessionInv(manager[s], link[s])
    /\ OneConnection
    /\ loop = "serving" => session > 0

-----------------------------------------------------------------------------
(* One session moves to m2, l2; the others and the loop stay.              *)

WatchTypes ==
    /\ silence \in [1 .. session -> 0 .. 2]
    /\ count \in [1 .. session -> 0 .. MaxSilent]

LEMMA LocalStep ==
    ASSUME SessionsInv, NEW s \in 1 .. session, WatchTypes',
           NEW m2 \in Managers, NEW l2 \in Links,
           SessionInv(m2, l2),
           l2.connected = link[s].connected,
           manager' = [manager EXCEPT ![s] = m2],
           link' = [link EXCEPT ![s] = l2],
           UNCHANGED loopVars
    PROVE  SessionsInv'
<1> USE DEF SessionsInv, TypeOK, loopVars
<1>1. TypeOK'
  BY DEF WatchTypes
<1>2. ASSUME NEW t \in 1 .. session'
      PROVE  SessionInv(manager[t], link[t])'
  <2>1. CASE t = s
    BY <2>1 DEF SessionInv, GenericInv, OnceInv,
       CommandInv, DoneInv
  <2>2. CASE t # s
    BY <2>2 DEF SessionInv, GenericInv, OnceInv,
       CommandInv, DoneInv
  <2>3. QED
    BY <2>1, <2>2
<1>3. OneConnection'
  BY DEF OneConnection
<1>4. QED
  BY <1>1, <1>2, <1>3

LEMMA ManagerStep ==
    ASSUME SessionsInv, NEW s \in 1 .. session, WatchTypes', NEW m2 \in Managers,
           SessionInv(m2, link[s]),
           manager' = [manager EXCEPT ![s] = m2],
           UNCHANGED <<loopVars, link>>
    PROVE  SessionsInv'
<1>1. link[s] \in Links /\ link' = [link EXCEPT ![s] = link[s]]
  BY DEF SessionsInv, TypeOK
<1>2. QED
  BY <1>1, LocalStep

LEMMA SessionTypes ==
    ASSUME SessionsInv, NEW s \in 1 .. session
    PROVE  /\ manager[s] \in Managers
           /\ link[s] \in Links
           /\ SessionInv(manager[s], link[s])
           /\ protocol \in {"chainway", "generic"}
  BY DEF SessionsInv, TypeOK

\* A record of Managers stays one when a field takes a value of its type.
LEMMA ManagerFields ==
  \A m \in Managers :
         /\ \A x \in BOOLEAN :
              /\ [m EXCEPT !.cancelled = x] \in Managers
              /\ [m EXCEPT !.running = x] \in Managers
              /\ [m EXCEPT !.done = x] \in Managers
         /\ \A x \in {"waiting", "ready", "exited"} : [m EXCEPT !.sender = x] \in Managers
         /\ \A x \in {"ending", "exited"} : [m EXCEPT !.reader = x] \in Managers
         /\ [m EXCEPT !.watcher = "exited"] \in Managers
         /\ \A x \in {"stopping", "sending", "closing", "exited"} : [m EXCEPT !.monitor = x] \in Managers
         /\ \A x \in {"stopping", "sending", "closing", "returned"} : [m EXCEPT !.caller = x] \in Managers
         /\ \A x \in {"held", "done"} : [m EXCEPT !.once = x] \in Managers
<1> SUFFICES ASSUME NEW m \in Managers
             PROVE
         /\ \A x \in BOOLEAN :
              /\ [m EXCEPT !.cancelled = x] \in Managers
              /\ [m EXCEPT !.running = x] \in Managers
              /\ [m EXCEPT !.done = x] \in Managers
         /\ \A x \in {"waiting", "ready", "exited"} : [m EXCEPT !.sender = x] \in Managers
         /\ \A x \in {"ending", "exited"} : [m EXCEPT !.reader = x] \in Managers
         /\ [m EXCEPT !.watcher = "exited"] \in Managers
         /\ \A x \in {"stopping", "sending", "closing", "exited"} : [m EXCEPT !.monitor = x] \in Managers
         /\ \A x \in {"stopping", "sending", "closing", "returned"} : [m EXCEPT !.caller = x] \in Managers
         /\ \A x \in {"held", "done"} : [m EXCEPT !.once = x] \in Managers
  OBVIOUS
<1>1. \A x \in BOOLEAN : [m EXCEPT !.cancelled = x] \in Managers
  BY DEF Managers
<1>2. \A x \in BOOLEAN : [m EXCEPT !.running = x] \in Managers
  BY DEF Managers
<1>3. \A x \in BOOLEAN : [m EXCEPT !.done = x] \in Managers
  BY DEF Managers
<1>4. \A x \in {"waiting", "ready", "exited"} : [m EXCEPT !.sender = x] \in Managers
  BY DEF Managers
<1>5. \A x \in {"ending", "exited"} : [m EXCEPT !.reader = x] \in Managers
  BY DEF Managers
<1>6. [m EXCEPT !.watcher = "exited"] \in Managers
  BY DEF Managers
<1>7. \A x \in {"stopping", "sending", "closing", "exited"} : [m EXCEPT !.monitor = x] \in Managers
  BY DEF Managers
<1>8. \A x \in {"stopping", "sending", "closing", "returned"} : [m EXCEPT !.caller = x] \in Managers
  BY DEF Managers
<1>9. \A x \in {"held", "done"} : [m EXCEPT !.once = x] \in Managers
  BY DEF Managers
<1>10. QED
  BY <1>1, <1>2, <1>3, <1>4, <1>5, <1>6, <1>7, <1>8, <1>9

\* The first commands of a session.
LEMMA FirstCommands ==
    /\ Append(<<>>, "start") = <<"start">>
    /\ Append(<<>>, "stop") = <<"stop">>
    /\ Append(<<"start">>, "stop") = <<"start", "stop">>
    /\ <<>> \in Seq({"start", "stop"})
    /\ <<"start">> \in Seq({"start", "stop"})
    /\ <<"stop">> \in Seq({"start", "stop"})
    /\ <<"start", "stop">> \in Seq({"start", "stop"})
    /\ <<>> # <<"start">>
    /\ <<>> # <<"stop">>
    /\ <<>> # <<"start", "stop">>
    /\ <<"start">> # <<"stop">>
    /\ <<"start">> # <<"start", "stop">>
    /\ <<"stop">> # <<"start", "stop">>
<1>1. ASSUME NEW x
      PROVE  Append(<<>>, x) = <<x>>
  <2>1. <<>> \in Seq({x}) /\ Len(<<>>) = 0
    OBVIOUS
  <2>2. /\ Append(<<>>, x) \in Seq({x})
        /\ Len(Append(<<>>, x)) = 1
        /\ Append(<<>>, x)[1] = x
    BY <2>1, AppendProperties
  <2>3. PICK g \in Seq({x}) : g = Append(<<>>, x)
    BY <2>2
  <2>4. g \in Seq({x}) /\ Len(g) = 1 /\ g[1] = x
    BY <2>2, <2>3
  <2>5. g = <<x>>
    BY <2>4
  <2>6. QED
    BY <2>3, <2>5
<1>2. Append(<<"start">>, "stop") = <<"start", "stop">>
  <2>1. PICK f \in Seq({"start", "stop"}) : f = <<"start">>
    <3>1. <<"start">> \in Seq({"start", "stop"})
      OBVIOUS
    <3>2. QED
      BY <3>1
  <2>2. Len(f) = 1 /\ f[1] = "start"
    BY <2>1
  <2>3. /\ Append(f, "stop") \in Seq({"start", "stop"})
        /\ Len(Append(f, "stop")) = 2
        /\ Append(f, "stop")[1] = "start"
        /\ Append(f, "stop")[2] = "stop"
    <3>1. 1 \in 1 .. Len(f) /\ Len(f) + 1 = 2
      BY <2>2
    <3>2. "stop" \in {"start", "stop"}
      OBVIOUS
    <3>3. ASSUME NEW T, NEW x \in T, f \in Seq(T)
          PROVE  /\ Append(f, x) \in Seq(T)
                 /\ Len(Append(f, x)) = Len(f) + 1
                 /\ Append(f, x)[1] = f[1]
                 /\ Append(f, x)[Len(f) + 1] = x
      BY <3>1, <3>3, AppendProperties
    <3>4. QED
      BY <2>2, <3>1, <3>2, <3>3
  <2>4. PICK g \in Seq({"start", "stop"}) : g = Append(f, "stop")
    BY <2>3
  <2>5. g = <<"start", "stop">>
    <3>1. Len(g) = 2 /\ g[1] = "start" /\ g[2] = "stop"
      BY <2>3, <2>4
    <3>2. QED
      BY <3>1
  <2>6. QED
    BY <2>1, <2>4, <2>5
<1>3. /\ <<>> \in Seq({"start", "stop"})
      /\ <<"start">> \in Seq({"start", "stop"})
      /\ <<"stop">> \in Seq({"start", "stop"})
  OBVIOUS
<1>4. <<"start", "stop">> \in Seq({"start", "stop"})
  OBVIOUS
<1>5. /\ <<>> # <<"start">>
      /\ <<>> # <<"stop">>
      /\ <<>> # <<"start", "stop">>
      /\ <<"start">> # <<"stop">>
      /\ <<"start">> # <<"start", "stop">>
      /\ <<"stop">> # <<"start", "stop">>
  OBVIOUS
<1>6. QED
  BY <1>1, <1>2, <1>3, <1>4, <1>5

\* What writing an inventory command leaves of the link.
LEMMA StartWritten ==
    ASSUME NEW l \in Links, l.sent = <<>>
    PROVE  LET l2 == [l EXCEPT !.sent = Append(l.sent, "start"),
                                !.rf = IF l.state = "up" THEN TRUE ELSE l.rf]
           IN  /\ l2 \in Links
               /\ l2.sent = <<"start">>
               /\ l2.connected = l.connected
<1>1. <<"start">> = Append(l.sent, "start") /\ <<"start">> \in Seq({"start", "stop"})
  BY FirstCommands
<1>2. PICK rf2 \in BOOLEAN : rf2 = IF l.state = "up" THEN TRUE ELSE l.rf
  <2>1. l.rf \in BOOLEAN
    BY DEF Links
  <2>2. QED
    BY <2>1
<1>3. [l EXCEPT !.sent = <<"start">>, !.rf = rf2] \in Links
  BY <1>1, <1>2 DEF Links
<1>4. /\ [l EXCEPT !.sent = <<"start">>, !.rf = rf2].sent = <<"start">>
      /\ [l EXCEPT !.sent = <<"start">>, !.rf = rf2].connected = l.connected
  BY DEF Links
<1>5. QED
  BY <1>1, <1>2, <1>3, <1>4

LEMMA StopWritten ==
    ASSUME NEW l \in Links, l.sent \in {<<>>, <<"start">>}
    PROVE  LET l2 == [l EXCEPT !.sent = Append(l.sent, "stop"),
                                !.rf = IF l.state = "up" THEN FALSE ELSE l.rf]
           IN  /\ l2 \in Links
               /\ l2.sent \in {<<"stop">>, <<"start", "stop">>}
               /\ l2.connected = l.connected
               /\ l2.rf => l2.state # "up"
<1>1. PICK sent2 \in {<<"stop">>, <<"start", "stop">>} : sent2 = Append(l.sent, "stop")
  BY FirstCommands
<1>2. sent2 \in Seq({"start", "stop"})
  BY <1>1, FirstCommands
<1>3. PICK rf2 \in BOOLEAN : rf2 = IF l.state = "up" THEN FALSE ELSE l.rf
  <2>1. l.rf \in BOOLEAN
    BY DEF Links
  <2>2. QED
    BY <2>1
<1>4. [l EXCEPT !.sent = sent2, !.rf = rf2] \in Links
  BY <1>2, <1>3 DEF Links
<1>5. /\ [l EXCEPT !.sent = sent2, !.rf = rf2].sent = sent2
      /\ [l EXCEPT !.sent = sent2, !.rf = rf2].rf = rf2
      /\ [l EXCEPT !.sent = sent2, !.rf = rf2].connected = l.connected
      /\ [l EXCEPT !.sent = sent2, !.rf = rf2].state = l.state
  BY DEF Links
<1>6. QED
  BY <1>1, <1>3, <1>4, <1>5

LEMMA CheckStartStep ==
    ASSUME SessionsInv, NEW s \in 1 .. session, CheckStart(s)
    PROVE  SessionsInv'
<1>1. PICK m \in Managers, l \in Links :
        /\ m = manager[s]
        /\ l = link[s]
        /\ SessionInv(m, l)
  BY SessionTypes
<1>2. /\ m \in Managers
      /\ protocol \in {"chainway", "generic"}
      /\ WatchTypes'
  <2>1. WatchTypes'
    BY <1>1, AntennaSessionAssumption DEF SessionsInv, TypeOK, WatchTypes, loopVars, watchVars,
       CheckStart
  <2>2. QED
    BY <1>1, <2>1, SessionTypes
<1>3. ASSUME manager' = [manager EXCEPT ![s] = [m EXCEPT !.sender = "exited"]],
             UNCHANGED <<loopVars, link>>
      PROVE  SessionsInv'
  <2> DEFINE m2 == [m EXCEPT !.sender = "exited"]
  <2>1. m2 \in Managers
    BY <1>2, ManagerFields
  <2>3. SessionInv(m2, l)
    BY <1>1, <1>2, <1>3 DEF Managers, Links, SessionInv, GenericInv, OnceInv,
       CommandInv, DoneInv
  <2>4. /\ manager' = [manager EXCEPT ![s] = m2]
        /\ UNCHANGED <<loopVars, link>>
    BY <1>1, <1>3
  <2> HIDE DEF m2
  <2>5. QED
    BY <1>1, <1>2, <2>1, <2>3, <2>4, ManagerStep
<1>4. ASSUME m.sender = "waiting",
             manager' = [manager EXCEPT ![s] = [m EXCEPT !.sender = "ready"]],
             UNCHANGED <<loopVars, link>>
      PROVE  SessionsInv'
  <2> DEFINE m2 == [m EXCEPT !.sender = "ready"]
  <2>1. m2 \in Managers
    BY <1>2, ManagerFields
  <2>3. SessionInv(m2, l)
    BY <1>1, <1>2, <1>4 DEF Managers, Links, SessionInv, GenericInv, OnceInv,
       CommandInv, DoneInv
  <2>4. /\ manager' = [manager EXCEPT ![s] = m2]
        /\ UNCHANGED <<loopVars, link>>
    BY <1>1, <1>4
  <2> HIDE DEF m2
  <2>5. QED
    BY <1>1, <1>2, <2>1, <2>3, <2>4, ManagerStep
<1>5. QED
  BY <1>1, <1>2, <1>3, <1>4 DEF CheckStart

LEMMA StartInventoryStep ==
    ASSUME SessionsInv, NEW s \in 1 .. session, StartInventory(s)
    PROVE  SessionsInv'
<1>1. PICK m \in Managers, l \in Links :
        /\ m = manager[s]
        /\ l = link[s]
        /\ SessionInv(m, l)
  BY SessionTypes
<1>2. /\ m \in Managers
      /\ protocol \in {"chainway", "generic"}
      /\ WatchTypes'
  <2>1. WatchTypes'
    BY <1>1, AntennaSessionAssumption DEF SessionsInv, TypeOK, WatchTypes, loopVars, watchVars,
       StartInventory, Written, NotWritten
  <2>2. QED
    BY <1>1, <2>1, SessionTypes
<1>3. ASSUME m.sender = "ready", protocol = "chainway",
             manager' = [manager EXCEPT ![s] = [m EXCEPT !.sender = "exited"]],
             link' = [link EXCEPT ![s] = [l EXCEPT !.sent = Append(l.sent, "start"),
                                                      !.rf = IF l.state = "up" THEN TRUE ELSE l.rf]],
             UNCHANGED loopVars
      PROVE  SessionsInv'
  <2> DEFINE m2 == [m EXCEPT !.sender = "exited"]
  <2> DEFINE l2 == [l EXCEPT !.sent = Append(l.sent, "start"),
                              !.rf = IF l.state = "up" THEN TRUE ELSE l.rf]
  <2>1. m2 \in Managers
    BY <1>2, ManagerFields
  <2>2. l2 \in Links /\ l2.connected = link[s].connected /\ l2.sent = <<"start">>
    <3>1. l.sent = <<>>
      BY <1>1, <1>3 DEF SessionInv, CommandInv
    <3>2. QED
      BY <1>1, <3>1, StartWritten
  <2>3. SessionInv(m2, l2)
    <3>1. /\ m2.sender = "exited"
          /\ m2.once = m.once /\ m2.monitor = m.monitor /\ m2.caller = m.caller
          /\ m2.done = m.done
      BY <1>2 DEF Managers
    <3>2. m.once # "done"
      BY <1>1, <1>3 DEF SessionInv, CommandInv
    <3>3. l2.connected = l.connected
      BY <1>1, <2>2
    <3> HIDE DEF m2, l2
    <3>4. GenericInv(m2, l2)
      BY <1>3 DEF GenericInv
    <3>5. OnceInv(m2)
      BY <1>1, <3>1 DEF SessionInv, OnceInv
    <3>6. CommandInv(m2, l2)
      BY <2>2, <3>1, <3>2, FirstCommands DEF CommandInv
    <3>7. DoneInv(m2, l2)
      BY <1>1, <3>1, <3>3 DEF SessionInv, DoneInv
    <3>8. QED
      BY <3>4, <3>5, <3>6, <3>7 DEF SessionInv
  <2>4. /\ manager' = [manager EXCEPT ![s] = m2]
        /\ link' = [link EXCEPT ![s] = l2]
        /\ UNCHANGED loopVars
    BY <1>1, <1>3
  <2> HIDE DEF m2, l2
  <2>5. QED
    BY <1>1, <1>2, <2>1, <2>2, <2>3, <2>4, LocalStep
<1>4. ASSUME m.sender = "ready", protocol = "chainway",
             manager' = [manager EXCEPT ![s] = [m EXCEPT !.sender = "exited", !.cancelled = TRUE]],
             link' = [link EXCEPT ![s] = [l EXCEPT !.failed = TRUE]],
             UNCHANGED loopVars
      PROVE  SessionsInv'
  <2> DEFINE m2 == [m EXCEPT !.sender = "exited", !.cancelled = TRUE]
  <2> DEFINE l2 == [l EXCEPT !.failed = TRUE]
  <2>1. m2 \in Managers
    BY <1>2, ManagerFields
  <2>2. l2 \in Links /\ l2.connected = link[s].connected
    BY <1>1, <1>2, <1>4 DEF Links, SessionInv, GenericInv, OnceInv,
       CommandInv, DoneInv
  <2>3. SessionInv(m2, l2)
    BY <1>1, <1>2, <1>4 DEF Managers, Links, SessionInv, GenericInv, OnceInv,
       CommandInv, DoneInv
  <2>4. /\ manager' = [manager EXCEPT ![s] = m2]
        /\ link' = [link EXCEPT ![s] = l2]
        /\ UNCHANGED loopVars
    BY <1>1, <1>4
  <2> HIDE DEF m2, l2
  <2>5. QED
    BY <1>1, <1>2, <2>1, <2>2, <2>3, <2>4, LocalStep
<1>5. QED
  BY <1>1, <1>2, <1>3, <1>4 DEF StartInventory, Written, NotWritten

LEMMA PollStep ==
    ASSUME SessionsInv, NEW s \in 1 .. session, PollFails(s) \/ PollReturns(s)
    PROVE  SessionsInv'
<1>1. PICK m \in Managers, l \in Links :
        /\ m = manager[s]
        /\ l = link[s]
        /\ SessionInv(m, l)
  BY SessionTypes
<1>2. /\ m \in Managers
      /\ protocol \in {"chainway", "generic"}
      /\ WatchTypes'
  <2>1. WatchTypes'
    BY <1>1, AntennaSessionAssumption DEF SessionsInv, TypeOK, WatchTypes, loopVars, watchVars,
       PollFails, PollReturns, NotWritten
  <2>2. QED
    BY <1>1, <2>1, SessionTypes
<1>3. ASSUME manager' = [manager EXCEPT ![s] = [m EXCEPT !.sender = "exited"]],
             UNCHANGED <<loopVars, link>>
      PROVE  SessionsInv'
  <2> DEFINE m2 == [m EXCEPT !.sender = "exited"]
  <2>1. m2 \in Managers
    BY <1>2, ManagerFields
  <2>3. SessionInv(m2, l)
    BY <1>1, <1>2, <1>3 DEF Managers, Links, SessionInv, GenericInv, OnceInv,
       CommandInv, DoneInv
  <2>4. /\ manager' = [manager EXCEPT ![s] = m2]
        /\ UNCHANGED <<loopVars, link>>
    BY <1>1, <1>3
  <2> HIDE DEF m2
  <2>5. QED
    BY <1>1, <1>2, <2>1, <2>3, <2>4, ManagerStep
<1>4. ASSUME manager' = [manager EXCEPT ![s] = [m EXCEPT !.sender = "exited", !.cancelled = TRUE]],
             UNCHANGED <<loopVars, link>>
      PROVE  SessionsInv'
  <2> DEFINE m2 == [m EXCEPT !.sender = "exited", !.cancelled = TRUE]
  <2>1. m2 \in Managers
    BY <1>2, ManagerFields
  <2>3. SessionInv(m2, l)
    BY <1>1, <1>2, <1>4 DEF Managers, Links, SessionInv, GenericInv, OnceInv,
       CommandInv, DoneInv
  <2>4. /\ manager' = [manager EXCEPT ![s] = m2]
        /\ UNCHANGED <<loopVars, link>>
    BY <1>1, <1>4
  <2> HIDE DEF m2
  <2>5. QED
    BY <1>1, <1>2, <2>1, <2>3, <2>4, ManagerStep
<1>5. QED
  BY <1>1, <1>2, <1>3, <1>4 DEF PollFails, PollReturns, NotWritten

LEMMA ReaderReturnsStep ==
    ASSUME SessionsInv, NEW s \in 1 .. session, ReaderReturns(s)
    PROVE  SessionsInv'
<1>1. PICK m \in Managers, l \in Links :
        /\ m = manager[s]
        /\ l = link[s]
        /\ SessionInv(m, l)
  BY SessionTypes
<1>2. /\ m \in Managers
      /\ protocol \in {"chainway", "generic"}
      /\ WatchTypes'
  <2>1. WatchTypes'
    BY <1>1, AntennaSessionAssumption DEF SessionsInv, TypeOK, WatchTypes, loopVars, watchVars,
       ReaderReturns
  <2>2. QED
    BY <1>1, <2>1, SessionTypes
<1>3. ASSUME manager' = [manager EXCEPT ![s] = [m EXCEPT !.reader = IF protocol = "chainway" THEN "ending" ELSE "exited"]],
             UNCHANGED <<loopVars, link>>
      PROVE  SessionsInv'
  <2> DEFINE m2 == [m EXCEPT !.reader = IF protocol = "chainway" THEN "ending" ELSE "exited"]
  <2>1. m2 \in Managers
    BY <1>2, ManagerFields
  <2>3. SessionInv(m2, l)
    BY <1>1, <1>2, <1>3 DEF Managers, Links, SessionInv, GenericInv, OnceInv,
       CommandInv, DoneInv
  <2>4. /\ manager' = [manager EXCEPT ![s] = m2]
        /\ UNCHANGED <<loopVars, link>>
    BY <1>1, <1>3
  <2> HIDE DEF m2
  <2>5. QED
    BY <1>1, <1>2, <2>1, <2>3, <2>4, ManagerStep
<1>4. QED
  BY <1>1, <1>2, <1>3 DEF ReaderReturns

LEMMA ReaderCancelsStep ==
    ASSUME SessionsInv, NEW s \in 1 .. session, ReaderCancels(s)
    PROVE  SessionsInv'
<1>1. PICK m \in Managers, l \in Links :
        /\ m = manager[s]
        /\ l = link[s]
        /\ SessionInv(m, l)
  BY SessionTypes
<1>2. /\ m \in Managers
      /\ protocol \in {"chainway", "generic"}
      /\ WatchTypes'
  <2>1. WatchTypes'
    BY <1>1, AntennaSessionAssumption DEF SessionsInv, TypeOK, WatchTypes, loopVars, watchVars,
       ReaderCancels
  <2>2. QED
    BY <1>1, <2>1, SessionTypes
<1>3. ASSUME manager' = [manager EXCEPT ![s] = [m EXCEPT !.reader = "exited", !.cancelled = TRUE]],
             UNCHANGED <<loopVars, link>>
      PROVE  SessionsInv'
  <2> DEFINE m2 == [m EXCEPT !.reader = "exited", !.cancelled = TRUE]
  <2>1. m2 \in Managers
    BY <1>2, ManagerFields
  <2>3. SessionInv(m2, l)
    BY <1>1, <1>2, <1>3 DEF Managers, Links, SessionInv, GenericInv, OnceInv,
       CommandInv, DoneInv
  <2>4. /\ manager' = [manager EXCEPT ![s] = m2]
        /\ UNCHANGED <<loopVars, link>>
    BY <1>1, <1>3
  <2> HIDE DEF m2
  <2>5. QED
    BY <1>1, <1>2, <2>1, <2>3, <2>4, ManagerStep
<1>4. QED
  BY <1>1, <1>2, <1>3 DEF ReaderCancels

LEMMA WatcherReturnsStep ==
    ASSUME SessionsInv, NEW s \in 1 .. session, WatcherReturns(s)
    PROVE  SessionsInv'
<1>1. PICK m \in Managers, l \in Links :
        /\ m = manager[s]
        /\ l = link[s]
        /\ SessionInv(m, l)
  BY SessionTypes
<1>2. /\ m \in Managers
      /\ protocol \in {"chainway", "generic"}
      /\ WatchTypes'
  <2>1. WatchTypes'
    BY <1>1, AntennaSessionAssumption DEF SessionsInv, TypeOK, WatchTypes, loopVars, watchVars,
       WatcherReturns
  <2>2. QED
    BY <1>1, <2>1, SessionTypes
<1>3. ASSUME manager' = [manager EXCEPT ![s] = [m EXCEPT !.watcher = "exited"]],
             UNCHANGED <<loopVars, link>>
      PROVE  SessionsInv'
  <2> DEFINE m2 == [m EXCEPT !.watcher = "exited"]
  <2>1. m2 \in Managers
    BY <1>2, ManagerFields
  <2>3. SessionInv(m2, l)
    BY <1>1, <1>2, <1>3 DEF Managers, Links, SessionInv, GenericInv, OnceInv,
       CommandInv, DoneInv
  <2>4. /\ manager' = [manager EXCEPT ![s] = m2]
        /\ UNCHANGED <<loopVars, link>>
    BY <1>1, <1>3
  <2> HIDE DEF m2
  <2>5. QED
    BY <1>1, <1>2, <2>1, <2>3, <2>4, ManagerStep
<1>4. QED
  BY <1>1, <1>2, <1>3 DEF WatcherReturns

\* The watcher gives up, or only counts; data arrives; time passes.
LEMMA WatchStep ==
    ASSUME SessionsInv, NEW s \in 1 .. session,
           Receive(s) \/ WatchdogTick(s) \/ HeartbeatTick(s) \/ SilenceGrows(s)
    PROVE  SessionsInv'
<1>1. PICK m \in Managers, l \in Links :
        /\ m = manager[s]
        /\ l = link[s]
        /\ SessionInv(m, l)
  BY SessionTypes
<1>2. link' = link /\ UNCHANGED loopVars
  BY DEF Receive, WatchdogTick, HeartbeatTick, SilenceGrows, Written, NotWritten, loopVars
<1>3. WatchTypes'
  <2> USE AntennaSessionAssumption DEF SessionsInv, TypeOK, WatchTypes, loopVars, watchVars
  <2>1. CASE Receive(s)
    BY <2>1 DEF Receive
  <2>2. ASSUME NEW n \in 0 .. MaxSilent, Counts(s, n)
        PROVE  WatchTypes'
    BY <1>2, <2>2 DEF Counts
  <2>3. ASSUME UNCHANGED watchVars
        PROVE  WatchTypes'
    BY <1>2, <2>3
  <2>4. count[s] \in 0 .. MaxSilent /\ 0 \in 0 .. MaxSilent /\ 1 \in 0 .. MaxSilent
    OBVIOUS
  <2>5. CASE WatchdogTick(s)
    <3>1. Counts(s, 1) \/ UNCHANGED watchVars
      BY <2>5 DEF WatchdogTick, GiveUp
    <3>2. QED
      BY <3>1, <2>2, <2>3, <2>4
  <2>6. CASE HeartbeatTick(s)
    <3>1. PICK c \in 0 .. MaxSilent : c = count[s]
      BY <2>4
    <3>2. \/ Counts(s, 0)
          \/ ~(c + 1 >= MaxSilent) /\ Counts(s, c + 1)
          \/ UNCHANGED watchVars
      BY <2>6, <3>1 DEF HeartbeatTick, GiveUp
    <3>3. CASE ~(c + 1 >= MaxSilent) /\ Counts(s, c + 1)
      <4>1. c + 1 \in 0 .. MaxSilent
        BY <3>3
      <4>2. QED
        BY <3>3, <4>1, <2>2
    <3>4. CASE Counts(s, 0)
      BY <3>4, <2>2, <2>4
    <3>5. CASE UNCHANGED watchVars
      BY <3>5, <2>3
    <3> HIDE DEF WatchTypes, watchVars
    <3>6. QED
      BY <3>2, <3>3, <3>4, <3>5
  <2>7. CASE SilenceGrows(s)
    <3>1. PICK k \in 0 .. 2 : k = silence[s]
      OBVIOUS
    <3>2. k + 1 \in 0 .. 2
      BY <2>7, <3>1 DEF SilenceGrows
    <3>3. silence' = [silence EXCEPT ![s] = k + 1] /\ count' = count
      BY <2>7, <3>1 DEF SilenceGrows
    <3>4. QED
      BY <1>2, <3>2, <3>3
  <2>8. QED
    BY <2>1, <2>5, <2>6, <2>7
<1>4. \/ manager' = manager
      \/ manager' = [manager EXCEPT ![s] = [m EXCEPT !.watcher = "exited", !.cancelled = TRUE]]
  BY <1>1 DEF Receive, WatchdogTick, HeartbeatTick, SilenceGrows, GiveUp, Counts
<1>5. ASSUME manager' = manager
      PROVE  SessionsInv'
  <2>1. manager' = [manager EXCEPT ![s] = m]
    BY <1>1, <1>5 DEF SessionsInv, TypeOK
  <2>2. QED
    BY <1>1, <1>2, <1>3, <2>1, ManagerStep
<1>6. ASSUME manager' = [manager EXCEPT ![s] = [m EXCEPT !.watcher = "exited", !.cancelled = TRUE]]
      PROVE  SessionsInv'
  <2> DEFINE m2 == [m EXCEPT !.watcher = "exited", !.cancelled = TRUE]
  <2>1. m2 \in Managers
    BY <1>1, ManagerFields
  <2>2. SessionInv(m2, l)
    BY <1>1 DEF Managers, SessionInv, GenericInv, OnceInv,
       CommandInv, DoneInv
  <2>3. manager' = [manager EXCEPT ![s] = m2]
    BY <1>6
  <2> HIDE DEF m2
  <2>4. QED
    BY <1>1, <1>2, <1>3, <2>1, <2>2, <2>3, ManagerStep
<1>7. QED
  BY <1>4, <1>5, <1>6

LEMMA MonitorWakesStep ==
    ASSUME SessionsInv, NEW s \in 1 .. session, MonitorWakes(s)
    PROVE  SessionsInv'
<1>1. PICK m \in Managers, l \in Links :
        /\ m = manager[s]
        /\ l = link[s]
        /\ SessionInv(m, l)
  BY SessionTypes
<1>2. /\ m \in Managers
      /\ protocol \in {"chainway", "generic"}
      /\ WatchTypes'
  <2>1. WatchTypes'
    BY <1>1, AntennaSessionAssumption DEF SessionsInv, TypeOK, WatchTypes, loopVars, watchVars,
       MonitorWakes
  <2>2. QED
    BY <1>1, <2>1, SessionTypes
<1>3. ASSUME NEW c \in BOOLEAN, m.monitor = "watching",
             manager' = [manager EXCEPT ![s] = [m EXCEPT !.monitor = "stopping", !.running = FALSE, !.cancelled = c]],
             UNCHANGED <<loopVars, link>>
      PROVE  SessionsInv'
  <2> DEFINE m2 == [m EXCEPT !.monitor = "stopping", !.running = FALSE, !.cancelled = c]
  <2>1. m2 \in Managers
    BY <1>2, <1>3, ManagerFields
  <2>3. SessionInv(m2, l)
    BY <1>1, <1>2, <1>3 DEF Managers, Links, SessionInv, GenericInv, OnceInv,
       CommandInv, DoneInv
  <2>4. /\ manager' = [manager EXCEPT ![s] = m2]
        /\ UNCHANGED <<loopVars, link>>
    BY <1>1, <1>3
  <2> HIDE DEF m2
  <2>5. QED
    BY <1>1, <1>2, <2>1, <2>3, <2>4, ManagerStep
<1>4. ASSUME m.monitor = "watching",
             manager' = [manager EXCEPT ![s] = [m EXCEPT !.monitor = "stopping"]],
             UNCHANGED <<loopVars, link>>
      PROVE  SessionsInv'
  <2> DEFINE m2 == [m EXCEPT !.monitor = "stopping"]
  <2>1. m2 \in Managers
    BY <1>2, ManagerFields
  <2>3. SessionInv(m2, l)
    BY <1>1, <1>2, <1>4 DEF Managers, Links, SessionInv, GenericInv, OnceInv,
       CommandInv, DoneInv
  <2>4. /\ manager' = [manager EXCEPT ![s] = m2]
        /\ UNCHANGED <<loopVars, link>>
    BY <1>1, <1>4
  <2> HIDE DEF m2
  <2>5. QED
    BY <1>1, <1>2, <2>1, <2>3, <2>4, ManagerStep
<1>5. (m.cancelled \/ m.running) \in BOOLEAN
  OBVIOUS
<1>6. QED
  BY <1>1, <1>3, <1>4, <1>5 DEF MonitorWakes

LEMMA StopCallStep ==
    ASSUME SessionsInv, NEW s \in 1 .. session, StopCall(s)
    PROVE  SessionsInv'
<1>1. PICK m \in Managers, l \in Links :
        /\ m = manager[s]
        /\ l = link[s]
        /\ SessionInv(m, l)
  BY SessionTypes
<1>2. /\ m \in Managers
      /\ protocol \in {"chainway", "generic"}
      /\ WatchTypes'
  <2>1. WatchTypes'
    BY <1>1, AntennaSessionAssumption DEF SessionsInv, TypeOK, WatchTypes, loopVars, watchVars,
       StopCall
  <2>2. QED
    BY <1>1, <2>1, SessionTypes
<1>3. ASSUME m.caller = "none",
             manager' = [manager EXCEPT ![s] = [m EXCEPT !.caller = "stopping", !.running = FALSE, !.cancelled = TRUE]],
             UNCHANGED <<loopVars, link>>
      PROVE  SessionsInv'
  <2> DEFINE m2 == [m EXCEPT !.caller = "stopping", !.running = FALSE, !.cancelled = TRUE]
  <2>1. m2 \in Managers
    BY <1>2, ManagerFields
  <2>3. SessionInv(m2, l)
    BY <1>1, <1>2, <1>3 DEF Managers, Links, SessionInv, GenericInv, OnceInv,
       CommandInv, DoneInv
  <2>4. /\ manager' = [manager EXCEPT ![s] = m2]
        /\ UNCHANGED <<loopVars, link>>
    BY <1>1, <1>3
  <2> HIDE DEF m2
  <2>5. QED
    BY <1>1, <1>2, <2>1, <2>3, <2>4, ManagerStep
<1>4. QED
  BY <1>1, <1>2, <1>3 DEF StopCall

LEMMA LinkBreaksStep ==
    ASSUME SessionsInv, NEW s \in 1 .. session, LinkBreaks(s)
    PROVE  SessionsInv'
<1>1. PICK m \in Managers, l \in Links :
        /\ m = manager[s]
        /\ l = link[s]
        /\ SessionInv(m, l)
  BY SessionTypes
<1>2. PICK state \in {"closed", "silent"} :
        /\ link' = [link EXCEPT ![s] = [l EXCEPT !.state = state]]
        /\ UNCHANGED <<loopVars, manager>>
  BY <1>1 DEF LinkBreaks
<1> DEFINE l2 == [l EXCEPT !.state = state]
<1>3. l2 \in Links /\ l2.connected = link[s].connected
  BY <1>1 DEF Links
<1>4. SessionInv(m, l2)
  BY <1>1 DEF Managers, Links, SessionInv, GenericInv, OnceInv, CommandInv, DoneInv
<1>5. manager' = [manager EXCEPT ![s] = m] /\ link' = [link EXCEPT ![s] = l2] /\ UNCHANGED loopVars
  BY <1>1, <1>2 DEF SessionsInv, TypeOK
<1> HIDE DEF l2
<1>6. WatchTypes'
  BY <1>2, AntennaSessionAssumption DEF SessionsInv, TypeOK, WatchTypes, loopVars, watchVars, LinkBreaks
<1>7. QED
  BY <1>1, <1>3, <1>4, <1>5, <1>6, LocalStep

\* stopSession by the monitor.
LEMMA MonitorEntersStep ==
    ASSUME SessionsInv, NEW s \in 1 .. session, EnterStopSession(s, "monitor")
    PROVE  SessionsInv'
<1>1. PICK m \in Managers, l \in Links :
        /\ m = manager[s]
        /\ l = link[s]
        /\ SessionInv(m, l)
  BY SessionTypes
<1>2. /\ m \in Managers
      /\ protocol \in {"chainway", "generic"}
      /\ WatchTypes'
  <2>1. WatchTypes'
    BY <1>1, AntennaSessionAssumption DEF SessionsInv, TypeOK, WatchTypes, loopVars, watchVars,
       EnterStopSession
  <2>2. QED
    BY <1>1, <2>1, SessionTypes
<1>3. ASSUME m.monitor = "stopping", protocol = "generic" \/ m.once = "done",
             manager' = [manager EXCEPT ![s] = [m EXCEPT !.monitor = "closing"]],
             UNCHANGED <<loopVars, link>>
      PROVE  SessionsInv'
  <2> DEFINE m2 == [m EXCEPT !.monitor = "closing"]
  <2>1. m2 \in Managers
    BY <1>2, ManagerFields
  <2>3. SessionInv(m2, l)
    BY <1>1, <1>2, <1>3 DEF Managers, Links, SessionInv, GenericInv, OnceInv,
       CommandInv, DoneInv
  <2>4. /\ manager' = [manager EXCEPT ![s] = m2]
        /\ UNCHANGED <<loopVars, link>>
    BY <1>1, <1>3
  <2> HIDE DEF m2
  <2>5. QED
    BY <1>1, <1>2, <2>1, <2>3, <2>4, ManagerStep
<1>4. ASSUME m.monitor = "stopping", protocol = "chainway", m.once = "free",
             manager' = [manager EXCEPT ![s] = [m EXCEPT !.monitor = "sending", !.once = "held"]],
             UNCHANGED <<loopVars, link>>
      PROVE  SessionsInv'
  <2> DEFINE m2 == [m EXCEPT !.monitor = "sending", !.once = "held"]
  <2>1. m2 \in Managers
    BY <1>2, ManagerFields
  <2>3. SessionInv(m2, l)
    BY <1>1, <1>2, <1>4 DEF Managers, Links, SessionInv, GenericInv, OnceInv,
       CommandInv, DoneInv
  <2>4. /\ manager' = [manager EXCEPT ![s] = m2]
        /\ UNCHANGED <<loopVars, link>>
    BY <1>1, <1>4
  <2> HIDE DEF m2
  <2>5. QED
    BY <1>1, <1>2, <2>1, <2>3, <2>4, ManagerStep
<1>5. QED
  BY <1>1, <1>2, <1>3, <1>4 DEF EnterStopSession

LEMMA MonitorStopsStep ==
    ASSUME SessionsInv, NEW s \in 1 .. session, StopInventory(s, "monitor")
    PROVE  SessionsInv'
<1>1. PICK m \in Managers, l \in Links :
        /\ m = manager[s]
        /\ l = link[s]
        /\ SessionInv(m, l)
  BY SessionTypes
<1>2. /\ m \in Managers
      /\ protocol \in {"chainway", "generic"}
      /\ WatchTypes'
  <2>1. WatchTypes'
    BY <1>1, AntennaSessionAssumption DEF SessionsInv, TypeOK, WatchTypes, loopVars, watchVars,
       StopInventory, Written, NotWritten
  <2>2. QED
    BY <1>1, <2>1, SessionTypes
<1>3. ASSUME m.monitor = "sending", m.sender = "exited",
             manager' = [manager EXCEPT ![s] = [m EXCEPT !.monitor = "closing", !.once = "done"]],
             link' = [link EXCEPT ![s] = [l EXCEPT !.sent = Append(l.sent, "stop"),
                                                      !.rf = IF l.state = "up" THEN FALSE ELSE l.rf]],
             UNCHANGED loopVars
      PROVE  SessionsInv'
  <2> DEFINE m2 == [m EXCEPT !.monitor = "closing", !.once = "done"]
  <2> DEFINE l2 == [l EXCEPT !.sent = Append(l.sent, "stop"),
                              !.rf = IF l.state = "up" THEN FALSE ELSE l.rf]
  <2>1. m2 \in Managers
    BY <1>2, ManagerFields
  <2>2. /\ l2 \in Links
        /\ l2.connected = link[s].connected
        /\ l2.sent \in {<<"stop">>, <<"start", "stop">>}
        /\ l2.rf => l2.state # "up"
    <3>1. m.once = "held"
      BY <1>1, <1>3 DEF SessionInv, OnceInv
    <3>2. l.sent \in {<<>>, <<"start">>}
      BY <1>1, <3>1 DEF SessionInv, CommandInv
    <3>3. QED
      BY <1>1, <3>2, StopWritten
  <2>3. SessionInv(m2, l2)
    <3>1. /\ m2.sender = "exited" /\ m2.once = "done" /\ m2.monitor = "closing"
          /\ m2.caller = m.caller /\ m2.done = m.done
      BY <1>2, <1>3 DEF Managers
    <3>2. m.caller # "sending" /\ protocol # "generic"
      BY <1>1, <1>3 DEF SessionInv, OnceInv, GenericInv
    <3>3. l2.connected = l.connected
      BY <1>1, <2>2
    <3> HIDE DEF m2, l2
    <3>4. GenericInv(m2, l2)
      BY <3>2 DEF GenericInv
    <3>5. OnceInv(m2)
      BY <3>1, <3>2 DEF OnceInv
    <3>6. CommandInv(m2, l2)
      BY <2>2, <3>1, FirstCommands DEF CommandInv
    <3>7. DoneInv(m2, l2)
      BY <1>1, <1>3, <3>1, <3>3 DEF SessionInv, DoneInv
    <3>8. QED
      BY <3>4, <3>5, <3>6, <3>7 DEF SessionInv
  <2>4. /\ manager' = [manager EXCEPT ![s] = m2]
        /\ link' = [link EXCEPT ![s] = l2]
        /\ UNCHANGED loopVars
    BY <1>1, <1>3
  <2> HIDE DEF m2, l2
  <2>5. QED
    BY <1>1, <1>2, <2>1, <2>2, <2>3, <2>4, LocalStep
<1>4. ASSUME m.monitor = "sending", m.sender = "exited",
             manager' = [manager EXCEPT ![s] = [m EXCEPT !.monitor = "closing", !.once = "done"]],
             link' = [link EXCEPT ![s] = [l EXCEPT !.failed = TRUE]],
             UNCHANGED loopVars
      PROVE  SessionsInv'
  <2> DEFINE m2 == [m EXCEPT !.monitor = "closing", !.once = "done"]
  <2> DEFINE l2 == [l EXCEPT !.failed = TRUE]
  <2>1. m2 \in Managers
    BY <1>2, ManagerFields
  <2>2. l2 \in Links /\ l2.connected = link[s].connected
    BY <1>1, <1>2, <1>4, FirstCommands DEF Links, SessionInv, GenericInv, OnceInv,
       CommandInv, DoneInv
  <2>3. SessionInv(m2, l2)
    BY <1>1, <1>2, <1>4, FirstCommands DEF Managers, Links, SessionInv, GenericInv, OnceInv,
       CommandInv, DoneInv
  <2>4. /\ manager' = [manager EXCEPT ![s] = m2]
        /\ link' = [link EXCEPT ![s] = l2]
        /\ UNCHANGED loopVars
    BY <1>1, <1>4
  <2> HIDE DEF m2, l2
  <2>5. QED
    BY <1>1, <1>2, <2>1, <2>2, <2>3, <2>4, LocalStep
<1>5. QED
  BY <1>1, <1>2, <1>3, <1>4 DEF StopInventory, Written, NotWritten

LEMMA MonitorClosesStep ==
    ASSUME SessionsInv, NEW s \in 1 .. session, CloseDone(s, "monitor", "exited")
    PROVE  SessionsInv'
<1>1. PICK m \in Managers, l \in Links :
        /\ m = manager[s]
        /\ l = link[s]
        /\ SessionInv(m, l)
  BY SessionTypes
<1>2. /\ m \in Managers
      /\ protocol \in {"chainway", "generic"}
      /\ WatchTypes'
  <2>1. WatchTypes'
    BY <1>1, AntennaSessionAssumption DEF SessionsInv, TypeOK, WatchTypes, loopVars, watchVars,
       CloseDone
  <2>2. QED
    BY <1>1, <2>1, SessionTypes
<1>3. ASSUME m.monitor = "closing",
             manager' = [manager EXCEPT ![s] = [m EXCEPT !.monitor = "exited", !.done = TRUE]],
             UNCHANGED <<loopVars, link>>
      PROVE  SessionsInv'
  <2> DEFINE m2 == [m EXCEPT !.monitor = "exited", !.done = TRUE]
  <2>1. m2 \in Managers
    BY <1>2, ManagerFields
  <2>3. SessionInv(m2, l)
    BY <1>1, <1>2, <1>3 DEF Managers, Links, SessionInv, GenericInv, OnceInv,
       CommandInv, DoneInv
  <2>4. /\ manager' = [manager EXCEPT ![s] = m2]
        /\ UNCHANGED <<loopVars, link>>
    BY <1>1, <1>3
  <2> HIDE DEF m2
  <2>5. QED
    BY <1>1, <1>2, <2>1, <2>3, <2>4, ManagerStep
<1>4. QED
  BY <1>1, <1>2, <1>3 DEF CloseDone

\* stopSession by a caller of Stop.
LEMMA CallerEntersStep ==
    ASSUME SessionsInv, NEW s \in 1 .. session, EnterStopSession(s, "caller")
    PROVE  SessionsInv'
<1>1. PICK m \in Managers, l \in Links :
        /\ m = manager[s]
        /\ l = link[s]
        /\ SessionInv(m, l)
  BY SessionTypes
<1>2. /\ m \in Managers
      /\ protocol \in {"chainway", "generic"}
      /\ WatchTypes'
  <2>1. WatchTypes'
    BY <1>1, AntennaSessionAssumption DEF SessionsInv, TypeOK, WatchTypes, loopVars, watchVars,
       EnterStopSession
  <2>2. QED
    BY <1>1, <2>1, SessionTypes
<1>3. ASSUME m.caller = "stopping", protocol = "generic" \/ m.once = "done",
             manager' = [manager EXCEPT ![s] = [m EXCEPT !.caller = "closing"]],
             UNCHANGED <<loopVars, link>>
      PROVE  SessionsInv'
  <2> DEFINE m2 == [m EXCEPT !.caller = "closing"]
  <2>1. m2 \in Managers
    BY <1>2, ManagerFields
  <2>3. SessionInv(m2, l)
    BY <1>1, <1>2, <1>3 DEF Managers, Links, SessionInv, GenericInv, OnceInv,
       CommandInv, DoneInv
  <2>4. /\ manager' = [manager EXCEPT ![s] = m2]
        /\ UNCHANGED <<loopVars, link>>
    BY <1>1, <1>3
  <2> HIDE DEF m2
  <2>5. QED
    BY <1>1, <1>2, <2>1, <2>3, <2>4, ManagerStep
<1>4. ASSUME m.caller = "stopping", protocol = "chainway", m.once = "free",
             manager' = [manager EXCEPT ![s] = [m EXCEPT !.caller = "sending", !.once = "held"]],
             UNCHANGED <<loopVars, link>>
      PROVE  SessionsInv'
  <2> DEFINE m2 == [m EXCEPT !.caller = "sending", !.once = "held"]
  <2>1. m2 \in Managers
    BY <1>2, ManagerFields
  <2>3. SessionInv(m2, l)
    BY <1>1, <1>2, <1>4 DEF Managers, Links, SessionInv, GenericInv, OnceInv,
       CommandInv, DoneInv
  <2>4. /\ manager' = [manager EXCEPT ![s] = m2]
        /\ UNCHANGED <<loopVars, link>>
    BY <1>1, <1>4
  <2> HIDE DEF m2
  <2>5. QED
    BY <1>1, <1>2, <2>1, <2>3, <2>4, ManagerStep
<1>5. QED
  BY <1>1, <1>2, <1>3, <1>4 DEF EnterStopSession

LEMMA CallerStopsStep ==
    ASSUME SessionsInv, NEW s \in 1 .. session, StopInventory(s, "caller")
    PROVE  SessionsInv'
<1>1. PICK m \in Managers, l \in Links :
        /\ m = manager[s]
        /\ l = link[s]
        /\ SessionInv(m, l)
  BY SessionTypes
<1>2. /\ m \in Managers
      /\ protocol \in {"chainway", "generic"}
      /\ WatchTypes'
  <2>1. WatchTypes'
    BY <1>1, AntennaSessionAssumption DEF SessionsInv, TypeOK, WatchTypes, loopVars, watchVars,
       StopInventory, Written, NotWritten
  <2>2. QED
    BY <1>1, <2>1, SessionTypes
<1>3. ASSUME m.caller = "sending", m.sender = "exited",
             manager' = [manager EXCEPT ![s] = [m EXCEPT !.caller = "closing", !.once = "done"]],
             link' = [link EXCEPT ![s] = [l EXCEPT !.sent = Append(l.sent, "stop"),
                                                      !.rf = IF l.state = "up" THEN FALSE ELSE l.rf]],
             UNCHANGED loopVars
      PROVE  SessionsInv'
  <2> DEFINE m2 == [m EXCEPT !.caller = "closing", !.once = "done"]
  <2> DEFINE l2 == [l EXCEPT !.sent = Append(l.sent, "stop"),
                              !.rf = IF l.state = "up" THEN FALSE ELSE l.rf]
  <2>1. m2 \in Managers
    BY <1>2, ManagerFields
  <2>2. /\ l2 \in Links
        /\ l2.connected = link[s].connected
        /\ l2.sent \in {<<"stop">>, <<"start", "stop">>}
        /\ l2.rf => l2.state # "up"
    <3>1. m.once = "held"
      BY <1>1, <1>3 DEF SessionInv, OnceInv
    <3>2. l.sent \in {<<>>, <<"start">>}
      BY <1>1, <3>1 DEF SessionInv, CommandInv
    <3>3. QED
      BY <1>1, <3>2, StopWritten
  <2>3. SessionInv(m2, l2)
    <3>1. /\ m2.sender = "exited" /\ m2.once = "done" /\ m2.caller = "closing"
          /\ m2.monitor = m.monitor /\ m2.done = m.done
      BY <1>2, <1>3 DEF Managers
    <3>2. m.monitor # "sending" /\ protocol # "generic"
      BY <1>1, <1>3 DEF SessionInv, OnceInv, GenericInv
    <3>3. l2.connected = l.connected
      BY <1>1, <2>2
    <3> HIDE DEF m2, l2
    <3>4. GenericInv(m2, l2)
      BY <3>2 DEF GenericInv
    <3>5. OnceInv(m2)
      BY <3>1, <3>2 DEF OnceInv
    <3>6. CommandInv(m2, l2)
      BY <2>2, <3>1, FirstCommands DEF CommandInv
    <3>7. DoneInv(m2, l2)
      BY <1>1, <1>3, <3>1, <3>3 DEF SessionInv, DoneInv
    <3>8. QED
      BY <3>4, <3>5, <3>6, <3>7 DEF SessionInv
  <2>4. /\ manager' = [manager EXCEPT ![s] = m2]
        /\ link' = [link EXCEPT ![s] = l2]
        /\ UNCHANGED loopVars
    BY <1>1, <1>3
  <2> HIDE DEF m2, l2
  <2>5. QED
    BY <1>1, <1>2, <2>1, <2>2, <2>3, <2>4, LocalStep
<1>4. ASSUME m.caller = "sending", m.sender = "exited",
             manager' = [manager EXCEPT ![s] = [m EXCEPT !.caller = "closing", !.once = "done"]],
             link' = [link EXCEPT ![s] = [l EXCEPT !.failed = TRUE]],
             UNCHANGED loopVars
      PROVE  SessionsInv'
  <2> DEFINE m2 == [m EXCEPT !.caller = "closing", !.once = "done"]
  <2> DEFINE l2 == [l EXCEPT !.failed = TRUE]
  <2>1. m2 \in Managers
    BY <1>2, ManagerFields
  <2>2. l2 \in Links /\ l2.connected = link[s].connected
    BY <1>1, <1>2, <1>4, FirstCommands DEF Links, SessionInv, GenericInv, OnceInv,
       CommandInv, DoneInv
  <2>3. SessionInv(m2, l2)
    BY <1>1, <1>2, <1>4, FirstCommands DEF Managers, Links, SessionInv, GenericInv, OnceInv,
       CommandInv, DoneInv
  <2>4. /\ manager' = [manager EXCEPT ![s] = m2]
        /\ link' = [link EXCEPT ![s] = l2]
        /\ UNCHANGED loopVars
    BY <1>1, <1>4
  <2> HIDE DEF m2, l2
  <2>5. QED
    BY <1>1, <1>2, <2>1, <2>2, <2>3, <2>4, LocalStep
<1>5. QED
  BY <1>1, <1>2, <1>3, <1>4 DEF StopInventory, Written, NotWritten

LEMMA CallerClosesStep ==
    ASSUME SessionsInv, NEW s \in 1 .. session, CloseDone(s, "caller", "returned")
    PROVE  SessionsInv'
<1>1. PICK m \in Managers, l \in Links :
        /\ m = manager[s]
        /\ l = link[s]
        /\ SessionInv(m, l)
  BY SessionTypes
<1>2. /\ m \in Managers
      /\ protocol \in {"chainway", "generic"}
      /\ WatchTypes'
  <2>1. WatchTypes'
    BY <1>1, AntennaSessionAssumption DEF SessionsInv, TypeOK, WatchTypes, loopVars, watchVars,
       CloseDone
  <2>2. QED
    BY <1>1, <2>1, SessionTypes
<1>3. ASSUME m.caller = "closing",
             manager' = [manager EXCEPT ![s] = [m EXCEPT !.caller = "returned", !.done = TRUE]],
             UNCHANGED <<loopVars, link>>
      PROVE  SessionsInv'
  <2> DEFINE m2 == [m EXCEPT !.caller = "returned", !.done = TRUE]
  <2>1. m2 \in Managers
    BY <1>2, ManagerFields
  <2>3. SessionInv(m2, l)
    BY <1>1, <1>2, <1>3 DEF Managers, Links, SessionInv, GenericInv, OnceInv,
       CommandInv, DoneInv
  <2>4. /\ manager' = [manager EXCEPT ![s] = m2]
        /\ UNCHANGED <<loopVars, link>>
    BY <1>1, <1>3
  <2> HIDE DEF m2
  <2>5. QED
    BY <1>1, <1>2, <2>1, <2>3, <2>4, ManagerStep
<1>4. QED
  BY <1>1, <1>2, <1>3 DEF CloseDone

-----------------------------------------------------------------------------
(* The loop. *)

LEMMA QuietLoopStep ==
    ASSUME SessionsInv,
           LoopReturns \/ ConnectFails \/ ComputeBackoff \/ WaitEnds \/ Shutdown \/ UNCHANGED vars,
           backoff' \in Int
    PROVE  SessionsInv'
<1> USE AntennaSessionAssumption DEF LoopReturns, ConnectFails, ComputeBackoff, WaitEnds, Shutdown, vars, watchVars
<1>1. UNCHANGED <<protocol, session, manager, link, silence, count>>
  OBVIOUS
<1>2. TypeOK'
  <2>1. loop' \in Loops /\ shutdown' \in BOOLEAN
    BY DEF SessionsInv, TypeOK, Loops
  <2>2. attempt' \in 0 .. MaxAttempt
    BY DEF SessionsInv, TypeOK
  <2>3. QED
    BY <1>1, <2>1, <2>2 DEF SessionsInv, TypeOK
<1>3. \A s \in 1 .. session' : SessionInv(manager[s], link[s])'
  BY <1>1 DEF SessionsInv, SessionInv, GenericInv, OnceInv, CommandInv, DoneInv
<1>4. OneConnection'
  BY <1>1 DEF SessionsInv, OneConnection
<1>5. (loop = "serving" => session > 0)'
  BY <1>1 DEF SessionsInv
<1>6. QED
  BY <1>2, <1>3, <1>4, <1>5 DEF SessionsInv

LEMMA PowerIsPositive ==
    ASSUME NEW n \in Nat
    PROVE  2^n \in Nat \ {0}
<1>1. IsFiniteSet(1 .. n) /\ Cardinality(1 .. n) = n
  BY FS_Interval
<1>2. IsFiniteSet(SUBSET (1 .. n)) /\ Cardinality(SUBSET (1 .. n)) = 2^n
  BY <1>1, FS_SUBSET
<1>3. {} \in SUBSET (1 .. n)
  OBVIOUS
<1>4. QED
  BY <1>2, <1>3, FS_CardinalityType, FS_EmptySet

LEMMA BackoffIsAnInteger ==
    ASSUME SessionsInv, ComputeBackoff
    PROVE  backoff' \in Int
<1>1. /\ 2^attempt \in Int
      /\ 2^(Width - 1) \in Int
      /\ 2^Width \in Nat \ {0}
  BY AntennaSessionAssumption, PowerIsPositive DEF SessionsInv, TypeOK
<1>2. ASSUME NEW n \in Int
      PROVE  Wrap(n) \in Int
  <2>1. PICK h \in Int, w \in Nat \ {0} : h = 2^(Width - 1) /\ w = 2^Width
    BY <1>1
  <2>2. ((n + h) % w) - h \in Int
    OBVIOUS
  <2>3. QED
    BY <2>1, <2>2 DEF Wrap
<1>3. InitialBackoff \in Int /\ MaxBackoff \in Int
  BY AntennaSessionAssumption
<1>4. PICK w \in Int : w = Wrap(2^attempt)
  BY <1>1, <1>2
<1>5. Wrap(InitialBackoff * w) \in Int
  BY <1>2, <1>3
<1>6. QED
  BY <1>3, <1>4, <1>5 DEF ComputeBackoff, calculateBackoff

LEMMA Extended ==
    ASSUME NEW n \in Nat, NEW S, NEW f \in [1 .. n -> S], NEW x \in S
    PROVE  /\ Append(f, x) \in [1 .. n + 1 -> S]
           /\ Append(f, x)[n + 1] = x
           /\ \A i \in 1 .. n : Append(f, x)[i] = f[i]
<1>1. f \in Seq(S) /\ Len(f) = n
  OBVIOUS
<1>2. /\ Append(f, x) \in Seq(S)
      /\ Len(Append(f, x)) = n + 1
      /\ Append(f, x)[n + 1] = x
      /\ \A i \in 1 .. n : Append(f, x)[i] = f[i]
  BY <1>1, AppendProperties
<1>3. PICK g \in Seq(S) : g = Append(f, x)
  BY <1>2
<1>4. g \in [1 .. n + 1 -> S]
  BY <1>2, <1>3, LenProperties
<1>5. QED
  BY <1>2, <1>3, <1>4

LEMMA ConnectStep ==
    ASSUME SessionsInv, Connect
    PROVE  SessionsInv'
<1>1. /\ session \in Nat
      /\ session' = session + 1
      /\ session' \in 0 .. MaxSession
      /\ UNCHANGED <<protocol, attempt, backoff, shutdown>>
      /\ loop' = "serving"
  BY AntennaSessionAssumption DEF SessionsInv, TypeOK, Connect
<1>2. NewManager \in Managers
  BY DEF NewManager, Managers
<1>3. NewLink \in Links
  BY FirstCommands DEF NewLink, Links
<1>4. /\ manager' \in [1 .. session + 1 -> Managers]
      /\ manager'[session + 1] = NewManager
      /\ \A s \in 1 .. session : manager'[s] = manager[s]
  <2>1. manager \in [1 .. session -> Managers] /\ manager' = Append(manager, NewManager)
    BY DEF SessionsInv, TypeOK, Connect
  <2>2. QED
    BY <1>1, <1>2, <2>1, Extended
<1>5. /\ link' \in [1 .. session + 1 -> Links]
      /\ link'[session + 1] = NewLink
      /\ \A s \in 1 .. session : link'[s] = link[s]
  <2>1. link \in [1 .. session -> Links] /\ link' = Append(link, NewLink)
    BY DEF SessionsInv, TypeOK, Connect
  <2>2. QED
    BY <1>1, <1>3, <2>1, Extended
<1>6. silence' \in [1 .. session + 1 -> 0 .. 2]
  <2>1. 0 \in 0 .. 2
    OBVIOUS
  <2>2. QED
    BY <1>1, <2>1, Extended DEF SessionsInv, TypeOK, Connect
<1>7. count' \in [1 .. session + 1 -> 0 .. MaxSilent]
  <2>1. 0 \in 0 .. MaxSilent
    BY AntennaSessionAssumption
  <2>2. QED
    BY <1>1, <2>1, Extended DEF SessionsInv, TypeOK, Connect
<1>8. TypeOK'
  <2>1. loop' \in Loops /\ attempt' \in 0 .. MaxAttempt
    BY <1>1 DEF SessionsInv, TypeOK, Loops
  <2>2. QED
    BY <1>1, <1>4, <1>5, <1>6, <1>7, <2>1 DEF SessionsInv, TypeOK
<1>9. ASSUME NEW s \in 1 .. session'
      PROVE  SessionInv(manager[s], link[s])'
  <2>1. CASE s = session + 1
    <3>1. manager'[s] = NewManager /\ link'[s] = NewLink
      BY <1>4, <1>5, <2>1
    <3>2. QED
      BY <3>1, FirstCommands DEF NewManager, NewLink, SessionInv, GenericInv, OnceInv,
         CommandInv, DoneInv
  <2>2. CASE s \in 1 .. session
    <3>1. manager'[s] = manager[s] /\ link'[s] = link[s] /\ protocol' = protocol
      BY <1>1, <1>4, <1>5, <2>2
    <3>2. SessionInv(manager[s], link[s])
      BY <2>2 DEF SessionsInv
    <3>3. QED
      BY <3>1, <3>2 DEF SessionInv, GenericInv, OnceInv,
       CommandInv, DoneInv
  <2>3. QED
    BY <1>1, <2>1, <2>2
<1>10. OneConnection'
  BY <1>1, <1>5 DEF SessionsInv, OneConnection, Connect
<1>11. QED
  BY <1>1, <1>8, <1>9, <1>10 DEF SessionsInv

LEMMA DisconnectStep ==
    ASSUME SessionsInv, Disconnect
    PROVE  SessionsInv'
<1>1. session \in 1 .. session
  BY AntennaSessionAssumption DEF Disconnect, SessionsInv, TypeOK
<1>2. PICK m \in Managers, l \in Links :
        /\ m = manager[session]
        /\ l = link[session]
        /\ SessionInv(m, l)
  BY <1>1, SessionTypes
<1> DEFINE l2 == [l EXCEPT !.connected = FALSE]
<1>3. l2 \in Links /\ ~l2.connected
  BY DEF Links
<1>4. SessionInv(m, l2)
  BY <1>2 DEF Disconnect, Links, SessionInv, GenericInv, OnceInv, CommandInv, DoneInv
<1>5. /\ UNCHANGED <<protocol, session, attempt, backoff, shutdown, manager, silence, count>>
      /\ loop' = "ended"
      /\ link' = [link EXCEPT ![session] = l2]
  BY <1>2 DEF Disconnect, watchVars
<1> HIDE DEF l2
<1>6. TypeOK'
  BY <1>1, <1>3, <1>5 DEF SessionsInv, TypeOK, Loops
<1>7. ASSUME NEW s \in 1 .. session'
      PROVE  SessionInv(manager[s], link[s])'
  <2>1. CASE s = session
    <3>1. manager'[s] = m /\ link'[s] = l2 /\ protocol' = protocol
      BY <1>1, <1>2, <1>5, <2>1 DEF SessionsInv, TypeOK
    <3>2. QED
      BY <1>4, <3>1 DEF SessionInv, GenericInv, OnceInv,
       CommandInv, DoneInv
  <2>2. CASE s # session
    <3>1. /\ manager'[s] = manager[s]
          /\ link'[s] = link[s]
          /\ protocol' = protocol
          /\ s \in 1 .. session
      BY <1>5, <2>2 DEF SessionsInv, TypeOK
    <3>2. SessionInv(manager[s], link[s])
      BY <3>1 DEF SessionsInv
    <3>3. QED
      BY <3>1, <3>2 DEF SessionInv, GenericInv, OnceInv,
       CommandInv, DoneInv
  <2>3. QED
    BY <2>1, <2>2
<1>8. OneConnection'
  BY <1>1, <1>3, <1>5 DEF SessionsInv, TypeOK, OneConnection
<1>9. QED
  BY <1>5, <1>6, <1>7, <1>8 DEF SessionsInv

-----------------------------------------------------------------------------
(* The theorems. *)

LEMMA SessionsInit == Init => SessionsInv
<1> SUFFICES ASSUME Init
             PROVE  SessionsInv
  OBVIOUS
<1>1. TypeOK
  <2>1. protocol \in {"chainway", "generic"}
    BY AntennaSessionAssumption DEF Init
  <2>2. loop \in Loops
    BY DEF Init, Loops
  <2>3. /\ session = 0 /\ session \in 0 .. MaxSession
        /\ attempt \in 0 .. MaxAttempt
    BY AntennaSessionAssumption DEF Init
  <2>4. backoff \in Int
    BY AntennaSessionAssumption DEF Init
  <2>5. shutdown \in BOOLEAN
    BY DEF Init
  <2>6. 1 .. session = {}
    BY <2>3
  <2>7. \A S : <<>> \in [{} -> S]
    OBVIOUS
  <2>8. QED
    BY <2>1, <2>2, <2>3, <2>4, <2>5, <2>6, <2>7 DEF Init, TypeOK
<1>2. session = 0 /\ 1 .. session = {} /\ loop = "connecting"
  BY DEF Init
<1>3. QED
  BY <1>1, <1>2 DEF SessionsInv, OneConnection

LEMMA SessionsNext == SessionsInv /\ [Next]_vars => SessionsInv'
<1> SUFFICES ASSUME SessionsInv, [Next]_vars
             PROVE  SessionsInv'
  OBVIOUS
<1>1. ASSUME NEW s \in 1 .. session, SessionStep(s)
      PROVE  SessionsInv'
  <2>1. CASE SenderStep(s) \/ PollFails(s)
    BY <2>1, CheckStartStep, StartInventoryStep, PollStep DEF SenderStep
  <2>2. CASE ReaderStep(s) \/ Receive(s)
    BY <2>2, ReaderReturnsStep, ReaderCancelsStep, WatchStep DEF ReaderStep
  <2>3. CASE WatcherStep(s)
    BY <2>3, WatcherReturnsStep, WatchStep DEF WatcherStep
  <2>4. CASE MonitorStep(s)
    BY <2>4, MonitorWakesStep, MonitorEntersStep, MonitorStopsStep, MonitorClosesStep
       DEF MonitorStep, StopSession
  <2>5. CASE StopCall(s) \/ CallerStep(s)
    BY <2>5, StopCallStep, CallerEntersStep, CallerStopsStep, CallerClosesStep
       DEF CallerStep, StopSession
  <2>6. CASE SilenceGrows(s) \/ LinkBreaks(s)
    BY <2>6, WatchStep, LinkBreaksStep
  <2>7. QED
    BY <1>1, <2>1, <2>2, <2>3, <2>4, <2>5, <2>6 DEF SessionStep
<1>2. CASE Connect \/ Disconnect
  BY <1>2, ConnectStep, DisconnectStep
<1>3. CASE ComputeBackoff
  BY <1>3, BackoffIsAnInteger, QuietLoopStep
<1>4. CASE LoopReturns \/ ConnectFails \/ WaitEnds \/ Shutdown \/ UNCHANGED vars
  <2>1. backoff' \in Int
    BY <1>4 DEF LoopReturns, ConnectFails, WaitEnds, Shutdown, vars, SessionsInv, TypeOK
  <2>2. QED
    BY <1>4, <2>1, QuietLoopStep
<1>5. QED
  BY <1>1, <1>2, <1>3, <1>4 DEF Next, LoopStep

(* The inductive invariant holds in every state of the program.            *)
THEOREM SessionsInvariant == Spec => []SessionsInv
  BY SessionsInit, SessionsNext, PTL DEF Spec

(* Every variable keeps its type, the wrapped wait included.               *)
THEOREM SessionsTypeOK == Spec => []TypeOK
<1>1. SessionsInv => TypeOK
  BY DEF SessionsInv
<1>2. QED
  BY <1>1, SessionsInvariant, PTL

(* No session writes two starts, two stops, or a start after a stop        *)
(* (stopSession waits for startDone).                                      *)
THEOREM SessionsStartThenStop == Spec => []StartThenStop
<1>1. SessionsInv => StartThenStop
  BY DEF SessionsInv, SessionInv, CommandInv, StartThenStop
<1>2. QED
  BY <1>1, SessionsInvariant, PTL

(* A session that is over has tried to stop what it started, before its    *)
(* connection was given up (Done closes after stopSession).                *)
THEOREM SessionsLeaveNoRF == Spec => []NoRFLeftOn
<1>1. SessionsInv => NoRFLeftOn
  <2> SUFFICES ASSUME SessionsInv, NEW s \in 1 .. session,
                      manager[s].done \/ ~link[s].connected
               PROVE  /\ link[s].sent # <<"start">> \/ link[s].failed
                      /\ link[s].rf => link[s].failed \/ link[s].state # "up"
    BY DEF NoRFLeftOn
  <2>1. SessionInv(manager[s], link[s])
    BY DEF SessionsInv
  <2>2. CASE protocol = "generic"
    BY <2>1, <2>2, FirstCommands DEF SessionInv, GenericInv
  <2>3. CASE protocol # "generic"
    BY <2>1, <2>3 DEF SessionInv, DoneInv, CommandInv
  <2>4. QED
    BY <2>2, <2>3
<1>2. QED
  BY <1>1, SessionsInvariant, PTL

(* Only the connection the loop is serving is open, whatever the sessions  *)
(* before it still do (runAntenna).                                        *)
THEOREM SessionsOneConnection == Spec => []OneConnection
<1>1. SessionsInv => OneConnection
  BY DEF SessionsInv
<1>2. QED
  BY <1>1, SessionsInvariant, PTL

-----------------------------------------------------------------------------
(* StreamFrames.  First: induction over the natural numbers and over the length  *)
(* of a sequence, and what makes a recursive definition define its function.     *)

\* The library's induction is over operators; this one is over sets, by WFMin.
LEMMA NaturalInduction ==
    ASSUME NEW S, \A n \in Nat : (\A m \in 0 .. n - 1 : m \in S) => n \in S
    PROVE  \A n \in Nat : n \in S
<1> DEFINE T == Nat \ S
<1> DEFINE R == OpToRel(<, Nat)
<1>1. SUFFICES ASSUME T # {}  PROVE FALSE
  OBVIOUS
<1>2. IsWellFoundedOn(R, Nat)
  BY NatLessThanWellFounded
<1>3. T \subseteq Nat
  OBVIOUS
<1>4. \A a, b \in Nat : a < b => <<a, b>> \in R
  BY DEF OpToRel
<1> HIDE DEF T, R
<1>5. PICK x \in T : \A y \in T : <<y, x>> \notin R
  BY <1>1, <1>2, <1>3, WFMin
<1>6. \A m \in 0 .. x - 1 : m \notin T
  <2> SUFFICES ASSUME NEW m \in 0 .. x - 1, m \in T  PROVE FALSE
    OBVIOUS
  <2>1. x \in Nat /\ m \in Nat /\ m < x
    BY <1>3
  <2> QED  BY <1>4, <1>5, <2>1
<1>7. \A m \in 0 .. x - 1 : m \in S
  BY <1>3, <1>6 DEF T
<1> QED  BY <1>3, <1>7 DEF T

\* A set that has every sequence of S whose shorter ones it has, has all of S.
LEMMA LengthInduction ==
    ASSUME NEW S, NEW T,
           \A s \in S : Len(s) \in Nat,
           \A s \in S : (\A t \in S : Len(t) < Len(s) => t \in T) => s \in T
    PROVE  S \subseteq T
<1> DEFINE Lengths == {n \in Nat : \A s \in S : Len(s) = n => s \in T}
<1>1. ASSUME NEW n \in Nat, \A m \in 0 .. n - 1 : m \in Lengths
      PROVE  n \in Lengths
  <2> SUFFICES ASSUME NEW s \in S, Len(s) = n  PROVE s \in T
    OBVIOUS
  <2>1. \A t \in S : Len(t) < Len(s) => t \in T
    BY <1>1
  <2> QED  BY <2>1
<1> HIDE DEF Lengths
<1>2. \A n \in Nat : n \in Lengths
  BY <1>1, NaturalInduction
<1> QED  BY <1>2 DEF Lengths

LEMMA SameFunction ==
    ASSUME NEW S, NEW R, NEW f \in [S -> R], NEW g \in [S -> R], \A s \in S : f[s] = g[s]
    PROVE  f = g
OBVIOUS

\* A functional that looks only at shorter sequences, none longer than N.
LooksAtShorter(F, S, R, N) ==
    /\ F \in [[S -> R] -> [S -> R]]
    /\ \A s \in S : Len(s) \in 0 .. N
    /\ \A g, h \in [S -> R] : \A s \in S :
         (\A t \in S : Len(t) < Len(s) => g[t] = h[t]) => F[g][s] = F[h][s]

\* It has a fixed point.
LEMMA FixedPoint ==
    ASSUME NEW S, NEW R, NEW N \in Nat, NEW F, [S -> R] # {}, LooksAtShorter(F, S, R, N)
    PROVE  \E f \in [S -> R] : f = F[f]
<1> PICK g0 \in [S -> R] : TRUE
  OBVIOUS
<1> USE DEF LooksAtShorter
<1> DEFINE Fixed == {n \in Nat : \E g \in [S -> R] :
                                   \A s \in S : Len(s) < n => F[g][s] = g[s]}
<1>1. ASSUME NEW n \in Nat, \A m \in 0 .. n - 1 : m \in Fixed
      PROVE  n \in Fixed
  <2>1. CASE n = 0
    BY <2>1
  <2>2. CASE n # 0
    <3>1. n - 1 \in 0 .. n - 1
      BY <2>2
    <3>2. n - 1 \in Fixed
      BY <1>1, <3>1
    <3>3. PICK g \in [S -> R] : \A s \in S : Len(s) < n - 1 => F[g][s] = g[s]
      BY <3>2
    <3>4. F[g] \in [S -> R]
      OBVIOUS
    <3>5. ASSUME NEW s \in S, Len(s) < n  PROVE F[F[g]][s] = F[g][s]
      <4>1. \A t \in S : Len(t) < Len(s) => F[g][t] = g[t]
        BY <3>3, <3>5
      <4> QED  BY <3>4, <4>1
    <3> QED  BY <3>4, <3>5
  <2> QED  BY <2>1, <2>2
<1> HIDE DEF Fixed
<1>2. N + 1 \in Fixed
  BY <1>1, NaturalInduction
<1>3. PICK f \in [S -> R] : \A s \in S : Len(s) < N + 1 => F[f][s] = f[s]
  BY <1>2 DEF Fixed
<1>4. \A s \in S : F[f][s] = f[s]
  BY <1>3
<1>5. F[f] \in [S -> R]
  OBVIOUS
<1>6. F[f] = f
  BY <1>4, <1>5, SameFunction
<1> QED  BY <1>6

\* The least of a set of numbers.
LEMMA MinIsLeast ==
    ASSUME NEW S \in SUBSET Nat, S # {}
    PROVE  Min(S) \in S /\ \A y \in S : Min(S) <= y
<1>1. \E x \in S : \A y \in S : x <= y
  <2> SUFFICES ASSUME \A x \in S : \E y \in S : y < x  PROVE FALSE
    OBVIOUS
  <2> DEFINE Out == Nat \ S
  <2>1. \A n \in Nat : (\A m \in 0 .. n - 1 : m \in Out) => n \in Out
    OBVIOUS
  <2> HIDE DEF Out
  <2>2. \A n \in Nat : n \in Out
    BY <2>1, NaturalInduction
  <2> QED  BY <2>2 DEF Out
<1> QED  BY <1>1 DEF Min

-----------------------------------------------------------------------------
(* Sequences. *)

\* What is left after the first n, and its items.
LEMMA DropProperties ==
    ASSUME NEW B, NEW s \in Seq(B), NEW n \in 0 .. Len(s)
    PROVE  /\ Drop(s, n) \in Seq(B)
           /\ Len(Drop(s, n)) = Len(s) - n
           /\ \A i \in 1 .. Len(s) - n : Drop(s, n)[i] = s[i + n]
<1>1. \A i \in n + 1 .. Len(s) : s[i] \in B
  BY LenProperties
<1>2. n + 1 \in Int /\ Len(s) \in Nat
  BY LenProperties
<1>3. /\ Drop(s, n) \in Seq(B)
      /\ Len(Drop(s, n)) = IF n + 1 <= Len(s) THEN Len(s) - (n + 1) + 1 ELSE 0
      /\ \A i \in 1 .. Len(s) - (n + 1) + 1 : Drop(s, n)[i] = s[n + 1 + i - 1]
  BY <1>1, <1>2, SubSeqProperties DEF Drop
<1> QED  BY <1>2, <1>3

\* The first n, and its items.
LEMMA TakeProperties ==
    ASSUME NEW B, NEW s \in Seq(B), NEW n \in 0 .. Len(s)
    PROVE  /\ Take(s, n) \in Seq(B)
           /\ Len(Take(s, n)) = n
           /\ \A i \in 1 .. n : Take(s, n)[i] = s[i]
<1>1. \A i \in 1 .. n : s[i] \in B
  BY LenProperties
<1>2. 1 \in Int /\ n \in Int /\ Len(s) \in Nat
  BY LenProperties
<1>3. /\ Take(s, n) \in Seq(B)
      /\ Len(Take(s, n)) = IF 1 <= n THEN n - 1 + 1 ELSE 0
      /\ \A i \in 1 .. n - 1 + 1 : Take(s, n)[i] = s[1 + i - 1]
  BY <1>1, <1>2, SubSeqProperties DEF Take
<1> QED  BY <1>2, <1>3

\* Dropping is additive.
LEMMA DropTwice ==
    ASSUME NEW B, NEW s \in Seq(B), NEW m \in 0 .. Len(s), NEW n \in 0 .. Len(s) - m
    PROVE  Drop(Drop(s, m), n) = Drop(s, m + n)
<1>1. Len(s) \in Nat /\ m + n \in 0 .. Len(s)
  BY LenProperties
<1>2. /\ Drop(s, m) \in Seq(B)
      /\ Len(Drop(s, m)) = Len(s) - m
      /\ \A i \in 1 .. Len(s) - m : Drop(s, m)[i] = s[i + m]
  BY DropProperties
<1>3. /\ Drop(Drop(s, m), n) \in Seq(B)
      /\ Len(Drop(Drop(s, m), n)) = Len(s) - m - n
      /\ \A i \in 1 .. Len(s) - m - n : Drop(Drop(s, m), n)[i] = Drop(s, m)[i + n]
  BY <1>2, DropProperties
<1>4. /\ Drop(s, m + n) \in Seq(B)
      /\ Len(Drop(s, m + n)) = Len(s) - (m + n)
      /\ \A i \in 1 .. Len(s) - (m + n) : Drop(s, m + n)[i] = s[i + (m + n)]
  BY <1>1, DropProperties
<1>5. ASSUME NEW i \in 1 .. Len(s) - m - n
      PROVE  Drop(Drop(s, m), n)[i] = Drop(s, m + n)[i]
  <2>1. i + n \in 1 .. Len(s) - m /\ i \in 1 .. Len(s) - (m + n) /\ i + n + m = i + (m + n)
    BY <1>1
  <2>2. Drop(Drop(s, m), n)[i] = s[i + n + m]
    BY <1>2, <1>3, <2>1
  <2> QED  BY <1>4, <2>1, <2>2
<1> DEFINE a == Drop(Drop(s, m), n)
<1> DEFINE b == Drop(s, m + n)
<1>6. a \in Seq(B) /\ b \in Seq(B) /\ Len(a) = Len(b) /\ Len(a) = Len(s) - m - n
  <2>1. a \in Seq(B) /\ Len(a) = Len(s) - m - n
    BY <1>3
  <2>2. b \in Seq(B) /\ Len(b) = Len(s) - (m + n)
    BY <1>4
  <2>3. Len(s) - m - n = Len(s) - (m + n)
    BY <1>1
  <2> HIDE DEF a, b
  <2> QED  BY <2>1, <2>2, <2>3
<1>7. \A i \in 1 .. Len(s) - m - n : a[i] = b[i]
  BY <1>5
<1> HIDE DEF a, b
<1>8. \A i \in 1 .. Len(a) : a[i] = b[i]
  BY <1>6, <1>7
<1>9. a = b
  BY <1>6, <1>8, SeqEqual
<1> QED  BY <1>9 DEF a, b

LEMMA DropNothing ==
    ASSUME NEW B, NEW s \in Seq(B)
    PROVE  Drop(s, 0) = s
BY SubSeqFull DEF Drop

LEMMA DropAll ==
    ASSUME NEW B, NEW s \in Seq(B)
    PROVE  Drop(s, Len(s)) = <<>>
<1>1. Len(s) \in Nat
  BY LenProperties
<1> QED  BY <1>1, SubSeqEmpty DEF Drop

\* The n items after the first m.
LEMMA MiddleProperties ==
    ASSUME NEW B, NEW s \in Seq(B), NEW m \in Nat, NEW n \in Nat \ {0}, m + n <= Len(s)
    PROVE  SubSeq(s, m + 1, m + n) \in Seq(B) /\ Len(SubSeq(s, m + 1, m + n)) = n
<1> DEFINE j == m + 1
<1> DEFINE k == m + n
<1>1. Len(s) \in Nat
  BY LenProperties
<1>2. j \in Int /\ k \in Int /\ j <= k /\ k - j + 1 = n /\ j .. k \subseteq 1 .. Len(s)
  BY <1>1
<1> HIDE DEF j, k
<1>3. \A i \in j .. k : s[i] \in B
  BY <1>2, ElementOfSeq
<1>4. SubSeq(s, j, k) \in Seq(B) /\ Len(SubSeq(s, j, k)) = IF j <= k THEN k - j + 1 ELSE 0
  BY <1>2, <1>3, SubSeqProperties
<1> QED  BY <1>2, <1>4 DEF j, k

\* A sequence of one item.
LEMMA OneItem ==
    ASSUME NEW B, NEW a \in B
    PROVE  <<a>> \in Seq(B)
OBVIOUS

LEMMA OneByte ==
    ASSUME NEW B, NEW s \in Seq(B), Len(s) = 1
    PROVE  s = <<s[1]>> /\ s # <<>>
<1> DEFINE t == <<s[1]>>
<1>1. s[1] \in B
  <2>1. 1 \in 1 .. Len(s)
    OBVIOUS
  <2> QED  BY <2>1, ElementOfSeq
<1>2. t \in Seq(B) /\ Len(t) = 1 /\ t[1] = s[1]
  BY <1>1
<1>3. \A i \in 1 .. Len(s) : s[i] = t[i]
  BY <1>2
<1> HIDE DEF t
<1>4. s = t
  BY <1>2, <1>3, SeqEqual
<1>5. s # <<>>
  BY EmptySeq
<1> QED  BY <1>4, <1>5 DEF t

\* Dropping from the first of two, and taking from it.
LEMMA DropOfConcat ==
    ASSUME NEW B, NEW s \in Seq(B), NEW t \in Seq(B), NEW n \in 0 .. Len(s)
    PROVE  Drop(s \o t, n) = Drop(s, n) \o t
<1> DEFINE u == s \o t
<1> DEFINE v == Drop(s, n)
<1> DEFINE w == v \o t
<1>1. Len(s) \in Nat /\ Len(t) \in Nat /\ n \in Nat /\ n <= Len(s)
  BY LenProperties
<1>2. /\ u \in Seq(B)
      /\ Len(u) = Len(s) + Len(t)
      /\ \A i \in 1 .. Len(s) + Len(t) :
           u[i] = IF i <= Len(s) THEN s[i] ELSE t[i - Len(s)]
  BY ConcatProperties
<1>3. /\ v \in Seq(B)
      /\ Len(v) = Len(s) - n
      /\ \A i \in 1 .. Len(s) - n : v[i] = s[i + n]
  BY DropProperties
<1> HIDE DEF u, v
<1>4. /\ w \in Seq(B)
      /\ Len(w) = Len(v) + Len(t)
      /\ \A i \in 1 .. Len(v) + Len(t) : w[i] = IF i <= Len(v) THEN v[i] ELSE t[i - Len(v)]
  BY <1>3, ConcatProperties
<1> HIDE DEF w
<1>5. n \in 0 .. Len(u)
  BY <1>1, <1>2
<1>6. /\ Drop(u, n) \in Seq(B)
      /\ Len(Drop(u, n)) = Len(u) - n
      /\ \A i \in 1 .. Len(u) - n : Drop(u, n)[i] = u[i + n]
  BY <1>2, <1>5, DropProperties
<1>7. Len(Drop(u, n)) = Len(w)
  BY <1>1, <1>2, <1>3, <1>4, <1>6
<1>8. ASSUME NEW i \in 1 .. Len(Drop(u, n))
      PROVE  Drop(u, n)[i] = w[i]
  <2>1. i \in 1 .. Len(u) - n /\ i \in 1 .. Len(v) + Len(t) /\ i + n \in 1 .. Len(s) + Len(t)
    BY <1>1, <1>2, <1>3, <1>6
  <2>2. Drop(u, n)[i] = u[i + n]
    BY <1>6, <2>1
  <2>3. CASE i <= Len(s) - n
    <3>1. u[i + n] = s[i + n]
      BY <1>1, <1>2, <2>1, <2>3
    <3>2. w[i] = v[i] /\ v[i] = s[i + n]
      BY <1>1, <1>3, <1>4, <2>1, <2>3
    <3> QED  BY <2>2, <3>1, <3>2
  <2>4. CASE ~(i <= Len(s) - n)
    <3>1. ~(i + n <= Len(s)) /\ i + n - Len(s) = i - Len(v)
      BY <1>1, <1>3, <2>4
    <3>2. u[i + n] = t[i + n - Len(s)]
      <4> DEFINE k == i + n
      <4>1. k \in 1 .. Len(s) + Len(t) /\ ~(k <= Len(s))
        BY <2>1, <3>1
      <4> HIDE DEF k
      <4>2. u[k] = t[k - Len(s)]
        BY <1>2, <4>1
      <4> QED  BY <4>2 DEF k
    <3>3. w[i] = t[i - Len(v)]
      BY <1>1, <1>3, <1>4, <2>1, <2>4
    <3> QED  BY <2>2, <3>1, <3>2, <3>3
  <2> QED  BY <2>3, <2>4
<1>9. Drop(u, n) = w
  BY <1>4, <1>6, <1>7, <1>8, SeqEqual
<1> QED  BY <1>9 DEF u, v, w

LEMMA TakeOfConcat ==
    ASSUME NEW B, NEW s \in Seq(B), NEW t \in Seq(B), NEW n \in 0 .. Len(s)
    PROVE  Take(s \o t, n) = Take(s, n)
<1>1. Len(s) \in Nat /\ Len(t) \in Nat
  BY LenProperties
<1>2. /\ s \o t \in Seq(B)
      /\ Len(s \o t) = Len(s) + Len(t)
      /\ \A i \in 1 .. Len(s) + Len(t) :
           (s \o t)[i] = IF i <= Len(s) THEN s[i] ELSE t[i - Len(s)]
  BY ConcatProperties
<1>3. n \in 0 .. Len(s \o t)
  BY <1>1, <1>2
<1>4. /\ Take(s \o t, n) \in Seq(B)
      /\ Len(Take(s \o t, n)) = n
      /\ \A i \in 1 .. n : Take(s \o t, n)[i] = (s \o t)[i]
  BY <1>2, <1>3, TakeProperties
<1>5. /\ Take(s, n) \in Seq(B)
      /\ Len(Take(s, n)) = n
      /\ \A i \in 1 .. n : Take(s, n)[i] = s[i]
  BY TakeProperties
<1>6. \A i \in 1 .. n : Take(s \o t, n)[i] = Take(s, n)[i]
  BY <1>1, <1>2, <1>4, <1>5
<1> QED  BY <1>4, <1>5, <1>6, SeqEqual

-----------------------------------------------------------------------------
(* Reading the input on paper. *)

Results(x) == [buffer : Inputs(x), frames : Seq(Seq(Bytes[x]))]

ReadingStep(x, g, s) ==
    IF s = <<>> \/ Waiting(x, s) THEN Leaves(s)
    ELSE IF Complete(x, s)
    THEN Finds(Take(s, Size(x, s)), g[Drop(s, Size(x, s))])
    ELSE g[Drop(s, 1)]

LEMMA FindsParts ==
    ASSUME NEW frame, NEW e
    PROVE  /\ Finds(frame, e).buffer = e.buffer
           /\ Finds(frame, e).frames = <<frame>> \o e.frames
BY DEF Finds

\* A search that finds a frame, and one that leaves all, return what a search returns.
LEMMA FindsProperties ==
    ASSUME NEW B, NEW I, NEW frame \in Seq(B),
           NEW e \in [buffer : I, frames : Seq(Seq(B))]
    PROVE  /\ Finds(frame, e) = [buffer |-> e.buffer, frames |-> <<frame>> \o e.frames]
           /\ Finds(frame, e) \in [buffer : I, frames : Seq(Seq(B))]
<1>1. e.frames \in Seq(Seq(B)) /\ <<frame>> \in Seq(Seq(B)) /\ e.buffer \in I
  OBVIOUS
<1>2. <<frame>> \o e.frames \in Seq(Seq(B))
  BY <1>1, ConcatProperties
<1>3. Finds(frame, e) = [buffer |-> e.buffer, frames |-> <<frame>> \o e.frames]
  BY DEF Finds
<1> QED  BY <1>1, <1>2, <1>3

LEMMA OneFrame ==
    ASSUME NEW B, NEW frame \in Seq(B)
    PROVE  <<frame>> \in Seq(Seq(B))
OBVIOUS

LEMMA LeavesProperties ==
    ASSUME NEW B, NEW I, NEW b \in I
    PROVE  Leaves(b) \in [buffer : I, frames : Seq(Seq(B))]
BY EmptySeq DEF Leaves

\* An input is a short sequence of the antenna's bytes, and so is a suffix of it.
LEMMA InputLength ==
    ASSUME NEW x \in Extractors, NEW s \in Inputs(x)
    PROVE  s \in Seq(Bytes[x]) /\ Len(s) \in 0 .. MaxStream /\ MaxStream \in Nat
BY StreamFramesAssumption, LenProperties DEF Inputs

LEMMA DropOfInput ==
    ASSUME NEW x \in Extractors, NEW s \in Inputs(x), NEW n \in 0 .. Len(s)
    PROVE  Drop(s, n) \in Inputs(x) /\ Len(Drop(s, n)) = Len(s) - n
<1>1. s \in Seq(Bytes[x]) /\ Len(s) \in 0 .. MaxStream /\ MaxStream \in Nat
  BY InputLength
<1>2. Drop(s, n) \in Seq(Bytes[x]) /\ Len(Drop(s, n)) = Len(s) - n
  BY <1>1, DropProperties
<1> QED  BY <1>1, <1>2 DEF Inputs

\* A complete frame has a byte at least and is no longer than what is there.
LEMMA CompleteSize ==
    ASSUME NEW x \in Extractors, NEW s \in Inputs(x), Complete(x, s)
    PROVE  Size(x, s) \in 1 .. Len(s) /\ Take(s, Size(x, s)) \in Seq(Bytes[x])
<1>1. s \in Seq(Bytes[x]) /\ Len(s) \in Nat
  BY InputLength
<1>2. Size(x, s) \in 1 .. Len(s)
  <2>1. CASE x = "generic"
    <3>1. GenericHeader \in 1 .. Len(s)
      BY <1>1, <2>1, StreamFramesAssumption DEF Complete, HeaderLength
    <3>2. s[GenericHeader] \in Nat
      BY <1>1, <2>1, <3>1, ElementOfSeq, StreamFramesAssumption
    <3> QED  BY <1>1, <2>1, <3>1, <3>2 DEF Complete, Size, GenericSize
  <2>2. CASE x # "generic"
    <3>1. x = "chainway"
      BY <2>2, StreamFramesAssumption
    <3> QED
      BY <1>1, <3>1, StreamFramesAssumption DEF Complete, Plausible
  <2> QED  BY <2>1, <2>2
<1>3. Size(x, s) \in 0 .. Len(s)
  BY <1>2
<1> QED  BY <1>1, <1>2, <1>3, TakeProperties

\* A step of the reading has its type, and looks only at shorter inputs.
LEMMA ReadingStepType ==
    ASSUME NEW x \in Extractors, NEW s \in Inputs(x), NEW g,
           \A t \in Inputs(x) : Len(t) < Len(s) => g[t] \in Results(x)
    PROVE  ReadingStep(x, g, s) \in Results(x)
<1>1. s \in Seq(Bytes[x]) /\ Len(s) \in Nat
  BY InputLength
<1>2. CASE s = <<>> \/ Waiting(x, s)
  <2>1. ReadingStep(x, g, s) = Leaves(s)
    BY <1>2 DEF ReadingStep
  <2> QED  BY <2>1, LeavesProperties DEF Results
<1>3. CASE s # <<>> /\ ~Waiting(x, s)
  <2>1. CASE Complete(x, s)
    <3>1. Size(x, s) \in 1 .. Len(s) /\ Take(s, Size(x, s)) \in Seq(Bytes[x])
      BY <2>1, CompleteSize
    <3>2. Size(x, s) \in 0 .. Len(s)
      BY <1>1, <3>1
    <3>3. Drop(s, Size(x, s)) \in Inputs(x) /\ Len(Drop(s, Size(x, s))) < Len(s)
      BY <1>1, <3>1, <3>2, DropOfInput
    <3>4. g[Drop(s, Size(x, s))] \in Results(x)
      BY <3>3
    <3>5. ReadingStep(x, g, s) = Finds(Take(s, Size(x, s)), g[Drop(s, Size(x, s))])
      BY <1>3, <2>1 DEF ReadingStep
    <3>6. Finds(Take(s, Size(x, s)), g[Drop(s, Size(x, s))]) \in Results(x)
      BY <3>1, <3>4, FindsProperties DEF Results
    <3> QED  BY <3>5, <3>6
  <2>2. CASE ~Complete(x, s)
    <3>1. 1 \in 0 .. Len(s)
      BY <1>1, <1>3, EmptySeq
    <3>2. Drop(s, 1) \in Inputs(x) /\ Len(Drop(s, 1)) < Len(s)
      BY <1>1, <3>1, DropOfInput
    <3>3. ReadingStep(x, g, s) = g[Drop(s, 1)]
      BY <1>3, <2>2 DEF ReadingStep
    <3> QED  BY <3>2, <3>3
  <2> QED  BY <2>1, <2>2
<1> QED  BY <1>2, <1>3

LEMMA ReadingStepLocal ==
    ASSUME NEW x \in Extractors, NEW s \in Inputs(x), NEW g, NEW h,
           \A t \in Inputs(x) : Len(t) < Len(s) => g[t] = h[t]
    PROVE  ReadingStep(x, g, s) = ReadingStep(x, h, s)
<1>1. s \in Seq(Bytes[x]) /\ Len(s) \in Nat
  BY InputLength
<1>2. CASE s = <<>> \/ Waiting(x, s)
  BY <1>2 DEF ReadingStep
<1>3. CASE s # <<>> /\ ~Waiting(x, s) /\ Complete(x, s)
  <2>1. Size(x, s) \in 1 .. Len(s) /\ Size(x, s) \in 0 .. Len(s)
    BY <1>1, <1>3, CompleteSize
  <2>2. Drop(s, Size(x, s)) \in Inputs(x) /\ Len(Drop(s, Size(x, s))) < Len(s)
    BY <1>1, <2>1, DropOfInput
  <2>3. g[Drop(s, Size(x, s))] = h[Drop(s, Size(x, s))]
    BY <2>2
  <2> QED  BY <1>3, <2>3 DEF ReadingStep
<1>4. CASE s # <<>> /\ ~Waiting(x, s) /\ ~Complete(x, s)
  <2>1. 1 \in 0 .. Len(s)
    BY <1>1, <1>4, EmptySeq
  <2>2. Drop(s, 1) \in Inputs(x) /\ Len(Drop(s, 1)) < Len(s)
    BY <1>1, <2>1, DropOfInput
  <2>3. g[Drop(s, 1)] = h[Drop(s, 1)]
    BY <2>2
  <2> QED  BY <1>4, <2>3 DEF ReadingStep
<1> QED  BY <1>2, <1>3, <1>4

\* Its recursive definition defines it.
LEMMA ReadingUnfolds ==
    ASSUME NEW x \in Extractors
    PROVE  Reading[x] = [s \in Inputs(x) |-> ReadingStep(x, Reading[x], s)]
<1>1. ASSUME NEW y \in Extractors
      PROVE  \E f : f = [s \in Inputs(y) |-> ReadingStep(y, f, s)]
  <2> DEFINE S == Inputs(y)
  <2> DEFINE R == Results(y)
  <2> DEFINE F == [g \in [S -> R] |-> [s \in S |-> ReadingStep(y, g, s)]]
  <2>1. \A g \in [S -> R] : \A s \in S : ReadingStep(y, g, s) \in R
    BY ReadingStepType
  <2>2. \A s \in S : Len(s) \in 0 .. MaxStream
    BY InputLength
  <2>3. \A g, h \in [S -> R] : \A s \in S :
          (\A t \in S : Len(t) < Len(s) => g[t] = h[t])
            => ReadingStep(y, g, s) = ReadingStep(y, h, s)
    BY ReadingStepLocal
  <2>4. [s \in S |-> Leaves(s)] \in [S -> R]
    BY LeavesProperties DEF Results
  <2> HIDE DEF S, R
  <2>5. F \in [[S -> R] -> [S -> R]]
    BY <2>1
  <2>6. \A g, h \in [S -> R] : \A s \in S :
          (\A t \in S : Len(t) < Len(s) => g[t] = h[t]) => F[g][s] = F[h][s]
    BY <2>3
  <2>7. \A g \in [S -> R] : F[g] = [s \in S |-> ReadingStep(y, g, s)]
    OBVIOUS
  <2> HIDE DEF F
  <2>8. MaxStream \in Nat
    BY StreamFramesAssumption
  <2>9. LooksAtShorter(F, S, R, MaxStream)
    BY <2>2, <2>5, <2>6 DEF LooksAtShorter
  <2>10. [S -> R] # {}
    BY <2>4
  <2>11. PICK f \in [S -> R] : f = F[f]
    BY <2>8, <2>9, <2>10, FixedPoint
  <2>12. f = [s \in S |-> ReadingStep(y, f, s)]
    BY <2>7, <2>11
  <2> QED  BY <2>12 DEF S
<1>2. \E ff : ff = [y \in Extractors |-> [s \in Inputs(y) |-> ReadingStep(y, ff[y], s)]]
  <2> DEFINE ff == [y \in Extractors |->
                      CHOOSE f : f = [s \in Inputs(y) |-> ReadingStep(y, f, s)]]
  <2>1. ASSUME NEW y \in Extractors
        PROVE  ff[y] = [s \in Inputs(y) |-> ReadingStep(y, ff[y], s)]
    BY <1>1
  <2>2. ff = [y \in Extractors |-> ff[y]]
    OBVIOUS
  <2> HIDE DEF ff
  <2>3. ff = [y \in Extractors |-> [s \in Inputs(y) |-> ReadingStep(y, ff[y], s)]]
    BY <2>1, <2>2
  <2> QED  BY <2>3
<1>3. Reading =
        CHOOSE ff : ff = [y \in Extractors |-> [s \in Inputs(y) |-> ReadingStep(y, ff[y], s)]]
  BY DEF Reading, ReadingStep
<1>4. Reading = [y \in Extractors |-> [s \in Inputs(y) |-> ReadingStep(y, Reading[y], s)]]
  BY <1>2, <1>3
<1> QED  BY <1>4

\* The same, for an input.
LEMMA ReadingIs ==
    ASSUME NEW x \in Extractors, NEW s \in Inputs(x)
    PROVE  /\ s = <<>> \/ Waiting(x, s) => Reading[x][s] = Leaves(s)
           /\ s # <<>> /\ ~Waiting(x, s) /\ Complete(x, s) =>
                Reading[x][s] = Finds(Take(s, Size(x, s)), Reading[x][Drop(s, Size(x, s))])
           /\ s # <<>> /\ ~Waiting(x, s) /\ ~Complete(x, s) =>
                Reading[x][s] = Reading[x][Drop(s, 1)]
<1> DEFINE g == Reading[x]
<1>1. g = [t \in Inputs(x) |-> ReadingStep(x, g, t)]
  BY ReadingUnfolds
<1> HIDE DEF g
<1>2. g[s] = ReadingStep(x, g, s)
  BY <1>1
<1> QED  BY <1>2 DEF ReadingStep, g

\* What is left to read is shorter, after a step that does not end the reading.
LEMMA ReadingContinues ==
    ASSUME NEW x \in Extractors, NEW s \in Inputs(x), s # <<>>
    PROVE  /\ Drop(s, 1) \in Inputs(x) /\ Len(Drop(s, 1)) < Len(s)
           /\ 1 \in 0 .. Len(s)
           /\ Complete(x, s) => /\ Drop(s, Size(x, s)) \in Inputs(x)
                                /\ Len(Drop(s, Size(x, s))) < Len(s)
                                /\ Size(x, s) \in 0 .. Len(s)
<1>1. s \in Seq(Bytes[x]) /\ Len(s) \in Nat
  BY InputLength
<1>2. 1 \in 0 .. Len(s)
  BY <1>1, EmptySeq
<1>3. Complete(x, s) => Size(x, s) \in 1 .. Len(s) /\ Size(x, s) \in 0 .. Len(s)
  BY <1>1, CompleteSize
<1> QED  BY <1>1, <1>2, <1>3, DropOfInput

\* The reading has its type; it ends before a frame that may become complete.
LEMMA ReadingRest ==
    ASSUME NEW x \in Extractors, NEW s \in Inputs(x)
    PROVE  /\ Reading[x][s] \in Results(x)
           /\ Len(Reading[x][s].buffer) <= Len(s)
           /\ Reading[x][s].buffer = <<>> \/ Waiting(x, Reading[x][s].buffer)
<1> DEFINE Good(t) == /\ Reading[x][t] \in Results(x)
                      /\ Len(Reading[x][t].buffer) <= Len(t)
                      /\ Reading[x][t].buffer = <<>> \/ Waiting(x, Reading[x][t].buffer)
<1> DEFINE T == {t \in Inputs(x) : Good(t)}
<1>1. ASSUME NEW t \in Inputs(x),
             \A u \in Inputs(x) : Len(u) < Len(t) => u \in T
      PROVE  t \in T
  <2>1. Len(t) \in Nat
    BY InputLength
  <2>2. CASE t = <<>> \/ Waiting(x, t)
    <3>1. Reading[x][t] = Leaves(t)
      BY <2>2, ReadingIs
    <3>2. Leaves(t) \in Results(x) /\ Leaves(t).buffer = t
      BY LeavesProperties DEF Results, Leaves
    <3> QED  BY <2>1, <2>2, <3>1, <3>2
  <2>3. CASE t # <<>> /\ ~Waiting(x, t) /\ Complete(x, t)
    <3> DEFINE u == Drop(t, Size(x, t))
    <3>1. u \in Inputs(x) /\ Len(u) < Len(t)
      BY <2>3, ReadingContinues
    <3>2. Good(u)
      BY <1>1, <3>1
    <3>3. Take(t, Size(x, t)) \in Seq(Bytes[x])
      BY <2>3, CompleteSize
    <3>4. Reading[x][t] = Finds(Take(t, Size(x, t)), Reading[x][u])
      BY <2>3, ReadingIs
    <3>5. Reading[x][t] \in Results(x) /\ Reading[x][t].buffer = Reading[x][u].buffer
      <4>1. Finds(Take(t, Size(x, t)), Reading[x][u]) \in Results(x)
        BY <3>2, <3>3, FindsProperties DEF Results
      <4>2. Finds(Take(t, Size(x, t)), Reading[x][u]).buffer = Reading[x][u].buffer
        BY DEF Finds
      <4> QED  BY <3>4, <4>1, <4>2
    <3>6. Reading[x][u].buffer \in Inputs(x)
      BY <3>2 DEF Results
    <3>7. Len(Reading[x][u].buffer) \in Nat /\ Len(u) \in Nat
      BY <3>1, <3>6, InputLength
    <3> QED  BY <2>1, <3>1, <3>2, <3>5, <3>7
  <2>4. CASE t # <<>> /\ ~Waiting(x, t) /\ ~Complete(x, t)
    <3> DEFINE u == Drop(t, 1)
    <3>1. u \in Inputs(x) /\ Len(u) < Len(t)
      BY <2>4, ReadingContinues
    <3>2. Good(u)
      BY <1>1, <3>1
    <3>3. Reading[x][t] = Reading[x][u]
      BY <2>4, ReadingIs
    <3>4. Reading[x][u].buffer \in Inputs(x)
      BY <3>2 DEF Results
    <3>5. Len(Reading[x][u].buffer) \in Nat /\ Len(u) \in Nat
      BY <3>1, <3>4, InputLength
    <3> QED  BY <2>1, <3>1, <3>2, <3>3, <3>5
  <2> QED  BY <2>2, <2>3, <2>4
<1>2. \A t \in Inputs(x) : Len(t) \in Nat
  BY InputLength
<1> HIDE DEF T
<1>3. Inputs(x) \subseteq T
  BY <1>1, <1>2, LengthInduction
<1> QED  BY <1>3 DEF T

\* What an extractor may return: a whole frame of the protocol and nothing beside.
Whole(x) == {f \in Seq(Bytes[x]) : Complete(x, f) /\ Len(f) = Size(x, f)}

LEMMA CompleteIsWhole ==
    ASSUME NEW x \in Extractors, NEW s \in Inputs(x), Complete(x, s)
    PROVE  Take(s, Size(x, s)) \in Whole(x)
<1> DEFINE n == Size(x, s)
<1> DEFINE f == Take(s, n)
<1>1. s \in Seq(Bytes[x]) /\ Len(s) \in Nat
  BY InputLength
<1>2. n \in 1 .. Len(s) /\ n \in 0 .. Len(s)
  BY CompleteSize
<1>3. f \in Seq(Bytes[x]) /\ Len(f) = n /\ \A i \in 1 .. n : f[i] = s[i]
  BY <1>1, <1>2, TakeProperties
<1>4. Take(f, n) = f
  BY <1>3, SubSeqFull DEF Take
<1>5. CASE x = "generic"
  <2>1. GenericHeader \in 1 .. Len(s)
    BY <1>1, <1>5, StreamFramesAssumption DEF Complete, HeaderLength
  <2>2. n = GenericHeader + s[GenericHeader] + 1 /\ s[GenericHeader] \in Nat
    BY <1>1, <1>5, <2>1, ElementOfSeq, StreamFramesAssumption DEF Size, GenericSize
  <2>3. GenericHeader \in 1 .. n /\ 1 \in 1 .. n
    BY <1>2, <2>1, <2>2
  <2> HIDE DEF f, n
  <2>4. f[1] = s[1] /\ f[GenericHeader] = s[GenericHeader]
    BY <1>3, <2>3
  <2>5. Size(x, f) = n
    BY <1>5, <2>2, <2>4 DEF Size, GenericSize
  <2>6. Candidate(x, f)
    BY <1>5, <2>4 DEF Complete, Candidate
  <2>7. Complete(x, f)
    BY <1>2, <1>3, <1>5, <2>3, <2>5, <2>6 DEF Complete, HeaderLength
  <2> QED  BY <1>3, <2>5, <2>7 DEF Whole, f, n
<1>6. CASE x = "chainway"
  <2>1. Plausible(n) /\ ChecksumOK(f) /\ Candidate(x, s)
    BY <1>6 DEF Complete
  <2>2. ChainwayHeader \in 1 .. n /\ 1 \in 1 .. n /\ 2 \in 1 .. n /\ ChainwayHeader <= n
    BY <1>2, <2>1, StreamFramesAssumption DEF Plausible
  <2>3. n = s[ChainwayHeader]
    BY <1>6 DEF Size
  <2> HIDE DEF f, n
  <2>4. f[1] = s[1] /\ f[2] = s[2] /\ f[ChainwayHeader] = s[ChainwayHeader]
    BY <1>3, <2>2
  <2>5. Size(x, f) = n
    BY <1>6, <2>3, <2>4 DEF Size
  <2>6. Candidate(x, f)
    BY <1>2, <1>3, <1>6, <2>1, <2>2, <2>4 DEF Candidate
  <2>7. Complete(x, f)
    BY <1>2, <1>3, <1>4, <1>6, <2>1, <2>2, <2>5, <2>6 DEF Complete, HeaderLength
  <2> QED  BY <1>3, <2>5, <2>7 DEF Whole, f, n
<1> QED  BY <1>5, <1>6, StreamFramesAssumption

\* Every frame the reading finds is whole.
LEMMA ReadingIsWhole ==
    ASSUME NEW x \in Extractors, NEW s \in Inputs(x)
    PROVE  Reading[x][s].frames \in Seq(Whole(x))
<1> DEFINE T == {t \in Inputs(x) : Reading[x][t].frames \in Seq(Whole(x))}
<1>1. ASSUME NEW t \in Inputs(x),
             \A u \in Inputs(x) : Len(u) < Len(t) => u \in T
      PROVE  Reading[x][t].frames \in Seq(Whole(x))
  <2>1. CASE t = <<>> \/ Waiting(x, t)
    <3> SUFFICES Reading[x][t].frames = <<>>
      BY EmptySeq
    <3>1. Reading[x][t] = Leaves(t)
      BY <2>1, ReadingIs
    <3>2. Leaves(t).frames = <<>>
      BY DEF Leaves
    <3> QED  BY <3>1, <3>2
  <2>2. CASE t # <<>> /\ ~Waiting(x, t) /\ Complete(x, t)
    <3> DEFINE u == Drop(t, Size(x, t))
    <3> DEFINE f == Take(t, Size(x, t))
    <3>1. u \in Inputs(x) /\ Len(u) < Len(t)
      BY <2>2, ReadingContinues
    <3>2. Reading[x][u].frames \in Seq(Whole(x))
      BY <1>1, <3>1
    <3>3. <<f>> \in Seq(Whole(x))
      BY <2>2, CompleteIsWhole, OneItem
    <3>4. Reading[x][t] = Finds(f, Reading[x][u])
      BY <2>2, ReadingIs
    <3> HIDE DEF f, u
    <3>5. Reading[x][t].frames = <<f>> \o Reading[x][u].frames
      BY <3>4 DEF Finds
    <3> QED  BY <3>2, <3>3, <3>5, ConcatProperties
  <2>3. CASE t # <<>> /\ ~Waiting(x, t) /\ ~Complete(x, t)
    <3>1. Drop(t, 1) \in Inputs(x) /\ Len(Drop(t, 1)) < Len(t)
      BY <2>3, ReadingContinues
    <3>2. Reading[x][t] = Reading[x][Drop(t, 1)]
      BY <2>3, ReadingIs
    <3> QED  BY <1>1, <3>1, <3>2
  <2> QED  BY <2>1, <2>2, <2>3
<1>2. \A t \in Inputs(x) : Len(t) \in Nat
  BY InputLength
<1>3. \A t \in Inputs(x) : (\A u \in Inputs(x) : Len(u) < Len(t) => u \in T) => t \in T
  BY <1>1
<1> HIDE DEF T
<1>4. Inputs(x) \subseteq T
  BY <1>2, <1>3, LengthInduction
<1> QED  BY <1>4 DEF T

\* More bytes do not change what is known of a place that does not wait.
LEMMA DecisionsAreFinal ==
    ASSUME NEW x \in Extractors, NEW s \in Inputs(x), NEW t \in Seq(Bytes[x]),
           s \o t \in Inputs(x), s # <<>>, ~Waiting(x, s)
    PROVE  /\ s \o t # <<>>
           /\ ~Waiting(x, s \o t)
           /\ Complete(x, s \o t) <=> Complete(x, s)
           /\ Complete(x, s) => Size(x, s \o t) = Size(x, s)
<1> DEFINE u == s \o t
<1>1. s \in Seq(Bytes[x]) /\ Len(s) \in Nat \ {0} /\ Len(t) \in Nat
  BY InputLength, EmptySeq, LenProperties
<1>2. /\ Len(u) = Len(s) + Len(t)
      /\ \A i \in 1 .. Len(s) : u[i] = s[i]
  BY <1>1, ConcatProperties
<1>3. \A n \in 0 .. Len(s) : Take(u, n) = Take(s, n)
  BY <1>1, TakeOfConcat
<1>4. u # <<>>
  BY <1>1, <1>2
<1>5. \A i \in 1 .. Len(s) : s[i] \in Nat
  BY <1>1, ElementOfSeq, StreamFramesAssumption
<1> HIDE DEF u
<1>6. 1 \in 1 .. Len(s) /\ s[1] = u[1]
  BY <1>1, <1>2
<1>7. CASE x = "generic"
  <2>1. Candidate(x, u) <=> Candidate(x, s)
    BY <1>6, <1>7 DEF Candidate
  <2>2. CASE ~Candidate(x, s)
    <3>1. ~Waiting(x, u)
      BY <1>7, <2>1, <2>2 DEF Waiting
    <3>2. ~Complete(x, u) /\ ~Complete(x, s)
      BY <2>1, <2>2 DEF Complete
    <3> QED  BY <1>4, <3>1, <3>2 DEF u
  <2>3. CASE Candidate(x, s)
    <3>1. GenericHeader \in 1 .. Len(s)
      BY <1>1, <1>7, <2>3, StreamFramesAssumption DEF Waiting, HeaderLength
    <3>2. u[GenericHeader] = s[GenericHeader] /\ s[GenericHeader] \in Nat
      BY <1>2, <1>5, <3>1
    <3>3. Size(x, u) = Size(x, s) /\ Size(x, s) \in Nat
      BY <1>7, <3>1, <3>2 DEF Size, GenericSize
    <3>4. ~(Len(s) < Size(x, s))
      BY <1>7, <2>3 DEF Waiting
    <3>5. Len(u) >= Size(x, u) /\ Len(u) >= HeaderLength(x)
      BY <1>1, <1>2, <1>7, <3>1, <3>3, <3>4 DEF HeaderLength
    <3>6. ~Waiting(x, u) /\ Complete(x, u)
      BY <1>1, <1>2, <1>7, <2>1, <2>3, <3>1, <3>3, <3>5 DEF Waiting, Complete, HeaderLength
    <3>7. Complete(x, s)
      BY <1>1, <1>7, <2>3, <3>1, <3>3, <3>4 DEF Complete, HeaderLength
    <3> QED  BY <1>4, <3>3, <3>6, <3>7 DEF u
  <2> QED  BY <2>2, <2>3
<1>8. CASE x = "chainway"
  <2>1. CASE Len(s) = 1
    <3>1. s = <<s[1]>>
      BY <1>1, <2>1
    <3>2. s[1] # Header1
      BY <1>8, <2>1, <3>1, StreamFramesAssumption DEF Waiting, HeaderLength
    <3>3. ~Candidate(x, u) /\ ~Candidate(x, s) /\ u # <<Header1>>
      BY <1>6, <1>8, <3>2 DEF Candidate
    <3> QED  BY <1>4, <3>3 DEF Waiting, Complete, u
  <2>2. CASE Len(s) > 1
    <3>1. 2 \in 1 .. Len(s) /\ u[2] = s[2] /\ Len(u) > 1
      BY <1>1, <1>2, <2>2
    <3>2. Candidate(x, u) <=> Candidate(x, s)
      BY <1>6, <1>8, <2>2, <3>1 DEF Candidate
    <3>3. u # <<Header1>>
      BY <3>1
    <3>4. CASE ~Candidate(x, s)
      BY <1>4, <3>2, <3>3, <3>4 DEF Waiting, Complete, u
    <3>5. CASE Candidate(x, s)
      <4>1. ChainwayHeader \in 1 .. Len(s)
        BY <1>1, <1>8, <3>5, StreamFramesAssumption DEF Waiting, HeaderLength
      <4>2. Size(x, u) = Size(x, s) /\ Size(x, s) \in Nat
        BY <1>2, <1>5, <1>8, <4>1 DEF Size
      <4>3. ~(Len(s) < Size(x, s)) \/ ~Plausible(Size(x, s))
        BY <1>8, <3>5 DEF Waiting
      <4>4. ~(Len(u) < HeaderLength(x)) /\ Len(u) >= HeaderLength(x) /\ Len(s) >= HeaderLength(x)
        BY <1>1, <1>2, <1>8, <4>1 DEF HeaderLength
      <4>5. CASE ~Plausible(Size(x, s))
        BY <1>4, <1>8, <3>3, <4>2, <4>4, <4>5 DEF Waiting, Complete, u
      <4>6. CASE Plausible(Size(x, s))
        <5>1. /\ Len(s) >= Size(x, s) /\ Len(u) >= Size(x, u)
              /\ ~(Len(u) < Size(x, u)) /\ Size(x, s) \in 0 .. Len(s)
          BY <1>1, <1>2, <4>2, <4>3, <4>6
        <5>2. Take(u, Size(x, u)) = Take(s, Size(x, s))
          BY <1>3, <4>2, <5>1 DEF u
        <5>3. ~Waiting(x, u)
          BY <3>3, <4>4, <5>1 DEF Waiting
        <5>4. Complete(x, u) <=> Complete(x, s)
          BY <3>2, <4>2, <4>4, <5>1, <5>2 DEF Complete
        <5> QED  BY <1>4, <4>2, <5>3, <5>4 DEF u
      <4> QED  BY <4>5, <4>6
    <3> QED  BY <3>4, <3>5
  <2>3. Len(s) = 1 \/ Len(s) > 1
    <3>1. \A n \in Nat \ {0} : n = 1 \/ n > 1
      OBVIOUS
    <3> QED  BY <1>1, <3>1
  <2> QED  BY <2>1, <2>2, <2>3
<1> QED  BY <1>7, <1>8, StreamFramesAssumption

\* Reading on: more bytes are read from where the reading ended.
LEMMA ReadingOfConcat ==
    ASSUME NEW x \in Extractors, NEW s \in Inputs(x), NEW t \in Seq(Bytes[x]),
           s \o t \in Inputs(x)
    PROVE  LET rest == Reading[x][s].buffer \o t
           IN  /\ rest \in Inputs(x)
               /\ Reading[x][s \o t].buffer = Reading[x][rest].buffer
               /\ Reading[x][s \o t].frames = Reading[x][s].frames \o Reading[x][rest].frames
<1> DEFINE Rest(v) == Reading[x][v].buffer \o t
<1> DEFINE Good(v) ==
      v \o t \in Inputs(x) =>
        /\ Rest(v) \in Inputs(x)
        /\ Reading[x][v \o t].buffer = Reading[x][Rest(v)].buffer
        /\ Reading[x][v \o t].frames = Reading[x][v].frames \o Reading[x][Rest(v)].frames
<1> DEFINE T == {v \in Inputs(x) : Good(v)}
<1>1. ASSUME NEW v \in Inputs(x),
             \A u \in Inputs(x) : Len(u) < Len(v) => u \in T,
             v \o t \in Inputs(x)
      PROVE  Good(v)
  <2>1. v \in Seq(Bytes[x]) /\ Len(v) \in Nat
    BY InputLength
  <2>2. Reading[x][v \o t] \in Results(x)
    BY <1>1, ReadingRest
  <2>3. CASE v = <<>> \/ Waiting(x, v)
    <3>1. Reading[x][v].buffer = v /\ Reading[x][v].frames = <<>>
      <4>1. Reading[x][v] = Leaves(v)
        BY <2>3, ReadingIs
      <4> QED  BY <4>1 DEF Leaves
    <3>2. Reading[x][v \o t].frames \in Seq(Seq(Bytes[x]))
      BY <2>2 DEF Results
    <3>3. <<>> \o Reading[x][v \o t].frames = Reading[x][v \o t].frames
      BY <3>2, ConcatEmptySeq
    <3> QED  BY <1>1, <3>1, <3>3
  <2>4. CASE v # <<>> /\ ~Waiting(x, v)
    <3>1. /\ v \o t # <<>> /\ ~Waiting(x, v \o t)
          /\ Complete(x, v \o t) <=> Complete(x, v)
          /\ Complete(x, v) => Size(x, v \o t) = Size(x, v)
      BY <1>1, <2>4, DecisionsAreFinal
    <3>2. CASE Complete(x, v)
      <4> DEFINE n == Size(x, v)
      <4> DEFINE u == Drop(v, n)
      <4>1. u \in Inputs(x) /\ Len(u) < Len(v) /\ n \in 0 .. Len(v)
        BY <2>4, <3>2, ReadingContinues
      <4>2. Drop(v \o t, n) = u \o t /\ Take(v \o t, n) = Take(v, n)
        BY <2>1, <4>1, DropOfConcat, TakeOfConcat
      <4>3. u \o t \in Inputs(x)
        <5>1. Drop(v \o t, Size(x, v \o t)) \in Inputs(x)
          BY <1>1, <3>1, <3>2, ReadingContinues
        <5> QED  BY <3>1, <3>2, <4>2, <5>1
      <4>4. /\ Rest(u) \in Inputs(x)
            /\ Reading[x][u \o t].buffer = Reading[x][Rest(u)].buffer
            /\ Reading[x][u \o t].frames = Reading[x][u].frames \o Reading[x][Rest(u)].frames
        BY <1>1, <4>1, <4>3
      <4>5. Reading[x][v] = Finds(Take(v, n), Reading[x][u])
        BY <2>4, <3>2, ReadingIs
      <4>6. Reading[x][v \o t] = Finds(Take(v, n), Reading[x][u \o t])
        <5>1. Reading[x][v \o t] =
                Finds(Take(v \o t, Size(x, v \o t)), Reading[x][Drop(v \o t, Size(x, v \o t))])
          BY <1>1, <3>1, <3>2, ReadingIs
        <5> QED  BY <3>1, <3>2, <4>2, <5>1
      <4>7. Reading[x][u] \in Results(x) /\ Reading[x][Rest(u)] \in Results(x)
        BY <4>1, <4>3, <4>4, ReadingRest
      <4>8. Take(v, n) \in Seq(Bytes[x])
        BY <3>2, CompleteSize
      <4> HIDE DEF u, n
      <4> DEFINE p == <<Take(v, n)>>
      <4> DEFINE q == Reading[x][u].frames
      <4> DEFINE r == Reading[x][Rest(u)].frames
      <4>9. p \in Seq(Seq(Bytes[x])) /\ q \in Seq(Seq(Bytes[x])) /\ r \in Seq(Seq(Bytes[x]))
        <5>1. p \in Seq(Seq(Bytes[x]))
          BY <4>8, OneFrame
        <5>2. q \in Seq(Seq(Bytes[x])) /\ r \in Seq(Seq(Bytes[x]))
          BY <4>7 DEF Results
        <5> QED  BY <5>1, <5>2
      <4>10. Reading[x][v].buffer = Reading[x][u].buffer /\ Reading[x][v].frames = p \o q
        <5>1. /\ Finds(Take(v, n), Reading[x][u]).buffer = Reading[x][u].buffer
              /\ Finds(Take(v, n), Reading[x][u]).frames = p \o q
          BY FindsParts
        <5> QED  BY <4>5, <5>1, Zenon
      <4>11. Rest(v) = Rest(u)
        BY <4>10, Zenon
      <4> HIDE DEF Rest
      <4>12. /\ Reading[x][v \o t].buffer = Reading[x][Rest(u)].buffer
             /\ Reading[x][v \o t].frames = p \o (q \o r)
        <5>1. /\ Reading[x][v \o t].buffer = Reading[x][u \o t].buffer
              /\ Reading[x][v \o t].frames = p \o Reading[x][u \o t].frames
          <6>1. /\ Finds(Take(v, n), Reading[x][u \o t]).buffer = Reading[x][u \o t].buffer
                /\ Finds(Take(v, n), Reading[x][u \o t]).frames
                     = p \o Reading[x][u \o t].frames
            BY FindsParts
          <6> QED  BY <4>6, <6>1, Zenon
        <5> QED  BY <4>4, <5>1, Zenon
      <4> HIDE DEF p, q
      <4>13. (p \o q) \o r = p \o (q \o r)
        <5> HIDE DEF r
        <5> QED  BY <4>9, ConcatAssociative
      <4>14. Reading[x][v \o t].frames = Reading[x][v].frames \o Reading[x][Rest(v)].frames
        BY <4>10, <4>11, <4>12, <4>13, Zenon
      <4>15. Rest(v) \in Inputs(x)
        BY <4>4, <4>11, Zenon
      <4>16. Reading[x][v \o t].buffer = Reading[x][Rest(v)].buffer
        BY <4>11, <4>12
      <4> QED  BY <4>14, <4>15, <4>16, Zenon DEF Rest
    <3>3. CASE ~Complete(x, v)
      <4> DEFINE u == Drop(v, 1)
      <4>1. u \in Inputs(x) /\ Len(u) < Len(v) /\ 1 \in 0 .. Len(v)
        BY <2>4, ReadingContinues
      <4>2. Drop(v \o t, 1) = u \o t
        BY <2>1, <4>1, DropOfConcat
      <4>3. u \o t \in Inputs(x)
        BY <1>1, <3>1, <4>2, ReadingContinues
      <4>4. Good(u)
        BY <1>1, <4>1
      <4>5. Reading[x][v] = Reading[x][u]
        BY <2>4, <3>3, ReadingIs
      <4>6. Reading[x][v \o t] = Reading[x][u \o t]
        BY <1>1, <3>1, <3>3, <4>2, ReadingIs
      <4> QED  BY <4>3, <4>4, <4>5, <4>6
    <3> QED  BY <3>2, <3>3
  <2> QED  BY <2>3, <2>4
<1>2. \A v \in Inputs(x) : Len(v) \in Nat
  BY InputLength
<1>3. \A v \in Inputs(x) : (\A u \in Inputs(x) : Len(u) < Len(v) => u \in T) => v \in T
  BY <1>1
<1> HIDE DEF T
<1>4. Inputs(x) \subseteq T
  BY <1>2, <1>3, LengthInduction
<1> QED  BY <1>4 DEF T

\* Places that neither wait nor have a frame are passed over.
LEMMA ReadingSkips ==
    ASSUME NEW x \in Extractors, NEW s \in Inputs(x), NEW k \in 0 .. Len(s),
           \A i \in 1 .. k : ~Waiting(x, Drop(s, i - 1)) /\ ~Complete(x, Drop(s, i - 1))
    PROVE  Reading[x][s] = Reading[x][Drop(s, k)]
<1> DEFINE Passed(t, n) ==
      \A i \in 1 .. n : ~Waiting(x, Drop(t, i - 1)) /\ ~Complete(x, Drop(t, i - 1))
<1> DEFINE T == {t \in Inputs(x) : \A n \in 0 .. Len(t) :
                   Passed(t, n) => Reading[x][t] = Reading[x][Drop(t, n)]}
<1>1. ASSUME NEW t \in Inputs(x), \A u \in Inputs(x) : Len(u) < Len(t) => u \in T,
             NEW n \in 0 .. Len(t), Passed(t, n)
      PROVE  Reading[x][t] = Reading[x][Drop(t, n)]
  <2>1. t \in Seq(Bytes[x]) /\ Len(t) \in Nat
    BY InputLength
  <2>2. CASE n = 0
    BY <2>1, <2>2, DropNothing
  <2>3. CASE n # 0
    <3> DEFINE u == Drop(t, 1)
    <3>1. n \in 1 .. Len(t) /\ t # <<>>
      BY <2>1, <2>3, EmptySeq
    <3>2. u \in Inputs(x) /\ Len(u) < Len(t) /\ 1 \in 0 .. Len(t)
      BY <3>1, ReadingContinues
    <3>3. Len(u) = Len(t) - 1 /\ n - 1 \in 0 .. Len(u)
      BY <2>1, <3>1, <3>2, DropOfInput
    <3>4. \A m \in 0 .. n - 1 : Drop(u, m) = Drop(t, m + 1)
      <4> SUFFICES ASSUME NEW m \in 0 .. n - 1  PROVE Drop(u, m) = Drop(t, m + 1)
        OBVIOUS
      <4>1. m \in 0 .. Len(t) - 1 /\ 1 + m = m + 1
        BY <2>1, <3>1
      <4> QED  BY <2>1, <3>2, <4>1, DropTwice
    <3>5. ~Waiting(x, t) /\ ~Complete(x, t)
      <4>1. 1 \in 1 .. n /\ 1 - 1 = 0
        BY <3>1
      <4>2. ~Waiting(x, Drop(t, 0)) /\ ~Complete(x, Drop(t, 0))
        BY <1>1, <4>1
      <4> QED  BY <2>1, <4>2, DropNothing
    <3>6. Passed(u, n - 1)
      <4> SUFFICES ASSUME NEW i \in 1 .. n - 1
                   PROVE  ~Waiting(x, Drop(u, i - 1)) /\ ~Complete(x, Drop(u, i - 1))
        OBVIOUS
      <4>1. i - 1 \in 0 .. n - 1 /\ i - 1 + 1 = i + 1 - 1 /\ i + 1 \in 1 .. n
        BY <3>1
      <4>2. Drop(u, i - 1) = Drop(t, i + 1 - 1)
        BY <3>4, <4>1
      <4>3. ~Waiting(x, Drop(t, i + 1 - 1)) /\ ~Complete(x, Drop(t, i + 1 - 1))
        BY <1>1, <4>1
      <4> QED  BY <4>2, <4>3
    <3>7. u \in T
      BY <1>1, <3>2
    <3>8. Reading[x][u] = Reading[x][Drop(u, n - 1)]
      BY <3>3, <3>6, <3>7
    <3>9. Reading[x][t] = Reading[x][u]
      BY <3>1, <3>5, ReadingIs
    <3>10. Drop(u, n - 1) = Drop(t, n)
      <4>1. n - 1 \in 0 .. n - 1 /\ n - 1 + 1 = n
        BY <3>1
      <4> QED  BY <3>4, <4>1
    <3> QED  BY <3>8, <3>9, <3>10
  <2> QED  BY <2>2, <2>3
<1>2. \A t \in Inputs(x) : Len(t) \in Nat
  BY InputLength
<1>3. \A t \in Inputs(x) : (\A u \in Inputs(x) : Len(u) < Len(t) => u \in T) => t \in T
  BY <1>1
<1>4. s \in T => Reading[x][s] = Reading[x][Drop(s, k)]
  OBVIOUS
<1> HIDE DEF T
<1>5. Inputs(x) \subseteq T
  BY <1>2, <1>3, LengthInduction
<1> QED  BY <1>4, <1>5

-----------------------------------------------------------------------------
(* The generic extractor. *)

Extractions == [buffer : Buffers, frames : Seq(Seq(Nat))]

GenericStep(g, b) ==
    LET soi  == firstSOIIndex(b)
        rest == Drop(b, soi - 1)
        size == GenericSize(rest)
    IN  IF soi = 0 THEN Leaves(<<>>)
        ELSE IF Len(rest) <= GenericHeader \/ Len(rest) < size THEN Leaves(rest)
        ELSE Finds(Take(rest, size), g[Drop(rest, size)])

\* A buffer is a short sequence of numbers, and so is a suffix of it.
LEMMA BufferLength ==
    ASSUME NEW b \in Buffers
    PROVE  b \in Seq(Nat) /\ Len(b) \in 0 .. MaxBuffer + MaxChunk
BY StreamFramesAssumption, LenProperties DEF Buffers

LEMMA CapIsNatural == MaxBuffer + MaxChunk \in Nat
BY StreamFramesAssumption

LEMMA DropOfBuffer ==
    ASSUME NEW b \in Buffers, NEW n \in 0 .. Len(b)
    PROVE  Drop(b, n) \in Buffers /\ Len(Drop(b, n)) = Len(b) - n
<1>1. b \in Seq(Nat) /\ Len(b) \in 0 .. MaxBuffer + MaxChunk /\ MaxBuffer + MaxChunk \in Nat
  BY BufferLength, CapIsNatural
<1>2. Drop(b, n) \in Seq(Nat) /\ Len(Drop(b, n)) = Len(b) - n
  BY <1>1, DropProperties
<1> QED  BY <1>1, <1>2 DEF Buffers

LEMMA EmptyBuffer == <<>> \in Buffers
<1>1. <<>> \in Seq(Nat) /\ Len(<<>>) = 0
  BY EmptySeq
<1> QED  BY <1>1, CapIsNatural DEF Buffers

\* firstSOIIndex is the place of the first start byte, or 0 when there is none.
LEMMA FirstSOI ==
    ASSUME NEW b \in Seq(Nat)
    PROVE  /\ firstSOIIndex(b) \in 0 .. Len(b)
           /\ firstSOIIndex(b) = 0 => \A i \in 1 .. Len(b) : b[i] \notin Starts
           /\ firstSOIIndex(b) # 0 =>
                /\ b[firstSOIIndex(b)] \in Starts
                /\ \A i \in 1 .. firstSOIIndex(b) - 1 : b[i] \notin Starts
<1> DEFINE I == {i \in 1 .. Len(b) : b[i] \in Starts}
<1>1. firstSOIIndex(b) = IF I # {} THEN Min(I) ELSE 0
  BY DEF firstSOIIndex, SelectInSeq
<1>2. Len(b) \in Nat
  BY LenProperties
<1>3. CASE I = {}
  BY <1>1, <1>2, <1>3
<1>4. CASE I # {}
  <2>1. I \in SUBSET Nat
    BY <1>2
  <2>2. Min(I) \in I /\ \A i \in I : Min(I) <= i
    BY <1>4, <2>1, MinIsLeast
  <2>3. firstSOIIndex(b) = Min(I)
    BY <1>1, <1>4
  <2> DEFINE first == firstSOIIndex(b)
  <2>4. first \in 1 .. Len(b) /\ b[first] \in Starts
    BY <2>2, <2>3
  <2>5. ASSUME NEW i \in 1 .. first - 1  PROVE b[i] \notin Starts
    <3>1. i \in 1 .. Len(b) /\ ~(first <= i)
      BY <1>2, <2>4
    <3>2. i \notin I
      BY <2>2, <2>3, <3>1
    <3> QED  BY <3>1, <3>2
  <2> QED  BY <1>2, <2>4, <2>5
<1> QED  BY <1>3, <1>4

\* What a step of the search works on.
LEMMA GenericRest ==
    ASSUME NEW b \in Buffers, firstSOIIndex(b) # 0,
           NEW rest, rest = Drop(b, firstSOIIndex(b) - 1)
    PROVE  /\ firstSOIIndex(b) - 1 \in 0 .. Len(b)
           /\ rest \in Buffers /\ rest # <<>>
           /\ rest[1] \in Starts
           /\ Len(rest) \in Nat /\ Len(rest) <= Len(b)
           /\ Len(rest) > GenericHeader => GenericSize(rest) \in Nat \ {0}
           /\ Len(rest) > GenericHeader /\ ~(Len(rest) < GenericSize(rest)) =>
                /\ GenericSize(rest) \in 0 .. Len(rest)
                /\ Take(rest, GenericSize(rest)) \in Seq(Nat)
                /\ Drop(rest, GenericSize(rest)) \in Buffers
                /\ Len(Drop(rest, GenericSize(rest))) < Len(b)
<1> DEFINE soi == firstSOIIndex(b)
<1>1. b \in Seq(Nat) /\ Len(b) \in Nat
  BY BufferLength, LenProperties
<1>2. soi \in 1 .. Len(b) /\ b[soi] \in Starts
  BY <1>1, FirstSOI
<1>3. soi - 1 \in 0 .. Len(b)
  BY <1>1, <1>2
<1>4. /\ rest \in Seq(Nat) /\ Len(rest) = Len(b) - (soi - 1)
      /\ \A i \in 1 .. Len(b) - (soi - 1) : rest[i] = b[i + (soi - 1)]
  BY <1>1, <1>3, DropProperties
<1>5. rest \in Buffers
  BY <1>3, DropOfBuffer
<1> HIDE DEF soi
<1>6. Len(rest) \in Nat \ {0} /\ Len(rest) <= Len(b)
  BY <1>1, <1>2, <1>4
<1>7. rest[1] \in Starts
  <2>1. 1 \in 1 .. Len(b) - (soi - 1) /\ 1 + (soi - 1) = soi
    BY <1>1, <1>2
  <2> QED  BY <1>2, <1>4, <2>1
<1>8. rest # <<>>
  BY <1>4, <1>6, EmptySeq
<1>9. ASSUME Len(rest) > GenericHeader  PROVE GenericSize(rest) \in Nat \ {0}
  <2>1. GenericHeader \in 1 .. Len(rest)
    BY <1>6, <1>9, StreamFramesAssumption
  <2>2. rest[GenericHeader] \in Nat
    BY <1>4, <2>1, ElementOfSeq
  <2> QED  BY <2>1, <2>2 DEF GenericSize
<1>10. ASSUME Len(rest) > GenericHeader, ~(Len(rest) < GenericSize(rest))
       PROVE  /\ GenericSize(rest) \in 0 .. Len(rest)
              /\ Take(rest, GenericSize(rest)) \in Seq(Nat)
              /\ Drop(rest, GenericSize(rest)) \in Buffers
              /\ Len(Drop(rest, GenericSize(rest))) < Len(b)
  <2>1. GenericSize(rest) \in Nat \ {0} /\ GenericSize(rest) \in 0 .. Len(rest)
    BY <1>6, <1>9, <1>10
  <2>2. Take(rest, GenericSize(rest)) \in Seq(Nat)
    BY <1>4, <2>1, TakeProperties
  <2>3. /\ Drop(rest, GenericSize(rest)) \in Buffers
        /\ Len(Drop(rest, GenericSize(rest))) = Len(rest) - GenericSize(rest)
    BY <1>5, <2>1, DropOfBuffer
  <2> QED  BY <1>1, <1>6, <2>1, <2>2, <2>3
<1> QED  BY <1>3, <1>5, <1>6, <1>7, <1>8, <1>9, <1>10 DEF soi

\* A step of the search, and that the recursive definition defines it.
LEMMA GenericStepIs ==
    ASSUME NEW b \in Buffers, NEW g, NEW rest, rest = Drop(b, firstSOIIndex(b) - 1)
    PROVE  /\ firstSOIIndex(b) = 0 => GenericStep(g, b) = Leaves(<<>>)
           /\ firstSOIIndex(b) # 0 =>
                IF Len(rest) <= GenericHeader \/ Len(rest) < GenericSize(rest)
                THEN GenericStep(g, b) = Leaves(rest)
                ELSE GenericStep(g, b) =
                       Finds(Take(rest, GenericSize(rest)), g[Drop(rest, GenericSize(rest))])
BY DEF GenericStep

LEMMA GenericUnfolds ==
    GenericExtract = [b \in Buffers |-> GenericStep(GenericExtract, b)]
<1> DEFINE R == Extractions
<1> DEFINE F == [g \in [Buffers -> R] |-> [b \in Buffers |-> GenericStep(g, b)]]
<1>1. ASSUME NEW g \in [Buffers -> R], NEW b \in Buffers
      PROVE  GenericStep(g, b) \in R
  <2> DEFINE rest == Drop(b, firstSOIIndex(b) - 1)
  <2>1. CASE firstSOIIndex(b) = 0
    <3>1. GenericStep(g, b) = Leaves(<<>>)
      BY <2>1, GenericStepIs
    <3> QED  BY <3>1, EmptyBuffer, LeavesProperties DEF Extractions
  <2>2. CASE firstSOIIndex(b) # 0
    <3>1. rest \in Buffers /\ Len(rest) \in Nat
      BY <2>2, GenericRest
    <3>2. CASE Len(rest) <= GenericHeader \/ Len(rest) < GenericSize(rest)
      <4>1. GenericStep(g, b) = Leaves(rest)
        BY <2>2, <3>2, GenericStepIs
      <4> QED  BY <3>1, <4>1, LeavesProperties DEF Extractions
    <3>3. CASE ~(Len(rest) <= GenericHeader \/ Len(rest) < GenericSize(rest))
      <4>1. Len(rest) > GenericHeader /\ ~(Len(rest) < GenericSize(rest))
        BY <3>1, <3>3, StreamFramesAssumption
      <4>2. /\ Take(rest, GenericSize(rest)) \in Seq(Nat)
            /\ Drop(rest, GenericSize(rest)) \in Buffers
        BY <2>2, <4>1, GenericRest
      <4>3. g[Drop(rest, GenericSize(rest))] \in R
        BY <4>2
      <4>4. Finds(Take(rest, GenericSize(rest)), g[Drop(rest, GenericSize(rest))]) \in R
        BY <4>2, <4>3, FindsProperties DEF Extractions
      <4> QED  BY <2>2, <3>3, <4>4, GenericStepIs
    <3> QED  BY <3>2, <3>3
  <2> QED  BY <2>1, <2>2
<1>2. ASSUME NEW g \in [Buffers -> R], NEW h \in [Buffers -> R], NEW b \in Buffers,
             \A t \in Buffers : Len(t) < Len(b) => g[t] = h[t]
      PROVE  GenericStep(g, b) = GenericStep(h, b)
  <2> DEFINE rest == Drop(b, firstSOIIndex(b) - 1)
  <2>1. CASE firstSOIIndex(b) = 0
    BY <2>1, GenericStepIs
  <2>2. CASE firstSOIIndex(b) # 0
    <3>1. CASE Len(rest) <= GenericHeader \/ Len(rest) < GenericSize(rest)
      BY <2>2, <3>1, GenericStepIs
    <3>2. CASE ~(Len(rest) <= GenericHeader \/ Len(rest) < GenericSize(rest))
      <4>1. rest \in Buffers /\ Len(rest) \in Nat
        BY <2>2, GenericRest
      <4>2. Len(rest) > GenericHeader /\ ~(Len(rest) < GenericSize(rest))
        BY <3>2, <4>1, StreamFramesAssumption
      <4>3. /\ Drop(rest, GenericSize(rest)) \in Buffers
            /\ Len(Drop(rest, GenericSize(rest))) < Len(b)
        BY <2>2, <4>2, GenericRest
      <4>4. g[Drop(rest, GenericSize(rest))] = h[Drop(rest, GenericSize(rest))]
        BY <1>2, <4>3
      <4> QED  BY <2>2, <3>2, <4>4, GenericStepIs
    <3> QED  BY <3>1, <3>2
  <2> QED  BY <2>1, <2>2
<1>3. [b \in Buffers |-> Leaves(<<>>)] \in [Buffers -> R]
  BY EmptyBuffer, LeavesProperties DEF Extractions
<1> HIDE DEF R
<1>4. F \in [[Buffers -> R] -> [Buffers -> R]]
  BY <1>1
<1>5. \A g, h \in [Buffers -> R] : \A b \in Buffers :
        (\A t \in Buffers : Len(t) < Len(b) => g[t] = h[t]) => F[g][b] = F[h][b]
  BY <1>2
<1>6. \A g \in [Buffers -> R] : F[g] = [b \in Buffers |-> GenericStep(g, b)]
  OBVIOUS
<1> HIDE DEF F
<1>7. \A b \in Buffers : Len(b) \in 0 .. MaxBuffer + MaxChunk
  BY BufferLength
<1>8. LooksAtShorter(F, Buffers, R, MaxBuffer + MaxChunk)
  BY <1>4, <1>5, <1>7 DEF LooksAtShorter
<1>9. [Buffers -> R] # {}
  BY <1>3
<1>10. PICK f \in [Buffers -> R] : f = F[f]
  BY <1>8, <1>9, CapIsNatural, FixedPoint
<1>11. \E h : h = [b \in Buffers |-> GenericStep(h, b)]
  <2>1. f = [b \in Buffers |-> GenericStep(f, b)]
    BY <1>6, <1>10
  <2> QED  BY <2>1
<1>12. GenericExtract = CHOOSE h : h = [b \in Buffers |-> GenericStep(h, b)]
  BY DEF GenericExtract, GenericStep
<1> QED  BY <1>11, <1>12

\* The generic extractor reads its buffer as one reads it on paper.
LEMMA GenericReads ==
    ASSUME "generic" \in Extractors, NEW b \in Buffers, b \in Inputs("generic")
    PROVE  GenericExtract[b] = Reading["generic"][b]
<1> DEFINE x == "generic"
<1> DEFINE S == Buffers \cap Inputs(x)
<1> DEFINE T == {t \in S : GenericExtract[t] = Reading[x][t]}
<1>1. ASSUME NEW t \in S, \A u \in S : Len(u) < Len(t) => u \in T
      PROVE  GenericExtract[t] = Reading[x][t]
  <2> DEFINE soi  == firstSOIIndex(t)
  <2> DEFINE rest == Drop(t, soi - 1)
  <2> DEFINE size == GenericSize(rest)
  <2>1. t \in Seq(Nat) /\ t \in Seq(Bytes[x]) /\ Len(t) \in Nat
    BY BufferLength, InputLength
  <2>2. GenericExtract[t] = GenericStep(GenericExtract, t)
    BY GenericUnfolds
  <2>3. ASSUME NEW k \in 0 .. Len(t), \A i \in 1 .. k : t[i] \notin Starts
        PROVE  Reading[x][t] = Reading[x][Drop(t, k)]
    <3>1. ASSUME NEW i \in 1 .. k
          PROVE  ~Waiting(x, Drop(t, i - 1)) /\ ~Complete(x, Drop(t, i - 1))
      <4>1. i - 1 \in 0 .. Len(t) /\ 1 \in 1 .. Len(t) - (i - 1) /\ 1 + (i - 1) = i
        BY <2>1
      <4>2. \A j \in 1 .. Len(t) - (i - 1) : Drop(t, i - 1)[j] = t[j + (i - 1)]
        BY <2>1, <4>1, DropProperties
      <4>3. Drop(t, i - 1)[1] = t[i] /\ t[i] \notin Starts
        BY <2>3, <4>1, <4>2
      <4> QED  BY <4>3 DEF Waiting, Complete, Candidate
    <3> QED  BY <3>1, ReadingSkips
  <2>4. CASE soi = 0
    <3>1. \A i \in 1 .. Len(t) : t[i] \notin Starts
      BY <2>1, <2>4, FirstSOI
    <3>2. Reading[x][t] = Reading[x][<<>>]
      BY <2>1, <2>3, <3>1, DropAll
    <3>3. <<>> \in Inputs(x)
      BY EmptySeq, StreamFramesAssumption DEF Inputs
    <3>4. Reading[x][<<>>] = Leaves(<<>>)
      BY <3>3, ReadingIs
    <3> QED  BY <2>2, <2>4, <3>2, <3>4, GenericStepIs
  <2>5. CASE soi # 0
    <3>1. /\ soi - 1 \in 0 .. Len(t)
          /\ rest \in Buffers /\ rest # <<>>
          /\ rest[1] \in Starts
          /\ Len(rest) \in Nat /\ Len(rest) <= Len(t)
      BY <2>5, GenericRest
    <3>2. \A i \in 1 .. soi - 1 : t[i] \notin Starts
      BY <2>1, <2>5, FirstSOI
    <3>3. Reading[x][t] = Reading[x][rest]
      BY <2>3, <3>1, <3>2
    <3>4. rest \in Inputs(x)
      BY <3>1, DropOfInput
    <3>5. Candidate(x, rest)
      BY <3>1 DEF Candidate
    <3>6. Size(x, rest) = size /\ HeaderLength(x) = GenericHeader /\ GenericHeader \in Nat
      BY StreamFramesAssumption DEF Size, HeaderLength
    <3>7. CASE Len(rest) <= GenericHeader \/ Len(rest) < size
      <4>1. Waiting(x, rest)
        <5>1. CASE Len(rest) < GenericHeader
          BY <3>5, <3>6, <5>1 DEF Waiting
        <5>2. CASE Len(rest) >= GenericHeader
          <6>1. GenericHeader \in 1 .. Len(rest) /\ rest \in Seq(Nat)
            BY <3>1, <5>2, StreamFramesAssumption, BufferLength
          <6>2. size = GenericHeader + rest[GenericHeader] + 1 /\ rest[GenericHeader] \in Nat
            BY <6>1, ElementOfSeq DEF GenericSize
          <6>3. Len(rest) < size
            BY <3>1, <3>6, <3>7, <6>2
          <6> QED  BY <3>5, <3>6, <6>3 DEF Waiting
        <5> QED  BY <3>1, <3>6, <5>1, <5>2
      <4>2. Reading[x][rest] = Leaves(rest)
        BY <3>4, <4>1, ReadingIs
      <4> QED  BY <2>2, <2>5, <3>3, <3>7, <4>2, GenericStepIs
    <3>8. CASE ~(Len(rest) <= GenericHeader \/ Len(rest) < size)
      <4>1. Len(rest) > GenericHeader /\ ~(Len(rest) < size)
        BY <3>1, <3>6, <3>8
      <4>2. /\ size \in 0 .. Len(rest) /\ size \in Nat \ {0}
            /\ Drop(rest, size) \in Buffers /\ Len(Drop(rest, size)) < Len(t)
        BY <2>5, <4>1, GenericRest
      <4>3. ~Waiting(x, rest) /\ Complete(x, rest)
        BY <3>1, <3>5, <3>6, <4>1, <4>2 DEF Waiting, Complete
      <4>4. Reading[x][rest] = Finds(Take(rest, size), Reading[x][Drop(rest, size)])
        BY <3>1, <3>4, <3>6, <4>3, ReadingIs
      <4>5. Drop(rest, size) \in Inputs(x)
        BY <3>4, <4>2, DropOfInput
      <4>6. GenericExtract[Drop(rest, size)] = Reading[x][Drop(rest, size)]
        BY <1>1, <4>2, <4>5
      <4> QED  BY <2>2, <2>5, <3>3, <3>8, <4>4, <4>6, GenericStepIs
    <3> QED  BY <3>7, <3>8
  <2> QED  BY <2>4, <2>5
<1>2. \A t \in S : Len(t) \in Nat
  BY InputLength
<1>3. \A t \in S : (\A u \in S : Len(u) < Len(t) => u \in T) => t \in T
  BY <1>1
<1>4. b \in S /\ (b \in T => GenericExtract[b] = Reading["generic"][b])
  OBVIOUS
<1> HIDE DEF S, T
<1>5. S \subseteq T
  BY <1>2, <1>3, LengthInduction
<1> QED  BY <1>4, <1>5

-----------------------------------------------------------------------------
(* The chainway extractor. *)

ChainwayStep(g, b) ==
    LET start == headerIndex(b, 1)
        rest  == Drop(b, start - 1)
        size  == rest[ChainwayHeader]
    IN  IF start = 0 THEN Leaves(keepPossibleHeaderStart(b))
        ELSE IF Len(rest) < ChainwayHeader THEN Leaves(rest)
        ELSE IF ~Plausible(size) THEN g[Drop(rest, 1)]
        ELSE IF Len(rest) < size THEN Leaves(rest)
        ELSE IF ~ChecksumOK(Take(rest, size)) THEN g[SkipInvalid(rest)]
        ELSE Finds(Take(rest, size), g[Drop(rest, size)])

\* A header at a place of b.
HeaderAt(b, i) == b[i] = Header1 /\ b[i + 1] = Header2

\* headerIndex is the place of the first header, or 0 when there is none.
LEMMA HeaderIndex ==
    ASSUME NEW b \in Seq(Nat)
    PROVE  /\ headerIndex(b, 1) \in 0 .. Len(b)
           /\ headerIndex(b, 1) = 0 => \A i \in 1 .. Len(b) - 1 : ~HeaderAt(b, i)
           /\ headerIndex(b, 1) # 0 =>
                /\ headerIndex(b, 1) \in 1 .. Len(b) - 1
                /\ HeaderAt(b, headerIndex(b, 1))
                /\ \A i \in 1 .. headerIndex(b, 1) - 1 : ~HeaderAt(b, i)
<1> DEFINE H == {i \in 1 .. Len(b) - 1 : HeaderAt(b, i)}
<1> DEFINE start == headerIndex(b, 1)
<1>1. start = IF H = {} THEN 0 ELSE Min(H)
  BY DEF headerIndex, HeaderAt
<1>2. Len(b) \in Nat
  BY LenProperties
<1>3. CASE H = {}
  BY <1>1, <1>2, <1>3
<1>4. CASE H # {}
  <2>1. H \in SUBSET Nat
    BY <1>2
  <2>2. Min(H) \in H /\ \A i \in H : Min(H) <= i
    BY <1>4, <2>1, MinIsLeast
  <2>3. start = Min(H)
    BY <1>1, <1>4
  <2>4. start \in 1 .. Len(b) - 1 /\ HeaderAt(b, start)
    BY <2>2, <2>3
  <2>5. ASSUME NEW i \in 1 .. start - 1  PROVE ~HeaderAt(b, i)
    <3>1. i \in 1 .. Len(b) - 1 /\ ~(start <= i)
      BY <1>2, <2>4
    <3>2. i \notin H
      BY <2>2, <2>3, <3>1
    <3> QED  BY <3>1, <3>2
  <2> QED  BY <1>2, <2>4, <2>5
<1> QED  BY <1>3, <1>4

\* What is kept of a buffer without a header is what may begin one.
LEMMA KeptStart ==
    ASSUME NEW b \in Buffers
    PROVE  keepPossibleHeaderStart(b) \in Buffers
<1>1. b \in Seq(Nat) /\ Len(b) \in Nat
  BY BufferLength
<1>2. CASE b # <<>> /\ Last(b) = Header1
  <2>1. Len(b) \in 1 .. Len(b) /\ Len(b) <= MaxBuffer + MaxChunk
    BY <1>1, <1>2, EmptySeq DEF Buffers
  <2>2. Header1 \in Nat
    BY <1>1, <1>2, <2>1, ElementOfSeq DEF Last
  <2>3. <<Header1>> \in Seq(Nat) /\ Len(<<Header1>>) = 1
    BY <2>2
  <2> QED  BY <1>1, <1>2, <2>1, <2>3, CapIsNatural DEF keepPossibleHeaderStart, Buffers
<1>3. CASE ~(b # <<>> /\ Last(b) = Header1)
  BY <1>3, EmptyBuffer DEF keepPossibleHeaderStart
<1> QED  BY <1>2, <1>3

\* What a step of the search works on.
LEMMA ChainwayRest ==
    ASSUME NEW b \in Buffers, headerIndex(b, 1) # 0,
           NEW rest, rest = Drop(b, headerIndex(b, 1) - 1)
    PROVE  /\ headerIndex(b, 1) - 1 \in 0 .. Len(b)
           /\ rest \in Buffers /\ rest # <<>>
           /\ Len(rest) \in Nat /\ Len(rest) > 1
           /\ rest[1] = Header1 /\ rest[2] = Header2
           /\ Drop(rest, 1) \in Buffers /\ Len(Drop(rest, 1)) < Len(b)
           /\ Plausible(rest[ChainwayHeader]) /\ ~(Len(rest) < rest[ChainwayHeader]) =>
                /\ rest[ChainwayHeader] \in 1 .. Len(rest)
                /\ Take(rest, rest[ChainwayHeader]) \in Seq(Nat)
                /\ Drop(rest, rest[ChainwayHeader]) \in Buffers
                /\ Len(Drop(rest, rest[ChainwayHeader])) < Len(b)
<1> DEFINE start == headerIndex(b, 1)
<1> DEFINE size  == rest[ChainwayHeader]
<1>1. b \in Seq(Nat) /\ Len(b) \in Nat
  BY BufferLength
<1>2. start \in 1 .. Len(b) - 1 /\ HeaderAt(b, start)
  BY <1>1, HeaderIndex
<1>3. start - 1 \in 0 .. Len(b)
  BY <1>1, <1>2
<1>4. /\ rest \in Seq(Nat) /\ Len(rest) = Len(b) - (start - 1)
      /\ \A i \in 1 .. Len(b) - (start - 1) : rest[i] = b[i + (start - 1)]
  BY <1>1, <1>3, DropProperties
<1>5. rest \in Buffers
  BY <1>3, DropOfBuffer
<1> HIDE DEF start
<1>6. Len(rest) \in Nat /\ Len(rest) > 1 /\ Len(rest) <= Len(b)
  BY <1>1, <1>2, <1>4
<1>7. rest[1] = Header1 /\ rest[2] = Header2
  <2>1. /\ 1 \in 1 .. Len(b) - (start - 1) /\ 1 + (start - 1) = start
        /\ 2 \in 1 .. Len(b) - (start - 1) /\ 2 + (start - 1) = start + 1
    BY <1>1, <1>2
  <2> QED  BY <1>2, <1>4, <2>1 DEF HeaderAt
<1>8. rest # <<>>
  BY <1>4, <1>6, EmptySeq
<1>9. Drop(rest, 1) \in Buffers /\ Len(Drop(rest, 1)) < Len(b)
  <2>1. 1 \in 0 .. Len(rest)
    BY <1>6
  <2>2. Drop(rest, 1) \in Buffers /\ Len(Drop(rest, 1)) = Len(rest) - 1
    BY <1>5, <2>1, DropOfBuffer
  <2> QED  BY <1>1, <1>6, <2>2
<1>10. ASSUME Plausible(size), ~(Len(rest) < size)
       PROVE  /\ size \in 1 .. Len(rest)
              /\ Take(rest, size) \in Seq(Nat)
              /\ Drop(rest, size) \in Buffers
              /\ Len(Drop(rest, size)) < Len(b)
  <2>1. size \in 1 .. Len(rest) /\ size \in 0 .. Len(rest)
    BY <1>6, <1>10, StreamFramesAssumption DEF Plausible
  <2> HIDE DEF size
  <2>2. Take(rest, size) \in Seq(Nat)
    BY <1>4, <2>1, TakeProperties
  <2>3. Drop(rest, size) \in Buffers /\ Len(Drop(rest, size)) = Len(rest) - size
    BY <1>5, <2>1, DropOfBuffer
  <2> QED  BY <1>1, <1>6, <2>1, <2>2, <2>3
<1> QED  BY <1>3, <1>5, <1>6, <1>7, <1>8, <1>9, <1>10 DEF start

\* A step of the search.
LEMMA ChainwayStepIs ==
    ASSUME NEW b \in Buffers, NEW g, NEW rest, rest = Drop(b, headerIndex(b, 1) - 1),
           NEW size, size = rest[ChainwayHeader]
    PROVE  /\ headerIndex(b, 1) = 0 =>
                ChainwayStep(g, b) = Leaves(keepPossibleHeaderStart(b))
           /\ headerIndex(b, 1) # 0 =>
                IF Len(rest) < ChainwayHeader THEN ChainwayStep(g, b) = Leaves(rest)
                ELSE IF ~Plausible(size) THEN ChainwayStep(g, b) = g[Drop(rest, 1)]
                ELSE IF Len(rest) < size THEN ChainwayStep(g, b) = Leaves(rest)
                ELSE IF ~ChecksumOK(Take(rest, size))
                THEN ChainwayStep(g, b) = g[Drop(rest, 1)]
                ELSE ChainwayStep(g, b) = Finds(Take(rest, size), g[Drop(rest, size)])
BY DEF ChainwayStep, SkipInvalid

\* Its recursive definition defines it.
LEMMA ChainwayUnfolds ==
    ChainwayExtract = [b \in Buffers |-> ChainwayStep(ChainwayExtract, b)]
<1> DEFINE R == Extractions
<1> DEFINE F == [g \in [Buffers -> R] |-> [b \in Buffers |-> ChainwayStep(g, b)]]
<1>1. ASSUME NEW g \in [Buffers -> R], NEW b \in Buffers
      PROVE  ChainwayStep(g, b) \in R
  <2> DEFINE rest == Drop(b, headerIndex(b, 1) - 1)
  <2> DEFINE size == rest[ChainwayHeader]
  <2>1. CASE headerIndex(b, 1) = 0
    <3>1. ChainwayStep(g, b) = Leaves(keepPossibleHeaderStart(b))
      BY <2>1, ChainwayStepIs
    <3> QED  BY <3>1, KeptStart, LeavesProperties DEF Extractions
  <2>2. CASE headerIndex(b, 1) # 0
    <3>1. rest \in Buffers /\ Drop(rest, 1) \in Buffers
      BY <2>2, ChainwayRest
    <3>2. CASE Len(rest) < ChainwayHeader \/ (Plausible(size) /\ Len(rest) < size)
      <4>1. ChainwayStep(g, b) = Leaves(rest)
        BY <2>2, <3>2, ChainwayStepIs
      <4> QED  BY <3>1, <4>1, LeavesProperties DEF Extractions
    <3>3. CASE /\ ~(Len(rest) < ChainwayHeader)
               /\ \/ ~Plausible(size)
                  \/ ~(Len(rest) < size) /\ ~ChecksumOK(Take(rest, size))
      <4>1. ChainwayStep(g, b) = g[Drop(rest, 1)]
        BY <2>2, <3>3, ChainwayStepIs
      <4> QED  BY <3>1, <4>1
    <3>4. CASE /\ ~(Len(rest) < ChainwayHeader) /\ Plausible(size)
               /\ ~(Len(rest) < size) /\ ChecksumOK(Take(rest, size))
      <4>1. Take(rest, size) \in Seq(Nat) /\ Drop(rest, size) \in Buffers
        BY <2>2, <3>4, ChainwayRest
      <4>2. g[Drop(rest, size)] \in R
        BY <4>1
      <4>3. Finds(Take(rest, size), g[Drop(rest, size)]) \in R
        BY <4>1, <4>2, FindsProperties DEF Extractions
      <4>4. ChainwayStep(g, b) = Finds(Take(rest, size), g[Drop(rest, size)])
        BY <2>2, <3>4, ChainwayStepIs
      <4> QED  BY <4>3, <4>4
    <3> QED  BY <3>2, <3>3, <3>4
  <2> QED  BY <2>1, <2>2
<1>2. ASSUME NEW g \in [Buffers -> R], NEW h \in [Buffers -> R], NEW b \in Buffers,
             \A t \in Buffers : Len(t) < Len(b) => g[t] = h[t]
      PROVE  ChainwayStep(g, b) = ChainwayStep(h, b)
  <2> DEFINE rest == Drop(b, headerIndex(b, 1) - 1)
  <2> DEFINE size == rest[ChainwayHeader]
  <2>1. CASE headerIndex(b, 1) = 0
    BY <2>1, ChainwayStepIs
  <2>2. CASE headerIndex(b, 1) # 0
    <3>1. g[Drop(rest, 1)] = h[Drop(rest, 1)]
      <4>1. Drop(rest, 1) \in Buffers /\ Len(Drop(rest, 1)) < Len(b)
        BY <2>2, ChainwayRest
      <4> QED  BY <1>2, <4>1
    <3>2. CASE Plausible(size) /\ ~(Len(rest) < size)
      <4>1. Drop(rest, size) \in Buffers /\ Len(Drop(rest, size)) < Len(b)
        BY <2>2, <3>2, ChainwayRest
      <4>2. g[Drop(rest, size)] = h[Drop(rest, size)]
        BY <1>2, <4>1
      <4> QED  BY <2>2, <3>1, <4>2, ChainwayStepIs
    <3>3. CASE ~(Plausible(size) /\ ~(Len(rest) < size))
      BY <2>2, <3>1, <3>3, ChainwayStepIs
    <3> QED  BY <3>2, <3>3
  <2> QED  BY <2>1, <2>2
<1>3. [b \in Buffers |-> Leaves(<<>>)] \in [Buffers -> R]
  BY EmptyBuffer, LeavesProperties DEF Extractions
<1> HIDE DEF R
<1>4. F \in [[Buffers -> R] -> [Buffers -> R]]
  BY <1>1
<1>5. \A g, h \in [Buffers -> R] : \A b \in Buffers :
        (\A t \in Buffers : Len(t) < Len(b) => g[t] = h[t]) => F[g][b] = F[h][b]
  BY <1>2
<1>6. \A g \in [Buffers -> R] : F[g] = [b \in Buffers |-> ChainwayStep(g, b)]
  OBVIOUS
<1> HIDE DEF F
<1>7. \A b \in Buffers : Len(b) \in 0 .. MaxBuffer + MaxChunk
  BY BufferLength
<1>8. LooksAtShorter(F, Buffers, R, MaxBuffer + MaxChunk)
  BY <1>4, <1>5, <1>7 DEF LooksAtShorter
<1>9. [Buffers -> R] # {}
  BY <1>3
<1>10. PICK f \in [Buffers -> R] : f = F[f]
  BY <1>8, <1>9, CapIsNatural, FixedPoint
<1>11. \E h : h = [b \in Buffers |-> ChainwayStep(h, b)]
  <2>1. f = [b \in Buffers |-> ChainwayStep(f, b)]
    BY <1>6, <1>10
  <2> QED  BY <2>1
<1>12. ChainwayExtract = CHOOSE h : h = [b \in Buffers |-> ChainwayStep(h, b)]
  BY DEF ChainwayExtract, ChainwayStep
<1> QED  BY <1>11, <1>12

\* The chainway extractor reads its buffer as one reads it on paper.
LEMMA ChainwayReads ==
    ASSUME "chainway" \in Extractors, NEW b \in Buffers, b \in Inputs("chainway")
    PROVE  ChainwayExtract[b] = Reading["chainway"][b]
<1> DEFINE x == "chainway"
<1> DEFINE S == Buffers \cap Inputs(x)
<1> DEFINE T == {t \in S : ChainwayExtract[t] = Reading[x][t]}
<1>0. <<>> \in Inputs(x) /\ Reading[x][<<>>] = Leaves(<<>>)
  <2>1. <<>> \in Inputs(x)
    BY EmptySeq, StreamFramesAssumption DEF Inputs
  <2> QED  BY <2>1, ReadingIs
<1>1. ASSUME NEW t \in S, \A u \in S : Len(u) < Len(t) => u \in T
      PROVE  ChainwayExtract[t] = Reading[x][t]
  <2> DEFINE start == headerIndex(t, 1)
  <2> DEFINE rest  == Drop(t, start - 1)
  <2> DEFINE size  == rest[ChainwayHeader]
  <2>1. t \in Seq(Nat) /\ t \in Seq(Bytes[x]) /\ Len(t) \in Nat
    BY BufferLength, InputLength
  <2>2. ChainwayExtract[t] = ChainwayStep(ChainwayExtract, t)
    BY ChainwayUnfolds
  <2>3. ASSUME NEW k \in 0 .. Len(t) - 1, \A i \in 1 .. k : ~HeaderAt(t, i)
        PROVE  Reading[x][t] = Reading[x][Drop(t, k)]
    <3>1. ASSUME NEW i \in 1 .. k
          PROVE  ~Waiting(x, Drop(t, i - 1)) /\ ~Complete(x, Drop(t, i - 1))
      <4>1. /\ i - 1 \in 0 .. Len(t) /\ Len(t) - (i - 1) > 1
            /\ 1 \in 1 .. Len(t) - (i - 1) /\ 1 + (i - 1) = i
            /\ 2 \in 1 .. Len(t) - (i - 1) /\ 2 + (i - 1) = i + 1
        BY <2>1
      <4>2. /\ Len(Drop(t, i - 1)) = Len(t) - (i - 1)
            /\ \A j \in 1 .. Len(t) - (i - 1) : Drop(t, i - 1)[j] = t[j + (i - 1)]
        BY <2>1, <4>1, DropProperties
      <4>3. Drop(t, i - 1)[1] = t[i] /\ Drop(t, i - 1)[2] = t[i + 1] /\ ~HeaderAt(t, i)
        BY <2>3, <4>1, <4>2
      <4>4. Drop(t, i - 1) # <<Header1>>
        BY <4>1, <4>2
      <4>5. ~Candidate(x, Drop(t, i - 1))
        BY <4>3 DEF Candidate, HeaderAt
      <4> QED  BY <4>4, <4>5 DEF Waiting, Complete
    <3>2. k \in 0 .. Len(t)
      BY <2>1
    <3> QED  BY <3>1, <3>2, ReadingSkips
  <2>4. CASE start = 0 /\ t = <<>>
    <3>1. keepPossibleHeaderStart(t) = <<>>
      BY <2>4 DEF keepPossibleHeaderStart
    <3> QED  BY <1>0, <2>2, <2>4, <3>1, ChainwayStepIs
  <2>5. CASE start = 0 /\ t # <<>>
    <3> DEFINE last == Drop(t, Len(t) - 1)
    <3>1. Len(t) \in 1 .. Len(t) /\ Len(t) - 1 \in 0 .. Len(t) /\ Len(t) - 1 \in 0 .. Len(t) - 1
      BY <2>1, <2>5, EmptySeq
    <3>2. \A i \in 1 .. Len(t) - 1 : ~HeaderAt(t, i)
      BY <2>1, <2>5, HeaderIndex
    <3>3. Reading[x][t] = Reading[x][last]
      BY <2>3, <3>1, <3>2
    <3>4. last \in Inputs(x) /\ last \in Seq(Bytes[x]) /\ Len(last) = 1
      <4>1. last \in Inputs(x) /\ Len(last) = Len(t) - (Len(t) - 1)
        BY <3>1, DropOfInput
      <4>2. last \in Seq(Bytes[x])
        BY <4>1, InputLength
      <4> QED  BY <2>1, <4>1, <4>2
    <3>5. last[1] = Last(t)
      <4>1. \A i \in 1 .. Len(t) - (Len(t) - 1) : last[i] = t[i + (Len(t) - 1)]
        BY <2>1, <3>1, DropProperties
      <4>2. 1 \in 1 .. Len(t) - (Len(t) - 1) /\ 1 + (Len(t) - 1) = Len(t)
        BY <2>1
      <4> QED  BY <4>1, <4>2 DEF Last
    <3> HIDE DEF last
    <3>6. last = <<Last(t)>> /\ last # <<>>
      BY <3>4, <3>5, OneByte
    <3>7. ~Candidate(x, last)
      BY <3>4 DEF Candidate
    <3>8. CASE Last(t) = Header1
      <4>1. Waiting(x, last)
        BY <3>4, <3>6, <3>8, StreamFramesAssumption DEF Waiting, HeaderLength
      <4>2. Reading[x][last] = Leaves(last)
        BY <3>4, <4>1, ReadingIs
      <4>3. keepPossibleHeaderStart(t) = last
        BY <2>5, <3>6, <3>8 DEF keepPossibleHeaderStart
      <4> QED  BY <2>2, <2>5, <3>3, <4>2, <4>3, ChainwayStepIs
    <3>9. CASE Last(t) # Header1
      <4>1. ~Waiting(x, last) /\ ~Complete(x, last)
        <5>1. last # <<Header1>>
          BY <3>5, <3>9
        <5> QED  BY <3>7, <5>1 DEF Waiting, Complete
      <4>2. Reading[x][last] = Reading[x][Drop(last, 1)]
        BY <3>4, <3>6, <4>1, ReadingIs
      <4>3. Drop(last, 1) = <<>>
        BY <3>4, DropAll
      <4>4. keepPossibleHeaderStart(t) = <<>>
        BY <3>9 DEF keepPossibleHeaderStart
      <4> QED  BY <1>0, <2>2, <2>5, <3>3, <4>2, <4>3, <4>4, ChainwayStepIs
    <3> QED  BY <3>8, <3>9
  <2>6. CASE start # 0
    <3>1. /\ start - 1 \in 0 .. Len(t)
          /\ rest \in Buffers /\ rest # <<>>
          /\ Len(rest) \in Nat /\ Len(rest) > 1
          /\ rest[1] = Header1 /\ rest[2] = Header2
          /\ Drop(rest, 1) \in Buffers /\ Len(Drop(rest, 1)) < Len(t)
      BY <2>6, ChainwayRest
    <3>2. Reading[x][t] = Reading[x][rest]
      <4>1. start \in 1 .. Len(t) - 1 /\ \A i \in 1 .. start - 1 : ~HeaderAt(t, i)
        BY <2>1, <2>6, HeaderIndex
      <4>2. start - 1 \in 0 .. Len(t) - 1
        BY <2>1, <4>1
      <4> QED  BY <2>3, <4>1, <4>2
    <3>3. rest \in Inputs(x)
      BY <3>1, DropOfInput
    <3>4. Candidate(x, rest)
      BY <3>1 DEF Candidate
    <3>5. Size(x, rest) = size /\ HeaderLength(x) = ChainwayHeader /\ ChainwayHeader \in Nat
      BY StreamFramesAssumption DEF Size, HeaderLength
    <3>6. Drop(rest, 1) \in Inputs(x)
      BY <3>1, <3>3, ReadingContinues
    <3>7. ChainwayExtract[Drop(rest, 1)] = Reading[x][Drop(rest, 1)]
      BY <1>1, <3>1, <3>6
    <3>8. rest # <<Header1>>
      BY <3>1
    <3>9. CASE Len(rest) < ChainwayHeader \/ (Plausible(size) /\ Len(rest) < size)
      <4>1. Waiting(x, rest)
        BY <3>4, <3>5, <3>9 DEF Waiting
      <4>2. Reading[x][rest] = Leaves(rest)
        BY <3>3, <4>1, ReadingIs
      <4>3. ChainwayStep(ChainwayExtract, t) = Leaves(rest)
        BY <2>6, <3>9, ChainwayStepIs
      <4> QED  BY <2>2, <3>2, <4>2, <4>3
    <3>10. CASE /\ ~(Len(rest) < ChainwayHeader)
                /\ \/ ~Plausible(size)
                   \/ ~(Len(rest) < size) /\ ~ChecksumOK(Take(rest, size))
      <4>1. ~Waiting(x, rest)
        BY <3>5, <3>8, <3>10 DEF Waiting
      <4>2. ~Complete(x, rest)
        BY <3>5, <3>10 DEF Complete
      <4>3. Reading[x][rest] = Reading[x][Drop(rest, 1)]
        BY <3>1, <3>3, <4>1, <4>2, ReadingIs
      <4>4. ChainwayStep(ChainwayExtract, t) = ChainwayExtract[Drop(rest, 1)]
        BY <2>6, <3>10, ChainwayStepIs
      <4> QED  BY <2>2, <3>2, <3>7, <4>3, <4>4
    <3>11. CASE /\ ~(Len(rest) < ChainwayHeader) /\ Plausible(size)
                /\ ~(Len(rest) < size) /\ ChecksumOK(Take(rest, size))
      <4>1. /\ size \in 1 .. Len(rest)
            /\ Drop(rest, size) \in Buffers /\ Len(Drop(rest, size)) < Len(t)
        BY <2>6, <3>11, ChainwayRest
      <4>2. ~Waiting(x, rest)
        BY <3>5, <3>8, <3>11 DEF Waiting
      <4>3. Complete(x, rest)
        BY <3>1, <3>4, <3>5, <3>11, <4>1 DEF Complete
      <4>4. Reading[x][rest] = Finds(Take(rest, size), Reading[x][Drop(rest, size)])
        BY <3>1, <3>3, <3>5, <4>2, <4>3, ReadingIs
      <4>5. size \in 0 .. Len(rest)
        BY <3>1, <4>1
      <4>6. Drop(rest, size) \in Inputs(x)
        BY <3>3, <4>5, DropOfInput
      <4>7. ChainwayExtract[Drop(rest, size)] = Reading[x][Drop(rest, size)]
        BY <1>1, <4>1, <4>6
      <4>8. ChainwayStep(ChainwayExtract, t) =
              Finds(Take(rest, size), ChainwayExtract[Drop(rest, size)])
        BY <2>6, <3>11, ChainwayStepIs
      <4> QED  BY <2>2, <3>2, <4>4, <4>7, <4>8
    <3> QED  BY <3>9, <3>10, <3>11
  <2> QED  BY <2>4, <2>5, <2>6
<1>2. \A t \in S : Len(t) \in Nat
  BY InputLength
<1>3. \A t \in S : (\A u \in S : Len(u) < Len(t) => u \in T) => t \in T
  BY <1>1
<1>4. b \in S /\ (b \in T => ChainwayExtract[b] = Reading["chainway"][b])
  OBVIOUS
<1> HIDE DEF S, T
<1>5. S \subseteq T
  BY <1>2, <1>3, LengthInduction
<1> QED  BY <1>4, <1>5

-----------------------------------------------------------------------------
(* The extractor and its reader. *)

\* The inductive invariant: the buffer and the frames are what the reading of the
\* input leaves and finds.
FramesInv ==
    /\ extractor \in Extractors
    /\ stream \in Inputs(extractor)
    /\ read \in 0 .. Len(stream)
    /\ buffer = Reading[extractor][Input].buffer
    /\ frames = Reading[extractor][Input].frames

\* A rest is shorter than a frame can be: a chunk fits beside it.
LEMMA RestFits ==
    ASSUME NEW x \in Extractors, NEW s \in Inputs(x)
    PROVE  MaxChunk + Len(Reading[x][s].buffer) <= MaxBuffer
<1> DEFINE rest == Reading[x][s].buffer
<1>1. Reading[x][s] \in Results(x) /\ (rest = <<>> \/ Waiting(x, rest))
  BY ReadingRest
<1>2. rest \in Inputs(x)
  BY <1>1 DEF Results
<1> HIDE DEF rest
<1>3. rest \in Seq(Bytes[x]) /\ Len(rest) \in Nat
  BY <1>2, InputLength
<1>4. /\ MaxChunk \in Nat /\ MaxBuffer \in Nat /\ MaxFrame \in Nat \ {0}
      /\ ChainwayHeader \in Nat /\ ChainwayHeader < MaxFrame /\ GenericHeader \in Nat \ {0}
      /\ MaxChunk + MaxFrame - 1 <= MaxBuffer
  BY StreamFramesAssumption, RoomForAChunk
<1> SUFFICES MaxChunk + Len(rest) <= MaxBuffer
  BY DEF rest
<1>5. CASE rest = <<>>
  <2>1. Len(<<>>) = 0
    OBVIOUS
  <2>2. Len(rest) = 0
    BY <1>5, <2>1
  <2> QED  BY <1>4, <2>2
<1>6. CASE rest # <<>> /\ Waiting(x, rest) /\ x = "generic"
  <2>1. Len(rest) \in Nat \ {0}
    BY <1>3, <1>6, EmptySeq
  <2>2. \A size \in Bytes[x] :
          size \in Nat /\ MaxChunk + GenericHeader + size <= MaxBuffer
    BY <1>6, StreamFramesAssumption, RoomForAChunk
  <2>3. CASE Len(rest) < GenericHeader
    <3>1. rest[1] \in Bytes[x]
      BY <1>3, <2>1, ElementOfSeq
    <3> QED  BY <1>3, <1>4, <2>2, <2>3, <3>1
  <2>4. CASE ~(Len(rest) < GenericHeader)
    <3>1. GenericHeader \in 1 .. Len(rest)
      BY <1>3, <1>4, <2>4
    <3>2. rest[GenericHeader] \in Bytes[x]
      BY <1>3, <3>1, ElementOfSeq
    <3>3. Len(rest) < GenericHeader + rest[GenericHeader] + 1
      BY <1>6, <2>4 DEF Waiting, Size, HeaderLength, GenericSize
    <3> QED  BY <1>3, <1>4, <2>2, <3>2, <3>3
  <2> QED  BY <2>3, <2>4
<1>7. CASE rest # <<>> /\ Waiting(x, rest) /\ x = "chainway"
  <2>1. Len(rest) < MaxFrame
    <3>1. CASE Len(rest) < ChainwayHeader
      BY <1>3, <1>4, <3>1
    <3>2. CASE ~(Len(rest) < ChainwayHeader)
      <4>1. Len(rest) < rest[ChainwayHeader] /\ Plausible(rest[ChainwayHeader])
        BY <1>7, <3>2 DEF Waiting, Size, HeaderLength
      <4> QED  BY <1>3, <1>4, <4>1, StreamFramesAssumption DEF Plausible
    <3> QED  BY <3>1, <3>2
  <2> QED  BY <1>3, <1>4, <2>1
<1>8. x = "generic" \/ x = "chainway"
  BY StreamFramesAssumption
<1> QED  BY <1>1, <1>5, <1>6, <1>7, <1>8

\* One read: the search of the rest and the chunk is the reading of both, and
\* neither cap drops anything.
LEMMA ExtractedReads ==
    ASSUME extractor \in Extractors, NEW b \in Inputs(extractor), Len(b) <= MaxBuffer
    PROVE  /\ Extracted(b).buffer = Reading[extractor][b].buffer
           /\ Extracted(b).frames = Reading[extractor][b].frames
<1>1. b \in Seq(Nat) /\ b \in Buffers
  <2>1. b \in Seq(Bytes[extractor]) /\ Bytes[extractor] \subseteq Nat
    BY InputLength, StreamFramesAssumption
  <2>2. b \in Seq(Nat)
    BY <2>1, SeqMonotonic
  <2>3. Len(b) \in Nat /\ MaxBuffer \in Nat /\ MaxChunk \in Nat
    BY <2>2, LenProperties, StreamFramesAssumption
  <2> QED  BY <2>2, <2>3 DEF Buffers
<1>2. CASE extractor = "generic"
  <2>1. GenericGuard(b) = b
    BY DEF GenericGuard
  <2>2. Extracted(b) = GenericExtract[b]
    BY <1>2, <2>1 DEF Extracted
  <2> QED  BY <1>1, <1>2, <2>2, GenericReads
<1>3. CASE extractor = "chainway"
  <2>1. ChainwayExtract[b] = Reading[extractor][b]
    BY <1>1, <1>3, ChainwayReads
  <2>2. /\ Reading[extractor][b] \in Results(extractor)
        /\ Len(Reading[extractor][b].buffer) <= Len(b)
    BY ReadingRest
  <2>3. Len(Reading[extractor][b].buffer) \in Nat /\ Len(b) \in Nat
    <3>1. Reading[extractor][b].buffer \in Inputs(extractor)
      BY <2>2 DEF Results
    <3> QED  BY <3>1, InputLength
  <2>4. ChainwayGuard(Reading[extractor][b].buffer) = Reading[extractor][b].buffer
    BY <2>2, <2>3, StreamFramesAssumption DEF ChainwayGuard
  <2>5. Extracted(b) =
          [Reading[extractor][b] EXCEPT !.buffer = ChainwayGuard(Reading[extractor][b].buffer)]
    BY <1>3, <2>1 DEF Extracted
  <2>6. Extracted(b) = Reading[extractor][b]
    BY <2>2, <2>4, <2>5 DEF Results
  <2> QED  BY <2>6
<1> QED  BY <1>2, <1>3, StreamFramesAssumption

\* What was read is an input.
LEMMA InputRead ==
    ASSUME extractor \in Extractors, stream \in Inputs(extractor), read \in 0 .. Len(stream)
    PROVE  Input \in Inputs(extractor)
<1>1. stream \in Seq(Bytes[extractor]) /\ Len(stream) \in Nat /\ Len(stream) <= MaxStream
  BY InputLength
<1>2. Input \in Seq(Bytes[extractor]) /\ Len(Input) = read
  BY <1>1, TakeProperties DEF Input
<1> QED  BY <1>1, <1>2, StreamFramesAssumption DEF Inputs

\* The steps preserve the invariant: a read continues the reading from the rest.
LEMMA ReadKeepsFramesInv ==
    ASSUME FramesInv, NEW n \in 1 .. MaxChunk, Read(n)
    PROVE  FramesInv'
<1> DEFINE x     == extractor
<1> DEFINE chunk == SubSeq(stream, read + 1, read + n)
<1> DEFINE b     == buffer \o chunk
<1>1. /\ x \in Extractors /\ stream \in Inputs(x) /\ read \in 0 .. Len(stream)
      /\ buffer = Reading[x][Input].buffer /\ frames = Reading[x][Input].frames
      /\ n <= Len(stream) - read /\ read' = read + n
      /\ extractor' = x /\ stream' = stream
      /\ buffer' = Extracted(b).buffer /\ frames' = frames \o Extracted(b).frames
      /\ n \in Nat \ {0}
  BY StreamFramesAssumption DEF FramesInv, Read
<1>2. stream \in Seq(Bytes[x]) /\ Len(stream) \in Nat /\ Len(stream) <= MaxStream
  BY <1>1, InputLength
<1>3. Input \in Inputs(x)
  BY <1>1, InputRead
<1>4. chunk \in Seq(Bytes[x]) /\ Len(chunk) = n
  <2>1. read \in Nat /\ read + n <= Len(stream)
    BY <1>1, <1>2
  <2>2. stream \in Seq(Bytes[x]) /\ n \in Nat \ {0}
    BY <1>1, <1>2
  <2> DEFINE B == Bytes[x]
  <2>3. stream \in Seq(B)
    BY <2>2
  <2> HIDE DEF B
  <2>4. SubSeq(stream, read + 1, read + n) \in Seq(B)
        /\ Len(SubSeq(stream, read + 1, read + n)) = n
    BY <2>1, <2>2, <2>3, MiddleProperties
  <2> QED  BY <2>4 DEF B
<1>5. Input' = Input \o chunk /\ Input' \in Inputs(x)
  <2>1. Take(stream, read) \o chunk = Take(stream, read + n)
    <3>1. 1 \in 1 .. Len(stream) + 1 /\ read \in 0 .. Len(stream)
          /\ read + n \in read .. Len(stream) /\ 1 - 1 = 0
      BY <1>1, <1>2
    <3>2. SubSeq(stream, 1, read) \o SubSeq(stream, read + 1, read + n)
            = SubSeq(stream, 1, read + n)
      BY <1>2, <3>1, ConcatAdjacentSubSeq
    <3> QED  BY <3>2 DEF Take
  <2>2. Input' = Take(stream, read + n)
    BY <1>1 DEF Input
  <2>3. read + n \in 0 .. Len(stream)
    BY <1>1, <1>2
  <2>4. Take(stream, read + n) \in Seq(Bytes[x]) /\ Len(Take(stream, read + n)) = read + n
    BY <1>2, <2>3, TakeProperties
  <2>5. Input' = Input \o chunk
    BY <2>1, <2>2 DEF Input
  <2>6. Take(stream, read + n) \in Inputs(x)
    BY <1>2, <2>3, <2>4, StreamFramesAssumption DEF Inputs
  <2> QED  BY <2>2, <2>5, <2>6
<1> HIDE DEF chunk
<1>6. /\ b \in Inputs(x)
      /\ Reading[x][Input \o chunk].buffer = Reading[x][b].buffer
      /\ Reading[x][Input \o chunk].frames = frames \o Reading[x][b].frames
  <2>1. Input \o chunk \in Inputs(x)
    BY <1>5
  <2>2. LET rest == Reading[x][Input].buffer \o chunk
        IN  /\ rest \in Inputs(x)
            /\ Reading[x][Input \o chunk].buffer = Reading[x][rest].buffer
            /\ Reading[x][Input \o chunk].frames
                 = Reading[x][Input].frames \o Reading[x][rest].frames
    BY <1>1, <1>3, <1>4, <2>1, ReadingOfConcat, Zenon
  <2> QED  BY <1>1, <2>2
<1>7. Len(b) <= MaxBuffer
  <2>1. MaxChunk + Len(buffer) <= MaxBuffer
    BY <1>1, <1>3, RestFits
  <2>2. buffer \in Seq(Bytes[x]) /\ Len(buffer) \in Nat
    <3>1. Reading[x][Input] \in Results(x)
      BY <1>1, <1>3, ReadingRest
    <3>2. buffer \in Inputs(x)
      BY <1>1, <3>1 DEF Results
    <3> QED  BY <1>1, <3>2, InputLength
  <2>3. Len(b) = Len(buffer) + n
    BY <1>4, <2>2, ConcatProperties
  <2> QED  BY <1>1, <2>1, <2>2, <2>3, StreamFramesAssumption
<1> HIDE DEF b
<1>8. /\ Extracted(b).buffer = Reading[x][b].buffer
      /\ Extracted(b).frames = Reading[x][b].frames
  BY <1>1, <1>6, <1>7, ExtractedReads
<1>9. /\ buffer' = Reading[x][Input'].buffer
      /\ frames' = Reading[x][Input'].frames
  BY <1>1, <1>5, <1>6, <1>8
<1>10. read' \in 0 .. Len(stream)
  BY <1>1, <1>2
<1> QED  BY <1>1, <1>9, <1>10 DEF FramesInv

LEMMA SendKeepsFramesInv ==
    ASSUME FramesInv, NEW byte \in Bytes[extractor], Send(byte)
    PROVE  FramesInv'
<1>1. /\ extractor \in Extractors /\ stream \in Inputs(extractor)
      /\ read \in 0 .. Len(stream)
      /\ stream' = Append(stream, byte) /\ Len(stream) < MaxStream
      /\ UNCHANGED <<extractor, read, buffer, frames>>
  BY DEF FramesInv, Send
<1>2. stream \in Seq(Bytes[extractor]) /\ Len(stream) \in Nat /\ MaxStream \in Nat
  BY <1>1, InputLength
<1>3. stream' \in Seq(Bytes[extractor]) /\ Len(stream') = Len(stream) + 1
  BY <1>1, <1>2, AppendProperties
<1>4. stream' \in Inputs(extractor) /\ read \in 0 .. Len(stream')
  BY <1>1, <1>2, <1>3 DEF Inputs
<1>5. Take(stream', read) = Take(stream, read)
  <2>1. <<byte>> \in Seq(Bytes[extractor])
    BY OneItem, Zenon
  <2>2. Append(stream, byte) = stream \o <<byte>>
    BY <1>2, AppendIsConcat, Zenon
  <2>3. read \in 0 .. Len(stream)
    BY <1>1
  <2>4. Take(stream \o <<byte>>, read) = Take(stream, read)
    BY <1>2, <2>1, <2>3, TakeOfConcat, Zenon
  <2> QED  BY <1>1, <2>2, <2>4, Zenon
<1>6. Input' = Input
  BY <1>1, <1>5 DEF Input
<1> QED  BY <1>1, <1>4, <1>6 DEF FramesInv

\* What an extractor has returned, and what it keeps, is what the reading of the
\* bytes it was given finds, and leaves.
THEOREM FramesInvariant == FramesSpec => []FramesInv
<1>1. FramesInit => FramesInv
  <2> SUFFICES ASSUME FramesInit  PROVE FramesInv
    OBVIOUS
  <2>1. /\ extractor \in Extractors /\ stream = <<>> /\ read = 0
        /\ buffer = <<>> /\ frames = <<>>
    BY DEF FramesInit
  <2>2. <<>> \in Inputs(extractor) /\ Len(<<>>) = 0
    BY EmptySeq, StreamFramesAssumption DEF Inputs
  <2>3. Input = <<>>
    <3>1. <<>> \in Seq(Nat)
      BY EmptySeq
    <3> QED  BY <2>1, SubSeqEmpty DEF Input, Take
  <2>4. Reading[extractor][<<>>] = Leaves(<<>>)
    BY <2>1, <2>2, ReadingIs
  <2>5. Leaves(<<>>).buffer = <<>> /\ Leaves(<<>>).frames = <<>>
    BY DEF Leaves
  <2> QED  BY <2>1, <2>2, <2>3, <2>4, <2>5 DEF FramesInv
<1>2. FramesInv /\ [FramesNext]_framesVars => FramesInv'
  <2> SUFFICES ASSUME FramesInv, [FramesNext]_framesVars  PROVE FramesInv'
    OBVIOUS
  <2>1. ASSUME NEW byte \in Bytes[extractor], Send(byte)  PROVE FramesInv'
    BY <2>1, SendKeepsFramesInv
  <2>2. ASSUME NEW n \in 1 .. MaxChunk, Read(n)  PROVE FramesInv'
    BY <2>2, ReadKeepsFramesInv
  <2>3. CASE UNCHANGED framesVars
    BY <2>3 DEF framesVars, FramesInv, Input
  <2> QED  BY <2>1, <2>2, <2>3 DEF FramesNext
<1> QED  BY <1>1, <1>2, PTL DEF FramesSpec

\* However TCP cuts the bytes, the frames are those of the bytes.
THEOREM FramesOfTheBytes == FramesSpec => []FramesDoNotDependOnChunks
<1>1. FramesInv => FramesDoNotDependOnChunks
  BY DEF FramesInv, FramesDoNotDependOnChunks
<1> QED  BY <1>1, FramesInvariant, PTL

\* The extractor's state has its type, and the reader is never ahead of the antenna.
THEOREM FramesType == FramesSpec => []FramesTypeOK
<1>1. FramesInv => FramesTypeOK
  <2> SUFFICES ASSUME FramesInv  PROVE FramesTypeOK
    OBVIOUS
  <2>1. /\ extractor \in Extractors /\ stream \in Inputs(extractor)
        /\ read \in 0 .. Len(stream)
        /\ buffer = Reading[extractor][Input].buffer
        /\ frames = Reading[extractor][Input].frames
    BY DEF FramesInv
  <2>2. Reading[extractor][Input] \in Results(extractor)
    BY <2>1, InputRead, ReadingRest
  <2>3. buffer \in Inputs(extractor) /\ frames \in Seq(Seq(Bytes[extractor]))
    BY <2>1, <2>2 DEF Results
  <2> QED  BY <2>1, <2>3 DEF FramesTypeOK
<1> QED  BY <1>1, FramesInvariant, PTL

\* Whatever the antenna sent, the next chunk fits beside what is kept: the caps of
\* the two extractors (enforceMaxBuffer) never drop a byte that was read.
THEOREM ChunksHaveRoom == FramesSpec => [](MaxChunk + Len(buffer) <= MaxBuffer)
<1>1. FramesInv => MaxChunk + Len(buffer) <= MaxBuffer
  BY InputRead, RestFits DEF FramesInv
<1> QED  BY <1>1, FramesInvariant, PTL

\* No handler is given anything but a frame that is whole: it has its header, the
\* length it states, and with chainway a plausible length and its checksum.
THEOREM FramesAreWhole == FramesSpec => [](frames \in Seq(Whole(extractor)))
<1>1. FramesInv => frames \in Seq(Whole(extractor))
  BY InputRead, ReadingIsWhole DEF FramesInv
<1> QED  BY <1>1, FramesInvariant, PTL
=============================================================================
