---------------------------- MODULE DurableChange ----------------------------
(***************************************************************************)
(* What a deployment may rely on while the mode of the data directory is   *)
(* changed, whenever the power goes: the directory is open (0775) or       *)
(* private (0700), or a change that was begun and not finished is on its   *)
(* way, always to the mode it was begun for.  `modes` are the modes the    *)
(* directory may have after a power loss: they are uncertain only while a  *)
(* change is on its way, and a change is finished only when they are not.  *)
(***************************************************************************)
EXTENDS FiniteSets

VARIABLES phase, modes

vars == <<phase, modes>>

Modes == {"0775", "0700"}

\* The phases in their only order.
Successor == [p \in {"open", "applying", "private", "rolling back"} |->
    CASE p = "open"         -> "applying"
      [] p = "applying"     -> "private"
      [] p = "private"      -> "rolling back"
      [] p = "rolling back" -> "open"]

ModeOf == [p \in {"open", "private"} |-> IF p = "open" THEN "0775" ELSE "0700"]

InProgress == phase \in {"applying", "rolling back"}

Init == phase = "open" /\ modes = {"0775"}

Start ==
    /\ ~InProgress
    /\ phase' = Successor[phase]
    /\ UNCHANGED modes

Change ==
    /\ InProgress
    /\ modes' \in (SUBSET Modes) \ {{}}
    /\ UNCHANGED phase

Finish ==
    /\ InProgress
    /\ modes = {ModeOf[Successor[phase]]}
    /\ phase' = Successor[phase]
    /\ UNCHANGED modes

Next == Start \/ Change \/ Finish

Spec == Init /\ [][Next]_vars
=============================================================================
