--------------------------- MODULE MCStreamFrames ---------------------------
(* Generic: 1 is the SOI.  Chainway: 1 2 is the header, 4 a length and 5 one *)
(* above the maximum; all of them may also be data.                          *)
EXTENDS StreamFrames

MCBytes == [p \in {"generic", "chainway"} |-> IF p = "generic" THEN 0 .. 2 ELSE {1, 2, 4, 5}]
=============================================================================
