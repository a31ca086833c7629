--------------------------- MODULE MCReadingCache ---------------------------
(* ReadingCache on a small instance: see MCReadingCache.cfg. *)
EXTENDS ReadingCache

CONSTANTS r1, r2, r3, r4, f1
=============================================================================
