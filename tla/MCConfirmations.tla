--------------------------- MODULE MCConfirmations ---------------------------
(* Confirmations on a small instance: see MCConfirmations.cfg. *)
EXTENDS Confirmations
=============================================================================
