-------------------------- MODULE MCAntennaSession --------------------------
(* AntennaSession on a small instance: see MCAntennaSession.cfg. *)
EXTENDS AntennaSession
=============================================================================
