---------------------------- MODULE MCSyncEngine ----------------------------
(* SyncEngine on a small instance: see MCSyncEngine.cfg. *)
EXTENDS SyncEngine
=============================================================================
