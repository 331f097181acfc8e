---------------------------- MODULE MCActivityLog ----------------------------
(* Instances of ActivityLog for TLC.                                        *)
EXTENDS ActivityLog
=============================================================================
