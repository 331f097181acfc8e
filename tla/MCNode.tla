------------------------------- MODULE MCNode -------------------------------
(* Instances of Node for TLC, with Supervisor as an implementation of       *)
(* RoutableSlot while requests run and report failures.                     *)
EXTENDS Node, SupervisorSlot
=============================================================================
