------------------------------- MODULE MCMesh -------------------------------
(* Instances of Mesh for TLC.                                               *)
EXTENDS Mesh
=============================================================================
