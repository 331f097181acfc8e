----------------------------- MODULE MCMeshStream -----------------------------
(* Instances of MeshStream for TLC.                                         *)
EXTENDS MeshStream
=============================================================================
