------------------------------ MODULE MCFigures ------------------------------
(* Instances of Figures for TLC.                                            *)
EXTENDS Figures
=============================================================================
