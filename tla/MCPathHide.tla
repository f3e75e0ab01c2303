------------------------------ MODULE MCPathHide ------------------------------
(* An instance of PathHide for TLC.                                         *)
EXTENDS PathHide, TLC
=============================================================================
