----------------------------- MODULE MCMountHide -----------------------------
(* Instances of MountHide for TLC.                                          *)
EXTENDS MountHide, TLC

CONSTANTS r, m1, m2

=============================================================================
