----------------------------- MODULE MCSpoofUname -----------------------------
(* Writers are interchangeable.                                             *)
EXTENDS SpoofUname, TLC
Symmetry == Permutations(Writers)
=============================================================================
