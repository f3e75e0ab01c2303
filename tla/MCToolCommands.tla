---------------------------- MODULE MCToolCommands ----------------------------
(* Tasks and buffers are interchangeable.                                   *)
EXTENDS ToolCommands, TLC
Symmetry == Permutations(Tasks) \cup Permutations(Buffers)
=============================================================================
