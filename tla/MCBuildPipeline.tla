---------------------------- MODULE MCBuildPipeline ----------------------------
(* Instances of BuildPipeline for TLC *)
EXTENDS BuildPipeline

Patching == {"prep", "setup", "apply"}
=============================================================================
