------------------------------ MODULE MCMntId -------------------------------
(* Instances of MntId for TLC.                                              *)
EXTENDS MntId, TLC

CONSTANTS m0, m1, m2, m3, ksu, zygote, app, init_ns, ns1, ns2

MCDomain ==
  [t \in Tasks |-> CASE t = ksu -> "ksu" [] t = zygote -> "zygote" [] OTHER -> "other"]

\* Mounts other than rootfs are interchangeable, and so are new namespaces.
MCSymmetry == Permutations(Mounts \ {Root}) \cup Permutations(Nss \ {InitNs})

=============================================================================
