----------------------------- MODULE MCSusHlist -----------------------------
(***************************************************************************)
(* A small instance of SusHlist.  Two tasks are enough for every race on   *)
(* one pathname, and two pathnames for a rival claim on an inode number:   *)
(* n1 and n3 are files on f2fs, n2 is a tmpfs file that carries n1's       *)
(* number, as tmpfs numbers its inodes from 1 again.  The tasks are        *)
(* interchangeable, so permuting them is a symmetry of the specification.  *)
(***************************************************************************)
EXTENDS SusHlist, TLC

CONSTANTS p1, p2, n1, n2, n3, d1, d2

MCInoOf  == [n \in Inodes |-> IF n = n3 THEN 1 ELSE 2]
MCFsOf   == [n \in Inodes |-> IF n = n2 THEN "tmpfs" ELSE "f2fs"]
MCHomeOf == [p \in Paths |-> IF p = p1 THEN n1 ELSE n2]
MCBucket == [i \in Inos |-> i]

Used == {tbl \in Tables : hlist[tbl] # <<>>} \cup {arg[t].tbl : t \in {u \in Tasks : arg[u] # NoArg}}

\* Bounds: one pathname in the kstat table, with everything that may happen to it
\* and to its inodes, and one value of the attributes; and two pathnames that stay
\* what they are in the other tables, with two targets for a redirection, so that
\* claims on one number differ.
OneOrTwoPaths ==
  \/ /\ Used \subseteq {"kstat"} /\ n2 # resolve[p1] /\ resolve[p2] = n2
     /\ \A t \in Tasks : arg[t] # NoArg => arg[t].path = p1 /\ arg[t].val.data # d2
     /\ \A k \in DOMAIN hlist["kstat"] : hlist["kstat"][k].path = p1
  \/ "kstat" \notin Used /\ resolve = HomeOf /\ evicted = {}

TaskSymmetry == Permutations(Tasks)

=============================================================================
