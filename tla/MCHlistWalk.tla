----------------------------- MODULE MCHlistWalk -----------------------------
(* Two pathnames that have the same inode number, until one of them gets      *)
(* another.                                                                  *)
EXTENDS HlistWalk
CONSTANTS a, b

Command(n, k, update) == [entry |-> [name |-> n, key |-> k], update |-> update]
IssuedDef == {Command(a, 1, FALSE), Command(b, 1, FALSE), Command(a, 2, TRUE)}
=============================================================================
