----------------------------- MODULE MCTryUmount -----------------------------
(* A mount point and a directory below it, with no mount made at boot.      *)
EXTENDS TryUmount
CONSTANTS vendor, vendor_lib

OverDef == [p \in Paths |-> IF p = vendor_lib THEN Paths ELSE {p}]
LegitDef == <<>>
RequestsDef == {[path |-> vendor, mode |-> TRY_UMOUNT_DEFAULT], [path |-> vendor_lib, mode |-> 2]}
=============================================================================
