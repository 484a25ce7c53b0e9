------------------------------ MODULE MCSpawn ------------------------------
(***************************************************************************)
(* Instances of Spawn for TLC: every table over a few descriptors.         *)
(* Descriptors 0 to 2, the sources and then the report pipe are the lowest *)
(* numbers, as in a shell that has just started.                           *)
(***************************************************************************)
EXTENDS Spawn

(* Standard descriptors, numbers that are sources too, the report pipe's    *)
(* reading end, free numbers above, one that is no descriptor, one that is  *)
(* no RawFd.                                                                *)
AnyTargets == {1, 3, 4, 6, 14, 40}
AnySources == {3, 4, 5}

(* The number the report pipe's writing end gets.                           *)
ReportTargets == {1, 7}

=============================================================================
