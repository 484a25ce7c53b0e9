--------------------------- MODULE MCDispositions ---------------------------
(***************************************************************************)
(* Instances of Dispositions for TLC.                                      *)
(***************************************************************************)
EXTENDS Dispositions, TLC

CopySymmetry == Permutations(Copies)
=============================================================================
