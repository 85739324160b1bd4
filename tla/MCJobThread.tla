----------------------------- MODULE MCJobThread -----------------------------
(***************************************************************************)
(* Small instances of JobThread for TLC.                                   *)
(***************************************************************************)
EXTENDS JobThread, TLC

SymmetricThreads == Permutations(Threads)
=============================================================================
