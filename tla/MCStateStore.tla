---------------------------- MODULE MCStateStore ----------------------------
(***************************************************************************)
(* StateStore with two processes, which may be two servers, two offline    *)
(* commands or one of each.                                                *)
(***************************************************************************)
EXTENDS StateStore, TLC

ProcSymmetry == Permutations(Procs)
=============================================================================
