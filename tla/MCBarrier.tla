----------------------------- MODULE MCBarrier -----------------------------
(***************************************************************************)
(* Instances of Barrier for TLC.                                           *)
(***************************************************************************)
EXTENDS Barrier

FourThreads == 0 .. 3
=============================================================================
