---------------------------- MODULE MCTransport ----------------------------
(***************************************************************************)
(* Instances of Transport for TLC.                                         *)
(***************************************************************************)
EXTENDS Transport

\* A short message, one that fills its frame, an empty one.
ThreeLengths == <<1, 4, 0>>
=============================================================================
