----------------------------- MODULE MCUThreads -----------------------------
(***************************************************************************)
(* Instances of UThreads for TLC.                                          *)
(***************************************************************************)
EXTENDS UThreads

\* Ids in range, and ids just outside.
InRange  == Tid
AnyId    == -1 .. MaxThreadNum
Anywhere == TimerPoints
InUser   == {"user"}

\* View: all states in which the process is gone count as one.
EndsAlike == IF process \in {"exited", "undefined"} THEN <<process>> ELSE vars

\* Bounds: a program that terminates waiting threads can list one any number
\* of times, and an id queued twice can be queued again; two entries are
\* enough for every effect of a stale or repeated one.
FewDependants ==
  FoldFunction(LAMBDA d, n : Len(d) + n, 0, sync_dependencies) <= 2
ShortQueue == Len(ready) <= MaxThreadNum
=============================================================================
