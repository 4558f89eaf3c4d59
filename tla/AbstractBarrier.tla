-------------------------- MODULE AbstractBarrier --------------------------
(***************************************************************************)
(* What a barrier for several uses promises: a call returns only when      *)
(* every thread has made as many calls.                                    *)
(***************************************************************************)
EXTENDS Integers

CONSTANTS Threads, Rounds

VARIABLES
  arrived,   \* how many calls each thread has made
  left       \* how many calls of each thread have returned

Init == arrived = [t \in Threads |-> 0] /\ left = [t \in Threads |-> 0]

Call(t) ==
  /\ arrived[t] = left[t]
  /\ arrived[t] < Rounds
  /\ arrived' = [arrived EXCEPT ![t] = @ + 1]
  /\ UNCHANGED left

ReturnTogether(t) ==
  /\ left[t] < arrived[t]
  /\ \A u \in Threads : arrived[t] <= arrived[u]
  /\ left' = [left EXCEPT ![t] = @ + 1]
  /\ UNCHANGED arrived

Next == \E t \in Threads : Call(t) \/ ReturnTogether(t)

Spec == Init /\ [][Next]_<<arrived, left>>
=============================================================================
