------------------------------ MODULE Barrier ------------------------------
(***************************************************************************)
(* The barrier of the MapReduce framework, ex3/Barrier.cpp.  Its mutex is  *)
(* held from the entry to the condition variable, so what a thread does    *)
(* under it is one action; a thread that has been woken takes the mutex    *)
(* again and returns in a second one.                                      *)
(*                                                                         *)
(* A definition Mut<Name>, always just before <Name>, is <Name> with a     *)
(* plausible mistake; nothing uses it but the mutation runs.               *)
(***************************************************************************)
EXTENDS Integers, FiniteSets

CONSTANTS
  Threads,   \* the threads that use the barrier: numThreads of them
  Rounds     \* bound: how many times a thread enters the barrier

ASSUME ThreadsAssumption  == IsFiniteSet(Threads) /\ Threads # {}
ASSUME RoundsAssumption   == Rounds \in Nat

VARIABLES
  count,     \* Barrier::count
  waiters,   \* the threads inside pthread_cond_wait
  returning, \* the threads past the wait or the broadcast, still in barrier()
  arrived,   \* history: how many times each thread has entered
  left       \* history: how many times each thread has returned

barrierVars == <<count, waiters, returning, arrived, left>>

numThreads == Cardinality(Threads)

BarrierTypeOK ==
  /\ count \in 0 .. numThreads
  /\ waiters \subseteq Threads
  /\ returning \subseteq Threads
  /\ arrived \in [Threads -> 0 .. Rounds]
  /\ left \in [Threads -> 0 .. Rounds]

BarrierInit ==
  /\ count = 0
  /\ waiters = {}
  /\ returning = {}
  /\ arrived = [t \in Threads |-> 0]
  /\ left = [t \in Threads |-> 0]

-----------------------------------------------------------------------------
Outside(t) == t \notin waiters \cup returning

\* The caller counts itself: is it the last of the round?
MutNeverLast == count + 1 > numThreads
MutIsLast == count + 2 >= numThreads
IsLast == count + 1 >= numThreads

\* The counter after the last thread of a round.
MutResetCount == count + 1
ResetCount == 0

Enter(t) ==
  /\ Outside(t)
  /\ arrived[t] < Rounds
  /\ arrived' = [arrived EXCEPT ![t] = @ + 1]
  /\ \/ /\ ~ IsLast
        /\ count' = count + 1
        /\ waiters' = waiters \cup {t}
        /\ UNCHANGED returning
     \/ /\ IsLast
        /\ count' = ResetCount
        /\ waiters' = {}
        /\ returning' = returning \cup waiters \cup {t}
  /\ UNCHANGED left

Return(t) ==
  /\ t \in returning
  /\ returning' = returning \ {t}
  /\ left' = [left EXCEPT ![t] = @ + 1]
  /\ UNCHANGED <<count, waiters, arrived>>

BarrierNext == \E t \in Threads : Enter(t) \/ Return(t)

BarrierSpec == BarrierInit /\ [][BarrierNext]_barrierVars

\* Each thread that can run does: the kernel schedules every thread.
FairBarrierSpec ==
  BarrierSpec /\ \A t \in Threads : WF_barrierVars(Enter(t) \/ Return(t))

(***************************************************************************)
(* POSIX lets the wait return on its own; the code does not wait again.    *)
(* AnyWakeupSpec has such returns, BarrierSpec has none.                   *)
(***************************************************************************)
WakeSpuriously(t) ==
  /\ t \in waiters
  /\ waiters' = waiters \ {t}
  /\ returning' = returning \cup {t}
  /\ UNCHANGED <<count, arrived, left>>

AnyWakeupNext == BarrierNext \/ \E t \in Threads : WakeSpuriously(t)

AnyWakeupSpec == BarrierInit /\ [][AnyWakeupNext]_barrierVars

-----------------------------------------------------------------------------
\* "A multiple use barrier": no thread returns from its k-th call before every
\* thread has made its k-th call.
NobodyAhead == \A t, u \in Threads : left[t] <= arrived[u]

\* The counter is the number of threads that wait: no arrival is forgotten
\* and no round starts with a rest of the last one.
CountIsExact == count = Cardinality(waiters)

\* A thread sleeps only for one that can still come: some other thread has
\* calls left, has made fewer of them, and does not sleep itself.
SleepsForSomebody ==
  \A t \in waiters :
    \E u \in Threads \ waiters : arrived[u] < arrived[t] /\ arrived[u] < Rounds

\* Spurious wakeups or not, every numThreads-th call of barrier() starts a new
\* round, and a waiting thread belongs to the round that is being counted:
\* the broadcast leaves nobody behind.
Calls == {c \in Threads \X (1 .. Rounds) : c[2] <= arrived[c[1]]}
CallsAreCounted ==
  /\ \E rounds \in 0 .. Cardinality(Calls) :
       Cardinality(Calls) = rounds * numThreads + count
  /\ count < numThreads
  /\ Cardinality(waiters) <= count

\* Threads that keep calling the barrier all get through.
EverybodyPasses == <>(\A t \in Threads : left[t] = Rounds)

\* What the barrier promises, without its counter and its condition variable.
Promise == INSTANCE AbstractBarrier WITH arrived <- arrived, left <- left

ImplementsPromise == Promise!Spec
=============================================================================
