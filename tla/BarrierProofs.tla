--------------------------- MODULE BarrierProofs ---------------------------
(***************************************************************************)
(* Without spurious wakeups the barrier keeps its promise, for any number  *)
(* of threads and rounds; with them it still counts its calls.             *)
(***************************************************************************)
EXTENDS Barrier, FiniteSetTheorems, TLAPS

(***************************************************************************)
(* The inductive invariant: r rounds are over, the waiting threads have    *)
(* arrived at the next one, the others have not; the last one to arrive    *)
(* ends the round, so that never all of them wait.                         *)
(***************************************************************************)
OneRound ==
  \E r \in 0 .. Rounds :
    /\ \A t \in waiters : arrived[t] = r + 1
    /\ \A t \in Threads \ waiters : arrived[t] = r

Inside == waiters \cup returning

CallsMatch ==
  \A t \in Threads : arrived[t] = IF t \in Inside THEN left[t] + 1 ELSE left[t]

BarrierInv ==
  /\ BarrierTypeOK
  /\ CountIsExact
  /\ count < numThreads
  /\ waiters \cap returning = {}
  /\ OneRound
  /\ CallsMatch

LEMMA NumThreadsType == numThreads \in Nat
BY ThreadsAssumption, FS_CardinalityType DEF numThreads

LEMMA SomeThreads == numThreads \in Nat \ {0}
BY ThreadsAssumption, FS_EmptySet, NumThreadsType DEF numThreads

LEMMA WaitersFinite ==
  ASSUME waiters \subseteq Threads
  PROVE  /\ IsFiniteSet(waiters)
         /\ Cardinality(waiters) \in Nat
         /\ Cardinality(waiters) <= numThreads
BY ThreadsAssumption, FS_Subset, FS_CardinalityType DEF numThreads

LEMMA BarrierInvInit == BarrierInit => BarrierInv
<1>. SUFFICES ASSUME BarrierInit PROVE BarrierInv
  OBVIOUS
<1>1. BarrierTypeOK
  BY NumThreadsType, RoundsAssumption DEF BarrierInit, BarrierTypeOK
<1>2. CountIsExact
  BY FS_EmptySet DEF BarrierInit, CountIsExact
<1>3. OneRound /\ CallsMatch
  BY RoundsAssumption DEF BarrierInit, OneRound, CallsMatch, Inside
<1>. QED  BY <1>1, <1>2, <1>3, SomeThreads DEF BarrierInit, BarrierInv

\* The caller is the last of a round only when all the others wait.
LEMMA LastMeansAll ==
  ASSUME BarrierInv, NEW t \in Threads, t \notin waiters, IsLast
  PROVE  waiters = Threads \ {t}
<1>1. /\ IsFiniteSet(waiters) /\ Cardinality(waiters) = count /\ count \in Nat
  BY WaitersFinite DEF BarrierInv, BarrierTypeOK, CountIsExact
<1>2. /\ IsFiniteSet(Threads \ {t})
      /\ Cardinality(Threads \ {t}) = numThreads - 1
  BY ThreadsAssumption, FS_RemoveElement DEF numThreads
<1>3. waiters \subseteq Threads \ {t}
  BY DEF BarrierInv, BarrierTypeOK
<1>4. Cardinality(waiters) <= Cardinality(Threads \ {t})
  BY <1>2, <1>3, FS_Subset
<1>5. Cardinality(waiters) = Cardinality(Threads \ {t})
  BY <1>1, <1>2, <1>4, NumThreadsType DEF IsLast
<1>. QED  BY <1>2, <1>3, <1>5, FS_Subset

LEMMA EnterStep ==
  ASSUME BarrierInv, NEW t \in Threads, Enter(t)
  PROVE  BarrierInv'
<1>. USE DEF BarrierInv, BarrierTypeOK, Outside
<1>1. /\ waiters \subseteq Threads /\ returning \subseteq Threads
      /\ t \notin waiters /\ t \notin returning
      /\ arrived[t] \in 0 .. Rounds /\ arrived[t] < Rounds
      /\ arrived' = [arrived EXCEPT ![t] = @ + 1] /\ left' = left
  BY DEF Enter
<1>2. arrived' \in [Threads -> 0 .. Rounds] /\ left' \in [Threads -> 0 .. Rounds]
  BY <1>1, RoundsAssumption
<1>3. PICK r \in 0 .. Rounds :
        /\ \A u \in waiters : arrived[u] = r + 1
        /\ \A u \in Threads \ waiters : arrived[u] = r
  BY DEF OneRound
<1>4. CASE ~ IsLast
  <2>1. /\ count' = count + 1 /\ waiters' = waiters \cup {t}
        /\ returning' = returning
    BY <1>4 DEF Enter
  <2>2. Cardinality(waiters') = count'
    BY <1>1, <2>1, WaitersFinite, FS_AddElement DEF CountIsExact
  <2>3. count' \in 0 .. numThreads /\ count' < numThreads
    BY <1>4, <2>1, NumThreadsType DEF IsLast
  <2>4. OneRound'
    BY <1>1, <1>3, <2>1 DEF OneRound
  <2>5. CallsMatch'
    BY <1>1, <2>1 DEF CallsMatch, Inside
  <2>. QED  BY <1>1, <1>2, <2>1, <2>2, <2>3, <2>4, <2>5 DEF CountIsExact
<1>5. CASE IsLast
  <2>1. /\ count' = 0 /\ waiters' = {}
        /\ returning' = returning \cup waiters \cup {t}
    BY <1>5 DEF Enter, ResetCount
  <2>2. waiters = Threads \ {t}
    BY <1>1, <1>5, LastMeansAll
  <2>3. /\ Cardinality(waiters') = count' /\ count' \in 0 .. numThreads
        /\ count' < numThreads
    BY <2>1, FS_EmptySet, SomeThreads
  <2>4. OneRound'
    <3>1. r + 1 \in 0 .. Rounds
      BY <1>1, <1>3, RoundsAssumption
    <3>2. \A u \in Threads : arrived'[u] = r + 1
      BY <1>1, <1>3, <2>2
    <3>. QED  BY <2>1, <3>1, <3>2 DEF OneRound
  <2>5. CallsMatch'
    BY <1>1, <2>1 DEF CallsMatch, Inside
  <2>. QED  BY <1>1, <1>2, <2>1, <2>3, <2>4, <2>5 DEF CountIsExact
<1>. QED  BY <1>4, <1>5

LEMMA ReturnStep ==
  ASSUME BarrierInv, NEW t \in Threads, Return(t)
  PROVE  BarrierInv'
<1>. USE DEF BarrierInv, BarrierTypeOK, Return
<1>1. left[t] + 1 = arrived[t] /\ arrived[t] \in 0 .. Rounds
  BY DEF CallsMatch, Inside
<1>2. left[t] + 1 \in 0 .. Rounds
  BY <1>1
<1>3. left' \in [Threads -> 0 .. Rounds]
  BY <1>2
<1>4. CallsMatch'
  BY <1>1 DEF CallsMatch, Inside
<1>. QED  BY <1>3, <1>4 DEF OneRound, CountIsExact

LEMMA BarrierInvStep ==
  BarrierInv /\ [BarrierNext]_barrierVars => BarrierInv'
<1>. SUFFICES ASSUME BarrierInv, [BarrierNext]_barrierVars PROVE BarrierInv'
  OBVIOUS
<1>1. CASE UNCHANGED barrierVars
  BY <1>1 DEF barrierVars, BarrierInv, BarrierTypeOK, CountIsExact, OneRound,
              CallsMatch, Inside
<1>2. CASE BarrierNext
  BY <1>2, EnterStep, ReturnStep DEF BarrierNext
<1>. QED  BY <1>1, <1>2

LEMMA BarrierInvAlways ==
  BarrierSpec => []BarrierInv
BY BarrierInvInit, BarrierInvStep, PTL DEF BarrierSpec

LEMMA InvMeansNobodyAhead == BarrierInv => NobodyAhead
<1>. SUFFICES ASSUME BarrierInv, NEW t \in Threads, NEW u \in Threads
              PROVE  left[t] <= arrived[u]
  BY DEF NobodyAhead
<1>1. PICK r \in 0 .. Rounds :
        /\ \A v \in waiters : arrived[v] = r + 1
        /\ \A v \in Threads \ waiters : arrived[v] = r
  BY DEF BarrierInv, OneRound
<1>2. r <= arrived[u]
  BY <1>1
<1>3. left[t] <= r
  BY <1>1 DEF BarrierInv, BarrierTypeOK, CallsMatch, Inside
<1>4. left[t] \in Int /\ arrived[u] \in Int /\ r \in Int
  BY DEF BarrierInv, BarrierTypeOK
<1>. QED  BY <1>2, <1>3, <1>4

(***************************************************************************)
(* No thread returns from its k-th call of barrier() before every thread   *)
(* has made its k-th call.                                                 *)
(***************************************************************************)
THEOREM BarrierHolds ==
  BarrierSpec => []NobodyAhead
BY BarrierInvAlways, InvMeansNobodyAhead, PTL

(***************************************************************************)
(* The counter of the code counts the threads that wait.                   *)
(***************************************************************************)
THEOREM BarrierCounts ==
  BarrierSpec => []CountIsExact
<1>1. BarrierInv => CountIsExact
  BY DEF BarrierInv
<1>. QED  BY <1>1, BarrierInvAlways, PTL

LEMMA InvMeansSomebody == BarrierInv => SleepsForSomebody
<1>. SUFFICES ASSUME BarrierInv, NEW t \in waiters
              PROVE  \E u \in Threads \ waiters :
                       arrived[u] < arrived[t] /\ arrived[u] < Rounds
  BY DEF SleepsForSomebody
<1>1. PICK u \in Threads : u \notin waiters
  <2>1. Cardinality(waiters) # Cardinality(Threads)
    BY SomeThreads DEF BarrierInv, BarrierTypeOK, CountIsExact, numThreads
  <2>. QED  BY <2>1 DEF BarrierInv, BarrierTypeOK
<1>2. PICK r \in 0 .. Rounds :
        /\ \A v \in waiters : arrived[v] = r + 1
        /\ \A v \in Threads \ waiters : arrived[v] = r
  BY DEF BarrierInv, OneRound
<1>3. arrived[u] = r /\ arrived[t] = r + 1 /\ arrived[t] \in 0 .. Rounds
  BY <1>1, <1>2 DEF BarrierInv, BarrierTypeOK
<1>4. arrived[u] < arrived[t] /\ arrived[u] < Rounds
  BY <1>3, RoundsAssumption
<1>. QED  BY <1>1, <1>4

(***************************************************************************)
(* A thread that sleeps in barrier() waits for one that is awake, behind   *)
(* it, and has calls left: never do all of them sleep.                     *)
(***************************************************************************)
THEOREM NobodySleepsForNothing ==
  BarrierSpec => []SleepsForSomebody
BY BarrierInvAlways, InvMeansSomebody, PTL

(***************************************************************************)
(* The barrier implements AbstractBarrier.                                 *)
(***************************************************************************)
THEOREM BarrierImplementsPromise ==
  BarrierSpec => ImplementsPromise
<1>1. BarrierInit => Promise!Init
  BY DEF BarrierInit, Promise!Init
<1>2. BarrierInv /\ [BarrierNext]_barrierVars
        => [Promise!Next]_<<arrived, left>>
  <2>. SUFFICES ASSUME BarrierInv, [BarrierNext]_barrierVars
                PROVE  [Promise!Next]_<<arrived, left>>
    OBVIOUS
  <2>1. ASSUME NEW t \in Threads, Enter(t) PROVE Promise!Call(t)
    BY <2>1 DEF Enter, Outside, Promise!Call, BarrierInv, CallsMatch, Inside
  <2>2. ASSUME NEW t \in Threads, Return(t) PROVE Promise!ReturnTogether(t)
    <3>1. /\ arrived[t] = left[t] + 1
          /\ arrived \in [Threads -> 0 .. Rounds]
          /\ left \in [Threads -> 0 .. Rounds]
      BY <2>2 DEF Return, BarrierInv, BarrierTypeOK, CallsMatch, Inside
    <3>2. t \in Threads \ waiters
      BY <2>2 DEF Return, BarrierInv
    <3>3. PICK r \in 0 .. Rounds :
            /\ \A v \in waiters : arrived[v] = r + 1
            /\ \A v \in Threads \ waiters : arrived[v] = r
      BY DEF BarrierInv, OneRound
    <3>4. \A u \in Threads : arrived[t] <= arrived[u]
      BY <3>2, <3>3
    <3>. QED  BY <2>2, <3>1, <3>4 DEF Return, Promise!ReturnTogether
  <2>3. CASE UNCHANGED barrierVars
    BY <2>3 DEF barrierVars
  <2>. QED  BY <2>1, <2>2, <2>3
            DEF BarrierNext, Promise!Next
<1>. QED  BY <1>1, <1>2, BarrierInvAlways, PTL
          DEF BarrierSpec, ImplementsPromise, Promise!Spec

-----------------------------------------------------------------------------
(***************************************************************************)
(* Whatever wakes a thread, the calls are counted.  Here the counter is    *)
(* only an upper bound of the waiting threads, and what is left of the     *)
(* rounds is arithmetic: each call adds one to Calls.                      *)
(***************************************************************************)
CallsInv ==
  /\ BarrierTypeOK
  /\ CallsMatch
  /\ waiters \cap returning = {}
  /\ IsFiniteSet(Calls)
  /\ CallsAreCounted

LEMMA OneMoreRound == \A k, n \in Nat : (k + 1) * n = k * n + n
OBVIOUS

LEMMA CallsInvInit == BarrierInit => CallsInv
<1>. SUFFICES ASSUME BarrierInit PROVE CallsInv
  OBVIOUS
<1>1. BarrierTypeOK
  BY NumThreadsType, RoundsAssumption DEF BarrierInit, BarrierTypeOK
<1>2. Calls = {}
  BY DEF BarrierInit, Calls
<1>3. 0 = 0 * numThreads + 0
  BY SomeThreads
<1>4. CallsMatch
  BY DEF BarrierInit, CallsMatch, Inside
<1>. QED  BY <1>1, <1>2, <1>3, <1>4, FS_EmptySet, SomeThreads
          DEF BarrierInit, CallsInv, CallsAreCounted

LEMMA EnterIsCounted ==
  ASSUME CallsInv, NEW t \in Threads, Enter(t)
  PROVE  CallsInv'
<1>. DEFINE call == <<t, arrived[t] + 1>>
            n    == Cardinality(Calls)
<1>. USE DEF CallsInv, BarrierTypeOK
<1>1. /\ arrived[t] \in 0 .. Rounds /\ arrived[t] < Rounds
      /\ arrived' = [arrived EXCEPT ![t] = @ + 1] /\ left' = left
  BY DEF Enter
<1>2. /\ arrived' \in [Threads -> 0 .. Rounds]
      /\ left' \in [Threads -> 0 .. Rounds]
      /\ returning' \subseteq Threads
      /\ CallsMatch'
  BY <1>1, RoundsAssumption DEF Enter, Outside, CallsMatch, Inside
<1>3. /\ IsFiniteSet(Calls') /\ n \in Nat /\ Cardinality(Calls') = n + 1
  <2>1. call \notin Calls
    BY <1>1 DEF Calls
  <2>2. Calls' = Calls \cup {call}
    BY <1>1, RoundsAssumption DEF Calls
  <2>. QED  BY <2>1, <2>2, FS_AddElement, FS_CardinalityType
<1>4. PICK k \in 0 .. n : n = k * numThreads + count
  BY DEF CallsAreCounted
<1>5. /\ count \in Nat /\ count < numThreads
      /\ Cardinality(waiters) \in Nat /\ Cardinality(waiters) <= count
      /\ IsFiniteSet(waiters)
  BY WaitersFinite DEF CallsAreCounted
<1>6. k \in 0 .. n + 1 /\ k + 1 \in 0 .. n + 1 /\ k * numThreads \in Nat
  BY <1>3, SomeThreads
<1>7. CASE ~ IsLast
  <2>1. /\ count' = count + 1 /\ waiters' = waiters \cup {t}
        /\ count' < numThreads /\ waiters' \subseteq Threads
        /\ waiters' \cap returning' = {} /\ count' \in 0 .. numThreads
    BY <1>5, <1>7, SomeThreads DEF Enter, IsLast, Outside
  <2>2. Cardinality(waiters') <= count'
    <3>1. t \notin waiters
      BY DEF Enter, Outside
    <3>2. Cardinality(waiters \cup {t}) = Cardinality(waiters) + 1
      BY <1>5, <3>1, FS_AddElement
    <3>. QED  BY <1>5, <2>1, <3>2
  <2>3. n + 1 = k * numThreads + count'
    BY <1>4, <1>5, <1>6, <2>1
  <2>. QED  BY <1>2, <1>3, <1>5, <1>6, <2>1, <2>2, <2>3, SomeThreads
            DEF CallsAreCounted
<1>8. CASE IsLast
  <2>1. count' = 0 /\ waiters' = {} /\ count = numThreads - 1
    BY <1>5, <1>8, SomeThreads DEF Enter, IsLast, ResetCount
  <2>2. n + 1 = (k + 1) * numThreads + count'
    <3>1. (k + 1) * numThreads = k * numThreads + numThreads
      BY <1>3, SomeThreads, OneMoreRound
    <3>. QED  BY <1>4, <1>6, <2>1, <3>1, SomeThreads
  <2>. QED  BY <1>2, <1>3, <1>6, <2>1, <2>2, SomeThreads, FS_EmptySet
            DEF CallsAreCounted
<1>. QED  BY <1>7, <1>8

LEMMA CallsInvStep == CallsInv /\ [AnyWakeupNext]_barrierVars => CallsInv'
<1>. SUFFICES ASSUME CallsInv, [AnyWakeupNext]_barrierVars PROVE CallsInv'
  OBVIOUS
<1>1. CASE UNCHANGED barrierVars
  BY <1>1 DEF barrierVars, CallsInv, BarrierTypeOK, Calls, CallsAreCounted,
              CallsMatch, Inside
<1>2. ASSUME NEW t \in Threads, Return(t) PROVE CallsInv'
  <2>1. left[t] + 1 \in 0 .. Rounds
    BY <1>2 DEF Return, CallsInv, BarrierTypeOK, CallsMatch, Inside
  <2>2. BarrierTypeOK' /\ CallsMatch'
    BY <1>2, <2>1 DEF Return, CallsInv, BarrierTypeOK, CallsMatch, Inside
  <2>. QED  BY <1>2, <2>2 DEF Return, CallsInv, Calls, CallsAreCounted
<1>3. ASSUME NEW t \in Threads, WakeSpuriously(t) PROVE CallsInv'
  <2>1. /\ UNCHANGED <<count, arrived, left>>
        /\ waiters' \subseteq waiters /\ returning' \subseteq Threads
        /\ waiters' \cap returning' = {}
    BY <1>3 DEF WakeSpuriously, CallsInv, BarrierTypeOK
  <2>2. /\ IsFiniteSet(waiters) /\ Cardinality(waiters) \in Nat
        /\ Cardinality(waiters') \in Nat
        /\ Cardinality(waiters') <= Cardinality(waiters)
    BY <2>1, WaitersFinite, FS_Subset, FS_CardinalityType
       DEF CallsInv, BarrierTypeOK
  <2>3. Calls' = Calls
    BY <2>1 DEF Calls
  <2>4. CallsMatch'
    BY <1>3 DEF WakeSpuriously, CallsInv, CallsMatch, Inside
  <2>. QED  BY <2>1, <2>2, <2>3, <2>4
            DEF CallsInv, BarrierTypeOK, CallsAreCounted
<1>. QED  BY <1>1, <1>2, <1>3, EnterIsCounted DEF AnyWakeupNext, BarrierNext

(***************************************************************************)
(* Spurious wakeups or not, every numThreads-th call of barrier() ends a   *)
(* round, and nobody is left asleep by its broadcast.                      *)
(***************************************************************************)
THEOREM AnyWakeupCountsCalls == AnyWakeupSpec => []CallsAreCounted
<1>1. CallsInv => CallsAreCounted
  BY DEF CallsInv
<1>. QED  BY <1>1, CallsInvInit, CallsInvStep, PTL DEF AnyWakeupSpec

(***************************************************************************)
(* The types of the barrier's variables, with and without such wakeups.    *)
(***************************************************************************)
THEOREM BarrierTyped == AnyWakeupSpec => []BarrierTypeOK
<1>1. CallsInv => BarrierTypeOK
  BY DEF CallsInv
<1>. QED  BY <1>1, CallsInvInit, CallsInvStep, PTL DEF AnyWakeupSpec
=============================================================================
