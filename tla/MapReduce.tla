----------------------------- MODULE MapReduce -----------------------------
(***************************************************************************)
(* The MapReduce framework, ex3/MapReduceFramework.cpp: the threads map    *)
(* the input, sort what they emitted, meet at the barrier; thread 0 then   *)
(* shuffles the pairs into groups of one key while the others reduce the   *)
(* groups it has queued, one semaphore token per group; when it is done it *)
(* posts one more token per thread, which tells that thread to stop.       *)
(*                                                                         *)
(* Steps are separated where threads share state; a critical section of a  *)
(* mutex is one step.  The wait in the barrier returns only after a        *)
(* broadcast: what is said here does not cover spurious wakeups.           *)
(*                                                                         *)
(* A definition Mut<Name>, always just before <Name>, is <Name> with a     *)
(* plausible mistake; nothing uses it but the mutation runs.               *)
(***************************************************************************)
EXTENDS Barrier, Shuffle

CONSTANTS
  InputSize,  \* inputVec.size()
  PairsOf,    \* the pairs that map emits for each input pair
  Addresses   \* the address maps of the pairs' key objects to consider

Input == 1 .. InputSize

\* The null pointer, in the place of a vector of pairs.
NoGroup == {}

ASSUME LevelAssumption     == Threads = 0 .. numThreads - 1
ASSUME OnceAssumption      == Rounds = 1
ASSUME InputSizeAssumption == InputSize \in Nat
ASSUME PairsAssumption     == IsFiniteSet(Pairs)
ASSUME PairsOfAssumption   ==
  /\ PairsOf \in [Input -> SUBSET Pairs]
  /\ \A i, j \in Input : i # j => PairsOf[i] \cap PairsOf[j] = {}
ASSUME AddressesAssumption ==
  \A a \in Addresses :
    a \in [Pairs -> Nat] /\ \A p, q \in Pairs : p # q => a[p] # a[q]

First == 0                 \* the thread that shuffles
Last  == numThreads - 1    \* the caller of runMapReduceFramework

VARIABLES
  pc,                \* where each thread is: see ProgramPoints
  inputVectorIndex,
  item,              \* previousIndex: the input pair each thread maps
  emitted,           \* intermediateVectors[t] while it is filled
  sorted,            \* intermediateVectors[t] once it is sorted
  vectors,           \* intermediateVectors in shufflePhase
  hand,              \* the thread's shuffleVec or reduceVec: NoGroup, or {group}
  shuffleVectors,
  semaphore,
  posted,            \* the loop counter of the last posts
  isShuffleDone,
  outputVec,
  address,           \* where the client allocated the key objects
  timesReduced       \* history: how often each pair was passed to reduce

mapVars     == <<inputVectorIndex, item, emitted>>
shuffleVars == <<sorted, vectors, address>>
queueVars   == <<shuffleVectors, semaphore, posted, isShuffleDone>>
outputVars  == <<outputVec, timesReduced>>
mrVars == <<pc, mapVars, shuffleVars, hand, queueVars, outputVars, barrierVars>>

(***************************************************************************)
(* "unborn"; "create" and "join", the caller's loops; "map", at the atomic *)
(* increment; "mapping", in map(); "sort"; "barrier"; thread 0 only:       *)
(* "shuffle", "group" (the head of the loop), "push", "post", "done",      *)
(* "release"; "wait", at sem_wait; "check", past it; "decide", past the    *)
(* critical section; "reduce"; "finished"; "returned", the caller.         *)
(***************************************************************************)
Shuffling == {"shuffle", "group", "push", "post", "done", "release"}
BeforeBarrier == {"unborn", "create", "map", "mapping", "sort"}
ProgramPoints == BeforeBarrier \cup Shuffling \cup
  {"barrier", "wait", "check", "decide", "reduce", "join", "finished", "returned"}

TypeOK ==
  /\ pc \in [Threads -> ProgramPoints]
  /\ inputVectorIndex \in Nat
  /\ item \in [Threads -> Nat]
  /\ emitted \in [Threads -> SUBSET Pairs]
  /\ sorted \in [Threads -> Seq(Pairs)]
  /\ vectors \subseteq Seq(Pairs)
  /\ hand \in [Threads -> {NoGroup} \cup {{g} : g \in SUBSET Pairs}]
  /\ shuffleVectors \in Seq(SUBSET Pairs)
  /\ semaphore \in Nat
  /\ posted \in 0 .. numThreads
  /\ isShuffleDone \in BOOLEAN
  /\ outputVec \in Seq(Nat)
  /\ address \in Addresses
  /\ timesReduced \in [Pairs -> Nat]

Init ==
  /\ BarrierInit
  /\ pc = [t \in Threads |-> IF t = Last THEN "create" ELSE "unborn"]
  /\ inputVectorIndex = 0
  /\ item = [t \in Threads |-> 0]
  /\ emitted = [t \in Threads |-> {}]
  /\ sorted = [t \in Threads |-> << >>]
  /\ vectors = {}
  /\ hand = [t \in Threads |-> NoGroup]
  /\ shuffleVectors = << >>
  /\ semaphore = 0
  /\ posted = 0
  /\ isShuffleDone = FALSE
  /\ outputVec = << >>
  /\ address \in Addresses
  /\ timesReduced = [p \in Pairs |-> 0]

Goto(t, point) == pc' = [pc EXCEPT ![t] = point]

-----------------------------------------------------------------------------
(***************************************************************************)
(* runMapReduceFramework: the caller creates the other threads, becomes    *)
(* the last one itself, and joins the others at the end.                   *)
(***************************************************************************)
Create(t) ==
  /\ pc[Last] = "create"
  /\ t # Last
  /\ pc[t] = "unborn"
  /\ \A u \in 0 .. t - 1 : pc[u] # "unborn"
  /\ Goto(t, "map")
  /\ UNCHANGED <<mapVars, shuffleVars, hand, queueVars, outputVars, barrierVars>>

BecomeLast ==
  /\ pc[Last] = "create"
  /\ \A u \in Threads \ {Last} : pc[u] # "unborn"
  /\ Goto(Last, "map")
  /\ UNCHANGED <<mapVars, shuffleVars, hand, queueVars, outputVars, barrierVars>>

Join ==
  /\ pc[Last] = "join"
  /\ \A u \in Threads \ {Last} : pc[u] = "finished"
  /\ Goto(Last, "returned")
  /\ UNCHANGED <<mapVars, shuffleVars, hand, queueVars, outputVars, barrierVars>>

(***************************************************************************)
(* mapPhase and sortPhase.                                                 *)
(***************************************************************************)

\* The fetch-and-add, and the test that ends the loop.
TakeInput(t) ==
  /\ pc[t] = "map"
  /\ inputVectorIndex' = inputVectorIndex + 1
  /\ item' = [item EXCEPT ![t] = inputVectorIndex + 1]
  /\ Goto(t, IF inputVectorIndex < InputSize THEN "mapping" ELSE "sort")
  /\ UNCHANGED <<emitted, shuffleVars, hand, queueVars, outputVars, barrierVars>>

\* The client's map, and the emit2 calls it makes.
Map(t) ==
  /\ pc[t] = "mapping"
  /\ emitted' = [emitted EXCEPT ![t] = @ \cup PairsOf[item[t]]]
  /\ Goto(t, "map")
  /\ UNCHANGED <<inputVectorIndex, item, shuffleVars, hand, queueVars,
                 outputVars, barrierVars>>

SortPhase(t) ==
  /\ pc[t] = "sort"
  /\ \E s \in SortedOrders(emitted[t]) : sorted' = [sorted EXCEPT ![t] = s]
  /\ emitted' = [emitted EXCEPT ![t] = {}]
  /\ Enter(t)
  /\ Goto(t, "barrier")
  /\ UNCHANGED <<inputVectorIndex, item, vectors, address, hand, queueVars,
                 outputVars>>

PassBarrier(t) ==
  /\ pc[t] = "barrier"
  /\ Return(t)
  /\ Goto(t, IF t = First THEN "shuffle" ELSE "wait")
  /\ UNCHANGED <<mapVars, shuffleVars, hand, queueVars, outputVars>>

-----------------------------------------------------------------------------
(***************************************************************************)
(* shufflePhase, by thread 0.                                              *)
(***************************************************************************)
EraseEmpty ==
  /\ pc[First] = "shuffle"
  /\ vectors' = {sorted[t] : t \in Threads} \ {<< >>}
  /\ sorted' = [t \in Threads |-> << >>]
  /\ Goto(First, "group")
  /\ UNCHANGED <<mapVars, address, hand, queueVars, outputVars, barrierVars>>

TakeGroup ==
  LET group == NextGroup(vectors, address) IN
  /\ pc[First] = "group"
  /\ vectors # {}
  /\ hand' = [hand EXCEPT ![First] = {group}]
  /\ vectors' = Remaining(vectors, group)
  /\ Goto(First, "push")
  /\ UNCHANGED <<mapVars, sorted, address, queueVars, outputVars, barrierVars>>

PushGroup ==
  /\ pc[First] = "push"
  /\ shuffleVectors' = Append(shuffleVectors, UNION hand[First])
  /\ hand' = [hand EXCEPT ![First] = NoGroup]
  /\ Goto(First, "post")
  /\ UNCHANGED <<mapVars, shuffleVars, semaphore, posted, isShuffleDone,
                 outputVars, barrierVars>>

PostGroup ==
  /\ pc[First] = "post"
  /\ semaphore' = semaphore + 1
  /\ Goto(First, "group")
  /\ UNCHANGED <<mapVars, shuffleVars, hand, shuffleVectors, posted,
                 isShuffleDone, outputVars, barrierVars>>

NoMoreGroups ==
  /\ pc[First] = "group"
  /\ vectors = {}
  /\ Goto(First, "done")
  /\ UNCHANGED <<mapVars, shuffleVars, hand, queueVars, outputVars, barrierVars>>

\* The flag is set before the last posts.
MutDoneValue == FALSE
DoneValue == TRUE

ShuffleDone ==
  /\ pc[First] = "done"
  /\ isShuffleDone' = DoneValue
  /\ Goto(First, "release")
  /\ UNCHANGED <<mapVars, shuffleVars, hand, shuffleVectors, semaphore, posted,
                 outputVars, barrierVars>>

\* One post for every thread, thread 0 included.
MutTooManyPosts == numThreads + 1
MutFinalPosts == numThreads - 1
FinalPosts == numThreads

PostFinal ==
  /\ pc[First] = "release"
  /\ posted < FinalPosts
  /\ posted' = posted + 1
  /\ semaphore' = semaphore + 1
  /\ UNCHANGED <<pc, mapVars, shuffleVars, hand, shuffleVectors, isShuffleDone,
                 outputVars, barrierVars>>

EndShuffle ==
  /\ pc[First] = "release"
  /\ posted = FinalPosts
  /\ Goto(First, "wait")
  /\ UNCHANGED <<mapVars, shuffleVars, hand, queueVars, outputVars, barrierVars>>

ShufflePhase ==
  \/ EraseEmpty \/ TakeGroup \/ PushGroup \/ PostGroup
  \/ NoMoreGroups \/ ShuffleDone \/ PostFinal \/ EndShuffle

-----------------------------------------------------------------------------
(***************************************************************************)
(* reducePhase.                                                            *)
(***************************************************************************)
SemWait(t) ==
  /\ pc[t] = "wait"
  /\ semaphore > 0
  /\ semaphore' = semaphore - 1
  /\ Goto(t, "check")
  /\ UNCHANGED <<mapVars, shuffleVars, hand, shuffleVectors, posted,
                 isShuffleDone, outputVars, barrierVars>>

\* The queue without its back element.
MutPopped == shuffleVectors
Popped == SubSeq(shuffleVectors, 1, Len(shuffleVectors) - 1)

\* The critical section: take the back of the queue, unless it is empty.
PopGroup(t) ==
  /\ pc[t] = "check"
  /\ IF shuffleVectors = << >>
     THEN /\ hand' = [hand EXCEPT ![t] = NoGroup]
          /\ UNCHANGED shuffleVectors
     ELSE /\ hand' = [hand EXCEPT ![t] = {shuffleVectors[Len(shuffleVectors)]}]
          /\ shuffleVectors' = Popped
  /\ Goto(t, "decide")
  /\ UNCHANGED <<mapVars, shuffleVars, semaphore, posted, isShuffleDone,
                 outputVars, barrierVars>>

\* The flag is read after the mutex is released.
Decide(t) ==
  /\ pc[t] = "decide"
  /\ Goto(t, IF hand[t] = NoGroup /\ isShuffleDone
             THEN IF t = Last THEN "join" ELSE "finished"
             ELSE "reduce")
  /\ UNCHANGED <<mapVars, shuffleVars, hand, queueVars, outputVars, barrierVars>>

\* The client's reduce, which emits once for the key of the group it is given.
Reduce(t) ==
  /\ pc[t] = "reduce"
  /\ hand[t] # NoGroup
  /\ \E key \in KeysOf(UNION hand[t]) : outputVec' = Append(outputVec, key)
  /\ timesReduced' =
       [p \in Pairs |-> timesReduced[p] + IF p \in UNION hand[t] THEN 1 ELSE 0]
  /\ hand' = [hand EXCEPT ![t] = NoGroup]
  /\ Goto(t, "wait")
  /\ UNCHANGED <<mapVars, shuffleVars, queueVars, barrierVars>>

ReducePhase(t) == SemWait(t) \/ PopGroup(t) \/ Decide(t) \/ Reduce(t)

-----------------------------------------------------------------------------
Step(t) ==
  \/ TakeInput(t) \/ Map(t) \/ SortPhase(t) \/ PassBarrier(t)
  \/ ReducePhase(t)

Framework == (\E t \in Threads : Create(t)) \/ BecomeLast \/ Join

Returned == pc[Last] = "returned"

Next ==
  \/ Framework
  \/ \E t \in Threads : Step(t)
  \/ ShufflePhase
  \/ Returned /\ UNCHANGED mrVars

Spec == Init /\ [][Next]_mrVars

(***************************************************************************)
(* The kernel runs every thread that can run, and the client's functions   *)
(* return.  sem_wait need not be fair: weak fairness is enough.            *)
(***************************************************************************)
Fairness ==
  /\ WF_mrVars(Framework)
  /\ WF_mrVars(ShufflePhase)
  /\ \A t \in Threads : WF_mrVars(Step(t))

FairSpec == Spec /\ Fairness

-----------------------------------------------------------------------------
\* Every pair that map emitted, or will emit.
AllPairs == UNION {PairsOf[i] : i \in Input}

\* Thread 0 touches the vectors of the others only when they no longer fill
\* them: until then intermediateVectors[t] belongs to thread t.
MapBeforeShuffle ==
  pc[First] \in Shuffling => \A t \in Threads : pc[t] \notin BeforeBarrier

\* reduce is never called with the null pointer of line 158: a thread that
\* finds the queue empty also finds isShuffleDone set, although it reads the
\* flag after it has released the mutex.
ReduceNeverNull == \A t \in Threads : pc[t] = "reduce" => hand[t] # NoGroup

\* A call of reduce gets pairs of one key only.
OneKeyPerReduce ==
  \A t \in Threads :
    pc[t] = "reduce" /\ hand[t] # NoGroup => Cardinality(KeysOf(UNION hand[t])) = 1

\* No pair is reduced twice, and when runMapReduceFramework returns every
\* pair has been reduced.
EveryPairReducedOnce ==
  /\ \A p \in Pairs : timesReduced[p] <= 1
  /\ Returned => \A p \in AllPairs : timesReduced[p] = 1

\* When the framework returns nothing is left behind: no group in the queue,
\* no token in the semaphore it destroys, no thread inside the phases.
CleanReturn ==
  Returned =>
    /\ shuffleVectors = << >>
    /\ semaphore = 0
    /\ \A t \in Threads : hand[t] = NoGroup

\* Until runMapReduceFramework returns some thread can go on: the barrier, the
\* semaphore and the joins never have everybody waiting for everybody else.
Blocked(t) ==
  \/ pc[t] \in {"unborn", "finished", "returned"}
  \/ pc[t] = "barrier" /\ t \in waiters
  \/ pc[t] = "wait" /\ semaphore = 0
  \/ pc[t] = "join" /\ \E u \in Threads \ {Last} : pc[u] # "finished"

NoDeadlock == ~ Returned => \E t \in Threads : ~ Blocked(t)

\* runMapReduceFramework returns: no thread waits for a token for ever.
FrameworkReturns == <>Returned

\* "gets a single K2 key and a vector of all its respective V2 values"
\* (MapReduceClient.h:63): reduce is called once for each key.
OneReducePerKey ==
  \A i, j \in 1 .. Len(outputVec) : outputVec[i] = outputVec[j] => i = j

\* It is, when the allocator gave larger keys larger addresses.
OneReducePerOrderedKey ==
  (\A p, q \in Pairs : KeyOf[p] < KeyOf[q] => address[p] < address[q])
    => OneReducePerKey
=============================================================================
