-------------------------- MODULE MapReduceProofs --------------------------
(***************************************************************************)
(* Theorems about MapReduce, for any number of threads, any input and any  *)
(* allocation of the keys.                                                 *)
(***************************************************************************)
EXTENDS MapReduce, BarrierProofs, SeqFilterProofs

USE DEF First, Last, NoGroup

LEMMA FirstAndLast == First \in Threads /\ Last \in Threads
<1>1. numThreads \in Nat
  BY NumThreadsType
<1>2. numThreads # 0
  BY ThreadsAssumption, FS_EmptySet DEF numThreads
<1>. QED  BY <1>1, <1>2, LevelAssumption

-----------------------------------------------------------------------------
(***************************************************************************)
(* The barrier inside the framework: its invariant, and how a thread's     *)
(* program point tells how far it is.                                      *)
(***************************************************************************)
PastBarrier == ProgramPoints \ (BeforeBarrier \cup {"barrier"})

PointsTyped == pc \in [Threads -> ProgramPoints]

PointsFitBarrier ==
  \A t \in Threads : /\ pc[t] \in BeforeBarrier => arrived[t] = 0
                     /\ pc[t] \in PastBarrier => left[t] = 1

MeetInv ==
  /\ BarrierInv
  /\ PointsTyped
  /\ PointsFitBarrier
  /\ \A t \in Threads : pc[t] \in Shuffling => t = First

LEMMA MeetInit == Init => MeetInv
<1>. SUFFICES ASSUME Init PROVE MeetInv
  OBVIOUS
<1>1. BarrierInv
  BY BarrierInvInit DEF Init
<1>2. PointsTyped /\ PointsFitBarrier
  BY DEF Init, BarrierInit, PointsTyped, PointsFitBarrier, PastBarrier,
         ProgramPoints, BeforeBarrier, Shuffling
<1>3. \A t \in Threads : pc[t] \notin Shuffling
  BY DEF Init, Shuffling
<1>. QED  BY <1>1, <1>2, <1>3 DEF MeetInv

\* A step that moves one thread, on one side of the barrier.
LEMMA MoveOne ==
  ASSUME MeetInv, UNCHANGED barrierVars, NEW t \in Threads,
         NEW point \in ProgramPoints, Goto(t, point),
         \/ pc[t] \in BeforeBarrier /\ point \in BeforeBarrier
         \/ pc[t] \in PastBarrier /\ point \in PastBarrier,
         point \in Shuffling => t = First
  PROVE  MeetInv'
<1>1. BarrierInv'
  BY DEF MeetInv, BarrierInv, barrierVars, BarrierTypeOK, CountIsExact,
         OneRound, CallsMatch, Inside
<1>2. /\ pc' = [pc EXCEPT ![t] = point]
      /\ arrived' = arrived /\ left' = left
  BY DEF Goto, barrierVars
<1>3. PointsTyped' /\ PointsFitBarrier'
  BY <1>2 DEF MeetInv, PointsTyped, PointsFitBarrier, PastBarrier
<1>. QED  BY <1>1, <1>2, <1>3 DEF MeetInv, PointsTyped

LEMMA MeetStep == MeetInv /\ [Next]_mrVars => MeetInv'
<1>. SUFFICES ASSUME MeetInv, [Next]_mrVars PROVE MeetInv'
  OBVIOUS
<1>. USE FirstAndLast DEF ProgramPoints, PastBarrier, BeforeBarrier, Shuffling
<1>1. ASSUME NEW t \in Threads, Create(t) PROVE MeetInv'
  BY <1>1, MoveOne DEF Create
<1>2. CASE BecomeLast
  BY <1>2, MoveOne DEF BecomeLast
<1>3. CASE Join
  BY <1>3, MoveOne DEF Join
<1>4. ASSUME NEW t \in Threads, TakeInput(t) \/ Map(t) PROVE MeetInv'
  BY <1>4, MoveOne DEF TakeInput, Map
<1>5. ASSUME NEW t \in Threads, SortPhase(t) PROVE MeetInv'
  <2>1. BarrierInv'
    BY <1>5, EnterStep DEF SortPhase, MeetInv
  <2>2. /\ pc' = [pc EXCEPT ![t] = "barrier"] /\ left' = left
        /\ arrived' = [arrived EXCEPT ![t] = @ + 1]
    BY <1>5 DEF SortPhase, Enter, Goto
  <2>. QED  BY <2>1, <2>2 DEF MeetInv, PointsTyped, PointsFitBarrier
<1>6. ASSUME NEW t \in Threads, PassBarrier(t) PROVE MeetInv'
  <2>1. BarrierInv'
    BY <1>6, ReturnStep DEF PassBarrier, MeetInv
  <2>2. /\ pc' = [pc EXCEPT ![t] = IF t = First THEN "shuffle" ELSE "wait"]
        /\ arrived' = arrived
        /\ left' = [left EXCEPT ![t] = @ + 1]
    BY <1>6 DEF PassBarrier, Return, Goto
  <2>3. left[t] = 0
    <3>1. /\ arrived[t] = left[t] + 1 /\ arrived[t] \in 0 .. Rounds
          /\ left[t] \in 0 .. Rounds
      BY <1>6 DEF PassBarrier, Return, MeetInv, BarrierInv, BarrierTypeOK,
                  CallsMatch, Inside
    <3>. QED  BY <3>1, OnceAssumption
  <2>4. left'[t] = 1
    BY <2>2, <2>3 DEF MeetInv, BarrierInv, BarrierTypeOK
  <2>5. \A u \in Threads \ {t} : left'[u] = left[u] /\ pc'[u] = pc[u]
    BY <2>2 DEF MeetInv, BarrierInv, BarrierTypeOK, PointsTyped
  <2>6. pc'[t] = IF t = First THEN "shuffle" ELSE "wait"
    BY <2>2 DEF MeetInv, PointsTyped
  <2>7. PointsTyped'
    BY <2>2 DEF MeetInv, PointsTyped
  <2>. QED  BY <2>1, <2>2, <2>4, <2>5, <2>6, <2>7
            DEF MeetInv, PointsFitBarrier
<1>7. CASE EraseEmpty \/ TakeGroup \/ PushGroup \/ PostGroup
  BY <1>7, MoveOne DEF EraseEmpty, TakeGroup, PushGroup, PostGroup
<1>8. CASE NoMoreGroups \/ ShuffleDone \/ EndShuffle
  BY <1>8, MoveOne DEF NoMoreGroups, ShuffleDone, EndShuffle
<1>9. ASSUME NEW t \in Threads, SemWait(t) \/ PopGroup(t) PROVE MeetInv'
  BY <1>9, MoveOne DEF SemWait, PopGroup
<1>10. ASSUME NEW t \in Threads, Decide(t) \/ Reduce(t) PROVE MeetInv'
  BY <1>10, MoveOne DEF Decide, Reduce
<1>11. ASSUME UNCHANGED <<pc, barrierVars>> PROVE MeetInv'
  BY <1>11 DEF MeetInv, BarrierInv, barrierVars, BarrierTypeOK, CountIsExact,
               OneRound, CallsMatch, Inside, PointsTyped, PointsFitBarrier
<1>12. CASE PostFinal \/ UNCHANGED mrVars
  BY <1>11, <1>12 DEF PostFinal, mrVars
<1>. QED
  BY <1>1, <1>2, <1>3, <1>4, <1>5, <1>6, <1>7, <1>8, <1>9, <1>10, <1>12
  DEF Next, Framework, Step, ShufflePhase, ReducePhase

(***************************************************************************)
(* Thread 0 shuffles only when every thread has mapped and sorted: the     *)
(* intermediate vectors need no lock.                                      *)
(***************************************************************************)
THEOREM ShuffleIsAlone == Spec => []MapBeforeShuffle
<1>1. MeetInv => MapBeforeShuffle
  <2>. SUFFICES ASSUME MeetInv, pc[First] \in Shuffling, NEW t \in Threads,
                       pc[t] \in BeforeBarrier
                PROVE  FALSE
    BY DEF MapBeforeShuffle
  <2>1. left[First] = 1
    BY FirstAndLast DEF MeetInv, PointsFitBarrier, PastBarrier, ProgramPoints,
                        Shuffling, BeforeBarrier
  <2>2. left[First] <= arrived[t]
    BY FirstAndLast, InvMeansNobodyAhead DEF MeetInv, NobodyAhead
  <2>. QED  BY <2>1, <2>2 DEF MeetInv, PointsFitBarrier
<1>. QED  BY <1>1, MeetInit, MeetStep, PTL DEF Spec

-----------------------------------------------------------------------------
LEMMA TypeInit == Init => TypeOK
<1>. SUFFICES ASSUME Init PROVE TypeOK
  OBVIOUS
<1>1. pc \in [Threads -> ProgramPoints]
  BY DEF Init, ProgramPoints, BeforeBarrier
<1>2. posted \in 0 .. numThreads
  BY NumThreadsType DEF Init
<1>3. sorted \in [Threads -> Seq(Pairs)]
  BY DEF Init
<1>4. /\ item \in [Threads -> Nat] /\ emitted \in [Threads -> SUBSET Pairs]
      /\ timesReduced \in [Pairs -> Nat]
      /\ hand \in [Threads -> {NoGroup} \cup {{g} : g \in SUBSET Pairs}]
  BY DEF Init
<1>5. /\ vectors \subseteq Seq(Pairs) /\ shuffleVectors \in Seq(SUBSET Pairs)
      /\ outputVec \in Seq(Nat)
  BY DEF Init
<1>. QED  BY <1>1, <1>2, <1>3, <1>4, <1>5 DEF Init, TypeOK

LEMMA SortedTyped ==
  ASSUME NEW group \in SUBSET Pairs, NEW s \in SortedOrders(group)
  PROVE  s \in Seq(Pairs)
<1>1. Cardinality(group) \in Nat
  BY PairsAssumption, FS_Subset, FS_CardinalityType
<1>. QED  BY <1>1 DEF SortedOrders

LEMMA HandTyped ==
  ASSUME TypeOK, NEW t \in Threads
  PROVE  UNION hand[t] \in SUBSET Pairs
<1>1. hand[t] = {} \/ \E g \in SUBSET Pairs : hand[t] = {g}
  BY DEF TypeOK
<1>2. \A g : UNION {g} = g
  OBVIOUS
<1>. QED  BY <1>1, <1>2

\* A thread inside map has an input pair that exists.
ItemFits == \A t \in Threads : pc[t] = "mapping" => item[t] \in Input

LEMMA ItemStep == TypeOK /\ ItemFits /\ [Next]_mrVars => ItemFits'
<1>. SUFFICES ASSUME TypeOK, ItemFits, [Next]_mrVars PROVE ItemFits'
  OBVIOUS
<1>. USE DEF ItemFits, Goto
<1>1. pc \in [Threads -> ProgramPoints] /\ item \in [Threads -> Nat]
  BY DEF TypeOK
<1>2. ASSUME NEW t \in Threads, TakeInput(t) PROVE ItemFits'
  <2>1. /\ item' = [item EXCEPT ![t] = inputVectorIndex + 1]
        /\ pc' = [pc EXCEPT ![t] = IF inputVectorIndex < InputSize
                                   THEN "mapping" ELSE "sort"]
        /\ inputVectorIndex \in Nat
    BY <1>2 DEF TakeInput, TypeOK
  <2>2. inputVectorIndex < InputSize => inputVectorIndex + 1 \in Input
    BY <2>1, InputSizeAssumption DEF Input
  <2>. QED  BY <1>1, <2>1, <2>2
<1>3. ASSUME item' = item, NEW t \in Threads, NEW point,
             pc' = [pc EXCEPT ![t] = point], point # "mapping"
      PROVE  ItemFits'
  BY <1>1, <1>3
<1>4. CASE Framework
  BY <1>3, <1>4, FirstAndLast DEF Framework, Create, BecomeLast, Join, mapVars
<1>5. ASSUME NEW t \in Threads, Map(t) \/ SortPhase(t) \/ PassBarrier(t)
      PROVE  ItemFits'
  BY <1>3, <1>5 DEF Map, SortPhase, PassBarrier, mapVars
<1>6. ASSUME NEW t \in Threads, ReducePhase(t) PROVE ItemFits'
  BY <1>3, <1>6 DEF ReducePhase, SemWait, PopGroup, Decide, Reduce, mapVars
<1>7. CASE EraseEmpty \/ TakeGroup \/ PushGroup \/ PostGroup
  BY <1>3, <1>7, FirstAndLast
  DEF EraseEmpty, TakeGroup, PushGroup, PostGroup, mapVars
<1>8. CASE NoMoreGroups \/ ShuffleDone \/ EndShuffle
  BY <1>3, <1>8, FirstAndLast DEF NoMoreGroups, ShuffleDone, EndShuffle, mapVars
<1>9. CASE PostFinal \/ UNCHANGED mrVars
  BY <1>9 DEF PostFinal, mrVars, mapVars
<1>. QED
  BY <1>2, <1>4, <1>5, <1>6, <1>7, <1>8, <1>9
  DEF Next, Step, ShufflePhase

LEMMA GotoTyped ==
  ASSUME TypeOK, NEW t \in Threads, NEW point \in ProgramPoints, Goto(t, point)
  PROVE  pc' \in [Threads -> ProgramPoints]
BY DEF TypeOK, Goto

LEMMA TypeStep == TypeOK /\ ItemFits /\ [Next]_mrVars => TypeOK'
<1>. SUFFICES ASSUME TypeOK, ItemFits, [Next]_mrVars PROVE TypeOK'
  OBVIOUS
<1>. USE FirstAndLast DEF ProgramPoints, BeforeBarrier, Shuffling, Goto,
         mapVars, shuffleVars, queueVars, outputVars
<1>1. ASSUME NEW t \in Threads, Create(t) PROVE TypeOK'
  BY <1>1 DEF Create, TypeOK
<1>2. CASE BecomeLast \/ Join
  BY <1>2 DEF BecomeLast, Join, TypeOK
<1>3. ASSUME NEW t \in Threads, TakeInput(t) PROVE TypeOK'
  <2>1. (IF inputVectorIndex < InputSize THEN "mapping" ELSE "sort")
          \in ProgramPoints
    OBVIOUS
  <2>. HIDE DEF ProgramPoints, Goto
  <2>2. pc' \in [Threads -> ProgramPoints]
    BY <1>3, <2>1, GotoTyped DEF TakeInput
  <2>3. inputVectorIndex' \in Nat /\ item' \in [Threads -> Nat]
    BY <1>3 DEF TakeInput, TypeOK
  <2>. QED  BY <1>3, <2>2, <2>3 DEF TakeInput, TypeOK
<1>4. ASSUME NEW t \in Threads, Map(t) PROVE TypeOK'
  <2>1. emitted' \in [Threads -> SUBSET Pairs]
    <3>1. item[t] \in Input
      BY <1>4 DEF Map, ItemFits
    <3>. QED  BY <1>4, <3>1, PairsOfAssumption DEF Map, TypeOK
  <2>. QED  BY <1>4, <2>1 DEF Map, TypeOK
<1>5. ASSUME NEW t \in Threads, SortPhase(t) PROVE TypeOK'
  <2>1. PICK s \in SortedOrders(emitted[t]) :
          sorted' = [sorted EXCEPT ![t] = s]
    BY <1>5 DEF SortPhase
  <2>2. s \in Seq(Pairs)
    BY SortedTyped DEF TypeOK
  <2>3. sorted' \in [Threads -> Seq(Pairs)]
    BY <2>1, <2>2 DEF TypeOK
  <2>. QED  BY <1>5, <2>3 DEF SortPhase, TypeOK
<1>6. ASSUME NEW t \in Threads, PassBarrier(t) PROVE TypeOK'
  BY <1>6 DEF PassBarrier, TypeOK
<1>7. CASE EraseEmpty
  <2>1. vectors' \subseteq Seq(Pairs)
    BY <1>7 DEF EraseEmpty, TypeOK
  <2>2. sorted' \in [Threads -> Seq(Pairs)]
    BY <1>7 DEF EraseEmpty
  <2>. QED  BY <1>7, <2>1, <2>2 DEF EraseEmpty, TypeOK
<1>8. CASE TakeGroup
  <2>. DEFINE group == NextGroup(vectors, address)
  <2>1. group \in SUBSET Pairs
    BY DEF NextGroup
  <2>2. vectors' \subseteq Seq(Pairs)
    <3>1. \A v \in vectors : KeepIn(v, Pairs \ group) \in Seq(Pairs)
      <4>. TAKE v \in vectors
      <4>1. v \in Seq(Pairs)
        BY DEF TypeOK
      <4>. QED  BY <4>1, KeepInProperties
    <3>. HIDE DEF group
    <3>2. vectors' = Remaining(vectors, group)
      BY <1>8 DEF TakeGroup, group
    <3>. QED  BY <3>1, <3>2 DEF Remaining
  <2>3. hand' = [hand EXCEPT ![First] = {group}]
    BY <1>8 DEF TakeGroup
  <2>. HIDE DEF group
  <2>4. hand' \in [Threads -> {NoGroup} \cup {{g} : g \in SUBSET Pairs}]
    BY <2>1, <2>3 DEF TypeOK
  <2>. QED  BY <1>8, <2>2, <2>4 DEF TakeGroup, TypeOK
<1>9. CASE PushGroup
  <2>1. shuffleVectors' \in Seq(SUBSET Pairs)
    <3>1. shuffleVectors \in Seq(SUBSET Pairs)
      BY DEF TypeOK
    <3>. QED  BY <1>9, <3>1, HandTyped DEF PushGroup
  <2>2. hand' \in [Threads -> {NoGroup} \cup {{g} : g \in SUBSET Pairs}]
    BY <1>9 DEF PushGroup, TypeOK
  <2>. QED  BY <1>9, <2>1, <2>2 DEF PushGroup, TypeOK
<1>10. CASE PostGroup
  <2>1. semaphore' \in Nat
    BY <1>10 DEF PostGroup, TypeOK
  <2>. QED  BY <1>10, <2>1 DEF PostGroup, TypeOK
<1>11. CASE NoMoreGroups \/ EndShuffle
  BY <1>11 DEF NoMoreGroups, EndShuffle, TypeOK
<1>12. CASE ShuffleDone
  BY <1>12 DEF ShuffleDone, DoneValue, TypeOK
<1>13. CASE PostFinal
  <2>1. posted' \in 0 .. numThreads /\ semaphore' \in Nat
    BY <1>13, NumThreadsType DEF PostFinal, FinalPosts, TypeOK
  <2>. QED  BY <1>13, <2>1 DEF PostFinal, TypeOK
<1>14. ASSUME NEW t \in Threads, SemWait(t) PROVE TypeOK'
  <2>1. semaphore' \in Nat
    BY <1>14 DEF SemWait, TypeOK
  <2>. QED  BY <1>14, <2>1 DEF SemWait, TypeOK
<1>15. ASSUME NEW t \in Threads, Decide(t) PROVE TypeOK'
  <2>1. pc' \in [Threads -> ProgramPoints]
    BY <1>15 DEF Decide, TypeOK
  <2>. QED  BY <1>15, <2>1 DEF Decide, TypeOK
<1>16. ASSUME NEW t \in Threads, PopGroup(t) PROVE TypeOK'
  <2>1. shuffleVectors \in Seq(SUBSET Pairs) /\ Len(shuffleVectors) \in Nat
    BY DEF TypeOK
  <2>2. CASE shuffleVectors = << >>
    BY <1>16, <2>2 DEF PopGroup, TypeOK
  <2>3. CASE shuffleVectors # << >>
    <3>1. Len(shuffleVectors) \in 1 .. Len(shuffleVectors)
      BY <2>1, <2>3, EmptySeq
    <3>2. shuffleVectors[Len(shuffleVectors)] \in SUBSET Pairs
      BY <2>1, <3>1
    <3>3. shuffleVectors' \in Seq(SUBSET Pairs)
      BY <1>16, <2>1, <2>3, <3>1 DEF PopGroup, Popped
    <3>4. hand' \in [Threads -> {NoGroup} \cup {{g} : g \in SUBSET Pairs}]
      BY <1>16, <2>3, <3>2 DEF PopGroup, TypeOK
    <3>. QED  BY <1>16, <3>3, <3>4 DEF PopGroup, TypeOK
  <2>. QED  BY <2>2, <2>3
<1>17. ASSUME NEW t \in Threads, Reduce(t) PROVE TypeOK'
  <2>1. outputVec' \in Seq(Nat)
    <3>1. KeysOf(UNION hand[t]) \subseteq Nat
      BY HandTyped, KeyOfAssumption DEF KeysOf
    <3>2. outputVec \in Seq(Nat)
      BY DEF TypeOK
    <3>3. PICK key \in KeysOf(UNION hand[t]) :
            outputVec' = Append(outputVec, key)
      BY <1>17 DEF Reduce
    <3>4. key \in Nat
      BY <3>1, <3>3
    <3>. QED  BY <3>2, <3>3, <3>4
  <2>2. timesReduced' \in [Pairs -> Nat]
    BY <1>17 DEF Reduce, TypeOK
  <2>. QED  BY <1>17, <2>1, <2>2 DEF Reduce, TypeOK
<1>18. CASE UNCHANGED mrVars
  BY <1>18 DEF mrVars, TypeOK
<1>. QED
  BY <1>1, <1>2, <1>3, <1>4, <1>5, <1>6, <1>7, <1>8, <1>9, <1>10, <1>12,
     <1>13, <1>14, <1>16, <1>17, <1>18, <1>11, <1>15
  DEF Next, Framework, Step, ShufflePhase, ReducePhase

(***************************************************************************)
(* The variables of the framework keep their types; in particular          *)
(* shufflePhase never posts more last tokens than there are threads.       *)
(***************************************************************************)
THEOREM FrameworkTyped == Spec => []TypeOK
<1>1. Init => ItemFits
  BY DEF Init, ItemFits
<1>. QED  BY <1>1, TypeInit, TypeStep, ItemStep, PTL DEF Spec

-----------------------------------------------------------------------------
(***************************************************************************)
(* The semaphore's tokens.  Every token in the semaphore or in the hands   *)
(* of a thread at its check stands for a group in the queue or for one of  *)
(* the last posts; a thread that found the queue empty has used up a last  *)
(* post.                                                                   *)
(***************************************************************************)
AtCheck  == {t \in Threads : pc[t] = "check"}
SawEmpty == {t \in Threads :
               \/ pc[t] \in {"decide", "reduce"} /\ hand[t] = NoGroup
               \/ pc[t] \in {"join", "finished", "returned"}}
Unposted == IF pc[First] = "post" THEN 1 ELSE 0

TokensMatch ==
  semaphore + Cardinality(AtCheck) + Cardinality(SawEmpty) + Unposted
    = Len(shuffleVectors) + posted

\* Thread 0 is at the end of its shuffle, or past it.
Late == {"release", "wait", "check", "decide", "reduce", "join", "finished",
         "returned"}

DoneInv ==
  /\ isShuffleDone <=> pc[First] \in Late
  /\ posted > 0 => isShuffleDone
  /\ SawEmpty # {} => isShuffleDone
  /\ ReduceNeverNull

TokenInv == TypeOK /\ TokensMatch /\ DoneInv

LEMMA CountsType ==
  /\ IsFiniteSet(AtCheck) /\ Cardinality(AtCheck) \in Nat
  /\ IsFiniteSet(SawEmpty) /\ Cardinality(SawEmpty) \in Nat
<1>1. AtCheck \subseteq Threads /\ SawEmpty \subseteq Threads
  BY DEF AtCheck, SawEmpty
<1>. QED  BY <1>1, ThreadsAssumption, FS_Subset, FS_CardinalityType

LEMMA TokenInit == Init => TokenInv
<1>. SUFFICES ASSUME Init PROVE TokenInv
  OBVIOUS
<1>1. AtCheck = {} /\ SawEmpty = {}
  BY DEF Init, AtCheck, SawEmpty
<1>2. Cardinality({}) = 0
  BY FS_EmptySet
<1>3. pc[First] \in {"create", "unborn"}
  BY FirstAndLast DEF Init
<1>4. Unposted = 0 /\ pc[First] \notin Late
  BY <1>3 DEF Unposted, Late
<1>5. semaphore = 0 /\ posted = 0 /\ Len(shuffleVectors) = 0
  BY DEF Init
<1>6. TokensMatch
  BY <1>1, <1>2, <1>4, <1>5 DEF TokensMatch
<1>7. ReduceNeverNull
  BY DEF Init, ReduceNeverNull
<1>8. DoneInv
  BY <1>1, <1>4, <1>5, <1>7 DEF Init, DoneInv
<1>. QED  BY <1>6, <1>8, TypeInit DEF TokenInv

\* A step of one thread, away from the tokens.
LEMMA MoveAside ==
  ASSUME TokenInv, TypeOK', NEW t \in Threads, NEW point,
         pc' = [pc EXCEPT ![t] = point],
         pc[t] \notin {"post", "check", "decide", "reduce", "join", "finished",
                       "returned"},
         point \notin {"post", "check", "decide", "reduce", "join", "finished",
                       "returned"},
         t = First => (pc[t] \in Late <=> point \in Late),
         \A u \in Threads \ {t} : hand'[u] = hand[u],
         UNCHANGED queueVars
  PROVE  TokenInv'
<1>1. pc \in [Threads -> ProgramPoints] /\ First \in Threads
  BY FirstAndLast DEF TokenInv, TypeOK
<1>2. AtCheck' = AtCheck
  BY <1>1 DEF AtCheck
<1>3. SawEmpty' = SawEmpty
  BY <1>1 DEF SawEmpty
<1>4. Unposted' = Unposted
  BY <1>1 DEF Unposted
<1>5. TokensMatch'
  BY <1>2, <1>3, <1>4 DEF TokenInv, TokensMatch, queueVars
<1>6. pc'[First] \in Late <=> pc[First] \in Late
  BY <1>1
<1>7. ReduceNeverNull'
  BY <1>1 DEF TokenInv, DoneInv, ReduceNeverNull
<1>8. DoneInv'
  BY <1>3, <1>6, <1>7 DEF TokenInv, DoneInv, queueVars
<1>. QED  BY <1>5, <1>8 DEF TokenInv

\* The invariant of the counts, and of the groups in hand, once a step has
\* been shown to keep the balance.
LEMMA Balance ==
  ASSUME TokenInv, TypeOK', NEW t \in Threads, NEW point,
         pc' = [pc EXCEPT ![t] = point],
         t = First => (pc[t] \in Late <=> point \in Late),
         isShuffleDone' = isShuffleDone, posted' = posted,
         \A u \in Threads \ {t} : hand'[u] = hand[u],
         point = "reduce" => hand'[t] # NoGroup,
         SawEmpty' # {} => isShuffleDone,
         TokensMatch'
  PROVE  TokenInv'
<1>1. pc \in [Threads -> ProgramPoints] /\ First \in Threads
  BY FirstAndLast DEF TokenInv, TypeOK
<1>2. pc'[First] \in Late <=> pc[First] \in Late
  BY <1>1
<1>3. ReduceNeverNull'
  BY <1>1 DEF TokenInv, DoneInv, ReduceNeverNull
<1>4. DoneInv'
  BY <1>2, <1>3 DEF TokenInv, DoneInv
<1>. QED  BY <1>4 DEF TokenInv

LEMMA PushToken == TokenInv /\ TypeOK' /\ PushGroup => TokenInv'
<1>. SUFFICES ASSUME TokenInv, TypeOK', PushGroup PROVE TokenInv'
  OBVIOUS
<1>1. /\ pc \in [Threads -> ProgramPoints] /\ First \in Threads
      /\ pc' = [pc EXCEPT ![First] = "post"] /\ pc[First] = "push"
      /\ \A u \in Threads \ {First} : hand'[u] = hand[u]
  BY FirstAndLast DEF TokenInv, TypeOK, PushGroup, Goto
<1>2. AtCheck' = AtCheck /\ SawEmpty' = SawEmpty
  BY <1>1 DEF AtCheck, SawEmpty
<1>3. Unposted = 0 /\ Unposted' = 1
  BY <1>1 DEF Unposted
<1>4. /\ Len(shuffleVectors) \in Nat
      /\ Len(shuffleVectors') = Len(shuffleVectors) + 1
  BY DEF TokenInv, TypeOK, PushGroup
<1>5. semaphore \in Nat /\ posted \in Nat
  BY NumThreadsType DEF TokenInv, TypeOK
<1>6. /\ semaphore' = semaphore /\ posted' = posted
      /\ isShuffleDone' = isShuffleDone
  BY DEF PushGroup
<1>7. TokensMatch'
  BY <1>2, <1>3, <1>4, <1>5, <1>6, CountsType DEF TokenInv, TokensMatch
<1>8. SawEmpty' # {} => isShuffleDone
  BY <1>2 DEF TokenInv, DoneInv
<1>. QED  BY <1>1, <1>6, <1>7, <1>8, Balance DEF Late

LEMMA PostToken == TokenInv /\ TypeOK' /\ PostGroup => TokenInv'
<1>. SUFFICES ASSUME TokenInv, TypeOK', PostGroup PROVE TokenInv'
  OBVIOUS
<1>1. /\ pc \in [Threads -> ProgramPoints] /\ First \in Threads
      /\ pc' = [pc EXCEPT ![First] = "group"] /\ pc[First] = "post"
      /\ hand' = hand
  BY FirstAndLast DEF TokenInv, TypeOK, PostGroup, Goto
<1>2. AtCheck' = AtCheck /\ SawEmpty' = SawEmpty
  BY <1>1 DEF AtCheck, SawEmpty
<1>3. Unposted = 1 /\ Unposted' = 0
  BY <1>1 DEF Unposted
<1>4. /\ semaphore \in Nat /\ posted \in Nat
  BY NumThreadsType DEF TokenInv, TypeOK
<1>5. /\ semaphore' = semaphore + 1 /\ posted' = posted
      /\ isShuffleDone' = isShuffleDone /\ shuffleVectors' = shuffleVectors
  BY DEF PostGroup
<1>6. TokensMatch'
  BY <1>2, <1>3, <1>4, <1>5, CountsType DEF TokenInv, TokensMatch
<1>7. SawEmpty' # {} => isShuffleDone
  BY <1>2 DEF TokenInv, DoneInv
<1>. QED  BY <1>1, <1>5, <1>6, <1>7, Balance DEF Late

LEMMA WaitToken ==
  ASSUME TokenInv, TypeOK', NEW t \in Threads, SemWait(t)
  PROVE  TokenInv'
<1>1. /\ pc \in [Threads -> ProgramPoints]
      /\ pc' = [pc EXCEPT ![t] = "check"] /\ pc[t] = "wait"
      /\ hand' = hand
  BY DEF TokenInv, TypeOK, SemWait, Goto
<1>2. /\ AtCheck' = AtCheck \cup {t} /\ t \notin AtCheck
      /\ SawEmpty' = SawEmpty
  BY <1>1 DEF AtCheck, SawEmpty
<1>3. Cardinality(AtCheck') = Cardinality(AtCheck) + 1
  BY <1>2, CountsType, FS_AddElement
<1>4. Unposted' = Unposted /\ Unposted \in Nat
  BY <1>1, FirstAndLast DEF Unposted
<1>5. semaphore \in Nat \ {0} /\ posted \in Nat
  BY NumThreadsType DEF TokenInv, TypeOK, SemWait
<1>6. /\ semaphore' = semaphore - 1 /\ posted' = posted
      /\ isShuffleDone' = isShuffleDone /\ shuffleVectors' = shuffleVectors
  BY DEF SemWait
<1>7. TokensMatch'
  BY <1>2, <1>3, <1>4, <1>5, <1>6, CountsType DEF TokenInv, TokensMatch
<1>8. SawEmpty' # {} => isShuffleDone
  BY <1>2 DEF TokenInv, DoneInv
<1>. QED  BY <1>1, <1>6, <1>7, <1>8, Balance DEF Late

\* The step at which a thread may leave with empty hands: then all the groups
\* are gone, so the token in its hand is one of the last posts.
LEMMA PopToken ==
  ASSUME TokenInv, TypeOK', NEW t \in Threads, PopGroup(t)
  PROVE  TokenInv'
<1>1. /\ pc \in [Threads -> ProgramPoints]
      /\ pc' = [pc EXCEPT ![t] = "decide"] /\ pc[t] = "check"
      /\ \A u \in Threads \ {t} : hand'[u] = hand[u]
  BY DEF TokenInv, TypeOK, PopGroup, Goto
<1>2. /\ AtCheck' = AtCheck \ {t} /\ t \in AtCheck /\ t \notin SawEmpty
  BY <1>1 DEF AtCheck, SawEmpty
<1>3. /\ Cardinality(AtCheck') = Cardinality(AtCheck) - 1
      /\ Cardinality(AtCheck) # 0
  BY <1>2, CountsType, FS_RemoveElement, FS_EmptySet
<1>4. Unposted' = Unposted /\ Unposted \in Nat
  BY <1>1, FirstAndLast DEF Unposted
<1>5. semaphore \in Nat /\ posted \in Nat /\ Len(shuffleVectors) \in Nat
  BY NumThreadsType DEF TokenInv, TypeOK
<1>6. /\ semaphore' = semaphore /\ posted' = posted
      /\ isShuffleDone' = isShuffleDone
  BY DEF PopGroup
<1>7. CASE shuffleVectors = << >>
  <2>1. Len(shuffleVectors) = 0 /\ shuffleVectors' = shuffleVectors
    BY <1>7 DEF PopGroup
  <2>2. posted > 0
    BY <1>3, <1>4, <1>5, <2>1, CountsType DEF TokenInv, TokensMatch
  <2>3. hand'[t] = NoGroup
    BY <1>7 DEF PopGroup, TokenInv, TypeOK
  <2>4. SawEmpty' = SawEmpty \cup {t}
    BY <1>1, <2>3 DEF SawEmpty
  <2>5. Cardinality(SawEmpty') = Cardinality(SawEmpty) + 1
    BY <1>2, <2>4, CountsType, FS_AddElement
  <2>6. TokensMatch'
    BY <1>3, <1>4, <1>5, <1>6, <2>1, <2>5, CountsType
    DEF TokenInv, TokensMatch
  <2>7. isShuffleDone
    BY <2>2 DEF TokenInv, DoneInv
  <2>. QED  BY <1>1, <1>6, <2>6, <2>7, Balance DEF Late
<1>8. CASE shuffleVectors # << >>
  <2>1. hand'[t] # NoGroup
    BY <1>8 DEF PopGroup, TokenInv, TypeOK
  <2>2. SawEmpty' = SawEmpty
    BY <1>1, <1>2, <2>1 DEF SawEmpty
  <2>3. Len(shuffleVectors') = Len(shuffleVectors) - 1
    <3>1. shuffleVectors \in Seq(SUBSET Pairs)
      BY DEF TokenInv, TypeOK
    <3>2. Len(shuffleVectors) # 0
      BY <1>8, <3>1, EmptySeq
    <3>. QED  BY <1>5, <1>8, <3>1, <3>2 DEF PopGroup, Popped
  <2>4. TokensMatch'
    BY <1>3, <1>4, <1>5, <1>6, <2>2, <2>3, CountsType
    DEF TokenInv, TokensMatch
  <2>5. SawEmpty' # {} => isShuffleDone
    BY <2>2 DEF TokenInv, DoneInv
  <2>. QED  BY <1>1, <1>6, <2>4, <2>5, Balance DEF Late
<1>. QED  BY <1>7, <1>8

LEMMA DecideToken ==
  ASSUME TokenInv, TypeOK', NEW t \in Threads, Decide(t)
  PROVE  TokenInv'
<1>1. PICK point \in {"join", "finished", "reduce"} :
        /\ pc' = [pc EXCEPT ![t] = point]
        /\ point # "reduce" <=> hand[t] = NoGroup /\ isShuffleDone
  BY DEF Decide, Goto
<1>2. /\ pc \in [Threads -> ProgramPoints] /\ pc[t] = "decide"
      /\ hand' = hand /\ UNCHANGED queueVars
  BY DEF TokenInv, TypeOK, Decide
<1>3. hand[t] = NoGroup => isShuffleDone
  BY <1>2 DEF SawEmpty, TokenInv, DoneInv
<1>4. AtCheck' = AtCheck
  BY <1>1, <1>2 DEF AtCheck
<1>5. SawEmpty' = SawEmpty
  BY <1>1, <1>2, <1>3 DEF SawEmpty
<1>6. Unposted' = Unposted
  BY <1>1, <1>2, FirstAndLast DEF Unposted
<1>7. TokensMatch'
  BY <1>2, <1>4, <1>5, <1>6 DEF TokenInv, TokensMatch, queueVars
<1>8. SawEmpty' # {} => isShuffleDone
  BY <1>5 DEF TokenInv, DoneInv
<1>9. point = "reduce" => hand'[t] # NoGroup
  BY <1>1, <1>2, <1>3
<1>. QED  BY <1>1, <1>2, <1>7, <1>8, <1>9, Balance DEF Late, queueVars

LEMMA ReduceToken ==
  ASSUME TokenInv, TypeOK', NEW t \in Threads, Reduce(t)
  PROVE  TokenInv'
<1>1. /\ pc \in [Threads -> ProgramPoints] /\ pc[t] = "reduce"
      /\ pc' = [pc EXCEPT ![t] = "wait"] /\ hand[t] # NoGroup
      /\ \A u \in Threads \ {t} : hand'[u] = hand[u]
      /\ UNCHANGED queueVars
  BY DEF TokenInv, TypeOK, Reduce, Goto
<1>2. AtCheck' = AtCheck /\ SawEmpty' = SawEmpty
  BY <1>1 DEF AtCheck, SawEmpty
<1>3. Unposted' = Unposted
  BY <1>1, FirstAndLast DEF Unposted
<1>4. TokensMatch'
  BY <1>1, <1>2, <1>3 DEF TokenInv, TokensMatch, queueVars
<1>5. SawEmpty' # {} => isShuffleDone
  BY <1>2 DEF TokenInv, DoneInv
<1>. QED  BY <1>1, <1>4, <1>5, Balance DEF Late, queueVars

LEMMA JoinToken == TokenInv /\ TypeOK' /\ Join => TokenInv'
<1>. SUFFICES ASSUME TokenInv, TypeOK', Join PROVE TokenInv'
  OBVIOUS
<1>1. /\ pc \in [Threads -> ProgramPoints] /\ Last \in Threads
      /\ pc[Last] = "join" /\ pc' = [pc EXCEPT ![Last] = "returned"]
      /\ hand' = hand /\ UNCHANGED queueVars
  BY FirstAndLast DEF TokenInv, TypeOK, Join, Goto
<1>2. AtCheck' = AtCheck /\ SawEmpty' = SawEmpty
  BY <1>1 DEF AtCheck, SawEmpty
<1>3. Unposted' = Unposted
  BY <1>1, FirstAndLast DEF Unposted
<1>4. TokensMatch'
  BY <1>1, <1>2, <1>3 DEF TokenInv, TokensMatch, queueVars
<1>5. SawEmpty' # {} => isShuffleDone
  BY <1>2 DEF TokenInv, DoneInv
<1>. QED  BY <1>1, <1>4, <1>5, Balance DEF Late, queueVars

\* The end of the shuffle: the flag, then the last posts.
LEMMA EndToken == TokenInv /\ TypeOK' /\ (ShuffleDone \/ PostFinal) => TokenInv'
<1>. SUFFICES ASSUME TokenInv, TypeOK', ShuffleDone \/ PostFinal PROVE TokenInv'
  OBVIOUS
<1>1. /\ pc \in [Threads -> ProgramPoints] /\ First \in Threads
      /\ pc[First] \in {"done", "release"} /\ pc' = [pc EXCEPT ![First] = "release"]
      /\ hand' = hand /\ shuffleVectors' = shuffleVectors
  BY FirstAndLast DEF TokenInv, TypeOK, ShuffleDone, PostFinal, Goto
<1>2. AtCheck' = AtCheck /\ SawEmpty' = SawEmpty
  BY <1>1 DEF AtCheck, SawEmpty
<1>3. Unposted' = 0 /\ Unposted = 0
  BY <1>1 DEF Unposted
<1>4. Len(shuffleVectors) \in Nat
  BY DEF TokenInv, TypeOK
<1>5. /\ semaphore \in Nat /\ posted \in Nat
      /\ \/ semaphore' = semaphore /\ posted' = posted
         \/ semaphore' = semaphore + 1 /\ posted' = posted + 1
  BY NumThreadsType DEF TokenInv, TypeOK, ShuffleDone, PostFinal
<1>6. TokensMatch'
  BY <1>1, <1>2, <1>3, <1>4, <1>5, CountsType DEF TokenInv, TokensMatch
<1>7. isShuffleDone' = TRUE
  <2>1. CASE ShuffleDone
    BY <2>1 DEF ShuffleDone, DoneValue
  <2>2. CASE PostFinal
    <3>1. pc[First] = "release" /\ isShuffleDone' = isShuffleDone
      BY <2>2 DEF PostFinal
    <3>2. isShuffleDone \in BOOLEAN
      BY DEF TokenInv, TypeOK
    <3>. QED  BY <3>1, <3>2 DEF TokenInv, DoneInv, Late
  <2>. QED  BY <2>1, <2>2
<1>8. ReduceNeverNull'
  BY <1>1 DEF TokenInv, DoneInv, ReduceNeverNull
<1>9. pc'[First] \in Late
  BY <1>1 DEF Late
<1>. QED  BY <1>6, <1>7, <1>8, <1>9 DEF TokenInv, DoneInv

LEMMA TokenStep == TokenInv /\ TypeOK' /\ [Next]_mrVars => TokenInv'
<1>. SUFFICES ASSUME TokenInv, TypeOK', [Next]_mrVars PROVE TokenInv'
  OBVIOUS
<1>. USE FirstAndLast DEF Goto, Late
<1>1. ASSUME NEW t \in Threads, Create(t) PROVE TokenInv'
  BY <1>1, MoveAside DEF Create
<1>2. CASE BecomeLast
  BY <1>2, MoveAside DEF BecomeLast
<1>3. ASSUME NEW t \in Threads, TakeInput(t) \/ Map(t) PROVE TokenInv'
  <2>1. PICK point \in {"map", "mapping", "sort"} :
          pc' = [pc EXCEPT ![t] = point]
    BY <1>3 DEF TakeInput, Map
  <2>2. pc[t] \in {"map", "mapping"} /\ hand' = hand /\ UNCHANGED queueVars
    BY <1>3 DEF TakeInput, Map
  <2>. QED  BY <2>1, <2>2, MoveAside
<1>4. ASSUME NEW t \in Threads, SortPhase(t) \/ PassBarrier(t) PROVE TokenInv'
  <2>1. PICK point \in {"barrier", "shuffle", "wait"} :
          /\ pc' = [pc EXCEPT ![t] = point]
          /\ t = First => point # "wait"
    BY <1>4 DEF SortPhase, PassBarrier
  <2>2. pc[t] \in {"sort", "barrier"} /\ hand' = hand /\ UNCHANGED queueVars
    BY <1>4 DEF SortPhase, PassBarrier
  <2>. QED  BY <2>1, <2>2, MoveAside
<1>5. CASE EraseEmpty \/ NoMoreGroups \/ EndShuffle
  <2>1. /\ hand' = hand /\ UNCHANGED queueVars
        /\ \/ pc[First] = "shuffle" /\ pc' = [pc EXCEPT ![First] = "group"]
           \/ pc[First] = "group" /\ pc' = [pc EXCEPT ![First] = "done"]
           \/ pc[First] = "release" /\ pc' = [pc EXCEPT ![First] = "wait"]
    BY <1>5 DEF EraseEmpty, NoMoreGroups, EndShuffle
  <2>. QED  BY <2>1, MoveAside
<1>6. CASE TakeGroup
  <2>1. /\ pc' = [pc EXCEPT ![First] = "push"] /\ pc[First] = "group"
        /\ \A u \in Threads \ {First} : hand'[u] = hand[u]
        /\ UNCHANGED queueVars
    BY <1>6 DEF TakeGroup, TokenInv, TypeOK
  <2>. QED  BY <2>1, MoveAside
<1>7. CASE PushGroup \/ PostGroup \/ ShuffleDone \/ PostFinal \/ Join
  BY <1>7, PushToken, PostToken, EndToken, JoinToken
<1>8. ASSUME NEW t \in Threads, ReducePhase(t) PROVE TokenInv'
  BY <1>8, WaitToken, PopToken, DecideToken, ReduceToken DEF ReducePhase
<1>9. CASE UNCHANGED mrVars
  BY <1>9
  DEF mrVars, queueVars, TokenInv, TokensMatch, DoneInv, ReduceNeverNull,
      AtCheck, SawEmpty, Unposted
<1>. QED
  BY <1>1, <1>2, <1>3, <1>4, <1>5, <1>6, <1>7, <1>8, <1>9
  DEF Next, Framework, Step, ShufflePhase

(***************************************************************************)
(* reduce is never called with the null pointer, although a thread reads   *)
(* isShuffleDone after it has released the mutex under which it found the  *)
(* queue empty: the tokens add up.                                         *)
(***************************************************************************)
THEOREM NullIsNeverReduced == Spec => []ReduceNeverNull
<1>1. TokenInv => ReduceNeverNull
  BY DEF TokenInv, DoneInv
<1>. QED  BY <1>1, TokenInit, TokenStep, FrameworkTyped, PTL DEF Spec

-----------------------------------------------------------------------------
(***************************************************************************)
(* The return.  Once a thread has found the queue empty nothing is queued  *)
(* any more; when all have, the number of the last posts leaves no token.  *)
(***************************************************************************)
Gone == {"join", "finished", "returned"}

QueueStaysEmpty == SawEmpty # {} => shuffleVectors = << >>

AllGone ==
  /\ \A t \in Threads : pc[t] \in Gone => hand[t] = NoGroup
  /\ pc[Last] = "returned" => \A t \in Threads : pc[t] \in Gone

\* A step of one thread that has not left its phases yet.
LEMMA StillHere ==
  ASSUME TokenInv, AllGone, NEW t \in Threads, NEW point,
         pc' = [pc EXCEPT ![t] = point],
         pc[t] \notin Gone,
         \A u \in Threads \ {t} : hand'[u] = hand[u],
         point \in Gone => hand'[t] = NoGroup,
         point # "returned"
  PROVE  AllGone'
BY FirstAndLast DEF AllGone, TokenInv, TypeOK

LEMMA AllGoneStep == TokenInv /\ AllGone /\ [Next]_mrVars => AllGone'
<1>. SUFFICES ASSUME TokenInv, AllGone, [Next]_mrVars PROVE AllGone'
  OBVIOUS
<1>. USE FirstAndLast DEF Goto, Gone
<1>1. ASSUME NEW t \in Threads, Create(t) PROVE AllGone'
  BY <1>1, StillHere DEF Create
<1>2. CASE BecomeLast
  BY <1>2, StillHere DEF BecomeLast
<1>3. CASE Join
  BY <1>3 DEF Join, AllGone, TokenInv, TypeOK
<1>4. ASSUME NEW t \in Threads, TakeInput(t) \/ Map(t) PROVE AllGone'
  <2>1. PICK point \in {"map", "mapping", "sort"} :
          pc' = [pc EXCEPT ![t] = point]
    BY <1>4 DEF TakeInput, Map
  <2>2. pc[t] \in {"map", "mapping"} /\ hand' = hand
    BY <1>4 DEF TakeInput, Map
  <2>. QED  BY <2>1, <2>2, StillHere
<1>5. ASSUME NEW t \in Threads, SortPhase(t) \/ PassBarrier(t) PROVE AllGone'
  <2>1. PICK point \in {"barrier", "shuffle", "wait"} :
          pc' = [pc EXCEPT ![t] = point]
    BY <1>5 DEF SortPhase, PassBarrier
  <2>2. pc[t] \in {"sort", "barrier"} /\ hand' = hand
    BY <1>5 DEF SortPhase, PassBarrier
  <2>. QED  BY <2>1, <2>2, StillHere
<1>6. CASE ShufflePhase /\ ~ PostFinal
  <2>1. PICK point \in Shuffling \cup {"wait"} :
          pc' = [pc EXCEPT ![First] = point]
    BY <1>6 DEF ShufflePhase, EraseEmpty, TakeGroup, PushGroup, PostGroup,
                NoMoreGroups, ShuffleDone, EndShuffle, Shuffling
  <2>2. /\ pc[First] \in Shuffling
        /\ \A u \in Threads \ {First} : hand'[u] = hand[u]
    BY <1>6 DEF ShufflePhase, EraseEmpty, TakeGroup, PushGroup, PostGroup,
                NoMoreGroups, ShuffleDone, EndShuffle, Shuffling,
                TokenInv, TypeOK
  <2>. QED  BY <2>1, <2>2, StillHere DEF Shuffling
<1>7. ASSUME NEW t \in Threads, ReducePhase(t) PROVE AllGone'
  <2>1. CASE SemWait(t)
    BY <2>1, StillHere DEF SemWait
  <2>2. CASE PopGroup(t)
    <3>1. /\ pc[t] = "check" /\ pc' = [pc EXCEPT ![t] = "decide"]
          /\ \A u \in Threads \ {t} : hand'[u] = hand[u]
      BY <2>2 DEF PopGroup, TokenInv, TypeOK
    <3>. QED  BY <3>1, StillHere
  <2>3. CASE Decide(t)
    <3>1. PICK point \in {"join", "finished", "reduce"} :
            /\ pc' = [pc EXCEPT ![t] = point]
            /\ point # "reduce" => hand[t] = NoGroup
      BY <2>3 DEF Decide
    <3>2. pc[t] = "decide" /\ hand' = hand
      BY <2>3 DEF Decide
    <3>. QED  BY <3>1, <3>2, StillHere
  <2>4. CASE Reduce(t)
    <3>1. /\ pc[t] = "reduce" /\ pc' = [pc EXCEPT ![t] = "wait"]
          /\ \A u \in Threads \ {t} : hand'[u] = hand[u]
      BY <2>4 DEF Reduce, TokenInv, TypeOK
    <3>. QED  BY <3>1, StillHere
  <2>. QED  BY <1>7, <2>1, <2>2, <2>3, <2>4 DEF ReducePhase
<1>8. CASE PostFinal \/ UNCHANGED mrVars
  BY <1>8 DEF PostFinal, mrVars, AllGone
<1>. QED
  BY <1>1, <1>2, <1>3, <1>4, <1>5, <1>6, <1>7, <1>8
  DEF Next, Framework, Step

LEMMA QueueStep ==
  TokenInv /\ QueueStaysEmpty /\ [Next]_mrVars => QueueStaysEmpty'
<1>. SUFFICES ASSUME TokenInv, QueueStaysEmpty, [Next]_mrVars
              PROVE  QueueStaysEmpty'
  OBVIOUS
<1>. USE FirstAndLast DEF Goto
<1>1. ASSUME SawEmpty' \subseteq SawEmpty, shuffleVectors' = shuffleVectors
      PROVE  QueueStaysEmpty'
  BY <1>1 DEF QueueStaysEmpty
<1>2. pc \in [Threads -> ProgramPoints] /\ DOMAIN hand = Threads
  BY DEF TokenInv, TypeOK
<1>3. ASSUME NEW t \in Threads, NEW point,
             pc' = [pc EXCEPT ![t] = point],
             point \notin {"decide", "reduce"} \cup Gone,
             \A u \in Threads \ {t} : hand'[u] = hand[u],
             shuffleVectors' = shuffleVectors
      PROVE  QueueStaysEmpty'
  <2>1. SawEmpty' \subseteq SawEmpty
    BY <1>2, <1>3 DEF SawEmpty, Gone
  <2>. QED  BY <1>1, <1>3, <2>1
<1>. USE DEF queueVars, Gone
<1>4. ASSUME NEW t \in Threads, Create(t) PROVE QueueStaysEmpty'
  BY <1>3, <1>4 DEF Create
<1>5. CASE BecomeLast
  BY <1>3, <1>5 DEF BecomeLast
<1>6. CASE Join
  <2>1. SawEmpty' \subseteq SawEmpty
    BY <1>2, <1>6 DEF Join, SawEmpty
  <2>. QED  BY <1>1, <1>6, <2>1 DEF Join
<1>7. ASSUME NEW t \in Threads, TakeInput(t) \/ Map(t) PROVE QueueStaysEmpty'
  <2>1. /\ \E point \in {"map", "mapping", "sort"} :
             pc' = [pc EXCEPT ![t] = point]
        /\ hand' = hand /\ shuffleVectors' = shuffleVectors
    BY <1>7 DEF TakeInput, Map
  <2>. QED  BY <1>3, <2>1
<1>8. ASSUME NEW t \in Threads, SortPhase(t) \/ PassBarrier(t)
      PROVE  QueueStaysEmpty'
  <2>1. /\ \E point \in {"barrier", "shuffle", "wait"} :
             pc' = [pc EXCEPT ![t] = point]
        /\ hand' = hand /\ shuffleVectors' = shuffleVectors
    BY <1>8 DEF SortPhase, PassBarrier
  <2>. QED  BY <1>3, <2>1
<1>9. CASE PushGroup
  <2>1. pc[First] = "push" /\ pc' = [pc EXCEPT ![First] = "post"]
        /\ \A u \in Threads \ {First} : hand'[u] = hand[u]
    BY <1>2, <1>9 DEF PushGroup
  <2>2. SawEmpty = {}
    BY <2>1 DEF TokenInv, DoneInv, Late
  <2>3. SawEmpty' \subseteq SawEmpty
    BY <1>2, <2>1 DEF SawEmpty
  <2>. QED  BY <2>2, <2>3 DEF QueueStaysEmpty
<1>10. CASE ShufflePhase /\ ~ PushGroup /\ ~ PostFinal
  <2>1. /\ \E point \in Shuffling \cup {"wait"} :
             pc' = [pc EXCEPT ![First] = point]
        /\ \A u \in Threads \ {First} : hand'[u] = hand[u]
        /\ shuffleVectors' = shuffleVectors
    BY <1>2, <1>10
    DEF ShufflePhase, EraseEmpty, TakeGroup, PostGroup, NoMoreGroups,
        ShuffleDone, EndShuffle, Shuffling
  <2>. QED  BY <1>3, <2>1 DEF Shuffling
<1>11. ASSUME NEW t \in Threads, SemWait(t) \/ Reduce(t) PROVE QueueStaysEmpty'
  <2>1. /\ \E point \in {"check", "wait"} : pc' = [pc EXCEPT ![t] = point]
        /\ \A u \in Threads \ {t} : hand'[u] = hand[u]
        /\ shuffleVectors' = shuffleVectors
    BY <1>2, <1>11 DEF SemWait, Reduce
  <2>. QED  BY <1>3, <2>1
<1>12. ASSUME NEW t \in Threads, PopGroup(t) PROVE QueueStaysEmpty'
  <2>1. CASE shuffleVectors = << >>
    BY <1>12, <2>1 DEF PopGroup, QueueStaysEmpty
  <2>2. CASE shuffleVectors # << >>
    <3>1. /\ pc' = [pc EXCEPT ![t] = "decide"]
          /\ \A u \in Threads \ {t} : hand'[u] = hand[u]
          /\ hand'[t] # NoGroup
      BY <1>2, <1>12, <2>2 DEF PopGroup
    <3>2. SawEmpty' \subseteq SawEmpty
      BY <1>2, <3>1 DEF SawEmpty
    <3>. QED  BY <2>2, <3>2 DEF QueueStaysEmpty
  <2>. QED  BY <2>1, <2>2
<1>13. ASSUME NEW t \in Threads, Decide(t) PROVE QueueStaysEmpty'
  <2>1. PICK point \in {"join", "finished", "reduce"} :
          /\ pc' = [pc EXCEPT ![t] = point]
          /\ point # "reduce" => hand[t] = NoGroup
    BY <1>13 DEF Decide
  <2>2. pc[t] = "decide" /\ hand' = hand /\ shuffleVectors' = shuffleVectors
    BY <1>13 DEF Decide
  <2>3. SawEmpty' \subseteq SawEmpty
    BY <1>2, <2>1, <2>2 DEF SawEmpty
  <2>. QED  BY <1>1, <2>2, <2>3
<1>14. CASE PostFinal \/ UNCHANGED mrVars
  BY <1>1, <1>14 DEF PostFinal, mrVars, SawEmpty
<1>. QED
  BY <1>4, <1>5, <1>6, <1>7, <1>8, <1>9, <1>10, <1>11, <1>12, <1>13, <1>14
  DEF Next, Framework, Step, ReducePhase, ShufflePhase

(***************************************************************************)
(* When runMapReduceFramework returns, no group is left in the queue, no   *)
(* token in the semaphore, no group in a thread's hands.                   *)
(***************************************************************************)
THEOREM ReturnsClean == Spec => []CleanReturn
<1>1. Init => QueueStaysEmpty /\ AllGone
  BY FirstAndLast
  DEF Init, QueueStaysEmpty, AllGone, SawEmpty, Gone
<1>2. TokenInv /\ QueueStaysEmpty /\ AllGone => CleanReturn
  <2>. SUFFICES ASSUME TokenInv, QueueStaysEmpty, AllGone, Returned
                PROVE  /\ shuffleVectors = << >> /\ semaphore = 0
                       /\ \A t \in Threads : hand[t] = NoGroup
    BY DEF CleanReturn
  <2>1. \A t \in Threads : pc[t] \in Gone /\ hand[t] = NoGroup
    BY DEF AllGone, Returned
  <2>2. SawEmpty = Threads /\ AtCheck = {} /\ Unposted = 0
    BY <2>1, FirstAndLast DEF SawEmpty, AtCheck, Unposted, Gone
  <2>3. shuffleVectors = << >>
    BY <2>2, FirstAndLast DEF QueueStaysEmpty
  <2>4. /\ Cardinality(AtCheck) = 0 /\ Cardinality(SawEmpty) = numThreads
        /\ Len(shuffleVectors) = 0
    BY <2>2, <2>3, FS_EmptySet DEF numThreads
  <2>5. semaphore + numThreads = posted
    BY <2>2, <2>4, NumThreadsType DEF TokenInv, TypeOK, TokensMatch
  <2>6. semaphore = 0
    BY <2>5, NumThreadsType DEF TokenInv, TypeOK
  <2>. QED  BY <2>1, <2>3, <2>6
<1>. QED
  BY <1>1, <1>2, TokenInit, TokenStep, AllGoneStep, QueueStep, FrameworkTyped,
     PTL DEF Spec

-----------------------------------------------------------------------------
(***************************************************************************)
(* Somebody can always go on.  RolesInv is what the tokens and the barrier *)
(* do not tell: a thread is unborn only while the last one creates, only   *)
(* the last one joins, only the others finish, and thread 0 leaves its     *)
(* last loop when it has made all the posts.                               *)
(***************************************************************************)
RolesInv ==
  /\ \A t \in Threads : pc[t] = "unborn" => pc[Last] = "create"
  /\ \A t \in Threads : pc[t] = "finished" => t # Last
  /\ \A t \in Threads : pc[t] \in {"create", "join", "returned"} => t = Last
  /\ pc[First] \in Late \ {"release"} => posted = FinalPosts

\* A step of one thread that is none of these events.
LEMMA RolesKept ==
  ASSUME TypeOK, RolesInv, NEW t \in Threads, NEW point,
         pc' = [pc EXCEPT ![t] = point],
         pc[t] \notin {"unborn", "create"},
         point \notin {"unborn", "create", "join", "finished", "returned"},
         t = First /\ point \in Late \ {"release"}
           => posted = FinalPosts,
         posted' = posted
  PROVE  RolesInv'
<1>1. /\ pc'[t] = point /\ \A u \in Threads \ {t} : pc'[u] = pc[u]
      /\ First \in Threads /\ Last \in Threads
  BY FirstAndLast DEF TypeOK
<1>. QED  BY <1>1 DEF RolesInv, FinalPosts

LEMMA RolesStep == TypeOK /\ RolesInv /\ [Next]_mrVars => RolesInv'
<1>. SUFFICES ASSUME TypeOK, RolesInv, [Next]_mrVars PROVE RolesInv'
  OBVIOUS
<1>. USE FirstAndLast DEF Goto, queueVars
<1>1. ASSUME NEW t \in Threads, Create(t) PROVE RolesInv'
  <2>1. /\ pc'[t] = "map" /\ \A u \in Threads \ {t} : pc'[u] = pc[u]
        /\ t # Last /\ pc[Last] = "create" /\ posted' = posted
    BY <1>1 DEF Create, TypeOK
  <2>. QED  BY <2>1 DEF RolesInv, Late, FinalPosts
<1>2. CASE BecomeLast
  <2>1. /\ pc'[Last] = "map" /\ \A u \in Threads \ {Last} : pc'[u] = pc[u]
        /\ \A u \in Threads \ {Last} : pc[u] # "unborn"
        /\ posted' = posted
    BY <1>2 DEF BecomeLast, TypeOK
  <2>. QED  BY <2>1 DEF RolesInv, Late, FinalPosts
<1>3. CASE Join
  <2>1. /\ pc'[Last] = "returned" /\ \A u \in Threads \ {Last} : pc'[u] = pc[u]
        /\ pc[Last] = "join" /\ posted' = posted
    BY <1>3 DEF Join, TypeOK
  <2>. QED  BY <2>1 DEF RolesInv, Late, FinalPosts
<1>4. ASSUME NEW t \in Threads, TakeInput(t) \/ Map(t) PROVE RolesInv'
  <2>1. PICK point \in {"map", "mapping", "sort"} :
          pc' = [pc EXCEPT ![t] = point]
    BY <1>4 DEF TakeInput, Map
  <2>2. pc[t] \in {"map", "mapping"} /\ posted' = posted
    BY <1>4 DEF TakeInput, Map
  <2>. QED  BY <2>1, <2>2, RolesKept DEF Late
<1>5. ASSUME NEW t \in Threads, SortPhase(t) PROVE RolesInv'
  <2>1. /\ pc' = [pc EXCEPT ![t] = "barrier"] /\ pc[t] = "sort"
        /\ posted' = posted
    BY <1>5 DEF SortPhase
  <2>. QED  BY <2>1, RolesKept DEF Late
<1>6. ASSUME NEW t \in Threads, PassBarrier(t) PROVE RolesInv'
  <2>1. PICK point \in {"shuffle", "wait"} :
          pc' = [pc EXCEPT ![t] = point] /\ (t = First => point = "shuffle")
    BY <1>6 DEF PassBarrier
  <2>2. pc[t] = "barrier" /\ posted' = posted
    BY <1>6 DEF PassBarrier
  <2>. QED  BY <2>1, <2>2, RolesKept DEF Late
<1>7. CASE ShufflePhase /\ ~ PostFinal
  <2>1. PICK point \in Shuffling \cup {"wait"} :
          /\ pc' = [pc EXCEPT ![First] = point]
          /\ point = "wait" => posted = FinalPosts
    BY <1>7 DEF ShufflePhase, EraseEmpty, TakeGroup, PushGroup, PostGroup,
                NoMoreGroups, ShuffleDone, EndShuffle, Shuffling
  <2>2. pc[First] \in Shuffling /\ posted' = posted
    BY <1>7 DEF ShufflePhase, EraseEmpty, TakeGroup, PushGroup, PostGroup,
                NoMoreGroups, ShuffleDone, EndShuffle, Shuffling
  <2>. QED  BY <2>1, <2>2, RolesKept DEF Late, Shuffling
<1>8. CASE PostFinal
  <2>1. pc' = pc /\ pc[First] = "release"
    BY <1>8 DEF PostFinal
  <2>. QED  BY <2>1 DEF RolesInv
<1>9. ASSUME NEW t \in Threads, ReducePhase(t) PROVE RolesInv'
  <2>1. /\ pc[t] \in {"wait", "check", "decide", "reduce"} /\ posted' = posted
        /\ t = First => posted = FinalPosts
    BY <1>9 DEF ReducePhase, SemWait, PopGroup, Decide, Reduce, RolesInv, Late
  <2>2. CASE ~ Decide(t)
    <3>1. PICK point \in {"check", "decide", "wait"} :
            pc' = [pc EXCEPT ![t] = point]
      BY <1>9, <2>2 DEF ReducePhase, SemWait, PopGroup, Reduce
    <3>. QED  BY <2>1, <3>1, RolesKept
  <2>3. CASE Decide(t)
    <3>1. /\ pc'[t] \in {"join", "finished", "reduce"}
          /\ pc'[t] = "join" => t = Last
          /\ pc'[t] = "finished" => t # Last
          /\ \A u \in Threads \ {t} : pc'[u] = pc[u]
      BY <2>3 DEF Decide, TypeOK
    <3>. QED  BY <2>1, <3>1 DEF RolesInv, FinalPosts
  <2>. QED  BY <2>2, <2>3
<1>10. CASE UNCHANGED mrVars
  BY <1>10 DEF mrVars, RolesInv, FinalPosts
<1>. QED
  BY <1>1, <1>2, <1>3, <1>4, <1>5, <1>6, <1>7, <1>8, <1>9, <1>10
  DEF Next, Framework, Step

\* At the barrier: the thread a sleeping one waits for has yet to come.
LEMMA BarrierGoesOn ==
  ASSUME MeetInv, RolesInv, NEW t \in Threads, pc[t] = "barrier", t \in waiters
  PROVE  \E u \in Threads : ~ Blocked(u)
<1>1. PICK u \in Threads \ waiters : arrived[u] < 1
  BY InvMeansSomebody, OnceAssumption DEF SleepsForSomebody, MeetInv
<1>2. arrived[u] = 0 /\ left[u] = 0 /\ u \notin returning
  BY <1>1 DEF MeetInv, BarrierInv, BarrierTypeOK, CallsMatch, Inside
<1>3. pc[u] \notin PastBarrier
  BY <1>2 DEF MeetInv, PointsFitBarrier
<1>4. pc[u] \in BeforeBarrier \cup {"barrier"}
  BY <1>3 DEF MeetInv, PointsTyped, PastBarrier
<1>5. CASE pc[u] = "unborn"
  <2>1. pc[Last] = "create"
    BY <1>5 DEF RolesInv
  <2>. QED  BY <2>1, FirstAndLast DEF Blocked
<1>6. CASE pc[u] # "unborn"
  <2>1. ~ Blocked(u)
    BY <1>1, <1>4, <1>6 DEF Blocked, BeforeBarrier
  <2>. QED  BY <2>1
<1>. QED  BY <1>5, <1>6

\* At the semaphore: as long as a thread waits there is a token for it, or
\* somebody is on the way to one.
LEMMA QueueGoesOn ==
  ASSUME TokenInv, RolesInv, NEW t \in Threads, pc[t] = "wait",
         \A u \in Threads : pc[u] \in {"wait", "join", "finished"}
  PROVE  semaphore > 0
<1>1. pc[First] \in Late \ {"release"} /\ Unposted = 0 /\ AtCheck = {}
  BY FirstAndLast DEF Late, Unposted, AtCheck
<1>2. posted = numThreads
  BY <1>1 DEF RolesInv, FinalPosts
<1>3. SawEmpty \subseteq Threads \ {t}
  BY DEF SawEmpty
<1>4. Cardinality(SawEmpty) <= numThreads - 1
  <2>1. /\ IsFiniteSet(Threads \ {t})
        /\ Cardinality(Threads \ {t}) = numThreads - 1
    BY ThreadsAssumption, FS_RemoveElement DEF numThreads
  <2>. QED  BY <1>3, <2>1, FS_Subset
<1>5. Cardinality(AtCheck) = 0
  BY <1>1, FS_EmptySet
<1>6. Len(shuffleVectors) \in Nat /\ semaphore \in Nat
  BY LenProperties DEF TokenInv, TypeOK
<1>7. semaphore + 0 + Cardinality(SawEmpty) + 0 = Len(shuffleVectors) + numThreads
  BY <1>1, <1>2, <1>5 DEF TokenInv, TokensMatch
<1>. QED  BY <1>4, <1>6, <1>7, NumThreadsType, CountsType

(***************************************************************************)
(* Until runMapReduceFramework returns some thread can go on: whoever      *)
(* waits at the barrier, at the semaphore or in a join, waits for one that *)
(* does not.                                                               *)
(***************************************************************************)
THEOREM FrameworkNeverStuck == Spec => []NoDeadlock
<1>1. Init => RolesInv
  BY FirstAndLast DEF Init, RolesInv, Late
<1>2. MeetInv /\ TokenInv /\ RolesInv => NoDeadlock
  <2>. SUFFICES ASSUME MeetInv, TokenInv, RolesInv, ~ Returned,
                       \A t \in Threads : Blocked(t)
                PROVE  FALSE
    BY DEF NoDeadlock
  <2>1. \A t \in Threads : pc[t] # "barrier"
    BY BarrierGoesOn DEF Blocked
  <2>2. \A t \in Threads : pc[t] \in {"unborn", "finished", "returned", "wait", "join"}
    BY <2>1 DEF Blocked
  <2>3. \A t \in Threads : pc[t] \in {"finished", "wait", "join"}
    BY <2>2, FirstAndLast DEF RolesInv, Returned
  <2>4. semaphore \in Nat
    BY DEF TokenInv, TypeOK
  <2>5. \A t \in Threads : pc[t] # "wait"
    <3>. SUFFICES ASSUME NEW t \in Threads, pc[t] = "wait" PROVE FALSE
      OBVIOUS
    <3>1. semaphore > 0
      BY <2>3, QueueGoesOn
    <3>. QED  BY <3>1, <2>4 DEF Blocked
  <2>6. pc[Last] = "join"
    BY <2>3, <2>5, FirstAndLast DEF RolesInv
  <2>7. \A u \in Threads \ {Last} : pc[u] = "finished"
    BY <2>3, <2>5 DEF RolesInv
  <2>. QED  BY <2>6, <2>7, FirstAndLast DEF Blocked
<1>. QED
  BY <1>1, <1>2, MeetInit, MeetStep, TokenInit, TokenStep, RolesStep,
     FrameworkTyped, PTL DEF Spec, TokenInv
=============================================================================
