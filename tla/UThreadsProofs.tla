--------------------------- MODULE UThreadsProofs ---------------------------
(***************************************************************************)
(* Theorems about UThreads, for every MaxThreadNum and QuantumCap.         *)
(***************************************************************************)
EXTENDS UThreads, SeqFilterProofs, FiniteSetTheorems

USE DEF Main

-----------------------------------------------------------------------------
(***************************************************************************)
(* Sums over a finite set, as FoldFunction computes them: the elements are *)
(* taken in the order in which CHOOSE yields them.                         *)
(***************************************************************************)
First(s) == CHOOSE x \in s : TRUE
Total(f) == FoldFunction(+, 0, f)

LEMMA FirstIn == ASSUME NEW s, s # {} PROVE First(s) \in s
BY DEF First

\* The recursion equation of the fold's partial sums, for the sets in D.
SumsOf(f, D, k) ==
  k = [s \in D |-> IF s = {} THEN 0 ELSE f[First(s)] + k[s \ {First(s)}]]

\* Any non-empty set of subsets of a finite set has a minimal element.
LEMMA LeastSubset ==
  ASSUME NEW S, IsFiniteSet(S), NEW B \in SUBSET SUBSET S, B # {}
  PROVE  \E s \in B : \A r \in SUBSET s : r # s => r \notin B
<1>1. ASSUME NEW s \in SUBSET S PROVE IsFiniteSet(s) /\ Cardinality(s) \in Nat
  BY FS_Subset, FS_CardinalityType
<1>. DEFINE C == {Cardinality(s) : s \in B}
<1>2. C \in SUBSET Nat /\ C # {}
  BY <1>1
<1>3. PICK n \in C : \A m \in C : n <= m
  <2>. HIDE DEF C
  <2>. QED  BY <1>2, LeastNat
<1>4. PICK s \in B : n = Cardinality(s)
  BY DEF C
<1>5. ASSUME NEW r \in SUBSET s, r # s, r \in B PROVE FALSE
  <2>1. Cardinality(r) < Cardinality(s)
    BY <1>1, <1>5, FS_Subset
  <2>2. n <= Cardinality(r)
    BY <1>3, <1>5
  <2>. QED  BY <1>1, <1>4, <1>5, <2>1, <2>2
<1>. QED  BY <1>5

\* The recursion behind the fold has a solution, so its CHOOSE picks one.
LEMMA SumsExist ==
  ASSUME NEW f, NEW S, IsFiniteSet(S)
  PROVE  \E k : SumsOf(f, SUBSET S, k)
<1>1. ASSUME NEW s \in SUBSET S PROVE IsFiniteSet(s) /\ Cardinality(s) \in Nat
  BY FS_Subset, FS_CardinalityType
<1>. DEFINE Small(n) == {s \in SUBSET S : Cardinality(s) <= n}
            Bad == {n \in Nat : ~ \E k : SumsOf(f, Small(n), k)}
<1>2. Bad = {}
  <2>1. SUFFICES ASSUME Bad # {} PROVE FALSE
    OBVIOUS
  <2>2. PICK M \in Bad : \A m \in Bad : M <= m
    BY <2>1, LeastNat
  <2>3. CASE M = 0
    <3>1. \A s \in Small(0) : s = {}
      BY <1>1, FS_EmptySet
    <3>2. SumsOf(f, Small(0), [s \in Small(0) |-> 0])
      BY <3>1 DEF SumsOf
    <3>. QED  BY <2>2, <2>3, <3>2
  <2>4. CASE M # 0
    <3>1. M \in Nat /\ M - 1 \in Nat /\ ~ (M <= M - 1)
      BY <2>2, <2>4
    <3>2. M - 1 \notin Bad
      <4>. HIDE DEF Bad
      <4>. QED  BY <2>2, <3>1
    <3>3. PICK k : SumsOf(f, Small(M - 1), k)
      BY <3>1, <3>2
    <3>. DEFINE less(s) == s \ {First(s)}
                kk == [s \in Small(M) |->
                         IF s = {} THEN 0 ELSE f[First(s)] + k[less(s)]]
    <3>4. ASSUME NEW s \in Small(M), s # {} PROVE less(s) \in Small(M - 1)
      <4>1. First(s) \in s
        BY <3>4, FirstIn
      <4>2. Cardinality(less(s)) = Cardinality(s) - 1
        BY <1>1, <4>1, FS_RemoveElement
      <4>. QED  BY <1>1, <3>1, <4>2
    <3>5. ASSUME NEW s \in Small(M - 1) PROVE s \in Small(M) /\ kk[s] = k[s]
      <4>1. s \in Small(M)
        BY <1>1, <3>1
      <4>. HIDE DEF Small
      <4>. QED  BY <3>3, <4>1 DEF SumsOf
    <3>6. ASSUME NEW s \in Small(M), s # {}
          PROVE  kk[s] = f[First(s)] + kk[less(s)]
      BY <3>4, <3>5, <3>6
    <3>7. SumsOf(f, Small(M), kk)
      <4>1. \A s \in Small(M) :
              kk[s] = IF s = {} THEN 0 ELSE f[First(s)] + kk[less(s)]
        BY <3>6
      <4>2. kk = [s \in Small(M) |-> kk[s]]
        OBVIOUS
      <4>. HIDE DEF kk, Small
      <4>. QED  BY <4>1, <4>2 DEF SumsOf
    <3>. QED  BY <2>2, <3>1, <3>7
  <2>. QED  BY <2>3, <2>4
<1>3. Cardinality(S) \in Nat
  BY <1>1
<1>4. Small(Cardinality(S)) = SUBSET S
  <2>1. ASSUME NEW s \in SUBSET S PROVE Cardinality(s) <= Cardinality(S)
    BY FS_Subset
  <2>. QED  BY <2>1
<1>. QED  BY <1>2, <1>3, <1>4

\* Total, unfolded: the partial sums of all subsets, the last of which it is.
LEMMA TotalUnfolds ==
  ASSUME NEW S, IsFiniteSet(S), NEW f, DOMAIN f = S
  PROVE  \E k : /\ k[{}] = 0
                /\ \A s \in SUBSET S :
                     s # {} => k[s] = f[First(s)] + k[s \ {First(s)}]
                /\ Total(f) = k[S]
<1>. DEFINE k == CHOOSE iter : SumsOf(f, SUBSET S, iter)
<1>1. SumsOf(f, SUBSET S, k)
  BY SumsExist
<1>2. Total(f) = k[S]
  BY DEF Total, FoldFunction, FoldFunctionOnSet, MapThenFoldSet, SumsOf, First
<1>. HIDE DEF k
<1>3. k[{}] = 0
  BY <1>1 DEF SumsOf
<1>4. \A s \in SUBSET S : s # {} => k[s] = f[First(s)] + k[s \ {First(s)}]
  BY <1>1 DEF SumsOf
<1>. QED  BY <1>2, <1>3, <1>4

(***************************************************************************)
(* One element changes: so does the sum, by the difference.                *)
(***************************************************************************)
LEMMA TotalChanges ==
  ASSUME NEW S, IsFiniteSet(S), NEW f \in [S -> Nat], NEW g \in [S -> Nat],
         NEW t \in S, \A x \in S \ {t} : g[x] = f[x]
  PROVE  /\ Total(f) \in Nat
         /\ Total(g) \in Nat
         /\ Total(g) + f[t] = Total(f) + g[t]
<1>1. DOMAIN f = S /\ DOMAIN g = S /\ f[t] \in Nat /\ g[t] \in Nat
  OBVIOUS
<1>2. PICK k : /\ k[{}] = 0
               /\ \A s \in SUBSET S :
                    s # {} => k[s] = f[First(s)] + k[s \ {First(s)}]
               /\ Total(f) = k[S]
  BY <1>1, TotalUnfolds
<1>3. PICK h : /\ h[{}] = 0
               /\ \A s \in SUBSET S :
                    s # {} => h[s] = g[First(s)] + h[s \ {First(s)}]
               /\ Total(g) = h[S]
  BY <1>1, TotalUnfolds
<1>. DEFINE Good(s) == /\ k[s] \in Nat /\ h[s] \in Nat
                       /\ t \in s => h[s] + f[t] = k[s] + g[t]
                       /\ t \notin s => h[s] = k[s]
            Bad == {s \in SUBSET S : ~ Good(s)}
<1>4. Bad = {}
  <2>1. SUFFICES ASSUME Bad # {} PROVE FALSE
    OBVIOUS
  <2>2. PICK s \in Bad : \A r \in SUBSET s : r # s => r \notin Bad
    <3>1. Bad \in SUBSET SUBSET S
      OBVIOUS
    <3>. HIDE DEF Bad
    <3>. QED  BY <2>1, <3>1, LeastSubset
  <2>3. s # {}
    <3>1. Good({})
      BY <1>2, <1>3
    <3>. QED  BY <2>2, <3>1
  <2>. DEFINE c == First(s)
              r == s \ {c}
  <2>4. c \in s /\ r \in SUBSET s /\ r # s /\ r \in SUBSET S /\ c \in S
    BY <2>2, <2>3, FirstIn
  <2>5. Good(r)
    BY <2>2, <2>4
  <2>6. k[s] = f[c] + k[r] /\ h[s] = g[c] + h[r]
    BY <1>2, <1>3, <2>2, <2>3
  <2>7. f[c] \in Nat /\ g[c] \in Nat
    BY <2>4
  <2>8. t \in s <=> t = c \/ t \in r
    BY <2>4
  <2>9. t = c => t \notin r
    OBVIOUS
  <2>. HIDE DEF c, r
  <2>10. CASE t = c
    BY <1>1, <2>2, <2>5, <2>6, <2>7, <2>8, <2>9, <2>10
  <2>11. CASE t # c
    <3>1. g[c] = f[c]
      BY <2>4, <2>11
    <3>. QED  BY <3>1, <2>2, <2>5, <2>6, <2>7, <2>8, <2>11
  <2>. QED  BY <2>10, <2>11
<1>5. Good(S)
  BY <1>4
<1>. QED  BY <1>2, <1>3, <1>5

\* Nobody has anything.
LEMMA TotalOfNothing ==
  ASSUME NEW S, IsFiniteSet(S), NEW f, DOMAIN f = S, \A x \in S : f[x] = 0
  PROVE  Total(f) = 0
<1>1. PICK k : /\ k[{}] = 0
               /\ \A s \in SUBSET S :
                    s # {} => k[s] = f[First(s)] + k[s \ {First(s)}]
               /\ Total(f) = k[S]
  BY TotalUnfolds
<1>. DEFINE Bad == {s \in SUBSET S : k[s] # 0}
<1>2. Bad = {}
  <2>1. SUFFICES ASSUME Bad # {} PROVE FALSE
    OBVIOUS
  <2>2. PICK s \in Bad : \A r \in SUBSET s : r # s => r \notin Bad
    <3>1. Bad \in SUBSET SUBSET S
      OBVIOUS
    <3>. HIDE DEF Bad
    <3>. QED  BY <2>1, <3>1, LeastSubset
  <2>3. s # {}
    BY <1>1, <2>2
  <2>4. /\ First(s) \in s /\ First(s) \in S
        /\ k[s] = f[First(s)] + k[s \ {First(s)}]
    BY <1>1, <2>2, <2>3, FirstIn
  <2>5. k[s \ {First(s)}] = 0
    BY <2>2, <2>4
  <2>. QED  BY <2>2, <2>4, <2>5
<1>. QED  BY <1>1, <1>2

-----------------------------------------------------------------------------
(***************************************************************************)
(* Type correctness.  First the types of the operators.                    *)
(***************************************************************************)
LEMMA CappedType == \A n \in Nat : Capped(n) \in 0 .. QuantumCap
BY QuantumCapAssumption DEF Capped

LEMMA MainInTid == Main \in Tid
BY MaxThreadNumAssumption DEF Tid

LEMMA ReadyWithoutType ==
  ASSUME TypeOK, NEW t
  PROVE  ReadyWithout(t) \in Seq(Tid)
BY KeepInProperties DEF TypeOK, ReadyWithout

LEMMA DependantsType ==
  ASSUME TypeOK, NEW t \in Tid
  PROVE  /\ sync_dependencies[t] \in Seq(Tid \ {Main})
         /\ sync_dependencies[t] \in Seq(Tid)
         /\ Range(sync_dependencies[t]) \subseteq Tid \ {Main}
<1>1. sync_dependencies[t] \in Seq(Tid \ {Main})
  BY DEF TypeOK
<1>2. Range(sync_dependencies[t]) \subseteq Tid \ {Main}
  BY <1>1, ElementOfSeq, LenProperties DEF Range
<1>3. Seq(Tid \ {Main}) \subseteq Seq(Tid)
  BY SeqMonotonic
<1>. QED  BY <1>1, <1>2, <1>3

LEMMA ReleasedType ==
  ASSUME TypeOK, NEW t \in Tid
  PROVE  Released(t) \in Seq(Tid)
BY DependantsType, KeepInProperties DEF Released

LEMMA RetireType ==
  ASSUME TypeOK, NEW t \in Tid, Retire(t)
  PROVE  retired_quantums' \in 0 .. QuantumCap
<1>1. retired_quantums + quantums[t] \in Nat
  BY DEF TypeOK
<1>. QED  BY <1>1, CappedType DEF Retire

LEMMA DispatchType ==
  ASSUME TypeOK, NEW queue \in Seq(Tid), NEW live,
         NEW q \in [Tid -> 0 .. QuantumCap], NEW next \in Processes,
         Dispatch(queue, live, q, next)
  PROVE  /\ process' \in Processes
         /\ ready' \in Seq(Tid)
         /\ current_thread' \in Tid
         /\ quantums' \in [Tid -> 0 .. QuantumCap]
         /\ total_quantums' \in 0 .. QuantumCap
<1>1. CASE queue = << >> \/ Head(queue) \notin live
  BY <1>1 DEF Dispatch, TypeOK, Processes
<1>2. CASE ~ (queue = << >> \/ Head(queue) \notin live)
  <2>1. Head(queue) \in Tid /\ Tail(queue) \in Seq(Tid)
    BY <1>2, HeadTailRange
  <2>2. q[Head(queue)] + 1 \in Nat /\ total_quantums + 1 \in Nat
    BY <2>1 DEF TypeOK
  <2>3. /\ Capped(q[Head(queue)] + 1) \in 0 .. QuantumCap
        /\ Capped(total_quantums + 1) \in 0 .. QuantumCap
    BY <2>2, CappedType
  <2>. QED  BY <1>2, <2>1, <2>3 DEF Dispatch, StartQuantum
<1>. QED  BY <1>1, <1>2

LEMMA TypeInit == Init => TypeOK
BY MainInTid, QuantumCapAssumption
   DEF Init, TypeOK, Processes, Contexts

LEMMA TypeStep == TypeOK /\ [Next]_vars => TypeOK'
<1>. SUFFICES ASSUME TypeOK, [Next]_vars PROVE TypeOK'
  OBVIOUS
<1>. USE DEF TypeOK, ids, flags, accounting, scheduling
<1>1. CASE Start
  <2>1. CASE InitTimer \/ TimerBeforeMain
    BY <2>1 DEF InitTimer, TimerBeforeMain, Undefined, Processes
  <2>2. CASE InitMain
    <3>1. 1 \in 0 .. QuantumCap
      BY QuantumCapAssumption
    <3>2. quantums' \in [Tid -> 0 .. QuantumCap]
      BY <2>2, <3>1 DEF InitMain
    <3>. QED  BY <2>2, <3>2 DEF InitMain, Processes
  <2>3. CASE InitNoMemory
    BY <2>3 DEF InitNoMemory, Exit, Processes
  <2>4. CASE InitBlock
    BY <2>4, MainInTid DEF InitBlock, Processes
  <2>5. CASE InitTotal
    BY <2>5, QuantumCapAssumption DEF InitTotal, Processes
  <2>6. CASE PreemptInit
    <3>1. Requeued(Main) \in Seq(Tid)
      BY AppendRange, MainInTid DEF Requeued
    <3>2. /\ process' \in Processes /\ ready' \in Seq(Tid)
          /\ current_thread' \in Tid /\ quantums' \in [Tid -> 0 .. QuantumCap]
          /\ total_quantums' \in 0 .. QuantumCap
      BY <2>6, <3>1, DispatchType DEF PreemptInit
    <3>3. retired_quantums' \in 0 .. QuantumCap
      <4>1. retired_quantums + 1 \in Nat
        OBVIOUS
      <4>. QED  BY <2>6, <4>1, CappedType DEF PreemptInit
    <3>. QED  BY <2>6, <3>2, <3>3 DEF PreemptInit
  <2>. QED  BY <1>1, <2>1, <2>2, <2>3, <2>4, <2>5, <2>6 DEF Start
<1>2. CASE SpawnFull \/ SpawnNoMemory \/ TerminateMain
  BY <1>2 DEF SpawnFull, SpawnNoMemory, TerminateMain, Exit, Processes
<1>3. ASSUME NEW id \in Tid, Spawn(id) PROVE TypeOK'
  <2>1. ready' \in Seq(Tid)
    BY <1>3, AppendRange DEF Spawn, Requeued
  <2>2. retired_quantums' \in 0 .. QuantumCap
    BY <1>3, RetireType DEF Spawn
  <2>. QED  BY <1>3, <2>1, <2>2, QuantumCapAssumption DEF Spawn, Overtaken, Contexts
<1>4. ASSUME NEW t \in ClientIds, Terminate(t) PROVE TypeOK'
  <2>1. CASE RefusedMasked(t)
    BY <2>1 DEF RefusedMasked
  <2>2. CASE TerminateUndefined(t)
    BY <2>2 DEF TerminateUndefined, Undefined, Processes
  <2>3. ASSUME Terminable(t), LeavesQueues(t)
        PROVE  /\ t \in Tid \ {Main}
               /\ ready' \in Seq(Tid)
               /\ unused_ids' \subseteq Tid \ {Main}
    BY <2>3, ReadyWithoutType, ReleasedType, ConcatRange
       DEF Terminable, LeavesQueues
  <2>4. CASE TerminateSelf(t)
    BY <2>4, <2>3 DEF TerminateSelf, StillSynced, Overtaken, Contexts
  <2>5. CASE TerminateOther(t)
    <3>1. retired_quantums' \in 0 .. QuantumCap
      BY <2>5, <2>3, RetireType DEF TerminateOther
    <3>. QED  BY <2>5, <2>3, <3>1, QuantumCapAssumption
              DEF TerminateOther, StillSynced, Overtaken, Contexts
  <2>. QED  BY <1>4, <2>1, <2>2, <2>4, <2>5 DEF Terminate
<1>5. ASSUME NEW t \in ClientIds, Block(t) PROVE TypeOK'
  <2>1. CASE BlockInvalid(t) \/ BlockAgain(t)
    BY <2>1 DEF BlockInvalid, BlockAgain
  <2>2. CASE InUserCode /\ t \notin Tid /\ Undefined
    BY <2>2 DEF Undefined, Processes
  <2>3. CASE BlockSelf(t)
    BY <2>3 DEF BlockSelf, Blockable, Contexts
  <2>4. CASE BlockOther(t)
    BY <2>4, ReadyWithoutType DEF BlockOther, Blockable
  <2>. QED  BY <1>5, <2>1, <2>2, <2>3, <2>4 DEF Block
<1>6. ASSUME NEW t \in ClientIds, Resume(t) PROVE TypeOK'
  <2>1. CASE RefusedMasked(t) \/ ResumeNothing(t)
    BY <2>1 DEF RefusedMasked, ResumeNothing
  <2>2. CASE InUserCode /\ t \notin Tid /\ Undefined
    BY <2>2 DEF Undefined, Processes
  <2>3. CASE ResumeBlocked(t)
    BY <2>3, AppendRange DEF ResumeBlocked, Requeued
  <2>. QED  BY <1>6, <2>1, <2>2, <2>3 DEF Resume
<1>7. ASSUME NEW t \in ClientIds, Sync(t) PROVE TypeOK'
  <2>1. CASE SyncInvalid(t)
    BY <2>1 DEF SyncInvalid
  <2>2. CASE InUserCode /\ current_thread # Main /\ t \notin Tid /\ Undefined
    BY <2>2 DEF Undefined, Processes
  <2>3. CASE SyncWith(t)
    <3>1. Append(sync_dependencies[t], current_thread) \in Seq(Tid \ {Main})
      BY <2>3, AppendRange DEF SyncWith
    <3>. QED  BY <2>3, <3>1 DEF SyncWith, Contexts
  <2>. QED  BY <1>7, <2>1, <2>2, <2>3 DEF Sync
<1>8. ASSUME NEW t \in ClientIds, GetQuantums(t) PROVE TypeOK'
  BY <1>8 DEF GetQuantums, Undefined, Processes, Contexts
<1>9. CASE SwitchBlocked
  <2>1. "switching" \in Processes
    BY DEF Processes
  <2>2. /\ process' \in Processes /\ ready' \in Seq(Tid)
        /\ current_thread' \in Tid /\ quantums' \in [Tid -> 0 .. QuantumCap]
        /\ total_quantums' \in 0 .. QuantumCap
    BY <1>9, <2>1, DispatchType DEF SwitchBlocked
  <2>. QED  BY <1>9, <2>2 DEF SwitchBlocked, Contexts
<1>10. CASE SwitchTerminated
  <2>1. "switching" \in Processes
    BY DEF Processes
  <2>2. [quantums EXCEPT ![current_thread] = 0] \in [Tid -> 0 .. QuantumCap]
    BY QuantumCapAssumption
  <2>3. /\ process' \in Processes /\ ready' \in Seq(Tid)
        /\ current_thread' \in Tid /\ quantums' \in [Tid -> 0 .. QuantumCap]
        /\ total_quantums' \in 0 .. QuantumCap
    BY <1>10, <2>1, <2>2, DispatchType DEF SwitchTerminated
  <2>4. retired_quantums' \in 0 .. QuantumCap
    BY <1>10, RetireType DEF SwitchTerminated
  <2>5. /\ sync_dependencies' \in [Tid -> Seq(Tid \ {Main})]
        /\ context' \in [Tid -> Contexts]
        /\ unused_ids' = unused_ids /\ sigmask' = sigmask
    BY <1>10 DEF SwitchTerminated, Contexts
  <2>6. /\ allocated' \subseteq Tid
        /\ blocked_directly' \subseteq Tid \ {Main}
        /\ sync_blocked' \subseteq Tid \ {Main}
    BY <1>10 DEF SwitchTerminated
  <2>. QED  BY <2>3, <2>4, <2>5, <2>6
<1>11. CASE Longjmp
  BY <1>11 DEF Longjmp, Processes
<1>12. CASE Preempt \/ PreemptLate
  <2>1. "running" \in Processes
    BY DEF Processes
  <2>2. Requeued(current_thread) \in Seq(Tid)
    BY AppendRange DEF Requeued
  <2>3. /\ process' \in Processes /\ ready' \in Seq(Tid)
        /\ current_thread' \in Tid /\ quantums' \in [Tid -> 0 .. QuantumCap]
        /\ total_quantums' \in 0 .. QuantumCap
    BY <1>12, <2>1, <2>2, DispatchType DEF Preempt, PreemptLate
  <2>. QED  BY <1>12, <2>3 DEF Preempt, PreemptLate, Contexts
<1>13. CASE PreemptRaced \/ ResumeCorrupt \/ Halted \/ UNCHANGED vars
  BY <1>13 DEF PreemptRaced, ResumeCorrupt, Undefined, Halted, vars, Processes
<1>14. CASE QuantumsRead \/ QuantumsLost
  BY <1>14 DEF QuantumsRead, QuantumsLost, Undefined, Processes, Contexts
<1>. QED
  BY <1>1, <1>2, <1>3, <1>4, <1>5, <1>6, <1>7, <1>8, <1>9, <1>10, <1>11,
     <1>12, <1>13, <1>14 DEF Next, Call, Switch

(***************************************************************************)
(* Every variable keeps its type, whatever the program calls and wherever  *)
(* the timer expires.                                                      *)
(***************************************************************************)
THEOREM UThreadsTyped == Spec => []TypeOK
BY TypeInit, TypeStep, PTL DEF Spec

-----------------------------------------------------------------------------
(***************************************************************************)
(* The ids and the main thread, in every execution.  IdsInv is the         *)
(* inductive form of IdsAgree and MainNeverLost: it adds that nothing but  *)
(* the main thread exists until uthread_init returns, that only an ending  *)
(* thread is in its termination window, and that the main thread is never  *)
(* in a window.                                                            *)
(***************************************************************************)
Pristine(blocks) ==
  /\ unused_ids = Tid \ {Main}
  /\ allocated = blocks
  /\ current_thread = Main
  /\ ready = << >>
  /\ context = [t \in Tid |-> "user"]

EndingIsUnused == \A t \in Tid : context[t] = "term_switch" => t \in unused_ids
MainInNoWindow == context[Main] \notin {"block_switch", "term_switch"}

Initializing ==
  /\ process \in {"start", "armed"} => Pristine({})
  /\ process \in {"created", "counting"} => Pristine({Main})

IdsInv ==
  /\ Initializing
  /\ IdsAgree
  /\ MainNeverLost
  /\ EndingIsUnused
  /\ MainInNoWindow

\* What a switch leaves of the main thread and of the running thread.
LEMMA DispatchIds ==
  ASSUME TypeOK, NEW queue \in Seq(Tid), NEW live, NEW q, NEW next,
         Dispatch(queue, live, q, next),
         Main \in Range(queue)
  PROVE  \/ process' = "undefined" /\ current_thread' = current_thread
         \/ /\ process' = next
            /\ current_thread' \in live
            /\ current_thread' # Main => Main \in Range(ready')
<1>1. CASE queue = << >> \/ Head(queue) \notin live
  BY <1>1 DEF Dispatch
<1>2. CASE ~ (queue = << >> \/ Head(queue) \notin live)
  BY <1>2, HeadTailRange DEF Dispatch
<1>. QED  BY <1>1, <1>2

\* In uthread_init a signal finds nobody but the main thread to switch to.
LEMMA DispatchAlone ==
  ASSUME ready = << >>, NEW q, NEW next,
         Dispatch(Requeued(Main), {Main}, q, next)
  PROVE  /\ process' = next /\ current_thread' = Main /\ ready' = << >>
         /\ quantums' = StartQuantum(q, Main)
         /\ total_quantums' = Capped(total_quantums + 1)
<1>1. Requeued(Main) = <<Main>>
  BY DEF Requeued
<1>. QED  BY <1>1 DEF Dispatch

LEMMA IdsInit == Init => IdsInv
BY MainInTid
   DEF Init, IdsInv, Initializing, Pristine, IdsAgree, MainNeverLost,
       EndingIsUnused, MainInNoWindow, Alive

LEMMA IdsStep == TypeOK /\ IdsInv /\ [Next]_vars => IdsInv'
<1>. SUFFICES ASSUME TypeOK, IdsInv, [Next]_vars PROVE IdsInv'
  OBVIOUS
<1>. USE MainInTid
         DEF ids, flags, accounting, scheduling, IdsInv, Initializing,
             IdsAgree, MainNeverLost, EndingIsUnused, MainInNoWindow, Alive, InUserCode
\* A call that changes nothing but the mask, or ends the process.
<1>1. ASSUME UNCHANGED <<ids, scheduling, context>>,
             process' = process \/ process' = "undefined"
      PROVE  IdsInv'
  BY <1>1 DEF Pristine
<1>2. CASE Undefined
  BY <1>1, <1>2 DEF Undefined
<1>3. CASE Exit
  BY <1>3 DEF Exit
<1>4. CASE InitTimer
  BY <1>4 DEF InitTimer, Pristine
<1>5. CASE InitBlock \/ InitTotal \/ InitMain
  BY <1>5 DEF InitBlock, InitTotal, InitMain, Pristine
<1>5a. CASE PreemptInit
  <2>1. Pristine({Main}) /\ Dispatch(Requeued(Main), {Main}, quantums, process)
    BY <1>5a DEF PreemptInit, Pristine
  <2>2. process' = process /\ current_thread' = Main /\ ready' = << >>
    BY <2>1, DispatchAlone DEF Pristine
  <2>. QED  BY <1>5a, <2>1, <2>2 DEF PreemptInit, Pristine
<1>6. CASE SpawnFull
  BY <1>1, <1>6 DEF SpawnFull
<1>7. ASSUME NEW id \in Tid, Spawn(id) PROVE IdsInv'
  <2>1. Range(ready') = Range(ready) \cup {id}
    BY <1>7, AppendRange DEF Spawn, Requeued, TypeOK
  <2>2. id # Main
    BY <1>7 DEF Spawn, LeastUnused, TypeOK
  <2>. QED  BY <1>7, <2>1, <2>2 DEF Spawn, LeastUnused, Overtaken, TypeOK
<1>8. ASSUME NEW t \in ClientIds, RefusedMasked(t) PROVE IdsInv'
  BY <1>1, <1>8 DEF RefusedMasked
<1>9. ASSUME NEW t \in ClientIds, Terminable(t), LeavesQueues(t)
      PROVE  Range(ready') = (Range(ready) \ {t}) \cup Range(Released(t))
  <2>1. /\ ReadyWithout(t) \in Seq(Tid)
        /\ Range(ReadyWithout(t)) = Range(ready) \cap (Tid \ {t})
    BY KeepInProperties DEF ReadyWithout, TypeOK
  <2>2. Range(ready) \subseteq Tid
    BY ElementOfSeq, LenProperties DEF TypeOK, Range
  <2>3. Released(t) \in Seq(Tid)
    BY <1>9, ReleasedType DEF Terminable
  <2>4. Range(ready') = Range(ReadyWithout(t)) \cup Range(Released(t))
    BY <1>9, <2>1, <2>3, ConcatRange DEF LeavesQueues
  <2>. QED  BY <2>1, <2>2, <2>4
<1>10. ASSUME NEW t \in ClientIds, TerminateSelf(t) PROVE IdsInv'
  BY <1>9, <1>10
     DEF TerminateSelf, LeavesQueues, Terminable, Overtaken, TypeOK
<1>11. ASSUME NEW t \in ClientIds, TerminateOther(t) PROVE IdsInv'
  BY <1>9, <1>11
     DEF TerminateOther, LeavesQueues, Terminable, Overtaken, TypeOK
<1>12. ASSUME NEW t \in ClientIds, BlockInvalid(t) \/ BlockAgain(t)
       PROVE  IdsInv'
  BY <1>1, <1>12 DEF BlockInvalid, BlockAgain
<1>13. ASSUME NEW t \in ClientIds, BlockSelf(t) PROVE IdsInv'
  BY <1>13 DEF BlockSelf, Blockable, TypeOK
<1>14. ASSUME NEW t \in ClientIds, BlockOther(t) PROVE IdsInv'
  <2>1. Range(ReadyWithout(t)) = Range(ready) \cap (Tid \ {t})
    BY KeepInProperties DEF ReadyWithout, TypeOK
  <2>. QED  BY <1>14, <2>1 DEF BlockOther, Blockable, TypeOK
<1>15. ASSUME NEW t \in ClientIds, ResumeNothing(t) \/ SyncInvalid(t)
       PROVE  IdsInv'
  BY <1>1, <1>15 DEF ResumeNothing, SyncInvalid
<1>16. ASSUME NEW t \in ClientIds, ResumeBlocked(t) PROVE IdsInv'
  <2>1. Range(Requeued(t)) = Range(ready) \cup {t}
    BY <1>16, AppendRange DEF ResumeBlocked, Requeued, TypeOK
  <2>. QED  BY <1>16, <2>1 DEF ResumeBlocked
<1>17. ASSUME NEW t \in ClientIds, SyncWith(t) PROVE IdsInv'
  BY <1>17 DEF SyncWith, TypeOK
<1>17a. ASSUME NEW t \in ClientIds, GetQuantums(t), ~ Undefined
        PROVE  IdsInv'
  BY <1>17a DEF GetQuantums, TypeOK
<1>17b. CASE QuantumsRead
  BY <1>17b DEF QuantumsRead, TypeOK
<1>18. CASE SwitchBlocked
  <2>1. current_thread # Main /\ Main \in Range(ready)
    BY <1>18 DEF SwitchBlocked
  <2>2. \/ process' = "undefined" /\ current_thread' = current_thread
        \/ /\ process' = "switching"
           /\ current_thread' \in allocated
           /\ current_thread' # Main => Main \in Range(ready')
    BY <1>18, <2>1, DispatchIds DEF SwitchBlocked, TypeOK
  <2>3. EndingIsUnused' /\ MainInNoWindow'
    BY <1>18, <2>1 DEF SwitchBlocked, TypeOK
  <2>4. current_thread \notin allocated \cap unused_ids
    BY <1>18 DEF SwitchBlocked
  <2>5. Alive' => \A t \in allocated \cap unused_ids :
                    context'[t] \in {"term_switch", "corrupt"}
    BY <1>18, <2>4 DEF SwitchBlocked, TypeOK
  <2>. QED  BY <1>18, <2>2, <2>3, <2>5 DEF SwitchBlocked
<1>19. CASE SwitchTerminated
  <2>1. /\ current_thread # Main /\ Main \in Range(ready)
        /\ current_thread \in unused_ids
    BY <1>19 DEF SwitchTerminated, TypeOK
  <2>2. \/ process' = "undefined" /\ current_thread' = current_thread
        \/ /\ process' = "switching"
           /\ current_thread' \in allocated \ {current_thread}
           /\ current_thread' # Main => Main \in Range(ready')
    BY <1>19, <2>1, DispatchIds DEF SwitchTerminated, TypeOK
  <2>3. EndingIsUnused' /\ MainInNoWindow'
    BY <1>19, <2>1 DEF SwitchTerminated, TypeOK
  <2>4. Alive' => \A t \in allocated' \cap unused_ids' :
                    context'[t] \in {"term_switch", "corrupt"}
    BY <1>19 DEF SwitchTerminated, TypeOK
  <2>5. Alive' => Tid \ unused_ids' \subseteq allocated'
    BY <1>19, <2>1 DEF SwitchTerminated, TypeOK
  <2>6. allocated' = allocated \ {current_thread}
    BY <1>19 DEF SwitchTerminated
  <2>. QED  BY <2>2, <2>3, <2>4, <2>5, <2>6
<1>20. CASE Longjmp
  BY <1>20 DEF Longjmp
<1>21. ASSUME Alive
       PROVE  /\ Requeued(current_thread) \in Seq(Tid)
              /\ Main \in Range(Requeued(current_thread))
  BY <1>21, AppendRange DEF Requeued, TypeOK
<1>22. CASE Preempt
  <2>1. \/ process' = "undefined" /\ current_thread' = current_thread
        \/ /\ process' = "running"
           /\ current_thread' \in allocated
           /\ current_thread' # Main => Main \in Range(ready')
    BY <1>22, <1>21, DispatchIds DEF Preempt
  <2>. QED  BY <1>22, <2>1 DEF Preempt
<1>23. CASE PreemptLate
  <2>1. \/ process' = "undefined" /\ current_thread' = current_thread
        \/ /\ process' = "running"
           /\ current_thread' \in allocated
           /\ current_thread' # Main => Main \in Range(ready')
    BY <1>23, <1>21, DispatchIds DEF PreemptLate
  <2>2. EndingIsUnused' /\ MainInNoWindow'
    BY <1>23 DEF PreemptLate, TypeOK
  <2>3. Alive' => \A t \in allocated \cap unused_ids :
                    context'[t] \in {"term_switch", "corrupt"}
    BY <1>23 DEF PreemptLate, TypeOK
  <2>. QED  BY <1>23, <2>1, <2>2, <2>3 DEF PreemptLate
<1>24. CASE UNCHANGED vars
  BY <1>1, <1>24 DEF vars
<1>. QED
  BY <1>2, <1>3, <1>4, <1>5, <1>5a, <1>6, <1>7, <1>8, <1>10, <1>11, <1>12,
     <1>13, <1>14, <1>15, <1>16, <1>17, <1>17a, <1>17b, <1>18, <1>19, <1>20,
     <1>22, <1>23, <1>24
  DEF Next, Start, InitNoMemory, TimerBeforeMain, SpawnNoMemory,
      TerminateMain, Call, Terminate, TerminateUndefined, Block, Resume,
      Sync, QuantumsLost, Switch, PreemptRaced, ResumeCorrupt, Halted

(***************************************************************************)
(* The ready queue is never empty when a thread other than the main one    *)
(* runs: switch_threads always finds a next thread (line 206).             *)
(***************************************************************************)
THEOREM MainIsNeverLost == Spec => []MainNeverLost
<1>1. Init => TypeOK /\ IdsInv
  BY TypeInit, IdsInit
<1>2. TypeOK /\ IdsInv /\ [Next]_vars => (TypeOK /\ IdsInv)'
  BY TypeStep, IdsStep
<1>3. IdsInv => MainNeverLost
  BY DEF IdsInv
<1>. QED  BY <1>1, <1>2, <1>3, PTL DEF Spec

(***************************************************************************)
(* The pool of ids and the table of control blocks agree, and the running  *)
(* thread has a control block (line 210 of the switch reads it).           *)
(***************************************************************************)
THEOREM IdsAlwaysAgree == Spec => []IdsAgree
<1>1. Init => TypeOK /\ IdsInv
  BY TypeInit, IdsInit
<1>2. TypeOK /\ IdsInv /\ [Next]_vars => (TypeOK /\ IdsInv)'
  BY TypeStep, IdsStep
<1>3. IdsInv => IdsAgree
  BY DEF IdsInv
<1>. QED  BY <1>1, <1>2, <1>3, PTL DEF Spec

-----------------------------------------------------------------------------
(***************************************************************************)
(* The accounting of quantums, in every execution.  QuantumsInv is the     *)
(* inductive form of QuantumsAccounted: until uthread_init returns only the*)
(* main thread has started quantums, and just before it sets its counter to*)
(* one the total is one more than the retired quantums.  The counters are  *)
(* natural numbers up to QuantumCap; that they stop there does not disturb *)
(* the sum.                                                                *)
(***************************************************************************)
OnlyMainCounted ==
  /\ ready = << >>
  /\ \A t \in Tid \ {Main} : quantums[t] = 0

QuantumsInv ==
  /\ process \in {"start", "armed", "created"} =>
       OnlyMainCounted /\ retired_quantums = 0
  /\ process = "counting" =>
       OnlyMainCounted /\ total_quantums = Capped(retired_quantums + 1)
  /\ QuantumsAccounted

LEMMA TidFinite == IsFiniteSet(Tid)
<1>1. MaxThreadNum - 1 \in Int
  BY MaxThreadNumAssumption
<1>. QED  BY <1>1, FS_Interval DEF Tid

LEMMA CappedTwice ==
  \A a, b \in Nat : Capped(Capped(a) + b) = Capped(a + b)
BY QuantumCapAssumption DEF Capped

\* One counter of q changes from q[t] to v.
LEMMA CountersChange ==
  ASSUME NEW q \in [Tid -> 0 .. QuantumCap], NEW t \in Tid,
         NEW v \in 0 .. QuantumCap
  PROVE  /\ Total(q) \in Nat
         /\ Total([q EXCEPT ![t] = v]) \in Nat
         /\ Total([q EXCEPT ![t] = v]) + q[t] = Total(q) + v
<1>. DEFINE g == [q EXCEPT ![t] = v]
<1>1. /\ q \in [Tid -> Nat] /\ g \in [Tid -> Nat] /\ g[t] = v
      /\ \A x \in Tid \ {t} : g[x] = q[x]
  BY QuantumCapAssumption
<1>. HIDE DEF g
<1>2. /\ Total(q) \in Nat /\ Total(g) \in Nat
      /\ Total(g) + q[t] = Total(q) + g[t]
  BY <1>1, TidFinite, TotalChanges
<1>. QED  BY <1>1, <1>2 DEF g

\* A control block ends: what it counted moves to the retired quantums.
LEMMA RetireKeepsSum ==
  ASSUME TypeOK, NEW t \in Tid, Retire(t)
  PROVE  Capped(retired_quantums' + Total([quantums EXCEPT ![t] = 0]))
           = Capped(retired_quantums + Total(quantums))
<1>. DEFINE n == Total(quantums)
            m == Total([quantums EXCEPT ![t] = 0])
            a == retired_quantums
            b == quantums[t]
<1>1. 0 \in 0 .. QuantumCap
  BY QuantumCapAssumption
<1>2. n \in Nat /\ m \in Nat /\ m + b = n + 0
  BY <1>1, CountersChange DEF TypeOK
<1>3. a \in Nat /\ b \in Nat
  BY DEF TypeOK
<1>4. retired_quantums' = Capped(a + b)
  BY DEF Retire
<1>. HIDE DEF n, m, a, b
<1>5. Capped(Capped(a + b) + m) = Capped((a + b) + m)
  BY <1>2, <1>3, CappedTwice
<1>6. (a + b) + m = a + n
  BY <1>2, <1>3
<1>. QED  BY <1>4, <1>5, <1>6 DEF n, m, a

\* A switch starts one quantum, of the thread it makes current.
LEMMA DispatchKeepsSum ==
  ASSUME TypeOK, NEW queue \in Seq(Tid), NEW live,
         NEW q \in [Tid -> 0 .. QuantumCap], NEW next,
         NEW r \in Nat, total_quantums = Capped(r + Total(q)),
         Dispatch(queue, live, q, next)
  PROVE  \/ process' = "undefined"
         \/ total_quantums' = Capped(r + Total(quantums'))
<1>1. CASE queue = << >> \/ Head(queue) \notin live
  BY <1>1 DEF Dispatch
<1>2. CASE ~ (queue = << >> \/ Head(queue) \notin live)
  <2>. DEFINE t == Head(queue)
              v == Capped(q[t] + 1)
              n == Total(q)
              m == Total([q EXCEPT ![t] = v])
              b == q[t]
  <2>1. t \in Tid
    BY <1>2, HeadTailRange
  <2>2. b \in 0 .. QuantumCap /\ v \in 0 .. QuantumCap /\ v = Capped(b + 1)
    <3>1. b \in 0 .. QuantumCap
      BY <2>1
    <3>. HIDE DEF b
    <3>2. b + 1 \in Nat
      BY <3>1, QuantumCapAssumption
    <3>3. Capped(b + 1) \in 0 .. QuantumCap
      BY <3>2, CappedType
    <3>. QED  BY <3>1, <3>3 DEF b
  <2>3. n \in Nat /\ m \in Nat /\ m + b = n + v
    <3>. HIDE DEF v
    <3>. QED  BY <2>1, <2>2, CountersChange
  <2>4. quantums' = [q EXCEPT ![t] = v] /\ total_quantums' = Capped(total_quantums + 1)
    BY <1>2 DEF Dispatch, StartQuantum
  <2>5. total_quantums = Capped(r + n)
    OBVIOUS
  <2>6. Total(quantums') = m
    BY <2>4
  <2>7. n >= b
    <3>1. 0 \in 0 .. QuantumCap
      BY QuantumCapAssumption
    <3>. DEFINE z == Total([q EXCEPT ![t] = 0])
    <3>2. z \in Nat /\ z + b = n + 0
      BY <2>1, <3>1, CountersChange
    <3>. HIDE DEF z, n, b
    <3>. QED  BY <2>2, <2>3, <3>2
  <2>. HIDE DEF t, v, n, m, b
  <2>8. Capped(Capped(r + n) + 1) = Capped(r + m)
    BY <2>2, <2>3, <2>7, QuantumCapAssumption DEF Capped
  <2>. QED  BY <2>4, <2>5, <2>6, <2>8
<1>. QED  BY <1>1, <1>2

LEMMA QuantumsInit == Init => QuantumsInv
BY DEF Init, QuantumsInv, OnlyMainCounted, QuantumsAccounted, Alive

LEMMA QuantumsStep == TypeOK /\ QuantumsInv /\ [Next]_vars => QuantumsInv'
<1>. SUFFICES ASSUME TypeOK, QuantumsInv, [Next]_vars PROVE QuantumsInv'
  OBVIOUS
<1>. DEFINE SumHolds == total_quantums = Capped(retired_quantums + Total(quantums))
<1>0. QuantumsAccounted <=> (Alive => SumHolds)
  BY DEF QuantumsAccounted, Total
<1>0a. QuantumsAccounted' <=> (Alive' => SumHolds')
  BY DEF QuantumsAccounted, Total
<1>. USE DEF accounting
<1>1. ASSUME UNCHANGED accounting,
             \/ process' \in {"undefined", "exited"}
             \/ Alive /\ Alive'
             \/ /\ ready' = ready
                /\ \/ process' = process
                   \/ process = "start" /\ process' = "armed"
                   \/ process = "armed" /\ process' = "created"
      PROVE  QuantumsInv'
  BY <1>0, <1>0a, <1>1 DEF QuantumsInv, Alive, OnlyMainCounted
<1>2. ASSUME process' = "undefined" \/ (Alive' /\ SumHolds')
      PROVE  QuantumsInv'
  BY <1>0a, <1>2 DEF QuantumsInv, Alive
<1>3. CASE InitMain
  <2>. DEFINE none == [quantums EXCEPT ![Main] = 0]
              one  == [none EXCEPT ![Main] = 1]
  <2>1. /\ OnlyMainCounted /\ total_quantums = Capped(retired_quantums + 1)
        /\ 0 \in 0 .. QuantumCap /\ 1 \in 0 .. QuantumCap
    BY <1>3, QuantumCapAssumption DEF InitMain, QuantumsInv
  <2>2. /\ none \in [Tid -> 0 .. QuantumCap] /\ none[Main] = 0
        /\ \A t \in Tid : none[t] = 0
        /\ quantums' = one
    BY <1>3, <2>1, MainInTid DEF TypeOK, OnlyMainCounted, InitMain
  <2>3. Total(none) = 0
    <3>. HIDE DEF none
    <3>. QED  BY <2>2, TidFinite, TotalOfNothing
  <2>4. Total(one) = 1
    <3>. HIDE DEF none
    <3>1. Total(one) \in Nat /\ Total(one) + none[Main] = Total(none) + 1
      BY <2>1, <2>2, MainInTid, CountersChange
    <3>. HIDE DEF one
    <3>. QED  BY <2>2, <2>3, <3>1
  <2>. HIDE DEF none, one
  <2>5. SumHolds'
    BY <1>3, <2>1, <2>2, <2>4 DEF InitMain
  <2>. QED  BY <1>2, <1>3, <2>5 DEF InitMain, Alive
<1>3a. CASE InitTotal
  <2>1. retired_quantums = 0 /\ Capped(0 + 1) = 1
    BY <1>3a, QuantumCapAssumption DEF InitTotal, QuantumsInv, Capped
  <2>. QED  BY <1>3a, <2>1, <1>0a
            DEF InitTotal, QuantumsInv, OnlyMainCounted, Alive, scheduling
<1>3b. CASE PreemptInit
  <2>1. process \in {"created", "counting"} /\ OnlyMainCounted
    BY <1>3b DEF PreemptInit, QuantumsInv
  <2>2. \/ process' = "undefined"
        \/ /\ process' = process /\ ready' = << >>
           /\ quantums' = StartQuantum(quantums, Main)
           /\ total_quantums' = Capped(total_quantums + 1)
    <3>1. Requeued(Main) = <<Main>>
      BY <2>1 DEF Requeued, OnlyMainCounted
    <3>. QED  BY <1>3b, <3>1 DEF PreemptInit, Dispatch
  <2>3. CASE process' = "undefined"
    BY <1>2, <2>3
  <2>4. CASE process' # "undefined"
    <3>1. OnlyMainCounted'
      BY <2>1, <2>2, <2>4 DEF OnlyMainCounted, StartQuantum, TypeOK
    <3>2. process = "created" => retired_quantums' = 0
      BY <1>3b DEF PreemptInit, QuantumsInv
    <3>3. ASSUME process = "counting"
          PROVE  total_quantums' = Capped(retired_quantums' + 1)
      <4>1. /\ retired_quantums' = Capped(retired_quantums + 1)
            /\ total_quantums' = Capped(Capped(retired_quantums + 1) + 1)
        BY <1>3b, <2>2, <2>4, <3>3 DEF PreemptInit, QuantumsInv
      <4>. QED  BY <4>1
    <3>. QED  BY <2>1, <2>2, <2>4, <3>1, <3>2, <3>3, <1>0a
              DEF QuantumsInv, Alive
  <2>. QED  BY <2>3, <2>4
<1>4. ASSUME NEW t \in Tid, Alive, Alive',
             Retire(t), quantums' = [quantums EXCEPT ![t] = 0],
             total_quantums' = total_quantums
      PROVE  QuantumsInv'
  <2>1. SumHolds'
    BY <1>0, <1>4, RetireKeepsSum DEF QuantumsInv
  <2>. QED  BY <1>2, <1>4, <2>1
<1>5. ASSUME NEW id \in Tid, Spawn(id) PROVE QuantumsInv'
  BY <1>4, <1>5 DEF Spawn, InUserCode, Alive
<1>6. ASSUME NEW t \in ClientIds, TerminateOther(t) PROVE QuantumsInv'
  BY <1>4, <1>6 DEF TerminateOther, Terminable, InUserCode, Alive
<1>7. CASE SwitchBlocked
  <2>1. Dispatch(ready, allocated, quantums, "switching") /\ SumHolds
        /\ retired_quantums' = retired_quantums
    BY <1>0, <1>7 DEF SwitchBlocked, QuantumsInv, Alive
  <2>2. process' = "undefined" \/ SumHolds'
    BY <2>1, DispatchKeepsSum DEF TypeOK
  <2>3. process' \in {"undefined", "switching"}
    BY <2>1 DEF Dispatch
  <2>. QED  BY <1>2, <2>2, <2>3 DEF Alive
<1>8. CASE Preempt \/ PreemptLate
  <2>1. Requeued(current_thread) \in Seq(Tid)
    BY AppendRange DEF Requeued, TypeOK
  <2>2. Dispatch(Requeued(current_thread), allocated, quantums, "running")
        /\ SumHolds /\ retired_quantums' = retired_quantums
    BY <1>0, <1>8 DEF Preempt, PreemptLate, QuantumsInv, Alive
  <2>3. process' = "undefined" \/ SumHolds'
    BY <2>1, <2>2, DispatchKeepsSum DEF TypeOK
  <2>4. process' \in {"undefined", "running"}
    BY <2>2 DEF Dispatch
  <2>. QED  BY <1>2, <2>3, <2>4 DEF Alive
<1>9. CASE SwitchTerminated
  <2>. DEFINE q == [quantums EXCEPT ![current_thread] = 0]
              r == retired_quantums'
  <2>1. /\ Dispatch(ready, allocated \ {current_thread}, q, "switching")
        /\ SumHolds /\ Retire(current_thread) /\ current_thread \in Tid
    BY <1>0, <1>9 DEF SwitchTerminated, QuantumsInv, Alive, TypeOK
  <2>2. q \in [Tid -> 0 .. QuantumCap] /\ r \in Nat
    BY <2>1, QuantumCapAssumption, RetireType DEF TypeOK
  <2>3. total_quantums = Capped(r + Total(q))
    BY <2>1, RetireKeepsSum
  <2>4. process' \in {"undefined", "switching"}
    BY <2>1 DEF Dispatch
  <2>. HIDE DEF q, r
  <2>5. process' = "undefined" \/ total_quantums' = Capped(r + Total(quantums'))
    BY <2>1, <2>2, <2>3, DispatchKeepsSum DEF TypeOK
  <2>. QED  BY <1>2, <2>4, <2>5 DEF Alive, r
<1>10. ASSUME UNCHANGED <<accounting, scheduling>>, process' = process
       PROVE  QuantumsInv'
  BY <1>1, <1>10 DEF scheduling
<1>. QED
  BY <1>1, <1>3, <1>3a, <1>3b, <1>5, <1>6, <1>7, <1>8, <1>9, <1>10
  DEF Next, Start, InitTimer, InitBlock, scheduling, InitNoMemory, TimerBeforeMain,
      Undefined, Exit, SpawnFull, SpawnNoMemory, TerminateMain, Call,
      Terminate, RefusedMasked, TerminateUndefined, TerminateSelf, Block,
      BlockInvalid, BlockSelf, BlockOther, BlockAgain, Resume, ResumeNothing,
      ResumeBlocked, Sync, SyncInvalid, SyncWith, GetQuantums,
      QuantumsRead, QuantumsLost, InUserCode, Blockable, Terminable, Switch,
      Longjmp, PreemptRaced, ResumeCorrupt, Halted, Alive, vars

(***************************************************************************)
(* uthread_get_total_quantums is the sum of the quantums of all threads,   *)
(* the ended ones included, whatever the program calls and wherever the    *)
(* timer expires; what uthread_init counts twice when a signal interrupts  *)
(* it between lines 271 and 272 is among the retired quantums.             *)
(***************************************************************************)
THEOREM QuantumsAddUp == Spec => []QuantumsAccounted
<1>1. QuantumsInv => QuantumsAccounted
  BY DEF QuantumsInv
<1>. QED  BY <1>1, QuantumsInit, QuantumsStep, TypeInit, TypeStep, PTL DEF Spec

-----------------------------------------------------------------------------
(***************************************************************************)
(* The scheduler under a disciplined program.  SchedInv is the inductive   *)
(* form of the properties: next to them it says that every thread but the  *)
(* running one continues in its own code, and what the running one is      *)
(* while it is in a window.                                                *)
(***************************************************************************)
OthersInUserCode == \A t \in Tid \ {current_thread} : context[t] = "user"

RunningFitsContext ==
  LET at == context[current_thread] IN
  /\ at \in {"user", "block_switch", "term_switch"}
  /\ process = "switching" => at = "user"
  /\ at = "user"         => current_thread \in Runnable
  /\ at = "block_switch" => current_thread \in Live \ Runnable

NobodyBlocked == /\ blocked_directly = {} /\ sync_blocked = {}
                 /\ ready = << >>
                 /\ sync_dependencies = [t \in Tid |-> << >>]

SchedInv ==
  /\ NoUndefinedBehaviour
  /\ process \in {"start", "armed", "created", "counting"} => NobodyBlocked
  /\ ReadyIffRunnable
  /\ SyncExact
  /\ Alive => OthersInUserCode /\ RunningFitsContext /\ sync_blocked \subseteq Live

LEMMA EmptyInjective == IsInjective(<< >>) /\ Range(<< >>) = {}
BY DEF IsInjective, Range

LEMMA SchedInit == Init => SchedInv
BY DEF Init, SchedInv, NoUndefinedBehaviour, NobodyBlocked,
       ReadyIffRunnable, SyncExact, Alive

\* In its own code, a program sees no ending thread: the ids in use are Live.
LEMMA NobodyEnding ==
  ASSUME TypeOK, IdsInv, SchedInv, InUserCode
  PROVE  /\ Live = Tid \ unused_ids /\ Live = allocated
         /\ current_thread \in Live
         /\ current_thread \notin blocked_directly \cup sync_blocked
<1>1. \A t \in Tid : context[t] = "user"
  BY DEF SchedInv, OthersInUserCode, InUserCode, Alive
<1>2. allocated \cap unused_ids = {}
  BY <1>1 DEF IdsInv, IdsAgree, InUserCode, Alive, TypeOK
<1>. QED
  BY <1>2 DEF IdsInv, IdsAgree, SchedInv, RunningFitsContext, InUserCode,
              Alive, TypeOK, Live, Runnable

\* Nor one in the middle of uthread_get_quantums.
LEMMA NobodyAsking ==
  ASSUME TypeOK, SchedInv, InUserCode
  PROVE  Overtaken = context
<1>1. \A t \in Tid : context[t] = "user"
  BY DEF SchedInv, OthersInUserCode, InUserCode, Alive
<1>. QED  BY <1>1 DEF Overtaken, TypeOK

\* The sync dependants of a living thread are alive and not ready.
LEMMA WaitersAreSynced ==
  ASSUME SchedInv, Alive, NEW t \in Live
  PROVE  /\ Waiters(t) \subseteq sync_blocked
         /\ Waiters(t) \subseteq Live
         /\ Waiters(t) \cap Range(ready) = {}
BY DEF SchedInv, SyncExact, ReadyIffRunnable, Runnable

\* `ready' after t has left it and its dependants have been released.
LEMMA ReadyAfterEnd ==
  ASSUME TypeOK, SchedInv, Alive, NEW t \in Live, LeavesQueues(t)
  PROVE  /\ IsInjective(ready')
         /\ Range(ready') = (Range(ready) \ {t}) \cup (Waiters(t) \ blocked_directly)
<1>1. t \in Tid
  BY DEF Live, TypeOK
<1>2. /\ ReadyWithout(t) \in Seq(Tid)
      /\ Range(ReadyWithout(t)) = Range(ready) \cap (Tid \ {t})
      /\ IsInjective(ReadyWithout(t))
  BY KeepInProperties DEF ReadyWithout, TypeOK, SchedInv, ReadyIffRunnable
<1>3. Range(ready) \subseteq Tid /\ Waiters(t) \subseteq Tid
  <2>1. ready \in Seq(Tid)
    BY DEF TypeOK
  <2>2. Range(ready) \subseteq Tid
    BY <2>1, ElementOfSeq, LenProperties DEF Range
  <2>. QED  BY <1>1, <2>2, DependantsType DEF Waiters
<1>4. /\ Released(t) \in Seq(Tid)
      /\ Range(Released(t)) = Waiters(t) \cap (Tid \ blocked_directly)
      /\ IsInjective(Released(t))
  BY <1>1, DependantsType, KeepInProperties
     DEF Released, Waiters, SchedInv, SyncExact
<1>5. Range(ReadyWithout(t)) \cap Range(Released(t)) = {}
  BY <1>2, <1>4, WaitersAreSynced
<1>. QED  BY <1>2, <1>3, <1>4, <1>5, ConcatRange DEF LeavesQueues

\* A switch away from a thread that is not to be ready, or has been queued.
LEMMA DispatchSched ==
  ASSUME NEW queue \in Seq(Tid), NEW live, NEW q, NEW next,
         Dispatch(queue, live, q, next),
         IsInjective(queue), Main \in Range(queue), Range(queue) \subseteq live
  PROVE  /\ process' = next
         /\ current_thread' \in Range(queue)
         /\ IsInjective(ready')
         /\ Range(ready') = Range(queue) \ {current_thread'}
<1>1. queue # << >>
  BY EmptyInjective
<1>2. /\ Head(queue) \in Range(queue)
      /\ Range(queue) = {Head(queue)} \cup Range(Tail(queue))
      /\ IsInjective(Tail(queue)) /\ Head(queue) \notin Range(Tail(queue))
  BY <1>1, HeadTailRange
<1>. QED  BY <1>1, <1>2 DEF Dispatch

\* The sync relation when nothing in it changes but that `gone' ends.
LEMMA SyncAfterEnd ==
  ASSUME SchedInv, Alive, NEW t \in Live, t \notin sync_blocked,
         Live' = Live \ {t},
         sync_blocked' = sync_blocked \ Waiters(t),
         \A u \in Live' : sync_dependencies'[u] = sync_dependencies[u]
  PROVE  SyncExact' /\ sync_blocked' \subseteq Live'
<1>1. \A u \in Live' : Waiters(u)' = Waiters(u)
  BY DEF Waiters
<1>2. \A u \in Live' : Waiters(u) \cap Waiters(t) = {}
  BY DEF SchedInv, SyncExact
<1>3. sync_blocked' = UNION {Waiters(u) : u \in Live'}
  BY <1>2, WaitersAreSynced DEF SchedInv, SyncExact
<1>4. \A u \in Live' : IsInjective(sync_dependencies'[u])
  BY DEF SchedInv, SyncExact
<1>5. \A u, v \in Live' : u # v => Waiters(u) \cap Waiters(v) = {}
  BY DEF SchedInv, SyncExact
<1>. QED  BY <1>1, <1>3, <1>4, <1>5 DEF SyncExact, SchedInv

\* The sync relation when neither the flags nor the living threads' lists change.
LEMMA SyncUnchanged ==
  ASSUME SchedInv, Alive, Live' = Live, sync_blocked' = sync_blocked,
         \A u \in Live : sync_dependencies'[u] = sync_dependencies[u]
  PROVE  SyncExact' /\ sync_blocked' \subseteq Live'
<1>1. \A u \in Live : Waiters(u)' = Waiters(u)
  BY DEF Waiters
<1>. QED  BY <1>1 DEF SyncExact, SchedInv

LEMMA SchedStep ==
  ASSUME Disciplined, TypeOK, IdsInv, SchedInv, [Next]_vars
  PROVE  SchedInv'
<1>. USE MainInTid DEF ids, flags, accounting, scheduling
\* A call that changes at most the mask.
<1>1. ASSUME process' = process, UNCHANGED <<ids, flags, scheduling, context>>
      PROVE  SchedInv'
  <2>1. Alive' = Alive /\ Live' = Live /\ Runnable' = Runnable
    BY <1>1 DEF Alive, Live, Runnable
  <2>2. (OthersInUserCode /\ RunningFitsContext)' =
          (OthersInUserCode /\ RunningFitsContext)
    BY <1>1, <2>1 DEF OthersInUserCode, RunningFitsContext
  <2>3. ReadyIffRunnable'
    BY <1>1, <2>1 DEF SchedInv, ReadyIffRunnable
  <2>4. SyncExact'
    BY <1>1, <2>1 DEF SchedInv, SyncExact, Waiters
  <2>. QED  BY <1>1, <2>1, <2>2, <2>3, <2>4
            DEF SchedInv, NoUndefinedBehaviour, NobodyBlocked
<1>2. CASE Exit
  BY <1>2 DEF Exit, SchedInv, NoUndefinedBehaviour, ReadyIffRunnable,
     SyncExact, Alive
<1>3. CASE InitTimer \/ InitBlock \/ InitTotal
  <2>1. /\ ~ Alive' /\ process' # "undefined" /\ NobodyBlocked
    BY <1>3 DEF InitTimer, InitBlock, InitTotal, SchedInv, Alive
  <2>2. NobodyBlocked'
    BY <1>3, <2>1 DEF InitTimer, InitBlock, InitTotal, NobodyBlocked
  <2>. QED  BY <2>1, <2>2
            DEF SchedInv, NoUndefinedBehaviour, ReadyIffRunnable, SyncExact
<1>4. CASE InitMain
  <2>1. /\ process' = "running" /\ current_thread' = Main
        /\ Live' = {Main} /\ Runnable' = {Main} /\ ready' = << >>
        /\ sync_blocked' = {} /\ context' = [t \in Tid |-> "user"]
        /\ sync_dependencies' = [t \in Tid |-> << >>]
    BY <1>4 DEF InitMain, SchedInv, IdsInv, Initializing, Pristine,
                NobodyBlocked, Live, Runnable
  <2>2. Waiters(Main)' = {}
    BY <2>1, EmptyInjective DEF Waiters
  <2>3. SyncExact'
    BY <2>1, <2>2, EmptyInjective DEF SyncExact
  <2>. QED  BY <2>1, <2>3, EmptyInjective
            DEF SchedInv, NoUndefinedBehaviour, ReadyIffRunnable,
                OthersInUserCode, RunningFitsContext
<1>5. CASE SpawnFull
  BY <1>1, <1>5 DEF SpawnFull
<1>6. ASSUME NEW id \in Tid, Spawn(id) PROVE SchedInv'
  <2>1. InUserCode /\ Alive
    BY <1>6 DEF Spawn, InUserCode, Alive
  <2>2. /\ id \in unused_ids /\ id \notin Live /\ id # current_thread
        /\ id \notin sync_blocked
    BY <1>6, <2>1, NobodyEnding DEF Spawn, LeastUnused, SchedInv
  <2>3. /\ process' = process /\ current_thread' = current_thread
        /\ context' = [context EXCEPT ![id] = "user"]
        /\ Live' = Live \cup {id}
        /\ Runnable' = Runnable \cup {id}
        /\ sync_blocked' = sync_blocked
    BY <1>6, <2>1, <2>2, NobodyAsking DEF Spawn, Live, Runnable
  <2>4. /\ Waiters(id)' = {} /\ IsInjective(sync_dependencies'[id])
        /\ \A u \in Live : /\ Waiters(u)' = Waiters(u)
                           /\ sync_dependencies'[u] = sync_dependencies[u]
    BY <1>6, <2>2, EmptyInjective DEF Spawn, Waiters, TypeOK
  <2>5. SyncExact' /\ sync_blocked' \subseteq Live'
    BY <2>1, <2>3, <2>4 DEF SchedInv, SyncExact
  <2>6. IsInjective(ready') /\ Range(ready') = Range(ready) \cup {id}
    <3>1. id \notin Range(ready)
      BY <2>1, <2>2 DEF SchedInv, ReadyIffRunnable, Runnable
    <3>. QED  BY <1>6, <2>1, <3>1, AppendRange
              DEF Spawn, Requeued, TypeOK, SchedInv, ReadyIffRunnable
  <2>7. ReadyIffRunnable'
    BY <2>1, <2>2, <2>3, <2>6 DEF SchedInv, ReadyIffRunnable
  <2>8. OthersInUserCode' /\ RunningFitsContext'
    BY <2>1, <2>2, <2>3
       DEF SchedInv, OthersInUserCode, RunningFitsContext, TypeOK, Alive,
           InUserCode
  <2>. QED  BY <2>1, <2>3, <2>5, <2>7, <2>8
            DEF SchedInv, NoUndefinedBehaviour, Alive
\* What both ways to terminate a thread share.
<1>7. ASSUME NEW t \in ClientIds, Terminable(t)
      PROVE  /\ InUserCode /\ Alive
             /\ t \in Live /\ t # Main /\ t \notin sync_blocked
             /\ Waiters(t) \subseteq allocated
  <2>1. InUserCode /\ Alive
    BY <1>7 DEF Terminable, InUserCode, Alive
  <2>2. t \in Live /\ t # Main /\ t \notin sync_blocked
    BY <1>7, <2>1, NobodyEnding DEF Terminable, IsUsed, Disciplined
  <2>3. Waiters(t) \subseteq Live
    BY <2>1, <2>2, WaitersAreSynced
  <2>. QED  BY <2>1, <2>2, <2>3 DEF Live
<1>8. ASSUME NEW t \in ClientIds PROVE ~ TerminateUndefined(t)
  BY <1>7 DEF TerminateUndefined, Disciplined, Waiters
<1>9. ASSUME NEW t \in ClientIds, TerminateSelf(t) PROVE SchedInv'
  <2>1. /\ InUserCode /\ Alive /\ t \in Live /\ t # Main
        /\ t \notin sync_blocked /\ t = current_thread
    BY <1>7, <1>9 DEF TerminateSelf
  <2>2. /\ IsInjective(ready')
        /\ Range(ready') = (Range(ready) \ {t}) \cup (Waiters(t) \ blocked_directly)
    BY <1>9, <2>1, ReadyAfterEnd DEF TerminateSelf
  <2>3. /\ process' = process /\ current_thread' = current_thread
        /\ context' = [context EXCEPT ![t] = "term_switch"]
        /\ blocked_directly' = blocked_directly
        /\ sync_blocked' = sync_blocked \ Waiters(t)
        /\ sync_dependencies' = sync_dependencies
        /\ Live' = Live \ {t}
    BY <1>9, <2>1, NobodyAsking
       DEF TerminateSelf, LeavesQueues, StillSynced, Waiters, Live
  <2>4. SyncExact' /\ sync_blocked' \subseteq Live'
    BY <2>1, <2>3, SyncAfterEnd
  <2>5. Runnable' = (Runnable \ {t}) \cup (Waiters(t) \ blocked_directly)
    BY <2>1, <2>3, WaitersAreSynced DEF Runnable
  <2>6. ReadyIffRunnable'
    BY <2>1, <2>2, <2>3, <2>5, WaitersAreSynced
       DEF SchedInv, ReadyIffRunnable
  <2>7. OthersInUserCode' /\ RunningFitsContext'
    BY <2>1, <2>3
       DEF SchedInv, OthersInUserCode, RunningFitsContext, TypeOK, Alive,
           InUserCode
  <2>. QED  BY <2>1, <2>3, <2>4, <2>6, <2>7
            DEF SchedInv, NoUndefinedBehaviour, Alive
<1>10. ASSUME NEW t \in ClientIds, TerminateOther(t) PROVE SchedInv'
  <2>1. /\ InUserCode /\ Alive /\ t \in Live /\ t # Main
        /\ t \notin sync_blocked /\ t # current_thread
    BY <1>7, <1>10 DEF TerminateOther
  <2>2. /\ IsInjective(ready')
        /\ Range(ready') = (Range(ready) \ {t}) \cup (Waiters(t) \ blocked_directly)
    BY <1>10, <2>1, ReadyAfterEnd DEF TerminateOther
  <2>3. /\ process' = process /\ current_thread' = current_thread
        /\ context' = [context EXCEPT ![t] = "user"]
        /\ blocked_directly' = blocked_directly \ {t}
        /\ sync_blocked' = sync_blocked \ Waiters(t)
        /\ sync_dependencies' = [sync_dependencies EXCEPT ![t] = << >>]
        /\ Live' = Live \ {t}
    BY <1>10, <2>1, NobodyAsking
       DEF TerminateOther, LeavesQueues, StillSynced, Waiters, Live
  <2>4. SyncExact' /\ sync_blocked' \subseteq Live'
    <3>1. \A u \in Live' : sync_dependencies'[u] = sync_dependencies[u]
      BY <2>3 DEF TypeOK, Live
    <3>. QED  BY <2>1, <2>3, <3>1, SyncAfterEnd
  <2>5. Runnable' = (Runnable \ {t}) \cup (Waiters(t) \ blocked_directly)
    BY <2>1, <2>3, WaitersAreSynced DEF Runnable
  <2>6. current_thread \notin Waiters(t) /\ current_thread \in Runnable
    BY <2>1, NobodyEnding, WaitersAreSynced DEF Runnable
  <2>7. ReadyIffRunnable'
    BY <2>1, <2>2, <2>3, <2>5, <2>6, WaitersAreSynced
       DEF SchedInv, ReadyIffRunnable
  <2>8. OthersInUserCode' /\ RunningFitsContext'
    BY <2>1, <2>3, <2>5, <2>6
       DEF SchedInv, OthersInUserCode, RunningFitsContext, TypeOK, Alive,
           InUserCode
  <2>. QED  BY <2>1, <2>3, <2>4, <2>7, <2>8
            DEF SchedInv, NoUndefinedBehaviour, Alive
<1>11. ASSUME NEW t \in ClientIds,
              \/ RefusedMasked(t) \/ BlockInvalid(t) \/ BlockAgain(t)
              \/ ResumeNothing(t) \/ SyncInvalid(t)
       PROVE  SchedInv'
  BY <1>1, <1>11
     DEF RefusedMasked, BlockInvalid, BlockAgain, ResumeNothing, SyncInvalid
<1>12. ASSUME NEW t \in ClientIds, BlockSelf(t) PROVE SchedInv'
  <2>1. InUserCode /\ Alive /\ t = current_thread /\ t \in Live
    BY <1>12, NobodyEnding DEF BlockSelf, Blockable, InUserCode, Alive
  <2>2. /\ process' = process /\ current_thread' = current_thread
        /\ context' = [context EXCEPT ![t] = "block_switch"]
        /\ sync_blocked' = sync_blocked /\ ready' = ready
        /\ sync_dependencies' = sync_dependencies
        /\ Live' = Live /\ Runnable' = Runnable \ {t}
    BY <1>12 DEF BlockSelf, Live, Runnable
  <2>3. SyncExact' /\ sync_blocked' \subseteq Live'
    BY <2>1, <2>2, SyncUnchanged
  <2>4. ReadyIffRunnable'
    BY <2>1, <2>2 DEF SchedInv, ReadyIffRunnable
  <2>5. OthersInUserCode' /\ RunningFitsContext'
    BY <2>1, <2>2
       DEF SchedInv, OthersInUserCode, RunningFitsContext, TypeOK, Alive,
           InUserCode
  <2>. QED  BY <2>1, <2>2, <2>3, <2>4, <2>5
            DEF SchedInv, NoUndefinedBehaviour, Alive
<1>13. ASSUME NEW t \in ClientIds, BlockOther(t) PROVE SchedInv'
  <2>1. /\ InUserCode /\ Alive /\ t # current_thread
        /\ current_thread \in Runnable
    BY <1>13, NobodyEnding
       DEF BlockOther, Blockable, InUserCode, Alive, Runnable
  <2>2. /\ process' = process /\ current_thread' = current_thread
        /\ context' = context /\ ready' = ReadyWithout(t)
        /\ sync_blocked' = sync_blocked
        /\ sync_dependencies' = sync_dependencies
        /\ Live' = Live /\ Runnable' = Runnable \ {t}
    BY <1>13 DEF BlockOther, Live, Runnable
  <2>3. SyncExact' /\ sync_blocked' \subseteq Live'
    BY <2>1, <2>2, SyncUnchanged
  <2>4. /\ IsInjective(ready')
        /\ Range(ready') = Range(ready) \cap (Tid \ {t})
    BY <2>1, <2>2, KeepInProperties
       DEF ReadyWithout, TypeOK, SchedInv, ReadyIffRunnable
  <2>5. Runnable \subseteq Tid
    BY DEF Runnable, Live, TypeOK
  <2>6. ReadyIffRunnable'
    BY <2>1, <2>2, <2>4, <2>5 DEF SchedInv, ReadyIffRunnable
  <2>7. OthersInUserCode' /\ RunningFitsContext'
    BY <2>1, <2>2
       DEF SchedInv, OthersInUserCode, RunningFitsContext, TypeOK, Alive,
           InUserCode
  <2>. QED  BY <2>1, <2>2, <2>3, <2>6, <2>7
            DEF SchedInv, NoUndefinedBehaviour, Alive
<1>14. ASSUME NEW t \in ClientIds, ResumeBlocked(t) PROVE SchedInv'
  <2>1. /\ InUserCode /\ Alive /\ t # current_thread /\ t \in Live
        /\ t \in blocked_directly /\ current_thread \in Runnable
    BY <1>14, NobodyEnding
       DEF ResumeBlocked, IsUsed, InUserCode, Alive, Runnable
  <2>2. /\ process' = process /\ current_thread' = current_thread
        /\ context' = context
        /\ ready' = IF t \in sync_blocked THEN ready ELSE Requeued(t)
        /\ sync_blocked' = sync_blocked
        /\ sync_dependencies' = sync_dependencies
        /\ Live' = Live
        /\ Runnable' = IF t \in sync_blocked THEN Runnable
                                             ELSE Runnable \cup {t}
    BY <1>14, <2>1 DEF ResumeBlocked, Live, Runnable
  <2>3. SyncExact' /\ sync_blocked' \subseteq Live'
    BY <2>1, <2>2, SyncUnchanged
  <2>4. t \notin Range(ready)
    BY <2>1 DEF SchedInv, ReadyIffRunnable, Runnable
  <2>5. IsInjective(Requeued(t)) /\ Range(Requeued(t)) = Range(ready) \cup {t}
    BY <1>14, <2>1, <2>4, AppendRange
       DEF ResumeBlocked, Requeued, TypeOK, SchedInv, ReadyIffRunnable
  <2>6. ReadyIffRunnable'
    BY <2>1, <2>2, <2>5 DEF SchedInv, ReadyIffRunnable
  <2>7. OthersInUserCode' /\ RunningFitsContext'
    BY <2>1, <2>2
       DEF SchedInv, OthersInUserCode, RunningFitsContext, TypeOK, Alive,
           InUserCode
  <2>. QED  BY <2>1, <2>2, <2>3, <2>6, <2>7
            DEF SchedInv, NoUndefinedBehaviour, Alive
<1>15. ASSUME NEW t \in ClientIds, SyncWith(t) PROVE SchedInv'
  <2>1. /\ InUserCode /\ Alive /\ t \in Live /\ current_thread \in Live
        /\ current_thread \notin sync_blocked /\ t # current_thread
    BY <1>15, NobodyEnding DEF SyncWith, IsUsed, InUserCode, Alive
  <2>2. /\ process' = process /\ current_thread' = current_thread
        /\ context' = [context EXCEPT ![current_thread] = "block_switch"]
        /\ ready' = ready
        /\ sync_blocked' = sync_blocked \cup {current_thread}
        /\ Live' = Live /\ Runnable' = Runnable \ {current_thread}
    BY <1>15 DEF SyncWith, Live, Runnable
  <2>3. \A u \in Live : current_thread \notin Waiters(u)
    BY <2>1, WaitersAreSynced
  <2>4. /\ IsInjective(sync_dependencies'[t])
        /\ Waiters(t)' = Waiters(t) \cup {current_thread}
    <3>1. sync_dependencies[t] \in Seq(Tid) /\ current_thread \in Tid
      BY <1>15, DependantsType DEF SyncWith, TypeOK
    <3>2. sync_dependencies'[t] = Append(sync_dependencies[t], current_thread)
      BY <1>15 DEF SyncWith, TypeOK
    <3>3. IsInjective(sync_dependencies[t])
      BY <2>1 DEF SchedInv, SyncExact
    <3>. QED  BY <2>1, <2>3, <3>1, <3>2, <3>3, AppendRange DEF Waiters
  <2>5. \A u \in Live \ {t} : /\ sync_dependencies'[u] = sync_dependencies[u]
                              /\ Waiters(u)' = Waiters(u)
    BY <1>15 DEF SyncWith, Waiters, TypeOK, Live
  <2>6. SyncExact' /\ sync_blocked' \subseteq Live'
    BY <2>1, <2>2, <2>3, <2>4, <2>5 DEF SchedInv, SyncExact
  <2>7. ReadyIffRunnable'
    BY <2>1, <2>2 DEF SchedInv, ReadyIffRunnable
  <2>8. OthersInUserCode' /\ RunningFitsContext'
    <3>1. current_thread \in Live' \ Runnable'
      BY <2>1, <2>2
    <3>. QED  BY <2>1, <2>2, <3>1
              DEF SchedInv, OthersInUserCode, RunningFitsContext, TypeOK,
                  Alive, InUserCode
  <2>. QED  BY <2>1, <2>2, <2>6, <2>7, <2>8
            DEF SchedInv, NoUndefinedBehaviour, Alive
<1>16. CASE SwitchBlocked
  <2>1. /\ Alive /\ current_thread # Main /\ Main \in Range(ready)
        /\ current_thread \in Live \ Runnable
    BY <1>16 DEF SwitchBlocked, Alive, IdsInv, MainInNoWindow, MainNeverLost,
                 SchedInv, RunningFitsContext
  <2>2. Range(ready) = Runnable /\ Runnable \subseteq allocated
    BY <2>1 DEF SchedInv, ReadyIffRunnable, Runnable, Live
  <2>3. /\ process' = "switching" /\ current_thread' \in Runnable
        /\ IsInjective(ready') /\ Range(ready') = Runnable \ {current_thread'}
    BY <1>16, <2>1, <2>2, DispatchSched
       DEF SwitchBlocked, TypeOK, SchedInv, ReadyIffRunnable
  <2>4. /\ context' = [context EXCEPT ![current_thread] = "user"]
        /\ sync_blocked' = sync_blocked
        /\ sync_dependencies' = sync_dependencies
        /\ Live' = Live /\ Runnable' = Runnable
    BY <1>16 DEF SwitchBlocked, Live, Runnable
  <2>5. SyncExact' /\ sync_blocked' \subseteq Live'
    BY <2>1, <2>4, SyncUnchanged
  <2>6. \A t \in Tid : context'[t] = "user"
    BY <2>1, <2>4 DEF SchedInv, OthersInUserCode, TypeOK
  <2>7. current_thread' \in Tid
    BY <2>3 DEF Runnable, Live, TypeOK
  <2>. QED  BY <2>3, <2>4, <2>5, <2>6, <2>7
            DEF SchedInv, NoUndefinedBehaviour, Alive, ReadyIffRunnable,
                OthersInUserCode, RunningFitsContext
<1>17. CASE SwitchTerminated
  <2>1. /\ Alive /\ current_thread # Main /\ Main \in Range(ready)
        /\ current_thread \in unused_ids /\ current_thread \notin Live
    BY <1>17 DEF SwitchTerminated, Alive, IdsInv, MainInNoWindow,
                 MainNeverLost, EndingIsUnused, TypeOK, Live
  <2>2. /\ Range(ready) = Runnable
        /\ Runnable \subseteq allocated \ {current_thread}
    BY <2>1 DEF SchedInv, ReadyIffRunnable, Runnable, Live
  <2>3. /\ process' = "switching" /\ current_thread' \in Runnable
        /\ IsInjective(ready') /\ Range(ready') = Runnable \ {current_thread'}
    BY <1>17, <2>1, <2>2, DispatchSched
       DEF SwitchTerminated, TypeOK, SchedInv, ReadyIffRunnable
  <2>4. current_thread \notin sync_blocked
    BY <2>1 DEF SchedInv
  <2>5. /\ context' = [context EXCEPT ![current_thread] = "user"]
        /\ sync_blocked' = sync_blocked
        /\ sync_dependencies' = [sync_dependencies EXCEPT ![current_thread] = << >>]
        /\ Live' = Live /\ Runnable' = Runnable
    BY <1>17, <2>1, <2>4 DEF SwitchTerminated, Live, Runnable
  <2>6. \A u \in Live : sync_dependencies'[u] = sync_dependencies[u]
    BY <2>1, <2>5 DEF TypeOK, Live
  <2>7. SyncExact' /\ sync_blocked' \subseteq Live'
    BY <2>1, <2>5, <2>6, SyncUnchanged
  <2>8. \A t \in Tid : context'[t] = "user"
    BY <2>1, <2>5 DEF SchedInv, OthersInUserCode, TypeOK
  <2>9. current_thread' \in Tid
    BY <2>3 DEF Runnable, Live, TypeOK
  <2>. QED  BY <2>3, <2>5, <2>7, <2>8, <2>9
            DEF SchedInv, NoUndefinedBehaviour, Alive, ReadyIffRunnable,
                OthersInUserCode, RunningFitsContext
<1>18. CASE Longjmp
  <2>1. /\ Alive /\ Alive' /\ process' = "running"
        /\ UNCHANGED <<ids, flags, scheduling, context>>
    BY <1>18 DEF Longjmp, Alive
  <2>2. OthersInUserCode' /\ RunningFitsContext'
    BY <2>1 DEF SchedInv, OthersInUserCode, RunningFitsContext, Runnable, Live
  <2>. QED  BY <2>1, <2>2 DEF SchedInv, NoUndefinedBehaviour,
            ReadyIffRunnable, SyncExact, Runnable, Live, Waiters
<1>19. CASE Preempt
  <2>1. /\ Alive /\ InUserCode /\ current_thread \in Runnable
    <3>1. Alive /\ process = "running"
      BY <1>19 DEF Preempt, Alive
    <3>2. context[current_thread] = "user"
      BY <1>19, <3>1 DEF Preempt, Preemptible, Disciplined, SchedInv,
                         RunningFitsContext
    <3>. QED  BY <3>1, <3>2, NobodyEnding DEF InUserCode, Runnable
  <2>2. /\ Requeued(current_thread) \in Seq(Tid)
        /\ IsInjective(Requeued(current_thread))
        /\ Range(Requeued(current_thread)) = Range(ready) \cup {current_thread}
    BY <2>1, AppendRange
       DEF Requeued, TypeOK, SchedInv, ReadyIffRunnable
  <2>3. /\ Range(Requeued(current_thread)) = Runnable
        /\ Runnable \subseteq allocated
        /\ Main \in Range(Requeued(current_thread))
    BY <2>1, <2>2 DEF SchedInv, ReadyIffRunnable, Runnable, Live, IdsInv,
                      MainNeverLost
  <2>4. /\ process' = "running" /\ current_thread' \in Runnable
        /\ IsInjective(ready') /\ Range(ready') = Runnable \ {current_thread'}
    BY <1>19, <2>2, <2>3, DispatchSched DEF Preempt
  <2>5. /\ context' = context /\ sync_blocked' = sync_blocked
        /\ sync_dependencies' = sync_dependencies
        /\ Live' = Live /\ Runnable' = Runnable
    BY <1>19 DEF Preempt, Live, Runnable
  <2>6. SyncExact' /\ sync_blocked' \subseteq Live'
    BY <2>1, <2>5, SyncUnchanged
  <2>7. \A t \in Tid : context'[t] = "user"
    BY <2>1, <2>5 DEF SchedInv, OthersInUserCode, InUserCode
  <2>8. current_thread' \in Tid
    BY <2>4 DEF Runnable, Live, TypeOK
  <2>. QED  BY <2>4, <2>5, <2>6, <2>7, <2>8
            DEF SchedInv, NoUndefinedBehaviour, Alive, ReadyIffRunnable,
                OthersInUserCode, RunningFitsContext
<1>20. ~ TimerBeforeMain /\ ~ PreemptInit /\ ~ PreemptRaced /\ ~ PreemptLate
  BY DEF TimerBeforeMain, PreemptInit, PreemptRaced, PreemptLate, Disciplined
<1>21. ~ ResumeCorrupt /\ ~ QuantumsRead /\ ~ QuantumsLost
  BY DEF ResumeCorrupt, QuantumsRead, QuantumsLost, SchedInv,
         RunningFitsContext, Alive
<1>22. CASE UNCHANGED vars
  BY <1>1, <1>22 DEF vars
<1>23. \A t \in ClientIds : t \in Tid /\ ~ GetQuantums(t)
  BY DEF Disciplined, GetQuantums
<1>. QED
  BY <1>2, <1>3, <1>4, <1>5, <1>6, <1>8, <1>9, <1>10, <1>11, <1>12, <1>13,
     <1>14, <1>15, <1>16, <1>17, <1>18, <1>19, <1>20, <1>21, <1>22, <1>23
  DEF Next, Start, InitNoMemory, SpawnNoMemory, TerminateMain, Call,
      Terminate, Block, Resume, Sync, Switch, Halted

LEMMA SchedAlways ==
  ASSUME Disciplined
  PROVE  Spec => [](TypeOK /\ IdsInv /\ SchedInv)
<1>1. Init => TypeOK /\ IdsInv /\ SchedInv
  BY TypeInit, IdsInit, SchedInit
<1>2. TypeOK /\ IdsInv /\ SchedInv /\ [Next]_vars
        => (TypeOK /\ IdsInv /\ SchedInv)'
  BY TypeStep, IdsStep, SchedStep
<1>. QED  BY <1>1, <1>2, PTL DEF Spec

(***************************************************************************)
(* A disciplined program, however many threads it has and whatever it      *)
(* calls, never makes the library execute undefined behaviour.             *)
(***************************************************************************)
THEOREM DisciplinedIsDefined ==
  ASSUME Disciplined
  PROVE  Spec => []NoUndefinedBehaviour
<1>1. SchedInv => NoUndefinedBehaviour
  BY DEF SchedInv
<1>. QED  BY <1>1, SchedAlways, PTL

(***************************************************************************)
(* The ready queue holds exactly the runnable threads that do not run,     *)
(* once each: resume, termination, spawn and preemption neither lose a     *)
(* wakeup nor give it twice.                                               *)
(***************************************************************************)
THEOREM ReadyQueueExact ==
  ASSUME Disciplined
  PROVE  Spec => []ReadyIffRunnable
<1>1. SchedInv => ReadyIffRunnable
  BY DEF SchedInv
<1>. QED  BY <1>1, SchedAlways, PTL

(***************************************************************************)
(* The sync flags and the lists of dependants describe one relation.       *)
(***************************************************************************)
THEOREM SyncRelationExact ==
  ASSUME Disciplined
  PROVE  Spec => []SyncExact
<1>1. SchedInv => SyncExact
  BY DEF SchedInv
<1>. QED  BY <1>1, SchedAlways, PTL

(***************************************************************************)
(* The running thread, in its own code, is blocked in neither way.         *)
(***************************************************************************)
THEOREM RunningIsRunnable ==
  ASSUME Disciplined
  PROVE  Spec => []RunningNotBlocked
<1>1. SchedInv => RunningNotBlocked
  BY DEF SchedInv, RunningNotBlocked, RunningFitsContext, InUserCode, Alive
<1>. QED  BY <1>1, SchedAlways, PTL

(***************************************************************************)
(* A thread leaves uthread_sync only in the step in which the thread it    *)
(* waits for is terminated.                                                *)
(***************************************************************************)
THEOREM SyncEndsWithTermination ==
  ASSUME Disciplined
  PROVE  Spec => SyncHoldsUntilTermination
<1>. DEFINE Holds == \A t \in sync_blocked :
                       t \notin sync_blocked' =>
                         \E u \in Live : t \in Waiters(u) /\ u \in unused_ids'
<1>1. TypeOK /\ IdsInv /\ SchedInv /\ [Next]_vars => Holds
  <2>. SUFFICES ASSUME TypeOK, IdsInv, SchedInv, [Next]_vars PROVE Holds
    OBVIOUS
  <2>. USE DEF flags
  <2>1. ASSUME sync_blocked' = sync_blocked PROVE Holds
    BY <2>1
  <2>2. ASSUME NEW id \in Tid, Spawn(id) PROVE Holds
    <3>1. id \notin sync_blocked
      BY <2>2, NobodyEnding DEF Spawn, LeastUnused, SchedInv, InUserCode, Alive
    <3>. QED  BY <2>1, <2>2, <3>1 DEF Spawn
  <2>3. ASSUME NEW t \in ClientIds, TerminateSelf(t) \/ TerminateOther(t)
        PROVE  Holds
    <3>1. /\ t \in Live /\ t \notin sync_blocked
          /\ t \in unused_ids'
      BY <2>3, NobodyEnding
         DEF TerminateSelf, TerminateOther, Terminable, LeavesQueues, IsUsed,
             Disciplined
    <3>2. sync_blocked' = sync_blocked \ Waiters(t)
      BY <2>3, <3>1 DEF TerminateSelf, TerminateOther, StillSynced, Waiters
    <3>. QED  BY <3>1, <3>2
  <2>4. CASE SwitchTerminated
    <3>1. current_thread \notin sync_blocked
      BY <2>4 DEF SwitchTerminated, SchedInv, Alive, IdsInv, EndingIsUnused,
                  Live, TypeOK
    <3>. QED  BY <2>1, <2>4, <3>1 DEF SwitchTerminated
  <2>5. ASSUME NEW t \in ClientIds, SyncWith(t) PROVE Holds
    BY <2>5 DEF SyncWith
  <2>. QED
    BY <2>1, <2>2, <2>3, <2>4, <2>5
    DEF Next, Start, InitTimer, InitBlock, InitTotal, InitMain, InitNoMemory,
        TimerBeforeMain, PreemptInit, QuantumsRead, QuantumsLost,
        Undefined, Exit, SpawnFull, SpawnNoMemory, TerminateMain, Call,
        Terminate, RefusedMasked, TerminateUndefined, Block, BlockInvalid,
        BlockSelf, BlockOther, BlockAgain, Resume, ResumeNothing,
        ResumeBlocked, Sync, SyncInvalid, GetQuantums, Switch, SwitchBlocked,
        Longjmp, Preempt, PreemptRaced, PreemptLate, ResumeCorrupt, Halted,
        vars
<1>2. Spec => [](TypeOK /\ IdsInv /\ SchedInv)
  BY SchedAlways
<1>3. Spec => [][Next]_vars
  BY DEF Spec
<1>4. TypeOK /\ IdsInv /\ SchedInv /\ [Next]_vars => [Holds]_vars
  BY <1>1
<1>. QED  BY <1>2, <1>3, <1>4, PTL DEF SyncHoldsUntilTermination

(***************************************************************************)
(* A thread that stays in the ready queue is overtaken by nobody.          *)
(***************************************************************************)
LEMMA DispatchOrder ==
  ASSUME NEW queue \in Seq(Tid), NEW live, NEW q, NEW next,
         Dispatch(queue, live, q, next), NEW t
  PROVE  InFrontOf(ready', t) \subseteq InFrontOf(queue, t)
BY FrontOfTail DEF Dispatch

LEMMA OrderStep ==
  ASSUME Disciplined, TypeOK, IdsInv, SchedInv, [Next]_vars,
         NEW t \in Range(ready) \cap Range(ready')
  PROVE  InFrontOf(ready', t) \subseteq InFrontOf(ready, t)
<1>. DEFINE Kept == InFrontOf(ready', t) \subseteq InFrontOf(ready, t)
<1>. USE DEF scheduling
<1>1. ASSUME ready' = ready PROVE Kept
  BY <1>1
<1>2. Alive => Range(ready) = Runnable \ {current_thread}
  BY DEF SchedInv, ReadyIffRunnable
<1>3. ASSUME NEW e \in Tid, e \notin Range(ready), ready' = Requeued(e)
      PROVE  Kept
  BY <1>3, FrontOfAppend DEF Requeued, TypeOK
<1>4. ASSUME NEW id \in Tid, Spawn(id) PROVE Kept
  <2>1. id \notin Range(ready)
    BY <1>2, <1>4 DEF Spawn, LeastUnused, InUserCode, Alive, Runnable, Live
  <2>. QED  BY <1>3, <1>4, <2>1 DEF Spawn
<1>5. ASSUME NEW u \in ClientIds, TerminateSelf(u) \/ TerminateOther(u)
      PROVE  Kept
  <2>1. /\ u \in Live /\ u \in Tid /\ Alive
        /\ ready' = ReadyWithout(u) \o Released(u)
    BY <1>5, NobodyEnding
       DEF TerminateSelf, TerminateOther, Terminable, LeavesQueues, IsUsed,
           Disciplined, InUserCode, Alive
  <2>2. /\ Released(u) \in Seq(Tid)
        /\ Range(Released(u)) = Waiters(u) \cap (Tid \ blocked_directly)
    BY <2>1, DependantsType, KeepInProperties DEF Released, Waiters
  <2>3. t \notin Range(Released(u))
    BY <2>1, <2>2, WaitersAreSynced
  <2>4. InFrontOf(ready', t) \subseteq InFrontOf(ReadyWithout(u), t)
    BY <2>1, <2>2, <2>3, ReadyWithoutType, FrontOfConcat
  <2>5. InFrontOf(ReadyWithout(u), t) \subseteq InFrontOf(ready, t)
    BY FrontOfKept DEF ReadyWithout, TypeOK
  <2>. QED  BY <2>4, <2>5
<1>6. ASSUME NEW u \in ClientIds, BlockOther(u) PROVE Kept
  BY <1>6, FrontOfKept DEF BlockOther, ReadyWithout, TypeOK
<1>7. ASSUME NEW u \in ClientIds, ResumeBlocked(u) PROVE Kept
  <2>1. u \in Tid /\ u \notin Range(ready)
    BY <1>2, <1>7 DEF ResumeBlocked, InUserCode, Alive, Runnable
  <2>. QED  BY <1>1, <1>3, <1>7, <2>1 DEF ResumeBlocked
<1>8. CASE SwitchBlocked \/ SwitchTerminated
  <2>1. ready \in Seq(Tid)
    BY DEF TypeOK
  <2>. QED  BY <1>8, <2>1, DispatchOrder DEF SwitchBlocked, SwitchTerminated
<1>9. CASE Preempt
  <2>1. /\ Requeued(current_thread) \in Seq(Tid) /\ ready \in Seq(Tid)
        /\ current_thread \in Tid
    BY AppendRange DEF Requeued, TypeOK
  <2>2. InFrontOf(ready', t) \subseteq InFrontOf(Requeued(current_thread), t)
    BY <1>9, <2>1, DispatchOrder DEF Preempt
  <2>3. t # current_thread
    BY <1>2, <1>9 DEF Preempt, Alive
  <2>4. InFrontOf(Requeued(current_thread), t) \subseteq InFrontOf(ready, t)
    BY <2>1, <2>3, FrontOfAppend DEF Requeued
  <2>. QED  BY <2>2, <2>4
<1>10. ~ PreemptLate /\ ~ PreemptInit
  BY DEF PreemptLate, PreemptInit, Disciplined
<1>. QED
  BY <1>1, <1>4, <1>5, <1>6, <1>7, <1>8, <1>9, <1>10
  DEF Next, Start, InitTimer, InitBlock, InitTotal, InitMain, InitNoMemory,
      TimerBeforeMain, QuantumsRead, QuantumsLost,
      Undefined, Exit, SpawnFull, SpawnNoMemory, TerminateMain, Call,
      Terminate, RefusedMasked, TerminateUndefined, Block, BlockInvalid,
      BlockSelf, BlockAgain, Resume, ResumeNothing, Sync, SyncInvalid,
      SyncWith, GetQuantums, Switch, Longjmp, PreemptRaced, ResumeCorrupt,
      Halted, vars

(***************************************************************************)
(* Round robin: whatever is spawned, resumed, released, blocked, ended or  *)
(* preempted, nobody gets in front of a thread that stays in the queue.    *)
(***************************************************************************)
THEOREM RoundRobin ==
  ASSUME Disciplined
  PROVE  Spec => NobodyOvertakes
<1>. DEFINE Kept == \A t \in Range(ready) \cap Range(ready') :
                      Ahead(t)' \subseteq Ahead(t)
<1>1. TypeOK /\ IdsInv /\ SchedInv /\ [Next]_vars => Kept
  BY OrderStep DEF Ahead, InFrontOf
<1>2. Spec => [](TypeOK /\ IdsInv /\ SchedInv)
  BY SchedAlways
<1>3. Spec => [][Next]_vars
  BY DEF Spec
<1>4. TypeOK /\ IdsInv /\ SchedInv /\ [Next]_vars => [Kept]_vars
  BY <1>1
<1>. QED  BY <1>2, <1>3, <1>4, PTL DEF NobodyOvertakes

-----------------------------------------------------------------------------
(***************************************************************************)
(* The library implements the abstract scheduler.  Held and WaitersOf are  *)
(* the images of two of its variables, as UThreads maps them.              *)
(***************************************************************************)
Held      == blocked_directly \cap Live
WaitersOf == [u \in Tid |-> IF u \in Live THEN Waiters(u) ELSE {}]

\* While a thread runs, the two notions of a runnable thread agree.
LEMMA SameRunnable ==
  ASSUME TypeOK, SchedInv, Alive
  PROVE  /\ Sched!Waiting = sync_blocked
         /\ Sched!Runnable = Runnable
<1>1. Live \subseteq Tid
  BY DEF Live, TypeOK
<1>2. Sched!Waiting = UNION {Waiters(u) : u \in Live}
  BY <1>1 DEF Sched!Waiting
<1>. QED  BY <1>2 DEF Sched!Runnable, Runnable, SchedInv, SyncExact

\* A step that leaves the images alone is a stutter.
LEMMA SchedStutter ==
  ASSUME current_thread' = current_thread, Live' = Live,
         blocked_directly' \cap Live = blocked_directly \cap Live,
         \A u \in Live : Waiters(u)' = Waiters(u)
  PROVE  UNCHANGED Sched!vars
<1>1. Held' = Held
  BY DEF Held
<1>2. WaitersOf' = WaitersOf
  BY DEF WaitersOf
<1>. QED  BY <1>1, <1>2 DEF Held, WaitersOf, Sched!vars

\* A switch, from the point of view of the promise, elects a runnable thread.
LEMMA SchedElect ==
  ASSUME TypeOK, SchedInv, Alive, current_thread' \in Runnable, Live' = Live,
         blocked_directly' \cap Live = blocked_directly \cap Live,
         \A u \in Live : Waiters(u)' = Waiters(u)
  PROVE  Sched!Elect
<1>1. Held' = Held
  BY DEF Held
<1>2. WaitersOf' = WaitersOf
  BY DEF WaitersOf
<1>. QED  BY <1>1, <1>2, SameRunnable DEF Held, WaitersOf, Sched!Elect

\* The end of the process, and a call that makes nothing but the mask change.
LEMMA SchedExit ==
  ASSUME TypeOK, SchedInv, InUserCode, Exit
  PROVE  Sched!Shutdown
<1>1. current_thread \in Runnable /\ Alive
  BY DEF SchedInv, RunningFitsContext, InUserCode, Alive
<1>2. Live' = {} /\ current_thread' = current_thread
  BY DEF Exit, Live, scheduling
<1>3. Held' = {} /\ WaitersOf' = [u \in Tid |-> {}]
  BY <1>2 DEF Held, WaitersOf
<1>. QED  BY <1>1, <1>2, <1>3, SameRunnable
          DEF Held, WaitersOf, Sched!Shutdown, Sched!MayCall

LEMMA ImplementsInit == Init => Sched!Init
BY DEF Init, Sched!Init, Live

LEMMA ImplementsStep ==
  ASSUME Disciplined, TypeOK, IdsInv, SchedInv, [Next]_vars
  PROVE  [Sched!Next]_Sched!vars
<1>. USE MainInTid DEF ids, flags, accounting, scheduling
<1>1. ASSUME UNCHANGED <<ids, flags, scheduling>>
      PROVE  UNCHANGED Sched!vars
  BY <1>1, SchedStutter DEF Live, Waiters
<1>2. ASSUME InUserCode
      PROVE  /\ Alive /\ current_thread \in Runnable
             /\ Sched!MayCall /\ Sched!Waiting = sync_blocked
             /\ Live = Tid \ unused_ids
  <2>1. Alive /\ current_thread \in Runnable
    BY <1>2 DEF SchedInv, RunningFitsContext, InUserCode, Alive
  <2>. QED  BY <1>2, <2>1, SameRunnable, NobodyEnding DEF Sched!MayCall
<1>3. CASE InitBlock
  <2>1. Live = {} /\ Live' = {Main} /\ current_thread' = current_thread
    BY <1>3 DEF InitBlock, IdsInv, Initializing, Pristine, Live
  <2>2. /\ Held = {} /\ Held' = {}
        /\ \A u \in Tid : Waiters(u)' = {}
    BY <1>3, <2>1, EmptyInjective
       DEF InitBlock, SchedInv, NobodyBlocked, Held, Waiters
  <2>3. WaitersOf' = WaitersOf
    BY <2>1, <2>2 DEF WaitersOf
  <2>4. Sched!Begin
    BY <2>1, <2>2, <2>3 DEF Sched!Begin, Held, WaitersOf
  <2>. QED  BY <2>4 DEF Sched!Next
<1>4. CASE InitNoMemory
  <2>1. Live = {} /\ Live' = {} /\ current_thread' = current_thread
    BY <1>4 DEF InitNoMemory, Exit, IdsInv, Initializing, Pristine, Live
  <2>. QED  BY <2>1, SchedStutter
<1>5. CASE SpawnNoMemory \/ TerminateMain
  BY <1>5, SchedExit DEF SpawnNoMemory, TerminateMain, Sched!Next
<1>6. ASSUME NEW id \in Tid, Spawn(id) PROVE Sched!Next
  <2>1. /\ InUserCode /\ id \notin Live /\ id \in unused_ids
        /\ current_thread' = current_thread
    BY <1>6, <1>2 DEF Spawn, LeastUnused
  <2>2. Live' = Live \cup {id}
    BY <1>6, <2>1 DEF Spawn, Live
  <2>3. Held' = Held
    BY <1>6, <2>1, <2>2 DEF Spawn, Held
  <2>4. \A u \in Tid : Waiters(u)' = IF u = id THEN {} ELSE Waiters(u)
    BY <1>6, EmptyInjective DEF Spawn, Waiters, TypeOK
  <2>5. WaitersOf' = WaitersOf
    BY <2>1, <2>2, <2>4 DEF WaitersOf
  <2>6. Sched!Spawn(id)
    BY <1>2, <2>1, <2>2, <2>3, <2>5 DEF Sched!Spawn, Held, WaitersOf
  <2>. QED  BY <2>6 DEF Sched!Next
<1>7. ASSUME NEW t \in ClientIds, TerminateSelf(t) \/ TerminateOther(t)
      PROVE  Sched!Next
  <2>1. /\ InUserCode /\ t \in Tid /\ t \in Live /\ t # Main
        /\ t \notin sync_blocked
        /\ current_thread' = current_thread
    BY <1>7, <1>2
       DEF TerminateSelf, TerminateOther, Terminable, IsUsed, Disciplined
  <2>2. Live' = Live \ {t}
    BY <1>7, <2>1, <1>2
       DEF TerminateSelf, TerminateOther, LeavesQueues, Live
  <2>3. Held' = Held \ {t}
    BY <1>7, <2>2 DEF TerminateSelf, TerminateOther, Held
  <2>4. \A u \in Live' : Waiters(u)' = Waiters(u)
    BY <1>7, <2>2 DEF TerminateSelf, TerminateOther, Waiters, TypeOK, Live
  <2>5. WaitersOf' = [WaitersOf EXCEPT ![t] = {}]
    BY <2>1, <2>2, <2>4 DEF WaitersOf
  <2>6. Sched!End(t)
    BY <1>2, <2>1, <2>2, <2>3, <2>5 DEF Sched!End, Held, WaitersOf
  <2>. QED  BY <2>1, <2>6 DEF Sched!Next
<1>8. ASSUME NEW t \in ClientIds, BlockSelf(t) \/ BlockOther(t)
      PROVE  Sched!Next
  <2>1. /\ InUserCode /\ t \in Tid /\ t \in Live /\ t # Main
        /\ current_thread' = current_thread /\ Live' = Live
        /\ blocked_directly' = blocked_directly \cup {t}
        /\ sync_dependencies' = sync_dependencies
    BY <1>8, <1>2 DEF BlockSelf, BlockOther, Blockable, IsUsed, Live
  <2>2. Held' = Held \cup {t} /\ WaitersOf' = WaitersOf
    BY <2>1 DEF Held, WaitersOf, Waiters
  <2>3. Sched!Hold(t)
    BY <1>2, <2>1, <2>2 DEF Sched!Hold, Held, WaitersOf
  <2>. QED  BY <2>1, <2>3 DEF Sched!Next
<1>9. ASSUME NEW t \in ClientIds, ResumeBlocked(t) PROVE Sched!Next
  <2>1. /\ InUserCode /\ t \in Tid /\ t \in Live /\ t \in blocked_directly
        /\ current_thread' = current_thread /\ Live' = Live
        /\ blocked_directly' = blocked_directly \ {t}
        /\ sync_dependencies' = sync_dependencies
    BY <1>9, <1>2 DEF ResumeBlocked, IsUsed, Live
  <2>2. t \in Held /\ Held' = Held \ {t} /\ WaitersOf' = WaitersOf
    BY <2>1 DEF Held, WaitersOf, Waiters
  <2>3. Sched!Release(t)
    BY <1>2, <2>1, <2>2 DEF Sched!Release, Held, WaitersOf
  <2>. QED  BY <2>1, <2>3 DEF Sched!Next
<1>10. ASSUME NEW t \in ClientIds, SyncWith(t) PROVE Sched!Next
  <2>1. /\ InUserCode /\ current_thread # Main /\ t # current_thread
        /\ t \in Tid /\ t \in Live
        /\ current_thread' = current_thread /\ Live' = Live
        /\ blocked_directly' = blocked_directly
        /\ sync_dependencies' =
             [sync_dependencies EXCEPT ![t] = Append(@, current_thread)]
    BY <1>10, <1>2 DEF SyncWith, IsUsed, Live
  <2>2. Waiters(t)' = Waiters(t) \cup {current_thread}
    <3>1. sync_dependencies[t] \in Seq(Tid)
      BY <2>1, DependantsType
    <3>2. sync_dependencies'[t] = Append(sync_dependencies[t], current_thread)
      BY <2>1 DEF TypeOK
    <3>. QED  BY <3>1, <3>2, AppendRange DEF Waiters, TypeOK
  <2>3. \A u \in Tid \ {t} : Waiters(u)' = Waiters(u)
    BY <2>1 DEF Waiters, TypeOK
  <2>4. WaitersOf' = [WaitersOf EXCEPT ![t] = @ \cup {current_thread}]
    BY <2>1, <2>2, <2>3 DEF WaitersOf
  <2>5. Held' = Held
    BY <2>1 DEF Held
  <2>6. Sched!WaitFor(t)
    BY <1>2, <2>1, <2>4, <2>5 DEF Sched!WaitFor, Held, WaitersOf
  <2>. QED  BY <2>1, <2>6 DEF Sched!Next
<1>11. CASE SwitchBlocked \/ Preempt
  <2>1. Alive
    BY <1>11 DEF SwitchBlocked, Preempt, Alive
  <2>2. /\ Live' = Live /\ Runnable' = Runnable
        /\ blocked_directly' = blocked_directly
        /\ sync_dependencies' = sync_dependencies
    BY <1>11 DEF SwitchBlocked, Preempt, Live, Runnable
  <2>3. SchedInv' /\ TypeOK'
    BY SchedStep, TypeStep
  <2>4. Alive' /\ (process' = "switching" \/ context'[current_thread'] = "user")
    <3>1. CASE SwitchBlocked
      BY <2>3, <3>1 DEF SwitchBlocked, Dispatch, SchedInv,
                        NoUndefinedBehaviour, Alive
    <3>2. CASE Preempt
      <4>1. \A t \in Tid : context[t] = "user"
        BY <2>1, <3>2 DEF Preempt, Preemptible, Disciplined, SchedInv,
                          RunningFitsContext, OthersInUserCode
      <4>2. context' = context /\ process' = "running"
        BY <2>3, <3>2 DEF Preempt, Dispatch, SchedInv, NoUndefinedBehaviour
      <4>. QED  BY <2>3, <4>1, <4>2 DEF TypeOK, Alive
    <3>. QED  BY <1>11, <3>1, <3>2
  <2>5. current_thread' \in Runnable'
    BY <2>3, <2>4 DEF SchedInv, RunningFitsContext
  <2>. QED  BY <2>1, <2>2, <2>5, SchedElect DEF Waiters, Sched!Next
<1>12. CASE SwitchTerminated
  <2>1. Alive /\ current_thread \notin Live
    BY <1>12 DEF SwitchTerminated, Alive, IdsInv, EndingIsUnused, TypeOK, Live
  <2>2. /\ Live' = Live /\ Runnable' = Runnable
        /\ blocked_directly' \cap Live = blocked_directly \cap Live
        /\ \A u \in Live : Waiters(u)' = Waiters(u)
    BY <1>12, <2>1
       DEF SwitchTerminated, Live, Runnable, Waiters, TypeOK
  <2>3. SchedInv'
    BY SchedStep
  <2>4. process' = "switching"
    BY <1>12, <2>3 DEF SwitchTerminated, Dispatch, SchedInv,
                       NoUndefinedBehaviour
  <2>5. current_thread' \in Runnable'
    BY <2>3, <2>4 DEF SchedInv, RunningFitsContext, Alive
  <2>. QED  BY <2>1, <2>2, <2>5, SchedElect DEF Sched!Next
<1>13. CASE UNCHANGED vars
  BY <1>1, <1>13 DEF vars
<1>14. ~ TimerBeforeMain /\ ~ PreemptInit /\ ~ PreemptRaced /\ ~ PreemptLate
  BY DEF TimerBeforeMain, PreemptInit, PreemptRaced, PreemptLate, Disciplined
<1>15. /\ ~ ResumeCorrupt /\ ~ QuantumsLost
       /\ \A t \in ClientIds : t \in Tid /\ ~ TerminateUndefined(t)
  <2>1. SchedInv' /\ ~ process' = "undefined"
    BY SchedStep DEF SchedInv, NoUndefinedBehaviour
  <2>. QED  BY <2>1 DEF ResumeCorrupt, QuantumsLost, TerminateUndefined,
                        Undefined, Disciplined
<1>16. ASSUME \/ InitTimer \/ InitTotal \/ InitMain \/ QuantumsRead
              \/ SpawnFull \/ Longjmp \/ Halted
              \/ \E t \in ClientIds :
                   \/ RefusedMasked(t) \/ BlockInvalid(t) \/ BlockAgain(t)
                   \/ ResumeNothing(t) \/ SyncInvalid(t) \/ GetQuantums(t)
       PROVE  UNCHANGED <<ids, flags, scheduling>>
  BY <1>16 DEF InitTimer, InitTotal, InitMain, QuantumsRead, GetQuantums,
               Undefined, SpawnFull, Longjmp, Halted, vars, RefusedMasked,
               BlockInvalid, BlockAgain, ResumeNothing, SyncInvalid
<1>. QED
  BY <1>1, <1>3, <1>4, <1>5, <1>6, <1>7, <1>8, <1>9, <1>10, <1>11, <1>12,
     <1>13, <1>14, <1>15, <1>16
  DEF Next, Start, Call, Terminate, Block, Resume, Sync, Switch

(***************************************************************************)
(* A disciplined program sees the abstract scheduler: every call and every *)
(* switch of the library is one step of it, or none.                       *)
(***************************************************************************)
THEOREM LibraryImplementsScheduler ==
  ASSUME Disciplined
  PROVE  Spec => ImplementsScheduler
<1>1. TypeOK /\ IdsInv /\ SchedInv /\ [Next]_vars => [Sched!Next]_Sched!vars
  BY ImplementsStep
<1>2. Spec => [](TypeOK /\ IdsInv /\ SchedInv)
  BY SchedAlways
<1>. QED
  BY <1>1, <1>2, ImplementsInit, PTL DEF Spec, ImplementsScheduler, Sched!Spec

=============================================================================
