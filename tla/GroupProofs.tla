---------------------------- MODULE GroupProofs -----------------------------
(***************************************************************************)
(* Where the pairs of MapReduce are: for any input, any threads and any    *)
(* allocation of the keys no pair is lost between map and reduce or        *)
(* reduced twice, and no call of reduce mixes two keys.                    *)
(***************************************************************************)
EXTENDS MapReduceProofs

(***************************************************************************)
(* Four kinds of places: a stock S, what each thread holds, H, what is     *)
(* queued, Q, and what is out, O.  Apart: nothing is in two places.        *)
(***************************************************************************)
Apart(S, H, Q, O) ==
  /\ \A x \in S : x \notin O
  /\ \A t \in Threads : \A x \in H[t] :
       x \notin S /\ x \notin O /\ \A u \in Threads \ {t} : x \notin H[u]
  /\ \A k \in DOMAIN Q : \A x \in Q[k] :
       /\ x \notin S /\ x \notin O
       /\ \A j \in DOMAIN Q \ {k} : x \notin Q[j]
       /\ \A u \in Threads : x \notin H[u]

Anywhere(S, H, Q, O, x) ==
  \/ x \in S \cup O
  \/ \E t \in Threads : x \in H[t]
  \/ \E k \in DOMAIN Q : x \in Q[k]

\* The four moves: a part of the stock is taken in hand,
LEMMA TakeMove ==
  ASSUME NEW S, NEW H, NEW Q, NEW O, Apart(S, H, Q, O),
         NEW t \in Threads, H[t] = {},
         NEW S2, NEW H2, H2[t] \cup S2 = S,
         \A x \in H2[t] : x \notin S2,
         \A u \in Threads \ {t} : H2[u] = H[u]
  PROVE  /\ Apart(S2, H2, Q, O)
         /\ \A x : Anywhere(S, H, Q, O, x) => Anywhere(S2, H2, Q, O, x)
<1>1. \A x : x \in S <=> x \in S2 \/ x \in H2[t]
  OBVIOUS
<1>2. \A u \in Threads : \A x : x \in H2[u] =>
        \/ u = t /\ x \in S
        \/ u # t /\ x \in H[u]
  BY <1>1
<1>3. Apart(S2, H2, Q, O)
  BY <1>1, <1>2 DEF Apart
<1>4. \A u \in Threads : \A x \in H[u] : x \in H2[u]
  OBVIOUS
<1>. QED
  BY <1>1, <1>3, <1>4 DEF Anywhere

\* what is in hand is put at the back of the queue,
LEMMA PushMove ==
  ASSUME NEW S, NEW H, NEW Q, NEW O, Apart(S, H, Q, O),
         NEW t \in Threads, NEW H2, H2[t] = {},
         \A u \in Threads \ {t} : H2[u] = H[u],
         NEW Q2, NEW back, back \notin DOMAIN Q,
         \A k : k \in DOMAIN Q2 <=> k \in DOMAIN Q \/ k = back,
         Q2[back] = H[t],
         \A k \in DOMAIN Q : Q2[k] = Q[k]
  PROVE  /\ Apart(S, H2, Q2, O)
         /\ \A x : Anywhere(S, H, Q, O, x) => Anywhere(S, H2, Q2, O, x)
<1>1. \A u \in Threads : \A x \in H2[u] : u # t /\ x \in H[u]
  OBVIOUS
<1>2. ASSUME NEW k \in DOMAIN Q2
      PROVE  \/ k \in DOMAIN Q /\ k # back /\ Q2[k] = Q[k]
             \/ k = back /\ Q2[k] = H[t]
  <2>1. k \in DOMAIN Q \/ k = back
    OBVIOUS
  <2>. QED
    BY <2>1, Zenon
<1>3. ASSUME NEW k \in DOMAIN Q2, NEW x \in Q2[k]
      PROVE  /\ x \notin S /\ x \notin O
             /\ \A j \in DOMAIN Q2 \ {k} : x \notin Q2[j]
             /\ \A u \in Threads : x \notin H2[u]
  <2>1. CASE k \in DOMAIN Q /\ k # back /\ Q2[k] = Q[k]
    BY <1>1, <1>2, <2>1 DEF Apart
  <2>2. CASE k = back /\ Q2[k] = H[t]
    <3>1. x \in H[t]
      BY <2>2
    <3>2. \A j \in DOMAIN Q : x \notin Q[j]
      BY <3>1 DEF Apart
    <3>. QED
      BY <1>1, <1>2, <2>2, <3>1, <3>2 DEF Apart
  <2>. QED
    BY <1>2, <2>1, <2>2
<1>4. Apart(S, H2, Q2, O)
  BY <1>1, <1>3 DEF Apart
<1>5. ASSUME NEW x, Anywhere(S, H, Q, O, x) PROVE Anywhere(S, H2, Q2, O, x)
  <2>1. CASE x \in H[t]
    <3>1. back \in DOMAIN Q2 /\ x \in Q2[back]
      BY <2>1
    <3>. QED
      BY <3>1 DEF Anywhere
  <2>2. CASE \E u \in Threads \ {t} : x \in H[u]
    BY <2>2 DEF Anywhere
  <2>3. CASE \E k \in DOMAIN Q : x \in Q[k]
    BY <2>3 DEF Anywhere
  <2>. QED
    BY <1>5, <2>1, <2>2, <2>3 DEF Anywhere
<1>. QED
  BY <1>4, <1>5

\* the back of the queue is taken in hand,
LEMMA PopMove ==
  ASSUME NEW S, NEW H, NEW Q, NEW O, Apart(S, H, Q, O),
         NEW t \in Threads, H[t] = {},
         NEW H2, \A u \in Threads \ {t} : H2[u] = H[u],
         NEW back \in DOMAIN Q, H2[t] = Q[back],
         NEW Q2, \A k : k \in DOMAIN Q2 <=> k \in DOMAIN Q /\ k # back,
         \A k \in DOMAIN Q2 : Q2[k] = Q[k]
  PROVE  /\ Apart(S, H2, Q2, O)
         /\ \A x : Anywhere(S, H, Q, O, x) => Anywhere(S, H2, Q2, O, x)
<1>1. ASSUME NEW u \in Threads, NEW x \in H2[u]
      PROVE  /\ x \notin S /\ x \notin O
             /\ \A w \in Threads \ {u} : x \notin H2[w]
             /\ \A k \in DOMAIN Q2 : x \notin Q2[k]
  <2>1. CASE u = t
    BY <1>1, <2>1 DEF Apart
  <2>2. CASE u # t
    BY <1>1, <2>2 DEF Apart
  <2>. QED
    BY <2>1, <2>2
<1>2. Apart(S, H2, Q2, O)
  BY <1>1 DEF Apart
<1>3. ASSUME NEW x, Anywhere(S, H, Q, O, x) PROVE Anywhere(S, H2, Q2, O, x)
  BY <1>3 DEF Anywhere
<1>. QED
  BY <1>2, <1>3

\* what is in hand goes out.
LEMMA OutMove ==
  ASSUME NEW S, NEW H, NEW Q, NEW O, Apart(S, H, Q, O),
         NEW t \in Threads, NEW H2, H2[t] = {},
         \A u \in Threads \ {t} : H2[u] = H[u],
         NEW O2, O2 = O \cup H[t]
  PROVE  /\ Apart(S, H2, Q, O2)
         /\ \A x : Anywhere(S, H, Q, O, x) => Anywhere(S, H2, Q, O2, x)
<1>1. \A u \in Threads : \A x \in H2[u] : u # t /\ x \in H[u]
  OBVIOUS
<1>2. \A x : x \in O2 <=> x \in O \/ x \in H[t]
  OBVIOUS
<1>3. Apart(S, H2, Q, O2)
  BY <1>1, <1>2 DEF Apart
<1>4. ASSUME NEW x, Anywhere(S, H, Q, O, x) PROVE Anywhere(S, H2, Q, O2, x)
  BY <1>2, <1>4 DEF Anywhere
<1>. QED
  BY <1>3, <1>4

-----------------------------------------------------------------------------
(***************************************************************************)
(* What is where at which point of the program.                            *)
(***************************************************************************)
Filling == {"unborn", "create", "map", "mapping"}
Early   == BeforeBarrier \cup {"barrier", "shuffle"}

\* Until thread 0 shuffles there is nothing to reduce.
NothingToReduce ==
  /\ \A t \in Threads : pc[t] \in Early \cup {"wait"}
  /\ semaphore = 0 /\ vectors = {} /\ shuffleVectors = << >>
  /\ outputVec = << >> /\ \A p \in Pairs : timesReduced[p] = 0

PhaseInv ==
  /\ pc[First] \in Early => NothingToReduce
  /\ pc[First] \notin Early =>
       \A t \in Threads : pc[t] \notin BeforeBarrier /\ sorted[t] = << >>
  /\ pc[First] \notin Early \cup {"group", "push", "post"} => vectors = {}
  /\ \A t \in Threads : pc[t] \in BeforeBarrier => sorted[t] = << >>
  /\ \A t \in Threads : pc[t] \notin BeforeBarrier => emitted[t] = {}
  /\ \A t \in Threads : pc[t] \notin Filling => InputSize <= inputVectorIndex
  /\ \A t \in Threads :
       pc[t] \notin {"push", "decide", "reduce"} => hand[t] = NoGroup

Steady == MeetInv /\ TokenInv /\ ItemFits

LEMMA PhaseInit == Init => PhaseInv
<1>. SUFFICES ASSUME Init PROVE PhaseInv
  OBVIOUS
<1>1. \A t \in Threads : pc[t] \in {"unborn", "create"}
  BY DEF Init
<1>2. \A t \in Threads : pc[t] \in Filling /\ pc[t] \in BeforeBarrier /\ pc[t] \in Early
  BY <1>1 DEF Filling, BeforeBarrier, Early
<1>3. NothingToReduce
  BY <1>2 DEF Init, NothingToReduce
<1>4. \A t \in Threads : sorted[t] = << >> /\ hand[t] = NoGroup
  BY DEF Init
<1>. QED
  BY <1>2, <1>3, <1>4, FirstAndLast DEF PhaseInv

\* The steps of a thread that fills or sorts its vector.
LEMMA FillPhase ==
  ASSUME Steady, PhaseInv, NEW t \in Threads,
         TakeInput(t) \/ Map(t) \/ SortPhase(t)
  PROVE  PhaseInv'
<1>1. /\ pc \in [Threads -> ProgramPoints] /\ emitted \in [Threads -> SUBSET Pairs]
      /\ sorted \in [Threads -> Seq(Pairs)] /\ First \in Threads
      /\ inputVectorIndex \in Nat /\ InputSize \in Nat
  BY FirstAndLast, InputSizeAssumption DEF Steady, TokenInv, TypeOK
<1>2. PICK point \in {"map", "mapping", "sort", "barrier"} :
        /\ pc' = [pc EXCEPT ![t] = point]
        /\ point = "mapping" => pc[t] = "map"
        /\ point \notin Filling => InputSize <= inputVectorIndex'
        /\ point = "barrier" => emitted' = [emitted EXCEPT ![t] = {}]
        /\ point # "barrier" => sorted' = sorted
        /\ \A u \in Threads \ {t} : sorted'[u] = sorted[u] /\ emitted'[u] = emitted[u]
        /\ inputVectorIndex <= inputVectorIndex'
  <2>1. CASE TakeInput(t)
    <3>1. /\ inputVectorIndex' = inputVectorIndex + 1 /\ pc[t] = "map"
          /\ sorted' = sorted /\ emitted' = emitted
          /\ pc' = [pc EXCEPT ![t] = IF inputVectorIndex < InputSize
                                     THEN "mapping" ELSE "sort"]
      BY <2>1 DEF TakeInput, Goto, shuffleVars
    <3>2. inputVectorIndex <= inputVectorIndex'
      BY <1>1, <3>1
    <3>3. CASE inputVectorIndex < InputSize
      BY <3>1, <3>2, <3>3 DEF Filling
    <3>4. CASE ~ inputVectorIndex < InputSize
      <4>1. InputSize <= inputVectorIndex'
        BY <1>1, <3>1, <3>4
      <4>. QED
        BY <3>1, <3>2, <3>4, <4>1 DEF Filling
    <3>. QED
      BY <3>3, <3>4
  <2>2. CASE Map(t)
    BY <1>1, <2>2 DEF Map, Goto, Filling, shuffleVars
  <2>3. CASE SortPhase(t)
    <3>1. InputSize <= inputVectorIndex
      BY <2>3 DEF SortPhase, PhaseInv, Filling
    <3>. QED
      BY <1>1, <2>3, <3>1 DEF SortPhase, Goto, Filling
  <2>. QED
    BY <2>1, <2>2, <2>3
<1>3. pc[t] \in {"map", "mapping", "sort"} /\ hand' = hand /\ vectors' = vectors
      /\ UNCHANGED queueVars /\ UNCHANGED outputVars
  BY DEF TakeInput, Map, SortPhase, shuffleVars
<1>4. pc[First] \in Early /\ pc'[First] \in Early
  <2>1. pc[t] \in BeforeBarrier
    BY <1>3 DEF BeforeBarrier
  <2>2. pc[First] \in Early
    BY <2>1 DEF PhaseInv
  <2>. QED
    BY <1>1, <1>2, <2>2 DEF Early, BeforeBarrier
<1>5. NothingToReduce'
  BY <1>1, <1>2, <1>3, <1>4
  DEF PhaseInv, NothingToReduce, queueVars, outputVars, Early, BeforeBarrier
<1>6. \A u \in Threads :
        /\ pc'[u] \in BeforeBarrier => sorted'[u] = << >>
        /\ pc'[u] \notin BeforeBarrier => emitted'[u] = {}
        /\ pc'[u] \notin {"push", "decide", "reduce"} => hand'[u] = NoGroup
  BY <1>1, <1>2, <1>3 DEF PhaseInv, BeforeBarrier
<1>7. \A u \in Threads : pc'[u] \notin Filling => InputSize <= inputVectorIndex'
  <2>1. inputVectorIndex' \in Nat
    BY <1>1 DEF TakeInput, Map, SortPhase
  <2>. QED
    BY <1>1, <1>2, <2>1 DEF PhaseInv
<1>. QED
  BY <1>4, <1>5, <1>6, <1>7 DEF PhaseInv

\* The other steps, that fill no vector.
LEMMA MovePhase ==
  ASSUME Steady, PhaseInv, NEW t \in Threads, NEW point,
         pc' = [pc EXCEPT ![t] = point],
         UNCHANGED <<inputVectorIndex, emitted, sorted>>,
         pc[t] \in BeforeBarrier => point \in BeforeBarrier,
         pc[t] \in Filling => point \in Filling,
         pc[t] \notin BeforeBarrier => point \notin BeforeBarrier,
         \A u \in Threads \ {t} : hand'[u] = hand[u],
         point \notin {"push", "decide", "reduce"} => hand'[t] = NoGroup,
         pc[First] \in Early => NothingToReduce',
         t = First =>
           /\ pc[t] \notin Early => point \notin Early
           /\ pc[t] \in Early => point \in Early
           /\ point \notin Early \cup {"group", "push", "post"} => vectors' = {},
         t # First => vectors' = vectors
  PROVE  PhaseInv'
<1>1. /\ pc \in [Threads -> ProgramPoints] /\ First \in Threads
  BY FirstAndLast DEF Steady, TokenInv, TypeOK
<1>2. pc'[First] \in Early <=> pc[First] \in Early
  BY <1>1
<1>3. \A u \in Threads :
        /\ pc'[u] \in BeforeBarrier <=> pc[u] \in BeforeBarrier
        /\ pc'[u] \notin Filling => pc[u] \notin Filling
        /\ pc'[u] \notin {"push", "decide", "reduce"} => hand'[u] = NoGroup
  BY <1>1 DEF PhaseInv
<1>4. pc'[First] \notin Early \cup {"group", "push", "post"} => vectors' = {}
  BY <1>1 DEF PhaseInv
<1>. QED
  BY <1>2, <1>3, <1>4 DEF PhaseInv

\* Thread 0 erases the empty vectors: every thread has sorted its own.
LEMMA ErasePhase == Steady /\ PhaseInv /\ EraseEmpty => PhaseInv'
<1>. SUFFICES ASSUME Steady, PhaseInv, EraseEmpty PROVE PhaseInv'
  OBVIOUS
<1>1. /\ pc \in [Threads -> ProgramPoints] /\ First \in Threads
      /\ pc[First] = "shuffle" /\ pc' = [pc EXCEPT ![First] = "group"]
      /\ sorted' = [t \in Threads |-> << >>]
      /\ hand' = hand /\ emitted' = emitted /\ inputVectorIndex' = inputVectorIndex
  BY FirstAndLast DEF Steady, TokenInv, TypeOK, EraseEmpty, Goto, mapVars
<1>2. \A t \in Threads : pc[t] \notin BeforeBarrier
  <2>1. left[First] = 1
    BY <1>1 DEF Steady, MeetInv, PointsFitBarrier, PastBarrier, ProgramPoints,
               Shuffling, BeforeBarrier
  <2>2. \A t \in Threads : left[First] <= arrived[t]
    BY <1>1, InvMeansNobodyAhead DEF Steady, MeetInv, NobodyAhead
  <2>3. \A t \in Threads : pc[t] \in BeforeBarrier => arrived[t] = 0
    BY DEF Steady, MeetInv, PointsFitBarrier
  <2>. QED
    BY <2>1, <2>2, <2>3
<1>3. "group" \notin BeforeBarrier /\ "group" \notin Early
  BY DEF BeforeBarrier, Early
<1>4. \A t \in Threads : pc'[t] \notin BeforeBarrier
  BY <1>1, <1>2, <1>3
<1>5. pc'[First] = "group"
  BY <1>1
<1>6. \A t \in Threads : pc[t] \notin Filling
  BY <1>2 DEF Filling, BeforeBarrier
<1>7. \A t \in Threads :
        /\ sorted'[t] = << >>
        /\ emitted'[t] = {}
        /\ InputSize <= inputVectorIndex'
        /\ pc'[t] \notin {"push", "decide", "reduce"} => hand'[t] = NoGroup
  BY <1>1, <1>2, <1>6 DEF PhaseInv
<1>. QED
  BY <1>3, <1>4, <1>5, <1>7 DEF PhaseInv

LEMMA PhaseStep == Steady /\ PhaseInv /\ [Next]_mrVars => PhaseInv'
<1>. SUFFICES ASSUME Steady, PhaseInv, [Next]_mrVars PROVE PhaseInv'
  OBVIOUS
<1>1. pc \in [Threads -> ProgramPoints] /\ First \in Threads /\ Last \in Threads
      /\ hand \in [Threads -> {NoGroup} \cup {{g} : g \in SUBSET Pairs}]
      /\ semaphore \in Nat
  BY FirstAndLast DEF Steady, TokenInv, TypeOK
<1>2. ASSUME NEW t \in Threads, NEW point \in {"map", "shuffle", "wait"},
             pc[t] \in {"unborn", "create", "barrier"},
             pc' = [pc EXCEPT ![t] = point],
             pc[t] # "barrier" <=> point = "map",
             t = First => point # "wait",
             UNCHANGED <<mapVars, shuffleVars, hand, queueVars, outputVars>>
      PROVE  PhaseInv'
  <2>1. hand[t] = NoGroup
    BY <1>2 DEF PhaseInv
  <2>2. pc[First] \in Early => NothingToReduce'
    BY <1>1, <1>2
    DEF PhaseInv, NothingToReduce, shuffleVars, queueVars, outputVars, Early,
        BeforeBarrier
  <2>. QED
    BY <1>1, <1>2, <2>1, <2>2, MovePhase
    DEF BeforeBarrier, Filling, Early, mapVars, shuffleVars
<1>3. ASSUME NEW t \in Threads, Create(t) \/ PassBarrier(t) PROVE PhaseInv'
  BY <1>2, <1>3 DEF Create, PassBarrier, Goto
<1>4. CASE BecomeLast
  BY <1>1, <1>2, <1>4 DEF BecomeLast, Goto
<1>5. ASSUME NEW t \in Threads, TakeInput(t) \/ Map(t) \/ SortPhase(t)
      PROVE  PhaseInv'
  BY <1>5, FillPhase
<1>6. ASSUME NEW t \in Threads,
             NEW point \in ProgramPoints \ (Early \cup {"unborn"}),
             pc' = [pc EXCEPT ![t] = point],
             pc[t] \notin Early,
             pc[First] \notin Early,
             \A u \in Threads \ {t} : hand'[u] = hand[u],
             point \notin {"push", "decide", "reduce"} => hand'[t] = NoGroup,
             IF t = First
             THEN point \notin {"group", "push", "post"} => vectors' = {}
             ELSE vectors' = vectors,
             UNCHANGED <<mapVars, sorted>>
      PROVE  PhaseInv'
  BY <1>1, <1>6, MovePhase DEF BeforeBarrier, Filling, Early, mapVars
<1>7. CASE Join
  <2>1. pc[First] \notin Early /\ hand[Last] = NoGroup
        /\ (Last = First => vectors = {})
    BY <1>1, <1>7 DEF Join, PhaseInv, NothingToReduce, Early, BeforeBarrier
  <2>. QED
    BY <1>1, <1>6, <1>7, <2>1
    DEF Join, Goto, Early, BeforeBarrier, ProgramPoints, Shuffling, shuffleVars
<1>8. CASE EraseEmpty
  BY <1>8, ErasePhase
<1>9. CASE TakeGroup \/ PushGroup \/ PostGroup
  <2>1. PICK point \in {"push", "post", "group"} :
          /\ pc' = [pc EXCEPT ![First] = point]
          /\ point # "push" => hand'[First] = NoGroup
    BY <1>1, <1>9 DEF TakeGroup, PushGroup, PostGroup, Goto, PhaseInv
  <2>2. /\ pc[First] \in {"push", "post", "group"}
        /\ \A u \in Threads \ {First} : hand'[u] = hand[u]
        /\ UNCHANGED <<mapVars, sorted>>
    BY <1>1, <1>9 DEF TakeGroup, PushGroup, PostGroup, shuffleVars
  <2>. QED
    BY <1>1, <1>6, <2>1, <2>2
    DEF Early, BeforeBarrier, ProgramPoints, Shuffling
<1>10. CASE NoMoreGroups \/ ShuffleDone \/ EndShuffle
  <2>1. PICK point \in {"done", "release", "wait"} :
          pc' = [pc EXCEPT ![First] = point]
    BY <1>10 DEF NoMoreGroups, ShuffleDone, EndShuffle, Goto
  <2>2. /\ pc[First] \in {"group", "done", "release"}
        /\ hand' = hand /\ vectors' = {}
        /\ UNCHANGED <<mapVars, sorted>>
    BY <1>10
    DEF NoMoreGroups, ShuffleDone, EndShuffle, shuffleVars, PhaseInv, Early,
        BeforeBarrier
  <2>3. hand[First] = NoGroup
    BY <1>1, <2>2 DEF PhaseInv
  <2>. QED
    BY <1>1, <1>6, <2>1, <2>2, <2>3
    DEF Early, BeforeBarrier, ProgramPoints, Shuffling
<1>11. ASSUME NEW t \in Threads, ReducePhase(t) PROVE PhaseInv'
  <2>1. PICK point \in {"check", "decide", "join", "finished", "reduce", "wait"} :
          /\ pc' = [pc EXCEPT ![t] = point]
          /\ point \notin {"decide", "reduce"} => hand'[t] = NoGroup
    BY <1>1, <1>11
    DEF ReducePhase, SemWait, PopGroup, Decide, Reduce, Goto, PhaseInv
  <2>2. /\ pc[t] \in {"wait", "check", "decide", "reduce"}
        /\ pc[t] = "wait" => semaphore # 0
        /\ \A u \in Threads \ {t} : hand'[u] = hand[u]
        /\ vectors' = vectors
        /\ UNCHANGED <<mapVars, sorted>>
    BY <1>1, <1>11
    DEF ReducePhase, SemWait, PopGroup, Decide, Reduce, shuffleVars
  <2>3. pc[First] \notin Early
    BY <2>2 DEF PhaseInv, NothingToReduce, Early, BeforeBarrier
  <2>4. t = First => vectors = {}
    BY <2>2 DEF PhaseInv, Early, BeforeBarrier
  <2>. QED
    BY <1>1, <1>6, <2>1, <2>2, <2>3, <2>4
    DEF Early, BeforeBarrier, ProgramPoints, Shuffling
<1>12. CASE PostFinal \/ UNCHANGED mrVars
  <2>1. /\ pc' = pc /\ sorted' = sorted /\ emitted' = emitted /\ hand' = hand
        /\ vectors' = vectors /\ inputVectorIndex' = inputVectorIndex
        /\ shuffleVectors' = shuffleVectors /\ UNCHANGED outputVars
        /\ pc[First] \in Early => semaphore' = semaphore
    BY <1>12 DEF PostFinal, mrVars, mapVars, shuffleVars, queueVars, Early,
                 BeforeBarrier
  <2>. QED
    BY <2>1 DEF PhaseInv, NothingToReduce, outputVars
<1>. QED
  BY <1>3, <1>4, <1>5, <1>7, <1>8, <1>9, <1>10, <1>11, <1>12
  DEF Next, Framework, Step, ShufflePhase

-----------------------------------------------------------------------------
(***************************************************************************)
(* The pairs in the vectors.                                               *)
(***************************************************************************)
Own(t) == emitted[t] \cup Range(sorted[t])
Stock  == {p \in Pairs : \E v \in vectors : p \in Range(v)}
Held   == [t \in Threads |-> UNION hand[t]]
Out    == {p \in Pairs : timesReduced[p] # 0}
Mapped == {i \in Input :
             /\ i <= inputVectorIndex
             /\ \A t \in Threads : pc[t] = "mapping" => item[t] # i}

LEMMA EmptyRange == Range(<< >>) = {}
BY DEF Range

LEMMA UnionOfOne == \A g : UNION {g} = g /\ UNION {} = {}
OBVIOUS

\* sortPhase changes the order of a vector and nothing else.
LEMMA SortedRange ==
  ASSUME NEW group \in SUBSET Pairs, NEW s \in SortedOrders(group)
  PROVE  Range(s) = group
<1>. DEFINE n == Cardinality(group)
<1>1. IsFiniteSet(group) /\ n \in Nat
  BY PairsAssumption, FS_Subset, FS_CardinalityType
<1>2. s \in [1 .. n -> group] /\ \A i, j \in 1 .. n : i < j => s[i] # s[j]
  BY DEF SortedOrders
<1>3. IsInjective(s)
  <2>1. \A i, j \in 1 .. n : i = j \/ i < j \/ j < i
    BY <1>1
  <2>. QED
    BY <1>2, <2>1 DEF IsInjective
<1>4. s \in Injection(1 .. n, group)
  BY <1>2, <1>3 DEF Injection
<1>5. Cardinality(1 .. n) = n
  <2>. HIDE DEF n
  <2>. QED
    BY <1>1, FS_Interval
<1>6. s \in Surjection(1 .. n, group)
  BY <1>1, <1>4, <1>5, FS_Injection
<1>. QED
  BY <1>2, <1>6 DEF Surjection, Range

\* A turn of the loop takes its group out of the vectors.
LEMMA TakeStock ==
  ASSUME TypeOK, NEW a, NEW group, group = NextGroup(vectors, a),
         vectors' = Remaining(vectors, group)
  PROVE  group \subseteq Stock /\ Stock' = Stock \ group
<1>1. group \subseteq Stock
  <2>1. Reached(vectors, a) \subseteq vectors
    BY DEF Reached
  <2>. QED
    BY <2>1 DEF NextGroup, Stock, Range
<1>2. ASSUME NEW v \in vectors
      PROVE  Range(KeepIn(v, Pairs \ group)) = Range(v) \cap (Pairs \ group)
  <2>1. v \in Seq(Pairs)
    BY DEF TypeOK
  <2>. QED
    BY <2>1, KeepInProperties
<1>3. ASSUME NEW p \in Stock \ group PROVE p \in Stock'
  <2>1. PICK v \in vectors : p \in Range(v)
    BY <1>3 DEF Stock
  <2>2. p \in Range(KeepIn(v, Pairs \ group))
    BY <1>2, <2>1 DEF Stock
  <2>3. KeepIn(v, Pairs \ group) # << >>
    BY <2>2, EmptyRange
  <2>4. KeepIn(v, Pairs \ group) \in vectors'
    BY <2>3 DEF Remaining
  <2>. QED
    BY <2>2, <2>4 DEF Stock
<1>4. ASSUME NEW p \in Stock' PROVE p \in Stock \ group
  <2>1. PICK v \in vectors : p \in Range(KeepIn(v, Pairs \ group))
    BY DEF Stock, Remaining
  <2>. QED
    BY <1>2, <2>1 DEF Stock
<1>. QED
  BY <1>1, <1>3, <1>4

(***************************************************************************)
(* How the steps of the queue move the groups.                             *)
(***************************************************************************)
LEMMA TakeFacts ==
  ASSUME TypeOK, PhaseInv, TakeGroup
  PROVE  LET group == NextGroup(vectors, address)
         IN  /\ group \subseteq Stock /\ Stock' = Stock \ group
             /\ Held[First] = {} /\ Held'[First] = group /\ hand'[First] # NoGroup
             /\ \A u \in Threads \ {First} :
                  hand'[u] = hand[u] /\ Held'[u] = Held[u]
<1>. DEFINE group == NextGroup(vectors, address)
<1>1. /\ First \in Threads /\ pc[First] = "group"
      /\ hand' = [hand EXCEPT ![First] = {group}]
      /\ vectors' = Remaining(vectors, group)
  BY FirstAndLast DEF TakeGroup
<1>2. DOMAIN hand = Threads /\ hand[First] = NoGroup
  BY <1>1 DEF TypeOK, PhaseInv
<1>3. group \subseteq Stock /\ Stock' = Stock \ group
  BY <1>1, TakeStock
<1>. HIDE DEF group
<1>4. /\ Held[First] = {} /\ Held'[First] = group /\ hand'[First] # NoGroup
      /\ \A u \in Threads \ {First} : hand'[u] = hand[u] /\ Held'[u] = Held[u]
  BY <1>1, <1>2, UnionOfOne DEF Held, NoGroup
<1>. QED
  BY <1>3, <1>4 DEF group

LEMMA PushFacts ==
  ASSUME TypeOK, PushGroup
  PROVE  LET back == Len(shuffleVectors) + 1
         IN  /\ back \notin DOMAIN shuffleVectors
             /\ \A k : k \in DOMAIN shuffleVectors' <=>
                        k \in DOMAIN shuffleVectors \/ k = back
             /\ shuffleVectors'[back] = Held[First]
             /\ \A k \in DOMAIN shuffleVectors : shuffleVectors'[k] = shuffleVectors[k]
             /\ Held'[First] = {} /\ hand'[First] = NoGroup
             /\ \A u \in Threads \ {First} :
                  hand'[u] = hand[u] /\ Held'[u] = Held[u]
<1>. DEFINE n == Len(shuffleVectors)
<1>1. /\ First \in Threads
      /\ hand' = [hand EXCEPT ![First] = NoGroup]
      /\ shuffleVectors' = Append(shuffleVectors, UNION hand[First])
  BY FirstAndLast DEF PushGroup
<1>2. /\ DOMAIN hand = Threads
      /\ shuffleVectors \in Seq(SUBSET Pairs)
      /\ UNION hand[First] \in SUBSET Pairs
  BY <1>1, HandTyped DEF TypeOK
<1>3. /\ n \in Nat /\ DOMAIN shuffleVectors = 1 .. n
      /\ DOMAIN shuffleVectors' = 1 .. n + 1
      /\ shuffleVectors'[n + 1] = UNION hand[First]
      /\ \A k \in 1 .. n : shuffleVectors'[k] = shuffleVectors[k]
  BY <1>1, <1>2, AppendProperties, LenProperties
<1>4. /\ Held[First] = UNION hand[First]
      /\ Held'[First] = {} /\ hand'[First] = NoGroup
      /\ \A u \in Threads \ {First} : hand'[u] = hand[u] /\ Held'[u] = Held[u]
  BY <1>1, <1>2, UnionOfOne DEF Held, NoGroup
<1>. QED
  BY <1>3, <1>4

LEMMA PopFacts ==
  ASSUME TypeOK, PhaseInv, NEW t \in Threads, PopGroup(t), shuffleVectors # << >>
  PROVE  LET back == Len(shuffleVectors)
         IN  /\ back \in DOMAIN shuffleVectors
             /\ \A k : k \in DOMAIN shuffleVectors' <=>
                        k \in DOMAIN shuffleVectors /\ k # back
             /\ \A k \in DOMAIN shuffleVectors' : shuffleVectors'[k] = shuffleVectors[k]
             /\ Held[t] = {} /\ Held'[t] = shuffleVectors[back]
             /\ \A u \in Threads \ {t} : hand'[u] = hand[u] /\ Held'[u] = Held[u]
<1>. DEFINE n == Len(shuffleVectors)
<1>1. /\ pc[t] = "check"
      /\ hand' = [hand EXCEPT ![t] = {shuffleVectors[n]}]
      /\ shuffleVectors' = SubSeq(shuffleVectors, 1, n - 1)
  BY DEF PopGroup, Popped
<1>2. /\ DOMAIN hand = Threads /\ hand[t] = NoGroup
      /\ shuffleVectors \in Seq(SUBSET Pairs)
  BY <1>1 DEF TypeOK, PhaseInv
<1>3. n \in Nat \ {0} /\ DOMAIN shuffleVectors = 1 .. n
  BY <1>2, EmptySeq, LenProperties
<1>4. /\ DOMAIN shuffleVectors' = 1 .. n - 1
      /\ \A k \in 1 .. n - 1 : shuffleVectors'[k] = shuffleVectors[k]
  <2>1. n - 1 \in 0 .. Len(shuffleVectors)
    BY <1>3
  <2>. QED
    BY <1>1, <1>2, <1>3, <2>1, LenProperties, SubSeqProperties
<1>. HIDE DEF n
<1>5. /\ Held[t] = {} /\ Held'[t] = shuffleVectors[n]
      /\ \A u \in Threads \ {t} : hand'[u] = hand[u] /\ Held'[u] = Held[u]
  BY <1>1, <1>2, UnionOfOne DEF Held, NoGroup
<1>6. n \in 1 .. n /\ \A k : k \in 1 .. n - 1 <=> k \in 1 .. n /\ k # n
  BY <1>3
<1>. QED
  BY <1>3, <1>4, <1>5, <1>6 DEF n

LEMMA ReduceFacts ==
  ASSUME TypeOK, NEW t \in Threads, Reduce(t)
  PROVE  /\ Held[t] = UNION hand[t] /\ Held[t] \in SUBSET Pairs /\ Held'[t] = {}
         /\ \A u \in Threads \ {t} : Held'[u] = Held[u]
<1>1. hand' = [hand EXCEPT ![t] = NoGroup] /\ DOMAIN hand = Threads
  BY DEF Reduce, TypeOK
<1>. QED
  BY <1>1, HandTyped, UnionOfOne DEF Held, NoGroup

(***************************************************************************)
(* No pair is in two places, and one that has been emitted is somewhere.   *)
(***************************************************************************)
OnceInv ==
  /\ Apart(Stock, Held, shuffleVectors, Out)
  /\ \A p \in Pairs : timesReduced[p] <= 1
  /\ \A i \in Mapped : \A p \in PairsOf[i] :
       \/ \E t \in Threads : p \in Own(t)
       \/ Anywhere(Stock, Held, shuffleVectors, Out, p)

LEMMA OnceInit == Init => OnceInv
<1>. SUFFICES ASSUME Init PROVE OnceInv
  OBVIOUS
<1>1. Stock = {} /\ Out = {} /\ DOMAIN shuffleVectors = {}
  BY DEF Init, Stock, Out
<1>2. \A t \in Threads : Held[t] = {}
  BY UnionOfOne DEF Init, Held, NoGroup
<1>3. Apart(Stock, Held, shuffleVectors, Out)
  BY <1>1, <1>2 DEF Apart
<1>4. Mapped = {}
  BY DEF Init, Mapped, Input
<1>. QED
  BY <1>3, <1>4 DEF Init, OnceInv

\* A step that moves no pair, and maps no input, before or after the shuffle.
LEMMA QuietOnce ==
  ASSUME OnceInv, Mapped' \subseteq Mapped,
         \A t \in Threads : Own(t) \subseteq Own(t)',
         vectors' = vectors, hand' = hand, shuffleVectors' = shuffleVectors,
         timesReduced' = timesReduced
  PROVE  OnceInv'
<1>1. Stock' = Stock /\ Held' = Held /\ Out' = Out
  BY DEF Stock, Held, Out
<1>2. Apart(Stock, Held, shuffleVectors, Out)'
  BY <1>1 DEF OnceInv, Apart
<1>3. \A p : Anywhere(Stock, Held, shuffleVectors, Out, p)
               => Anywhere(Stock, Held, shuffleVectors, Out, p)'
  BY <1>1 DEF Anywhere
<1>. QED
  BY <1>2, <1>3 DEF OnceInv

\* A step that moves pairs once they are all mapped.
LEMMA MovedOnce ==
  ASSUME OnceInv, Mapped' \subseteq Mapped,
         \A t \in Threads : Own(t) = {},
         Apart(Stock, Held, shuffleVectors, Out)',
         \A p \in Pairs : Anywhere(Stock, Held, shuffleVectors, Out, p)
                          => Anywhere(Stock, Held, shuffleVectors, Out, p)',
         \A p \in Pairs : timesReduced'[p] <= 1
  PROVE  OnceInv'
BY PairsOfAssumption DEF OnceInv, Mapped

\* shufflePhase begins: the sorted vectors become its stock.
LEMMA EraseOnce ==
  ASSUME Steady, PhaseInv, PhaseInv', OnceInv, EraseEmpty
  PROVE  OnceInv'
<1>1. /\ pc[First] \in Early /\ pc'[First] \notin Early /\ First \in Threads
      /\ pc' = [pc EXCEPT ![First] = "group"] /\ pc[First] = "shuffle"
      /\ pc \in [Threads -> ProgramPoints]
  BY FirstAndLast
  DEF Steady, TokenInv, TypeOK, EraseEmpty, Goto, Early, BeforeBarrier
<1>2. /\ vectors' = {sorted[t] : t \in Threads} \ {<< >>}
      /\ emitted' = emitted /\ inputVectorIndex' = inputVectorIndex /\ item' = item
      /\ hand' = hand /\ shuffleVectors' = shuffleVectors
      /\ timesReduced' = timesReduced
  BY DEF EraseEmpty, mapVars, queueVars, outputVars
<1>3. \A t \in Threads : emitted[t] = {} /\ hand[t] = NoGroup
  <2>1. \A t \in Threads : pc'[t] \notin BeforeBarrier
    BY <1>1 DEF PhaseInv
  <2>2. \A t \in Threads : emitted'[t] = {}
    BY <2>1 DEF PhaseInv
  <2>3. \A t \in Threads : pc[t] \in Early \cup {"wait"}
    BY <1>1 DEF PhaseInv, NothingToReduce
  <2>. QED
    BY <1>2, <2>2, <2>3 DEF PhaseInv, Early, BeforeBarrier
<1>4. /\ \A t \in Threads : Held'[t] = {}
      /\ DOMAIN shuffleVectors' = {} /\ Out = {} /\ Out' = {}
      /\ \A p \in Pairs : timesReduced[p] = 0
      /\ vectors = {} /\ shuffleVectors = << >>
  <2>1. vectors = {} /\ shuffleVectors = << >> /\ \A p \in Pairs : timesReduced[p] = 0
    BY <1>1 DEF PhaseInv, NothingToReduce
  <2>2. \A t \in Threads : Held'[t] = {}
    BY <1>2, <1>3, UnionOfOne DEF Held, NoGroup
  <2>. QED
    BY <1>2, <2>1, <2>2 DEF Out
<1>5. Apart(Stock, Held, shuffleVectors, Out)'
  BY <1>4 DEF Apart
<1>6. ASSUME NEW t \in Threads, NEW p \in Own(t) PROVE p \in Stock'
  <2>1. p \in Range(sorted[t])
    BY <1>3 DEF Own
  <2>2. sorted[t] \in vectors'
    BY <1>2, <2>1, EmptyRange
  <2>3. sorted[t] \in Seq(Pairs)
    BY DEF Steady, TokenInv, TypeOK
  <2>4. p \in Pairs
    BY <2>1, <2>3 DEF Range
  <2>. QED
    BY <2>1, <2>2, <2>4 DEF Stock
<1>7. \A p : ~ Anywhere(Stock, Held, shuffleVectors, Out, p)
  <2>1. Stock = {} /\ DOMAIN shuffleVectors = {} /\ Held' = Held
    BY <1>2, <1>4 DEF Stock, Held
  <2>. QED
    BY <1>4, <2>1 DEF Anywhere
<1>8. Mapped' = Mapped
  BY <1>1, <1>2 DEF Mapped
<1>9. \A i \in Mapped' : \A p \in PairsOf[i] : p \in Stock'
  BY <1>6, <1>7, <1>8 DEF OnceInv
<1>. QED
  BY <1>2, <1>5, <1>9 DEF OnceInv, Anywhere

\* A step of thread t after the inputs have been mapped.
LEMMA LateStep ==
  ASSUME Steady, PhaseInv, NEW t \in Threads, NEW point,
         pc' = [pc EXCEPT ![t] = point], pc[t] # "mapping",
         pc[First] \notin Early, UNCHANGED mapVars
  PROVE  Mapped' \subseteq Mapped /\ \A u \in Threads : Own(u) = {}
<1>1. \A u \in Threads : emitted[u] = {} /\ sorted[u] = << >>
  BY DEF PhaseInv
<1>2. pc \in [Threads -> ProgramPoints]
  BY DEF Steady, TokenInv, TypeOK
<1>. QED
  BY <1>1, <1>2, EmptyRange DEF Own, Mapped, mapVars

LEMMA TakeOnce ==
  ASSUME Steady, PhaseInv, OnceInv, TakeGroup
  PROVE  OnceInv'
<1>1. /\ First \in Threads /\ pc[First] = "group"
      /\ pc' = [pc EXCEPT ![First] = "push"] /\ UNCHANGED mapVars
      /\ shuffleVectors' = shuffleVectors /\ timesReduced' = timesReduced
  BY FirstAndLast DEF TakeGroup, Goto, queueVars, outputVars
<1>2. /\ Held[First] = {}
      /\ Held'[First] \cup Stock' = Stock
      /\ \A x \in Held'[First] : x \notin Stock'
      /\ \A u \in Threads \ {First} : Held'[u] = Held[u]
      /\ Apart(Stock, Held, shuffleVectors, Out)
  BY TakeFacts DEF Steady, TokenInv, OnceInv
<1>3. /\ Apart(Stock', Held', shuffleVectors, Out)
      /\ \A x : Anywhere(Stock, Held, shuffleVectors, Out, x)
              => Anywhere(Stock', Held', shuffleVectors, Out, x)
  BY <1>1, <1>2, TakeMove
<1>4. Mapped' \subseteq Mapped /\ \A u \in Threads : Own(u) = {}
  BY <1>1, LateStep DEF Early, BeforeBarrier
<1>5. Out' = Out
  BY <1>1 DEF Out
<1>6. /\ Apart(Stock, Held, shuffleVectors, Out)'
      /\ \A x : Anywhere(Stock, Held, shuffleVectors, Out, x)
              => Anywhere(Stock, Held, shuffleVectors, Out, x)'
  BY <1>1, <1>3, <1>5 DEF Apart, Anywhere
<1>. QED
  BY <1>1, <1>4, <1>6, MovedOnce DEF OnceInv

LEMMA PushOnce ==
  ASSUME Steady, PhaseInv, OnceInv, PushGroup
  PROVE  OnceInv'
<1>1. /\ First \in Threads /\ pc[First] = "push"
      /\ pc' = [pc EXCEPT ![First] = "post"] /\ UNCHANGED mapVars
      /\ vectors' = vectors /\ timesReduced' = timesReduced
  BY FirstAndLast DEF PushGroup, Goto, shuffleVars, outputVars
<1>2. /\ Apart(Stock, Held', shuffleVectors', Out)
      /\ \A x : Anywhere(Stock, Held, shuffleVectors, Out, x)
              => Anywhere(Stock, Held', shuffleVectors', Out, x)
  <2>1. First \in Threads /\ Apart(Stock, Held, shuffleVectors, Out)
    BY <1>1 DEF OnceInv
  <2>2. TypeOK
    BY DEF Steady, TokenInv
  <2>. QED
    BY ONLY <2>1, <2>2, PushGroup, PushFacts, PushMove
<1>3. Stock' = Stock /\ Out' = Out
  BY <1>1 DEF Stock, Out
<1>4. Mapped' \subseteq Mapped /\ \A u \in Threads : Own(u) = {}
  BY <1>1, LateStep DEF Early, BeforeBarrier
<1>5. /\ Apart(Stock, Held, shuffleVectors, Out)'
      /\ \A x : Anywhere(Stock, Held, shuffleVectors, Out, x)
              => Anywhere(Stock, Held, shuffleVectors, Out, x)'
  BY <1>2, <1>3 DEF Apart, Anywhere
<1>. QED
  BY <1>1, <1>4, <1>5, MovedOnce DEF OnceInv

LEMMA PopOnce ==
  ASSUME Steady, PhaseInv, OnceInv, NEW t \in Threads, PopGroup(t),
         shuffleVectors # << >>
  PROVE  OnceInv'
<1>1. /\ pc[t] = "check" /\ pc' = [pc EXCEPT ![t] = "decide"]
      /\ UNCHANGED mapVars
      /\ vectors' = vectors /\ timesReduced' = timesReduced
  BY DEF PopGroup, Goto, shuffleVars, outputVars
<1>2. /\ Apart(Stock, Held', shuffleVectors', Out)
      /\ \A x : Anywhere(Stock, Held, shuffleVectors, Out, x)
              => Anywhere(Stock, Held', shuffleVectors', Out, x)
  <2>1. TypeOK /\ Apart(Stock, Held, shuffleVectors, Out)
    BY DEF Steady, TokenInv, OnceInv
  <2>. QED
    BY <2>1, PopFacts, PopMove
<1>3. Stock' = Stock /\ Out' = Out
  BY <1>1 DEF Stock, Out
<1>4. pc[First] \notin Early
  BY <1>1 DEF PhaseInv, NothingToReduce, Early, BeforeBarrier
<1>5. Mapped' \subseteq Mapped /\ \A u \in Threads : Own(u) = {}
  BY <1>1, <1>4, LateStep
<1>6. /\ Apart(Stock, Held, shuffleVectors, Out)'
      /\ \A x : Anywhere(Stock, Held, shuffleVectors, Out, x)
              => Anywhere(Stock, Held, shuffleVectors, Out, x)'
  BY <1>2, <1>3 DEF Apart, Anywhere
<1>. QED
  BY <1>1, <1>5, <1>6, MovedOnce DEF OnceInv

LEMMA ReduceOnce ==
  ASSUME Steady, PhaseInv, OnceInv, NEW t \in Threads, Reduce(t)
  PROVE  OnceInv'
<1>1. /\ pc[t] = "reduce" /\ pc' = [pc EXCEPT ![t] = "wait"]
      /\ UNCHANGED mapVars
      /\ vectors' = vectors /\ shuffleVectors' = shuffleVectors
      /\ timesReduced' =
           [p \in Pairs |-> timesReduced[p] + IF p \in UNION hand[t] THEN 1 ELSE 0]
      /\ timesReduced \in [Pairs -> Nat]
  BY DEF Steady, TokenInv, TypeOK, Reduce, Goto, shuffleVars, queueVars
<1>2. /\ Held[t] = UNION hand[t] /\ Held[t] \in SUBSET Pairs /\ Held'[t] = {}
      /\ \A u \in Threads \ {t} : Held'[u] = Held[u]
  BY ReduceFacts DEF Steady, TokenInv
<1>3. \A p \in Held[t] : timesReduced[p] = 0
  BY <1>2 DEF OnceInv, Apart, Out
<1>4. \A p \in Pairs :
        timesReduced'[p] = IF p \in Held[t] THEN 1 ELSE timesReduced[p]
  BY <1>1, <1>2, <1>3
<1>5. Out' = Out \cup Held[t] /\ \A p \in Pairs : timesReduced'[p] <= 1
  BY <1>2, <1>4 DEF OnceInv, Out
<1>6. /\ Apart(Stock, Held', shuffleVectors, Out')
      /\ \A x : Anywhere(Stock, Held, shuffleVectors, Out, x)
              => Anywhere(Stock, Held', shuffleVectors, Out', x)
  BY <1>2, <1>5, OutMove DEF OnceInv
<1>7. Stock' = Stock
  BY <1>1 DEF Stock
<1>8. pc[First] \notin Early
  BY <1>1 DEF PhaseInv, NothingToReduce, Early, BeforeBarrier
<1>9. Mapped' \subseteq Mapped /\ \A u \in Threads : Own(u) = {}
  BY <1>1, <1>8, LateStep
<1>10. /\ Apart(Stock, Held, shuffleVectors, Out)'
       /\ \A x : Anywhere(Stock, Held, shuffleVectors, Out, x)
               => Anywhere(Stock, Held, shuffleVectors, Out, x)'
  BY <1>1, <1>6, <1>7 DEF Apart, Anywhere
<1>. QED
  BY <1>5, <1>9, <1>10, MovedOnce

\* The client's map adds what it emits for the input in hand.
LEMMA MapOnce ==
  ASSUME Steady, PhaseInv, OnceInv, NEW t \in Threads, Map(t)
  PROVE  OnceInv'
<1>1. /\ pc[t] = "mapping" /\ pc' = [pc EXCEPT ![t] = "map"]
      /\ pc \in [Threads -> ProgramPoints]
      /\ emitted \in [Threads -> SUBSET Pairs]
      /\ emitted' = [emitted EXCEPT ![t] = @ \cup PairsOf[item[t]]]
      /\ inputVectorIndex' = inputVectorIndex /\ item' = item
      /\ sorted' = sorted /\ vectors' = vectors /\ hand' = hand
      /\ shuffleVectors' = shuffleVectors /\ timesReduced' = timesReduced
  BY DEF Steady, TokenInv, TypeOK, Map, Goto, shuffleVars, queueVars, outputVars
<1>2. /\ \A u \in Threads : Own(u) \subseteq Own(u)'
      /\ PairsOf[item[t]] \subseteq Own(t)'
  BY <1>1 DEF Own
<1>3. Mapped' \subseteq Mapped \cup {item[t]}
  BY <1>1 DEF Mapped
<1>4. Stock' = Stock /\ Held' = Held /\ Out' = Out
  BY <1>1 DEF Stock, Held, Out
<1>5. Apart(Stock, Held, shuffleVectors, Out)'
  BY <1>1, <1>4 DEF OnceInv, Apart
<1>6. \A p : Anywhere(Stock, Held, shuffleVectors, Out, p)
               => Anywhere(Stock, Held, shuffleVectors, Out, p)'
  BY <1>1, <1>4 DEF Anywhere
<1>. QED
  BY <1>1, <1>2, <1>3, <1>5, <1>6 DEF OnceInv

LEMMA TakeInputOnce ==
  ASSUME Steady, OnceInv, NEW t \in Threads, TakeInput(t)
  PROVE  OnceInv'
<1>1. /\ pc[t] = "map" /\ pc \in [Threads -> ProgramPoints]
      /\ pc' = [pc EXCEPT ![t] = IF inputVectorIndex < InputSize
                                 THEN "mapping" ELSE "sort"]
      /\ item \in [Threads -> Nat] /\ inputVectorIndex \in Nat /\ InputSize \in Nat
      /\ inputVectorIndex' = inputVectorIndex + 1
      /\ item' = [item EXCEPT ![t] = inputVectorIndex + 1]
      /\ emitted' = emitted /\ sorted' = sorted /\ vectors' = vectors
      /\ hand' = hand /\ shuffleVectors' = shuffleVectors
      /\ timesReduced' = timesReduced
  BY InputSizeAssumption
  DEF Steady, TokenInv, TypeOK, TakeInput, Goto, shuffleVars, queueVars, outputVars
<1>2. ASSUME NEW i \in Mapped' PROVE i \in Mapped
  <2>1. i \in 1 .. InputSize /\ i <= inputVectorIndex + 1
    BY <1>1 DEF Mapped, Input
  <2>2. \A u \in Threads : pc'[u] = "mapping" => item'[u] # i
    BY DEF Mapped
  <2>3. i # inputVectorIndex + 1
    <3>1. SUFFICES ASSUME i = inputVectorIndex + 1 PROVE FALSE
      OBVIOUS
    <3>2. inputVectorIndex < InputSize
      BY <1>1, <2>1, <3>1
    <3>3. pc'[t] = "mapping" /\ item'[t] = i
      BY <1>1, <3>1, <3>2
    <3>. QED
      BY <2>2, <3>3
  <2>4. i <= inputVectorIndex
    BY <1>1, <2>1, <2>3
  <2>5. \A u \in Threads : pc[u] = "mapping" => item[u] # i
    BY <1>1, <2>2
  <2>. QED
    BY <2>1, <2>4, <2>5 DEF Mapped, Input
<1>3. \A u \in Threads : Own(u) \subseteq Own(u)'
  BY <1>1 DEF Own
<1>. QED
  BY <1>1, <1>2, <1>3, QuietOnce

LEMMA SortOnce ==
  ASSUME Steady, PhaseInv, OnceInv, NEW t \in Threads, SortPhase(t)
  PROVE  OnceInv'
<1>1. PICK s \in SortedOrders(emitted[t]) : sorted' = [sorted EXCEPT ![t] = s]
  BY DEF SortPhase
<1>2. /\ pc[t] = "sort" /\ pc \in [Threads -> ProgramPoints]
      /\ pc' = [pc EXCEPT ![t] = "barrier"]
      /\ emitted \in [Threads -> SUBSET Pairs] /\ sorted \in [Threads -> Seq(Pairs)]
      /\ emitted' = [emitted EXCEPT ![t] = {}]
      /\ inputVectorIndex' = inputVectorIndex /\ item' = item /\ vectors' = vectors
      /\ hand' = hand /\ shuffleVectors' = shuffleVectors
      /\ timesReduced' = timesReduced
  BY DEF Steady, TokenInv, TypeOK, SortPhase, Goto, queueVars, outputVars
<1>3. Range(s) = emitted[t]
  BY <1>2, SortedRange
<1>4. sorted[t] = << >>
  BY <1>2 DEF PhaseInv, BeforeBarrier
<1>5. \A u \in Threads : Own(u) \subseteq Own(u)'
  BY <1>1, <1>2, <1>3, <1>4, EmptyRange DEF Own
<1>6. Mapped' \subseteq Mapped
  BY <1>2 DEF Mapped
<1>. QED
  BY <1>2, <1>5, <1>6, QuietOnce

LEMMA OnceStep ==
  Steady /\ PhaseInv /\ PhaseInv' /\ OnceInv /\ [Next]_mrVars => OnceInv'
<1>. SUFFICES ASSUME Steady, PhaseInv, PhaseInv', OnceInv, [Next]_mrVars
              PROVE  OnceInv'
  OBVIOUS
<1>1. pc \in [Threads -> ProgramPoints] /\ First \in Threads /\ Last \in Threads
  BY FirstAndLast DEF Steady, TokenInv, TypeOK
<1>2. ASSUME NEW t \in Threads, NEW point,
             pc' = [pc EXCEPT ![t] = point], pc[t] # "mapping",
             UNCHANGED <<mapVars, sorted, vectors, hand, shuffleVectors, timesReduced>>
      PROVE  OnceInv'
  <2>1. Mapped' \subseteq Mapped
    BY <1>1, <1>2 DEF Mapped, mapVars
  <2>2. \A u \in Threads : Own(u) \subseteq Own(u)'
    BY <1>2 DEF Own, mapVars
  <2>. QED
    BY <1>2, <2>1, <2>2, QuietOnce
<1>3. ASSUME NEW t \in Threads, Create(t) \/ PassBarrier(t) PROVE OnceInv'
  BY <1>2, <1>3
  DEF Create, PassBarrier, Goto, shuffleVars, queueVars, outputVars
<1>4. CASE BecomeLast \/ Join
  BY <1>1, <1>2, <1>4
  DEF BecomeLast, Join, Goto, shuffleVars, queueVars, outputVars
<1>5. ASSUME NEW t \in Threads, TakeInput(t) \/ Map(t) \/ SortPhase(t)
      PROVE  OnceInv'
  BY <1>5, TakeInputOnce, MapOnce, SortOnce
<1>6. CASE EraseEmpty \/ TakeGroup \/ PushGroup
  BY <1>6, EraseOnce, TakeOnce, PushOnce
<1>7. CASE PostGroup \/ NoMoreGroups \/ ShuffleDone \/ EndShuffle
  BY <1>1, <1>2, <1>7
  DEF PostGroup, NoMoreGroups, ShuffleDone, EndShuffle, Goto, shuffleVars,
      queueVars, outputVars
<1>8. ASSUME NEW t \in Threads, SemWait(t) \/ Decide(t) PROVE OnceInv'
  BY <1>2, <1>8 DEF SemWait, Decide, Goto, shuffleVars, queueVars, outputVars
<1>9. ASSUME NEW t \in Threads, PopGroup(t) PROVE OnceInv'
  <2>1. CASE shuffleVectors = << >>
    <3>1. hand[t] = NoGroup
      BY <1>9 DEF PopGroup, PhaseInv
    <3>2. hand' = hand
      BY <1>9, <2>1, <3>1 DEF PopGroup, Steady, TokenInv, TypeOK
    <3>. QED
      BY <1>2, <1>9, <2>1, <3>2 DEF PopGroup, Goto, shuffleVars, outputVars
  <2>. QED
    BY <1>9, <2>1, PopOnce
<1>10. ASSUME NEW t \in Threads, Reduce(t) PROVE OnceInv'
  BY <1>10, ReduceOnce
<1>11. CASE PostFinal \/ UNCHANGED mrVars
  <2>1. /\ pc' = pc /\ UNCHANGED mapVars /\ sorted' = sorted /\ vectors' = vectors
        /\ hand' = hand /\ shuffleVectors' = shuffleVectors
        /\ timesReduced' = timesReduced
    BY <1>11 DEF PostFinal, mrVars, shuffleVars, queueVars, outputVars
  <2>. QED
    BY <2>1, QuietOnce DEF Mapped, Own, mapVars
<1>. QED
  BY <1>3, <1>4, <1>5, <1>6, <1>7, <1>8, <1>9, <1>10, <1>11
  DEF Next, Framework, Step, ShufflePhase, ReducePhase

LEMMA SteadyAlways == Spec => [](Steady /\ PhaseInv)
<1>1. Init => ItemFits
  BY DEF Init, ItemFits
<1>2. TokenInv => TypeOK
  BY DEF TokenInv
<1>3. MeetInv /\ TokenInv /\ ItemFits => Steady
  BY DEF Steady
<1>. QED
  BY <1>1, <1>2, <1>3, MeetInit, MeetStep, TokenInit, TokenStep, ItemStep, TypeStep,
     PhaseInit, PhaseStep, PTL DEF Spec

(***************************************************************************)
(* No pair is passed to reduce twice, whatever the threads do, and when    *)
(* runMapReduceFramework returns every pair that map emitted has been      *)
(* passed to it: no group is lost between the vectors, the queue and the   *)
(* threads' hands.                                                         *)
(***************************************************************************)
THEOREM PairsReducedOnce == Spec => []EveryPairReducedOnce
<1>1. OnceInv /\ Steady /\ PhaseInv /\ QueueStaysEmpty /\ AllGone
        => EveryPairReducedOnce
  <2>. SUFFICES ASSUME OnceInv, Steady, PhaseInv, QueueStaysEmpty, AllGone
                PROVE  EveryPairReducedOnce
    OBVIOUS
  <2>1. ASSUME Returned, NEW i \in Input, NEW p \in PairsOf[i]
        PROVE  timesReduced[p] = 1
    <3>1. \A t \in Threads : pc[t] \in Gone /\ hand[t] = NoGroup
      BY <2>1 DEF AllGone, Returned
    <3>2. Last \in Threads /\ Last \in SawEmpty
      BY <3>1, FirstAndLast DEF SawEmpty, Gone
    <3>3. shuffleVectors = << >>
      BY <3>2 DEF QueueStaysEmpty
    <3>4. vectors = {} /\ \A t \in Threads : sorted[t] = << >> /\ emitted[t] = {}
      BY <3>1, FirstAndLast DEF PhaseInv, Gone, Early, BeforeBarrier
    <3>5. \A t \in Threads : Own(t) = {}
      BY <3>4, EmptyRange DEF Own
    <3>6. i \in Mapped
      <4>1. InputSize <= inputVectorIndex
        BY <3>1, FirstAndLast DEF PhaseInv, Gone, Filling
      <4>2. inputVectorIndex \in Nat /\ InputSize \in Nat
        BY InputSizeAssumption DEF Steady, TokenInv, TypeOK
      <4>3. i <= inputVectorIndex
        BY <4>1, <4>2 DEF Input
      <4>. QED
        BY <3>1, <4>3 DEF Mapped, Gone
    <3>7. Anywhere(Stock, Held, shuffleVectors, Out, p)
      BY <2>1, <3>5, <3>6 DEF OnceInv
    <3>8. Stock = {} /\ DOMAIN shuffleVectors = {} /\ \A t \in Threads : Held[t] = {}
      BY <3>1, <3>3, <3>4, UnionOfOne DEF Stock, Held, NoGroup
    <3>9. p \in Out
      BY <3>7, <3>8 DEF Anywhere
    <3>10. timesReduced[p] \in Nat /\ timesReduced[p] # 0 /\ timesReduced[p] <= 1
      BY <3>9 DEF Out, OnceInv, Steady, TokenInv, TypeOK
    <3>. QED
      BY <3>10
  <2>. QED
    BY <2>1 DEF EveryPairReducedOnce, AllPairs, OnceInv
<1>2. Init => QueueStaysEmpty /\ AllGone
  BY FirstAndLast DEF Init, QueueStaysEmpty, AllGone, SawEmpty, Gone
<1>3. Steady => TokenInv
  BY DEF Steady
<1>. QED
  BY <1>1, <1>2, <1>3, SteadyAlways, OnceInit, OnceStep, QueueStep, AllGoneStep,
     PTL DEF Spec

-----------------------------------------------------------------------------
(***************************************************************************)
(* The vectors: each is in the order of the keys, no two share a pair, and *)
(* the inputs that are being mapped are not yet in any of them.            *)
(***************************************************************************)
KeyOrder == {pq \in Pairs \X Pairs : KeyOf[pq[1]] <= KeyOf[pq[2]]}

OwnInv ==
  /\ \A t \in Threads : pc[t] = "mapping" =>
       /\ item[t] <= inputVectorIndex
       /\ \A u \in Threads \ {t} : pc[u] = "mapping" => item[u] # item[t]
  /\ \A t \in Threads : \A p \in Own(t) :
       /\ \E i \in Mapped : p \in PairsOf[i]
       /\ \A u \in Threads \ {t} : p \notin Own(u)
  /\ \A t \in Threads : Ordered(sorted[t], KeyOrder)

VectorsInv ==
  \A v \in vectors :
    /\ v # << >>
    /\ Ordered(v, KeyOrder)
    /\ \A w \in vectors \ {v} : \A p \in Range(v) : p \notin Range(w)

FillInv == OwnInv /\ VectorsInv

LEMMA FillInit == Init => FillInv
<1>. SUFFICES ASSUME Init PROVE FillInv
  OBVIOUS
<1>1. \A t \in Threads : pc[t] # "mapping" /\ Own(t) = {} /\ sorted[t] = << >>
  BY EmptyRange DEF Init, Own
<1>2. Ordered(<< >>, KeyOrder)
  BY DEF Ordered
<1>3. vectors = {}
  BY DEF Init
<1>. QED
  BY <1>1, <1>2, <1>3 DEF FillInv, OwnInv, VectorsInv

LEMMA TakeInputOwn ==
  ASSUME Steady, FillInv, NEW t \in Threads, TakeInput(t)
  PROVE  OwnInv'
<1>1. /\ pc[t] = "map" /\ pc \in [Threads -> ProgramPoints]
      /\ pc' = [pc EXCEPT ![t] = IF inputVectorIndex < InputSize
                                 THEN "mapping" ELSE "sort"]
      /\ item \in [Threads -> Nat] /\ inputVectorIndex \in Nat
      /\ inputVectorIndex' = inputVectorIndex + 1
      /\ item' = [item EXCEPT ![t] = inputVectorIndex + 1]
      /\ emitted' = emitted /\ sorted' = sorted
  BY DEF Steady, TokenInv, TypeOK, TakeInput, Goto, shuffleVars
<1>2. \A u \in Threads \ {t} : pc'[u] = "mapping" =>
        pc[u] = "mapping" /\ item'[u] = item[u] /\ item[u] <= inputVectorIndex
  BY <1>1 DEF FillInv, OwnInv
<1>3. item'[t] = inputVectorIndex + 1
  BY <1>1
<1>4. \A u \in Threads : pc'[u] = "mapping" =>
        /\ item'[u] <= inputVectorIndex'
        /\ \A w \in Threads \ {u} : pc'[w] = "mapping" => item'[w] # item'[u]
  <2>1. \A n \in Nat : n <= inputVectorIndex =>
          n <= inputVectorIndex + 1 /\ n # inputVectorIndex + 1
    BY <1>1
  <2>2. \A u \in Threads \ {t} : pc'[u] = "mapping" =>
          item'[u] <= inputVectorIndex + 1 /\ item'[u] # inputVectorIndex + 1
    BY <1>1, <1>2, <2>1
  <2>3. inputVectorIndex + 1 <= inputVectorIndex + 1
    BY <1>1
  <2>4. ASSUME NEW u \in Threads \ {t}, NEW w \in Threads \ {u},
               pc'[u] = "mapping", pc'[w] = "mapping"
        PROVE  item'[w] # item'[u]
    BY <1>2, <1>3, <2>2, <2>4 DEF FillInv, OwnInv
  <2>. QED
    BY <1>1, <1>3, <2>2, <2>3, <2>4
<1>5. Mapped \subseteq Mapped'
  <2>. SUFFICES ASSUME NEW i \in Mapped PROVE i \in Mapped'
    OBVIOUS
  <2>1. i \in Input /\ i \in Nat /\ i <= inputVectorIndex
        /\ \A u \in Threads : pc[u] = "mapping" => item[u] # i
    BY DEF Mapped, Input
  <2>2. i <= inputVectorIndex + 1 /\ i # inputVectorIndex + 1
    BY <1>1, <2>1
  <2>3. \A u \in Threads : pc'[u] = "mapping" => item'[u] # i
    BY <1>2, <1>3, <2>1, <2>2
  <2>. QED
    BY <1>1, <2>1, <2>2, <2>3 DEF Mapped
<1>6. \A u \in Threads : Own(u)' = Own(u)
  BY <1>1 DEF Own
<1>. QED
  BY <1>1, <1>4, <1>5, <1>6 DEF FillInv, OwnInv

LEMMA MapOwn ==
  ASSUME Steady, PhaseInv, FillInv, NEW t \in Threads, Map(t)
  PROVE  OwnInv'
<1>1. /\ pc[t] = "mapping" /\ pc' = [pc EXCEPT ![t] = "map"]
      /\ pc \in [Threads -> ProgramPoints]
      /\ emitted \in [Threads -> SUBSET Pairs]
      /\ emitted' = [emitted EXCEPT ![t] = @ \cup PairsOf[item[t]]]
      /\ inputVectorIndex' = inputVectorIndex /\ item' = item /\ sorted' = sorted
  BY DEF Steady, TokenInv, TypeOK, Map, Goto, shuffleVars
<1>2. /\ Own(t)' = Own(t) \cup PairsOf[item[t]]
      /\ \A u \in Threads \ {t} : Own(u)' = Own(u)
  BY <1>1 DEF Own
<1>3. item[t] \in Input
  BY <1>1 DEF Steady, ItemFits
<1>4. item[t] \in Mapped' /\ Mapped \subseteq Mapped' /\ item[t] \notin Mapped
  BY <1>1, <1>3 DEF FillInv, OwnInv, Mapped
<1>5. ASSUME NEW u \in Threads, NEW p \in Own(u) PROVE p \notin PairsOf[item[t]]
  <2>1. PICK i \in Mapped : p \in PairsOf[i]
    BY DEF FillInv, OwnInv
  <2>2. i \in Input /\ i # item[t]
    BY <1>4 DEF Mapped
  <2>. QED
    BY <1>3, <2>1, <2>2, PairsOfAssumption
<1>6. \A u \in Threads : pc'[u] = "mapping" => pc[u] = "mapping" /\ u # t
  BY <1>1
<1>7. \A u \in Threads : \A p \in Own(u)' :
        /\ \E i \in Mapped' : p \in PairsOf[i]
        /\ \A w \in Threads \ {u} : p \notin Own(w)'
  <2>. SUFFICES ASSUME NEW u \in Threads, NEW p \in Own(u)'
                PROVE  /\ \E i \in Mapped' : p \in PairsOf[i]
                       /\ \A w \in Threads \ {u} : p \notin Own(w)'
    OBVIOUS
  <2>1. CASE p \in Own(u)
    BY <1>2, <1>4, <1>5, <2>1 DEF FillInv, OwnInv
  <2>2. CASE p \notin Own(u)
    <3>1. u = t /\ p \in PairsOf[item[t]]
      BY <1>2, <2>2
    <3>. QED
      BY <1>2, <1>4, <1>5, <3>1
  <2>. QED
    BY <2>1, <2>2
<1>. QED
  BY <1>1, <1>6, <1>7 DEF FillInv, OwnInv

LEMMA SortOwn ==
  ASSUME Steady, PhaseInv, FillInv, NEW t \in Threads, SortPhase(t)
  PROVE  OwnInv'
<1>1. PICK s \in SortedOrders(emitted[t]) : sorted' = [sorted EXCEPT ![t] = s]
  BY DEF SortPhase
<1>2. /\ pc[t] = "sort" /\ pc \in [Threads -> ProgramPoints]
      /\ pc' = [pc EXCEPT ![t] = "barrier"]
      /\ emitted \in [Threads -> SUBSET Pairs] /\ sorted \in [Threads -> Seq(Pairs)]
      /\ emitted' = [emitted EXCEPT ![t] = {}]
      /\ inputVectorIndex' = inputVectorIndex /\ item' = item
  BY DEF Steady, TokenInv, TypeOK, SortPhase, Goto
<1>3. Range(s) = emitted[t]
  BY <1>2, SortedRange
<1>4. sorted[t] = << >>
  BY <1>2 DEF PhaseInv, BeforeBarrier
<1>5. \A u \in Threads : Own(u)' = Own(u)
  BY <1>1, <1>2, <1>3, <1>4, EmptyRange DEF Own
<1>6. Mapped' = Mapped
  BY <1>2 DEF Mapped
<1>7. Ordered(s, KeyOrder)
  <2>1. emitted[t] \in SUBSET Pairs
    BY <1>2
  <2>2. s \in [1 .. Cardinality(emitted[t]) -> emitted[t]]
        /\ \A i, j \in 1 .. Cardinality(emitted[t]) :
             i < j => KeyOf[s[i]] <= KeyOf[s[j]]
    BY DEF SortedOrders
  <2>. QED
    BY <2>1, <2>2 DEF Ordered, KeyOrder
<1>8. \A u \in Threads : pc'[u] = "mapping" => pc[u] = "mapping"
  BY <1>2
<1>9. \A u \in Threads : Ordered(sorted'[u], KeyOrder)
  BY <1>1, <1>2, <1>7 DEF FillInv, OwnInv
<1>. QED
  BY <1>2, <1>5, <1>6, <1>8, <1>9 DEF FillInv, OwnInv

LEMMA EraseFill ==
  ASSUME Steady, PhaseInv, PhaseInv', FillInv, EraseEmpty
  PROVE  FillInv'
<1>1. /\ First \in Threads /\ pc[First] = "shuffle"
      /\ pc \in [Threads -> ProgramPoints]
      /\ pc' = [pc EXCEPT ![First] = "group"]
      /\ vectors' = {sorted[t] : t \in Threads} \ {<< >>}
      /\ sorted' = [t \in Threads |-> << >>]
      /\ inputVectorIndex' = inputVectorIndex /\ item' = item
  BY FirstAndLast DEF Steady, TokenInv, TypeOK, EraseEmpty, Goto, mapVars
<1>2. \A t \in Threads : pc'[t] \notin BeforeBarrier
  BY <1>1 DEF PhaseInv, Early, BeforeBarrier
<1>3. \A t \in Threads : Own(t)' = {} /\ pc'[t] # "mapping"
  BY <1>1, <1>2, EmptyRange DEF Own, PhaseInv, BeforeBarrier
<1>4. \A t \in Threads : Ordered(sorted'[t], KeyOrder)
  BY <1>1 DEF Ordered
<1>5. OwnInv'
  BY <1>3, <1>4 DEF OwnInv
<1>6. \A t \in Threads : Range(sorted[t]) \subseteq Own(t)
  BY DEF Own
<1>7. \A t \in Threads : Ordered(sorted[t], KeyOrder)
  BY DEF FillInv, OwnInv
<1>8. \A t \in Threads : \A p \in Range(sorted[t]) :
        \A u \in Threads \ {t} : p \notin Range(sorted[u])
  BY <1>6 DEF FillInv, OwnInv
<1>9. VectorsInv'
  <2>. SUFFICES ASSUME NEW t \in Threads, sorted[t] # << >>
                PROVE  /\ Ordered(sorted[t], KeyOrder)
                       /\ \A u \in Threads : sorted[u] # sorted[t] =>
                            \A p \in Range(sorted[t]) : p \notin Range(sorted[u])
    BY <1>1 DEF VectorsInv
  <2>. QED
    BY <1>7, <1>8
<1>. QED
  BY <1>5, <1>9 DEF FillInv

LEMMA TakeFill ==
  ASSUME Steady, PhaseInv, FillInv, TakeGroup
  PROVE  VectorsInv'
<1>. DEFINE rest    == Pairs \ NextGroup(vectors, address)
            kept(v) == KeepIn(v, rest)
<1>1. vectors' = {kept(v) : v \in vectors} \ {<< >>}
  BY DEF TakeGroup, Remaining
<1>2. ASSUME NEW v \in vectors
      PROVE  /\ Range(kept(v)) \subseteq Range(v)
             /\ Ordered(kept(v), KeyOrder)
  <2>1. v \in Seq(Pairs) /\ Ordered(v, KeyOrder)
    BY DEF Steady, TokenInv, TypeOK, FillInv, VectorsInv
  <2>. HIDE DEF rest
  <2>2. Range(KeepIn(v, rest)) = Range(v) \cap rest
    BY <2>1, KeepInProperties
  <2>3. Ordered(KeepIn(v, rest), KeyOrder)
    BY <2>1, KeepInOrder
  <2>. QED
    BY <2>2, <2>3
<1>. HIDE DEF kept
<1>3. ASSUME NEW v \in vectors, NEW w \in vectors, kept(v) # kept(w)
      PROVE  \A p \in Range(kept(v)) : p \notin Range(kept(w))
  <2>1. v # w
    BY <1>3
  <2>2. \A p \in Range(v) : p \notin Range(w)
    BY <2>1 DEF FillInv, VectorsInv
  <2>. QED
    BY <1>2, <2>2
<1>. QED
  BY <1>1, <1>2, <1>3 DEF VectorsInv

LEMMA FillStep ==
  Steady /\ PhaseInv /\ PhaseInv' /\ FillInv /\ [Next]_mrVars => FillInv'
<1>. SUFFICES ASSUME Steady, PhaseInv, PhaseInv', FillInv, [Next]_mrVars
              PROVE  FillInv'
  OBVIOUS
<1>1. pc \in [Threads -> ProgramPoints] /\ First \in Threads /\ Last \in Threads
  BY FirstAndLast DEF Steady, TokenInv, TypeOK
<1>2. ASSUME NEW t \in Threads, NEW point, point # "mapping", pc[t] # "mapping",
             pc' = [pc EXCEPT ![t] = point],
             UNCHANGED <<mapVars, sorted>>
      PROVE  OwnInv'
  <2>1. \A u \in Threads : pc'[u] = "mapping" <=> pc[u] = "mapping"
    BY <1>1, <1>2
  <2>2. Mapped' = Mapped
    BY <1>2, <2>1 DEF Mapped, mapVars
  <2>3. \A u \in Threads : Own(u)' = Own(u)
    BY <1>2 DEF Own, mapVars
  <2>. QED
    BY <1>2, <2>1, <2>2, <2>3 DEF FillInv, OwnInv, mapVars
<1>3. ASSUME vectors' = vectors PROVE VectorsInv'
  BY <1>3 DEF FillInv, VectorsInv
<1>4. ASSUME NEW t \in Threads, Create(t) \/ PassBarrier(t) PROVE FillInv'
  BY <1>2, <1>3, <1>4 DEF Create, PassBarrier, Goto, shuffleVars, FillInv
<1>5. CASE BecomeLast \/ Join
  BY <1>1, <1>2, <1>3, <1>5 DEF BecomeLast, Join, Goto, shuffleVars, FillInv
<1>6. ASSUME NEW t \in Threads, TakeInput(t) \/ Map(t) \/ SortPhase(t)
      PROVE  FillInv'
  <2>1. vectors' = vectors
    BY <1>6 DEF TakeInput, Map, SortPhase, shuffleVars
  <2>. QED
    BY <1>3, <1>6, <2>1, TakeInputOwn, MapOwn, SortOwn DEF FillInv
<1>7. CASE EraseEmpty
  BY <1>7, EraseFill
<1>8. CASE TakeGroup
  <2>1. OwnInv'
    BY <1>1, <1>2, <1>8 DEF TakeGroup, Goto
  <2>. QED
    BY <1>8, <2>1, TakeFill DEF FillInv
<1>9. CASE PushGroup \/ PostGroup \/ NoMoreGroups \/ ShuffleDone \/ EndShuffle
  BY <1>1, <1>2, <1>3, <1>9
  DEF PushGroup, PostGroup, NoMoreGroups, ShuffleDone, EndShuffle, Goto,
      shuffleVars, FillInv
<1>10. ASSUME NEW t \in Threads, ReducePhase(t) PROVE FillInv'
  BY <1>2, <1>3, <1>10
  DEF ReducePhase, SemWait, PopGroup, Decide, Reduce, Goto, shuffleVars, FillInv
<1>11. CASE PostFinal \/ UNCHANGED mrVars
  <2>1. pc' = pc /\ UNCHANGED mapVars /\ sorted' = sorted /\ vectors' = vectors
    BY <1>11 DEF PostFinal, mrVars, shuffleVars
  <2>. QED
    BY <1>3, <2>1 DEF FillInv, OwnInv, Own, Mapped, mapVars
<1>. QED
  BY <1>4, <1>5, <1>6, <1>7, <1>8, <1>9, <1>10, <1>11
  DEF Next, Framework, Step, ShufflePhase

-----------------------------------------------------------------------------
(***************************************************************************)
(* The groups.  The vectors have different first pairs, and these different*)
(* addresses, so the least vector exists, and its first pair is in.        *)
(***************************************************************************)
OneKeyed(group) == \E key \in Nat : KeysOf(group) = {key}

GroupsInv ==
  /\ pc[First] = "push" => hand[First] # NoGroup
  /\ \A t \in Threads : hand[t] # NoGroup => OneKeyed(UNION hand[t])
  /\ \A k \in DOMAIN shuffleVectors : OneKeyed(shuffleVectors[k])

IsLeast(v) == \A w \in vectors \ {v} : VectorComp(v, w, address)

LEMMA LeastVector ==
  ASSUME TypeOK, VectorsInv, vectors # {}
  PROVE  \E v \in vectors : IsLeast(v)
<1>1. ASSUME NEW v \in vectors
      PROVE  v[1] \in Range(v) /\ v[1] \in Pairs /\ address[v[1]] \in Nat
  <2>1. v \in Seq(Pairs) /\ v # << >>
    BY DEF TypeOK, VectorsInv
  <2>2. 1 \in DOMAIN v
    BY <2>1, EmptySeq, LenProperties
  <2>3. v[1] \in Pairs
    BY <2>1, <2>2, ElementOfSeq, LenProperties
  <2>. QED
    BY <2>2, <2>3, AddressesAssumption DEF TypeOK, Range
<1>. DEFINE A == {address[v[1]] : v \in vectors}
<1>2. A \in SUBSET Nat /\ A # {}
  BY <1>1
<1>3. PICK a \in A : \A b \in A : a <= b
  <2>. HIDE DEF A
  <2>. QED
    BY <1>2, LeastNat
<1>4. PICK v \in vectors : a = address[v[1]]
  OBVIOUS
<1>5. ASSUME NEW w \in vectors \ {v} PROVE address[v[1]] < address[w[1]]
  <2>1. v[1] # w[1]
    BY <1>1 DEF VectorsInv
  <2>2. address[v[1]] # address[w[1]]
    BY <1>1, <2>1, AddressesAssumption DEF TypeOK
  <2>3. address[v[1]] <= address[w[1]]
    BY <1>3, <1>4
  <2>. QED
    BY <1>1, <2>2, <2>3
<1>. QED
  BY <1>5 DEF IsLeast, VectorComp

LEMMA NextGroupOneKeyed ==
  ASSUME TypeOK, VectorsInv, vectors # {}
  PROVE  /\ OneKeyed(NextGroup(vectors, address))
         /\ KeysOf(NextGroup(vectors, address)) = {CurrKey(vectors, address)}
         /\ \E v \in vectors : /\ IsLeast(v) /\ v \in Seq(Pairs) /\ v # << >>
                              /\ CurrKey(vectors, address) = KeyOf[v[1]]
<1>. DEFINE v == CHOOSE v \in vectors : \A w \in vectors \ {v} : VectorComp(v, w, address)
<1>1. v \in vectors /\ IsLeast(v)
  BY LeastVector DEF IsLeast
<1>2. CurrKey(vectors, address) = KeyOf[v[1]]
  BY DEF CurrKey
<1>. HIDE DEF v
<1>3. v \in Seq(Pairs) /\ v # << >>
  BY <1>1 DEF TypeOK, VectorsInv
<1>4. 1 \in DOMAIN v /\ v[1] \in Pairs
  BY <1>3, EmptySeq, LenProperties, ElementOfSeq
<1>5. KeyOf[v[1]] \in Nat /\ \A p \in Pairs : KeyOf[p] \in Nat
  BY <1>4, KeyOfAssumption
<1>6. v \in Reached(vectors, address)
  BY <1>1, <1>2, <1>5 DEF Reached, IsLeast
<1>7. v[1] \in NextGroup(vectors, address)
  BY <1>2, <1>4, <1>5, <1>6 DEF NextGroup, KeyEqual2
<1>8. \A p \in NextGroup(vectors, address) : KeyOf[p] = KeyOf[v[1]]
  BY <1>2, <1>5 DEF NextGroup, KeyEqual2
<1>9. KeysOf(NextGroup(vectors, address)) = {KeyOf[v[1]]}
  BY <1>7, <1>8 DEF KeysOf
<1>. QED
  BY <1>1, <1>2, <1>3, <1>5, <1>9 DEF OneKeyed

LEMMA GroupsStep ==
  Steady /\ PhaseInv /\ FillInv /\ GroupsInv /\ [Next]_mrVars => GroupsInv'
<1>. SUFFICES ASSUME Steady, PhaseInv, FillInv, GroupsInv, [Next]_mrVars
              PROVE  GroupsInv'
  OBVIOUS
<1>1. /\ pc \in [Threads -> ProgramPoints] /\ First \in Threads /\ Last \in Threads
      /\ hand \in [Threads -> {NoGroup} \cup {{g} : g \in SUBSET Pairs}]
      /\ shuffleVectors \in Seq(SUBSET Pairs)
  BY FirstAndLast DEF Steady, TokenInv, TypeOK
<1>2. ASSUME NEW t \in Threads, NEW point, point # "push",
             pc' = [pc EXCEPT ![t] = point],
             hand' = hand \/ hand' = [hand EXCEPT ![t] = NoGroup],
             shuffleVectors' = shuffleVectors,
             hand' = hand \/ t # First \/ pc[First] # "push"
      PROVE  GroupsInv'
  <2>1. \A u \in Threads : hand'[u] = hand[u] \/ hand'[u] = NoGroup
    BY <1>1, <1>2
  <2>2. pc'[First] = "push" => pc[First] = "push" /\ hand'[First] = hand[First]
    BY <1>1, <1>2
  <2>. QED
    BY <1>2, <2>1, <2>2 DEF GroupsInv
<1>3. ASSUME NEW t \in Threads, Create(t) \/ PassBarrier(t) PROVE GroupsInv'
  BY <1>2, <1>3 DEF Create, PassBarrier, Goto, queueVars
<1>4. CASE BecomeLast \/ Join
  BY <1>1, <1>2, <1>4 DEF BecomeLast, Join, Goto, queueVars
<1>5. ASSUME NEW t \in Threads, TakeInput(t) \/ Map(t) \/ SortPhase(t)
      PROVE  GroupsInv'
  BY <1>2, <1>5 DEF TakeInput, Map, SortPhase, Goto, queueVars
<1>6. CASE EraseEmpty \/ PostGroup \/ NoMoreGroups \/ ShuffleDone \/ EndShuffle
  BY <1>1, <1>2, <1>6
  DEF EraseEmpty, PostGroup, NoMoreGroups, ShuffleDone, EndShuffle, Goto, queueVars
<1>7. CASE TakeGroup
  <2>1. OneKeyed(NextGroup(vectors, address))
    BY <1>7, NextGroupOneKeyed DEF TakeGroup, Steady, TokenInv, FillInv
  <2>2. /\ Held'[First] = NextGroup(vectors, address) /\ hand'[First] # NoGroup
        /\ \A u \in Threads \ {First} : hand'[u] = hand[u]
        /\ shuffleVectors' = shuffleVectors
    BY <1>7, TakeFacts DEF Steady, TokenInv, TakeGroup, queueVars
  <2>3. UNION hand'[First] = NextGroup(vectors, address)
    BY <1>1, <2>2 DEF Held
  <2>. QED
    BY <2>1, <2>2, <2>3 DEF GroupsInv
<1>8. CASE PushGroup
  <2>. DEFINE back == Len(shuffleVectors) + 1
  <2>1. /\ pc'[First] = "post" /\ hand'[First] = NoGroup
        /\ OneKeyed(UNION hand[First]) /\ Held[First] = UNION hand[First]
    BY <1>1, <1>8 DEF PushGroup, Goto, GroupsInv, Held
  <2>2. /\ \A u \in Threads \ {First} : hand'[u] = hand[u]
        /\ \A k \in DOMAIN shuffleVectors' : k \in DOMAIN shuffleVectors \/ k = back
        /\ shuffleVectors'[back] = UNION hand[First]
        /\ \A k \in DOMAIN shuffleVectors : shuffleVectors'[k] = shuffleVectors[k]
    BY <1>8, <2>1, PushFacts DEF Steady, TokenInv
  <2>. HIDE DEF back
  <2>. QED
    BY <2>1, <2>2 DEF GroupsInv
<1>9. ASSUME NEW t \in Threads, PopGroup(t) PROVE GroupsInv'
  <2>1. CASE shuffleVectors = << >>
    <3>1. hand[t] = NoGroup
      BY <1>9 DEF PopGroup, PhaseInv
    <3>2. hand' = hand
      BY <1>1, <1>9, <2>1, <3>1 DEF PopGroup
    <3>. QED
      BY <1>2, <1>9, <2>1, <3>2 DEF PopGroup, Goto
  <2>2. CASE shuffleVectors # << >>
    <3>. DEFINE back == Len(shuffleVectors)
    <3>1. /\ back \in DOMAIN shuffleVectors
          /\ \A k \in DOMAIN shuffleVectors' :
               k \in DOMAIN shuffleVectors /\ shuffleVectors'[k] = shuffleVectors[k]
          /\ Held'[t] = shuffleVectors[back]
          /\ \A u \in Threads \ {t} : hand'[u] = hand[u]
      BY <1>9, <2>2, PopFacts DEF Steady, TokenInv
    <3>2. pc'[First] = "push" => pc[First] = "push" /\ First # t
      BY <1>1, <1>9 DEF PopGroup, Goto
    <3>. HIDE DEF back
    <3>3. UNION hand'[t] = shuffleVectors[back]
      BY <3>1 DEF Held
    <3>. QED
      BY <1>1, <3>1, <3>2, <3>3 DEF GroupsInv
  <2>. QED
    BY <2>1, <2>2
<1>10. ASSUME NEW t \in Threads, SemWait(t) \/ Decide(t) \/ Reduce(t)
       PROVE  GroupsInv'
  BY <1>2, <1>10 DEF SemWait, Decide, Reduce, Goto, queueVars
<1>11. CASE PostFinal \/ UNCHANGED mrVars
  <2>1. pc' = pc /\ hand' = hand /\ shuffleVectors' = shuffleVectors
    BY <1>11 DEF PostFinal, mrVars, queueVars
  <2>. QED
    BY <2>1 DEF GroupsInv
<1>. QED
  BY <1>3, <1>4, <1>5, <1>6, <1>7, <1>8, <1>9, <1>10, <1>11
  DEF Next, Framework, Step, ShufflePhase, ReducePhase

(***************************************************************************)
(* A call of reduce gets the pairs of one key, and at least one, however   *)
(* the keys lie in memory and whatever thread 0 does meanwhile.            *)
(***************************************************************************)
THEOREM ReducesOneKey == Spec => []OneKeyPerReduce
<1>1. GroupsInv => OneKeyPerReduce
  <2>. SUFFICES ASSUME GroupsInv, NEW t \in Threads, hand[t] # NoGroup
                PROVE  Cardinality(KeysOf(UNION hand[t])) = 1
    BY DEF OneKeyPerReduce
  <2>1. PICK key \in Nat : KeysOf(UNION hand[t]) = {key}
    BY DEF GroupsInv, OneKeyed
  <2>. QED
    BY <2>1, FS_Singleton
<1>2. Init => GroupsInv
  BY FirstAndLast DEF Init, GroupsInv
<1>. QED
  BY <1>1, <1>2, SteadyAlways, FillInit, FillStep, GroupsStep,
     PTL DEF Spec

-----------------------------------------------------------------------------
(***************************************************************************)
(* The same places, for keys instead of pairs, in a heap where larger keys *)
(* have larger addresses: there a turn of the loop takes every pair of its *)
(* key, so that a key, too, is in one place.                               *)
(***************************************************************************)
OrderedHeap == \A p, q \in Pairs : KeyOf[p] < KeyOf[q] => address[p] < address[q]

KeyStock == KeysOf(Stock)
KeyHeld  == [t \in Threads |-> KeysOf(Held[t])]
KeyQueue == [k \in DOMAIN shuffleVectors |-> KeysOf(shuffleVectors[k])]

KeysApart == Apart(KeyStock, KeyHeld, KeyQueue, Range(outputVec))

KeysInv == OrderedHeap => KeysApart /\ OneReducePerKey

LEMMA GroupIsWhole ==
  ASSUME TypeOK, VectorsInv, OrderedHeap, vectors # {},
         NEW p \in Stock, KeyOf[p] = CurrKey(vectors, address)
  PROVE  p \in NextGroup(vectors, address)
<1>. DEFINE key == CurrKey(vectors, address)
<1>1. p \in Pairs /\ key \in Nat /\ \A q \in Pairs : KeyOf[q] \in Nat
  BY KeyOfAssumption DEF Stock
<1>2. PICK w \in vectors : p \in Range(w)
  BY DEF Stock
<1>3. \A v \in vectors : v \in Seq(Pairs) /\ v # << >> /\ Ordered(v, KeyOrder)
  BY DEF TypeOK, VectorsInv
<1>4. \A v \in vectors : 1 \in DOMAIN v /\ v[1] \in Pairs
  BY <1>3, EmptySeq, LenProperties, ElementOfSeq
<1>5. KeyOf[w[1]] <= key
  <2>1. PICK i \in DOMAIN w : p = w[i]
    BY <1>2 DEF Range
  <2>2. i = 1 \/ 1 < i
    BY <1>3, <2>1, LenProperties
  <2>3. CASE i = 1
    BY <1>1, <2>1, <2>3
  <2>4. CASE 1 < i
    <3>1. <<w[1], w[i]>> \in KeyOrder
      BY <1>3, <1>4, <2>1, <2>4 DEF Ordered
    <3>. QED
      BY <2>1, <3>1 DEF KeyOrder
  <2>. QED
    BY <2>2, <2>3, <2>4
<1>. HIDE DEF key
<1>6. ASSUME NEW u \in vectors, key < KeyOf[u[1]]
      PROVE  address[w[1]] < address[u[1]]
  <2>1. KeyOf[w[1]] < KeyOf[u[1]]
    BY <1>1, <1>4, <1>5, <1>6
  <2>. QED
    BY <1>4, <2>1 DEF OrderedHeap
<1>7. ~ (key < KeyOf[w[1]])
  BY <1>1, <1>4, <1>5
<1>8. w \in Reached(vectors, address)
  BY <1>6, <1>7 DEF Reached, VectorComp, key
<1>. QED
  BY <1>1, <1>2, <1>8 DEF NextGroup, KeyEqual2, Range, key

LEMMA KeysInit == Init => KeysInv
<1>. SUFFICES ASSUME Init PROVE KeysInv
  OBVIOUS
<1>1. /\ Stock = {} /\ shuffleVectors = << >> /\ outputVec = << >>
      /\ \A t \in Threads : Held[t] = {}
  BY UnionOfOne DEF Init, Stock, Held, NoGroup
<1>2. /\ \A t \in Threads : KeyHeld[t] = {}
      /\ KeyStock = {} /\ DOMAIN KeyQueue = {} /\ Range(outputVec) = {}
  BY <1>1, EmptyRange DEF KeyHeld, KeyStock, KeyQueue, KeysOf
<1>3. KeysApart
  BY <1>2 DEF KeysApart, Apart
<1>4. OneReducePerKey
  BY <1>1 DEF OneReducePerKey
<1>. QED
  BY <1>3, <1>4 DEF KeysInv

\* A step that moves no group.
LEMMA QuietKeys ==
  ASSUME KeysInv, UNCHANGED <<address, vectors, hand, shuffleVectors, outputVec>>
  PROVE  KeysInv'
<1>1. Stock' = Stock /\ Held' = Held
  BY DEF Stock, Held
<1>2. /\ KeyStock' = KeyStock /\ KeyHeld' = KeyHeld /\ KeyQueue' = KeyQueue
      /\ Range(outputVec)' = Range(outputVec)
  BY <1>1 DEF KeyStock, KeyHeld, KeyQueue
<1>. QED
  BY <1>2 DEF KeysInv, OrderedHeap, KeysApart, Apart, OneReducePerKey

LEMMA EraseKeys ==
  ASSUME PhaseInv, EraseEmpty
  PROVE  KeysInv'
<1>1. /\ pc[First] \in Early /\ hand' = hand
      /\ shuffleVectors' = shuffleVectors /\ outputVec' = outputVec
  BY DEF EraseEmpty, queueVars, outputVars, Early
<1>2. /\ shuffleVectors = << >> /\ outputVec = << >>
      /\ \A t \in Threads : hand[t] = NoGroup
  <2>1. \A t \in Threads : pc[t] \in Early \cup {"wait"}
    BY <1>1 DEF PhaseInv, NothingToReduce
  <2>. QED
    BY <1>1, <2>1 DEF PhaseInv, NothingToReduce, Early, BeforeBarrier
<1>3. \A t \in Threads : Held'[t] = {}
  BY <1>1, <1>2, UnionOfOne DEF Held, NoGroup
<1>4. /\ \A t \in Threads : KeyHeld'[t] = {}
      /\ DOMAIN KeyQueue' = {} /\ Range(outputVec)' = {}
  BY <1>1, <1>2, <1>3, EmptyRange DEF KeyHeld, KeyQueue, KeysOf
<1>5. KeysApart'
  BY <1>4 DEF KeysApart, Apart
<1>6. OneReducePerKey'
  BY <1>1, <1>2 DEF OneReducePerKey
<1>. QED
  BY <1>5, <1>6 DEF KeysInv

LEMMA TakeKeys ==
  ASSUME Steady, PhaseInv, FillInv, KeysInv, TakeGroup
  PROVE  KeysInv'
<1>. SUFFICES ASSUME OrderedHeap' PROVE KeysApart' /\ OneReducePerKey'
  BY DEF KeysInv
<1>. DEFINE group == NextGroup(vectors, address)
            key   == CurrKey(vectors, address)
<1>1. /\ First \in Threads /\ vectors # {} /\ address' = address
      /\ shuffleVectors' = shuffleVectors /\ outputVec' = outputVec
  BY FirstAndLast DEF TakeGroup, queueVars, outputVars
<1>2. OrderedHeap /\ TypeOK /\ VectorsInv
  BY <1>1 DEF OrderedHeap, Steady, TokenInv, FillInv
<1>3. /\ group \subseteq Stock /\ Stock' = Stock \ group
      /\ Held[First] = {} /\ Held'[First] = group
      /\ \A u \in Threads \ {First} : Held'[u] = Held[u]
  BY <1>2, TakeFacts
<1>4. KeysOf(group) = {key}
  BY <1>1, <1>2, NextGroupOneKeyed
<1>5. \A p \in Stock : KeyOf[p] = key => p \in group
  BY <1>1, <1>2, GroupIsWhole
<1>. HIDE DEF group, key
<1>6. /\ KeyHeld[First] = {} /\ KeyHeld'[First] = {key}
      /\ \A u \in Threads \ {First} : KeyHeld'[u] = KeyHeld[u]
  BY <1>1, <1>3, <1>4 DEF KeyHeld, KeysOf
<1>7. key \notin KeyStock'
  BY <1>3, <1>5 DEF KeyStock, KeysOf
<1>8. KeyHeld'[First] \cup KeyStock' = KeyStock
  <2>1. key \in KeyStock
    BY <1>3, <1>4 DEF KeyStock, KeysOf
  <2>2. KeyStock' \subseteq KeyStock
    BY <1>3 DEF KeyStock, KeysOf
  <2>3. ASSUME NEW k \in KeyStock, k # key PROVE k \in KeyStock'
    <3>1. PICK p \in Stock : k = KeyOf[p]
      BY DEF KeyStock, KeysOf
    <3>2. p \notin group
      BY <1>4, <2>3, <3>1 DEF KeysOf
    <3>. QED
      BY <1>3, <3>1, <3>2 DEF KeyStock, KeysOf
  <2>. QED
    BY <1>6, <2>1, <2>2, <2>3
<1>9. KeysApart /\ OneReducePerKey
  BY <1>2 DEF KeysInv
<1>10. Apart(KeyStock', KeyHeld', KeyQueue, Range(outputVec))
  <2>1. /\ Apart(KeyStock, KeyHeld, KeyQueue, Range(outputVec))
        /\ \A x \in KeyHeld'[First] : x \notin KeyStock'
    BY <1>6, <1>7, <1>9 DEF KeysApart
  <2>. QED
    BY ONLY <1>1, <1>6, <1>8, <2>1, TakeMove
<1>11. KeyQueue' = KeyQueue /\ Range(outputVec)' = Range(outputVec)
  BY <1>1 DEF KeyQueue
<1>. QED
  BY <1>1, <1>9, <1>10, <1>11 DEF KeysApart, OneReducePerKey, Apart

LEMMA PushKeys ==
  ASSUME Steady, KeysInv, PushGroup
  PROVE  KeysInv'
<1>. DEFINE back == Len(shuffleVectors) + 1
<1>1. /\ First \in Threads /\ address' = address
      /\ vectors' = vectors /\ outputVec' = outputVec
  BY FirstAndLast DEF PushGroup, shuffleVars, outputVars
<1>2. SUFFICES ASSUME KeysApart, OneReducePerKey PROVE KeysApart' /\ OneReducePerKey'
  BY <1>1 DEF KeysInv, OrderedHeap
<1>3. /\ back \notin DOMAIN shuffleVectors
      /\ \A k : k \in DOMAIN shuffleVectors' <=> k \in DOMAIN shuffleVectors \/ k = back
      /\ shuffleVectors'[back] = Held[First]
      /\ \A k \in DOMAIN shuffleVectors : shuffleVectors'[k] = shuffleVectors[k]
      /\ Held'[First] = {}
      /\ \A u \in Threads \ {First} : Held'[u] = Held[u]
  BY PushFacts DEF Steady, TokenInv
<1>. HIDE DEF back
<1>4. /\ KeyHeld'[First] = {}
      /\ \A u \in Threads \ {First} : KeyHeld'[u] = KeyHeld[u]
  BY <1>1, <1>3 DEF KeyHeld, KeysOf
<1>5. /\ back \notin DOMAIN KeyQueue
      /\ \A k : k \in DOMAIN KeyQueue' <=> k \in DOMAIN KeyQueue \/ k = back
      /\ KeyQueue'[back] = KeyHeld[First]
      /\ \A k \in DOMAIN KeyQueue : KeyQueue'[k] = KeyQueue[k]
  BY <1>1, <1>3 DEF KeyQueue, KeyHeld
<1>6. Apart(KeyStock, KeyHeld', KeyQueue', Range(outputVec))
  <2>1. Apart(KeyStock, KeyHeld, KeyQueue, Range(outputVec))
    BY <1>2 DEF KeysApart
  <2>. QED
    BY ONLY <1>1, <1>4, <1>5, <2>1, PushMove
<1>7. KeyStock' = KeyStock /\ Range(outputVec)' = Range(outputVec)
  BY <1>1 DEF KeyStock, Stock
<1>. QED
  BY <1>1, <1>2, <1>6, <1>7 DEF KeysApart, OneReducePerKey, Apart

LEMMA PopKeys ==
  ASSUME Steady, PhaseInv, KeysInv, NEW t \in Threads, PopGroup(t),
         shuffleVectors # << >>
  PROVE  KeysInv'
<1>. DEFINE back == Len(shuffleVectors)
<1>1. address' = address /\ vectors' = vectors /\ outputVec' = outputVec
  BY DEF PopGroup, shuffleVars, outputVars
<1>2. SUFFICES ASSUME KeysApart, OneReducePerKey PROVE KeysApart' /\ OneReducePerKey'
  BY <1>1 DEF KeysInv, OrderedHeap
<1>3. /\ back \in DOMAIN shuffleVectors
      /\ \A k : k \in DOMAIN shuffleVectors' <=> k \in DOMAIN shuffleVectors /\ k # back
      /\ \A k \in DOMAIN shuffleVectors' : shuffleVectors'[k] = shuffleVectors[k]
      /\ Held[t] = {} /\ Held'[t] = shuffleVectors[back]
      /\ \A u \in Threads \ {t} : Held'[u] = Held[u]
  BY PopFacts DEF Steady, TokenInv
<1>. HIDE DEF back
<1>4. /\ KeyHeld[t] = {} /\ KeyHeld'[t] = KeyQueue[back]
      /\ \A u \in Threads \ {t} : KeyHeld'[u] = KeyHeld[u]
  BY <1>3 DEF KeyHeld, KeyQueue, KeysOf
<1>5. /\ back \in DOMAIN KeyQueue
      /\ \A k : k \in DOMAIN KeyQueue' <=> k \in DOMAIN KeyQueue /\ k # back
      /\ \A k \in DOMAIN KeyQueue' : KeyQueue'[k] = KeyQueue[k]
  BY <1>3 DEF KeyQueue
<1>6. Apart(KeyStock, KeyHeld', KeyQueue', Range(outputVec))
  <2>1. t \in Threads /\ Apart(KeyStock, KeyHeld, KeyQueue, Range(outputVec))
    BY <1>2 DEF KeysApart
  <2>. QED
    BY ONLY <1>4, <1>5, <2>1, PopMove
<1>7. KeyStock' = KeyStock /\ Range(outputVec)' = Range(outputVec)
  BY <1>1 DEF KeyStock, Stock
<1>. QED
  BY <1>1, <1>2, <1>6, <1>7 DEF KeysApart, OneReducePerKey, Apart

LEMMA ReduceKeys ==
  ASSUME Steady, GroupsInv, KeysInv, NEW t \in Threads, Reduce(t)
  PROVE  KeysInv'
<1>1. /\ address' = address /\ vectors' = vectors
      /\ shuffleVectors' = shuffleVectors /\ hand[t] # NoGroup
      /\ outputVec \in Seq(Nat)
  BY DEF Reduce, shuffleVars, queueVars, Steady, TokenInv, TypeOK
<1>2. SUFFICES ASSUME KeysApart, OneReducePerKey PROVE KeysApart' /\ OneReducePerKey'
  BY <1>1 DEF KeysInv, OrderedHeap
<1>3. PICK key \in KeysOf(UNION hand[t]) : outputVec' = Append(outputVec, key)
  BY DEF Reduce
<1>4. /\ Held[t] = UNION hand[t] /\ Held'[t] = {}
      /\ \A u \in Threads \ {t} : Held'[u] = Held[u]
  BY ReduceFacts DEF Steady, TokenInv
<1>5. KeysOf(UNION hand[t]) = {key} /\ key \in Nat
  <2>1. PICK k \in Nat : KeysOf(UNION hand[t]) = {k}
    BY <1>1 DEF GroupsInv, OneKeyed
  <2>. QED
    BY <1>3, <2>1
<1>6. /\ KeyHeld[t] = {key} /\ KeyHeld'[t] = {}
      /\ \A u \in Threads \ {t} : KeyHeld'[u] = KeyHeld[u]
  BY <1>4, <1>5 DEF KeyHeld, KeysOf
<1>7. Range(outputVec') = Range(outputVec) \cup {key}
  BY <1>1, <1>3, <1>5, AppendRange
<1>8. Apart(KeyStock, KeyHeld', KeyQueue, Range(outputVec'))
  <2>1. /\ t \in Threads /\ Apart(KeyStock, KeyHeld, KeyQueue, Range(outputVec))
        /\ Range(outputVec') = Range(outputVec) \cup KeyHeld[t]
    BY <1>2, <1>6, <1>7 DEF KeysApart
  <2>. QED
    BY ONLY <1>6, <2>1, OutMove
<1>9. KeyStock' = KeyStock /\ KeyQueue' = KeyQueue
  BY <1>1 DEF KeyStock, Stock, KeyQueue
<1>10. OneReducePerKey'
  <2>1. key \notin Range(outputVec)
    BY <1>2, <1>6 DEF KeysApart, Apart
  <2>2. IsInjective(outputVec)
    BY <1>1, <1>2, LenProperties DEF OneReducePerKey, IsInjective
  <2>3. IsInjective(outputVec') /\ outputVec' \in Seq(Nat)
    BY <1>1, <1>3, <1>5, <2>1, <2>2, AppendRange
  <2>. QED
    BY <2>3, LenProperties DEF OneReducePerKey, IsInjective
<1>. QED
  BY <1>8, <1>9, <1>10 DEF KeysApart, Apart

LEMMA KeysStep ==
  Steady /\ PhaseInv /\ FillInv /\ GroupsInv /\ KeysInv /\ [Next]_mrVars => KeysInv'
<1>. SUFFICES ASSUME Steady, PhaseInv, FillInv, GroupsInv, KeysInv, [Next]_mrVars
              PROVE  KeysInv'
  OBVIOUS
<1>1. ASSUME NEW t \in Threads, Create(t) \/ PassBarrier(t) PROVE KeysInv'
  BY <1>1, QuietKeys
  DEF Create, PassBarrier, shuffleVars, queueVars, outputVars
<1>2. CASE BecomeLast \/ Join
  BY <1>2, QuietKeys DEF BecomeLast, Join, shuffleVars, queueVars, outputVars
<1>3. ASSUME NEW t \in Threads, TakeInput(t) \/ Map(t) \/ SortPhase(t)
      PROVE  KeysInv'
  BY <1>3, QuietKeys DEF TakeInput, Map, SortPhase, shuffleVars, queueVars, outputVars
<1>4. CASE EraseEmpty \/ TakeGroup \/ PushGroup
  BY <1>4, EraseKeys, TakeKeys, PushKeys
<1>5. CASE PostGroup \/ NoMoreGroups \/ ShuffleDone \/ PostFinal \/ EndShuffle
  BY <1>5, QuietKeys
  DEF PostGroup, NoMoreGroups, ShuffleDone, PostFinal, EndShuffle, shuffleVars,
      queueVars, outputVars
<1>6. ASSUME NEW t \in Threads, SemWait(t) \/ Decide(t) PROVE KeysInv'
  BY <1>6, QuietKeys DEF SemWait, Decide, shuffleVars, queueVars, outputVars
<1>7. ASSUME NEW t \in Threads, PopGroup(t) PROVE KeysInv'
  <2>1. CASE shuffleVectors = << >>
    <3>1. hand[t] = NoGroup
      BY <1>7 DEF PopGroup, PhaseInv
    <3>2. hand' = hand
      BY <1>7, <2>1, <3>1 DEF PopGroup, Steady, TokenInv, TypeOK
    <3>. QED
      BY <1>7, <2>1, <3>2, QuietKeys DEF PopGroup, shuffleVars, outputVars
  <2>. QED
    BY <1>7, <2>1, PopKeys
<1>8. ASSUME NEW t \in Threads, Reduce(t) PROVE KeysInv'
  BY <1>8, ReduceKeys
<1>9. CASE UNCHANGED mrVars
  BY <1>9, QuietKeys DEF mrVars, shuffleVars, queueVars, outputVars
<1>. QED
  BY <1>1, <1>2, <1>3, <1>4, <1>5, <1>6, <1>7, <1>8, <1>9
  DEF Next, Framework, Step, ShufflePhase, ReducePhase

(***************************************************************************)
(* In a heap where larger keys have larger addresses vectorComp orders the *)
(* vectors by their keys, and reduce is called once for each key.          *)
(***************************************************************************)
THEOREM ReducesKeysOnce == Spec => []OneReducePerOrderedKey
<1>1. KeysInv => OneReducePerOrderedKey
  BY DEF KeysInv, OrderedHeap, OneReducePerOrderedKey
<1>2. Init => GroupsInv
  BY FirstAndLast DEF Init, GroupsInv
<1>. QED
  BY <1>1, <1>2, SteadyAlways, FillInit, FillStep, GroupsStep, KeysInit, KeysStep,
     PTL DEF Spec

=============================================================================
