------------------------------ MODULE Shuffle ------------------------------
(***************************************************************************)
(* One turn of the loop in shufflePhase, ex3/MapReduceFramework.cpp: from  *)
(* the sorted intermediate vectors it takes the pairs of one key.          *)
(*                                                                         *)
(* vectorComp compares the first pairs of two vectors with the `<' of      *)
(* std::pair<K2*, V2*>, which compares the POINTERS, not the keys.  The    *)
(* operators therefore take the address of every pair's key object.        *)
(*                                                                         *)
(* A definition Mut<Name>, always just before <Name>, is <Name> with a     *)
(* plausible mistake; nothing uses it but the mutation runs.               *)
(***************************************************************************)
EXTENDS Integers, Sequences, FiniteSets, SeqFilter

CONSTANTS
  Pairs,   \* the intermediate pairs that map can emit, each an object
  KeyOf    \* the key of each pair, in the order of K2::operator<

ASSUME KeyOfAssumption == KeyOf \in [Pairs -> Nat]

\* keyEqual2, on keys as numbers.
MutKeyEqual2(a, b) == ~ (b < a)
KeyEqual2(a, b) == ~ (a < b) /\ ~ (b < a)

KeysOf(group) == {KeyOf[p] : p \in group}

\* std::sort with intermediatePairComp: by key, equal keys in any order.
SortedOrders(group) ==
  {s \in [1 .. Cardinality(group) -> group] :
     \A i, j \in 1 .. Cardinality(group) :
       i < j => s[i] # s[j] /\ KeyOf[s[i]] <= KeyOf[s[j]]}

\* vectorComp on two vectors, neither empty.
VectorComp(v, w, address) == address[v[1]] < address[w[1]]

\* currKey: the first key of the first vector.
CurrKey(vectors, address) ==
  KeyOf[(CHOOSE v \in vectors :
           \A w \in vectors \ {v} : VectorComp(v, w, address))[1]]

\* The inner loop breaks at the first vector that starts with a larger key.
MutReached(vectors, address) ==
  {v \in vectors : \A w \in vectors \ {v} : VectorComp(v, w, address)}
Reached(vectors, address) ==
  LET larger == {w \in vectors : CurrKey(vectors, address) < KeyOf[w[1]]}
  IN  {v \in vectors \ larger :
         \A w \in larger : VectorComp(v, w, address)}

\* shuffleVec: the pairs of currKey in the vectors the loop reaches.
NextGroup(vectors, address) ==
  {p \in Pairs :
     /\ KeyEqual2(KeyOf[p], CurrKey(vectors, address))
     /\ \E v \in Reached(vectors, address) :
          \E i \in DOMAIN v : v[i] = p}

\* What is left of the vectors; a vector that becomes empty is erased.
Remaining(vectors, group) ==
  {KeepIn(v, Pairs \ group) : v \in vectors} \ {<< >>}
=============================================================================
