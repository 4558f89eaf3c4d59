---------------------------- MODULE MCMapReduce ----------------------------
(***************************************************************************)
(* Instances of MapReduce for TLC.                                         *)
(***************************************************************************)
EXTENDS MapReduce

ThreeThreads == 0 .. 2

\* Three inputs; the first and the last emit the smaller key, the middle one
\* both keys.
FourPairs  == 1 .. 4
TwoKeys    == [p \in 1 .. 4 |-> IF p \in {1, 3} THEN 1 ELSE 2]
ThreeInputs == [i \in 1 .. 3 |->
                  CASE i = 1 -> {1} [] i = 2 -> {2, 3} [] i = 3 -> {4}]

\* The client's allocator may give the key objects any addresses.
AnyHeap == {a \in [FourPairs -> FourPairs] :
              \A p, q \in FourPairs : p # q => a[p] # a[q]}

\* The four in which larger keys have larger addresses, and four others: the
\* reverse of one, and three that mix the keys.
SomeHeaps ==
  {a \in AnyHeap : \A p, q \in FourPairs : TwoKeys[p] < TwoKeys[q] => a[p] < a[q]}
    \cup {<<4, 2, 3, 1>>, <<1, 2, 3, 4>>, <<2, 1, 4, 3>>, <<3, 2, 1, 4>>}
=============================================================================
