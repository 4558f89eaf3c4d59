----------------------------- MODULE SeqFilter -----------------------------
(***************************************************************************)
(* The order-preserving filter behind the erase-remove idiom on            *)
(* std::deque and std::vector.  It is SelectSeq with a set in the place of *)
(* the test, written as a recursive function, so that its properties can   *)
(* be proved (module SeqFilterProofs) and not only checked.                *)
(***************************************************************************)
EXTENDS Integers, Sequences

\* The elements of s that are in S, in the order s has them.
KeepIn(s, S) ==
  LET kept[n \in 0 .. Len(s)] ==
        IF n = 0 THEN << >>
        ELSE IF s[n] \in S THEN Append(kept[n - 1], s[n]) ELSE kept[n - 1]
  IN  kept[Len(s)]

=============================================================================
