-------------------------- MODULE SeqFilterProofs --------------------------
(***************************************************************************)
(* What KeepIn computes, for every sequence.  The induction over the       *)
(* length is carried out with least counterexamples (LeastNat).            *)
(***************************************************************************)
EXTENDS SeqFilter, Functions, WellFoundedInduction, SequenceTheorems, TLAPS

(***************************************************************************)
(* Every non-empty set of naturals has a least element.                    *)
(***************************************************************************)
LEMMA LeastNat ==
  ASSUME NEW T \in SUBSET Nat, T # {}
  PROVE  \E n \in T : \A m \in T : n <= m
<1>. DEFINE R == OpToRel(<, Nat)
<1>1. IsWellFoundedOn(R, Nat)
  BY NatLessThanWellFounded
<1>2. \A x, y \in Nat : <<x, y>> \in R <=> x < y
  BY DEF OpToRel
<1>. HIDE DEF R
<1>3. \E x \in T : \A y \in T : ~ (<<y, x>> \in R)
  BY <1>1, WFMin
<1>4. PICK x \in T : \A y \in T : ~ (<<y, x>> \in R)
  BY <1>3
<1>5. \A y \in T : ~ (y < x)
  BY <1>2, <1>4
<1>. QED  BY <1>5

\* The recursion equation of KeepIn's prefix results, up to length N.
KeptUpTo(N, s, S, k) ==
  k = [n \in 0 .. N |->
         IF n = 0 THEN << >>
         ELSE IF s[n] \in S THEN Append(k[n - 1], s[n]) ELSE k[n - 1]]

(***************************************************************************)
(* The recursion behind KeepIn has a solution, so its CHOOSE picks one.    *)
(***************************************************************************)
LEMMA KeptExists ==
  ASSUME NEW s, NEW S, NEW N \in Nat
  PROVE  \E k : KeptUpTo(N, s, S, k)
<1>. DEFINE Bad == {n \in Nat : ~ \E k : KeptUpTo(n, s, S, k)}
<1>1. SUFFICES ASSUME Bad # {} PROVE FALSE
  OBVIOUS
<1>2. PICK M \in Bad : \A m \in Bad : M <= m
  BY <1>1, LeastNat
<1>3. M # 0
  <2>1. KeptUpTo(0, s, S, [n \in 0 .. 0 |-> << >>])
    BY DEF KeptUpTo
  <2>. QED  BY <2>1, <1>2
<1>4. \E k : KeptUpTo(M - 1, s, S, k)
  <2>1. M - 1 \in Nat
    BY <1>3
  <2>2. M - 1 \notin Bad
    BY <1>2, <1>3, <2>1
  <2>. QED  BY <2>1, <2>2
<1>5. PICK k : KeptUpTo(M - 1, s, S, k)
  BY <1>4
<1>. DEFINE last == IF s[M] \in S THEN Append(k[M - 1], s[M]) ELSE k[M - 1]
            kk   == [n \in 0 .. M |-> IF n = M THEN last ELSE k[n]]
            step(n) == IF n = 0 THEN << >>
                       ELSE IF s[n] \in S THEN Append(kk[n - 1], s[n])
                            ELSE kk[n - 1]
<1>6. ASSUME NEW n \in 0 .. M PROVE kk[n] = step(n)
  <2>1. CASE n = M
    BY <2>1, <1>3
  <2>2. CASE n # M /\ n = 0
    BY <2>2, <1>5 DEF KeptUpTo
  <2>3. CASE n # M /\ n # 0
    <3>1. n \in 0 .. M - 1 /\ n - 1 \in 0 .. M - 1 /\ n - 1 # M
      BY <2>3
    <3>2. kk[n] = k[n] /\ kk[n - 1] = k[n - 1]
      BY <3>1
    <3>3. k[n] = IF s[n] \in S THEN Append(k[n - 1], s[n]) ELSE k[n - 1]
      BY <3>1, <2>3, <1>5 DEF KeptUpTo
    <3>. QED  BY <3>2, <3>3, <2>3
  <2>. QED  BY <2>1, <2>2, <2>3
<1>7. kk = [n \in 0 .. M |-> step(n)]
  BY <1>6
<1>8. KeptUpTo(M, s, S, kk)
  BY <1>7 DEF KeptUpTo
<1>. QED  BY <1>8, <1>2

\* The results for the prefixes, the last of which is KeepIn's.
LEMMA KeepInUnfolds ==
  ASSUME NEW s, NEW S, Len(s) \in Nat
  PROVE  \E kept : /\ kept[0] = << >>
                   /\ \A n \in 1 .. Len(s) :
                        kept[n] = IF s[n] \in S THEN Append(kept[n - 1], s[n])
                                                ELSE kept[n - 1]
                   /\ KeepIn(s, S) = kept[Len(s)]
<1>. DEFINE N    == Len(s)
            kept == CHOOSE k : KeptUpTo(N, s, S, k)
<1>1. KeptUpTo(N, s, S, kept)
  BY KeptExists
<1>2. KeepIn(s, S) = kept[N]
  BY DEF KeepIn, KeptUpTo
<1>. HIDE DEF kept
<1>3. kept[0] = << >>
  BY <1>1 DEF KeptUpTo
<1>4. ASSUME NEW n \in 1 .. N
      PROVE  kept[n] = IF s[n] \in S THEN Append(kept[n - 1], s[n])
                                      ELSE kept[n - 1]
  <2>1. N \in Nat /\ n \in 0 .. N /\ n # 0
    OBVIOUS
  <2>. HIDE DEF N
  <2>. QED  BY <2>1, <1>1 DEF KeptUpTo
<1>. QED  BY <1>2, <1>3, <1>4

(***************************************************************************)
(* KeepIn(s, S) returns a sequence over the same set with exactly the      *)
(* elements of s that are in S, and no new duplicates.                     *)
(***************************************************************************)
LEMMA KeepInProperties ==
  ASSUME NEW T, NEW s \in Seq(T), NEW S
  PROVE  /\ KeepIn(s, S) \in Seq(T)
         /\ Range(KeepIn(s, S)) = Range(s) \cap S
         /\ IsInjective(s) => IsInjective(KeepIn(s, S))
<1>. DEFINE N == Len(s)
<1>1. N \in Nat /\ DOMAIN s = 1 .. N /\ \A i \in 1 .. N : s[i] \in T
  BY LenProperties, ElementOfSeq
<1>2. PICK kept : /\ kept[0] = << >>
                  /\ \A n \in 1 .. N :
                       kept[n] = IF s[n] \in S THEN Append(kept[n - 1], s[n])
                                               ELSE kept[n - 1]
                  /\ KeepIn(s, S) = kept[N]
  BY <1>1, KeepInUnfolds
<1>. DEFINE Good(n) == /\ kept[n] \in Seq(T)
                       /\ Range(kept[n]) = {s[i] : i \in 1 .. n} \cap S
                       /\ IsInjective(s) => IsInjective(kept[n])
            Bad == {n \in Nat : n <= N /\ ~ Good(n)}
<1>3. Bad = {}
  <2>1. SUFFICES ASSUME Bad # {} PROVE FALSE
    OBVIOUS
  <2>2. PICK n \in Bad : \A m \in Bad : n <= m
    BY <2>1, LeastNat
  <2>3. CASE n = 0
    <3>1. Good(0)
      BY <1>2 DEF Range, IsInjective
    <3>. QED  BY <3>1, <2>2, <2>3
  <2>4. CASE n # 0
    <3>1. n \in 1 .. N /\ n - 1 \in Nat /\ n - 1 <= N
      BY <2>2, <2>4, <1>1
    <3>2. Good(n - 1)
      <4>1. ~ (n <= n - 1)
        BY <3>1, <1>1
      <4>2. n - 1 \notin Bad
        <5>. HIDE DEF Bad
        <5>. QED  BY <2>2, <4>1
      <4>. QED  BY <4>2, <3>1
    <3>. DEFINE p == kept[n - 1]
                e == s[n]
    <3>3. p \in Seq(T) /\ e \in T
      BY <3>1, <3>2, <1>1
    <3>4. {s[i] : i \in 1 .. n} = {s[i] : i \in 1 .. n - 1} \cup {e}
      BY <3>1
    <3>5. CASE e \notin S
      <4>1. kept[n] = p
        BY <3>1, <3>5, <1>2
      <4>. QED  BY <4>1, <3>2, <3>4, <3>5, <2>2
    <3>6. CASE e \in S
      <4>1. kept[n] = Append(p, e)
        BY <3>1, <3>6, <1>2
      <4>2. /\ Append(p, e) \in Seq(T)
            /\ Len(Append(p, e)) = Len(p) + 1 /\ Len(p) \in Nat
            /\ \A i \in 1 .. Len(p) : Append(p, e)[i] = p[i]
            /\ Append(p, e)[Len(p) + 1] = e
            /\ DOMAIN Append(p, e) = 1 .. Len(p) + 1
            /\ DOMAIN p = 1 .. Len(p)
        BY <3>3, AppendProperties, LenProperties
      <4>. HIDE DEF p, e
      <4>3. Range(Append(p, e)) = Range(p) \cup {e}
        BY <4>2 DEF Range
      <4>4. ASSUME IsInjective(s) PROVE IsInjective(Append(p, e))
        <5>1. e \notin Range(p)
          <6>1. \A i \in 1 .. n - 1 : s[i] # s[n]
            BY <4>4, <3>1, <1>1 DEF IsInjective
          <6>. QED  BY <6>1, <3>2 DEF p, e
        <5>2. IsInjective(p)
          BY <4>4, <3>2 DEF p
        <5>. QED  BY <4>2, <5>1, <5>2 DEF IsInjective, Range
      <4>5. Range(Append(p, e)) = {s[i] : i \in 1 .. n} \cap S
        BY <4>3, <3>2, <3>4, <3>6 DEF p
      <4>. QED  BY <4>1, <4>2, <4>4, <4>5, <2>2
    <3>. QED  BY <3>5, <3>6
  <2>. QED  BY <2>3, <2>4
<1>4. Good(N)
  <2>1. N \in Nat /\ N <= N
    BY <1>1
  <2>. HIDE DEF Good, N
  <2>. QED  BY <2>1, <1>3
<1>5. Range(s) = {s[i] : i \in 1 .. N}
  BY <1>1 DEF Range
<1>. QED  BY <1>2, <1>4, <1>5

(***************************************************************************)
(* KeepIn keeps the order: what held of every two elements of s in their   *)
(* order, R, holds of those that are left.                                 *)
(***************************************************************************)
Ordered(s, R) == \A i, j \in DOMAIN s : i < j => <<s[i], s[j]>> \in R

LEMMA KeepInOrder ==
  ASSUME NEW T, NEW s \in Seq(T), NEW S, NEW R, Ordered(s, R)
  PROVE  Ordered(KeepIn(s, S), R)
<1>. DEFINE N == Len(s)
<1>1. N \in Nat /\ DOMAIN s = 1 .. N /\ \A i \in 1 .. N : s[i] \in T
  BY LenProperties, ElementOfSeq
<1>2. PICK kept : /\ kept[0] = << >>
                  /\ \A n \in 1 .. N :
                       kept[n] = IF s[n] \in S THEN Append(kept[n - 1], s[n])
                                               ELSE kept[n - 1]
                  /\ KeepIn(s, S) = kept[N]
  BY <1>1, KeepInUnfolds
<1>. DEFINE Good(n) == /\ kept[n] \in Seq(T)
                       /\ \A x \in Range(kept[n]) : \E i \in 1 .. n : x = s[i]
                       /\ Ordered(kept[n], R)
            Bad == {n \in Nat : n <= N /\ ~ Good(n)}
<1>3. Bad = {}
  <2>1. SUFFICES ASSUME Bad # {} PROVE FALSE
    OBVIOUS
  <2>2. PICK n \in Bad : \A m \in Bad : n <= m
    BY <2>1, LeastNat
  <2>3. CASE n = 0
    <3>1. Good(0)
      BY <1>2 DEF Range, Ordered
    <3>. QED  BY <3>1, <2>2, <2>3
  <2>4. CASE n # 0
    <3>1. n \in 1 .. N /\ n - 1 \in Nat /\ n - 1 <= N
      BY <2>2, <2>4, <1>1
    <3>2. Good(n - 1)
      <4>1. ~ (n <= n - 1)
        BY <3>1, <1>1
      <4>2. n - 1 \notin Bad
        <5>. HIDE DEF Bad
        <5>. QED  BY <2>2, <4>1
      <4>. QED  BY <4>2, <3>1
    <3>. DEFINE p == kept[n - 1]
                e == s[n]
    <3>3. p \in Seq(T) /\ e \in T
      BY <3>1, <3>2, <1>1
    <3>4. CASE e \notin S
      <4>1. kept[n] = p
        BY <3>1, <3>4, <1>2
      <4>2. \A i \in 1 .. n - 1 : i \in 1 .. n
        BY <3>1
      <4>. QED  BY <4>1, <4>2, <3>2, <2>2
    <3>5. CASE e \in S
      <4>1. kept[n] = Append(p, e)
        BY <3>1, <3>5, <1>2
      <4>2. /\ Append(p, e) \in Seq(T) /\ Len(p) \in Nat
            /\ DOMAIN p = 1 .. Len(p) /\ DOMAIN Append(p, e) = 1 .. Len(p) + 1
            /\ \A i \in 1 .. Len(p) : Append(p, e)[i] = p[i]
            /\ Append(p, e)[Len(p) + 1] = e
        BY <3>3, AppendProperties, LenProperties
      <4>3. \A k \in DOMAIN p : \E i \in 1 .. n - 1 : p[k] = s[i]
        BY <3>2 DEF Range
      <4>4. \A k \in DOMAIN p : <<p[k], e>> \in R
        <5>1. \A i \in 1 .. n - 1 : <<s[i], s[n]>> \in R
          BY <3>1, <1>1 DEF Ordered
        <5>. QED  BY <4>3, <5>1
      <4>5. Ordered(p, R)
        BY <3>2
      <4>6. \A i \in 1 .. n - 1 : i \in 1 .. n
        BY <3>1
      <4>7. n \in 1 .. n
        BY <3>1
      <4>8. \A k \in DOMAIN p : \E i \in 1 .. n : p[k] = s[i]
        BY <4>3, <4>6
      <4>. HIDE DEF p
      <4>9. \A x \in Range(Append(p, e)) : \E i \in 1 .. n : x = s[i]
        <5>1. \A k \in 1 .. Len(p) + 1 : k \in 1 .. Len(p) \/ k = Len(p) + 1
          BY <4>2
        <5>. QED  BY <4>2, <4>7, <4>8, <5>1 DEF Range
      <4>10. Ordered(Append(p, e), R)
        <5>1. SUFFICES ASSUME NEW i \in 1 .. Len(p) + 1,
                              NEW j \in 1 .. Len(p) + 1, i < j
                       PROVE  <<Append(p, e)[i], Append(p, e)[j]>> \in R
          BY <4>2 DEF Ordered
        <5>2. i \in 1 .. Len(p) /\ (j \in 1 .. Len(p) \/ j = Len(p) + 1)
          BY <4>2, <5>1
        <5>. HIDE DEF e
        <5>. QED  BY <4>2, <4>4, <4>5, <5>1, <5>2 DEF Ordered
      <4>. QED  BY <4>1, <4>2, <4>9, <4>10, <2>2
    <3>. QED  BY <3>4, <3>5
  <2>. QED  BY <2>3, <2>4
<1>4. Good(N)
  <2>1. N \in Nat /\ N <= N
    BY <1>1
  <2>. HIDE DEF Good, N
  <2>. QED  BY <2>1, <1>3
<1>. QED  BY <1>2, <1>4

-----------------------------------------------------------------------------
(***************************************************************************)
(* Facts about sequences, in the form the steps below use them.            *)
(***************************************************************************)
LEMMA AppendRange ==
  ASSUME NEW T, NEW s \in Seq(T), NEW e \in T
  PROVE  /\ Append(s, e) \in Seq(T)
         /\ Append(s, e) # << >>
         /\ Range(Append(s, e)) = Range(s) \cup {e}
         /\ IsInjective(s) /\ e \notin Range(s) => IsInjective(Append(s, e))
<1>1. /\ Append(s, e) \in Seq(T)
      /\ Len(s) \in Nat /\ DOMAIN s = 1 .. Len(s)
      /\ DOMAIN Append(s, e) = 1 .. Len(s) + 1
      /\ \A i \in 1 .. Len(s) : Append(s, e)[i] = s[i]
      /\ Append(s, e)[Len(s) + 1] = e
      /\ Append(s, e) # << >>
  BY AppendProperties, LenProperties
<1>. QED  BY <1>1 DEF Range, IsInjective

LEMMA HeadTailRange ==
  ASSUME NEW T, NEW s \in Seq(T), s # << >>
  PROVE  /\ Head(s) \in T /\ Head(s) \in Range(s)
         /\ Tail(s) \in Seq(T)
         /\ Range(s) = {Head(s)} \cup Range(Tail(s))
         /\ IsInjective(s) => IsInjective(Tail(s)) /\ Head(s) \notin Range(Tail(s))
<1>1. /\ Head(s) \in T /\ Head(s) = s[1]
      /\ Tail(s) \in Seq(T)
      /\ Len(s) \in Nat \ {0} /\ DOMAIN s = 1 .. Len(s)
      /\ Len(Tail(s)) = Len(s) - 1
      /\ DOMAIN Tail(s) = 1 .. Len(s) - 1
      /\ \A i \in 1 .. Len(s) - 1 : Tail(s)[i] = s[i + 1]
  BY HeadTailProperties, LenProperties, EmptySeq
<1>2. Range(s) = {Head(s)} \cup Range(Tail(s))
  <2>1. ASSUME NEW i \in 1 .. Len(s) PROVE s[i] \in {Head(s)} \cup Range(Tail(s))
    <3>1. CASE i = 1
      BY <3>1, <1>1
    <3>2. CASE i # 1
      <4>1. i - 1 \in 1 .. Len(s) - 1 /\ s[(i - 1) + 1] = s[i]
        BY <3>2, <1>1
      <4>. QED  BY <4>1, <1>1 DEF Range
    <3>. QED  BY <3>1, <3>2
  <2>2. ASSUME NEW i \in 1 .. Len(s) - 1 PROVE Tail(s)[i] \in Range(s)
    <3>1. i + 1 \in DOMAIN s
      BY <1>1
    <3>. QED  BY <3>1, <1>1 DEF Range
  <2>. QED  BY <2>1, <2>2, <1>1 DEF Range
<1>3. ASSUME IsInjective(s)
      PROVE  IsInjective(Tail(s)) /\ Head(s) \notin Range(Tail(s))
  <2>1. \A i, j \in 1 .. Len(s) : s[i] = s[j] => i = j
    BY <1>3, <1>1 DEF IsInjective
  <2>2. \A i, j \in 1 .. Len(s) - 1 : Tail(s)[i] = Tail(s)[j] => i = j
    <3>. SUFFICES ASSUME NEW i \in 1 .. Len(s) - 1, NEW j \in 1 .. Len(s) - 1,
                         Tail(s)[i] = Tail(s)[j]
                  PROVE  i = j
      OBVIOUS
    <3>1. i + 1 \in 1 .. Len(s) /\ j + 1 \in 1 .. Len(s) /\ s[i + 1] = s[j + 1]
      BY <1>1
    <3>2. i + 1 = j + 1
      BY <3>1, <2>1
    <3>. QED  BY <3>2
  <2>3. \A i \in 1 .. Len(s) - 1 : Tail(s)[i] # Head(s)
    <3>. SUFFICES ASSUME NEW i \in 1 .. Len(s) - 1, Tail(s)[i] = Head(s)
                  PROVE  FALSE
      OBVIOUS
    <3>1. i + 1 \in 1 .. Len(s) /\ 1 \in 1 .. Len(s) /\ s[i + 1] = s[1]
      BY <1>1
    <3>2. i + 1 = 1
      BY <3>1, <2>1
    <3>. QED  BY <3>2
  <2>. QED  BY <2>2, <2>3, <1>1 DEF IsInjective, Range
<1>. QED  BY <1>1, <1>2, <1>3 DEF Range

LEMMA ConcatRange ==
  ASSUME NEW T, NEW s \in Seq(T), NEW r \in Seq(T)
  PROVE  /\ s \o r \in Seq(T)
         /\ Range(s \o r) = Range(s) \cup Range(r)
         /\ IsInjective(s) /\ IsInjective(r) /\ Range(s) \cap Range(r) = {}
              => IsInjective(s \o r)
<1>1. /\ s \o r \in Seq(T)
      /\ Len(s) \in Nat /\ Len(r) \in Nat
      /\ DOMAIN s = 1 .. Len(s) /\ DOMAIN r = 1 .. Len(r)
      /\ Len(s \o r) = Len(s) + Len(r)
      /\ DOMAIN (s \o r) = 1 .. Len(s) + Len(r)
      /\ \A i \in 1 .. Len(s) + Len(r) :
           (s \o r)[i] = IF i <= Len(s) THEN s[i] ELSE r[i - Len(s)]
  BY ConcatProperties, LenProperties
<1>2. ASSUME NEW i \in 1 .. Len(s) + Len(r)
      PROVE  (s \o r)[i] \in Range(s) \cup Range(r)
  <2>1. CASE i <= Len(s)
    <3>1. i \in DOMAIN s
      BY <2>1, <1>1
    <3>. QED  BY <3>1, <2>1, <1>1 DEF Range
  <2>2. CASE ~ (i <= Len(s))
    <3>1. i - Len(s) \in DOMAIN r
      BY <2>2, <1>1
    <3>. QED  BY <3>1, <2>2, <1>1 DEF Range
  <2>. QED  BY <2>1, <2>2
<1>3. ASSUME NEW i \in DOMAIN s PROVE s[i] \in Range(s \o r)
  <2>1. i \in 1 .. Len(s) + Len(r) /\ i <= Len(s)
    BY <1>1
  <2>. QED  BY <2>1, <1>1 DEF Range
<1>4. ASSUME NEW i \in DOMAIN r PROVE r[i] \in Range(s \o r)
  <2>1. /\ Len(s) + i \in 1 .. Len(s) + Len(r)
        /\ ~ (Len(s) + i <= Len(s)) /\ (Len(s) + i) - Len(s) = i
    BY <1>1
  <2>. QED  BY <2>1, <1>1 DEF Range
<1>5. ASSUME IsInjective(s), IsInjective(r), Range(s) \cap Range(r) = {},
             NEW i \in DOMAIN (s \o r), NEW j \in DOMAIN (s \o r),
             (s \o r)[i] = (s \o r)[j], i <= j
      PROVE  i = j
  <2>1. CASE j <= Len(s)
    <3>1. i \in DOMAIN s /\ j \in DOMAIN s /\ s[i] = s[j]
      BY <2>1, <1>5, <1>1
    <3>. QED  BY <3>1, <1>5 DEF IsInjective
  <2>2. CASE i <= Len(s) /\ ~ (j <= Len(s))
    <3>1. i \in DOMAIN s /\ j - Len(s) \in DOMAIN r /\ s[i] = r[j - Len(s)]
      BY <2>2, <1>5, <1>1
    <3>. QED  BY <3>1, <1>5 DEF Range
  <2>3. CASE ~ (i <= Len(s))
    <3>1. i - Len(s) \in DOMAIN r /\ j - Len(s) \in DOMAIN r
      BY <2>3, <1>5, <1>1
    <3>2. r[i - Len(s)] = r[j - Len(s)]
      BY <2>3, <1>5, <1>1
    <3>3. i - Len(s) = j - Len(s)
      BY <3>1, <3>2, <1>5 DEF IsInjective
    <3>. QED  BY <3>3, <1>5, <1>1
  <2>. QED  BY <2>1, <2>2, <2>3, <1>5
<1>6. ASSUME IsInjective(s), IsInjective(r), Range(s) \cap Range(r) = {}
      PROVE  IsInjective(s \o r)
  <2>. SUFFICES ASSUME NEW i \in DOMAIN (s \o r), NEW j \in DOMAIN (s \o r),
                       (s \o r)[i] = (s \o r)[j]
                PROVE  i = j
    BY DEF IsInjective
  <2>1. i <= j \/ j <= i
    BY <1>1
  <2>. QED  BY <2>1, <1>5, <1>6
<1>. QED  BY <1>1, <1>2, <1>3, <1>4, <1>6 DEF Range

-----------------------------------------------------------------------------
(***************************************************************************)
(* The elements of a sequence in front of an occurrence of t, and what the *)
(* operations of a queue make of them: nobody gets in front of t.          *)
(***************************************************************************)
InFrontOf(s, t) ==
  {s[i] : i \in {k \in DOMAIN s : \E j \in DOMAIN s : k < j /\ s[j] = t}}

LEMMA FrontOfConcat ==
  ASSUME NEW T, NEW s \in Seq(T), NEW r \in Seq(T), NEW t, t \notin Range(r)
  PROVE  InFrontOf(s \o r, t) \subseteq InFrontOf(s, t)
<1>1. /\ Len(s) \in Nat /\ Len(r) \in Nat
      /\ DOMAIN s = 1 .. Len(s) /\ DOMAIN r = 1 .. Len(r)
      /\ DOMAIN (s \o r) = 1 .. Len(s) + Len(r)
      /\ \A i \in 1 .. Len(s) + Len(r) :
           (s \o r)[i] = IF i <= Len(s) THEN s[i] ELSE r[i - Len(s)]
  BY ConcatProperties, LenProperties
<1>. SUFFICES ASSUME NEW i \in 1 .. Len(s) + Len(r),
                     NEW j \in 1 .. Len(s) + Len(r),
                     i < j, (s \o r)[j] = t
              PROVE  (s \o r)[i] \in InFrontOf(s, t)
  BY <1>1 DEF InFrontOf
<1>2. j <= Len(s)
  <2>. SUFFICES ASSUME ~ (j <= Len(s)) PROVE FALSE
    OBVIOUS
  <2>1. j - Len(s) \in DOMAIN r /\ r[j - Len(s)] = t
    BY <1>1
  <2>. QED  BY <2>1 DEF Range
<1>3. /\ i \in DOMAIN s /\ j \in DOMAIN s /\ s[j] = t
      /\ (s \o r)[i] = s[i]
  BY <1>1, <1>2
<1>. QED  BY <1>3 DEF InFrontOf

LEMMA FrontOfAppend ==
  ASSUME NEW T, NEW s \in Seq(T), NEW e \in T, NEW t, t # e
  PROVE  InFrontOf(Append(s, e), t) \subseteq InFrontOf(s, t)
<1>1. /\ Len(s) \in Nat /\ DOMAIN s = 1 .. Len(s)
      /\ DOMAIN Append(s, e) = 1 .. Len(s) + 1
      /\ \A i \in 1 .. Len(s) : Append(s, e)[i] = s[i]
      /\ Append(s, e)[Len(s) + 1] = e
  BY AppendProperties, LenProperties
<1>. SUFFICES ASSUME NEW i \in 1 .. Len(s) + 1, NEW j \in 1 .. Len(s) + 1,
                     i < j, Append(s, e)[j] = t
              PROVE  Append(s, e)[i] \in InFrontOf(s, t)
  BY <1>1 DEF InFrontOf
<1>2. /\ i \in DOMAIN s /\ j \in DOMAIN s /\ s[j] = t
      /\ Append(s, e)[i] = s[i]
  BY <1>1
<1>. QED  BY <1>2 DEF InFrontOf

LEMMA FrontOfTail ==
  ASSUME NEW T, NEW s \in Seq(T), s # << >>, NEW t
  PROVE  InFrontOf(Tail(s), t) \subseteq InFrontOf(s, t)
<1>1. /\ Len(s) \in Nat \ {0} /\ DOMAIN s = 1 .. Len(s)
      /\ DOMAIN Tail(s) = 1 .. Len(s) - 1
      /\ \A i \in 1 .. Len(s) - 1 : Tail(s)[i] = s[i + 1]
  BY HeadTailProperties, LenProperties, EmptySeq
<1>. SUFFICES ASSUME NEW i \in 1 .. Len(s) - 1, NEW j \in 1 .. Len(s) - 1,
                     i < j, Tail(s)[j] = t
              PROVE  Tail(s)[i] \in InFrontOf(s, t)
  BY <1>1 DEF InFrontOf
<1>2. /\ i + 1 \in DOMAIN s /\ j + 1 \in DOMAIN s /\ i + 1 < j + 1
      /\ s[j + 1] = t /\ Tail(s)[i] = s[i + 1]
  BY <1>1
<1>. QED  BY <1>2 DEF InFrontOf

LEMMA FrontOfKept ==
  ASSUME NEW T, NEW s \in Seq(T), NEW S, NEW t
  PROVE  InFrontOf(KeepIn(s, S), t) \subseteq InFrontOf(s, t)
<1>. DEFINE R == {x \in T \X T : \E i \in DOMAIN s : \E j \in DOMAIN s :
                                   i < j /\ x = <<s[i], s[j]>>}
<1>1. ASSUME NEW i \in DOMAIN s, NEW j \in DOMAIN s, i < j
      PROVE  <<s[i], s[j]>> \in R
  <2>1. s[i] \in T /\ s[j] \in T
    BY LenProperties, ElementOfSeq
  <2>. QED  BY <1>1, <2>1
<1>2. \A x \in R : \E i \in DOMAIN s : \E j \in DOMAIN s :
        i < j /\ x = <<s[i], s[j]>>
  OBVIOUS
<1>. HIDE DEF R
<1>3. Ordered(KeepIn(s, S), R)
  BY <1>1, KeepInOrder DEF Ordered
<1>. DEFINE k == KeepIn(s, S)
<1>. HIDE DEF k
<1>4. SUFFICES ASSUME NEW i \in DOMAIN k, NEW j \in DOMAIN k, i < j, k[j] = t
               PROVE  k[i] \in InFrontOf(s, t)
  BY DEF InFrontOf, k
<1>5. <<k[i], t>> \in R
  BY <1>3, <1>4 DEF Ordered, k
<1>6. PICK a \in DOMAIN s, b \in DOMAIN s : a < b /\ <<k[i], t>> = <<s[a], s[b]>>
  BY <1>2, <1>5
<1>. QED  BY <1>6 DEF InFrontOf
=============================================================================
