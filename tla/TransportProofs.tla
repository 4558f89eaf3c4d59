-------------------------- MODULE TransportProofs ---------------------------
(***************************************************************************)
(* What holds of send_data and read_data for every length of frame, every  *)
(* messages and every size of the buffers between them.                    *)
(***************************************************************************)
EXTENDS Transport, SeqFilterProofs

D     == Len(delivered)
Bytes == [msg : Messages, at : 1 .. WA_MAX_INPUT]
Words == [1 .. WA_MAX_INPUT + 1 -> Bytes \cup {Nul}]

\* The bytes of the first m frames, and the place of a byte among all bytes
\* that are ever sent.
Start(m) == m * WA_MAX_INPUT
Place(b) == Start(b.msg - 1) + b.at

\* The bytes that are under way follow those that have been read, and the
\* next byte to be written follows them.
InOrder == \A i \in DOMAIN stream : Place(stream[i]) = Start(D) + Len(taken) + i
NoGap   == Start(D) + Len(taken) + Len(stream) = Start(sent) + put

\* The call in progress has read the start of one frame, and the first pass
\* finds the buffer clean.
OneFrame  == \A i \in 1 .. Len(taken) : taken[i] = Byte(D + 1, i)
FirstPass == pieces = 0 => taken = << >> /\ buf = EmptyBuf

\* The buffer and each text that was read hold bytes of one frame only.
OfFrame(b, m) == \A i \in DOMAIN b : b[i] = Nul \/ b[i].msg = m
Letters(m)    == {Text(m)[i] : i \in DOMAIN Text(m)}
OneMessage    == \A k \in DOMAIN delivered : delivered[k].text \in Seq(Letters(k))

Types ==
  /\ TypeOK
  /\ taken \in Seq(Bytes)
  /\ buf \in Words /\ buf[WA_MAX_INPUT + 1] = Nul
  /\ delivered \in Seq([bytes : Seq(Bytes), pieces : Nat,
                        text : {CString(b) : b \in Words}])

IInv ==
  /\ Types
  /\ InOrder
  /\ NoGap
  /\ OneFrame
  /\ FirstPass
  /\ OfFrame(buf, D + 1)
  /\ OneMessage
  /\ receiver = "told" => AtEnd
  /\ FramesKeepTheirBounds
  /\ WholeFrameIsItsMessage

-----------------------------------------------------------------------------
(* Arithmetic of places. *)

LEMMA NextFrame ==
  ASSUME NEW m \in Int
  PROVE  Start(m) \in Int /\ Start(m + 1) = Start(m) + WA_MAX_INPUT
<1>1. WA_MAX_INPUT \in Int
  BY FrameAssumption
<1>2. ASSUME NEW f \in Int PROVE m * f \in Int /\ (m + 1) * f = m * f + f
  OBVIOUS
<1>. QED
  BY <1>1, <1>2 DEF Start

LEMMA FarFrames ==
  ASSUME NEW m \in Int, NEW k \in Int, m + 1 <= k
  PROVE  Start(m) + WA_MAX_INPUT <= Start(k)
<1>1. ASSUME NEW f \in Nat PROVE m * f + f <= k * f
  <2>1. k * f - m * f = f + (k - m - 1) * f
    OBVIOUS
  <2>2. k - m - 1 \in Nat
    OBVIOUS
  <2>3. (k - m - 1) * f \in Nat
    BY <2>2
  <2>4. m * f \in Int /\ k * f \in Int
    OBVIOUS
  <2>. QED
    BY <2>1, <2>3, <2>4
<1>. QED
  BY <1>1, FrameAssumption DEF Start

\* A place belongs to one byte.
LEMMA PlaceIsUnique ==
  ASSUME NEW m \in Int, NEW k \in Int,
         NEW i \in 1 .. WA_MAX_INPUT, NEW j \in 1 .. WA_MAX_INPUT,
         Start(m) + i = Start(k) + j
  PROVE  m = k /\ i = j
<1>1. Start(m) \in Int /\ Start(k) \in Int /\ WA_MAX_INPUT \in Nat
  BY NextFrame, FrameAssumption
<1>2. m + 1 <= k => Start(m) + WA_MAX_INPUT <= Start(k)
  BY FarFrames
<1>3. k + 1 <= m => Start(k) + WA_MAX_INPUT <= Start(m)
  BY FarFrames
<1>4. ~ m + 1 <= k /\ ~ k + 1 <= m
  BY <1>1, <1>2, <1>3
<1>. QED
  BY <1>1, <1>4

LEMMA ByteFields ==
  ASSUME NEW m, NEW i
  PROVE  Byte(m, i).msg = m /\ Byte(m, i).at = i
  BY DEF Byte

LEMMA ByteIsPlaced ==
  ASSUME NEW b, NEW m \in Int, NEW a, b.msg = m + 1, b.at = a
  PROVE  Place(b) = Start(m) + a
<1>1. b.msg - 1 = m
  OBVIOUS
<1>2. Start(b.msg - 1) = Start(m)
  BY <1>1, Zenon
<1>. QED
  BY <1>2, Zenon DEF Place

LEMMA Sizes ==
  ASSUME IInv
  PROVE  /\ WA_MAX_INPUT \in Nat /\ WA_MAX_INPUT >= 1
         /\ D \in Nat /\ sent \in Nat /\ put \in 0 .. WA_MAX_INPUT - 1
         /\ Len(taken) \in 0 .. WA_MAX_INPUT - 1 /\ Len(stream) \in Nat
         /\ Start(D) \in Int /\ Start(sent) \in Int
         /\ taken \in Seq(Bytes) /\ stream \in Seq(Bytes)
         /\ Start(D) + Len(taken) + Len(stream) = Start(sent) + put
<1>1. WA_MAX_INPUT \in Nat /\ WA_MAX_INPUT >= 1
  BY FrameAssumption
<1>2. taken \in Seq(Bytes) /\ stream \in Seq(Bytes)
  BY DEF IInv, Types, TypeOK, Bytes
<1>3. /\ D \in Nat /\ sent \in Nat /\ put \in 0 .. WA_MAX_INPUT - 1
      /\ Len(taken) \in 0 .. WA_MAX_INPUT - 1 /\ Len(stream) \in Nat
  BY <1>1, <1>2, LengthAssumption DEF D, IInv, Types, TypeOK
<1>. QED
  BY <1>1, <1>2, <1>3, NextFrame DEF IInv, NoGap

\* Frames are not read before they have been written, and the reader is in
\* the frame that it has counted.
LEMMA ReadIsSent ==
  ASSUME IInv
  PROVE  /\ D <= sent
         /\ stream = << >> => D = sent
<1>1. sent + 1 <= D => Start(sent) + WA_MAX_INPUT <= Start(D)
  BY Sizes, FarFrames
<1>2. D + 1 <= sent => Start(D) + WA_MAX_INPUT <= Start(sent)
  BY Sizes, FarFrames
<1>3. ~ sent + 1 <= D
  BY <1>1, Sizes
<1>4. ASSUME stream = << >> PROVE ~ D + 1 <= sent
  <2>1. Len(stream) = 0
    BY <1>4
  <2>. QED
    BY <1>2, <2>1, Sizes
<1>. QED
  BY <1>3, <1>4, Sizes

\* What a pass of read_data gets is the next part of the frame it is in.
LEMMA PassReads ==
  ASSUME IInv, NEW i \in 1 .. Len(stream), Len(taken) + i <= WA_MAX_INPUT
  PROVE  stream[i] = Byte(D + 1, Len(taken) + i) /\ D + 1 \in Messages
<1>1. stream[i] \in Bytes
  BY Sizes
<1>2. Place(stream[i]) = Start(D) + Len(taken) + i
  BY Sizes DEF IInv, InOrder
<1>3. stream[i].msg \in Messages /\ stream[i].msg \in Int
      /\ stream[i].at \in 1 .. WA_MAX_INPUT
  BY <1>1, LengthAssumption DEF Bytes, Messages
<1>. DEFINE m == stream[i].msg
            j == stream[i].at
<1>4. Start(m - 1) + j = Start(D) + (Len(taken) + i)
  BY <1>2, Sizes DEF Place
<1>5. m - 1 \in Int /\ Len(taken) + i \in 1 .. WA_MAX_INPUT /\ D \in Int
  <2>1. Len(taken) \in Nat /\ Len(stream) \in Nat /\ D \in Int
    BY Sizes
  <2>. QED
    BY <1>3, <2>1
<1>6. m - 1 = D /\ j = Len(taken) + i
  BY <1>3, <1>4, <1>5, PlaceIsUnique
<1>7. m = D + 1
  BY <1>3, <1>6
<1>8. stream[i] = [msg |-> m, at |-> j]
  BY <1>1 DEF Bytes
<1>. QED
  BY <1>3, <1>6, <1>7, <1>8 DEF Byte

-----------------------------------------------------------------------------
LEMMA EmptyIsWords == EmptyBuf \in Words /\ EmptyBuf[WA_MAX_INPUT + 1] = Nul
  BY FrameAssumption DEF EmptyBuf, Words

LEMMA EmptyIsOfFrame == \A m : OfFrame(EmptyBuf, m)
  BY DEF OfFrame, EmptyBuf

LEMMA InitIInv == Init => IInv
<1>. SUFFICES ASSUME Init PROVE IInv
  OBVIOUS
<1>1. Types
  BY FrameAssumption, LengthAssumption, CapacityAssumption, EmptyIsWords
  DEF Init, Types, TypeOK
<1>2. D = 0 /\ InOrder /\ OneFrame
  BY DEF Init, D, InOrder, OneFrame
<1>3. NoGap
  <2>1. Start(0) \in Int
    BY NextFrame
  <2>. QED
    BY <1>2, <2>1 DEF Init, NoGap
<1>. QED
  BY <1>1, <1>2, <1>3, EmptyIsOfFrame
  DEF Init, IInv, FirstPass, OneMessage, FramesKeepTheirBounds,
      WholeFrameIsItsMessage

LEMMA SendIInv ==
  ASSUME IInv, NEW n \in 1 .. WA_MAX_INPUT, SendPiece(n)
  PROVE  IInv'
<1>. DEFINE W == WA_MAX_INPUT
            S == Start(sent)
            T == Start(D) + Len(taken)
            L == Len(stream)
<1>1. /\ W \in Nat /\ n \in 1 .. W /\ S \in Int /\ T \in Int /\ L \in Nat
      /\ sent \in Nat /\ put \in Nat /\ put < W
      /\ stream \in Seq(Bytes)
      /\ T + L = S + put
  BY Sizes
<1>2. put + n <= W
  BY <1>1 DEF SendPiece, Room
<1>3. /\ sent + 1 \in Messages
      /\ stream' = stream \o Wrote(n)
      /\ L + n <= Capacity
      /\ receiver' = receiver /\ buf' = buf /\ taken' = taken /\ pieces' = pieces
      /\ delivered' = delivered /\ sender' = sender /\ sender = "up"
  BY DEF SendPiece, reading
<1>4. \/ put + n = W /\ sent' = sent + 1 /\ put' = 0
      \/ put + n < W /\ sent' = sent /\ put' = put + n
  BY <1>1, <1>2 DEF SendPiece
<1>5. D' = D
  BY <1>3 DEF D
<1>6. Wrote(n) \in Seq(Bytes) /\ Len(Wrote(n)) = n
      /\ \A j \in 1 .. n : Wrote(n)[j] = Byte(sent + 1, put + j)
  <2>1. \A j \in 1 .. n : put + j \in 1 .. W
    BY <1>1, <1>2
  <2>2. \A j \in 1 .. n : Byte(sent + 1, put + j) \in Bytes
    BY <1>3, <2>1 DEF Byte, Bytes
  <2>. QED
    BY <1>1, <2>2 DEF Wrote
<1>7. /\ stream' \in Seq(Bytes)
      /\ Len(stream') = L + n
      /\ \A i \in 1 .. L + n :
           stream'[i] = IF i <= L THEN stream[i] ELSE Byte(sent + 1, put + (i - L))
  <2>1. /\ stream' \in Seq(Bytes) /\ Len(stream') = L + n
        /\ \A i \in 1 .. L + n :
             stream'[i] = IF i <= L THEN stream[i] ELSE Wrote(n)[i - L]
    <3>1. stream \in Seq(Bytes) /\ stream' = stream \o Wrote(n)
      BY <1>1, <1>3
    <3>. QED
      BY <1>6, <3>1, ConcatProperties
  <2>2. \A i \in 1 .. L + n : ~ i <= L => i - L \in 1 .. n
    BY <1>1
  <2>. QED
    BY <1>6, <2>1, <2>2
<1>8. Start(sent') + put' = S + put + n
  <2>1. Start(sent + 1) = S + W
    BY <1>1, NextFrame
  <2>. QED
    BY <1>1, <1>4, <2>1
<1>9. Types'
  <2>1. sent' \in 0 .. Len(Length)
    <3>1. sent + 1 \in 1 .. Len(Length) /\ Len(Length) \in Nat
      BY <1>3, LengthAssumption DEF Messages
    <3>. QED
      BY <1>1, <1>4, <3>1
  <2>2. put' \in 0 .. WA_MAX_INPUT - 1
    BY <1>1, <1>4
  <2>. QED
    BY <1>3, <1>7, <2>1, <2>2 DEF IInv, Types, TypeOK, Bytes
<1>10. InOrder'
  <2>1. ASSUME NEW i \in 1 .. L + n PROVE Place(stream'[i]) = T + i
    <3>1. CASE i <= L
      <4>1. i \in DOMAIN stream /\ stream'[i] = stream[i]
        BY <1>1, <1>7, <3>1
      <4>. QED
        BY <4>1 DEF IInv, InOrder
    <3>2. CASE ~ i <= L
      <4>1. stream'[i].msg = sent + 1 /\ stream'[i].at = put + (i - L)
        BY <1>7, <3>2, ByteFields
      <4>2. sent \in Int
        BY <1>1
      <4>3. Place(stream'[i]) = S + (put + (i - L))
        BY ONLY <4>1, <4>2, ByteIsPlaced
      <4>4. S + (put + (i - L)) = T + i
        <5>1. /\ S \in Int /\ T \in Int /\ L \in Int /\ put \in Int /\ i \in Int
              /\ T + L = S + put
          BY <1>1
        <5>. HIDE DEF S, T, L
        <5>. QED
          BY <5>1
      <4>. QED
        BY <4>3, <4>4
    <3>. QED
      BY <3>1, <3>2
  <2>2. DOMAIN stream' = 1 .. L + n
    BY <1>7
  <2>. QED
    BY <1>3, <1>5, <2>1, <2>2 DEF InOrder, Place, Start
<1>11. NoGap'
  <2>1. T + (L + n) = Start(sent') + put'
    BY <1>1, <1>8
  <2>. QED
    BY <1>3, <1>5, <1>7, <2>1 DEF NoGap, Start
<1>12. (receiver = "told" => AtEnd)'
  BY <1>3 DEF IInv, AtEnd
<1>13. /\ OneFrame' /\ FirstPass' /\ FramesKeepTheirBounds' /\ WholeFrameIsItsMessage'
  BY <1>3, <1>5
  DEF IInv, OneFrame, FirstPass, FramesKeepTheirBounds, WholeFrameIsItsMessage
<1>14. OfFrame(buf, D + 1)' /\ OneMessage'
  BY <1>3, <1>5 DEF IInv, OfFrame, OneMessage, Letters
<1>. QED
  BY <1>9, <1>10, <1>11, <1>12, <1>13, <1>14 DEF IInv

-----------------------------------------------------------------------------
\* What a pass gets, and what it leaves: the rest of the stream, and a longer
\* start of the frame.
All(n) == taken \o SubSeq(stream, 1, n)

LEMMA PassFacts ==
  ASSUME IInv, NEW n \in 1 .. WA_MAX_INPUT, ReadPiece(n)
  PROVE  /\ n <= Len(stream) /\ Len(taken) + n <= WA_MAX_INPUT /\ D + 1 \in Messages
         /\ All(n) \in Seq(Bytes) /\ Len(All(n)) = Len(taken) + n
         /\ \A i \in 1 .. Len(taken) + n : All(n)[i] = Byte(D + 1, i)
         /\ stream' \in Seq(Bytes) /\ Len(stream') = Len(stream) - n
         /\ \A i \in 1 .. Len(stream) - n : stream'[i] = stream[n + i]
         /\ Filled(n) \in Words /\ Filled(n)[WA_MAX_INPUT + 1] = Nul
         /\ OfFrame(Filled(n), D + 1)
<1>. DEFINE W == WA_MAX_INPUT
            L == Len(stream)
            t == Len(taken)
            part == SubSeq(stream, 1, n)
<1>1. /\ W \in Nat /\ n \in 1 .. W /\ L \in Nat /\ t \in Nat
      /\ stream \in Seq(Bytes) /\ taken \in Seq(Bytes) /\ D \in Nat
  BY Sizes
<1>2. n <= L /\ t + n <= W /\ stream' = SubSeq(stream, n + 1, L)
  BY <1>1 DEF ReadPiece, Wanted
<1>3. \A i \in 1 .. L : stream[i] \in Bytes
  BY <1>1
<1>4. /\ part \in Seq(Bytes) /\ Len(part) = n
      /\ \A i \in 1 .. n : part[i] = stream[i]
  <2>1. \A i \in 1 .. n : stream[i] \in Bytes
    BY <1>1, <1>2, <1>3
  <2>2. /\ part \in Seq(Bytes) /\ Len(part) = (IF 1 <= n THEN n - 1 + 1 ELSE 0)
        /\ \A i \in 1 .. n - 1 + 1 : part[i] = stream[1 + i - 1]
    BY <1>1, <2>1, SubSeqProperties
  <2>3. n - 1 + 1 = n /\ 1 <= n /\ \A i \in 1 .. n : 1 + i - 1 = i
    BY <1>1
  <2>. QED
    BY <2>2, <2>3
<1>5. \A j \in 1 .. n : stream[j] = Byte(D + 1, t + j) /\ D + 1 \in Messages
  <2>1. \A j \in 1 .. n : j \in 1 .. L /\ t + j <= W
    BY <1>1, <1>2
  <2>. QED
    BY <2>1, PassReads
<1>6. D + 1 \in Messages
  <2>1. 1 \in 1 .. n
    BY <1>1
  <2>. QED
    BY <1>5, <2>1
<1>7. /\ All(n) \in Seq(Bytes) /\ Len(All(n)) = t + n
      /\ \A i \in 1 .. t + n : All(n)[i] = IF i <= t THEN taken[i] ELSE part[i - t]
  BY <1>1, <1>4, ConcatProperties DEF All
<1>8. ASSUME NEW i \in 1 .. t + n PROVE All(n)[i] = Byte(D + 1, i)
  <2>1. CASE i <= t
    <3>1. i \in 1 .. t
      BY <1>1, <2>1
    <3>. QED
      BY <1>7, <2>1, <3>1 DEF IInv, OneFrame
  <2>2. CASE ~ i <= t
    <3>1. i - t \in 1 .. n /\ t + (i - t) = i
      BY <1>1, <2>2
    <3>2. part[i - t] = Byte(D + 1, t + (i - t))
      BY <1>4, <1>5, <3>1
    <3>. QED
      BY <1>7, <2>2, <3>1, <3>2
  <2>. QED
    BY <2>1, <2>2
<1>9. /\ stream' \in Seq(Bytes) /\ Len(stream') = L - n
      /\ \A i \in 1 .. L - n : stream'[i] = stream[n + i]
  <2>1. \A i \in n + 1 .. L : stream[i] \in Bytes
    BY <1>1, <1>3
  <2>2. /\ stream' \in Seq(Bytes)
        /\ Len(stream') = (IF n + 1 <= L THEN L - (n + 1) + 1 ELSE 0)
        /\ \A i \in 1 .. L - (n + 1) + 1 : stream'[i] = stream[n + 1 + i - 1]
    <3>1. n + 1 \in Int /\ L \in Int
      BY <1>1
    <3>. QED
      BY <1>2, <2>1, <3>1, SubSeqProperties
  <2>3. L - (n + 1) + 1 = L - n /\ \A i \in 1 .. L - n : n + 1 + i - 1 = n + i
    BY <1>1
  <2>4. (IF n + 1 <= L THEN L - (n + 1) + 1 ELSE 0) = L - n
    BY <1>1, <1>2
  <2>. QED
    BY <2>2, <2>3, <2>4
<1>10. Filled(n) \in Words /\ Filled(n)[W + 1] = Nul
  <2>1. buf \in [1 .. W + 1 -> Bytes \cup {Nul}] /\ buf[W + 1] = Nul
    BY DEF IInv, Types, Words
  <2>2. \A i \in 1 .. W + 1 : i <= n => stream[i] \in Bytes
    BY <1>1, <1>2, <1>3
  <2>3. Filled(n) = [i \in 1 .. W + 1 |-> IF i <= n THEN stream[i] ELSE buf[i]]
    BY <2>1 DEF Filled
  <2>4. W + 1 \in 1 .. W + 1 /\ ~ W + 1 <= n
    BY <1>1
  <2>. QED
    BY <2>1, <2>2, <2>3, <2>4 DEF Words
<1>11. OfFrame(Filled(n), D + 1)
  <2>1. DOMAIN buf = 1 .. W + 1 /\ OfFrame(buf, D + 1)
    BY DEF IInv, Types, Words
  <2>2. ASSUME NEW i \in 1 .. W + 1 PROVE Filled(n)[i] = Nul \/ Filled(n)[i].msg = D + 1
    <3>1. CASE i <= n
      <4>1. i \in 1 .. n /\ Filled(n)[i] = stream[i]
        BY <1>1, <2>1, <3>1 DEF Filled
      <4>. QED
        BY <1>5, <4>1, ByteFields
    <3>2. CASE ~ i <= n
      <4>1. Filled(n)[i] = buf[i]
        BY <2>1, <3>2 DEF Filled
      <4>. QED
        BY <2>1, <4>1 DEF OfFrame
    <3>. QED
      BY <3>1, <3>2
  <2>3. DOMAIN Filled(n) = 1 .. W + 1
    BY <2>1 DEF Filled
  <2>. QED
    BY <2>2, <2>3 DEF OfFrame
<1>. QED
  BY <1>2, <1>6, <1>7, <1>8, <1>9, <1>10, <1>11

\* What is in front of the first NUL of a buffer with bytes of one frame.
LEMMA TextOfFrame ==
  ASSUME NEW m \in Messages, NEW b \in Words, b[WA_MAX_INPUT + 1] = Nul,
         OfFrame(b, m)
  PROVE  CString(b) \in Seq(Letters(m))
<1>. DEFINE W == WA_MAX_INPUT
            ends == {i \in 1 .. W + 1 : IsNul(b[i])}
<1>1. W \in Nat /\ Length[m] \in Nat /\ DOMAIN b = 1 .. W + 1
  BY FrameAssumption, LengthAssumption DEF Messages, Words
<1>2. PICK e \in ends : \A i \in ends : e <= i
  <2>1. ends \in SUBSET Nat /\ W + 1 \in ends
    BY <1>1 DEF IsNul
  <2>. HIDE DEF ends
  <2>. QED
    BY <2>1, LeastNat
<1>3. e \in DOMAIN b /\ IsNul(b[e]) /\ \A j \in 1 .. e - 1 : ~ IsNul(b[j])
  <2>1. \A j \in 1 .. e - 1 : j \in 1 .. W + 1 /\ ~ e <= j
    BY <1>1
  <2>. QED
    BY <1>1, <1>2, <2>1
<1>. DEFINE c == CHOOSE i \in DOMAIN b : IsNul(b[i]) /\ \A j \in 1 .. i - 1 : ~ IsNul(b[j])
<1>4. c \in DOMAIN b /\ \A j \in 1 .. c - 1 : ~ IsNul(b[j])
  BY <1>3
<1>5. CString(b) = SubSeq(b, 1, c - 1)
  BY Zenon DEF CString
<1>. HIDE DEF c
<1>6. ASSUME NEW i \in 1 .. c - 1 PROVE b[i] \in Letters(m)
  <2>1. i \in 1 .. W + 1 /\ ~ IsNul(b[i])
    BY <1>1, <1>4
  <2>2. b[i] # Nul /\ ~ b[i].at > Length[b[i].msg] /\ b[i].msg = m
    BY <1>1, <2>1 DEF IsNul, OfFrame
  <2>3. b[i] \in Bytes
    BY <2>1, <2>2 DEF Words
  <2>4. b[i].at \in 1 .. Length[m] /\ b[i] = Byte(m, b[i].at)
    BY <1>1, <2>2, <2>3 DEF Bytes, Byte
  <2>. QED
    BY <2>4 DEF Letters, Text
<1>7. SubSeq(b, 1, c - 1) = [i \in 1 .. c - 1 |-> b[i]]
  BY <1>1, <1>4
<1>8. c - 1 \in Nat
  BY <1>1, <1>4
<1>. QED
  BY <1>5, <1>6, <1>7, <1>8

\* The first NUL of a buffer that holds a whole frame is behind its message.
LEMMA WholeText ==
  ASSUME NEW m \in Messages, NEW b \in Words, b[WA_MAX_INPUT + 1] = Nul,
         \A i \in 1 .. WA_MAX_INPUT : b[i] = Byte(m, i)
  PROVE  CString(b) = Text(m)
<1>. DEFINE e == Length[m] + 1
<1>1. /\ Length[m] \in Nat /\ Length[m] <= WA_MAX_INPUT /\ WA_MAX_INPUT \in Nat
      /\ e \in 1 .. WA_MAX_INPUT + 1
  BY FrameAssumption, LengthAssumption DEF Messages
<1>2. DOMAIN b = 1 .. WA_MAX_INPUT + 1
  BY DEF Words
<1>3. IsNul(b[e])
  <2>1. CASE Length[m] = WA_MAX_INPUT
    BY <2>1 DEF IsNul
  <2>2. CASE Length[m] # WA_MAX_INPUT
    <3>1. e \in 1 .. WA_MAX_INPUT
      BY <1>1, <2>2
    <3>2. b[e].msg = m /\ b[e].at = e
      BY <3>1, ByteFields
    <3>. QED
      BY <1>1, <3>2 DEF IsNul
  <2>. QED
    BY <2>1, <2>2
<1>4. ASSUME NEW i \in 1 .. e - 1 PROVE ~ IsNul(b[i])
  <2>1. i \in 1 .. WA_MAX_INPUT /\ i <= Length[m] /\ i # 0
    BY <1>1
  <2>2. b[i].msg = m /\ b[i].at = i
    BY <2>1, ByteFields
  <2>3. b[i] # Nul
    BY <2>1, <2>2, ByteFields DEF Nul
  <2>. QED
    BY <1>1, <2>1, <2>2, <2>3 DEF IsNul
<1>5. ASSUME NEW i \in DOMAIN b, IsNul(b[i]), \A j \in 1 .. i - 1 : ~ IsNul(b[j])
      PROVE  i = e
  <2>1. i \in Nat /\ i >= 1
    BY <1>1, <1>2
  <2>2. ~ i < e
    BY <1>1, <1>4, <1>5, <2>1
  <2>3. ~ e < i
    BY <1>1, <1>3, <1>5, <2>1
  <2>. QED
    BY <1>1, <2>1, <2>2, <2>3
<1>6. (CHOOSE i \in DOMAIN b : IsNul(b[i]) /\ \A j \in 1 .. i - 1 : ~ IsNul(b[j])) = e
  BY <1>1, <1>2, <1>3, <1>4, <1>5
<1>7. CString(b) = SubSeq(b, 1, e - 1) /\ e - 1 = Length[m]
  <2>1. CString(b) = SubSeq(b, 1, e - 1)
    BY ONLY <1>6, Zenon DEF CString
  <2>2. e - 1 = Length[m]
    BY <1>1
  <2>. QED
    BY <2>1, <2>2
<1>8. \A i \in 1 .. Length[m] : b[i] = Byte(m, i) /\ b[i] \in Bytes \cup {Nul}
  BY <1>1 DEF Words
<1>9. /\ SubSeq(b, 1, Length[m]) \in Seq(Bytes \cup {Nul})
      /\ Len(SubSeq(b, 1, Length[m])) = Length[m]
      /\ \A i \in 1 .. Length[m] : SubSeq(b, 1, Length[m])[i] = b[i]
  <2>1. /\ SubSeq(b, 1, Length[m]) \in Seq(Bytes \cup {Nul})
        /\ Len(SubSeq(b, 1, Length[m]))
             = (IF 1 <= Length[m] THEN Length[m] - 1 + 1 ELSE 0)
        /\ \A i \in 1 .. Length[m] - 1 + 1 : SubSeq(b, 1, Length[m])[i] = b[1 + i - 1]
    BY <1>1, <1>8, SubSeqProperties
  <2>2. /\ (IF 1 <= Length[m] THEN Length[m] - 1 + 1 ELSE 0) = Length[m]
        /\ Length[m] - 1 + 1 = Length[m]
        /\ \A i \in 1 .. Length[m] : 1 + i - 1 = i
    BY <1>1
  <2>. QED
    BY <2>1, <2>2
<1>10. Text(m) \in Seq(Bytes \cup {Nul}) /\ Len(Text(m)) = Length[m]
       /\ \A i \in 1 .. Length[m] : Text(m)[i] = Byte(m, i)
  BY <1>1, <1>8 DEF Text
<1>11. SubSeq(b, 1, Length[m]) = Text(m)
  BY <1>8, <1>9, <1>10, SeqEqual
<1>. QED
  BY <1>7, <1>11

-----------------------------------------------------------------------------
\* A call of read_data that returns has read the next frame, whole.
LEMMA FrameIsRead ==
  ASSUME IInv, NEW n \in 1 .. WA_MAX_INPUT, ReadPiece(n), Len(All(n)) >= WA_MAX_INPUT
  PROVE  /\ All(n) = Frame(D + 1) /\ D + 1 \in Messages
         /\ pieces + 1 = 1 => CString(Filled(n)) = Text(D + 1)
         /\ CString(Filled(n)) \in Seq(Letters(D + 1))
<1>. DEFINE W == WA_MAX_INPUT
<1>1. W \in Nat /\ n \in 1 .. W /\ Len(taken) \in Nat /\ pieces \in Nat
  BY Sizes DEF IInv, Types, TypeOK
<1>2. /\ n <= Len(stream) /\ Len(taken) + n = W /\ D + 1 \in Messages
      /\ All(n) \in Seq(Bytes) /\ Len(All(n)) = W
      /\ \A i \in 1 .. W : All(n)[i] = Byte(D + 1, i)
      /\ Filled(n) \in Words /\ Filled(n)[W + 1] = Nul
      /\ OfFrame(Filled(n), D + 1)
  <2>1. /\ n <= Len(stream) /\ Len(taken) + n <= W /\ D + 1 \in Messages
        /\ All(n) \in Seq(Bytes) /\ Len(All(n)) = Len(taken) + n
        /\ \A i \in 1 .. Len(taken) + n : All(n)[i] = Byte(D + 1, i)
        /\ Filled(n) \in Words /\ Filled(n)[W + 1] = Nul
        /\ OfFrame(Filled(n), D + 1)
    BY PassFacts
  <2>2. Len(taken) + n = W
    BY <1>1, <2>1
  <2>. QED
    BY <2>1, <2>2
<1>3. All(n) = Frame(D + 1)
  <2>1. \A i \in 1 .. W : Byte(D + 1, i) \in Bytes
    BY <1>2 DEF Byte, Bytes
  <2>2. /\ Frame(D + 1) \in Seq(Bytes) /\ Len(Frame(D + 1)) = W
        /\ \A i \in 1 .. W : Frame(D + 1)[i] = Byte(D + 1, i)
    BY <1>1, <2>1 DEF Frame
  <2>. QED
    BY <1>2, <2>2, SeqEqual
<1>4. ASSUME pieces + 1 = 1 PROVE CString(Filled(n)) = Text(D + 1)
  <2>1. pieces = 0
    BY <1>1, <1>4
  <2>2. Len(taken) = 0
    BY <2>1 DEF IInv, FirstPass
  <2>3. n = W
    BY <1>1, <1>2, <2>2
  <2>4. ASSUME NEW i \in 1 .. W PROVE Filled(n)[i] = Byte(D + 1, i)
    <3>1. i \in 1 .. Len(stream) /\ Len(taken) + i = i /\ i <= W
      BY <1>1, <1>2, <2>2, <2>3, Sizes
    <3>2. stream[i] = Byte(D + 1, i)
      BY <3>1, PassReads
    <3>3. DOMAIN buf = 1 .. W + 1
      BY DEF IInv, Types, Words
    <3>. QED
      BY <1>1, <2>3, <3>2, <3>3 DEF Filled
  <2>. QED
    BY <1>2, <2>4, WholeText
<1>5. CString(Filled(n)) \in Seq(Letters(D + 1))
  BY <1>2, TextOfFrame
<1>. QED
  BY <1>2, <1>3, <1>4, <1>5

LEMMA ReadIInv ==
  ASSUME IInv, NEW n \in 1 .. WA_MAX_INPUT, ReadPiece(n)
  PROVE  IInv'
<1>. DEFINE W == WA_MAX_INPUT
            t == Len(taken)
            L == Len(stream)
            new == [bytes  |-> All(n), pieces |-> pieces + 1,
                    text   |-> CString(Filled(n))]
<1>1. /\ W \in Nat /\ W >= 1 /\ n \in 1 .. W /\ t \in Nat /\ L \in Nat /\ D \in Nat
      /\ Start(D) \in Int /\ Start(sent) \in Int /\ put \in Nat
      /\ Start(D) + t + L = Start(sent) + put
      /\ pieces \in 0 .. t
  BY Sizes DEF IInv, Types, TypeOK
<1>2. /\ n <= L /\ t + n <= W /\ D + 1 \in Messages
      /\ All(n) \in Seq(Bytes) /\ Len(All(n)) = t + n
      /\ \A i \in 1 .. t + n : All(n)[i] = Byte(D + 1, i)
      /\ stream' \in Seq(Bytes) /\ Len(stream') = L - n
      /\ \A i \in 1 .. L - n : stream'[i] = stream[n + i]
      /\ Filled(n) \in Words /\ Filled(n)[W + 1] = Nul
      /\ OfFrame(Filled(n), D + 1)
  BY PassFacts
<1>3. sender' = sender /\ sent' = sent /\ put' = put /\ receiver' = "up"
  BY DEF ReadPiece, writing
<1>4. \/ /\ t + n = W
         /\ delivered' = Append(delivered, new)
         /\ buf' = EmptyBuf /\ taken' = << >> /\ pieces' = 0
      \/ /\ t + n < W
         /\ buf' = Filled(n) /\ taken' = All(n) /\ pieces' = pieces + 1
         /\ delivered' = delivered
  <2>1. IF Len(All(n)) >= WA_MAX_INPUT
        THEN /\ delivered' = Append(delivered, new)
             /\ buf' = EmptyBuf /\ taken' = << >> /\ pieces' = 0
        ELSE /\ buf' = Filled(n) /\ taken' = All(n) /\ pieces' = pieces + 1
             /\ delivered' = delivered
    BY Zenon DEF ReadPiece, All
  <2>2. /\ Len(All(n)) >= W => t + n = W
        /\ ~ Len(All(n)) >= W => t + n < W
    <3>1. /\ Len(All(n)) = t + n /\ t + n <= W
          /\ W \in Nat /\ n \in Nat /\ t \in Nat
      BY <1>1, <1>2
    <3>. HIDE DEF W, t
    <3>. QED
      BY ONLY <3>1
  <2>. QED
    BY <2>1, <2>2, Zenon
<1>5. new \in [bytes : Seq(Bytes), pieces : Nat, text : {CString(b) : b \in Words}]
  BY <1>1, <1>2
<1>6. /\ delivered' \in Seq([bytes : Seq(Bytes), pieces : Nat,
                             text : {CString(b) : b \in Words}])
      /\ t + n = W => /\ D' = D + 1
                      /\ \A k \in 1 .. D : delivered'[k] = delivered[k]
                      /\ delivered'[D + 1] = new
      /\ t + n < W => D' = D
  <2>. DEFINE R == [bytes : Seq(Bytes), pieces : Nat, text : {CString(b) : b \in Words}]
  <2>1. delivered \in Seq(R) /\ new \in R
    BY <1>5 DEF IInv, Types
  <2>2. /\ Append(delivered, new) \in Seq(R)
        /\ Len(Append(delivered, new)) = Len(delivered) + 1
        /\ \A k \in 1 .. Len(delivered) : Append(delivered, new)[k] = delivered[k]
        /\ Append(delivered, new)[Len(delivered) + 1] = new
    <3>. HIDE DEF R, new
    <3>. QED
      BY <2>1, AppendProperties
  <2>. HIDE DEF R, new
  <2>3. CASE t + n = W
    <3>1. delivered' = Append(delivered, new) /\ ~ t + n < W
      BY <1>1, <1>4, <2>3
    <3>. QED
      BY <2>2, <2>3, <3>1 DEF D, R
  <2>4. CASE t + n < W
    <3>1. delivered' = delivered /\ ~ t + n = W
      BY <1>1, <1>4, <2>4
    <3>. QED
      BY <2>1, <2>4, <3>1 DEF D, R
  <2>. QED
    BY <1>4, <2>3, <2>4
<1>7. Start(D') + Len(taken') = Start(D) + t + n /\ taken' \in Seq(Bytes)
      /\ Len(taken') < W /\ pieces' \in 0 .. Len(taken')
  <2>1. CASE t + n = W
    <3>1. Start(D + 1) = Start(D) + W
      BY <1>1, NextFrame
    <3>2. Len(<< >>) = 0 /\ << >> \in Seq(Bytes)
      OBVIOUS
    <3>3. taken' = << >> /\ pieces' = 0 /\ D' = D + 1
      BY <1>1, <1>4, <1>6, <2>1
    <3>. QED
      BY <1>1, <2>1, <3>1, <3>2, <3>3
  <2>2. CASE t + n < W
    <3>1. taken' = All(n) /\ pieces' = pieces + 1 /\ D' = D
      BY <1>1, <1>4, <1>6, <2>2
    <3>2. Start(D') = Start(D) /\ Len(taken') = t + n /\ taken' \in Seq(Bytes)
      BY <1>2, <3>1
    <3>. QED
      BY <1>1, <2>2, <3>1, <3>2
  <2>. QED
    BY <1>1, <1>4, <2>1, <2>2
<1>8. Types'
  <2>1. buf' \in Words /\ buf'[W + 1] = Nul
    BY <1>2, <1>4, EmptyIsWords
  <2>2. L - n <= Capacity /\ L - n \in Nat
    BY <1>1, <1>2, CapacityAssumption DEF IInv, Types, TypeOK
  <2>. QED
    BY <1>2, <1>3, <1>6, <1>7, <2>1, <2>2 DEF IInv, Types, TypeOK, Bytes, Words
<1>9. InOrder'
  <2>1. ASSUME NEW i \in 1 .. L - n PROVE Place(stream'[i]) = Start(D) + t + n + i
    <3>1. n + i \in DOMAIN stream /\ stream'[i] = stream[n + i]
      <4>1. DOMAIN stream = 1 .. L
        BY Sizes
      <4>2. stream'[i] = stream[n + i]
        BY <1>2
      <4>3. n \in Nat /\ L \in Nat /\ n <= L
        BY <1>1, <1>2
      <4>4. n + i \in 1 .. L
        <5>. HIDE DEF L
        <5>. QED
          BY <4>3
      <4>. QED
        BY <4>1, <4>2, <4>4
    <3>2. Place(stream[n + i]) = Start(D) + t + (n + i)
      BY <3>1 DEF IInv, InOrder
    <3>. QED
      BY <1>1, <3>1, <3>2
  <2>2. DOMAIN stream' = 1 .. L - n
    BY <1>2
  <2>. QED
    BY <1>7, <2>1, <2>2 DEF InOrder, Place, Start
<1>10. NoGap'
  <2>1. Start(D) + t + n + (L - n) = Start(sent') + put'
    BY <1>1, <1>3
  <2>. QED
    BY <1>2, <1>7, <2>1 DEF NoGap, Start
<1>11. OneFrame' /\ FirstPass'
  <2>1. CASE t + n = W
    <3>1. Len(<< >>) = 0
      OBVIOUS
    <3>2. taken' = << >> /\ buf' = EmptyBuf
      BY <1>1, <1>4, <2>1
    <3>. QED
      BY <3>1, <3>2 DEF OneFrame, FirstPass
  <2>2. CASE t + n < W
    <3>1. taken' = All(n) /\ pieces' = pieces + 1 /\ D' = D
      BY <1>1, <1>4, <1>6, <2>2
    <3>2. pieces' # 0
      BY <1>1, <3>1
    <3>. QED
      BY <1>2, <3>1, <3>2 DEF OneFrame, FirstPass
  <2>. QED
    BY <1>1, <1>4, <2>1, <2>2
<1>12. FramesKeepTheirBounds' /\ WholeFrameIsItsMessage' /\ OneMessage'
  <2>1. CASE t + n = W
    <3>1. /\ new.bytes = Frame(D + 1)
          /\ new.pieces = 1 => new.text = Text(D + 1)
          /\ new.text \in Seq(Letters(D + 1))
      BY <1>1, <1>2, <2>1, FrameIsRead
    <3>2. DOMAIN delivered' = 1 .. D + 1 /\ DOMAIN delivered = 1 .. D
      BY <1>6, <2>1 DEF IInv, Types, D
    <3>3. ASSUME NEW k \in 1 .. D + 1
          PROVE  /\ delivered'[k].bytes = Frame(k)
                 /\ delivered'[k].pieces = 1 => delivered'[k].text = Text(k)
                 /\ delivered'[k].text \in Seq(Letters(k))
      <4>1. CASE k = D + 1
        BY <1>6, <2>1, <3>1, <4>1
      <4>2. CASE k # D + 1
        <5>1. k \in 1 .. D
          BY <1>1, <4>2
        <5>. QED
          BY <1>6, <2>1, <3>2, <5>1
          DEF IInv, FramesKeepTheirBounds, WholeFrameIsItsMessage, OneMessage
      <4>. QED
        BY <4>1, <4>2
    <3>. QED
      BY <3>2, <3>3
      DEF FramesKeepTheirBounds, WholeFrameIsItsMessage, OneMessage, Letters
  <2>2. CASE t + n < W
    <3>1. delivered' = delivered
      BY <1>1, <1>4, <2>2
    <3>. QED
      BY <3>1
      DEF IInv, FramesKeepTheirBounds, WholeFrameIsItsMessage, OneMessage, Letters
  <2>. QED
    BY <1>1, <1>4, <2>1, <2>2
<1>13. OfFrame(buf, D + 1)'
  <2>1. CASE t + n = W
    <3>1. buf' = EmptyBuf
      BY <1>1, <1>4, <2>1
    <3>. QED
      BY <3>1, EmptyIsOfFrame DEF OfFrame
  <2>2. CASE t + n < W
    <3>1. buf' = Filled(n) /\ D' = D
      BY <1>1, <1>4, <1>6, <2>2
    <3>. QED
      BY <1>2, <3>1 DEF OfFrame
  <2>. QED
    BY <1>1, <1>4, <2>1, <2>2
<1>. QED
  BY <1>3, <1>8, <1>9, <1>10, <1>11, <1>12, <1>13 DEF IInv

LEMMA OtherIInv ==
  ASSUME IInv, SendFails \/ SenderEnds \/ ReadEnd \/ ReceiverEnds \/ UNCHANGED vars
  PROVE  IInv'
<1>1. UNCHANGED <<sent, put, stream, buf, taken, pieces, delivered>>
  BY DEF SendFails, SenderEnds, ReadEnd, ReceiverEnds, vars, writing, reading
<1>2. /\ sender' \in {"up", "gone"} /\ receiver' \in {"up", "told", "gone"}
      /\ receiver' = "told" => sender' = "gone" /\ stream = << >>
  BY DEF SendFails, SenderEnds, ReadEnd, ReceiverEnds, vars, writing, reading,
         IInv, Types, TypeOK, AtEnd
<1>. QED
  BY <1>1, <1>2
  DEF IInv, Types, TypeOK, InOrder, NoGap, OneFrame, FirstPass, AtEnd, D,
      OfFrame, OneMessage, Letters, FramesKeepTheirBounds,
      WholeFrameIsItsMessage

LEMMA NextIInv == IInv /\ [Next]_vars => IInv'
<1>. SUFFICES ASSUME IInv, [Next]_vars PROVE IInv'
  OBVIOUS
<1>1. ASSUME NEW n \in 1 .. WA_MAX_INPUT, SendPiece(n) PROVE IInv'
  BY <1>1, SendIInv
<1>2. ASSUME NEW n \in 1 .. WA_MAX_INPUT, ReadPiece(n) PROVE IInv'
  BY <1>2, ReadIInv
<1>3. CASE SendFails \/ SenderEnds \/ ReadEnd \/ ReceiverEnds \/ UNCHANGED vars
  BY <1>3, OtherIInv
<1>. QED
  BY <1>1, <1>2, <1>3 DEF Next, Writes, Reads

\* Counters and buffers stay within their bounds.
THEOREM TransportTyped == Spec => []TypeOK
<1>1. IInv => TypeOK
  BY DEF IInv, Types
<1>. QED
  BY <1>1, InitIInv, NextIInv, PTL DEF Spec

\* However the kernels cut the stream, and whatever was in the buffer, each
\* call of read_data takes the bytes of exactly one call of send_data.
THEOREM FramesAreKept == Spec => []FramesKeepTheirBounds
<1>1. IInv => FramesKeepTheirBounds
  BY DEF IInv
<1>. QED
  BY <1>1, InitIInv, NextIInv, PTL DEF Spec

\* A frame that arrives in one piece is read as the message that was sent.
THEOREM WholeFramesAreRead == Spec => []WholeFrameIsItsMessage
<1>1. IInv => WholeFrameIsItsMessage
  BY DEF IInv
<1>. QED
  BY <1>1, InitIInv, NextIInv, PTL DEF Spec

-----------------------------------------------------------------------------
(* The refinement: the queue holds the frames that are written and not read. *)

Queue == [i \in 1 .. sent - D |-> D + i]
Got   == [k \in DOMAIN delivered |-> Answer(delivered[k])]

Counted ==
  /\ D \in Nat /\ sent \in Nat /\ D <= sent
  /\ Queue \in Seq(Nat) /\ Len(Queue) = sent - D
  /\ \A i \in 1 .. sent - D : Queue[i] = D + i
  /\ DOMAIN delivered = 1 .. D /\ DOMAIN Got = 1 .. D /\ Len(Got) = D

LEMMA Abstracted == IInv => Counted
<1>. SUFFICES ASSUME IInv PROVE Counted
  OBVIOUS
<1>1. D \in Nat /\ sent \in Nat /\ D <= sent
  BY Sizes, ReadIsSent
<1>2. Queue \in Seq(Nat) /\ Len(Queue) = sent - D
      /\ \A i \in 1 .. sent - D : Queue[i] = D + i
  BY <1>1 DEF Queue
<1>3. DOMAIN delivered = 1 .. D
  BY DEF IInv, Types, D
<1>4. DOMAIN Got = 1 .. D /\ Len(Got) = D
  BY <1>1, <1>3 DEF Got
<1>. QED
  BY <1>1, <1>2, <1>3, <1>4 DEF Counted

LEMMA AbstractedNext == IInv' => Counted'
  BY Abstracted, PTL

LEMMA SendImplements ==
  ASSUME IInv, IInv', NEW n \in 1 .. WA_MAX_INPUT, SendPiece(n)
  PROVE  [Promise!Next]_<<sent, Queue, Got, receiver = "told">>
<1>1. D' = D /\ receiver' = receiver /\ delivered' = delivered
  BY DEF SendPiece, reading, D
<1>2. \/ sent' = sent
      \/ sent' = sent + 1 /\ sent + 1 \in Messages
  BY DEF SendPiece
<1>3. Got' = Got
  BY <1>1 DEF Got
<1>4. CASE sent' = sent
  BY <1>1, <1>3, <1>4 DEF Queue
<1>5. CASE sent' = sent + 1 /\ sent + 1 \in Messages
  <2>1. D \in Nat /\ sent \in Nat /\ D <= sent
    BY Abstracted DEF Counted
  <2>2. /\ Queue \in Seq(Nat) /\ Len(Queue) = sent - D
        /\ \A i \in 1 .. sent - D : Queue[i] = D + i
    BY Abstracted DEF Counted
  <2>3. /\ Queue' \in Seq(Nat) /\ Len(Queue') = sent + 1 - D
        /\ \A i \in 1 .. sent + 1 - D : Queue'[i] = D + i
    <3>1. /\ Queue' \in Seq(Nat) /\ Len(Queue') = sent' - D'
          /\ \A i \in 1 .. sent' - D' : Queue'[i] = D' + i
      BY AbstractedNext DEF Counted
    <3>2. sent' - D' = sent + 1 - D
      BY <1>1, <1>5, <2>1
    <3>. QED
      BY <1>1, <3>1, <3>2
  <2>4. /\ Append(Queue, sent + 1) \in Seq(Nat)
        /\ Len(Append(Queue, sent + 1)) = sent + 1 - D
        /\ \A i \in 1 .. sent + 1 - D : Append(Queue, sent + 1)[i] = D + i
    BY <2>1, <2>2
  <2>5. Queue' = Append(Queue, sent + 1)
    BY <2>3, <2>4, SeqEqual
  <2>. QED
    BY <1>1, <1>3, <1>5, <2>5 DEF Promise!Next, Promise!Send, Queue, Got, D
<1>. QED
  BY <1>2, <1>4, <1>5

LEMMA ReadImplements ==
  ASSUME IInv, IInv', NEW n \in 1 .. WA_MAX_INPUT, ReadPiece(n)
  PROVE  [Promise!Next]_<<sent, Queue, Got, receiver = "told">>
<1>. DEFINE new == [bytes  |-> All(n), pieces |-> pieces + 1,
                    text   |-> CString(Filled(n))]
<1>1. sent' = sent /\ receiver = "up" /\ receiver' = "up"
  BY DEF ReadPiece, writing
<1>2. \/ delivered' = delivered
      \/ delivered' = Append(delivered, new)
  BY DEF ReadPiece, All
<1>3. CASE delivered' = delivered
  BY <1>1, <1>3 DEF Queue, Got, D
<1>4. CASE delivered' = Append(delivered, new)
  <2>1. /\ D \in Nat /\ sent \in Nat /\ D <= sent
        /\ Queue \in Seq(Nat) /\ Len(Queue) = sent - D
        /\ \A i \in 1 .. sent - D : Queue[i] = D + i
        /\ DOMAIN delivered = 1 .. D /\ DOMAIN Got = 1 .. D /\ Len(Got) = D
    BY Abstracted DEF Counted
  <2>2. D' = D + 1 /\ D' <= sent
    <3>1. D' \in Nat /\ D' <= sent
      BY <1>1, AbstractedNext DEF Counted
    <3>2. delivered \in Seq([bytes : Seq(Bytes), pieces : Nat,
                             text : {CString(b) : b \in Words}])
      BY DEF IInv, Types
    <3>. HIDE DEF new
    <3>. QED
      BY <1>4, <3>1, <3>2 DEF D
  <2>3. /\ Queue' \in Seq(Nat) /\ Len(Queue') = sent - D - 1
        /\ \A i \in 1 .. sent - D - 1 : Queue'[i] = D + 1 + i
    <3>1. /\ Queue' \in Seq(Nat) /\ Len(Queue') = sent' - D'
          /\ \A i \in 1 .. sent' - D' : Queue'[i] = D' + i
      BY AbstractedNext DEF Counted
    <3>2. sent' - D' = sent - D - 1
      BY <1>1, <2>1, <2>2
    <3>. QED
      BY <2>2, <3>1, <3>2
  <2>4. /\ DOMAIN delivered' = 1 .. D + 1
        /\ \A k \in 1 .. D : delivered'[k] = delivered[k]
        /\ delivered'[D + 1] = new
    <3>1. delivered \in Seq([bytes : Seq(Bytes), pieces : Nat,
                             text : {CString(b) : b \in Words}])
      BY DEF IInv, Types
    <3>2. D = Len(delivered)
      BY DEF D
    <3>. HIDE DEF new
    <3>. QED
      BY <1>4, <2>1, <3>1, <3>2
  <2>5. Queue # << >> /\ Head(Queue) = D + 1
    <3>1. Len(Queue) >= 1
      BY <2>1, <2>2
    <3>2. 1 \in 1 .. sent - D
      BY <2>1, <2>2
    <3>3. Head(Queue) = Queue[1]
      BY <2>1, <3>1
    <3>. QED
      BY <2>1, <3>1, <3>2, <3>3
  <2>6. Queue' = Tail(Queue)
    <3>1. /\ Tail(Queue) \in Seq(Nat) /\ Len(Tail(Queue)) = sent - D - 1
          /\ \A i \in 1 .. sent - D - 1 : Tail(Queue)[i] = Queue[i + 1]
      BY <2>1, <2>5, HeadTailProperties
    <3>2. \A i \in 1 .. sent - D - 1 : Queue[i + 1] = D + 1 + i
      BY <2>1
    <3>. QED
      BY <2>3, <3>1, <3>2, SeqEqual
  <2>7. Got' = Append(Got, Got'[D + 1]) /\ Got'[D + 1] = Answer(new)
    <3>1. Got' = [k \in 1 .. D + 1 |-> Answer(delivered'[k])]
      BY <2>4 DEF Got
    <3>2. \A k \in 1 .. D : Got'[k] = Got[k]
      BY <2>1, <2>4, <3>1 DEF Got
    <3>3. Got'[D + 1] = Answer(new)
      BY <2>1, <2>4, <3>1
    <3>4. DOMAIN Got' = 1 .. D + 1
      BY <3>1
    <3>5. Append(Got, Got'[D + 1])
            = [k \in 1 .. D + 1 |-> IF k = D + 1 THEN Got'[D + 1] ELSE Got[k]]
      BY <2>1
    <3>6. Got' = [k \in 1 .. D + 1 |-> Got'[k]]
      BY <3>1
    <3>7. ASSUME NEW k \in 1 .. D + 1
          PROVE  Got'[k] = IF k = D + 1 THEN Got'[D + 1] ELSE Got[k]
      <4>1. k # D + 1 => k \in 1 .. D
        BY <2>1
      <4>. QED
        BY <3>2, <4>1
    <3>. QED
      BY <3>3, <3>5, <3>6, <3>7
  <2>8. Promise!Answers(D + 1, Answer(new))
    <3>1. Len(All(n)) >= WA_MAX_INPUT
      <4>1. delivered # Append(delivered, new)
        BY <2>2, <1>4 DEF D
      <4>. QED
        BY <1>4, <4>1, Zenon DEF ReadPiece, All
    <3>2. /\ D + 1 \in Messages
          /\ pieces + 1 = 1 => CString(Filled(n)) = Text(D + 1)
          /\ CString(Filled(n)) \in Seq(Letters(D + 1))
      BY <3>1, FrameIsRead
    <3>3. Answer(new) = [whole |-> pieces + 1 = 1, text |-> CString(Filled(n))]
      BY DEF Answer
    <3>4. [m \in Messages |-> Text(m)][D + 1] = Text(D + 1)
      BY <3>2
    <3>5. Promise!Scraps(D + 1) = Seq(Letters(D + 1))
      BY <3>4 DEF Promise!Scraps, Letters
    <3>6. Answer(new).whole = (pieces + 1 = 1) /\ Answer(new).text = CString(Filled(n))
      BY <3>3
    <3>. HIDE DEF new
    <3>. QED
      BY <3>2, <3>4, <3>5, <3>6 DEF Promise!Answers
  <2>. QED
    BY <1>1, <2>1, <2>5, <2>6, <2>7, <2>8
    DEF Promise!Next, Promise!Deliver, Queue, Got, D
<1>. QED
  BY <1>2, <1>3, <1>4

LEMMA OtherImplements ==
  ASSUME IInv, SendFails \/ SenderEnds \/ ReadEnd \/ ReceiverEnds \/ UNCHANGED vars
  PROVE  [Promise!Next]_<<sent, Queue, Got, receiver = "told">>
<1>1. sent' = sent /\ delivered' = delivered
  BY DEF SendFails, SenderEnds, ReadEnd, ReceiverEnds, vars, writing, reading
<1>2. Queue' = Queue /\ Got' = Got
  BY <1>1 DEF Queue, Got, D
<1>3. CASE ReadEnd
  <2>1. stream = << >> /\ receiver' = "told"
    BY <1>3 DEF ReadEnd, AtEnd
  <2>2. D = sent
    BY <2>1, ReadIsSent
  <2>3. Queue = << >>
    BY <2>2, Abstracted DEF Counted
  <2>. QED
    BY <1>1, <1>2, <2>1, <2>3 DEF Promise!Next, Promise!End, Queue, Got, D
<1>4. CASE ~ ReadEnd
  <2>1. (receiver = "told")' = (receiver = "told")
    BY <1>4 DEF SendFails, SenderEnds, ReceiverEnds, vars, writing, reading
  <2>. QED
    BY <1>1, <1>2, <2>1
<1>. QED
  BY <1>3, <1>4

\* send_data and read_data together are a queue of frames: each call of
\* read_data answers one frame, in order, with the message if the frame came in
\* one piece and with bytes of that message and no other if it did not, and the
\* end is reported only when every frame that was sent has been answered.
THEOREM TransportIsFrameQueue == Spec => ImplementsFrameQueue
<1>1. Init => Promise!Init
  <2>. SUFFICES ASSUME Init PROVE Promise!Init
    OBVIOUS
  <2>1. sent = 0 /\ delivered = << >> /\ receiver = "up" /\ Len(delivered) = 0
    BY DEF Init
  <2>2. Queue = << >> /\ Got = << >>
    BY <2>1 DEF Queue, Got, D
  <2>. QED
    BY <2>1, <2>2 DEF Promise!Init, Queue, Got, D
<1>2. ASSUME IInv, IInv', [Next]_vars
      PROVE  [Promise!Next]_<<sent, Queue, Got, receiver = "told">>
  <2>1. ASSUME NEW n \in 1 .. WA_MAX_INPUT, SendPiece(n)
        PROVE  [Promise!Next]_<<sent, Queue, Got, receiver = "told">>
    BY <1>2, <2>1, SendImplements
  <2>2. ASSUME NEW n \in 1 .. WA_MAX_INPUT, ReadPiece(n)
        PROVE  [Promise!Next]_<<sent, Queue, Got, receiver = "told">>
    BY <1>2, <2>2, ReadImplements
  <2>3. CASE SendFails \/ SenderEnds \/ ReadEnd \/ ReceiverEnds \/ UNCHANGED vars
    BY <1>2, <2>3, OtherImplements
  <2>. QED
    BY <1>2, <2>1, <2>2, <2>3 DEF Next, Writes, Reads
<1>3. IInv /\ IInv' /\ [Next]_vars => [Promise!Next]_Promise!vars
  BY <1>2 DEF Promise!vars, Queue, Got, D
<1>. QED
  BY <1>1, <1>3, InitIInv, NextIInv, PTL DEF Spec, ImplementsFrameQueue, Promise!Spec
=============================================================================
