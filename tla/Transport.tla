----------------------------- MODULE Transport -----------------------------
(***************************************************************************)
(* One direction of a chat connection, ex4/whatsappCommon.h: send_data     *)
(* writes a message as a frame of WA_MAX_INPUT bytes, padded with NULs;    *)
(* read_data reads as many bytes and takes what is before the first NUL.   *)
(* A write can accept, and a read can return, fewer bytes than asked for.  *)
(*                                                                         *)
(* A byte is known by its place: its message and its position in the       *)
(* frame.  TCP is external: a bounded stream that loses nothing, also when *)
(* a process ends with bytes unread.                                       *)
(*                                                                         *)
(* A definition Mut<Name>, always just before <Name>, is <Name> with a     *)
(* plausible mistake; nothing uses it but the mutation runs.               *)
(***************************************************************************)
EXTENDS Integers, Sequences

CONSTANTS
  WA_MAX_INPUT,  \* the bytes of a frame
  Length,        \* the lengths of the messages that are sent, in order;
                 \* send_data relies on its callers for their limit
  Capacity       \* bytes the two kernels hold for the connection

ASSUME FrameAssumption    == WA_MAX_INPUT \in Nat \ {0}
ASSUME LengthAssumption   == Length \in Seq(0 .. WA_MAX_INPUT)
ASSUME CapacityAssumption == Capacity \in Nat \ {0}

VARIABLES
  sender,     \* "up", or "gone": its process has ended, at any point
  receiver,   \* "up", "told": read_data has returned -1, or "gone"
  sent,       \* how many calls of send_data have returned
  put,        \* bcount of send_data: bytes of the next frame written so far
  stream,     \* the bytes under way
  buf,        \* buf of read_data
  taken,      \* history: the bytes this call of read_data has read
  pieces,     \* history: in how many reads
  delivered   \* history: what the calls of read_data have returned

writing == <<sender, sent, put>>
reading == <<receiver, buf, taken, pieces, delivered>>
vars    == <<writing, stream, reading>>

Messages == DOMAIN Length

Byte(m, i) == [msg |-> m, at |-> i]
Nul        == Byte(0, 0)
IsNul(b)   == b = Nul \/ b.at > Length[b.msg]

Frame(m) == [i \in 1 .. WA_MAX_INPUT |-> Byte(m, i)]
Text(m)  == [i \in 1 .. Length[m] |-> Byte(m, i)]

EmptyBuf == [i \in 1 .. WA_MAX_INPUT + 1 |-> Nul]

\* string(buf): up to the first NUL.
CString(b) ==
  LET end == CHOOSE i \in DOMAIN b : IsNul(b[i]) /\ \A j \in 1 .. i - 1 : ~ IsNul(b[j])
  IN  SubSeq(b, 1, end - 1)

Init ==
  /\ sender = "up" /\ receiver = "up"
  /\ sent = 0 /\ put = 0
  /\ stream = << >>
  /\ buf = EmptyBuf /\ taken = << >> /\ pieces = 0
  /\ delivered = << >>

-----------------------------------------------------------------------------
\* write(socket, bp, WA_MAX_INPUT - bcount): bp moves on with what was written.
Wrote(n) == [j \in 1 .. n |-> Byte(sent + 1, put + j)]

MutRoom == WA_MAX_INPUT
Room == WA_MAX_INPUT - put

SendPiece(n) ==
  /\ sender = "up" /\ receiver # "gone"
  /\ sent + 1 \in Messages
  /\ n <= Room
  /\ Len(stream) + n <= Capacity
  /\ stream' = stream \o Wrote(n)
  /\ IF put + n >= WA_MAX_INPUT
     THEN sent' = sent + 1 /\ put' = 0
     ELSE put' = put + n /\ UNCHANGED sent
  /\ UNCHANGED <<sender, reading>>

\* read(socket, buf, WA_MAX_INPUT - bcount): into the start of buf every time,
\* although bp moves on.
MutWanted == WA_MAX_INPUT
Wanted == WA_MAX_INPUT - Len(taken)

MutFilled(n) == [i \in DOMAIN buf |-> IF i < n THEN stream[i] ELSE buf[i]]
Filled(n) == [i \in DOMAIN buf |-> IF i <= n THEN stream[i] ELSE buf[i]]

ReadPiece(n) ==
  LET all == taken \o SubSeq(stream, 1, n) IN
  /\ receiver = "up"
  /\ n <= Wanted
  /\ n <= Len(stream)
  /\ stream' = SubSeq(stream, n + 1, Len(stream))
  /\ IF Len(all) >= WA_MAX_INPUT
     THEN /\ delivered' = Append(delivered, [bytes  |-> all,
                                             pieces |-> pieces + 1,
                                             text   |-> CString(Filled(n))])
          /\ buf' = EmptyBuf /\ taken' = << >> /\ pieces' = 0
     ELSE /\ buf' = Filled(n) /\ taken' = all /\ pieces' = pieces + 1
          /\ UNCHANGED delivered
  /\ UNCHANGED <<writing, receiver>>

\* read returns 0: nothing is left and nothing more will come.
MutAtEnd == sender = "gone"
AtEnd == sender = "gone" /\ stream = << >>

ReadEnd ==
  /\ receiver = "up"
  /\ AtEnd
  /\ receiver' = "told"
  /\ UNCHANGED <<writing, stream, buf, taken, pieces, delivered>>

\* A process ends between two calls or within one.
SenderEnds ==
  /\ sender = "up"
  /\ sender' = "gone"
  /\ UNCHANGED <<sent, put, stream, reading>>

ReceiverEnds ==
  /\ receiver = "up"
  /\ receiver' = "gone"
  /\ UNCHANGED <<writing, stream, buf, taken, pieces, delivered>>

\* write fails when the other end is gone: send_data returns -1, or the
\* process dies of SIGPIPE.
SendFails ==
  /\ sender = "up" /\ receiver = "gone"
  /\ sender' = "gone"
  /\ UNCHANGED <<sent, put, stream, reading>>

Writes == \E n \in 1 .. WA_MAX_INPUT : SendPiece(n)
Reads  == \E n \in 1 .. WA_MAX_INPUT : ReadPiece(n)

Next ==
  \/ Writes \/ SendFails \/ SenderEnds
  \/ Reads \/ ReadEnd \/ ReceiverEnds

Spec == Init /\ [][Next]_vars

\* The kernels move bytes, and a process in a call goes on when it can.
FairSpec == Spec /\ WF_vars(Writes \/ SendFails) /\ WF_vars(Reads \/ ReadEnd)

-----------------------------------------------------------------------------
TypeOK ==
  /\ sender \in {"up", "gone"}
  /\ receiver \in {"up", "told", "gone"}
  /\ sent \in 0 .. Len(Length)
  /\ put \in 0 .. WA_MAX_INPUT - 1
  /\ stream \in Seq([msg : Messages, at : 1 .. WA_MAX_INPUT])
  /\ Len(stream) <= Capacity
  /\ Len(taken) < WA_MAX_INPUT
  /\ pieces \in 0 .. Len(taken)

\* However writes and reads cut the stream, each call of read_data takes the
\* bytes of exactly one call of send_data.
FramesKeepTheirBounds ==
  \A k \in DOMAIN delivered : delivered[k].bytes = Frame(k)

\* A frame that arrives in one piece is read as the message that was sent:
\* nothing of an earlier message is left in it and nothing is cut off.
WholeFrameIsItsMessage ==
  \A k \in DOMAIN delivered :
    delivered[k].pieces = 1 => delivered[k].text = Text(k)

\* Every frame that was sent is read, also when the sender ends right after,
\* over a stream that loses nothing.
SentIsRead ==
  \A k \in Messages :
    sent >= k ~> (Len(delivered) >= k \/ receiver = "gone")

\* Two processes that do not end get all frames through, also when the buffers
\* between them fill up in the middle of a frame.
AllGetThrough ==
  <>(Len(delivered) = Len(Length) \/ sender = "gone" \/ receiver = "gone")

\* What a call of read_data has answered.
Answer(d) == [whole |-> d.pieces = 1, text |-> d.text]

Promise == INSTANCE FrameQueue WITH
             Texts <- [m \in Messages |-> Text(m)],
             queue <- [i \in 1 .. sent - Len(delivered) |-> Len(delivered) + i],
             got   <- [k \in DOMAIN delivered |-> Answer(delivered[k])],
             ended <- receiver = "told"

\* Each call of read_data answers one frame, in order and before the end is
\* reported.  A frame in one piece is answered with its message; one in pieces
\* with bytes of that message only, but any of them: every read goes to the
\* start of buf, and nothing says that the text is the message.
ImplementsFrameQueue == Promise!Spec
=============================================================================
