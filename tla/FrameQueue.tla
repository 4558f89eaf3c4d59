----------------------------- MODULE FrameQueue -----------------------------
(***************************************************************************)
(* What send_data and read_data promise together: every read answers one   *)
(* frame, in the order in which they went in, with the message in it if    *)
(* the frame came whole and with some of the message's bytes if it came in *)
(* pieces; and a reader learns that the other end is gone only when it has *)
(* had an answer for every frame.                                          *)
(***************************************************************************)
EXTENDS Integers, Sequences

CONSTANT Texts        \* the message of each frame that can be sent, in order

VARIABLES
  sent,     \* how many frames have been sent
  queue,    \* the frames under way
  got,      \* what the reads have returned: did the frame come whole, a text
  ended     \* has the reader been told that the other end is gone?

vars == <<sent, queue, got, ended>>

\* What may come out of frame f: nothing of any other frame, ever.
Scraps(f) == Seq({Texts[f][i] : i \in DOMAIN Texts[f]})

Answers(f, answer) ==
  /\ answer.text \in Scraps(f)
  /\ answer.whole => answer.text = Texts[f]

Init == sent = 0 /\ queue = << >> /\ got = << >> /\ ended = FALSE

Send ==
  /\ sent + 1 \in DOMAIN Texts
  /\ sent' = sent + 1
  /\ queue' = Append(queue, sent + 1)
  /\ UNCHANGED <<got, ended>>

Deliver ==
  /\ ~ ended
  /\ queue # << >>
  /\ queue' = Tail(queue)
  /\ got' = Append(got, got'[Len(got) + 1])
  /\ Answers(Head(queue), got'[Len(got) + 1])
  /\ UNCHANGED <<sent, ended>>

End ==
  /\ queue = << >>
  /\ ended' = TRUE
  /\ UNCHANGED <<sent, queue, got>>

Next == Send \/ Deliver \/ End

Spec == Init /\ [][Next]_vars
=============================================================================
