----------------------------- MODULE BoundedFifo -----------------------------
(***************************************************************************)
(* What AXIMMQueue promises its two users: a FIFO of at most Room words.   *)
(* A batch enters whole, at once and in order; the reader receives exactly *)
(* the words it removes.  The words are numbered as they are written.      *)
(***************************************************************************)
EXTENDS Integers, Sequences

CONSTANT Room

VARIABLES
  queue,  \* the words in the ring, oldest first
  put,    \* words put so far
  got     \* what the last read returned

Init == queue = <<>> /\ put = 0 /\ got = <<>>

Put ==
  \E n \in 1..(Room - Len(queue)) :
    /\ queue' = queue \o [i \in 1..n |-> put + i]
    /\ put' = put + n
    /\ UNCHANGED got

Take ==
  \E n \in 1..Len(queue) :
    /\ got' = SubSeq(queue, 1, n)
    /\ queue' = SubSeq(queue, n + 1, Len(queue))
    /\ UNCHANGED put

Next == Put \/ Take

\* While it holds a word, the reader gets one.
Spec == Init /\ [][Next]_<<queue, put, got>> /\ WF_<<queue, put, got>>(Take)
=============================================================================
