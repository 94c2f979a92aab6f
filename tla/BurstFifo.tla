------------------------------ MODULE BurstFifo ------------------------------
(***************************************************************************)
(* What a stream channel promises its users (StreamIF and the other        *)
(* QueuedTransferIF links of waveflow/hw/interface.py): transfers enter    *)
(* whole, in the order they were asked for, and come out in that order;    *)
(* only a transfer that may not wait (offer) may be lost.                  *)
(***************************************************************************)
EXTENDS Sequences

CONSTANT Bursts   \* the transfers, records with a field kind

VARIABLES
  asked,   \* transfers asked for and not yet in the channel
  queue    \* transfers in the channel

Init == asked = <<>> /\ queue = <<>>

Ask ==
  /\ \E b \in Bursts : asked' = Append(asked, b)
  /\ UNCHANGED queue

Enter ==
  /\ asked # <<>>
  /\ queue' = Append(queue, Head(asked)) /\ asked' = Tail(asked)

Lose ==
  /\ asked # <<>> /\ Head(asked).kind = "offer"
  /\ asked' = Tail(asked) /\ UNCHANGED queue

Receive ==
  /\ queue # <<>>
  /\ queue' = Tail(queue) /\ UNCHANGED asked

Next == Ask \/ Enter \/ Lose \/ Receive

\* Every transfer asked for is settled, and every transfer is received.
Spec == Init /\ [][Next]_<<asked, queue>>
        /\ WF_<<asked, queue>>(Enter \/ Lose) /\ WF_<<asked, queue>>(Receive)
=============================================================================
