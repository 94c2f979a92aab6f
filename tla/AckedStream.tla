----------------------------- MODULE AckedStream -----------------------------
(***************************************************************************)
(* waveflow/hw/reverse_stream.py, the transmitter's channel: frames go     *)
(* forward, each with its last item marked, and one status per marked item *)
(* comes back.  No id travels: the producer pairs the oldest status with   *)
(* its oldest pending token.                                               *)
(*                                                                         *)
(* Both streams are StreamIF channels (StreamChannel.tla), here with one   *)
(* writer each, so their bus is always free.                               *)
(***************************************************************************)
EXTENDS Integers, Sequences

CONSTANTS
  MaxInFlight,  \* AckedStreamMasterIF.max_in_flight
  AckDepth,     \* AckedStreamIF.ack_depth, in words (a status is one word)
  Depth,        \* AckedStreamIF.depth, in words
  MaxLen,       \* longest frame, in items
  MaxHarvest,   \* largest n of harvest(n)
  MaxFrames     \* bound: frames written in a behaviour

\* AckDepth >= MaxInFlight is what AckedStreamIF._check_bound enforces.
ASSUME AckedAssumption ==
  /\ MaxInFlight \in Nat \ {0} /\ AckDepth \in Nat /\ AckDepth >= MaxInFlight
  /\ Depth \in Nat \ {0} /\ MaxLen \in Nat \ {0}
  /\ MaxHarvest \in Nat \ {0} /\ MaxFrames \in Nat

VARIABLES
  \* AckedStreamMasterIF; a token is the number of its frame
  pc,       \* "idle", "air" (write_frame in its transfer), "room" (parked)
  frame,    \* the frame being written: [id |-> token, n |-> items]
  pending,  \* tokens of frames written and not resolved, oldest first
  orphans,  \* n_orphan_status > 0
  \* the forward channel: bursts, the level of nrx, words of a parked put,
  fwd, level, parked,
  \* AckedStreamSlaveIF
  cpc,      \* "read", "send" (a status is due), "air" (offer), "one" (put(1) done)
  cur,      \* the frame the items being read belong to
  left,     \* _items: items of it not read yet
  blocked,  \* what the offer in progress saw
  \* the ack channel: statuses as the frames they are about, and its nrx
  acks, ackLevel, dropped,
  mispaired \* history: a token was given another frame's status

masterVars == <<pc, frame, pending, orphans, mispaired>>
slaveVars  == <<cpc, cur, left, blocked>>
fwdVars    == <<fwd, level, parked>>
ackVars    == <<acks, ackLevel, dropped>>
vars == <<masterVars, slaveVars, fwdVars, ackVars>>

Least(a, b) == IF a < b THEN a ELSE b
NoFrame == [id |-> 0, n |-> 0]

Init ==
  /\ pc = "idle" /\ frame = NoFrame /\ pending = <<>> /\ orphans = FALSE
  /\ fwd = <<>> /\ level = 0 /\ parked = 0
  /\ cpc = "read" /\ cur = 0 /\ left = 0 /\ blocked = FALSE
  /\ acks = <<>> /\ ackLevel = 0 /\ dropped = FALSE /\ mispaired = FALSE

-----------------------------------------------------------------------------
\* Fault: one frame too many.
CanWriteOneMore == Len(pending) <= MaxInFlight

\* can_write_frame(): a pending slot is free.
CanWriteFrame == Len(pending) < MaxInFlight

\* write_frame(words, token): raises without a pending slot or without words.
WriteFrame(n) ==
  /\ pc = "idle" /\ frame.id < MaxFrames
  /\ CanWriteFrame
  /\ pc' = "air" /\ frame' = [id |-> frame.id + 1, n |-> n]
  /\ UNCHANGED <<pending, orphans, mispaired, slaveVars, fwdVars, ackVars>>

\* The burst handed over and the token remembered, with no yield between them.
Deliver ==
  /\ fwd' = Append(fwd, frame)
  /\ pending' = Append(pending, frame.id)
  /\ pc' = "idle"

\* Fault: the frame goes in whatever the level.
FrameLandsAnyway ==
  /\ pc = "air"
  /\ level' = level + Least(frame.n, Depth) /\ Deliver
  /\ UNCHANGED <<frame, orphans, mispaired, parked, slaveVars, ackVars>>

\* The forward write after its transfer time: room for the frame, or for all
\* the channel holds, or a parked put.
FrameLands ==
  /\ pc = "air"
  /\ LET want == Least(frame.n, Depth) IN
       \/ Depth - level >= want /\ level' = level + want /\ Deliver /\ UNCHANGED parked
       \/ /\ Depth - level < want
          /\ parked' = want /\ pc' = "room"
          /\ UNCHANGED <<level, fwd, pending>>
  /\ UNCHANGED <<frame, orphans, mispaired, slaveVars, ackVars>>

FrameResumes ==
  /\ pc = "room" /\ parked = 0
  /\ Deliver
  /\ UNCHANGED <<frame, orphans, mispaired, level, parked, slaveVars, ackVars>>

\* Fault: the newest pending token takes the oldest status.
HarvestNewest(n) ==
  /\ acks # <<>>
  /\ LET k == Least(n, Len(acks))
         m == Least(k, Len(pending))
         p == Len(pending)
     IN /\ acks' = SubSeq(acks, k + 1, Len(acks)) /\ ackLevel' = ackLevel - k
        /\ pending' = SubSeq(pending, 1, p - m)
        /\ orphans' = (orphans \/ m < k)
        /\ mispaired' = (mispaired \/ \E i \in 1..m : acks[i] # pending[p + 1 - i])
  /\ UNCHANGED <<pc, frame, dropped, slaveVars, fwdVars>>

\* harvest(n): up to n statuses by get_nb, none of which yields; the k-th is
\* paired with the k-th oldest token, and is an orphan when there is none.
Harvest(n) ==
  /\ acks # <<>>
  /\ LET k == Least(n, Len(acks))
         m == Least(k, Len(pending))
     IN /\ acks' = SubSeq(acks, k + 1, Len(acks)) /\ ackLevel' = ackLevel - k
        /\ pending' = SubSeq(pending, m + 1, Len(pending))
        /\ orphans' = (orphans \/ m < k)
        /\ mispaired' = (mispaired \/ \E i \in 1..m : acks[i] # pending[i])
  /\ UNCHANGED <<pc, frame, dropped, slaveVars, fwdVars>>

-----------------------------------------------------------------------------
\* Fault: the put that waits for the level to fall is not granted.
TakeBurstSilently ==
  /\ fwd # <<>>
  /\ fwd' = Tail(fwd) /\ cur' = Head(fwd).id
  /\ level' = level - Least(Head(fwd).n, Depth) /\ UNCHANGED parked

\* get_nb of the forward channel: the burst at the head, its words retired
\* (those past Depth from ntx, the others from nrx), a parked put granted.
TakeBurst ==
  LET rest == level - Least(Head(fwd).n, Depth) IN
    /\ fwd # <<>>
    /\ fwd' = Tail(fwd) /\ cur' = Head(fwd).id
    /\ IF parked > 0 /\ Depth - rest >= parked
         THEN level' = rest + parked /\ parked' = 0
         ELSE level' = rest /\ UNCHANGED parked

\* Fault: a status for every item, as if each carried the mark.
ReadMarkedItem ==
  /\ cpc = "read"
  /\ \/ left = 0 /\ TakeBurst /\ left' = Head(fwd).n - 1
     \/ left > 0 /\ left' = left - 1 /\ UNCHANGED <<cur, fwdVars>>
  /\ cpc' = "send"
  /\ UNCHANGED <<blocked, masterVars, ackVars>>

\* read_nb(): one item; a status is due once it was the marked one.
ReadItem ==
  /\ cpc = "read"
  /\ \/ left = 0 /\ TakeBurst /\ left' = Head(fwd).n - 1
     \/ left > 0 /\ left' = left - 1 /\ UNCHANGED <<cur, fwdVars>>
  /\ cpc' = IF left' = 0 THEN "send" ELSE "read"
  /\ UNCHANGED <<blocked, masterVars, ackVars>>

\* read_frame_nb(): the whole frame, its playout charged before it returns;
\* it raises over items that read_nb has left.
ReadFrame ==
  /\ cpc = "read" /\ left = 0
  /\ TakeBurst
  /\ cpc' = "send"
  /\ UNCHANGED <<left, blocked, masterVars, ackVars>>

\* send_status(): an offer, which looks before the transfer time ...
StatusLooks ==
  /\ cpc = "send"
  /\ blocked' = (ackLevel >= AckDepth) /\ cpc' = "air"
  /\ UNCHANGED <<cur, left, masterVars, fwdVars, ackVars>>

\* ... drops the word after it, or takes its place in nrx ...
StatusLands ==
  /\ cpc = "air"
  /\ \/ blocked /\ dropped' = TRUE /\ cpc' = "read" /\ UNCHANGED ackLevel
     \/ /\ ~blocked /\ ackLevel < AckDepth
        /\ ackLevel' = ackLevel + 1 /\ cpc' = "one"
        /\ UNCHANGED dropped
  /\ blocked' = FALSE
  /\ UNCHANGED <<cur, left, acks, masterVars, fwdVars>>

\* ... and only a step later is in the buffer.
StatusStored ==
  /\ cpc = "one"
  /\ acks' = Append(acks, cur) /\ cpc' = "read"
  /\ UNCHANGED <<cur, left, blocked, ackLevel, dropped, masterVars, fwdVars>>

Sender   == FrameLands \/ FrameResumes
Consumer == ReadItem \/ ReadFrame \/ StatusLooks \/ StatusLands \/ StatusStored

Next ==
  \/ \E n \in 1..MaxLen : WriteFrame(n)
  \/ \E n \in 1..MaxHarvest : Harvest(n)
  \/ Sender \/ Consumer

\* A write in progress goes on; the consumer is a converter's metronome that
\* reads in every slot; the application polls harvest.
Fairness == /\ WF_vars(Sender) /\ WF_vars(Consumer)
            /\ WF_vars(\E n \in 1..MaxHarvest : Harvest(n))

Spec == Init /\ [][Next]_vars /\ Fairness

-----------------------------------------------------------------------------
\* Every variable has the type the code gives it.
TypeOK ==
  /\ pc \in {"idle", "air", "room"}
  /\ frame \in [id : 0..MaxFrames, n : 0..MaxLen]
  /\ pending \in Seq(1..MaxFrames) /\ orphans \in BOOLEAN
  /\ fwd \in Seq([id : 1..MaxFrames, n : 1..MaxLen])
  /\ level \in 0..Depth /\ parked \in 0..Depth
  /\ cpc \in {"read", "send", "air", "one"} /\ cur \in 0..MaxFrames
  /\ left \in 0..MaxLen /\ blocked \in BOOLEAN
  /\ acks \in Seq(1..MaxFrames) /\ ackLevel \in 0..AckDepth
  /\ dropped \in BOOLEAN /\ mispaired \in BOOLEAN

\* Frames between the two FIFOs: the one being read or whose status is due.
InHand == IF cpc # "read" \/ left > 0 THEN <<cur>> ELSE <<>>

\* The pending tokens are, in order, the frames whose status is on its way
\* back, the one in the consumer's hands and the ones not yet read: nothing
\* but this order makes positional pairing right.
PendingIsInFlight ==
  pending = acks \o InHand \o [i \in 1..Len(fwd) |-> fwd[i].id]

\* "A token paired with the wrong frame's verdict looks exactly like a verdict":
\* no harvest ever does that, no status comes without a token, and no frame in
\* flight is out of its token's place.
NoMispairing == PendingIsInFlight /\ ~mispaired /\ ~orphans

\* "depth >= max_in_flight on the ack channel is what makes a dropped status
\* impossible" (_check_bound), although offer judges room before the transfer.
NoStatusDropped == ~dropped

\* While the application polls, every frame is resolved: the consumer never
\* waits for the producer, so a producer waiting for room gets it.
Unresolved(t) ==
  \/ frame.id = t /\ pc # "idle"
  \/ \E i \in 1..Len(pending) : pending[i] = t
EveryFrameResolves == \A t \in 1..MaxFrames : Unresolved(t) ~> ~Unresolved(t)
=============================================================================
