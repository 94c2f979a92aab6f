--------------------------- MODULE AckedStreamProofs ---------------------------
(***************************************************************************)
(* What holds of the acked stream for every number of frames in flight,    *)
(* depth of the two channels and length of frames: the pending tokens are  *)
(* the frames in flight, in order, so that pairing by position is right;   *)
(* no status is dropped; and the levels of the two channels are what is in *)
(* them.                                                                   *)
(*                                                                         *)
(* The argument: a frame goes through three queues, and the pending tokens *)
(* are their concatenation.  A status in the ack channel is one of the     *)
(* pending tokens, and those are at most MaxInFlight, so there is room.    *)
(***************************************************************************)
EXTENDS AckedStream, TLAPS, SequenceTheorems

Frame == [id : 1..MaxFrames, n : 1..MaxLen]

\* The consumer has a frame: it reads it, or its status is due.
Serving == cpc # "read" \/ left > 0

\* The frame being written has a pending slot to itself; its words are parked or not.
Sending ==
  /\ Len(pending) <= MaxInFlight
  /\ pc # "idle" => frame \in Frame /\ Len(pending) < MaxInFlight
  /\ pc = "room" => parked \in {0, Least(frame.n, Depth)}
  /\ pc # "room" => parked = 0

\* The consumer sends a status when it has read the whole frame, and finds room.
Statuses ==
  /\ ~blocked /\ (cpc # "read" => left = 0) /\ (Serving => cur >= 1)
  /\ cpc = "one" => ackLevel = Len(acks) + 1
  /\ cpc # "one" => ackLevel = Len(acks)

\* PendingIsInFlight, position by position.
Aligned ==
  /\ \A i \in 1..Len(acks) : pending[i] = acks[i]
  /\ Serving =>
       /\ Len(pending) = Len(acks) + 1 + Len(fwd)
       /\ pending[Len(acks) + 1] = cur
       /\ \A j \in 1..Len(fwd) : pending[Len(acks) + 1 + j] = fwd[j].id
  /\ ~Serving =>
       /\ Len(pending) = Len(acks) + Len(fwd)
       /\ \A j \in 1..Len(fwd) : pending[Len(acks) + j] = fwd[j].id

\* What a burst takes of the forward channel's level.
Share(b) == Least(b.n, Depth)

\* t[i] is the level that is left when the first i - 1 bursts are read: in the end,
\* what a granted put has reserved for a burst that is not there yet.
Totals(t, bursts, all, rest) ==
  /\ t \in [1..(Len(bursts) + 1) -> Nat]
  /\ t[1] = all /\ t[Len(bursts) + 1] = rest
  /\ \A i \in 1..Len(bursts) : t[i] = t[i + 1] + Share(bursts[i])

Adds(bursts, all, rest) == \E t : Totals(t, bursts, all, rest)

Reserved == IF pc = "room" /\ parked = 0 THEN Least(frame.n, Depth) ELSE 0

\* The forward level is what its bursts and the reservation hold.
Levels == Adds(fwd, level, Reserved)

Paired == ~mispaired /\ ~orphans

IInv == TypeOK /\ Sending /\ Statuses /\ Aligned /\ Levels /\ Paired /\ NoStatusDropped

-----------------------------------------------------------------------------
\* The types of what the steps work on, and what the invariant bounds.
LEMMA Facts ==
  ASSUME IInv
  PROVE  /\ Depth \in Nat /\ Depth >= 1 /\ MaxLen \in Nat /\ MaxFrames \in Nat
         /\ AckDepth \in Nat /\ MaxInFlight \in Nat /\ MaxInFlight <= AckDepth
         /\ level \in 0..Depth /\ parked \in 0..Depth /\ ackLevel \in 0..AckDepth
         /\ frame \in [id : 0..MaxFrames, n : 0..MaxLen]
         /\ pending \in Seq(1..MaxFrames) /\ Len(pending) \in Nat
         /\ acks \in Seq(1..MaxFrames) /\ Len(acks) \in Nat
         /\ fwd \in Seq(Frame) /\ Len(fwd) \in Nat
         /\ cur \in 0..MaxFrames /\ left \in 0..MaxLen
         /\ Len(acks) <= Len(pending) /\ (Serving => Len(acks) < Len(pending))
         /\ Len(pending) <= MaxInFlight
<1>1. /\ Depth \in Nat /\ Depth >= 1 /\ MaxLen \in Nat /\ MaxFrames \in Nat
      /\ AckDepth \in Nat /\ MaxInFlight \in Nat /\ MaxInFlight <= AckDepth
  BY AckedAssumption
<1>2. /\ level \in 0..Depth /\ parked \in 0..Depth /\ ackLevel \in 0..AckDepth
      /\ frame \in [id : 0..MaxFrames, n : 0..MaxLen]
      /\ pending \in Seq(1..MaxFrames) /\ acks \in Seq(1..MaxFrames) /\ fwd \in Seq(Frame)
      /\ cur \in 0..MaxFrames /\ left \in 0..MaxLen
  BY DEF IInv, TypeOK, Frame
<1>3. Len(pending) \in Nat /\ Len(acks) \in Nat /\ Len(fwd) \in Nat
  BY <1>2, LenProperties
<1>4. Len(acks) <= Len(pending) /\ (Serving => Len(acks) < Len(pending))
  BY <1>3 DEF IInv, Aligned
<1>5. Len(pending) <= MaxInFlight  BY DEF IInv, Sending
<1> QED BY <1>1, <1>2, <1>3, <1>4, <1>5

LEMMA ShareIs ==
  ASSUME NEW b \in Frame, Depth \in Nat, Depth >= 1, MaxLen \in Nat
  PROVE  Share(b) \in 1..Depth /\ Share(b) = Least(b.n, Depth)
BY DEF Frame, Share, Least

-----------------------------------------------------------------------------
\* What a burst put at the end, one read and words reserved do to the totals.
LEMMA NoneAdds ==
  ASSUME NEW bursts, bursts = <<>>
  PROVE  Adds(bursts, 0, 0)
<1> DEFINE t == [i \in 1..1 |-> 0]
<1>1. Totals(t, bursts, 0, 0)
  <2>1. Len(bursts) = 0  BY EmptySeq
  <2> QED BY <2>1 DEF Totals
<1> QED BY <1>1 DEF Adds

LEMMA MoreReserved ==
  ASSUME NEW bursts \in Seq(Frame), NEW all \in Nat, NEW rest \in Nat, NEW n \in Nat,
         Adds(bursts, all, rest)
  PROVE  Adds(bursts, all + n, rest + n)
<1>1. PICK t : Totals(t, bursts, all, rest)  BY DEF Adds
<1> DEFINE k == Len(bursts)
           u == [i \in 1..(k + 1) |-> t[i] + n]
<1>2. k \in Nat  BY LenProperties
<1>3. /\ t \in [1..(k + 1) -> Nat] /\ t[1] = all /\ t[k + 1] = rest
      /\ \A i \in 1..k : t[i] = t[i + 1] + Share(bursts[i])
  BY <1>1 DEF Totals
<1>4. \A i \in 1..k : Share(bursts[i]) \in Int
  <2> SUFFICES ASSUME NEW i \in 1..k PROVE Share(bursts[i]) \in Int  OBVIOUS
  <2>1. bursts[i] \in Frame  BY ElementOfSeq
  <2> QED BY <2>1, ShareIs, AckedAssumption
<1> HIDE DEF k
<1>5. u \in [1..(k + 1) -> Nat] /\ u[1] = all + n /\ u[k + 1] = rest + n
  BY <1>2, <1>3
<1>6. ASSUME NEW i \in 1..k PROVE u[i] = u[i + 1] + Share(bursts[i])
  <2>1. i \in 1..(k + 1) /\ i + 1 \in 1..(k + 1)  BY <1>2
  <2>2. u[i] = t[i] + n /\ u[i + 1] = t[i + 1] + n  BY <2>1
  <2>3. t[i] \in Nat /\ t[i + 1] \in Nat /\ Share(bursts[i]) \in Int
    BY <1>3, <1>4, <2>1
  <2>4. t[i] = t[i + 1] + Share(bursts[i])  BY <1>3
  <2> QED BY <2>2, <2>3, <2>4
<1>7. Totals(u, bursts, all + n, rest + n)
  BY <1>5, <1>6 DEF Totals, k
<1> QED BY <1>7 DEF Adds

LEMMA BurstPut ==
  ASSUME NEW bursts \in Seq(Frame), NEW all, NEW b \in Frame,
         Adds(bursts, all, Share(b))
  PROVE  Adds(Append(bursts, b), all, 0)
<1>1. PICK t : Totals(t, bursts, all, Share(b))  BY DEF Adds
<1> DEFINE k == Len(bursts)
           v == Append(bursts, b)
           u == [i \in 1..(k + 2) |-> IF i = k + 2 THEN 0 ELSE t[i]]
<1>2. /\ k \in Nat /\ Len(v) = k + 1
      /\ \A i \in 1..k : v[i] = bursts[i]
      /\ v[k + 1] = b
  BY LenProperties, AppendProperties
<1>3. /\ t \in [1..(k + 1) -> Nat] /\ t[1] = all /\ t[k + 1] = Share(b)
      /\ \A i \in 1..k : t[i] = t[i + 1] + Share(bursts[i])
  BY <1>1 DEF Totals
<1>4. Share(b) \in Nat  BY ShareIs, AckedAssumption
<1> HIDE DEF k, v
<1>5. u \in [1..(k + 2) -> Nat]  BY <1>2, <1>3
<1>6. \A i \in 1..(k + 1) : u[i] = t[i]  BY <1>2
<1>7. u[k + 2] = 0  BY <1>2
<1>8. u[1] = all  BY <1>2, <1>3, <1>6
<1>9. ASSUME NEW i \in 1..(k + 1) PROVE u[i] = u[i + 1] + Share(v[i])
  <2>1. CASE i \in 1..k
    <3>1. i + 1 \in 1..(k + 1)  BY <1>2, <2>1
    <3> QED BY <1>2, <1>3, <1>6, <2>1, <3>1
  <2>2. CASE i = k + 1
    <3>1. i + 1 = k + 2  BY <1>2, <2>2
    <3>2. u[i] = Share(b) /\ u[i + 1] = 0 /\ v[i] = b
      BY <1>2, <1>3, <1>6, <1>7, <2>2, <3>1
    <3> QED BY <1>4, <3>2
  <2> QED BY <1>2, <2>1, <2>2
<1>10. (k + 1) + 1 = k + 2  BY <1>2
<1>11. Totals(u, v, all, 0)
  BY <1>2, <1>5, <1>7, <1>8, <1>9, <1>10 DEF Totals
<1> QED BY <1>11 DEF Adds, v

LEMMA BurstTaken ==
  ASSUME NEW bursts \in Seq(Frame), bursts # <<>>, NEW all, NEW rest,
         Adds(bursts, all, rest)
  PROVE  /\ all \in Nat /\ all - Share(Head(bursts)) \in Nat
         /\ Adds(Tail(bursts), all - Share(Head(bursts)), rest)
<1>1. PICK t : Totals(t, bursts, all, rest)  BY DEF Adds
<1> DEFINE k == Len(bursts)
           v == Tail(bursts)
           u == [i \in 1..k |-> t[i + 1]]
<1>2. /\ k \in Nat /\ k >= 1 /\ Len(v) = k - 1 /\ v \in Seq(Frame)
      /\ \A i \in 1..(k - 1) : v[i] = bursts[i + 1]
      /\ Head(bursts) = bursts[1] /\ bursts[1] \in Frame
  BY LenProperties, HeadTailProperties, EmptySeq, ElementOfSeq
<1>3. /\ t \in [1..(k + 1) -> Nat] /\ t[1] = all /\ t[k + 1] = rest
      /\ \A i \in 1..k : t[i] = t[i + 1] + Share(bursts[i])
  BY <1>1 DEF Totals
<1>4. Share(bursts[1]) \in Nat  BY <1>2, ShareIs, AckedAssumption
<1> HIDE DEF k, v
<1>5. t[1] \in Nat /\ t[2] \in Nat /\ t[1] = t[2] + Share(bursts[1])
  <2>1. 1 \in 1..k /\ 1 \in 1..(k + 1) /\ 2 \in 1..(k + 1) /\ 1 + 1 = 2  BY <1>2
  <2> QED BY <1>3, <2>1
<1>6. all \in Nat /\ all - Share(Head(bursts)) = t[2]
  BY <1>2, <1>3, <1>4, <1>5
<1>7. u \in [1..k -> Nat]
  <2>1. \A i \in 1..k : i + 1 \in 1..(k + 1)  BY <1>2
  <2> QED BY <1>3, <2>1
<1>8. u[1] = t[2] /\ u[k] = rest
  <2>1. 1 \in 1..k /\ k \in 1..k  BY <1>2
  <2> QED BY <1>3, <2>1
<1>9. ASSUME NEW i \in 1..(k - 1) PROVE u[i] = u[i + 1] + Share(v[i])
  <2>1. i \in 1..k /\ i + 1 \in 1..k  BY <1>2
  <2>2. u[i] = t[i + 1] /\ u[i + 1] = t[(i + 1) + 1]  BY <2>1
  <2>3. t[i + 1] = t[(i + 1) + 1] + Share(bursts[i + 1])  BY <1>3, <2>1
  <2> QED BY <1>2, <2>2, <2>3
<1>10. (k - 1) + 1 = k  BY <1>2
<1>11. Totals(u, v, t[2], rest)
  BY <1>2, <1>7, <1>8, <1>9, <1>10 DEF Totals
<1>12. Adds(v, t[2], rest)  BY <1>11 DEF Adds
<1> QED BY <1>5, <1>6, <1>12 DEF v

-----------------------------------------------------------------------------
LEMMA InitIInv == Init => IInv
<1> SUFFICES ASSUME Init PROVE IInv  OBVIOUS
<1> USE DEF Init
<1>1. Len(pending) = 0 /\ Len(acks) = 0 /\ Len(fwd) = 0  BY EmptySeq
<1>2. TypeOK
  <2>1. pending \in Seq(1..MaxFrames) /\ acks \in Seq(1..MaxFrames)
        /\ fwd \in Seq([id : 1..MaxFrames, n : 1..MaxLen])
    BY EmptySeq
  <2>2. frame \in [id : 0..MaxFrames, n : 0..MaxLen]  BY AckedAssumption DEF NoFrame
  <2>3. /\ level \in 0..Depth /\ parked \in 0..Depth /\ cur \in 0..MaxFrames
        /\ left \in 0..MaxLen /\ ackLevel \in 0..AckDepth
    BY AckedAssumption
  <2>4. /\ pc \in {"idle", "air", "room"} /\ cpc \in {"read", "send", "air", "one"}
        /\ orphans \in BOOLEAN /\ blocked \in BOOLEAN /\ dropped \in BOOLEAN
        /\ mispaired \in BOOLEAN
    OBVIOUS
  <2> HIDE DEF Init
  <2> QED BY <2>1, <2>2, <2>3, <2>4 DEF TypeOK
<1>3. Sending  BY <1>1, AckedAssumption DEF Sending
<1>4. ~Serving  BY DEF Serving
<1>5. Statuses  BY <1>1, <1>4 DEF Statuses
<1>6. Aligned  BY <1>1, <1>4 DEF Aligned
<1>7. Levels  BY NoneAdds DEF Levels, Reserved
<1> QED BY <1>2, <1>3, <1>5, <1>6, <1>7 DEF IInv, Paired, NoStatusDropped

\* A frame is begun with a pending slot free.
LEMMA WriteFrameStep ==
  ASSUME IInv, NEW n \in 1..MaxLen, WriteFrame(n)
  PROVE  IInv'
<1> USE DEF WriteFrame, CanWriteFrame, slaveVars, fwdVars, ackVars
<1>1. frame' \in Frame /\ frame' \in [id : 0..MaxFrames, n : 0..MaxLen]
  <2>1. frame.id \in 0..MaxFrames /\ frame.id < MaxFrames  BY Facts
  <2>2. frame.id + 1 \in 1..MaxFrames /\ n \in 0..MaxLen  BY <2>1, Facts
  <2> QED BY <2>2, Facts DEF Frame
<1>2. TypeOK'  BY <1>1 DEF IInv, TypeOK
<1>3. Sending'  BY <1>1 DEF IInv, Sending
<1>4. Statuses' /\ Aligned'  BY DEF IInv, Statuses, Aligned, Serving
<1>5. Levels'
  <2>1. Reserved = 0 /\ Reserved' = 0  BY DEF Reserved
  <2> QED BY <2>1 DEF IInv, Levels
<1> QED BY <1>2, <1>3, <1>4, <1>5 DEF IInv, Paired, NoStatusDropped

\* The frame handed over is the last of the frames in flight, and its token the last
\* of the pending ones.
LEMMA DeliverAligns ==
  ASSUME IInv, pc # "idle", Deliver, UNCHANGED slaveVars, acks' = acks
  PROVE  /\ pending' \in Seq(1..MaxFrames) /\ fwd' \in Seq(Frame)
         /\ Len(pending') <= MaxInFlight /\ Aligned'
<1> DEFINE p == Len(pending)  f == Len(fwd)  a == Len(acks)
<1>1. frame \in Frame /\ frame.id \in 1..MaxFrames /\ p < MaxInFlight
  BY DEF IInv, Sending, Frame
<1>2. p \in Nat /\ f \in Nat /\ a \in Nat /\ MaxInFlight \in Nat  BY Facts
<1>3. /\ pending' \in Seq(1..MaxFrames) /\ Len(pending') = p + 1 /\ pending'[p + 1] = frame.id
      /\ \A i \in 1..p : pending'[i] = pending[i]
  BY <1>1, Facts, AppendProperties DEF Deliver
<1>4. /\ fwd' \in Seq(Frame) /\ Len(fwd') = f + 1 /\ fwd'[f + 1] = frame
      /\ \A i \in 1..f : fwd'[i] = fwd[i]
  BY <1>1, Facts, AppendProperties DEF Deliver
<1>5. Serving' <=> Serving  BY DEF Serving, slaveVars
<1>6. cur' = cur /\ acks' = acks  BY DEF slaveVars
<1>7. \A i \in 1..a : pending[i] = acks[i]  BY DEF IInv, Aligned
<1>8. CASE Serving
  <2>1. /\ p = a + 1 + f /\ pending[a + 1] = cur
        /\ \A j \in 1..f : pending[a + 1 + j] = fwd[j].id
    BY <1>8 DEF IInv, Aligned
  <2> HIDE DEF p, f, a
  <2>2. Len(pending') = a + 1 + (f + 1) /\ a + 1 + (f + 1) = p + 1  BY <1>2, <1>3, <2>1
  <2>3. pending'[a + 1] = cur  BY <1>2, <1>3, <2>1
  <2>4. \A i \in 1..a : pending'[i] = acks[i]  BY <1>2, <1>3, <1>7, <2>1
  <2>5. ASSUME NEW j \in 1..(f + 1) PROVE pending'[a + 1 + j] = fwd'[j].id
    <3>1. CASE j \in 1..f
      <4>1. a + 1 + j \in 1..p  BY <1>2, <2>1, <3>1
      <4> QED BY <1>3, <1>4, <2>1, <3>1, <4>1
    <3>2. CASE j = f + 1
      BY <1>3, <1>4, <2>2, <3>2
    <3> QED BY <1>2, <3>1, <3>2
  <2> QED BY <1>1, <1>2, <1>3, <1>4, <1>5, <1>6, <1>8, <2>2, <2>3, <2>4, <2>5 DEF Aligned, a
<1>9. CASE ~Serving
  <2>1. p = a + f /\ \A j \in 1..f : pending[a + j] = fwd[j].id
    BY <1>9 DEF IInv, Aligned
  <2> HIDE DEF p, f, a
  <2>2. Len(pending') = a + (f + 1) /\ a + (f + 1) = p + 1  BY <1>2, <1>3, <2>1
  <2>4. \A i \in 1..a : pending'[i] = acks[i]  BY <1>2, <1>3, <1>7, <2>1
  <2>5. ASSUME NEW j \in 1..(f + 1) PROVE pending'[a + j] = fwd'[j].id
    <3>1. CASE j \in 1..f
      <4>1. a + j \in 1..p  BY <1>2, <2>1, <3>1
      <4> QED BY <1>3, <1>4, <2>1, <3>1, <4>1
    <3>2. CASE j = f + 1
      BY <1>3, <1>4, <2>2, <3>2
    <3> QED BY <1>2, <3>1, <3>2
  <2> QED BY <1>1, <1>2, <1>3, <1>4, <1>5, <1>6, <1>9, <2>2, <2>4, <2>5 DEF Aligned, a
<1> QED BY <1>8, <1>9

\* The forward write finds room, or parks; its parked put was granted.
LEMMA FrameLandsStep == ASSUME IInv, FrameLands PROVE IInv'
<1> USE DEF FrameLands, slaveVars, ackVars
<1>1. /\ frame \in Frame /\ Share(frame) \in 1..Depth /\ Share(frame) = Least(frame.n, Depth)
      /\ level \in 0..Depth /\ Depth \in Nat /\ Len(pending) < MaxInFlight /\ parked = 0
  <2>1. frame \in Frame  BY DEF IInv, Sending
  <2> QED BY <2>1, Facts, ShareIs DEF IInv, Sending
<1>2. Reserved = 0  BY DEF Reserved
<1>3. Statuses'  BY DEF IInv, Statuses, Serving
<1>4. CASE Depth - level >= Share(frame) /\ level' = level + Share(frame) /\ Deliver /\ UNCHANGED parked
  <2>1. /\ pending' \in Seq(1..MaxFrames) /\ fwd' \in Seq(Frame)
        /\ Len(pending') <= MaxInFlight /\ Aligned'
    BY <1>4, DeliverAligns
  <2>2. level' \in 0..Depth  BY <1>1, <1>4
  <2>3. TypeOK'  BY <1>4, <2>1, <2>2 DEF IInv, TypeOK, Frame, Deliver
  <2>4. Sending'  BY <1>1, <1>4, <2>1 DEF Sending, Deliver
  <2>5. Levels'
    <3>0. fwd \in Seq(Frame) /\ Adds(fwd, level, 0) /\ level \in Nat /\ Share(frame) \in Nat
      BY <1>1, <1>2, Facts DEF IInv, Levels
    <3>1. Adds(fwd, level + Share(frame), 0 + Share(frame))
      BY <3>0, MoreReserved
    <3>2. 0 + Share(frame) = Share(frame)  BY <1>1
    <3>3. Adds(Append(fwd, frame), level + Share(frame), 0)
      BY <1>1, <3>1, <3>2, Facts, BurstPut
    <3>4. Reserved' = 0  BY <1>4 DEF Reserved, Deliver
    <3> QED BY <1>4, <3>3, <3>4 DEF Levels, Deliver
  <2> QED BY <1>3, <2>1, <2>3, <2>4, <2>5 DEF IInv, Paired, NoStatusDropped
<1>5. CASE parked' = Share(frame) /\ pc' = "room" /\ UNCHANGED <<level, fwd, pending>>
  <2>1. TypeOK'  BY <1>1, <1>5 DEF IInv, TypeOK
  <2>2. Sending'  BY <1>1, <1>5 DEF IInv, Sending
  <2>3. Aligned'  BY <1>5 DEF IInv, Aligned, Serving
  <2>4. Levels'
    <3>1. Reserved' = 0  BY <1>1, <1>5 DEF Reserved
    <3> QED BY <1>2, <1>5, <3>1 DEF IInv, Levels
  <2> QED BY <1>3, <2>1, <2>2, <2>3, <2>4 DEF IInv, Paired, NoStatusDropped
<1> QED BY <1>1, <1>4, <1>5

LEMMA FrameResumesStep == ASSUME IInv, FrameResumes PROVE IInv'
<1> USE DEF FrameResumes, slaveVars, ackVars
<1>1. frame \in Frame /\ Share(frame) = Least(frame.n, Depth) /\ Len(pending) < MaxInFlight
  <2>1. frame \in Frame  BY DEF IInv, Sending
  <2> QED BY <2>1, Facts, ShareIs DEF IInv, Sending
<1>2. /\ pending' \in Seq(1..MaxFrames) /\ fwd' \in Seq(Frame)
      /\ Len(pending') <= MaxInFlight /\ Aligned'
  BY DeliverAligns
<1>3. Statuses'  BY DEF IInv, Statuses, Serving
<1>4. TypeOK'  BY <1>2 DEF IInv, TypeOK, Frame, Deliver
<1>5. Sending'  BY <1>1, <1>2 DEF Sending, Deliver
<1>6. Levels'
  <2>1. Reserved = Share(frame)  BY <1>1 DEF Reserved
  <2>2. Adds(Append(fwd, frame), level, 0)
    BY <1>1, <2>1, Facts, BurstPut DEF IInv, Levels
  <2>3. Reserved' = 0  BY DEF Reserved, Deliver
  <2> QED BY <2>2, <2>3 DEF Levels, Deliver
<1> QED BY <1>2, <1>3, <1>4, <1>5, <1>6 DEF IInv, Paired, NoStatusDropped

\* The k-th status goes to the k-th token, and it is that token's.
LEMMA HarvestStep ==
  ASSUME IInv, NEW n \in 1..MaxHarvest, Harvest(n)
  PROVE  IInv'
<1> DEFINE a == Len(acks)  p == Len(pending)
           k == Least(n, a)  m == Least(k, p)
<1>1. /\ acks' = SubSeq(acks, k + 1, a) /\ ackLevel' = ackLevel - k
      /\ pending' = SubSeq(pending, m + 1, p)
      /\ orphans' = (orphans \/ m < k)
      /\ mispaired' = (mispaired \/ \E i \in 1..m : acks[i] # pending[i])
      /\ UNCHANGED <<pc, frame, dropped, cpc, cur, left, blocked, fwd, level, parked>>
  BY DEF Harvest, slaveVars, fwdVars
<1>2. a \in Nat /\ p \in Nat /\ a <= p /\ n \in Nat /\ MaxHarvest \in Nat
  BY Facts, AckedAssumption
<1>3. k \in 0..a /\ m = k  BY <1>2 DEF Least
<1>4. \A i \in 1..a : pending[i] = acks[i]  BY DEF IInv, Aligned
<1> HIDE DEF k, m
<1>5. ~orphans' /\ ~mispaired'
  <2>1. ~(m < k)  BY <1>2, <1>3
  <2>2. \A i \in 1..m : acks[i] = pending[i]  BY <1>2, <1>3, <1>4
  <2> QED BY <1>1, <2>1, <2>2 DEF IInv, Paired
<1>6. /\ acks' \in Seq(1..MaxFrames) /\ Len(acks') = a - k
      /\ \A i \in 1..(a - k) : acks'[i] = acks[k + i]
  <2>1. \A i \in (k + 1)..a : acks[i] \in 1..MaxFrames
    <3>1. \A i \in (k + 1)..a : i \in 1..a  BY <1>2, <1>3
    <3> QED BY <3>1, Facts, ElementOfSeq
  <2>2. /\ acks' \in Seq(1..MaxFrames)
        /\ Len(acks') = IF k + 1 <= a THEN (a - (k + 1)) + 1 ELSE 0
        /\ \A i \in 1..((a - (k + 1)) + 1) : acks'[i] = acks[((k + 1) + i) - 1]
    BY <1>1, <1>2, <1>3, <2>1, SubSeqProperties
  <2>3. (a - (k + 1)) + 1 = a - k /\ (~(k + 1 <= a) => a - k = 0)  BY <1>2, <1>3
  <2>4. \A i \in 1..(a - k) : ((k + 1) + i) - 1 = k + i  BY <1>2, <1>3
  <2> QED BY <2>2, <2>3, <2>4
<1>7. /\ pending' \in Seq(1..MaxFrames) /\ Len(pending') = p - k
      /\ \A i \in 1..(p - k) : pending'[i] = pending[k + i]
  <2>1. \A i \in (k + 1)..p : pending[i] \in 1..MaxFrames
    <3>1. \A i \in (k + 1)..p : i \in 1..p  BY <1>2, <1>3
    <3> QED BY <3>1, Facts, ElementOfSeq
  <2>2. /\ pending' \in Seq(1..MaxFrames)
        /\ Len(pending') = IF k + 1 <= p THEN (p - (k + 1)) + 1 ELSE 0
        /\ \A i \in 1..((p - (k + 1)) + 1) : pending'[i] = pending[((k + 1) + i) - 1]
    BY <1>1, <1>2, <1>3, <2>1, SubSeqProperties
  <2>3. (p - (k + 1)) + 1 = p - k /\ (~(k + 1 <= p) => p - k = 0)  BY <1>2, <1>3
  <2>4. \A i \in 1..(p - k) : ((k + 1) + i) - 1 = k + i  BY <1>2, <1>3
  <2> QED BY <2>2, <2>3, <2>4
<1>8. Aligned'
  <2> DEFINE f == Len(fwd)
  <2>1. f \in Nat /\ fwd' = fwd /\ cur' = cur /\ (Serving' <=> Serving)
    BY <1>1, Facts DEF Serving
  <2>2. \A i \in 1..(a - k) : pending'[i] = acks'[i]
    <3> SUFFICES ASSUME NEW i \in 1..(a - k) PROVE pending'[i] = acks'[i]  OBVIOUS
    <3>1. i \in 1..(p - k) /\ k + i \in 1..a  BY <1>2, <1>3
    <3> QED BY <1>4, <1>6, <1>7, <3>1
  <2>3. CASE Serving
    <3>1. /\ p = a + 1 + f /\ pending[a + 1] = cur
          /\ \A j \in 1..f : pending[a + 1 + j] = fwd[j].id
      BY <2>3 DEF IInv, Aligned
    <3> HIDE DEF f, a, p
    <3>2. p - k = (a - k) + 1 + f  BY <1>2, <1>3, <2>1, <3>1
    <3>3. (a - k) + 1 \in 1..(p - k) /\ k + ((a - k) + 1) = a + 1
      BY <1>2, <1>3, <2>1, <3>1
    <3>4. pending'[(a - k) + 1] = cur  BY <1>7, <3>1, <3>3
    <3>5. \A j \in 1..f : pending'[(a - k) + 1 + j] = fwd[j].id
      <4> SUFFICES ASSUME NEW j \in 1..f PROVE pending'[(a - k) + 1 + j] = fwd[j].id
        OBVIOUS
      <4>1. (a - k) + 1 + j \in 1..(p - k) /\ k + ((a - k) + 1 + j) = a + 1 + j
        BY <1>2, <1>3, <2>1, <3>1
      <4> QED BY <1>7, <3>1, <4>1
    <3> QED BY <1>6, <1>7, <2>1, <2>2, <2>3, <3>2, <3>4, <3>5 DEF Aligned, f
  <2>4. CASE ~Serving
    <3>1. p = a + f /\ \A j \in 1..f : pending[a + j] = fwd[j].id
      BY <2>4 DEF IInv, Aligned
    <3> HIDE DEF f, a, p
    <3>2. p - k = (a - k) + f  BY <1>2, <1>3, <2>1, <3>1
    <3>3. \A j \in 1..f : pending'[(a - k) + j] = fwd[j].id
      <4> SUFFICES ASSUME NEW j \in 1..f PROVE pending'[(a - k) + j] = fwd[j].id
        OBVIOUS
      <4>1. (a - k) + j \in 1..(p - k) /\ k + ((a - k) + j) = a + j
        BY <1>2, <1>3, <2>1, <3>1
      <4> QED BY <1>7, <3>1, <4>1
    <3> QED BY <1>6, <1>7, <2>1, <2>2, <2>4, <3>2, <3>3 DEF Aligned, f
  <2> QED BY <2>3, <2>4
<1>9. Sending'
  <2>1. Len(pending') \in Nat /\ Len(pending') <= p  BY <1>2, <1>3, <1>7
  <2>2. p <= MaxInFlight /\ MaxInFlight \in Nat  BY Facts
  <2> HIDE DEF p
  <2>3. Len(pending') <= MaxInFlight  BY <1>2, <2>1, <2>2
  <2>4. pc # "idle" => Len(pending') < MaxInFlight
    <3>1. pc # "idle" => p < MaxInFlight  BY DEF IInv, Sending, p
    <3> QED BY <1>2, <2>1, <2>2, <3>1
  <2> QED BY <1>1, <2>3, <2>4 DEF IInv, Sending
<1>10. Statuses' /\ ackLevel' \in 0..AckDepth
  <2>1. ackLevel' = ackLevel - k /\ ackLevel \in 0..AckDepth /\ AckDepth \in Nat  BY <1>1, Facts
  <2>2. (cpc = "one" => ackLevel = a + 1) /\ (cpc # "one" => ackLevel = a)
    BY DEF IInv, Statuses
  <2>3. Serving' <=> Serving  BY <1>1 DEF Serving
  <2> HIDE DEF a
  <2>4. (cpc = "one" => ackLevel' = (a - k) + 1) /\ (cpc # "one" => ackLevel' = a - k)
    BY <1>2, <1>3, <2>1, <2>2
  <2>5. ackLevel' \in 0..AckDepth  BY <1>2, <1>3, <2>1, <2>2
  <2> QED BY <1>1, <1>6, <2>3, <2>4, <2>5 DEF IInv, Statuses
<1>11. TypeOK'  BY <1>1, <1>5, <1>6, <1>7, <1>10 DEF IInv, TypeOK, Paired
<1>12. Levels'
  <2>1. Reserved' = Reserved  BY <1>1 DEF Reserved
  <2> QED BY <1>1, <2>1 DEF IInv, Levels
<1> QED BY <1>1, <1>5, <1>8, <1>9, <1>10, <1>11, <1>12 DEF IInv, Paired, NoStatusDropped

\* The burst at the head moves into the consumer's hands, between the statuses and
\* the bursts, and its share of the level goes back or to the put that waits.
LEMMA TakeBurstFacts ==
  ASSUME IInv, TakeBurst, ~Serving, Serving', UNCHANGED <<pc, frame, pending, acks>>
  PROVE  /\ Aligned' /\ Levels' /\ Head(fwd) \in Frame
         /\ fwd' \in Seq(Frame) /\ cur' \in 1..MaxFrames
         /\ level' \in 0..Depth /\ parked' \in 0..Depth /\ (parked' = 0 \/ parked' = parked)
<1> DEFINE a == Len(acks)  f == Len(fwd)  p == Len(pending)
           rest == level - Share(Head(fwd))
<1>1. fwd # <<>> /\ fwd' = Tail(fwd) /\ cur' = Head(fwd).id  BY DEF TakeBurst
<1>2. IF parked > 0 /\ Depth - rest >= parked
        THEN level' = rest + parked /\ parked' = 0
        ELSE level' = rest /\ parked' = parked
  BY DEF TakeBurst, Share
<1>3. /\ fwd \in Seq(Frame) /\ a \in Nat /\ p \in Nat /\ f \in Nat
      /\ level \in 0..Depth /\ parked \in 0..Depth /\ Depth \in Nat
  BY Facts
<1>4. /\ fwd' \in Seq(Frame) /\ Len(fwd') = f - 1 /\ f >= 1
      /\ \A j \in 1..(f - 1) : fwd'[j] = fwd[j + 1]
      /\ Head(fwd) = fwd[1] /\ Head(fwd) \in Frame
  BY <1>1, <1>3, HeadTailProperties, EmptySeq
<1>5. Head(fwd).id \in 1..MaxFrames  BY <1>4 DEF Frame
<1>6. Share(Head(fwd)) \in 1..Depth  BY <1>4, ShareIs, Facts
<1>7. rest \in Nat /\ Adds(Tail(fwd), rest, Reserved)
  BY <1>1, <1>3, BurstTaken DEF IInv, Levels
<1>8. rest \in 0..Depth  BY <1>3, <1>6, <1>7
<1> HIDE DEF rest
<1>9. level' \in 0..Depth /\ parked' \in 0..Depth /\ (parked' = 0 \/ parked' = parked)
  BY <1>2, <1>3, <1>8
<1>10. Levels'
  <2>1. CASE parked > 0 /\ Depth - rest >= parked
    <3>1. level' = rest + parked /\ parked' = 0  BY <1>2, <2>1
    <3>2. pc = "room" /\ parked = Least(frame.n, Depth)
      BY <1>3, <2>1 DEF IInv, Sending
    <3>3. Reserved = 0 /\ Reserved' = parked  BY <1>3, <2>1, <3>1, <3>2 DEF Reserved
    <3>0. Tail(fwd) \in Seq(Frame) /\ Adds(Tail(fwd), rest, 0) /\ rest \in Nat /\ parked \in Nat
      BY <1>1, <1>3, <1>4, <1>7, <3>3
    <3>4. Adds(Tail(fwd), rest + parked, 0 + parked)
      BY <3>0, MoreReserved
    <3>5. 0 + parked = parked  BY <1>3
    <3> QED BY <1>1, <3>1, <3>3, <3>4, <3>5 DEF Levels
  <2>2. CASE ~(parked > 0 /\ Depth - rest >= parked)
    <3>1. level' = rest /\ parked' = parked  BY <1>2, <2>2
    <3>2. Reserved' = Reserved  BY <3>1 DEF Reserved
    <3> QED BY <1>1, <1>7, <3>1, <3>2 DEF Levels
  <2> QED BY <2>1, <2>2
<1>11. Aligned'
  <2>1. /\ \A i \in 1..a : pending[i] = acks[i]
        /\ p = a + f /\ \A j \in 1..f : pending[a + j] = fwd[j].id
    BY DEF IInv, Aligned
  <2> HIDE DEF a, f, p
  <2>2. p = a + 1 + (f - 1)  BY <1>3, <2>1
  <2>3. pending[a + 1] = cur'  BY <1>1, <1>3, <1>4, <2>1
  <2>4. \A j \in 1..(f - 1) : pending[a + 1 + j] = fwd'[j].id
    <3> SUFFICES ASSUME NEW j \in 1..(f - 1) PROVE pending[a + 1 + j] = fwd'[j].id
      OBVIOUS
    <3>1. j + 1 \in 1..f /\ a + (j + 1) = a + 1 + j  BY <1>3
    <3> QED BY <1>4, <2>1, <3>1
  <2> QED BY <1>4, <2>1, <2>2, <2>3, <2>4 DEF Aligned, a, p
<1> QED BY <1>1, <1>4, <1>5, <1>9, <1>10, <1>11

LEMMA SendingOnRead ==
  ASSUME IInv, parked' = 0 \/ parked' = parked, UNCHANGED masterVars
  PROVE  Sending'
BY DEF IInv, Sending, masterVars

LEMMA ReadItemStep == ASSUME IInv, ReadItem PROVE IInv'
<1> USE DEF masterVars, ackVars
<1>1. /\ cpc = "read" /\ UNCHANGED <<blocked, masterVars, ackVars>>
      /\ (left' = 0 => cpc' = "send") /\ (left' # 0 => cpc' = "read")
  BY DEF ReadItem
<1>2. left \in 0..MaxLen /\ MaxLen \in Nat  BY Facts
<1>3. CASE left = 0 /\ TakeBurst /\ left' = Head(fwd).n - 1
  <2>1. fwd # <<>> /\ Head(fwd) \in Frame
    <3>1. fwd # <<>>  BY <1>3 DEF TakeBurst
    <3> QED BY <3>1, Facts, HeadTailProperties
  <2>2. left' \in 0..MaxLen
    <3>1. Head(fwd).n \in 1..MaxLen  BY <2>1 DEF Frame
    <3> QED BY <1>2, <1>3, <3>1
  <2>3. ~Serving /\ Serving'
    <3>1. ~Serving  BY <1>1, <1>3 DEF Serving
    <3>2. CASE left' = 0
      <4>1. cpc' = "send"  BY <1>1, <3>2
      <4> QED BY <3>1, <4>1 DEF Serving
    <3>3. CASE left' # 0
      <4>1. left' > 0  BY <1>2, <2>2, <3>3
      <4> QED BY <3>1, <4>1 DEF Serving
    <3> QED BY <3>2, <3>3
  <2>4. /\ Aligned' /\ Levels'
        /\ fwd' \in Seq(Frame) /\ cur' \in 1..MaxFrames
        /\ level' \in 0..Depth /\ parked' \in 0..Depth /\ (parked' = 0 \/ parked' = parked)
    BY <1>1, <1>3, <2>3, TakeBurstFacts
  <2>5. MaxFrames \in Nat  BY Facts
  <2>6. TypeOK'  BY <1>1, <2>2, <2>4, <2>5 DEF IInv, TypeOK, Frame
  <2>7. Sending'  BY <1>1, <2>4, SendingOnRead
  <2>8. Statuses'  BY <1>1, <2>4 DEF IInv, Statuses
  <2> QED BY <1>1, <2>4, <2>6, <2>7, <2>8 DEF IInv, Paired, NoStatusDropped
<1>4. CASE left > 0 /\ left' = left - 1 /\ UNCHANGED <<cur, fwdVars>>
  <2>1. left' \in 0..MaxLen  BY <1>2, <1>4
  <2>2. Serving /\ Serving'  BY <1>1, <1>2, <1>4, <2>1 DEF Serving
  <2>3. TypeOK'  BY <1>1, <1>4, <2>1 DEF IInv, TypeOK, fwdVars
  <2>4. Sending'  BY <1>1, <1>4, SendingOnRead DEF fwdVars
  <2>5. Statuses'  BY <1>1, <1>4, <2>2 DEF IInv, Statuses
  <2>6. Aligned'  BY <1>1, <1>4, <2>2 DEF IInv, Aligned, fwdVars
  <2>7. Levels'
    <3>1. Reserved' = Reserved  BY <1>1, <1>4 DEF Reserved, fwdVars
    <3> QED BY <1>4, <3>1 DEF IInv, Levels, fwdVars
  <2> QED BY <1>1, <2>3, <2>4, <2>5, <2>6, <2>7 DEF IInv, Paired, NoStatusDropped
<1> QED BY <1>3, <1>4 DEF ReadItem

LEMMA ReadFrameStep == ASSUME IInv, ReadFrame PROVE IInv'
<1> USE DEF ReadFrame, masterVars, ackVars
<1>1. ~Serving /\ Serving'  BY Facts DEF Serving
<1>2. /\ Aligned' /\ Levels'
      /\ fwd' \in Seq(Frame) /\ cur' \in 1..MaxFrames
      /\ level' \in 0..Depth /\ parked' \in 0..Depth /\ (parked' = 0 \/ parked' = parked)
  BY <1>1, TakeBurstFacts
<1>3. MaxFrames \in Nat  BY Facts
<1>4. TypeOK'  BY <1>2, <1>3 DEF IInv, TypeOK, Frame
<1>5. Sending'  BY <1>2, SendingOnRead
<1>6. Statuses'  BY <1>2 DEF IInv, Statuses
<1> QED BY <1>2, <1>4, <1>5, <1>6 DEF IInv, Paired, NoStatusDropped

\* The frame whose status is due is one of the pending ones, so the statuses before
\* it leave room.
LEMMA StatusLooksStep == ASSUME IInv, StatusLooks PROVE IInv'
<1> USE DEF StatusLooks, masterVars, fwdVars, ackVars
<1>1. Serving /\ Serving'  BY DEF Serving
<1>2. ~blocked'
  <2>1. ackLevel = Len(acks) /\ Len(acks) \in Nat /\ Len(acks) < Len(pending)
    BY <1>1, Facts DEF IInv, Statuses
  <2>2. /\ Len(pending) <= MaxInFlight /\ MaxInFlight <= AckDepth /\ Len(pending) \in Nat
        /\ MaxInFlight \in Nat /\ AckDepth \in Nat
    BY Facts
  <2>3. ackLevel < AckDepth  BY <2>1, <2>2
  <2>4. ~(ackLevel >= AckDepth)  BY <2>1, <2>2, <2>3
  <2> QED BY <2>4
<1>3. TypeOK' /\ Sending'  BY <1>2 DEF IInv, TypeOK, Sending
<1>4. Statuses' /\ Aligned'  BY <1>1, <1>2 DEF IInv, Statuses, Aligned
<1>5. Levels'
  <2>1. Reserved' = Reserved  BY DEF Reserved
  <2> QED BY <2>1 DEF IInv, Levels
<1> QED BY <1>3, <1>4, <1>5 DEF IInv, Paired, NoStatusDropped

LEMMA StatusLandsStep == ASSUME IInv, StatusLands PROVE IInv'
<1> USE DEF masterVars, fwdVars
<1>1. ~blocked  BY DEF IInv, Statuses
<1>2. /\ cpc = "air" /\ ackLevel < AckDepth /\ ackLevel' = ackLevel + 1 /\ cpc' = "one"
      /\ dropped' = dropped /\ blocked' = FALSE
      /\ UNCHANGED <<cur, left, acks, masterVars, fwdVars>>
  BY <1>1 DEF StatusLands
<1>3. Serving /\ Serving'  BY <1>2 DEF Serving
<1>4. ackLevel \in 0..AckDepth /\ AckDepth \in Nat  BY Facts
<1>5. ackLevel' \in 0..AckDepth  BY <1>2, <1>4
<1>6. TypeOK' /\ Sending'  BY <1>2, <1>5 DEF IInv, TypeOK, Sending
<1>7. Statuses' /\ Aligned'  BY <1>2, <1>3 DEF IInv, Statuses, Aligned
<1>8. Levels'
  <2>1. Reserved' = Reserved  BY <1>2 DEF Reserved
  <2> QED BY <1>2, <2>1 DEF IInv, Levels
<1> QED BY <1>2, <1>6, <1>7, <1>8 DEF IInv, Paired, NoStatusDropped

LEMMA StatusStoredStep == ASSUME IInv, StatusStored PROVE IInv'
<1> USE DEF StatusStored, masterVars, fwdVars
<1> DEFINE a == Len(acks)  f == Len(fwd)
<1>1. Serving /\ left = 0 /\ ~Serving'
  <2>1. left = 0  BY DEF IInv, Statuses
  <2> QED BY <2>1 DEF Serving
<1>2. cur \in 1..MaxFrames /\ a \in Nat /\ f \in Nat
  BY <1>1, Facts DEF IInv, Statuses
<1>3. /\ acks' \in Seq(1..MaxFrames) /\ Len(acks') = a + 1 /\ acks'[a + 1] = cur
      /\ \A i \in 1..a : acks'[i] = acks[i]
  BY <1>2, Facts, AppendProperties
<1>4. TypeOK' /\ Sending'  BY <1>3 DEF IInv, TypeOK, Sending
<1>5. Statuses'  BY <1>1, <1>2, <1>3 DEF IInv, Statuses
<1>6. Aligned'
  <2>1. /\ \A i \in 1..a : pending[i] = acks[i]
        /\ Len(pending) = a + 1 + f /\ pending[a + 1] = cur
        /\ \A j \in 1..f : pending[a + 1 + j] = fwd[j].id
    BY <1>1 DEF IInv, Aligned
  <2> HIDE DEF a
  <2>2. \A i \in 1..(a + 1) : pending[i] = acks'[i]
    <3> SUFFICES ASSUME NEW i \in 1..(a + 1) PROVE pending[i] = acks'[i]  OBVIOUS
    <3>1. i \in 1..a \/ i = a + 1  BY <1>2
    <3> QED BY <1>3, <2>1, <3>1
  <2> QED BY <1>1, <1>3, <2>1, <2>2 DEF Aligned
<1>7. Levels'
  <2>1. Reserved' = Reserved  BY DEF Reserved
  <2> QED BY <2>1 DEF IInv, Levels
<1> QED BY <1>4, <1>5, <1>6, <1>7 DEF IInv, Paired, NoStatusDropped

-----------------------------------------------------------------------------
LEMMA NextIInv == ASSUME IInv, [Next]_vars PROVE IInv'
<1>1. CASE UNCHANGED vars
  <2> USE <1>1 DEF vars, masterVars, slaveVars, fwdVars, ackVars
  <2>1. TypeOK' /\ Sending'  BY DEF IInv, TypeOK, Sending
  <2>2. Statuses' /\ Aligned'  BY DEF IInv, Statuses, Aligned, Serving
  <2>3. Levels'  BY DEF IInv, Levels, Reserved
  <2> QED BY <2>1, <2>2, <2>3 DEF IInv, Paired, NoStatusDropped
<1>2. ASSUME NEW n \in 1..MaxLen, WriteFrame(n) PROVE IInv'  BY <1>2, WriteFrameStep
<1>3. ASSUME NEW n \in 1..MaxHarvest, Harvest(n) PROVE IInv'  BY <1>3, HarvestStep
<1>4. CASE Sender  BY <1>4, FrameLandsStep, FrameResumesStep DEF Sender
<1>5. CASE Consumer
  BY <1>5, ReadItemStep, ReadFrameStep, StatusLooksStep, StatusLandsStep, StatusStoredStep
     DEF Consumer
<1> QED BY <1>1, <1>2, <1>3, <1>4, <1>5 DEF Next

LEMMA Inductive == Spec => []IInv
<1>1. IInv /\ [Next]_vars => IInv'  BY NextIInv
<1> QED BY InitIInv, <1>1, PTL DEF Spec

\* The pointwise order is the order of the concatenation.
LEMMA AlignedIsInFlight == ASSUME IInv PROVE PendingIsInFlight
<1> DEFINE a == Len(acks)  f == Len(fwd)  p == Len(pending)
           ids == [i \in 1..Len(fwd) |-> fwd[i].id]
<1>1. /\ pending \in Seq(1..MaxFrames) /\ acks \in Seq(1..MaxFrames) /\ fwd \in Seq(Frame)
      /\ a \in Nat /\ f \in Nat /\ p \in Nat
  BY Facts
<1>2. ids \in Seq(1..MaxFrames) /\ Len(ids) = f /\ \A j \in 1..f : ids[j] = fwd[j].id
  <2>1. \A i \in 1..f : fwd[i].id \in 1..MaxFrames
    <3>1. \A i \in 1..f : fwd[i] \in Frame  BY <1>1, ElementOfSeq
    <3> QED BY <3>1 DEF Frame
  <2> QED BY <1>1, <2>1
<1>3. \A i \in 1..a : pending[i] = acks[i]  BY DEF IInv, Aligned
<1> HIDE DEF ids
<1>4. CASE Serving
  <2>1. /\ p = a + 1 + f /\ pending[a + 1] = cur
        /\ \A j \in 1..f : pending[a + 1 + j] = fwd[j].id
    BY <1>4 DEF IInv, Aligned
  <2>2. cur \in 1..MaxFrames  BY <1>4, Facts DEF IInv, Statuses
  <2> DEFINE s == Append(acks, cur)
  <2>3. InHand = <<cur>>  BY <1>4, Facts DEF InHand, Serving
  <2>4. /\ s = acks \o <<cur>> /\ s \in Seq(1..MaxFrames) /\ Len(s) = a + 1
        /\ s[a + 1] = cur /\ \A i \in 1..a : s[i] = acks[i]
    BY <1>1, <2>2, AppendIsConcat, AppendProperties
  <2> HIDE DEF s
  <2>5. /\ s \o ids \in Seq(1..MaxFrames) /\ Len(s \o ids) = (a + 1) + f
        /\ \A i \in 1..((a + 1) + f) :
             (s \o ids)[i] = IF i <= a + 1 THEN s[i] ELSE ids[i - (a + 1)]
    <3>1. /\ s \o ids \in Seq(1..MaxFrames) /\ Len(s \o ids) = Len(s) + Len(ids)
          /\ \A i \in 1..(Len(s) + Len(ids)) :
               (s \o ids)[i] = IF i <= Len(s) THEN s[i] ELSE ids[i - Len(s)]
      <4>1. s \in Seq(1..MaxFrames)  BY <2>4
      <4>2. ids \in Seq(1..MaxFrames)  BY <1>2
      <4> HIDE DEF a, f, p
      <4> QED BY <4>1, <4>2, ConcatProperties
    <3> HIDE DEF a, f
    <3> QED BY <1>2, <2>4, <3>1
  <2>6. ASSUME NEW i \in 1..p PROVE pending[i] = (s \o ids)[i]
    <3> HIDE DEF a, f, p
    <3>1. i \in 1..((a + 1) + f)  BY <1>1, <2>1
    <3>2. CASE i <= a
      <4>1. i \in 1..a /\ i <= a + 1  BY <1>1, <2>1, <3>2
      <4> QED BY <1>3, <2>4, <2>5, <3>1, <4>1
    <3>3. CASE i = a + 1
      <4>1. i <= a + 1  BY <1>1, <3>3
      <4> QED BY <2>1, <2>4, <2>5, <3>1, <3>3, <4>1
    <3>4. CASE i > a + 1
      <4>1. i - (a + 1) \in 1..f /\ a + 1 + (i - (a + 1)) = i /\ ~(i <= a + 1)
        BY <1>1, <2>1, <3>4
      <4>2. (s \o ids)[i] = ids[i - (a + 1)]  BY <2>5, <3>1, <4>1
      <4>3. ids[i - (a + 1)] = fwd[i - (a + 1)].id  BY <1>2, <4>1
      <4>4. pending[a + 1 + (i - (a + 1))] = fwd[i - (a + 1)].id  BY <2>1, <4>1
      <4>5. pending[i] = fwd[i - (a + 1)].id  BY <4>1, <4>4
      <4> QED BY <4>2, <4>3, <4>5
    <3>5. i \in Int /\ a \in Int  BY <1>1
    <3>6. i <= a \/ i = a + 1 \/ i > a + 1  BY <3>5
    <3> QED BY <3>2, <3>3, <3>4, <3>6
  <2>7. p = (a + 1) + f  BY <1>1, <2>1
  <2>8. pending = s \o ids  BY <1>1, <2>5, <2>6, <2>7, SeqEqual
  <2> QED BY <2>3, <2>4, <2>8 DEF PendingIsInFlight, ids
<1>5. CASE ~Serving
  <2>1. p = a + f /\ \A j \in 1..f : pending[a + j] = fwd[j].id
    BY <1>5 DEF IInv, Aligned
  <2>2. InHand = <<>>  BY <1>5, Facts DEF InHand, Serving
  <2>3. acks \o <<>> = acks  BY <1>1, ConcatEmptySeq
  <2>5. /\ acks \o ids \in Seq(1..MaxFrames) /\ Len(acks \o ids) = a + f
        /\ \A i \in 1..(a + f) : (acks \o ids)[i] = IF i <= a THEN acks[i] ELSE ids[i - a]
    <3>1. /\ acks \o ids \in Seq(1..MaxFrames) /\ Len(acks \o ids) = a + Len(ids)
          /\ \A i \in 1..(a + Len(ids)) :
               (acks \o ids)[i] = IF i <= a THEN acks[i] ELSE ids[i - a]
      BY <1>1, <1>2, ConcatProperties
    <3> HIDE DEF a, f
    <3> QED BY <1>2, <3>1
  <2>6. ASSUME NEW i \in 1..p PROVE pending[i] = (acks \o ids)[i]
    <3> HIDE DEF a, f, p
    <3>2. CASE i <= a
      <4>1. i \in 1..a /\ i \in 1..(a + f)  BY <1>1, <2>1, <3>2
      <4> QED BY <1>3, <2>5, <3>2, <4>1
    <3>3. CASE i > a
      <4>1. i - a \in 1..f /\ a + (i - a) = i /\ ~(i <= a) /\ i \in 1..(a + f)
        BY <1>1, <2>1, <3>3
      <4>2. (acks \o ids)[i] = ids[i - a]  BY <2>5, <4>1
      <4>3. ids[i - a] = fwd[i - a].id  BY <1>2, <4>1
      <4>4. pending[a + (i - a)] = fwd[i - a].id  BY <2>1, <4>1
      <4>5. pending[i] = fwd[i - a].id  BY <4>1, <4>4
      <4> QED BY <4>2, <4>3, <4>5
    <3>4. i \in Int /\ a \in Int  BY <1>1
    <3>5. i <= a \/ i > a  BY <3>4
    <3> QED BY <3>2, <3>3, <3>5
  <2>8. pending = acks \o ids  BY <1>1, <2>1, <2>5, <2>6, SeqEqual
  <2> QED BY <2>2, <2>3, <2>8 DEF PendingIsInFlight, ids
<1> QED BY <1>4, <1>5

-----------------------------------------------------------------------------
\* Every variable of the acked stream keeps its type, the two levels between zero and
\* the depth of their channel.
THEOREM TypeCorrect == Spec => []TypeOK
<1>1. IInv => TypeOK  BY DEF IInv
<1> QED BY <1>1, Inductive, PTL

\* Pairing by position is right: the pending tokens are the frames in flight, in
\* order, and no harvest ever gave a token another frame's status or found none.
THEOREM PairingIsRight == Spec => []NoMispairing
<1>1. IInv => NoMispairing  BY AlignedIsInFlight DEF IInv, Paired, NoMispairing
<1> QED BY <1>1, Inductive, PTL

\* An ack channel as deep as the frames in flight never drops a status, although the
\* offer looks for room before its transfer time.
THEOREM NoStatusIsDropped == Spec => []NoStatusDropped
<1>1. IInv => NoStatusDropped  BY DEF IInv
<1> QED BY <1>1, Inductive, PTL
=============================================================================
