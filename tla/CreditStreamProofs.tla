-------------------------- MODULE CreditStreamProofs --------------------------
(***************************************************************************)
(* What holds of the credit-managed stream for every depth, reserve,       *)
(* credit granularity, counter width and drain.                            *)
(***************************************************************************)
EXTENDS CreditStream, ArithmeticProofs, SequenceTheorems

\* The registers are the wrapped true counts, and so is each word in flight.
Wires ==
  /\ written = Wrap(sent, Modulus) /\ acked = Wrap(known, Modulus)
  /\ consumed = Wrap(used, Modulus) /\ offered = Wrap(told, Modulus)
  /\ \A i \in 1..Len(credits) : credits[i].val = Wrap(credits[i].total, Modulus)

\* What each side has heard of is behind what the other has done.
Order == known <= told /\ told <= used /\ used <= taken /\ taken <= sent

\* The words of an admitted write count against the room before they are sent.
Room ==
  /\ sent - known <= Depth
  /\ pc = "fwd" => sent + burst - known <= Depth
  /\ pc # "idle" => burst >= 1

\* The forward FIFO holds exactly the words sent and not taken, in order.
Buffered ==
  /\ nrx = sent - taken
  /\ IF fwd = <<>> THEN taken = sent
     ELSE /\ fwd[1].end = taken + fwd[1].n
          /\ fwd[Len(fwd)].end = sent
          /\ \A i \in 1..Len(fwd) : fwd[i].end <= sent
          /\ \A i \in 1..(Len(fwd) - 1) : fwd[i + 1].end = fwd[i].end + fwd[i + 1].n

\* Consecutive credits are at least CrdEvery words apart, counting the one the
\* producer read last (number 0) and the one being offered.
Total(i) == IF i = 0 THEN known ELSE credits[i].total
Slots    == IF cpc = "get" THEN Len(credits) ELSE Len(credits) + 1
Gaps ==
  /\ \A i, j \in 0..Len(credits) : i <= j => Total(j) - Total(i) >= (j - i) * CrdEvery
  /\ \A i \in 0..Len(credits) : told - Total(i) >= (Slots - i) * CrdEvery

\* A reverse FIFO with room for every distinct credit is never found full.
Loss == (CreditDepth + 1) * CrdEvery > Depth => ~full /\ ~dropped

IInv == TypeOK /\ Wires /\ Order /\ Room /\ Buffered /\ Gaps /\ Loss

-----------------------------------------------------------------------------
\* The counter is at least one word wide, and the products below distribute.
LEMMA ModulusPositive == Modulus \in Nat \ {0} /\ Depth \in Nat /\ Depth < Modulus
BY CreditAssumption

LEMMA OneMore ==
  \A a \in Int : a * CrdEvery \in Int /\ (a + 1) * CrdEvery = a * CrdEvery + CrdEvery
BY CreditAssumption

\* What the producer computes as outstanding is the true count it lacks.
LEMMA OutstandingExact == ASSUME IInv PROVE Outstanding = sent - known
<1>1. known <= sent /\ sent - known < Modulus /\ sent \in Nat /\ known \in Nat
  BY ModulusPositive DEF IInv, TypeOK, Order, Room
<1>2. Udiff(Wrap(sent, Modulus), Wrap(known, Modulus), Modulus) = sent - known
  BY <1>1, ModulusPositive, UdiffOfWraps
<1> QED BY <1>2 DEF Outstanding, IInv, Wires

\* The initial state satisfies the invariant.
LEMMA InitIInv == Init => IInv
<1> SUFFICES ASSUME Init PROVE IInv  OBVIOUS
<1> USE DEF Init
<1>1. Wrap(0, Modulus) = 0 /\ 0 \in 0..(Modulus - 1)
  BY ModulusPositive, WrapRange
<1>2. TypeOK
  <2>1. <<>> \in Seq(Burst) /\ <<>> \in Seq(Credit)  BY EmptySeq
  <2>2. fwd \in Seq(Burst) /\ credits \in Seq(Credit)  BY <2>1
  <2>3. 0 \in 0..Depth /\ 0 \in Nat  BY CreditAssumption
  <2> QED BY <1>1, <2>2, <2>3 DEF TypeOK
<1>3. Wires  BY <1>1 DEF Wires
<1>4. Order /\ Room /\ Buffered /\ Loss  BY CreditAssumption DEF Order, Room, Buffered, Loss
<1>5. Gaps  BY CreditAssumption, OneMore DEF Gaps, Total, Slots
<1> QED BY <1>2, <1>3, <1>4, <1>5 DEF IInv

\* Reading m credits: the m-th becomes the one the producer knows, the rest move up.
LEMMA TakeCreditsStep ==
  ASSUME IInv, NEW m \in 1..Len(credits), TakeCredits(m),
         UNCHANGED <<slaveVars, told, used, taken, sent>>
  PROVE  /\ credits' \in Seq(Credit) /\ Len(credits') = Len(credits) - m
         /\ known' = credits[m].total /\ known' \in Nat /\ known <= known' /\ known' <= told
         /\ acked' = Wrap(known', Modulus) /\ acked' \in 0..(Modulus - 1)
         /\ \A i \in 1..Len(credits') : credits'[i] = credits[m + i]
         /\ Gaps'
<1>1. credits \in Seq(Credit) /\ Len(credits) \in Nat /\ \A i \in 1..Len(credits) : credits[i] \in Credit
  BY DEF IInv, TypeOK
<1>2. /\ credits' \in Seq(Credit) /\ Len(credits') = Len(credits) - m
      /\ \A i \in 1..Len(credits') : credits'[i] = credits[m + i]
  <2>1. \A i \in (m + 1)..Len(credits) : credits[i] \in Credit  BY <1>1
  <2>2. /\ SubSeq(credits, m + 1, Len(credits)) \in Seq(Credit)
        /\ Len(SubSeq(credits, m + 1, Len(credits))) = Len(credits) - m
        /\ \A i \in 1..(Len(credits) - m) : SubSeq(credits, m + 1, Len(credits))[i] = credits[(m + 1) + i - 1]
    BY <1>1, <2>1, SubSeqProperties
  <2>3. credits' = SubSeq(credits, m + 1, Len(credits))  BY DEF TakeCredits
  <2>4. credits' \in Seq(Credit) /\ Len(credits') = Len(credits) - m  BY <2>2, <2>3
  <2>5. ASSUME NEW i \in 1..Len(credits') PROVE credits'[i] = credits[m + i]
    <3>1. i \in 1..(Len(credits) - m)  BY <2>4, <2>5
    <3>2. credits'[i] = credits[(m + 1) + i - 1]  BY <3>1, <2>2, <2>3
    <3>3. (m + 1) + i - 1 = m + i  BY <1>1, <2>4, <2>5
    <3> QED BY <3>2, <3>3
  <2> QED BY <2>4, <2>5
<1>3. known' = credits[m].total /\ known' \in Nat /\ acked' = Wrap(known', Modulus) /\ acked' \in 0..(Modulus - 1)
  BY <1>1 DEF IInv, Wires, Credit, TakeCredits
<1>4. /\ \A i \in 0..Len(credits) : Total(i) \in Nat
      /\ Total(0) = known /\ Total(m) = known'
      /\ \A i \in 0..Len(credits') : Total(i)' = Total(i + m)
  <2>1. known \in Nat  BY DEF IInv, TypeOK
  <2>2. \A i \in 1..Len(credits) : credits[i].total \in Nat  BY <1>1 DEF Credit
  <2>3. \A i \in 0..Len(credits) : Total(i) \in Nat  BY <1>1, <2>1, <2>2 DEF Total
  <2>4. Total(0) = known /\ Total(m) = known'  BY <1>3 DEF Total
  <2>5. ASSUME NEW i \in 0..Len(credits') PROVE Total(i)' = Total(i + m)
    <3>1. CASE i = 0  BY <3>1, <2>4 DEF Total
    <3>2. CASE i # 0
      <4>1. i \in 1..Len(credits') /\ i + m # 0 /\ i + m = m + i  BY <1>1, <1>2, <3>2
      <4> QED BY <3>2, <4>1, <1>2 DEF Total
    <3> QED BY <3>1, <3>2
  <2> QED BY <2>3, <2>4, <2>5
<1>5. Slots \in Int /\ Slots' = Slots - m /\ Slots >= Len(credits)
  BY <1>1, <1>2 DEF Slots, slaveVars
<1>6. /\ \A i, j \in 0..Len(credits) : i <= j => Total(j) - Total(i) >= (j - i) * CrdEvery
      /\ \A i \in 0..Len(credits) : told - Total(i) >= (Slots - i) * CrdEvery
  BY DEF IInv, Gaps
<1>7. \A a \in Nat : a * CrdEvery \in Nat  BY CreditAssumption
<1>8. known <= known' /\ known' <= told
  <2>1. known' - known >= (m - 0) * CrdEvery  BY <1>1, <1>4, <1>6
  <2>2. told - known' >= (Slots - m) * CrdEvery  BY <1>1, <1>4, <1>6
  <2>3. m - 0 \in Nat /\ Slots - m \in Nat  BY <1>1, <1>5
  <2>4. (m - 0) * CrdEvery \in Nat /\ (Slots - m) * CrdEvery \in Nat  BY <2>3, <1>7
  <2>5. known \in Int /\ known' \in Int /\ told \in Int  BY <1>3 DEF IInv, TypeOK
  <2>6. \A p \in Nat, a, b \in Int : a - b >= p => b <= a  OBVIOUS
  <2> QED BY <2>1, <2>2, <2>4, <2>5, <2>6
<1>9. Gaps'
  <2>1. ASSUME NEW i \in 0..Len(credits'), NEW j \in 0..Len(credits'), i <= j
        PROVE  Total(j)' - Total(i)' >= (j - i) * CrdEvery
    <3>1. i + m \in 0..Len(credits) /\ j + m \in 0..Len(credits) /\ i + m <= j + m /\ (j + m) - (i + m) = j - i
      BY <1>1, <1>2, <2>1
    <3>2. Total(j + m) - Total(i + m) >= ((j + m) - (i + m)) * CrdEvery  BY <3>1, <1>6
    <3> QED BY <3>1, <3>2, <1>4
  <2>2. ASSUME NEW i \in 0..Len(credits')
        PROVE  told - Total(i)' >= (Slots' - i) * CrdEvery
    <3>1. i + m \in 0..Len(credits) /\ Slots - (i + m) = Slots' - i  BY <1>1, <1>2, <1>5
    <3>2. told - Total(i + m) >= (Slots - (i + m)) * CrdEvery  BY <3>1, <1>6
    <3> QED BY <3>1, <3>2, <1>4
  <2> QED BY <2>1, <2>2 DEF Gaps
<1> QED BY <1>2, <1>3, <1>8, <1>9

\* Parts that an action leaves alone because it leaves their variables alone.
LEMMA SameTotals ==
  ASSUME UNCHANGED <<known, credits, cpc, told>>, Gaps
  PROVE  Gaps'
<1>1. \A i \in 0..Len(credits) : Total(i)' = Total(i)  BY DEF Total
<1>2. Slots' = Slots /\ Len(credits') = Len(credits)  BY DEF Slots
<1> QED BY <1>1, <1>2 DEF Gaps

LEMMA SameBuffer ==
  ASSUME UNCHANGED <<nrx, sent, taken, fwd>>, Buffered
  PROVE  Buffered'
BY DEF Buffered

LEMMA SameWires ==
  ASSUME UNCHANGED <<written, sent, acked, known, consumed, used, offered, told, credits>>, Wires
  PROVE  Wires'
BY DEF Wires

\* An admitted write: its words fit what the producer knows to be free.
LEMMA StartForwardStep ==
  ASSUME IInv, NEW n \in 1..Depth, pc = "idle", n <= Depth - Outstanding, StartForward(n)
  PROVE  IInv'
<1> USE DEF StartForward, historyVars, slaveVars
<1>1. TypeOK'  BY ModulusPositive DEF IInv, TypeOK
<1>2. Wires' /\ Gaps' /\ Buffered'  BY SameWires, SameTotals, SameBuffer DEF IInv
<1>3. Order' /\ Loss'  BY DEF IInv, Order, Loss
<1>4. Room'
  <2>1. sent + n - known <= Depth  BY OutstandingExact, ModulusPositive DEF IInv, TypeOK
  <2>2. sent - known <= Depth  BY DEF IInv, Room
  <2>3. n >= 1 /\ pc' = "fwd" /\ burst' = n /\ sent' = sent /\ known' = known  OBVIOUS
  <2> QED BY <2>1, <2>2, <2>3 DEF Room
<1> QED BY <1>1, <1>2, <1>3, <1>4 DEF IInv

LEMMA WriteNbStep == ASSUME IInv, NEW n \in 1..Depth, WriteNb(n) PROVE IInv'
<1>1. n <= Depth - Outstanding
  BY OutstandingExact, CreditAssumption DEF WriteNb, Avail, IInv, TypeOK
<1> QED BY <1>1, StartForwardStep DEF WriteNb

LEMMA WriteStep == ASSUME IInv, NEW n \in 1..Depth, Write(n) PROVE IInv'
<1>1. CASE n <= Avail /\ StartForward(n)
  <2>1. n <= Depth - Outstanding
    BY <1>1, OutstandingExact, CreditAssumption DEF Avail, IInv, TypeOK
  <2> QED BY <1>1, <2>1, StartForwardStep DEF Write
<1>2. CASE pc' = "wait" /\ burst' = n
           /\ UNCHANGED <<written, acked, respNoRoom, slaveVars, fwd, nrx, credits, dropped, historyVars>>
  <2> USE <1>2 DEF historyVars, slaveVars
  <2>1. TypeOK'  BY ModulusPositive DEF IInv, TypeOK
  <2>2. Wires' /\ Gaps' /\ Buffered'  BY SameWires, SameTotals, SameBuffer DEF IInv
  <2>3. Order' /\ Loss'  BY DEF IInv, Order, Loss
  <2>4. Room'  BY ModulusPositive DEF IInv, TypeOK, Room, Write
  <2> QED BY <2>1, <2>2, <2>3, <2>4 DEF IInv
<1> QED BY <1>1, <1>2 DEF Write

LEMMA WriteRespStep == ASSUME IInv, NEW n \in 1..Depth, WriteResp(n) PROVE IInv'
<1>1. CASE Depth - Outstanding >= n /\ StartForward(n)
  <2>1. n <= Depth - Outstanding
    BY <1>1, OutstandingExact, CreditAssumption DEF IInv, TypeOK
  <2> QED BY <1>1, <2>1, StartForwardStep DEF WriteResp
<1>2. CASE respNoRoom' = TRUE
           /\ UNCHANGED <<pc, burst, written, acked, slaveVars, fwd, nrx, credits, dropped, historyVars>>
  <2> USE <1>2 DEF historyVars, slaveVars
  <2>1. TypeOK'  BY DEF IInv, TypeOK
  <2>2. Wires' /\ Gaps' /\ Buffered'  BY SameWires, SameTotals, SameBuffer DEF IInv
  <2>3. Order' /\ Loss' /\ Room'  BY DEF IInv, Order, Loss, Room
  <2> QED BY <2>1, <2>2, <2>3 DEF IInv
<1> QED BY <1>1, <1>2 DEF WriteResp

\* Polling raises what the producer knows, so the room it counts only grows.
LEMMA PollCreditStep == ASSUME IInv, NEW n \in 1..(CreditDrain + 1), PollCredit(n) PROVE IInv'
<1> DEFINE m == Least(n, Len(credits))
<1>1. m \in 1..Len(credits)
  BY EmptySeq, CreditAssumption DEF PollCredit, Least, IInv, TypeOK
<1>2. TakeCredits(m)  BY DEF PollCredit
<1> HIDE DEF m
<1> USE DEF slaveVars
<1>3. UNCHANGED <<slaveVars, told, used, taken, sent, nrx, fwd, written, pc, burst, respNoRoom, dropped>>
  BY DEF PollCredit
<1>4. /\ credits' \in Seq(Credit) /\ Len(credits') = Len(credits) - m
      /\ known' = credits[m].total /\ known' \in Nat /\ known <= known' /\ known' <= told
      /\ acked' = Wrap(known', Modulus) /\ acked' \in 0..(Modulus - 1)
      /\ \A i \in 1..Len(credits') : credits'[i] = credits[m + i]
      /\ Gaps'
  BY <1>1, <1>2, <1>3, TakeCreditsStep
<1>5. TypeOK'  BY <1>3, <1>4 DEF IInv, TypeOK
<1>6. Wires'
  <2>1. Len(credits) \in Nat /\ Len(credits') \in Nat  BY <1>4, LenProperties DEF IInv, TypeOK
  <2>2. \A i \in 1..Len(credits') : m + i \in 1..Len(credits)  BY <1>1, <1>4, <2>1
  <2>3. \A i \in 1..Len(credits') : credits'[i].val = Wrap(credits'[i].total, Modulus)
    BY <1>4, <2>2 DEF IInv, Wires
  <2> QED BY <1>3, <1>4, <2>3 DEF IInv, Wires
<1>7. Order'  BY <1>3, <1>4 DEF IInv, Order
<1>8. Room'
  <2>1. burst \in Nat /\ sent \in Nat /\ known \in Nat  BY DEF IInv, TypeOK
  <2>2. sent' = sent /\ pc' = pc /\ burst' = burst /\ known' \in Nat /\ known <= known'
    BY <1>3, <1>4
  <2>3. Depth \in Nat  BY ModulusPositive
  <2>4. \A a, b, c \in Nat : a - b <= Depth /\ b <= c => a - c <= Depth  BY <2>3
  <2>5. sent - known' <= Depth  BY <2>1, <2>2, <2>4 DEF IInv, Room
  <2>6. pc = "fwd" => sent + burst - known' <= Depth
    <3> SUFFICES ASSUME pc = "fwd" PROVE sent + burst - known' <= Depth  OBVIOUS
    <3>1. sent + burst - known <= Depth  BY DEF IInv, Room
    <3>2. PICK k \in Nat : k = known' /\ known <= k  BY <2>2
    <3>3. k \in Nat /\ known <= k  BY <3>2
    <3>4. sent + burst - k <= Depth  BY <2>1, <2>3, <3>1, <3>3
    <3> QED BY <3>2, <3>4
  <2> QED BY <2>2, <2>5, <2>6 DEF IInv, Room
<1>9. Buffered' /\ Loss'  BY <1>3, SameBuffer DEF IInv, Loss
<1> QED BY <1>4, <1>5, <1>6, <1>7, <1>8, <1>9 DEF IInv

\* The wait ends only in a write whose words fit the room of the new credit.
LEMMA WakeOnCreditStep == ASSUME IInv, WakeOnCredit PROVE IInv'
<1> DEFINE m == Least(1 + CreditDrain, Len(credits))
<1>1. m \in 1..Len(credits)
  BY EmptySeq, CreditAssumption DEF WakeOnCredit, Least, IInv, TypeOK
<1>2. TakeCredits(m)  BY DEF WakeOnCredit
<1> HIDE DEF m
<1> USE DEF slaveVars
<1>3. /\ UNCHANGED <<slaveVars, told, used, taken, sent, nrx, fwd, written, burst, respNoRoom, dropped>>
      /\ pc = "wait" /\ pc' \in {"fwd", "wait"}
      /\ pc' = "fwd" => burst <= Depth - RespWords - Udiff(written, acked', Modulus)
  BY DEF WakeOnCredit
<1>4. /\ credits' \in Seq(Credit) /\ Len(credits') = Len(credits) - m
      /\ known' = credits[m].total /\ known' \in Nat /\ known <= known' /\ known' <= told
      /\ acked' = Wrap(known', Modulus) /\ acked' \in 0..(Modulus - 1)
      /\ \A i \in 1..Len(credits') : credits'[i] = credits[m + i]
      /\ Gaps'
  BY <1>1, <1>2, <1>3, TakeCreditsStep
<1>5. TypeOK'  BY <1>3, <1>4 DEF IInv, TypeOK
<1>6. Wires'
  <2>1. Len(credits) \in Nat /\ Len(credits') \in Nat  BY <1>4, LenProperties DEF IInv, TypeOK
  <2>2. \A i \in 1..Len(credits') : m + i \in 1..Len(credits)  BY <1>1, <1>4, <2>1
  <2>3. \A i \in 1..Len(credits') : credits'[i].val = Wrap(credits'[i].total, Modulus)
    BY <1>4, <2>2 DEF IInv, Wires
  <2> QED BY <1>3, <1>4, <2>3 DEF IInv, Wires
<1>7. Order'  BY <1>3, <1>4 DEF IInv, Order
<1>8. Room'
  <2>1. burst \in Nat /\ sent \in Nat /\ known \in Nat /\ taken \in Nat /\ used \in Nat /\ told \in Nat
    BY DEF IInv, TypeOK
  <2>a. /\ sent' = sent /\ burst' = burst /\ known' \in Nat /\ known <= known' /\ known' <= told
        /\ pc = "wait" /\ pc' \in {"fwd", "wait"}
    BY <1>3, <1>4
  <2>2. known' <= sent /\ sent - known' <= Depth /\ sent - known' < Modulus
    <3>1. known' <= sent  BY <2>1, <2>a DEF IInv, Order
    <3>2. sent - known <= Depth  BY <2>1, <2>a DEF IInv, Room
    <3>3. Depth \in Nat /\ Modulus \in Nat /\ Depth < Modulus  BY ModulusPositive
    <3>4. \A a, b, c \in Nat : a - b <= Depth /\ b <= c => a - c <= Depth /\ a - c < Modulus
      BY <3>3
    <3>5. sent \in Nat /\ known \in Nat /\ known' \in Nat /\ known <= known'  BY <2>1, <2>a
    <3> QED BY <3>1, <3>2, <3>4, <3>5
  <2>3. Udiff(written, acked', Modulus) = sent - known'
    <3>1. Udiff(Wrap(sent, Modulus), Wrap(known', Modulus), Modulus) = sent - known'
      BY <2>a, <2>1, <2>2, ModulusPositive, UdiffOfWraps
    <3> QED BY <3>1, <1>4 DEF IInv, Wires
  <2>4. pc' = "fwd" => burst <= Depth - RespWords - (sent - known')  BY <1>3, <2>3
  <2>5. pc' = "fwd" => sent' + burst' - known' <= Depth
    <3>1. Depth \in Nat /\ RespWords \in Nat  BY CreditAssumption
    <3>2. \A a, b, c \in Nat : b <= Depth - RespWords - (a - c) => a + b - c <= Depth
      BY <3>1
    <3>3. sent \in Nat /\ burst \in Nat /\ known' \in Nat /\ sent' = sent /\ burst' = burst  BY <2>1, <2>a
    <3> QED BY <2>4, <3>2, <3>3
  <2>6. burst' >= 1  BY <2>a DEF IInv, Room
  <2> QED BY <2>1, <2>a, <2>2, <2>5, <2>6 DEF Room
<1>9. Buffered' /\ Loss'  BY <1>3, SameBuffer DEF IInv, Loss
<1> QED BY <1>4, <1>5, <1>6, <1>7, <1>8, <1>9 DEF IInv

\* The burst joins the FIFO at its tail and its words move from the write to sent.
LEMMA ForwardDoneStep == ASSUME IInv, ForwardDone PROVE IInv'
<1> USE DEF ForwardDone, slaveVars
<1>1. /\ sent \in Nat /\ taken \in Nat /\ nrx \in Nat /\ known \in Nat /\ fwd \in Seq(Burst)
      /\ burst \in 1..Depth /\ Depth \in Nat
  BY ModulusPositive DEF IInv, TypeOK, Room
<1> DEFINE e == [n |-> burst, end |-> sent + burst]
<1>2. e \in Burst  BY <1>1 DEF Burst
<1>3. /\ fwd' \in Seq(Burst) /\ fwd' # <<>> /\ Len(fwd') = Len(fwd) + 1
      /\ \A i \in 1..Len(fwd) : fwd'[i] = fwd[i]
      /\ fwd'[Len(fwd) + 1] = e
  BY <1>1, <1>2, AppendProperties
<1>4. written' = Wrap(sent', Modulus) /\ written' \in 0..(Modulus - 1)
  <2>1. Wrap(Wrap(sent, Modulus) + burst, Modulus) = Wrap(sent + burst, Modulus)
    BY <1>1, ModulusPositive, WrapOfWrap
  <2>2. Wrap(sent + burst, Modulus) \in 0..(Modulus - 1)
    <3>1. sent + burst \in Nat  BY <1>1
    <3> QED BY <3>1, ModulusPositive, WrapRange
  <2> QED BY <2>1, <2>2 DEF IInv, Wires
<1>5. TypeOK'
  <2>1. nrx + burst \in Nat /\ sent + burst \in Nat  BY <1>1
  <2> QED BY <1>1, <1>3, <1>4, <2>1 DEF IInv, TypeOK
<1>6. Wires'  BY <1>4 DEF IInv, Wires
<1>7. Gaps' /\ Loss'  BY SameTotals DEF IInv, Loss
<1>8. Order'  BY <1>1 DEF IInv, Order
<1>9. Room'  BY <1>1 DEF IInv, Room
<1>10. Buffered'
  <2> HIDE DEF e
  <2>0. e.n = burst /\ e.end = sent + burst /\ sent' = sent + burst  BY DEF e
  <2>1. nrx' = sent' - taken'  BY <1>1 DEF IInv, Buffered
  <2>2. Len(fwd) \in Nat  BY <1>1, LenProperties
  <2>3. CASE fwd = <<>>
    <3>1. Len(fwd) = 0 /\ taken = sent  BY <2>3 DEF IInv, Buffered
    <3>2. Len(fwd') = 1 /\ fwd'[1] = e  BY <1>3, <3>1
    <3>3. taken' = taken  OBVIOUS
    <3> QED BY <1>1, <1>3, <2>0, <2>1, <3>1, <3>2, <3>3 DEF Buffered
  <2>4. CASE fwd # <<>>
    <3>1. Len(fwd) >= 1  BY <2>2, <2>4, <1>1, EmptySeq
    <3>a. \A i \in 1..Len(fwd) : fwd[i] \in Burst  BY <1>1, ElementOfSeq
    <3>b. \A i \in 1..Len(fwd) : fwd[i].end \in Nat  BY <3>a DEF Burst
    <3>c. /\ fwd[1].end = taken + fwd[1].n /\ fwd[Len(fwd)].end = sent
          /\ \A i \in 1..Len(fwd) : fwd[i].end <= sent
          /\ \A i \in 1..(Len(fwd) - 1) : fwd[i + 1].end = fwd[i].end + fwd[i + 1].n
      BY <2>4 DEF IInv, Buffered
    <3>2. /\ fwd[1].end = taken + fwd[1].n /\ fwd[Len(fwd)].end = sent
          /\ \A i \in 1..Len(fwd) : fwd[i].end <= sent /\ fwd[i].end \in Nat
          /\ \A i \in 1..(Len(fwd) - 1) : fwd[i + 1].end = fwd[i].end + fwd[i + 1].n
      BY <3>b, <3>c
    <3>3. fwd'[1].end = taken' + fwd'[1].n  BY <3>1, <3>2, <1>3, <2>2
    <3>4. fwd'[Len(fwd')].end = sent'  BY <1>3, <2>0
    <3>5. ASSUME NEW i \in 1..Len(fwd') PROVE fwd'[i].end <= sent'
      <4>1. CASE i = Len(fwd) + 1  BY <4>1, <1>1, <1>3, <2>0
      <4>2. CASE i \in 1..Len(fwd)
        <5>1. fwd[i].end <= sent /\ fwd[i].end \in Nat  BY <4>2, <3>2
        <5> QED BY <4>2, <5>1, <1>1, <1>3, <2>0
      <4> QED BY <4>1, <4>2, <1>3, <2>2
    <3>6. ASSUME NEW i \in 1..(Len(fwd') - 1) PROVE fwd'[i + 1].end = fwd'[i].end + fwd'[i + 1].n
      <4>1. CASE i = Len(fwd)  BY <4>1, <1>3, <2>0, <2>2, <3>1, <3>2
      <4>2. CASE i \in 1..(Len(fwd) - 1)
        <5>1. i \in 1..Len(fwd) /\ i + 1 \in 1..Len(fwd)  BY <4>2, <2>2
        <5> QED BY <4>2, <5>1, <3>2, <1>3
      <4> QED BY <4>1, <4>2, <1>3, <2>2
    <3> QED BY <1>3, <2>1, <3>3, <3>4, <3>5, <3>6 DEF Buffered
  <2> QED BY <2>3, <2>4
<1> QED BY <1>5, <1>6, <1>7, <1>8, <1>9, <1>10 DEF IInv

\* The consumer takes the burst at the head; if that makes CrdEvery words it has
\* not offered, the credit it starts to offer lies a full step past the last one.
LEMMA GetStep == ASSUME IInv, NEW k \in 1..Depth, Get(k) PROVE IInv'
<1>1. /\ sent \in Nat /\ taken \in Nat /\ used \in Nat /\ told \in Nat /\ known \in Nat /\ nrx \in Nat
      /\ fwd \in Seq(Burst) /\ Depth \in Nat /\ CrdEvery \in Nat
  BY ModulusPositive, CreditAssumption DEF IInv, TypeOK
<1>2. /\ cpc = "get" /\ fwd # <<>> /\ k <= Head(fwd).n
      /\ fwd' = Tail(fwd) /\ nrx' = nrx - Head(fwd).n /\ taken' = Head(fwd).end
      /\ consumed' = Wrap(consumed + k, Modulus) /\ used' = used + k
      /\ UNCHANGED <<masterVars, full, credits, dropped, sent, known>>
  BY DEF Get
<1>3. \/ /\ Udiff(consumed', offered, Modulus) >= CrdEvery
         /\ offered' = consumed' /\ told' = used' /\ cpc' = "settle"
      \/ UNCHANGED <<offered, told, cpc>>
  BY DEF Get
<1>4. /\ Len(fwd) \in Nat /\ Len(fwd) >= 1 /\ fwd[1] \in Burst /\ Head(fwd) = fwd[1]
      /\ Tail(fwd) \in Seq(Burst) /\ Len(Tail(fwd)) = Len(fwd) - 1
      /\ \A i \in 1..(Len(fwd) - 1) : Tail(fwd)[i] = fwd[i + 1]
  <2>1. Len(fwd) \in Nat /\ Len(fwd) >= 1  BY <1>1, <1>2, EmptySeq
  <2> QED BY <1>1, <1>2, <2>1, HeadTailProperties, ElementOfSeq
<1>5. PICK n \in 1..Depth, t \in Nat :
         /\ n = fwd[1].n /\ t = fwd[1].end /\ t = taken + n /\ t <= sent /\ k <= n
  <2>1. fwd[1].n \in 1..Depth /\ fwd[1].end \in Nat  BY <1>4 DEF Burst
  <2>2. fwd[1].end = taken + fwd[1].n /\ fwd[1].end <= sent
    BY <1>2, <1>4 DEF IInv, Buffered
  <2>3. k <= fwd[1].n  BY <1>2, <1>4
  <2> QED BY <2>1, <2>2, <2>3
<1>6. /\ taken' = t /\ nrx' = nrx - n /\ nrx = sent - taken /\ nrx' = sent - t
  <2>1. taken' = t /\ nrx' = nrx - n  BY <1>2, <1>4, <1>5
  <2>2. nrx = sent - taken  BY DEF IInv, Buffered
  <2>3. nrx - n = sent - t  BY SMTT(20), <1>1, <1>5, <2>2
  <2> QED BY <2>1, <2>2, <2>3
<1>7. consumed' = Wrap(used + k, Modulus) /\ consumed' \in 0..(Modulus - 1) /\ used + k \in Nat
  <2>1. Wrap(Wrap(used, Modulus) + k, Modulus) = Wrap(used + k, Modulus)
    BY <1>1, ModulusPositive, WrapOfWrap
  <2>2. used + k \in Nat  BY <1>1
  <2>3. Wrap(used + k, Modulus) \in 0..(Modulus - 1)  BY <2>2, ModulusPositive, WrapRange
  <2> QED BY <1>2, <2>1, <2>2, <2>3 DEF IInv, Wires
<1>8. told <= used + k /\ used + k <= t /\ t <= sent /\ known <= told /\ used + k - told < Modulus
  <2>1. told <= used /\ used <= taken /\ known <= told /\ sent - known <= Depth
    BY DEF IInv, Order, Room
  <2> QED BY SMTT(20), <1>1, <1>5, <2>1, ModulusPositive
<1>9. offered' = Wrap(told', Modulus) /\ offered' \in 0..(Modulus - 1)
      /\ told' \in {told, used + k} /\ told' \in Nat
  BY <1>1, <1>2, <1>3, <1>7 DEF IInv, Wires, TypeOK
<1>10. cpc' \in {"get", "settle"} /\ (cpc' = "get" => told' = told) /\ (cpc' # "get" => told' = used + k /\ used + k - told >= CrdEvery)
  <2>1. Udiff(Wrap(used + k, Modulus), Wrap(told, Modulus), Modulus) = used + k - told
    BY <1>1, <1>7, <1>8, ModulusPositive, UdiffOfWraps
  <2>2. Udiff(consumed', offered, Modulus) = used + k - told  BY <2>1, <1>7 DEF IInv, Wires
  <2> QED BY <1>2, <1>3, <2>2
<1>11. TypeOK'
  <2>1. t \in Nat /\ sent - t \in Nat  BY SMTT(20), <1>1, <1>5
  <2>2. nrx' \in Nat /\ taken' \in Nat /\ used' \in Nat  BY <1>2, <1>6, <1>7, <2>1
  <2> QED BY <1>2, <1>4, <1>7, <1>9, <1>10, <2>2 DEF IInv, TypeOK, masterVars
<1>12. Wires'  BY <1>2, <1>7, <1>9 DEF IInv, Wires, masterVars
<1>13. Order'
  <2>1. known <= told' /\ told' <= used + k  BY <1>1, <1>8, <1>9
  <2> QED BY <2>1, <1>2, <1>6, <1>8 DEF Order
<1>14. Room' /\ Loss'  BY <1>2 DEF IInv, Room, Loss, masterVars
<1>15. Gaps'
  <2>0. credits \in Seq(Credit) /\ Len(credits) \in Nat /\ credits' = credits /\ known' = known
    BY <1>2, LenProperties DEF IInv, TypeOK
  <2>1. \A i \in 0..Len(credits) : Total(i)' = Total(i) /\ Total(i) \in Nat
    <3>1. \A i \in 1..Len(credits) : credits[i].total \in Nat
      <4>1. \A i \in 1..Len(credits) : credits[i] \in Credit  BY <2>0, ElementOfSeq
      <4> QED BY <4>1 DEF Credit
    <3> QED BY <2>0, <1>1, <3>1 DEF Total
  <2>2. /\ \A i, j \in 0..Len(credits) : i <= j => Total(j) - Total(i) >= (j - i) * CrdEvery
        /\ \A i \in 0..Len(credits) : told - Total(i) >= (Len(credits) - i) * CrdEvery
    BY <1>2 DEF IInv, Gaps, Slots
  <2>3. ASSUME NEW i \in 0..Len(credits) PROVE told' - Total(i) >= (Slots' - i) * CrdEvery
    <3>1. CASE cpc' = "get"
      <4>1. Slots' = Len(credits) /\ told' = told  BY <2>0, <3>1, <1>10 DEF Slots
      <4> QED BY <4>1, <2>2
    <3>2. CASE cpc' # "get"
      <4>1. Slots' = Len(credits) + 1 /\ told' = used + k /\ used + k - told >= CrdEvery
        BY <2>0, <3>2, <1>10 DEF Slots
      <4>2. told - Total(i) >= (Len(credits) - i) * CrdEvery  BY <2>2
      <4>3. PICK a \in Int : a = Len(credits) - i  BY <2>0
      <4>4. a * CrdEvery \in Int /\ (a + 1) * CrdEvery = a * CrdEvery + CrdEvery  BY OneMore
      <4>5. PICK p \in Int : p = a * CrdEvery  BY <4>4
      <4>6. (used + k) - Total(i) >= p + CrdEvery
        BY SMTT(20), <1>1, <1>7, <2>1, <4>1, <4>2, <4>3, <4>5
      <4>7. Slots' - i = a + 1  BY <4>1, <4>3, <2>0
      <4>8. PICK x \in Int : x = told' /\ x = used + k  BY <1>7, <4>1
      <4>9. x - Total(i) >= p + CrdEvery
        <5>1. x = used + k  BY <4>8
        <5> QED BY <5>1, <4>6
      <4>10. (Slots' - i) * CrdEvery = p + CrdEvery  BY <4>4, <4>5, <4>7
      <4>11. told' = x  BY <4>8
      <4> QED BY <4>9, <4>10, <4>11
    <3> QED BY <3>1, <3>2
  <2> QED BY <2>0, <2>1, <2>2, <2>3 DEF Gaps
<1>16. Buffered'
  <2>1. nrx' = sent' - taken'  BY <1>2, <1>6
  <2>2. CASE Len(fwd) = 1
    <3>1. fwd' = <<>>  BY <1>2, <1>4, <2>2, EmptySeq
    <3>2. taken' = sent'  BY <1>2, <1>5, <1>6, <2>2 DEF IInv, Buffered
    <3> QED BY <2>1, <3>1, <3>2 DEF Buffered
  <2>3. CASE Len(fwd) > 1
    <3>1. /\ fwd[Len(fwd)].end = sent /\ \A i \in 1..Len(fwd) : fwd[i].end <= sent
          /\ \A i \in 1..(Len(fwd) - 1) : fwd[i + 1].end = fwd[i].end + fwd[i + 1].n
      BY <1>2 DEF IInv, Buffered
    <3>2. fwd' # <<>> /\ Len(fwd') = Len(fwd) - 1 /\ \A i \in 1..Len(fwd') : fwd'[i] = fwd[i + 1]
      <4>1. Len(fwd') = Len(fwd) - 1 /\ \A i \in 1..(Len(fwd) - 1) : fwd'[i] = fwd[i + 1]
        BY <1>2, <1>4
      <4>2. Len(fwd') # 0  BY <4>1, <1>4, <2>3
      <4> QED BY <4>1, <4>2, EmptySeq
    <3>3. fwd'[1].end = taken' + fwd'[1].n
      <4>1. 1 \in 1..(Len(fwd) - 1) /\ 1 \in 1..Len(fwd')  BY <1>4, <2>3, <3>2
      <4>2. fwd'[1] = fwd[2] /\ fwd[2].end = fwd[1].end + fwd[2].n  BY <4>1, <3>1, <3>2
      <4> QED BY <4>2, <1>5, <1>6
    <3>4. fwd'[Len(fwd')].end = sent'  BY <1>2, <1>4, <2>3, <3>1, <3>2
    <3>5. \A i \in 1..Len(fwd') : fwd'[i].end <= sent'  BY <1>2, <1>4, <3>1, <3>2
    <3>6. \A i \in 1..(Len(fwd') - 1) : fwd'[i + 1].end = fwd'[i].end + fwd'[i + 1].n
      BY <1>4, <3>1, <3>2
    <3> QED BY <2>1, <3>2, <3>3, <3>4, <3>5, <3>6 DEF Buffered
  <2> QED BY <1>4, <2>2, <2>3
<1> QED BY <1>11, <1>12, <1>13, <1>14, <1>15, <1>16 DEF IInv

\* The look reads the level as it is when the offer begins: under the sizing
\* condition a credit on its way has room, for the gaps would not fit Depth.
LEMMA OfferLooksStep == ASSUME IInv, OfferLooks PROVE IInv'
<1> USE DEF OfferLooks, masterVars, historyVars
<1>1. TypeOK'  BY DEF IInv, TypeOK
<1>2. Wires' /\ Buffered'  BY SameWires, SameBuffer DEF IInv
<1>3. Order' /\ Room'  BY DEF IInv, Order, Room
<1>4. Gaps'
  <2>1. Slots' = Slots /\ \A i \in 0..Len(credits) : Total(i)' = Total(i)  BY DEF Slots, Total
  <2> QED BY <2>1 DEF IInv, Gaps
<1>5. Loss'
  <2> SUFFICES ASSUME (CreditDepth + 1) * CrdEvery > Depth
               PROVE  ~(Len(credits) >= CreditDepth) /\ ~dropped
    BY DEF Loss
  <2>1. ~dropped  BY DEF IInv, Loss
  <2>2. ASSUME Len(credits) >= CreditDepth PROVE FALSE
    <3>1. Len(credits) \in Nat  BY LenProperties DEF IInv, TypeOK
    <3>2. told - known >= ((Len(credits) + 1) - 0) * CrdEvery
      BY <3>1 DEF IInv, Gaps, Slots, Total
    <3>3. told - known <= Depth /\ told - known \in Int
      BY ModulusPositive DEF IInv, TypeOK, Order, Room
    <3>4. PICK L \in Nat, d \in Int :
             L = Len(credits) /\ d = told - known /\ d <= Depth /\ L >= CreditDepth
      BY <3>1, <3>3, <2>2
    <3>5. d >= (L + 1) * CrdEvery  BY <3>2, <3>4
    <3>6. \A a, b \in Nat : a <= b => a * CrdEvery <= b * CrdEvery  BY CreditAssumption
    <3>7. CreditDepth + 1 \in Nat /\ L + 1 \in Nat /\ CreditDepth + 1 <= L + 1
      BY <3>4, CreditAssumption
    <3>8. (CreditDepth + 1) * CrdEvery <= (L + 1) * CrdEvery  BY <3>6, <3>7
    <3>9. (CreditDepth + 1) * CrdEvery \in Int /\ (L + 1) * CrdEvery \in Int
      BY <3>7, CreditAssumption
    <3> QED BY <3>4, <3>5, <3>8, <3>9, ModulusPositive
  <2> QED BY <2>1, <2>2
<1> QED BY <1>1, <1>2, <1>3, <1>4, <1>5 DEF IInv

\* The offered total takes the next place in the reverse FIFO, or is lost.
LEMMA OfferEndsStep == ASSUME IInv, OfferEnds PROVE IInv'
<1>1. /\ cpc = "xfer" /\ cpc' = "get" /\ full' = FALSE
      /\ UNCHANGED <<masterVars, consumed, offered, fwd, nrx, historyVars>>
  BY DEF OfferEnds
<1>2. \/ full /\ dropped' = TRUE /\ UNCHANGED credits
      \/ ~full /\ credits' = Append(credits, [val |-> offered, total |-> told]) /\ UNCHANGED dropped
  BY DEF OfferEnds
<1>3. credits \in Seq(Credit) /\ Len(credits) \in Nat /\ \A i \in 1..Len(credits) : credits[i] \in Credit
  BY LenProperties, ElementOfSeq DEF IInv, TypeOK
<1>4. /\ Order' /\ Room' /\ Buffered' /\ Loss'
  BY <1>1, <1>2, SameBuffer DEF IInv, Order, Room, Loss, masterVars, historyVars
<1>5. CASE UNCHANGED credits
  <2>1. TypeOK' /\ Wires'
    BY <1>1, <1>2, <1>5 DEF IInv, TypeOK, Wires, masterVars, historyVars
  <2>2. Gaps'
    <3>1. \A i \in 0..Len(credits) : Total(i)' = Total(i) /\ Total(i) \in Nat
      BY <1>1, <1>3, <1>5 DEF Total, historyVars, IInv, TypeOK, Credit
    <3>2. told' = told /\ told \in Nat /\ Slots = Len(credits) + 1 /\ Slots' = Len(credits)
      BY <1>1, <1>5 DEF historyVars, Slots, IInv, TypeOK
    <3>3. ASSUME NEW i \in 0..Len(credits) PROVE told - Total(i) >= (Len(credits) - i) * CrdEvery
      <4>1. told - Total(i) >= ((Len(credits) + 1) - i) * CrdEvery  BY <3>2 DEF IInv, Gaps
      <4>2. PICK a \in Int : a = Len(credits) - i  BY <1>3
      <4>3. (Len(credits) + 1) - i = a + 1  BY <4>2, <1>3
      <4>4. a * CrdEvery \in Int /\ (a + 1) * CrdEvery = a * CrdEvery + CrdEvery  BY OneMore
      <4>5. PICK p \in Int, x \in Int : p = a * CrdEvery /\ x = told - Total(i)
        BY <4>4, <3>1, <3>2
      <4>6. x >= p + CrdEvery  BY <4>1, <4>3, <4>4, <4>5
      <4>7. x >= p  BY <4>5, <4>6, CreditAssumption
      <4> QED BY <4>2, <4>5, <4>7
    <3> QED BY <1>5, <3>1, <3>2, <3>3 DEF IInv, Gaps
  <2> QED BY <1>4, <2>1, <2>2 DEF IInv
<1>6. CASE credits' = Append(credits, [val |-> offered, total |-> told]) /\ UNCHANGED dropped
  <2> DEFINE e == [val |-> offered, total |-> told]
  <2>1. e \in Credit  BY DEF Credit, IInv, TypeOK
  <2>2. /\ credits' \in Seq(Credit) /\ Len(credits') = Len(credits) + 1
        /\ \A i \in 1..Len(credits) : credits'[i] = credits[i]
        /\ credits'[Len(credits) + 1] = e
    BY <1>3, <1>6, <2>1, AppendProperties
  <2>3. e.val = Wrap(told, Modulus) /\ e.total = told  BY DEF IInv, Wires
  <2> HIDE DEF e
  <2>4. TypeOK'  BY <1>1, <1>6, <2>2 DEF IInv, TypeOK, masterVars, historyVars
  <2>5. Wires'
    <3>1. ASSUME NEW i \in 1..Len(credits') PROVE credits'[i].val = Wrap(credits'[i].total, Modulus)
      <4>1. CASE i \in 1..Len(credits)  BY <4>1, <2>2 DEF IInv, Wires
      <4>2. CASE i = Len(credits) + 1  BY <4>2, <2>2, <2>3
      <4> QED BY <4>1, <4>2, <2>2, <1>3
    <3> QED BY <1>1, <3>1 DEF IInv, Wires, masterVars, historyVars
  <2>6. Gaps'
    <3>0. PICK L \in Nat : L = Len(credits)  BY <1>3
    <3>1. \A i \in 0..Len(credits) : Total(i)' = Total(i)  BY <1>1, <1>3, <2>2 DEF Total, historyVars
    <3>2. Total(L + 1)' = told  BY <3>0, <2>2, <2>3 DEF Total
    <3>3. /\ told' = told /\ told \in Nat /\ Slots = Len(credits) + 1 /\ Slots' = Len(credits) + 1
      BY <1>1, <2>2 DEF historyVars, Slots, IInv, TypeOK
    <3>4. /\ \A i, j \in 0..Len(credits) : i <= j => Total(j) - Total(i) >= (j - i) * CrdEvery
          /\ \A i \in 0..Len(credits) : told - Total(i) >= ((Len(credits) + 1) - i) * CrdEvery
      BY <3>3 DEF IInv, Gaps
    <3>5. told - told >= ((Len(credits) + 1) - (Len(credits) + 1)) * CrdEvery
      <4>1. (Len(credits) + 1) - (Len(credits) + 1) = 0 /\ told - told = 0  BY <1>3, <3>3
      <4>2. 0 * CrdEvery = 0  BY CreditAssumption
      <4> QED BY <4>1, <4>2
    <3>6. ASSUME NEW i \in 0..Len(credits'), NEW j \in 0..Len(credits'), i <= j
          PROVE  Total(j)' - Total(i)' >= (j - i) * CrdEvery
      <4>1. CASE j \in 0..Len(credits)
        <5>1. i \in 0..Len(credits)  BY <4>1, <3>6, <2>2, <1>3
        <5> QED BY <4>1, <5>1, <3>6, <3>1, <3>4
      <4>2. CASE j = Len(credits) + 1 /\ i \in 0..Len(credits)  BY <4>2, <3>0, <3>1, <3>2, <3>4
      <4>3. CASE j = Len(credits) + 1 /\ i = Len(credits) + 1  BY <4>3, <3>0, <3>2, <3>5
      <4> QED BY <4>1, <4>2, <4>3, <2>2, <1>3
    <3>7. ASSUME NEW i \in 0..Len(credits') PROVE told' - Total(i)' >= (Slots' - i) * CrdEvery
      <4>1. CASE i \in 0..Len(credits)  BY <4>1, <3>1, <3>3, <3>4
      <4>2. CASE i = Len(credits) + 1  BY <4>2, <3>0, <3>2, <3>3, <3>5
      <4> QED BY <4>1, <4>2, <2>2, <1>3
    <3> QED BY <3>6, <3>7 DEF Gaps
  <2> QED BY <1>4, <2>4, <2>5, <2>6 DEF IInv
<1> QED BY <1>2, <1>5, <1>6

\* No step changes nothing and breaks the invariant.
LEMMA StutterStep == ASSUME IInv, UNCHANGED vars PROVE IInv'
<1> USE DEF vars, masterVars, slaveVars, historyVars
<1>1. TypeOK' /\ Order' /\ Room' /\ Loss'  BY DEF IInv, TypeOK, Order, Room, Loss
<1>2. Wires' /\ Gaps' /\ Buffered'  BY SameWires, SameTotals, SameBuffer DEF IInv
<1> QED BY <1>1, <1>2 DEF IInv

-----------------------------------------------------------------------------
\* Every step of the producer, of the consumer and of the quiet system keeps
\* the invariant.
LEMMA NextIInv == IInv /\ [Next]_vars => IInv'
<1> SUFFICES ASSUME IInv, [Next]_vars PROVE IInv'  OBVIOUS
<1>1. ASSUME NEW n \in 1..(CreditDrain + 1), PollCredit(n) PROVE IInv'
  BY <1>1, PollCreditStep
<1>2. ASSUME NEW n \in 1..Depth, WriteNb(n) \/ Write(n) \/ WriteResp(n) PROVE IInv'
  BY <1>2, WriteNbStep, WriteStep, WriteRespStep
<1>3. CASE WakeOnCredit  BY <1>3, WakeOnCreditStep
<1>4. CASE ForwardDone  BY <1>4, ForwardDoneStep
<1>5. ASSUME NEW k \in 1..Depth, Get(k) PROVE IInv'  BY <1>5, GetStep
<1>6. CASE OfferLooks  BY <1>6, OfferLooksStep
<1>7. CASE OfferEnds  BY <1>7, OfferEndsStep
<1>8. CASE Quiet \/ UNCHANGED vars  BY <1>8, StutterStep DEF Quiet
<1> QED BY <1>1, <1>2, <1>3, <1>4, <1>5, <1>6, <1>7, <1>8 DEF Next, Producer, Consumer

\* The inductive invariant holds in every reachable state.
THEOREM Inductive == Spec => []IInv
<1>1. Init => IInv  BY InitIInv
<1>2. IInv /\ [Next]_vars => IInv'  BY NextIInv
<1> QED BY <1>1, <1>2, PTL DEF Spec

\* Every register stays in its width and every queue holds what it may.
THEOREM TypeCorrect == Spec => []TypeOK
<1>1. IInv => TypeOK  BY DEF IInv
<1> QED BY <1>1, Inductive, PTL

\* The masked difference is the true number of words the producer has not
\* heard of, through every wrap (udiff, reverse_stream.py).
THEOREM CreditIsExact == Spec => []CreditExact
<1>1. IInv => CreditExact
  <2> SUFFICES ASSUME IInv PROVE CreditExact  OBVIOUS
  <2>1. Outstanding = sent - known  BY OutstandingExact
  <2>2. known <= used /\ used <= taken  BY DEF IInv, Order, TypeOK
  <2> QED BY <2>1, <2>2 DEF CreditExact
<1> QED BY <1>1, Inductive, PTL

\* A write that passed its test of avail never waits in the forward channel.
THEOREM AdmittedWriteFits == Spec => []NeverStalls
<1>1. IInv => NeverStalls
  <2> SUFFICES ASSUME IInv, pc = "fwd" PROVE nrx + burst <= Depth  BY DEF NeverStalls
  <2>1. sent + burst - known <= Depth /\ nrx = sent - taken /\ known <= taken
    <3>1. known <= taken  BY DEF IInv, Order, TypeOK
    <3> QED BY <3>1 DEF IInv, Room, Buffered
  <2> QED BY <2>1, ModulusPositive DEF IInv, TypeOK
<1> QED BY <1>1, Inductive, PTL

\* With (CreditDepth + 1) * CrdEvery > Depth no credit is ever dropped.
THEOREM SizedFifoKeepsCredits == Spec => []NoCreditLost
<1>1. IInv => NoCreditLost  BY DEF IInv, Loss, NoCreditLost
<1> QED BY <1>1, Inductive, PTL

\* What the producer has heard of never moves back.
THEOREM CreditsInOrder == Spec => CreditMonotone
<1>1. IInv /\ [Next]_vars => [known' >= known]_vars
  <2> SUFFICES ASSUME IInv, Next PROVE known' >= known  OBVIOUS
  <2>0. known \in Nat  BY DEF IInv, TypeOK
  <2>1. ASSUME NEW m \in 1..Len(credits), TakeCredits(m),
               UNCHANGED <<slaveVars, told, used, taken, sent>>
        PROVE  known' >= known
    <3>1. PICK k \in Nat : k = known' /\ known <= k  BY <2>1, TakeCreditsStep
    <3>2. k \in Nat /\ known <= k  BY <3>1
    <3>3. k >= known  BY <2>0, <3>2
    <3> QED BY <3>1, <3>3
  <2>2. ASSUME NEW n \in 1..(CreditDrain + 1), PollCredit(n) PROVE known' >= known
    <3>1. Least(n, Len(credits)) \in 1..Len(credits)
      BY <2>2, EmptySeq, CreditAssumption DEF PollCredit, Least, IInv, TypeOK
    <3> QED BY <2>1, <2>2, <3>1 DEF PollCredit, slaveVars
  <2>3. CASE WakeOnCredit
    <3>1. Least(1 + CreditDrain, Len(credits)) \in 1..Len(credits)
      BY <2>3, EmptySeq, CreditAssumption DEF WakeOnCredit, Least, IInv, TypeOK
    <3> QED BY <2>1, <2>3, <3>1 DEF WakeOnCredit, slaveVars
  <2>4. ASSUME known' = known PROVE known' >= known  BY <2>0, <2>4
  <2>5. ASSUME NEW n \in 1..Depth, WriteNb(n) \/ Write(n) \/ WriteResp(n) PROVE known' = known
    BY <2>5 DEF WriteNb, Write, WriteResp, StartForward, historyVars
  <2>6. CASE ForwardDone  BY <2>4, <2>6 DEF ForwardDone
  <2>7. ASSUME NEW k \in 1..Depth, Get(k) PROVE known' = known  BY <2>7 DEF Get
  <2>8. CASE OfferLooks \/ OfferEnds \/ Quiet
    BY <2>4, <2>8 DEF OfferLooks, OfferEnds, Quiet, vars, historyVars
  <2> QED BY <2>2, <2>3, <2>4, <2>5, <2>6, <2>7, <2>8 DEF Next, Producer, Consumer
<1> QED BY <1>1, Inductive, PTL DEF Spec, CreditMonotone
=============================================================================
