-------------------------- MODULE StreamChannelProofs --------------------------
(***************************************************************************)
(* What holds of a stream channel for every number of producers, size of   *)
(* the queue and length of bursts: the reader never finds too few words,   *)
(* an offer never waits, the levels are exact, written bursts fit the      *)
(* depth, and the channel is a FIFO of whole bursts.                       *)
(*                                                                         *)
(* The argument: the line for the bus has every producer once, and all but *)
(* its head wait.  So only the holder can have words partly in, and the    *)
(* two levels together are the words of the burst handed over, of those in *)
(* the buffer and of the holder's, whichever of the two has them.          *)
(*                                                                         *)
(* For the depth: the bursts written since the last offer went in have     *)
(* their words in nrx, up to Cap of them.  A burst retired from ntx leaves *)
(* nrx alone, and one that empties ntx leaves all that is counted in nrx.  *)
(***************************************************************************)
EXTENDS StreamChannel, ArithmeticProofs

\* In line for the bus, or with it and nothing done.
Waits(p) == (pc[p] = "air" /\ job[p].kind = "write") \/ pc[p] = "settle"

\* Who is in line is there once, has asked, and waits unless it is the holder.
Line ==
  /\ \A i, j \in 1..Len(bus) : i # j => bus[i] # bus[j]
  /\ \A i \in 1..Len(bus) : pc[bus[i]] # "idle" /\ job[bus[i]] \in Bursts
  /\ \A i \in 2..Len(bus) : Waits(bus[i])
  /\ \A p \in Producers : (\A i \in 1..Len(bus) : bus[i] # p) => pc[p] = "idle"

\* What the holder p has done of its transfer.
Doing(p) ==
  /\ pc[p] = "room" => job[p].kind = "write" /\ parked \in {0, Least(job[p].n, Cap)}
  /\ pc[p] # "room" => parked = 0
  /\ pc[p] \in {"one", "fill", "spill"} => job[p].kind = "offer" /\ rem < job[p].n
  /\ pc[p] = "stored" => job[p].kind = "offer"
  /\ pc[p] = "air" /\ job[p].kind = "offer" /\ ~blocked => nrx < Cap
Holder == /\ bus = <<>> => parked = 0
          /\ bus # <<>> => Doing(Head(bus))

\* A burst is in one reader's hands only while its words are not retired.
Handed ==
  /\ cpc = "handed" => hand \in Bursts
  /\ cpc # "handed" => hand = NoJob
  /\ cpc = "wait" => buffer = <<>>

\* Of the levels, all words: those of the bursts, and rest of one that is not in yet.
Adds(bursts, all, rest) == rest \in Nat /\ all = rest + Words(bursts)

\* LevelsExact, in the form the steps preserve.
Levels == Adds(buffer, (nrx + ntx) - hand.n, PartlyIn)

IInv == TypeOK /\ Line /\ Holder /\ Handed /\ Levels /\ NeverFails

-----------------------------------------------------------------------------
LEMMA Facts ==
  ASSUME IInv
  PROVE  /\ Cap \in Nat /\ Cap >= 1 /\ MaxLen \in Nat /\ MaxLen >= 1 /\ MaxBursts \in Nat
         /\ nrx \in 0..Cap /\ ntx \in Nat /\ parked \in 0..Cap /\ rem \in 0..MaxLen
         /\ bus \in Seq(Producers) /\ Len(bus) \in Nat
         /\ buffer \in Seq(Bursts) /\ Len(buffer) \in Nat
         /\ hand \in Bursts \cup {NoJob} /\ hand.n \in 0..MaxLen
<1>1. Cap \in Nat /\ Cap >= 1 /\ MaxLen \in Nat /\ MaxLen >= 1 /\ MaxBursts \in Nat
  BY StreamAssumption
<1>2. /\ nrx \in 0..Cap /\ ntx \in Nat /\ parked \in 0..Cap /\ rem \in 0..MaxLen
      /\ bus \in Seq(Producers) /\ buffer \in Seq(Bursts) /\ hand \in Bursts \cup {NoJob}
  BY DEF IInv, TypeOK
<1>3. Len(bus) \in Nat /\ Len(buffer) \in Nat  BY <1>2, LenProperties
<1>4. hand.n \in 0..MaxLen  BY <1>1, <1>2 DEF Bursts, NoJob
<1> QED BY <1>1, <1>2, <1>3, <1>4

LEMMA BurstIs ==
  ASSUME NEW b \in Bursts
  PROVE  b.n \in 1..MaxLen /\ b.n \in Nat /\ b.n >= 1 /\ b.kind \in {"write", "offer"}
<1>1. b.n \in 1..MaxLen /\ b.kind \in Kinds  BY DEF Bursts
<1>2. MaxLen \in Nat /\ Kinds \subseteq {"write", "offer"}  BY StreamAssumption
<1>3. b.n \in Nat /\ b.n >= 1  BY <1>1, <1>2
<1>4. b.kind \in {"write", "offer"}  BY <1>1, <1>2
<1> QED BY <1>1, <1>3, <1>4

\* The holder is the first in line; with it gone the second is.
LEMMA HolderIs ==
  ASSUME IInv, NEW p \in Producers, Holds(p)
  PROVE  /\ bus # <<>> /\ Head(bus) = p /\ bus[1] = p /\ Len(bus) >= 1
         /\ job[p] \in Bursts /\ Doing(p)
         /\ \A i \in 2..Len(bus) : bus[i] # p
<1>1. bus # <<>> /\ Head(bus) = p  BY DEF Holds
<1>2. Len(bus) >= 1 /\ bus[1] = p  BY <1>1, Facts, EmptySeq
<1>3. 1 \in 1..Len(bus)  BY <1>2, Facts
<1>4. job[p] \in Bursts /\ Doing(p)  BY <1>1, <1>2, <1>3 DEF IInv, Line, Holder
<1>5. \A i \in 2..Len(bus) : bus[i] # p
  <2>1. \A i \in 2..Len(bus) : i \in 1..Len(bus) /\ i # 1  BY Facts
  <2> QED BY <1>2, <1>3, <2>1 DEF IInv, Line
<1> QED BY <1>1, <1>2, <1>4, <1>5

\* A step of the holder that keeps the bus keeps the line.
LEMMA LineKept ==
  ASSUME IInv, NEW p \in Producers, Holds(p), NEW l, l # "idle",
         Goto(p, l), UNCHANGED <<bus, job>>
  PROVE  Line'
<1>1. pc \in [Producers -> {"idle", "settle", "air", "room", "one", "fill", "spill", "stored"}]
  BY DEF IInv, TypeOK
<1>2. pc'[p] = l /\ \A q \in Producers : q # p => pc'[q] = pc[q]
  BY <1>1 DEF Goto
<1>3. \A i \in 1..Len(bus) : bus[i] \in Producers
  BY Facts, ElementOfSeq
<1>4. \A i \in 2..Len(bus) : i \in 1..Len(bus)  BY Facts
<1>5. \A i \in 1..Len(bus) : pc'[bus[i]] # "idle" /\ job'[bus[i]] \in Bursts
  BY <1>2, <1>3 DEF IInv, Line
<1>6. \A i \in 2..Len(bus) : Waits(bus[i])'
  BY <1>2, <1>3, <1>4, HolderIs DEF IInv, Line, Waits
<1>7. \A q \in Producers : (\A i \in 1..Len(bus) : bus[i] # q) => pc'[q] = "idle"
  <2>1. 1 \in 1..Len(bus) /\ bus[1] = p  BY Facts, HolderIs
  <2> QED BY <1>2, <2>1 DEF IInv, Line
<1> QED BY <1>5, <1>6, <1>7 DEF IInv, Line

\* The holder leaves: the next in line, if there is one, has done nothing.
LEMMA LineMoves ==
  ASSUME IInv, NEW p \in Producers, Holds(p), bus' = Tail(bus), Goto(p, "idle"),
         job' = job, parked' = 0
  PROVE  Line' /\ Holder' /\ bus' \in Seq(Producers) /\ PartlyIn' = 0
<1> DEFINE k == Len(bus)
<1>1. pc \in [Producers -> {"idle", "settle", "air", "room", "one", "fill", "spill", "stored"}]
  BY DEF IInv, TypeOK
<1>2. pc'[p] = "idle" /\ \A q \in Producers : q # p => pc'[q] = pc[q]
  BY <1>1 DEF Goto
<1>3. k \in Nat /\ k >= 1 /\ bus # <<>> /\ bus \in Seq(Producers)  BY Facts, HolderIs
<1>4. /\ bus' \in Seq(Producers) /\ Len(bus') = k - 1
      /\ \A i \in 1..(k - 1) : bus'[i] = bus[i + 1]
  BY <1>3, HeadTailProperties
<1>5. /\ \A i, j \in 1..k : i # j => bus[i] # bus[j]
      /\ \A i \in 1..k : pc[bus[i]] # "idle" /\ job[bus[i]] \in Bursts
      /\ \A i \in 2..k : Waits(bus[i])
      /\ \A q \in Producers : (\A i \in 1..k : bus[i] # q) => pc[q] = "idle"
  BY DEF IInv, Line
<1>6. \A i \in 1..k : bus[i] \in Producers  BY <1>3, ElementOfSeq
<1>7. \A i \in 2..k : bus[i] # p  BY HolderIs
<1> HIDE DEF k
<1>8. \A i \in 1..(k - 1) : i + 1 \in 1..k /\ i + 1 \in 2..k  BY <1>3
<1>9. \A i \in 1..(k - 1) : /\ bus'[i] \in Producers /\ bus'[i] # p
                            /\ pc'[bus'[i]] # "idle" /\ job'[bus'[i]] \in Bursts
                            /\ Waits(bus[i])'
  <2> SUFFICES ASSUME NEW i \in 1..(k - 1)
               PROVE  /\ bus'[i] \in Producers /\ bus'[i] # p
                      /\ pc'[bus'[i]] # "idle" /\ job'[bus'[i]] \in Bursts
                      /\ Waits(bus[i])'
    OBVIOUS
  <2>1. bus'[i] = bus[i + 1] /\ i + 1 \in 1..k /\ i + 1 \in 2..k  BY <1>4, <1>8
  <2>2. bus[i + 1] \in Producers /\ bus[i + 1] # p  BY <1>6, <1>7, <2>1
  <2>3. pc'[bus[i + 1]] = pc[bus[i + 1]]  BY <1>2, <2>2
  <2> QED BY <1>5, <2>1, <2>2, <2>3 DEF Waits
<1>10. \A i, j \in 1..(k - 1) : i # j => bus'[i] # bus'[j]
  <2> SUFFICES ASSUME NEW i \in 1..(k - 1), NEW j \in 1..(k - 1), i # j
               PROVE  bus'[i] # bus'[j]
    OBVIOUS
  <2>1. i + 1 # j + 1  BY <1>3
  <2> QED BY <1>4, <1>5, <1>8, <2>1
<1>11. \A q \in Producers : (\A i \in 1..(k - 1) : bus'[i] # q) => pc'[q] = "idle"
  <2> SUFFICES ASSUME NEW q \in Producers, \A i \in 1..(k - 1) : bus'[i] # q
               PROVE  pc'[q] = "idle"
    OBVIOUS
  <2>1. CASE q = p  BY <1>2, <2>1
  <2>2. CASE q # p
    <3>1. \A i \in 1..k : bus[i] # q
      <4> SUFFICES ASSUME NEW i \in 1..k PROVE bus[i] # q  OBVIOUS
      <4>1. CASE i = 1  BY <2>2, <4>1, HolderIs
      <4>2. CASE i # 1
        <5>1. i - 1 \in 1..(k - 1) /\ (i - 1) + 1 = i  BY <1>3, <4>2
        <5> QED BY <1>4, <5>1
      <4> QED BY <4>1, <4>2
    <3> QED BY <1>2, <1>5, <2>2, <3>1
  <2> QED BY <2>1, <2>2
<1>12. Line'
  <2>1. \A i \in 2..(k - 1) : i \in 1..(k - 1)  BY <1>3
  <2> QED BY <1>4, <1>9, <1>10, <1>11, <2>1 DEF Line
<1>13. bus' # <<>> => Head(bus') \in Producers /\ Waits(Head(bus))'
  <2> SUFFICES ASSUME bus' # <<>>
               PROVE  Head(bus') \in Producers /\ Waits(Head(bus))'
    OBVIOUS
  <2>1. Len(bus') # 0 /\ Head(bus') = bus'[1]  BY <1>4, EmptySeq
  <2>2. 1 \in 1..(k - 1)  BY <1>3, <1>4, <2>1
  <2> QED BY <1>9, <2>1, <2>2
<1>14. Holder'  BY <1>13 DEF Holder, Doing, Waits
<1>15. PartlyIn' = 0  BY <1>13 DEF PartlyIn, Waits
<1> QED BY <1>4, <1>12, <1>14, <1>15

-----------------------------------------------------------------------------
\* The words of a queue of bursts, of one more burst and of two queues.
Lens(s) == [i \in 1..Len(s) |-> s[i].n]

LEMMA LensAre ==
  ASSUME NEW s \in Seq(Bursts)
  PROVE  /\ Lens(s) \in Seq(Nat) /\ Len(Lens(s)) = Len(s)
         /\ \A i \in 1..Len(s) : Lens(s)[i] = s[i].n
         /\ Words(s) = SumOf(Lens(s)) /\ Words(s) \in Nat
<1>1. Len(s) \in Nat /\ \A i \in 1..Len(s) : s[i].n \in Nat
  <2>1. \A i \in 1..Len(s) : s[i] \in Bursts  BY ElementOfSeq
  <2> QED BY <2>1, LenProperties, BurstIs
<1>2. Lens(s) \in [1..Len(s) -> Nat]  BY <1>1 DEF Lens
<1>3. Lens(s) \in Seq(Nat)  BY <1>1, <1>2, SeqDef
<1>4. DOMAIN Lens(s) = 1..Len(Lens(s)) /\ Len(Lens(s)) \in Nat
  BY <1>3, LenProperties
<1>5. Len(Lens(s)) = Len(s)
  <2>1. 1..Len(s) = 1..Len(Lens(s))  BY <1>2, <1>4
  <2> QED BY <1>1, <1>4, <2>1
<1>6. Words(s) = SumOf(Lens(s))  BY DEF Words, Lens
<1>7. Words(s) \in Nat  BY <1>3, <1>6, SumIsNat
<1> QED BY <1>3, <1>5, <1>6, <1>7 DEF Lens

LEMMA WordsOfNone == Words(<<>>) = 0
<1>1. <<>> \in Seq(Bursts) /\ Len(<<>>) = 0  BY EmptySeq
<1>2. Lens(<<>>) \in Seq(Nat) /\ Len(Lens(<<>>)) = 0 /\ Words(<<>>) = SumOf(Lens(<<>>))
  BY <1>1, LensAre
<1>3. Lens(<<>>) = <<>>  BY <1>2, EmptySeq
<1> QED BY <1>2, <1>3, SumOfNone

LEMMA WordsOfBoth ==
  ASSUME NEW s \in Seq(Bursts), NEW t \in Seq(Bursts)
  PROVE  s \o t \in Seq(Bursts) /\ Words(s \o t) = Words(s) + Words(t)
<1> DEFINE u == s \o t  a == Lens(s)  b == Lens(t)  c == Lens(u)  d == a \o b
<1>1. /\ u \in Seq(Bursts) /\ Len(u) = Len(s) + Len(t) /\ Len(s) \in Nat /\ Len(t) \in Nat
      /\ \A i \in 1..(Len(s) + Len(t)) : u[i] = IF i <= Len(s) THEN s[i] ELSE t[i - Len(s)]
  BY ConcatProperties, LenProperties
<1>2. /\ a \in Seq(Nat) /\ Len(a) = Len(s) /\ \A i \in 1..Len(s) : a[i] = s[i].n
      /\ b \in Seq(Nat) /\ Len(b) = Len(t) /\ \A i \in 1..Len(t) : b[i] = t[i].n
      /\ Words(s) = SumOf(a) /\ Words(t) = SumOf(b)
  BY LensAre
<1> HIDE DEF u, a, b
<1>3. /\ c \in Seq(Nat) /\ Len(c) = Len(u) /\ \A i \in 1..Len(u) : c[i] = u[i].n
      /\ Words(u) = SumOf(c)
  BY <1>1, LensAre
<1>4. /\ d \in Seq(Nat) /\ Len(d) = Len(a) + Len(b)
      /\ \A i \in 1..(Len(a) + Len(b)) : d[i] = IF i <= Len(a) THEN a[i] ELSE b[i - Len(a)]
  BY <1>2, ConcatProperties
<1> HIDE DEF c, d
<1>5. ASSUME NEW i \in 1..Len(u) PROVE c[i] = d[i]
  <2>1. c[i] = u[i].n /\ i \in 1..(Len(s) + Len(t)) /\ i \in 1..(Len(a) + Len(b))
    BY <1>1, <1>2, <1>3
  <2>2. CASE i <= Len(s)
    <3>1. i \in 1..Len(s)  BY <1>1, <2>1, <2>2
    <3>2. u[i] = s[i] /\ d[i] = a[i]  BY <1>1, <1>2, <1>4, <2>1, <2>2
    <3> QED BY <1>2, <2>1, <3>1, <3>2
  <2>3. CASE ~(i <= Len(s))
    <3>1. i - Len(s) \in 1..Len(t)  BY <1>1, <2>1, <2>3
    <3>2. u[i] = t[i - Len(s)] /\ d[i] = b[i - Len(s)]  BY <1>1, <1>2, <1>4, <2>1, <2>3
    <3> QED BY <1>2, <2>1, <3>1, <3>2
  <2> QED BY <2>2, <2>3
<1>6. Len(c) = Len(d)  BY <1>1, <1>2, <1>3, <1>4
<1>7. c = d  BY <1>3, <1>4, <1>5, <1>6, SeqEqual
<1>8. SumOf(d) = SumOf(a) + SumOf(b)  BY <1>2, SumOfBoth DEF d
<1> QED BY <1>1, <1>2, <1>3, <1>7, <1>8 DEF u

LEMMA WordsOfMore ==
  ASSUME NEW s \in Seq(Bursts), NEW b \in Bursts
  PROVE  Words(<<b>>) = b.n /\ Words(Append(s, b)) = Words(s) + b.n
<1>1. b.n \in Nat /\ <<b>> \in Seq(Bursts) /\ Append(s, b) = s \o <<b>>
  BY BurstIs, AppendIsConcat
<1>2. Words(s \o <<b>>) = Words(s) + Words(<<b>>)  BY <1>1, WordsOfBoth
<1>3. Words(<<b>>) = b.n
  <2>1. Words(<<b>>) = SumOf(Lens(<<b>>))  BY <1>1, LensAre
  <2>2. Lens(<<b>>) = <<b.n>>  BY DEF Lens
  <2>3. SumOf(<<b.n>>) = b.n  BY <1>1, SumOfOne
  <2> QED BY <2>1, <2>2, <2>3
<1> QED BY <1>1, <1>2, <1>3

\* What a burst put at the end, one read and words reserved do to the levels.
LEMMA NoneAdds ==
  ASSUME NEW all, NEW rest
  PROVE  Adds(<<>>, all, rest) <=> all \in Nat /\ all = rest
BY WordsOfNone DEF Adds

LEMMA AddsIsNat ==
  ASSUME NEW bursts \in Seq(Bursts), NEW all, NEW rest, Adds(bursts, all, rest)
  PROVE  all \in Nat /\ rest \in Nat
<1>1. Words(bursts) \in Nat  BY LensAre
<1> QED BY <1>1 DEF Adds

LEMMA MoreReserved ==
  ASSUME NEW bursts \in Seq(Bursts), NEW all \in Nat, NEW rest \in Nat, NEW n \in Nat,
         Adds(bursts, all, rest)
  PROVE  Adds(bursts, all + n, rest + n)
<1>1. Words(bursts) \in Nat  BY LensAre
<1> QED BY <1>1 DEF Adds

LEMMA BurstPut ==
  ASSUME NEW bursts \in Seq(Bursts), NEW all, NEW b \in Bursts,
         Adds(bursts, all, b.n)
  PROVE  Adds(Append(bursts, b), all, 0)
<1>1. Words(bursts) \in Nat /\ b.n \in Nat  BY LensAre, BurstIs
<1>2. Words(Append(bursts, b)) = Words(bursts) + b.n  BY WordsOfMore
<1> QED BY <1>1, <1>2 DEF Adds

LEMMA BurstTaken ==
  ASSUME NEW bursts \in Seq(Bursts), bursts # <<>>, NEW all, NEW rest,
         Adds(bursts, all, rest)
  PROVE  /\ all \in Nat /\ all - Head(bursts).n \in Nat
         /\ Adds(Tail(bursts), all - Head(bursts).n, rest)
<1> DEFINE b == Head(bursts)  v == Tail(bursts)
<1>1. b \in Bursts /\ v \in Seq(Bursts) /\ bursts = <<b>> \o v  BY HeadTailProperties
<1>2. <<b>> \in Seq(Bursts) /\ b.n \in Nat  BY <1>1, BurstIs
<1>3. Words(<<b>>) = b.n  BY <1>1, WordsOfMore
<1>4. Words(bursts) = b.n + Words(v) /\ Words(v) \in Nat  BY <1>1, <1>2, <1>3, WordsOfBoth, LensAre
<1> QED BY <1>2, <1>4 DEF Adds

-----------------------------------------------------------------------------
LEMMA InitIInv == Init => IInv
<1> SUFFICES ASSUME Init PROVE IInv  OBVIOUS
<1>1. Len(bus) = 0 /\ bus = <<>> /\ buffer = <<>>  BY EmptySeq DEF Init
<1>2. TypeOK
  <2>1. bus \in Seq(Producers) /\ buffer \in Seq(Bursts)  BY <1>1, EmptySeq
  <2>2. /\ parked \in 0..Cap /\ rem \in 0..MaxLen /\ nrx \in 0..Cap /\ ntx \in Nat
        /\ dropped \in Nat /\ begun \in 0..MaxBursts
    BY StreamAssumption DEF Init
  <2>3. /\ pc \in [Producers -> {"idle", "settle", "air", "room", "one", "fill", "spill", "stored"}]
        /\ job \in [Producers -> Bursts \union {NoJob}] /\ hand \in Bursts \union {NoJob}
        /\ cpc \in {"run", "wait", "handed"} /\ blocked \in BOOLEAN /\ failed \in BOOLEAN
    BY DEF Init
  <2> QED BY <2>1, <2>2, <2>3 DEF TypeOK
<1>3. Line  BY <1>1 DEF Init, Line
<1>4. Holder  BY <1>1 DEF Init, Holder
<1>5. Handed  BY DEF Init, Handed
<1>6. Levels
  <2>1. (nrx + ntx) - hand.n = 0  BY DEF Init, NoJob
  <2>2. PartlyIn = 0  BY <1>1 DEF PartlyIn
  <2> QED BY <1>1, <2>1, <2>2, NoneAdds DEF Levels
<1> QED BY <1>2, <1>3, <1>4, <1>5, <1>6 DEF IInv, NeverFails, Init

\* A producer asks: it is the last in line.
LEMMA AskStep ==
  ASSUME IInv, NEW p \in Producers, NEW k \in Kinds, NEW n \in 1..MaxLen, Ask(p, k, n)
  PROVE  IInv'
<1> DEFINE m == Len(bus)
           b == [id |-> begun + 1, kind |-> k, n |-> n]
<1>1. /\ pc[p] = "idle" /\ begun < MaxBursts /\ begun' = begun + 1
      /\ job' = [job EXCEPT ![p] = b]
      /\ bus' = Append(bus, p)
      /\ pc' = [pc EXCEPT ![p] = IF k = "write" THEN "air" ELSE "settle"]
      /\ UNCHANGED <<parked, rem, blocked, buffer, nrx, ntx, cpc, hand, dropped, failed>>
  BY DEF Ask, Goto
<1>2. begun \in 0..MaxBursts /\ MaxBursts \in Nat  BY Facts DEF IInv, TypeOK
<1>3. b \in Bursts /\ b.kind = k
  <2>1. begun + 1 \in 1..MaxBursts  BY <1>1, <1>2
  <2> QED BY <2>1 DEF Bursts
<1>4. begun' \in 0..MaxBursts  BY <1>1, <1>2
<1> HIDE DEF b
<1>5. /\ pc \in [Producers -> {"idle", "settle", "air", "room", "one", "fill", "spill", "stored"}]
      /\ job \in [Producers -> Bursts \union {NoJob}]
  BY DEF IInv, TypeOK
<1>6. /\ pc'[p] \in {"air", "settle"} /\ (pc'[p] = "air" => k = "write") /\ job'[p] = b
      /\ \A q \in Producers : q # p => pc'[q] = pc[q] /\ job'[q] = job[q]
  BY <1>1, <1>5
<1>7. bus \in Seq(Producers) /\ m \in Nat  BY Facts
<1>8. /\ bus' \in Seq(Producers) /\ Len(bus') = m + 1 /\ bus'[m + 1] = p
      /\ \A i \in 1..m : bus'[i] = bus[i]
  BY <1>1, <1>7, AppendProperties
<1>9. /\ \A i, j \in 1..m : i # j => bus[i] # bus[j]
      /\ \A i \in 1..m : pc[bus[i]] # "idle" /\ job[bus[i]] \in Bursts
      /\ \A i \in 2..m : Waits(bus[i])
      /\ \A q \in Producers : (\A i \in 1..m : bus[i] # q) => pc[q] = "idle"
  BY DEF IInv, Line
<1>10. \A i \in 1..m : bus[i] \in Producers  BY <1>7, ElementOfSeq
<1> HIDE DEF m
<1>11. \A i \in 1..m : bus[i] # p  BY <1>1, <1>9
<1>12. TypeOK'
  <2>1. pc' \in [Producers -> {"idle", "settle", "air", "room", "one", "fill", "spill", "stored"}]
    BY <1>1, <1>5
  <2>2. job' \in [Producers -> Bursts \union {NoJob}]  BY <1>1, <1>3, <1>5
  <2> QED BY <1>1, <1>4, <1>8, <2>1, <2>2 DEF IInv, TypeOK
<1>13. \A i \in 1..(m + 1) : i \in 1..m \/ i = m + 1  BY <1>7
<1>14. Line'
  <2>1. \A i \in 1..m : pc'[bus'[i]] # "idle" /\ job'[bus'[i]] \in Bursts
    BY <1>6, <1>8, <1>9, <1>10, <1>11
  <2>2. \A i \in 1..(m + 1) : pc'[bus'[i]] # "idle" /\ job'[bus'[i]] \in Bursts
    BY <1>3, <1>6, <1>8, <1>13, <2>1
  <2>3. \A i, j \in 1..(m + 1) : i # j => bus'[i] # bus'[j]
    BY <1>8, <1>9, <1>11, <1>13
  <2>4. ASSUME NEW i \in 2..(m + 1) PROVE Waits(bus[i])'
    <3>1. CASE i = m + 1
      <4>1. bus'[i] = p  BY <1>8, <3>1
      <4> QED BY <1>3, <1>6, <4>1 DEF Waits
    <3>2. CASE i # m + 1
      <4>1. i \in 2..m /\ i \in 1..m  BY <1>7, <3>2
      <4>2. bus'[i] = bus[i] /\ bus[i] \in Producers /\ bus[i] # p /\ Waits(bus[i])
        BY <1>8, <1>9, <1>10, <1>11, <4>1
      <4> QED BY <1>6, <4>2 DEF Waits
    <3> QED BY <3>1, <3>2
  <2>5. ASSUME NEW q \in Producers, \A i \in 1..(m + 1) : bus'[i] # q
        PROVE  pc'[q] = "idle"
    <3>1. q # p
      <4>1. m + 1 \in 1..(m + 1)  BY <1>7
      <4> QED BY <1>8, <2>5, <4>1
    <3>2. \A i \in 1..m : bus[i] # q
      <4>1. \A i \in 1..m : i \in 1..(m + 1)  BY <1>7
      <4> QED BY <1>8, <2>5, <4>1
    <3> QED BY <1>6, <1>9, <3>1, <3>2
  <2> QED BY <1>8, <2>2, <2>3, <2>4, <2>5 DEF Line
<1>15. Holder' /\ PartlyIn' = PartlyIn
  <2>1. bus' # <<>>  BY <1>7, <1>8, EmptySeq
  <2>2. CASE bus = <<>>
    <3>1. Head(bus') = p
      <4>1. m = 0  BY <2>2, EmptySeq DEF m
      <4> QED BY <1>7, <1>8, <2>1, <4>1
    <3>2. parked = 0  BY <2>2 DEF IInv, Holder
    <3>3. Doing(Head(bus))'
      BY <1>1, <1>3, <1>6, <3>1, <3>2 DEF Doing
    <3>4. PartlyIn = 0 /\ PartlyIn' = 0  BY <1>6, <2>1, <2>2, <3>1 DEF PartlyIn
    <3> QED BY <2>1, <3>3, <3>4 DEF Holder
  <2>3. CASE bus # <<>>
    <3>1. 1 \in 1..m
      <4>1. m # 0  BY <2>3, <1>7, EmptySeq DEF m
      <4> QED BY <1>7, <4>1
    <3>2. Head(bus') = Head(bus) /\ Head(bus) \in Producers /\ Head(bus) # p
      <4>1. Head(bus) = bus[1] /\ Head(bus') = bus'[1]  BY <1>7, <1>8, <2>1, <2>3
      <4> QED BY <1>8, <1>10, <1>11, <3>1, <4>1
    <3>3. pc'[Head(bus)] = pc[Head(bus)] /\ job'[Head(bus)] = job[Head(bus)]  BY <1>6, <3>2
    <3>4. Doing(Head(bus))'
      BY <1>1, <2>3, <3>2, <3>3 DEF IInv, Holder, Doing
    <3>5. PartlyIn' = PartlyIn
      BY <1>1, <2>1, <2>3, <3>2, <3>3 DEF PartlyIn
    <3> QED BY <2>1, <3>4, <3>5 DEF Holder
  <2> QED BY <2>2, <2>3
<1>16. Handed'  BY <1>1 DEF IInv, Handed
<1>17. Levels'  BY <1>1, <1>15 DEF IInv, Levels
<1> QED BY <1>1, <1>12, <1>14, <1>15, <1>16, <1>17 DEF IInv, NeverFails

-----------------------------------------------------------------------------
\* The words of burst b are counted, and the burst goes in.
LEMMA StoreKeeps ==
  ASSUME IInv, NEW b \in Bursts, Store(b), NEW all \in Nat, Adds(buffer, all - hand.n, b.n)
  PROVE  /\ buffer' \in Seq(Bursts) /\ cpc' \in {"run", "wait", "handed"}
         /\ hand' \in Bursts \cup {NoJob}
         /\ Handed' /\ Adds(buffer', all - hand'.n, 0)
<1>1. buffer \in Seq(Bursts) /\ hand \in Bursts \cup {NoJob} /\ cpc \in {"run", "wait", "handed"}
  BY DEF IInv, TypeOK
<1>2. b.n \in Nat  BY BurstIs
<1>3. CASE cpc = "wait"
  <2>1. cpc' = "handed" /\ hand' = b /\ buffer' = buffer  BY <1>3 DEF Store
  <2>2. buffer = <<>> /\ hand.n = 0  BY <1>3 DEF IInv, Handed, NoJob
  <2>3. all - hand.n = all  BY <2>2
  <2>4. all = b.n  BY <2>2, <2>3, NoneAdds
  <2>5. all - hand'.n = 0  BY <1>2, <2>1, <2>4
  <2>6. Adds(<<>>, 0, 0)  BY NoneAdds
  <2>7. Handed'  BY <2>1 DEF Handed
  <2> QED BY <1>1, <2>1, <2>2, <2>5, <2>6, <2>7
<1>4. CASE cpc # "wait"
  <2>1. buffer' = Append(buffer, b) /\ cpc' = cpc /\ hand' = hand  BY <1>4 DEF Store
  <2>2. buffer' \in Seq(Bursts)  BY <1>1, <2>1, AppendProperties
  <2>3. Adds(Append(buffer, b), all - hand.n, 0)  BY <1>1, BurstPut
  <2>4. Handed'  BY <1>4, <2>1 DEF IInv, Handed
  <2> QED BY <1>1, <2>1, <2>2, <2>3, <2>4
<1> QED BY <1>3, <1>4

\* The end of a write: the words past Cap are counted, and the holder leaves.
LEMMA DeliverKeeps ==
  ASSUME IInv, NEW p \in Producers, Holds(p), Deliver(p), parked' = 0, nrx' \in 0..Cap,
         Adds(buffer, (nrx' + ntx) - hand.n, Least(job[p].n, Cap)),
         UNCHANGED <<job, rem, blocked, dropped, failed, begun>>
  PROVE  IInv'
<1> DEFINE n == job[p].n
<1>1. job[p] \in Bursts /\ n \in Nat /\ n >= 1  BY HolderIs, BurstIs
<1>2. Cap \in Nat /\ Cap >= 1 /\ ntx \in Nat /\ buffer \in Seq(Bursts) /\ hand.n \in Nat
  BY Facts
<1>3. Line' /\ Holder' /\ bus' \in Seq(Producers) /\ PartlyIn' = 0
  BY LineMoves DEF Deliver
<1>4. ntx' = ntx + (n - Least(n, Cap)) /\ n - Least(n, Cap) \in Nat /\ Least(n, Cap) \in Nat
  BY <1>1, <1>2 DEF Deliver, Least
<1>5. ntx' \in Nat /\ nrx' + ntx' \in Nat  BY <1>2, <1>4
<1>6. Adds(buffer, (nrx' + ntx') - hand.n, n)
  <2> DEFINE x == n - Least(n, Cap)  y == Least(n, Cap)  all == (nrx' + ntx) - hand.n
  <2>1. x \in Nat /\ y \in Nat /\ y + x = n  BY <1>1, <1>4
  <2>2. all \in Nat  BY <1>2, AddsIsNat
  <2>3. all + x = (nrx' + ntx') - hand.n  BY <1>2, <1>4, <2>1
  <2> HIDE DEF x, all
  <2>4. Adds(buffer, all + x, y + x)  BY <1>2, <2>1, <2>2, MoreReserved DEF all
  <2> QED BY <2>1, <2>3, <2>4
<1>7. /\ buffer' \in Seq(Bursts) /\ cpc' \in {"run", "wait", "handed"}
      /\ hand' \in Bursts \cup {NoJob}
      /\ Handed' /\ Adds(buffer', (nrx' + ntx') - hand'.n, 0)
  BY <1>1, <1>5, <1>6, StoreKeeps DEF Deliver
<1>8. pc' \in [Producers -> {"idle", "settle", "air", "room", "one", "fill", "spill", "stored"}]
  BY DEF Deliver, Goto, IInv, TypeOK
<1>9. TypeOK'
  <2>1. parked' \in 0..Cap  BY <1>2
  <2> QED BY <1>3, <1>5, <1>7, <1>8, <2>1 DEF IInv, TypeOK
<1>10. Levels'  BY <1>3, <1>7 DEF Levels
<1> QED BY <1>3, <1>7, <1>9, <1>10 DEF IInv, NeverFails

\* A step of the holder p that keeps the bus, and changes only its place, the levels
\* and its own account.
LEMMA HolderStays ==
  ASSUME IInv, NEW p \in Producers, Holds(p), NEW l, Goto(p, l),
         l \in {"air", "room", "one", "fill", "spill"},
         UNCHANGED <<bus, job, buffer, cpc, hand, dropped, failed, begun>>,
         nrx' \in 0..Cap, ntx' \in Nat, parked' \in 0..Cap, rem' \in 0..MaxLen,
         blocked' \in BOOLEAN, Doing(p)',
         Adds(buffer, (nrx' + ntx') - hand.n, PartlyIn')
  PROVE  IInv'
<1>1. pc' \in [Producers -> {"idle", "settle", "air", "room", "one", "fill", "spill", "stored"}]
  BY DEF Goto, IInv, TypeOK
<1>2. TypeOK'  BY <1>1 DEF IInv, TypeOK
<1>3. Line'  BY LineKept
<1>4. bus # <<>> /\ Head(bus) = p  BY HolderIs
<1>5. Doing(Head(bus))'
  <2>1. Head(bus') = p  BY <1>4
  <2> QED BY <2>1 DEF Doing
<1>6. Holder'  BY <1>4, <1>5 DEF Holder
<1>7. Handed'  BY DEF IInv, Handed
<1>8. Levels'  BY DEF Levels
<1> QED BY <1>2, <1>3, <1>6, <1>7, <1>8 DEF IInv, NeverFails

\* What of the holder's burst is in the levels, by where it is.
LEMMA PartlyIs ==
  ASSUME IInv, NEW p \in Producers, Holds(p)
  PROVE  /\ pc[p] \in {"settle", "air", "stored"} => PartlyIn = 0
         /\ pc[p] = "room" => PartlyIn = IF parked = 0 THEN Least(job[p].n, Cap) ELSE 0
         /\ pc[p] \in {"one", "fill", "spill"} => PartlyIn = (job[p].n - rem) - parked
BY HolderIs DEF PartlyIn

LEMMA WriteLandsStep ==
  ASSUME IInv, NEW p \in Producers, WriteLands(p)
  PROVE  IInv'
<1> DEFINE n == job[p].n
           want == Least(n, Cap)
<1>1. /\ Holds(p) /\ pc[p] = "air" /\ job[p].kind = "write"
      /\ UNCHANGED <<job, rem, blocked, dropped, failed, begun>>
  BY DEF WriteLands
<1>2. job[p] \in Bursts /\ n \in Nat /\ n >= 1 /\ parked = 0 /\ PartlyIn = 0
  BY <1>1, HolderIs, BurstIs, PartlyIs DEF Doing
<1>3. /\ Cap \in Nat /\ Cap >= 1 /\ nrx \in 0..Cap /\ ntx \in Nat /\ rem \in 0..MaxLen
      /\ buffer \in Seq(Bursts) /\ hand.n \in Nat
  BY Facts
<1>4. want \in 1..Cap  BY <1>2, <1>3 DEF Least
<1>5. Adds(buffer, (nrx + ntx) - hand.n, 0)  BY <1>2 DEF IInv, Levels
<1>6. CASE Cap - nrx >= want /\ nrx' = nrx + want /\ Deliver(p) /\ UNCHANGED parked
  <2>1. nrx' \in 0..Cap
    <3> HIDE DEF want
    <3> QED BY <1>3, <1>4, <1>6
  <2>2. Adds(buffer, (nrx' + ntx) - hand.n, want)
    <3> DEFINE all == (nrx + ntx) - hand.n
    <3>1. all \in Nat  BY <1>3, <1>5, AddsIsNat
    <3> HIDE DEF want
    <3>2. all + want = (nrx' + ntx) - hand.n  BY <1>3, <1>4, <1>6
    <3>3. want \in Nat /\ 0 + want = want  BY <1>3, <1>4
    <3> HIDE DEF all
    <3>4. Adds(buffer, all + want, 0 + want)
      BY <1>3, <1>5, <3>1, <3>3, MoreReserved DEF all
    <3> QED BY <3>2, <3>3, <3>4
  <2>3. parked' = 0  BY <1>2, <1>6
  <2> QED BY <1>1, <1>6, <2>1, <2>2, <2>3, DeliverKeeps
<1>7. CASE /\ parked' = want /\ Goto(p, "room")
           /\ UNCHANGED <<bus, buffer, nrx, ntx, cpc, hand>>
  <2>1. pc'[p] = "room"  BY <1>7 DEF Goto, IInv, TypeOK
  <2>2. Doing(p)'  BY <1>1, <1>7, <2>1 DEF Doing
  <2>3. PartlyIn' = 0
    <3>1. bus' # <<>> /\ Head(bus') = p  BY <1>1, <1>7, HolderIs
    <3>2. parked' # 0  BY <1>3, <1>4, <1>7
    <3> QED BY <2>1, <3>1, <3>2 DEF PartlyIn
  <2>4. parked' \in 0..Cap
    <3> HIDE DEF want
    <3> QED BY <1>3, <1>4, <1>7
  <2>5. Adds(buffer, (nrx' + ntx') - hand.n, PartlyIn')  BY <1>5, <1>7, <2>3
  <2>6. /\ nrx' \in 0..Cap /\ ntx' \in Nat /\ rem' \in 0..MaxLen /\ blocked' \in BOOLEAN
        /\ UNCHANGED <<bus, job, buffer, cpc, hand, dropped, failed, begun>>
    BY <1>1, <1>3, <1>7 DEF IInv, TypeOK
  <2> QED BY <1>1, <1>7, <2>2, <2>4, <2>5, <2>6, HolderStays
<1> QED BY <1>6, <1>7 DEF WriteLands

LEMMA WriteResumesStep ==
  ASSUME IInv, NEW p \in Producers, WriteResumes(p)
  PROVE  IInv'
<1>1. /\ Holds(p) /\ pc[p] = "room" /\ parked = 0 /\ Deliver(p)
      /\ UNCHANGED <<job, parked, rem, blocked, nrx, dropped, failed, begun>>
  BY DEF WriteResumes
<1>2. PartlyIn = Least(job[p].n, Cap)  BY <1>1, PartlyIs
<1>3. Adds(buffer, (nrx' + ntx) - hand.n, Least(job[p].n, Cap))
  BY <1>1, <1>2 DEF IInv, Levels
<1>4. parked' = 0 /\ nrx' \in 0..Cap  BY <1>1, Facts
<1> QED BY <1>1, <1>3, <1>4, DeliverKeeps

\* The holder looks: what it sees stays true until it comes back, for nobody else
\* adds to nrx.
LEMMA OfferLooksStep ==
  ASSUME IInv, NEW p \in Producers, OfferLooks(p)
  PROVE  IInv'
<1>1. /\ Holds(p) /\ pc[p] = "settle" /\ blocked' = (nrx >= Cap) /\ Goto(p, "air")
      /\ UNCHANGED <<job, bus, parked, rem, buffer, nrx, ntx, cpc, hand, dropped, failed, begun>>
  BY DEF OfferLooks
<1>2. nrx \in 0..Cap /\ Cap \in Nat /\ ntx \in Nat /\ rem \in 0..MaxLen /\ parked \in 0..Cap
  BY Facts
<1>3. pc'[p] = "air"  BY <1>1 DEF Goto, IInv, TypeOK
<1>4. parked = 0 /\ PartlyIn = 0  BY <1>1, HolderIs, PartlyIs DEF Doing
<1>5. ~blocked' => nrx < Cap
  <2>1. CASE nrx >= Cap  BY <1>1, <2>1, Zenon
  <2>2. CASE ~(nrx >= Cap)
    <3>1. nrx < Cap  BY <1>2, <2>2
    <3> QED BY <3>1
  <2> QED BY <2>1, <2>2
<1>6. Doing(p)'  BY <1>1, <1>3, <1>4, <1>5 DEF Doing
<1>7. PartlyIn' = 0
  <2>1. bus' # <<>> /\ Head(bus') = p  BY <1>1, HolderIs
  <2> QED BY <1>3, <2>1 DEF PartlyIn
<1>8. Adds(buffer, (nrx' + ntx') - hand.n, PartlyIn')
  BY <1>1, <1>4, <1>7 DEF IInv, Levels
<1>9. blocked' \in BOOLEAN  BY <1>1
<1>10. nrx' \in 0..Cap /\ ntx' \in Nat /\ parked' \in 0..Cap /\ rem' \in 0..MaxLen
  BY <1>1, <1>2
<1> QED BY <1>1, <1>6, <1>8, <1>9, <1>10, HolderStays

LEMMA OfferLandsStep ==
  ASSUME IInv, NEW p \in Producers, OfferLands(p)
  PROVE  IInv'
<1> DEFINE n == job[p].n
<1>1. /\ Holds(p) /\ pc[p] = "air" /\ job[p].kind = "offer" /\ blocked' = FALSE
      /\ UNCHANGED <<job, buffer, ntx, cpc, hand, failed, begun>>
  BY DEF OfferLands
<1>2. /\ job[p] \in Bursts /\ n \in Nat /\ n >= 1 /\ n \in 1..MaxLen /\ parked = 0
      /\ PartlyIn = 0 /\ (~blocked => nrx < Cap)
  BY <1>1, HolderIs, BurstIs, PartlyIs DEF Doing
<1>3. /\ Cap \in Nat /\ Cap >= 1 /\ nrx \in 0..Cap /\ ntx \in Nat /\ rem \in 0..MaxLen
      /\ MaxLen \in Nat /\ buffer \in Seq(Bursts) /\ hand.n \in Nat
  BY Facts
<1>5. Adds(buffer, (nrx + ntx) - hand.n, 0)  BY <1>2 DEF IInv, Levels
<1>6. CASE blocked
  <2>1. /\ dropped' = dropped + n /\ bus' = Tail(bus) /\ Goto(p, "idle")
        /\ UNCHANGED <<parked, rem, nrx>>
    BY <1>6 DEF OfferLands
  <2>2. Line' /\ Holder' /\ bus' \in Seq(Producers) /\ PartlyIn' = 0
    BY <1>1, <1>2, <2>1, LineMoves
  <2>3. pc' \in [Producers -> {"idle", "settle", "air", "room", "one", "fill", "spill", "stored"}]
    BY <2>1 DEF Goto, IInv, TypeOK
  <2>4. dropped' \in Nat
    <3>1. dropped \in Nat  BY DEF IInv, TypeOK
    <3> QED BY <1>2, <2>1, <3>1
  <2>5. TypeOK'  BY <1>1, <2>1, <2>2, <2>3, <2>4 DEF IInv, TypeOK
  <2>6. Handed' /\ Levels'  BY <1>1, <1>5, <2>1, <2>2 DEF IInv, Handed, Levels
  <2> QED BY <1>1, <2>2, <2>5, <2>6 DEF IInv, NeverFails
<1>7. CASE ~blocked
  <2>1. /\ rem' = n - 1 /\ nrx' = nrx + 1 /\ parked' = 0 /\ Goto(p, "one")
        /\ UNCHANGED <<dropped, bus>>
    <3>1. Cap - nrx >= 1  BY <1>2, <1>3, <1>7
    <3> QED BY <1>2, <1>7, <3>1 DEF OfferLands
  <2>2. /\ nrx' \in 0..Cap /\ rem' \in 0..MaxLen /\ rem' < n /\ n - rem' = 1
    BY <1>2, <1>3, <1>7, <2>1
  <2>3. pc'[p] = "one"  BY <2>1 DEF Goto, IInv, TypeOK
  <2>4. Doing(p)'  BY <1>1, <2>1, <2>2, <2>3 DEF Doing
  <2>5. PartlyIn' = 1
    <3>1. bus' # <<>> /\ Head(bus') = p  BY <1>1, <2>1, HolderIs
    <3>2. PartlyIn' = (n - rem') - parked'  BY <1>1, <2>3, <3>1 DEF PartlyIn
    <3> QED BY <2>1, <2>2, <3>2
  <2>6. Adds(buffer, (nrx' + ntx') - hand.n, PartlyIn')
    <3> DEFINE all == (nrx + ntx) - hand.n
    <3>1. all \in Nat  BY <1>3, <1>5, AddsIsNat
    <3>2. all + 1 = (nrx' + ntx') - hand.n  BY <1>1, <1>3, <2>1
    <3> HIDE DEF all
    <3>3. Adds(buffer, all + 1, 0 + 1)  BY <1>3, <1>5, <3>1, MoreReserved DEF all
    <3>4. 0 + 1 = 1  OBVIOUS
    <3> QED BY <2>5, <3>2, <3>3, <3>4
  <2>7. ntx' \in Nat /\ parked' \in 0..Cap /\ blocked' \in BOOLEAN
    <3>1. ntx' = ntx /\ blocked' = FALSE  BY <1>1
    <3>2. 0 \in 0..Cap  BY <1>3
    <3>3. ntx \in Nat  BY <1>3
    <3>4. parked' = 0  BY <2>1
    <3> QED BY <3>1, <3>2, <3>3, <3>4
  <2> QED BY <1>1, <2>1, <2>2, <2>4, <2>6, <2>7, HolderStays
<1> QED BY <1>6, <1>7

\* Words of the offer go into one of the levels: x more are counted, x fewer owed.
LEMMA OfferCounts ==
  ASSUME IInv, NEW p \in Producers, Holds(p), pc[p] \in {"one", "fill", "spill"},
         NEW l \in {"fill", "spill"}, Goto(p, l), parked = 0,
         NEW x \in Nat, x <= rem, rem' = rem - x, nrx' + ntx' = (nrx + ntx) + x,
         nrx' \in 0..Cap, ntx' \in Nat,
         UNCHANGED <<job, bus, parked, blocked, buffer, cpc, hand, dropped, failed, begun>>
  PROVE  IInv'
<1> DEFINE n == job[p].n
<1>1. job[p] \in Bursts /\ n \in Nat /\ job[p].kind = "offer" /\ rem < n
  BY HolderIs, BurstIs DEF Doing
<1>2. rem \in 0..MaxLen /\ MaxLen \in Nat /\ hand.n \in Nat /\ buffer \in Seq(Bursts)
      /\ nrx \in Nat /\ ntx \in Nat /\ Cap \in Nat
  <2>1. /\ rem \in 0..MaxLen /\ MaxLen \in Nat /\ hand.n \in 0..MaxLen
        /\ buffer \in Seq(Bursts) /\ nrx \in 0..Cap /\ ntx \in Nat /\ Cap \in Nat
    BY Facts
  <2>2. hand.n \in Nat  BY <2>1
  <2>3. nrx \in Nat  BY <2>1
  <2> QED BY <2>1, <2>2, <2>3
<1>3. rem' \in 0..MaxLen /\ rem' < n  BY <1>1, <1>2
<1>4. pc'[p] = l  BY DEF Goto, IInv, TypeOK
<1>5. Doing(p)'  BY <1>1, <1>3, <1>4 DEF Doing
<1>6. PartlyIn = n - rem
  <2>1. PartlyIn = (n - rem) - parked  BY PartlyIs
  <2>2. PartlyIn = (n - rem) - 0  BY <2>1
  <2>3. (n - rem) - 0 = n - rem  BY <1>1, <1>2
  <2> QED BY <2>2, <2>3
<1>7. PartlyIn' = (n - rem) + x
  <2>1. bus' # <<>> /\ Head(bus') = p  BY HolderIs
  <2>2. PartlyIn' = (n - rem') - parked'  BY <1>4, <2>1 DEF PartlyIn
  <2> QED BY <1>1, <1>2, <2>2
<1>8. Adds(buffer, (nrx' + ntx') - hand.n, PartlyIn')
  <2> DEFINE all == (nrx + ntx) - hand.n  rest == n - rem
  <2>1. Adds(buffer, all, rest)  BY <1>6 DEF IInv, Levels
  <2>2. all \in Nat /\ rest \in Nat  BY <1>2, <2>1, AddsIsNat
  <2>3. all + x = (nrx' + ntx') - hand.n
    <3>1. ((nrx + ntx) - hand.n) + x = ((nrx + ntx) + x) - hand.n  BY <1>2
    <3> QED BY <3>1
  <2> HIDE DEF all, rest
  <2>4. Adds(buffer, all + x, rest + x)  BY <1>2, <2>1, <2>2, MoreReserved
  <2> QED BY <1>7, <2>3, <2>4 DEF rest
<1>9. blocked' \in BOOLEAN /\ parked' \in 0..Cap  BY Facts DEF IInv, TypeOK
<1> QED BY <1>3, <1>5, <1>8, <1>9, HolderStays

LEMMA OfferAdmitsStep ==
  ASSUME IInv, NEW p \in Producers, OfferAdmits(p)
  PROVE  IInv'
<1>1. /\ Holds(p) /\ parked = 0
      /\ UNCHANGED <<job, bus, parked, blocked, dropped, failed, begun>>
  BY DEF OfferAdmits
<1>2. /\ Cap \in Nat /\ nrx \in 0..Cap /\ ntx \in Nat /\ rem \in 0..MaxLen /\ MaxLen \in Nat
      /\ buffer \in Seq(Bursts)
  BY Facts
<1>3. CASE OfferFills(p)
  <2> DEFINE x == Least(rem, Cap - nrx)
  <2>1. x \in Nat /\ x <= rem /\ nrx + x \in 0..Cap  BY <1>2 DEF Least
  <2>2. /\ pc[p] = "one" /\ nrx' = nrx + x /\ rem' = rem - x /\ Goto(p, "fill")
        /\ UNCHANGED <<ntx, buffer, cpc, hand>>
    BY <1>3 DEF OfferFills
  <2> HIDE DEF x
  <2>3. nrx' + ntx' = (nrx + ntx) + x /\ nrx' \in 0..Cap /\ ntx' \in Nat  BY <1>2, <2>1, <2>2
  <2> QED BY <1>1, <2>1, <2>2, <2>3, OfferCounts
<1>4. CASE OfferSpills(p)
  <2>1. /\ pc[p] \in {"one", "fill"} /\ ntx' = ntx + rem /\ rem' = 0 /\ Goto(p, "spill")
        /\ UNCHANGED <<nrx, buffer, cpc, hand>>
    BY <1>4 DEF OfferSpills
  <2>2. /\ rem \in Nat /\ rem <= rem /\ rem' = rem - rem
        /\ nrx' + ntx' = (nrx + ntx) + rem /\ nrx' \in 0..Cap /\ ntx' \in Nat
    BY <1>2, <2>1
  <2> QED BY <1>1, <2>1, <2>2, OfferCounts
<1>5. CASE OfferStores(p)
  <2>1. /\ pc[p] \in {"one", "fill", "spill"} /\ rem = 0 /\ Store(job[p]) /\ Goto(p, "stored")
        /\ UNCHANGED <<nrx, ntx, rem>>
    BY <1>5 DEF OfferStores
  <2>2. job[p] \in Bursts /\ job[p].n \in Nat /\ job[p].kind = "offer" /\ bus # <<>> /\ Head(bus) = p
    BY <1>1, <2>1, HolderIs, BurstIs DEF Doing
  <2>3. Adds(buffer, (nrx + ntx) - hand.n, job[p].n)
    <3>1. PartlyIn = (job[p].n - rem) - parked  BY <1>1, <2>1, PartlyIs
    <3>2. PartlyIn = job[p].n  BY <1>1, <2>1, <2>2, <3>1
    <3> QED BY <3>2 DEF IInv, Levels
  <2>4. nrx + ntx \in Nat  BY <1>2
  <2>5. /\ buffer' \in Seq(Bursts) /\ cpc' \in {"run", "wait", "handed"}
        /\ hand' \in Bursts \cup {NoJob}
        /\ Handed' /\ Adds(buffer', (nrx + ntx) - hand'.n, 0)
    BY <2>1, <2>2, <2>3, <2>4, StoreKeeps
  <2>6. pc'[p] = "stored"  BY <2>1 DEF Goto, IInv, TypeOK
  <2>7. Line'  BY <1>1, <2>1, LineKept
  <2>8. Holder'
    <3>1. Head(bus') = p  BY <1>1, <2>2
    <3>2. Doing(Head(bus))'  BY <1>1, <2>2, <2>6, <3>1 DEF Doing
    <3> QED BY <1>1, <2>2, <3>2 DEF Holder
  <2>9. PartlyIn' = 0  BY <1>1, <2>2, <2>6 DEF PartlyIn
  <2>10. Levels'  BY <2>1, <2>5, <2>9 DEF Levels
  <2>11. TypeOK'
    <3>1. pc' \in [Producers -> {"idle", "settle", "air", "room", "one", "fill", "spill", "stored"}]
      BY <2>1 DEF Goto, IInv, TypeOK
    <3> QED BY <1>1, <2>1, <2>5, <3>1 DEF IInv, TypeOK
  <2> QED BY <1>1, <2>5, <2>7, <2>8, <2>10, <2>11 DEF IInv, NeverFails
<1> QED BY <1>3, <1>4, <1>5 DEF OfferAdmits

LEMMA OfferReturnsStep ==
  ASSUME IInv, NEW p \in Producers, OfferReturns(p)
  PROVE  IInv'
<1>1. /\ Holds(p) /\ pc[p] = "stored" /\ bus' = Tail(bus) /\ Goto(p, "idle")
      /\ UNCHANGED <<job, parked, rem, blocked, buffer, nrx, ntx, cpc, hand, dropped, failed, begun>>
  BY DEF OfferReturns
<1>2. parked = 0 /\ PartlyIn = 0  BY <1>1, HolderIs, PartlyIs DEF Doing
<1>3. Line' /\ Holder' /\ bus' \in Seq(Producers) /\ PartlyIn' = 0
  BY <1>1, <1>2, LineMoves
<1>4. TypeOK'
  <2>1. pc' \in [Producers -> {"idle", "settle", "air", "room", "one", "fill", "spill", "stored"}]
    BY <1>1 DEF Goto, IInv, TypeOK
  <2> QED BY <1>1, <1>3, <2>1 DEF IInv, TypeOK
<1>5. Handed' /\ Levels'  BY <1>1, <1>2, <1>3 DEF IInv, Handed, Levels
<1> QED BY <1>1, <1>3, <1>4, <1>5 DEF IInv, NeverFails

-----------------------------------------------------------------------------
\* n words go out, from ntx first; what a parked put gets of them is counted again.
LEMMA RetireKeeps ==
  ASSUME IInv, NEW n \in Nat, n <= nrx + ntx, Retire(n), UNCHANGED <<pc, job, bus, rem, blocked>>
  PROVE  /\ UNCHANGED failed /\ nrx' \in 0..Cap /\ ntx' \in Nat /\ parked' \in 0..Cap /\ Holder'
         /\ \E g \in Nat : /\ nrx' + ntx' = ((nrx + ntx) - n) + g
                           /\ PartlyIn' = PartlyIn + g
<1> DEFINE btx == Least(n, ntx)  brx == n - btx  rest == nrx - brx
<1>1. /\ Cap \in Nat /\ nrx \in 0..Cap /\ ntx \in Nat /\ parked \in 0..Cap
  BY Facts
<1>2. btx \in 0..ntx /\ brx \in 0..nrx /\ btx + brx = n  BY <1>1 DEF Least
<1>3. /\ ntx' = ntx - btx
      /\ IF brx > nrx THEN failed' = TRUE /\ UNCHANGED <<nrx, parked>>
         ELSE /\ UNCHANGED failed
              /\ IF brx > 0 /\ parked > 0 /\ Cap - rest >= parked
                   THEN nrx' = rest + parked /\ parked' = 0
                   ELSE nrx' = rest /\ UNCHANGED parked
  BY DEF Retire
<1> HIDE DEF btx, brx
<1>4. ~(brx > nrx) /\ rest \in 0..Cap /\ rest <= nrx  BY <1>1, <1>2
<1>5. failed' = failed  BY <1>3, <1>4
<1>6. ntx' \in Nat  BY <1>1, <1>2, <1>3
<1>7. PartlyIn \in Int
  <2>1. PartlyIn \in Nat  BY Facts, AddsIsNat DEF IInv, Levels
  <2> QED BY <2>1
<1>8. CASE parked > 0 /\ nrx' = rest + parked /\ parked' = 0 /\ Cap - rest >= parked
  <2>1. nrx' \in 0..Cap /\ nrx' + ntx' = ((nrx + ntx) - n) + parked
    BY <1>1, <1>2, <1>3, <1>4, <1>8
  <2>2. bus # <<>> /\ Doing(Head(bus))  BY <1>1, <1>8 DEF IInv, Holder
  <2>3. pc[Head(bus)] = "room" /\ parked = Least(job[Head(bus)].n, Cap)
    BY <1>1, <1>8, <2>2 DEF Doing
  <2>4. PartlyIn = 0 /\ PartlyIn' = parked
    BY <1>1, <1>8, <2>2, <2>3 DEF PartlyIn
  <2>5. Holder'
    <3>1. Doing(Head(bus))'  BY <1>8, <2>2, <2>3 DEF Doing
    <3> QED BY <2>2, <3>1 DEF Holder
  <2>6. parked \in Nat /\ PartlyIn' = PartlyIn + parked  BY <1>1, <2>4
  <2>7. parked' \in 0..Cap  BY <1>1, <1>8
  <2> QED BY <1>5, <1>6, <2>1, <2>5, <2>6, <2>7
<1>9. CASE nrx' = rest /\ parked' = parked
  <2>1. nrx' \in 0..Cap /\ nrx' <= nrx /\ nrx' + ntx' = ((nrx + ntx) - n) + 0
    BY <1>1, <1>2, <1>3, <1>4, <1>9
  <2>2. PartlyIn' = PartlyIn  BY <1>9 DEF PartlyIn
  <2>3. PartlyIn' = PartlyIn + 0  BY <1>7, <2>2
  <2>4. Holder'
    <3>1. nrx < Cap => nrx' < Cap  BY <1>1, <2>1
    <3>2. bus # <<>> => Doing(Head(bus))'  BY <1>9, <3>1 DEF IInv, Holder, Doing
    <3> QED BY <1>9, <3>2 DEF IInv, Holder
  <2>5. 0 \in Nat /\ parked' \in 0..Cap  BY <1>1, <1>9
  <2> QED BY <1>5, <1>6, <2>1, <2>3, <2>4, <2>5
<1> QED BY <1>3, <1>4, <1>8, <1>9

LEMMA GetStep == ASSUME IInv, Get PROVE IInv'
<1> DEFINE b == Head(buffer)
<1>1. /\ cpc = "run" /\ buffer # <<>> /\ Retire(b.n) /\ buffer' = Tail(buffer)
      /\ UNCHANGED <<pc, job, bus, rem, blocked, cpc, hand, dropped, begun>>
  BY DEF Get
<1>2. buffer \in Seq(Bursts) /\ nrx \in Nat /\ ntx \in Nat  BY Facts
<1>3. b \in Bursts /\ Tail(buffer) \in Seq(Bursts)  BY <1>1, <1>2, HeadTailProperties
<1>4. b.n \in Nat  BY <1>3, BurstIs
<1>5. hand = NoJob /\ hand.n = 0  BY <1>1 DEF IInv, Handed, NoJob
<1>6. Adds(buffer, nrx + ntx, PartlyIn)
  <2>1. (nrx + ntx) - hand.n = nrx + ntx  BY <1>2, <1>5
  <2> QED BY <2>1 DEF IInv, Levels
<1>7. /\ (nrx + ntx) - b.n \in Nat /\ Adds(Tail(buffer), (nrx + ntx) - b.n, PartlyIn)
  BY <1>1, <1>2, <1>6, BurstTaken
<1> HIDE DEF b
<1>8. b.n <= nrx + ntx  BY <1>2, <1>4, <1>7
<1>9. /\ UNCHANGED failed /\ nrx' \in 0..Cap /\ ntx' \in Nat /\ parked' \in 0..Cap /\ Holder'
      /\ \E g \in Nat : /\ nrx' + ntx' = ((nrx + ntx) - b.n) + g
                        /\ PartlyIn' = PartlyIn + g
  BY <1>1, <1>4, <1>8, RetireKeeps
<1>10. Levels'
  <2>1. PICK g \in Nat : /\ nrx' + ntx' = ((nrx + ntx) - b.n) + g
                         /\ PartlyIn' = PartlyIn + g
    BY <1>9
  <2>2. PartlyIn \in Nat  BY <1>3, <1>7, AddsIsNat
  <2>3. Adds(Tail(buffer), ((nrx + ntx) - b.n) + g, PartlyIn + g)
    BY <1>3, <1>7, <2>2, MoreReserved
  <2>4. (nrx' + ntx') - hand'.n = ((nrx + ntx) - b.n) + g  BY <1>1, <1>5, <1>7, <2>1
  <2> QED BY <1>1, <2>1, <2>3, <2>4 DEF Levels
<1>11. TypeOK'
  <2>1. /\ pc' = pc /\ job' = job /\ bus' = bus /\ rem' = rem /\ blocked' = blocked
        /\ dropped' = dropped /\ begun' = begun /\ failed' = failed
        /\ cpc' = cpc /\ hand' = hand
    BY <1>1, <1>9
  <2>2. buffer' \in Seq(Bursts)  BY <1>1, <1>3
  <2>3. nrx' \in 0..Cap /\ ntx' \in Nat /\ parked' \in 0..Cap  BY <1>9
  <2> QED BY <2>1, <2>2, <2>3 DEF IInv, TypeOK
<1>12. Line' /\ Handed'  BY <1>1 DEF IInv, Line, Waits, Handed
<1>13. NeverFails'  BY <1>9 DEF IInv, NeverFails
<1> QED BY <1>9, <1>10, <1>11, <1>12, <1>13 DEF IInv

LEMMA GetWaitsStep == ASSUME IInv, GetWaits PROVE IInv'
<1> USE DEF GetWaits
<1>1. TypeOK'  BY DEF IInv, TypeOK
<1>2. Line' /\ Handed'  BY DEF IInv, Line, Waits, Handed
<1>3. Holder'  BY DEF IInv, Holder, Doing
<1>4. Levels'
  <2>1. PartlyIn' = PartlyIn  BY DEF PartlyIn
  <2> QED BY <2>1 DEF IInv, Levels
<1> QED BY <1>1, <1>2, <1>3, <1>4 DEF IInv, NeverFails

LEMMA GetResumesStep == ASSUME IInv, GetResumes PROVE IInv'
<1>1. /\ cpc = "handed" /\ Retire(hand.n) /\ cpc' = "run" /\ hand' = NoJob
      /\ UNCHANGED <<pc, job, bus, rem, blocked, buffer, dropped, begun>>
  BY DEF GetResumes
<1>2. buffer \in Seq(Bursts) /\ nrx \in Nat /\ ntx \in Nat  BY Facts
<1>3. hand.n \in Nat  BY <1>1, BurstIs DEF IInv, Handed
<1>4. Adds(buffer, (nrx + ntx) - hand.n, PartlyIn)  BY DEF IInv, Levels
<1>5. (nrx + ntx) - hand.n \in Nat /\ PartlyIn \in Nat  BY <1>2, <1>4, AddsIsNat
<1>6. hand.n <= nrx + ntx  BY <1>2, <1>3, <1>5
<1>7. /\ UNCHANGED failed /\ nrx' \in 0..Cap /\ ntx' \in Nat /\ parked' \in 0..Cap /\ Holder'
      /\ \E g \in Nat : /\ nrx' + ntx' = ((nrx + ntx) - hand.n) + g
                        /\ PartlyIn' = PartlyIn + g
  BY <1>1, <1>3, <1>6, RetireKeeps
<1>8. Levels'
  <2>1. PICK g \in Nat : /\ nrx' + ntx' = ((nrx + ntx) - hand.n) + g
                         /\ PartlyIn' = PartlyIn + g
    BY <1>7
  <2>2. Adds(buffer, ((nrx + ntx) - hand.n) + g, PartlyIn + g)
    BY <1>2, <1>4, <1>5, MoreReserved
  <2>3. hand'.n = 0  BY <1>1 DEF NoJob
  <2>4. (nrx' + ntx') - hand'.n = ((nrx + ntx) - hand.n) + g  BY <1>5, <2>1, <2>3
  <2> QED BY <1>1, <2>1, <2>2, <2>4 DEF Levels
<1>9. TypeOK'
  <2>1. /\ pc' = pc /\ job' = job /\ bus' = bus /\ rem' = rem /\ blocked' = blocked
        /\ dropped' = dropped /\ begun' = begun /\ failed' = failed
        /\ cpc' = "run" /\ hand' = NoJob
    BY <1>1, <1>7
  <2>2. buffer' \in Seq(Bursts)  BY <1>1, <1>2
  <2>3. nrx' \in 0..Cap /\ ntx' \in Nat /\ parked' \in 0..Cap  BY <1>7
  <2> QED BY <2>1, <2>2, <2>3 DEF IInv, TypeOK
<1>10. Line' /\ Handed'  BY <1>1 DEF IInv, Line, Waits, Handed
<1>11. NeverFails'  BY <1>7 DEF IInv, NeverFails
<1> QED BY <1>7, <1>8, <1>9, <1>10, <1>11 DEF IInv

-----------------------------------------------------------------------------
LEMMA NextIInv == ASSUME IInv, [Next]_vars PROVE IInv'
<1>1. CASE UNCHANGED vars
  <2> USE <1>1 DEF vars
  <2>1. TypeOK' /\ Line' /\ Handed'  BY DEF IInv, TypeOK, Line, Waits, Handed
  <2>2. Holder'  BY DEF IInv, Holder, Doing
  <2>3. PartlyIn' = PartlyIn  BY DEF PartlyIn
  <2> QED BY <2>1, <2>2, <2>3 DEF IInv, NeverFails, Levels
<1>2. ASSUME NEW p \in Producers, Step(p) PROVE IInv'
  BY <1>2, WriteLandsStep, WriteResumesStep, OfferLooksStep, OfferLandsStep,
     OfferAdmitsStep, OfferReturnsStep DEF Step
<1>3. ASSUME NEW p \in Producers, NEW k \in Kinds, NEW n \in 1..MaxLen, Ask(p, k, n)
      PROVE  IInv'
  BY <1>3, AskStep
<1>4. CASE Reader  BY <1>4, GetStep, GetWaitsStep, GetResumesStep DEF Reader
<1> QED BY <1>1, <1>2, <1>3, <1>4 DEF Next

LEMMA Inductive == Spec => []IInv
<1>1. IInv /\ [Next]_vars => IInv'  BY NextIInv
<1> QED BY InitIInv, <1>1, PTL DEF Spec

-----------------------------------------------------------------------------
\* Every variable of the channel keeps its type: nrx never above the queue's size,
\* ntx never below zero.
THEOREM TypeCorrect == Spec => []TypeOK
<1>1. IInv => TypeOK  BY DEF IInv
<1> QED BY <1>1, Inductive, PTL

\* The reader never finds fewer words in the two levels than its burst has, whichever
\* of them write and offer have counted the burst in.
THEOREM ReaderNeverFails == Spec => []NeverFails
<1>1. IInv => NeverFails  BY DEF IInv
<1> QED BY <1>1, Inductive, PTL

\* An offer that found room is never parked: while it holds the bus nobody else can
\* take the room.
THEOREM OffersGoThrough == Spec => []OfferNeverWaits
<1>1. ASSUME IInv PROVE OfferNeverWaits
  <2> SUFFICES ASSUME parked > 0 PROVE job[Head(bus)].kind = "write"
    BY DEF OfferNeverWaits
  <2>1. parked # 0  BY Facts
  <2>2. Doing(Head(bus))  BY <1>1, <2>1 DEF IInv, Holder
  <2> QED BY <2>1, <2>2 DEF Doing
<1>2. IInv => OfferNeverWaits  BY <1>1
<1> QED BY <1>2, Inductive, PTL

-----------------------------------------------------------------------------
\* Every step of the channel is a step of BurstFifo or none: the safety part of
\* IsBurstFifo.  The transfers asked for are the jobs along the line for the bus, so
\* each step is followed on that line: a request lengthens it, the holder leaves it
\* with its burst stored or dropped.

\* The jobs along a line of producers.
JobsOf(f, line) == [i \in 1..Len(line) |-> f[line[i]]]

\* The two variables of BurstFifo.
Asked == JobsOf(job, InLine)
Inside == IF cpc = "handed" THEN <<hand>> \o buffer ELSE buffer

\* A step of BurstFifo, or none.
FifoStep == Abs!Next \/ (Asked' = Asked /\ Inside' = Inside)

-----------------------------------------------------------------------------
LEMMA JobsAreBursts ==
  ASSUME NEW f, NEW line \in Seq(Producers), \A i \in 1..Len(line) : f[line[i]] \in Bursts
  PROVE  /\ JobsOf(f, line) \in Seq(Bursts) /\ Len(JobsOf(f, line)) = Len(line)
         /\ \A i \in 1..Len(line) : JobsOf(f, line)[i] = f[line[i]]
<1>1. Len(line) \in Nat  BY LenProperties
<1>2. JobsOf(f, line) \in [1..Len(line) -> Bursts]  BY DEF JobsOf
<1>3. JobsOf(f, line) \in Seq(Bursts)  BY <1>1, <1>2, SeqDef
<1>4. DOMAIN JobsOf(f, line) = 1..Len(JobsOf(f, line)) /\ Len(JobsOf(f, line)) \in Nat
  BY <1>3, LenProperties
<1>5. 1..Len(line) = 1..Len(JobsOf(f, line))  BY <1>2, <1>4
<1>6. Len(JobsOf(f, line)) = Len(line)  BY <1>1, <1>4, <1>5
<1> QED BY <1>3, <1>6 DEF JobsOf

LEMMA JobsLeave ==
  ASSUME NEW f, NEW line \in Seq(Producers), line # <<>>,
         \A i \in 1..Len(line) : f[line[i]] \in Bursts
  PROVE  /\ JobsOf(f, line) # <<>> /\ Head(JobsOf(f, line)) = f[Head(line)]
         /\ JobsOf(f, Tail(line)) = Tail(JobsOf(f, line))
<1> DEFINE s == JobsOf(f, line)  rest == Tail(line)  t == JobsOf(f, rest)
<1>1. /\ s \in Seq(Bursts) /\ Len(s) = Len(line)
      /\ \A i \in 1..Len(line) : s[i] = f[line[i]]
  BY JobsAreBursts
<1>2. Len(line) \in Nat /\ Len(line) >= 1  BY EmptySeq
<1>3. s # <<>>  BY <1>1, <1>2, EmptySeq
<1>4. Head(s) = s[1] /\ Head(line) = line[1]  BY <1>1, <1>3
<1>5. 1 \in 1..Len(line)  BY <1>2
<1>6. /\ rest \in Seq(Producers) /\ Len(rest) = Len(line) - 1
      /\ \A i \in 1..Len(rest) : rest[i] = line[i + 1]
  BY HeadTailProperties
<1>7. /\ Tail(s) \in Seq(Bursts) /\ Len(Tail(s)) = Len(s) - 1
      /\ \A i \in 1..Len(Tail(s)) : Tail(s)[i] = s[i + 1]
  BY <1>1, <1>3, HeadTailProperties
<1> HIDE DEF rest
<1>8. \A i \in 1..Len(rest) : i + 1 \in 1..Len(line)  BY <1>2, <1>6
<1>9. \A i \in 1..Len(rest) : f[rest[i]] \in Bursts  BY <1>6, <1>8
<1>10. /\ t \in Seq(Bursts) /\ Len(t) = Len(rest)
       /\ \A i \in 1..Len(rest) : t[i] = f[rest[i]]
  BY <1>6, <1>9, JobsAreBursts
<1> HIDE DEF s, t
<1>11. Len(t) = Len(Tail(s))  BY <1>1, <1>6, <1>7, <1>10
<1>12. \A i \in 1..Len(t) : t[i] = Tail(s)[i]
  BY <1>1, <1>6, <1>7, <1>8, <1>10, <1>11
<1>13. t = Tail(s)  BY <1>7, <1>10, <1>11, <1>12, SeqEqual
<1> QED BY <1>1, <1>3, <1>4, <1>5, <1>13 DEF s, t, rest

LEMMA JobsJoin ==
  ASSUME NEW f, NEW g, NEW line \in Seq(Producers), NEW p \in Producers, g[p] \in Bursts,
         \A i \in 1..Len(line) : f[line[i]] \in Bursts /\ g[line[i]] = f[line[i]]
  PROVE  JobsOf(g, Append(line, p)) = Append(JobsOf(f, line), g[p])
<1> DEFINE s == JobsOf(f, line)  more == Append(line, p)  t == JobsOf(g, more)
           u == Append(s, g[p])
<1>1. /\ s \in Seq(Bursts) /\ Len(s) = Len(line)
      /\ \A i \in 1..Len(line) : s[i] = f[line[i]]
  BY JobsAreBursts
<1>2. Len(line) \in Nat  BY LenProperties
<1>3. /\ more \in Seq(Producers) /\ Len(more) = Len(line) + 1
      /\ \A i \in 1..Len(line) : more[i] = line[i]
      /\ more[Len(line) + 1] = p
  BY AppendProperties
<1>4. /\ u \in Seq(Bursts) /\ Len(u) = Len(s) + 1
      /\ \A i \in 1..Len(s) : u[i] = s[i]
      /\ u[Len(s) + 1] = g[p]
  BY <1>1, AppendProperties
<1> HIDE DEF s, more, u
<1>5. \A i \in 1..Len(more) : i \in 1..Len(line) \/ i = Len(line) + 1  BY <1>2, <1>3
<1>6. \A i \in 1..Len(more) : g[more[i]] \in Bursts  BY <1>3, <1>5
<1>7. /\ t \in Seq(Bursts) /\ Len(t) = Len(more)
      /\ \A i \in 1..Len(more) : t[i] = g[more[i]]
  BY <1>3, <1>6, JobsAreBursts
<1> HIDE DEF t
<1>8. Len(t) = Len(u)  BY <1>1, <1>3, <1>4, <1>7
<1>9. ASSUME NEW i \in 1..Len(t) PROVE t[i] = u[i]
  <2>1. i \in 1..Len(more) /\ t[i] = g[more[i]]  BY <1>7, <1>9
  <2>2. CASE i \in 1..Len(line)
    <3>1. t[i] = f[line[i]]  BY <1>3, <2>1, <2>2
    <3>2. u[i] = f[line[i]]  BY <1>1, <1>4, <2>2
    <3> QED BY <3>1, <3>2
  <2>3. CASE i = Len(line) + 1
    <3>1. t[i] = g[p]  BY <1>3, <2>1, <2>3
    <3>2. u[i] = g[p]  BY <1>1, <1>4, <2>3
    <3> QED BY <3>1, <3>2
  <2> QED BY <1>5, <2>1, <2>2, <2>3
<1>10. t = u  BY <1>4, <1>7, <1>8, <1>9, SeqEqual
<1> QED BY <1>10 DEF s, t, u, more

-----------------------------------------------------------------------------
\* The steps of BurstFifo, in terms of Asked and Inside.
LEMMA Enters ==
  ASSUME Asked # <<>>, Inside' = Append(Inside, Head(Asked)), Asked' = Tail(Asked)
  PROVE  FifoStep
BY DEF FifoStep, Abs!Next, Abs!Enter, Asked, Inside, JobsOf

LEMMA IsLost ==
  ASSUME Asked # <<>>, Head(Asked).kind = "offer", Asked' = Tail(Asked), Inside' = Inside
  PROVE  FifoStep
BY DEF FifoStep, Abs!Next, Abs!Lose, Asked, Inside, JobsOf

LEMMA IsReceived ==
  ASSUME Inside # <<>>, Inside' = Tail(Inside), Asked' = Asked
  PROVE  FifoStep
BY DEF FifoStep, Abs!Next, Abs!Receive, Asked, Inside, JobsOf

LEMMA IsAsked ==
  ASSUME NEW b \in Bursts, Asked' = Append(Asked, b), Inside' = Inside
  PROVE  FifoStep
BY DEF FifoStep, Abs!Next, Abs!Ask, Asked, Inside, JobsOf

-----------------------------------------------------------------------------
LEMMA LineHas ==
  ASSUME IInv
  PROVE  /\ bus \in Seq(Producers) /\ \A i \in 1..Len(bus) : job[bus[i]] \in Bursts
         /\ bus # <<>> => /\ Tail(bus) \in Seq(Producers)
                          /\ \A i \in 1..Len(Tail(bus)) : job[Tail(bus)[i]] \in Bursts
<1>1. bus \in Seq(Producers) /\ \A i \in 1..Len(bus) : job[bus[i]] \in Bursts
  BY Facts DEF IInv, Line
<1>2. ASSUME bus # <<>>
      PROVE  /\ Tail(bus) \in Seq(Producers)
             /\ \A i \in 1..Len(Tail(bus)) : job[Tail(bus)[i]] \in Bursts
  <2>1. Len(bus) \in Nat  BY Facts
  <2>2. /\ Tail(bus) \in Seq(Producers) /\ Len(Tail(bus)) = Len(bus) - 1
        /\ \A i \in 1..Len(Tail(bus)) : Tail(bus)[i] = bus[i + 1]
    BY <1>1, <1>2, HeadTailProperties
  <2>3. \A i \in 1..Len(Tail(bus)) : i + 1 \in 1..Len(bus)  BY <2>1, <2>2
  <2> QED BY <1>1, <2>2, <2>3
<1> QED BY <1>1, <1>2

\* With the holder gone, the next in line has done nothing ...
LEMMA NextWaits ==
  ASSUME IInv, NEW p \in Producers, Holds(p), bus' = Tail(bus), Goto(p, "idle"), bus' # <<>>
  PROVE  pc'[Head(bus')] \in {"air", "settle"}
<1>1. bus \in Seq(Producers) /\ bus # <<>> /\ Len(bus) \in Nat  BY Facts, HolderIs
<1>2. /\ Tail(bus) \in Seq(Producers) /\ Len(Tail(bus)) = Len(bus) - 1
      /\ \A i \in 1..Len(Tail(bus)) : Tail(bus)[i] = bus[i + 1]
  BY <1>1, HeadTailProperties
<1> DEFINE q == Head(bus')
<1>3. Len(Tail(bus)) >= 1  BY <1>2, EmptySeq
<1>4. 1 \in 1..Len(Tail(bus)) /\ 2 \in 2..Len(bus) /\ 2 \in 1..Len(bus)
  BY <1>1, <1>2, <1>3
<1>5. q = Tail(bus)[1]  BY <1>2
<1>6. Tail(bus)[1] = bus[2]
  <2>1. Tail(bus)[1] = bus[1 + 1]  BY <1>2, <1>4
  <2>2. 1 + 1 = 2  OBVIOUS
  <2> QED BY <2>1, <2>2, Zenon
<1>7. Waits(bus[2])  BY <1>4 DEF IInv, Line
<1>8. bus[2] # p /\ bus[2] \in Producers  BY <1>1, <1>4, HolderIs, ElementOfSeq
<1>9. pc \in [Producers -> {"idle", "settle", "air", "room", "one", "fill", "spill", "stored"}]
  BY DEF IInv, TypeOK
<1>10. pc'[bus[2]] = pc[bus[2]]  BY <1>8, <1>9 DEF Goto
<1> QED BY <1>5, <1>6, <1>7, <1>10 DEF Waits

\* ... so the whole line still asks.
LEMMA Leaves ==
  ASSUME IInv, NEW p \in Producers, Holds(p), bus' = Tail(bus), Goto(p, "idle")
  PROVE  InLine' = Tail(bus)
<1>1. bus' # <<>> => pc'[Head(bus')] # "stored"  BY NextWaits
<1> QED BY <1>1 DEF InLine

\* The holder's burst goes into the buffer, or to the reader that waits for one.
LEMMA StoreAppends ==
  ASSUME IInv, NEW b \in Bursts, Store(b)
  PROVE  Inside' = Append(Inside, b)
<1>1. buffer \in Seq(Bursts) /\ cpc \in {"run", "wait", "handed"}  BY DEF IInv, TypeOK
<1>2. CASE cpc = "wait"
  <2>1. cpc' = "handed" /\ hand' = b /\ buffer' = <<>> /\ buffer = <<>>
    BY <1>2 DEF Store, IInv, Handed
  <2>2. Inside = <<>>  BY <1>2, <2>1 DEF Inside
  <2>3. Inside' = <<b>> \o <<>>  BY <2>1 DEF Inside
  <2>4. <<b>> \in Seq(Bursts)  OBVIOUS
  <2>5. <<b>> \o <<>> = <<b>>  BY <2>4, ConcatEmptySeq
  <2> QED BY <2>2, <2>3, <2>5
<1>3. CASE cpc = "run"
  <2>1. cpc' = cpc /\ buffer' = Append(buffer, b)  BY <1>3 DEF Store
  <2> QED BY <1>3, <2>1 DEF Inside
<1>4. CASE cpc = "handed"
  <2>1. cpc' = cpc /\ hand' = hand /\ buffer' = Append(buffer, b)  BY <1>4 DEF Store
  <2>2. hand \in Bursts  BY <1>4 DEF IInv, Handed
  <2>3. Inside = <<hand>> \o buffer /\ Inside' = <<hand>> \o Append(buffer, b)
    BY <1>4, <2>1 DEF Inside
  <2>4. <<hand>> \in Seq(Bursts) /\ <<b>> \in Seq(Bursts)  BY <2>2
  <2>5. Append(buffer, b) = buffer \o <<b>>  BY <1>1, AppendIsConcat
  <2>6. (<<hand>> \o buffer) \o <<b>> = <<hand>> \o (buffer \o <<b>>)
    BY <1>1, <2>4, ConcatAssociative
  <2>7. <<hand>> \o buffer \in Seq(Bursts)  BY <1>1, <2>4, ConcatProperties
  <2>8. Append(<<hand>> \o buffer, b) = (<<hand>> \o buffer) \o <<b>>
    BY <2>7, AppendIsConcat
  <2> QED BY <2>3, <2>5, <2>6, <2>8
<1> QED BY <1>1, <1>2, <1>3, <1>4

\* The first of those who ask enters.
LEMMA HolderEnters ==
  ASSUME IInv, NEW p \in Producers, Holds(p), pc[p] # "stored", Store(job[p]),
         job' = job, InLine' = Tail(bus)
  PROVE  FifoStep
<1>1. bus # <<>> /\ Head(bus) = p /\ job[p] \in Bursts  BY HolderIs
<1>2. InLine = bus  BY <1>1 DEF InLine
<1>3. /\ JobsOf(job, bus) # <<>> /\ Head(JobsOf(job, bus)) = job[Head(bus)]
      /\ JobsOf(job, Tail(bus)) = Tail(JobsOf(job, bus))
  BY <1>1, LineHas, JobsLeave
<1>4. Asked # <<>> /\ Head(Asked) = job[p]  BY <1>1, <1>2, <1>3 DEF Asked
<1>5. Asked' = Tail(Asked)  BY <1>2, <1>3 DEF Asked
<1>6. Inside' = Append(Inside, Head(Asked))  BY <1>1, <1>4, StoreAppends
<1> QED BY <1>4, <1>5, <1>6, Enters

\* Nothing enters or leaves.
LEMMA HolderGoesOn ==
  ASSUME IInv, NEW p \in Producers, Holds(p), pc[p] # "stored", NEW l, l # "stored",
         Goto(p, l), UNCHANGED <<bus, job, cpc, hand, buffer>>
  PROVE  FifoStep
<1>1. bus # <<>> /\ Head(bus) = p  BY HolderIs
<1>2. pc \in [Producers -> {"idle", "settle", "air", "room", "one", "fill", "spill", "stored"}]
  BY DEF IInv, TypeOK
<1>3. pc'[p] # "stored"  BY <1>2 DEF Goto
<1>4. InLine = bus /\ InLine' = bus  BY <1>1, <1>3 DEF InLine
<1>5. Asked' = Asked  BY <1>4 DEF Asked
<1>6. Inside' = Inside  BY DEF Inside
<1> QED BY <1>5, <1>6 DEF FifoStep

-----------------------------------------------------------------------------
LEMMA AskIsFifo ==
  ASSUME IInv, NEW p \in Producers, NEW k \in Kinds, NEW n \in 1..MaxLen, Ask(p, k, n)
  PROVE  FifoStep
<1> DEFINE b == [id |-> begun + 1, kind |-> k, n |-> n]
<1>1. /\ pc[p] = "idle" /\ begun < MaxBursts /\ job' = [job EXCEPT ![p] = b]
      /\ bus' = Append(bus, p) /\ UNCHANGED <<buffer, cpc, hand>>
      /\ pc' = [pc EXCEPT ![p] = IF k = "write" THEN "air" ELSE "settle"]
  BY DEF Ask, Goto
<1>2. b \in Bursts
  <2>1. begun \in 0..MaxBursts /\ MaxBursts \in Nat  BY Facts DEF IInv, TypeOK
  <2>2. begun + 1 \in 1..MaxBursts  BY <1>1, <2>1
  <2> QED BY <2>2 DEF Bursts
<1> HIDE DEF b
<1>3. /\ pc \in [Producers -> {"idle", "settle", "air", "room", "one", "fill", "spill", "stored"}]
      /\ job \in [Producers -> Bursts \union {NoJob}]
  BY DEF IInv, TypeOK
<1>4. /\ pc'[p] # "stored" /\ job'[p] = b
      /\ \A q \in Producers : q # p => pc'[q] = pc[q] /\ job'[q] = job[q]
  BY <1>1, <1>3
<1>5. bus \in Seq(Producers) /\ Len(bus) \in Nat  BY Facts
<1>6. ASSUME NEW line \in Seq(Producers),
             \A i \in 1..Len(line) : line[i] # p /\ job[line[i]] \in Bursts
      PROVE  JobsOf(job', Append(line, p)) = Append(JobsOf(job, line), b)
  <2>1. \A i \in 1..Len(line) : line[i] \in Producers  BY ElementOfSeq
  <2>2. \A i \in 1..Len(line) : job[line[i]] \in Bursts /\ job'[line[i]] = job[line[i]]
    BY <1>4, <1>6, <2>1
  <2> QED BY <1>2, <1>4, <2>2, JobsJoin
<1>7. Inside' = Inside  BY <1>1 DEF Inside
<1>8. \A i \in 1..Len(bus) : bus[i] # p  BY <1>1 DEF IInv, Line
<1>9. Asked' = Append(Asked, b)
  <2>1. CASE bus = <<>>
    <3>1. Append(bus, p) # <<>> /\ Head(Append(bus, p)) = p
      BY <2>1
    <3>2. InLine = bus /\ InLine' = Append(bus, p)  BY <1>1, <1>4, <2>1, <3>1 DEF InLine
    <3>3. JobsOf(job', Append(bus, p)) = Append(JobsOf(job, bus), b)
      BY <1>5, <1>6, <1>8, LineHas
    <3> QED BY <3>2, <3>3 DEF Asked
  <2>2. CASE bus # <<>>
    <3> DEFINE q == Head(bus)
    <3>1. q \in Producers /\ q = bus[1] /\ Len(bus) >= 1  BY <1>5, <2>2, EmptySeq
    <3>2. q # p  BY <1>5, <1>8, <3>1
    <3>3. /\ Append(bus, p) # <<>> /\ Append(bus, p)[1] = bus[1]
          /\ Append(bus, p) \in Seq(Producers)
      BY <1>5, <3>1, AppendProperties
    <3>4. Head(Append(bus, p)) = q  BY <3>1, <3>3
    <3>5. pc'[q] = pc[q]  BY <1>4, <3>1, <3>2
    <3>6. CASE pc[q] # "stored"
      <4>1. InLine = bus /\ InLine' = Append(bus, p)
        BY <1>1, <2>2, <3>3, <3>4, <3>5, <3>6 DEF InLine
      <4>2. JobsOf(job', Append(bus, p)) = Append(JobsOf(job, bus), b)
        BY <1>5, <1>6, <1>8, LineHas
      <4> QED BY <4>1, <4>2 DEF Asked
    <3>7. CASE pc[q] = "stored"
      <4>1. InLine = Tail(bus) /\ InLine' = Tail(Append(bus, p))
        BY <1>1, <2>2, <3>3, <3>4, <3>5, <3>7 DEF InLine
      <4>2. Tail(Append(bus, p)) = Append(Tail(bus), p)  BY <1>5, <2>2
      <4>3. /\ Tail(bus) \in Seq(Producers)
            /\ \A i \in 1..Len(Tail(bus)) : job[Tail(bus)[i]] \in Bursts
        BY <2>2, LineHas
      <4>4. \A i \in 1..Len(Tail(bus)) : Tail(bus)[i] # p
        <5>1. /\ Len(Tail(bus)) = Len(bus) - 1
              /\ \A i \in 1..Len(Tail(bus)) : Tail(bus)[i] = bus[i + 1]
          BY <1>5, <2>2, HeadTailProperties
        <5>2. \A i \in 1..Len(Tail(bus)) : i + 1 \in 1..Len(bus)  BY <1>5, <5>1
        <5> QED BY <1>8, <5>1, <5>2
      <4>5. JobsOf(job', Append(Tail(bus), p)) = Append(JobsOf(job, Tail(bus)), b)
        BY <1>6, <4>3, <4>4
      <4> QED BY <4>1, <4>2, <4>5 DEF Asked
    <3> QED BY <3>6, <3>7
  <2> QED BY <2>1, <2>2
<1> QED BY <1>2, <1>7, <1>9, IsAsked

\* The steps of the producers: a burst enters when it is stored.
LEMMA StepIsFifo ==
  ASSUME IInv, NEW p \in Producers, Step(p)
  PROVE  FifoStep
<1>1. CASE WriteLands(p)
  <2>1. Holds(p) /\ pc[p] = "air" /\ job' = job  BY <1>1 DEF WriteLands
  <2>2. CASE Deliver(p)
    <3>1. Store(job[p]) /\ bus' = Tail(bus) /\ Goto(p, "idle")  BY <2>2 DEF Deliver
    <3>2. InLine' = Tail(bus)  BY <2>1, <3>1, Leaves
    <3>3. pc[p] # "stored"  BY <2>1
    <3> QED BY <2>1, <3>1, <3>2, <3>3, HolderEnters
  <2>3. CASE Goto(p, "room") /\ UNCHANGED <<bus, buffer, nrx, ntx, cpc, hand>>
    <3>1. pc[p] # "stored" /\ "room" # "stored"  BY <2>1
    <3>2. UNCHANGED <<bus, job, cpc, hand, buffer>>  BY <2>1, <2>3
    <3> QED BY <2>1, <2>3, <3>1, <3>2, HolderGoesOn
  <2> QED BY <1>1, <2>2, <2>3 DEF WriteLands
<1>2. CASE WriteResumes(p)
  <2>1. /\ Holds(p) /\ pc[p] # "stored" /\ job' = job
        /\ Store(job[p]) /\ bus' = Tail(bus) /\ Goto(p, "idle")
    BY <1>2 DEF WriteResumes, Deliver
  <2>2. InLine' = Tail(bus)  BY <2>1, Leaves
  <2> QED BY <2>1, <2>2, HolderEnters
<1>3. CASE OfferLooks(p)
  <2>1. /\ Holds(p) /\ pc[p] # "stored" /\ "air" # "stored" /\ Goto(p, "air")
        /\ UNCHANGED <<bus, job, cpc, hand, buffer>>
    BY <1>3 DEF OfferLooks
  <2> QED BY <2>1, HolderGoesOn
<1>4. CASE OfferLands(p)
  <2>1. /\ Holds(p) /\ pc[p] = "air" /\ job[p].kind = "offer"
        /\ UNCHANGED <<job, buffer, cpc, hand>>
    BY <1>4 DEF OfferLands
  <2>2. CASE bus' = Tail(bus) /\ Goto(p, "idle")
    <3>1. bus # <<>> /\ Head(bus) = p  BY <2>1, HolderIs
    <3>2. InLine = bus /\ InLine' = Tail(bus)  BY <2>1, <2>2, <3>1, Leaves DEF InLine
    <3>3. /\ JobsOf(job, bus) # <<>> /\ Head(JobsOf(job, bus)) = job[Head(bus)]
          /\ JobsOf(job, Tail(bus)) = Tail(JobsOf(job, bus))
      BY <3>1, LineHas, JobsLeave
    <3>4. Asked # <<>> /\ Head(Asked).kind = "offer" /\ Asked' = Tail(Asked)
      BY <2>1, <3>1, <3>2, <3>3 DEF Asked
    <3>5. Inside' = Inside  BY <2>1 DEF Inside
    <3> QED BY <3>4, <3>5, IsLost
  <2>3. CASE bus' = bus /\ Goto(p, "one")
    <3>1. pc[p] # "stored" /\ "one" # "stored"  BY <2>1
    <3>2. UNCHANGED <<bus, job, cpc, hand, buffer>>  BY <2>1, <2>3
    <3> QED BY <2>1, <2>3, <3>1, <3>2, HolderGoesOn
  <2> QED BY <1>4, <2>2, <2>3 DEF OfferLands
<1>5. CASE OfferAdmits(p)
  <2>1. Holds(p) /\ bus' = bus /\ job' = job  BY <1>5 DEF OfferAdmits
  <2>2. ASSUME NEW l \in {"fill", "spill"}, pc[p] # "stored", Goto(p, l),
               UNCHANGED <<buffer, cpc, hand>>
        PROVE  FifoStep
    <3>1. l # "stored" /\ UNCHANGED <<bus, job, cpc, hand, buffer>>  BY <2>1, <2>2
    <3> QED BY <2>1, <2>2, <3>1, HolderGoesOn
  <2>3. CASE OfferFills(p)
    <3>1. pc[p] # "stored" /\ Goto(p, "fill") /\ UNCHANGED <<buffer, cpc, hand>>
      BY <2>3 DEF OfferFills
    <3> QED BY <2>2, <3>1
  <2>4. CASE OfferSpills(p)
    <3>1. pc[p] # "stored" /\ Goto(p, "spill") /\ UNCHANGED <<buffer, cpc, hand>>
      BY <2>4 DEF OfferSpills
    <3> QED BY <2>2, <3>1
  <2>5. CASE OfferStores(p)
    <3>1. pc[p] # "stored" /\ Store(job[p]) /\ Goto(p, "stored")  BY <2>5 DEF OfferStores
    <3>2. bus # <<>> /\ Head(bus) = p  BY <2>1, HolderIs
    <3>3. pc \in [Producers -> {"idle", "settle", "air", "room", "one", "fill", "spill", "stored"}]
      BY DEF IInv, TypeOK
    <3>4. pc'[p] = "stored"  BY <3>1, <3>3 DEF Goto
    <3>5. InLine' = Tail(bus)  BY <2>1, <3>2, <3>4 DEF InLine
    <3> QED BY <2>1, <3>1, <3>5, HolderEnters
  <2> QED BY <1>5, <2>3, <2>4, <2>5 DEF OfferAdmits
<1>6. CASE OfferReturns(p)
  <2>1. /\ Holds(p) /\ pc[p] = "stored" /\ bus' = Tail(bus) /\ Goto(p, "idle")
        /\ UNCHANGED <<job, buffer, cpc, hand>>
    BY <1>6 DEF OfferReturns
  <2>2. bus # <<>> /\ Head(bus) = p  BY <2>1, HolderIs
  <2>3. InLine = Tail(bus)  BY <2>1, <2>2 DEF InLine
  <2>4. InLine' = Tail(bus)  BY <2>1, Leaves
  <2>5. Asked' = Asked  BY <2>1, <2>3, <2>4 DEF Asked
  <2>6. Inside' = Inside  BY <2>1 DEF Inside
  <2> QED BY <2>5, <2>6 DEF FifoStep
<1> QED BY <1>1, <1>2, <1>3, <1>4, <1>5, <1>6 DEF Step

\* The steps of the reader: a burst is received when its words are retired.
LEMMA ReaderIsFifo ==
  ASSUME IInv, Reader
  PROVE  FifoStep
<1>1. UNCHANGED <<pc, job, bus>>
  BY DEF Reader, Get, GetWaits, GetResumes
<1>2. Asked' = Asked
  <2>1. InLine' = InLine  BY <1>1 DEF InLine
  <2> QED BY <1>1, <2>1 DEF Asked
<1>3. CASE Get
  <2>1. cpc = "run" /\ cpc' = cpc /\ buffer # <<>> /\ buffer' = Tail(buffer)
    BY <1>3 DEF Get
  <2>2. Inside = buffer /\ Inside' = Tail(buffer)  BY <2>1 DEF Inside
  <2> QED BY <1>2, <2>1, <2>2, IsReceived
<1>4. CASE GetWaits
  <2>1. cpc = "run" /\ cpc' = "wait" /\ buffer' = buffer  BY <1>4 DEF GetWaits
  <2>2. Inside' = Inside  BY <2>1 DEF Inside
  <2> QED BY <1>2, <2>2 DEF FifoStep
<1>5. CASE GetResumes
  <2>1. cpc = "handed" /\ cpc' = "run" /\ buffer' = buffer  BY <1>5 DEF GetResumes
  <2>2. hand \in Bursts /\ buffer \in Seq(Bursts)  BY <2>1 DEF IInv, Handed, TypeOK
  <2>3. Inside = <<hand>> \o buffer /\ Inside' = buffer  BY <2>1 DEF Inside
  <2>4. <<hand>> \o buffer # <<>> /\ Tail(<<hand>> \o buffer) = buffer  BY <2>2
  <2> QED BY <1>2, <2>3, <2>4, IsReceived
<1> QED BY <1>3, <1>4, <1>5 DEF Reader

-----------------------------------------------------------------------------
\* The stream channel implements the FIFO of whole transfers: what was asked for enters
\* whole and in order, only an offer is lost, and the reader gets what entered in order.
THEOREM ChannelIsFifo == Spec => Abs!Init /\ [][Abs!Next]_<<Asked, Inside>>
<1>1. Init => Abs!Init
  <2> SUFFICES ASSUME Init PROVE Abs!Init
    OBVIOUS
  <2>1. InLine = <<>> /\ Inside = <<>>  BY DEF Init, InLine, Inside
  <2>2. Asked = <<>>
    <3>1. Len(InLine) = 0  BY <2>1
    <3>2. 1..Len(InLine) = {}  BY <3>1
    <3> QED BY <3>2 DEF Asked, JobsOf
  <2> QED BY <2>1, <2>2 DEF Abs!Init, Asked, Inside, JobsOf
<1>2. ASSUME IInv, [Next]_vars PROVE [Abs!Next]_<<Asked, Inside>>
  <2>1. FifoStep
    <3>1. CASE UNCHANGED vars
      <4>1. InLine' = InLine /\ Inside' = Inside  BY <3>1 DEF vars, InLine, Inside
      <4>2. Asked' = Asked  BY <3>1, <4>1 DEF vars, Asked
      <4> QED BY <4>1, <4>2 DEF FifoStep
    <3>2. CASE Next  BY <1>2, <3>2, StepIsFifo, AskIsFifo, ReaderIsFifo DEF Next
    <3> QED BY <1>2, <3>1, <3>2
  <2> QED BY <2>1 DEF FifoStep
<1>3. IInv /\ [Next]_vars => [Abs!Next]_<<Asked, Inside>>  BY <1>2
<1> QED BY <1>1, <1>3, Inductive, PTL DEF Spec

-----------------------------------------------------------------------------
\* What holds the depth while only written bursts are inside: the words of the bursts
\* written since the last offer went in are in nrx, whatever offers have spilled into
\* ntx before them and whichever level the reader takes words from.  A write that was
\* granted its room, and has not resumed, is counted with them.
Due == IF bus # <<>> /\ pc[Head(bus)] = "room" /\ parked = 0 THEN <<job[Head(bus)]>> ELSE <<>>
Queue == Inside \o Due

Written(s) == \A i \in 1..Len(s) : s[i].kind = "write"

Fits(q, rx) ==
  \A pre, suf \in Seq(Bursts) :
    q = pre \o suf /\ Written(suf)
      => Least(Words(suf), Cap) <= rx /\ (Len(suf) > 1 => Words(suf) <= Cap)

Depth == Fits(Queue, nrx)

\* A queue with a burst in it has words.
LEMMA SomeWords ==
  ASSUME NEW s \in Seq(Bursts), s # <<>>
  PROVE  Words(s) >= 1
<1> DEFINE b == Head(s)  v == Tail(s)
<1>1. b \in Bursts /\ v \in Seq(Bursts) /\ s = <<b>> \o v  BY HeadTailProperties
<1>2. <<b>> \in Seq(Bursts) /\ b.n \in Nat /\ b.n >= 1  BY <1>1, BurstIs
<1>3. Words(<<b>>) = b.n /\ Words(v) \in Nat  BY <1>1, WordsOfMore, LensAre
<1>4. Words(s) = Words(<<b>>) + Words(v)  BY <1>1, <1>2, WordsOfBoth
<1> QED BY <1>2, <1>3, <1>4

\* A burst leaves.
LEMMA FitsTail ==
  ASSUME NEW q \in Seq(Bursts), NEW b \in Bursts, NEW rx, Fits(<<b>> \o q, rx)
  PROVE  Fits(q, rx)
<1> SUFFICES ASSUME NEW pre \in Seq(Bursts), NEW suf \in Seq(Bursts),
                    q = pre \o suf, Written(suf)
             PROVE  Least(Words(suf), Cap) <= rx /\ (Len(suf) > 1 => Words(suf) <= Cap)
  BY DEF Fits
<1>1. <<b>> \in Seq(Bursts)  OBVIOUS
<1>2. <<b>> \o pre \in Seq(Bursts)  BY <1>1, ConcatProperties
<1>3. (<<b>> \o pre) \o suf = <<b>> \o (pre \o suf)  BY <1>1, ConcatAssociative
<1> QED BY <1>2, <1>3 DEF Fits

\* A burst comes in: a suffix of the queue is empty, or a suffix of what was there and
\* the burst.
Ends(s, old, b) == s = Append(old, b)

\* A queue has one last burst.
LEMMA EndsOnce ==
  ASSUME NEW s, NEW q \in Seq(Bursts), NEW x \in Seq(Bursts), NEW b \in Bursts,
         NEW c \in Bursts, Ends(s, q, b), Ends(s, x, c)
  PROVE  q = x /\ b = c
<1>1. Append(q, b) = Append(x, c)  BY DEF Ends
<1>2. /\ Len(Append(q, b)) = Len(q) + 1 /\ Append(q, b)[Len(q) + 1] = b
      /\ \A i \in 1..Len(q) : Append(q, b)[i] = q[i]
  BY AppendProperties
<1>3. /\ Len(Append(x, c)) = Len(x) + 1 /\ Append(x, c)[Len(x) + 1] = c
      /\ \A i \in 1..Len(x) : Append(x, c)[i] = x[i]
  BY AppendProperties
<1> DEFINE m == Append(q, b)  o == Append(x, c)
<1>4. /\ m = o /\ Len(m) = Len(q) + 1 /\ m[Len(q) + 1] = b
      /\ Len(o) = Len(x) + 1 /\ o[Len(x) + 1] = c
      /\ \A i \in 1..Len(q) : m[i] = q[i]
      /\ \A i \in 1..Len(x) : o[i] = x[i]
  BY <1>1, <1>2, <1>3
<1> HIDE DEF m, o
<1>5. Len(q) \in Nat /\ Len(x) \in Nat  BY LenProperties
<1>6. Len(q) = Len(x)  BY <1>4, <1>5
<1>7. b = c /\ \A i \in 1..Len(q) : q[i] = x[i]  BY <1>4, <1>6
<1>8. q = x  BY <1>6, <1>7, SeqEqual
<1> QED BY <1>7, <1>8

LEMMA SuffixOfMore ==
  ASSUME NEW q \in Seq(Bursts), NEW b \in Bursts, NEW pre \in Seq(Bursts),
         NEW suf \in Seq(Bursts), Ends(pre \o suf, q, b), suf # <<>>
  PROVE  \E old \in Seq(Bursts) : q = pre \o old /\ Ends(suf, old, b)
<1>1. PICK old \in Seq(Bursts), c \in Bursts : suf = Append(old, c)
  BY SequenceEmptyOrAppend
<1>2. pre \o old \in Seq(Bursts) /\ pre \o suf = Append(pre \o old, c)  BY <1>1, ConcatMore
<1>3. Ends(pre \o suf, pre \o old, c)  BY <1>2 DEF Ends
<1>4. q = pre \o old /\ b = c
  <2>1. pre \o old \in Seq(Bursts)  BY <1>2
  <2> DEFINE m == pre \o suf  x == pre \o old
  <2>2. x \in Seq(Bursts) /\ Ends(m, q, b) /\ Ends(m, x, c)  BY <1>3, <2>1
  <2> HIDE DEF m, x
  <2>3. q = x /\ b = c  BY <1>1, <2>2, EndsOnce
  <2> QED BY <2>3 DEF x
<1> QED BY <1>1, <1>4 DEF Ends

\* A written burst comes in with its words counted, all that fit in Cap.
LEMMA FitsWritten ==
  ASSUME NEW q \in Seq(Bursts), NEW b \in Bursts, NEW rx \in 0..Cap, Fits(q, rx),
         rx + Least(b.n, Cap) <= Cap
  PROVE  Fits(Append(q, b), rx + Least(b.n, Cap))
<1> DEFINE n == b.n  want == Least(n, Cap)
<1> SUFFICES ASSUME NEW pre \in Seq(Bursts), NEW suf \in Seq(Bursts),
                    Append(q, b) = pre \o suf, Written(suf)
             PROVE  /\ Least(Words(suf), Cap) <= rx + want
                    /\ Len(suf) > 1 => Words(suf) <= Cap
  BY DEF Fits
<1>1. Cap \in Nat /\ Cap >= 1 /\ n \in Nat /\ n >= 1  BY StreamAssumption, BurstIs
<1>2. want \in Nat /\ (n <= Cap => want = n) /\ (n > Cap => want = Cap)  BY <1>1 DEF Least
<1>3. CASE suf = <<>>
  <2>1. Words(suf) = 0 /\ Len(suf) = 0  BY <1>3, WordsOfNone, EmptySeq
  <2>2. Least(Words(suf), Cap) = 0  BY <1>1, <2>1 DEF Least
  <2> HIDE DEF want
  <2> QED BY <1>2, <2>1, <2>2
<1>4. CASE suf # <<>>
  <2>1. PICK old \in Seq(Bursts) : q = pre \o old /\ suf = Append(old, b)
    <3>1. Ends(pre \o suf, q, b)  BY DEF Ends
    <3>2. \E old \in Seq(Bursts) : q = pre \o old /\ Ends(suf, old, b)
      BY <1>4, <3>1, SuffixOfMore
    <3> QED BY <3>2 DEF Ends
  <2>2. Words(suf) = Words(old) + n /\ Words(old) \in Nat /\ Len(suf) = Len(old) + 1
    BY <2>1, WordsOfMore, LensAre, AppendProperties
  <2>3. CASE old = <<>>
    <3>1. Words(suf) = n /\ ~(Len(suf) > 1)
      <4>1. Words(old) = 0 /\ Len(old) = 0  BY <2>3, WordsOfNone, EmptySeq
      <4> QED BY <1>1, <2>2, <4>1
    <3> HIDE DEF want
    <3> QED BY <1>2, <3>1 DEF want
  <2>4. CASE old # <<>>
    <3>1. Words(old) >= 1  BY <2>4, SomeWords
    <3>2. Written(old)
      <4>1. \A i \in 1..Len(old) : i \in 1..Len(suf) /\ suf[i] = old[i]
        BY <2>1, <2>2, AppendProperties, LenProperties
      <4> QED BY <4>1 DEF Written
    <3>3. Least(Words(old), Cap) <= rx  BY <2>1, <3>2 DEF Fits
    <3>4. rx >= 1 /\ want < Cap
      <4>1. Least(Words(old), Cap) >= 1 /\ Least(Words(old), Cap) \in Nat
        BY <1>1, <2>2, <3>1 DEF Least
      <4> HIDE DEF want
      <4>2. rx + want <= Cap  BY DEF want
      <4>3. rx >= 1  BY <1>1, <3>3, <4>1
      <4> QED BY <1>1, <1>2, <4>2, <4>3
    <3>5. want = n /\ rx < Cap
      <4> HIDE DEF want
      <4>1. rx + want <= Cap  BY DEF want
      <4> QED BY <1>1, <1>2, <3>4, <4>1
    <3>6. Words(old) <= rx  BY <1>1, <2>2, <3>3, <3>5 DEF Least
    <3> HIDE DEF want
    <3>7. rx + want <= Cap  BY DEF want
    <3>8. Words(suf) <= rx + want /\ Words(suf) <= Cap /\ Words(suf) \in Nat
      BY <1>1, <2>2, <3>5, <3>6, <3>7
    <3>9. Least(Words(suf), Cap) <= rx + want  BY <1>1, <3>8 DEF Least
    <3> QED BY <3>8, <3>9
  <2> QED BY <2>3, <2>4
<1> QED BY <1>3, <1>4

\* An offered one: no written bursts have come in since.
LEMMA FitsOffered ==
  ASSUME NEW q \in Seq(Bursts), NEW b \in Bursts, b.kind = "offer", NEW rx \in 0..Cap
  PROVE  Fits(Append(q, b), rx)
<1> SUFFICES ASSUME NEW pre \in Seq(Bursts), NEW suf \in Seq(Bursts),
                    Append(q, b) = pre \o suf, Written(suf)
             PROVE  Least(Words(suf), Cap) <= rx /\ (Len(suf) > 1 => Words(suf) <= Cap)
  BY DEF Fits
<1>1. ASSUME suf # <<>> PROVE FALSE
  <2>1. PICK old \in Seq(Bursts) : suf = Append(old, b)
    <3>1. Ends(pre \o suf, q, b)  BY DEF Ends
    <3>2. \E old \in Seq(Bursts) : q = pre \o old /\ Ends(suf, old, b)
      BY <1>1, <3>1, SuffixOfMore
    <3> QED BY <3>2 DEF Ends
  <2>2. Len(suf) = Len(old) + 1 /\ Len(old) \in Nat /\ suf[Len(old) + 1] = b
    BY <2>1, AppendProperties, LenProperties
  <2>3. Len(old) + 1 \in 1..Len(suf)  BY <2>2
  <2> QED BY <2>2, <2>3 DEF Written
<1>2. Words(suf) = 0 /\ Len(suf) = 0  BY <1>1, WordsOfNone, EmptySeq
<1>3. Cap \in Nat  BY StreamAssumption
<1>4. Least(Words(suf), Cap) = 0  BY <1>2, <1>3 DEF Least
<1> QED BY <1>2, <1>3, <1>4

\* All that is counted is in nrx.
LEMMA FitsCounted ==
  ASSUME NEW inside \in Seq(Bursts), NEW due \in Seq(Bursts), Len(due) <= 1,
         NEW rx \in 0..Cap, Words(inside) + Least(Words(due), Cap) <= rx
  PROVE  Fits(inside \o due, rx)
<1> SUFFICES ASSUME NEW pre \in Seq(Bursts), NEW suf \in Seq(Bursts),
                    inside \o due = pre \o suf
             PROVE  Least(Words(suf), Cap) <= rx /\ (Len(suf) > 1 => Words(suf) <= Cap)
  BY DEF Fits
<1>1. /\ Cap \in Nat /\ Cap >= 1 /\ Words(inside) \in Nat /\ Words(due) \in Nat
      /\ Words(pre) \in Nat /\ Words(suf) \in Nat
  BY StreamAssumption, LensAre
<1>2. /\ Words(inside \o due) = Words(inside) + Words(due)
      /\ Words(pre \o suf) = Words(pre) + Words(suf)
  BY WordsOfBoth
<1>3. Words(suf) <= Words(inside) + Words(due)  BY <1>1, <1>2
<1>4. CASE Words(due) <= Cap
  <2>1. Words(suf) <= rx /\ Words(suf) <= Cap  BY <1>1, <1>3, <1>4 DEF Least
  <2> QED BY <1>1, <2>1 DEF Least
<1>5. CASE Words(due) > Cap
  <2>1. rx = Cap /\ ~(Words(inside) >= 1)  BY <1>1, <1>5 DEF Least
  <2>2. inside = <<>>  BY <2>1, SomeWords
  <2>3. Len(inside) = 0  BY <2>2, EmptySeq
  <2>4. Len(suf) <= 1
    <3>1. /\ Len(inside \o due) = Len(inside) + Len(due) /\ Len(pre \o suf) = Len(pre) + Len(suf)
          /\ Len(pre) \in Nat /\ Len(suf) \in Nat /\ Len(due) \in Nat
      BY ConcatProperties, LenProperties
    <3> QED BY <2>3, <3>1
  <2>5. Len(suf) \in Nat  BY LenProperties
  <2> QED BY <1>1, <2>1, <2>4, <2>5 DEF Least
<1> QED BY <1>1, <1>4, <1>5

\* More is counted.
LEMMA FitsAbove ==
  ASSUME NEW q, NEW rx \in Int, NEW ry \in Int, rx <= ry, Fits(q, rx)
  PROVE  Fits(q, ry)
<1> SUFFICES ASSUME NEW pre \in Seq(Bursts), NEW suf \in Seq(Bursts),
                    q = pre \o suf, Written(suf)
             PROVE  Least(Words(suf), Cap) <= ry /\ (Len(suf) > 1 => Words(suf) <= Cap)
  BY DEF Fits
<1>1. Least(Words(suf), Cap) <= rx /\ (Len(suf) > 1 => Words(suf) <= Cap)  BY DEF Fits
<1>2. Least(Words(suf), Cap) \in Int
  <2>1. Words(suf) \in Nat /\ Cap \in Nat  BY LensAre, StreamAssumption
  <2> QED BY <2>1 DEF Least
<1> QED BY <1>1, <1>2

-----------------------------------------------------------------------------
\* What can be due is at most the holder's burst, a write.
LEMMA QueueIs ==
  ASSUME IInv
  PROVE  /\ Inside \in Seq(Bursts) /\ Due \in Seq(Bursts) /\ Queue \in Seq(Bursts)
         /\ Len(Due) <= 1 /\ Written(Due)
         /\ Due = <<>> => Queue = Inside
<1>1. buffer \in Seq(Bursts) /\ (cpc = "handed" => hand \in Bursts)
  BY DEF IInv, TypeOK, Handed
<1>2. Inside \in Seq(Bursts)
  <2>1. CASE cpc = "handed"
    <3>1. <<hand>> \in Seq(Bursts)  BY <1>1, <2>1
    <3>2. <<hand>> \o buffer \in Seq(Bursts)  BY <1>1, <3>1, ConcatProperties
    <3> QED BY <2>1, <3>2 DEF Inside
  <2>2. CASE cpc # "handed"  BY <1>1, <2>2 DEF Inside
  <2> QED BY <2>1, <2>2
<1>3. Due \in Seq(Bursts) /\ Len(Due) <= 1 /\ Written(Due)
  <2>1. CASE bus # <<>> /\ pc[Head(bus)] = "room" /\ parked = 0
    <3> DEFINE b == job[Head(bus)]
    <3>1. b \in Bursts
      <4>1. 1 \in 1..Len(bus) /\ Head(bus) = bus[1]
        <5>1. bus \in Seq(Producers) /\ Len(bus) \in Nat /\ Len(bus) # 0
          BY <2>1, Facts, EmptySeq
        <5> QED BY <2>1, <5>1
      <4> QED BY <4>1 DEF IInv, Line
    <3>2. b.kind = "write"  BY <2>1 DEF IInv, Holder, Doing
    <3>3. Due = <<b>>  BY <2>1 DEF Due
    <3> HIDE DEF b
    <3>4. <<b>> \in Seq(Bursts) /\ Len(<<b>>) = 1 /\ <<b>>[1] = b  BY <3>1
    <3> QED BY <3>2, <3>3, <3>4 DEF Written
  <2>2. CASE ~(bus # <<>> /\ pc[Head(bus)] = "room" /\ parked = 0)
    <3>1. Due = <<>>  BY <2>2 DEF Due
    <3> QED BY <3>1, EmptySeq DEF Written
  <2> QED BY <2>1, <2>2
<1>4. Inside \o Due \in Seq(Bursts)  BY <1>2, <1>3, ConcatProperties
<1>5. ASSUME Due = <<>> PROVE Inside \o Due = Inside  BY <1>2, <1>5, ConcatEmptySeq
<1> QED BY <1>2, <1>3, <1>4, <1>5 DEF Queue

\* A step that leaves the queue alone and takes nothing from nrx.
LEMMA SameQueue ==
  ASSUME IInv, IInv', Depth, Inside' = Inside, Due' = Due, nrx <= nrx'
  PROVE  Depth'
<1>1. nrx \in 0..Cap /\ nrx' \in 0..Cap /\ Cap \in Nat  BY StreamAssumption DEF IInv, TypeOK
<1>2. nrx \in Int /\ nrx' \in Int  BY <1>1
<1>3. Queue' = Queue  BY DEF Queue
<1> QED BY <1>2, <1>3, FitsAbove DEF Depth

\* The holder goes on, or leaves with a next one that has done nothing.
LEMMA NoneDue ==
  ASSUME IInv, NEW p \in Producers, Holds(p), pc[p] # "room"
  PROVE  Due = <<>>
BY HolderIs DEF Due

LEMMA NoneDueNext ==
  ASSUME IInv, NEW p \in Producers, Holds(p), NEW l, Goto(p, l), bus' = bus,
         l = "room" => parked' # 0
  PROVE  Due' = <<>>
<1>1. bus # <<>> /\ Head(bus) = p  BY HolderIs
<1>2. pc'[p] = l  BY DEF Goto, IInv, TypeOK
<1> QED BY <1>1, <1>2 DEF Due

LEMMA NoneDueAfter ==
  ASSUME IInv, NEW p \in Producers, Holds(p), bus' = Tail(bus), Goto(p, "idle")
  PROVE  Due' = <<>>
BY NextWaits DEF Due

\* A write lands with room for it, or is due its room; an offer's burst comes in as such.
LEMMA StepKeepsDepth ==
  ASSUME IInv, IInv', Depth, NEW p \in Producers, Step(p)
  PROVE  Depth'
<1>1. /\ Cap \in Nat /\ Cap >= 1 /\ nrx \in 0..Cap /\ nrx' \in 0..Cap
      /\ rem \in 0..MaxLen /\ MaxLen \in Nat
  BY Facts DEF IInv, TypeOK
<1>2. /\ Inside \in Seq(Bursts) /\ (Due = <<>> => Queue = Inside)
      /\ pc[p] = "room" \/ Due = <<>> \/ ~Holds(p)
  BY QueueIs, NoneDue
<1>3. ASSUME NEW q, Inside' = q, Due' = <<>>, q \in Seq(Bursts), Fits(q, nrx') PROVE Depth'
  <2>1. q \o <<>> = q  BY <1>3, ConcatEmptySeq
  <2> QED BY <1>3, <2>1 DEF Depth, Queue
<1>4. CASE WriteLands(p)
  <2> DEFINE b == job[p]  want == Least(b.n, Cap)
  <2>1. Holds(p) /\ pc[p] = "air"  BY <1>4 DEF WriteLands
  <2>2. Due = <<>> /\ Queue = Inside  BY <1>2, <2>1
  <2>3. b \in Bursts /\ b.n \in Nat /\ b.n >= 1  BY <2>1, HolderIs, BurstIs
  <2>4. CASE nrx' = nrx + want /\ Deliver(p)
    <3>1. Due' = <<>>  BY <2>1, <2>4, NoneDueAfter DEF Deliver
    <3>2. Inside' = Append(Inside, b)  BY <2>3, <2>4, StoreAppends DEF Deliver
    <3>3. Fits(Append(Inside, b), nrx + want)
      <4>1. nrx + want <= Cap
        <5> HIDE DEF want
        <5> QED BY <1>1, <2>4
      <4>2. Fits(Inside, nrx)  BY <2>2 DEF Depth
      <4> QED BY <1>1, <1>2, <2>3, <4>1, <4>2, FitsWritten
    <3>4. Append(Inside, b) \in Seq(Bursts)  BY <1>2, <2>3, AppendProperties
    <3>5. Fits(Append(Inside, b), nrx')  BY <2>4, <3>3
    <3> DEFINE q == Append(Inside, b)
    <3>6. Inside' = q /\ q \in Seq(Bursts) /\ Fits(q, nrx')  BY <3>2, <3>4, <3>5
    <3> HIDE DEF q
    <3> QED BY <1>3, <3>1, <3>6
  <2>5. CASE /\ parked' = want /\ Goto(p, "room")
             /\ UNCHANGED <<bus, buffer, nrx, ntx, cpc, hand>>
    <3>1. parked' # 0  BY <1>1, <2>3, <2>5 DEF Least
    <3>2. Due' = <<>>  BY <2>1, <2>5, <3>1, NoneDueNext
    <3>3. Inside' = Inside  BY <2>5 DEF Inside
    <3>4. nrx <= nrx'  BY <1>1, <2>5
    <3> QED BY <2>2, <3>2, <3>3, <3>4, SameQueue
  <2> QED BY <1>4, <2>4, <2>5 DEF WriteLands
<1>5. CASE WriteResumes(p)
  <2> DEFINE b == job[p]
  <2>1. Holds(p) /\ pc[p] = "room" /\ parked = 0 /\ Deliver(p) /\ nrx' = nrx
    BY <1>5 DEF WriteResumes
  <2>2. b \in Bursts /\ bus # <<>> /\ Head(bus) = p  BY <2>1, HolderIs
  <2>3. Due = <<b>>  BY <2>1, <2>2 DEF Due
  <2>4. Due' = <<>>  BY <2>1, NoneDueAfter DEF Deliver
  <2>5. Inside' = Append(Inside, b)  BY <2>1, <2>2, StoreAppends DEF Deliver
  <2>6. Append(Inside, b) = Inside \o <<b>>  BY <1>2, <2>2, AppendIsConcat
  <2>7. Queue = Append(Inside, b) /\ Queue \in Seq(Bursts)  BY <2>3, <2>6, QueueIs DEF Queue
  <2>8. Fits(Queue, nrx')  BY <2>1 DEF Depth
  <2>9. Inside' = Queue  BY <2>5, <2>7
  <2> QED BY <1>3, <2>4, <2>7, <2>8, <2>9
<1>6. CASE OfferLooks(p)
  <2>1. /\ Holds(p) /\ pc[p] = "settle" /\ Goto(p, "air")
        /\ UNCHANGED <<bus, buffer, nrx, cpc, hand>>
    BY <1>6 DEF OfferLooks
  <2>2. Due = <<>> /\ Due' = <<>>  BY <2>1, NoneDue, NoneDueNext
  <2>3. Inside' = Inside /\ nrx <= nrx'  BY <1>1, <2>1 DEF Inside
  <2> QED BY <2>2, <2>3, SameQueue
<1>7. CASE OfferLands(p)
  <2>1. /\ Holds(p) /\ pc[p] = "air" /\ UNCHANGED <<buffer, cpc, hand>>
    BY <1>7 DEF OfferLands
  <2>2. Due = <<>>  BY <2>1, NoneDue
  <2>3. Due' = <<>>
    <3>1. CASE bus' = Tail(bus) /\ Goto(p, "idle")  BY <2>1, <3>1, NoneDueAfter
    <3>2. CASE bus' = bus /\ Goto(p, "one")  BY <2>1, <3>2, NoneDueNext
    <3> QED BY <1>7, <3>1, <3>2 DEF OfferLands
  <2>4. nrx <= nrx'
    <3>1. nrx' = nrx \/ nrx' = nrx + 1  BY <1>7 DEF OfferLands
    <3> QED BY <1>1, <3>1
  <2>5. Inside' = Inside  BY <2>1 DEF Inside
  <2> QED BY <2>2, <2>3, <2>4, <2>5, SameQueue
<1>8. CASE OfferAdmits(p)
  <2>1. Holds(p) /\ bus' = bus /\ job' = job  BY <1>8 DEF OfferAdmits
  <2>2. ASSUME NEW l \in {"fill", "spill"}, pc[p] # "room", Goto(p, l),
               UNCHANGED <<buffer, cpc, hand>>, nrx <= nrx'
        PROVE  Depth'
    <3>1. l # "room" /\ Inside' = Inside  BY <2>2 DEF Inside
    <3>2. Due = <<>> /\ Due' = <<>>  BY <2>1, <2>2, <3>1, NoneDue, NoneDueNext
    <3> QED BY <2>2, <3>1, <3>2, SameQueue
  <2>3. CASE OfferFills(p)
    <3>1. /\ pc[p] # "room" /\ Goto(p, "fill") /\ UNCHANGED <<buffer, cpc, hand>>
          /\ nrx' = nrx + Least(rem, Cap - nrx)
      BY <2>3 DEF OfferFills
    <3>2. Least(rem, Cap - nrx) \in Nat  BY <1>1 DEF Least
    <3>3. nrx <= nrx'
      <4> DEFINE x == Least(rem, Cap - nrx)
      <4>1. nrx' = nrx + x /\ x \in Nat  BY <3>1, <3>2
      <4> HIDE DEF x
      <4> QED BY <1>1, <4>1
    <3> QED BY <2>2, <3>1, <3>3
  <2>4. CASE OfferSpills(p)
    <3>1. /\ pc[p] # "room" /\ Goto(p, "spill") /\ UNCHANGED <<buffer, cpc, hand>>
          /\ nrx' = nrx
      BY <2>4 DEF OfferSpills
    <3>2. nrx <= nrx'  BY <1>1, <3>1
    <3> QED BY <2>2, <3>1, <3>2
  <2>5. CASE OfferStores(p)
    <3> DEFINE b == job[p]
    <3>1. /\ pc[p] \in {"one", "fill", "spill"} /\ Store(b) /\ Goto(p, "stored")
          /\ nrx' = nrx
      BY <2>5 DEF OfferStores
    <3>2. b \in Bursts /\ b.kind = "offer"  BY <2>1, <3>1, HolderIs DEF Doing
    <3>3. Due' = <<>>  BY <2>1, <3>1, NoneDueNext
    <3>4. Inside' = Append(Inside, b)  BY <3>1, <3>2, StoreAppends
    <3>5. Append(Inside, b) \in Seq(Bursts)  BY <1>2, <3>2, AppendProperties
    <3>6. Fits(Append(Inside, b), nrx')  BY <1>1, <1>2, <3>1, <3>2, FitsOffered
    <3> DEFINE q == Append(Inside, b)
    <3>7. Inside' = q /\ q \in Seq(Bursts) /\ Fits(q, nrx')  BY <3>4, <3>5, <3>6
    <3> HIDE DEF q
    <3> QED BY <1>3, <3>3, <3>7
  <2> QED BY <1>8, <2>3, <2>4, <2>5 DEF OfferAdmits
<1>9. CASE OfferReturns(p)
  <2>1. /\ Holds(p) /\ pc[p] = "stored" /\ bus' = Tail(bus) /\ Goto(p, "idle")
        /\ UNCHANGED <<buffer, nrx, cpc, hand>>
    BY <1>9 DEF OfferReturns
  <2>2. Due = <<>> /\ Due' = <<>>  BY <2>1, NoneDue, NoneDueAfter
  <2>3. Inside' = Inside /\ nrx <= nrx'  BY <1>1, <2>1 DEF Inside
  <2> QED BY <2>2, <2>3, SameQueue
<1> QED BY <1>4, <1>5, <1>6, <1>7, <1>8, <1>9 DEF Step

\* One more in line changes nothing of the holder.
LEMMA AskKeepsDepth ==
  ASSUME IInv, IInv', Depth, NEW p \in Producers, NEW k \in Kinds, NEW n \in 1..MaxLen,
         Ask(p, k, n)
  PROVE  Depth'
<1>1. /\ pc[p] = "idle" /\ bus' = Append(bus, p) /\ UNCHANGED <<parked, buffer, nrx, cpc, hand>>
      /\ pc' = [pc EXCEPT ![p] = IF k = "write" THEN "air" ELSE "settle"]
      /\ job' = [job EXCEPT ![p] = [id |-> begun + 1, kind |-> k, n |-> n]]
  BY DEF Ask, Goto
<1>2. /\ pc \in [Producers -> {"idle", "settle", "air", "room", "one", "fill", "spill", "stored"}]
      /\ job \in [Producers -> Bursts \union {NoJob}]
      /\ nrx \in 0..Cap /\ Cap \in Nat
  BY StreamAssumption DEF IInv, TypeOK
<1>3. /\ pc'[p] \in {"air", "settle"}
      /\ \A q \in Producers : q # p => pc'[q] = pc[q] /\ job'[q] = job[q]
  BY <1>1, <1>2
<1>4. bus \in Seq(Producers) /\ Len(bus) \in Nat  BY Facts
<1>5. /\ Append(bus, p) # <<>> /\ Len(Append(bus, p)) = Len(bus) + 1
      /\ Append(bus, p)[Len(bus) + 1] = p
      /\ \A i \in 1..Len(bus) : Append(bus, p)[i] = bus[i]
      /\ Head(Append(bus, p)) = Append(bus, p)[1]
  BY <1>4, AppendProperties
<1>6. Due' = Due
  <2>1. CASE bus = <<>>
    <3>1. Len(bus) = 0  BY <2>1, EmptySeq
    <3>2. bus' # <<>> /\ Head(bus') = p  BY <1>1, <1>5, <3>1
    <3>3. Due' = <<>>  BY <1>3, <3>2 DEF Due
    <3>4. Due = <<>>  BY <2>1 DEF Due
    <3> QED BY <3>3, <3>4
  <2>2. CASE bus # <<>>
    <3>1. 1 \in 1..Len(bus) /\ Head(bus) = bus[1]
      <4>1. Len(bus) # 0  BY <1>4, <2>2, EmptySeq
      <4> QED BY <1>4, <2>2, <4>1
    <3>2. bus[1] \in Producers /\ bus[1] # p
      <4>1. bus[1] \in Producers  BY <1>4, <3>1, ElementOfSeq
      <4>2. pc[bus[1]] # "idle"  BY <3>1 DEF IInv, Line
      <4> QED BY <1>1, <4>1, <4>2
    <3>3. bus' # <<>> /\ Head(bus') = bus[1]  BY <1>1, <1>5, <3>1
    <3>4. pc'[bus[1]] = pc[bus[1]] /\ job'[bus[1]] = job[bus[1]]  BY <1>3, <3>2
    <3> QED BY <1>1, <2>2, <3>1, <3>3, <3>4 DEF Due
  <2> QED BY <2>1, <2>2
<1>7. Inside' = Inside /\ nrx <= nrx'  BY <1>1, <1>2 DEF Inside
<1> QED BY <1>6, <1>7, SameQueue

\* A burst is retired: what ntx had of it leaves nrx alone; once ntx has none left, all
\* that is still counted is in nrx.
LEMMA RetireKeepsDepth ==
  ASSUME IInv, IInv', NEW b \in Bursts, NEW q \in Seq(Bursts), Fits(<<b>> \o (q \o Due), nrx),
         Inside' = q, buffer' = q, hand' = NoJob, Retire(b.n), UNCHANGED <<pc, job, bus>>
  PROVE  Depth'
<1>1. /\ Cap \in Nat /\ Cap >= 1 /\ nrx \in 0..Cap /\ ntx \in Nat /\ parked \in 0..Cap
      /\ nrx' \in 0..Cap /\ ntx' \in Nat /\ parked' \in 0..Cap
  BY Facts DEF IInv, TypeOK
<1>2. b.n \in Nat /\ Due \in Seq(Bursts) /\ q \o Due \in Seq(Bursts)
  BY BurstIs, QueueIs, ConcatProperties
<1> DEFINE btx == Least(b.n, ntx)  brx == b.n - btx  left == nrx - brx
<1>3. /\ ntx' = ntx - btx
      /\ IF brx > nrx THEN failed' = TRUE /\ UNCHANGED <<nrx, parked>>
         ELSE /\ UNCHANGED failed
              /\ IF brx > 0 /\ parked > 0 /\ Cap - left >= parked
                   THEN nrx' = left + parked /\ parked' = 0
                   ELSE nrx' = left /\ UNCHANGED parked
  BY DEF Retire
<1>4. CASE b.n <= ntx
  <2>1. btx = b.n /\ brx = 0  BY <1>1, <1>2, <1>4 DEF Least
  <2> HIDE DEF btx, brx
  <2>2. nrx' = nrx /\ parked' = parked  BY <1>1, <1>3, <2>1
  <2>3. Due' = Due  BY <2>2 DEF Due
  <2>4. Fits(q \o Due, nrx)  BY <1>2, FitsTail
  <2> QED BY <2>2, <2>3, <2>4 DEF Depth, Queue
<1>5. CASE ~(b.n <= ntx)
  <2>1. ntx' = 0
    <3>1. btx = ntx  BY <1>1, <1>2, <1>5 DEF Least
    <3> HIDE DEF btx
    <3> QED BY <1>1, <1>3, <3>1
  <2>2. nrx' = PartlyIn' + Words(q) /\ PartlyIn' \in Nat
    <3>1. PartlyIn' \in Nat /\ (nrx' + ntx') - hand'.n = PartlyIn' + Words(q)
      BY DEF IInv, Levels, Adds
    <3>2. hand'.n = 0  BY DEF NoJob
    <3> QED BY <1>1, <2>1, <3>1, <3>2
  <2>3. Due' \in Seq(Bursts) /\ Len(Due') <= 1 /\ Least(Words(Due'), Cap) <= PartlyIn'
    <3>1. CASE bus' # <<>> /\ pc'[Head(bus')] = "room" /\ parked' = 0
      <4> DEFINE c == job'[Head(bus')]
      <4>1. c \in Bursts
        <5>1. 1 \in 1..Len(bus) /\ Head(bus) = bus[1] /\ Head(bus') = Head(bus)
          <6>1. bus \in Seq(Producers) /\ Len(bus) \in Nat /\ bus # <<>>  BY <3>1, Facts
          <6>2. Len(bus) # 0  BY <6>1, EmptySeq
          <6> QED BY <6>1, <6>2
        <5> QED BY <5>1 DEF IInv, Line
      <4>2. Due' = <<c>>  BY <3>1 DEF Due
      <4>3. PartlyIn' = Least(c.n, Cap)  BY <3>1 DEF PartlyIn
      <4> HIDE DEF c
      <4>4. <<c>> \in Seq(Bursts) /\ Len(<<c>>) = 1  BY <4>1
      <4>5. <<>> \in Seq(Bursts)  BY EmptySeq
      <4>6. Words(<<c>>) = c.n  BY <4>1, <4>5, WordsOfMore
      <4>7. Least(Words(Due'), Cap) = PartlyIn'  BY <4>2, <4>3, <4>6
      <4> QED BY <2>2, <4>2, <4>4, <4>7
    <3>2. CASE ~(bus' # <<>> /\ pc'[Head(bus')] = "room" /\ parked' = 0)
      <4>1. Due' = <<>>  BY <3>2 DEF Due
      <4>2. Words(<<>>) = 0 /\ <<>> \in Seq(Bursts) /\ Len(<<>>) = 0
        BY WordsOfNone, EmptySeq
      <4>3. Least(0, Cap) = 0  BY <1>1 DEF Least
      <4> QED BY <2>2, <4>1, <4>2, <4>3
    <3> QED BY <3>1, <3>2
  <2>4. Fits(q \o Due', nrx')
    <3> DEFINE d == Due'  r == nrx'
    <3>1. Words(q) \in Nat /\ Words(d) \in Nat  BY <2>3, LensAre
    <3>2. Least(Words(d), Cap) \in Nat  BY <1>1, <3>1 DEF Least
    <3>3. Words(q) + Least(Words(d), Cap) <= r  BY <2>2, <2>3, <3>1, <3>2
    <3>4. d \in Seq(Bursts) /\ Len(d) <= 1 /\ r \in 0..Cap  BY <1>1, <2>3
    <3> HIDE DEF d, r
    <3>5. Fits(q \o d, r)  BY <3>3, <3>4, FitsCounted
    <3> QED BY <3>5 DEF d, r
  <2> QED BY <2>4 DEF Depth, Queue
<1> QED BY <1>4, <1>5

LEMMA ReaderKeepsDepth ==
  ASSUME IInv, IInv', Depth, Reader
  PROVE  Depth'
<1>1. buffer \in Seq(Bursts) /\ Due \in Seq(Bursts)  BY Facts, QueueIs
<1>2. ASSUME NEW b \in Bursts, NEW q \in Seq(Bursts), Inside = <<b>> \o q, Inside' = q,
             buffer' = q, hand' = NoJob, Retire(b.n), UNCHANGED <<pc, job, bus>>
      PROVE  Depth'
  <2>1. <<b>> \in Seq(Bursts)  BY <1>2
  <2>2. (<<b>> \o q) \o Due = <<b>> \o (q \o Due)  BY <1>1, <1>2, <2>1, ConcatAssociative
  <2>3. Fits(<<b>> \o (q \o Due), nrx)  BY <1>2, <2>2 DEF Depth, Queue
  <2> QED BY <1>2, <2>3, RetireKeepsDepth
<1>3. CASE Get
  <2> DEFINE b == Head(buffer)  q == Tail(buffer)
  <2>1. /\ cpc = "run" /\ cpc' = cpc /\ hand' = hand /\ buffer # <<>> /\ buffer' = q
        /\ Retire(b.n) /\ UNCHANGED <<pc, job, bus>>
    BY <1>3 DEF Get
  <2>2. b \in Bursts /\ q \in Seq(Bursts) /\ buffer = <<b>> \o q
    BY <1>1, <2>1, HeadTailProperties
  <2>3. Inside = buffer /\ Inside' = q /\ hand' = NoJob  BY <2>1 DEF Inside, IInv, Handed
  <2> HIDE DEF b, q
  <2> QED BY <1>2, <2>1, <2>2, <2>3
<1>4. CASE GetWaits
  <2>1. cpc = "run" /\ cpc' = "wait" /\ UNCHANGED <<pc, job, bus, parked, buffer, nrx>>
    BY <1>4 DEF GetWaits
  <2>2. Inside' = Inside /\ Due' = Due  BY <2>1 DEF Inside, Due
  <2>3. nrx <= nrx'
    <3>1. nrx \in 0..Cap /\ Cap \in Nat  BY Facts
    <3> QED BY <2>1, <3>1
  <2> QED BY <2>2, <2>3, SameQueue
<1>5. CASE GetResumes
  <2>1. /\ cpc = "handed" /\ cpc' = "run" /\ hand' = NoJob /\ buffer' = buffer
        /\ Retire(hand.n) /\ UNCHANGED <<pc, job, bus>>
    BY <1>5 DEF GetResumes
  <2>2. hand \in Bursts  BY <2>1 DEF IInv, Handed
  <2>3. Inside = <<hand>> \o buffer /\ Inside' = buffer  BY <2>1 DEF Inside
  <2> QED BY <1>1, <1>2, <2>1, <2>2, <2>3
<1> QED BY <1>3, <1>4, <1>5 DEF Reader

LEMMA InductiveDepth == Spec => [](IInv /\ Depth)
<1>1. ASSUME Init PROVE Depth
  <2> DEFINE e == <<>>
  <2>1. Inside = e /\ Due = e  BY <1>1 DEF Init, Inside, Due
  <2>2. e \in Seq(Bursts) /\ Len(e) = 0 /\ Words(e) = 0  BY EmptySeq, WordsOfNone
  <2> HIDE DEF e
  <2>3. Cap \in Nat /\ nrx = 0 /\ 0 \in 0..Cap  BY <1>1, StreamAssumption DEF Init
  <2>4. Words(e) + Least(Words(e), Cap) <= nrx /\ Len(e) <= 1 /\ nrx \in 0..Cap
    BY <2>2, <2>3 DEF Least
  <2>5. Fits(e \o e, nrx)  BY <2>2, <2>4, FitsCounted
  <2> QED BY <2>1, <2>5 DEF Depth, Queue
<1>2. ASSUME IInv, Depth, [Next]_vars PROVE IInv' /\ Depth'
  <2>1. IInv'  BY <1>2, NextIInv
  <2>2. CASE UNCHANGED vars
    <3>1. Inside' = Inside /\ Due' = Due /\ nrx' = nrx  BY <2>2 DEF vars, Inside, Due
    <3> QED BY <1>2, <2>1, <3>1 DEF Depth, Queue
  <2>3. CASE Next
    BY <1>2, <2>1, <2>3, StepKeepsDepth, AskKeepsDepth, ReaderKeepsDepth DEF Next
  <2> QED BY <1>2, <2>1, <2>2, <2>3
<1> QED BY InitIInv, <1>1, <1>2, PTL DEF Spec

-----------------------------------------------------------------------------
\* The two levels count exactly the words of the bursts in the channel: those in the
\* buffer, the one handed over and not retired, and what is in of the holder's.
THEOREM LevelsAreExact == Spec => []LevelsExact
<1>1. ASSUME IInv PROVE LevelsExact
  <2>1. PartlyIn \in Nat /\ (nrx + ntx) - hand.n = PartlyIn + Words(buffer)
    BY <1>1 DEF IInv, Levels, Adds
  <2>2. Words(buffer) \in Nat /\ hand.n \in Nat /\ nrx \in Nat /\ ntx \in Nat
    <3>1. buffer \in Seq(Bursts) /\ hand.n \in 0..MaxLen /\ nrx \in 0..Cap /\ ntx \in Nat
      BY <1>1, Facts
    <3> QED BY <3>1, LensAre
  <2>3. nrx + ntx = (Words(buffer) + hand.n) + PartlyIn  BY <2>1, <2>2
  <2> QED BY <2>3 DEF LevelsExact
<1>2. IInv => LevelsExact  BY <1>1
<1> QED BY <1>2, Inductive, PTL

\* While only written bursts are inside they hold what the depth says: two or more of
\* them together at most Cap words, whatever offers spilled into ntx before.
THEOREM WritesFit == Spec => []WritesFitDepth
<1>1. ASSUME IInv, Depth PROVE WritesFitDepth
  <2> SUFFICES ASSUME Len(Inside) > 1, \A i \in DOMAIN Inside : Inside[i].kind = "write"
               PROVE  Words(Inside) <= Cap
    BY DEF WritesFitDepth, Inside
  <2>1. /\ Inside \in Seq(Bursts) /\ Due \in Seq(Bursts) /\ Queue \in Seq(Bursts)
        /\ Len(Due) <= 1 /\ Written(Due)
    BY <1>1, QueueIs
  <2>2. Written(Inside)
    <3>1. DOMAIN Inside = 1..Len(Inside)  BY <2>1, LenProperties
    <3> QED BY <3>1 DEF Written
  <2>3. /\ Len(Queue) = Len(Inside) + Len(Due)
        /\ \A i \in 1..(Len(Inside) + Len(Due)) :
             Queue[i] = IF i <= Len(Inside) THEN Inside[i] ELSE Due[i - Len(Inside)]
        /\ Len(Inside) \in Nat /\ Len(Due) \in Nat
    BY <2>1, ConcatProperties, LenProperties DEF Queue
  <2>4. Written(Queue)
    <3> SUFFICES ASSUME NEW i \in 1..Len(Queue) PROVE Queue[i].kind = "write"
      BY DEF Written
    <3>1. CASE i <= Len(Inside)
      <4>1. i \in 1..Len(Inside) /\ Queue[i] = Inside[i]  BY <2>3, <3>1
      <4> QED BY <2>2, <4>1 DEF Written
    <3>2. CASE ~(i <= Len(Inside))
      <4>1. i - Len(Inside) \in 1..Len(Due) /\ Queue[i] = Due[i - Len(Inside)]
        BY <2>3, <3>2
      <4> QED BY <2>1, <4>1 DEF Written
    <3> QED BY <3>1, <3>2
  <2>5. <<>> \o Queue = Queue /\ <<>> \in Seq(Bursts)  BY <2>1, ConcatEmptySeq, EmptySeq
  <2>6. Len(Queue) > 1  BY <2>3
  <2>7. Words(Queue) <= Cap  BY <1>1, <2>1, <2>4, <2>5, <2>6 DEF Depth, Fits
  <2>8. Words(Queue) = Words(Inside) + Words(Due) /\ Words(Inside) \in Nat /\ Words(Due) \in Nat
    BY <2>1, WordsOfBoth, LensAre DEF Queue
  <2>9. Cap \in Nat  BY StreamAssumption
  <2> QED BY <2>7, <2>8, <2>9
<1>2. IInv /\ Depth => WritesFitDepth  BY <1>1
<1> QED BY <1>2, InductiveDepth, PTL
=============================================================================
