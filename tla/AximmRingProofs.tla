---------------------------- MODULE AximmRingProofs ----------------------------
(***************************************************************************)
(* What holds of the ring queue for every capacity and every length of     *)
(* write and read, on either bus: the room a write found is still there    *)
(* when its words land, the two sides never work on one slot, no reader    *)
(* sleeps before a ring with words in it, and every step is a step of      *)
(* BoundedFifo or none.                                                    *)
(*                                                                         *)
(* The argument: the pointers stand for true counts of words put and taken *)
(* that are never a ring's length apart, so counting slots from the head   *)
(* is counting words from the oldest; each side's stale copy of the        *)
(* other's pointer errs on the safe side.                                  *)
(***************************************************************************)
EXTENDS AximmRing, ArithmeticProofs, SequenceTheorems

\* The i-th slot from a pointer, and the words in the ring.
Slot(p, i) == (p + i) % Cap
Words == Count(head, tail)

Moving == pc \in {"data", "publish"}

\* The producer's call: what it still has to write fits the bound of the model,
\* a piece is written from its first word to its last.
Call ==
  /\ sent + todo <= MaxWords /\ (pc # "idle" => todo >= 1)
  /\ pc = "data" => at < Piece
  /\ pc = "publish" => at = Piece
  /\ ~Moving => at = 0

\* The head it read is the head or one that was: it never sees too few words.
Behind == pc = "tail" => Words <= Count(phead, tail)

\* The room is there from the decision to the publication.
Reserved == Moving => Piece + Words < Cap

\* The words in the ring, and behind them those of the piece being written, are
\* the consecutive ones that end with the last one written.
Stored ==
  /\ Words <= sent
  /\ \A i \in 0..(Words + at - 1) : slots[Slot(head, i)] = (sent - Words) + i + 1

\* The consumer alone moves the head, so what it read of it is the head; the words
\* it has read are the oldest, in order.
Reading ==
  /\ cpc \notin {"idle", "head"} => chead = head
  /\ cpc \in {"data", "release"} =>
       /\ 1 <= nslots /\ nslots <= Words /\ nslots <= want
       /\ \A j \in 1..Len(chunk) : chunk[j] = (sent - Words) + j
  /\ cpc = "data" => Len(chunk) < nslots
  /\ cpc = "release" => Len(chunk) = nslots

IInv == TypeOK /\ Call /\ Behind /\ Reserved /\ Stored /\ Reading /\ NoLostWakeup

-----------------------------------------------------------------------------
\* Counting in slots.  The remainder of what is less than one turn away:
LEMMA OneTurn ==
  /\ \A x \in 0..(Cap - 1) : x % Cap = x
  /\ \A x \in Cap..(2 * Cap - 1) : x % Cap = x - Cap
  /\ \A x \in (1 - Cap)..(-1) : x % Cap = x + Cap
<1> USE RingAssumption
<1>0. Cap \in Nat \ {0}  OBVIOUS
<1>1. ASSUME NEW x \in 0..(Cap - 1) PROVE x % Cap = x
  <2>1. x \in Int /\ 0 \in Int /\ x = Cap * 0 + x  OBVIOUS
  <2> QED BY <1>0, <2>1, ModUnique
<1>2. ASSUME NEW x \in Cap..(2 * Cap - 1) PROVE x % Cap = x - Cap
  <2> DEFINE r == x - Cap
  <2>1. x \in Int /\ 1 \in Int /\ r \in 0..(Cap - 1) /\ x = Cap * 1 + r  OBVIOUS
  <2> HIDE DEF r
  <2>2. x % Cap = r  BY <1>0, <2>1, ModUnique
  <2> QED BY <2>2 DEF r
<1>3. ASSUME NEW x \in (1 - Cap)..(-1) PROVE x % Cap = x + Cap
  <2>1. x \in Int /\ -1 \in Int /\ x + Cap \in 0..(Cap - 1) /\ x = Cap * (-1) + (x + Cap)  OBVIOUS
  <2> QED BY <1>0, <2>1, ModUnique
<1> QED BY <1>1, <1>2, <1>3

\* What Slot and Count come to, without the remainder.
LEMMA SlotIs ==
  ASSUME NEW p \in 0..(Cap - 1), NEW i \in 0..Cap
  PROVE  /\ Slot(p, i) \in 0..(Cap - 1)
         /\ p + i < Cap => Slot(p, i) = p + i
         /\ p + i >= Cap => Slot(p, i) = (p + i) - Cap
<1>1. CASE p + i < Cap
  <2>1. p + i \in 0..(Cap - 1)  BY <1>1, RingAssumption
  <2>2. Slot(p, i) = p + i  BY <2>1, OneTurn DEF Slot
  <2> QED BY <1>1, <2>1, <2>2, RingAssumption
<1>2. CASE p + i >= Cap
  <2>1. p + i \in Cap..(2 * Cap - 1)  BY <1>2, RingAssumption
  <2>2. Slot(p, i) = (p + i) - Cap  BY <2>1, OneTurn DEF Slot
  <2> QED BY <1>2, <2>1, <2>2, RingAssumption
<1> QED BY <1>1, <1>2, RingAssumption

LEMMA CountIs ==
  ASSUME NEW h \in 0..(Cap - 1), NEW t \in 0..(Cap - 1)
  PROVE  /\ Count(h, t) \in 0..(Cap - 1)
         /\ t >= h => Count(h, t) = t - h
         /\ t < h => Count(h, t) = (t - h) + Cap
<1>1. CASE t >= h
  <2>1. t - h \in 0..(Cap - 1)  BY <1>1, RingAssumption
  <2>2. Count(h, t) = t - h  BY <2>1, OneTurn DEF Count
  <2> QED BY <1>1, <2>1, <2>2, RingAssumption
<1>2. CASE t < h
  <2>1. t - h \in (1 - Cap)..(-1)  BY <1>2, RingAssumption
  <2>2. Count(h, t) = (t - h) + Cap  BY <2>1, OneTurn DEF Count
  <2> QED BY <1>2, <2>1, <2>2, RingAssumption
<1> QED BY <1>1, <1>2, RingAssumption

\* Going on by j from the i-th slot, less than a turn in all.
LEMMA SlotSum ==
  ASSUME NEW p \in 0..(Cap - 1), NEW i \in Nat, NEW j \in Nat, i + j <= Cap
  PROVE  Slot(Slot(p, i), j) = Slot(p, i + j)
<1> DEFINE s == Slot(p, i)
<1>0. i \in 0..Cap /\ j \in 0..Cap /\ i + j \in 0..Cap  BY RingAssumption
<1>1. s \in 0..(Cap - 1) /\ (p + i < Cap => s = p + i) /\ (p + i >= Cap => s = (p + i) - Cap)
  BY <1>0, SlotIs
<1> HIDE DEF s
<1>2. /\ Slot(s, j) \in 0..(Cap - 1)
      /\ s + j < Cap => Slot(s, j) = s + j
      /\ s + j >= Cap => Slot(s, j) = (s + j) - Cap
  BY <1>0, <1>1, SlotIs
<1>3. /\ Slot(p, i + j) \in 0..(Cap - 1)
      /\ p + (i + j) < Cap => Slot(p, i + j) = p + (i + j)
      /\ p + (i + j) >= Cap => Slot(p, i + j) = (p + (i + j)) - Cap
  BY <1>0, SlotIs
<1>4. Slot(s, j) = Slot(p, i + j)  BY <1>0, <1>1, <1>2, <1>3, RingAssumption
<1> QED BY <1>4 DEF s

\* The tail is the slot after the last word.
LEMMA SlotOfCount ==
  ASSUME NEW h \in 0..(Cap - 1), NEW t \in 0..(Cap - 1)
  PROVE  Slot(h, Count(h, t)) = t
<1> DEFINE c == Count(h, t)
<1>1. /\ c \in 0..(Cap - 1) /\ (t >= h => c = t - h) /\ (t < h => c = (t - h) + Cap)
  BY CountIs
<1> HIDE DEF c
<1>2. c \in 0..Cap  BY <1>1, RingAssumption
<1>3. (h + c < Cap => Slot(h, c) = h + c) /\ (h + c >= Cap => Slot(h, c) = (h + c) - Cap)
  BY <1>2, SlotIs
<1>4. Slot(h, c) = t  BY <1>1, <1>3, RingAssumption
<1> QED BY <1>4 DEF c

\* Less than a turn apart, two slots are two.
LEMMA SlotsDiffer ==
  ASSUME NEW p \in 0..(Cap - 1), NEW i \in 0..(Cap - 1), NEW j \in 0..(Cap - 1), i # j
  PROVE  Slot(p, i) # Slot(p, j)
<1>1. i \in 0..Cap /\ j \in 0..Cap  BY RingAssumption
<1>2. (p + i < Cap => Slot(p, i) = p + i) /\ (p + i >= Cap => Slot(p, i) = (p + i) - Cap)
  BY <1>1, SlotIs
<1>3. (p + j < Cap => Slot(p, j) = p + j) /\ (p + j >= Cap => Slot(p, j) = (p + j) - Cap)
  BY <1>1, SlotIs
<1> QED BY <1>2, <1>3, RingAssumption

\* Counting to the i-th slot gives i back.
LEMMA CountToSlot ==
  ASSUME NEW p \in 0..(Cap - 1), NEW i \in 0..(Cap - 1)
  PROVE  Count(p, Slot(p, i)) = i
<1> DEFINE s == Slot(p, i)
<1>1. i \in 0..Cap  BY RingAssumption
<1>2. s \in 0..(Cap - 1) /\ (p + i < Cap => s = p + i) /\ (p + i >= Cap => s = (p + i) - Cap)
  BY <1>1, SlotIs
<1> HIDE DEF s
<1>3. (s >= p => Count(p, s) = s - p) /\ (s < p => Count(p, s) = (s - p) + Cap)
  BY <1>2, CountIs
<1>4. Count(p, s) = i  BY <1>2, <1>3, RingAssumption
<1> QED BY <1>4 DEF s

\* Moving the head takes words away, moving the tail adds words.
LEMMA CountLess ==
  ASSUME NEW h \in 0..(Cap - 1), NEW t \in 0..(Cap - 1), NEW k \in 0..Count(h, t)
  PROVE  Count(Slot(h, k), t) = Count(h, t) - k
<1> DEFINE c == Count(h, t)  s == Slot(h, k)
<1>0. c \in 0..(Cap - 1) /\ k \in 0..c  BY CountIs
<1>1. /\ c - k \in 0..(Cap - 1) /\ k \in 0..Cap /\ k \in Nat /\ c - k \in Nat
      /\ k + (c - k) = c /\ c <= Cap
  <2> HIDE DEF c
  <2> QED BY <1>0, RingAssumption
<1>2. s \in 0..(Cap - 1)  BY <1>1, SlotIs
<1>3. Slot(s, c - k) = Slot(h, k + (c - k))
  <2>1. k + (c - k) <= Cap  BY <1>1
  <2> QED BY <1>1, <2>1, SlotSum
<1>4. Slot(s, c - k) = t  BY <1>1, <1>3, SlotOfCount
<1> HIDE DEF c, s
<1>5. Count(s, Slot(s, c - k)) = c - k  BY <1>1, <1>2, CountToSlot
<1>6. Count(s, t) = c - k  BY <1>4, <1>5
<1> QED BY <1>6 DEF c, s

LEMMA CountMore ==
  ASSUME NEW h \in 0..(Cap - 1), NEW t \in 0..(Cap - 1), NEW k \in Nat, Count(h, t) + k < Cap
  PROVE  Count(h, Slot(t, k)) = Count(h, t) + k
<1> DEFINE c == Count(h, t)
<1>1. c \in Nat /\ c + k \in 0..(Cap - 1) /\ c + k <= Cap
  BY CountIs, RingAssumption
<1>2. Slot(Slot(h, c), k) = Slot(h, c + k)  BY <1>1, SlotSum
<1>3. Slot(t, k) = Slot(h, c + k)  BY <1>2, SlotOfCount
<1> HIDE DEF c
<1>4. Count(h, Slot(h, c + k)) = c + k  BY <1>1, CountToSlot
<1>5. Count(h, Slot(t, k)) = c + k  BY <1>3, <1>4
<1> QED BY <1>5 DEF c

-----------------------------------------------------------------------------
\* What every step below knows of the counts.
LEMMA Counts ==
  ASSUME IInv
  PROVE  /\ head \in 0..(Cap - 1) /\ tail \in 0..(Cap - 1) /\ Words \in 0..(Cap - 1)
         /\ Words + at < Cap /\ at \in Nat /\ sent \in Nat /\ todo \in Nat
         /\ Piece \in Nat /\ Piece <= todo /\ (todo >= 1 => Piece >= 1)
         /\ nslots \in Nat /\ want \in Nat /\ Len(chunk) \in Nat
         /\ Cap \in Nat /\ Cap >= 2
<1>1. head \in 0..(Cap - 1) /\ tail \in 0..(Cap - 1)  BY DEF IInv, TypeOK
<1>2. Words \in 0..(Cap - 1)  BY <1>1, CountIs DEF Words
<1>3. /\ at \in Nat /\ sent \in Nat /\ todo \in Nat /\ nslots \in Nat /\ want \in Nat
      /\ Cap \in Nat /\ Cap >= 2
  BY RingAssumption DEF IInv, TypeOK
<1>4. Len(chunk) \in Nat  BY LenProperties DEF IInv, TypeOK
<1>5. Piece \in Nat /\ Piece <= todo /\ (todo >= 1 => Piece >= 1)
  BY <1>3 DEF Piece, Least
<1>6. Words + at < Cap
  <2>1. CASE Moving
    <3>1. at <= Piece /\ Piece + Words < Cap
      BY <2>1, <1>3, <1>5 DEF IInv, Moving, Call, Reserved
    <3> QED BY <3>1, <1>2, <1>3, <1>5
  <2>2. CASE ~Moving
    BY <2>2, <1>2, <1>3 DEF IInv, Call
  <2> QED BY <2>1, <2>2
<1> QED BY <1>1, <1>2, <1>3, <1>4, <1>5, <1>6

\* A transfer moves something, no more than is left, and not past the ring's end.
LEMMA TransferIs ==
  ASSUME NEW i \in 0..(Cap - 1), NEW n \in Nat, n >= 1
  PROVE  Transfer(i, n) \in 1..n /\ i + Transfer(i, n) <= Cap
BY RingAssumption DEF Transfer, Least

LEMMA InitIInv == Init => IInv
<1> SUFFICES ASSUME Init PROVE IInv  OBVIOUS
<1> USE DEF Init
<1>1. TypeOK
  <2>1. <<>> \in Seq(1..MaxWords)  BY EmptySeq
  <2>2. slots \in [0..(Cap - 1) -> 0..MaxWords]  BY RingAssumption
  <2> QED BY <2>1, <2>2, RingAssumption DEF TypeOK
<1>2. 0 \in 0..(Cap - 1)  BY RingAssumption
<1>3. Words = 0  BY <1>2, CountIs DEF Words
<1>4. Call /\ Behind /\ Reserved  BY RingAssumption DEF Call, Behind, Reserved, Moving
<1>5. Stored  BY <1>3 DEF Stored
<1>6. Reading /\ NoLostWakeup  BY DEF Reading, NoLostWakeup
<1> QED BY <1>1, <1>4, <1>5, <1>6 DEF IInv

-----------------------------------------------------------------------------
\* The producer.  A step that moves no pointer and writes no word leaves what is
\* stored and what the consumer knows as they were.
LEMMA WriteStep ==
  ASSUME IInv, NEW n \in 1..MaxWrite, NEW b \in BOOLEAN, Write(n, b) PROVE IInv'
<1> USE DEF Write, memVars, consVars
<1>1. TypeOK'  BY RingAssumption DEF IInv, TypeOK
<1>2. Call'  BY RingAssumption DEF IInv, TypeOK, Call, Moving
<1>3. Behind' /\ Reserved'  BY DEF Behind, Reserved, Moving
<1>4. Stored' /\ Reading' /\ NoLostWakeup'
  BY DEF IInv, Stored, Reading, NoLostWakeup, Words
<1> QED BY <1>1, <1>2, <1>3, <1>4 DEF IInv

\* The decision on a head that is or was: what it finds free is free.
LEMMA DecideStep ==
  ASSUME IInv, pc \in {"head", "tail"}, NEW h \in 0..(Cap - 1), Words <= Count(h, tail),
         Decide(h)
  PROVE  IInv'
<1> USE DEF Decide, memVars, consVars
<1>1. TypeOK'  BY RingAssumption DEF IInv, TypeOK
<1>2. Count(h, tail) \in Nat  BY CountIs, RingAssumption DEF IInv, TypeOK
<1>3. at = 0 /\ at' = 0 /\ todo >= 1  BY DEF IInv, Call, Moving
<1>4. Piece >= 1 /\ Piece \in Nat /\ Words \in Nat /\ Cap \in Nat
  BY <1>3, Counts
<1>5. Piece' = Piece \/ pc' = "idle"  BY DEF Piece
<1>6. Call'  BY <1>3, <1>4, <1>5, RingAssumption DEF IInv, TypeOK, Call, Moving
<1>7. Reserved' /\ Behind'
  <2>1. pc' = "data" => Piece' + Words < Cap
    BY <1>2, <1>4, <1>5 DEF Free
  <2> QED BY <2>1 DEF Reserved, Behind, Moving, Words
<1>8. Stored' /\ Reading' /\ NoLostWakeup'
  BY <1>3 DEF IInv, Stored, Reading, NoLostWakeup, Words
<1> QED BY <1>1, <1>6, <1>7, <1>8 DEF IInv

LEMMA ReadsStep ==
  ASSUME IInv, ReadPtrs \/ ReadHeadWord \/ ReadTailWord PROVE IInv'
<1>1. CASE ReadPtrs
  <2>1. Words <= Count(head, tail) /\ head \in 0..(Cap - 1)  BY Counts DEF Words
  <2> QED BY <1>1, <2>1, DecideStep DEF ReadPtrs
<1>2. CASE ReadTailWord
  <2>1. Words <= Count(phead, tail) /\ phead \in 0..(Cap - 1)
    BY <1>2 DEF IInv, TypeOK, Behind, ReadTailWord
  <2> QED BY <1>2, <2>1, DecideStep DEF ReadTailWord
<1>3. CASE ReadHeadWord
  <2> USE <1>3 DEF ReadHeadWord, memVars, consVars
  <2>1. TypeOK'  BY DEF IInv, TypeOK
  <2>2. Call' /\ Reserved'  BY DEF IInv, Call, Reserved, Moving
  <2>3. Behind'  BY Counts DEF Behind, Words
  <2>4. Stored' /\ Reading' /\ NoLostWakeup'
    BY DEF IInv, Stored, Reading, NoLostWakeup, Words
  <2> QED BY <2>1, <2>2, <2>3, <2>4 DEF IInv
<1> QED BY <1>1, <1>2, <1>3

\* The words of one transfer land behind those stored, in slots none of them has.
LEMMA WriteDataStep == ASSUME IInv, WriteData PROVE IInv'
<1> DEFINE from == Slot(tail, at)
           n    == Transfer(from, Piece - at)
<1>1. /\ pc = "data" /\ at < Piece /\ Piece + Words < Cap /\ todo >= 1
      /\ sent + todo <= MaxWords /\ MaxWords \in Nat
  BY RingAssumption DEF WriteData, IInv, Call, Reserved, Moving
<1>2. from \in 0..(Cap - 1)
  <2>1. at \in 0..Cap  BY Counts
  <2> QED BY <2>1, Counts, SlotIs
<1>3. n \in 1..(Piece - at) /\ from + n <= Cap
  <2>1. Piece - at \in Nat /\ Piece - at >= 1  BY <1>1, Counts
  <2> QED BY <1>2, <2>1, TransferIs
<1>4. /\ slots' = [i \in DOMAIN slots |->
                     IF i \in from..(from + n - 1) THEN sent + at + (i - from) + 1
                                                   ELSE slots[i]]
      /\ at' = at + n
      /\ pc' = IF at + n = Piece THEN "publish" ELSE "data"
      /\ cpc' = IF at + n = Piece \/ from + n = Cap THEN Woken(cpc) ELSE cpc
      /\ UNCHANGED <<lite, head, tail, waits, todo, phead, sent, blocks, want, chead, nslots,
                     chunk, got>>
  BY DEF WriteData, Slot
<1>5. /\ from \in Nat /\ n \in Nat /\ n >= 1 /\ at + n <= Piece /\ from + n <= Cap
      /\ at \in Nat /\ sent \in Nat /\ Words \in Nat /\ Words <= Cap - 1 /\ Cap \in Nat
      /\ Piece \in Nat /\ todo \in Nat /\ Piece <= todo
      /\ head \in 0..(Cap - 1) /\ tail \in 0..(Cap - 1)
  <2>1. /\ at \in Nat /\ sent \in Nat /\ Words \in 0..(Cap - 1) /\ Cap \in Nat
        /\ Piece \in Nat /\ todo \in Nat /\ Piece <= todo
        /\ head \in 0..(Cap - 1) /\ tail \in 0..(Cap - 1)
    BY Counts
  <2> HIDE DEF from, n
  <2>2. from \in Nat /\ n \in Nat /\ n >= 1 /\ n <= Piece - at
    BY <1>2, <1>3, <2>1
  <2>3. at + n <= Piece  BY <2>1, <2>2
  <2>4. Words \in Nat /\ Words <= Cap - 1  BY <2>1
  <2> QED BY <1>3, <2>1, <2>2, <2>3, <2>4
<1> HIDE DEF from, n
<1>6. \A m \in 0..(n - 1) : from + m = Slot(head, (Words + at) + m)
  <2> SUFFICES ASSUME NEW m \in 0..(n - 1) PROVE from + m = Slot(head, (Words + at) + m)
    OBVIOUS
  <2>1. m \in 0..Cap /\ from + m < Cap  BY <1>5
  <2>2. from + m = Slot(from, m)  BY <1>2, <2>1, SlotIs
  <2>3. m \in Nat /\ at + m <= Cap /\ Words + (at + m) <= Cap /\ at + m \in Nat
    BY <1>1, <1>5
  <2>4. Slot(from, m) = Slot(tail, at + m)  BY <1>5, <2>3, SlotSum DEF from
  <2>5. tail = Slot(head, Words)  BY <1>5, SlotOfCount DEF Words
  <2>6. Slot(tail, at + m) = Slot(head, Words + (at + m))  BY <1>5, <2>3, <2>5, SlotSum
  <2>7. Words + (at + m) = (Words + at) + m  BY <1>5, <2>3
  <2> QED BY <2>2, <2>4, <2>6, <2>7
<1>7. Words' = Words /\ Piece' = Piece  BY <1>4 DEF Words, Piece
<1>8. Stored'
  <2> SUFFICES ASSUME NEW k \in 0..(Words + (at + n) - 1)
               PROVE  slots'[Slot(head, k)] = (sent - Words) + k + 1
    BY <1>4, <1>7 DEF IInv, Stored
  <2>1. k \in 0..(Cap - 1) /\ k \in 0..Cap  BY <1>1, <1>5
  <2>2. Slot(head, k) \in DOMAIN slots  BY <1>5, <2>1, SlotIs DEF IInv, TypeOK
  <2>3. CASE k < Words + at
    <3>1. Slot(head, k) \notin from..(from + n - 1)
      <4> SUFFICES ASSUME NEW m \in 0..(n - 1), Slot(head, k) = from + m PROVE FALSE
        BY <1>5
      <4>1. (Words + at) + m \in 0..(Cap - 1) /\ k # (Words + at) + m
        BY <1>1, <1>5, <2>1, <2>3
      <4> QED BY <1>5, <1>6, <2>1, <4>1, SlotsDiffer
    <3>2. slots'[Slot(head, k)] = slots[Slot(head, k)]  BY <1>4, <2>2, <3>1
    <3>3. k \in 0..(Words + at - 1)  BY <1>5, <2>1, <2>3
    <3> QED BY <3>2, <3>3 DEF IInv, Stored
  <2>4. CASE k >= Words + at
    <3> DEFINE m == k - (Words + at)
    <3>1. m \in 0..(n - 1) /\ (Words + at) + m = k  BY <1>5, <2>1, <2>4
    <3> HIDE DEF m
    <3>2. Slot(head, k) = from + m  BY <1>6, <3>1
    <3>3. from + m \in from..(from + n - 1) /\ (from + m) - from = m  BY <1>5, <3>1
    <3>4. slots'[Slot(head, k)] = sent + at + m + 1  BY <1>4, <2>2, <3>2, <3>3
    <3>5. sent + at + m + 1 = (sent - Words) + k + 1  BY <1>5, <3>1
    <3> QED BY <3>4, <3>5
  <2> QED BY <1>5, <2>1, <2>3, <2>4
<1>9. TypeOK'
  <2>1. slots' \in [0..(Cap - 1) -> 0..MaxWords]
    <3> SUFFICES ASSUME NEW i \in 0..(Cap - 1) PROVE slots'[i] \in 0..MaxWords
      BY <1>4 DEF IInv, TypeOK
    <3>1. CASE i \in from..(from + n - 1)
      <4>1. slots'[i] = sent + at + (i - from) + 1  BY <1>4, <3>1 DEF IInv, TypeOK
      <4>2. sent + at + (i - from) + 1 \in 0..MaxWords  BY <1>1, <1>5, <3>1
      <4> QED BY <4>1, <4>2
    <3>2. CASE i \notin from..(from + n - 1)
      BY <1>4, <3>2 DEF IInv, TypeOK
    <3> QED BY <3>1, <3>2
  <2>2. at' \in 0..(Cap - 1)  BY <1>1, <1>4, <1>5
  <2>3. pc' \in {"data", "publish"}  BY <1>4
  <2>4. cpc' \in {"idle", "head", "tail", "data", "release", "again", "peek", "wait"}
    BY <1>4 DEF IInv, TypeOK, Woken
  <2> QED BY <1>4, <2>1, <2>2, <2>3, <2>4 DEF IInv, TypeOK
<1>10. Call' /\ Behind' /\ Reserved'
  BY <1>1, <1>4, <1>5, <1>7 DEF IInv, Call, Behind, Reserved, Moving
<1>11. Reading' /\ NoLostWakeup'
  BY <1>4, <1>7 DEF IInv, Reading, NoLostWakeup, Woken
<1> QED BY <1>8, <1>9, <1>10, <1>11 DEF IInv

\* The tail moves over the piece: its words are in the ring, and a reader asleep
\* looks again.
LEMMA PublishStep == ASSUME IInv, Publish PROVE IInv'
<1> USE DEF Publish
<1>1. /\ pc = "publish" /\ at = Piece /\ Piece + Words < Cap /\ todo >= 1
      /\ sent + todo <= MaxWords
  BY DEF IInv, Call, Reserved, Moving
<1>2. /\ sent \in Nat /\ todo \in Nat /\ Piece \in Nat /\ Piece <= todo /\ Piece >= 1
      /\ Words \in Nat /\ Cap \in Nat /\ head \in 0..(Cap - 1) /\ tail \in 0..(Cap - 1)
      /\ MaxWords \in Nat /\ MaxWrite \in Nat
  BY <1>1, Counts, RingAssumption
<1>3. tail' = Slot(tail, Piece) /\ tail' \in 0..(Cap - 1)
  <2>1. Piece \in 0..Cap  BY <1>1, <1>2
  <2> QED BY <1>2, <2>1, SlotIs DEF Slot
<1>4. Words' = Words + Piece
  <2>1. Count(head, tail) + Piece < Cap  BY <1>1, <1>2 DEF Words
  <2> QED BY <1>2, <1>3, <2>1, CountMore DEF Words
<1>5. TypeOK'
  <2>1. sent' \in 0..MaxWords /\ todo' \in 0..MaxWrite /\ at' \in 0..(Cap - 1)
    BY <1>1, <1>2, RingAssumption DEF IInv, TypeOK
  <2>2. cpc' \in {"idle", "head", "tail", "data", "release", "again", "peek", "wait"}
    BY DEF IInv, TypeOK, Woken
  <2> QED BY <1>3, <2>1, <2>2 DEF IInv, TypeOK
<1>6. Call' /\ Behind' /\ Reserved'
  BY <1>1, <1>2 DEF Call, Behind, Reserved, Moving
<1>7. Stored'
  <2>1. sent' - Words' = sent - Words /\ Words' + at' = Words + at /\ Words <= sent
    BY <1>1, <1>2, <1>4 DEF IInv, Stored
  <2>2. Words' <= sent'  BY <1>2, <1>4, <2>1
  <2>3. UNCHANGED <<head, slots>>  OBVIOUS
  <2>4. \A i \in 0..(Words + at - 1) : slots[Slot(head, i)] = (sent - Words) + i + 1
    BY DEF IInv, Stored
  <2>5. ASSUME NEW i \in 0..(Words' + at' - 1)
        PROVE  slots'[Slot(head', i)] = (sent' - Words') + i + 1
    <3>1. i \in 0..(Words + at - 1)  BY <1>1, <1>2, <1>4
    <3>2. slots[Slot(head, i)] = (sent - Words) + i + 1  BY <2>4, <3>1
    <3> QED BY <2>1, <2>3, <3>2
  <2> QED BY <2>2, <2>5 DEF Stored
<1>8. Reading'
  <2>1. sent' - Words' = sent - Words /\ Words <= Words'  BY <1>2, <1>4
  <2>2. nslots \in Nat  BY Counts
  <2> QED BY <1>2, <1>4, <2>1, <2>2 DEF IInv, Reading, Woken
<1>9. NoLostWakeup'  BY DEF NoLostWakeup, Woken
<1> QED BY <1>5, <1>6, <1>7, <1>8, <1>9 DEF IInv

-----------------------------------------------------------------------------
\* The consumer.
LEMMA GetStep ==
  ASSUME IInv, NEW n \in 1..MaxGet, NEW b \in BOOLEAN, Get(n, b) PROVE IInv'
<1> USE DEF Get, memVars, prodVars
<1>1. TypeOK'  BY RingAssumption DEF IInv, TypeOK
<1>2. Call' /\ Behind' /\ Reserved' /\ Stored'
  BY DEF IInv, Call, Behind, Reserved, Stored, Moving, Words, Piece
<1>3. Reading' /\ NoLostWakeup'  BY DEF Reading, NoLostWakeup
<1> QED BY <1>1, <1>2, <1>3 DEF IInv

\* The decision on the head, which only the consumer moves: what it takes up is there.
LEMMA TakeUpStep == ASSUME IInv, cpc \in {"head", "tail"}, TakeUp(head) PROVE IInv'
<1> USE DEF TakeUp, memVars, prodVars
<1>1. Words = Count(head, tail) /\ Words \in 0..(Cap - 1) /\ want \in Nat /\ Cap \in Nat
  BY Counts DEF Words
<1>2. /\ nslots' = Least(want, Words) /\ nslots' \in 0..(Cap - 1)
      /\ nslots' <= Words /\ nslots' <= want
  BY <1>1 DEF Least
<1>3. <<>> \in Seq(1..MaxWords) /\ Len(<<>>) = 0  BY EmptySeq
<1>4. TypeOK'  BY <1>2, <1>3, RingAssumption DEF IInv, TypeOK
<1>5. Call' /\ Behind' /\ Reserved' /\ Stored'
  BY DEF IInv, Call, Behind, Reserved, Stored, Moving, Words, Piece
<1>6. Reading'  BY <1>1, <1>2, <1>3 DEF Reading, Words
<1>7. NoLostWakeup'  BY DEF NoLostWakeup
<1> QED BY <1>4, <1>5, <1>6, <1>7 DEF IInv

LEMMA GetsStep == ASSUME IInv, GetPtrs \/ GetHeadWord \/ GetTailWord PROVE IInv'
<1>1. CASE GetPtrs  BY <1>1, TakeUpStep DEF GetPtrs
<1>2. CASE GetTailWord
  <2>1. chead = head  BY <1>2 DEF IInv, Reading, GetTailWord
  <2> QED BY <1>2, <2>1, TakeUpStep DEF GetTailWord
<1>3. CASE GetHeadWord
  <2> USE <1>3 DEF GetHeadWord, memVars, prodVars
  <2>1. TypeOK'  BY DEF IInv, TypeOK
  <2>2. Call' /\ Behind' /\ Reserved' /\ Stored'
    BY DEF IInv, Call, Behind, Reserved, Stored, Moving, Words, Piece
  <2>3. Reading' /\ NoLostWakeup'  BY DEF Reading, NoLostWakeup
  <2> QED BY <2>1, <2>2, <2>3 DEF IInv
<1> QED BY <1>1, <1>2, <1>3

\* The words of one transfer are the next ones, whatever the producer writes by now.
LEMMA ReadDataStep == ASSUME IInv, ReadData PROVE IInv'
<1> DEFINE from == Slot(chead, Len(chunk))
           n    == Transfer(from, nslots - Len(chunk))
           run  == [i \in 1..n |-> slots[from + i - 1]]
<1>1. /\ cpc = "data" /\ chead = head /\ nslots <= Words /\ Len(chunk) < nslots
      /\ \A j \in 1..Len(chunk) : chunk[j] = (sent - Words) + j
  BY DEF ReadData, IInv, Reading
<1>2. from \in 0..(Cap - 1)
  <2>1. Len(chunk) \in 0..Cap  BY <1>1, Counts
  <2> QED BY <1>1, <2>1, Counts, SlotIs
<1>3. n \in 1..(nslots - Len(chunk)) /\ from + n <= Cap
  <2>1. nslots - Len(chunk) \in Nat /\ nslots - Len(chunk) >= 1  BY <1>1, Counts
  <2> QED BY <1>2, <2>1, TransferIs
<1>4. /\ chunk' = chunk \o run
      /\ cpc' = IF Len(chunk') = nslots THEN "release" ELSE "data"
      /\ UNCHANGED <<memVars, prodVars, blocks, want, chead, nslots, got>>
  BY DEF ReadData, Slot
<1>5. /\ n \in Nat /\ n >= 1 /\ from \in Nat /\ Len(chunk) \in Nat /\ nslots \in Nat
      /\ Words \in Nat /\ Words < Cap /\ Words <= sent /\ sent \in Nat /\ Cap \in Nat
      /\ at \in Nat /\ Len(chunk) + n <= nslots /\ head \in 0..(Cap - 1)
      /\ sent <= MaxWords /\ MaxWords \in Nat
  <2>1. sent <= MaxWords  BY RingAssumption DEF IInv, TypeOK
  <2>2. Words <= sent  BY DEF IInv, Stored
  <2>3. /\ head \in 0..(Cap - 1) /\ Words \in 0..(Cap - 1) /\ at \in Nat /\ sent \in Nat
        /\ nslots \in Nat /\ Len(chunk) \in Nat /\ Cap \in Nat /\ MaxWords \in Nat
    BY Counts, RingAssumption
  <2>4. from \in Nat  BY <1>2, <2>3
  <2> HIDE DEF from, n
  <2>5. n \in Nat /\ n >= 1 /\ Len(chunk) + n <= nslots  BY <1>1, <1>3, <2>3
  <2>6. Words < Cap  BY <2>3
  <2> QED BY <2>1, <2>2, <2>3, <2>4, <2>5, <2>6
<1> HIDE DEF from, n
<1>6. \A i \in 1..n : slots[from + i - 1] = (sent - Words) + Len(chunk) + i
  <2> SUFFICES ASSUME NEW i \in 1..n
               PROVE  slots[from + i - 1] = (sent - Words) + Len(chunk) + i
    OBVIOUS
  <2> DEFINE m == i - 1
  <2>1. /\ m \in Nat /\ m \in 0..Cap /\ from + m < Cap /\ from + m = from + i - 1
        /\ Len(chunk) + m \in 0..(Words + at - 1) /\ Len(chunk) + m <= Cap
        /\ (sent - Words) + (Len(chunk) + m) + 1 = (sent - Words) + Len(chunk) + i
    BY <1>1, <1>3, <1>5
  <2> HIDE DEF m
  <2>2. from + m = Slot(from, m)  BY <1>2, <2>1, SlotIs
  <2>3. Slot(from, m) = Slot(head, Len(chunk) + m)  BY <1>1, <1>5, <2>1, SlotSum DEF from
  <2>4. slots[Slot(head, Len(chunk) + m)] = (sent - Words) + (Len(chunk) + m) + 1
    BY <2>1 DEF IInv, Stored
  <2> QED BY <2>1, <2>2, <2>3, <2>4
<1>7. /\ run \in Seq(1..MaxWords) /\ Len(run) = n
      /\ \A i \in 1..n : run[i] = (sent - Words) + Len(chunk) + i
  <2>1. \A i \in 1..n : run[i] = (sent - Words) + Len(chunk) + i  BY <1>6
  <2>2. ASSUME NEW i \in 1..n PROVE run[i] \in 1..MaxWords
    <3>1. run[i] = (sent - Words) + Len(chunk) + i  BY <2>1
    <3>2. (sent - Words) + Len(chunk) + i \in 1..MaxWords  BY <1>1, <1>5
    <3> QED BY <3>1, <3>2
  <2> QED BY <1>5, <2>1, <2>2
<1> HIDE DEF run
<1>8. chunk \in Seq(1..MaxWords)  BY DEF IInv, TypeOK
<1>9. /\ chunk' \in Seq(1..MaxWords) /\ Len(chunk') = Len(chunk) + n
      /\ \A j \in 1..(Len(chunk) + n) :
           chunk'[j] = IF j <= Len(chunk) THEN chunk[j] ELSE run[j - Len(chunk)]
  BY <1>4, <1>7, <1>8, ConcatProperties
<1>10. \A j \in 1..Len(chunk') : chunk'[j] = (sent - Words) + j
  <2> SUFFICES ASSUME NEW j \in 1..(Len(chunk) + n) PROVE chunk'[j] = (sent - Words) + j
    BY <1>9
  <2>1. CASE j <= Len(chunk)
    BY <1>1, <1>5, <1>9, <2>1
  <2>2. CASE j > Len(chunk)
    <3>1. j - Len(chunk) \in 1..n  BY <1>5, <2>2
    <3>2. chunk'[j] = (sent - Words) + Len(chunk) + (j - Len(chunk))
      BY <1>5, <1>7, <1>9, <2>2, <3>1
    <3> QED BY <1>5, <3>1, <3>2
  <2> QED BY <1>5, <2>1, <2>2
<1>11. TypeOK'
  BY <1>4, <1>9 DEF IInv, TypeOK, memVars, prodVars
<1>12. Call' /\ Behind' /\ Reserved' /\ Stored'
  BY <1>4 DEF IInv, Call, Behind, Reserved, Stored, Moving, Words, Piece, memVars, prodVars
<1>13. Reading'
  <2>1. UNCHANGED <<sent, Words, nslots, want, chead, head>>
    BY <1>4 DEF Words, memVars, prodVars
  <2>2. Len(chunk') <= nslots  BY <1>5, <1>9
  <2>3. /\ cpc' = "data" => Len(chunk') < nslots
        /\ cpc' = "release" => Len(chunk') = nslots
    BY <1>4, <1>5, <1>9, <2>2
  <2> QED BY <1>1, <1>10, <2>1, <2>3 DEF IInv, Reading
<1>14. NoLostWakeup'  BY <1>4 DEF NoLostWakeup
<1> QED BY <1>11, <1>12, <1>13, <1>14 DEF IInv

\* The head moves over the words read: they are gone, what is behind them stays.
LEMMA ReleaseStep == ASSUME IInv, Release PROVE IInv'
<1> USE DEF Release, prodVars
<1>1. /\ cpc = "release" /\ chead = head /\ nslots <= Words /\ 1 <= nslots /\ nslots <= want
  BY DEF IInv, Reading
<1>2. /\ nslots \in Nat /\ want \in Nat /\ Words \in 0..(Cap - 1) /\ Cap \in Nat
      /\ head \in 0..(Cap - 1) /\ tail \in 0..(Cap - 1) /\ at \in Nat /\ Words + at < Cap
      /\ sent \in Nat /\ Words <= sent /\ Piece \in Nat
  BY Counts DEF IInv, Stored
<1>3. head' = Slot(head, nslots) /\ head' \in 0..(Cap - 1)
  <2>1. nslots \in 0..Cap  BY <1>1, <1>2
  <2> QED BY <1>1, <1>2, <2>1, SlotIs DEF Slot
<1>4. Words' = Words - nslots
  <2>1. nslots \in 0..Count(head, tail)  BY <1>1, <1>2 DEF Words
  <2> QED BY <1>2, <1>3, <2>1, CountLess DEF Words
<1>5. TypeOK'
  <2>1. <<>> \in Seq(1..MaxWords)  BY EmptySeq
  <2>2. want' \in 0..MaxGet  BY <1>1, <1>2, RingAssumption DEF IInv, TypeOK
  <2>3. 0 \in 0..(Cap - 1)  BY RingAssumption
  <2> QED BY <1>3, <2>1, <2>2, <2>3 DEF IInv, TypeOK
<1>6. Call' /\ Reserved'
  BY <1>1, <1>2, <1>4 DEF IInv, Call, Reserved, Moving, Piece
<1>7. Behind'
  <2>1. phead \in 0..(Cap - 1)  BY DEF IInv, TypeOK
  <2>2. Count(phead, tail) \in 0..(Cap - 1)  BY <1>2, <2>1, CountIs
  <2> QED BY <1>1, <1>2, <1>4, <2>2 DEF IInv, Behind
<1>8. Stored'
  <2>1. Words' <= sent'  BY <1>1, <1>2, <1>4
  <2>2. ASSUME NEW i \in 0..(Words' + at' - 1)
        PROVE  slots'[Slot(head', i)] = (sent' - Words') + i + 1
    <3>1. /\ i \in Nat /\ nslots + i \in 0..(Words + at - 1) /\ nslots + i <= Cap
          /\ (sent - Words) + (nslots + i) + 1 = (sent' - Words') + i + 1
      BY <1>1, <1>2, <1>4
    <3>2. Slot(head', i) = Slot(head, nslots + i)  BY <1>2, <1>3, <3>1, SlotSum
    <3>3. slots[Slot(head, nslots + i)] = (sent - Words) + (nslots + i) + 1
      BY <3>1 DEF IInv, Stored
    <3> QED BY <3>1, <3>2, <3>3
  <2> QED BY <2>1, <2>2 DEF Stored
<1>9. Reading' /\ NoLostWakeup'  BY DEF Reading, NoLostWakeup
<1> QED BY <1>5, <1>6, <1>7, <1>8, <1>9 DEF IInv

\* The reader looks once more before it sleeps, at the tail there is.
LEMMA PollsStep == ASSUME IInv, ReadAgain \/ Peek PROVE IInv'
<1> USE DEF ReadAgain, Peek, memVars, prodVars
<1>1. TypeOK'  BY DEF IInv, TypeOK
<1>2. Call' /\ Behind' /\ Reserved' /\ Stored'
  BY DEF IInv, Call, Behind, Reserved, Stored, Moving, Words, Piece
<1>3. Reading' /\ NoLostWakeup'  BY DEF IInv, Reading, NoLostWakeup
<1> QED BY <1>1, <1>2, <1>3 DEF IInv

LEMMA NextIInv == ASSUME IInv, [Next]_vars PROVE IInv'
<1>1. CASE UNCHANGED vars
  BY <1>1 DEF vars, memVars, prodVars, consVars, IInv, TypeOK, Call, Behind, Reserved, Stored,
     Reading, NoLostWakeup, Moving, Words, Piece
<1>2. CASE \E n \in 1..MaxWrite, b \in BOOLEAN : Write(n, b)  BY <1>2, WriteStep
<1>3. CASE Producer  BY <1>3, ReadsStep, WriteDataStep, PublishStep DEF Producer
<1>4. CASE Consumer
  BY <1>4, GetStep, GetsStep, ReadDataStep, ReleaseStep, PollsStep DEF Consumer
<1> QED BY <1>1, <1>2, <1>3, <1>4 DEF Next

LEMMA Inductive == Spec => []IInv
<1>1. Init => IInv  BY InitIInv
<1>2. IInv /\ [Next]_vars => IInv'  BY NextIInv
<1> QED BY <1>1, <1>2, PTL DEF Spec

-----------------------------------------------------------------------------
\* Every variable keeps its type: the pointers stay in the ring, nothing is read
\* that was not written.
THEOREM TypeCorrect == Spec => []TypeOK
<1>1. IInv => TypeOK  BY DEF IInv
<1> QED BY <1>1, Inductive, PTL

\* The room try_write found on a stale head is there when the words land, for every
\* capacity: full never looks like empty.
THEOREM RoomStays == Spec => []RoomIsThere
<1>1. IInv => RoomIsThere
  BY DEF IInv, Reserved, RoomIsThere, Moving, Words, Count
<1> QED BY <1>1, Inductive, PTL

\* Nobody sleeps before a ring with words in it.
THEOREM SleepersWake == Spec => []NoLostWakeup
<1>1. IInv => NoLostWakeup  BY DEF IInv
<1> QED BY <1>1, Inductive, PTL

\* "The producer can never reclaim a slot still being read": counted from the head,
\* what is being read is below Words and what is being written is not.
THEOREM SidesApart == Spec => []SlotsDisjoint
<1>1. IInv => SlotsDisjoint
  <2> SUFFICES ASSUME IInv, pc = "data", cpc = "data",
                      NEW i \in 0..((Piece - at) - 1), NEW j \in 0..((nslots - Len(chunk)) - 1),
                      Slot(tail + at, i) = Slot(chead + Len(chunk), j)
               PROVE  FALSE
    BY DEF SlotsDisjoint, WritingSlots, ReadingSlots, Run, Slot
  <2>1. /\ head \in 0..(Cap - 1) /\ tail \in 0..(Cap - 1) /\ Words \in 0..(Cap - 1)
        /\ at \in Nat /\ Piece \in Nat /\ nslots \in Nat /\ Len(chunk) \in Nat /\ Cap \in Nat
    BY Counts
  <2>2. at < Piece /\ Piece + Words < Cap /\ chead = head /\ nslots <= Words
    BY DEF IInv, Call, Reserved, Reading, Moving
  <2> DEFINE a == at + i  b == Len(chunk) + j  w == Words + a
  <2>3. /\ a \in Nat /\ b \in 0..(Cap - 1) /\ w \in 0..(Cap - 1) /\ Words + a <= Cap /\ w # b
    BY <2>1, <2>2
  <2>4. (tail + at) + i = tail + a /\ (chead + Len(chunk)) + j = head + b
    BY <2>1, <2>2
  <2> HIDE DEF a, b
  <2>5. Slot(tail, a) = Slot(head, b)  BY <2>4 DEF Slot
  <2>6. Slot(head, Words) = tail  BY <2>1, SlotOfCount DEF Words
  <2>7. Slot(tail, a) = Slot(head, w)  BY <2>1, <2>3, <2>6, SlotSum
  <2> HIDE DEF w
  <2> QED BY <2>1, <2>3, <2>5, <2>7, SlotsDiffer
<1> QED BY <1>1, Inductive, PTL

-----------------------------------------------------------------------------
\* n consecutive words after the first b.
Numbers(b, n) == [i \in 1..n |-> b + i]

LEMMA NumbersAre ==
  ASSUME NEW b \in Nat, NEW n \in Nat
  PROVE  /\ Numbers(b, n) \in Seq(Int) /\ Len(Numbers(b, n)) = n
         /\ \A i \in 1..n : Numbers(b, n)[i] = b + i
BY DEF Numbers

LEMMA NumbersJoin ==
  ASSUME NEW b \in Nat, NEW n \in Nat, NEW m \in Nat
  PROVE  Numbers(b, n) \o Numbers(b + n, m) = Numbers(b, n + m)
<1> DEFINE s == Numbers(b, n)  t == Numbers(b + n, m)  u == Numbers(b, n + m)
<1>0. b + n \in Nat /\ n + m \in Nat  OBVIOUS
<1>1. s \in Seq(Int) /\ Len(s) = n /\ \A i \in 1..n : s[i] = b + i  BY NumbersAre
<1>2. t \in Seq(Int) /\ Len(t) = m /\ \A i \in 1..m : t[i] = (b + n) + i
  BY <1>0, NumbersAre
<1>3. u \in Seq(Int) /\ Len(u) = n + m /\ \A i \in 1..(n + m) : u[i] = b + i
  BY <1>0, NumbersAre
<1> HIDE DEF s, t, u
<1>4. /\ s \o t \in Seq(Int) /\ Len(s \o t) = n + m
      /\ \A i \in 1..(n + m) : (s \o t)[i] = IF i <= n THEN s[i] ELSE t[i - n]
  BY <1>1, <1>2, ConcatProperties
<1>5. ASSUME NEW i \in 1..(n + m) PROVE (s \o t)[i] = u[i]
  <2>1. CASE i <= n
    <3>1. i \in 1..n  BY <2>1
    <3> QED BY <1>1, <1>3, <1>4, <2>1, <3>1
  <2>2. CASE i > n
    <3>1. i - n \in 1..m /\ (b + n) + (i - n) = b + i  BY <2>2
    <3>2. ~(i <= n)  BY <1>0, <2>2
    <3>3. (s \o t)[i] = t[i - n]  BY <1>4, <3>2
    <3>4. t[i - n] = (b + n) + (i - n)  BY <1>2, <3>1
    <3>5. u[i] = b + i  BY <1>3
    <3> QED BY <3>1, <3>3, <3>4, <3>5
  <2>3. i <= n \/ i > n  BY <1>0
  <2> QED BY <2>1, <2>2, <2>3
<1>6. s \o t = u  BY <1>3, <1>4, <1>5, SeqEqual
<1> QED BY <1>6 DEF s, t, u

LEMMA NumbersPart ==
  ASSUME NEW b \in Nat, NEW n \in Nat, NEW k \in 0..n
  PROVE  /\ SubSeq(Numbers(b, n), 1, k) = Numbers(b, k)
         /\ SubSeq(Numbers(b, n), k + 1, n) = Numbers(b + k, n - k)
<1> DEFINE s == Numbers(b, n)
<1>0. k \in Nat /\ n - k \in Nat /\ b + k \in Nat  OBVIOUS
<1>1. s \in Seq(Int) /\ Len(s) = n /\ \A i \in 1..n : s[i] = b + i  BY NumbersAre
<1> HIDE DEF s
<1>2. SubSeq(s, 1, k) = Numbers(b, k)
  <2> DEFINE t == SubSeq(s, 1, k)  u == Numbers(b, k)
  <2>1. \A i \in 1..k : s[i] \in Int  BY <1>0, <1>1
  <2>2. /\ t \in Seq(Int) /\ Len(t) = IF 1 <= k THEN (k - 1) + 1 ELSE 0
        /\ \A i \in 1..((k - 1) + 1) : t[i] = s[(1 + i) - 1]
    BY <1>0, <2>1, SubSeqProperties
  <2>3. u \in Seq(Int) /\ Len(u) = k /\ \A i \in 1..k : u[i] = b + i  BY <1>0, NumbersAre
  <2> HIDE DEF t, u
  <2>4. Len(t) = k  BY <1>0, <2>2
  <2>5. ASSUME NEW i \in 1..k PROVE t[i] = u[i]
    <3>1. i \in 1..((k - 1) + 1) /\ (1 + i) - 1 = i /\ i \in 1..n  BY <1>0
    <3> QED BY <1>1, <2>2, <2>3, <3>1
  <2>6. t = u  BY <2>2, <2>3, <2>4, <2>5, SeqEqual
  <2> QED BY <2>6 DEF t, u
<1>3. SubSeq(s, k + 1, n) = Numbers(b + k, n - k)
  <2> DEFINE m == k + 1  t == SubSeq(s, m, n)  u == Numbers(b + k, n - k)
  <2>0. m \in Int /\ n \in Int /\ (n - m) + 1 = n - k /\ (m <= n \/ n - k = 0)  BY <1>0
  <2>3. u \in Seq(Int) /\ Len(u) = n - k /\ \A i \in 1..(n - k) : u[i] = (b + k) + i
    BY <1>0, NumbersAre
  <2>1. \A i \in m..n : s[i] \in Int  BY <1>0, <1>1
  <2> HIDE DEF m
  <2>2. /\ t \in Seq(Int) /\ Len(t) = IF m <= n THEN (n - m) + 1 ELSE 0
        /\ \A i \in 1..((n - m) + 1) : t[i] = s[(m + i) - 1]
    BY <2>0, <2>1, SubSeqProperties
  <2> HIDE DEF t, u
  <2>4. Len(t) = n - k  BY <1>0, <2>0, <2>2
  <2>5. ASSUME NEW i \in 1..(n - k) PROVE t[i] = u[i]
    <3>1. i \in 1..((n - m) + 1)  BY <2>0
    <3>2. (m + i) - 1 = k + i /\ k + i \in 1..n  BY <1>0 DEF m
    <3>3. t[i] = b + (k + i)  BY <1>1, <2>2, <3>1, <3>2
    <3> QED BY <1>0, <2>3, <3>3
  <2>6. t = u  BY <2>2, <2>3, <2>4, <2>5, SeqEqual
  <2> QED BY <2>6 DEF t, u, m
<1> QED BY <1>2, <1>3 DEF s

\* What the abstract queue holds: the words put and not yet taken, by their numbers.
InRing == Inside = Numbers(sent - Words, Words)

LEMMA InsideIs == ASSUME IInv PROVE InRing
<1>1. /\ (tail - head) % Cap = Words /\ Words \in 0..(Cap - 1) /\ head \in 0..(Cap - 1)
      /\ at \in Nat /\ sent \in Nat
  BY Counts DEF Words, Count
<1>2. ASSUME NEW i \in 1..Words PROVE slots[(head + i - 1) % Cap] = (sent - Words) + i
  <2>1. head + i - 1 = head + (i - 1) /\ i - 1 \in 0..(Words + at - 1)
        /\ (sent - Words) + (i - 1) + 1 = (sent - Words) + i
    BY <1>1
  <2>2. slots[Slot(head, i - 1)] = (sent - Words) + (i - 1) + 1  BY <2>1 DEF IInv, Stored
  <2> QED BY <2>1, <2>2 DEF Slot
<1>3. Inside = [i \in 1..Words |-> slots[(head + i - 1) % Cap]]  BY <1>1 DEF Inside
<1> QED BY <1>2, <1>3 DEF InRing, Numbers

\* The initial ring is the empty queue.
LEMMA InitMaps == Init => Ring!Init
<1> SUFFICES ASSUME Init PROVE Ring!Init  OBVIOUS
<1>1. Words = 0 /\ sent = 0 /\ got = <<>>
  <2>1. 0 \in 0..(Cap - 1)  BY RingAssumption
  <2> QED BY <2>1, CountIs DEF Init, Words
<1>2. Inside = Numbers(0, 0)  BY <1>1, InitIInv, InsideIs DEF InRing
<1>3. Numbers(0, 0) \in Seq(Int) /\ Len(Numbers(0, 0)) = 0  BY NumbersAre
<1>4. Inside = <<>>  BY <1>2, <1>3, EmptySeq
<1> QED BY <1>1, <1>4 DEF Ring!Init

\* Writing the tail is a Put of the whole piece.
LEMMA PublishPuts == ASSUME IInv, InRing, InRing', Publish PROVE Ring!Put
<1> USE DEF Publish
<1>1. /\ Piece \in Nat /\ Piece >= 1 /\ Words \in Nat /\ sent \in Nat /\ Cap \in Nat
      /\ Piece + Words < Cap /\ Words <= sent /\ sent - Words \in Nat
  <2>1. todo >= 1 /\ Piece + Words < Cap /\ Words <= sent
    BY DEF IInv, Call, Reserved, Stored, Moving
  <2>2. /\ Piece \in Nat /\ (todo >= 1 => Piece >= 1) /\ Words \in 0..(Cap - 1)
        /\ sent \in Nat /\ Cap \in Nat
    BY Counts
  <2> QED BY <2>1, <2>2
<1>2. Words' = Words + Piece /\ sent' = sent + Piece /\ got' = got
  <2>1. tail' = Slot(tail, Piece)  BY DEF Slot
  <2>2. Count(head, tail) + Piece < Cap  BY <1>1 DEF Words
  <2>3. head \in 0..(Cap - 1) /\ tail \in 0..(Cap - 1)  BY Counts
  <2>4. Count(head, Slot(tail, Piece)) = Count(head, tail) + Piece
    BY <1>1, <2>2, <2>3, CountMore
  <2> QED BY <2>1, <2>4 DEF Words
<1>3. Inside = Numbers(sent - Words, Words)  BY DEF InRing
<1>4. Inside' = Numbers(sent' - Words', Words')  BY DEF InRing
<1>5. sent' - Words' = sent - Words /\ (sent - Words) + Words = sent  BY <1>1, <1>2
<1>6. Inside' = Numbers(sent - Words, Words + Piece)  BY <1>2, <1>4, <1>5
<1>7. Inside' = Inside \o Numbers(sent, Piece)
  <2>1. Numbers(sent - Words, Words) \o Numbers((sent - Words) + Words, Piece)
          = Numbers(sent - Words, Words + Piece)
    BY <1>1, NumbersJoin
  <2> QED BY <1>3, <1>5, <1>6, <2>1
<1>8. Len(Inside) = Words  BY <1>1, <1>3, NumbersAre
<1>9. Piece \in 1..((Cap - 1) - Len(Inside))  BY <1>1, <1>8
<1> QED BY <1>2, <1>7, <1>9 DEF Ring!Put, Numbers

\* Writing the head is a Take of the words read.
LEMMA ReleaseTakes == ASSUME IInv, InRing, InRing', Release PROVE Ring!Take
<1> USE DEF Release, prodVars
<1>1. /\ chead = head /\ 1 <= nslots /\ nslots <= Words /\ Len(chunk) = nslots
      /\ \A j \in 1..Len(chunk) : chunk[j] = (sent - Words) + j
      /\ Words <= sent
  BY DEF IInv, Reading, Stored
<1>2. /\ nslots \in 0..Words /\ nslots \in Nat /\ Words \in Nat /\ sent \in Nat
      /\ sent - Words \in Nat /\ Cap \in Nat
  <2>1. nslots \in Nat /\ Words \in 0..(Cap - 1) /\ sent \in Nat /\ Cap \in Nat  BY Counts
  <2> QED BY <1>1, <2>1
<1>3. Words' = Words - nslots
  <2>1. head' = Slot(head, nslots)  BY <1>1 DEF Slot
  <2>2. nslots \in 0..Count(head, tail)  BY <1>2 DEF Words
  <2>3. head \in 0..(Cap - 1) /\ tail \in 0..(Cap - 1)  BY Counts
  <2>4. Count(Slot(head, nslots), tail) = Count(head, tail) - nslots
    BY <2>2, <2>3, CountLess
  <2> QED BY <2>1, <2>4 DEF Words
<1>4. Inside = Numbers(sent - Words, Words)  BY DEF InRing
<1>5. Inside' = Numbers(sent' - Words', Words')  BY DEF InRing
<1>6. sent' = sent /\ sent - (Words - nslots) = (sent - Words) + nslots  BY <1>2
<1>7. Inside' = Numbers((sent - Words) + nslots, Words - nslots)  BY <1>3, <1>5, <1>6
<1>8. Len(Inside) = Words  BY <1>2, <1>4, NumbersAre
<1>9. Inside' = SubSeq(Inside, nslots + 1, Len(Inside))
  <2>1. SubSeq(Numbers(sent - Words, Words), nslots + 1, Words)
          = Numbers((sent - Words) + nslots, Words - nslots)
    BY <1>2, NumbersPart
  <2> QED BY <1>4, <1>7, <1>8, <2>1
<1>10. chunk = Numbers(sent - Words, nslots)
  <2>1. chunk \in Seq(Int)  BY SeqMonotonic, RingAssumption DEF IInv, TypeOK
  <2> DEFINE u == Numbers(sent - Words, nslots)
  <2>2. u \in Seq(Int) /\ Len(u) = nslots /\ \A i \in 1..nslots : u[i] = (sent - Words) + i
    BY <1>2, NumbersAre
  <2> HIDE DEF u
  <2>3. chunk = u  BY <1>1, <2>1, <2>2, SeqEqual
  <2> QED BY <2>3 DEF u
<1>11. got' = SubSeq(Inside, 1, nslots)  BY <1>2, <1>4, <1>10, NumbersPart
<1>12. nslots \in 1..Len(Inside)  BY <1>1, <1>2, <1>8
<1> QED BY <1>6, <1>9, <1>11, <1>12 DEF Ring!Take

\* Every other step leaves the queue, the count and the last read as they are.
LEMMA StepMaps ==
  ASSUME IInv, InRing, InRing', [Next]_vars PROVE [Ring!Next]_<<Inside, sent, got>>
<1>1. CASE Publish  BY <1>1, PublishPuts DEF Ring!Next
<1>2. CASE Release  BY <1>2, ReleaseTakes DEF Ring!Next
<1>3. CASE UNCHANGED <<head, tail, sent, got>>
  <2>1. Words' = Words  BY <1>3 DEF Words
  <2>2. Inside = Numbers(sent - Words, Words)  BY DEF InRing
  <2>3. Inside' = Numbers(sent' - Words', Words')  BY DEF InRing
  <2> QED BY <1>3, <2>1, <2>2, <2>3
<1>4. Publish \/ Release \/ UNCHANGED <<head, tail, sent, got>>
  BY DEF vars, memVars, prodVars, consVars, Next, Producer, Consumer, Write, ReadPtrs,
     ReadHeadWord, ReadTailWord, Decide, WriteData, Get, GetPtrs, GetHeadWord, GetTailWord,
     TakeUp, ReadData, ReadAgain, Peek
<1> QED BY <1>1, <1>2, <1>3, <1>4

\* The ring is a bounded FIFO, step by step: batches appear whole when the tail is
\* written, in order, and leave whole when the head is (BoundedFifo without its
\* liveness, which the run Ring checks).
THEOREM RingIsFifo == Spec => Ring!Init /\ [][Ring!Next]_<<Inside, sent, got>>
<1>1. Init => Ring!Init  BY InitMaps
<1>2. IInv /\ InRing /\ InRing' /\ [Next]_vars => [Ring!Next]_<<Inside, sent, got>>  BY StepMaps
<1>3. IInv => InRing  BY InsideIs
<1> QED BY <1>1, <1>2, <1>3, Inductive, PTL DEF Spec
=============================================================================
