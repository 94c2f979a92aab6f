------------------------------ MODULE AximmRing ------------------------------
(***************************************************************************)
(* waveflow/hw/aximm_queue.py: a ring buffer in memory, used by one        *)
(* producer and one consumer over a memory-mapped bus.  Each keeps nothing *)
(* between calls: it reads both pointers, moves the data, and writes its   *)
(* own pointer, each a transaction of its own.                             *)
(*                                                                         *)
(* A step is the instant a transaction reaches the memory; the latency     *)
(* before and after it is where the other side moves, so every value read  *)
(* may be stale when it is used.  A slot is one word (elem_words = 1).     *)
(***************************************************************************)
EXTENDS Integers, Sequences, FiniteSets

CONSTANTS
  Cap,      \* AXIMMQueueLayout.capacity, in slots
  MaxWrite, \* largest write, in words: more than the ring holds
  MaxGet,   \* largest read
  MaxWords  \* bound: words written in a behaviour

ASSUME RingAssumption ==
  /\ Cap \in Nat /\ Cap >= 2
  /\ MaxWrite \in Nat \ {0} /\ MaxGet \in Nat \ {0} /\ MaxWords \in Nat

VARIABLES
  lite,        \* fixed at bind: AXIMMProtocol.LITE, one word per transfer
  \* the memory region
  head, tail,  \* control words 0 and 1
  slots,       \* the data region
  \* the producer's call
  pc,     \* "idle", "head"/"tail" (pointer read), "data", "publish"
  waits,  \* _write_raw (write), not a bare try_write
  todo,   \* words of the call not yet in the ring
  at,     \* words of the piece already written
  phead,  \* the head it read
  sent,   \* history: words published
  \* the consumer's call
  cpc,    \* "idle", "head"/"tail", "data", "release", and in _get_raw_slots
          \* "again" (second pointer read), "peek", "wait" (for a write-notify)
  blocks, \* _get_raw_slots (get), not a bare try_get
  want,   \* slots of the call not yet read
  chead,  \* the head it read
  nslots, \* slots of the try_get in progress
  chunk,  \* words of it read so far
  got     \* what the last try_get with data returned

memVars  == <<lite, head, tail, slots>>
prodVars == <<pc, waits, todo, at, phead, sent>>
consVars == <<cpc, blocks, want, chead, nslots, chunk, got>>
vars == <<memVars, prodVars, consVars>>

Least(a, b) == IF a < b THEN a ELSE b

Init ==
  /\ lite \in BOOLEAN
  /\ head = 0 /\ tail = 0 /\ slots = [i \in 0..(Cap - 1) |-> 0]
  /\ pc = "idle" /\ waits = FALSE /\ todo = 0 /\ at = 0 /\ phead = 0 /\ sent = 0
  /\ cpc = "idle" /\ blocks = FALSE /\ want = 0 /\ chead = 0 /\ nslots = 0
  /\ chunk = <<>> /\ got = <<>>

-----------------------------------------------------------------------------
Count(h, t) == (t - h) % Cap
\* Fault: no slot kept empty.
FreeSlots(h, t) == Cap - Count(h, t)

Free(h, t)  == (Cap - 1) - Count(h, t)

\* Fault: the run is not split at the end of the ring.
TransferUnsplit(i, n) == IF lite THEN 1 ELSE n

\* Slots one transfer moves, from slot i of n left: it stops at the ring's end.
Transfer(i, n) == IF lite THEN 1 ELSE Least(n, Cap - i)

\* Fault: a write longer than the ring in one piece.
PieceWhole == todo

\* The chunk of the next try_write: at most the usable depth under _write_raw.
Piece == IF waits THEN Least(todo, Cap - 1) ELSE todo

\* Fault: no notification.
NotWoken(c) == c

\* A completed write wakes the poller of the slave, whichever word it wrote.
Woken(c) == IF c = "wait" THEN "peek" ELSE c

\* try_write(words) and write(words).
Write(n, blocking) ==
  /\ pc = "idle" /\ sent + n <= MaxWords
  /\ pc' = "head" /\ waits' = blocking /\ todo' = n
  /\ UNCHANGED <<memVars, at, phead, sent, consVars>>

\* The decision of try_write on the pointers: a piece that does not fit is
\* refused; _write_raw then sleeps and tries again.
Decide(h) ==
  /\ phead' = h /\ at' = 0
  /\ \/ Piece <= Free(h, tail) /\ pc' = "data" /\ UNCHANGED todo
     \/ Piece > Free(h, tail) /\ waits /\ pc' = "head" /\ UNCHANGED todo
     \/ Piece > Free(h, tail) /\ ~waits /\ pc' = "idle" /\ todo' = 0
  /\ UNCHANGED <<memVars, waits, sent, consVars>>

\* _read_ptrs: the two words in one transfer, or in one transfer each.
ReadPtrs     == pc = "head" /\ ~lite /\ Decide(head)
ReadHeadWord == /\ pc = "head" /\ lite
                /\ phead' = head /\ pc' = "tail"
                /\ UNCHANGED <<memVars, waits, todo, at, sent, consVars>>
ReadTailWord == pc = "tail" /\ Decide(phead)

\* A data write: the words of one transfer into their slots, from the tail on.
\* The poller is notified at the end of the run, at the end of the ring or of
\* the piece.
WriteData ==
  /\ pc = "data"
  /\ LET from == (tail + at) % Cap
         n    == Transfer(from, Piece - at)
     IN /\ slots' = [i \in DOMAIN slots |->
                       IF i \in from..(from + n - 1) THEN sent + at + (i - from) + 1
                                                     ELSE slots[i]]
        /\ at' = at + n
        /\ pc' = IF at + n = Piece THEN "publish" ELSE "data"
        /\ cpc' = IF at + n = Piece \/ from + n = Cap THEN Woken(cpc) ELSE cpc
  /\ UNCHANGED <<lite, head, tail, waits, todo, phead, sent, blocks, want, chead, nslots, chunk, got>>

\* Fault: the tail runs on past the ring.
PublishUnwrapped ==
  /\ pc = "publish"
  /\ tail' = tail + Piece
  /\ sent' = sent + Piece /\ todo' = todo - Piece /\ at' = 0
  /\ pc' = IF todo' > 0 THEN "head" ELSE "idle"
  /\ cpc' = Woken(cpc)
  /\ UNCHANGED <<lite, head, slots, waits, phead, blocks, want, chead, nslots, chunk, got>>

\* The write of the new tail, and the next piece.
Publish ==
  /\ pc = "publish"
  /\ tail' = (tail + Piece) % Cap
  /\ sent' = sent + Piece /\ todo' = todo - Piece /\ at' = 0
  /\ pc' = IF todo' > 0 THEN "head" ELSE "idle"
  /\ cpc' = Woken(cpc)
  /\ UNCHANGED <<lite, head, slots, waits, phead, blocks, want, chead, nslots, chunk, got>>

-----------------------------------------------------------------------------
\* try_get(n) and get of n slots.
Get(n, blocking) ==
  /\ cpc = "idle"
  /\ cpc' = "head" /\ blocks' = blocking /\ want' = n
  /\ UNCHANGED <<memVars, prodVars, chead, nslots, chunk, got>>

\* Fault: the head is given up before the data is read.
TakeUpEarly(h) ==
  /\ chead' = h /\ nslots' = Least(want, Count(h, tail)) /\ chunk' = <<>>
  /\ head' = (h + nslots') % Cap
  /\ \/ nslots' > 0 /\ cpc' = "data" /\ UNCHANGED want
     \/ nslots' = 0 /\ blocks /\ cpc' = "again" /\ UNCHANGED want
     \/ nslots' = 0 /\ ~blocks /\ cpc' = "idle" /\ want' = 0
  /\ UNCHANGED <<lite, tail, slots, prodVars, blocks, got>>

\* The decision of try_get on the pointers: nothing to read ends a try_get and
\* sends _get_raw_slots to poll.
TakeUp(h) ==
  /\ chead' = h /\ nslots' = Least(want, Count(h, tail)) /\ chunk' = <<>>
  /\ \/ nslots' > 0 /\ cpc' = "data" /\ UNCHANGED want
     \/ nslots' = 0 /\ blocks /\ cpc' = "again" /\ UNCHANGED want
     \/ nslots' = 0 /\ ~blocks /\ cpc' = "idle" /\ want' = 0
  /\ UNCHANGED <<memVars, prodVars, blocks, got>>

GetPtrs     == cpc = "head" /\ ~lite /\ TakeUp(head)
GetHeadWord == /\ cpc = "head" /\ lite
               /\ chead' = head /\ cpc' = "tail"
               /\ UNCHANGED <<memVars, prodVars, blocks, want, nslots, chunk, got>>
GetTailWord == cpc = "tail" /\ TakeUp(chead)

\* A data read, returned only when its latency is over.
ReadData ==
  /\ cpc = "data"
  /\ LET from == (chead + Len(chunk)) % Cap
         n    == Transfer(from, nslots - Len(chunk))
     IN /\ chunk' = chunk \o [i \in 1..n |-> slots[from + i - 1]]
        /\ cpc' = IF Len(chunk') = nslots THEN "release" ELSE "data"
  /\ UNCHANGED <<memVars, prodVars, blocks, want, chead, nslots, got>>

\* The write of the new head; get collects until it has what it wants.
Release ==
  /\ cpc = "release"
  /\ head' = (chead + nslots) % Cap
  /\ got' = chunk /\ chunk' = <<>> /\ nslots' = 0
  /\ want' = IF blocks THEN want - nslots ELSE 0
  /\ cpc' = IF want' > 0 THEN "head" ELSE "idle"
  /\ UNCHANGED <<lite, tail, slots, prodVars, blocks, chead>>

\* _get_raw_slots on an empty ring: the head once more ...
ReadAgain ==
  /\ cpc = "again"
  /\ chead' = head /\ cpc' = "peek"
  /\ UNCHANGED <<memVars, prodVars, blocks, want, nslots, chunk, got>>

\* ... then poll_until(tail_addr, Ne(head)): look, or sleep until a write.
Peek ==
  /\ cpc = "peek"
  /\ cpc' = IF tail # chead THEN "head" ELSE "wait"
  /\ UNCHANGED <<memVars, prodVars, blocks, want, chead, nslots, chunk, got>>

-----------------------------------------------------------------------------
Producer == ReadPtrs \/ ReadHeadWord \/ ReadTailWord \/ WriteData \/ Publish

Consumer ==
  \/ \E n \in 1..MaxGet, b \in BOOLEAN : Get(n, b)
  \/ GetPtrs \/ GetHeadWord \/ GetTailWord \/ ReadData \/ Release
  \/ ReadAgain \/ Peek

Next ==
  \/ \E n \in 1..MaxWrite, b \in BOOLEAN : Write(n, b)
  \/ Producer \/ Consumer

\* A call in progress goes on, and the consumer is a loop that reads again.
Fairness == WF_vars(Producer) /\ WF_vars(Consumer)

Spec == Init /\ [][Next]_vars /\ Fairness

-----------------------------------------------------------------------------
\* Every variable has the type the code gives it.
TypeOK ==
  /\ lite \in BOOLEAN
  /\ head \in 0..(Cap - 1) /\ tail \in 0..(Cap - 1)
  /\ slots \in [0..(Cap - 1) -> 0..MaxWords]
  /\ pc \in {"idle", "head", "tail", "data", "publish"}
  /\ waits \in BOOLEAN /\ todo \in 0..MaxWrite /\ at \in 0..(Cap - 1)
  /\ phead \in 0..(Cap - 1) /\ sent \in 0..MaxWords
  /\ cpc \in {"idle", "head", "tail", "data", "release", "again", "peek", "wait"}
  /\ blocks \in BOOLEAN /\ want \in 0..MaxGet
  /\ chead \in 0..(Cap - 1) /\ nslots \in 0..(Cap - 1)
  /\ chunk \in Seq(1..MaxWords) /\ got \in Seq(1..MaxWords)

\* The room a write found is still there when its data lands, however stale
\* the head it read, and one slot stays empty: full never looks like empty.
RoomIsThere ==
  pc \in {"data", "publish"} => Piece + ((tail - head) % Cap) < Cap

\* "The producer can never reclaim a slot still being read" and the consumer
\* never reads one that is being written: the slots the two sides still have
\* to move are disjoint.
Run(from, n)  == {(from + i) % Cap : i \in 0..(n - 1)}
WritingSlots  == IF pc = "data" THEN Run(tail + at, Piece - at) ELSE {}
ReadingSlots  == IF cpc = "data" THEN Run(chead + Len(chunk), nslots - Len(chunk)) ELSE {}
SlotsDisjoint == WritingSlots \cap ReadingSlots = {}

\* "No lost wakeup" (_notify_write): a reader asleep has an empty ring before it.
NoLostWakeup == cpc = "wait" => head = tail

\* A blocking write, of any length, gets through while the consumer reads.
WriteEnds == (pc # "idle" /\ waits) ~> (pc = "idle")

\* The ring implements a FIFO of Cap - 1 words, whose batches appear at once
\* when tail is written and leave at once when head is.
Inside == [i \in 1..((tail - head) % Cap) |-> slots[(head + i - 1) % Cap]]
Ring == INSTANCE BoundedFifo WITH Room <- Cap - 1, queue <- Inside, put <- sent, got <- got
IsBoundedFifo == Ring!Spec
=============================================================================
