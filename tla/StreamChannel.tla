---------------------------- MODULE StreamChannel ----------------------------
(***************************************************************************)
(* A stream channel of waveflow/hw/interface.py: producers that write (may *)
(* wait) or offer (may not) bursts of words into one slave endpoint, and   *)
(* the process that reads the bursts.                                      *)
(*                                                                         *)
(* A step is what one SimPy process does between two yields.  The hops of  *)
(* the write path that need no event are taken inside a step, as the code  *)
(* takes them (_bus_take, _level_put, _store_put); offer yields at each.   *)
(***************************************************************************)
EXTENDS Integers, Sequences, Sums

CONSTANTS
  Producers,  \* processes that write into the endpoint
  Kinds,      \* subset of {"write", "offer"}: the verbs they use
  Cap,        \* queue_size of the endpoint, in words
  MaxLen,     \* longest burst; one longer than Cap spills into ntx
  MaxBursts   \* bound: bursts asked for in a behaviour

ASSUME StreamAssumption ==
  /\ Cap \in Nat \ {0} /\ MaxLen \in Nat \ {0} /\ MaxBursts \in Nat
  /\ Kinds \subseteq {"write", "offer"} /\ Producers # {}

VARIABLES
  pc,       \* where each producer is: see the actions
  job,      \* the burst each producer is moving
  bus,      \* simpy.Resource: the holder, then the requests queued for it
  parked,   \* words the holder's nrx.put is waiting to add; 0: none
  rem,      \* words of the holder's burst that offer has still to account
  blocked,  \* what the holder's offer saw: nrx was full
  buffer,   \* data_buffer: whole bursts
  nrx, ntx, \* the levels of the two containers
  cpc,      \* the reader: "run", "wait" (in data_buffer.get), "handed"
  hand,     \* the burst handed to a waiting reader that has not resumed
  dropped,  \* StreamIF.dropped, in words
  failed,   \* _take_burst raised RuntimeError
  begun     \* bursts asked for so far

vars == <<pc, job, bus, parked, rem, blocked, buffer, nrx, ntx, cpc, hand,
          dropped, failed, begun>>

Least(a, b) == IF a < b THEN a ELSE b

Bursts == [id : 1..MaxBursts, kind : Kinds, n : 1..MaxLen]
NoJob  == [id |-> 0, kind |-> "write", n |-> 0]

Init ==
  /\ pc = [p \in Producers |-> "idle"] /\ job = [p \in Producers |-> NoJob]
  /\ bus = <<>> /\ parked = 0 /\ rem = 0 /\ blocked = FALSE
  /\ buffer = <<>> /\ nrx = 0 /\ ntx = 0
  /\ cpc = "run" /\ hand = NoJob
  /\ dropped = 0 /\ failed = FALSE /\ begun = 0

Holds(p)   == bus # <<>> /\ Head(bus) = p
Goto(p, l) == pc' = [pc EXCEPT ![p] = l]

-----------------------------------------------------------------------------
\* write(words) or offer(words): take the bus or join the line for it.
Ask(p, k, n) ==
  /\ pc[p] = "idle" /\ begun < MaxBursts
  /\ begun' = begun + 1
  /\ job' = [job EXCEPT ![p] = [id |-> begun + 1, kind |-> k, n |-> n]]
  /\ bus' = Append(bus, p)
  /\ Goto(p, IF k = "write" THEN "air" ELSE "settle")
  /\ UNCHANGED <<parked, rem, blocked, buffer, nrx, ntx, cpc, hand, dropped, failed>>

\* Fault: a burst handed to a waiting reader stays in the buffer too.
StoreTwice(b) ==
  /\ buffer' = Append(buffer, b)
  /\ IF cpc = "wait" THEN cpc' = "handed" /\ hand' = b ELSE UNCHANGED <<cpc, hand>>

\* The burst into data_buffer; a reader waiting for one is handed it at once,
\* and will retire its words when it resumes.
Store(b) ==
  IF cpc = "wait"
    THEN cpc' = "handed" /\ hand' = b /\ UNCHANGED buffer
    ELSE buffer' = Append(buffer, b) /\ UNCHANGED <<cpc, hand>>

\* The end of _transfer and of the bus hold: words past Cap into ntx, the burst
\* into the buffer, the bus to the next request.
Deliver(p) ==
  /\ ntx' = ntx + (job[p].n - Least(job[p].n, Cap))
  /\ Store(job[p])
  /\ bus' = Tail(bus) /\ Goto(p, "idle")

\* Fault: room for one word is room for the burst.
WriteLandsOnOne(p) ==
  /\ Holds(p) /\ pc[p] = "air" /\ job[p].kind = "write"
  /\ \/ /\ nrx < Cap
        /\ nrx' = Least(nrx + job[p].n, Cap)
        /\ Deliver(p) /\ UNCHANGED parked
     \/ /\ nrx = Cap
        /\ parked' = 1 /\ Goto(p, "room")
        /\ UNCHANGED <<bus, buffer, nrx, ntx, cpc, hand>>
  /\ UNCHANGED <<job, rem, blocked, dropped, failed, begun>>

\* write, after its transfer time: _admit_blocking.
WriteLands(p) ==
  /\ Holds(p) /\ pc[p] = "air" /\ job[p].kind = "write"
  /\ LET want == Least(job[p].n, Cap) IN
       \/ /\ Cap - nrx >= want
          /\ nrx' = nrx + want
          /\ Deliver(p) /\ UNCHANGED parked
       \/ /\ Cap - nrx < want
          /\ parked' = want /\ Goto(p, "room")
          /\ UNCHANGED <<bus, buffer, nrx, ntx, cpc, hand>>
  /\ UNCHANGED <<job, rem, blocked, dropped, failed, begun>>

\* write, resumed by the grant of its nrx.put.
WriteResumes(p) ==
  /\ Holds(p) /\ pc[p] = "room" /\ parked = 0
  /\ Deliver(p)
  /\ UNCHANGED <<job, parked, rem, blocked, nrx, dropped, failed, begun>>

-----------------------------------------------------------------------------
\* Fault: a channel that is just full is taken for one with room.
OfferLooksLate(p) ==
  /\ Holds(p) /\ pc[p] = "settle"
  /\ blocked' = (nrx > Cap)
  /\ Goto(p, "air")
  /\ UNCHANGED <<job, bus, parked, rem, buffer, nrx, ntx, cpc, hand, dropped, failed, begun>>

\* offer with the bus, the instant settled: is the reader behind?
OfferLooks(p) ==
  /\ Holds(p) /\ pc[p] = "settle"
  /\ blocked' = (nrx >= Cap)
  /\ Goto(p, "air")
  /\ UNCHANGED <<job, bus, parked, rem, buffer, nrx, ntx, cpc, hand, dropped, failed, begun>>

\* offer after its transfer time: dropped whole, or nrx.put(1).
OfferLands(p) ==
  /\ Holds(p) /\ pc[p] = "air" /\ job[p].kind = "offer"
  /\ \/ /\ blocked
        /\ dropped' = dropped + job[p].n
        /\ bus' = Tail(bus) /\ Goto(p, "idle")
        /\ UNCHANGED <<parked, rem, nrx>>
     \/ /\ ~blocked
        /\ rem' = job[p].n - 1
        /\ IF Cap - nrx >= 1 THEN nrx' = nrx + 1 /\ UNCHANGED parked
                             ELSE parked' = 1 /\ UNCHANGED nrx
        /\ Goto(p, "one")
        /\ UNCHANGED <<dropped, bus>>
  /\ blocked' = FALSE
  /\ UNCHANGED <<job, buffer, ntx, cpc, hand, failed, begun>>

\* Fault: the room is that of the empty channel.
OfferFillsAll(p) ==
  /\ pc[p] = "one" /\ rem > 0
  /\ nrx' = nrx + Least(rem, Cap) /\ rem' = rem - Least(rem, Cap)
  /\ Goto(p, "fill")
  /\ UNCHANGED <<ntx, buffer, cpc, hand>>

\* Fault: the words that do not fit are counted nowhere.
OfferSpillsNothing(p) ==
  /\ pc[p] = "fill" \/ (pc[p] = "one" /\ Least(rem, Cap - nrx) = 0)
  /\ rem > 0 /\ rem' = 0
  /\ Goto(p, "spill")
  /\ UNCHANGED <<nrx, ntx, buffer, cpc, hand>>

\* _admit after each of its yields: what nrx still has room for, then the rest
\* into ntx, then the burst into the buffer; a part of no words is no event.
OfferFills(p) ==
  /\ pc[p] = "one" /\ Least(rem, Cap - nrx) > 0
  /\ nrx' = nrx + Least(rem, Cap - nrx) /\ rem' = rem - Least(rem, Cap - nrx)
  /\ Goto(p, "fill")
  /\ UNCHANGED <<ntx, buffer, cpc, hand>>

OfferSpills(p) ==
  /\ pc[p] = "fill" \/ (pc[p] = "one" /\ Least(rem, Cap - nrx) = 0)
  /\ rem > 0
  /\ ntx' = ntx + rem /\ rem' = 0
  /\ Goto(p, "spill")
  /\ UNCHANGED <<nrx, buffer, cpc, hand>>

OfferStores(p) ==
  /\ pc[p] \in {"one", "fill", "spill"} /\ rem = 0
  /\ Store(job[p])
  /\ Goto(p, "stored")
  /\ UNCHANGED <<nrx, ntx, rem>>

OfferAdmits(p) ==
  /\ Holds(p) /\ parked = 0
  /\ OfferFills(p) \/ OfferSpills(p) \/ OfferStores(p)
  /\ UNCHANGED <<job, bus, parked, blocked, dropped, failed, begun>>

OfferReturns(p) ==
  /\ Holds(p) /\ pc[p] = "stored"
  /\ bus' = Tail(bus) /\ Goto(p, "idle")
  /\ UNCHANGED <<job, parked, rem, blocked, buffer, nrx, ntx, cpc, hand, dropped, failed, begun>>

-----------------------------------------------------------------------------
\* Fault: all the words of the burst are taken from nrx.
RetireFromRx(n) ==
  /\ UNCHANGED ntx
  /\ IF n > nrx THEN failed' = TRUE /\ UNCHANGED <<nrx, parked>>
     ELSE /\ UNCHANGED failed
          /\ IF parked > 0 /\ Cap - (nrx - n) >= parked
               THEN nrx' = nrx - n + parked /\ parked' = 0
               ELSE nrx' = nrx - n /\ UNCHANGED parked

\* Fault: the put that waits for nrx to fall is not granted.
RetireSilently(n) ==
  /\ ntx' = ntx - Least(n, ntx) /\ nrx' = nrx - (n - Least(n, ntx))
  /\ UNCHANGED <<failed, parked>>

\* _take_burst's accounting: ntx first, then nrx, and the fall of nrx grants
\* the put that waits for it.
Retire(n) ==
  LET btx  == Least(n, ntx)
      brx  == n - btx
      left == nrx - brx
  IN /\ ntx' = ntx - btx
     /\ IF brx > nrx THEN failed' = TRUE /\ UNCHANGED <<nrx, parked>>
        ELSE /\ UNCHANGED failed
             /\ IF brx > 0 /\ parked > 0 /\ Cap - left >= parked
                  THEN nrx' = left + parked /\ parked' = 0
                  ELSE nrx' = left /\ UNCHANGED parked

\* get with a burst there.
Get ==
  /\ cpc = "run" /\ buffer # <<>>
  /\ Retire(Head(buffer).n) /\ buffer' = Tail(buffer)
  /\ UNCHANGED <<pc, job, bus, rem, blocked, cpc, hand, dropped, begun>>

\* get with none: wait in data_buffer.get ...
GetWaits ==
  /\ cpc = "run" /\ buffer = <<>>
  /\ cpc' = "wait"
  /\ UNCHANGED <<pc, job, bus, parked, rem, blocked, buffer, nrx, ntx, hand, dropped, failed, begun>>

\* ... and resume with the burst that was handed over.
GetResumes ==
  /\ cpc = "handed"
  /\ Retire(hand.n) /\ cpc' = "run" /\ hand' = NoJob
  /\ UNCHANGED <<pc, job, bus, rem, blocked, buffer, dropped, begun>>

Step(p) == WriteLands(p) \/ WriteResumes(p) \/ OfferLooks(p) \/ OfferLands(p)
           \/ OfferAdmits(p) \/ OfferReturns(p)

Reader == Get \/ GetWaits \/ GetResumes

Next ==
  \/ \E p \in Producers : Step(p) \/ \E k \in Kinds, n \in 1..MaxLen : Ask(p, k, n)
  \/ Reader

\* SimPy runs every process whose event has fired, and the reader keeps
\* reading (run_proc's loop); nothing says a producer asks again.
Fairness == (\A p \in Producers : WF_vars(Step(p))) /\ WF_vars(Reader)

Spec == Init /\ [][Next]_vars /\ Fairness

-----------------------------------------------------------------------------
\* Every variable has the type the code gives it.
TypeOK ==
  /\ pc \in [Producers -> {"idle", "settle", "air", "room", "one", "fill", "spill", "stored"}]
  /\ job \in [Producers -> Bursts \union {NoJob}]
  /\ bus \in Seq(Producers) /\ parked \in 0..Cap /\ rem \in 0..MaxLen /\ blocked \in BOOLEAN
  /\ buffer \in Seq(Bursts) /\ nrx \in 0..Cap /\ ntx \in Nat
  /\ cpc \in {"run", "wait", "handed"} /\ hand \in Bursts \union {NoJob}
  /\ dropped \in Nat /\ failed \in BOOLEAN /\ begun \in 0..MaxBursts

Words(s) == SumOf([i \in 1..Len(s) |-> s[i].n])

\* Words of the holder's burst already counted in nrx or ntx.
PartlyIn ==
  IF bus = <<>> THEN 0
  ELSE LET p == Head(bus) IN
       IF pc[p] = "room" THEN IF parked = 0 THEN Least(job[p].n, Cap) ELSE 0
       ELSE IF pc[p] \in {"one", "fill", "spill"} THEN job[p].n - rem - parked
       ELSE 0

\* The two levels count exactly the words of the bursts in the buffer, handed
\* over and not retired, or partly admitted -- whichever container a burst's
\* words went into and whichever its reader takes them from.
LevelsExact == nrx + ntx = Words(buffer) + hand.n + PartlyIn

\* The "Not enough words in RX queue" RuntimeError of _take_burst is unreachable.
NeverFails == ~failed

\* An offer that found room never waits for it ("and never wait", _admit):
\* nobody else can take the room while it holds the bus.
OfferNeverWaits == parked > 0 => job[Head(bus)].kind = "write"

\* While only written bursts are inside, they hold what the depth says: a burst
\* of at most Cap words shares the channel only with words that fit beside it, a
\* longer one has it to itself (the table of _admit_blocking) -- whatever offers
\* spilled into ntx before.
WritesFitDepth ==
  LET inside == IF cpc = "handed" THEN <<hand>> \o buffer ELSE buffer
  IN  Len(inside) > 1 /\ (\A i \in DOMAIN inside : inside[i].kind = "write")
        => Words(inside) <= Cap

\* Whoever waits for the channel gets through it.
EveryBurstSettles == \A p \in Producers : (pc[p] # "idle") ~> (pc[p] = "idle")

\* The channel implements the FIFO of whole bursts: transfers are asked in the
\* order of the bus line, and received when the reader retires them.
InLine  == IF bus # <<>> /\ pc[Head(bus)] = "stored" THEN Tail(bus) ELSE bus
Abs == INSTANCE BurstFifo WITH
         asked <- [i \in 1..Len(InLine) |-> job[InLine[i]]],
         queue <- IF cpc = "handed" THEN <<hand>> \o buffer ELSE buffer
IsBurstFifo == Abs!Spec
=============================================================================
