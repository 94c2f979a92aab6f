# Formal models of waveflow's communication core

waveflow describes FPGA designs in Python: modules are SimPy processes, they talk over
interface objects, and the same description is simulated and turned into HLS C++ and RTL.
What can go wrong in such a design, and what a simulation of one schedule does not show,
is in the interfaces: who may write when, what a counter means when it wraps, what a
pointer read some cycles ago still says.  This directory models those interfaces, and two
designs built on them, in TLA+, checks them with TLC and proves the safety of all of them
with TLAPS, for every size.  All paths below are relative to `src/waveflow/`.

## 1. Inventory

A waveflow process runs alone between two `yield`s.  So every model step is what one
process does between two yields, and all concurrency is the interleaving of such steps.
Simulated time is not a number in the models: a `timeout` is a point where anyone else may
run.

| Component | State | Operations | Hard behaviours | What makes it correct |
|---|---|---|---|---|
| Stream channel, `hw/interface.py` | bus (a SimPy resource), `data_buffer`, levels `nrx` and `ntx` | `write` (waits), `offer` (may drop), `get`, `run_proc` | events skipped when nothing need wait; a burst handed to a waiting reader; bursts longer than the queue; a full/not full answer used after the transfer time | levels count exactly the words inside; order; no burst stuck; offer never waits |
| Credit stream, `hw/reverse_stream.py` | `written`, `acked`, `consumed`, `offered` (wrapping), two channels | `write`, `write_nb`, `write_resp_nb`, `poll_credit`, `get`, `offer_credit` | stale and dropped credit, batching, wrap, truncated reads, reserved words | admitted writes fit; credit is exact and monotone; waits end |
| Acked stream, `hw/reverse_stream.py` | pending tokens, frame channel, status channel | `write_frame`, `harvest`, `read_nb`, `read_frame_nb`, `send_status` | pairing by position, drops in the ack channel | the right status for the right token; none lost; all resolved |
| AXI-MM ring queue, `hw/aximm_queue.py` over `hw/memif.py` | `head`, `tail` and slots in memory; nothing in the proxies | `try_write`, `write`, `try_get`, `get` | each pointer and each run of data is a bus transaction of its own; wrap; sleeping pollers | a FIFO of whole batches; no overwrite; no lost wakeup |
| Locked memory, `hw/locked_mem.py` | region held, region yielded, two message streams | `acquire`, `release`, `grant`, `resume`, `handle_nb`, accesses | messages in flight while both sides work; bounded wait; guards on extents | mutual exclusion; the ends agree; bounded wait |
| Memory-mapped interfaces, `hw/memif.py`, `hw/aximm.py` | channels per slave, poll events, address map | `write`, `read`, `poll_until`, spanned transfers | several masters, poller contention | no lost wakeup; serialised channels |
| Memory, `hw/memory.py` | words, placed ranges | `alloc`, `free`, `place` | first fit, alignment | placed ranges are disjoint |
| Memory-mapped queues and host, `hw/mm_queue.py`, `hw/mm_host.py`, `hw/irq.py`, `hw/mm_adaptor.py` | two FIFOs, thresholds, interrupt lines, the host's bound of the room | `write`, `room_irq`, `push`, `get`, `try_pull`, with lines and polled | threshold set while the level changes; room bound never refreshed; rise undone in one instant; one front for both views | a packet that fits never holds the front; no empty pop; no rise slept through; calls return |
| Other views, `hw/mm_credit.py`, `hw/mm_regbank.py`, `hw/mm_bram.py` | registers, words, a credit value | window reads and writes | a view that overwrites | as CreditStream, over the bus |
| Software threads, `sw/threads.py` | events, semaphores, locks, queues | `wait`, `acquire`, `release`, `put`, `get`, `wait_any` | all waiters wake, one proceeds; starvation | no lost wakeup; mutual exclusion |
| RF shots, `hw/rf_shot_tx.py`, `hw/rf_shot_rx.py` | loader, player, capture and window reader, the lock, play commands, done tokens, announcements | frames, grants, passes, blocks placed or dropped, windows | preemption; a converter that cannot wait; an arm left from before; counts sampled at one time and read at another | no silent truncation; whole shots; exact passes; windows where their headers say; everyone served |
| Sample buffers, `hw/rf_tx_stream.py`, `hw/rf_samp_buf*.py`, `hw/rf_relayout.py` | schedules, positions in sample time | load, play, re-layout | stale progress positions | order; signed compare within its range |
| Converters, sample links, `hw/rfdc.py`, `hw/rf_sample_if.py` | grid, blocks | offers on a grid | never stalls | as StreamChannel's offer |
| Block RAM, memory streams, `hw/bram.py`, `hw/mem_stream.py` | words, commands | reads, writes, movers | address arithmetic | data transformations |
| Register maps, `hw/regmap.py` | registers, access rights | host and device access | start/done handshake | access rights |
| Modules and systems, `hw/hw_*.py` | endpoints, bindings | elaborate, bind, run | declaration errors | structure, not behaviour |
| Data schemas, arithmetic, `hw/dataschema.py`, `hw/arrayutils.py`, `hw/fixpoint.py`, ... | none over time | pack, unpack, convert | widths | round trip; better tested than model-checked |
| Simulation, `simulation/` | SimPy environment | life cycle | none of its own | SimPy is a library; its rule (one process at a time, events in order) is assumed |
| Build, `build/` | files, artifacts, a DAG | generate, run steps | stale artifacts | a stale step is rerun |
| Calibration, `calib/` | record files | append, look up, publish | a record of other hardware | digest checked on read |
| Tools, server, utilities, examples, docs | - | I/O and text | - | not modelled |

Interaction: `CreditStreamIF` and `AckedStreamIF` each own two `StreamIF` channels and
call their `write`, `offer` and `get`; `LockedT2pMemIF` owns two streams and two memory
ports; `AXIMMQueue` calls an `MMIFMaster`, which calls the crossbar; the shot transmitter
uses the lock, the streaming transmitter the acked stream; `mm_credit` carries the same
credit endpoints over the bus.  The hazards, each with its line and the properties that
would show it, are the list `hazards` in `PROJECT.json`.

## 2. Plan

Order: the protocols everything else stands on first.

Done:

1. `WrapCounter`, `CreditStream`, `CreditStreamProofs`: the credit protocol, proved.
2. `BurstFifo` (abstract), `StreamChannel`: the channel itself, refinement checked.
3. `AckedStream`.
4. `BoundedFifo` (abstract), `AximmRing`: the ring over the bus, refinement checked.
5. `LockedMem`.
6. `MmHost`: the host's writer and reader over the two queue views.
7. `ShotTx`, `ShotRx` over `LockedMem`, composed by `Shot`.
8. `LockedMemProofs`, `AximmRingProofs`: the handover and the ring, proved; the ring's
   refinement of `BoundedFifo` step by step.
9. `AckedStreamProofs`, `StreamChannelProofs`: the acked stream and the channel, proved,
   its levels and depth among it; the channel's refinement of `BurstFifo` step by step.
10. `MmHostProofs`: the host's types, waits, pops and packets that fit.
11. `ShotProofs`: both shot designs, on top of `LockedMemProofs`.
12. `ArithmeticProofs`: what they share, sums over sequences by induction among it.

Left, in this order:

* `SobChannel`: `StreamOfBlocksIF`; then the crossbar.
* `MmCredit`: `CreditStream` over a view that overwrites.
* `FirstFit`: the placement search of `MemMgr`, as a function.

`SwThreads` (`sw/threads.py`) would be a model of SimPy's events rather than of this code:
its classes promise no fairness, so starvation is a fact of theirs and not an error.

## 3. Modules and the code

`PROJECT.json` maps every definition to its lines.  Definitions keep the code's names.
Operators under a comment `Fault:` are wrong variants of the definition that follows them;
no specification uses them, they are there to show that a property would catch such an
error.

**WrapCounter.**  The mask (`Wrap`) and `udiff` (`Udiff`) for a modulus `M = 2^ctr_bits`.

**Sums.**  `SumOf` adds up a sequence of numbers: the words of the bursts or packets in a
queue, which `StreamChannel` and `MmHost` count.

**CreditStream.**  The producer (`pc`: idle, waiting in `crd_ep.get`, in `fwd_ep.write`)
and the consumer (`cpc`: reading, about to offer, in the offer's transfer time).  The
forward channel is the list of bursts plus the `nrx` level, the reverse channel a list of
values; every value carries the true total it stands for, which only properties read.
`Truncates` allows reads shorter than the burst.  The two streams are `StreamIF` channels
with one writer each, so the bus is always free.

**StreamChannel.**  The write path with all its early exits: bus taken or queued for
(`bus`), room reserved or a put parked (`parked`), the words past the queue's size in
`ntx`, the burst stored or handed to a waiting reader (`hand`).  `offer` is split at its
yields: look, transfer, one word, fill, spill, store, return.  A put parked in `nrx` is
granted in the step that lowers the level, as SimPy's container does.

**AckedStream.**  Frames and statuses by number.  Only the marked item matters, so a frame
is its length.  `read_nb` item by item and `read_frame_nb` are both there.

**AximmRing.**  A step is the instant a transaction reaches memory.  `lite` is chosen
once: with AXI4-Lite every word is a transaction, so the two pointers are read apart. A
full AXI-MM data run is one transaction up to the ring's end.  The returned words are
delivered when `head` is written.  `elem_words` is 1.

**LockedMem.**  Regions are `[lo, hi)`, legal or not (what `acquire` may ask).  An access
is in progress between two steps, so that two of them can overlap.  `done` counts the
owner's elements since its last poll.  `prompt` is chosen once: when true, a message
crosses its stream within an element's time, which is what a wait "in element-times" is
about; when false it may take for ever.  Property `WaitBounded` speaks of the first kind,
all others of both.  An access the guard refuses raises, and is no step.

**MmHost.**  Words are counted, not carried.  The adaptor has one front, `front`: its
holder and who waits for it; a thread's step ends where it asks for the front (`Travels`)
or sleeps on its line.  The writer (`wpc`) is `_write_irq`, `_write_poll` and
`room_irq`/`push`; the reader (`rpc`) `_pull` and `try_pull`.  A view's handler is one
step with the front; the one that puts a packet's last word into a full FIFO keeps the
front (`stalled`), as the code's handler does. `DriveIn` and `DriveOut` are `_update_irq`:
the line follows the level, a rise wakes a sleeper. `irq` (the host has the lines or not)
and `kburst` (the size of the kernel's bursts) are chosen once.  The simulation's queue
takes a burst whole, so a reader with a line that waits for `k` words beside bursts of
`kburst` waits for ever when they cannot be in the queue together; `Served` keeps such
pulls out (section 6).

**ShotTx.**  The loader (`lpc`) takes frames, judges them (`Accepts`), writes the memory
as requester of `LockedMem`, sends the play command, releases, answers.  The player
(`ppc`) plays or fills a chunk, then polls once.  A sample is the record of its shot;
while the loader writes, the memory is a `Mixture`.  `absolute` is `absolute_index`,
chosen once.  `shot` and `words` are histories: the command taken last and its words
played.

**ShotRx.**  The capture (`cpc`) places a block (`Places`, by fill or by absolute index)
or drops it, and announces full halves; the window reader (`npc`) acquires, reads, sends,
releases.  A word is its absolute index.  The counts that grow are kept modulo `DropMod`,
as the header's field is; the histories `index` and `nwin` are compared under the same
modulus.  `absidx` is `absolute_index`.

**Shot.**  A behaviour is of one design, `tx` or `rx` (`design`, chosen once); each uses
the lock's actions inside its own.  The lock's `prompt` is false: messages may take any
time.

**BurstFifo, BoundedFifo.**  What a channel and a ring promise: whole bursts or batches,
in order; only an offer may be lost.

## 4. Runs

| Run | Instance | Shows |
|---|---|---|
| `CreditSafety` | depth 4, reverse FIFO 2, modulus 5, drain 1, truncating reads, 11 words | with a reverse FIFO too small, credit is exact, in order, and an admitted write fits |
| `CreditLive` | depth 5, batches of 2, reverse FIFO 2, modulus 8, 11 words | no credit dropped, every wait ends |
| `CreditSaturated` (violation) | the class's defaults | `max_write`'s "a wait always ends" fails |
| `CreditResponses` (violation) | the class's defaults | a response can be refused |
| `StreamMixed` | 2 producers that write or offer, queue 2, bursts to 3, 4 bursts | levels, order, no error; written bursts keep to the depth, every write returns; implements `BurstFifo` |
| `AckedFrames` | 4 in flight, ack FIFO 4, forward FIFO 2, frames to 3 items, 9 frames | pairing, no dropped status, all frames resolved |
| `Ring` | 2 usable slots, reads and writes to 3 words, 9 words, both buses | room, no overlap, no lost wakeup, writes end; implements `BoundedFifo` |
| `LockHandover` | 4 elements, poll every 4, accesses to 4 | the ends agree, share elements only under an owner's access around the region, answers, wait of two periods |
| `LockSpan` (violation) | 3 elements, accesses to 3 | the owner may span the region it yielded |
| `HostQueues` | queues of 4, transactions to 2 beats, kernel bursts to 2, packets of 1 and 4, pulls of 2 and 5, 6 words, with and without lines | packets that fit never hold the front, no empty pop, no missed rise, calls return |
| `HostRoom` (violation) | queues of 4, packets of 1 and 5, single-word kernel bursts | after a packet longer than the queue the writer's bound is too high, and a packet that fits stalls |
| `Shot` | 4 elements, blocks of 1, lock streams of 1, repeats to 2, indices modulo 8, both designs and index modes | no truncation, whole shots, exact passes, windows located, announcements fit, everyone served |

Why the bounds are enough.  `CreditSafety` writes 11 words through a counter modulo 5 over
a FIFO of 4, so every register wraps at least twice and every fill level meets every wrap
offset; the reverse FIFO of 2 overflows.  In the stream runs a queue of 2 with bursts of
1, 2 and 3 has a burst that fits beside another, one that just fits and one that never
fits whole; two producers are a holder of the bus and one in line.  In `AckedFrames` nine
frames refill the four slots twice.  In `Ring` nine words go four times round three slots
and every batch position crosses the end.  In `LockHandover` four elements give every
relation of a region and an access, those around a region of one element or two among
them; `LockSpan` asks of the owner alone what `_check_extent` is said to refuse.
`HostQueues` has a packet that fills the queue, the words left beside it, a pull longer
than the queue (so in two pieces), and transactions split by the longest burst; depth 4 is
the least at which a threshold of half the depth leaves the writer a bound it can use for
a second packet.  A packet longer than the queue is `HostRoom`'s.  In `Shot` a half is two
blocks, so it can be entered in its middle, two repeats tell the last pass from the
others, and eight indices tell two passes over the memory apart; `QueueDepth` 1 is what
the designs are built with.  The counters `MaxWords`, `MaxBursts`, `MaxFrames` bound only
what is asked for; what was asked for is always carried through.

Fairness.  SimPy runs every process whose event has fired, so a call in progress goes on:
weak fairness of a process's continuations.  Readers are loops (`run_proc`, the
converter's metronome, the owner that polls), so reading is fair as well.  Nothing makes
an application start a call, so `Write`, `Ask`, `WriteFrame`, `Acquire`, `Release` have no
fairness.  `AckedFrames` assumes that the application harvests, which the transmitter's
loader does in every iteration.  `MmHost` has weak fairness of the writer's calls, the
kernel's loop and the reader's calls, and strong fairness of starting a pull: the
application pulls what it has sent, but may do other calls between (a `try_pull` that
returns nothing disables the pull for a moment).  In `Shot` the four tasks are
free-running processes, each weakly fair; that a frame arrives is never assumed.
Elsewhere weak fairness is enough because SimPy wakes the waiter itself: no continuation
is enabled and disabled again by someone else without being taken.

`CHECK_DEADLOCK FALSE` stands where the system really may stop: the application asks for
nothing more, the bounds are used up, or (credit, undersized FIFO) the wait that
`CreditSaturated` is about.  `CreditLive` and `Shot` check deadlock.

## 5. Proofs

`ArithmeticProofs` has what several proofs need.  The masked difference of two wrapped
counters is the true difference when that is between 0 and M - 1.  A sum over a sequence
is what one expects of it when an element is added or taken away, or the sequence cut in
two.  The library's induction theorems take an operator as a parameter, which the provers
cannot instantiate; `Smallest` gets the least element of a set of numbers from its theorem
on well-founded relations, and `Induct`, induction on a set of numbers, follows.  So what
a recursively defined function computes can be proved after all, for every input.

`CreditStreamProofs` proves, for every depth, reserve, batch size, FIFO depth, drain and
modulus that satisfy `CreditAssumption` (of which only `Depth < Modulus` is not a mere
type: the width must be able to count the FIFO):

* `TypeCorrect`, `CreditIsExact`, `AdmittedWriteFits`, `SizedFifoKeepsCredits`: the
  invariants of the runs;
* `CreditsInOrder`: the action property `CreditMonotone`.

None of them is inductive.  `IInv` adds:

* `Wires`: each register, and each credit on its way, is the wrapped value of a true
  count.  Without it a masked difference says nothing.
* `Order`: known, told, used, taken, sent are in this order, so differences are
  non-negative.
* `Room`: the words sent or admitted and not known consumed fit in `Depth`, hence the true
  difference is below the modulus, hence the masked one is exact.  This is the heart:
  exactness needs the room and the room needs exactness, so both are in one invariant.
* `Buffered`: the FIFO holds the words between taken and sent, so `nrx` is that
  difference.
* `Gaps`: credits in the reverse FIFO are at least `CrdEvery` words apart, which bounds
  their number by `Depth / CrdEvery`, whence `Loss`.

`Inductive` proves `Spec => []IInv`, one lemma per action, and the theorems follow.

`LockedMemProofs` proves, for every memory, poll period, stream depth and longest access:
`TypeCorrect`, `EndsAgree`, `NoWayToClash`, `WaitIsTwoPeriods` and `OverlapsGoAround`.
The last says how far the two-ended guard goes, with no bound on an access: the requester
stays inside its region, and the owner reaches into it only by an extent that goes around
the whole of it, which is what `LockSpan` shows.  The inductive invariant says that the
handover is always in one of seven phases (`Quiet`, `Freeing`, `AskingBehind`,
`AskingFirst`, `Judging`, `Replying`, `Answered`).  A phase says where the messages are,
what the owner remembers and how long the requester has waited, and these need each
other: that `grant` agrees with the owner needs the RELEASE to be ahead of the ACQUIRE,
and the bound of the wait needs to know which of the two is first.  `Accesses` adds that
an access in progress still passes the guard it passed.

`AximmRingProofs` proves, for every capacity and every length of write and read, on either
bus: `TypeCorrect`, `RoomStays`, `SleepersWake`, `SidesApart` and `RingIsFifo`.  Pointers
are slots modulo `Cap`; the invariant counts from the head (`Slot`, and `Words` for the
distance) and says that the words in the ring and the part of a piece already written
never make a full turn (`Reserved`).  It then needs where each word is (`Stored`,
`Reading`), and that a head the producer read earlier can only show more words than there
are (`Behind`).  The lemmas before the steps are the arithmetic: what is less than a turn
apart has its own slot (`SlotsDiffer`), and moving a pointer by `n` changes the count by
`n` (`CountLess`, `CountMore`).  `RingIsFifo` is the safety half of `IsBoundedFifo`: the
initial state maps to an initial state, a publication to `Put`, a release to `Take`, every
other step to a stutter.

`AckedStreamProofs` proves, for every number of frames in flight, every depth of the two
channels that `AckedAssumption` allows (the ack channel at least as deep as the frames in
flight, which `_check_bound` enforces) and every length of frame: `TypeCorrect`,
`PairingIsRight` and `NoStatusIsDropped`.  A frame goes from the forward channel to the
consumer's hands to the ack channel, and the pending tokens are these three queues one
after the other; the invariant says so position by position (`Aligned`).  With it goes
the bound: the statuses under way are among the pending tokens, and those are at most
`MaxInFlight`, so an offer that looked for room before its transfer time still finds it
(`Sending`, `Statuses`).

`StreamChannelProofs` proves, for every number of producers, size of the queue and length
of burst: `TypeCorrect`, `ReaderNeverFails`, `OffersGoThrough`, `LevelsAreExact` and
`WritesFit`.  The invariant needs that the line for the bus has every producer once and
that all but its head wait (`Line`), for then only the holder can have words partly in
(`Holder`).  `Levels` says that there is a sequence of totals, one per burst, that starts
at the two levels and falls by each burst's words to what the holder has partly in; every
step adds or removes one at an end. That such totals are sums of words is an induction,
and `LevelsAreExact` follows.

`WritesFit` needs more, for `ntx` may still hold words of offers that spilled.  `Depth`
speaks of the queue with the burst that is due its room in it (a put that was granted and
not resumed yet), and of the written bursts at its end: their words, up to `Cap`, are in
`nrx`, and two or more of them fit.  A burst retired from `ntx` leaves `nrx` alone, and
one that empties `ntx` leaves all that is counted in `nrx`.

`ChannelIsFifo` is the safety half of `IsBurstFifo`: a request maps to `Ask`, the step
that stores a burst to `Enter`, a blocked offer to `Lose`, the reader's accounting to
`Receive`, every other step to a stutter.

`MmHostProofs` proves, for every depth, transaction length and length of packets and
pulls: `HostTypes`, `NoRiseIsMissed`, `PopsAreServed`, and, when every packet fits the
queue, `FittingPacketsNeverStall`.  That last assumption is needed: one longer packet is
enough to break the property for one that fits (`HostRoom`).  The invariant has the
writer's half and the reader's, since each thread has a view of its own.

* `WInv`, `RInv`: the line says at every moment whether the view's threshold is met, and a
  thread that waits finds its own threshold in the register, which it may have written a
  round ago.  That it is positive, hence that the line can rise at all, needs the
  thread's account of what is left of its call.
* `WPlan`: what the packet still owes the view (`_left`) is what the writer has still to
  send of it, burst by burst and piece by piece, so that the last word of a packet is the
  last of its piece and of its call; and the bound covers the piece being written, which
  is why it never goes below zero.
* `RPlan`: an occupancy that was read, and the words of a pop under way, are there,
  because only the reader takes any.  `Refilled` is the step of the pop: bursts come off
  the FIFO whole, and less than one is left over.
* `FPlan`: the bound is one of the free space, and a packet that fits is one piece and has
  room from the moment it is begun.

The proof of the types found the type of `rout` wrong as it was first written: a polling
reader can read an occupancy above the depth, since the words taken off the FIFO and not
yet read count too.  It is `0..(Depth + kburst - 1)`, and `held` is less than a burst.

`ShotProofs` proves, for every memory, block, depth of the lock's streams, number of
repeats and width of the dropped count, in both index modes: `ShotsNeverTruncated`,
`PlayedIsCommanded`, `WordsArePasses` of the transmitter, `WindowsLocated` and
`AnnouncementsFitAlways` of the receiver, and `DesignsExclusive` of both.  A design's
steps are steps of the lock and of its own, so its invariant is the lock's (`IInv` of
`LockedMemProofs`) and what the design adds to the handover's phases.  On the transmitter:
while the memory is asked for or away nothing plays or waits to (`Disarmed`); a play
command is for the shot in the memory and is read before the release behind it is polled
(`Commands`); and of commanded, playing, owing its token, token under way, at most one is
the case, with the loader busy (`OneFinite`).  On the receiver: the windows that are out
form a queue (`Outs`), each in a full half of its own, whose words are those its header
speaks of (`Announced`); a half given back stays full until its release is polled
(`Unread`), a block is written into a half that is not (`Writing`), and what is in there
so far is the beginning of the next window (`Filling`), all under the modulus of the
dropped count; and a count that moved between two windows is told by the second (`Gaps`).
`DesignsExclusive` says of the designs what the lock alone does not give, that no element
is ever shared, with the block and whole-region accesses they make: nothing goes around the region, because the transmitter hands over the whole
memory, and the receiver's owner writes blocks that lie in one half.

Only model-checked: all liveness (`WaitEnds`, `EveryBurstSettles`, `EveryFrameResolves`,
`WriteEnds`, `AcquireAnswered`, `CallsReturn`, `HostIsServed`, and the liveness halves of
`IsBurstFifo` and `IsBoundedFifo`): liveness under fairness is outside what the provers do
here.  Every invariant and every action property of the passing runs is proved, two of them
(`FittingNeverStalls`, `NoCreditLost`) under an assumption that a run shows to be needed or
that is named above.  `Exclusive` of the designs is proved and in no run of its own.

## 6. Where code and documentation disagree

* `CreditSaturated`: one-word writes that are never polled between leave four unread
  credits in the reverse FIFO; the next are dropped, the consumer has nothing more to
  read, and a longer legal write waits for ever.  `max_write` says "a wait always ends".
  The proved `SizedFifoKeepsCredits` gives the sizing that rules it out: `(credit_depth +
  1) * crd_every > depth`.
* `CreditResponses`: `n_resp_no_room` is "expected permanently zero", but the reserved
  words are room for one response and nothing limits responses in flight.
* `LockSpan`: `_check_extent` looks at the two ends of an extent.  That is enough for the
  requester; the owner holds the complement of a region, and an access around it passes.
  Nothing else does (`OnlyAroundOverlaps`, proved for every length).
* `HostRoom`: in interrupt mode a packet longer than the queue enters the FIFO only with
  its last word, so the line is high for its last piece and the writer takes the threshold
  as its bound; when the packet lands the FIFO is over full, the bound is not zero, and
  the next packet that "fits" holds the adaptor's front.  The comments say the bound stays
  true and the bus never stalls.

Seen in the code, and left without a run:

* `acquire` promises a grant within one `check_period`; behind a RELEASE that was not
  polled it takes two.  Two is the bound that is checked (`WaitBounded`) and proved
  (`WaitIsTwoPeriods`).
* A pull with a line waits for all words of a piece.  In the simulation a kernel's burst
  enters the queue whole or not at all, so a piece of `k` words and bursts of `b` with `k
  + b > depth + 1` can leave the level below `k` and the burst outside for ever.
* A packet longer than the queue may hold the adaptor's front while the kernel is blocked
  on a full queue out, whose reader needs the same front: then nothing moves.
* `try_pull(n)` with `n` above the depth may wait when there is a line, and `data_irq`
  with such an `n` followed by `pop` may pop an empty queue.
* A `SHOT_LOOP` with `nrepeat` 0 is answered as loaded and never plays; the comment at the
  opcode says a loop does not read `nrepeat`.

## 7. Not modelled

Section 1 and the `components` of `PROJECT.json` give the reason for each.  In the
modelled files: width conversions and typed reads (data), binding checks (before time
starts), trace and measurement helpers, poll contention and spanned transfers in
`memif.py` (timing), and a second process on one credit or acked master (both classes are
written for one; the admission test and the count are on two sides of a blocking write, so
two would break them).  A view from `array_ref` is checked when it is made and never
again, so nothing in the code relates its later uses to the lock.
