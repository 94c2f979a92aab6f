-------------------------------- MODULE MmHost --------------------------------
(***************************************************************************)
(* waveflow/hw/mm_host.py over mm_queue.py, mm_adaptor.py and irq.py: a    *)
(* host with a writer and a reader thread, and a kernel behind one         *)
(* memory-mapped adaptor.  The writer sends packets to the queue-in view,  *)
(* the kernel takes each whole and writes as many words to the queue-out   *)
(* view, the reader pulls them.                                            *)
(*                                                                         *)
(* The adaptor has one front: a transaction holds it from its start to its *)
(* end, both views and both directions.  A thread's step ends where it     *)
(* asks for the front or goes to sleep on its view's interrupt line; the   *)
(* view's handler is one step, unless the packet it completes finds no     *)
(* room: then it keeps the front.  Words are counted, not carried.         *)
(***************************************************************************)
EXTENDS Integers, Sequences, SequencesExt, Sums

CONSTANTS
  Depth,       \* depth of both queue views, in words
  MaxBurst,    \* longest transaction of a view, in beats
  KernelBurst, \* the most a kernel writes in one burst
  Packets,     \* lengths of the packets written and pushed
  Reads,       \* lengths of the pulls
  MaxWords     \* bound: words asked to be written in a behaviour

ASSUME HostAssumption ==
  /\ Depth \in Nat /\ Depth > 1 /\ MaxBurst \in Nat \ {0}
  /\ KernelBurst \in 1..Depth /\ MaxWords \in Nat
  /\ Packets \subseteq 1..MaxWords /\ Reads \subseteq 1..MaxWords

VARIABLES
  irq,      \* fixed: the views' interrupt lines were given to the host
  kburst,   \* fixed: words of the kernel's bursts, the last of a packet aside
  front,    \* the adaptor's one channel: the holder, then who waits for it
  \* the writer thread (MmQueueInIF)
  wpc,      \* where it is: see the actions
  wcall,    \* its call: the verb and the packet's length
  sent,     \* words of the packet in pieces already written
  piece,    \* words of the piece it is writing
  wout,     \* beats of the piece not yet written, the header's among them
  room,     \* _room: the lower bound of the free space
  wcopy,    \* _threshold: its copy of the view's register; -1 before the first
  wgot,     \* the vacancy it read
  \* the reader thread (MmQueueOutIF)
  rpc, rcall,
  have,     \* words its pull has got, those of the piece in progress included
  rout,     \* words of the piece not yet popped
  rcopy, rgot,
  asked,    \* history: words pulled or being pulled
  begun,    \* history: words written or being written
  \* queue in (MemSlaveWStream)
  left,     \* _left: data words the packet owes; 0: a header is next
  inq,      \* the FIFO: lengths of the packets in it
  inThr, inLine,
  \* the kernel
  taking,   \* a packet taken off the FIFO whose words are not retired yet
  owes,     \* words it has still to write
  \* queue out (MemSlaveRStream)
  outq,     \* the FIFO: lengths of the bursts in it
  held,     \* _held: words taken off the FIFO and not read
  outThr, outLine,
  empty     \* pop_empty errors

writer == <<wpc, wcall, sent, piece, wout, room, wcopy, wgot, begun>>
reader == <<rpc, rcall, have, rout, rcopy, rgot, asked>>
viewIn  == <<left, inq, inThr, inLine>>
viewOut == <<outq, held, outThr, outLine, empty>>
kernel == <<taking, owes>>
fixed == <<irq, kburst>>
vars == <<fixed, front, writer, reader, viewIn, viewOut, kernel>>

Least(a, b) == IF a < b THEN a ELSE b
Most(a, b)  == IF a > b THEN a ELSE b
NoCall == [verb |-> "none", n |-> 0]

Init ==
  /\ irq \in BOOLEAN /\ kburst \in 1..KernelBurst /\ front = <<>>
  /\ wpc = "idle" /\ wcall = NoCall /\ sent = 0 /\ piece = 0 /\ wout = 0
  /\ room = 0 /\ wcopy = -1 /\ wgot = 0 /\ begun = 0
  /\ rpc = "idle" /\ rcall = NoCall /\ have = 0 /\ rout = 0 /\ rcopy = -1
  /\ rgot = 0 /\ asked = 0
  /\ left = 0 /\ inq = <<>> /\ inThr = 0 /\ inLine = FALSE
  /\ taking = 0 /\ owes = 0
  /\ outq = <<>> /\ held = 0 /\ outThr = 0 /\ outLine = FALSE /\ empty = 0

-----------------------------------------------------------------------------
Vacancy   == Most(0, Depth - SumOf(inq))
Occupancy == held + SumOf(outq)

Holds(t) == front # <<>> /\ Head(front) = t

\* Fault: the line is driven, and nobody is told of the rise.
QuietRise(pc, from, to) == pc

\* IrqIF._changed: a rise fires the event a sleeper waits for.
Rise(pc, from, to) == IF pc = "asleep" /\ ~from /\ to THEN "woken" ELSE pc

\* _update_irq of either view; the writer's (reader's) new pc is pc.
DriveIn(pc) ==
  /\ inLine' = (inThr' > 0 /\ Most(0, Depth - SumOf(inq')) >= inThr')
  /\ wpc' = Rise(pc, inLine, inLine')

DriveOut(pc) ==
  /\ outLine' = (outThr' > 0 /\ held' + SumOf(outq') >= outThr')
  /\ rpc' = Rise(pc, outLine, outLine')

-----------------------------------------------------------------------------
\* write(words), or room_irq and push of one packet (interrupt lines only).
CallWrite(verb, n) ==
  /\ wpc = "idle" /\ begun + n <= MaxWords
  /\ verb = "push" => irq /\ n <= Depth
  /\ begun' = begun + n
  /\ wcall' = [verb |-> verb, n |-> n] /\ sent' = 0 /\ wpc' = "next"
  /\ UNCHANGED <<fixed, front, piece, wout, room, wcopy, wgot, reader, viewIn, viewOut, kernel>>

Need == Least(wcall.n - sent, Depth)

\* Fault: the threshold asks for one slot less than the piece needs.
ThresholdShort == IF wcall.verb = "push" THEN wcall.n ELSE Most(Need - 1, Depth \div 2)

\* What the writer arms its line for.
Threshold == IF wcall.verb = "push" THEN wcall.n ELSE Most(Need, Depth \div 2)

\* The next piece of n words, in front of it the header if it is the first.
StartPiece(n) ==
  /\ piece' = n /\ wout' = n + (IF sent = 0 THEN 1 ELSE 0)
  /\ wpc' = "push"

\* _write_irq's loop, and room_irq: enough room by the bound; or the line is
\* armed, the register written only when its value changes.
WriterGoes ==
  /\ wpc = "next" /\ irq /\ wcall.verb = "write" /\ room >= Need
  /\ StartPiece(Need)
  /\ UNCHANGED <<fixed, front, wcall, sent, room, wcopy, wgot, begun, reader, viewIn, viewOut, kernel>>

WriterArms ==
  /\ wpc = "next" /\ irq /\ (wcall.verb = "push" \/ room < Need)
  /\ wpc' = IF wcopy = Threshold THEN "wait" ELSE "arm"
  /\ UNCHANGED <<fixed, front, wcall, sent, piece, wout, room, wcopy, wgot, begun, reader,
                 viewIn, viewOut, kernel>>

\* wait_high finds the line high, at once or woken: the threshold is the new
\* bound of a write; a push takes no bound.
WriterSeesHigh ==
  /\ wpc \in {"wait", "woken"} /\ inLine
  /\ room' = IF wcall.verb = "write" THEN wcopy ELSE room
  /\ StartPiece(Need)
  /\ UNCHANGED <<fixed, front, wcall, sent, wcopy, wgot, begun, reader, viewIn, viewOut, kernel>>

WriterSleeps ==
  /\ wpc \in {"wait", "woken"} /\ ~inLine /\ wpc' = "asleep"
  /\ UNCHANGED <<fixed, front, wcall, sent, piece, wout, room, wcopy, wgot, begun, reader,
                 viewIn, viewOut, kernel>>

\* Without a line: read the vacancy, and act on what it was.
WriterPolls ==
  /\ wpc = "next" /\ ~irq
  /\ wpc' = "poll"
  /\ UNCHANGED <<fixed, front, wcall, sent, piece, wout, room, wcopy, wgot, begun, reader,
                 viewIn, viewOut, kernel>>

PollRoom == IF wcall.n <= Depth THEN IF wgot >= wcall.n THEN wcall.n ELSE 0
                                ELSE Least(wgot, wcall.n - sent)

WriterPolled ==
  /\ wpc = "polled"
  /\ IF PollRoom > 0 THEN StartPiece(PollRoom) ELSE wpc' = "next" /\ UNCHANGED <<piece, wout>>
  /\ wgot' = 0
  /\ UNCHANGED <<fixed, front, wcall, sent, room, wcopy, begun, reader, viewIn, viewOut, kernel>>

-----------------------------------------------------------------------------
\* A transaction of a thread reaches the front after the travel time, and takes
\* it or joins the line (_issue, and the crossbar's serialized path).
Travels(t, pc) ==
  /\ pc \in {"arm", "poll", "push", "pop"} /\ t \notin ToSet(front)
  /\ front' = Append(front, t)
  /\ UNCHANGED <<fixed, writer, reader, viewIn, viewOut, kernel>>

\* The writer's transactions, each with the front: the threshold register ...
ServeArmIn ==
  /\ Holds("writer") /\ wpc = "arm"
  /\ inThr' = Threshold /\ wcopy' = Threshold
  /\ UNCHANGED inq /\ DriveIn("wait")
  /\ front' = Tail(front)
  /\ UNCHANGED <<fixed, wcall, sent, piece, wout, room, wgot, begun, reader, left, viewOut, kernel>>

\* ... the vacancy ...
ServeVacancy ==
  /\ Holds("writer") /\ wpc = "poll"
  /\ wgot' = Vacancy /\ wpc' = "polled" /\ front' = Tail(front)
  /\ UNCHANGED <<fixed, wcall, sent, piece, wout, room, wcopy, begun, reader, viewIn, viewOut, kernel>>

\* Beats of the next burst; its data words; what the packet owes after it.
Burst == Least(MaxBurst, wout)
Data  == IF left = 0 THEN Burst - 1 ELSE Burst
Owed  == (IF left = 0 THEN wcall.n ELSE left) - Data

\* Fault: the header's slot is charged too.
ChargedWithHeader == piece + (IF sent = 0 THEN 1 ELSE 0)

\* What a piece costs the bound: its data words, the header never enters the FIFO.
Charged == piece

\* After a burst: the next one of the piece, as a transaction of its own; or the
\* bound is lowered by the piece, and the call returns or looks for more room.
AfterBurst ==
  IF wout > Burst THEN "push" ELSE IF sent + piece = wcall.n THEN "idle" ELSE "next"

BurstDone ==
  /\ front' = Tail(front) /\ wout' = wout - Burst
  /\ IF wout > Burst THEN UNCHANGED <<sent, piece, room, wcall>>
     ELSE /\ room' = IF wcall.verb = "push" THEN Most(0, room - Charged)
                    ELSE IF irq THEN room - Charged ELSE room
          /\ piece' = 0
          /\ IF sent + piece = wcall.n THEN sent' = 0 /\ wcall' = NoCall
                                       ELSE sent' = sent + piece /\ UNCHANGED wcall

\* _admit_blocking: the channel's words are those of the packets in it and of
\* the one the kernel has not retired.
Fits(n) == LET inside == SumOf(inq) + taking IN inside = 0 \/ inside + n <= Depth

\* ... and a burst of the packet: its last word puts it into the FIFO whole.
ServePush ==
  /\ Holds("writer") /\ wpc = "push"
  /\ left' = Owed
  /\ \/ /\ Owed > 0
        /\ BurstDone /\ wpc' = AfterBurst
        /\ UNCHANGED <<inq, inThr, inLine>>
     \/ /\ Owed = 0 /\ Fits(wcall.n)
        /\ inq' = Append(inq, wcall.n) /\ UNCHANGED inThr
        /\ BurstDone /\ DriveIn(AfterBurst)
     \/ /\ Owed = 0 /\ ~Fits(wcall.n)
        /\ wpc' = "stalled"
        /\ UNCHANGED <<front, wcall, sent, piece, wout, room, inq, inThr, inLine>>
  /\ UNCHANGED <<fixed, wcopy, wgot, begun, reader, viewOut, kernel>>

\* The stalled handler, resumed by the kernel's retirement.
StallEnds ==
  /\ Holds("writer") /\ wpc = "stalled" /\ Fits(wcall.n)
  /\ inq' = Append(inq, wcall.n) /\ UNCHANGED inThr
  /\ BurstDone /\ DriveIn(AfterBurst)
  /\ UNCHANGED <<fixed, left, wcopy, wgot, begun, reader, viewOut, kernel>>

-----------------------------------------------------------------------------
\* The kernel: a packet off the FIFO, its words retired, as many words out.
KernelTakes ==
  /\ taking = 0 /\ owes = 0 /\ inq # <<>>
  /\ taking' = Head(inq) /\ inq' = Tail(inq) /\ UNCHANGED inThr
  /\ DriveIn(wpc)
  /\ UNCHANGED <<fixed, front, wcall, sent, piece, wout, room, wcopy, wgot, begun, reader,
                 left, owes, viewOut>>

KernelRetires ==
  /\ taking > 0
  /\ owes' = taking /\ taking' = 0
  /\ UNCHANGED <<fixed, front, writer, reader, viewIn, viewOut>>

\* A burst into queue out, when it fits there whole.
KernelWrites ==
  /\ owes > 0
  /\ LET b == Least(kburst, owes) IN
       /\ SumOf(outq) + b <= Depth
       /\ outq' = Append(outq, b) /\ owes' = owes - b
  /\ UNCHANGED <<held, outThr, empty>>
  /\ DriveOut(rpc)
  /\ UNCHANGED <<fixed, front, writer, rcall, have, rout, rcopy, rgot, asked, viewIn, taking>>

-----------------------------------------------------------------------------
\* The pulls the model asks for: a try fits the queue, and with a line a piece
\* and a burst the FIFO can hold together -- the channel of the simulation takes
\* a burst whole, so beyond that the line would never rise (see the README).
Served(verb, n) ==
  /\ verb = "try" => n <= Depth
  /\ irq => Least(n, Depth) + kburst <= Depth + 1

\* get(n), or try_pull(n): of words the writer has begun to send.
CallRead(verb, n) ==
  /\ rpc = "idle" /\ asked + n <= begun /\ Served(verb, n)
  /\ asked' = asked + n
  /\ rcall' = [verb |-> verb, n |-> n] /\ have' = 0 /\ rpc' = "next"
  /\ UNCHANGED <<fixed, front, writer, rout, rcopy, rgot, viewIn, viewOut, kernel>>

\* The words of the next piece.
Wanted == Least(rcall.n - have, Depth)

\* Fault: the line is armed for the first word.
ReadThresholdOne == 1

\* Fault: the line is armed for all that is missing, more than the queue can hold.
ReadThresholdAll == rcall.n - have

\* What the reader arms its line for: all the words of the piece.
ReadThreshold == Wanted

\* k words off the view in transactions of at most MaxBurst.
StartPop(k) == have' = have + k /\ rout' = k /\ rpc' = "pop"

\* _pull's loop and try_pull with a line; a try that finds it high goes on as a pull.
ReaderArms ==
  /\ rpc = "next" /\ irq
  /\ rpc' = IF rcopy = ReadThreshold THEN "wait" ELSE "arm"
  /\ UNCHANGED <<fixed, front, writer, rcall, have, rout, rcopy, rgot, asked, viewIn, viewOut, kernel>>

ReaderSeesHigh ==
  /\ rpc \in {"wait", "woken"} /\ outLine
  /\ StartPop(Wanted) /\ rcall' = [rcall EXCEPT !.verb = "pull"]
  /\ UNCHANGED <<fixed, front, writer, rcopy, rgot, asked, viewIn, viewOut, kernel>>

ReaderSleeps ==
  /\ rpc \in {"wait", "woken"} /\ ~outLine /\ rcall.verb = "pull"
  /\ rpc' = "asleep"
  /\ UNCHANGED <<fixed, front, writer, rcall, have, rout, rcopy, rgot, asked, viewIn, viewOut, kernel>>

\* try_pull returns None.
TryNone ==
  /\ rcall.verb = "try"
  /\ \/ rpc = "wait" /\ ~outLine
     \/ rpc = "polled" /\ rgot < rcall.n
  /\ rpc' = "idle" /\ rcall' = NoCall /\ have' = 0 /\ asked' = asked - rcall.n
  /\ rgot' = 0
  /\ UNCHANGED <<fixed, front, writer, rout, rcopy, viewIn, viewOut, kernel>>

\* Without a line: read the occupancy, and pop of it what is wanted.  A try that
\* found enough goes on as a pull.
ReaderPolls ==
  /\ rpc = "next" /\ ~irq
  /\ rpc' = "poll"
  /\ UNCHANGED <<fixed, front, writer, rcall, have, rout, rcopy, rgot, asked, viewIn, viewOut, kernel>>

ReaderPolled ==
  /\ rpc = "polled"
  /\ \/ /\ rcall.verb = "try" /\ rgot >= rcall.n
        /\ rcall' = [rcall EXCEPT !.verb = "pull"] /\ rpc' = "next"
        /\ UNCHANGED <<have, rout>>
     \/ /\ rcall.verb = "pull" /\ rgot > 0
        /\ StartPop(Least(Least(rgot, rcall.n - have), MaxBurst))
        /\ UNCHANGED rcall
     \/ /\ rcall.verb = "pull" /\ rgot = 0
        /\ rpc' = "next" /\ UNCHANGED <<rcall, have, rout>>
  /\ rgot' = 0
  /\ UNCHANGED <<fixed, front, writer, rcopy, asked, viewIn, viewOut, kernel>>

-----------------------------------------------------------------------------
\* The reader's transactions.
ServeArmOut ==
  /\ Holds("reader") /\ rpc = "arm"
  /\ outThr' = ReadThreshold /\ rcopy' = ReadThreshold
  /\ UNCHANGED <<outq, held, empty>> /\ DriveOut("wait")
  /\ front' = Tail(front)
  /\ UNCHANGED <<fixed, writer, rcall, have, rout, rgot, asked, viewIn, kernel>>

ServeOccupancy ==
  /\ Holds("reader") /\ rpc = "poll"
  /\ rgot' = Occupancy /\ rpc' = "polled" /\ front' = Tail(front)
  /\ UNCHANGED <<fixed, writer, rcall, have, rout, rcopy, asked, viewIn, viewOut, kernel>>

\* A pop of m words: from _held, refilled with one whole burst at a time; a word
\* that is not there is a pop_empty error.
ServePop ==
  /\ Holds("reader") /\ rpc = "pop"
  /\ LET m     == Least(MaxBurst, rout)
         got   == Least(m, Occupancy)
         taken == CHOOSE j \in 0..Len(outq) :
                    /\ held + SumOf(SubSeq(outq, 1, j)) >= got
                    /\ \A i \in 0..(j - 1) : held + SumOf(SubSeq(outq, 1, i)) < got
     IN /\ outq' = SubSeq(outq, taken + 1, Len(outq))
        /\ held' = held + SumOf(SubSeq(outq, 1, taken)) - got
        /\ empty' = empty + (m - got)
        /\ rout' = rout - m /\ UNCHANGED outThr
        /\ front' = Tail(front)
        /\ IF rout = m /\ have = rcall.n
             THEN DriveOut("idle") /\ rcall' = NoCall /\ have' = 0
             ELSE DriveOut(IF rout > m THEN "pop" ELSE "next") /\ UNCHANGED <<rcall, have>>
  /\ UNCHANGED <<fixed, writer, rcopy, rgot, asked, viewIn, kernel>>

-----------------------------------------------------------------------------
Writer == Travels("writer", wpc) \/ WriterGoes \/ WriterArms \/ WriterSeesHigh \/ WriterSleeps \/ WriterPolls
          \/ WriterPolled \/ ServeArmIn \/ ServeVacancy \/ ServePush \/ StallEnds
Kernel == KernelTakes \/ KernelRetires \/ KernelWrites
Reader == Travels("reader", rpc) \/ ReaderArms \/ ReaderSeesHigh \/ ReaderSleeps \/ TryNone \/ ReaderPolls
          \/ ReaderPolled \/ ServeArmOut \/ ServeOccupancy \/ ServePop

Next ==
  \/ \E verb \in {"write", "push"}, n \in Packets : CallWrite(verb, n)
  \/ \E verb \in {"pull", "try"}, n \in Reads : CallRead(verb, n)
  \/ Writer \/ Kernel \/ Reader

\* A call under way goes on, and the kernel's loop never stops.  The host pulls
\* what it has sent, between other calls perhaps; nothing says it writes again.
Fairness == /\ WF_vars(Writer) /\ WF_vars(Kernel) /\ WF_vars(Reader)
            /\ SF_vars(\E n \in Reads : CallRead("pull", n))

Spec == Init /\ [][Next]_vars /\ Fairness

-----------------------------------------------------------------------------
\* Every variable has the type the code gives it: the writer's bound never below
\* zero or above the depth, the FIFOs holding whole packets and whole bursts.
TypeOK ==
  LET call(verbs, lens) == [verb : verbs, n : lens] \cup {NoCall}
  IN  /\ irq \in BOOLEAN /\ kburst \in 1..KernelBurst /\ front \in Seq({"writer", "reader"}) /\ Len(front) <= 2
      /\ wpc \in {"idle", "next", "arm", "wait", "asleep", "woken", "poll", "polled",
                  "push", "stalled"}
      /\ wcall \in call({"write", "push"}, Packets)
      /\ sent \in Nat /\ piece \in 0..Depth /\ wout \in 0..(Depth + 1)
      /\ room \in 0..Depth /\ wcopy \in -1..Depth /\ wgot \in 0..Depth /\ begun \in 0..MaxWords
      /\ rpc \in {"idle", "next", "arm", "wait", "asleep", "woken", "poll", "polled", "pop"}
      /\ rcall \in call({"pull", "try"}, Reads)
      /\ have \in Nat /\ rout \in 0..(Depth + kburst - 1) /\ rcopy \in -1..Depth /\ rgot \in Nat
      /\ asked \in 0..MaxWords
      /\ left \in Nat /\ inq \in Seq(Packets) /\ inThr \in 0..Depth /\ inLine \in BOOLEAN
      /\ taking \in Packets \cup {0} /\ owes \in Nat
      /\ outq \in Seq(1..kburst) /\ held \in 0..(kburst - 1)
      /\ outThr \in 0..Depth /\ outLine \in BOOLEAN /\ empty \in Nat

\* "A packet that fits the queue waits until the queue has room for all of it
\* ... so the bus never stalls" (MmQueueInIF): a packet that does not fit the free
\* slots when its last word lands is one that never could.
FittingNeverStalls == wpc = "stalled" /\ wcall.n <= Depth => Vacancy >= wcall.n

\* No pop finds the queue empty, although the reader acts on a line it saw high,
\* or on an occupancy it read, some transactions ago.
PopsFindWords == empty = 0

\* A thread asleep on its line has not missed the rise: while it sleeps, what it
\* armed the line for is not there.
NoLostWakeup ==
  /\ wpc = "asleep" => ~(Vacancy >= wcopy)
  /\ rpc = "asleep" => ~(Occupancy >= rcopy)

\* Every call returns: writes while the kernel drains, pulls of words that were
\* sent, with the kernel blocked on a full queue out and one front for all.
CallsReturn ==
  /\ (wpc # "idle") ~> (wpc = "idle")
  /\ (rpc # "idle") ~> (rpc = "idle")
=============================================================================
