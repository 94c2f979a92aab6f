----------------------------- MODULE MmHostProofs -----------------------------
(***************************************************************************)
(* The host and its queue views, for every depth, transaction length and   *)
(* length of packets and pulls.                                            *)
(*                                                                         *)
(* No thread sleeps through the rise it armed its line for: a view's line  *)
(* says at every moment whether its threshold is met, and a thread that    *)
(* waits has written the threshold it waits for, now or in an earlier      *)
(* round.  Such a threshold is positive, since there is still something to *)
(* write or to pull (WInv, RInv).                                          *)
(*                                                                         *)
(* The types, and that no pop finds too few words, need what a call has    *)
(* still to do at each point of it: the words the packet owes the view in  *)
(* step with those the writer has to send (WPlan), and that the words the  *)
(* reader saw are still there when it pops them (RPlan).  That a packet    *)
(* that fits never waits for slots needs the writer's bound to be one of   *)
(* the free space (FPlan).                                                 *)
(***************************************************************************)
EXTENDS MmHost, ArithmeticProofs

\* The threshold of the view is met.
InHigh  == inThr > 0 /\ Vacancy >= inThr
OutHigh == outThr > 0 /\ Occupancy >= outThr

\* The thread has armed its line, or found it armed as it wants it.
Armed == {"wait", "asleep", "woken"}

WriterOf(pc) ==
  /\ pc \in Armed \cup {"arm"} => irq
  /\ pc \in {"poll", "polled"} => ~irq
  /\ pc \in Armed => wcopy = inThr /\ inThr > 0
  /\ pc # "idle" => wcall.n \in Nat /\ wcall.n > 0

ReaderOf(pc) ==
  /\ pc \in Armed \cup {"arm"} => irq
  /\ pc \in {"poll", "polled"} => ~irq
  /\ pc \in Armed => rcopy = outThr /\ outThr > 0
  /\ pc # "idle" => rcall.n \in Nat
  /\ irq /\ pc \in Armed \cup {"arm", "next"} => have < rcall.n
  /\ irq /\ pc # "idle" => have <= rcall.n

\* The writer and its view.  A piece of a polling writer is as long as the vacancy it
\* read; with a line it is a number the writer chose.
WInv ==
  /\ inLine = InHigh /\ (wpc = "asleep" => ~inLine)
  /\ inThr \in Nat /\ wcopy \in {-1, inThr}
  /\ irq => sent \in Int /\ piece \in Int
  /\ WriterOf(wpc)

\* The reader and its view.
RInv ==
  /\ outLine = OutHigh /\ (rpc = "asleep" => ~outLine)
  /\ outThr \in Nat /\ rcopy \in {-1, outThr}
  /\ irq => have \in Int /\ rout \in Int
  /\ ReaderOf(rpc)

-----------------------------------------------------------------------------
\* A change of the view drives the line, and wakes a sleeper when it rises.
LEMMA InDriven ==
  ASSUME NEW pc, DriveIn(pc), pc = "asleep" => ~inLine
  PROVE  /\ inLine' = InHigh' /\ (wpc' = "asleep" => ~inLine')
         /\ wpc' = pc \/ (pc = "asleep" /\ wpc' = "woken")
<1>1. inLine' = InHigh'  BY DEF DriveIn, InHigh, Vacancy
<1>2. wpc' = Rise(pc, inLine, inLine')  BY DEF DriveIn
<1> QED BY <1>1, <1>2 DEF Rise

LEMMA OutDriven ==
  ASSUME NEW pc, DriveOut(pc), pc = "asleep" => ~outLine
  PROVE  /\ outLine' = OutHigh' /\ (rpc' = "asleep" => ~outLine')
         /\ rpc' = pc \/ (pc = "asleep" /\ rpc' = "woken")
<1>1. outLine' = OutHigh'  BY DEF DriveOut, OutHigh, Occupancy
<1>2. rpc' = Rise(pc, outLine, outLine')  BY DEF DriveOut
<1> QED BY <1>1, <1>2 DEF Rise

\* What either thread arms its line for is positive.
LEMMA ThresholdPositive ==
  ASSUME WInv, irq, wpc # "idle"
  PROVE  Threshold \in Nat /\ Threshold > 0 /\ Need \in Int
<1>1. wcall.n \in Nat /\ wcall.n > 0 /\ sent \in Int  BY DEF WInv, WriterOf
<1>2. Depth \in Nat /\ Depth > 1  BY HostAssumption
<1>3. Need \in Int
  <2>1. wcall.n - sent \in Int  BY <1>1
  <2> QED BY <1>2, <2>1 DEF Need, Least
<1>4. Depth \div 2 \in Nat /\ Depth \div 2 > 0  BY <1>2
<1>5. Most(Need, Depth \div 2) \in Nat /\ Most(Need, Depth \div 2) > 0
  BY <1>3, <1>4 DEF Most
<1> QED BY <1>1, <1>3, <1>5 DEF Threshold

LEMMA WantedPositive ==
  ASSUME RInv, irq, rpc \in Armed \cup {"arm", "next"}
  PROVE  Wanted \in Nat /\ Wanted > 0 /\ have + Wanted <= rcall.n /\ have + Wanted \in Int
<1>1. rcall.n \in Nat /\ have \in Int /\ have < rcall.n  BY DEF RInv, ReaderOf, Armed
<1>2. Depth \in Nat /\ Depth > 1  BY HostAssumption
<1>3. rcall.n - have \in Nat /\ rcall.n - have > 0  BY <1>1
<1>4. Wanted \in Nat /\ Wanted > 0 /\ Wanted <= rcall.n - have
  BY <1>2, <1>3 DEF Wanted, Least
<1> QED BY <1>1, <1>4

-----------------------------------------------------------------------------
LEMMA InitInv == Init => WInv /\ RInv
<1> SUFFICES ASSUME Init PROVE WInv /\ RInv
  OBVIOUS
<1>1. WInv
  <2>1. ~(inThr > 0) /\ inThr \in Nat  BY DEF Init
  <2>2. inLine = InHigh  BY <2>1 DEF Init, InHigh
  <2> QED BY <2>1, <2>2 DEF Init, WInv, WriterOf, Armed
<1>2. RInv
  <2>1. ~(outThr > 0) /\ outThr \in Nat  BY DEF Init
  <2>2. outLine = OutHigh  BY <2>1 DEF Init, OutHigh
  <2> QED BY <2>1, <2>2 DEF Init, RInv, ReaderOf, Armed
<1> QED BY <1>1, <1>2

\* Steps that leave one side and its view alone.
LEMMA WriterKept ==
  ASSUME WInv, UNCHANGED <<irq, wpc, wcall, sent, piece, wcopy, inq, inThr, inLine>>
  PROVE  WInv'
BY DEF WInv, WriterOf, InHigh, Vacancy

LEMMA ReaderKept ==
  ASSUME RInv, UNCHANGED <<irq, rpc, rcall, have, rout, rcopy, outq, held, outThr, outLine>>
  PROVE  RInv'
BY DEF RInv, ReaderOf, OutHigh, Occupancy

\* Steps of one side that leave its view alone.
LEMMA WriterMoves ==
  ASSUME WInv, UNCHANGED <<irq, inq, inThr, inLine, wcopy>>,
         irq => sent' \in Int /\ piece' \in Int,
         WriterOf(wpc)', wpc' = "asleep" => ~inLine
  PROVE  WInv'
<1>1. inLine' = InHigh'  BY DEF WInv, InHigh, Vacancy
<1> QED BY <1>1 DEF WInv

LEMMA ReaderMoves ==
  ASSUME RInv, UNCHANGED <<irq, outq, held, outThr, outLine, rcopy>>,
         irq => have' \in Int /\ rout' \in Int,
         ReaderOf(rpc)', rpc' = "asleep" => ~outLine
  PROVE  RInv'
<1>1. outLine' = OutHigh'  BY DEF RInv, OutHigh, Occupancy
<1> QED BY <1>1 DEF RInv

-----------------------------------------------------------------------------
LEMMA CallWriteStep ==
  ASSUME WInv, NEW verb \in {"write", "push"}, NEW n \in Packets, CallWrite(verb, n)
  PROVE  WInv'
<1>1. /\ wpc' = "next" /\ sent' = 0 /\ wcall'.n = n
      /\ UNCHANGED <<irq, piece, wcopy, inq, inThr, inLine>>
  BY DEF CallWrite, fixed, viewIn
<1>2. n \in Nat /\ n > 0
  <2>1. n \in 1..MaxWords /\ MaxWords \in Nat  BY HostAssumption
  <2> QED BY <2>1
<1>3. irq => sent' \in Int /\ piece' \in Int  BY <1>1 DEF WInv
<1>4. WriterOf(wpc)'  BY <1>1, <1>2 DEF WriterOf, Armed
<1> QED BY <1>1, <1>3, <1>4, WriterMoves

\* The next piece of a writer with a line.
LEMMA PieceStarts ==
  ASSUME WInv, irq, wpc # "idle", StartPiece(Need),
         UNCHANGED <<irq, wcall, sent, wcopy, inq, inThr, inLine>>
  PROVE  WInv'
<1>1. wpc' = "push" /\ piece' = Need  BY DEF StartPiece
<1>2. irq => sent' \in Int /\ piece' \in Int  BY <1>1, ThresholdPositive DEF WInv
<1>3. WriterOf(wpc)'  BY <1>1 DEF WInv, WriterOf, Armed
<1> QED BY <1>1, <1>2, <1>3, WriterMoves

\* The steps of the writer between its transactions.
LEMMA WriterThinks ==
  ASSUME WInv,
         WriterGoes \/ WriterArms \/ WriterSeesHigh \/ WriterSleeps \/ WriterPolls \/ WriterPolled
  PROVE  WInv'
<1>1. CASE WriterGoes
  <2>1. /\ irq /\ wpc # "idle" /\ StartPiece(Need)
        /\ UNCHANGED <<irq, wcall, sent, wcopy, inq, inThr, inLine>>
    BY <1>1 DEF WriterGoes, fixed, viewIn
  <2> QED BY <2>1, PieceStarts
<1>2. CASE WriterArms
  <2>1. /\ irq /\ wpc = "next" /\ wpc' = (IF wcopy = Threshold THEN "wait" ELSE "arm")
        /\ UNCHANGED <<irq, wcall, sent, piece, wcopy, inq, inThr, inLine>>
    BY <1>2 DEF WriterArms, fixed, viewIn
  <2>2. Threshold \in Nat /\ Threshold > 0  BY <2>1, ThresholdPositive
  <2>3. wcopy = Threshold => wcopy = inThr /\ inThr > 0
    <3>1. Threshold # -1  BY <2>2
    <3> QED BY <2>2, <3>1 DEF WInv
  <2>4. WriterOf(wpc)'  BY <2>1, <2>3 DEF WInv, WriterOf, Armed
  <2>5. irq => sent' \in Int /\ piece' \in Int  BY <2>1 DEF WInv
  <2>6. wpc' # "asleep"  BY <2>1
  <2> QED BY <2>1, <2>4, <2>5, <2>6, WriterMoves
<1>3. CASE WriterSeesHigh
  <2>1. /\ wpc \in Armed /\ wpc # "idle" /\ StartPiece(Need)
        /\ UNCHANGED <<irq, wcall, sent, wcopy, inq, inThr, inLine>>
    BY <1>3 DEF WriterSeesHigh, fixed, viewIn, Armed
  <2>2. irq  BY <2>1 DEF WInv, WriterOf
  <2> QED BY <2>1, <2>2, PieceStarts
<1>4. CASE WriterSleeps
  <2>1. /\ wpc \in Armed /\ ~inLine /\ wpc' = "asleep"
        /\ UNCHANGED <<irq, wcall, sent, piece, wcopy, inq, inThr, inLine>>
    BY <1>4 DEF WriterSleeps, fixed, viewIn, Armed
  <2>2. WriterOf(wpc)'  BY <2>1 DEF WInv, WriterOf, Armed
  <2>3. irq => sent' \in Int /\ piece' \in Int  BY <2>1 DEF WInv
  <2> QED BY <2>1, <2>2, <2>3, WriterMoves
<1>5. CASE WriterPolls \/ WriterPolled
  <2>1. /\ wpc \in {"next", "polled"} /\ wpc' \in {"poll", "push", "next"}
        /\ UNCHANGED <<irq, wcall, sent, wcopy, inq, inThr, inLine>>
        /\ WriterPolls => ~irq
        /\ WriterPolled => wpc = "polled" /\ wpc' # "poll"
    BY <1>5 DEF WriterPolls, WriterPolled, StartPiece, fixed, viewIn
  <2>2. ~irq  BY <1>5, <2>1 DEF WInv, WriterOf
  <2>3. WriterOf(wpc)'  BY <2>1, <2>2 DEF WInv, WriterOf, Armed
  <2>4. wpc' # "asleep"  BY <2>1
  <2> QED BY <2>1, <2>2, <2>3, <2>4, WriterMoves
<1> QED BY <1>1, <1>2, <1>3, <1>4, <1>5

\* The writer's transactions, and the kernel's side of queue in.
LEMMA ServeArmInStep ==
  ASSUME WInv, ServeArmIn
  PROVE  WInv'
<1>1. /\ wpc = "arm" /\ inThr' = Threshold /\ wcopy' = Threshold /\ DriveIn("wait")
      /\ UNCHANGED <<irq, wcall, sent, piece>>
  BY DEF ServeArmIn, fixed
<1>2. irq  BY <1>1 DEF WInv, WriterOf
<1>3. Threshold \in Nat /\ Threshold > 0  BY <1>1, <1>2, ThresholdPositive
<1>4. inLine' = InHigh' /\ wpc' = "wait"  BY <1>1, InDriven
<1>5. inThr' \in Nat /\ wcopy' = inThr' /\ inThr' > 0  BY <1>1, <1>3
<1>6. irq' => sent' \in Int /\ piece' \in Int  BY <1>1 DEF WInv
<1>7. WriterOf(wpc)'
  <2>1. wcall.n \in Nat /\ wcall.n > 0  BY <1>1 DEF WInv, WriterOf
  <2>2. irq' /\ wcall' = wcall  BY <1>1, <1>2
  <2> QED BY <1>4, <1>5, <2>1, <2>2 DEF WriterOf, Armed
<1>8. wpc' # "asleep"  BY <1>4
<1> QED BY <1>4, <1>5, <1>6, <1>7, <1>8 DEF WInv

LEMMA ServeVacancyStep ==
  ASSUME WInv, ServeVacancy
  PROVE  WInv'
<1>1. /\ wpc = "poll" /\ wpc' = "polled"
      /\ UNCHANGED <<irq, wcall, sent, piece, wcopy, inq, inThr, inLine>>
  BY DEF ServeVacancy, fixed, viewIn
<1>2. ~irq  BY <1>1 DEF WInv, WriterOf
<1>3. WriterOf(wpc)'  BY <1>1, <1>2 DEF WInv, WriterOf, Armed
<1> QED BY <1>1, <1>2, <1>3, WriterMoves

\* A burst is done: the call goes on, or is over and nobody waits.
LEMMA BurstKeeps ==
  ASSUME WInv, wpc # "idle", BurstDone, irq' = irq
  PROVE  /\ irq => sent' \in Int /\ piece' \in Int
         /\ AfterBurst \in {"push", "idle", "next"}
         /\ AfterBurst # "idle" => wcall' = wcall
<1>1. /\ wout > Burst => UNCHANGED <<sent, piece, wcall>>
      /\ ~(wout > Burst) =>
           /\ piece' = 0
           /\ sent + piece = wcall.n => sent' = 0
           /\ sent + piece # wcall.n => sent' = sent + piece /\ wcall' = wcall
  BY DEF BurstDone
<1>2. ASSUME irq PROVE sent' \in Int /\ piece' \in Int
  <2>1. sent \in Int /\ piece \in Int /\ sent + piece \in Int  BY <1>2 DEF WInv
  <2>2. 0 \in Int  OBVIOUS
  <2> QED BY <1>1, <2>1, <2>2
<1>3. AfterBurst \in {"push", "idle", "next"}  BY DEF AfterBurst
<1>4. AfterBurst # "idle" => wcall' = wcall  BY <1>1 DEF AfterBurst
<1> QED BY <1>2, <1>3, <1>4

LEMMA ServePushStep ==
  ASSUME WInv, ServePush \/ StallEnds
  PROVE  WInv'
<1>1. /\ wpc \in {"push", "stalled"} /\ UNCHANGED <<irq, wcopy, inThr>>
  BY DEF ServePush, StallEnds, fixed
<1>2. wcall.n \in Nat /\ wcall.n > 0  BY <1>1 DEF WInv, WriterOf
<1>3. CASE BurstDone /\ wpc' = AfterBurst /\ UNCHANGED <<inq, inLine>>
  <2>1. /\ irq => sent' \in Int /\ piece' \in Int
        /\ wpc' \in {"push", "idle", "next"} /\ (wpc' # "idle" => wcall' = wcall)
    BY <1>1, <1>3, BurstKeeps
  <2>2. WriterOf(wpc)'  BY <1>1, <1>2, <2>1 DEF WriterOf, Armed
  <2>3. wpc' # "asleep"  BY <2>1
  <2> QED BY <1>1, <1>3, <2>1, <2>2, <2>3, WriterMoves
<1>4. CASE BurstDone /\ DriveIn(AfterBurst)
  <2>1. /\ irq => sent' \in Int /\ piece' \in Int
        /\ AfterBurst \in {"push", "idle", "next"} /\ (AfterBurst # "idle" => wcall' = wcall)
    BY <1>1, <1>4, BurstKeeps
  <2>2. AfterBurst # "asleep"  BY <2>1
  <2>3. inLine' = InHigh' /\ wpc' = AfterBurst  BY <1>4, <2>2, InDriven
  <2>4. WriterOf(wpc)'  BY <1>1, <1>2, <2>1, <2>3 DEF WriterOf, Armed
  <2>5. inThr' \in Nat /\ wcopy' \in {-1, inThr'}  BY <1>1 DEF WInv
  <2> QED BY <1>1, <2>1, <2>2, <2>3, <2>4, <2>5 DEF WInv
<1>5. CASE wpc' = "stalled" /\ UNCHANGED <<wcall, sent, piece, inq, inLine>>
  <2>1. WriterOf(wpc)'  BY <1>1, <1>2, <1>5 DEF WriterOf, Armed
  <2>2. irq => sent' \in Int /\ piece' \in Int  BY <1>5 DEF WInv
  <2> QED BY <1>1, <1>5, <2>1, <2>2, WriterMoves
<1> QED BY <1>3, <1>4, <1>5 DEF ServePush, StallEnds

LEMMA KernelTakesStep ==
  ASSUME WInv, KernelTakes
  PROVE  WInv'
<1>1. DriveIn(wpc) /\ UNCHANGED <<irq, wcall, sent, piece, wcopy, inThr>>
  BY DEF KernelTakes, fixed
<1>2. wpc = "asleep" => ~inLine  BY DEF WInv
<1>3. /\ inLine' = InHigh' /\ (wpc' = "asleep" => ~inLine')
      /\ wpc' = wpc \/ (wpc = "asleep" /\ wpc' = "woken")
  BY <1>1, <1>2, InDriven
<1>4. WriterOf(wpc)'  BY <1>1, <1>3 DEF WInv, WriterOf, Armed
<1> QED BY <1>1, <1>3, <1>4 DEF WInv

-----------------------------------------------------------------------------
LEMMA CallReadStep ==
  ASSUME RInv, NEW verb \in {"pull", "try"}, NEW n \in Reads, CallRead(verb, n)
  PROVE  RInv'
<1>1. /\ rpc' = "next" /\ have' = 0 /\ rcall'.n = n
      /\ UNCHANGED <<irq, rout, rcopy, outq, held, outThr, outLine>>
  BY DEF CallRead, fixed, viewOut
<1>2. n \in Nat /\ n > 0
  <2>1. n \in 1..MaxWords /\ MaxWords \in Nat  BY HostAssumption
  <2> QED BY <2>1
<1>3. irq => have' \in Int /\ rout' \in Int  BY <1>1 DEF RInv
<1>4. have' < rcall'.n /\ have' <= rcall'.n  BY <1>1, <1>2
<1>5. ReaderOf(rpc)'  BY <1>1, <1>2, <1>4 DEF ReaderOf, Armed
<1> QED BY <1>1, <1>3, <1>5, ReaderMoves

\* The steps of the reader between its transactions.
LEMMA ReaderThinks ==
  ASSUME RInv,
         ReaderArms \/ ReaderSeesHigh \/ ReaderSleeps \/ TryNone \/ ReaderPolls \/ ReaderPolled
  PROVE  RInv'
<1>1. CASE ReaderArms
  <2>1. /\ irq /\ rpc = "next" /\ rpc' = (IF rcopy = ReadThreshold THEN "wait" ELSE "arm")
        /\ UNCHANGED <<irq, rcall, have, rout, rcopy, outq, held, outThr, outLine>>
    BY <1>1 DEF ReaderArms, fixed, viewOut
  <2>2. ReadThreshold \in Nat /\ ReadThreshold > 0
    BY <2>1, WantedPositive DEF ReadThreshold
  <2>3. rcopy = ReadThreshold => rcopy = outThr /\ outThr > 0
    <3>1. ReadThreshold # -1  BY <2>2
    <3> QED BY <2>2, <3>1 DEF RInv
  <2>4. ReaderOf(rpc)'  BY <2>1, <2>3 DEF RInv, ReaderOf, Armed
  <2>5. irq => have' \in Int /\ rout' \in Int  BY <2>1 DEF RInv
  <2>6. rpc' # "asleep"  BY <2>1
  <2> QED BY <2>1, <2>4, <2>5, <2>6, ReaderMoves
<1>2. CASE ReaderSeesHigh
  <2>1. /\ rpc \in Armed /\ rpc' = "pop" /\ have' = have + Wanted /\ rout' = Wanted
        /\ rcall' = [rcall EXCEPT !.verb = "pull"]
        /\ UNCHANGED <<irq, rcopy, outq, held, outThr, outLine>>
    BY <1>2 DEF ReaderSeesHigh, StartPop, fixed, viewOut, Armed
  <2>2. irq  BY <2>1 DEF RInv, ReaderOf
  <2>3. Wanted \in Nat /\ have + Wanted <= rcall.n /\ have + Wanted \in Int
    BY <2>1, <2>2, WantedPositive
  <2>4. rcall'.n = rcall.n  BY <2>1
  <2>5. rcall.n \in Nat  BY <2>1 DEF RInv, ReaderOf, Armed
  <2>6. irq => have' \in Int /\ rout' \in Int  BY <2>1, <2>3
  <2>7. have' <= rcall'.n  BY <2>1, <2>3, <2>4
  <2>8. ReaderOf(rpc)'  BY <2>1, <2>2, <2>4, <2>5, <2>7 DEF ReaderOf, Armed
  <2>9. rpc' # "asleep"  BY <2>1
  <2> QED BY <2>1, <2>6, <2>8, <2>9, ReaderMoves
<1>3. CASE ReaderSleeps
  <2>1. /\ rpc \in Armed /\ ~outLine /\ rpc' = "asleep"
        /\ UNCHANGED <<irq, rcall, have, rout, rcopy, outq, held, outThr, outLine>>
    BY <1>3 DEF ReaderSleeps, fixed, viewOut, Armed
  <2>2. ReaderOf(rpc)'  BY <2>1 DEF RInv, ReaderOf, Armed
  <2>3. irq => have' \in Int /\ rout' \in Int  BY <2>1 DEF RInv
  <2> QED BY <2>1, <2>2, <2>3, ReaderMoves
<1>4. CASE TryNone
  <2>1. /\ rpc' = "idle" /\ have' = 0
        /\ UNCHANGED <<irq, rout, rcopy, outq, held, outThr, outLine>>
    BY <1>4 DEF TryNone, fixed, viewOut
  <2>2. ReaderOf(rpc)'  BY <2>1 DEF ReaderOf, Armed
  <2>3. irq => have' \in Int /\ rout' \in Int  BY <2>1 DEF RInv
  <2>4. rpc' # "asleep"  BY <2>1
  <2> QED BY <2>1, <2>2, <2>3, <2>4, ReaderMoves
<1>5. CASE ReaderPolls \/ ReaderPolled
  <2>1. /\ rpc \in {"next", "polled"} /\ rpc' \in {"poll", "pop", "next"}
        /\ UNCHANGED <<irq, rcopy, outq, held, outThr, outLine>>
        /\ rcall' = rcall \/ rcall' = [rcall EXCEPT !.verb = "pull"]
        /\ ReaderPolls => ~irq
        /\ ReaderPolled => rpc = "polled"
    BY <1>5 DEF ReaderPolls, ReaderPolled, StartPop, fixed, viewOut
  <2>2. ~irq /\ rcall.n \in Nat  BY <1>5, <2>1 DEF RInv, ReaderOf
  <2>3. rcall'.n = rcall.n
    <3>1. CASE rcall' = rcall  BY <3>1
    <3>2. CASE rcall' = [rcall EXCEPT !.verb = "pull"]  BY <3>2
    <3> QED BY <2>1, <3>1, <3>2
  <2>4. ReaderOf(rpc)'  BY <2>1, <2>2, <2>3 DEF ReaderOf, Armed
  <2>5. rpc' # "asleep"  BY <2>1
  <2> QED BY <2>1, <2>2, <2>4, <2>5, ReaderMoves
<1> QED BY <1>1, <1>2, <1>3, <1>4, <1>5

\* The reader's transactions, and the kernel's side of queue out.
LEMMA ServeArmOutStep ==
  ASSUME RInv, ServeArmOut
  PROVE  RInv'
<1>1. /\ rpc = "arm" /\ outThr' = ReadThreshold /\ rcopy' = ReadThreshold /\ DriveOut("wait")
      /\ UNCHANGED <<irq, rcall, have, rout>>
  BY DEF ServeArmOut, fixed
<1>2. irq /\ rcall.n \in Nat /\ have < rcall.n /\ have <= rcall.n
  BY <1>1 DEF RInv, ReaderOf
<1>3. ReadThreshold \in Nat /\ ReadThreshold > 0
  BY <1>1, <1>2, WantedPositive DEF ReadThreshold
<1>4. outLine' = OutHigh' /\ rpc' = "wait"  BY <1>1, OutDriven
<1>5. outThr' \in Nat /\ rcopy' = outThr' /\ outThr' > 0  BY <1>1, <1>3
<1>6. irq' => have' \in Int /\ rout' \in Int  BY <1>1 DEF RInv
<1>7. ReaderOf(rpc)'  BY <1>1, <1>2, <1>4, <1>5 DEF ReaderOf, Armed
<1>8. rpc' # "asleep"  BY <1>4
<1> QED BY <1>4, <1>5, <1>6, <1>7, <1>8 DEF RInv

LEMMA ServeOccupancyStep ==
  ASSUME RInv, ServeOccupancy
  PROVE  RInv'
<1>1. /\ rpc = "poll" /\ rpc' = "polled"
      /\ UNCHANGED <<irq, rcall, have, rout, rcopy, outq, held, outThr, outLine>>
  BY DEF ServeOccupancy, fixed, viewOut
<1>2. ~irq  BY <1>1 DEF RInv, ReaderOf
<1>3. ReaderOf(rpc)'  BY <1>1, <1>2 DEF RInv, ReaderOf, Armed
<1> QED BY <1>1, <1>2, <1>3, ReaderMoves

LEMMA ServePopStep ==
  ASSUME RInv, ServePop
  PROVE  RInv'
<1> DEFINE m == Least(MaxBurst, rout)
           done == rout = m /\ have = rcall.n
           goes == IF rout > m THEN "pop" ELSE "next"
<1>1. /\ rpc = "pop" /\ rout' = rout - m
      /\ UNCHANGED <<irq, rcopy, outThr>>
      /\ done => DriveOut("idle") /\ have' = 0
      /\ ~done => DriveOut(goes) /\ UNCHANGED <<rcall, have>>
  BY DEF ServePop, fixed
<1>2. MaxBurst \in Nat  BY HostAssumption
<1>3. rcall.n \in Nat /\ (irq => have \in Int /\ rout \in Int /\ have <= rcall.n)
  BY <1>1 DEF RInv, ReaderOf
<1>4. irq => rout - m \in Int /\ (rout > m \/ rout = m)  BY <1>2, <1>3 DEF Least
<1> HIDE DEF m
<1>5. CASE done
  <2>1. outLine' = OutHigh' /\ rpc' = "idle"  BY <1>1, <1>5, OutDriven
  <2>2. ReaderOf(rpc)'  BY <2>1 DEF ReaderOf, Armed
  <2>3. irq' => have' \in Int /\ rout' \in Int  BY <1>1, <1>4, <1>5
  <2>4. outThr' \in Nat /\ rcopy' \in {-1, outThr'} /\ rpc' # "asleep"  BY <1>1, <2>1 DEF RInv
  <2> QED BY <2>1, <2>2, <2>3, <2>4 DEF RInv
<1>6. CASE ~done
  <2>1. goes # "asleep"  OBVIOUS
  <2>2. outLine' = OutHigh' /\ rpc' = goes  BY <1>1, <1>6, <2>1, OutDriven
  <2>3. irq' => have' \in Int /\ rout' \in Int  BY <1>1, <1>3, <1>4, <1>6
  <2>4. rcall' = rcall /\ have' = have /\ irq' = irq  BY <1>1, <1>6
  <2>5. ASSUME irq, goes = "next" PROVE have < rcall.n
    <3>1. rout = m  BY <1>4, <2>5
    <3>2. have # rcall.n  BY <1>6, <3>1
    <3> QED BY <1>3, <2>5, <3>2
  <2>6. rpc' \in {"pop", "next"}  BY <2>2
  <2>7. ReaderOf(rpc)'  BY <1>3, <2>2, <2>4, <2>5, <2>6 DEF ReaderOf, Armed
  <2>8. outThr' \in Nat /\ rcopy' \in {-1, outThr'} /\ rpc' # "asleep"
    BY <1>1, <2>1, <2>2 DEF RInv
  <2> QED BY <2>2, <2>3, <2>7, <2>8 DEF RInv
<1> QED BY <1>5, <1>6

LEMMA KernelWritesStep ==
  ASSUME RInv, KernelWrites
  PROVE  RInv'
<1>1. DriveOut(rpc) /\ UNCHANGED <<irq, rcall, have, rout, rcopy, outThr>>
  BY DEF KernelWrites, fixed
<1>2. rpc = "asleep" => ~outLine  BY DEF RInv
<1>3. /\ outLine' = OutHigh' /\ (rpc' = "asleep" => ~outLine')
      /\ rpc' = rpc \/ (rpc = "asleep" /\ rpc' = "woken")
  BY <1>1, <1>2, OutDriven
<1>4. ReaderOf(rpc)'  BY <1>1, <1>3 DEF RInv, ReaderOf, Armed
<1> QED BY <1>1, <1>3, <1>4 DEF RInv

-----------------------------------------------------------------------------
LEMMA NextWInv == ASSUME WInv, [Next]_vars PROVE WInv'
<1> USE DEF fixed, writer, reader, viewIn
<1>1. CASE UNCHANGED vars  BY <1>1, WriterKept DEF vars
<1>2. ASSUME NEW verb \in {"write", "push"}, NEW n \in Packets, CallWrite(verb, n)
      PROVE  WInv'
  BY <1>2, CallWriteStep
<1>3. ASSUME NEW verb \in {"pull", "try"}, NEW n \in Reads, CallRead(verb, n)
      PROVE  WInv'
  BY <1>3, WriterKept DEF CallRead
<1>4. CASE Writer
  <2>1. CASE Travels("writer", wpc)  BY <2>1, WriterKept DEF Travels
  <2> QED BY <1>4, <2>1, WriterThinks, ServeArmInStep, ServeVacancyStep, ServePushStep DEF Writer
<1>5. CASE Kernel
  <2>1. CASE KernelRetires  BY <2>1, WriterKept DEF KernelRetires
  <2>2. CASE KernelWrites  BY <2>2, WriterKept DEF KernelWrites
  <2> QED BY <1>5, <2>1, <2>2, KernelTakesStep DEF Kernel
<1>6. CASE Reader
  <2>1. UNCHANGED <<irq, wpc, wcall, sent, piece, wcopy, inq, inThr, inLine>>
    BY <1>6 DEF Reader, Travels, ReaderArms, ReaderSeesHigh, ReaderSleeps, TryNone, ReaderPolls,
       ReaderPolled, ServeArmOut, ServeOccupancy, ServePop
  <2> QED BY <2>1, WriterKept
<1> QED BY <1>1, <1>2, <1>3, <1>4, <1>5, <1>6 DEF Next

LEMMA NextRInv == ASSUME RInv, [Next]_vars PROVE RInv'
<1> USE DEF fixed, writer, reader, viewOut
<1>1. CASE UNCHANGED vars  BY <1>1, ReaderKept DEF vars
<1>2. ASSUME NEW verb \in {"write", "push"}, NEW n \in Packets, CallWrite(verb, n)
      PROVE  RInv'
  BY <1>2, ReaderKept DEF CallWrite
<1>3. ASSUME NEW verb \in {"pull", "try"}, NEW n \in Reads, CallRead(verb, n)
      PROVE  RInv'
  BY <1>3, CallReadStep
<1>4. CASE Writer
  <2>1. UNCHANGED <<irq, rpc, rcall, have, rout, rcopy, outq, held, outThr, outLine>>
    BY <1>4 DEF Writer, Travels, WriterGoes, WriterArms, WriterSeesHigh, WriterSleeps,
       WriterPolls, WriterPolled, ServeArmIn, ServeVacancy, ServePush, StallEnds
  <2> QED BY <2>1, ReaderKept
<1>5. CASE Kernel
  <2>1. CASE KernelTakes  BY <2>1, ReaderKept DEF KernelTakes
  <2>2. CASE KernelRetires  BY <2>2, ReaderKept DEF KernelRetires
  <2> QED BY <1>5, <2>1, <2>2, KernelWritesStep DEF Kernel
<1>6. CASE Reader
  <2>1. CASE Travels("reader", rpc)  BY <2>1, ReaderKept DEF Travels
  <2> QED BY <1>6, <2>1, ReaderThinks, ServeArmOutStep, ServeOccupancyStep, ServePopStep DEF Reader
<1> QED BY <1>1, <1>2, <1>3, <1>4, <1>5, <1>6 DEF Next

LEMMA Inductive == Spec => [](WInv /\ RInv)
<1>1. WInv /\ RInv /\ [Next]_vars => (WInv /\ RInv)'  BY NextWInv, NextRInv
<1> QED BY InitInv, <1>1, PTL DEF Spec

-----------------------------------------------------------------------------
\* A thread asleep on its line has missed no rise, although the threshold, the queue and
\* the line change under three threads, and the register is not written again when its
\* value is the one from an earlier round.
THEOREM NoRiseIsMissed == Spec => []NoLostWakeup
<1>1. ASSUME WInv, RInv PROVE NoLostWakeup
  <2>1. ASSUME wpc = "asleep" PROVE ~(Vacancy >= wcopy)
    <3>1. ~InHigh /\ inThr > 0 /\ wcopy = inThr  BY <1>1, <2>1 DEF WInv, WriterOf, Armed
    <3> QED BY <3>1 DEF InHigh
  <2>2. ASSUME rpc = "asleep" PROVE ~(Occupancy >= rcopy)
    <3>1. ~OutHigh /\ outThr > 0 /\ rcopy = outThr  BY <1>1, <2>2 DEF RInv, ReaderOf, Armed
    <3> QED BY <3>1 DEF OutHigh
  <2> QED BY <2>1, <2>2 DEF NoLostWakeup
<1>2. WInv /\ RInv => NoLostWakeup  BY <1>1
<1> QED BY <1>2, Inductive, PTL

-----------------------------------------------------------------------------
\* The types, and with them what a call has still to do: what a piece and its packet owe,
\* that a threshold is that of the piece it was armed for, and that the bound a writer
\* keeps is enough for the piece it writes.

Calls(verbs, lens) == [verb : verbs, n : lens] \cup {NoCall}

WriterAt == {"idle", "next", "arm", "wait", "asleep", "woken", "poll", "polled", "push", "stalled"}

WTypes ==
  /\ irq \in BOOLEAN /\ wpc \in WriterAt /\ wcall \in Calls({"write", "push"}, Packets)
  /\ sent \in Nat /\ piece \in 0..Depth /\ wout \in 0..(Depth + 1)
  /\ room \in 0..Depth /\ wcopy \in -1..Depth /\ wgot \in 0..Depth /\ begun \in 0..MaxWords
  /\ left \in Nat /\ inq \in Seq(Packets) /\ inThr \in 0..Depth /\ inLine \in BOOLEAN
  /\ taking \in Packets \cup {0}

\* Between two pieces: there is one to come, and the view expects its words, or the
\* header.
Between ==
  /\ sent < wcall.n
  /\ sent = 0 => left = 0
  /\ sent > 0 => left = wcall.n - sent

\* In a piece: the header and all of it are to be written, or its last wout words.
Writing ==
  /\ piece >= 1 /\ wout >= 1 /\ sent + piece <= wcall.n
  /\ \/ left = 0 /\ sent = 0 /\ wout = piece + 1
     \/ wout <= piece /\ left = (wcall.n - sent) - (piece - wout)

\* The last burst of a packet keeps the front.
Stalled == left = 0 /\ wout >= 1 /\ wout <= MaxBurst /\ sent + piece = wcall.n /\ piece >= 1

\* A packet that fits the queue is one piece.
Whole == wcall.n <= Depth => sent = 0 /\ (wpc \in {"push", "stalled"} => piece = wcall.n)

Thinks == {"next", "arm", "wait", "asleep", "woken", "poll", "polled"}

WPlan ==
  /\ wcall.verb = "push" => wcall.n <= Depth
  /\ wpc = "idle" => sent = 0 /\ left = 0
  /\ wpc \in Thinks => Between
  /\ wpc \in Armed => wcopy = Threshold
  /\ wpc = "push" => Writing
  /\ wpc = "stalled" => Stalled
  /\ irq /\ wcall.verb = "write" /\ wpc \in {"push", "stalled"} => room >= piece
  /\ Whole

WAll == WInv /\ WTypes /\ WPlan

\* The assumption on the constants, as facts the arithmetic can use.
LEMMA Lengths ==
  /\ Depth \in Nat /\ Depth >= 2 /\ MaxBurst \in Nat /\ MaxBurst >= 1 /\ MaxWords \in Nat
  /\ KernelBurst \in Nat /\ KernelBurst >= 1 /\ KernelBurst <= Depth
  /\ Packets \subseteq Nat /\ Reads \subseteq Nat
  /\ \A n \in Packets \cup Reads : n >= 1 /\ n <= MaxWords
<1>1. /\ Depth \in Nat /\ Depth >= 2 /\ MaxBurst \in Nat /\ MaxBurst >= 1 /\ MaxWords \in Nat
      /\ KernelBurst \in Nat /\ KernelBurst >= 1 /\ KernelBurst <= Depth
  BY HostAssumption
<1>2. \A n \in Packets \cup Reads : n \in 1..MaxWords  BY HostAssumption
<1>3. \A n \in Packets \cup Reads : n \in Nat /\ n >= 1 /\ n <= MaxWords  BY <1>1, <1>2
<1> QED BY <1>1, <1>3

\* The free space of queue in, whatever packets are in it.
LEMMA VacancyIs ==
  ASSUME NEW q \in Seq(Packets)
  PROVE  SumOf(q) \in Nat /\ Most(0, Depth - SumOf(q)) \in 0..Depth
<1>1. q \in Seq(Nat)
  <2>1. \A i \in 1..Len(q) : q[i] \in Nat  BY Lengths, ElementOfSeq
  <2> QED BY <2>1, IsASeq
<1>2. SumOf(q) \in Nat /\ Depth \in Nat  BY <1>1, SumIsNat, Lengths
<1> DEFINE s == SumOf(q)
<1>3. s \in Nat /\ Depth \in Nat  BY <1>2
<1> HIDE DEF s
<1>4. Most(0, Depth - s) \in 0..Depth  BY <1>3 DEF Most
<1> QED BY <1>2, <1>4 DEF s

\* The call a writer is in.
LEMMA CallIs ==
  ASSUME WAll, wpc # "idle"
  PROVE  /\ wcall \in [verb : {"write", "push"}, n : Packets]
         /\ wcall.n \in Packets /\ wcall.n \in Nat /\ wcall.n >= 1
         /\ wcall.verb \in {"write", "push"}
<1>1. wcall.n \in Nat /\ wcall.n > 0  BY DEF WAll, WInv, WriterOf
<1>2. wcall # NoCall
  <2>1. NoCall.n = 0  BY DEF NoCall
  <2> QED BY <1>1, <2>1
<1>3. wcall \in [verb : {"write", "push"}, n : Packets]  BY <1>2 DEF WAll, WTypes, Calls
<1>4. wcall.n \in Packets /\ wcall.verb \in {"write", "push"}  BY <1>3
<1> QED BY <1>1, <1>3, <1>4

\* A writer between two pieces: what the next one is long, and what the line is armed for.
LEMMA NeedIs ==
  ASSUME WAll, wpc \in Thinks
  PROVE  /\ Between /\ sent \in Nat /\ left \in Nat
         /\ Need \in 1..Depth /\ sent + Need <= wcall.n
         /\ Threshold \in 1..Depth /\ (wcall.verb = "write" => Threshold >= Need)
         /\ wcall.n <= Depth => sent = 0 /\ Need = wcall.n
<1>1. wcall.n \in Nat /\ wcall.verb \in {"write", "push"}  BY CallIs DEF Thinks
<1>2. Between /\ sent \in Nat /\ left \in Nat /\ (wcall.verb = "push" => wcall.n <= Depth)
  BY DEF WAll, WTypes, WPlan
<1>3. Depth \in Nat /\ Depth >= 2  BY Lengths
<1>4. wcall.n - sent \in Nat /\ wcall.n - sent >= 1  BY <1>1, <1>2 DEF Between
<1>5. Need \in 1..Depth /\ Need <= wcall.n - sent  BY <1>3, <1>4 DEF Need, Least
<1>6. sent + Need <= wcall.n
  <2> DEFINE k == Need
  <2>1. k \in Nat /\ k <= wcall.n - sent  BY <1>3, <1>5
  <2> HIDE DEF k
  <2>2. sent + k <= wcall.n  BY <1>1, <1>2, <2>1
  <2> QED BY <2>2 DEF k
<1>7. Threshold \in 1..Depth /\ (wcall.verb = "write" => Threshold >= Need)
  <2>1. CASE wcall.verb = "push"
    <3>1. wcall.n >= 1  BY CallIs DEF Thinks
    <3> QED BY <1>1, <1>2, <1>3, <2>1, <3>1 DEF Threshold
  <2>2. CASE wcall.verb = "write"
    <3> DEFINE k == Need  h == Depth \div 2
    <3>1. k \in Nat /\ k >= 1 /\ k <= Depth /\ h \in Nat /\ h <= Depth  BY <1>3, <1>5
    <3>2. Threshold = Most(k, h)  BY <2>2 DEF Threshold
    <3> HIDE DEF k, h
    <3>3. Most(k, h) \in 1..Depth /\ Most(k, h) >= k  BY <1>3, <3>1 DEF Most
    <3> QED BY <3>2, <3>3 DEF k
  <2> QED BY <1>1, <2>1, <2>2
<1>8. ASSUME wcall.n <= Depth PROVE sent = 0 /\ Need = wcall.n
  <2>1. sent = 0  BY <1>8 DEF WAll, WPlan, Whole
  <2> QED BY <1>1, <1>3, <1>8, <2>1 DEF Need, Least
<1> QED BY <1>2, <1>5, <1>6, <1>7, <1>8

-----------------------------------------------------------------------------
\* Steps that leave the writer, its view and the taken packet alone.
LEMMA WAllKept ==
  ASSUME WAll, UNCHANGED <<irq, writer, viewIn, taking>>
  PROVE  WTypes' /\ WPlan'
<1> USE DEF writer, viewIn
<1>1. WTypes'  BY DEF WAll, WTypes
<1>2. WPlan'  BY DEF WAll, WPlan, Between, Writing, Stalled, Threshold, Need, Thinks, Armed,
       Whole
<1> QED BY <1>1, <1>2

\* The writer's pc alone changes, within a round.
LEMMA Rethinks ==
  ASSUME WAll, wpc \in Thinks, wpc' \in Thinks,
         wpc' \in Armed => wcopy = Threshold,
         UNCHANGED <<irq, wcall, sent, piece, wout, room, wcopy, begun, viewIn, taking>>,
         wgot' \in 0..Depth
  PROVE  WTypes' /\ WPlan'
<1> USE DEF viewIn
<1>1. wpc' \in WriterAt  BY DEF Thinks, WriterAt
<1>2. WTypes'  BY <1>1 DEF WAll, WTypes
<1>3. Between'  BY DEF WAll, WPlan, Between
<1>4. Threshold' = Threshold  BY DEF Threshold, Need
<1>5. wpc' \notin {"idle", "push", "stalled"}  BY DEF Thinks
<1>6. wcall'.verb = "push" => wcall'.n <= Depth  BY DEF WAll, WPlan
<1>7. Whole'  BY <1>5 DEF WAll, WPlan, Whole
<1> QED BY <1>2, <1>3, <1>4, <1>5, <1>6, <1>7 DEF WPlan

\* A call of write or push.
LEMMA WTypesCall ==
  ASSUME WAll, NEW verb \in {"write", "push"}, NEW n \in Packets, CallWrite(verb, n)
  PROVE  WTypes' /\ WPlan'
<1> USE DEF fixed, viewIn
<1>1. /\ wpc = "idle" /\ begun + n <= MaxWords /\ begun' = begun + n
      /\ (verb = "push" => n <= Depth)
      /\ wcall' = [verb |-> verb, n |-> n] /\ sent' = 0 /\ wpc' = "next"
      /\ UNCHANGED <<irq, piece, wout, room, wcopy, wgot, viewIn, taking>>
  BY DEF CallWrite, kernel
<1>2. n \in Nat /\ n >= 1 /\ begun \in 0..MaxWords /\ MaxWords \in Nat
  BY Lengths DEF WAll, WTypes
<1>3. begun' \in 0..MaxWords  BY <1>1, <1>2
<1>4. wcall' \in Calls({"write", "push"}, Packets)  BY <1>1 DEF Calls
<1>5. wpc' \in WriterAt /\ sent' \in Nat  BY <1>1 DEF WriterAt
<1>6. WTypes'  BY <1>1, <1>3, <1>4, <1>5 DEF WAll, WTypes
<1>7. left = 0  BY <1>1 DEF WAll, WPlan
<1>8. Between'
  <2>1. sent' = 0 /\ wcall'.n = n /\ left' = 0  BY <1>1, <1>7
  <2>2. 0 < n /\ ~(0 > 0)  BY <1>2
  <2> QED BY <2>1, <2>2 DEF Between
<1>9. WPlan'
  <2>1. wcall'.verb = verb /\ wcall'.n = n  BY <1>1
  <2>2. Whole'  BY <1>1 DEF Whole
  <2> QED BY <1>1, <1>8, <2>1, <2>2 DEF WPlan, Armed
<1> QED BY <1>6, <1>9

\* A piece of k words begins.
LEMMA PieceBegins ==
  ASSUME WAll, wpc \in Thinks, NEW k \in 1..Depth, sent + k <= wcall.n, StartPiece(k),
         wcall.n <= Depth => k = wcall.n,
         room' \in 0..Depth, wgot' \in 0..Depth, irq /\ wcall.verb = "write" => room' >= k,
         UNCHANGED <<irq, wcall, sent, wcopy, begun, viewIn, taking>>
  PROVE  WTypes' /\ WPlan'
<1> USE DEF viewIn
<1>1. piece' = k /\ wpc' = "push" /\ wout' = k + (IF sent = 0 THEN 1 ELSE 0)  BY DEF StartPiece
<1>2. /\ Depth \in Nat /\ k \in Nat /\ k >= 1 /\ k <= Depth /\ sent \in Nat /\ wcall.n \in Nat
      /\ left \in Nat /\ Between
  BY Lengths, NeedIs, CallIs DEF Thinks
<1>3. (sent = 0 => wout' = k + 1) /\ (sent > 0 => wout' = k)  BY <1>1, <1>2
<1>4. wout' \in 0..(Depth + 1) /\ wout' >= 1 /\ piece' \in 0..Depth  BY <1>1, <1>2, <1>3
<1>5. wpc' \in WriterAt  BY <1>1 DEF WriterAt
<1>6. WTypes'  BY <1>4, <1>5 DEF WAll, WTypes
<1>7. Writing'
  <2>1. piece' >= 1 /\ sent' + piece' <= wcall'.n  BY <1>1, <1>2
  <2>2. CASE sent = 0
    <3>1. left' = 0 /\ sent' = 0 /\ wout' = piece' + 1  BY <1>1, <1>2, <1>3, <2>2 DEF Between
    <3> QED BY <1>4, <2>1, <3>1 DEF Writing
  <2>3. CASE sent > 0
    <3>1. wout' = piece' /\ wout' <= piece' /\ piece' - wout' = 0
      <4>1. wout' = k /\ piece' = k  BY <1>1, <1>3, <2>3
      <4>2. k <= k /\ k - k = 0  BY <1>2
      <4> QED BY <4>1, <4>2
    <3>2. left = wcall.n - sent /\ wcall.n - sent \in Nat  BY <1>2, <2>3 DEF Between
    <3> DEFINE x == wcall.n - sent
    <3>3. left' = x /\ x \in Nat /\ wcall'.n - sent' = x  BY <3>2
    <3> HIDE DEF x
    <3>4. left' = x - (piece' - wout')  BY <3>1, <3>3
    <3> QED BY <1>4, <2>1, <3>1, <3>3, <3>4 DEF Writing
  <2> QED BY <1>2, <2>2, <2>3
<1>8. WPlan'
  <2>1. wpc' \notin Thinks /\ wpc' \notin Armed /\ wpc' # "idle" /\ wpc' # "stalled"
    BY <1>1 DEF Thinks, Armed
  <2>2. wcall'.verb = "push" => wcall'.n <= Depth  BY DEF WAll, WPlan
  <2>3. irq' /\ wcall'.verb = "write" => room' >= piece'  BY <1>1
  <2>4. Whole'  BY <1>1 DEF WAll, WPlan, Whole
  <2> QED BY <1>7, <2>1, <2>2, <2>3, <2>4 DEF WPlan
<1> QED BY <1>6, <1>8

\* The bound a writer that sees its line high takes for free space is what it armed for.
LEMMA SeenHigh ==
  ASSUME WAll, wpc \in Armed, inLine
  PROVE  /\ irq /\ wcopy = Threshold /\ wcopy \in 1..Depth /\ Vacancy >= wcopy
         /\ (wcall.verb = "write" => wcopy >= Need)
<1>1. irq /\ wcopy = inThr /\ InHigh /\ wcopy = Threshold  BY DEF WAll, WInv, WriterOf, WPlan
<1>2. wpc \in Thinks  BY DEF Thinks, Armed
<1>3. Threshold \in 1..Depth /\ (wcall.verb = "write" => Threshold >= Need)  BY <1>2, NeedIs
<1> QED BY <1>1, <1>3 DEF InHigh

\* The steps of the writer between its transactions.
LEMMA WTypesThink ==
  ASSUME WAll,
         WriterGoes \/ WriterArms \/ WriterSeesHigh \/ WriterSleeps \/ WriterPolls \/ WriterPolled
  PROVE  WTypes' /\ WPlan'
<1> USE DEF fixed, kernel
<1>1. room \in 0..Depth /\ wgot \in 0..Depth /\ Depth \in Nat  BY Lengths DEF WAll, WTypes
<1>2. CASE WriterGoes
  <2>1. /\ wpc \in Thinks /\ room >= Need /\ StartPiece(Need)
        /\ UNCHANGED <<irq, wcall, sent, room, wgot, wcopy, begun, viewIn, taking>>
    BY <1>2 DEF WriterGoes, Thinks
  <2>2. Need \in 1..Depth /\ sent + Need <= wcall.n /\ (wcall.n <= Depth => Need = wcall.n)
    BY <2>1, NeedIs
  <2>3. room' \in 0..Depth /\ wgot' \in 0..Depth /\ room' >= Need  BY <1>1, <2>1
  <2> QED BY <2>1, <2>2, <2>3, PieceBegins
<1>3. CASE WriterArms
  <2>1. /\ wpc \in Thinks /\ irq /\ wpc' = (IF wcopy = Threshold THEN "wait" ELSE "arm")
        /\ UNCHANGED <<irq, wcall, sent, piece, wout, room, wgot, wcopy, begun, viewIn, taking>>
    BY <1>3 DEF WriterArms, Thinks
  <2>2. wpc' \in Thinks /\ (wpc' \in Armed => wcopy = Threshold)  BY <2>1 DEF Thinks, Armed
  <2>3. wgot' \in 0..Depth  BY <1>1, <2>1
  <2> QED BY <2>1, <2>2, <2>3, Rethinks
<1>4. CASE WriterSeesHigh
  <2>1. /\ wpc \in Armed /\ wpc \in Thinks /\ inLine /\ StartPiece(Need)
        /\ room' = (IF wcall.verb = "write" THEN wcopy ELSE room)
        /\ UNCHANGED <<irq, wcall, sent, wgot, wcopy, begun, viewIn, taking>>
    BY <1>4 DEF WriterSeesHigh, Thinks, Armed
  <2>2. wcopy \in 1..Depth /\ (wcall.verb = "write" => wcopy >= Need)  BY <2>1, SeenHigh
  <2>3. Need \in 1..Depth /\ sent + Need <= wcall.n /\ (wcall.n <= Depth => Need = wcall.n)
    BY <2>1, NeedIs
  <2>4. room' \in 0..Depth
    <3>1. wcopy \in 0..Depth  BY <1>1, <2>2
    <3> QED BY <1>1, <2>1, <3>1
  <2>5. wcall.verb = "write" => room' >= Need  BY <2>1, <2>2
  <2>6. wgot' \in 0..Depth  BY <1>1, <2>1
  <2> QED BY <2>1, <2>3, <2>4, <2>5, <2>6, PieceBegins
<1>5. CASE WriterSleeps
  <2>1. /\ wpc \in Armed /\ wpc \in Thinks /\ wpc' = "asleep"
        /\ UNCHANGED <<irq, wcall, sent, piece, wout, room, wgot, wcopy, begun, viewIn, taking>>
    BY <1>5 DEF WriterSleeps, Thinks, Armed
  <2>2. wpc' \in Thinks /\ wcopy = Threshold  BY <2>1 DEF Thinks, WAll, WPlan
  <2>3. wgot' \in 0..Depth  BY <1>1, <2>1
  <2> QED BY <2>1, <2>2, <2>3, Rethinks
<1>6. CASE WriterPolls
  <2>1. /\ wpc \in Thinks /\ wpc' = "poll" /\ wpc' \in Thinks /\ wpc' \notin Armed
        /\ UNCHANGED <<irq, wcall, sent, piece, wout, room, wgot, wcopy, begun, viewIn, taking>>
    BY <1>6 DEF WriterPolls, Thinks, Armed
  <2>2. wgot' \in 0..Depth  BY <1>1, <2>1
  <2> QED BY <2>1, <2>2, Rethinks
<1>7. CASE WriterPolled
  <2>1. /\ wpc = "polled" /\ wpc \in Thinks /\ wgot' = 0
        /\ UNCHANGED <<irq, wcall, sent, room, wcopy, begun, viewIn, taking>>
        /\ PollRoom > 0 => StartPiece(PollRoom)
        /\ ~(PollRoom > 0) => wpc' = "next" /\ UNCHANGED <<piece, wout>>
    BY <1>7 DEF WriterPolled, Thinks
  <2>2. wgot' \in 0..Depth /\ room' \in 0..Depth  BY <1>1, <2>1
  <2>3. ~irq  BY <2>1 DEF WAll, WInv, WriterOf
  <2>4. CASE PollRoom > 0
    <3>1. /\ sent \in Nat /\ wcall.n \in Nat /\ sent < wcall.n /\ (sent = 0 => left = 0)
          /\ (sent > 0 => left = wcall.n - sent)
      BY <2>1, NeedIs, CallIs DEF Between
    <3>2. /\ PollRoom \in 1..Depth /\ sent + PollRoom <= wcall.n
          /\ wcall.n <= Depth => PollRoom = wcall.n
      <4>1. CASE wcall.n <= Depth
        <5>1. PollRoom = wcall.n  BY <1>1, <2>4, <4>1 DEF PollRoom
        <5>2. sent = 0  BY <2>1, <4>1, NeedIs
        <5> QED BY <1>1, <3>1, <4>1, <5>1, <5>2
      <4>2. CASE ~(wcall.n <= Depth)
        <5> DEFINE k == wcall.n - sent
        <5>1. PollRoom = Least(wgot, k) /\ k \in Nat  BY <3>1, <4>2 DEF PollRoom
        <5>2. sent + k = wcall.n  BY <3>1
        <5> HIDE DEF k
        <5>3. PollRoom \in 1..Depth /\ PollRoom <= k  BY <1>1, <2>4, <5>1 DEF Least
        <5> QED BY <1>1, <3>1, <4>2, <5>1, <5>2, <5>3
      <4> QED BY <4>1, <4>2
    <3> QED BY <2>1, <2>2, <2>3, <2>4, <3>2, PieceBegins
  <2>5. CASE ~(PollRoom > 0)
    <3>1. wpc' \in Thinks /\ wpc' \notin Armed  BY <2>1, <2>5 DEF Thinks, Armed
    <3> QED BY <2>1, <2>2, <2>5, <3>1, Rethinks
  <2> QED BY <2>4, <2>5
<1> QED BY <1>2, <1>3, <1>4, <1>5, <1>6, <1>7

\* The threshold register and the vacancy; the kernel's side of queue in.
LEMMA WTypesServe ==
  ASSUME WAll, ServeArmIn \/ ServeVacancy
  PROVE  WTypes' /\ WPlan'
<1> USE DEF fixed, kernel
<1>1. CASE ServeArmIn
  <2>1. /\ wpc = "arm" /\ wpc \in Thinks /\ inThr' = Threshold /\ wcopy' = Threshold
        /\ DriveIn("wait")
        /\ UNCHANGED <<irq, wcall, sent, piece, wout, room, wgot, begun, left, inq, taking>>
    BY <1>1 DEF ServeArmIn, Thinks
  <2>2. Threshold \in 1..Depth /\ Between /\ Depth \in Nat  BY <2>1, NeedIs, Lengths
  <2>3. Threshold \in 0..Depth /\ Threshold \in -1..Depth  BY <2>2
  <2>4. wpc' = "wait" /\ inLine' \in BOOLEAN  BY <2>1 DEF DriveIn, Rise
  <2>5. WTypes'  BY <2>1, <2>3, <2>4 DEF WAll, WTypes, WriterAt
  <2>6. Between'  BY <2>1, <2>2 DEF Between
  <2>7. wcopy' = Threshold'  BY <2>1 DEF Threshold, Need
  <2>8. Whole'  BY <2>1, <2>4 DEF WAll, WPlan, Whole
  <2>9. wcall'.verb = "push" => wcall'.n <= Depth  BY <2>1 DEF WAll, WPlan
  <2> QED BY <2>4, <2>5, <2>6, <2>7, <2>8, <2>9 DEF WPlan
<1>2. CASE ServeVacancy
  <2>1. /\ wpc = "poll" /\ wpc' = "polled" /\ wgot' = Vacancy
        /\ UNCHANGED <<irq, wcall, sent, piece, wout, room, wcopy, begun, viewIn, taking>>
    BY <1>2 DEF ServeVacancy
  <2>2. wgot' \in 0..Depth
    <3>1. inq \in Seq(Packets)  BY DEF WAll, WTypes
    <3> QED BY <2>1, <3>1, VacancyIs DEF Vacancy
  <2>3. wpc \in Thinks /\ wpc' \in Thinks /\ wpc' \notin Armed  BY <2>1 DEF Thinks, Armed
  <2> QED BY <2>1, <2>2, <2>3, Rethinks
<1> QED BY <1>1, <1>2

LEMMA WTypesKernel ==
  ASSUME WAll, KernelTakes \/ KernelRetires
  PROVE  WTypes' /\ WPlan'
<1> USE DEF fixed
<1>1. CASE KernelTakes
  <2>1. /\ inq # <<>> /\ taking' = Head(inq) /\ inq' = Tail(inq) /\ DriveIn(wpc)
        /\ UNCHANGED <<irq, wcall, sent, piece, wout, room, wcopy, wgot, begun, left, inThr>>
    BY <1>1 DEF KernelTakes
  <2>2. Head(inq) \in Packets /\ Tail(inq) \in Seq(Packets)
    <3>1. inq \in Seq(Packets)  BY DEF WAll, WTypes
    <3> QED BY <2>1, <3>1, HeadTailProperties
  <2>3. inLine' \in BOOLEAN /\ (wpc' = wpc \/ (wpc = "asleep" /\ wpc' = "woken"))
    BY <2>1 DEF DriveIn, Rise
  <2>4. wpc' \in WriterAt  BY <2>3 DEF WAll, WTypes, WriterAt
  <2>5. WTypes'  BY <2>1, <2>2, <2>3, <2>4 DEF WAll, WTypes
  <2>6. Threshold' = Threshold  BY <2>1 DEF Threshold, Need
  <2>7. Between => Between'  BY <2>1 DEF Between
  <2>8. Writing => Writing'  BY <2>1 DEF Writing
  <2>9. Stalled => Stalled'  BY <2>1 DEF Stalled
  <2>10. Whole'  BY <2>1, <2>3 DEF WAll, WPlan, Whole
  <2>11. /\ wpc' \in Thinks => wpc \in Thinks
         /\ wpc' \in Armed => wpc \in Armed
         /\ wpc' \in {"idle", "push", "stalled"} => wpc' = wpc
    BY <2>3 DEF Thinks, Armed
  <2> QED BY <2>1, <2>5, <2>6, <2>7, <2>8, <2>9, <2>10, <2>11 DEF WAll, WPlan
<1>2. CASE KernelRetires
  <2>1. taking' = 0 /\ UNCHANGED <<irq, writer, viewIn>>  BY <1>2 DEF KernelRetires
  <2>2. WTypes'  BY <2>1 DEF WAll, WTypes, writer, viewIn
  <2>3. WPlan'
    BY <2>1 DEF WAll, WPlan, Between, Writing, Stalled, Threshold, Need, Thinks, Armed,
       Whole, writer, viewIn
  <2> QED BY <2>2, <2>3
<1> QED BY <1>1, <1>2

-----------------------------------------------------------------------------
\* What the packet owes after the next burst: its words after the piece, and those of
\* the piece after the burst.
LEMMA OwedIs ==
  ASSUME WAll, wpc = "push"
  PROVE  /\ Burst \in Nat /\ Burst >= 1 /\ Burst <= wout /\ Burst <= MaxBurst
         /\ Owed \in Nat /\ Owed = (wcall.n - (sent + piece)) + (wout - Burst)
         /\ wout - Burst <= piece
<1>1. /\ wcall.n \in Nat /\ sent \in Nat /\ piece \in Nat /\ wout \in Nat /\ left \in Nat
      /\ Writing /\ MaxBurst \in Nat /\ MaxBurst >= 1
  <2>1. piece \in 0..Depth /\ wout \in 0..(Depth + 1) /\ Depth \in Nat
    BY Lengths DEF WAll, WTypes
  <2>2. piece \in Nat /\ wout \in Nat  BY <2>1
  <2> QED BY <2>2, CallIs, Lengths DEF WAll, WTypes, WPlan
<1>2. wout >= 1 /\ sent + piece <= wcall.n /\ piece >= 1  BY <1>1 DEF Writing
<1>3. Burst \in Nat /\ Burst >= 1 /\ Burst <= wout /\ Burst <= MaxBurst
  BY <1>1, <1>2 DEF Burst, Least
<1>4. CASE left = 0 /\ sent = 0 /\ wout = piece + 1
  <2>1. Owed = wcall.n - (Burst - 1)  BY <1>4 DEF Owed, Data
  <2> DEFINE b == Burst
  <2>2. b \in Nat /\ b >= 1 /\ b <= wout /\ Owed = wcall.n - (b - 1)  BY <1>3, <2>1
  <2> HIDE DEF b
  <2>3. Owed \in Nat /\ Owed = (wcall.n - (sent + piece)) + (wout - b) /\ wout - b <= piece
    BY <1>1, <1>2, <1>4, <2>2
  <2> QED BY <1>3, <2>3 DEF b
<1>5. CASE wout <= piece /\ left = (wcall.n - sent) - (piece - wout)
  <2>1. left # 0  BY <1>1, <1>2, <1>5
  <2>2. Owed = left - Burst  BY <2>1 DEF Owed, Data
  <2> DEFINE b == Burst
  <2>3. b \in Nat /\ b >= 1 /\ b <= wout /\ Owed = left - b  BY <1>3, <2>2
  <2> HIDE DEF b
  <2>4. Owed \in Nat /\ Owed = (wcall.n - (sent + piece)) + (wout - b) /\ wout - b <= piece
    BY <1>1, <1>2, <1>5, <2>3
  <2> QED BY <1>3, <2>4 DEF b
<1> QED BY <1>1, <1>4, <1>5 DEF Writing

\* The bound after a piece.
LEMMA RoomAfter ==
  ASSUME WAll, wpc \in {"push", "stalled"}, BurstDone
  PROVE  /\ wout' = wout - Burst
         /\ wout > Burst => UNCHANGED <<sent, piece, room, wcall>>
         /\ ~(wout > Burst) =>
              /\ piece' = 0
              /\ sent + piece = wcall.n => sent' = 0 /\ wcall' = NoCall
              /\ sent + piece # wcall.n => sent' = sent + piece /\ wcall' = wcall
         /\ room' \in 0..Depth
         /\ ~(wout > Burst) /\ irq => room' = Most(0, room - piece)
         /\ ~(wout > Burst) /\ ~irq => room' = room \/ room' = Most(0, room - piece)
<1>1. /\ wout' = wout - Burst
      /\ wout > Burst => UNCHANGED <<sent, piece, room, wcall>>
      /\ ~(wout > Burst) =>
           /\ room' = IF wcall.verb = "push" THEN Most(0, room - piece)
                      ELSE IF irq THEN room - piece ELSE room
           /\ piece' = 0
           /\ sent + piece = wcall.n => sent' = 0 /\ wcall' = NoCall
           /\ sent + piece # wcall.n => sent' = sent + piece /\ wcall' = wcall
  BY DEF BurstDone, Charged
<1>2. /\ room \in 0..Depth /\ piece \in 0..Depth /\ Depth \in Nat
      /\ wcall.verb \in {"write", "push"}
  BY CallIs, Lengths DEF WAll, WTypes
<1>3. irq /\ wcall.verb = "write" => room >= piece  BY DEF WAll, WPlan
<1>4. Most(0, room - piece) \in 0..Depth /\ (room >= piece => Most(0, room - piece) = room - piece)
  BY <1>2 DEF Most
<1> QED BY <1>1, <1>2, <1>3, <1>4

\* A burst is done and its packet owes more: the writer goes on.
LEMMA GoesOn ==
  ASSUME WAll, wpc = "push", Owed > 0, BurstDone, left' = Owed, wpc' = AfterBurst,
         UNCHANGED <<irq, wcopy, wgot, begun, inq, inThr, inLine, taking>>
  PROVE  WTypes' /\ WPlan'
<1> DEFINE b == Burst
<1>1. /\ b \in Nat /\ b >= 1 /\ b <= wout /\ Owed \in Nat
      /\ Owed = (wcall.n - (sent + piece)) + (wout - b) /\ wout - b <= piece
  BY OwedIs
<1>2. /\ wout' = wout - b
      /\ wout > b => UNCHANGED <<sent, piece, room, wcall>>
      /\ ~(wout > b) =>
           /\ piece' = 0
           /\ sent + piece = wcall.n => sent' = 0 /\ wcall' = NoCall
           /\ sent + piece # wcall.n => sent' = sent + piece /\ wcall' = wcall
      /\ room' \in 0..Depth
  BY RoomAfter
<1>3. wpc' = IF wout > b THEN "push" ELSE IF sent + piece = wcall.n THEN "idle" ELSE "next"
  BY DEF AfterBurst
<1> HIDE DEF b
<1>4. /\ wcall.n \in Nat /\ sent \in Nat /\ piece \in 0..Depth /\ wout \in 0..(Depth + 1)
      /\ Depth \in Nat /\ piece \in Nat /\ wout \in Nat /\ Writing /\ piece >= 1
      /\ sent + piece <= wcall.n
  <2>1. piece \in 0..Depth /\ wout \in 0..(Depth + 1) /\ Depth \in Nat
    BY Lengths DEF WAll, WTypes
  <2>2. piece \in Nat /\ wout \in Nat  BY <2>1
  <2>3. Writing  BY DEF WAll, WPlan
  <2> QED BY <2>1, <2>2, <2>3, CallIs DEF WAll, WTypes, Writing
<1>5. CASE wout > b
  <2>1. wpc' = "push" /\ UNCHANGED <<sent, piece, room, wcall>>  BY <1>2, <1>3, <1>5
  <2>2. wout' \in 0..(Depth + 1) /\ wout' >= 1 /\ wout' <= piece  BY <1>1, <1>2, <1>4, <1>5
  <2>3. WTypes'  BY <1>1, <1>2, <2>1, <2>2 DEF WAll, WTypes, WriterAt
  <2>4. left' = (wcall.n - sent) - (piece - wout')  BY <1>1, <1>2, <1>4
  <2>5. Writing'  BY <1>4, <2>1, <2>2, <2>4 DEF Writing
  <2>6. wpc' \notin Thinks /\ wpc' \notin Armed  BY <2>1 DEF Thinks, Armed
  <2> QED BY <2>1, <2>3, <2>5, <2>6 DEF WAll, WPlan, Whole
<1>6. CASE ~(wout > b)
  <2>1. wout = b /\ Owed = wcall.n - (sent + piece)  BY <1>1, <1>4, <1>6
  <2>2. sent + piece # wcall.n /\ sent + piece < wcall.n  BY <1>4, <2>1
  <2>3. wpc' = "next" /\ piece' = 0 /\ sent' = sent + piece /\ wcall' = wcall
    BY <1>2, <1>3, <1>6, <2>2
  <2>4. /\ wout' = 0 /\ wout' \in 0..(Depth + 1) /\ sent' \in Nat /\ piece' \in 0..Depth
        /\ left' \in Nat /\ left' = wcall.n - sent' /\ sent' > 0 /\ sent' < wcall.n
    BY <1>1, <1>2, <1>4, <2>1, <2>2, <2>3
  <2>5. WTypes'  BY <1>2, <2>3, <2>4 DEF WAll, WTypes, WriterAt
  <2>6. Between'  BY <2>3, <2>4 DEF Between
  <2>7. ~(wcall.n <= Depth)
    <3>1. wcall.n <= Depth => sent = 0 /\ piece = wcall.n  BY DEF WAll, WPlan, Whole
    <3> QED BY <1>4, <2>2, <3>1
  <2>8. Whole'  BY <2>3, <2>7 DEF Whole
  <2>9. wcall'.verb = "push" => wcall'.n <= Depth  BY <2>3 DEF WAll, WPlan
  <2> QED BY <2>3, <2>5, <2>6, <2>8, <2>9 DEF WPlan, Armed
<1> QED BY <1>5, <1>6

\* The last burst of a packet is the last of its piece, and the piece the last of the call.
LEMMA LastBurst ==
  ASSUME WAll, (wpc = "push" /\ Owed = 0) \/ wpc = "stalled"
  PROVE  /\ wout = Burst /\ wout <= MaxBurst /\ wout >= 1 /\ piece >= 1
         /\ sent + piece = wcall.n
<1>1. /\ wcall.n \in Nat /\ sent \in Nat /\ piece \in Nat /\ wout \in Nat
  <2>1. piece \in 0..Depth /\ wout \in 0..(Depth + 1) /\ Depth \in Nat
    BY Lengths DEF WAll, WTypes
  <2>2. piece \in Nat /\ wout \in Nat  BY <2>1
  <2> QED BY <2>2, CallIs DEF WAll, WTypes
<1>2. CASE wpc = "push" /\ Owed = 0
  <2> DEFINE b == Burst
  <2>1. /\ b \in Nat /\ b <= wout /\ b <= MaxBurst /\ b >= 1
        /\ 0 = (wcall.n - (sent + piece)) + (wout - b)
    BY <1>2, OwedIs
  <2>2. sent + piece <= wcall.n /\ piece >= 1  BY <1>2 DEF WAll, WPlan, Writing
  <2> HIDE DEF b
  <2>3. wout = b /\ sent + piece = wcall.n  BY <1>1, <2>1, <2>2
  <2> QED BY <2>1, <2>2, <2>3 DEF b
<1>3. CASE wpc = "stalled"
  <2>1. wout >= 1 /\ wout <= MaxBurst /\ sent + piece = wcall.n /\ piece >= 1
    BY <1>3 DEF WAll, WPlan, Stalled
  <2>2. MaxBurst \in Nat  BY Lengths
  <2>3. Burst = wout  BY <1>1, <2>1, <2>2 DEF Burst, Least
  <2> QED BY <2>1, <2>3
<1> QED BY <1>2, <1>3

\* The packet is whole: it goes in, and its call is over.
LEMMA PacketIn ==
  ASSUME WAll, (wpc = "push" /\ Owed = 0) \/ wpc = "stalled", BurstDone, DriveIn(AfterBurst),
         inq' = Append(inq, wcall.n), left' = 0,
         UNCHANGED <<irq, wcopy, wgot, begun, inThr, taking>>
  PROVE  /\ WTypes' /\ WPlan' /\ wpc' = "idle" /\ sent' = 0
<1>1. wout = Burst /\ sent + piece = wcall.n  BY LastBurst
<1>2. wout \in Nat /\ Depth \in Nat
  <2>1. wout \in 0..(Depth + 1) /\ Depth \in Nat  BY Lengths DEF WAll, WTypes
  <2> QED BY <2>1
<1> DEFINE b == Burst
<1>3. ~(wout > b) /\ wout - b = 0
  <2>1. wout = b  BY <1>1
  <2> HIDE DEF b
  <2> QED BY <1>2, <2>1
<1>4. wout' = 0 /\ piece' = 0 /\ sent' = 0 /\ wcall' = NoCall /\ room' \in 0..Depth
  BY <1>1, <1>3, RoomAfter
<1>5. AfterBurst = "idle"  BY <1>1, <1>3 DEF AfterBurst
<1>6. wpc' = "idle" /\ inLine' \in BOOLEAN  BY <1>5 DEF DriveIn, Rise
<1>7. inq' \in Seq(Packets)
  <2>1. inq \in Seq(Packets) /\ wcall.n \in Packets  BY CallIs DEF WAll, WTypes
  <2> QED BY <2>1, AppendProperties
<1>8. 0 \in 0..Depth /\ 0 \in 0..(Depth + 1) /\ 0 \in Nat  BY <1>2
<1>9. WTypes'  BY <1>4, <1>6, <1>7, <1>8 DEF WAll, WTypes, WriterAt, Calls
<1>10. WPlan'
  <2>1. wpc' \notin Thinks /\ wpc' \notin Armed  BY <1>6 DEF Thinks, Armed
  <2>2. wcall'.verb = "none"  BY <1>4 DEF NoCall
  <2> QED BY <1>4, <1>6, <2>1, <2>2 DEF WPlan, Whole
<1> QED BY <1>4, <1>6, <1>9, <1>10

\* A burst of the packet, and the end of a stall.
LEMMA WTypesPush ==
  ASSUME WAll, ServePush \/ StallEnds
  PROVE  WTypes' /\ WPlan'
<1> USE DEF fixed, kernel
<1>1. CASE ServePush /\ Owed > 0 /\ BurstDone
  <2>1. /\ wpc = "push" /\ left' = Owed
        /\ UNCHANGED <<irq, wcopy, wgot, begun, inThr, taking>>
    BY <1>1 DEF ServePush
  <2>2. wpc' = AfterBurst /\ UNCHANGED <<inq, inLine>>
    <3>1. ~(Owed = 0)  BY <1>1, <2>1, OwedIs
    <3> QED BY <1>1, <3>1 DEF ServePush
  <2> QED BY <1>1, <2>1, <2>2, GoesOn
<1>2. CASE ServePush /\ Owed = 0 /\ BurstDone /\ DriveIn(AfterBurst) /\ inq' = Append(inq, wcall.n)
  <2>1. /\ wpc = "push" /\ left' = 0
        /\ UNCHANGED <<irq, wcopy, wgot, begun, inThr, taking>>
    BY <1>2 DEF ServePush
  <2> QED BY <1>2, <2>1, PacketIn
<1>3. CASE /\ ServePush /\ Owed = 0 /\ wpc' = "stalled"
           /\ UNCHANGED <<wcall, sent, piece, wout, room, inq, inLine>>
  <2>1. /\ wpc = "push" /\ left' = 0
        /\ UNCHANGED <<irq, wcopy, wgot, begun, inThr, taking>>
    BY <1>3 DEF ServePush
  <2>2. wout <= MaxBurst /\ wout >= 1 /\ piece >= 1 /\ sent + piece = wcall.n
    BY <1>3, <2>1, LastBurst
  <2>3. WTypes'  BY <1>3, <2>1 DEF WAll, WTypes, WriterAt
  <2>4. Stalled'  BY <1>3, <2>1, <2>2 DEF Stalled
  <2>5. Whole'  BY <1>3, <2>1 DEF WAll, WPlan, Whole
  <2>6. irq' /\ wcall'.verb = "write" => room' >= piece'  BY <1>3, <2>1 DEF WAll, WPlan
  <2>7. wcall'.verb = "push" => wcall'.n <= Depth  BY <1>3 DEF WAll, WPlan
  <2> QED BY <1>3, <2>3, <2>4, <2>5, <2>6, <2>7 DEF WPlan, Thinks, Armed
<1>4. CASE StallEnds
  <2>1. /\ wpc = "stalled" /\ BurstDone /\ DriveIn(AfterBurst) /\ inq' = Append(inq, wcall.n)
        /\ UNCHANGED <<irq, left, wcopy, wgot, begun, inThr, taking>>
    BY <1>4 DEF StallEnds
  <2>2. left' = 0  BY <2>1 DEF WAll, WPlan, Stalled
  <2> QED BY <2>1, <2>2, PacketIn
<1> QED BY <1>1, <1>2, <1>3, <1>4 DEF ServePush

-----------------------------------------------------------------------------
\* The reader: it is served what it was promised.  What it armed its line for is what it
\* still wants, and the words it goes to pop were there when it looked; only it takes
\* words away.

ReaderAt == {"idle", "next", "arm", "wait", "asleep", "woken", "poll", "polled", "pop"}
Looks == {"next", "arm", "wait", "asleep", "woken", "poll", "polled"}

RTypes ==
  /\ kburst \in 1..KernelBurst
  /\ rpc \in ReaderAt /\ rcall \in Calls({"pull", "try"}, Reads)
  /\ have \in Nat /\ rout \in 0..(Depth + kburst - 1) /\ rcopy \in -1..Depth /\ rgot \in Nat
  /\ asked \in 0..MaxWords
  /\ taking \in Nat /\ owes \in Nat
  /\ outq \in Seq(1..kburst) /\ held \in 0..(kburst - 1)
  /\ outThr \in 0..Depth /\ outLine \in BOOLEAN
  /\ empty = 0 /\ SumOf(outq) <= Depth

RPlan ==
  /\ rpc # "idle" => rcall.n \in Nat /\ rcall.n >= 1 /\ rcall.n <= asked
  /\ rpc \in Looks => have < rcall.n
  /\ rpc \in Armed => rcopy = Wanted
  /\ rpc = "polled" => rgot <= Occupancy
  /\ rpc = "pop" => have <= rcall.n /\ rout <= Occupancy

RAll == RInv /\ RTypes /\ RPlan

\* The words in the FIFO of queue out, and with them those taken off it and not read.
LEMMA OutIs ==
  ASSUME RAll
  PROVE  /\ kburst \in Nat /\ kburst >= 1 /\ held \in Nat /\ held <= kburst - 1
         /\ outq \in Seq(Nat) /\ SumOf(outq) \in Nat /\ SumOf(outq) <= Depth
         /\ Occupancy \in Nat /\ Occupancy <= Depth + (kburst - 1)
         /\ rout \in Nat /\ rout <= Depth + (kburst - 1)
<1>1. kburst \in 1..KernelBurst /\ KernelBurst \in Nat /\ Depth \in Nat
  BY Lengths DEF RAll, RTypes
<1>2. kburst \in Nat /\ kburst >= 1  BY <1>1
<1>3. held \in 0..(kburst - 1) /\ rout \in 0..(Depth + (kburst - 1))  BY DEF RAll, RTypes
<1>4. held \in Nat /\ held <= kburst - 1  BY <1>2, <1>3
<1>5. rout \in Nat /\ rout <= Depth + (kburst - 1)  BY <1>1, <1>2, <1>3
<1>6. outq \in Seq(Nat)
  <2>1. outq \in Seq(1..kburst)  BY DEF RAll, RTypes
  <2>2. \A i \in 1..Len(outq) : outq[i] \in 1..kburst  BY <2>1, ElementOfSeq
  <2>3. \A i \in 1..Len(outq) : outq[i] \in Nat  BY <1>2, <2>2
  <2> QED BY <2>1, <2>3, IsASeq
<1>7. SumOf(outq) \in Nat /\ SumOf(outq) <= Depth  BY <1>6, SumIsNat DEF RAll, RTypes
<1>8. Occupancy \in Nat /\ Occupancy <= Depth + (kburst - 1)
  <2> DEFINE s == SumOf(outq)
  <2>1. s \in Nat /\ s <= Depth /\ Occupancy = held + s  BY <1>7 DEF Occupancy
  <2> HIDE DEF s
  <2> QED BY <1>1, <1>2, <1>4, <2>1
<1> QED BY <1>2, <1>4, <1>5, <1>6, <1>7, <1>8

\* A reader that is looking for words wants some.
LEMMA WantedIs ==
  ASSUME RAll, rpc \in Looks
  PROVE  /\ rcall \in [verb : {"pull", "try"}, n : Reads] /\ rcall.n \in Nat /\ have \in Nat
         /\ have < rcall.n /\ Wanted \in 1..Depth /\ have + Wanted <= rcall.n
         /\ rpc # "idle" /\ rcall.n <= asked
<1>1. rpc # "idle" /\ rcall.n \in Nat /\ rcall.n >= 1 /\ rcall.n <= asked /\ have < rcall.n
  BY DEF RAll, RPlan, Looks
<1>2. have \in Nat /\ Depth \in Nat /\ Depth >= 2  BY Lengths DEF RAll, RTypes
<1>3. rcall \in [verb : {"pull", "try"}, n : Reads]
  <2>1. NoCall.n = 0  BY DEF NoCall
  <2> QED BY <1>1, <2>1 DEF RAll, RTypes, Calls
<1> DEFINE k == rcall.n - have
<1>4. k \in Nat /\ k >= 1 /\ have + k = rcall.n /\ Wanted = Least(k, Depth)
  BY <1>1, <1>2 DEF Wanted
<1> HIDE DEF k
<1>5. Wanted \in 1..Depth /\ Wanted <= k  BY <1>2, <1>4 DEF Least
<1>6. have + Wanted <= rcall.n  BY <1>2, <1>4, <1>5
<1> QED BY <1>1, <1>2, <1>3, <1>5, <1>6

-----------------------------------------------------------------------------
\* Steps that leave the reader, its view and the kernel alone.
LEMMA RAllKept ==
  ASSUME RAll, UNCHANGED <<kburst, reader, viewOut, kernel>>
  PROVE  RTypes' /\ RPlan'
<1> USE DEF reader, viewOut, kernel
<1>1. RTypes'  BY DEF RAll, RTypes
<1>2. RPlan'  BY DEF RAll, RPlan, Wanted, Occupancy, Looks, Armed
<1> QED BY <1>1, <1>2

\* The kernel's packet is retired, or the next one taken.
LEMMA RTypesTakes ==
  ASSUME RAll, WAll, KernelTakes \/ KernelRetires
  PROVE  RTypes' /\ RPlan'
<1> USE DEF reader, viewOut, fixed
<1>1. UNCHANGED <<kburst, reader, viewOut>>  BY DEF KernelTakes, KernelRetires
<1>2. taking' \in Nat /\ owes' \in Nat
  <2>1. CASE KernelTakes
    <3>1. inq # <<>> /\ taking' = Head(inq) /\ owes' = owes  BY <2>1 DEF KernelTakes
    <3>2. inq \in Seq(Packets) /\ Packets \subseteq Nat  BY Lengths DEF WAll, WTypes
    <3>3. Head(inq) \in Packets  BY <3>1, <3>2, HeadTailProperties
    <3> QED BY <3>1, <3>2, <3>3 DEF RAll, RTypes
  <2>2. CASE KernelRetires
    <3>1. owes' = taking /\ taking' = 0  BY <2>2 DEF KernelRetires
    <3> QED BY <3>1 DEF RAll, RTypes
  <2> QED BY <2>1, <2>2
<1>3. RTypes'  BY <1>1, <1>2 DEF RAll, RTypes
<1>4. RPlan'  BY <1>1 DEF RAll, RPlan, Wanted, Occupancy, Looks, Armed
<1> QED BY <1>3, <1>4

\* A burst more in queue out: what the reader was promised is still there.
LEMMA RTypesWrites ==
  ASSUME RAll, KernelWrites
  PROVE  RTypes' /\ RPlan'
<1> DEFINE b == Least(kburst, owes)
<1>1. /\ owes > 0 /\ SumOf(outq) + b <= Depth /\ outq' = Append(outq, b) /\ owes' = owes - b
      /\ DriveOut(rpc)
      /\ UNCHANGED <<kburst, held, outThr, empty, rcall, have, rout, rcopy, rgot, asked, taking>>
  BY DEF KernelWrites, fixed
<1>2. /\ kburst \in Nat /\ kburst >= 1 /\ owes \in Nat /\ Depth \in Nat /\ held \in Nat
      /\ outq \in Seq(Nat) /\ SumOf(outq) \in Nat /\ outq \in Seq(1..kburst) /\ rout \in Nat
  BY OutIs, Lengths DEF RAll, RTypes
<1>3. b \in Nat /\ b \in 1..kburst /\ owes - b \in Nat  BY <1>1, <1>2 DEF Least
<1> HIDE DEF b
<1>4. outq' \in Seq(1..kburst)  BY <1>1, <1>2, <1>3, AppendProperties
<1>5. SumOf(outq') = SumOf(outq) + b
  <2>1. SumOf(Append(outq, b)) = SumOf(outq) + b  BY <1>2, <1>3, SumOfMore
  <2> QED BY <1>1, <2>1
<1>6. outLine' \in BOOLEAN /\ (rpc' = rpc \/ (rpc = "asleep" /\ rpc' = "woken"))
  BY <1>1 DEF DriveOut, Rise
<1>7. RTypes'
  <2>1. rpc' \in ReaderAt  BY <1>6 DEF RAll, RTypes, ReaderAt
  <2>2. owes' \in Nat /\ SumOf(outq') <= Depth  BY <1>1, <1>3, <1>5
  <2> QED BY <1>1, <1>4, <1>6, <2>1, <2>2 DEF RAll, RTypes
<1>8. Occupancy <= Occupancy' /\ Occupancy \in Nat /\ Occupancy' \in Nat
  <2> DEFINE s == SumOf(outq)  t == SumOf(outq')
  <2>1. s \in Nat /\ t = s + b /\ Occupancy = held + s /\ Occupancy' = held + t
    BY <1>1, <1>2, <1>5 DEF Occupancy
  <2> HIDE DEF s, t
  <2> QED BY <1>2, <1>3, <2>1
<1>9. RPlan'
  <2>1. Wanted' = Wanted  BY <1>1 DEF Wanted
  <2>2. /\ rpc' \in Looks => rpc \in Looks
        /\ rpc' \in Armed => rpc \in Armed
        /\ rpc' \in {"idle", "polled", "pop"} => rpc' = rpc
        /\ rpc' # "idle" => rpc # "idle"
    BY <1>6 DEF Looks, Armed
  <2>3. rpc' = "polled" => rgot' <= Occupancy'
    <3>1. rpc' = "polled" => rgot <= Occupancy /\ rgot \in Nat
      BY <2>2 DEF RAll, RPlan, RTypes
    <3> QED BY <1>1, <1>8, <3>1
  <2>4. rpc' = "pop" => have' <= rcall'.n /\ rout' <= Occupancy'
    <3>1. rpc' = "pop" => have <= rcall.n /\ rout <= Occupancy
      BY <2>2 DEF RAll, RPlan
    <3> QED BY <1>1, <1>2, <1>8, <3>1
  <2> QED BY <1>1, <2>1, <2>2, <2>3, <2>4 DEF RAll, RPlan
<1> QED BY <1>7, <1>9

\* A call, of words the writer has begun to send.
LEMMA RTypesCall ==
  ASSUME RAll, WAll, NEW verb \in {"pull", "try"}, NEW n \in Reads, CallRead(verb, n)
  PROVE  RTypes' /\ RPlan'
<1> USE DEF fixed, viewOut, kernel
<1>1. /\ rpc = "idle" /\ asked + n <= begun /\ asked' = asked + n
      /\ rcall' = [verb |-> verb, n |-> n] /\ have' = 0 /\ rpc' = "next"
      /\ UNCHANGED <<kburst, rout, rcopy, rgot, viewOut, kernel>>
  BY DEF CallRead
<1>2. n \in Nat /\ n >= 1 /\ asked \in 0..MaxWords /\ begun \in 0..MaxWords /\ MaxWords \in Nat
  BY Lengths DEF RAll, RTypes, WAll, WTypes
<1>3. asked' \in 0..MaxWords /\ n <= asked'  BY <1>1, <1>2
<1>4. rcall' \in Calls({"pull", "try"}, Reads) /\ rcall'.n = n  BY <1>1 DEF Calls
<1>5. RTypes'  BY <1>1, <1>3, <1>4 DEF RAll, RTypes, ReaderAt
<1>6. 0 < n  BY <1>2
<1>7. RPlan'  BY <1>1, <1>2, <1>3, <1>4, <1>6 DEF RPlan, Looks, Armed
<1> QED BY <1>5, <1>7

-----------------------------------------------------------------------------
\* The reader's pc alone changes, within a round.
LEMMA Looking ==
  ASSUME RAll, rpc \in Looks, rpc' \in Looks,
         rpc' \in Armed => rcopy = Wanted, rpc' # "polled",
         rcall'.n = rcall.n, rcall' \in Calls({"pull", "try"}, Reads), rgot' \in Nat,
         UNCHANGED <<kburst, have, rout, rcopy, asked, viewOut, kernel>>
  PROVE  RTypes' /\ RPlan'
<1> USE DEF viewOut, kernel
<1>1. rpc' \in ReaderAt  BY DEF Looks, ReaderAt
<1>2. RTypes'  BY <1>1 DEF RAll, RTypes
<1>3. Wanted' = Wanted  BY DEF Wanted
<1>4. rpc' # "idle" /\ rpc' # "pop"  BY DEF Looks
<1>5. have < rcall.n /\ rcall.n \in Nat /\ rcall.n >= 1 /\ rcall.n <= asked
  BY WantedIs DEF RAll, RPlan
<1> QED BY <1>2, <1>3, <1>4, <1>5 DEF RPlan

\* A pop of k words begins, of those that are there.
LEMMA PopBegins ==
  ASSUME RAll, rpc \in Looks, NEW k \in Nat, k <= Occupancy, have + k <= rcall.n, StartPop(k),
         rcall'.n = rcall.n, rcall' \in Calls({"pull", "try"}, Reads), rgot' \in Nat,
         UNCHANGED <<kburst, rcopy, asked, viewOut, kernel>>
  PROVE  RTypes' /\ RPlan'
<1> USE DEF viewOut, kernel
<1>1. have' = have + k /\ rout' = k /\ rpc' = "pop"  BY DEF StartPop
<1>2. have \in Nat /\ rcall.n \in Nat /\ rcall.n <= asked /\ rcall.n >= 1
  BY WantedIs DEF RAll, RPlan
<1>3. have' \in Nat  BY <1>1, <1>2
<1>4. rout' \in 0..(Depth + (kburst - 1))
  <2>1. /\ Occupancy \in Nat /\ Occupancy <= Depth + (kburst - 1)
        /\ kburst \in Nat /\ kburst >= 1 /\ Depth \in Nat
    BY OutIs, Lengths
  <2> DEFINE o == Occupancy
  <2>2. o \in Nat /\ o <= Depth + (kburst - 1) /\ k <= o  BY <2>1
  <2> HIDE DEF o
  <2>3. k \in 0..(Depth + (kburst - 1))  BY <2>1, <2>2
  <2> QED BY <1>1, <2>3
<1>5. RTypes'  BY <1>1, <1>3, <1>4 DEF RAll, RTypes, ReaderAt
<1>6. Occupancy' = Occupancy  BY DEF Occupancy
<1>7. rpc' \notin Looks /\ rpc' \notin Armed /\ rpc' # "polled"  BY <1>1 DEF Looks, Armed
<1>8. rpc' = "pop" => have' <= rcall'.n /\ rout' <= Occupancy'  BY <1>1, <1>6
<1>9. rcall'.n \in Nat /\ rcall'.n >= 1 /\ rcall'.n <= asked'  BY <1>2
<1> QED BY <1>5, <1>7, <1>8, <1>9 DEF RPlan

\* The steps of the reader between its transactions.
LEMMA RTypesThink ==
  ASSUME RAll,
         ReaderArms \/ ReaderSeesHigh \/ ReaderSleeps \/ TryNone \/ ReaderPolls \/ ReaderPolled
  PROVE  RTypes' /\ RPlan'
<1> USE DEF fixed
<1>1. rcall \in Calls({"pull", "try"}, Reads) /\ rgot \in Nat  BY DEF RAll, RTypes
<1>2. ASSUME rpc \in Looks
      PROVE  /\ [rcall EXCEPT !.verb = "pull"] \in Calls({"pull", "try"}, Reads)
             /\ [rcall EXCEPT !.verb = "pull"].n = rcall.n
  <2>1. rcall \in [verb : {"pull", "try"}, n : Reads]  BY <1>2, WantedIs
  <2> QED BY <2>1 DEF Calls
<1>3. CASE ReaderArms
  <2>1. /\ rpc = "next" /\ rpc' = (IF rcopy = ReadThreshold THEN "wait" ELSE "arm")
        /\ UNCHANGED <<kburst, rcall, have, rout, rcopy, rgot, asked, viewOut, kernel>>
    BY <1>3 DEF ReaderArms
  <2>2. /\ rpc \in Looks /\ rpc' \in Looks /\ rpc' # "polled"
        /\ rpc' \in Armed => rcopy = Wanted
    BY <2>1 DEF Looks, Armed, ReadThreshold
  <2>3. rcall'.n = rcall.n /\ rcall' \in Calls({"pull", "try"}, Reads) /\ rgot' \in Nat
    BY <1>1, <2>1
  <2> QED BY <2>1, <2>2, <2>3, Looking
<1>4. CASE ReaderSeesHigh
  <2>1. /\ rpc \in Armed /\ rpc \in Looks /\ outLine /\ StartPop(Wanted)
        /\ rcall' = [rcall EXCEPT !.verb = "pull"]
        /\ UNCHANGED <<kburst, rcopy, rgot, asked, viewOut, kernel>>
    BY <1>4 DEF ReaderSeesHigh, Armed, Looks
  <2>2. Wanted \in 1..Depth /\ have + Wanted <= rcall.n /\ Depth \in Nat
    BY <2>1, WantedIs, Lengths
  <2>3. Wanted <= Occupancy
    <3>1. OutHigh /\ rcopy = outThr /\ rcopy = Wanted
      BY <2>1 DEF RAll, RInv, ReaderOf, RPlan
    <3>2. Occupancy >= Wanted  BY <3>1 DEF OutHigh
    <3>3. Occupancy \in Nat /\ Wanted \in Nat  BY <2>2, OutIs
    <3> QED BY <3>2, <3>3
  <2>4. Wanted \in Nat  BY <2>2
  <2>5. rcall'.n = rcall.n /\ rcall' \in Calls({"pull", "try"}, Reads) /\ rgot' \in Nat
    BY <1>1, <1>2, <2>1
  <2> QED BY <2>1, <2>2, <2>3, <2>4, <2>5, PopBegins
<1>5. CASE ReaderSleeps
  <2>1. /\ rpc \in Armed /\ rpc \in Looks /\ rpc' = "asleep" /\ rpc' \in Looks
        /\ UNCHANGED <<kburst, rcall, have, rout, rcopy, rgot, asked, viewOut, kernel>>
    BY <1>5 DEF ReaderSleeps, Armed, Looks
  <2>2. rcopy = Wanted  BY <2>1 DEF RAll, RPlan
  <2>3. rcall'.n = rcall.n /\ rcall' \in Calls({"pull", "try"}, Reads) /\ rgot' \in Nat
        /\ rpc' # "polled"
    BY <1>1, <2>1
  <2> QED BY <2>1, <2>2, <2>3, Looking
<1>6. CASE TryNone
  <2>1. /\ rpc \in Looks /\ rpc' = "idle" /\ rcall' = NoCall /\ have' = 0
        /\ asked' = asked - rcall.n /\ rgot' = 0
        /\ UNCHANGED <<kburst, rout, rcopy, viewOut, kernel>>
    BY <1>6 DEF TryNone, Looks
  <2>2. rcall.n \in Nat /\ rcall.n <= asked /\ asked \in 0..MaxWords /\ MaxWords \in Nat
    BY <2>1, WantedIs, Lengths DEF RAll, RTypes
  <2>3. asked' \in 0..MaxWords  BY <2>1, <2>2
  <2>4. RTypes'  BY <2>1, <2>3 DEF RAll, RTypes, ReaderAt, Calls, viewOut, kernel
  <2>5. RPlan'  BY <2>1 DEF RPlan, Looks, Armed
  <2> QED BY <2>4, <2>5
<1>7. CASE ReaderPolls
  <2>1. /\ rpc = "next" /\ rpc' = "poll"
        /\ UNCHANGED <<kburst, rcall, have, rout, rcopy, rgot, asked, viewOut, kernel>>
    BY <1>7 DEF ReaderPolls
  <2>2. /\ rpc \in Looks /\ rpc' \in Looks /\ rpc' # "polled" /\ rpc' \notin Armed
    BY <2>1 DEF Looks, Armed
  <2>3. rcall'.n = rcall.n /\ rcall' \in Calls({"pull", "try"}, Reads) /\ rgot' \in Nat
    BY <1>1, <2>1
  <2> QED BY <2>1, <2>2, <2>3, Looking
<1>8. CASE ReaderPolled
  <2> DEFINE k == Least(Least(rgot, rcall.n - have), MaxBurst)
  <2>1. /\ rpc = "polled" /\ rpc \in Looks /\ rgot' = 0
        /\ UNCHANGED <<kburst, rcopy, asked, viewOut, kernel>>
    BY <1>8 DEF ReaderPolled, Looks
  <2>2. \/ rcall' = [rcall EXCEPT !.verb = "pull"] /\ rpc' = "next" /\ UNCHANGED <<have, rout>>
        \/ StartPop(k) /\ UNCHANGED rcall
        \/ rpc' = "next" /\ UNCHANGED <<rcall, have, rout>>
    BY <1>8 DEF ReaderPolled
  <2>3. rcall'.n = rcall.n /\ rcall' \in Calls({"pull", "try"}, Reads) /\ rgot' \in Nat
    BY <1>1, <1>2, <2>1, <2>2
  <2>4. CASE rpc' = "next" /\ UNCHANGED <<have, rout>>
    <3>1. rpc' \in Looks /\ rpc' # "polled" /\ rpc' \notin Armed  BY <2>4 DEF Looks, Armed
    <3> QED BY <2>1, <2>3, <2>4, <3>1, Looking
  <2>5. CASE StartPop(k)
    <3>1. /\ rgot \in Nat /\ rgot <= Occupancy /\ rcall.n \in Nat /\ have \in Nat
          /\ have < rcall.n /\ MaxBurst \in Nat
      BY <1>1, <2>1, WantedIs, Lengths DEF RAll, RPlan
    <3> DEFINE m == rcall.n - have
    <3>2. m \in Nat /\ have + m = rcall.n /\ k = Least(Least(rgot, m), MaxBurst)  BY <3>1
    <3> HIDE DEF m, k
    <3>3. Least(rgot, m) \in Nat /\ Least(rgot, m) <= rgot /\ Least(rgot, m) <= m
      BY <3>1, <3>2 DEF Least
    <3>4. k \in Nat /\ k <= rgot /\ k <= m  BY <3>1, <3>2, <3>3 DEF Least
    <3>5. have + k <= rcall.n  BY <3>1, <3>2, <3>4
    <3>6. k <= Occupancy
      <4>1. Occupancy \in Nat  BY OutIs
      <4> QED BY <3>1, <3>4, <4>1
    <3> QED BY <2>1, <2>3, <2>5, <3>4, <3>5, <3>6, PopBegins
  <2> QED BY <2>2, <2>4, <2>5
<1> QED BY <1>3, <1>4, <1>5, <1>6, <1>7, <1>8

-----------------------------------------------------------------------------
\* The threshold register, and the occupancy as it is when it is read.
LEMMA RTypesServe ==
  ASSUME RAll, ServeArmOut \/ ServeOccupancy
  PROVE  RTypes' /\ RPlan'
<1> USE DEF fixed
<1>1. CASE ServeArmOut
  <2>1. /\ rpc = "arm" /\ rpc \in Looks /\ outThr' = Wanted /\ rcopy' = Wanted /\ DriveOut("wait")
        /\ UNCHANGED <<kburst, outq, held, empty, rcall, have, rout, rgot, asked, kernel>>
    BY <1>1 DEF ServeArmOut, ReadThreshold, Looks
  <2>2. Wanted \in 1..Depth /\ Depth \in Nat  BY <2>1, WantedIs, Lengths
  <2>3. Wanted \in 0..Depth /\ Wanted \in -1..Depth  BY <2>2
  <2>4. rpc' = "wait" /\ outLine' \in BOOLEAN  BY <2>1 DEF DriveOut, Rise
  <2>5. RTypes'  BY <2>1, <2>3, <2>4 DEF RAll, RTypes, ReaderAt, kernel
  <2>6. rcopy' = Wanted'  BY <2>1 DEF Wanted
  <2>7. have < rcall.n /\ rcall.n \in Nat /\ rcall.n >= 1 /\ rcall.n <= asked
    BY <2>1, WantedIs DEF RAll, RPlan
  <2> QED BY <2>1, <2>4, <2>5, <2>6, <2>7 DEF RPlan
<1>2. CASE ServeOccupancy
  <2>1. /\ rpc = "poll" /\ rpc \in Looks /\ rpc' = "polled" /\ rgot' = Occupancy
        /\ UNCHANGED <<kburst, rcall, have, rout, rcopy, asked, viewOut, kernel>>
    BY <1>2 DEF ServeOccupancy, Looks
  <2>2. Occupancy \in Nat  BY OutIs
  <2>3. RTypes'  BY <2>1, <2>2 DEF RAll, RTypes, ReaderAt, viewOut, kernel
  <2>4. Occupancy' = Occupancy /\ Occupancy <= Occupancy  BY <2>1, <2>2 DEF Occupancy, viewOut
  <2>5. have < rcall.n /\ rcall.n \in Nat /\ rcall.n >= 1 /\ rcall.n <= asked
    BY <2>1, WantedIs DEF RAll, RPlan
  <2> QED BY <2>1, <2>3, <2>4, <2>5 DEF RPlan, Armed
<1> QED BY <1>1, <1>2

\* Whole bursts come off the FIFO of s, with h words held, until got are there: less than a
\* burst is left over.
LEMMA Refilled ==
  ASSUME NEW k \in Nat, NEW s \in Seq(1..k), NEW h \in 0..(k - 1), NEW got \in Nat,
         got <= h + SumOf(s), NEW j \in 0..Len(s), h + SumOf(SubSeq(s, 1, j)) >= got,
         \A i \in 0..(j - 1) : h + SumOf(SubSeq(s, 1, i)) < got
  PROVE  /\ SubSeq(s, j + 1, Len(s)) \in Seq(1..k)
         /\ SumOf(SubSeq(s, j + 1, Len(s))) \in Nat
         /\ SumOf(SubSeq(s, j + 1, Len(s))) <= SumOf(s)
         /\ (h + SumOf(SubSeq(s, 1, j))) - got \in 0..(k - 1)
         /\ ((h + SumOf(SubSeq(s, 1, j))) - got) + SumOf(SubSeq(s, j + 1, Len(s)))
              = (h + SumOf(s)) - got
<1>1. Len(s) \in Nat /\ \A i \in 1..Len(s) : s[i] \in 1..k  BY LenProperties, ElementOfSeq
<1>2. s \in Seq(Nat)
  <2>1. \A i \in 1..Len(s) : s[i] \in Nat  BY <1>1
  <2> QED BY <2>1, IsASeq
<1> DEFINE a == SumOf(SubSeq(s, 1, j))  b == SumOf(SubSeq(s, j + 1, Len(s)))  t == SumOf(s)
<1>3. a \in Nat /\ b \in Nat /\ t \in Nat /\ a + b = t /\ h + a >= got
  <2>1. /\ SubSeq(s, 1, j) \in Seq(Nat) /\ SubSeq(s, j + 1, Len(s)) \in Seq(Nat)
        /\ SumOf(SubSeq(s, 1, j)) + SumOf(SubSeq(s, j + 1, Len(s))) = SumOf(s)
    BY <1>2, SumOfParts
  <2>2. a \in Nat /\ b \in Nat /\ t \in Nat  BY <1>2, <2>1, SumIsNat
  <2> QED BY <2>1, <2>2
<1>4. SubSeq(s, j + 1, Len(s)) \in Seq(1..k)
  <2>1. j + 1 \in Int /\ Len(s) \in Int /\ \A i \in (j + 1)..Len(s) : s[i] \in 1..k
    BY <1>1
  <2> QED BY <2>1, SubSeqProperties
<1>5. (h + a) - got <= k - 1
  <2>1. CASE j = 0
    <3>1. SubSeq(s, 1, 0) = <<>>  BY SubSeqEmpty
    <3>2. a = 0  BY <2>1, <3>1, SumOfNone
    <3> HIDE DEF a
    <3> QED BY <3>2
  <2>2. CASE j # 0
    <3> DEFINE c == SumOf(SubSeq(s, 1, j - 1))  e == s[j]
    <3>1. j \in 1..Len(s) /\ j - 1 \in 0..(j - 1)  BY <1>1, <2>2
    <3>2. e \in Nat /\ c \in Nat /\ a = c + e  BY <1>2, <3>1, SumOfPart
    <3>3. e \in 1..k  BY <1>1, <3>1
    <3>4. h + c < got  BY <3>1
    <3> HIDE DEF a, c, e
    <3> QED BY <3>2, <3>3, <3>4
  <2> QED BY <2>1, <2>2
<1> HIDE DEF a, b, t
<1>6. b <= t /\ (h + a) - got \in 0..(k - 1) /\ ((h + a) - got) + b = (h + t) - got
  BY <1>3, <1>5
<1> QED BY <1>3, <1>4, <1>6 DEF a, b, t

\* A pop finds all its words, for there are as many as the reader wants, and leaves what it
\* still wants.
LEMMA RTypesPop ==
  ASSUME RAll, ServePop
  PROVE  RTypes' /\ RPlan'
<1> DEFINE m == Least(MaxBurst, rout)
           got == Least(m, Occupancy)
           taken == CHOOSE j \in 0..Len(outq) :
                      /\ held + SumOf(SubSeq(outq, 1, j)) >= got
                      /\ \A i \in 0..(j - 1) : held + SumOf(SubSeq(outq, 1, i)) < got
           done == rout = m /\ have = rcall.n
           goes == IF rout > m THEN "pop" ELSE "next"
<1>1. /\ rpc = "pop"
      /\ outq' = SubSeq(outq, taken + 1, Len(outq))
      /\ held' = held + SumOf(SubSeq(outq, 1, taken)) - got
      /\ empty' = empty + (m - got)
      /\ rout' = rout - m
      /\ done => DriveOut("idle") /\ rcall' = NoCall /\ have' = 0
      /\ ~done => DriveOut(goes) /\ UNCHANGED <<rcall, have>>
      /\ UNCHANGED <<kburst, outThr, rcopy, rgot, asked, kernel>>
  BY DEF ServePop, fixed
<1>2. /\ have <= rcall.n /\ rout <= Occupancy /\ rcall.n \in Nat /\ rcall.n >= 1
      /\ rcall.n <= asked /\ have \in Nat /\ rout \in Nat
      /\ MaxBurst \in Nat /\ Occupancy \in Nat /\ Depth \in Nat
  BY <1>1, Lengths, OutIs DEF RAll, RPlan, RTypes
<1>3. m \in Nat /\ m <= rout /\ m <= Occupancy  BY <1>2 DEF Least
<1>4. got = m
  <2> HIDE DEF m
  <2> QED BY <1>2, <1>3 DEF Least
<1> DEFINE s == SumOf(outq)
<1>5. /\ kburst \in Nat /\ held \in 0..(kburst - 1) /\ held \in Nat /\ outq \in Seq(1..kburst)
      /\ outq \in Seq(Nat) /\ s \in Nat /\ s <= Depth /\ Occupancy = held + s
  BY OutIs DEF RAll, RTypes, Occupancy
<1>6. got \in Nat /\ got <= held + SumOf(outq)  BY <1>2, <1>3, <1>4, <1>5
<1>7. /\ taken \in 0..Len(outq) /\ held + SumOf(SubSeq(outq, 1, taken)) >= got
      /\ \A i \in 0..(taken - 1) : held + SumOf(SubSeq(outq, 1, i)) < got
  <2> HIDE DEF got
  <2>1. \E j \in 0..Len(outq) :
           /\ held + SumOf(SubSeq(outq, 1, j)) >= got
           /\ \A i \in 0..(j - 1) : held + SumOf(SubSeq(outq, 1, i)) < got
    BY <1>5, <1>6, ShortestPart
  <2> QED BY <2>1, Zenon
<1> HIDE DEF taken
<1>8. /\ outq' \in Seq(1..kburst) /\ SumOf(outq') \in Nat /\ SumOf(outq') <= s
      /\ held' \in 0..(kburst - 1) /\ held' + SumOf(outq') = (held + s) - got
  <2> DEFINE a == SumOf(SubSeq(outq, 1, taken))
  <2>1. /\ SubSeq(outq, taken + 1, Len(outq)) \in Seq(1..kburst)
        /\ SumOf(SubSeq(outq, taken + 1, Len(outq))) \in Nat
        /\ SumOf(SubSeq(outq, taken + 1, Len(outq))) <= s
        /\ (held + a) - got \in 0..(kburst - 1)
        /\ ((held + a) - got) + SumOf(SubSeq(outq, taken + 1, Len(outq))) = (held + s) - got
    <3> HIDE DEF got
    <3> QED BY <1>5, <1>6, <1>7, Refilled
  <2>2. a \in Nat
    <3>1. SubSeq(outq, 1, taken) \in Seq(Nat)  BY <1>5, <1>7, SumOfParts
    <3> QED BY <3>1, SumIsNat
  <2>3. held' = (held + a) - got
    <3>1. held' = held + a - got  BY <1>1
    <3> HIDE DEF a, got
    <3> QED BY <1>5, <1>6, <2>2, <3>1
  <2> HIDE DEF a, got
  <2> QED BY <1>1, <2>1, <2>3
<1>9. Occupancy' = Occupancy - m /\ rout' = rout - m /\ Occupancy' \in Nat /\ empty' = 0
  <2>1. Occupancy' = held' + SumOf(outq')  BY DEF Occupancy
  <2>2. empty = 0  BY DEF RAll, RTypes
  <2> HIDE DEF m, got, s
  <2>3. Occupancy' = Occupancy - m  BY <1>4, <1>5, <1>8, <2>1
  <2>4. empty' = 0  BY <1>1, <1>3, <1>4, <2>2
  <2> QED BY <1>1, <1>2, <1>3, <2>3, <2>4
<1>10. rout' \in Nat /\ rout' <= rout /\ rout' <= Occupancy' /\ (rout = m => rout' = 0)
  <2> HIDE DEF m
  <2> QED BY <1>2, <1>3, <1>9
<1>11. SumOf(outq') <= Depth
  <2> HIDE DEF s
  <2> QED BY <1>2, <1>5, <1>8
<1>12. rout' \in 0..(Depth + kburst - 1)
  <2>1. kburst >= 1 /\ rout <= Depth + (kburst - 1)  BY OutIs
  <2> QED BY <1>2, <1>5, <1>10, <2>1
<1>13. outLine' \in BOOLEAN /\ rpc' = (IF done THEN "idle" ELSE goes)
  <2>1. CASE done
    <3> HIDE DEF done, goes
    <3> QED BY <1>1, <2>1 DEF DriveOut, Rise
  <2>2. CASE ~done
    <3>1. goes # "asleep"  OBVIOUS
    <3> HIDE DEF done, goes
    <3> QED BY <1>1, <2>2, <3>1 DEF DriveOut, Rise
  <2> QED BY <2>1, <2>2
<1>14. CASE done
  <2>1. rpc' = "idle" /\ rcall' = NoCall /\ have' = 0
    <3> HIDE DEF done
    <3> QED BY <1>1, <1>13, <1>14
  <2>2. RTypes'
    BY <1>1, <1>8, <1>9, <1>11, <1>12, <1>13, <2>1 DEF RAll, RTypes, ReaderAt, Calls, kernel
  <2>3. RPlan'  BY <2>1 DEF RPlan, Looks, Armed
  <2> QED BY <2>2, <2>3
<1>15. CASE ~done
  <2>1. rpc' = goes /\ UNCHANGED <<rcall, have>>
    <3> HIDE DEF done
    <3> QED BY <1>1, <1>13, <1>15
  <2>2. rpc' \in {"pop", "next"}  BY <2>1
  <2>3. rpc' = "next" => have < rcall.n
    <3>1. ASSUME rpc' = "next" PROVE have # rcall.n
      <4>1. ~(rout > m)  BY <2>1, <3>1
      <4>2. rout = m
        <5> HIDE DEF m
        <5> QED BY <1>2, <1>3, <4>1
      <4> QED BY <1>15, <4>2
    <3> QED BY <1>2, <3>1
  <2>4. RTypes'
    BY <1>1, <1>8, <1>9, <1>11, <1>12, <1>13, <2>1, <2>2 DEF RAll, RTypes, ReaderAt, kernel
  <2>5. RPlan'  BY <1>1, <1>2, <1>10, <2>1, <2>2, <2>3 DEF RPlan, Looks, Armed
  <2> QED BY <2>4, <2>5
<1> QED BY <1>14, <1>15

-----------------------------------------------------------------------------
\* The front: each thread at most once, so that two places are enough.
Lines == {<<>>, <<"writer">>, <<"reader">>, <<"writer", "reader">>, <<"reader", "writer">>}

\* A transaction ends, and a thread whose transaction starts joins the line.
LEMMA LineShrinks == ASSUME front \in Lines, front # <<>>, front' = Tail(front) PROVE front' \in Lines
<1>1. \/ front = <<"writer">> \/ front = <<"reader">>
      \/ front = <<"writer", "reader">> \/ front = <<"reader", "writer">>
  BY DEF Lines
<1>2. CASE front = <<"writer">>  BY <1>2 DEF Lines
<1>3. CASE front = <<"reader">>  BY <1>3 DEF Lines
<1>4. CASE front = <<"writer", "reader">>  BY <1>4 DEF Lines
<1>5. CASE front = <<"reader", "writer">>  BY <1>5 DEF Lines
<1> QED BY <1>1, <1>2, <1>3, <1>4, <1>5

\* Who comes second.
LEMMA TwoInLine ==
  ASSUME NEW a, NEW b
  PROVE  Append(<<a>>, b) = <<a, b>>
<1> DEFINE S == {a, b}  t == Append(<<a>>, b)  u == <<a, b>>
<1>1. <<a>> \in Seq(S) /\ u \in Seq(S) /\ Len(<<a>>) = 1 /\ Len(u) = 2 /\ u[1] = a /\ u[2] = b
  OBVIOUS
<1>2. t \in Seq(S) /\ Len(t) = Len(<<a>>) + 1 /\ t[1] = a /\ t[Len(<<a>>)+1] = b
  BY <1>1, AppendProperties
<1>3. Len(t) = Len(u) /\ t[2] = b
  <2> HIDE DEF t, u
  <2> QED BY <1>1, <1>2
<1>4. \A i \in 1..Len(t) : t[i] = u[i]
  <2> HIDE DEF t, u
  <2> QED BY <1>1, <1>2, <1>3
<1> HIDE DEF t, S, u
<1>5. t = u BY <1>1, <1>2, <1>3, <1>4, SeqEqual
<1> QED BY <1>5 DEF t, u

LEMMA LineGrows ==
  ASSUME front \in Lines, NEW t \in {"writer", "reader"}, t \notin ToSet(front),
         front' = Append(front, t)
  PROVE  front' \in Lines
<1>1. \/ front = <<>> \/ front = <<"writer">> \/ front = <<"reader">>
      \/ front = <<"writer", "reader">> \/ front = <<"reader", "writer">>
  BY DEF Lines
<1>2. CASE front = <<>>  BY <1>2 DEF Lines
<1>3. CASE front = <<"writer">>
  <2>1. front[1] = "writer" /\ 1 \in DOMAIN front  BY <1>3
  <2>2. "writer" \in ToSet(front)  BY <2>1 DEF ToSet
  <2>3. t = "reader"  BY <2>2
  <2>4. Append(<<"writer">>, "reader") = <<"writer", "reader">>  BY TwoInLine
  <2>5. front' = <<"writer", "reader">>  BY <1>3, <2>3, <2>4, Zenon
  <2> QED BY <2>5 DEF Lines
<1>4. CASE front = <<"reader">>
  <2>1. front[1] = "reader" /\ 1 \in DOMAIN front  BY <1>4
  <2>2. "reader" \in ToSet(front)  BY <2>1 DEF ToSet
  <2>3. t = "writer"  BY <2>2
  <2>4. Append(<<"reader">>, "writer") = <<"reader", "writer">>  BY TwoInLine
  <2>5. front' = <<"reader", "writer">>  BY <1>4, <2>3, <2>4, Zenon
  <2> QED BY <2>5 DEF Lines
<1>5. CASE front = <<"writer", "reader">> \/ front = <<"reader", "writer">>
  <2>1. 1 \in DOMAIN front /\ 2 \in DOMAIN front /\ {front[1], front[2]} = {"writer", "reader"}
    BY <1>5
  <2>2. front[1] \in ToSet(front) /\ front[2] \in ToSet(front)  BY <2>1 DEF ToSet
  <2> QED BY <2>1, <2>2
<1> QED BY <1>1, <1>2, <1>3, <1>4, <1>5

\* Every step keeps the line one of those, and the parts of the invariant.
LEMMA NextFront == ASSUME front \in Lines, [Next]_vars PROVE front' \in Lines
<1>1. CASE UNCHANGED front  BY <1>1
<1>2. CASE Travels("writer", wpc)  BY <1>2, LineGrows DEF Travels
<1>3. CASE Travels("reader", rpc)  BY <1>3, LineGrows DEF Travels
<1>4. CASE front # <<>> /\ front' = Tail(front)  BY <1>4, LineShrinks
<1>5. CASE Writer
  <2>1. CASE ServePush \/ StallEnds
    BY <1>1, <1>4, <2>1 DEF ServePush, StallEnds, BurstDone, Holds
  <2>2. CASE ServeArmIn \/ ServeVacancy  BY <1>4, <2>2 DEF ServeArmIn, ServeVacancy, Holds
  <2>3. CASE WriterGoes \/ WriterArms \/ WriterSeesHigh \/ WriterSleeps \/ WriterPolls \/ WriterPolled
    BY <1>1, <2>3 DEF WriterGoes, WriterArms, WriterSeesHigh, WriterSleeps, WriterPolls, WriterPolled
  <2> QED BY <1>2, <1>5, <2>1, <2>2, <2>3 DEF Writer
<1>6. CASE Kernel
  BY <1>1, <1>6 DEF Kernel, KernelTakes, KernelRetires, KernelWrites
<1>7. CASE Reader
  <2>1. CASE ServePop  BY <1>4, <2>1 DEF ServePop, Holds
  <2>2. CASE ServeArmOut \/ ServeOccupancy  BY <1>4, <2>2 DEF ServeArmOut, ServeOccupancy, Holds
  <2>3. CASE ReaderArms \/ ReaderSeesHigh \/ ReaderSleeps \/ TryNone \/ ReaderPolls \/ ReaderPolled
    BY <1>1, <2>3 DEF ReaderArms, ReaderSeesHigh, ReaderSleeps, TryNone, ReaderPolls, ReaderPolled
  <2> QED BY <1>3, <1>7, <2>1, <2>2, <2>3 DEF Reader
<1>8. CASE UNCHANGED vars  BY <1>1, <1>8 DEF vars
<1>9. ASSUME NEW verb, NEW n, CallWrite(verb, n) \/ CallRead(verb, n) PROVE front' \in Lines
  BY <1>1, <1>9 DEF CallWrite, CallRead
<1> QED BY <1>5, <1>6, <1>7, <1>8, <1>9 DEF Next

-----------------------------------------------------------------------------
HInv == WAll /\ RAll /\ front \in Lines

LEMMA InitAll == Init => HInv
<1> SUFFICES ASSUME Init PROVE HInv
  OBVIOUS
<1>1. /\ Depth \in Nat /\ MaxWords \in Nat /\ KernelBurst \in Nat /\ kburst \in 1..KernelBurst
      /\ kburst \in Nat /\ kburst >= 1
  <2>1. Depth \in Nat /\ MaxWords \in Nat /\ KernelBurst \in Nat  BY Lengths
  <2>2. kburst \in 1..KernelBurst  BY DEF Init
  <2> QED BY <2>1, <2>2
<1>2. /\ 0 \in Nat /\ 0 \in 0..Depth /\ 0 \in 0..(Depth + 1) /\ 0 \in 0..MaxWords
      /\ 0 \in 0..(kburst - 1) /\ 0 \in 0..(Depth + kburst - 1) /\ -1 \in -1..Depth
  BY <1>1
<1>3. <<>> \in Seq(Packets) /\ <<>> \in Seq(1..kburst)  BY EmptySeq
<1>4. NoCall \in Calls({"write", "push"}, Packets) /\ NoCall \in Calls({"pull", "try"}, Reads)
  BY DEF Calls
<1>5. WInv /\ RInv  BY InitInv
<1>6. WTypes  BY <1>1, <1>2, <1>3, <1>4 DEF Init, WTypes, WriterAt
<1>7. WPlan  BY DEF Init, WPlan, Whole, Thinks, Armed, NoCall
<1>8. SumOf(outq) <= Depth
  <2>1. outq = <<>>  BY DEF Init
  <2>2. SumOf(outq) = 0  BY <2>1, SumOfNone
  <2> QED BY <1>1, <2>2
<1>9. RTypes  BY <1>1, <1>2, <1>3, <1>4, <1>8 DEF Init, RTypes, ReaderAt
<1>10. RPlan  BY DEF Init, RPlan, Looks, Armed
<1>11. front \in Lines  BY DEF Init, Lines
<1> QED BY <1>5, <1>6, <1>7, <1>9, <1>10, <1>11 DEF HInv, WAll, RAll

LEMMA NextWAll == ASSUME HInv, [Next]_vars PROVE WTypes' /\ WPlan'
<1> USE DEF HInv, fixed, kernel
<1>1. CASE UNCHANGED vars  BY <1>1, WAllKept DEF vars
<1>2. ASSUME NEW verb \in {"write", "push"}, NEW n \in Packets, CallWrite(verb, n)
      PROVE  WTypes' /\ WPlan'
  BY <1>2, WTypesCall
<1>3. ASSUME NEW verb, NEW n, CallRead(verb, n) PROVE WTypes' /\ WPlan'
  BY <1>3, WAllKept DEF CallRead
<1>4. CASE Writer
  <2>1. CASE Travels("writer", wpc)  BY <2>1, WAllKept DEF Travels
  <2> QED BY <1>4, <2>1, WTypesThink, WTypesServe, WTypesPush DEF Writer
<1>5. CASE Kernel
  <2>1. CASE KernelWrites
    <3>1. UNCHANGED <<irq, writer, viewIn, taking>>  BY <2>1 DEF KernelWrites
    <3> QED BY <3>1, WAllKept
  <2> QED BY <1>5, <2>1, WTypesKernel DEF Kernel
<1>6. CASE Reader
  <2>1. UNCHANGED <<irq, writer, viewIn, taking>>
    BY <1>6 DEF Reader, Travels, ReaderArms, ReaderSeesHigh, ReaderSleeps, TryNone, ReaderPolls,
       ReaderPolled, ServeArmOut, ServeOccupancy, ServePop
  <2> QED BY <2>1, WAllKept
<1> QED BY <1>1, <1>2, <1>3, <1>4, <1>5, <1>6 DEF Next

LEMMA NextRAll == ASSUME HInv, [Next]_vars PROVE RTypes' /\ RPlan'
<1> USE DEF HInv, fixed
<1>1. CASE UNCHANGED vars  BY <1>1, RAllKept DEF vars
<1>2. ASSUME NEW verb, NEW n, CallWrite(verb, n) PROVE RTypes' /\ RPlan'
  BY <1>2, RAllKept DEF CallWrite
<1>3. ASSUME NEW verb \in {"pull", "try"}, NEW n \in Reads, CallRead(verb, n)
      PROVE  RTypes' /\ RPlan'
  BY <1>3, RTypesCall
<1>4. CASE Writer
  <2>1. UNCHANGED <<kburst, reader, viewOut, kernel>>
    BY <1>4 DEF Writer, Travels, WriterGoes, WriterArms, WriterSeesHigh, WriterSleeps,
       WriterPolls, WriterPolled, ServeArmIn, ServeVacancy, ServePush, StallEnds
  <2> QED BY <2>1, RAllKept
<1>5. CASE Kernel
  BY <1>5, RTypesTakes, RTypesWrites DEF Kernel
<1>6. CASE Reader
  <2>1. CASE Travels("reader", rpc)  BY <2>1, RAllKept DEF Travels
  <2> QED BY <1>6, <2>1, RTypesThink, RTypesServe, RTypesPop DEF Reader
<1> QED BY <1>1, <1>2, <1>3, <1>4, <1>5, <1>6 DEF Next

LEMMA NextAll == HInv /\ [Next]_vars => HInv'
<1> SUFFICES ASSUME HInv, [Next]_vars PROVE HInv'
  OBVIOUS
<1>1. WInv' /\ RInv'  BY NextWInv, NextRInv DEF HInv, WAll, RAll
<1>2. WTypes' /\ WPlan'  BY NextWAll
<1>3. RTypes' /\ RPlan'  BY NextRAll
<1>4. front' \in Lines  BY NextFront DEF HInv
<1> QED BY <1>1, <1>2, <1>3, <1>4 DEF HInv, WAll, RAll

LEMMA HostInductive == Spec => []HInv
BY InitAll, NextAll, PTL DEF Spec

\* The writer's bound is never below zero or above the depth, whatever packets pass and
\* whichever way it learns of room; the FIFOs hold whole packets and whole bursts, and less
\* than a burst waits outside.
THEOREM HostTypes == Spec => []TypeOK
<1>1. ASSUME HInv PROVE TypeOK
  <2>1. front \in Seq({"writer", "reader"}) /\ Len(front) <= 2
    <3>1. \/ front = <<>> \/ front = <<"writer">> \/ front = <<"reader">>
          \/ front = <<"writer", "reader">> \/ front = <<"reader", "writer">>
      BY <1>1 DEF HInv, Lines
    <3>2. CASE front = <<>>  BY <3>2, EmptySeq
    <3>3. CASE front = <<"writer">>  BY <3>3
    <3>4. CASE front = <<"reader">>  BY <3>4
    <3>5. CASE front = <<"writer", "reader">>  BY <3>5
    <3>6. CASE front = <<"reader", "writer">>  BY <3>6
    <3> QED BY <3>1, <3>2, <3>3, <3>4, <3>5, <3>6
  <2>2. empty \in Nat  BY <1>1 DEF HInv, RAll, RTypes
  <2>3. WTypes /\ RTypes  BY <1>1 DEF HInv, WAll, RAll
  <2> QED BY <2>1, <2>2, <2>3 DEF WTypes, RTypes, TypeOK, Calls, WriterAt, ReaderAt
<1>2. HInv => TypeOK  BY <1>1
<1> QED BY <1>2, HostInductive, PTL

\* No pop finds the queue empty, although the reader acts on a line it saw high, or on an
\* occupancy it read, some transactions ago: until it pops, words are only added.
THEOREM PopsAreServed == Spec => []PopsFindWords
<1>1. HInv => PopsFindWords  BY DEF HInv, RAll, RTypes, PopsFindWords
<1> QED BY <1>1, HostInductive, PTL

-----------------------------------------------------------------------------
\* Packets that fit the queue: the bound a writer keeps is one of the free space, and the
\* packet it sends, whole, has room from the moment it starts it.

FPlan ==
  /\ SumOf(inq) + room <= Depth
  /\ ~irq => room = 0
  /\ wpc = "polled" => SumOf(inq) + wgot <= Depth
  /\ wpc \in {"push", "stalled"} => SumOf(inq) + wcall.n <= Depth

\* The words in the FIFO of queue in, and what a vacancy says of them.
LEMMA InIs ==
  ASSUME WAll
  PROVE  /\ inq \in Seq(Nat) /\ SumOf(inq) \in Nat /\ Depth \in Nat
         /\ room \in Nat /\ room <= Depth /\ wgot \in Nat /\ piece \in Nat
         /\ \A k \in Nat : k >= 1 /\ Vacancy >= k => SumOf(inq) + k <= Depth
         /\ SumOf(inq) <= Depth => SumOf(inq) + Vacancy <= Depth
<1>1. inq \in Seq(Packets)  BY DEF WAll, WTypes
<1>2. inq \in Seq(Nat)
  <2>1. \A i \in 1..Len(inq) : inq[i] \in Nat  BY <1>1, Lengths, ElementOfSeq
  <2> QED BY <1>1, <2>1, IsASeq
<1>3. Depth \in Nat /\ room \in 0..Depth /\ wgot \in 0..Depth /\ piece \in 0..Depth
  BY Lengths DEF WAll, WTypes
<1> DEFINE s == SumOf(inq)
<1>4. s \in Nat /\ Vacancy = Most(0, Depth - s)  BY <1>2, SumIsNat DEF Vacancy
<1>5. /\ \A k \in Nat : k >= 1 /\ Vacancy >= k => s + k <= Depth
      /\ s <= Depth => s + Vacancy <= Depth
  <2> HIDE DEF s
  <2> QED BY <1>3, <1>4 DEF Most
<1> QED BY <1>2, <1>3, <1>4, <1>5

\* Steps that leave the bound and the packets in the FIFO alone.
LEMMA FPlanKept ==
  ASSUME FPlan, UNCHANGED <<irq, inq, room>>,
         wpc' = "polled" => SumOf(inq) + wgot' <= Depth,
         wpc' \in {"push", "stalled"} => SumOf(inq) + wcall'.n <= Depth
  PROVE  FPlan'
BY DEF FPlan

\* The writer starts a packet only when there is room for all of it.
LEMMA FPlanThink ==
  ASSUME WAll, FPlan, Packets \subseteq 1..Depth,
         WriterGoes \/ WriterArms \/ WriterSeesHigh \/ WriterSleeps \/ WriterPolls \/ WriterPolled
  PROVE  FPlan'
<1> USE DEF fixed, viewIn
<1>1. /\ SumOf(inq) \in Nat /\ Depth \in Nat /\ room \in Nat /\ wgot \in Nat
      /\ \A k \in Nat : k >= 1 /\ Vacancy >= k => SumOf(inq) + k <= Depth
  BY InIs
<1>2. ASSUME wpc \in Thinks
      PROVE  wcall.n \in Nat /\ wcall.n >= 1 /\ wcall.n <= Depth /\ Need = wcall.n
  <2>1. wcall.n \in Packets /\ wcall.n \in Nat /\ wcall.n >= 1  BY <1>2, CallIs DEF Thinks
  <2>2. wcall.n <= Depth  BY <1>1, <2>1
  <2> QED BY <1>2, <2>1, <2>2, NeedIs
<1>3. CASE WriterGoes
  <2>1. /\ wpc \in Thinks /\ room >= Need /\ wpc' = "push"
        /\ UNCHANGED <<irq, wcall, room, inq>>
    BY <1>3 DEF WriterGoes, StartPiece, Thinks
  <2> DEFINE s == SumOf(inq)
  <2>2. s + wcall.n <= Depth
    <3>1. s \in Nat /\ s + room <= Depth /\ wcall.n \in Nat /\ room >= wcall.n
      BY <1>1, <1>2, <2>1 DEF FPlan
    <3> HIDE DEF s
    <3> QED BY <1>1, <3>1
  <2> QED BY <2>1, <2>2, FPlanKept
<1>4. CASE WriterArms \/ WriterSleeps \/ WriterPolls
  <2>1. /\ wpc' \in {"wait", "arm", "asleep", "poll"} /\ UNCHANGED <<irq, inq, room>>
    BY <1>4 DEF WriterArms, WriterSleeps, WriterPolls
  <2> QED BY <2>1, FPlanKept
<1>5. CASE WriterSeesHigh
  <2>1. /\ wpc \in Armed /\ wpc \in Thinks /\ inLine /\ wpc' = "push"
        /\ room' = (IF wcall.verb = "write" THEN wcopy ELSE room)
        /\ UNCHANGED <<irq, wcall, inq>>
    BY <1>5 DEF WriterSeesHigh, StartPiece, Thinks, Armed
  <2>2. /\ irq /\ wcopy = Threshold /\ wcopy \in 1..Depth /\ Vacancy >= wcopy
        /\ wcall.verb = "write" => wcopy >= Need
    BY <2>1, SeenHigh
  <2>3. wcall.verb = "push" => wcopy = wcall.n  BY <2>2 DEF Threshold
  <2>4. wcall.verb \in {"write", "push"}  BY <2>1, CallIs DEF Thinks
  <2>5. wcopy \in Nat /\ wcopy >= 1 /\ wcopy >= wcall.n /\ wcall.n \in Nat
    <3>1. wcopy \in Nat /\ wcopy >= 1  BY <1>1, <2>2
    <3>2. wcall.verb = "write" => wcopy >= wcall.n  BY <1>2, <2>1, <2>2
    <3>3. wcall.verb = "push" => wcopy >= wcall.n  BY <2>3, <3>1
    <3> QED BY <1>2, <2>1, <2>4, <3>1, <3>2, <3>3
  <2>6. SumOf(inq) + wcopy <= Depth  BY <1>1, <2>2, <2>5
  <2>7. SumOf(inq) + room' <= Depth
    <3>1. SumOf(inq) + room <= Depth  BY DEF FPlan
    <3> QED BY <2>1, <2>6, <3>1
  <2>8. SumOf(inq) + wcall'.n <= Depth
    <3> DEFINE s == SumOf(inq)
    <3>1. s \in Nat /\ s + wcopy <= Depth /\ wcall'.n = wcall.n  BY <1>1, <2>1, <2>6
    <3> HIDE DEF s
    <3>2. s + wcall'.n <= Depth  BY <1>1, <2>5, <3>1
    <3> QED BY <3>2 DEF s
  <2> QED BY <2>1, <2>2, <2>7, <2>8 DEF FPlan
<1>6. CASE WriterPolled
  <2>1. /\ wpc = "polled" /\ wpc \in Thinks /\ UNCHANGED <<irq, wcall, inq, room>>
        /\ PollRoom > 0 => wpc' = "push"
        /\ ~(PollRoom > 0) => wpc' = "next"
    BY <1>6 DEF WriterPolled, StartPiece, Thinks
  <2>2. CASE PollRoom > 0
    <3>1. wgot >= wcall.n  BY <1>2, <2>1, <2>2 DEF PollRoom
    <3> DEFINE s == SumOf(inq)
    <3>2. s \in Nat /\ s + wgot <= Depth /\ wcall.n \in Nat  BY <1>1, <1>2, <2>1 DEF FPlan
    <3> HIDE DEF s
    <3>3. s + wcall.n <= Depth  BY <1>1, <3>1, <3>2
    <3> QED BY <2>1, <2>2, <3>3, FPlanKept DEF s
  <2>3. CASE ~(PollRoom > 0)
    <3>1. wpc' = "next"  BY <2>1, <2>3
    <3> QED BY <2>1, <3>1, FPlanKept
  <2> QED BY <2>2, <2>3
<1> QED BY <1>3, <1>4, <1>5, <1>6

\* The packet goes in: the bound is lowered by its words, or is nought already.
LEMMA FPlanIn ==
  ASSUME WAll, FPlan, Packets \subseteq 1..Depth, BurstDone, DriveIn(AfterBurst), irq' = irq,
         inq' = Append(inq, wcall.n), (wpc = "push" /\ Owed = 0) \/ wpc = "stalled"
  PROVE  FPlan'
<1>1. /\ inq \in Seq(Nat) /\ SumOf(inq) \in Nat /\ Depth \in Nat /\ room \in Nat /\ piece \in Nat
  BY InIs
<1>2. wcall.n \in Packets /\ wcall.n \in Nat /\ wcall.n <= Depth
  <2>1. wcall.n \in Packets /\ wcall.n \in Nat  BY CallIs
  <2> QED BY <1>1, <2>1
<1>3. piece = wcall.n  BY <1>2 DEF WAll, WPlan, Whole
<1>4. wout = Burst /\ sent + piece = wcall.n /\ wout \in Nat
  <2>1. wout \in 0..(Depth + 1)  BY DEF WAll, WTypes
  <2> QED BY <1>1, <2>1, LastBurst
<1>5. ~(wout > Burst)
  <2> DEFINE b == Burst
  <2>1. wout = b  BY <1>4
  <2> HIDE DEF b
  <2> QED BY <1>4, <2>1
<1>6. SumOf(inq') = SumOf(inq) + wcall.n
  <2>1. SumOf(Append(inq, wcall.n)) = SumOf(inq) + wcall.n  BY <1>1, <1>2, SumOfMore
  <2> QED BY <2>1
<1>7. wpc' = "idle"
  <2>1. AfterBurst = "idle"  BY <1>4, <1>5 DEF AfterBurst
  <2> QED BY <2>1 DEF DriveIn, Rise
<1> DEFINE s == SumOf(inq)  t == SumOf(inq')
<1>8. s \in Nat /\ t = s + wcall.n /\ s + room <= Depth /\ s + wcall.n <= Depth
      /\ (~irq => room = 0)
  BY <1>1, <1>6 DEF FPlan
<1>9. t + room' <= Depth /\ (~irq' => room' = 0)
  <2> HIDE DEF s, t
  <2>1. CASE irq
    <3>1. room' = Most(0, room - piece)  BY <1>5, <2>1, RoomAfter
    <3> QED BY <1>1, <1>2, <1>3, <1>8, <2>1, <3>1 DEF Most
  <2>2. CASE ~irq
    <3>1. room' = room \/ room' = Most(0, room - piece)  BY <1>5, <2>2, RoomAfter
    <3>2. room' = 0  BY <1>1, <1>8, <2>2, <3>1 DEF Most
    <3> QED BY <1>1, <1>2, <1>8, <2>2, <3>2
  <2> QED BY <2>1, <2>2
<1> QED BY <1>7, <1>9 DEF FPlan

\* The bursts of the packet, the last of which puts it in or stalls.
LEMMA FPlanPush ==
  ASSUME WAll, FPlan, Packets \subseteq 1..Depth, ServePush \/ StallEnds
  PROVE  FPlan'
<1> USE DEF fixed
<1>1. CASE ServePush /\ Owed > 0 /\ BurstDone
  <2>1. wpc = "push" /\ irq' = irq  BY <1>1 DEF ServePush
  <2>2. wpc' = AfterBurst /\ inq' = inq
    <3>1. ~(Owed = 0)  BY <1>1, <2>1, OwedIs
    <3> QED BY <1>1, <3>1 DEF ServePush
  <2>3. wout > Burst
    <3>1. wcall.n \in Packets /\ wcall.n \in Nat  BY <2>1, CallIs
    <3>2. sent = 0 /\ piece = wcall.n
      <4>1. wcall.n <= Depth  BY <3>1, Lengths
      <4> QED BY <2>1, <4>1 DEF WAll, WPlan, Whole
    <3>3. wcall.n - (sent + piece) = 0  BY <3>1, <3>2
    <3> DEFINE b == Burst
    <3>4. Owed = (wcall.n - (sent + piece)) + (wout - b) /\ b \in Nat /\ wout \in Nat
      <4>1. wout \in 0..(Depth + 1) /\ Depth \in Nat  BY Lengths DEF WAll, WTypes
      <4> QED BY <2>1, <4>1, OwedIs
    <3> HIDE DEF b
    <3>5. wout > b  BY <1>1, <3>3, <3>4
    <3> QED BY <3>5 DEF b
  <2>4. UNCHANGED <<room, wcall>> /\ wpc' = "push"  BY <1>1, <2>2, <2>3 DEF BurstDone, AfterBurst
  <2>5. SumOf(inq) + wcall'.n <= Depth  BY <2>1, <2>4 DEF FPlan
  <2> QED BY <2>1, <2>2, <2>4, <2>5, FPlanKept
<1>2. CASE ServePush /\ Owed = 0 /\ BurstDone /\ DriveIn(AfterBurst) /\ inq' = Append(inq, wcall.n)
  <2>1. wpc = "push" /\ irq' = irq  BY <1>2 DEF ServePush
  <2> QED BY <1>2, <2>1, FPlanIn
<1>3. CASE ServePush /\ wpc' = "stalled" /\ UNCHANGED <<wcall, room, inq>>
  <2>1. wpc = "push" /\ irq' = irq  BY <1>3 DEF ServePush
  <2>2. SumOf(inq) + wcall'.n <= Depth  BY <1>3, <2>1 DEF FPlan
  <2> QED BY <1>3, <2>1, <2>2, FPlanKept
<1>4. CASE StallEnds
  <2>1. /\ wpc = "stalled" /\ irq' = irq /\ BurstDone /\ DriveIn(AfterBurst)
        /\ inq' = Append(inq, wcall.n)
    BY <1>4 DEF StallEnds
  <2> QED BY <2>1, FPlanIn
<1> QED BY <1>1, <1>2, <1>3, <1>4 DEF ServePush

\* The kernel takes a packet: more room.
LEMMA FPlanTakes ==
  ASSUME WAll, FPlan, KernelTakes
  PROVE  FPlan'
<1>1. /\ inq # <<>> /\ inq' = Tail(inq) /\ DriveIn(wpc)
      /\ UNCHANGED <<irq, wcall, room, wgot>>
  BY DEF KernelTakes, fixed
<1>2. wpc' = wpc \/ (wpc = "asleep" /\ wpc' = "woken")  BY <1>1 DEF DriveIn, Rise
<1>3. /\ inq \in Seq(Nat) /\ SumOf(inq) \in Nat /\ Depth \in Nat /\ room \in Nat /\ wgot \in Nat
  BY InIs
<1> DEFINE h == Head(inq)  s == SumOf(inq)  t == SumOf(inq')
<1>4. h \in Nat /\ t \in Nat /\ s = h + t  BY <1>1, <1>3, SumOfTail
<1>5. wpc' \in {"push", "stalled"} => wcall.n \in Nat  BY <1>2, CallIs
<1>6. s + room <= Depth /\ (wpc' = "polled" => s + wgot <= Depth)
      /\ (wpc' \in {"push", "stalled"} => s + wcall.n <= Depth) /\ (~irq => room = 0)
  BY <1>2 DEF FPlan
<1> HIDE DEF h, s, t
<1>7. t + room <= Depth /\ (wpc' = "polled" => t + wgot <= Depth)
      /\ (wpc' \in {"push", "stalled"} => t + wcall.n <= Depth)
  BY <1>3, <1>4, <1>5, <1>6
<1> QED BY <1>1, <1>6, <1>7 DEF t, FPlan

\* Every step keeps the room of packets that fit.
LEMMA NextFPlan ==
  ASSUME HInv, FPlan, Packets \subseteq 1..Depth, [Next]_vars
  PROVE  FPlan'
<1> USE DEF HInv, fixed, writer, viewIn
<1>1. ASSUME UNCHANGED <<irq, inq, room, wpc, wgot, wcall>> PROVE FPlan'
  BY <1>1 DEF FPlan
<1>2. CASE UNCHANGED vars  BY <1>1, <1>2 DEF vars
<1>3. ASSUME NEW verb, NEW n, CallWrite(verb, n) PROVE FPlan'
  <2>1. wpc' = "next" /\ UNCHANGED <<irq, inq, room>>  BY <1>3 DEF CallWrite
  <2> QED BY <2>1, FPlanKept
<1>4. ASSUME NEW verb, NEW n, CallRead(verb, n) PROVE FPlan'
  BY <1>1, <1>4 DEF CallRead
<1>5. CASE Writer
  <2>1. CASE Travels("writer", wpc)  BY <1>1, <2>1 DEF Travels
  <2>2. CASE ServeArmIn
    <3>1. wpc' = "wait" /\ UNCHANGED <<irq, inq, room>>  BY <2>2 DEF ServeArmIn, DriveIn, Rise
    <3> QED BY <3>1, FPlanKept
  <2>3. CASE ServeVacancy
    <3>1. wpc' = "polled" /\ wgot' = Vacancy /\ UNCHANGED <<irq, inq, room>>
      BY <2>3 DEF ServeVacancy
    <3>2. SumOf(inq) + Vacancy <= Depth
      <4> DEFINE s == SumOf(inq)
      <4>1. s \in Nat /\ room \in Nat /\ Depth \in Nat /\ s + room <= Depth
        BY InIs DEF FPlan
      <4>2. s <= Depth
        <5> HIDE DEF s
        <5> QED BY <4>1
      <4> QED BY <4>2, InIs
    <3> QED BY <3>1, <3>2, FPlanKept
  <2> QED BY <1>5, <2>1, <2>2, <2>3, FPlanThink, FPlanPush DEF Writer
<1>6. CASE Kernel
  <2>1. CASE KernelRetires \/ KernelWrites  BY <1>1, <2>1 DEF KernelRetires, KernelWrites
  <2> QED BY <1>6, <2>1, FPlanTakes DEF Kernel
<1>7. CASE Reader
  <2>1. UNCHANGED <<irq, inq, room, wpc, wgot, wcall>>
    BY <1>7 DEF Reader, Travels, ReaderArms, ReaderSeesHigh, ReaderSleeps, TryNone, ReaderPolls,
       ReaderPolled, ServeArmOut, ServeOccupancy, ServePop
  <2> QED BY <1>1, <2>1
<1> QED BY <1>2, <1>3, <1>4, <1>5, <1>6, <1>7 DEF Next

\* "A packet that fits the queue waits until the queue has room for all of it ... so the bus
\* never stalls": when every packet written or pushed fits, one whose last word finds no
\* room waits for the kernel to retire what it took, never for slots of the queue.  (With
\* longer packets among them it may: the run HostRoom.)
THEOREM FittingPacketsNeverStall ==
  ASSUME Packets \subseteq 1..Depth
  PROVE  Spec => []FittingNeverStalls
<1>1. Init => FPlan
  <2> SUFFICES ASSUME Init PROVE FPlan
    OBVIOUS
  <2>1. SumOf(inq) = 0
    <3>1. inq = <<>>  BY DEF Init
    <3> QED BY <3>1, SumOfNone
  <2>2. room = 0 /\ wpc = "idle" /\ Depth \in Nat  BY Lengths DEF Init
  <2> QED BY <2>1, <2>2 DEF FPlan
<1>2. HInv /\ FPlan /\ [Next]_vars => FPlan'  BY NextFPlan
<1>3. ASSUME HInv, FPlan PROVE FittingNeverStalls
  <2> SUFFICES ASSUME wpc = "stalled" PROVE Vacancy >= wcall.n
    BY DEF FittingNeverStalls
  <2> DEFINE s == SumOf(inq)
  <2>1. s \in Nat /\ Depth \in Nat /\ wcall.n \in Nat /\ s + wcall.n <= Depth
    BY <1>3, InIs, CallIs DEF HInv, FPlan
  <2>2. Vacancy = Most(0, Depth - s)  BY DEF Vacancy
  <2> HIDE DEF s
  <2> QED BY <2>1, <2>2 DEF Most
<1>4. HInv /\ FPlan => FittingNeverStalls  BY <1>3
<1> QED BY <1>1, <1>2, <1>4, HostInductive, PTL DEF Spec
=============================================================================
