---------------------------- MODULE CreditStream ----------------------------
(***************************************************************************)
(* waveflow/hw/reverse_stream.py: a forward stream whose producer counts   *)
(* the room it may use, and a reverse stream of cumulative word counts     *)
(* that tells it how much the consumer has consumed.                       *)
(*                                                                         *)
(* Producer and consumer are two SimPy processes: a step of the model is   *)
(* what one of them does between two yields.  Both streams are StreamIF    *)
(* channels: the forward one is written with the blocking write, the       *)
(* reverse one with offer, which decides that it is blocked before the     *)
(* word's transfer time and drops the word after it.                       *)
(***************************************************************************)
EXTENDS Sequences, WrapCounter

CONSTANTS
  Depth,        \* CreditStreamIF.depth: the forward FIFO, in words
  RespWords,    \* words of it that only a response may use
  CrdEvery,     \* the consumer offers credit every CrdEvery words
  CreditDepth,  \* CreditStreamIF.credit_depth: the reverse FIFO, in words
  CreditDrain,  \* CREDIT_DRAIN: credit values polled after a wake
  Modulus,      \* 2^ctr_bits
  Truncates,    \* may the consumer read with nwords_max shorter than a burst?
  MaxWords      \* bound: words written in a behaviour

ASSUME CreditAssumption ==
  /\ Depth \in Nat /\ RespWords \in Nat /\ RespWords < Depth
  /\ CrdEvery \in Nat \ {0}
  /\ CreditDepth \in Nat \ {0} /\ CreditDrain \in Nat
  /\ Modulus \in Nat /\ Depth < Modulus
  /\ Truncates \in BOOLEAN
  /\ MaxWords \in Nat

VARIABLES
  \* CreditStreamMasterIF
  pc,        \* "idle", "wait" (blocked in crd_ep.get), "fwd" (in fwd_ep.write)
  burst,     \* words of the write in progress
  written, acked,
  respNoRoom,  \* n_resp_no_room > 0
  \* CreditStreamSlaveIF
  cpc,       \* "get", "settle" (offer, before it looks), "xfer" (offer, after)
  full,      \* what the offer in progress saw: the reverse FIFO was full
  consumed, offered,
  \* the two StreamIF channels
  fwd,       \* data_buffer of the forward channel: [n |-> words, end |-> history]
  nrx,       \* its nrx.level
  credits,   \* the reverse FIFO: [val |-> wire value, total |-> history]
  dropped,   \* crd_if.dropped > 0
  \* history, unbounded: words sent, taken from the FIFO, charged to consumed,
  \* told (the total that offered stands for) and known (the one acked does)
  sent, taken, used, told, known

masterVars  == <<pc, burst, written, acked, respNoRoom>>
slaveVars   == <<cpc, full, consumed, offered>>
historyVars == <<sent, taken, used, told, known>>
vars == <<masterVars, slaveVars, fwd, nrx, credits, dropped, historyVars>>

-----------------------------------------------------------------------------
\* Fault: the words not yet offered in a batch are not set aside.
MaxWriteOfRoom == Depth - RespWords

MaxWrite    == Depth - RespWords - (CrdEvery - 1)
Outstanding == Udiff(written, acked, Modulus)
Avail       == Depth - RespWords - Outstanding

Least(a, b) == IF a < b THEN a ELSE b

Init ==
  /\ pc = "idle" /\ burst = 0 /\ written = 0 /\ acked = 0 /\ respNoRoom = FALSE
  /\ cpc = "get" /\ full = FALSE /\ consumed = 0 /\ offered = 0
  /\ fwd = <<>> /\ nrx = 0 /\ credits = <<>> /\ dropped = FALSE
  /\ sent = 0 /\ taken = 0 /\ used = 0 /\ told = 0 /\ known = 0

\* Take m credit values: cumulative, so the last one read overwrites acked.
TakeCredits(m) ==
  /\ acked' = credits[m].val
  /\ known' = credits[m].total
  /\ credits' = SubSeq(credits, m + 1, Len(credits))

\* poll_credit(n): up to n get_nb, none of which yields.
PollCredit(n) ==
  /\ pc = "idle" /\ credits # <<>>
  /\ TakeCredits(Least(n, Len(credits)))
  /\ UNCHANGED <<pc, burst, written, respNoRoom, slaveVars, fwd, nrx, dropped,
                 sent, taken, used, told>>

\* A write of n words got past its admission test: fwd_ep.write(words).
StartForward(n) ==
  /\ pc' = "fwd" /\ burst' = n
  /\ UNCHANGED <<written, acked, respNoRoom, slaveVars, fwd, nrx, credits, dropped,
                 historyVars>>

\* write_nb(words) that is admitted.  A refusal returns False and changes
\* nothing but the counter n_no_room.
WriteNb(n) ==
  /\ pc = "idle" /\ sent + n <= MaxWords
  /\ n <= Avail
  /\ StartForward(n)

\* write(words): ValueError past max_write; goes ahead, or sleeps for credit.
Write(n) ==
  /\ pc = "idle" /\ sent + n <= MaxWords
  /\ n <= MaxWrite
  /\ \/ n <= Avail /\ StartForward(n)
     \/ /\ n > Avail
        /\ pc' = "wait" /\ burst' = n
        /\ UNCHANGED <<written, acked, respNoRoom, slaveVars, fwd, nrx, credits,
                       dropped, historyVars>>

\* write_resp_nb(resp): draws on the reserved words; refused, it is counted.
WriteResp(n) ==
  /\ pc = "idle" /\ sent + n <= MaxWords
  /\ n <= RespWords
  /\ \/ Depth - Outstanding >= n /\ StartForward(n)
     \/ /\ Depth - Outstanding < n
        /\ respNoRoom' = TRUE
        /\ UNCHANGED <<pc, burst, written, acked, slaveVars, fwd, nrx, credits,
                       dropped, historyVars>>

\* Fault: any credit is taken for enough, as an "if" in place of the "while".
WakeOnAnyCredit ==
  /\ pc = "wait" /\ credits # <<>>
  /\ TakeCredits(Least(1 + CreditDrain, Len(credits)))
  /\ pc' = "fwd"
  /\ UNCHANGED <<burst, written, respNoRoom, slaveVars, fwd, nrx, dropped,
                 sent, taken, used, told>>

\* The body of write's loop: a credit value arrived, then poll_credit(CREDIT_DRAIN).
WakeOnCredit ==
  /\ pc = "wait" /\ credits # <<>>
  /\ TakeCredits(Least(1 + CreditDrain, Len(credits)))
  /\ pc' = IF burst <= Depth - RespWords - Udiff(written, acked', Modulus)
             THEN "fwd" ELSE "wait"
  /\ UNCHANGED <<burst, written, respNoRoom, slaveVars, fwd, nrx, dropped,
                 sent, taken, used, told>>

\* The blocking forward write: room for the whole burst (an admitted burst is
\* never longer than Depth), the burst handed over, written counted.
ForwardDone ==
  /\ pc = "fwd" /\ nrx + burst <= Depth
  /\ nrx' = nrx + burst
  /\ fwd' = Append(fwd, [n |-> burst, end |-> sent + burst])
  /\ sent' = sent + burst
  /\ written' = Wrap(written + burst, Modulus)
  /\ pc' = "idle" /\ burst' = 0
  /\ UNCHANGED <<acked, respNoRoom, slaveVars, credits, dropped, taken, used, told, known>>

\* Fault: credit is offered after every burst, whatever CrdEvery says.
GetOffersAlways(k) ==
  /\ cpc = "get" /\ fwd # <<>>
  /\ k <= Head(fwd).n /\ (Truncates \/ k = Head(fwd).n)
  /\ fwd' = Tail(fwd) /\ nrx' = nrx - Head(fwd).n /\ taken' = Head(fwd).end
  /\ consumed' = Wrap(consumed + k, Modulus) /\ used' = used + k
  /\ offered' = consumed' /\ told' = used' /\ cpc' = "settle"
  /\ UNCHANGED <<masterVars, full, credits, dropped, sent, known>>

\* get(): one burst, of which k words are charged (k < n: nwords_max cut it);
\* the consumer starts an offer once CrdEvery words are unoffered.
Get(k) ==
  /\ cpc = "get" /\ fwd # <<>>
  /\ k <= Head(fwd).n /\ (Truncates \/ k = Head(fwd).n)
  /\ fwd' = Tail(fwd) /\ nrx' = nrx - Head(fwd).n /\ taken' = Head(fwd).end
  /\ consumed' = Wrap(consumed + k, Modulus) /\ used' = used + k
  /\ \/ /\ Udiff(consumed', offered, Modulus) >= CrdEvery
        /\ offered' = consumed' /\ told' = used'
        /\ cpc' = "settle"
     \/ /\ Udiff(consumed', offered, Modulus) < CrdEvery
        /\ UNCHANGED <<offered, told, cpc>>
  /\ UNCHANGED <<masterVars, full, credits, dropped, sent, known>>

\* offer: the question is asked once, before the word's transfer time.
OfferLooks ==
  /\ cpc = "settle"
  /\ full' = (Len(credits) >= CreditDepth)
  /\ cpc' = "xfer"
  /\ UNCHANGED <<masterVars, consumed, offered, fwd, nrx, credits, dropped, historyVars>>

\* Fault: the newest credit in front of the older ones.
OfferEndsFirst ==
  /\ cpc = "xfer"
  /\ credits' = IF full THEN credits ELSE <<[val |-> offered, total |-> told]>> \o credits
  /\ dropped' = (dropped \/ full)
  /\ cpc' = "get" /\ full' = FALSE
  /\ UNCHANGED <<masterVars, consumed, offered, fwd, nrx, historyVars>>

\* ... and the word is dropped or admitted after it.
OfferEnds ==
  /\ cpc = "xfer"
  /\ \/ full /\ dropped' = TRUE /\ UNCHANGED credits
     \/ /\ ~full
        /\ credits' = Append(credits, [val |-> offered, total |-> told])
        /\ UNCHANGED dropped
  /\ cpc' = "get" /\ full' = FALSE
  /\ UNCHANGED <<masterVars, consumed, offered, fwd, nrx, historyVars>>

\* The producer has nothing more to write and the consumer nothing to read.
Quiet ==
  /\ pc = "idle" /\ cpc = "get" /\ fwd = <<>>
  /\ UNCHANGED vars

Producer ==
  \/ \E n \in 1..(CreditDrain + 1) : PollCredit(n)
  \/ \E n \in 1..Depth : WriteNb(n) \/ Write(n) \/ WriteResp(n)
  \/ WakeOnCredit
  \/ ForwardDone

Consumer ==
  \/ \E k \in 1..Depth : Get(k)
  \/ OfferLooks
  \/ OfferEnds

Next == Producer \/ Consumer \/ Quiet

\* SimPy resumes every process whose event has fired: a write in progress and
\* a waiting read go on, and the consumer keeps reading.  Nothing says the
\* producer writes or polls again.
Fairness == WF_vars(WakeOnCredit) /\ WF_vars(ForwardDone) /\ WF_vars(Consumer)

Spec == Init /\ [][Next]_vars /\ Fairness

-----------------------------------------------------------------------------
Burst  == [n : 1..Depth, end : Nat]
Credit == [val : 0..(Modulus - 1), total : Nat]

\* Every variable has the type the code gives it; the counters stay in their width.
TypeOK ==
  /\ pc \in {"idle", "wait", "fwd"} /\ burst \in 0..Depth
  /\ written \in 0..(Modulus - 1) /\ acked \in 0..(Modulus - 1)
  /\ respNoRoom \in BOOLEAN
  /\ cpc \in {"get", "settle", "xfer"} /\ full \in BOOLEAN
  /\ consumed \in 0..(Modulus - 1) /\ offered \in 0..(Modulus - 1)
  /\ fwd \in Seq(Burst) /\ nrx \in Nat
  /\ credits \in Seq(Credit) /\ dropped \in BOOLEAN
  /\ sent \in Nat /\ taken \in Nat /\ used \in Nat /\ told \in Nat /\ known \in Nat

\* The masked difference the producer computes is the exact number of words it
\* has not heard of, through every wrap of the counters, and what it has heard
\* of has really left the FIFO ("a lower bound on the truth", acked's comment).
CreditExact == Outstanding = sent - known /\ known <= used /\ used <= taken

\* A write that passed its admission test finds room: "a write it admits can
\* never stall" (avail, and the point of the whole interface).  It holds even
\* when credits are dropped and a truncating read never credits some words.
NeverStalls == pc = "fwd" => nrx + burst <= Depth

\* Credits arrive in order: however stale, acked never moves back in the true
\* count, although its wire value wraps ("the newest value simply overwrites").
CreditMonotone == [][known' >= known]_vars

\* With a reverse FIFO as deep as the credits that can be unread at once, no
\* credit is dropped.  CreditStreamIF leaves that sizing to a rate argument.
NoCreditLost == (CreditDepth + 1) * CrdEvery > Depth => ~dropped

\* "... so a wait always ends": max_write's docstring.
WaitEnds == (pc = "wait") ~> (pc # "wait")

\* n_resp_no_room: "Expected permanently zero -- the headroom is reserved
\* precisely so this cannot happen".
RespAlwaysFits == ~respNoRoom
=============================================================================
