---------------------------- MODULE LockedMemProofs ----------------------------
(***************************************************************************)
(* What holds of the locked memory for every size of the memory, period of *)
(* the owner and depth of the two streams: the ends agree, the protocol    *)
(* raises no error it has "no way to recover" from, the wait for a grant   *)
(* is two periods, and accesses overlap only when the owner's goes around  *)
(* the whole region the requester holds.                                   *)
(*                                                                         *)
(* The argument: at any time the handover is in one of seven phases, and   *)
(* the phase says where its messages are, who has the region and how long  *)
(* the requester has waited.                                               *)
(***************************************************************************)
EXTENDS LockedMem, TLAPS, SequenceTheorems

Message == [op : {"acquire", "release", "granted", "badrange"}, region : Regions]
Region  == [lo : 0..NElem, hi : 0..NElem]

OneCommand(op)     == Len(cmds) = 1 /\ cmds[1].op = op
TwoCommands(op, p) == Len(cmds) = 2 /\ cmds[1].op = op /\ cmds[2].op = p
Working == opc \in {"work", "access"}

\* What a response on its way says of the owner's state.
Verdict(a) ==
  \/ a.op = "granted" /\ CheckRegion(a.region) /\ yielded = a.region
  \/ a.op = "badrange" /\ yielded = None

\* Nothing is on its way; the region is held, or there is none.
Quiet ==
  /\ rpc \in {"idle", "access"} /\ cmds = <<>> /\ resps = <<>> /\ Working
  /\ yielded = held /\ waited = 0

\* A RELEASE is on its way.
Freeing ==
  /\ held = None /\ yielded # None /\ resps = <<>> /\ Working /\ waited = 0
  /\ \/ rpc = "send" /\ msg.op = "release" /\ cmds = <<>>
     \/ rpc = "idle" /\ OneCommand("release")

\* An ACQUIRE follows a RELEASE that was not polled: it has waited no longer than
\* the period in progress.
AskingBehind ==
  /\ held = None /\ yielded # None /\ resps = <<>> /\ Working
  /\ \/ rpc = "send" /\ msg.op = "acquire" /\ OneCommand("release")
     \/ rpc = "resp" /\ TwoCommands("release", "acquire")
  /\ prompt => waited <= done

\* An ACQUIRE is the next command; at most one period went by before this one.
AskingFirst ==
  /\ held = None /\ yielded = None /\ resps = <<>> /\ Working
  /\ \/ /\ rpc = "send" /\ msg.op = "acquire" /\ cmds = <<>>
        /\ prompt => waited = 0 \/ (waited <= CheckPeriod /\ done = 0)
     \/ /\ rpc = "resp" /\ OneCommand("acquire")
        /\ prompt => waited <= CheckPeriod + done

\* The owner has the ACQUIRE, ...
Waiting ==
  /\ held = None /\ rpc = "resp" /\ cmds = <<>>
  /\ prompt => waited <= 2 * CheckPeriod

Judging == Waiting /\ opc = "asked" /\ answer.op = "acquire" /\ yielded = None /\ resps = <<>>

\* ... is sending its response, ...
Replying == Waiting /\ opc = "reply" /\ Verdict(answer) /\ resps = <<>>

\* ... and has sent it.
Answered == Waiting /\ Working /\ Len(resps) = 1 /\ Verdict(resps[1])

Phase == Quiet \/ Freeing \/ AskingBehind \/ AskingFirst \/ Judging \/ Replying \/ Answered

\* An access in progress is one the guard let start, and the guard still would.
Accesses ==
  /\ rpc = "access" => held # None /\ rext \in Extents /\ RequesterMayAccess(rext)
  /\ opc = "access" => /\ oext \in Extents /\ OwnerMayAccess(oext)
                       /\ done + (oext.hi - oext.lo) <= CheckPeriod

\* The types, by who has the variables.
RequesterTypes ==
  /\ rpc \in {"idle", "send", "resp", "access"} /\ msg \in Message \cup {NoMsg}
  /\ held \in Region \cup {None} /\ rext \in Extents \cup {None}
OwnerTypes ==
  /\ opc \in {"work", "access", "asked", "reply"} /\ answer \in Message \cup {NoMsg}
  /\ yielded \in Region \cup {None} /\ oext \in Extents \cup {None}
  /\ done \in 0..CheckPeriod /\ clash \in BOOLEAN
StreamTypes ==
  /\ cmds \in Seq(Message) /\ Len(cmds) <= QueueDepth
  /\ resps \in Seq(Message) /\ Len(resps) <= QueueDepth
Types == RequesterTypes /\ OwnerTypes /\ StreamTypes /\ prompt \in BOOLEAN /\ waited \in Nat

IInv == Types /\ NeverClash /\ Phase /\ Accesses

-----------------------------------------------------------------------------
\* The parts are the whole.
LEMMA TypesSuffice == Types => TypeOK
BY DEF Types, RequesterTypes, OwnerTypes, StreamTypes, TypeOK, Message, Region

\* A region that was checked is one the ends can hold; what they hold can be sent.
LEMMA RegionsFit ==
  /\ \A r \in Regions : CheckRegion(r) => r \in Region /\ r # None
  /\ Region \subseteq Regions /\ None \notin Regions
BY LockAssumption DEF Regions, Region, CheckRegion, None

\* Streams hold two messages at most: what is put and taken.
LEMMA PutFirst ==
  ASSUME NEW S, NEW x \in S
  PROVE  /\ Append(<<>>, x) \in Seq(S)
         /\ Len(Append(<<>>, x)) = 1 /\ Append(<<>>, x)[1] = x
<1>1. <<>> \in Seq(S) /\ Len(<<>>) = 0  BY EmptySeq
<1> QED BY <1>1, AppendProperties

LEMMA PutSecond ==
  ASSUME NEW S, NEW q \in Seq(S), Len(q) = 1, NEW x \in S
  PROVE  /\ Append(q, x) \in Seq(S) /\ Len(Append(q, x)) = 2
         /\ Append(q, x)[1] = q[1] /\ Append(q, x)[2] = x
<1>1. Append(q, x) \in Seq(S) /\ Len(Append(q, x)) = Len(q) + 1  BY AppendProperties
<1>2. Append(q, x)[Len(q) + 1] = x  BY AppendProperties
<1>3. \A i \in 1..Len(q) : Append(q, x)[i] = q[i]  BY AppendProperties
<1>4. 1 \in 1..Len(q) /\ Len(q) + 1 = 2  OBVIOUS
<1> QED BY <1>1, <1>2, <1>3, <1>4

LEMMA TakeOnly ==
  ASSUME NEW S, NEW q \in Seq(S), Len(q) = 1
  PROVE  q # <<>> /\ Head(q) = q[1] /\ q[1] \in S /\ Tail(q) = <<>>
<1>1. q # <<>>  BY EmptySeq
<1>2. Head(q) = q[1] /\ q[1] \in S  BY <1>1, HeadTailProperties
<1>3. Tail(q) \in Seq(S) /\ Len(Tail(q)) = 0  BY <1>1, HeadTailProperties
<1> QED BY <1>1, <1>2, <1>3, EmptySeq

LEMMA TakeFirst ==
  ASSUME NEW S, NEW q \in Seq(S), Len(q) = 2
  PROVE  /\ q # <<>> /\ Head(q) = q[1] /\ q[1] \in S
         /\ Tail(q) \in Seq(S) /\ Len(Tail(q)) = 1 /\ Tail(q)[1] = q[2]
<1>1. q # <<>>  BY EmptySeq
<1>2. Head(q) = q[1] /\ q[1] \in S  BY <1>1, HeadTailProperties
<1> DEFINE t == Tail(q)
<1>3. /\ t \in Seq(S) /\ Len(t) = Len(q) - 1
      /\ \A i \in 1..Len(t) : t[i] = q[i + 1]
  BY <1>1, HeadTailProperties
<1> HIDE DEF t
<1>4. Len(t) = 1  BY <1>3
<1>5. t[1] = q[1 + 1] /\ 1 + 1 = 2  BY <1>3, <1>4
<1>6. t \in Seq(S) /\ Len(t) = 1 /\ t[1] = q[2]  BY <1>3, <1>4, <1>5
<1> QED BY <1>1, <1>2, <1>6 DEF t

\* The initial state: nothing on its way, nothing held.
LEMMA InitIInv == Init => IInv
<1> SUFFICES ASSUME Init PROVE IInv  OBVIOUS
<1> USE DEF Init
<1>1. Types
  <2>1. <<>> \in Seq(Message) /\ Len(<<>>) = 0  BY EmptySeq
  <2>2. StreamTypes  BY <2>1, LockAssumption DEF StreamTypes
  <2>3. RequesterTypes  BY DEF RequesterTypes
  <2>4. 0 \in 0..CheckPeriod /\ FALSE \in BOOLEAN  BY LockAssumption
  <2>5. OwnerTypes  BY <2>4 DEF OwnerTypes
  <2> QED BY <2>2, <2>3, <2>5 DEF Types
<1>2. NeverClash /\ Phase /\ Accesses  BY DEF NeverClash, Phase, Quiet, Working, Accesses
<1> QED BY <1>1, <1>2 DEF IInv

-----------------------------------------------------------------------------
\* The requester asks: nothing is on its way, or its RELEASE still is.
LEMMA AcquireStep ==
  ASSUME IInv, NEW r \in Regions, Acquire(r) PROVE IInv'
<1> USE DEF Acquire, ownVars
<1>1. Types'
  <2>1. msg' \in Message  BY DEF Message
  <2>2. RequesterTypes'  BY <2>1 DEF IInv, Types, RequesterTypes
  <2> QED BY <2>2 DEF IInv, Types, OwnerTypes, StreamTypes
<1>2. NeverClash' /\ Accesses'
  BY DEF IInv, NeverClash, Accesses, RequesterMayAccess, RequesterMayTouch,
         OwnerMayAccess, OwnerMayTouch
<1>3. CASE Quiet
  <2>1. AskingFirst'  BY <1>3 DEF Quiet, AskingFirst, Working
  <2> QED BY <1>1, <1>2, <2>1 DEF IInv, Phase
<1>4. CASE Freeing
  <2>1. done \in Nat  BY DEF IInv, Types, OwnerTypes
  <2>2. AskingBehind'  BY <1>4, <2>1 DEF Freeing, AskingBehind, Working, OneCommand
  <2> QED BY <1>1, <1>2, <2>2 DEF IInv, Phase
<1>5. Quiet \/ Freeing
  BY DEF IInv, Phase, AskingBehind, AskingFirst, Judging, Replying, Answered, Waiting
<1> QED BY <1>3, <1>4, <1>5

\* The requester gives back what it held.
LEMMA ReleaseStep == ASSUME IInv, Release PROVE IInv'
<1> USE DEF Release, ownVars
<1>1. Types'
  <2>1. msg' \in Message  BY RegionsFit DEF Message, IInv, Types, RequesterTypes
  <2>2. RequesterTypes'  BY <2>1 DEF IInv, Types, RequesterTypes
  <2> QED BY <2>2 DEF IInv, Types, OwnerTypes, StreamTypes
<1>2. NeverClash' /\ Accesses'
  BY DEF IInv, NeverClash, Accesses, OwnerMayAccess, OwnerMayTouch
<1>3. Quiet
  BY DEF IInv, Phase, Freeing, AskingBehind, AskingFirst, Judging, Replying, Answered, Waiting
<1>4. Freeing'  BY <1>3 DEF Quiet, Freeing, Working
<1> QED BY <1>1, <1>2, <1>4 DEF IInv, Phase

\* A command lands: behind a RELEASE, or in an empty stream.
LEMMA CommandLandsStep == ASSUME IInv, CommandLands PROVE IInv'
<1> USE DEF CommandLands, ownVars
<1>1. NeverClash' /\ Accesses'
  BY DEF IInv, NeverClash, Accesses, RequesterMayAccess, RequesterMayTouch,
         OwnerMayAccess, OwnerMayTouch
<1>2. ASSUME StreamTypes' PROVE Types'
  BY <1>2 DEF IInv, Types, RequesterTypes, OwnerTypes
<1>3. CASE Freeing
  <2>1. cmds = <<>> /\ msg.op = "release"  BY <1>3 DEF Freeing
  <2>2. msg \in Message  BY <2>1 DEF IInv, Types, RequesterTypes, NoMsg
  <2>3. /\ cmds' \in Seq(Message) /\ Len(cmds') = 1 /\ cmds'[1] = msg
    BY <2>1, <2>2, PutFirst
  <2>4. StreamTypes'  BY <2>3, LockAssumption DEF IInv, Types, StreamTypes
  <2>5. Freeing'  BY <1>3, <2>1, <2>3 DEF Freeing, OneCommand, Working
  <2> QED BY <1>1, <1>2, <2>4, <2>5 DEF IInv, Phase
<1>4. CASE AskingFirst
  <2>1. cmds = <<>> /\ msg.op = "acquire"  BY <1>4 DEF AskingFirst
  <2>2. msg \in Message  BY <2>1 DEF IInv, Types, RequesterTypes, NoMsg
  <2>3. /\ cmds' \in Seq(Message) /\ Len(cmds') = 1 /\ cmds'[1] = msg
    BY <2>1, <2>2, PutFirst
  <2>4. StreamTypes'  BY <2>3, LockAssumption DEF IInv, Types, StreamTypes
  <2>5. prompt => waited <= CheckPeriod + done
    BY <1>4, LockAssumption DEF AskingFirst, IInv, Types, OwnerTypes
  <2>6. AskingFirst'  BY <1>4, <2>1, <2>3, <2>5 DEF AskingFirst, OneCommand, Working
  <2> QED BY <1>1, <1>2, <2>4, <2>6 DEF IInv, Phase
<1>5. CASE AskingBehind
  <2>1. OneCommand("release") /\ msg.op = "acquire"  BY <1>5 DEF AskingBehind
  <2>2. msg \in Message /\ cmds \in Seq(Message)
    BY <2>1 DEF IInv, Types, RequesterTypes, StreamTypes, NoMsg
  <2>3. /\ cmds' \in Seq(Message) /\ Len(cmds') = 2 /\ cmds'[1] = cmds[1] /\ cmds'[2] = msg
    BY <2>1, <2>2, PutSecond DEF OneCommand
  <2>4. StreamTypes'
    <3>1. Len(cmds') <= QueueDepth  BY <2>1, <2>3, LockAssumption DEF OneCommand
    <3> QED BY <2>3, <3>1 DEF IInv, Types, StreamTypes
  <2>5. AskingBehind'
    BY <1>5, <2>1, <2>3 DEF AskingBehind, OneCommand, TwoCommands, Working
  <2> QED BY <1>1, <1>2, <2>4, <2>5 DEF IInv, Phase
<1>6. Freeing \/ AskingFirst \/ AskingBehind
  BY DEF IInv, Phase, Quiet, Judging, Replying, Answered, Waiting
<1> QED BY <1>3, <1>4, <1>5, <1>6

\* The response comes in: what it grants is what the owner yielded.
LEMMA GetResponseStep == ASSUME IInv, GetResponse PROVE IInv'
<1> USE DEF GetResponse, ownVars
<1>1. Answered
  BY DEF IInv, Phase, Quiet, Freeing, AskingBehind, AskingFirst, Judging, Replying
<1>2. /\ Head(resps) = resps[1] /\ resps[1] \in Message /\ resps' = <<>>
  BY <1>1, TakeOnly DEF Answered, IInv, Types, StreamTypes
<1>3. held' = yielded
  BY <1>1, <1>2 DEF Answered, Waiting, Verdict
<1>4. Types'
  <2>1. RequesterTypes'  BY <1>3 DEF IInv, Types, RequesterTypes, OwnerTypes
  <2>2. <<>> \in Seq(Message) /\ Len(<<>>) = 0  BY EmptySeq
  <2>3. StreamTypes'  BY <1>2, <2>2, LockAssumption DEF IInv, Types, StreamTypes
  <2> QED BY <2>1, <2>3 DEF IInv, Types, OwnerTypes
<1>5. NeverClash' /\ Accesses'
  BY DEF IInv, NeverClash, Accesses, OwnerMayAccess, OwnerMayTouch
<1>6. Quiet'  BY <1>1, <1>2, <1>3 DEF Answered, Waiting, Quiet, Working
<1> QED BY <1>4, <1>5, <1>6 DEF IInv, Phase

\* An access of the requester starts where its guard lets it, and ends.
LEMMA RequesterAccessStep ==
  ASSUME IInv, (\E x \in Extents : RequesterStarts(x)) \/ RequesterEnds PROVE IInv'
<1> USE DEF RequesterStarts, RequesterEnds, ownVars
<1>1. Types'  BY DEF IInv, Types, RequesterTypes, OwnerTypes, StreamTypes
<1>2. NeverClash' /\ Accesses'
  BY DEF IInv, NeverClash, Accesses, RequesterMayAccess, RequesterMayTouch,
         OwnerMayAccess, OwnerMayTouch
<1>3. Quiet
  BY DEF IInv, Phase, Freeing, AskingBehind, AskingFirst, Judging, Replying, Answered, Waiting
<1>4. Quiet'  BY <1>3 DEF Quiet, Working
<1> QED BY <1>1, <1>2, <1>4 DEF IInv, Phase

-----------------------------------------------------------------------------
\* n elements of the owner's work, of either kind, leave the phase as it is.  With
\* prompt messages an ACQUIRE being sent or a response not taken stops the work, so
\* the wait grows with the period only while the ACQUIRE is in the stream.
LEMMA PhaseOfWork ==
  ASSUME IInv, NEW n \in Nat, Working, Working', InTime, Worked(n),
         UNCHANGED <<prompt, rpc, msg, held, yielded, cmds, resps>>
  PROVE  Phase' /\ waited' \in Nat
<1> USE DEF Worked
<1>1. /\ waited \in Nat /\ done \in Nat /\ CheckPeriod \in Nat \ {0} /\ QueueDepth \in Nat \ {0}
      /\ prompt \in BOOLEAN
  BY LockAssumption DEF IInv, Types, OwnerTypes
<1>2. waited' \in Nat  BY <1>1
<1>3. CASE Quiet
  <2>1. Quiet'  BY <1>3 DEF Quiet, Acquiring
  <2> QED BY <1>2, <2>1 DEF Phase
<1>4. CASE Freeing
  <2>1. Freeing'  BY <1>4 DEF Freeing, Acquiring, OneCommand
  <2> QED BY <1>2, <2>1 DEF Phase
<1>5. CASE AskingBehind
  <2>1. prompt => waited' <= done'  BY <1>1, <1>5 DEF AskingBehind
  <2>2. AskingBehind'  BY <1>5, <2>1 DEF AskingBehind, OneCommand, TwoCommands
  <2> QED BY <1>2, <2>2 DEF Phase
<1>6. CASE AskingFirst
  <2>1. CASE rpc = "send"
    <3>1. cmds = <<>> /\ Len(cmds) = 0  BY <1>6, <2>1, EmptySeq DEF AskingFirst
    <3>2. ~prompt  BY <1>1, <2>1, <3>1 DEF InTime
    <3>3. AskingFirst'  BY <1>6, <2>1, <3>1, <3>2 DEF AskingFirst
    <3> QED BY <1>2, <3>3 DEF Phase
  <2>2. CASE rpc = "resp"
    <3>1. prompt => waited' <= CheckPeriod + done'  BY <1>1, <1>6, <2>2 DEF AskingFirst
    <3>2. AskingFirst'  BY <1>6, <2>2, <3>1 DEF AskingFirst, OneCommand
    <3> QED BY <1>2, <3>2 DEF Phase
  <2> QED BY <1>6, <2>1, <2>2 DEF AskingFirst
<1>7. CASE Answered
  <2>1. rpc = "resp" /\ resps # <<>>
    BY <1>7, TakeOnly DEF Answered, Waiting, IInv, Types, StreamTypes
  <2>2. ~prompt  BY <2>1 DEF InTime
  <2>3. Answered'  BY <1>7, <2>2 DEF Answered, Waiting, Verdict
  <2> QED BY <1>2, <2>3 DEF Phase
<1>8. ~Judging /\ ~Replying  BY DEF Judging, Replying, Working
<1> QED BY <1>3, <1>4, <1>5, <1>6, <1>7, <1>8 DEF IInv, Phase

\* An access of the owner starts where its guard lets it, within the period.
LEMMA OwnerStartsStep == ASSUME IInv, NEW x \in Extents, OwnerStarts(x) PROVE IInv'
<1> USE DEF OwnerStarts, reqVars
<1>1. Types'  BY DEF IInv, Types, RequesterTypes, OwnerTypes, StreamTypes
<1>2. NeverClash' /\ Accesses'
  BY DEF IInv, NeverClash, Accesses, RequesterMayAccess, RequesterMayTouch,
         OwnerMayAccess, OwnerMayTouch
<1>3. Phase'
  BY DEF IInv, Phase, Quiet, Freeing, AskingBehind, AskingFirst, Waiting, Judging, Replying,
         Answered, Working, OneCommand, TwoCommands, Verdict
<1> QED BY <1>1, <1>2, <1>3 DEF IInv

LEMMA OwnerEndsStep == ASSUME IInv, OwnerEnds PROVE IInv'
<1> USE DEF OwnerEnds, reqVars
<1> DEFINE n == oext.hi - oext.lo
<1>1. n \in Nat /\ done + n <= CheckPeriod /\ done \in Nat /\ CheckPeriod \in Nat
  BY LockAssumption DEF IInv, Accesses, Extents, Types, OwnerTypes
<1>2. Worked(n) /\ Working /\ Working' /\ InTime  BY DEF Working
<1> HIDE DEF n
<1>3. Phase' /\ waited' \in Nat  BY <1>1, <1>2, PhaseOfWork
<1>4. Types'
  <2>1. done' \in 0..CheckPeriod  BY <1>1, <1>2 DEF Worked
  <2> QED BY <1>3, <2>1 DEF IInv, Types, RequesterTypes, OwnerTypes, StreamTypes
<1>5. NeverClash' /\ Accesses'
  BY DEF IInv, NeverClash, Accesses, RequesterMayAccess, RequesterMayTouch
<1> QED BY <1>3, <1>4, <1>5 DEF IInv

LEMMA OwnerFillsStep == ASSUME IInv, NEW n \in Nat, OwnerFills(n) PROVE IInv'
<1> USE DEF OwnerFills, reqVars
<1>1. done + n <= CheckPeriod /\ done \in Nat /\ CheckPeriod \in Nat
  BY LockAssumption DEF IInv, Types, OwnerTypes
<1>2. Working /\ Working'  BY DEF Working
<1>3. Phase' /\ waited' \in Nat  BY <1>2, PhaseOfWork
<1>4. Types'
  <2>1. done' \in 0..CheckPeriod  BY <1>1 DEF Worked
  <2> QED BY <1>3, <2>1 DEF IInv, Types, RequesterTypes, OwnerTypes, StreamTypes
<1>5. NeverClash' /\ Accesses'
  BY DEF IInv, NeverClash, Accesses, RequesterMayAccess, RequesterMayTouch
<1> QED BY <1>3, <1>4, <1>5 DEF IInv

\* One poll at the end of a period: nothing there, a RELEASE, or an ACQUIRE.
LEMMA PollStep == ASSUME IInv, Poll PROVE IInv'
<1> USE DEF Poll, reqVars
<1>1. Accesses'
  BY DEF IInv, Accesses, RequesterMayAccess, RequesterMayTouch
<1>2. /\ opc = "work" /\ done = CheckPeriod /\ done' = 0
      /\ CheckPeriod \in Nat \ {0} /\ 0 \in 0..CheckPeriod /\ waited \in Nat
      /\ cmds \in Seq(Message) /\ Len(cmds) <= QueueDepth /\ Len(<<>>) = 0
      /\ <<>> \in Seq(Message)
  BY LockAssumption, EmptySeq DEF IInv, Types, StreamTypes
<1>3. ~Judging /\ ~Replying  BY <1>2 DEF Judging, Replying
<1>4. CASE cmds = <<>>
  <2>1. UNCHANGED <<opc, yielded, answer, clash, cmds>>  BY <1>4
  <2>2. Types'  BY <1>2, <2>1 DEF IInv, Types, RequesterTypes, OwnerTypes, StreamTypes
  <2>3. NeverClash'  BY <2>1 DEF IInv, NeverClash
  <2>4. ~OneCommand("release") /\ ~OneCommand("acquire") /\ ~AskingBehind
    BY <1>2, <1>4 DEF AskingBehind, OneCommand, TwoCommands
  <2>5. Quiet => Quiet'  BY <2>1 DEF Quiet, Working
  <2>6. Freeing => Freeing'  BY <2>1, <2>4 DEF Freeing, Working
  <2>7. AskingFirst => AskingFirst'  BY <1>2, <2>1, <2>4 DEF AskingFirst, Working
  <2>8. Answered => Answered'  BY <2>1 DEF Answered, Waiting, Working, Verdict
  <2> QED BY <1>1, <1>3, <2>2, <2>3, <2>4, <2>5, <2>6, <2>7, <2>8 DEF IInv, Phase
<1>5. CASE cmds # <<>> /\ Head(cmds).op = "release"
  <2>1. /\ cmds' = Tail(cmds) /\ clash' = (clash \/ yielded = None) /\ yielded' = None
        /\ UNCHANGED <<opc, answer>>
    BY <1>5
  <2>2. CASE Freeing
    <3>1. OneCommand("release") /\ rpc = "idle" /\ yielded # None
      BY <1>5, <2>2 DEF Freeing
    <3>2. cmds' = <<>>  BY <1>2, <2>1, <3>1, TakeOnly DEF OneCommand
    <3>3. ~clash' /\ NeverClash'  BY <2>1, <3>1 DEF IInv, NeverClash
    <3>4. Types'
      <4>1. StreamTypes'
        BY <1>2, <3>2, LockAssumption DEF IInv, Types, StreamTypes
      <4>2. OwnerTypes'  BY <1>2, <2>1, <3>3 DEF IInv, Types, OwnerTypes
      <4> QED BY <4>1, <4>2 DEF IInv, Types, RequesterTypes
    <3>5. Quiet'  BY <2>1, <2>2, <3>1, <3>2 DEF Freeing, Quiet, Working
    <3> QED BY <1>1, <3>3, <3>4, <3>5 DEF IInv, Phase
  <2>3. CASE AskingBehind
    <3>1. yielded # None  BY <2>3 DEF AskingBehind
    <3>2. ~clash' /\ NeverClash'  BY <2>1, <3>1 DEF IInv, NeverClash
    <3>3. prompt => waited <= CheckPeriod /\ waited <= CheckPeriod + done'
      BY <1>2, <2>3 DEF AskingBehind
    <3>4. OwnerTypes'  BY <1>2, <2>1, <3>2 DEF IInv, Types, OwnerTypes
    <3>5. CASE OneCommand("release")
      <4>1. cmds' = <<>>  BY <1>2, <2>1, <3>5, TakeOnly DEF OneCommand
      <4>2. Types'
        BY <1>2, <3>4, <4>1, LockAssumption DEF IInv, Types, StreamTypes, RequesterTypes
      <4>3. rpc = "send" /\ msg.op = "acquire"
        BY <2>3, <3>5 DEF AskingBehind, OneCommand, TwoCommands
      <4>4. AskingFirst'
        BY <1>2, <2>1, <2>3, <3>3, <4>1, <4>3 DEF AskingBehind, AskingFirst, Working
      <4> QED BY <1>1, <3>2, <4>2, <4>4 DEF IInv, Phase
    <3>6. CASE TwoCommands("release", "acquire")
      <4>1. cmds' \in Seq(Message) /\ Len(cmds') = 1 /\ cmds'[1] = cmds[2]
        BY <1>2, <2>1, <3>6, TakeFirst DEF TwoCommands
      <4>2. Types'
        BY <1>2, <3>4, <4>1, LockAssumption DEF IInv, Types, StreamTypes, RequesterTypes
      <4>3. rpc = "resp"
        BY <2>3, <3>6 DEF AskingBehind, OneCommand, TwoCommands
      <4>4. OneCommand("acquire")'  BY <3>6, <4>1 DEF OneCommand, TwoCommands
      <4>5. AskingFirst'
        BY <2>1, <2>3, <3>3, <4>3, <4>4 DEF AskingBehind, AskingFirst, Working
      <4> QED BY <1>1, <3>2, <4>2, <4>5 DEF IInv, Phase
    <3> QED BY <2>3, <3>5, <3>6 DEF AskingBehind
  <2>4. ~Quiet /\ ~Answered  BY <1>5 DEF Quiet, Answered, Waiting
  <2>5. ~AskingFirst
    <3>1. OneCommand("acquire") => Head(cmds).op = "acquire"
      BY <1>2, TakeOnly DEF OneCommand
    <3> QED BY <1>5, <3>1 DEF AskingFirst
  <2> QED BY <1>3, <2>2, <2>3, <2>4, <2>5 DEF IInv, Phase
<1>6. CASE cmds # <<>> /\ Head(cmds).op = "acquire"
  <2>1. /\ cmds' = Tail(cmds) /\ opc' = "asked" /\ answer' = Head(cmds)
        /\ UNCHANGED <<yielded, clash>>
    BY <1>6
  <2>2. ~Quiet /\ ~Answered  BY <1>6 DEF Quiet, Answered, Waiting
  <2>3. ~Freeing /\ ~AskingBehind
    <3>1. OneCommand("release") => Head(cmds).op = "release"
      BY <1>2, TakeOnly DEF OneCommand
    <3>2. TwoCommands("release", "acquire") => Head(cmds).op = "release"
      BY <1>2, TakeFirst DEF TwoCommands
    <3> QED BY <1>6, <3>1, <3>2 DEF Freeing, AskingBehind
  <2>4. AskingFirst  BY <1>3, <2>2, <2>3 DEF IInv, Phase
  <2>5. rpc = "resp" /\ OneCommand("acquire")  BY <1>6, <2>4 DEF AskingFirst
  <2>6. cmds' = <<>> /\ answer' \in Message
    BY <1>2, <2>1, <2>5, TakeOnly DEF OneCommand
  <2>7. Types'
    <3>1. StreamTypes'  BY <1>2, <2>6, LockAssumption DEF IInv, Types, StreamTypes
    <3>2. OwnerTypes'  BY <1>2, <2>1, <2>6 DEF IInv, Types, OwnerTypes
    <3> QED BY <3>1, <3>2 DEF IInv, Types, RequesterTypes
  <2>8. NeverClash'  BY <2>1 DEF IInv, NeverClash
  <2>9. prompt => waited <= 2 * CheckPeriod  BY <1>2, <2>4, <2>5 DEF AskingFirst
  <2>10. Judging'
    BY <1>6, <2>1, <2>4, <2>5, <2>6, <2>9 DEF AskingFirst, Judging, Waiting
  <2> QED BY <1>1, <2>7, <2>8, <2>10 DEF IInv, Phase
<1> QED BY <1>4, <1>5, <1>6

\* The verdict: the region is yielded with the answer, or nothing is.
LEMMA GrantStep == ASSUME IInv, Grant PROVE IInv'
<1> USE DEF Grant, reqVars
<1>1. Accesses'
  BY DEF IInv, Accesses, RequesterMayAccess, RequesterMayTouch
<1>2. Judging
  BY DEF IInv, Phase, Quiet, Freeing, AskingBehind, AskingFirst, Replying, Answered, Working
<1>3. answer \in Message /\ answer.region \in Regions
  BY <1>2 DEF Judging, IInv, Types, OwnerTypes, NoMsg, Message
<1>4. NeverClash' /\ clash' \in BOOLEAN  BY <1>2 DEF Judging, IInv, NeverClash, Types, OwnerTypes
<1>5. answer' \in Message  BY <1>3 DEF Message
<1>6. yielded' \in Region \cup {None}
  BY <1>3, RegionsFit DEF IInv, Types, OwnerTypes
<1>7. Verdict(answer)'  BY <1>2 DEF Judging, Verdict, CheckRegion
<1>8. Types'
  BY <1>4, <1>5, <1>6 DEF IInv, Types, RequesterTypes, OwnerTypes, StreamTypes
<1>9. Replying'  BY <1>2, <1>7 DEF Judging, Replying, Waiting
<1> QED BY <1>1, <1>4, <1>8, <1>9 DEF IInv, Phase

LEMMA ResponseLandsStep == ASSUME IInv, ResponseLands PROVE IInv'
<1> USE DEF ResponseLands, reqVars
<1>1. NeverClash' /\ Accesses'
  BY DEF IInv, NeverClash, Accesses, RequesterMayAccess, RequesterMayTouch
<1>2. Replying
  BY DEF IInv, Phase, Quiet, Freeing, AskingBehind, AskingFirst, Judging, Answered, Working
<1>3. answer \in Message  BY <1>2 DEF Replying, Verdict, IInv, Types, OwnerTypes, NoMsg
<1>4. resps' \in Seq(Message) /\ Len(resps') = 1 /\ resps'[1] = answer
  BY <1>2, <1>3, PutFirst DEF Replying
<1>5. Types'
  <2>1. StreamTypes'  BY <1>4, LockAssumption DEF IInv, Types, StreamTypes
  <2> QED BY <2>1 DEF IInv, Types, RequesterTypes, OwnerTypes
<1>6. Answered'  BY <1>2, <1>4 DEF Replying, Answered, Waiting, Working, Verdict
<1> QED BY <1>1, <1>5, <1>6 DEF IInv, Phase

\* The invariant is inductive.
LEMMA NextIInv == ASSUME IInv, [Next]_vars PROVE IInv'
<1>1. CASE UNCHANGED vars
  BY <1>1 DEF vars, reqVars, ownVars, IInv, Types, RequesterTypes, OwnerTypes, StreamTypes,
     NeverClash, Phase, Quiet, Freeing, AskingBehind, AskingFirst, Waiting, Judging, Replying,
     Answered, Working, OneCommand, TwoCommands, Verdict, Accesses, RequesterMayAccess,
     RequesterMayTouch, OwnerMayAccess, OwnerMayTouch
<1>2. CASE Next
  <2>1. CASE Owner
    <3>1. 1 \in Nat  OBVIOUS
    <3> QED BY <2>1, <3>1, OwnerStartsStep, OwnerEndsStep, OwnerFillsStep, PollStep, GrantStep,
           ResponseLandsStep DEF Owner
  <2> QED BY <1>2, <2>1, AcquireStep, ReleaseStep, CommandLandsStep, GetResponseStep,
         RequesterAccessStep DEF Next
<1> QED BY <1>1, <1>2

LEMMA Inductive == Spec => []IInv
<1>1. Init => IInv  BY InitIInv
<1>2. IInv /\ [Next]_vars => IInv'  BY NextIInv
<1> QED BY <1>1, <1>2, PTL DEF Spec

-----------------------------------------------------------------------------
\* What the phase of the handover says, by what is seen of it.
LEMMA HeldQuiet == ASSUME IInv, held # None PROVE Quiet /\ yielded = held
BY DEF IInv, Phase, Quiet, Freeing, AskingBehind, AskingFirst, Waiting, Judging, Replying, Answered

LEMMA AskedJudging == ASSUME IInv, opc = "asked" PROVE Judging
BY DEF IInv, Phase, Quiet, Freeing, AskingBehind, AskingFirst, Replying, Answered, Working

LEMMA ReplyReplying == ASSUME IInv, opc = "reply" PROVE Replying
BY DEF IInv, Phase, Quiet, Freeing, AskingBehind, AskingFirst, Judging, Answered, Working

LEMMA ResponseAnswered == ASSUME IInv, resps # <<>> PROVE Answered
BY DEF IInv, Phase, Quiet, Freeing, AskingBehind, AskingFirst, Judging, Replying

LEMMA PolledAcquire ==
  ASSUME IInv, cmds # <<>>, opc = "work", Head(cmds).op = "acquire"
  PROVE  AskingFirst /\ rpc = "resp" /\ Head(cmds) = cmds[1] /\ Len(cmds) = 1
<1>1. cmds \in Seq(Message)  BY DEF IInv, Types, StreamTypes
<1>2. Head(cmds) = cmds[1]  BY <1>1, HeadTailProperties
<1>3. AskingFirst
  BY <1>2 DEF IInv, Phase, Quiet, Freeing, AskingBehind, OneCommand, TwoCommands, Waiting,
     Judging, Replying, Answered
<1> QED BY <1>2, <1>3 DEF AskingFirst, OneCommand

LEMMA PolledRelease ==
  ASSUME IInv, cmds # <<>>, opc = "work", Head(cmds).op = "release"
  PROVE  held = None /\ yielded # None /\ resps = <<>>
<1>1. cmds \in Seq(Message)  BY DEF IInv, Types, StreamTypes
<1>2. Head(cmds) = cmds[1]  BY <1>1, HeadTailProperties
<1>3. Freeing \/ AskingBehind
  BY <1>2 DEF IInv, Phase, Quiet, AskingFirst, OneCommand, TwoCommands, Waiting, Judging,
     Replying, Answered
<1> QED BY <1>3 DEF Freeing, AskingBehind

-----------------------------------------------------------------------------
\* Every variable keeps its type: no counter runs off, no stream overflows.
THEOREM TypeCorrect == Spec => []TypeOK
<1>1. IInv => TypeOK  BY TypesSuffice DEF IInv
<1> QED BY <1>1, Inductive, PTL

\* What the requester believes it holds is what the owner has yielded, whatever
\* messages are on their way: LockedMemMasterIF and LockedMemSlaveIF agree.
THEOREM EndsAgree == Spec => []HeldIsYielded
<1>1. IInv => HeldIsYielded
  BY DEF IInv, Phase, Quiet, Freeing, AskingBehind, AskingFirst, Waiting, Judging, Replying,
     Answered, HeldIsYielded
<1> QED BY <1>1, Inductive, PTL

\* grant and resume never raise: the owner is never asked out of turn.
THEOREM NoWayToClash == Spec => []NeverClash
<1>1. IInv => NeverClash  BY DEF IInv
<1> QED BY <1>1, Inductive, PTL

\* With prompt messages a grant takes two periods of the owner at the most, one for
\* a RELEASE that is ahead.
THEOREM WaitIsTwoPeriods == Spec => []WaitBounded
<1>1. IInv => WaitBounded
  <2> SUFFICES ASSUME IInv PROVE WaitBounded  OBVIOUS
  <2>1. waited \in Nat /\ done \in 0..CheckPeriod /\ CheckPeriod \in Nat
    BY LockAssumption DEF IInv, Types, OwnerTypes
  <2> QED BY <2>1 DEF IInv, Phase, Quiet, Freeing, AskingBehind, AskingFirst, Waiting,
            Judging, Replying, Answered, WaitBounded
<1> QED BY <1>1, Inductive, PTL

\* The requester never leaves what it was granted: an interval with both ends in the
\* region is in the region.
LEMMA RequesterInside ==
  ASSUME NEW r \in Region \cup {None}, NEW x \in Extents,
         x.lo \in Elements(r), x.hi - 1 \in Elements(r)
  PROVE  Elements(x) \subseteq Elements(r)
BY LockAssumption DEF Extents, Elements, Region, None

\* The owner's extent with both ends outside the region either goes around it or
\* stays away from it.
LEMMA OwnerOutside ==
  ASSUME NEW r \in Region \cup {None}, NEW x \in Extents, ~Around(x, r),
         x.lo \notin Elements(r), x.hi - 1 \notin Elements(r)
  PROVE  Elements(x) \cap Elements(r) = {}
BY LockAssumption DEF Extents, Elements, Region, None, Around

\* "Writer and reader never overlap", for accesses of every length: they share an
\* element only while the owner's extent goes around the whole region held, the one
\* case in which _check_extent's look at the two ends lets the owner into it.
THEOREM OverlapsGoAround == Spec => []OnlyAroundOverlaps
<1>1. IInv => OnlyAroundOverlaps
  <2> SUFFICES ASSUME IInv, rpc = "access", opc = "access", ~Around(oext, held)
               PROVE  Elements(rext) \cap Elements(oext) = {}
    BY DEF OnlyAroundOverlaps
  <2>1. held # None /\ rext \in Extents /\ oext \in Extents
    BY DEF IInv, Accesses
  <2>2. yielded = held /\ held \in Region \cup {None}
    BY <2>1, HeldQuiet DEF IInv, Types, RequesterTypes
  <2>3. Elements(rext) \subseteq Elements(held)
    BY <2>1, <2>2, RequesterInside DEF IInv, Accesses, RequesterMayAccess, RequesterMayTouch
  <2>4. Elements(oext) \cap Elements(held) = {}
    BY <2>1, <2>2, OwnerOutside DEF IInv, Accesses, OwnerMayAccess, OwnerMayTouch
  <2> QED BY <2>3, <2>4
<1> QED BY <1>1, Inductive, PTL
=============================================================================
