------------------------------ MODULE LockedMem ------------------------------
(***************************************************************************)
(* waveflow/hw/locked_mem.py: two modules share one memory.  The owner     *)
(* holds all of it and cannot stop; the requester asks for a region, uses  *)
(* it and gives it back.  ACQUIRE and RELEASE go forward on one stream,    *)
(* the verdict on an ACQUIRE comes back on another.                        *)
(*                                                                         *)
(* An access is an extent of elements, in progress between two steps: each *)
(* side's guard (_check_extent) is asked when it starts.  An access that   *)
(* the guard refuses raises and changes nothing, so it is not a step.      *)
(***************************************************************************)
EXTENDS Integers, Sequences

CONSTANTS
  NElem,        \* depth of the memory, in elements
  CheckPeriod,  \* elements of its own work between two polls of the owner
  MaxExtent,    \* longest access, in elements
  QueueDepth    \* cmd_depth and resp_depth of LockedT2pMemIF

ASSUME LockAssumption ==
  /\ NElem \in Nat \ {0} /\ CheckPeriod \in Nat \ {0}
  /\ MaxExtent \in Nat \ {0} /\ QueueDepth \in Nat \ {0}

VARIABLES
  prompt,   \* fixed: a message crosses its stream within an element's time
  \* the requester (LockedMemMasterIF)
  rpc,      \* "idle", "send" (in cmd_ep.write), "resp" (in resp_ep.get), "access"
  msg,      \* the command it is sending
  held,     \* the region it was granted
  rext,     \* its access in progress
  \* the owner (LockedMemSlaveIF)
  opc,      \* "work", "access", "asked" (an ACQUIRE was polled), "reply"
  yielded,  \* the region it has yielded
  oext,     \* its access in progress
  done,     \* elements of its own work since the last poll
  answer,   \* the response it is sending; before that, the region asked for
  clash,    \* grant or resume raised: the ends disagree about whose turn it is
  \* the two streams
  cmds, resps,
  waited    \* history: elements of owner's work during the acquire in
            \* progress, counted only when messages are prompt

reqVars == <<rpc, msg, held, rext>>
ownVars == <<opc, yielded, oext, done, answer, clash>>
vars == <<prompt, reqVars, ownVars, cmds, resps, waited>>

\* A region [lo, hi); an access of n elements from a is [a, a + n).
Regions  == [lo : 0..NElem, hi : 0..(NElem + 1)]
None     == [lo |-> -1, hi |-> -1]
NoMsg    == [op |-> "none", region |-> None]
Elements(r) == r.lo..(r.hi - 1)

Init ==
  /\ prompt \in BOOLEAN
  /\ rpc = "idle" /\ msg = NoMsg /\ held = None /\ rext = None
  /\ opc = "work" /\ yielded = None /\ oext = None /\ done = 0 /\ answer = NoMsg
  /\ clash = FALSE
  /\ cmds = <<>> /\ resps = <<>> /\ waited = 0

-----------------------------------------------------------------------------
\* Fault: the depth of the memory is not looked at.
CheckOrder(r) == r.lo <= r.hi

\* check_region: refused, never clamped.
CheckRegion(r) == r.lo <= r.hi /\ r.hi <= NElem

\* _RegionGuard.may_touch, of the requester and of the owner.
RequesterMayTouch(a) == a \in Elements(held)
OwnerMayTouch(a)     == a \notin Elements(yielded)

\* _check_extent: both ends of the extent and nothing between them.
RequesterMayAccess(x) == RequesterMayTouch(x.lo) /\ RequesterMayTouch(x.hi - 1)
\* Fault: the first element stands for the extent.
OwnerMayStart(x) == OwnerMayTouch(x.lo)

OwnerMayAccess(x)     == OwnerMayTouch(x.lo) /\ OwnerMayTouch(x.hi - 1)

Extents == {x \in [lo : 0..(NElem - 1), hi : 1..NElem] :
              x.lo < x.hi /\ x.hi - x.lo <= MaxExtent}

\* Fault: a second region asked for over the first.
AcquireAgain(r) ==
  /\ rpc = "idle"
  /\ rpc' = "send" /\ msg' = [op |-> "acquire", region |-> r]
  /\ UNCHANGED <<prompt, held, rext, ownVars, cmds, resps, waited>>

\* acquire(lo, hi): raises while it holds a region.
Acquire(r) ==
  /\ rpc = "idle" /\ held = None
  /\ rpc' = "send" /\ msg' = [op |-> "acquire", region |-> r]
  /\ UNCHANGED <<prompt, held, rext, ownVars, cmds, resps, waited>>

\* release(): the region is dropped before the message goes out.
Release ==
  /\ rpc = "idle" /\ held # None
  /\ rpc' = "send" /\ msg' = [op |-> "release", region |-> held] /\ held' = None
  /\ UNCHANGED <<prompt, rext, ownVars, cmds, resps, waited>>

\* cmd_ep.write returns: the message is in the stream.
CommandLands ==
  /\ rpc = "send" /\ Len(cmds) < QueueDepth
  /\ cmds' = Append(cmds, msg) /\ msg' = NoMsg
  /\ rpc' = IF msg.op = "acquire" THEN "resp" ELSE "idle"
  /\ UNCHANGED <<prompt, held, rext, ownVars, resps, waited>>

\* Fault: the status of the response is not read.
GetAnyResponse ==
  /\ rpc = "resp" /\ resps # <<>>
  /\ resps' = Tail(resps) /\ rpc' = "idle" /\ held' = Head(resps).region
  /\ waited' = 0
  /\ UNCHANGED <<prompt, msg, rext, ownVars, cmds>>

\* The rest of acquire: what the grant echoes is what it holds.
GetResponse ==
  /\ rpc = "resp" /\ resps # <<>>
  /\ resps' = Tail(resps) /\ rpc' = "idle"
  /\ held' = IF Head(resps).op = "granted" THEN Head(resps).region ELSE held
  /\ waited' = 0
  /\ UNCHANGED <<prompt, msg, rext, ownVars, cmds>>

\* read, write, read_pipelined, write_pipelined of the requester.
RequesterStarts(x) ==
  /\ rpc = "idle" /\ held # None /\ RequesterMayAccess(x)
  /\ rpc' = "access" /\ rext' = x
  /\ UNCHANGED <<prompt, msg, held, ownVars, cmds, resps, waited>>

RequesterEnds ==
  /\ rpc = "access" /\ rpc' = "idle" /\ rext' = None
  /\ UNCHANGED <<prompt, msg, held, ownVars, cmds, resps, waited>>

-----------------------------------------------------------------------------
\* Elements the owner does while the requester is between asking and holding.
Acquiring == rpc = "resp" \/ (rpc = "send" /\ msg.op = "acquire")
Worked(n) == /\ done' = done + n
             /\ waited' = IF prompt /\ Acquiring THEN waited + n ELSE waited

\* A command that has room lands, and a response is taken, before the owner's
\* next element is over.
InTime ==
  prompt => /\ ~(rpc = "send" /\ Len(cmds) < QueueDepth)
            /\ ~(rpc = "resp" /\ resps # <<>>)

OwnerStarts(x) ==
  /\ opc = "work" /\ done + (x.hi - x.lo) <= CheckPeriod
  /\ OwnerMayAccess(x)
  /\ opc' = "access" /\ oext' = x
  /\ UNCHANGED <<prompt, reqVars, yielded, done, answer, clash, cmds, resps, waited>>

OwnerEnds ==
  /\ opc = "access" /\ InTime
  /\ Worked(oext.hi - oext.lo)
  /\ opc' = "work" /\ oext' = None
  /\ UNCHANGED <<prompt, reqVars, yielded, answer, clash, cmds, resps>>

\* Fault: work away from the memory does not count towards the period.
OwnerFillsUncounted(n) ==
  /\ opc = "work" /\ done + n <= CheckPeriod /\ InTime
  /\ waited' = IF prompt /\ Acquiring THEN waited + n ELSE waited
  /\ UNCHANGED <<prompt, reqVars, ownVars, cmds, resps>>

\* It cannot stop: n elements of work away from the memory.
OwnerFills(n) ==
  /\ opc = "work" /\ done + n <= CheckPeriod /\ InTime
  /\ Worked(n)
  /\ UNCHANGED <<prompt, reqVars, opc, yielded, oext, answer, clash, cmds, resps>>

\* handle_nb, once every CheckPeriod elements: a RELEASE is applied on the spot
\* (resume), an ACQUIRE is left to the owner's state machine.
Poll ==
  /\ opc = "work" /\ done = CheckPeriod
  /\ done' = 0
  /\ \/ cmds = <<>> /\ UNCHANGED <<opc, yielded, answer, clash, cmds>>
     \/ /\ cmds # <<>> /\ Head(cmds).op = "release"
        /\ cmds' = Tail(cmds)
        /\ clash' = (clash \/ yielded = None) /\ yielded' = None
        /\ UNCHANGED <<opc, answer>>
     \/ /\ cmds # <<>> /\ Head(cmds).op = "acquire"
        /\ cmds' = Tail(cmds) /\ opc' = "asked" /\ answer' = Head(cmds)
        /\ UNCHANGED <<yielded, clash>>
  /\ UNCHANGED <<prompt, reqVars, oext, resps, waited>>

\* Fault: a refusal is not sent.
GrantOrNothing ==
  /\ opc = "asked"
  /\ \/ /\ CheckRegion(answer.region)
        /\ clash' = (clash \/ yielded # None) /\ yielded' = answer.region
        /\ answer' = [op |-> "granted", region |-> answer.region] /\ opc' = "reply"
     \/ /\ ~CheckRegion(answer.region)
        /\ answer' = NoMsg /\ opc' = "work"
        /\ UNCHANGED <<yielded, clash>>
  /\ UNCHANGED <<prompt, reqVars, oext, done, cmds, resps, waited>>

\* grant(lo, hi), the owner away from the region: yielded before the response
\* is on the wire, or refused.
Grant ==
  /\ opc = "asked" /\ opc' = "reply"
  /\ \/ /\ CheckRegion(answer.region)
        /\ clash' = (clash \/ yielded # None) /\ yielded' = answer.region
        /\ answer' = [op |-> "granted", region |-> answer.region]
     \/ /\ ~CheckRegion(answer.region)
        /\ answer' = [op |-> "badrange", region |-> answer.region]
        /\ UNCHANGED <<yielded, clash>>
  /\ UNCHANGED <<prompt, reqVars, oext, done, cmds, resps, waited>>

ResponseLands ==
  /\ opc = "reply" /\ Len(resps) < QueueDepth
  /\ resps' = Append(resps, answer) /\ answer' = NoMsg /\ opc' = "work"
  /\ UNCHANGED <<prompt, reqVars, yielded, oext, done, clash, cmds, waited>>

-----------------------------------------------------------------------------
Owner ==
  \/ \E x \in Extents : OwnerStarts(x)
  \/ OwnerEnds \/ OwnerFills(1) \/ Poll \/ Grant \/ ResponseLands

Next ==
  \/ \E r \in Regions : Acquire(r)
  \/ Release \/ CommandLands \/ GetResponse
  \/ \E x \in Extents : RequesterStarts(x)
  \/ RequesterEnds
  \/ Owner

\* The owner cannot stop, and what is sent arrives.  The application behind the
\* requester need not ask, and need not give back.
Fairness == WF_vars(Owner) /\ WF_vars(CommandLands) /\ WF_vars(GetResponse)

Spec == Init /\ [][Next]_vars /\ Fairness

-----------------------------------------------------------------------------
\* Every variable has the type the code gives it.
TypeOK ==
  LET message == [op : {"acquire", "release", "granted", "badrange"}, region : Regions]
      region  == [lo : 0..NElem, hi : 0..NElem] \cup {None}
      extent  == Extents \cup {None}
  IN  /\ prompt \in BOOLEAN /\ clash \in BOOLEAN
      /\ rpc \in {"idle", "send", "resp", "access"} /\ msg \in message \cup {NoMsg}
      /\ opc \in {"work", "access", "asked", "reply"} /\ answer \in message \cup {NoMsg}
      /\ held \in region /\ yielded \in region
      /\ rext \in extent /\ oext \in extent
      /\ done \in 0..CheckPeriod
      /\ cmds \in Seq(message) /\ Len(cmds) <= QueueDepth
      /\ resps \in Seq(message) /\ Len(resps) <= QueueDepth
      /\ waited \in Nat

\* What the requester believes it holds is what the owner has yielded, with
\* messages on their way or not.
HeldIsYielded == held # None => yielded = held

\* The two ends of x are outside r on either side.
Around(x, r) == x.lo < r.lo /\ r.hi < x.hi

\* "Writer and reader never overlap", as far as it is so for accesses of any length:
\* the two share an element only while the owner's extent goes around the whole region
\* the requester holds.  Each guard looks at two ends (_check_extent); what it lets
\* through beyond its own side is this and no more.
OnlyAroundOverlaps ==
  rpc = "access" /\ opc = "access" /\ ~Around(oext, held)
    => Elements(rext) \cap Elements(oext) = {}

\* The two RuntimeErrors of a protocol "with no way to recover" are unreachable.
NeverClash == ~clash

\* The wait for a grant is bounded: at most one RELEASE can be ahead of an
\* ACQUIRE, and each costs the owner one period of its own work.
WaitBounded == prompt => waited <= 2 * CheckPeriod

\* An ACQUIRE is answered, whatever state the handover before it was left in.
AcquireAnswered == Acquiring ~> ~Acquiring

\* "Refused if any of it has been yielded": the owner's read_pipelined.
YieldedRefused == opc = "access" => Elements(oext) \cap Elements(yielded) = {}
=============================================================================
