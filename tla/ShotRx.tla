-------------------------------- MODULE ShotRx --------------------------------
(***************************************************************************)
(* waveflow/hw/rf_shot_rx.py: a capture (the owner of LockedMem, who       *)
(* cannot stop) takes a block each firing and writes it into a free half   *)
(* of the memory, or drops it and counts; each full half is announced on   *)
(* rdy.  The window reader (the requester) acquires the announced half,    *)
(* sends it to the host behind its header and releases it.                 *)
(*                                                                         *)
(* A word is its absolute index, the number of words taken before it; the  *)
(* counters that only grow are kept modulo DropMod, 2^28 on the wire.      *)
(***************************************************************************)
EXTENDS LockedMem

CONSTANT DropMod  \* 2 ^ DROP_BW; absolute indices are compared modulo it

NRegion     == 2
RegionWords == NElem \div NRegion

ASSUME ShotRxAssumption ==
  /\ NElem % NRegion = 0 /\ RegionWords % CheckPeriod = 0 /\ MaxExtent >= RegionWords
  /\ DropMod \in Nat \ {0} /\ DropMod % NElem = 0

VARIABLES
  absidx,   \* fixed: absolute_index
  \* the capture
  cpc,      \* "block", "announce" (in rdy_out.write), "poll"
  cur, wp, claimed, full,
  dropped,  \* n_dropped, modulo DropMod
  lost,     \* n_dropped > _announced_dropped
  hdr,      \* the header it is announcing
  index,    \* history: words taken from the input
  \* the memory and the announcements
  cells, rdy,
  \* the window reader
  npc,      \* where it is: see the actions
  whdr,     \* the header of its window, or of its last one
  window,   \* the words it read
  nwin,     \* history: windows sent before this one, modulo DropMod words
  gap       \* history: words were dropped between this window and the last

captureVars == <<cpc, cur, wp, claimed, full, dropped, lost, hdr, index>>
windowVars  == <<npc, whdr, window, nwin, gap>>
lockVarsRx  == <<prompt, reqVars, ownVars, cmds, resps, waited>>
rxVars      == <<absidx, captureVars, cells, rdy, windowVars>>

Halves == 0..(NRegion - 1)
Half(i) == [lo |-> i * RegionWords, hi |-> (i + 1) * RegionWords]
NoHdr  == [lost |-> FALSE, base |-> 0, dropped |-> 0]

RxInit ==
  /\ absidx \in BOOLEAN
  /\ cpc = "block" /\ cur = 0 /\ wp = 0 /\ claimed = FALSE /\ full = [i \in Halves |-> FALSE]
  /\ dropped = 0 /\ lost = FALSE /\ hdr = NoHdr /\ index = 0
  /\ cells = [a \in 0..(NElem - 1) |-> 0] /\ rdy = <<>>
  /\ npc = "wait" /\ whdr = NoHdr /\ window = <<>> /\ nwin = 0 /\ gap = FALSE

-----------------------------------------------------------------------------
\* Fault: a half is free as soon as it is not yielded.
NotYielded(i) == OwnerMayTouch(Half(i).lo) /\ OwnerMayTouch(Half(i).hi - 1)

\* _region_free: not holding an unread window, and not yielded.
RegionFree(i) == ~full[i] /\ OwnerMayTouch(Half(i).lo) /\ OwnerMayTouch(Half(i).hi - 1)

\* _place, default mode: where the next block goes -- on in the half being filled,
\* or at the start of the lowest free one; nowhere: the empty set.
Room == wp + CheckPeriod <= Half(cur).hi /\ ~full[cur]
FillPlaces ==
  IF Room THEN {[half |-> cur, at |-> wp]}
  ELSE {[half |-> i, at |-> Half(i).lo] :
          i \in {j \in Halves : RegionFree(j) /\ \A k \in Halves : k < j => ~RegionFree(k)}}

\* Fault: asked at every block, so a half may be entered in its middle.
ClaimsAnyTime == RegionFree(wp \div RegionWords)

\* _place, absolute mode: the half the index names, claimed at its first block.
ClaimsHalf == IF wp % RegionWords = 0 THEN RegionFree(wp \div RegionWords) ELSE claimed

Places ==
  IF absidx THEN IF ClaimsHalf THEN {[half |-> wp \div RegionWords, at |-> wp]} ELSE {}
            ELSE FillPlaces

\* A block is taken and placed: its write begins ...
PlaceBlock ==
  /\ cpc = "block" /\ done = 0
  /\ \E p \in Places :
       /\ OwnerStarts([lo |-> p.at, hi |-> p.at + CheckPeriod])
       /\ cur' = p.half /\ wp' = p.at
  /\ claimed' = absidx
  /\ UNCHANGED <<absidx, cpc, full, dropped, lost, hdr, index, cells, rdy, windowVars>>

\* The pointer is at the end of the half just completed: mark it and announce it,
\* saying whether anything was dropped since the last announcement.
Complete ==
  /\ full' = [full EXCEPT ![cur] = TRUE]
  /\ hdr' = [lost |-> lost, base |-> Half(cur).lo, dropped |-> dropped]
  /\ lost' = FALSE /\ cpc' = "announce"

\* ... and ends: the advance, the announcement, the wrap.
BlockWritten ==
  /\ OwnerEnds
  /\ cells' = [a \in DOMAIN cells |->
                 IF a \in Elements(oext) THEN (index + (a - oext.lo)) % DropMod ELSE cells[a]]
  /\ index' = (index + CheckPeriod) % DropMod
  /\ IF wp + CheckPeriod >= Half(cur).hi THEN Complete
     ELSE cpc' = "poll" /\ UNCHANGED <<full, hdr, lost>>
  /\ wp' = IF absidx /\ wp + CheckPeriod >= NElem THEN 0 ELSE wp + CheckPeriod
  /\ UNCHANGED <<absidx, cur, claimed, dropped, rdy, windowVars>>

\* In absolute mode the pointer moves on every firing.
AfterDrop == IF absidx THEN (wp + CheckPeriod) % NElem ELSE wp

\* Nowhere to put it: the block is lost, counted, and its time passes.
DropBlock ==
  /\ cpc = "block" /\ done = 0 /\ Places = {}
  /\ OwnerFills(CheckPeriod) /\ cpc' = "poll"
  /\ claimed' = FALSE /\ cur' = IF absidx THEN wp \div RegionWords ELSE cur
  /\ dropped' = (dropped + CheckPeriod) % DropMod /\ lost' = TRUE
  /\ index' = (index + CheckPeriod) % DropMod
  /\ wp' = AfterDrop
  /\ UNCHANGED <<absidx, full, hdr, cells, rdy, windowVars>>

\* rdy_out.write: the channel holds one announcement per half.
Announce ==
  /\ cpc = "announce" /\ Len(rdy) < NRegion
  /\ rdy' = Append(rdy, hdr) /\ cpc' = "poll"
  /\ UNCHANGED <<lockVarsRx, absidx, cur, wp, claimed, full, dropped, lost, hdr, index, cells,
                 windowVars>>

\* _poll: the release, never the acquire, makes a half free again.
CapturePolls ==
  /\ cpc = "poll" /\ Poll /\ cpc' = "block"
  /\ full' = IF cmds # <<>> /\ Head(cmds).op = "release"
               THEN [full EXCEPT ![Head(cmds).region.lo \div RegionWords] = FALSE] ELSE full
  /\ UNCHANGED <<absidx, cur, wp, claimed, dropped, lost, hdr, index, cells, rdy, windowVars>>

CaptureGrants ==
  /\ Grant \/ ResponseLands
  /\ UNCHANGED rxVars

-----------------------------------------------------------------------------
\* One window: told that a half is ready, ask for it, ...
TakeReady ==
  /\ npc = "wait" /\ rdy # <<>>
  /\ whdr' = Head(rdy) /\ rdy' = Tail(rdy) /\ npc' = "acquiring"
  /\ Acquire([lo |-> whdr'.base, hi |-> whdr'.base + RegionWords])
  /\ gap' = (whdr'.dropped # whdr.dropped)
  /\ UNCHANGED <<absidx, captureVars, cells, window, nwin>>

WindowTraffic ==
  /\ CommandLands \/ GetResponse
  /\ UNCHANGED rxVars

\* ... drain it in one read, ...
WindowReads ==
  /\ npc = "acquiring" /\ npc' = "reading"
  /\ RequesterStarts([lo |-> whdr.base, hi |-> whdr.base + RegionWords])
  /\ UNCHANGED <<absidx, captureVars, cells, rdy, whdr, window, nwin, gap>>

\* ... send the frame (and stall, however long), ...
WindowSent ==
  /\ npc = "reading" /\ RequesterEnds /\ npc' = "sent"
  /\ window' = [k \in 1..RegionWords |-> cells[whdr.base + (k - 1)]]
  /\ UNCHANGED <<absidx, captureVars, cells, rdy, whdr, nwin, gap>>

\* ... and give it back; release takes until its message has landed.
WindowReleases ==
  /\ npc = "sent" /\ Release /\ npc' = "wait"
  /\ nwin' = (nwin + 1) % (DropMod \div RegionWords)
  /\ window' = <<>> /\ gap' = FALSE
  /\ UNCHANGED <<absidx, captureVars, cells, rdy, whdr>>

-----------------------------------------------------------------------------
Capture == PlaceBlock \/ BlockWritten \/ DropBlock \/ Announce \/ CapturePolls \/ CaptureGrants
Window  == TakeReady \/ WindowTraffic \/ WindowReads \/ WindowSent \/ WindowReleases

RxNext == Capture \/ Window

-----------------------------------------------------------------------------
\* window_abs_index: from a window's ordinal and its header alone the host knows
\* the absolute index of every word in it -- whatever was dropped, and whatever the
\* capture has counted by the time the header is read.
AbsIndex(w, n) == w * RegionWords + n

\* Each window the host gets is where its header says: consecutive words from
\* window_abs_index on, under absolute_index at the addresses their indices name,
\* and a window that says CAP_OK follows the one before it without a gap.
WindowLocated ==
  npc = "sent" =>
    /\ \A k \in 1..RegionWords : window[k] = (AbsIndex(nwin, whdr.dropped) + (k - 1)) % DropMod
    /\ absidx => window[1] % NElem = whdr.base
    /\ gap => whdr.lost

\* "A BLOCKING write, and it cannot block": the side that cannot stop never waits
\* for room to announce a window.
AnnouncementsFit == cpc = "announce" => Len(rdy) < NRegion

\* Every announced half is read and comes back to the capture.
HalvesComeBack == \A i \in Halves : full[i] ~> ~full[i]
=============================================================================
