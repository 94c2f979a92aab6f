-------------------------------- MODULE ShotTx --------------------------------
(***************************************************************************)
(* waveflow/hw/rf_shot_tx.py: a loader (the requester of LockedMem) takes  *)
(* frames from the host, writes a shot over the whole memory and answers;  *)
(* a player (the owner, who cannot stop) plays it a number of passes or    *)
(* for ever.  Beside the lock go two channels of depth one: the play       *)
(* command to the player, and the done token of a finite shot back.        *)
(*                                                                         *)
(* A shot's samples are its record: the memory holds one shot or a mixture.*)
(* CheckPeriod is blk_words: a chunk of that many elements, then one poll. *)
(***************************************************************************)
EXTENDS LockedMem

CONSTANT MaxRepeat  \* largest nrepeat of a header

ASSUME ShotTxAssumption ==
  MaxRepeat \in Nat /\ NElem % CheckPeriod = 0 /\ MaxExtent >= NElem

VARIABLES
  absolute, \* fixed: absolute_index
  \* the loader
  lpc,      \* where it is: see the actions
  frame,    \* the frame it serves
  busy,     \* a finite shot is in flight
  \* the memory and the two channels
  mem,      \* the shot in it; Mixture while the loader writes
  rep,      \* play commands
  finished, \* done tokens
  \* the player
  ppc,      \* "chunk", "token" (in done_out.write), "poll", "rep" (in rep_in.get)
  rd, playing, pending, loop, nrep,
  shot,     \* history: the shot of the last play command
  words     \* history: its words played, when it is finite

loaderVars == <<lpc, frame, busy>>
playerVars == <<ppc, rd, playing, pending, loop, nrep, shot, words>>
lockVars   == <<prompt, reqVars, ownVars, cmds, resps, waited>>
txVars     == <<absolute, loaderVars, mem, rep, finished, playerVars>>

Whole   == [lo |-> 0, hi |-> NElem]
Opcodes == {"load", "loop", "end", "bad"}
\* whole: the payload filled the buffer before TLAST.  Three ids tell the shot
\* played, the one in the memory and the one on its way apart.
Frames  == [op : Opcodes, reps : 0..MaxRepeat, whole : BOOLEAN, id : 0..2]
NoShot  == [op |-> "none", reps |-> 0, whole |-> FALSE, id |-> 0]
Mixture == [op |-> "mix", reps |-> 0, whole |-> FALSE, id |-> 0]

TxInit ==
  /\ absolute \in BOOLEAN
  /\ lpc = "idle" /\ frame = NoShot /\ busy = FALSE
  /\ mem = NoShot /\ rep = <<>> /\ finished = 0
  /\ ppc = "chunk" /\ rd = 0 /\ playing = FALSE /\ pending = FALSE
  /\ loop = FALSE /\ nrep = 0 /\ shot = NoShot /\ words = 0

-----------------------------------------------------------------------------
\* Fault: a SHOT_LOOP is let in while a finite shot plays.
AcceptsLoop(op, isBusy) == op = "loop" \/ (op = "load" /\ ~isBusy)

\* _verdict: SHOT_BAD_OPCODE before SHOT_BUSY, of either opcode.
Accepts(op, isBusy) == op \in {"load", "loop"} /\ ~isBusy

\* A frame arrives whole; then a done that is there clears busy; a fence or a
\* refused command is only answered.
TakeFrame(op, reps, whole) ==
  /\ lpc = "idle"
  /\ busy' = (busy /\ finished = 0)
  /\ finished' = IF finished > 0 THEN finished - 1 ELSE 0
  /\ \/ /\ Accepts(op, busy')
        /\ frame' = [op |-> op, reps |-> reps, whole |-> whole, id |-> (frame.id + 1) % 3]
        /\ lpc' = "acquiring" /\ Acquire(Whole)
     \/ /\ ~Accepts(op, busy')
        /\ lpc' = "answer" /\ UNCHANGED <<lockVars, frame>>
  /\ UNCHANGED <<absolute, mem, rep, playerVars>>

\* The command lands and the response is taken inside acquire and release.
LockTraffic ==
  /\ CommandLands \/ GetResponse
  /\ UNCHANGED txVars

\* write_pipelined over the whole region, a short payload completed with zeros.
LoaderWrites ==
  /\ lpc = "acquiring" /\ RequesterStarts(Whole)
  /\ lpc' = "writing" /\ mem' = Mixture
  /\ UNCHANGED <<absolute, frame, busy, rep, finished, playerVars>>

LoaderWrote ==
  /\ lpc = "writing" /\ RequesterEnds
  /\ lpc' = "rep" /\ mem' = frame
  /\ UNCHANGED <<absolute, frame, busy, rep, finished, playerVars>>

\* Fault: a short shot is played as often as one that is whole.
PassesAsked == frame.reps

\* A short shot is not to be played, on either path.
Passes == IF frame.whole THEN frame.reps ELSE 0

\* The play command, before the release that will make the player read it.
SendRep ==
  /\ lpc = "rep" /\ rep = <<>>
  /\ rep' = <<[shot |-> frame, passes |-> Passes]>>
  /\ lpc' = "release"
  /\ UNCHANGED <<lockVars, absolute, frame, busy, mem, finished, playerVars>>

LoaderReleases ==
  /\ lpc = "release" /\ lpc' = "releasing" /\ Release
  /\ UNCHANGED <<absolute, frame, busy, mem, rep, finished, playerVars>>

\* release returned: only a finite shot makes the design busy.
LoaderReleased ==
  /\ lpc = "releasing" /\ rpc = "idle"
  /\ lpc' = "answer" /\ busy' = (busy \/ frame.op = "load")
  /\ UNCHANGED <<lockVars, absolute, frame, mem, rep, finished, playerVars>>

\* _answer: one response per header.
Answer ==
  /\ lpc = "answer" /\ lpc' = "idle"
  /\ UNCHANGED <<lockVars, absolute, frame, busy, mem, rep, finished, playerVars>>

-----------------------------------------------------------------------------
\* _chunk: the start is tested before the write, at a boundary of the index.
Starts == playing \/ (absolute /\ pending /\ rd = 0)

PlayChunk ==
  /\ ppc = "chunk" /\ done = 0 /\ Starts
  /\ OwnerStarts([lo |-> rd, hi |-> rd + CheckPeriod])
  /\ playing' = TRUE /\ pending' = (pending /\ ~(absolute /\ rd = 0))
  /\ UNCHANGED <<absolute, loaderVars, mem, rep, finished, ppc, rd, loop, nrep, shot, words>>

Moves == absolute \/ playing
Wraps == Moves /\ rd + CheckPeriod >= NElem

\* Fault: the whole block leaves the guard, and filler passes are counted.
PassEndsAnyway == Wraps /\ ~loop

\* A pass of a finite shot has finished: the accounting stays under playing.
PassEnds == Wraps /\ playing /\ ~loop

\* The advance after a chunk, filler or not; the last pass owes a done.
Advance ==
  LET last == PassEnds /\ nrep <= 1 IN
  /\ rd' = IF Wraps THEN 0 ELSE IF Moves THEN rd + CheckPeriod ELSE rd
  /\ nrep' = IF PassEnds THEN nrep - 1 ELSE nrep
  /\ playing' = (playing /\ ~last)
  /\ ppc' = IF last THEN "token" ELSE "poll"
  /\ words' = IF playing /\ ~loop THEN words + CheckPeriod ELSE words
  /\ UNCHANGED <<pending, loop, shot>>

PlayedChunk ==
  /\ OwnerEnds /\ Advance
  /\ UNCHANGED <<absolute, loaderVars, mem, rep, finished>>

\* A chunk of filler, while it owns nothing to play.
FillChunk ==
  /\ ppc = "chunk" /\ done = 0 /\ ~Starts /\ OwnerFills(CheckPeriod) /\ Advance
  /\ UNCHANGED <<absolute, loaderVars, mem, rep, finished>>

\* run_iter's one poll.  An ACQUIRE: stop touching the memory and disarm, then
\* grant.  A RELEASE: read the play command.
PlayerPolls ==
  /\ ppc = "poll" /\ Poll
  /\ IF cmds # <<>> /\ Head(cmds).op = "acquire"
       THEN playing' = FALSE /\ pending' = FALSE ELSE UNCHANGED <<playing, pending>>
  /\ ppc' = IF cmds # <<>> /\ Head(cmds).op = "release" THEN "rep" ELSE "chunk"
  /\ UNCHANGED <<absolute, loaderVars, mem, rep, finished, rd, loop, nrep, shot, words>>

PlayerGrants ==
  /\ Grant \/ ResponseLands
  /\ UNCHANGED txVars

\* Fault: a shot that does not play has no end to report.
OwesNothing(c) == FALSE

\* A finite shot that must not play is over at once.
OwesDone(c) == c.passes = 0 /\ c.shot.op # "loop"

TakePlay ==
  /\ ppc = "rep" /\ rep # <<>>
  /\ LET c == Head(rep) IN
       /\ loop' = (c.shot.op = "loop") /\ nrep' = c.passes
       /\ IF absolute
            THEN pending' = (c.passes > 0) /\ playing' = FALSE /\ UNCHANGED rd
            ELSE playing' = (c.passes > 0) /\ rd' = 0 /\ UNCHANGED pending
       /\ ppc' = IF OwesDone(c) THEN "token" ELSE "chunk"
       /\ shot' = c.shot
  /\ rep' = Tail(rep) /\ words' = 0
  /\ UNCHANGED <<lockVars, absolute, loaderVars, mem, finished>>

\* _send_done, after the chunk's last pass or after the command.
SendDone ==
  /\ ppc = "token" /\ finished = 0
  /\ finished' = 1 /\ ppc' = IF done = CheckPeriod THEN "poll" ELSE "chunk"
  /\ UNCHANGED <<lockVars, absolute, loaderVars, mem, rep, rd, playing, pending, loop,
                 nrep, shot, words>>

-----------------------------------------------------------------------------
Loader == LockTraffic \/ LoaderWrites \/ LoaderWrote \/ SendRep
          \/ LoaderReleases \/ LoaderReleased \/ Answer
Player == PlayChunk \/ PlayedChunk \/ FillChunk \/ PlayerPolls \/ PlayerGrants
          \/ TakePlay \/ SendDone

TxNext ==
  \/ \E op \in Opcodes, reps \in 0..MaxRepeat, whole \in BOOLEAN : TakeFrame(op, reps, whole)
  \/ Loader \/ Player

-----------------------------------------------------------------------------
\* "The objection is that truncating the running one would be invisible": while a
\* load is on its way to the memory no finite shot is commanded, armed or playing.
NeverTruncated ==
  lpc \in {"acquiring", "writing"} =>
    /\ \A i \in DOMAIN rep : rep[i].shot.op = "loop"
    /\ playing \/ pending => loop

\* What goes out is one shot, the one commanded, and a whole one: never a padded
\* short frame, never a mixture of two, never memory that was not loaded.
OnlyWholeShots == playing /\ opc = "access" => mem = shot /\ shot.whole

\* A finite shot plays exactly its passes, from the first word to the last: at any
\* moment the words played are those of the passes gone and of the one in progress.
PassesExact ==
  shot.op = "load" /\ shot.whole =>
    words = (shot.reps - nrep) * NElem + (IF playing THEN rd ELSE 0)

\* Every header is answered, and no finite shot leaves the loader busy for ever:
\* it comes to a point where the next command would be let in.
LoaderReady == lpc = "idle" /\ (busy => finished > 0)
FramesAnswered == (lpc # "idle" \/ busy) ~> LoaderReady
=============================================================================
