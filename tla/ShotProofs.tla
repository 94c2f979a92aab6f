------------------------------ MODULE ShotProofs ------------------------------
(***************************************************************************)
(* What holds of RfShotTx and RfShotRx for every size of the memory and of *)
(* the block, every depth of the lock's streams, every number of repeats   *)
(* and every width of the dropped count: a transmitter never plays a shot  *)
(* in part, a receiver's windows are where their headers say they are in   *)
(* the input, its announcements never wait for room, and in neither do the *)
(* two sides of the memory touch it at the same place and time.            *)
(*                                                                         *)
(* Each design's invariant is the lock's (IInv of LockedMemProofs) with    *)
(* what the design adds to the phase of the handover: on TX, that nothing  *)
(* plays while the memory is away and that one finite shot is in flight;   *)
(* on RX, the queue of windows that are out, and what each half holds.     *)
(***************************************************************************)
EXTENDS Shot, LockedMemProofs, ArithmeticProofs

-----------------------------------------------------------------------------
\* The transmitter: its inductive invariant, by its parts.
Kinds  == {"load", "loop"}
Active == {"acquiring", "writing", "rep", "release", "releasing"}

\* What the variables hold, and that a command that has the lock is a shot.
TxTypes ==
  /\ lpc \in Active \cup {"idle", "answer"} /\ ppc \in {"chunk", "token", "poll", "rep"}
  /\ frame \in Frames \cup {NoShot} /\ shot \in Frames \cup {NoShot}
  /\ busy \in BOOLEAN /\ playing \in BOOLEAN /\ pending \in BOOLEAN /\ loop \in BOOLEAN
  /\ absolute \in BOOLEAN
  /\ finished \in {0, 1} /\ nrep \in Int /\ words \in Int
  /\ lpc \in Active => frame \in Frames /\ frame.op \in Kinds /\ ~busy

\* The player reads the memory by blocks.
AtBlock == rd \in 0..(NElem - 1) /\ rd % CheckPeriod = 0

IsAsk(m)   == m.op = "acquire" => m.region = Whole
IsGrant(m) == m.op = "granted" /\ m.region = Whole
\* The transmitter hands over the memory as a whole, and never anything else.
WholeOnly ==
  /\ IsAsk(msg) /\ \A i \in 1..Len(cmds) : IsAsk(cmds[i])
  /\ opc = "asked" => answer.region = Whole
  /\ opc = "reply" => IsGrant(answer)
  /\ \A i \in 1..Len(resps) : IsGrant(resps[i])
  /\ held \in {None, Whole} /\ yielded \in {None, Whole}

\* Where the loader is says what it has of the lock.
LoaderAt ==
  /\ lpc \in {"idle", "answer"} => rpc = "idle" /\ held = None
  /\ lpc = "acquiring" => \/ rpc = "send" /\ msg.op = "acquire"
                          \/ rpc = "resp"
                          \/ rpc = "idle" /\ held = Whole
  /\ lpc = "writing" => rpc = "access" /\ held = Whole
  /\ lpc \in {"rep", "release"} => rpc = "idle" /\ held = Whole /\ mem = frame
  /\ lpc = "releasing" => held = None /\ (rpc = "idle" \/ (rpc = "send" /\ msg.op = "release"))

\* While the memory is asked for or away, nothing plays or waits to.
Disarmed ==
  /\ opc \in {"asked", "reply"} \/ yielded # None =>
       ~playing /\ ~pending /\ ppc \in {"chunk", "poll"}
  /\ opc # "work" => ppc = "chunk"
  /\ opc = "access" => playing
  /\ ppc = "rep" => ~playing /\ ~pending
  /\ playing => ~pending
  /\ pending => absolute

\* The requester is done with the region: its release is on its way.
Returning == held = None /\ yielded # None /\ resps = <<>> /\ Working

Commanded(c) ==
  /\ c.shot = mem /\ c.shot \in Frames /\ c.shot.op \in Kinds
  /\ c.passes = IF c.shot.whole THEN c.shot.reps ELSE 0
\* A play command on its way is for the shot in the memory, and is read before the
\* release that follows it is polled.
Commands ==
  rep # <<>> =>
    /\ Len(rep) = 1 /\ rep = <<rep[1]>> /\ Commanded(rep[1])
    /\ lpc = "release" \/ Returning \/ ppc = "rep"

LoadSent  == rep # <<>> /\ rep[1].shot.op = "load"
LoadPlays == (playing \/ pending) /\ ~loop
\* There is one finite shot at most: commanded, playing, owing its token, or its token
\* on the way; and the loader is busy with it.
OneFinite ==
  /\ LoadSent => ~LoadPlays /\ ppc # "token" /\ finished = 0
  /\ LoadPlays => ppc # "token" /\ finished = 0
  /\ ppc = "token" => finished = 0
  /\ LoadSent \/ LoadPlays \/ ppc = "token" \/ finished = 1 =>
       busy \/ (frame.op = "load" /\ lpc \in {"release", "releasing"})

\* What is armed or plays is what was commanded.
Armed ==
  /\ playing \/ pending => mem = shot /\ shot.whole
  /\ loop = (shot.op = "loop")

TxInv ==
  /\ IInv /\ TxTypes /\ AtBlock /\ WholeOnly /\ LoaderAt /\ Disarmed /\ Commands /\ OneFinite
  /\ Armed /\ PassesExact

-----------------------------------------------------------------------------
LEMMA WholeFits == Whole \in Regions /\ Whole \in Extents /\ Whole # None /\ CheckRegion(Whole)
BY LockAssumption, ShotTxAssumption DEF Whole, Regions, Extents, None, CheckRegion

\* A block ends within the memory, and where it ends another may start.
LEMMA BlockEnds ==
  ASSUME AtBlock
  PROVE  rd + CheckPeriod <= NElem /\ (rd + CheckPeriod) % CheckPeriod = 0
<1>1. NElem \in Nat \ {0} /\ CheckPeriod \in Nat \ {0} /\ NElem % CheckPeriod = 0
  BY LockAssumption, ShotTxAssumption
<1>2. rd \in Int /\ NElem \in Int /\ rd < NElem /\ rd % CheckPeriod = 0
  BY <1>1 DEF AtBlock
<1> QED BY <1>1, <1>2, NextMultiple

LEMMA PlayedBlockFits ==
  ASSUME AtBlock
  PROVE  [lo |-> rd, hi |-> rd + CheckPeriod] \in Extents
<1>1. rd + CheckPeriod <= NElem  BY BlockEnds
<1> QED BY <1>1, LockAssumption, ShotTxAssumption DEF Extents, AtBlock

-----------------------------------------------------------------------------
LEMMA TxInitInv == ASSUME Init, TxInit PROVE TxInv
<1> USE DEF TxInit, Init
<1>1. IInv  BY InitIInv
<1>2. TxTypes
  <2>1. lpc \notin Active  BY DEF Active
  <2>2. 0 \in Int /\ 0 \in {0, 1}  OBVIOUS
  <2> QED BY <2>1, <2>2 DEF TxTypes
<1>3. AtBlock
  <2>1. 0 % CheckPeriod = 0  BY LockAssumption, SMTT(20)
  <2> QED BY <2>1, LockAssumption DEF AtBlock
<1>4. Len(cmds) = 0 /\ Len(resps) = 0  BY EmptySeq
<1>5. WholeOnly  BY <1>4 DEF WholeOnly, IsAsk, NoMsg
<1>6. LoaderAt /\ Disarmed /\ Commands  BY DEF LoaderAt, Disarmed, Commands
<1>7. OneFinite  BY DEF OneFinite, LoadSent, LoadPlays
<1>8. Armed /\ PassesExact  BY DEF Armed, PassesExact, NoShot
<1> QED BY <1>1, <1>2, <1>3, <1>5, <1>6, <1>7, <1>8 DEF TxInv

\* A frame is taken in, or refused.
LEMMA TakeFrameStep ==
  ASSUME TxInv, NEW op \in Opcodes, NEW reps \in 0..MaxRepeat, NEW whole \in BOOLEAN,
         TakeFrame(op, reps, whole)
  PROVE  TxInv'
<1> USE DEF TxInv, TakeFrame, playerVars
<1>1. lpc = "idle" /\ rpc = "idle" /\ held = None /\ finished \in {0, 1} /\ finished' = 0
  BY DEF LoaderAt, TxTypes
<1>2. busy' \in BOOLEAN /\ (busy' = FALSE \/ busy' = busy) /\ (finished = 1 => busy' = FALSE)
      /\ (finished = 0 => busy' = busy)
  <2>0. busy' = (busy /\ finished = 0) /\ busy \in BOOLEAN  BY DEF TxTypes
  <2>1. CASE finished = 0  BY <2>0, <2>1
  <2>2. CASE finished = 1
    <3>1. finished # 0  BY <2>2
    <3> QED BY <2>0, <2>2, <3>1, Zenon
  <2> QED BY <1>1, <2>1, <2>2
<1>3. AtBlock' BY DEF AtBlock
<1>4. CASE Accepts(op, busy') /\ Acquire(Whole)
           /\ frame' = [op |-> op, reps |-> reps, whole |-> whole, id |-> (frame.id + 1) % 3]
           /\ lpc' = "acquiring"
  <2> USE DEF Acquire, ownVars
  <2>1. IInv'  BY <1>4, AcquireStep, WholeFits
  <2>2. TxTypes'
    <3>1. frame.id \in 0..2  BY DEF TxTypes, Frames, NoShot
    <3>2. (frame.id + 1) % 3 \in 0..2  BY <3>1
    <3>3. frame' \in Frames /\ frame'.op \in Kinds /\ ~busy'
      BY <1>4, <3>2 DEF Frames, Accepts, Kinds
    <3> QED BY <1>1, <1>4, <3>3 DEF TxTypes, Active
  <2>3. WholeOnly'  BY <1>4 DEF WholeOnly, IsAsk, IsGrant
  <2>4. LoaderAt'  BY <1>4 DEF LoaderAt
  <2>5. Disarmed'  BY <1>4 DEF Disarmed
  <2>6. Commands'
    BY <1>1, <1>4 DEF Commands, Returning, Commanded, Working
  <2>7. ~busy' BY <1>4 DEF Accepts
  <2>8. OneFinite'
    BY <1>1, <1>2, <1>4, <2>7 DEF OneFinite, LoadSent, LoadPlays
  <2>9. Armed' /\ PassesExact'  BY <1>4 DEF Armed, PassesExact
  <2> QED BY <2>1, <1>3, <2>2, <2>3, <2>4, <2>5, <2>6, <2>8, <2>9
<1>5. CASE lpc' = "answer" /\ UNCHANGED <<lockVars, frame>>
  <2> USE <1>5 DEF lockVars, reqVars, ownVars
  <2>1. IInv'  BY NextIInv DEF vars
  <2>2. TxTypes'  BY <1>1, <1>2 DEF TxTypes, Active
  <2>3. WholeOnly'  BY DEF WholeOnly, IsAsk, IsGrant
  <2>4. LoaderAt'  BY <1>1 DEF LoaderAt
  <2>5. Disarmed'  BY DEF Disarmed
  <2>6. Commands'  BY <1>1 DEF Commands, Returning, Commanded, Working
  <2>8. OneFinite'
    BY <1>1, <1>2 DEF OneFinite, LoadSent, LoadPlays
  <2>9. Armed' /\ PassesExact'  BY DEF Armed, PassesExact
  <2> QED BY <2>1, <1>3, <2>2, <2>3, <2>4, <2>5, <2>6, <2>8, <2>9
<1> QED BY <1>4, <1>5

\* The loader's command lands, or its response is taken: nothing of the design
\* moves, and what is granted is the whole memory.
LEMMA LockTrafficStep == ASSUME TxInv, LockTraffic PROVE TxInv'
<1> USE DEF TxInv, LockTraffic, txVars, loaderVars, playerVars
<1>1. TxTypes' /\ AtBlock'  BY DEF TxTypes, AtBlock
<1>2. Armed' /\ PassesExact'  BY DEF Armed, PassesExact
<1>3. OneFinite'  BY DEF OneFinite, LoadSent, LoadPlays
<1>4. CASE CommandLands
  <2> USE <1>4 DEF CommandLands, ownVars
  <2>1. IInv'  BY CommandLandsStep
  <2>2. WholeOnly'
    <3>1. cmds \in Seq(Message)  BY DEF IInv, Types, StreamTypes
    <3>2. IsAsk(msg) /\ \A i \in 1..Len(cmds) : IsAsk(cmds[i])  BY DEF WholeOnly
    <3>3. msg # NoMsg => msg \in Message  BY DEF IInv, Types, RequesterTypes
    <3>4. msg # NoMsg
      BY DEF IInv, Phase, Quiet, Freeing, AskingBehind, AskingFirst, Waiting, Judging, Replying,
         Answered, NoMsg
    <3>5. \A i \in 1..Len(cmds') : IsAsk(cmds'[i])
      BY <3>1, <3>2, <3>3, <3>4, AppendProperties
    <3>6. IsAsk(msg')  BY DEF IsAsk, NoMsg
    <3> QED BY <3>5, <3>6 DEF WholeOnly, IsAsk, IsGrant
  <2>3. LoaderAt'  BY DEF LoaderAt
  <2>4. Disarmed'  BY DEF Disarmed
  <2>5. Commands'  BY DEF Commands, Returning, Commanded, Working
  <2> QED BY <1>1, <1>2, <1>3, <2>1, <2>2, <2>3, <2>4, <2>5
<1>5. CASE GetResponse
  <2> USE <1>5 DEF GetResponse, ownVars
  <2>1. IInv'  BY GetResponseStep
  <2>2. Answered  BY ResponseAnswered
  <2>3. Head(resps) = resps[1] /\ resps' = <<>> /\ Len(resps) = 1
    BY <2>2, TakeOnly DEF Answered, IInv, Types, StreamTypes
  <2>4. IsGrant(Head(resps))  BY <2>3 DEF WholeOnly
  <2>5. held' = Whole  BY <2>4 DEF IsGrant
  <2>6. WholeOnly'
    <3>1. Len(resps') = 0  BY <2>3, EmptySeq
    <3> QED BY <2>5, <3>1 DEF WholeOnly, IsAsk, IsGrant
  <2>7. LoaderAt'  BY <2>5 DEF LoaderAt, TxTypes, Active
  <2>8. Disarmed'  BY DEF Disarmed
  <2>9. Commands'  BY DEF Commands, Returning, Commanded, Working, LoaderAt
  <2> QED BY <1>1, <1>2, <1>3, <2>1, <2>6, <2>7, <2>8, <2>9
<1> QED BY <1>4, <1>5

\* The loader has the memory: the player is disarmed, and its last play command was
\* read before the release it came with let this grant be.
LEMMA LoaderHolds ==
  ASSUME TxInv, held # None
  PROVE  /\ Quiet /\ held = Whole /\ yielded = Whole
         /\ ~playing /\ ~pending /\ ppc \in {"chunk", "poll"}
         /\ rep # <<>> => lpc = "release"
<1> USE DEF TxInv
<1>1. Quiet /\ yielded = held  BY HeldQuiet
<1>2. held = Whole  BY DEF WholeOnly
<1>3. ~playing /\ ~pending /\ ppc \in {"chunk", "poll"}  BY <1>1 DEF Disarmed
<1>4. rep # <<>> => lpc = "release"  BY <1>3 DEF Commands, Returning
<1> QED BY <1>1, <1>2, <1>3, <1>4

LEMMA LoaderWritesStep == ASSUME TxInv, LoaderWrites PROVE TxInv'
<1> USE DEF TxInv, LoaderWrites, RequesterStarts, playerVars, ownVars
<1>1. IInv'  BY RequesterAccessStep, WholeFits
<1>2. Quiet /\ held = Whole /\ ~playing /\ ~pending /\ rep = <<>>  BY LoaderHolds
<1>3. TxTypes'  BY DEF TxTypes, Active
<1>4. WholeOnly'  BY DEF WholeOnly, IsAsk, IsGrant
<1>5. LoaderAt'  BY <1>2 DEF LoaderAt
<1>6. AtBlock' /\ Disarmed'  BY DEF AtBlock, Disarmed
<1>7. Commands'  BY <1>2 DEF Commands
<1>8. OneFinite'  BY DEF OneFinite, LoadSent, LoadPlays
<1>9. Armed' /\ PassesExact'  BY <1>2 DEF Armed, PassesExact
<1> QED BY <1>1, <1>3, <1>4, <1>5, <1>6, <1>7, <1>8, <1>9

LEMMA LoaderWroteStep == ASSUME TxInv, LoaderWrote PROVE TxInv'
<1> USE DEF TxInv, LoaderWrote, RequesterEnds, playerVars, ownVars
<1>1. IInv'  BY RequesterAccessStep
<1>2. held = Whole  BY DEF LoaderAt
<1>3. Quiet /\ ~playing /\ ~pending /\ rep = <<>>  BY <1>2, WholeFits, LoaderHolds
<1>4. TxTypes'  BY DEF TxTypes, Active
<1>5. WholeOnly'  BY DEF WholeOnly, IsAsk, IsGrant
<1>6. LoaderAt'  BY <1>2 DEF LoaderAt
<1>7. AtBlock' /\ Disarmed'  BY DEF AtBlock, Disarmed
<1>8. Commands'  BY <1>3 DEF Commands
<1>9. OneFinite'  BY DEF OneFinite, LoadSent, LoadPlays
<1>10. Armed' /\ PassesExact'  BY <1>3 DEF Armed, PassesExact
<1> QED BY <1>1, <1>4, <1>5, <1>6, <1>7, <1>8, <1>9, <1>10

\* The play command goes out: no finite shot is on its way, so it may be one.
LEMMA SendRepStep == ASSUME TxInv, SendRep PROVE TxInv'
<1> USE DEF TxInv, SendRep, lockVars, playerVars, reqVars, ownVars
<1>1. IInv'  BY NextIInv DEF vars
<1>2. held = Whole /\ mem = frame  BY DEF LoaderAt
<1>3. frame \in Frames /\ frame.op \in Kinds /\ ~busy  BY DEF TxTypes, Active
<1>4. TxTypes'  BY <1>3 DEF TxTypes, Active
<1>5. WholeOnly'  BY DEF WholeOnly, IsAsk, IsGrant
<1>6. LoaderAt'  BY <1>2 DEF LoaderAt
<1>7. AtBlock' /\ Disarmed'  BY DEF AtBlock, Disarmed
<1>8. rep'[1].shot = frame /\ Len(rep') = 1 /\ rep' # <<>> /\ rep' = <<rep'[1]>>
      /\ rep'[1].passes = Passes
  OBVIOUS
<1>9. Commands'
  <2>1. Commanded(rep[1])'  BY <1>2, <1>3, <1>8 DEF Commanded, Passes
  <2> QED BY <1>8, <2>1 DEF Commands
<1>10. OneFinite'  BY <1>3, <1>8 DEF OneFinite, LoadSent, LoadPlays, TxTypes
<1>11. Armed' /\ PassesExact'  BY DEF Armed, PassesExact
<1> QED BY <1>1, <1>4, <1>5, <1>6, <1>7, <1>9, <1>10, <1>11

LEMMA LoaderReleasesStep == ASSUME TxInv, LoaderReleases PROVE TxInv'
<1> USE DEF TxInv, LoaderReleases, Release, playerVars, ownVars
<1>1. IInv'  BY ReleaseStep
<1>2. Quiet /\ held = Whole /\ yielded = Whole  BY LoaderHolds
<1>3. TxTypes'  BY DEF TxTypes, Active
<1>4. WholeOnly'  BY DEF WholeOnly, IsAsk, IsGrant
<1>5. LoaderAt'  BY DEF LoaderAt
<1>6. AtBlock' /\ Disarmed'  BY DEF AtBlock, Disarmed
<1>7. Returning'  BY <1>2, WholeFits DEF Returning, Quiet, Working
<1>8. Commands'  BY <1>7 DEF Commands, Commanded
<1>9. OneFinite'  BY DEF OneFinite, LoadSent, LoadPlays
<1>10. Armed' /\ PassesExact'  BY DEF Armed, PassesExact
<1> QED BY <1>1, <1>3, <1>4, <1>5, <1>6, <1>8, <1>9, <1>10

LEMMA LoaderEndsStep == ASSUME TxInv, LoaderReleased \/ Answer PROVE TxInv'
<1> USE DEF TxInv, LoaderReleased, Answer, lockVars, playerVars, reqVars, ownVars
<1>1. IInv'  BY NextIInv DEF vars
<1>2. TxTypes'
  <2>1. busy' \in BOOLEAN /\ lpc' \in {"answer", "idle"}  BY DEF TxTypes
  <2> QED BY <2>1 DEF TxTypes, Active
<1>3. WholeOnly'  BY DEF WholeOnly, IsAsk, IsGrant
<1>4. LoaderAt'  BY DEF LoaderAt
<1>5. AtBlock' /\ Disarmed'  BY DEF AtBlock, Disarmed
<1>6. Commands'  BY DEF Commands, Commanded, Returning, Working
<1>7. OneFinite'
  <2>1. LoadSent' = LoadSent /\ LoadPlays' = LoadPlays  BY DEF LoadSent, LoadPlays
  <2>2. busy \/ (frame.op = "load" /\ lpc \in {"release", "releasing"}) => busy'
    BY Zenon
  <2> QED BY <2>1, <2>2 DEF OneFinite
<1>8. Armed' /\ PassesExact'  BY DEF Armed, PassesExact
<1> QED BY <1>1, <1>2, <1>3, <1>4, <1>5, <1>6, <1>7, <1>8

-----------------------------------------------------------------------------
LEMMA PlayChunkStep == ASSUME TxInv, PlayChunk PROVE TxInv'
<1> USE DEF TxInv, PlayChunk, OwnerStarts, reqVars, loaderVars
<1>1. IInv'  BY PlayedBlockFits, OwnerStartsStep
<1>2. Starts /\ (playing \/ pending)  BY DEF Starts
<1>3. yielded = None /\ opc = "work" /\ ppc = "chunk"  BY <1>2 DEF Disarmed
<1>4. TxTypes'  BY DEF TxTypes
<1>5. AtBlock'  BY DEF AtBlock
<1>6. WholeOnly'  BY DEF WholeOnly, IsAsk, IsGrant
<1>7. LoaderAt'  BY DEF LoaderAt
<1>8. ~pending'
  <2>1. CASE playing  BY <2>1 DEF Disarmed
  <2>2. CASE ~playing
    <3>1. absolute /\ rd = 0  BY <2>2 DEF Starts
    <3> QED BY <3>1
  <2> QED BY <2>1, <2>2
<1>9. Disarmed'  BY <1>3, <1>8 DEF Disarmed
<1>10. Commands'  BY <1>3 DEF Commands, Commanded, Returning, Working
<1>11. OneFinite'
  <2>1. LoadPlays' = LoadPlays  BY <1>2, <1>8 DEF LoadPlays
  <2> QED BY <2>1 DEF OneFinite, LoadSent
<1>12. Armed'  BY <1>2 DEF Armed
<1>13. PassesExact'
  <2>1. CASE playing  BY <2>1 DEF PassesExact
  <2>2. CASE ~playing
    <3>1. rd = 0  BY <2>2 DEF Starts
    <3> QED BY <3>1, <2>2 DEF PassesExact
  <2> QED BY <2>1, <2>2
<1> QED BY <1>1, <1>4, <1>5, <1>6, <1>7, <1>9, <1>10, <1>11, <1>12, <1>13

\* The advance after a chunk: the index moves by a block or wraps, and when the last
\* pass of a finite shot ends the player owes the token.
LEMMA AdvanceCounts ==
  ASSUME TxInv, Advance, ppc = "chunk", absolute' = absolute,
         UNCHANGED <<absolute, loaderVars, mem, rep, finished>>
  PROVE  TxTypes' /\ AtBlock' /\ OneFinite' /\ Armed' /\ PassesExact'
<1> USE DEF TxInv, Advance, loaderVars
<1>1. /\ rd \in Nat /\ rd < NElem /\ rd % CheckPeriod = 0 /\ NElem \in Nat \ {0}
      /\ CheckPeriod \in Nat \ {0} /\ NElem % CheckPeriod = 0
  BY LockAssumption, ShotTxAssumption DEF AtBlock
<1>2. rd + CheckPeriod <= NElem /\ (rd + CheckPeriod) % CheckPeriod = 0
  BY BlockEnds
<1>3. 0 % CheckPeriod = 0  BY <1>1, SMTT(20)
<1>4. nrep \in Int /\ words \in Int /\ playing \in BOOLEAN /\ loop \in BOOLEAN  BY DEF TxTypes
<1>5. TxTypes'
  <2>1. nrep' \in Int /\ words' \in Int /\ playing' \in BOOLEAN
    <3>1. nrep' \in {nrep, nrep - 1} /\ words' \in {words, words + CheckPeriod}
      OBVIOUS
    <3>2. playing' \in BOOLEAN  BY <1>4, Zenon
    <3> QED BY <1>1, <1>4, <3>1, <3>2
  <2>2. ppc' \in {"chunk", "token", "poll", "rep"}  OBVIOUS
  <2> QED BY <2>1, <2>2 DEF TxTypes
<1>6. AtBlock'
  <2>1. CASE Wraps  BY <1>1, <1>3, <2>1 DEF AtBlock
  <2>2. CASE ~Wraps /\ Moves  BY <1>1, <1>2, <2>2 DEF AtBlock, Wraps
  <2>3. CASE ~Moves  BY <2>3 DEF AtBlock, Wraps
  <2> QED BY <2>1, <2>2, <2>3
<1>7. CASE PassEnds /\ nrep <= 1
  <2>1. playing /\ ~loop /\ ~pending /\ playing' = FALSE /\ ppc' = "token" /\ nrep' = nrep - 1
        /\ words' = words + CheckPeriod /\ Wraps
    BY <1>4, <1>7 DEF PassEnds, Disarmed
  <2>2. OneFinite'  BY <2>1 DEF OneFinite, LoadSent, LoadPlays
  <2>3. Armed'  BY <2>1 DEF Armed
  <2>4. rd + CheckPeriod = NElem  BY <1>1, <1>2, <2>1 DEF Wraps
  <2>5. PassesExact'
    <3> SUFFICES ASSUME shot.op = "load", shot.whole
                 PROVE  words' = (shot.reps - nrep') * NElem
      BY <2>1 DEF PassesExact
    <3>1. shot.reps \in Int /\ words = (shot.reps - nrep) * NElem + rd
      BY <2>1 DEF PassesExact, TxTypes, Frames, NoShot
    <3> DEFINE r == shot.reps  k == r - nrep
    <3>2. (k + 1) * NElem = k * NElem + NElem /\ k * NElem \in Int
      <4>1. k \in Int /\ NElem \in Int  BY <1>1, <1>4, <3>1
      <4> HIDE DEF k
      <4> QED BY <4>1
    <3>3. shot.reps - nrep' = k + 1 BY <1>4, <2>1, <3>1
    <3>4. words = k * NElem + rd /\ words' = words + CheckPeriod  BY <2>1, <3>1
    <3>5. (shot.reps - nrep') * NElem = (k + 1) * NElem  BY <3>3
    <3> DEFINE p == k * NElem
    <3>6. words = p + rd /\ (shot.reps - nrep') * NElem = p + NElem /\ p \in Int
      BY <3>2, <3>4, <3>5
    <3>7. words' = p + NElem
      <4> HIDE DEF k, p
      <4> QED BY <1>1, <2>4, <3>4, <3>6
    <3>8. (shot.reps - nrep') * NElem \in Int
      <4> HIDE DEF k, p
      <4> QED BY <1>1, <3>6
    <3> QED BY <3>6, <3>7, <3>8
  <2> QED BY <1>5, <1>6, <2>2, <2>3, <2>5
<1>8. CASE PassEnds /\ ~(nrep <= 1)
  <2>1. playing /\ ~loop /\ playing' = TRUE /\ ppc' = "poll" /\ nrep' = nrep - 1
        /\ words' = words + CheckPeriod /\ Wraps /\ rd' = 0
    BY <1>4, <1>8 DEF PassEnds
  <2>2. OneFinite'  BY <2>1 DEF OneFinite, LoadSent, LoadPlays
  <2>3. Armed'  BY <2>1 DEF Armed
  <2>4. rd + CheckPeriod = NElem  BY <1>1, <1>2, <2>1 DEF Wraps
  <2>5. PassesExact'
    <3> SUFFICES ASSUME shot.op = "load", shot.whole
                 PROVE  words' = (shot.reps - nrep') * NElem + 0
      BY <2>1 DEF PassesExact
    <3>1. shot.reps \in Int /\ words = (shot.reps - nrep) * NElem + rd
      BY <2>1 DEF PassesExact, TxTypes, Frames, NoShot
    <3> DEFINE r == shot.reps  k == r - nrep
    <3>2. (k + 1) * NElem = k * NElem + NElem /\ k * NElem \in Int
      <4>1. k \in Int /\ NElem \in Int  BY <1>1, <1>4, <3>1
      <4> HIDE DEF k
      <4> QED BY <4>1
    <3>3. shot.reps - nrep' = k + 1 BY <1>4, <2>1, <3>1
    <3>4. words = k * NElem + rd /\ words' = words + CheckPeriod  BY <2>1, <3>1
    <3>5. (shot.reps - nrep') * NElem = (k + 1) * NElem  BY <3>3
    <3> DEFINE p == k * NElem
    <3>6. words = p + rd /\ (shot.reps - nrep') * NElem = p + NElem /\ p \in Int
      BY <3>2, <3>4, <3>5
    <3>7. words' = p + NElem
      <4> HIDE DEF k, p
      <4> QED BY <1>1, <2>4, <3>4, <3>6
    <3>8. (shot.reps - nrep') * NElem \in Int
      <4> HIDE DEF k, p
      <4> QED BY <1>1, <3>6
    <3> QED BY <3>6, <3>7, <3>8
  <2> QED BY <1>5, <1>6, <2>2, <2>3, <2>5
<1>9. CASE ~PassEnds
  <2>1. playing' = playing /\ ppc' = "poll" /\ nrep' = nrep  BY <1>4, <1>9
  <2>2. OneFinite'  BY <2>1 DEF OneFinite, LoadSent, LoadPlays
  <2>3. Armed'  BY <2>1 DEF Armed
  <2>4. PassesExact'
    <3>1. CASE playing /\ ~loop
      <4>1. ~Wraps /\ Moves /\ rd' = rd + CheckPeriod /\ words' = words + CheckPeriod
        BY <1>9, <3>1 DEF PassEnds, Moves, Wraps
      <4> SUFFICES ASSUME shot.op = "load", shot.whole
                   PROVE  words' = (shot.reps - nrep) * NElem + rd'
        BY <2>1, <3>1 DEF PassesExact
      <4>2. shot.reps \in Int /\ words = (shot.reps - nrep) * NElem + rd
        BY <3>1 DEF PassesExact, TxTypes, Frames, NoShot
      <4> DEFINE p == (shot.reps - nrep) * NElem
      <4>3. p \in Int  BY <1>1, <1>4, <4>2
      <4> HIDE DEF p
      <4>4. words = p + rd  BY <4>2 DEF p
      <4>5. words' = p + rd'  BY <1>1, <1>4, <4>1, <4>3, <4>4
      <4> QED BY <4>5 DEF p
    <3>2. CASE ~playing
      <4>1. words' = words  BY <3>2
      <4> QED BY <2>1, <3>2, <4>1 DEF PassesExact
    <3>3. CASE loop
      <4>1. shot.op # "load"  BY <3>3 DEF Armed
      <4> QED BY <4>1 DEF PassesExact
    <3> QED BY <3>1, <3>2, <3>3, <1>4
  <2> QED BY <1>5, <1>6, <2>2, <2>3, <2>4
<1> QED BY <1>7, <1>8, <1>9, <1>4

LEMMA PlayedChunkStep == ASSUME TxInv, PlayedChunk PROVE TxInv'
<1> USE DEF TxInv, PlayedChunk, OwnerEnds, reqVars
<1>1. IInv'  BY OwnerEndsStep
<1>2. ppc = "chunk" /\ playing /\ yielded = None  BY DEF Disarmed
<1>3. TxTypes' /\ AtBlock' /\ OneFinite' /\ Armed' /\ PassesExact'
  BY <1>2, AdvanceCounts
<1>4. WholeOnly'  BY DEF WholeOnly, IsAsk, IsGrant
<1>5. LoaderAt'  BY DEF LoaderAt, loaderVars
<1>6. Disarmed'  BY <1>2 DEF Disarmed, Advance
<1>7. Commands'  BY <1>2 DEF Commands, Commanded, Returning, Working, loaderVars
<1> QED BY <1>1, <1>3, <1>4, <1>5, <1>6, <1>7

LEMMA FillChunkStep == ASSUME TxInv, FillChunk PROVE TxInv'
<1> USE DEF TxInv, FillChunk, OwnerFills, reqVars
<1>1. IInv'
  <2>1. CheckPeriod \in Nat  BY LockAssumption
  <2> QED BY <2>1, OwnerFillsStep
<1>2. ~playing /\ playing' = FALSE /\ ppc' = "poll"  BY DEF Starts, Advance, PassEnds
<1>3. TxTypes' /\ AtBlock' /\ OneFinite' /\ Armed' /\ PassesExact'
  BY AdvanceCounts
<1>4. WholeOnly'  BY DEF WholeOnly, IsAsk, IsGrant
<1>5. LoaderAt'  BY DEF LoaderAt, loaderVars
<1>6. Disarmed'  BY <1>2 DEF Disarmed, Advance
<1>7. Commands'  BY DEF Commands, Commanded, Returning, Working, loaderVars
<1> QED BY <1>1, <1>3, <1>4, <1>5, <1>6, <1>7

\* The one poll of a run_iter.  A finite shot plays through: an ACQUIRE that is
\* polled was let out when none was in flight.
LEMMA PlayerPollsStep == ASSUME TxInv, PlayerPolls PROVE TxInv'
<1> USE DEF TxInv, PlayerPolls, reqVars, loaderVars
<1>1. IInv'  BY PollStep
<1>2. opc = "work" /\ UNCHANGED <<rpc, msg, held, resps>> /\ ppc = "poll"  BY DEF Poll
<1>3. cmds \in Seq(Message)  BY DEF IInv, Types, StreamTypes
<1>4. AtBlock' /\ LoaderAt'  BY <1>2 DEF AtBlock, LoaderAt
<1>5. CASE cmds = <<>>
  <2>1. UNCHANGED <<opc, yielded, answer, cmds, playing, pending>> /\ ppc' = "chunk"
    BY <1>5 DEF Poll
  <2>2. TxTypes'  BY <2>1 DEF TxTypes
  <2>3. WholeOnly'  BY <1>2, <2>1 DEF WholeOnly, IsAsk, IsGrant
  <2>4. Disarmed'  BY <2>1, <1>2 DEF Disarmed
  <2>5. Commands'  BY <2>1, <1>2 DEF Commands, Commanded, Returning, Working
  <2>6. OneFinite'  BY <2>1, <1>2 DEF OneFinite, LoadSent, LoadPlays
  <2>7. Armed' /\ PassesExact'  BY <2>1 DEF Armed, PassesExact
  <2> QED BY <1>1, <1>4, <2>2, <2>3, <2>4, <2>5, <2>6, <2>7
<1>6. CASE cmds # <<>> /\ Head(cmds).op = "release"
  <2>1. /\ UNCHANGED <<opc, answer, playing, pending>> /\ yielded' = None /\ ppc' = "rep"
        /\ cmds' = Tail(cmds)
    BY <1>6 DEF Poll
  <2>2. held = None /\ yielded # None /\ resps = <<>>  BY <1>2, <1>6, PolledRelease
  <2>3. ~playing /\ ~pending  BY <2>2 DEF Disarmed
  <2>4. TxTypes'  BY <2>1 DEF TxTypes
  <2>5. WholeOnly'
    <3>1. /\ Len(cmds') = Len(cmds) - 1 /\ Len(cmds) \in Nat
          /\ \A i \in 1..Len(cmds') : cmds'[i] = cmds[i + 1]
      BY <1>3, <1>6, <2>1, HeadTailProperties, LenProperties
    <3>2. \A i \in 1..Len(cmds') : i + 1 \in 1..Len(cmds)  BY <3>1
    <3>3. \A i \in 1..Len(cmds') : IsAsk(cmds'[i])  BY <3>1, <3>2 DEF WholeOnly
    <3> QED BY <1>2, <2>1, <3>3 DEF WholeOnly, IsAsk, IsGrant
  <2>6. Disarmed'  BY <2>1, <2>3, <1>2 DEF Disarmed
  <2>7. Commands'  BY <2>1 DEF Commands, Commanded
  <2>8. OneFinite'  BY <2>1, <1>2 DEF OneFinite, LoadSent, LoadPlays
  <2>9. Armed' /\ PassesExact'  BY <2>1 DEF Armed, PassesExact
  <2> QED BY <1>1, <1>4, <2>4, <2>5, <2>6, <2>7, <2>8, <2>9
<1>7. CASE cmds # <<>> /\ Head(cmds).op = "acquire"
  <2>1. /\ opc' = "asked" /\ answer' = Head(cmds) /\ UNCHANGED yielded /\ ppc' = "chunk"
        /\ cmds' = Tail(cmds) /\ playing' = FALSE /\ pending' = FALSE
    BY <1>7 DEF Poll
  <2>2. AskingFirst /\ rpc = "resp" /\ Head(cmds) = cmds[1] /\ Len(cmds) = 1
    BY <1>2, <1>7, PolledAcquire
  <2>3. lpc = "acquiring"  BY <2>2 DEF LoaderAt, TxTypes, Active
  <2>4. ~LoadPlays  BY <2>3 DEF OneFinite, TxTypes, Active
  <2>5. TxTypes'  BY <2>1 DEF TxTypes
  <2>6. WholeOnly'
    <3>1. cmds' = <<>> /\ Len(cmds') = 0  BY <1>3, <2>1, <2>2, TakeOnly, EmptySeq
    <3>2. IsAsk(answer')  BY <2>1, <2>2 DEF WholeOnly
    <3>3. answer'.region = Whole  BY <1>7, <2>1, <3>2 DEF IsAsk
    <3> QED BY <1>2, <2>1, <3>1, <3>3 DEF WholeOnly, IsAsk, IsGrant
  <2>7. Disarmed'  BY <2>1, <2>2 DEF Disarmed, AskingFirst
  <2>8. Commands'
    <3>1. rep = <<>>  BY <1>2, <2>2, <2>3 DEF Commands, Returning, AskingFirst
    <3> QED BY <3>1 DEF Commands
  <2>9. OneFinite'  BY <2>1, <1>2 DEF OneFinite, LoadSent, LoadPlays
  <2>10. Armed'  BY <2>1 DEF Armed
  <2>11. PassesExact'
    <3>1. CASE playing
      <4>1. shot.op # "load"  BY <2>4, <3>1 DEF LoadPlays, Armed
      <4> QED BY <4>1 DEF PassesExact
    <3>2. CASE ~playing  BY <2>1, <3>2 DEF PassesExact
    <3> QED BY <3>1, <3>2
  <2> QED BY <1>1, <1>4, <2>5, <2>6, <2>7, <2>8, <2>9, <2>10, <2>11
<1> QED BY <1>5, <1>6, <1>7 DEF Poll

\* The verdict, for the memory as a whole, and its way back.
LEMMA PlayerGrantsStep == ASSUME TxInv, PlayerGrants PROVE TxInv'
<1> USE DEF TxInv, PlayerGrants, txVars, loaderVars, playerVars, reqVars
<1>1. TxTypes' /\ AtBlock'  BY DEF TxTypes, AtBlock
<1>2. Armed' /\ PassesExact'  BY DEF Armed, PassesExact
<1>3. OneFinite'  BY DEF OneFinite, LoadSent, LoadPlays
<1>4. CASE Grant
  <2> USE <1>4 DEF Grant
  <2>1. IInv'  BY GrantStep
  <2>2. answer.region = Whole  BY DEF WholeOnly
  <2>3. answer' = [op |-> "granted", region |-> Whole] /\ yielded' = Whole
    BY <2>2, WholeFits
  <2>4. WholeOnly'  BY <2>3 DEF WholeOnly, IsAsk, IsGrant
  <2>5. LoaderAt'  BY DEF LoaderAt
  <2>6. Disarmed'  BY DEF Disarmed
  <2>7. Commands'  BY DEF Commands, Commanded, Returning, Working
  <2> QED BY <1>1, <1>2, <1>3, <2>1, <2>4, <2>5, <2>6, <2>7
<1>5. CASE ResponseLands
  <2> USE <1>5 DEF ResponseLands
  <2>1. IInv'  BY ResponseLandsStep
  <2>2. Replying  BY ReplyReplying
  <2>3. answer \in Message  BY <2>2 DEF Replying, Verdict, IInv, Types, OwnerTypes, NoMsg
  <2>4. Len(resps') = 1 /\ resps'[1] = answer  BY <2>2, <2>3, PutFirst DEF Replying
  <2>5. WholeOnly'  BY <2>4 DEF WholeOnly, IsAsk, IsGrant
  <2>6. LoaderAt'  BY DEF LoaderAt
  <2>7. Disarmed'  BY DEF Disarmed
  <2>8. Commands'  BY DEF Commands, Commanded, Returning, Working
  <2> QED BY <1>1, <1>2, <1>3, <2>1, <2>5, <2>6, <2>7, <2>8
<1> QED BY <1>4, <1>5

\* The play command is read: the shot that is in the memory, armed or at once.
LEMMA TakePlayStep == ASSUME TxInv, TakePlay PROVE TxInv'
<1> USE DEF TxInv, TakePlay, lockVars, reqVars, ownVars, loaderVars
<1> DEFINE c == Head(rep)
<1>1. IInv'  BY NextIInv DEF vars
<1>2. Len(rep) = 1 /\ rep = <<rep[1]>> /\ Commanded(rep[1])  BY DEF Commands
<1>3. c = rep[1] /\ Tail(rep) = <<>>  BY <1>2
<1>4. /\ c.shot = mem /\ c.shot \in Frames /\ c.shot.op \in Kinds
      /\ c.passes = IF c.shot.whole THEN c.shot.reps ELSE 0
  BY <1>2, <1>3 DEF Commanded
<1>5. /\ loop' = (c.shot.op = "loop") /\ nrep' = c.passes /\ shot' = c.shot /\ rep' = <<>>
      /\ words' = 0 /\ ppc' = IF OwesDone(c) THEN "token" ELSE "chunk"
      /\ IF absolute
           THEN pending' = (c.passes > 0) /\ playing' = FALSE /\ UNCHANGED rd
           ELSE playing' = (c.passes > 0) /\ rd' = 0 /\ UNCHANGED pending
  BY <1>3
<1>6. playing = FALSE /\ pending = FALSE /\ opc = "work" /\ yielded = None
  BY DEF Disarmed, TxTypes, IInv, Types, OwnerTypes
<1>7. c.shot.reps \in Nat /\ c.shot.whole \in BOOLEAN /\ c.passes \in Nat
  BY <1>4, ShotTxAssumption DEF Frames
<1> HIDE DEF c
<1>8. /\ (playing' \/ pending') => c.passes > 0
      /\ ~playing' \/ ~pending' 
      /\ pending' => absolute
      /\ playing' \in BOOLEAN /\ pending' \in BOOLEAN
  <2>1. CASE absolute /\ c.passes > 0  BY <1>5, <1>6, <2>1, Zenon
  <2>2. CASE ~absolute /\ c.passes > 0  BY <1>5, <1>6, <2>2, Zenon
  <2>3. CASE ~(c.passes > 0)
    <3>1. (c.passes > 0) = FALSE  BY <2>3
    <3> QED BY <1>5, <1>6, <3>1, Zenon
  <2> QED BY <2>1, <2>2, <2>3
<1>9. OwesDone(c) <=> c.passes = 0 /\ c.shot.op = "load"  BY <1>4 DEF OwesDone, Kinds
<1>10. loop' \in BOOLEAN /\ loop' = (shot'.op = "loop")  BY <1>5
<1>11. TxTypes'
  <2>1. nrep' \in Int /\ words' \in Int /\ shot' \in Frames  BY <1>4, <1>5, <1>7
  <2>2. ppc' \in {"chunk", "token", "poll", "rep"}  BY <1>5
  <2> QED BY <1>8, <1>10, <2>1, <2>2 DEF TxTypes
<1>12. AtBlock'
  <2>1. 0 % CheckPeriod = 0 /\ 0 \in 0..(NElem - 1)  BY LockAssumption, SMTT(20)
  <2> QED BY <1>5, <2>1 DEF AtBlock
<1>13. WholeOnly'  BY DEF WholeOnly, IsAsk, IsGrant
<1>14. LoaderAt'  BY DEF LoaderAt
<1>15. Disarmed'  BY <1>5, <1>6, <1>8 DEF Disarmed
<1>16. Commands'  BY <1>5 DEF Commands
<1>17. OneFinite'
  <2>1. ~LoadSent'  BY <1>5 DEF LoadSent
  <2>2. CASE c.shot.op = "load"
    <3>1. LoadSent  BY <1>3, <2>2 DEF LoadSent
    <3>2. finished = 0 /\ (busy \/ (frame.op = "load" /\ lpc \in {"release", "releasing"}))
      BY <3>1 DEF OneFinite
    <3>3. LoadPlays' => ppc' # "token"
      BY <1>5, <1>7, <1>8, <1>9 DEF LoadPlays
    <3> QED BY <2>1, <3>2, <3>3 DEF OneFinite
  <2>3. CASE c.shot.op # "load"
    <3>1. c.shot.op = "loop"  BY <1>4, <2>3 DEF Kinds
    <3>2. ~LoadPlays' /\ ppc' # "token"  BY <1>5, <1>9, <3>1, <2>3 DEF LoadPlays
    <3> QED BY <2>1, <3>2 DEF OneFinite
  <2> QED BY <2>2, <2>3
<1>18. Armed'
  <2>1. c.passes > 0 => c.shot.whole  BY <1>4, <1>7
  <2> QED BY <1>4, <1>5, <1>8, <1>10, <2>1 DEF Armed
<1>19. PassesExact'
  <2> SUFFICES ASSUME shot'.op = "load", shot'.whole
               PROVE  0 = (shot'.reps - nrep') * NElem + (IF playing' THEN rd' ELSE 0)
    BY <1>5 DEF PassesExact
  <2>1. shot'.reps = nrep' /\ nrep' \in Nat  BY <1>4, <1>5, <1>7
  <2>2. (shot'.reps - nrep') * NElem = 0
    <3>1. shot'.reps - nrep' = 0  BY <2>1
    <3> QED BY <3>1, LockAssumption
  <2>3. (IF playing' THEN rd' ELSE 0) = 0  BY <1>5, <1>6
  <2> QED BY <2>2, <2>3
<1> QED BY <1>1, <1>11, <1>12, <1>13, <1>14, <1>15, <1>16, <1>17, <1>18, <1>19

LEMMA SendDoneStep == ASSUME TxInv, SendDone PROVE TxInv'
<1> USE DEF TxInv, SendDone, lockVars, reqVars, ownVars, loaderVars
<1>1. IInv'  BY NextIInv DEF vars
<1>2. opc = "work" /\ yielded = None  BY DEF Disarmed, IInv, Types, OwnerTypes
<1>3. ppc' \in {"poll", "chunk"}  OBVIOUS
<1>4. TxTypes' /\ AtBlock'  BY <1>3 DEF TxTypes, AtBlock
<1>5. WholeOnly'  BY DEF WholeOnly, IsAsk, IsGrant
<1>6. LoaderAt'  BY DEF LoaderAt
<1>7. Disarmed'  BY <1>2, <1>3 DEF Disarmed
<1>8. Commands'  BY DEF Commands, Commanded, Returning, Working
<1>9. OneFinite'  BY <1>3 DEF OneFinite, LoadSent, LoadPlays
<1>10. Armed' /\ PassesExact'  BY DEF Armed, PassesExact
<1> QED BY <1>1, <1>4, <1>5, <1>6, <1>7, <1>8, <1>9, <1>10

LEMMA TxNextInv == ASSUME TxInv, TxNext PROVE TxInv'
<1>1. CASE Loader
  BY <1>1, LockTrafficStep, LoaderWritesStep, LoaderWroteStep, SendRepStep, LoaderReleasesStep,
     LoaderEndsStep DEF Loader
<1>2. CASE Player
  BY <1>2, PlayChunkStep, PlayedChunkStep, FillChunkStep, PlayerPollsStep, PlayerGrantsStep,
     TakePlayStep, SendDoneStep DEF Player
<1> QED BY <1>1, <1>2, TakeFrameStep DEF TxNext

LEMMA TxStutters == ASSUME TxInv, UNCHANGED <<lockVars, txVars>> PROVE TxInv'
<1> USE DEF TxInv, lockVars, txVars, reqVars, ownVars, loaderVars, playerVars
<1>1. IInv'  BY NextIInv DEF vars
<1>2. TxTypes' /\ AtBlock' /\ LoaderAt'  BY DEF TxTypes, AtBlock, LoaderAt
<1>3. WholeOnly'  BY DEF WholeOnly, IsAsk, IsGrant
<1>4. Disarmed' /\ Commands'  BY DEF Disarmed, Commands, Commanded, Returning, Working
<1>5. OneFinite'  BY DEF OneFinite, LoadSent, LoadPlays
<1>6. Armed' /\ PassesExact'  BY DEF Armed, PassesExact
<1> QED BY <1>1, <1>2, <1>3, <1>4, <1>5, <1>6

LEMMA TxInvMeans == ASSUME TxInv PROVE NeverTruncated /\ OnlyWholeShots /\ PassesExact
<1>1. NeverTruncated
  <2> SUFFICES ASSUME lpc \in {"acquiring", "writing"}
               PROVE  /\ \A i \in DOMAIN rep : rep[i].shot.op = "loop"
                      /\ playing \/ pending => loop
    BY DEF NeverTruncated
  <2>1. ~busy /\ ~LoadSent /\ ~LoadPlays  BY DEF TxInv, TxTypes, Active, OneFinite
  <2>2. ASSUME NEW i \in DOMAIN rep PROVE rep[i].shot.op = "loop"
    <3>1. rep # <<>>  BY <2>2
    <3>2. rep = <<rep[1]>> /\ rep[1].shot.op \in Kinds
      BY <3>1 DEF TxInv, Commands, Commanded
    <3>3. DOMAIN <<rep[1]>> = {1}  OBVIOUS
    <3>4. i = 1  BY <3>2, <3>3
    <3> QED BY <2>1, <3>1, <3>2, <3>4 DEF LoadSent, Kinds
  <2> QED BY <2>1, <2>2 DEF LoadPlays
<1>2. OnlyWholeShots  BY DEF TxInv, OnlyWholeShots, Armed
<1> QED BY <1>1, <1>2 DEF TxInv

-----------------------------------------------------------------------------
\* The receiver: its inductive invariant, by its parts.
W       == RegionWords
Bases   == {0, W}
Header  == [lost : BOOLEAN, base : Bases, dropped : 0..(DropMod - 1)]
Win(b)  == [lo |-> b, hi |-> b + W]

\* The windows the host has still to get, in order: the one being read, those
\* announced, the one whose announcement is being written.
Outs == (IF npc = "wait" THEN <<>> ELSE <<whdr>>) \o rdy
        \o (IF cpc = "announce" THEN <<hdr>> ELSE <<>>)

\* What the variables hold.
RxTypes ==
  /\ cpc \in {"block", "announce", "poll"} /\ npc \in {"wait", "acquiring", "reading", "sent"}
  /\ cur \in Halves /\ claimed \in BOOLEAN /\ full \in [Halves -> BOOLEAN]
  /\ absidx \in BOOLEAN /\ lost \in BOOLEAN /\ gap \in BOOLEAN
  /\ dropped \in 0..(DropMod - 1) /\ index \in 0..(DropMod - 1)
  /\ cells \in [0..(NElem - 1) -> 0..(DropMod - 1)]
  /\ hdr \in Header /\ whdr \in Header /\ rdy \in Seq(Header)
  /\ nwin \in Nat

\* Where the capture writes next.
WriteAt ==
  /\ wp % CheckPeriod = 0
  /\ IF absidx THEN wp \in 0..(NElem - 1) /\ index % NElem = wp
               ELSE wp \in Half(cur).lo..Half(cur).hi /\ ~claimed

\* How much of a window is in the half being filled.
Partial == IF absidx /\ ~claimed THEN 0 ELSE wp % W

\* A block being written lies in the half being filled, which is not full.
Writing ==
  opc = "access" =>
    /\ cpc = "block" /\ ~full[cur] /\ (absidx => claimed) /\ oext = [lo |-> wp, hi |-> wp + CheckPeriod]
    /\ Half(cur).lo <= wp /\ wp + CheckPeriod <= Half(cur).hi

\* The word of index x from the beginning of window w.
WordAt(w, x) == AbsIndex(w, x) % DropMod

\* The half of header h holds window w of the input.
Holds(h, w) ==
  /\ \A k \in 0..(W - 1) : cells[h.base + k] = WordAt(w, h.dropped + k)
  /\ absidx => cells[h.base] % NElem = h.base

\* Every window that is out is in a full half, each in one of its own.
Announced ==
  /\ \A i \in 1..Len(Outs) : full[Outs[i].base \div W] /\ Holds(Outs[i], nwin + (i - 1))
  /\ \A i, j \in 1..Len(Outs) : i # j => Outs[i].base # Outs[j].base

\* What is in the half being filled is the beginning of the window after those.
Filling ==
  /\ index = WordAt(nwin + Len(Outs), dropped + Partial)
  /\ Partial > 0 =>
       /\ ~full[wp \div W]
       /\ \A k \in 0..(Partial - 1) : cells[(wp - Partial) + k] = WordAt(nwin + Len(Outs), dropped + k)
       /\ absidx => cells[wp - Partial] % NElem = wp - Partial

\* A window that follows words that were dropped says so.
LastDropped == IF Outs = <<>> THEN whdr.dropped ELSE Outs[Len(Outs)].dropped
Gaps ==
  /\ \A i \in 1..(Len(Outs) - 1) : Outs[i + 1].dropped # Outs[i].dropped => Outs[i + 1].lost
  /\ npc = "wait" /\ Outs # <<>> => (Outs[1].dropped # whdr.dropped => Outs[1].lost)
  /\ npc # "wait" => (gap => whdr.lost)
  /\ ~lost => dropped = LastDropped

\* The messages are about the window being read, or the one being given back.
AskOk(m) ==
  /\ m.op = "acquire" => m.region = Win(whdr.base)
  /\ m.op = "release" => m.region = yielded
GrantOk(m) == m.op = "granted" /\ m.region = Win(whdr.base)
Asks ==
  /\ rpc = "send" => AskOk(msg)
  /\ \A i \in 1..Len(cmds) : AskOk(cmds[i])
  /\ opc = "asked" => answer.region = Win(whdr.base)
  /\ opc = "reply" => GrantOk(answer)
  /\ \A i \in 1..Len(resps) : GrantOk(resps[i])
  /\ held \in {None, Win(whdr.base)}
  /\ yielded # None => \E b \in Bases : yielded = Win(b)
\* Where the reader is says what it has of the lock.
ReaderAt ==
  /\ npc = "wait" => held = None /\ (rpc = "idle" \/ (rpc = "send" /\ msg.op = "release"))
  /\ npc = "acquiring" => \/ rpc = "send" /\ msg.op = "acquire"
                          \/ rpc = "resp"
                          \/ rpc = "idle" /\ held # None
  /\ npc = "reading" => rpc = "access" /\ held # None
  /\ npc = "sent" => rpc = "idle" /\ held # None

\* The half being given back is full until its release is polled, and no window that is
\* out is in it.
Unread ==
  Returning => /\ full[yielded.lo \div W]
               /\ \A i \in 1..Len(Outs) : Outs[i].base # yielded.lo

\* What was read is what is still there.
WinRead == npc = "sent" => window = [k \in 1..W |-> cells[whdr.base + (k - 1)]]

Handing == Writing /\ Asks /\ ReaderAt /\ Unread
Content == WriteAt /\ Announced /\ Filling /\ Gaps /\ WinRead
RxInv   == IInv /\ RxTypes /\ Handing /\ Content

-----------------------------------------------------------------------------
LEMMA RxNumbers ==
  /\ W \in Nat \ {0} /\ NElem = W + W /\ NElem \in Nat \ {0} /\ CheckPeriod \in Nat \ {0}
  /\ W % CheckPeriod = 0 /\ W <= MaxExtent /\ MaxExtent \in Nat
  /\ DropMod \in Nat \ {0} /\ DropMod % NElem = 0 /\ Halves = {0, 1} /\ NRegion = 2
  /\ Half(0) = [lo |-> 0, hi |-> W] /\ Half(1) = [lo |-> W, hi |-> NElem]
<1>1. NElem \in Nat \ {0} /\ CheckPeriod \in Nat \ {0} /\ MaxExtent \in Nat /\ NElem % 2 = 0
      /\ W = NElem \div 2 /\ W % CheckPeriod = 0 /\ MaxExtent >= W
      /\ DropMod \in Nat \ {0} /\ DropMod % NElem = 0
  BY LockAssumption, ShotRxAssumption DEF W, RegionWords, NRegion
<1>2. W \in Nat \ {0} /\ NElem = W + W  BY <1>1
<1>3. Halves = {0, 1}  BY DEF Halves, NRegion
<1>4. Half(0) = [lo |-> 0, hi |-> W] /\ Half(1) = [lo |-> W, hi |-> NElem]
  BY <1>2 DEF Half, W
<1> QED BY <1>1, <1>2, <1>3, <1>4 DEF NRegion

LEMMA InHalf ==
  /\ \A x \in 0..(W - 1) : x \div W = 0 /\ x % W = x
  /\ \A x \in W..(NElem - 1) : x \div W = 1 /\ x % W = x - W
  /\ NElem % W = 0
<1>0. W \in Nat \ {0} /\ NElem = W + W  BY RxNumbers
<1>1. ASSUME NEW x \in 0..(W - 1) PROVE x \div W = 0 /\ x % W = x
  BY <1>0
<1>2. ASSUME NEW x \in W..(NElem - 1) PROVE x \div W = 1 /\ x % W = x - W
  BY <1>0
<1>3. NElem % W = 0  BY <1>0
<1> QED BY <1>1, <1>2, <1>3

\* DropMod in whole windows.
LEMMA WindowsPerTurn ==
  /\ DropMod \div W \in Nat \ {0} /\ DropMod = W * (DropMod \div W) /\ DropMod % W = 0
<1>0. W \in Nat \ {0} /\ NElem = W + W /\ DropMod \in Nat \ {0} /\ DropMod % NElem = 0
  BY RxNumbers
<1>1. PICK q \in Int : DropMod = NElem * q + (DropMod % NElem)
  <2>1. DropMod \in Int /\ NElem \in Nat \ {0}  BY <1>0
  <2> QED BY <2>1, ModSplit, Zenon
<1>2. NElem * q = W * (q + q)
  <2>1. W * (q + q) = W * q + W * q /\ W * q \in Int  BY <1>0, ProductsLemma
  <2>2. (W + W) * q = W * q + W * q  BY <1>0, SMTT(20)
  <2> QED BY <1>0, <2>1, <2>2
<1> DEFINE k == q + q
<1>3. k \in Int /\ DropMod \in Int /\ 0 \in 0..(W - 1) /\ DropMod = W * k + 0  BY <1>0, <1>1, <1>2
<1>4. DropMod % W = 0
  <2> HIDE DEF k
  <2> QED BY <1>0, <1>3, ModUnique
<1>5. DropMod = W * (DropMod \div W) /\ DropMod \div W \in Int
  BY <1>0, <1>4, SMTT(20)
<1>6. DropMod \div W > 0
  <2> DEFINE d == DropMod \div W
  <2>1. d <= 0 => W * d <= W * 0  BY <1>0, <1>5, Monotone
  <2>2. W * 0 = 0 BY <1>0
  <2> HIDE DEF d
  <2> QED BY <1>0, <1>5, <2>1, <2>2 DEF d
<1> QED BY <1>4, <1>5, <1>6

LEMMA WordAdd ==
  ASSUME NEW w \in Int, NEW x \in Int, NEW n \in Int
  PROVE  /\ (WordAt(w, x) + n) % DropMod = WordAt(w, x + n)
         /\ WordAt(w, x) \in 0..(DropMod - 1)
<1> DEFINE a == w * W
<1>1. a \in Int /\ DropMod \in Nat \ {0}  BY RxNumbers
<1>2. WordAt(w, x) = (a + x) % DropMod /\ WordAt(w, x + n) = (a + (x + n)) % DropMod
  BY DEF WordAt, AbsIndex, W
<1> HIDE DEF a
<1>3. a + (x + n) = (a + x) + n /\ a + x \in Int  BY <1>1
<1>4. (((a + x) % DropMod) + n) % DropMod = ((a + x) + n) % DropMod
  BY <1>1, <1>3, ModAdd
<1>5. (a + x) % DropMod \in 0..(DropMod - 1)  BY <1>1, <1>3, ModSplit
<1> QED BY <1>2, <1>3, <1>4, <1>5

\* The count of dropped words may be kept modulo DropMod.
LEMMA WordDrop ==
  ASSUME NEW w \in Int, NEW d \in Int, NEW x \in Int
  PROVE  WordAt(w, (d % DropMod) + x) = WordAt(w, d + x)
<1> DEFINE a == w * W  b == a + x
<1>1. a \in Int /\ b \in Int /\ DropMod \in Nat \ {0}  BY RxNumbers
<1>2. WordAt(w, d + x) = (a + (d + x)) % DropMod
      /\ WordAt(w, (d % DropMod) + x) = (a + ((d % DropMod) + x)) % DropMod
  BY DEF WordAt, AbsIndex, W
<1>3. d % DropMod \in Int
  <2>1. d % DropMod \in 0..(DropMod - 1)  BY <1>1, ModSplit
  <2> QED BY <2>1
<1>4. a + (d + x) = d + b /\ a + ((d % DropMod) + x) = (d % DropMod) + b
  BY <1>1, <1>3
<1>5. ((d % DropMod) + b) % DropMod = (d + b) % DropMod
  <2> HIDE DEF b
  <2> QED BY <1>1, ModAdd
<1> QED BY <1>2, <1>4, <1>5

LEMMA WordNext ==
  ASSUME NEW w \in Int, NEW x \in Int
  PROVE  WordAt(w, x + W) = WordAt(w + 1, x)
<1>1. W \in Nat /\ w * W \in Int /\ (w + 1) * W = w * W + W  BY RxNumbers, SMTT(20)
<1>2. w * W + (x + W) = (w + 1) * W + x  BY <1>1
<1> QED BY <1>2 DEF WordAt, AbsIndex, W

\* The ordinal of a window may be kept modulo the windows in a turn.
LEMMA WordWrap ==
  ASSUME NEW w \in Nat, NEW j \in Int, NEW x \in Int
  PROVE  WordAt((w % (DropMod \div W)) + j, x) = WordAt(w + j, x)
<1> DEFINE q == DropMod \div W  r == w % q
<1>1. W \in Nat \ {0} /\ DropMod \in Nat \ {0} /\ q \in Nat \ {0} /\ DropMod = W * q
  BY RxNumbers, WindowsPerTurn
<1>2. r \in 0..(q - 1) /\ \E t \in Int : w = q * t + r
  <2>1. w \in Int  OBVIOUS
  <2> HIDE DEF q
  <2> QED BY <1>1, <2>1, ModSplit, Zenon
<1>3. PICK t \in Int : w = q * t + r  BY <1>2
<1> HIDE DEF q, r
<1> DEFINE a == (r + j) * W
<1>4. a \in Int  BY <1>1, <1>2
<1>5. (w + j) * W = DropMod * t + a
  <2>1. (q * t + (r + j)) * W = (q * t) * W + (r + j) * W  BY <1>1, <1>2, SMTT(20)
  <2>2. (q * t) * W = (W * q) * t  BY <1>1, SMTT(20)
  <2>3. w + j = q * t + (r + j)
    <3>1. q * t \in Int  BY <1>1
    <3> QED BY <1>2, <1>3, <3>1
  <2> QED BY <1>1, <2>1, <2>2, <2>3
<1> DEFINE y == a + x  s == y % DropMod
<1>6. y \in Int  BY <1>4
<1> HIDE DEF a
<1>7. s \in 0..(DropMod - 1) /\ \E p \in Int : y = DropMod * p + s
  <2> HIDE DEF y
  <2> QED BY <1>1, <1>6, ModSplit
<1>8. PICK p \in Int : y = DropMod * p + s  BY <1>7
<1> DEFINE z == (w + j) * W + x  k == t + p
<1>9. z = DropMod * k + s /\ k \in Int /\ z \in Int
  <2>1. DropMod * (t + p) = DropMod * t + DropMod * p /\ DropMod * t \in Int
        /\ DropMod * p \in Int
    BY <1>1, ProductsLemma
  <2>2. z = DropMod * t + y  BY <1>4, <1>5, <2>1
  <2> HIDE DEF y, s, z
  <2> QED BY <1>6, <1>7, <1>8, <2>1, <2>2
<1>10. z % DropMod = s
  <2> HIDE DEF z, k, s, y
  <2>1. DropMod \in Nat \ {0} /\ s \in 0..(DropMod - 1)  BY <1>1, <1>7
  <2> QED BY <1>9, <2>1, ModUnique
<1> QED BY <1>10 DEF WordAt, AbsIndex, W, q, r, a

\* An index and its remainder name the same address.
LEMMA AddressOf ==
  ASSUME NEW x \in Int
  PROVE  (x % DropMod) % NElem = x % NElem
<1>0. DropMod \in Nat \ {0} /\ NElem \in Nat \ {0} /\ DropMod % NElem = 0  BY RxNumbers
<1> DEFINE m == x % DropMod  r == m % NElem
<1>1. m \in 0..(DropMod - 1) /\ \E q \in Int : x = DropMod * q + m
  BY <1>0, ModSplit
<1>2. PICK q \in Int : x = DropMod * q + m  BY <1>1
<1>3. PICK d \in Int : DropMod = NElem * d + (DropMod % NElem)
  <2>1. DropMod \in Int /\ NElem \in Nat \ {0}  BY <1>0
  <2> QED BY <2>1, ModSplit, Zenon
<1>4. m \in Int  BY <1>1
<1> HIDE DEF m
<1>5. r \in 0..(NElem - 1) /\ \E p \in Int : m = NElem * p + r
  BY <1>0, <1>4, ModSplit
<1>6. PICK p \in Int : m = NElem * p + r  BY <1>5
<1> HIDE DEF r
<1> DEFINE k == d * q + p
<1>7. k \in Int /\ x = NElem * k + r
  <2>1. (NElem * d) * q = NElem * (d * q)  BY <1>0, SMTT(20)
  <2>2. NElem * (d * q + p) = NElem * (d * q) + NElem * p  BY <1>0, SMTT(20)
  <2>4. NElem * (d * q) \in Int /\ NElem * p \in Int /\ NElem * d \in Int  BY <1>0
  <2>3. DropMod * q = NElem * (d * q)
    <3>1. DropMod = NElem * d  BY <1>3, <1>0, <2>4
    <3> QED BY <3>1, <2>1
  <2>5. x = NElem * (d * q) + (NElem * p + r)  BY <1>2, <1>6, <2>3
  <2> QED BY <1>0, <1>5, <2>2, <2>4, <2>5
<1>8. x % NElem = r
  <2> HIDE DEF k
  <2> QED BY <1>0, <1>5, <1>7, ModUnique
<1> QED BY <1>8 DEF r, m

-----------------------------------------------------------------------------
\* The windows not yet sent are a queue: a step moves its head or its end from one
\* place to another, adds one at its end or takes one from its head.
LEMMA Singleton == ASSUME NEW S, NEW e \in S PROVE <<e>> \in Seq(S) /\ Len(<<e>>) = 1 /\ <<e>>[1] = e
OBVIOUS

LEMMA HeadFirst ==
  ASSUME NEW S, NEW q \in Seq(S), q # <<>>
  PROVE  q = <<Head(q)>> \o Tail(q)
<1> DEFINE t == <<Head(q)>> \o Tail(q)
<1>1. /\ Head(q) \in S /\ Tail(q) \in Seq(S) /\ Len(Tail(q)) = Len(q) - 1
      /\ \A i \in 1..Len(Tail(q)) : Tail(q)[i] = q[i + 1]
  BY HeadTailProperties
<1>2. <<Head(q)>> \in Seq(S) /\ Len(<<Head(q)>>) = 1 /\ <<Head(q)>>[1] = q[1]
  BY <1>1, Singleton
<1>3. Len(q) \in Nat  BY LenProperties
<1>4. t \in Seq(S) /\ Len(t) = Len(q)  BY <1>1, <1>2, <1>3, ConcatProperties
<1>5. ASSUME NEW i \in 1..Len(q) PROVE q[i] = t[i]
  <2>1. t[i] = IF i <= 1 THEN <<Head(q)>>[i] ELSE Tail(q)[i - 1]
    BY <1>1, <1>2, <1>3, ConcatProperties
  <2>2. CASE i = 1  BY <1>2, <2>1, <2>2
  <2>3. CASE i # 1
    <3>1. i - 1 \in 1..Len(Tail(q)) /\ (i - 1) + 1 = i /\ ~(i <= 1)  BY <1>1, <1>3, <2>3
    <3> QED BY <1>1, <2>1, <3>1
  <2> QED BY <2>2, <2>3
<1> HIDE DEF t
<1>6. q = t  BY <1>4, <1>5, SeqEqual
<1> QED BY <1>6 DEF t

LEMMA QueueMoves ==
  ASSUME NEW S, NEW f \in Seq(S), NEW r \in Seq(S), NEW b \in Seq(S), NEW e \in S
  PROVE  /\ r # <<>> => (<<>> \o r) \o b = (<<Head(r)>> \o Tail(r)) \o b
         /\ (f \o r) \o <<e>> = (f \o Append(r, e)) \o <<>>
         /\ (<<e>> \o r) \o b # <<>>
         /\ Head((<<e>> \o r) \o b) = e /\ Tail((<<e>> \o r) \o b) = (<<>> \o r) \o b
         /\ (f \o r) \o <<e>> = Append((f \o r) \o <<>>, e)
         /\ (f \o r) \o b \in Seq(S) /\ Len((f \o r) \o b) = Len(f) + (Len(r) + Len(b))
<1>1. <<e>> \in Seq(S) /\ Len(<<e>>) = 1 /\ <<e>>[1] = e  BY Singleton
<1>2. <<>> \o r = r /\ f \o r \in Seq(S) /\ (f \o r) \o <<>> = f \o r
  BY ConcatEmptySeq, ConcatProperties
<1>3. r # <<>> => (<<>> \o r) \o b = (<<Head(r)>> \o Tail(r)) \o b  BY <1>2, HeadFirst
<1>4. (f \o r) \o <<e>> = (f \o Append(r, e)) \o <<>>
  <2>1. Append(r, e) \in Seq(S) /\ Append(r, e) = r \o <<e>>
    BY AppendProperties, AppendIsConcat
  <2>2. f \o Append(r, e) \in Seq(S)  BY <2>1, ConcatProperties
  <2>3. (f \o Append(r, e)) \o <<>> = f \o Append(r, e)  BY <2>2, ConcatEmptySeq
  <2>4. (f \o r) \o <<e>> = f \o (r \o <<e>>)  BY <1>1, ConcatAssociative
  <2> QED BY <2>1, <2>3, <2>4
<1> DEFINE q == (<<e>> \o r) \o b  t == r \o b
<1>5. t \in Seq(S) /\ q = <<e>> \o t  BY <1>1, ConcatAssociative, ConcatProperties
<1>6. q \in Seq(S) /\ q # <<>> /\ q[1] = e
  <2> HIDE DEF t
  <2>1. Len(t) \in Nat  BY <1>5, LenProperties
  <2>2. q \in Seq(S) /\ Len(q) = 1 + Len(t)  BY <1>1, <1>5, ConcatProperties
  <2>3. 1 \in 1..(1 + Len(t)) /\ 1 <= 1  BY <2>1
  <2>4. (<<e>> \o t)[1] = e  BY <1>1, <1>5, <2>3, ConcatProperties
  <2> HIDE DEF q
  <2> QED BY <1>5, <2>1, <2>2, <2>4, EmptySeq
<1>7. Head(q) = e  BY <1>6, HeadTailProperties
<1>8. Tail(q) = t
  <2> HIDE DEF t
  <2>1. <<Head(q)>> \o Tail(q) = q /\ Tail(q) \in Seq(S)
    <3> HIDE DEF q
    <3> QED BY <1>6, HeadFirst, HeadTailProperties
  <2>2. <<e>> \o Tail(q) = <<e>> \o t  BY <1>5, <1>7, <2>1
  <2> HIDE DEF q
  <2> QED BY <1>1, <1>5, <2>1, <2>2, ConcatSimplifications
<1>9. (f \o r) \o <<e>> = Append((f \o r) \o <<>>, e)  BY <1>2, AppendIsConcat
<1>10. (f \o r) \o b \in Seq(S) /\ Len((f \o r) \o b) = Len(f) + (Len(r) + Len(b))
  <2>1. Len(f) \in Nat /\ Len(r) \in Nat /\ Len(b) \in Nat  BY LenProperties
  <2>2. Len(f \o r) = Len(f) + Len(r)  BY ConcatProperties
  <2>3. (f \o r) \o b \in Seq(S) /\ Len((f \o r) \o b) = Len(f \o r) + Len(b)
    BY <1>2, ConcatProperties
  <2> QED BY <2>1, <2>2, <2>3
<1> QED BY <1>2, <1>3, <1>4, <1>6, <1>7, <1>8, <1>9, <1>10

LEMMA HeaderFields ==
  ASSUME NEW h \in Header
  PROVE  h.base \in Bases /\ h.dropped \in 0..(DropMod - 1) /\ h.dropped \in Int
BY RxNumbers DEF Header

LEMMA WriteRange ==
  ASSUME RxTypes, WriteAt
  PROVE  /\ wp \in 0..NElem /\ wp \in Int
         /\ ~absidx => Half(cur).lo \in Int /\ Half(cur).hi \in Int /\ Half(cur).lo <= wp
                       /\ wp <= Half(cur).hi /\ Half(cur).hi = Half(cur).lo + W
                       /\ Half(cur).lo \in Bases /\ Half(cur).lo \div W = cur
<1>1. cur = 0 \/ cur = 1  BY RxNumbers DEF RxTypes
<1>2. W \in Nat \ {0} /\ NElem = W + W
      /\ Half(0) = [lo |-> 0, hi |-> W] /\ Half(1) = [lo |-> W, hi |-> NElem]
  BY RxNumbers
<1>3. 0 \div W = 0 /\ W \div W = 1
  <2>1. 0 \in 0..(W - 1) /\ W \in W..(NElem - 1)  BY <1>2
  <2> QED BY <2>1, InHalf
<1>4. Half(cur).lo \in {0, W} /\ Half(cur).hi = Half(cur).lo + W /\ Half(cur).lo \div W = cur
  BY <1>1, <1>2, <1>3
<1>5. CASE absidx  BY <1>2, <1>5 DEF WriteAt
<1>6. CASE ~absidx
  <2>1. wp \in Half(cur).lo..Half(cur).hi  BY <1>6 DEF WriteAt
  <2>2. wp \in 0..NElem  BY <1>2, <1>4, <2>1
  <2> QED BY <1>2, <1>4, <1>6, <2>1, <2>2 DEF Bases
<1> QED BY <1>5, <1>6

LEMMA OutsTypes ==
  ASSUME RxTypes
  PROVE  /\ Outs \in Seq(Header) /\ Len(Outs) \in Nat
         /\ npc # "wait" => Outs # <<>> /\ Outs[1] = whdr /\ Len(Outs) >= 1
         /\ Len(Outs) >= Len(rdy) + (IF cpc = "announce" THEN 1 ELSE 0)
         /\ Len(rdy) \in Nat
<1> DEFINE f == IF npc = "wait" THEN <<>> ELSE <<whdr>>
           b == IF cpc = "announce" THEN <<hdr>> ELSE <<>>
<1>1. rdy \in Seq(Header) /\ whdr \in Header /\ hdr \in Header  BY DEF RxTypes
<1>2. <<>> \in Seq(Header) /\ Len(<<>>) = 0 /\ <<whdr>> \in Seq(Header) /\ Len(<<whdr>>) = 1
      /\ <<hdr>> \in Seq(Header) /\ Len(<<hdr>>) = 1
  BY <1>1, EmptySeq, Singleton
<1>3. f \in Seq(Header) /\ b \in Seq(Header) /\ Len(f) \in {0, 1}
      /\ Len(b) = IF cpc = "announce" THEN 1 ELSE 0
  BY <1>2
<1>4. Outs = (f \o rdy) \o b  BY DEF Outs
<1>5. Len(rdy) \in Nat  BY <1>1, LenProperties
<1>6. npc # "wait" => Outs # <<>> /\ Head(Outs) = whdr
  <2>1. npc # "wait" => Outs = (<<whdr>> \o rdy) \o b  BY <1>4
  <2>2. (<<whdr>> \o rdy) \o b # <<>> /\ Head((<<whdr>> \o rdy) \o b) = whdr
    <3> HIDE DEF b
    <3> QED BY <1>1, <1>3, QueueMoves
  <2> QED BY <2>1, <2>2
<1> HIDE DEF f, b
<1>7. Outs \in Seq(Header) /\ Len(Outs) = Len(f) + (Len(rdy) + Len(b))
  <2>1. f \o rdy \in Seq(Header) /\ Len(f \o rdy) = Len(f) + Len(rdy)
    BY <1>1, <1>3, ConcatProperties
  <2>2. Outs \in Seq(Header) /\ Len(Outs) = Len(f \o rdy) + Len(b)
    BY <1>3, <1>4, <2>1, ConcatProperties
  <2>3. Len(b) \in Nat /\ Len(f) \in Nat  BY <1>3, LenProperties
  <2> QED BY <1>5, <2>1, <2>2, <2>3
<1>8. npc # "wait" => Outs[1] = whdr  BY <1>6, <1>7, HeadTailProperties
<1>9. Outs # <<>> => Len(Outs) >= 1  BY <1>7, EmptySeq
<1>10. Len(Outs) \in Nat  BY <1>7, LenProperties
<1> QED BY <1>3, <1>5, <1>6, <1>7, <1>8, <1>9, <1>10

-----------------------------------------------------------------------------
LEMMA WinFits ==
  ASSUME NEW b \in Bases
  PROVE  /\ Win(b) \in Regions /\ Win(b) \in Extents /\ Win(b) # None /\ CheckRegion(Win(b))
         /\ b \div W \in Halves /\ Half(b \div W).lo = b /\ Half(b \div W).hi = b + W
<1>1. W \in Nat \ {0} /\ NElem = W + W /\ W <= MaxExtent /\ MaxExtent \in Nat /\ Halves = {0, 1}
      /\ Half(0) = [lo |-> 0, hi |-> W] /\ Half(1) = [lo |-> W, hi |-> NElem]
  BY RxNumbers
<1>2. b = 0 \/ b = W  BY DEF Bases
<1>3. 0 \div W = 0 /\ W \div W = 1
  <2>1. 0 \in 0..(W - 1) /\ W \in W..(NElem - 1)  BY <1>1
  <2> QED BY <2>1, InHalf
<1>4. Win(b) \in Regions /\ Win(b) \in Extents /\ Win(b) # None /\ CheckRegion(Win(b))
  <2>1. b \in 0..(NElem - 1) /\ b + W \in 1..NElem /\ (b + W) - b <= MaxExtent /\ b < b + W
    BY <1>1, <1>2
  <2>2. b \in 0..NElem /\ b + W \in 0..(NElem + 1) /\ b # -1 /\ b <= b + W /\ b + W <= NElem
    BY <1>1, <1>2
  <2> QED BY <2>1, <2>2 DEF Win, Regions, Extents, None, CheckRegion
<1>5. b \div W \in Halves /\ Half(b \div W).lo = b /\ Half(b \div W).hi = b + W
  BY <1>1, <1>2, <1>3
<1> QED BY <1>4, <1>5

LEMMA TwoBases ==
  ASSUME NEW b \in Bases, NEW c \in Bases, b # c PROVE b \div W # c \div W
<1>1. 0 \in 0..(W - 1) /\ W \in W..(NElem - 1) /\ W \in Nat  BY RxNumbers
<1>2. 0 \div W = 0 /\ W \div W = 1  BY <1>1, InHalf
<1> QED BY <1>2 DEF Bases

\* What does not touch the data leaves it where its headers say.
LEMMA ContentKept ==
  ASSUME Content, Outs' = Outs, (npc = "wait") = (npc' = "wait"), npc' = "sent" => npc = "sent",
         UNCHANGED <<absidx, cur, wp, claimed, full, dropped, lost, index, cells, whdr, window,
                     nwin, gap>>
  PROVE  Content'
<1> USE DEF Content
<1>1. Partial' = Partial  BY DEF Partial
<1>2. WriteAt'  BY DEF WriteAt
<1>3. Announced'  BY DEF Announced, Holds
<1>4. Filling'  BY <1>1 DEF Filling
<1>5. Gaps'  BY DEF Gaps, LastDropped
<1>6. WinRead'  BY DEF WinRead
<1> QED BY <1>2, <1>3, <1>4, <1>5, <1>6

LEMMA RxKept ==
  ASSUME RxTypes, Content, UNCHANGED rxVars PROVE RxTypes' /\ Content' /\ Outs' = Outs
<1> USE DEF rxVars, captureVars, windowVars
<1>1. Outs' = Outs  BY DEF Outs
<1>2. RxTypes'  BY DEF RxTypes
<1> QED BY <1>1, <1>2, ContentKept

LEMMA RxInitInv == ASSUME Init, RxInit PROVE RxInv
<1> USE DEF Init, RxInit
<1>1. IInv  BY InitIInv
<1>2. W \in Nat \ {0} /\ NElem = W + W /\ NElem \in Nat \ {0} /\ CheckPeriod \in Nat \ {0}
      /\ DropMod \in Nat \ {0} /\ Halves = {0, 1} /\ Half(0) = [lo |-> 0, hi |-> W]
  BY RxNumbers
<1>3. 0 % CheckPeriod = 0 /\ 0 % NElem = 0 /\ 0 % W = 0 /\ 0 % DropMod = 0
  BY <1>2, SMTT(20)
<1>4. <<>> \in Seq(Header) /\ Len(<<>>) = 0  BY EmptySeq
<1>5. NoHdr \in Header  BY <1>2 DEF NoHdr, Header, Bases
<1>6. RxTypes
  <2>1. 0 \in 0..(DropMod - 1)  BY <1>2
  <2>2. full \in [Halves -> BOOLEAN] /\ cells \in [0..(NElem - 1) -> 0..(DropMod - 1)]
    BY <2>1
  <2> QED BY <1>2, <1>4, <1>5, <2>1, <2>2 DEF RxTypes
<1>7. Outs = <<>>
  <2>1. Outs = (<<>> \o <<>>) \o <<>>  BY DEF Outs
  <2> QED BY <1>4, <2>1, ConcatEmptySeq
<1>8. Partial = 0  BY <1>3 DEF Partial
<1>9. WriteAt  BY <1>2, <1>3 DEF WriteAt
<1>10. Announced  BY <1>4, <1>7 DEF Announced
<1>11. Filling
  <2>1. WordAt(nwin + Len(Outs), dropped + Partial) = 0
    <3>1. nwin + Len(Outs) = 0 /\ dropped + Partial = 0  BY <1>4, <1>7, <1>8
    <3>2. WordAt(0, 0) = 0  BY <1>2, <1>3 DEF WordAt, AbsIndex, W
    <3> QED BY <3>1, <3>2
  <2> QED BY <1>8, <2>1 DEF Filling
<1>12. Gaps  BY <1>4, <1>7 DEF Gaps, LastDropped, NoHdr
<1>13. WinRead /\ Writing /\ ReaderAt  BY DEF WinRead, Writing, ReaderAt
<1>14. Asks  BY <1>4 DEF Asks
<1>15. Unread  BY DEF Unread, Returning
<1> QED BY <1>1, <1>6, <1>9, <1>10, <1>11, <1>12, <1>13, <1>14, <1>15 DEF RxInv, Handing, Content

-----------------------------------------------------------------------------
\* The messages of the handover carry the window that is asked for, and no more.
LEMMA WindowTrafficStep == ASSUME RxInv, WindowTraffic PROVE RxInv'
<1> USE DEF RxInv, Handing, WindowTraffic
<1>1. RxTypes' /\ Content' /\ Outs' = Outs  BY RxKept
<1>2. UNCHANGED <<cpc, full, cur, claimed, absidx, wp, npc, whdr, window>>
  BY DEF rxVars, captureVars, windowVars
<1>3. CASE CommandLands
  <2> USE <1>3 DEF CommandLands, ownVars
  <2>1. IInv'  BY CommandLandsStep
  <2>2. Writing'  BY <1>2 DEF Writing
  <2>3. Asks'
    <3>1. cmds \in Seq(Message)  BY DEF IInv, Types, StreamTypes
    <3>2. AskOk(msg) /\ \A i \in 1..Len(cmds) : AskOk(cmds[i])  BY DEF Asks
    <3>3. msg # NoMsg => msg \in Message  BY DEF IInv, Types, RequesterTypes
    <3>4. msg # NoMsg
      BY DEF IInv, Phase, Quiet, Freeing, AskingBehind, AskingFirst, Waiting, Judging, Replying,
         Answered, NoMsg
    <3>5. \A i \in 1..Len(cmds') : AskOk(cmds'[i])
      BY <3>1, <3>2, <3>3, <3>4, AppendProperties
    <3>6. \A m : AskOk(m)' <=> AskOk(m)  BY <1>2 DEF AskOk
    <3> QED BY <1>2, <3>5, <3>6 DEF Asks, GrantOk, AskOk
  <2>4. ReaderAt'  BY <1>2 DEF ReaderAt
  <2>5. Unread'  BY <1>1, <1>2 DEF Unread, Returning, Working
  <2> QED BY <1>1, <2>1, <2>2, <2>3, <2>4, <2>5
<1>4. CASE GetResponse
  <2> USE <1>4 DEF GetResponse, ownVars
  <2>1. IInv'  BY GetResponseStep
  <2>2. Answered  BY ResponseAnswered
  <2>3. Head(resps) = resps[1] /\ resps' = <<>> /\ Len(resps) = 1
    BY <2>2, TakeOnly DEF Answered, IInv, Types, StreamTypes
  <2>4. GrantOk(Head(resps))  BY <2>3 DEF Asks
  <2>5. held' = Win(whdr.base)  BY <2>4 DEF GrantOk
  <2>6. whdr.base \in Bases /\ Win(whdr.base) # None  BY WinFits DEF RxTypes, Header
  <2>7. Asks'
    <3>1. Len(resps') = 0  BY <2>3, EmptySeq
    <3> QED BY <1>2, <2>5, <3>1 DEF Asks, AskOk, GrantOk
  <2>8. ReaderAt'  BY <1>2, <2>5, <2>6 DEF ReaderAt, RxTypes
  <2>9. Unread'  BY <2>5, <2>6 DEF Unread, Returning
  <2>10. Writing'  BY <1>2 DEF Writing
  <2> QED BY <1>1, <2>1, <2>7, <2>8, <2>9, <2>10
<1> QED BY <1>3, <1>4

\* The capture's verdict: a window is always a region it may yield.
LEMMA CaptureGrantsStep == ASSUME RxInv, CaptureGrants PROVE RxInv'
<1> USE DEF RxInv, Handing, CaptureGrants, reqVars
<1>1. RxTypes' /\ Content' /\ Outs' = Outs  BY RxKept
<1>2. UNCHANGED <<cpc, full, cur, claimed, absidx, wp, npc, whdr, window>>
  BY DEF rxVars, captureVars, windowVars
<1>3. whdr.base \in Bases  BY DEF RxTypes, Header
<1>4. CASE Grant
  <2> USE <1>4 DEF Grant
  <2>1. IInv'  BY GrantStep
  <2>2. answer.region = Win(whdr.base)  BY DEF Asks
  <2>3. answer' = [op |-> "granted", region |-> Win(whdr.base)] /\ yielded' = Win(whdr.base)
    BY <1>3, <2>2, WinFits
  <2>4. Judging  BY AskedJudging
  <2>5. Len(cmds) = 0 /\ rpc = "resp"  BY <2>4, EmptySeq DEF Judging, Waiting
  <2>6. Asks'  BY <1>2, <1>3, <2>3, <2>5 DEF Asks, AskOk, GrantOk
  <2>7. ReaderAt' /\ Writing'  BY <1>2 DEF ReaderAt, Writing
  <2>8. Unread'  BY DEF Unread, Returning, Working
  <2> QED BY <1>1, <2>1, <2>6, <2>7, <2>8
<1>5. CASE ResponseLands
  <2> USE <1>5 DEF ResponseLands
  <2>1. IInv'  BY ResponseLandsStep
  <2>2. Replying  BY ReplyReplying
  <2>3. answer \in Message  BY <2>2 DEF Replying, Verdict, IInv, Types, OwnerTypes, NoMsg
  <2>4. Len(resps') = 1 /\ resps'[1] = answer  BY <2>2, <2>3, PutFirst DEF Replying
  <2>5. Asks'  BY <1>2, <2>4 DEF Asks, AskOk, GrantOk
  <2>6. ReaderAt' /\ Writing'  BY <1>2 DEF ReaderAt, Writing
  <2>7. Unread'
    <3>1. resps' # <<>>  BY <2>4, EmptySeq
    <3> QED BY <3>1 DEF Unread, Returning
  <2> QED BY <1>1, <2>1, <2>5, <2>6, <2>7
<1> QED BY <1>4, <1>5

\* A window is taken off the announcements and asked for.
LEMMA TakeReadyStep == ASSUME RxInv, TakeReady PROVE RxInv'
<1> USE DEF RxInv, Handing, TakeReady, captureVars
<1>1. rdy \in Seq(Header) /\ rdy # <<>> /\ whdr' = Head(rdy) /\ rdy' = Tail(rdy)
  BY DEF RxTypes
<1>2. whdr' \in Header /\ rdy' \in Seq(Header)  BY <1>1, HeadTailProperties
<1>3. whdr'.base \in Bases  BY <1>2 DEF Header
<1>4. Acquire(Win(whdr'.base))  BY DEF Win, W
<1>5. IInv'  BY <1>3, <1>4, AcquireStep, WinFits
<1>6. rpc = "idle" /\ held = None /\ rpc' = "send" /\ msg' = [op |-> "acquire", region |-> Win(whdr'.base)]
      /\ UNCHANGED <<held, rext, ownVars, cmds, resps>>
  BY <1>4 DEF Acquire
<1>7. RxTypes'  BY <1>2 DEF RxTypes
<1>8. Outs' = Outs /\ Outs # <<>> /\ Outs[1] = whdr'
  <2> DEFINE b == IF cpc = "announce" THEN <<hdr>> ELSE <<>>
             q == (<<Head(rdy)>> \o Tail(rdy)) \o b
  <2>1. <<>> \o rdy = rdy /\ rdy = <<Head(rdy)>> \o Tail(rdy)
    BY <1>1, ConcatEmptySeq, HeadFirst
  <2>2. Outs = (<<>> \o rdy) \o b /\ Outs' = q  BY <1>1 DEF Outs
  <2>3. Outs = q  BY <2>1, <2>2
  <2>4. b \in Seq(Header)  BY EmptySeq, Singleton DEF RxTypes
  <2>5. q # <<>> /\ Head(q) = Head(rdy)
    <3> HIDE DEF b
    <3> QED BY <1>1, <1>2, <2>4, QueueMoves
  <2>6. q \in Seq(Header)
    <3>1. <<Head(rdy)>> \o Tail(rdy) \in Seq(Header)  BY <1>1, <2>1
    <3> HIDE DEF b
    <3> QED BY <2>4, <3>1, ConcatProperties
  <2> HIDE DEF q
  <2>7. q[1] = Head(q)  BY <2>5, <2>6, HeadTailProperties
  <2> QED BY <1>1, <2>2, <2>3, <2>5, <2>7
<1>10. Content'
  <2> USE DEF Content
  <2>1. Partial' = Partial /\ WriteAt'  BY DEF Partial, WriteAt
  <2>2. Announced'  BY <1>8 DEF Announced, Holds
  <2>3. Filling'  BY <1>8, <2>1 DEF Filling
  <2>4. Gaps'
    <3>1. Outs # <<>> /\ Outs[1] = whdr'  BY <1>8
    <3>2. LastDropped' = LastDropped  BY <1>8, <3>1 DEF LastDropped
    <3>3. gap' => whdr'.lost  BY <3>1 DEF Gaps
    <3> QED BY <1>8, <3>2, <3>3 DEF Gaps
  <2>5. WinRead'  BY DEF WinRead
  <2> QED BY <2>1, <2>2, <2>3, <2>4, <2>5
<1>11. Quiet \/ Freeing
  BY <1>6 DEF IInv, Phase, AskingBehind, AskingFirst, Judging, Replying, Answered, Waiting
<1>12. Asks'
  <2>1. Len(resps) = 0 /\ Working  BY <1>11, EmptySeq DEF Quiet, Freeing
  <2>2. \A i \in 1..Len(cmds) : cmds[i].op = "release"
    BY <1>6, <1>11, EmptySeq DEF Quiet, Freeing, OneCommand
  <2>3. AskOk(msg)'  BY <1>6 DEF AskOk
  <2>4. \A i \in 1..Len(cmds) : AskOk(cmds[i])'
    BY <1>6, <2>2 DEF Asks, AskOk, ownVars
  <2>5. held' = None /\ yielded' = yielded /\ opc' \in {"work", "access"} /\ Len(resps') = 0
    BY <1>6, <2>1 DEF ownVars, Working
  <2> QED BY <1>6, <2>3, <2>4, <2>5 DEF Asks
<1>13. ReaderAt'  BY <1>6 DEF ReaderAt
<1>14. Writing'  BY <1>6 DEF Writing, ownVars
<1>15. Unread'  BY <1>6, <1>8 DEF Unread, Returning, Working, ownVars
<1> QED BY <1>5, <1>7, <1>10, <1>12, <1>13, <1>14, <1>15

LEMMA WindowReadsStep == ASSUME RxInv, WindowReads PROVE RxInv'
<1> USE DEF RxInv, Handing, WindowReads, captureVars
<1>1. whdr.base \in Bases  BY DEF RxTypes, Header
<1>2. RequesterStarts(Win(whdr.base))  BY DEF Win, W
<1>3. IInv'  BY <1>1, <1>2, WinFits, RequesterAccessStep
<1>4. held # None /\ rpc' = "access" /\ UNCHANGED <<msg, held, ownVars, cmds, resps>>
  BY <1>2 DEF RequesterStarts
<1>5. RxTypes'  BY DEF RxTypes
<1>6. Outs' = Outs  BY DEF Outs
<1>7. Content'  BY <1>6, ContentKept
<1>8. Writing' /\ ReaderAt'  BY <1>4 DEF Writing, ReaderAt, ownVars
<1>9. Asks'  BY <1>4 DEF Asks, AskOk, GrantOk, ownVars
<1>10. Unread'  BY <1>4 DEF Unread, Returning
<1> QED BY <1>3, <1>5, <1>7, <1>8, <1>9, <1>10

LEMMA WindowSentStep == ASSUME RxInv, WindowSent PROVE RxInv'
<1> USE DEF RxInv, Handing, WindowSent, captureVars, RequesterEnds
<1>1. IInv'  BY RequesterAccessStep
<1>2. RxTypes'  BY DEF RxTypes
<1>3. Outs' = Outs  BY DEF Outs
<1>4. Content'
  <2> USE DEF Content
  <2>1. Partial' = Partial /\ WriteAt'  BY DEF Partial, WriteAt
  <2>2. Announced'  BY <1>3 DEF Announced, Holds
  <2>3. Filling'  BY <1>3, <2>1 DEF Filling
  <2>4. Gaps'  BY <1>3 DEF Gaps, LastDropped
  <2>5. WinRead'  BY DEF WinRead, W
  <2> QED BY <2>1, <2>2, <2>3, <2>4, <2>5
<1>5. Writing' /\ ReaderAt'  BY DEF Writing, ReaderAt, ownVars
<1>6. Asks'  BY DEF Asks, AskOk, GrantOk, ownVars
<1>7. Unread'  BY DEF Unread, Returning, ReaderAt
<1> QED BY <1>1, <1>2, <1>4, <1>5, <1>6, <1>7

\* The window goes back: what follows it is first, and its half stays unread until
\* the release is polled.
LEMMA WindowReleasesStep == ASSUME RxInv, WindowReleases PROVE RxInv'
<1> USE DEF RxInv, Handing, WindowReleases, captureVars, Release
<1>1. IInv'  BY ReleaseStep
<1>2. Quiet /\ yielded = held /\ held = Win(whdr.base)  BY HeldQuiet DEF Asks
<1>3. whdr.base \in Bases /\ whdr \in Header /\ rdy \in Seq(Header) /\ nwin \in Nat
  BY DEF RxTypes, Header
<1>4. /\ Outs \in Seq(Header) /\ Outs # <<>> /\ Outs[1] = whdr /\ Len(Outs) \in Nat
      /\ Len(Outs) >= 1
  BY OutsTypes
<1>5. Outs' = Tail(Outs)
  <2> DEFINE b == IF cpc = "announce" THEN <<hdr>> ELSE <<>>
  <2>1. Outs = (<<whdr>> \o rdy) \o b /\ Outs' = (<<>> \o rdy) \o b  BY DEF Outs
  <2>2. b \in Seq(Header)  BY EmptySeq, Singleton DEF RxTypes
  <2> HIDE DEF b
  <2> QED BY <1>3, <2>1, <2>2, QueueMoves
<1>6. /\ Len(Outs') = Len(Outs) - 1 /\ Len(Outs') \in Nat
      /\ \A i \in 1..Len(Outs') : Outs'[i] = Outs[i + 1] /\ i + 1 \in 1..Len(Outs)
  BY <1>4, <1>5, HeadTailProperties
<1>7. \A i \in 1..Len(Outs) : Outs[i].dropped \in Int
  <2> TAKE i \in 1..Len(Outs)
  <2>1. Outs[i] \in Header  BY <1>4, ElementOfSeq
  <2> QED BY <2>1, HeaderFields
<1> DEFINE q == DropMod \div W
<1>8. q \in Nat \ {0} /\ nwin' = (nwin + 1) % q  BY WindowsPerTurn DEF W
<1>9. \A j, x \in Int : WordAt(nwin' + j, x) = WordAt(nwin + 1 + j, x)
  <2> SUFFICES ASSUME NEW j \in Int, NEW x \in Int
               PROVE  WordAt(nwin' + j, x) = WordAt(nwin + 1 + j, x)
    OBVIOUS
  <2>1. nwin + 1 \in Nat  BY <1>3
  <2> QED BY <1>8, <2>1, WordWrap
<1>10. nwin' \in Nat
  <2>1. nwin' \in 0..(q - 1)
    <3>1. nwin + 1 \in Int  BY <1>3
    <3> HIDE DEF q
    <3> QED BY <1>8, <3>1, ModSplit
  <2> HIDE DEF q
  <2> QED BY <1>8, <2>1
<1> HIDE DEF q
<1>11. RxTypes'  BY <1>10 DEF RxTypes
<1>12. Content'
  <2> USE DEF Content
  <2>1. Partial' = Partial /\ WriteAt'  BY DEF Partial, WriteAt
  <2>2. Announced'
    <3>1. ASSUME NEW i \in 1..Len(Outs')
          PROVE  full'[Outs'[i].base \div W] /\ Holds(Outs[i], nwin + (i - 1))'
      <4>1. i + 1 \in 1..Len(Outs) /\ Outs'[i] = Outs[i + 1] /\ i \in Int  BY <1>6
      <4>2. full[Outs[i + 1].base \div W] /\ Holds(Outs[i + 1], nwin + ((i + 1) - 1))
        BY <4>1 DEF Announced
      <4>3. Outs[i + 1].dropped \in Int  BY <1>7, <4>1
      <4>4. nwin + ((i + 1) - 1) = nwin + 1 + (i - 1) /\ i - 1 \in Int
        <5> HIDE DEF WindowReleases, Content
        <5> QED BY <1>3, <4>1
      <4>5. \A k \in 0..(W - 1) :
              WordAt(nwin' + (i - 1), Outs[i + 1].dropped + k)
                = WordAt(nwin + ((i + 1) - 1), Outs[i + 1].dropped + k)
        <5> TAKE k \in 0..(W - 1)
        <5>1. Outs[i + 1].dropped + k \in Int  BY <4>3
        <5> QED BY <1>9, <4>4, <5>1
      <4>6. UNCHANGED <<full, cells, absidx>>  OBVIOUS
      <4> HIDE DEF WindowReleases, Content
      <4>7. Holds(Outs[i], nwin + (i - 1))'  BY <4>1, <4>2, <4>5, <4>6 DEF Holds
      <4> QED BY <4>1, <4>2, <4>6, <4>7
    <3>2. ASSUME NEW i \in 1..Len(Outs'), NEW j \in 1..Len(Outs'), i # j
          PROVE  Outs'[i].base # Outs'[j].base
      <4>1. i + 1 # j + 1  BY <1>6, <3>2
      <4> QED BY <1>6, <4>1 DEF Announced
    <3> HIDE DEF WindowReleases, Content
    <3> QED BY <3>1, <3>2 DEF Announced
  <2>3. Filling'
    <3>1. nwin + 1 + Len(Outs') = nwin + Len(Outs) /\ Len(Outs') \in Int  BY <1>3, <1>4, <1>6
    <3>2. Partial \in Int /\ dropped \in Int
      <4>1. wp \in Int /\ W \in Nat \ {0}  BY RxNumbers DEF WriteAt, RxTypes
      <4>2. wp % W \in 0..(W - 1)  BY <4>1, ModSplit
      <4> QED BY <4>1, <4>2 DEF Partial, RxTypes
    <3>3. \A x \in Int : WordAt(nwin' + Len(Outs'), x) = WordAt(nwin + Len(Outs), x)
      BY <1>9, <3>1
    <3>4. dropped + Partial \in Int /\ \A k \in 0..(Partial - 1) : dropped + k \in Int
      BY <3>2
    <3> QED BY <2>1, <3>3, <3>4 DEF Filling
  <2>4. Gaps'
    <3>1. ASSUME NEW i \in 1..(Len(Outs') - 1), Outs'[i + 1].dropped # Outs'[i].dropped
          PROVE  Outs'[i + 1].lost
      <4>1. i \in 1..Len(Outs') /\ i + 1 \in 1..Len(Outs') /\ i + 1 \in 1..(Len(Outs) - 1)
        BY <1>4, <1>6
      <4>2. Outs'[i] = Outs[i + 1] /\ Outs'[i + 1] = Outs[(i + 1) + 1]  BY <1>6, <4>1
      <4> QED BY <3>1, <4>1, <4>2 DEF Gaps
    <3>2. ASSUME Outs' # <<>>, Outs'[1].dropped # whdr.dropped PROVE Outs'[1].lost
      <4>1. Outs' \in Seq(Header)  BY <1>4, <1>5, HeadTailProperties
      <4>2. Len(Outs') >= 1  BY <3>2, <4>1, EmptySeq
      <4>3. 1 \in 1..Len(Outs') /\ 1 \in 1..(Len(Outs) - 1) /\ 1 + 1 = 2
        BY <1>4, <1>6, <4>2
      <4>4. Outs'[1] = Outs[1 + 1]  BY <1>6, <4>3
      <4> QED BY <1>4, <3>2, <4>3, <4>4 DEF Gaps
    <3>3. LastDropped' = LastDropped
      <4>1. Outs' \in Seq(Header)  BY <1>4, <1>5, HeadTailProperties
      <4>2. CASE Outs' = <<>>
        <5>1. Len(Outs) = 1  BY <1>4, <1>6, <4>2, EmptySeq
        <5> QED BY <1>4, <4>2, <5>1 DEF LastDropped
      <4>3. CASE Outs' # <<>>
        <5>1. Len(Outs') >= 1  BY <4>1, <4>3, EmptySeq
        <5>2. Len(Outs') \in 1..Len(Outs') /\ Len(Outs') + 1 = Len(Outs)  BY <1>4, <1>6, <5>1
        <5>3. Outs'[Len(Outs')] = Outs[Len(Outs)]  BY <1>6, <5>2
        <5> QED BY <1>4, <4>3, <5>3 DEF LastDropped
      <4> QED BY <4>2, <4>3
    <3> QED BY <3>1, <3>2, <3>3 DEF Gaps
  <2>5. WinRead'  BY DEF WinRead
  <2> QED BY <2>1, <2>2, <2>3, <2>4, <2>5
<1>13. Writing' /\ ReaderAt'  BY DEF Writing, ReaderAt, ownVars
<1>14. Asks'
  <2>1. cmds = <<>> /\ Len(cmds) = 0 /\ resps = <<>> /\ Len(resps) = 0  BY <1>2, EmptySeq DEF Quiet
  <2> QED BY <1>2, <2>1 DEF Asks, AskOk, GrantOk, ownVars, Quiet, Working
<1>15. Unread'
  <2>1. yielded' = Win(whdr.base) /\ yielded'.lo = whdr.base  BY <1>2 DEF ownVars, Win
  <2>2. 1 \in 1..Len(Outs)  BY <1>4
  <2>3. full[whdr.base \div W]  BY <1>4, <2>2 DEF Content, Announced
  <2>4. \A i \in 1..Len(Outs') : Outs'[i].base # whdr.base
    <3> TAKE i \in 1..Len(Outs')
    <3>1. i + 1 \in 1..Len(Outs) /\ i + 1 # 1  BY <1>6
    <3>2. Outs[i + 1].base # Outs[1].base  BY <2>2, <3>1 DEF Content, Announced
    <3> QED BY <1>4, <1>6, <3>2
  <2> QED BY <2>1, <2>3, <2>4 DEF Unread
<1> QED BY <1>1, <1>11, <1>12, <1>13, <1>14, <1>15

-----------------------------------------------------------------------------
\* The announcement is out.
LEMMA AnnounceStep == ASSUME RxInv, Announce PROVE RxInv'
<1> USE DEF RxInv, Handing, Announce, windowVars, lockVarsRx, reqVars, ownVars
<1>1. IInv'  BY NextIInv DEF vars
<1>2. hdr \in Header /\ rdy \in Seq(Header) /\ whdr \in Header  BY DEF RxTypes
<1>3. RxTypes'
  <2>1. rdy' \in Seq(Header)  BY <1>2, AppendProperties
  <2> QED BY <2>1 DEF RxTypes
<1>4. Outs' = Outs
  <2> DEFINE f == IF npc = "wait" THEN <<>> ELSE <<whdr>>
  <2>1. Outs = (f \o rdy) \o <<hdr>> /\ Outs' = (f \o Append(rdy, hdr)) \o <<>>  BY DEF Outs
  <2>2. f \in Seq(Header)  BY <1>2, EmptySeq, Singleton
  <2>3. (f \o rdy) \o <<hdr>> = (f \o Append(rdy, hdr)) \o <<>>
    <3> HIDE DEF f
    <3>1. Append(rdy, hdr) \in Seq(Header) /\ Append(rdy, hdr) = rdy \o <<hdr>>
          /\ <<hdr>> \in Seq(Header)
      BY <1>2, AppendProperties, AppendIsConcat
    <3>2. f \o Append(rdy, hdr) \in Seq(Header)  BY <2>2, <3>1, ConcatProperties
    <3>3. (f \o Append(rdy, hdr)) \o <<>> = f \o Append(rdy, hdr)  BY <3>2, ConcatEmptySeq
    <3>4. (f \o rdy) \o <<hdr>> = f \o (rdy \o <<hdr>>)  BY <1>2, <2>2, <3>1, ConcatAssociative
    <3> QED BY <3>1, <3>3, <3>4
  <2> QED BY <2>1, <2>3
<1>5. Content'  BY <1>4, ContentKept
<1>6. Writing' /\ ReaderAt'  BY DEF Writing, ReaderAt
<1>7. Asks'  BY DEF Asks, AskOk, GrantOk
<1>8. Unread'  BY <1>4 DEF Unread, Returning, Working
<1> QED BY <1>1, <1>3, <1>5, <1>6, <1>7, <1>8

\* One poll: an ACQUIRE changes nothing of the data, a RELEASE frees the half that
\* was given back, and only that one.
LEMMA CapturePollsStep == ASSUME RxInv, CapturePolls PROVE RxInv'
<1> USE DEF RxInv, Handing, CapturePolls, windowVars
<1>1. IInv'  BY PollStep
<1>2. opc = "work" /\ UNCHANGED <<rpc, msg, held, rext, oext, resps>>  BY DEF Poll, reqVars
<1>3. cmds \in Seq(Message)  BY DEF IInv, Types, StreamTypes
<1>4. Outs' = Outs  BY DEF Outs
<1>5. ReaderAt'  BY <1>2 DEF ReaderAt
<1>6. opc' # "access"  BY <1>2 DEF Poll
<1>7. Writing'  BY <1>6 DEF Writing
<1>8. CASE cmds = <<>>
  <2>1. UNCHANGED <<full, opc, yielded, answer, cmds>>  BY <1>8 DEF Poll
  <2>2. RxTypes'  BY <2>1 DEF RxTypes
  <2>3. Content'  BY <1>4, <2>1, ContentKept
  <2>4. Asks'  BY <1>2, <2>1 DEF Asks, AskOk, GrantOk
  <2>5. Unread'  BY <1>2, <1>4, <2>1 DEF Unread, Returning, Working
  <2> QED BY <1>1, <1>5, <1>7, <2>2, <2>3, <2>4, <2>5
<1>9. CASE cmds # <<>> /\ Head(cmds).op = "acquire"
  <2>1. opc' = "asked" /\ answer' = Head(cmds) /\ cmds' = Tail(cmds) /\ UNCHANGED <<yielded, full>>
    BY <1>9 DEF Poll
  <2>2. AskingFirst /\ rpc = "resp" /\ Head(cmds) = cmds[1] /\ Len(cmds) = 1
    BY <1>2, <1>9, PolledAcquire
  <2>3. RxTypes'  BY <2>1 DEF RxTypes
  <2>4. Content'  BY <1>4, <2>1, ContentKept
  <2>5. Asks'
    <3>1. cmds' = <<>> /\ Len(cmds') = 0  BY <1>3, <2>1, <2>2, TakeOnly, EmptySeq
    <3>2. answer'.region = Win(whdr.base)  BY <1>9, <2>1, <2>2 DEF Asks, AskOk
    <3>3. Len(resps) = 0 /\ held = None /\ yielded = None
      BY <2>2, EmptySeq DEF AskingFirst
    <3>4. UNCHANGED <<rpc, held, yielded, resps, whdr>>  BY <1>2, <2>1
    <3>5. rpc' = "resp" /\ held' = None /\ yielded' = None /\ whdr' = whdr
          /\ 1..Len(resps') = {} /\ 1..Len(cmds') = {}
      BY <2>2, <3>1, <3>3, <3>4
    <3> HIDE DEF CapturePolls, RxInv, Handing
    <3> QED BY <2>1, <3>2, <3>5, Zenon DEF Asks
  <2>6. Unread'  BY <2>1 DEF Unread, Returning, Working
  <2> QED BY <1>1, <1>5, <1>7, <2>3, <2>4, <2>5, <2>6
<1>10. CASE cmds # <<>> /\ Head(cmds).op = "release"
  <2> DEFINE h == Head(cmds).region.lo \div W
  <2>1. /\ cmds' = Tail(cmds) /\ yielded' = None /\ UNCHANGED <<opc, answer>>
        /\ full' = [full EXCEPT ![h] = FALSE]
    BY <1>10 DEF Poll, W
  <2>2. held = None /\ yielded # None /\ resps = <<>>  BY <1>2, <1>10, PolledRelease
  <2>3. Returning  BY <1>2, <2>2 DEF Returning, Working
  <2>4. Head(cmds) = cmds[1] /\ Len(cmds) >= 1
    <3>1. Head(cmds) = cmds[1]  BY <1>3, <1>10, HeadTailProperties
    <3>2. Len(cmds) \in Nat \ {0}  BY <1>3, <1>10, EmptySeq
    <3> QED BY <3>1, <3>2
  <2>5. Head(cmds).region = yielded
    <3>1. 1 \in 1..Len(cmds)
      <4>1. Len(cmds) \in Nat  BY <1>3, LenProperties
      <4> QED BY <2>4, <4>1
    <3> QED BY <1>10, <2>4, <3>1 DEF Asks, AskOk
  <2>6. PICK b \in Bases : yielded = Win(b)  BY <2>2 DEF Asks
  <2>7. h = b \div W /\ yielded.lo = b  BY <2>5, <2>6 DEF Win
  <2>8. h \in Halves  BY <2>7, WinFits
  <2> HIDE DEF h
  <2>9. RxTypes'
    <3>1. full' \in [Halves -> BOOLEAN]  BY <2>1 DEF RxTypes
    <3> QED BY <3>1 DEF RxTypes
  <2>10. \A i \in Halves : full'[i] => full[i]  BY <2>1 DEF RxTypes
  <2>11. Outs \in Seq(Header) /\ Len(Outs) \in Nat  BY OutsTypes
  <2>12. \A i \in 1..Len(Outs) : full'[Outs[i].base \div W]
    <3> TAKE i \in 1..Len(Outs)
    <3>1. Outs[i].base \in Bases
      <4>1. Outs[i] \in Header  BY <2>11, ElementOfSeq
      <4> QED BY <4>1, HeaderFields
    <3>2. Outs[i].base # b  BY <2>3, <2>7 DEF Unread
    <3>3. Outs[i].base \div W # h /\ Outs[i].base \div W \in Halves
      BY <2>7, <3>1, <3>2, TwoBases, WinFits
    <3>4. full[Outs[i].base \div W]  BY DEF Content, Announced
    <3> QED BY <2>1, <3>3, <3>4 DEF RxTypes
  <2>13. Content'
    <3> USE DEF Content
    <3>1. Partial' = Partial /\ WriteAt'  BY DEF Partial, WriteAt
    <3>2. Announced'  BY <1>4, <2>12 DEF Announced, Holds
    <3>3. Filling'
      <4>1. Partial > 0 => ~full'[wp \div W]
        <5>1. CASE wp \div W \in Halves  BY <2>10, <5>1 DEF Filling
        <5>2. CASE wp \div W \notin Halves
          <6>1. full' \in [Halves -> BOOLEAN] /\ full \in [Halves -> BOOLEAN]
            BY <2>9 DEF RxTypes
          <6>2. Partial > 0 => wp \div W \in Halves
            <7>1. wp \in 0..NElem /\ NElem % W = 0  BY WriteRange, InHalf
            <7>2. wp # NElem => wp \div W \in Halves
              <8>1. wp # NElem => wp \in 0..(W - 1) \/ wp \in W..(NElem - 1)
                BY <7>1, RxNumbers
              <8> QED BY <8>1, InHalf, RxNumbers
            <7> QED BY <7>1, <7>2 DEF Partial
          <6> QED BY <5>2, <6>2
        <5> QED BY <5>1, <5>2
      <4> QED BY <1>4, <3>1, <4>1 DEF Filling
    <3>4. Gaps'  BY <1>4 DEF Gaps, LastDropped
    <3>5. WinRead'  BY DEF WinRead
    <3> QED BY <3>1, <3>2, <3>3, <3>4, <3>5
  <2>14. Asks'
    <3>1. Freeing \/ AskingBehind
      BY <2>2, <1>2 DEF IInv, Phase, Quiet, AskingFirst, Judging, Replying, Answered, OneCommand,
         TwoCommands
    <3>2. rpc = "send" => msg.op = "acquire"
      BY <1>10, <3>1 DEF Freeing, AskingBehind
    <3>3. \A i \in 1..Len(cmds') : cmds'[i].op = "acquire" /\ cmds'[i].region = Win(whdr.base)
      <4>1. CASE Len(cmds) = 1
        <5>1. Len(cmds') = 0  BY <1>3, <2>1, <4>1, TakeOnly, EmptySeq
        <5> QED BY <5>1
      <4>2. CASE Len(cmds) # 1
        <5>1. Len(cmds) = 2 /\ cmds[2].op = "acquire"
          BY <3>1, <4>2, <1>10, EmptySeq DEF Freeing, AskingBehind, OneCommand, TwoCommands
        <5>2. Len(cmds') = 1 /\ cmds'[1] = cmds[2]  BY <1>3, <2>1, <5>1, TakeFirst
        <5>3. AskOk(cmds[2])  BY <5>1 DEF Asks
        <5> QED BY <5>1, <5>2, <5>3 DEF AskOk
      <4> QED BY <4>1, <4>2
    <3>4. Len(resps) = 0  BY <2>2, EmptySeq
    <3>5. AskOk(msg)' \/ rpc # "send"  BY <1>2, <3>2 DEF Asks, AskOk
    <3>6. \A i \in 1..Len(cmds') : AskOk(cmds[i])'  BY <3>3 DEF AskOk
    <3> QED BY <1>2, <2>1, <2>2, <3>4, <3>5, <3>6 DEF Asks
  <2>15. Unread'  BY <2>1 DEF Unread, Returning
  <2> QED BY <1>1, <1>5, <1>7, <2>9, <2>13, <2>14, <2>15
<1> QED BY <1>8, <1>9, <1>10 DEF Poll

-----------------------------------------------------------------------------
\* The capture at work leaves the other side's messages as they are.
LEMMA AsksKept ==
  ASSUME Asks, ReaderAt, Working', opc' \notin {"asked", "reply"},
         UNCHANGED <<reqVars, yielded, cmds, resps, npc, whdr>>
  PROVE  Asks' /\ ReaderAt'
BY DEF Asks, ReaderAt, AskOk, GrantOk, reqVars

LEMMA BlockFits ==
  /\ CheckPeriod <= W /\ 0 % CheckPeriod = 0 /\ NElem % CheckPeriod = 0 /\ W % CheckPeriod = 0
  /\ \A h \in Halves : /\ Half(h).lo % CheckPeriod = 0 /\ Half(h).hi % CheckPeriod = 0
                       /\ Half(h).lo \in Bases /\ Half(h).hi = Half(h).lo + W
                       /\ Half(h).lo \div W = h /\ Half(h).lo % W = 0 /\ Half(h).hi % W = 0
                       /\ Half(h).lo \in Int /\ 0 <= Half(h).lo /\ Half(h).lo + W <= NElem
<1>1. /\ W \in Nat \ {0} /\ NElem = W + W /\ CheckPeriod \in Nat \ {0} /\ W % CheckPeriod = 0
      /\ Halves = {0, 1} /\ Half(0) = [lo |-> 0, hi |-> W] /\ Half(1) = [lo |-> W, hi |-> NElem]
  BY RxNumbers
<1>2. 0 % CheckPeriod = 0 /\ 0 % W = 0 /\ W % W = 0 /\ NElem % W = 0
  BY <1>1, InHalf, SMTT(20)
<1>3. CheckPeriod <= W
  <2> DEFINE z == 0
  <2>1. z \in Int /\ W \in Int /\ z < W /\ z % CheckPeriod = 0 /\ W % CheckPeriod = 0
        /\ CheckPeriod \in Nat \ {0}
    BY <1>1, <1>2
  <2> HIDE DEF z
  <2>2. z + CheckPeriod <= W  BY <2>1, NextMultiple, Zenon
  <2> QED BY <1>1, <2>2 DEF z
<1>4. NElem % CheckPeriod = 0
  <2>1. ((W % CheckPeriod) + W) % CheckPeriod = (W + W) % CheckPeriod
    <3>1. W \in Int /\ CheckPeriod \in Nat \ {0}  BY <1>1
    <3> QED BY <3>1, ModAdd, Zenon
  <2>2. (W % CheckPeriod) + W = W  BY <1>1
  <2> QED BY <1>1, <2>1, <2>2
<1>5. 0 \div W = 0 /\ W \div W = 1
  <2>1. 0 \in 0..(W - 1) /\ W \in W..(NElem - 1)  BY <1>1
  <2> QED BY <2>1, InHalf
<1>6. ASSUME NEW h \in Halves
      PROVE  /\ Half(h).lo % CheckPeriod = 0 /\ Half(h).hi % CheckPeriod = 0
             /\ Half(h).lo \in Bases /\ Half(h).hi = Half(h).lo + W
             /\ Half(h).lo \div W = h /\ Half(h).lo % W = 0 /\ Half(h).hi % W = 0
             /\ Half(h).lo \in Int /\ 0 <= Half(h).lo /\ Half(h).lo + W <= NElem
  <2>1. CASE h = 0
    <3>1. Half(h).lo = 0 /\ Half(h).hi = W  BY <1>1, <2>1
    <3>2. 0 + W = W /\ 0 + W <= NElem /\ 0 \in Bases  BY <1>1 DEF Bases
    <3> QED BY <1>1, <1>2, <1>5, <2>1, <3>1, <3>2
  <2>2. CASE h = 1
    <3>1. Half(h).lo = W /\ Half(h).hi = NElem  BY <1>1, <2>2
    <3>2. W \in Bases /\ W \in Int /\ 0 <= W /\ W + W <= NElem  BY <1>1 DEF Bases
    <3> QED BY <1>1, <1>2, <1>4, <1>5, <2>2, <3>1, <3>2
  <2> QED BY <1>1, <2>1, <2>2
<1> QED BY <1>1, <1>2, <1>3, <1>4, <1>6

\* An address lies in one half; a block there that starts at a multiple of its
\* length stays in it.
LEMMA InItsHalf ==
  ASSUME NEW h \in Halves, NEW x \in Int, Half(h).lo <= x, x < Half(h).hi
  PROVE  /\ x \div W = h /\ x % W = x - Half(h).lo
         /\ x % CheckPeriod = 0 =>
              x + CheckPeriod <= Half(h).hi /\ (x + CheckPeriod) % CheckPeriod = 0
<1>1. /\ W \in Nat \ {0} /\ NElem = W + W /\ CheckPeriod \in Nat \ {0}
      /\ Halves = {0, 1} /\ Half(0) = [lo |-> 0, hi |-> W] /\ Half(1) = [lo |-> W, hi |-> NElem]
  BY RxNumbers
<1>2. x \div W = h /\ x % W = x - Half(h).lo
  <2>1. CASE h = 0
    <3>1. Half(h).lo = 0 /\ Half(h).hi = W  BY <1>1, <2>1
    <3>2. x \in 0..(W - 1) /\ x - 0 = x  BY <1>1, <3>1
    <3> QED BY <2>1, <3>1, <3>2, InHalf
  <2>2. CASE h = 1
    <3>1. Half(h).lo = W /\ Half(h).hi = NElem  BY <1>1, <2>2
    <3>2. x \in W..(NElem - 1)  BY <1>1, <3>1
    <3> QED BY <2>2, <3>1, <3>2, InHalf
  <2> QED BY <1>1, <2>1, <2>2
<1>3. x % CheckPeriod = 0 =>
        x + CheckPeriod <= Half(h).hi /\ (x + CheckPeriod) % CheckPeriod = 0
  <2> DEFINE hi == Half(h).hi
  <2>1. hi % CheckPeriod = 0 /\ hi \in Int /\ x < hi
    <3>1. hi % CheckPeriod = 0 /\ hi = Half(h).lo + W /\ Half(h).lo \in Int  BY BlockFits
    <3> QED BY <1>1, <3>1
  <2> HIDE DEF hi
  <2>2. x % CheckPeriod = 0 => x + CheckPeriod <= hi /\ (x + CheckPeriod) % CheckPeriod = 0
    BY <1>1, <2>1, NextMultiple
  <2> QED BY <2>2 DEF hi
<1> QED BY <1>2, <1>3

LEMMA WhichHalf ==
  ASSUME NEW x \in 0..(NElem - 1)
  PROVE  x \div W \in Halves /\ Half(x \div W).lo <= x /\ x < Half(x \div W).hi
<1>1. /\ W \in Nat \ {0} /\ NElem = W + W
      /\ Halves = {0, 1} /\ Half(0) = [lo |-> 0, hi |-> W] /\ Half(1) = [lo |-> W, hi |-> NElem]
  BY RxNumbers
<1>2. CASE x < W
  <2>1. x \in 0..(W - 1)  BY <1>1, <1>2
  <2>2. x \div W = 0  BY <2>1, InHalf
  <2> QED BY <1>1, <1>2, <2>2
<1>3. CASE x >= W
  <2>1. x \in W..(NElem - 1)  BY <1>1, <1>3
  <2>2. x \div W = 1  BY <2>1, InHalf
  <2> QED BY <1>1, <1>3, <2>2
<1> QED BY <1>1, <1>2, <1>3

LEMMA PartialRange == ASSUME RxTypes, WriteAt PROVE Partial \in 0..(W - 1)
<1>1. wp \in Int /\ W \in Nat \ {0}  BY WriteRange, RxNumbers
<1>2. wp % W \in 0..(W - 1)  BY <1>1, ModSplit
<1> QED BY <1>1, <1>2 DEF Partial

\* A half that is left is left whole.
LEMMA NoRoom ==
  ASSUME RxTypes, WriteAt, Filling, ~absidx, ~Room PROVE Partial = 0
<1>1. /\ wp \in Int /\ Half(cur).lo \in Int /\ Half(cur).hi \in Int /\ Half(cur).lo <= wp
      /\ wp <= Half(cur).hi /\ wp % CheckPeriod = 0 /\ cur \in Halves
  BY WriteRange DEF WriteAt, RxTypes
<1>2. Partial \in 0..(W - 1) /\ W \in Nat \ {0}  BY PartialRange, RxNumbers
<1>3. Partial = wp % W  BY DEF Partial
<1>4. CASE wp = Half(cur).hi  BY <1>1, <1>3, <1>4, BlockFits
<1>5. CASE wp < Half(cur).hi
  <2>1. wp \div W = cur /\ wp + CheckPeriod <= Half(cur).hi  BY <1>1, <1>5, InItsHalf
  <2>2. full[cur]  BY <2>1 DEF Room
  <2>3. ~(Partial > 0)  BY <2>1, <2>2 DEF Filling
  <2> QED BY <1>2, <2>3
<1> QED BY <1>1, <1>4, <1>5

\* The address after a block, and the index that has it.
LEMMA NextAddress ==
  ASSUME NEW x \in 0..(NElem - 1), x % CheckPeriod = 0
  PROVE  /\ x + CheckPeriod <= NElem
         /\ (x + CheckPeriod) % NElem \in 0..(NElem - 1)
         /\ ((x + CheckPeriod) % NElem) % CheckPeriod = 0
         /\ x + CheckPeriod < NElem => (x + CheckPeriod) % NElem = x + CheckPeriod
         /\ x + CheckPeriod >= NElem => (x + CheckPeriod) % NElem = 0
<1>1. NElem \in Nat \ {0} /\ CheckPeriod \in Nat \ {0} /\ x \in Int /\ x < NElem
  BY RxNumbers
<1>2. 0 % CheckPeriod = 0 /\ NElem % CheckPeriod = 0  BY BlockFits
<1> DEFINE y == x + CheckPeriod
<1>3. y <= NElem /\ y % CheckPeriod = 0
  <2>1. NElem \in Int  BY <1>1
  <2> QED BY <1>1, <1>2, <2>1, NextMultiple
<1>4. y \in Nat  BY <1>1
<1> HIDE DEF y
<1>5. CASE y < NElem
  <2>1. y % NElem = y  BY <1>1, <1>4, <1>5, SMTT(20)
  <2> QED BY <1>1, <1>3, <1>4, <1>5, <2>1 DEF y
<1>6. CASE y = NElem
  <2>1. y % NElem = 0  BY <1>1, <1>6, SMTT(20)
  <2>2. 0 \in 0..(NElem - 1)  BY <1>1
  <2> QED BY <1>1, <1>2, <1>3, <1>6, <2>1, <2>2 DEF y
<1> QED BY <1>1, <1>3, <1>4, <1>5, <1>6

LEMMA NextIndex ==
  ASSUME NEW i \in Int
  PROVE  ((i + CheckPeriod) % DropMod) % NElem = ((i % NElem) + CheckPeriod) % NElem
<1>1. NElem \in Nat \ {0} /\ CheckPeriod \in Int /\ i + CheckPeriod \in Int  BY RxNumbers
<1>2. ((i + CheckPeriod) % DropMod) % NElem = (i + CheckPeriod) % NElem  BY <1>1, AddressOf
<1>3. ((i % NElem) + CheckPeriod) % NElem = (i + CheckPeriod) % NElem  BY <1>1, ModAdd
<1> QED BY <1>2, <1>3

\* A block is placed in a half that is free, where the last one ended, or at the
\* beginning of a half when the one before was left whole.
LEMMA PlaceBlockStep == ASSUME RxInv, PlaceBlock PROVE RxInv'
<1> USE DEF RxInv, Handing, Content
<1>1. PICK p \in Places :
        /\ OwnerStarts([lo |-> p.at, hi |-> p.at + CheckPeriod])
        /\ cur' = p.half /\ wp' = p.at
  BY DEF PlaceBlock
<1>2. /\ cpc = "block" /\ claimed' = absidx
      /\ UNCHANGED <<absidx, cpc, full, dropped, lost, hdr, index, cells, rdy, npc, whdr, window,
                     nwin, gap>>
  BY DEF PlaceBlock, windowVars
<1>3. /\ opc = "work" /\ opc' = "access" /\ oext' = [lo |-> p.at, hi |-> p.at + CheckPeriod]
      /\ UNCHANGED <<reqVars, yielded, answer, cmds, resps>>
  BY <1>1 DEF OwnerStarts
<1>4. /\ wp \in Int /\ wp \in 0..NElem /\ wp % CheckPeriod = 0 /\ cur \in Halves
      /\ Partial \in 0..(W - 1) /\ W \in Nat \ {0} /\ NElem \in Nat \ {0}
      /\ absidx \in BOOLEAN /\ claimed \in BOOLEAN
  BY WriteRange, PartialRange, RxNumbers DEF WriteAt, RxTypes
<1>5. /\ p.half \in Halves /\ Half(p.half).lo <= p.at /\ p.at + CheckPeriod <= Half(p.half).hi
      /\ p.at \in Int /\ p.at % CheckPeriod = 0 /\ ~full[p.half]
      /\ Partial' = Partial /\ (Partial > 0 => p.at = wp) /\ (absidx => p.at = wp)
  <2>1. CASE absidx
    <3> DEFINE h == wp \div W
    <3>1. p = [half |-> h, at |-> wp] /\ ClaimsHalf  BY <2>1 DEF Places, W
    <3>2. wp \in 0..(NElem - 1)  BY <2>1 DEF WriteAt
    <3>3. h \in Halves /\ Half(h).lo <= wp /\ wp < Half(h).hi  BY <3>2, WhichHalf
    <3>4. wp + CheckPeriod <= Half(h).hi  BY <1>4, <3>3, InItsHalf
    <3>5. (IF wp % W = 0 THEN RegionFree(h) ELSE claimed)  BY <3>1 DEF ClaimsHalf, W
    <3>6. Partial' = wp % W
      <4>1. wp' = wp /\ absidx' /\ claimed'  BY <1>1, <1>2, <2>1, <3>1
      <4> QED BY <4>1 DEF Partial
    <3>7. CASE wp % W = 0
      <4>1. Partial = 0  BY <3>7 DEF Partial
      <4>2. ~full[h]  BY <3>5, <3>7 DEF RegionFree
      <4> QED BY <1>4, <2>1, <3>1, <3>3, <3>4, <3>6, <3>7, <4>1, <4>2
    <3>8. CASE wp % W # 0
      <4>1. Partial = wp % W  BY <3>5, <3>8 DEF Partial
      <4>2. Partial > 0  BY <1>4, <3>8, <4>1
      <4>3. ~full[h]  BY <4>2 DEF Filling
      <4> HIDE DEF h
      <4> QED BY <1>4, <2>1, <3>1, <3>3, <3>4, <3>6, <4>1, <4>3
    <3> QED BY <3>7, <3>8
  <2>2. CASE ~absidx
    <3>1. p \in FillPlaces  BY <2>2 DEF Places
    <3>2. Half(cur).lo <= wp  BY <2>2, WriteRange
    <3>3. Partial = wp % W /\ Partial' = wp' % W  BY <1>2, <2>2 DEF Partial
    <3>4. CASE Room
      <4>1. p = [half |-> cur, at |-> wp]  BY <3>1, <3>4 DEF FillPlaces
      <4>2. wp + CheckPeriod <= Half(cur).hi /\ ~full[cur]  BY <3>4 DEF Room
      <4> QED BY <1>1, <1>4, <2>2, <3>2, <3>3, <4>1, <4>2
    <3>5. CASE ~Room
      <4>1. PICK i \in Halves : RegionFree(i) /\ p = [half |-> i, at |-> Half(i).lo]
        BY <3>1, <3>5 DEF FillPlaces
      <4>2. Partial = 0  BY <2>2, <3>5, NoRoom
      <4>3. /\ Half(i).lo % CheckPeriod = 0 /\ Half(i).lo % W = 0 /\ Half(i).hi = Half(i).lo + W
            /\ Half(i).lo \in Int
        BY BlockFits
      <4>4. CheckPeriod <= W /\ CheckPeriod \in Nat  BY BlockFits, RxNumbers
      <4>5. Half(i).lo + CheckPeriod <= Half(i).hi /\ Half(i).lo <= Half(i).lo
        <5> DEFINE l == Half(i).lo
        <5>1. l \in Int /\ Half(i).hi = l + W  BY <4>3
        <5> HIDE DEF l
        <5>2. l + CheckPeriod <= l + W /\ l <= l  BY <1>4, <4>4, <5>1
        <5> QED BY <5>1, <5>2 DEF l
      <4>6. ~full[i]  BY <4>1 DEF RegionFree
      <4>7. Partial' = 0  BY <1>1, <3>3, <4>1, <4>3
      <4>8. ~(Partial > 0)  BY <4>2
      <4> QED BY <2>2, <4>1, <4>2, <4>3, <4>5, <4>6, <4>7, <4>8
    <3> QED BY <3>4, <3>5
  <2> QED BY <2>1, <2>2
<1>6. /\ Half(p.half).lo \in Int /\ 0 <= Half(p.half).lo /\ Half(p.half).lo + W <= NElem
      /\ Half(p.half).hi = Half(p.half).lo + W
  BY <1>5, BlockFits
<1>7. CheckPeriod <= W /\ CheckPeriod \in Nat \ {0} /\ W <= MaxExtent /\ MaxExtent \in Nat
  BY BlockFits, RxNumbers
<1>8. IInv'
  <2> DEFINE x == [lo |-> p.at, hi |-> p.at + CheckPeriod]
  <2>1. p.at \in 0..(NElem - 1) /\ p.at + CheckPeriod \in 1..NElem /\ p.at < p.at + CheckPeriod
        /\ (p.at + CheckPeriod) - p.at <= MaxExtent
    BY <1>4, <1>5, <1>6, <1>7
  <2>2. x \in Extents  BY <2>1 DEF Extents
  <2> HIDE DEF x
  <2> QED BY <1>1, <2>2, OwnerStartsStep DEF x
<1>9. Outs' = Outs  BY <1>2 DEF Outs
<1>10. RxTypes'  BY <1>1, <1>2, <1>5 DEF RxTypes
<1>11. WriteAt'
  <2>1. wp' % CheckPeriod = 0  BY <1>1, <1>5
  <2>2. CASE absidx  BY <1>1, <1>2, <1>5, <2>1, <2>2 DEF WriteAt
  <2>3. CASE ~absidx
    <3>1. p.at \in Half(p.half).lo..Half(p.half).hi
      <4> DEFINE l == Half(p.half).lo  u == Half(p.half).hi
      <4>1. l \in Int /\ u \in Int /\ l <= p.at /\ p.at + CheckPeriod <= u /\ p.at \in Int
        BY <1>4, <1>5, <1>6
      <4> HIDE DEF l, u
      <4>2. p.at \in l..u  BY <1>7, <4>1
      <4> QED BY <4>2 DEF l, u
    <3> QED BY <1>1, <1>2, <2>1, <2>3, <3>1 DEF WriteAt
  <2> QED BY <2>2, <2>3
<1>12. Announced' /\ Gaps' /\ WinRead'
  BY <1>2, <1>9 DEF Announced, Holds, Gaps, LastDropped, WinRead
<1>13. Filling'
  <2>1. Partial' = Partial /\ (Partial > 0 => wp' = wp)  BY <1>1, <1>5
  <2> QED BY <1>2, <1>9, <2>1 DEF Filling
<1>14. Writing'  BY <1>1, <1>2, <1>3, <1>5 DEF Writing
<1>15. Asks' /\ ReaderAt'  BY <1>2, <1>3, AsksKept DEF Working
<1>16. Unread'  BY <1>2, <1>3, <1>9 DEF Unread, Returning, Working, reqVars
<1> QED BY <1>8, <1>10, <1>11, <1>12, <1>13, <1>14, <1>15, <1>16

\* A block is dropped and counted: between two windows, never inside one.
LEMMA DropBlockStep == ASSUME RxInv, DropBlock PROVE RxInv'
<1> USE DEF RxInv, Handing, Content
<1>1. /\ cpc = "block" /\ Places = {} /\ OwnerFills(CheckPeriod) /\ cpc' = "poll"
      /\ claimed' = FALSE /\ cur' = (IF absidx THEN wp \div W ELSE cur)
      /\ dropped' = (dropped + CheckPeriod) % DropMod /\ lost' = TRUE
      /\ index' = (index + CheckPeriod) % DropMod
      /\ wp' = IF absidx THEN (wp + CheckPeriod) % NElem ELSE wp
      /\ UNCHANGED <<absidx, full, hdr, cells, rdy, npc, whdr, window, nwin, gap>>
  BY DEF DropBlock, AfterDrop, windowVars, W
<1>2. /\ opc = "work" /\ opc' = "work"
      /\ UNCHANGED <<reqVars, yielded, answer, cmds, resps>>
  BY <1>1 DEF OwnerFills
<1>3. /\ wp \in Int /\ wp \in 0..NElem /\ wp % CheckPeriod = 0 /\ cur \in Halves
      /\ Partial \in 0..(W - 1) /\ W \in Nat \ {0} /\ NElem \in Nat \ {0}
      /\ absidx \in BOOLEAN /\ claimed \in BOOLEAN /\ dropped \in Int /\ index \in Int
      /\ CheckPeriod \in Nat \ {0} /\ DropMod \in Nat \ {0}
  <2>1. /\ wp \in Int /\ wp \in 0..NElem /\ wp % CheckPeriod = 0 /\ cur \in Halves
        /\ Partial \in 0..(W - 1) /\ absidx \in BOOLEAN /\ claimed \in BOOLEAN
    BY WriteRange, PartialRange DEF WriteAt, RxTypes
  <2>2. dropped \in Int /\ index \in Int  BY DEF RxTypes
  <2> QED BY <2>1, <2>2, RxNumbers
<1>4. IInv'  BY <1>1, <1>3, OwnerFillsStep
<1>5. Outs' = Outs /\ Outs \in Seq(Header) /\ Len(Outs) \in Nat  BY <1>1, OutsTypes DEF Outs
<1>6. Partial = 0 /\ Partial' = 0
  <2>1. CASE absidx
    <3>1. ~ClaimsHalf  BY <1>1, <2>1 DEF Places
    <3>2. wp % W = 0 \/ ~claimed  BY <3>1 DEF ClaimsHalf, W
    <3> QED BY <1>1, <2>1, <3>2 DEF Partial
  <2>2. CASE ~absidx
    <3>1. FillPlaces = {}  BY <1>1, <2>2 DEF Places
    <3>2. ~Room  BY <3>1 DEF FillPlaces
    <3>3. Partial = 0  BY <2>2, <3>2, NoRoom
    <3> QED BY <1>1, <2>2, <3>3 DEF Partial
  <2> QED BY <2>1, <2>2
<1>7. absidx => /\ wp \in 0..(NElem - 1) /\ index % NElem = wp
                /\ wp + CheckPeriod <= NElem
                /\ wp' \in 0..(NElem - 1) /\ wp' % CheckPeriod = 0 /\ index' % NElem = wp'
  <2> SUFFICES ASSUME absidx
               PROVE  /\ wp \in 0..(NElem - 1) /\ index % NElem = wp
                      /\ wp + CheckPeriod <= NElem
                      /\ wp' \in 0..(NElem - 1) /\ wp' % CheckPeriod = 0 /\ index' % NElem = wp'
    OBVIOUS
  <2>1. wp \in 0..(NElem - 1) /\ index % NElem = wp  BY DEF WriteAt
  <2>2. wp' = (wp + CheckPeriod) % NElem  BY <1>1
  <2>3. wp + CheckPeriod <= NElem /\ wp' \in 0..(NElem - 1) /\ wp' % CheckPeriod = 0
    BY <1>3, <2>1, <2>2, NextAddress
  <2>4. index' % NElem = wp'  BY <1>1, <1>3, <2>1, <2>2, NextIndex
  <2> QED BY <2>1, <2>3, <2>4
<1>8. RxTypes'
  <2>1. dropped' \in 0..(DropMod - 1) /\ index' \in 0..(DropMod - 1)
    <3>1. dropped + CheckPeriod \in Int /\ index + CheckPeriod \in Int  BY <1>3
    <3> QED BY <1>1, <1>3, <3>1, ModSplit
  <2>2. cur' \in Halves
    <3>1. absidx => wp \div W \in Halves  BY <1>7, WhichHalf
    <3> QED BY <1>1, <1>3, <3>1
  <2> QED BY <1>1, <2>1, <2>2 DEF RxTypes
<1>9. WriteAt'  BY <1>1, <1>7 DEF WriteAt
<1>10. Announced' /\ Gaps' /\ WinRead'
  BY <1>1, <1>5 DEF Announced, Holds, Gaps, LastDropped, WinRead
<1>11. Filling'
  <2> DEFINE n == nwin + Len(Outs)
  <2>1. n \in Int /\ n' = n  BY <1>1, <1>5 DEF RxTypes
  <2>2. index = WordAt(n, dropped)
    <3>1. index = WordAt(n, dropped + Partial) /\ dropped + Partial = dropped
      BY <1>3, <1>6 DEF Filling
    <3> QED BY <3>1
  <2> HIDE DEF n
  <2>3. index' = WordAt(n, dropped + CheckPeriod)  BY <1>1, <1>3, <2>1, <2>2, WordAdd
  <2>4. WordAt(n, ((dropped + CheckPeriod) % DropMod) + 0) = WordAt(n, (dropped + CheckPeriod) + 0)
    <3>1. dropped + CheckPeriod \in Int /\ 0 \in Int  BY <1>3
    <3> QED BY <2>1, <3>1, WordDrop
  <2>5. (dropped + CheckPeriod) + 0 = dropped + CheckPeriod /\ dropped' + Partial' = dropped' + 0
    BY <1>3, <1>6
  <2>6. index' = WordAt(n', dropped' + Partial')  BY <1>1, <2>1, <2>3, <2>4, <2>5
  <2> QED BY <1>6, <2>6 DEF Filling, n
<1>12. Writing'  BY <1>2 DEF Writing
<1>13. Asks' /\ ReaderAt'  BY <1>1, <1>2, AsksKept DEF Working
<1>14. Unread'  BY <1>1, <1>2, <1>5 DEF Unread, Returning, Working, reqVars
<1> QED BY <1>4, <1>8, <1>9, <1>10, <1>11, <1>12, <1>13, <1>14

-----------------------------------------------------------------------------
\* What every end of a block does, whether it fills the half or not: in this section
\* b is where the half begins, p how much of it was written, n the window it is for.
LEMMA BlockPlace ==
  ASSUME RxInv, BlockWritten
  PROVE  /\ cpc = "block" /\ ~full[cur] /\ cur \in Halves /\ (absidx => claimed)
         /\ oext = [lo |-> wp, hi |-> wp + CheckPeriod]
         /\ Half(cur).lo \in Bases /\ Half(cur).lo \div W = cur /\ Half(cur).lo \in Int
         /\ 0 <= Half(cur).lo /\ Half(cur).lo + W <= NElem
         /\ Half(cur).hi = Half(cur).lo + W
         /\ Half(cur).lo <= wp /\ wp + CheckPeriod <= Half(cur).lo + W
         /\ wp \in Int /\ wp \div W = cur /\ Partial = wp - Half(cur).lo
         /\ wp % CheckPeriod = 0 /\ (wp + CheckPeriod) % CheckPeriod = 0
         /\ CheckPeriod \in Nat \ {0} /\ W \in Nat \ {0} /\ NElem \in Nat \ {0} /\ DropMod \in Nat \ {0}
         /\ dropped \in Int /\ index \in Int /\ nwin + Len(Outs) \in Int
<1>1. /\ cpc = "block" /\ ~full[cur] /\ cur \in Halves /\ (absidx => claimed)
      /\ oext = [lo |-> wp, hi |-> wp + CheckPeriod]
      /\ Half(cur).lo <= wp /\ wp + CheckPeriod <= Half(cur).hi
  BY DEF RxInv, Handing, Writing, BlockWritten, OwnerEnds, RxTypes
<1>2. /\ CheckPeriod \in Nat \ {0} /\ W \in Nat \ {0} /\ NElem \in Nat \ {0}
      /\ DropMod \in Nat \ {0}
  BY RxNumbers
<1>3. wp \in Int /\ wp % CheckPeriod = 0  BY WriteRange DEF RxInv, Content, WriteAt
<1>4. /\ Half(cur).lo \in Bases /\ Half(cur).lo \div W = cur /\ Half(cur).lo \in Int
      /\ 0 <= Half(cur).lo /\ Half(cur).lo + W <= NElem /\ Half(cur).hi = Half(cur).lo + W
  BY <1>1, BlockFits
<1>5. wp < Half(cur).hi
  <2> DEFINE u == Half(cur).hi
  <2>1. wp + CheckPeriod <= u /\ u \in Int  BY <1>1, <1>2, <1>4
  <2> HIDE DEF u
  <2>2. wp < u  BY <1>2, <1>3, <2>1
  <2> QED BY <2>2 DEF u
<1>6. /\ wp \div W = cur /\ wp % W = wp - Half(cur).lo
      /\ (wp + CheckPeriod) % CheckPeriod = 0
  BY <1>1, <1>3, <1>5, InItsHalf
<1>7. Partial = wp % W  BY <1>1 DEF Partial
<1>8. dropped \in Int /\ index \in Int /\ nwin + Len(Outs) \in Int
  <2>1. RxTypes  BY DEF RxInv
  <2>2. Len(Outs) \in Nat  BY <2>1, OutsTypes
  <2>3. nwin \in Nat /\ dropped \in 0..(DropMod - 1) /\ index \in 0..(DropMod - 1)
    BY <2>1 DEF RxTypes
  <2> QED BY <2>2, <2>3
<1> QED BY <1>1, <1>2, <1>3, <1>4, <1>6, <1>7, <1>8

LEMMA BlockCells ==
  ASSUME RxInv, BlockWritten
  PROVE  /\ \A k \in 0..((Partial + CheckPeriod) - 1) :
              cells'[Half(cur).lo + k] = WordAt(nwin + Len(Outs), dropped + k)
         /\ absidx => cells'[Half(cur).lo] % NElem = Half(cur).lo
         /\ index' = WordAt(nwin + Len(Outs), dropped + (Partial + CheckPeriod))
         /\ \A c \in Bases : c # Half(cur).lo =>
              \A k \in 0..(W - 1) : cells'[c + k] = cells[c + k]
         /\ cells' \in [0..(NElem - 1) -> 0..(DropMod - 1)] /\ index' \in 0..(DropMod - 1)
<1> DEFINE b == Half(cur).lo  p == Partial  n == nwin + Len(Outs)
<1>1. /\ oext = [lo |-> wp, hi |-> wp + CheckPeriod]
      /\ b \in Bases /\ b \div W = cur /\ b \in Int /\ 0 <= b /\ b + W <= NElem
      /\ wp \in Int /\ b <= wp /\ wp + CheckPeriod <= b + W /\ p = wp - b
      /\ CheckPeriod \in Nat \ {0} /\ W \in Nat \ {0} /\ NElem \in Nat \ {0} /\ DropMod \in Nat \ {0}
      /\ dropped \in Int /\ index \in Int /\ n \in Int
  BY BlockPlace
<1>2. /\ cells' = [a \in DOMAIN cells |->
                     IF a \in Elements(oext) THEN (index + (a - oext.lo)) % DropMod ELSE cells[a]]
      /\ index' = (index + CheckPeriod) % DropMod
  BY DEF BlockWritten
<1>3. /\ cells \in [0..(NElem - 1) -> 0..(DropMod - 1)] /\ index \in 0..(DropMod - 1)
      /\ index = WordAt(n, dropped + p)
      /\ p > 0 => \A k \in 0..(p - 1) : cells[(wp - p) + k] = WordAt(n, dropped + k)
      /\ absidx /\ p > 0 => cells[wp - p] % NElem = wp - p
      /\ absidx => index % NElem = wp
  BY DEF RxInv, RxTypes, Content, Filling, WriteAt
<1>4. Elements(oext) = wp..((wp + CheckPeriod) - 1)  BY <1>1 DEF Elements
<1>5. ASSUME NEW a \in 0..(NElem - 1)
      PROVE  /\ a \in wp..((wp + CheckPeriod) - 1) => cells'[a] = (index + (a - wp)) % DropMod
             /\ a \notin wp..((wp + CheckPeriod) - 1) => cells'[a] = cells[a]
  BY <1>1, <1>2, <1>3, <1>4
<1>6. cells' \in [0..(NElem - 1) -> 0..(DropMod - 1)]
  <2>1. \A a \in 0..(NElem - 1) :
          (IF a \in Elements(oext) THEN (index + (a - oext.lo)) % DropMod ELSE cells[a])
             \in 0..(DropMod - 1)
    <3> TAKE a \in 0..(NElem - 1)
    <3>1. cells[a] \in 0..(DropMod - 1)  BY <1>3
    <3>2. index + (a - oext.lo) \in Int  BY <1>1
    <3>3. (index + (a - oext.lo)) % DropMod \in 0..(DropMod - 1)  BY <1>1, <3>2, ModSplit
    <3> QED BY <3>1, <3>3
  <2>2. DOMAIN cells = 0..(NElem - 1)  BY <1>3
  <2> QED BY <1>2, <2>1, <2>2
<1> HIDE DEF b, p, n
<1>7. p \in Nat /\ b + p = wp /\ wp - p = b  BY <1>1
<1>8. index' = WordAt(n, dropped + (p + CheckPeriod)) /\ index' \in 0..(DropMod - 1)
  <2>1. dropped + p \in Int /\ CheckPeriod \in Int /\ (dropped + p) + CheckPeriod = dropped + (p + CheckPeriod)
    BY <1>1, <1>7
  <2>2. (WordAt(n, dropped + p) + CheckPeriod) % DropMod = WordAt(n, (dropped + p) + CheckPeriod)
    BY <1>1, <2>1, WordAdd
  <2>3. index + CheckPeriod \in Int  BY <1>1
  <2>4. (index + CheckPeriod) % DropMod \in 0..(DropMod - 1)  BY <1>1, <2>3, ModSplit
  <2> QED BY <1>2, <1>3, <2>1, <2>2, <2>4
<1>9. ASSUME NEW k \in 0..((p + CheckPeriod) - 1)
      PROVE  cells'[b + k] = WordAt(n, dropped + k)
  <2>1. b + k \in 0..(NElem - 1) /\ k \in Int  BY <1>1, <1>7
  <2>2. CASE k < p
    <3>1. b + k \notin wp..((wp + CheckPeriod) - 1) /\ k \in 0..(p - 1) /\ p > 0
      BY <1>1, <1>7, <2>1, <2>2
    <3>2. cells'[b + k] = cells[b + k]  BY <1>5, <2>1, <3>1
    <3>3. cells[(wp - p) + k] = WordAt(n, dropped + k)  BY <1>3, <3>1
    <3> QED BY <1>7, <3>2, <3>3
  <2>3. CASE k >= p
    <3>1. b + k \in wp..((wp + CheckPeriod) - 1) /\ (b + k) - wp = k - p
      BY <1>1, <1>7, <2>1, <2>3
    <3>2. cells'[b + k] = (index + (k - p)) % DropMod  BY <1>5, <2>1, <3>1
    <3>3. dropped + p \in Int /\ k - p \in Int /\ (dropped + p) + (k - p) = dropped + k
      BY <1>1, <1>7, <2>1
    <3>4. (WordAt(n, dropped + p) + (k - p)) % DropMod = WordAt(n, (dropped + p) + (k - p))
      BY <1>1, <3>3, WordAdd
    <3> QED BY <1>3, <3>2, <3>3, <3>4
  <2> QED BY <1>7, <2>1, <2>2, <2>3
<1>10. absidx => cells'[b] % NElem = b
  <2>1. b \in 0..(NElem - 1)  BY <1>1
  <2>2. CASE p > 0
    <3>1. b \notin wp..((wp + CheckPeriod) - 1)  BY <1>1, <1>7, <2>2
    <3>2. cells'[b] = cells[b]  BY <1>5, <2>1, <3>1
    <3> QED BY <1>3, <1>7, <2>2, <3>2
  <2>3. CASE p = 0
    <3>1. b = wp /\ b \in wp..((wp + CheckPeriod) - 1) /\ index + (b - wp) = index
      BY <1>1, <1>7, <2>3
    <3>2. cells'[b] = index % DropMod  BY <1>5, <2>1, <3>1
    <3>3. index % DropMod = index
      <4>1. \A D \in Nat \ {0} : \A x \in 0..(D - 1) : x % D = x  BY SMTT(20)
      <4> QED BY <1>1, <1>3, <4>1, Zenon
    <3> QED BY <1>3, <3>1, <3>2, <3>3
  <2> QED BY <1>7, <2>2, <2>3
<1>11. ASSUME NEW c \in Bases, c # b, NEW k \in 0..(W - 1)
       PROVE  cells'[c + k] = cells[c + k]
  <2>1. W \in Nat \ {0} /\ NElem = W + W  BY RxNumbers
  <2>2. (c = 0 \/ c = W) /\ (b = 0 \/ b = W)  BY <1>1 DEF Bases
  <2>3. c + k \in 0..(NElem - 1)  BY <2>1, <2>2
  <2>4. c + k \notin wp..((wp + CheckPeriod) - 1)
    <3>1. CASE c = 0 /\ b = W  BY <1>1, <2>1, <3>1
    <3>2. CASE c = W /\ b = 0  BY <1>1, <2>1, <3>2
    <3> QED BY <1>11, <2>2, <3>1, <3>2
  <2> QED BY <1>5, <2>3, <2>4
<1> QED BY <1>6, <1>8, <1>9, <1>10, <1>11 DEF b, p, n

\* The windows that are full are the other half's.
LEMMA OthersKept ==
  ASSUME RxInv, BlockWritten, NEW i \in 1..Len(Outs)
  PROVE  /\ full'[Outs[i].base \div W] /\ Outs[i].base # Half(cur).lo /\ Outs[i].base \in Bases
         /\ \A k \in 0..(W - 1) :
              cells'[Outs[i].base + k] = WordAt(nwin + (i - 1), Outs[i].dropped + k)
         /\ absidx => cells'[Outs[i].base] % NElem = Outs[i].base
         /\ \A k \in 0..(W - 1) : cells'[Outs[i].base + k] = cells[Outs[i].base + k]
<1>1. RxTypes /\ Announced  BY DEF RxInv, Content
<1>2. Outs \in Seq(Header)  BY <1>1, OutsTypes
<1>3. Outs[i] \in Header  BY <1>2, ElementOfSeq
<1>4. Outs[i].base \in Bases  BY <1>3, HeaderFields
<1>5. full[Outs[i].base \div W] /\ Holds(Outs[i], nwin + (i - 1))  BY <1>1 DEF Announced
<1>6. Outs[i].base # Half(cur).lo  BY <1>5, BlockPlace
<1>7. \A k \in 0..(W - 1) : cells'[Outs[i].base + k] = cells[Outs[i].base + k]
  BY <1>4, <1>6, BlockCells
<1>8. full'[Outs[i].base \div W]
  <2>1. full' = full \/ full' = [full EXCEPT ![cur] = TRUE]
    BY DEF BlockWritten, Complete
  <2>2. full \in [Halves -> BOOLEAN] /\ Outs[i].base \div W \in Halves
    BY <1>1, <1>4, WinFits DEF RxTypes
  <2> QED BY <1>5, <2>1, <2>2
<1>9. absidx => cells'[Outs[i].base] % NElem = Outs[i].base
  <2>1. 0 \in 0..(W - 1) /\ W \in Nat  BY RxNumbers
  <2>2. Outs[i].base + 0 = Outs[i].base
    <3>1. \A c \in Bases : c + 0 = c  BY <2>1 DEF Bases
    <3> QED BY <1>4, <3>1, Zenon
  <2>3. cells'[Outs[i].base + 0] = cells[Outs[i].base + 0]  BY <1>7, <2>1
  <2> QED BY <1>5, <2>2, <2>3 DEF Holds
<1> QED BY <1>4, <1>5, <1>6, <1>7, <1>8, <1>9 DEF Holds

LEMMA BlockRest ==
  ASSUME RxInv, BlockWritten
  PROVE  /\ IInv' /\ Writing' /\ Asks' /\ ReaderAt'
         /\ UNCHANGED <<absidx, cur, claimed, dropped, rdy, npc, whdr, window, nwin, gap>>
         /\ (Returning' => Returning) /\ yielded' = yielded
         /\ WinRead'
<1> USE DEF RxInv, Handing, Content
<1>1. /\ OwnerEnds
      /\ UNCHANGED <<absidx, cur, claimed, dropped, rdy, npc, whdr, window, nwin, gap>>
  BY DEF BlockWritten, windowVars
<1>2. opc = "access" /\ opc' = "work" /\ UNCHANGED <<reqVars, yielded, answer, cmds, resps>>
  BY <1>1 DEF OwnerEnds
<1>3. IInv'  BY <1>1, OwnerEndsStep
<1>4. Writing'  BY <1>2 DEF Writing
<1>5. Asks' /\ ReaderAt'  BY <1>1, <1>2, AsksKept DEF Working
<1>6. Returning' => Returning  BY <1>2 DEF Returning, Working, reqVars
<1>7. WinRead'
  <2>1. CASE npc = "sent"
    <3>1. Outs[1] = whdr /\ Len(Outs) >= 1 /\ Len(Outs) \in Nat  BY <2>1, OutsTypes
    <3>2. 1 \in 1..Len(Outs)  BY <3>1
    <3>3. \A k \in 0..(W - 1) : cells'[whdr.base + k] = cells[whdr.base + k]
      BY <3>1, <3>2, OthersKept
    <3>4. \A k \in 1..W : cells'[whdr.base + (k - 1)] = cells[whdr.base + (k - 1)]
      <4> TAKE k \in 1..W
      <4>1. k - 1 \in 0..(W - 1)  BY RxNumbers
      <4> QED BY <3>3, <4>1
    <3> QED BY <1>1, <2>1, <3>4 DEF WinRead
  <2> QED BY <1>1, <2>1 DEF WinRead
<1> QED BY <1>1, <1>2, <1>3, <1>4, <1>5, <1>6, <1>7

\* A block inside its half.
LEMMA BlockInsideStep ==
  ASSUME RxInv, BlockWritten, wp + CheckPeriod < Half(cur).hi PROVE RxInv'
<1> USE DEF RxInv, Handing, Content
<1> DEFINE b == Half(cur).lo  p == Partial  n == nwin + Len(Outs)
<1>1. /\ cpc = "block" /\ ~full[cur] /\ cur \in Halves /\ (absidx => claimed)
      /\ b \div W = cur /\ b \in Int /\ 0 <= b /\ b + W <= NElem /\ Half(cur).hi = b + W
      /\ wp \in Int /\ b <= wp /\ p = wp - b /\ (wp + CheckPeriod) % CheckPeriod = 0
      /\ CheckPeriod \in Nat \ {0} /\ W \in Nat \ {0} /\ NElem \in Nat \ {0}
      /\ dropped \in Int /\ index \in Int /\ n \in Int
  BY BlockPlace
<1>2. wp + CheckPeriod < b + W  BY <1>1
<1>3. ~(wp + CheckPeriod >= Half(cur).hi) /\ ~(wp + CheckPeriod >= NElem)
  <2> HIDE DEF p, n
  <2> DEFINE u == Half(cur).hi
  <2> HIDE DEF b
  <2>1. u = b + W  BY <1>1
  <2> HIDE DEF u
  <2>2. ~(wp + CheckPeriod >= u) /\ ~(wp + CheckPeriod >= NElem)  BY <1>1, <1>2, <2>1
  <2> QED BY <2>2 DEF u
<1>4. cpc' = "poll" /\ wp' = wp + CheckPeriod /\ UNCHANGED <<full, hdr, lost>>
      /\ index' = (index + CheckPeriod) % DropMod
  BY <1>3 DEF BlockWritten
<1>5. /\ UNCHANGED <<absidx, cur, claimed, dropped, rdy, npc, whdr, window, nwin, gap>>
      /\ IInv' /\ Writing' /\ Asks' /\ ReaderAt' /\ WinRead'
      /\ (Returning' => Returning) /\ yielded' = yielded
  BY BlockRest
<1>6. Outs' = Outs  BY <1>1, <1>4, <1>5 DEF Outs
<1>7. RxTypes'
  <2>1. /\ cells' \in [0..(NElem - 1) -> 0..(DropMod - 1)] /\ index' \in 0..(DropMod - 1)
    BY BlockCells
  <2> QED BY <1>4, <1>5, <2>1 DEF RxTypes
<1>8. wp' \div W = cur /\ wp' % W = wp' - b
  <2>1. wp' \in Int /\ Half(cur).lo <= wp' /\ wp' < Half(cur).hi
    <3> HIDE DEF p, n
    <3> DEFINE u == Half(cur).hi
    <3> HIDE DEF b
    <3>1. u = b + W  BY <1>1
    <3> HIDE DEF u
    <3>2. wp' \in Int /\ b <= wp' /\ wp' < u  BY <1>1, <1>2, <1>4, <3>1
    <3> QED BY <3>2 DEF u, b
  <2> QED BY <1>1, <2>1, InItsHalf
<1>9. Partial' = p + CheckPeriod
  <2>1. Partial' = wp' - b  BY <1>1, <1>5, <1>8 DEF Partial
  <2> HIDE DEF b, p, n
  <2> QED BY <1>1, <1>4, <2>1
<1>10. WriteAt'
  <2>1. wp' % CheckPeriod = 0  BY <1>1, <1>4
  <2>2. CASE absidx
    <3>1. wp \in 0..(NElem - 1) /\ index % NElem = wp /\ wp % CheckPeriod = 0
      BY <2>2 DEF WriteAt
    <3>2. (wp + CheckPeriod) % NElem = wp + CheckPeriod /\ (wp + CheckPeriod) % NElem \in 0..(NElem - 1)
      <4>1. wp + CheckPeriod < NElem
        <5> HIDE DEF b, p, n
        <5> QED BY <1>1, <1>2
      <4> QED BY <3>1, <4>1, NextAddress
    <3>3. index' % NElem = wp'  BY <1>1, <1>4, <3>1, <3>2, NextIndex
    <3> QED BY <1>4, <1>5, <2>1, <2>2, <3>2, <3>3 DEF WriteAt
  <2>3. CASE ~absidx
    <3>1. wp' \in b..(b + W)
      <4> HIDE DEF b, p, n
      <4> QED BY <1>1, <1>2, <1>4
    <3>2. ~claimed  BY <2>3 DEF WriteAt
    <3> QED BY <1>1, <1>5, <2>1, <2>3, <3>1, <3>2 DEF WriteAt
  <2> QED BY <2>2, <2>3
<1>11. Announced'
  <2>1. ASSUME NEW i \in 1..Len(Outs')
        PROVE  full'[Outs'[i].base \div W] /\ Holds(Outs[i], nwin + (i - 1))'
    <3>1. i \in 1..Len(Outs)  BY <1>6
    <3>2. /\ full'[Outs[i].base \div W]
          /\ \A k \in 0..(W - 1) :
               cells'[Outs[i].base + k] = WordAt(nwin + (i - 1), Outs[i].dropped + k)
          /\ absidx => cells'[Outs[i].base] % NElem = Outs[i].base
      BY <3>1, OthersKept
    <3> QED BY <1>5, <1>6, <3>2 DEF Holds
  <2>2. \A i, j \in 1..Len(Outs') : i # j => Outs'[i].base # Outs'[j].base
    BY <1>6 DEF Announced
  <2> QED BY <2>1, <2>2 DEF Announced
<1>12. Filling'
  <2>1. wp' - Partial' = b /\ n' = n
    <3>1. n' = n  BY <1>5, <1>6
    <3> HIDE DEF b, p, n
    <3> QED BY <1>1, <1>4, <1>9, <3>1
  <2>2. index' = WordAt(n, dropped + Partial')  BY <1>9, BlockCells
  <2>3. \A k \in 0..(Partial' - 1) : cells'[b + k] = WordAt(n, dropped + k)  BY <1>9, BlockCells
  <2>4. absidx => cells'[b] % NElem = b  BY BlockCells
  <2>5. ~full'[wp' \div W]  BY <1>1, <1>4, <1>8
  <2> HIDE DEF b, p
  <2> QED BY <1>5, <2>1, <2>2, <2>3, <2>4, <2>5 DEF Filling
<1>13. Gaps'  BY <1>4, <1>5, <1>6 DEF Gaps, LastDropped
<1>14. Unread'  BY <1>4, <1>5, <1>6 DEF Unread
<1> QED BY <1>5, <1>7, <1>10, <1>11, <1>12, <1>13, <1>14

\* A block that fills its half: the half is full, its header joins the queue, and the
\* next window begins.
LEMMA BlockCompleteStep ==
  ASSUME RxInv, BlockWritten, ~(wp + CheckPeriod < Half(cur).hi) PROVE RxInv'
<1> USE DEF RxInv, Handing, Content
<1> DEFINE b == Half(cur).lo  p == Partial  n == nwin + Len(Outs)
<1>1. /\ cpc = "block" /\ ~full[cur] /\ cur \in Halves /\ (absidx => claimed)
      /\ b \in Bases /\ b \div W = cur /\ b \in Int /\ 0 <= b /\ b + W <= NElem
      /\ Half(cur).hi = b + W
      /\ wp \in Int /\ b <= wp /\ wp + CheckPeriod <= b + W /\ p = wp - b
      /\ (wp + CheckPeriod) % CheckPeriod = 0
      /\ CheckPeriod \in Nat \ {0} /\ W \in Nat \ {0} /\ NElem \in Nat \ {0}
      /\ dropped \in Int /\ index \in Int /\ n \in Int
  BY BlockPlace
<1>2. ~(wp + CheckPeriod < b + W)  BY <1>1
<1>3. wp + CheckPeriod = b + W /\ p + CheckPeriod = W
  <2> HIDE DEF b, p, n
  <2> QED BY <1>1, <1>2
<1>4. /\ full' = [full EXCEPT ![cur] = TRUE]
      /\ hdr' = [lost |-> lost, base |-> b, dropped |-> dropped]
      /\ lost' = FALSE /\ cpc' = "announce"
      /\ index' = (index + CheckPeriod) % DropMod
      /\ wp' = IF absidx /\ b + W >= NElem THEN 0 ELSE b + W
  <2>1. wp + CheckPeriod >= Half(cur).hi
    <3> DEFINE u == Half(cur).hi
    <3>1. wp + CheckPeriod = u /\ u = b + W  BY <1>1, <1>3
    <3> HIDE DEF u, b, p, n
    <3>2. wp + CheckPeriod >= u  BY <1>1, <3>1
    <3> QED BY <3>2 DEF u
  <2> QED BY <1>3, <2>1 DEF BlockWritten, Complete
<1>5. /\ UNCHANGED <<absidx, cur, claimed, dropped, rdy, npc, whdr, window, nwin, gap>>
      /\ IInv' /\ Writing' /\ Asks' /\ ReaderAt' /\ WinRead'
      /\ (Returning' => Returning) /\ yielded' = yielded
  BY BlockRest
<1>6. hdr' \in Header  BY <1>1, <1>4 DEF Header, RxTypes
<1>7. /\ Outs \in Seq(Header) /\ Len(Outs) \in Nat /\ Outs' = Append(Outs, hdr')
  <2> DEFINE f == IF npc = "wait" THEN <<>> ELSE <<whdr>>
  <2>1. Outs = (f \o rdy) \o <<>> /\ Outs' = (f \o rdy) \o <<hdr'>>
    BY <1>1, <1>4, <1>5 DEF Outs
  <2>2. f \in Seq(Header) /\ rdy \in Seq(Header)
    BY EmptySeq, Singleton DEF RxTypes
  <2>3. (f \o rdy) \o <<hdr'>> = Append((f \o rdy) \o <<>>, hdr')
    <3> HIDE DEF f
    <3>1. f \o rdy \in Seq(Header)  BY <2>2, ConcatProperties
    <3> DEFINE h == hdr'  g == f \o rdy
    <3>2. h \in Header /\ g \in Seq(Header)  BY <1>6, <3>1
    <3> HIDE DEF h, g
    <3>3. g \o <<h>> = Append(g, h) /\ g \o <<>> = g
      BY <3>2, AppendIsConcat, ConcatEmptySeq
    <3> QED BY <3>3 DEF g, h
  <2> QED BY <2>1, <2>3, OutsTypes
<1>8. /\ Len(Outs') = Len(Outs) + 1 /\ Outs'[Len(Outs) + 1] = hdr'
      /\ \A i \in 1..Len(Outs) : Outs'[i] = Outs[i]
      /\ \A i \in 1..Len(Outs') : i \in 1..Len(Outs) \/ i = Len(Outs) + 1
      /\ Len(Outs) + 1 \in 1..Len(Outs')
  <2> DEFINE h == hdr'  q == Outs  r == Outs'
  <2>1. h \in Header /\ q \in Seq(Header) /\ r = Append(q, h) /\ Len(q) \in Nat
    BY <1>6, <1>7
  <2> HIDE DEF h, q, r, b, p, n
  <2>2. /\ Len(r) = Len(q) + 1 /\ r[Len(q) + 1] = h /\ \A i \in 1..Len(q) : r[i] = q[i]
    BY <2>1, AppendProperties
  <2>3. (\A i \in 1..Len(r) : i \in 1..Len(q) \/ i = Len(q) + 1) /\ Len(q) + 1 \in 1..Len(r)
    BY <2>1, <2>2
  <2> QED BY <2>2, <2>3 DEF h, q, r
<1>9. RxTypes'
  <2>1. /\ cells' \in [0..(NElem - 1) -> 0..(DropMod - 1)] /\ index' \in 0..(DropMod - 1)
    BY BlockCells
  <2>2. full' \in [Halves -> BOOLEAN]  BY <1>4 DEF RxTypes
  <2>3. UNCHANGED <<absidx, cur, claimed, dropped, rdy, npc, whdr, nwin, gap>>
        /\ cpc' = "announce" /\ lost' = FALSE
    BY <1>4, <1>5
  <2> QED BY <1>6, <2>1, <2>2, <2>3 DEF RxTypes
<1>10. /\ wp' \in Int /\ wp' % CheckPeriod = 0 /\ Partial' = 0
       /\ absidx => wp' \in 0..(NElem - 1) /\ index' % NElem = wp'
       /\ ~absidx => wp' = b + W
  <2>0. /\ 0 % CheckPeriod = 0 /\ 0 % W = 0 /\ (b + W) % W = 0 /\ (b + W) % CheckPeriod = 0
    <3>1. Half(cur).hi % W = 0 /\ Half(cur).hi % CheckPeriod = 0  BY <1>1, BlockFits
    <3>2. 0 % W = 0  BY <1>1
    <3> QED BY <1>1, <3>1, <3>2, BlockFits
  <2>1. wp' % W = 0 /\ wp' % CheckPeriod = 0 /\ wp' \in Int
    <3> HIDE DEF b, p, n
    <3> QED BY <1>1, <1>4, <2>0
  <2>2. Partial' = 0  BY <1>1, <1>5, <2>1 DEF Partial
  <2>3. ASSUME absidx PROVE wp' \in 0..(NElem - 1) /\ index' % NElem = wp'
    <3>1. wp \in 0..(NElem - 1) /\ index % NElem = wp /\ wp % CheckPeriod = 0
      BY <2>3 DEF WriteAt
    <3>2. /\ (wp + CheckPeriod) % NElem \in 0..(NElem - 1)
          /\ wp + CheckPeriod < NElem => (wp + CheckPeriod) % NElem = wp + CheckPeriod
          /\ wp + CheckPeriod >= NElem => (wp + CheckPeriod) % NElem = 0
      BY <3>1, NextAddress
    <3>3. wp' = (wp + CheckPeriod) % NElem
      <4> HIDE DEF b, p, n
      <4>1. CASE b + W >= NElem
        <5>1. wp' = 0  BY <1>4, <2>3, <4>1
        <5>2. wp + CheckPeriod >= NElem  BY <1>3, <4>1
        <5> QED BY <3>2, <5>1, <5>2
      <4>2. CASE ~(b + W >= NElem)
        <5>1. wp' = b + W  BY <1>4, <4>2
        <5>2. wp + CheckPeriod < NElem  BY <1>1, <1>3, <4>2
        <5> QED BY <1>3, <3>2, <5>1, <5>2
      <4> QED BY <4>1, <4>2
    <3>4. index' % NElem = (wp + CheckPeriod) % NElem  BY <1>1, <1>4, <3>1, NextIndex
    <3> QED BY <3>2, <3>3, <3>4
  <2>4. ~absidx => wp' = b + W  BY <1>4
  <2> QED BY <2>1, <2>2, <2>3, <2>4
<1>11. WriteAt'
  <2>1. CASE absidx  BY <1>5, <1>10, <2>1 DEF WriteAt
  <2>2. CASE ~absidx
    <3>1. b + W \in b..(b + W)
      <4> HIDE DEF b, p, n
      <4> QED BY <1>1
    <3>2. ~claimed  BY <2>2 DEF WriteAt
    <3> QED BY <1>1, <1>5, <1>10, <2>2, <3>1, <3>2 DEF WriteAt
  <2> QED BY <2>1, <2>2
<1>12. Announced'
  <2>1. ASSUME NEW i \in 1..Len(Outs')
        PROVE  full'[Outs'[i].base \div W] /\ Holds(Outs[i], nwin + (i - 1))'
    <3>1. CASE i \in 1..Len(Outs)
      <4>1. /\ full'[Outs[i].base \div W]
            /\ \A k \in 0..(W - 1) :
                 cells'[Outs[i].base + k] = WordAt(nwin + (i - 1), Outs[i].dropped + k)
            /\ absidx => cells'[Outs[i].base] % NElem = Outs[i].base
        BY <3>1, OthersKept
      <4>2. Outs'[i] = Outs[i]  BY <1>8, <3>1
      <4> QED BY <1>5, <4>1, <4>2 DEF Holds
    <3>2. CASE i = Len(Outs) + 1
      <4>1. Outs'[i] = hdr' /\ hdr'.base = b /\ hdr'.dropped = dropped  BY <1>4, <1>8, <3>2
      <4>2. nwin + (i - 1) = n
        <5>1. nwin \in Nat  BY DEF RxTypes
        <5> DEFINE l == Len(Outs)
        <5>2. l \in Nat /\ i = l + 1  BY <1>7, <3>2
        <5> HIDE DEF l
        <5>3. nwin + (i - 1) = nwin + l  BY <5>1, <5>2
        <5> QED BY <5>3 DEF l
      <4>3. full'[b \div W]  BY <1>1, <1>4 DEF RxTypes
      <4>4. \A k \in 0..(W - 1) : cells'[b + k] = WordAt(n, dropped + k)
        BY <1>3, BlockCells
      <4>5. absidx => cells'[b] % NElem = b  BY BlockCells
      <4>6. \A k \in 0..(W - 1) : cells'[b + k] = WordAt(nwin + (i - 1), dropped + k)
        BY <4>2, <4>4
      <4> HIDE DEF b, p, n
      <4> QED BY <1>5, <4>1, <4>3, <4>5, <4>6 DEF Holds
    <3> QED BY <1>8, <3>1, <3>2
  <2>2. ASSUME NEW i \in 1..Len(Outs'), NEW j \in 1..Len(Outs'), i # j
        PROVE  Outs'[i].base # Outs'[j].base
    <3>1. \A m \in 1..Len(Outs) : Outs'[m] = Outs[m] /\ Outs[m].base # b
      BY <1>8, OthersKept
    <3>2. hdr'.base = b  BY <1>4
    <3>3. CASE i \in 1..Len(Outs) /\ j \in 1..Len(Outs)
      BY <2>2, <3>1, <3>3 DEF Announced
    <3>4. CASE i \in 1..Len(Outs) /\ j = Len(Outs) + 1  BY <1>8, <3>1, <3>2, <3>4
    <3>5. CASE j \in 1..Len(Outs) /\ i = Len(Outs) + 1  BY <1>8, <3>1, <3>2, <3>5
    <3> QED BY <1>8, <2>2, <3>3, <3>4, <3>5
  <2> QED BY <2>1, <2>2 DEF Announced
<1>13. Filling'
  <2>1. nwin' + Len(Outs') = n + 1
    <3>1. nwin' + Len(Outs') = nwin + (Len(Outs) + 1)  BY <1>5, <1>8
    <3>2. nwin \in Nat /\ Len(Outs) \in Nat  BY <1>7 DEF RxTypes
    <3>3. \A x, y \in Nat : x + (y + 1) = (x + y) + 1  OBVIOUS
    <3> QED BY <3>1, <3>2, <3>3
  <2>2. index' = WordAt(n, dropped + W)  BY <1>3, BlockCells
  <2>3. WordAt(n, dropped + W) = WordAt(n + 1, dropped)  BY <1>1, WordNext
  <2>4. dropped' + Partial' = dropped  BY <1>1, <1>5, <1>10
  <2>5. ~(Partial' > 0)  BY <1>10
  <2> HIDE DEF n
  <2> QED BY <2>1, <2>2, <2>3, <2>4, <2>5 DEF Filling
<1>14. Gaps'
  <2>1. hdr'.lost = lost /\ hdr'.dropped = dropped /\ (~lost => dropped = LastDropped)
    BY <1>4 DEF Gaps
  <2>2. Outs = <<>> => Len(Outs) = 0  BY EmptySeq
  <2>3. Outs # <<>> => Len(Outs) >= 1  BY <1>7, EmptySeq
  <2>4. ASSUME NEW i \in 1..(Len(Outs') - 1), Outs'[i + 1].dropped # Outs'[i].dropped
        PROVE  Outs'[i + 1].lost
    <3>1. i \in 1..Len(Outs) /\ (i \in 1..(Len(Outs) - 1) \/ i = Len(Outs))
      <4> DEFINE l == Len(Outs)  m == Len(Outs')
      <4>1. l \in Nat /\ m = l + 1 /\ i \in 1..(m - 1)  BY <1>7, <1>8
      <4> HIDE DEF l, m, b, p, n
      <4>2. i \in 1..l /\ (i \in 1..(l - 1) \/ i = l)  BY <4>1
      <4> QED BY <4>2 DEF l
    <3>2. Outs'[i] = Outs[i]  BY <1>8, <3>1
    <3>3. CASE i \in 1..(Len(Outs) - 1)
      <4>1. i + 1 \in 1..Len(Outs)  BY <1>7, <3>3
      <4>2. Outs'[i + 1] = Outs[i + 1]  BY <1>8, <4>1
      <4> QED BY <2>4, <3>2, <3>3, <4>2 DEF Gaps
    <3>4. CASE i = Len(Outs)
      <4>1. Outs'[i + 1] = hdr' /\ Outs # <<>>  BY <1>8, <2>2, <3>1, <3>4
      <4>2. LastDropped = Outs[i].dropped  BY <3>4, <4>1 DEF LastDropped
      <4>3. lost \in BOOLEAN  BY DEF RxTypes
      <4> QED BY <2>1, <2>4, <3>2, <4>1, <4>2, <4>3
    <3> QED BY <3>1, <3>3, <3>4
  <2>5. ASSUME npc' = "wait", Outs'[1].dropped # whdr'.dropped PROVE Outs'[1].lost
    <3>1. CASE Outs = <<>>
      <4>1. Outs'[1] = hdr'
        <5>1. Len(Outs) + 1 = 1  BY <2>2, <3>1
        <5> QED BY <1>8, <5>1
      <4>2. LastDropped = whdr.dropped /\ lost \in BOOLEAN  BY <3>1 DEF LastDropped, RxTypes
      <4> QED BY <1>5, <2>1, <2>5, <4>1, <4>2
    <3>2. CASE Outs # <<>>
      <4>1. 1 \in 1..Len(Outs)  BY <1>7, <2>3, <3>2
      <4>2. Outs'[1] = Outs[1]  BY <1>8, <4>1
      <4> QED BY <1>5, <2>5, <3>2, <4>2 DEF Gaps
    <3> QED BY <3>1, <3>2
  <2>6. npc' # "wait" => (gap' => whdr'.lost)  BY <1>5 DEF Gaps
  <2>7. dropped' = LastDropped'
    <3>1. Outs' # <<>>
      <4>1. Len(Outs') >= 1  BY <1>7, <1>8
      <4> QED BY <4>1, EmptySeq
    <3>2. LastDropped' = Outs'[Len(Outs')].dropped  BY <3>1 DEF LastDropped
    <3> QED BY <1>5, <1>8, <2>1, <3>2
  <2> QED BY <2>4, <2>5, <2>6, <2>7 DEF Gaps
<1>15. Unread'
  <2>1. ASSUME Returning'
        PROVE  full'[yielded'.lo \div W] /\ \A i \in 1..Len(Outs') : Outs'[i].base # yielded'.lo
    <3>1. Returning /\ yielded' = yielded  BY <1>5, <2>1
    <3>2. full[yielded.lo \div W] /\ \A i \in 1..Len(Outs) : Outs[i].base # yielded.lo
      BY <3>1 DEF Unread
    <3>3. yielded.lo \in Bases
      <4>1. PICK c \in Bases : yielded = Win(c)  BY <3>1 DEF Asks, Returning
      <4> QED BY <4>1 DEF Win
    <3>4. b # yielded.lo  BY <1>1, <3>2
    <3>5. full'[yielded.lo \div W]
      <4>1. yielded.lo \div W \in Halves  BY <3>3, WinFits
      <4> QED BY <1>4, <3>2, <4>1 DEF RxTypes
    <3>6. \A i \in 1..Len(Outs') : Outs'[i].base # yielded.lo
      <4> TAKE i \in 1..Len(Outs')
      <4>1. CASE i \in 1..Len(Outs)  BY <1>8, <3>2, <4>1
      <4>2. CASE i = Len(Outs) + 1
        <5>1. Outs'[i].base = b  BY <1>4, <1>8, <4>2
        <5> QED BY <3>4, <5>1
      <4> QED BY <1>8, <4>1, <4>2
    <3> QED BY <3>1, <3>5, <3>6
  <2> QED BY <2>1 DEF Unread
<1> QED BY <1>5, <1>9, <1>11, <1>12, <1>13, <1>14, <1>15

-----------------------------------------------------------------------------
LEMMA RxNextInv == ASSUME RxInv, RxNext PROVE RxInv'
<1>1. CASE BlockWritten  BY <1>1, BlockInsideStep, BlockCompleteStep
<1>2. CASE Capture
  BY <1>1, <1>2, PlaceBlockStep, DropBlockStep, AnnounceStep, CapturePollsStep,
     CaptureGrantsStep DEF Capture
<1>3. CASE Window
  BY <1>3, TakeReadyStep, WindowTrafficStep, WindowReadsStep, WindowSentStep,
     WindowReleasesStep DEF Window
<1> QED BY <1>2, <1>3 DEF RxNext

LEMMA RxStutters == ASSUME RxInv, UNCHANGED <<lockVarsRx, rxVars>> PROVE RxInv'
<1> USE DEF RxInv, Handing, lockVarsRx, reqVars, ownVars
<1>1. IInv'  BY NextIInv DEF vars
<1>2. RxTypes' /\ Content' /\ Outs' = Outs  BY RxKept
<1>3. UNCHANGED <<cpc, full, cur, claimed, absidx, wp, npc, whdr>>
  BY DEF rxVars, captureVars, windowVars
<1>4. Writing' /\ ReaderAt'  BY <1>3 DEF Writing, ReaderAt
<1>5. Asks'  BY <1>3 DEF Asks, AskOk, GrantOk
<1>6. Unread'  BY <1>2, <1>3 DEF Unread, Returning, Working
<1> QED BY <1>1, <1>2, <1>4, <1>5, <1>6

\* The window being sent is the first that is out, so its words are its header's;
\* two windows that are out have different bases, and there are two of those.
LEMMA RxInvMeans == ASSUME RxInv PROVE WindowLocated /\ AnnouncementsFit
<1> USE DEF RxInv, Content
<1>1. /\ Outs \in Seq(Header) /\ Len(Outs) \in Nat
      /\ npc # "wait" => Outs # <<>> /\ Outs[1] = whdr /\ Len(Outs) >= 1
      /\ Len(Outs) >= Len(rdy) + (IF cpc = "announce" THEN 1 ELSE 0)
      /\ Len(rdy) \in Nat
  BY OutsTypes
<1>2. W \in Nat \ {0} /\ NRegion = 2  BY RxNumbers
<1>3. WindowLocated
  <2> SUFFICES ASSUME npc = "sent"
               PROVE  /\ \A k \in 1..W :
                           window[k] = (AbsIndex(nwin, whdr.dropped) + (k - 1)) % DropMod
                      /\ absidx => window[1] % NElem = whdr.base
                      /\ gap => whdr.lost
    BY DEF WindowLocated, W
  <2>1. window = [k \in 1..W |-> cells[whdr.base + (k - 1)]]  BY DEF WinRead
  <2>2. 1 \in 1..Len(Outs) /\ Outs[1] = whdr  BY <1>1
  <2>3. Holds(whdr, nwin + (1 - 1))  BY <2>2 DEF Announced
  <2>4. nwin + (1 - 1) = nwin /\ nwin \in Nat  BY DEF RxTypes
  <2>5. whdr.dropped \in Int /\ whdr.base \in Bases  BY HeaderFields DEF RxTypes
  <2>6. ASSUME NEW k \in 1..W
        PROVE  window[k] = (AbsIndex(nwin, whdr.dropped) + (k - 1)) % DropMod
    <3>1. k - 1 \in 0..(W - 1)  BY <1>2
    <3>2. window[k] = WordAt(nwin, whdr.dropped + (k - 1))
      BY <2>1, <2>3, <2>4, <3>1 DEF Holds
    <3> DEFINE a == nwin * W  d == whdr.dropped
    <3>3. a \in Int /\ d \in Int  BY <1>2, <2>4, <2>5
    <3>4. a + (d + (k - 1)) = (a + d) + (k - 1)
      <4> HIDE DEF a, d
      <4> QED BY <3>3
    <3> QED BY <3>2, <3>4 DEF WordAt, AbsIndex, W
  <2>7. absidx => window[1] % NElem = whdr.base
    <3>1. 1 \in 1..W /\ whdr.base + (1 - 1) = whdr.base  BY <1>2, <2>5 DEF Bases
    <3> QED BY <2>1, <2>3, <3>1 DEF Holds
  <2> QED BY <2>6, <2>7 DEF Gaps
<1>4. AnnouncementsFit
  <2>1. Len(Outs) <= 2
    <3>1. ASSUME Len(Outs) >= 3 PROVE FALSE
      <4>1. 1 \in 1..Len(Outs) /\ 2 \in 1..Len(Outs) /\ 3 \in 1..Len(Outs)  BY <1>1, <3>1
      <4>2. Outs[1] \in Header /\ Outs[2] \in Header /\ Outs[3] \in Header
        BY <1>1, <4>1, ElementOfSeq
      <4>3. Outs[1].base \in Bases /\ Outs[2].base \in Bases /\ Outs[3].base \in Bases
        BY <4>2, HeaderFields
      <4>4. /\ Outs[1].base # Outs[2].base /\ Outs[1].base # Outs[3].base
            /\ Outs[2].base # Outs[3].base
        BY <4>1 DEF Announced
      <4> QED BY <4>3, <4>4, Zenon DEF Bases
    <3> QED BY <1>1, <3>1
  <2> QED BY <1>1, <1>2, <2>1 DEF AnnouncementsFit
<1> QED BY <1>3, <1>4

-----------------------------------------------------------------------------
\* The two designs: the one that runs has its invariant, the other is as it was built.
TxBuilt == lpc = "idle" /\ playing = FALSE /\ pending = FALSE /\ words = 0 /\ shot = NoShot
RxBuilt == cpc = "block" /\ npc = "wait"
ShotInv ==
  /\ design \in {"tx", "rx"}
  /\ design = "tx" => TxInv /\ RxBuilt
  /\ design = "rx" => RxInv /\ TxBuilt

LEMMA ShotInitInv == ShotInit => ShotInv
BY TxInitInv, RxInitInv DEF ShotInit, ShotInv, TxBuilt, RxBuilt, TxInit, RxInit

LEMMA ShotNextInv == ASSUME ShotInv, [ShotNext]_shotVars PROVE ShotInv'
<1> USE DEF ShotInv
<1>1. CASE Tx(TxNext)
  <2>1. design = "tx" /\ TxNext /\ UNCHANGED <<design, rxVars>>  BY <1>1 DEF Tx
  <2>2. TxInv'  BY <2>1, TxNextInv
  <2>3. RxBuilt'  BY <2>1 DEF RxBuilt, rxVars, captureVars, windowVars
  <2> QED BY <2>1, <2>2, <2>3
<1>2. CASE Rx(RxNext)
  <2>1. design = "rx" /\ RxNext /\ UNCHANGED <<design, txVars>>  BY <1>2 DEF Rx
  <2>2. RxInv'  BY <2>1, RxNextInv
  <2>3. TxBuilt'  BY <2>1 DEF TxBuilt, txVars, loaderVars, playerVars
  <2> QED BY <2>1, <2>2, <2>3
<1>3. CASE UNCHANGED shotVars
  <2>1. UNCHANGED <<design, lockVars, lockVarsRx, txVars, rxVars>>
    BY <1>3 DEF shotVars, lockVars, lockVarsRx
  <2>2. RxBuilt' = RxBuilt  BY <2>1 DEF RxBuilt, rxVars, captureVars, windowVars
  <2>3. TxBuilt' = TxBuilt  BY <2>1 DEF TxBuilt, txVars, loaderVars, playerVars
  <2> QED BY <2>1, <2>2, <2>3, TxStutters, RxStutters
<1> QED BY <1>1, <1>2, <1>3 DEF ShotNext

LEMMA ShotInductive == ShotSpec => []ShotInv
<1>1. ShotInit => ShotInv  BY ShotInitInv
<1>2. ShotInv /\ [ShotNext]_shotVars => ShotInv'  BY ShotNextInv
<1> QED BY <1>1, <1>2, PTL DEF ShotSpec

\* The loader is given the memory only when no finite shot is in flight, so it never
\* writes over one that plays or will: gate_write before the acquire
\* (rf_shot_tx.py), and the one poll of a block by a player that is not playing one.
THEOREM ShotsNeverTruncated == ShotSpec => []NeverTruncated
<1>1. ShotInv => NeverTruncated  BY TxInvMeans DEF ShotInv, TxBuilt, NeverTruncated
<1> QED BY <1>1, ShotInductive, PTL

\* What goes out is one shot, the one commanded, and a whole one.
THEOREM PlayedIsCommanded == ShotSpec => []OnlyWholeShots
<1>1. ShotInv => OnlyWholeShots
  BY TxInvMeans DEF ShotInv, TxBuilt, OnlyWholeShots
<1> QED BY <1>1, ShotInductive, PTL

\* A finite shot plays exactly its passes: the words out are those of the passes gone
\* and of the one in progress.
THEOREM WordsArePasses == ShotSpec => []PassesExact
<1>1. ShotInv => PassesExact
  <2> SUFFICES ASSUME ShotInv PROVE PassesExact  OBVIOUS
  <2>1. CASE design = "tx"  BY <2>1, TxInvMeans DEF ShotInv
  <2>2. CASE design = "rx"
    <3>1. shot = NoShot  BY <2>2 DEF ShotInv, TxBuilt
    <3>2. NoShot.op # "load"  BY DEF NoShot
    <3> QED BY <3>1, <3>2 DEF PassesExact
  <2> QED BY <2>1, <2>2 DEF ShotInv
<1> QED BY <1>1, ShotInductive, PTL

\* A window is the words of the input from the place its header gives, whatever was
\* dropped before it and however often the counters wrapped; in a memory at absolute
\* indices each word is at its own address; and a gap before it is told.
THEOREM WindowsLocated == ShotSpec => []WindowLocated
<1>1. ShotInv => WindowLocated  BY RxInvMeans DEF ShotInv, RxBuilt, WindowLocated
<1> QED BY <1>1, ShotInductive, PTL

\* The capture has no room to wait in: an announcement always finds the queue of the
\* ready windows with a place left.
THEOREM AnnouncementsFitAlways == ShotSpec => []AnnouncementsFit
<1>1. ShotInv => AnnouncementsFit  BY RxInvMeans DEF ShotInv, RxBuilt, AnnouncementsFit
<1> QED BY <1>1, ShotInductive, PTL

\* The lock looks at the two ends of an access only; that is enough in the designs,
\* where what is handed over is the memory or a half of it and no block spans it.
LEMMA TxExclusive == ASSUME TxInv PROVE Exclusive
<1> SUFFICES ASSUME rpc = "access", opc = "access" PROVE FALSE  BY DEF Exclusive
<1>1. held # None  BY DEF TxInv, IInv, Accesses
<1>2. yielded # None  BY <1>1, HeldQuiet DEF TxInv
<1> QED BY <1>2 DEF TxInv, Disarmed

LEMMA RxExclusive == ASSUME RxInv PROVE Exclusive
<1> SUFFICES ASSUME rpc = "access", opc = "access"
             PROVE  Elements(rext) \cap Elements(oext) = {}
  BY DEF Exclusive
<1>1. held # None /\ rext \in Extents /\ RequesterMayAccess(rext) /\ oext \in Extents
      /\ OwnerMayAccess(oext)
  BY DEF RxInv, IInv, Accesses
<1>2. yielded = held /\ held = Win(whdr.base) /\ whdr.base \in Bases
  BY <1>1, HeldQuiet, HeaderFields DEF RxInv, Handing, Asks, RxTypes
<1> DEFINE b == whdr.base  c == Half(cur).lo
<1>3. /\ oext = [lo |-> wp, hi |-> wp + CheckPeriod] /\ cur \in Halves
      /\ Half(cur).lo <= wp /\ wp + CheckPeriod <= Half(cur).hi
  BY DEF RxInv, Handing, Writing, RxTypes
<1>4. c \in Bases /\ c \in Int /\ Half(cur).hi = c + W  BY <1>3, BlockFits
<1>5. /\ wp \in Int /\ CheckPeriod \in Nat \ {0} /\ W \in Nat \ {0}
      /\ rext.lo \in Int /\ rext.hi \in Int
  BY <1>1, RxNumbers, WriteRange DEF RxInv, Content, Extents
<1>6. /\ b <= rext.lo /\ rext.hi <= b + W
      /\ wp \notin b..((b + W) - 1)
  BY <1>1, <1>2, <1>3, <1>5
     DEF RequesterMayAccess, RequesterMayTouch, OwnerMayAccess, OwnerMayTouch, Elements, Win, Bases
<1>7. (b = 0 \/ b = W) /\ (c = 0 \/ c = W)  BY <1>2, <1>4 DEF Bases
<1>8. c <= wp /\ wp + CheckPeriod <= c + W  BY <1>3, <1>4
<1>9. \A a \in Int : ~(rext.lo <= a /\ a < rext.hi /\ wp <= a /\ a < wp + CheckPeriod)
  <2> HIDE DEF b, c
  <2> QED BY <1>5, <1>6, <1>7, <1>8
<1> QED BY <1>3, <1>5, <1>9 DEF Elements

\* The two sides never touch the same element at the same time, in either design and
\* for every size of its blocks (locked_mem.py's promise, whatever the extent).
THEOREM DesignsExclusive == ShotSpec => []Exclusive
<1>1. ShotInv => Exclusive  BY TxExclusive, RxExclusive DEF ShotInv
<1> QED BY <1>1, ShotInductive, PTL
=============================================================================
