--------------------------------- MODULE Shot ---------------------------------
(***************************************************************************)
(* The two designs built on the locked memory, RfShotTx and RfShotRx: a    *)
(* host sends shots to be played by a converter that takes a word in every *)
(* slot, or is sent the windows of a converter that gives one in every     *)
(* slot.  They differ in who is who: on TX the owner of the memory reads   *)
(* and the requester writes, on RX the owner writes and the requester      *)
(* reads.  A run has one of them, the other stays as it was built.         *)
(***************************************************************************)
EXTENDS ShotTx, ShotRx

VARIABLE design  \* fixed: "tx" or "rx"

shotVars == <<design, lockVars, txVars, rxVars>>

ShotInit ==
  /\ design \in {"tx", "rx"}
  /\ Init /\ prompt = FALSE /\ TxInit /\ RxInit
  /\ design = "rx" => ~absolute
  /\ design = "tx" => ~absidx

Tx(A) == design = "tx" /\ A /\ UNCHANGED <<design, rxVars>>
Rx(A) == design = "rx" /\ A /\ UNCHANGED <<design, txVars>>

ShotNext == Tx(TxNext) \/ Rx(RxNext)

\* Every task is a free-running process; that a host sends frames is left open,
\* that it takes its answers and its windows is not.
ShotFairness ==
  /\ WF_shotVars(Tx(Loader)) /\ WF_shotVars(Tx(Player))
  /\ WF_shotVars(Rx(Capture)) /\ WF_shotVars(Rx(Window))

ShotSpec == ShotInit /\ [][ShotNext]_shotVars /\ ShotFairness

-----------------------------------------------------------------------------
\* "Writer and reader never overlap": in the designs two accesses in progress share no
\* element, because no block of the owner goes around what it hands over.
Exclusive == rpc = "access" /\ opc = "access" => Elements(rext) \cap Elements(oext) = {}

\* The host is never left waiting: every frame it sends is answered, a finite
\* shot does not keep the transmitter busy for ever, and a half of the receiver's
\* memory that is full is read and comes back to the capture.
HostIsServed == FramesAnswered /\ HalvesComeBack
=============================================================================
