------------------------- MODULE MCAssemblerSlots -------------------------
(* Two instances of CameraAssembler checked side by side: two slots with few  *)
(* ids, as the cfg says, and one slot with ids enough for two frames ahead of *)
(* the newest.  In a behaviour one of them runs; the other stays initial.     *)
EXTENDS MCCameraAssembler

VARIABLES wrapFrames, wrapNewest, wrapSettled, wrapLast, wrapResult

wrapVars == <<wrapFrames, wrapNewest, wrapSettled, wrapLast, wrapResult>>

(* Six ids: half a turn is three, so that of three frames in a row each two   *)
(* are ordered, and ids f and f + 3 are not.  Three frames keep metadata: the *)
(* newest and two ahead of it.                                                *)
Wrap == INSTANCE CameraAssembler WITH
          Cameras <- OneCamera, IdModulus <- 6, Images <- OneImage, ImageChunks <- 1,
          Metas <- FullMeta, HistorySize <- 1, MetaCap <- 3,
          frames <- wrapFrames, newestFrameId <- wrapNewest,
          settledOrder <- wrapSettled, lastDiscarded <- wrapLast, result <- wrapResult

SlotsWait == Init /\ UNCHANGED vars
WrapWaits == Wrap!Init /\ UNCHANGED wrapVars

SlotsInit == Init /\ Wrap!Init
SlotsNext ==
  \/ WrapWaits /\ Next
  \/ SlotsWait /\ Wrap!Next /\ ~Wrap!SecondPasses
SlotsSpec == SlotsInit /\ [][SlotsNext]_<<vars, wrapVars>>

(* The frame pendingDiagnostic reports does not depend on the order in which  *)
(* the three maps are scanned, with several frames ahead of the newest around *)
(* the wrap, where ids are not totally ordered.                               *)
PendingUnambiguousAtWrap == Wrap!PendingDiagnosticUnambiguous
=============================================================================
