---------------------------- MODULE CameraCredit ----------------------------
(***************************************************************************)
(* The camera path end to end: the Agent sends frame sets over one ordered *)
(* link, the capture loop of examples/camera_imu/camera_imu_capture.cpp    *)
(* feeds them to a CameraFrameAssembler and acknowledges what it settles,  *)
(* and each acknowledgement returns one unit of the Agent's frame credit.  *)
(*                                                                         *)
(* The Agent is a binary: it is modelled from what the assembler and the   *)
(* loop say of it.  It serialises one frame set at a time, holds one unit  *)
(* of credit for every frame not acknowledged, and sends at least one      *)
(* message of each frame it opens; pieces of images may be missing or      *)
(* malformed, metadata may be missing or late within its frame.            *)
(***************************************************************************)
EXTENDS CameraAssembler

CONSTANTS
  FirstId,      \* id of the first frame, so that a short run can wrap
  Window,       \* frames the Agent leaves unacknowledged at most (four)
  MaxFrames,    \* bound: frames the Agent opens
  LinkCap,      \* bound: messages on the link
  Captured,     \* the image each slot takes of each frame
  StrayImages   \* may pieces arrive for a slot the metadata leaves out?

ASSUME CreditAssumption == /\ FirstId \in FrameIds
                           /\ Window \in Nat \ {0} /\ 2 * MaxFrames <= IdModulus
                           /\ Window <= HistorySize
                           /\ MaxFrames \in Nat /\ LinkCap \in Nat \ {0}
                           /\ StrayImages \in BOOLEAN
ASSUME CapturedAssumption == Captured \in [0 .. MaxFrames - 1 -> [Cameras -> Images]]

VARIABLES
  opened,       \* frames opened; frame number n travels as Id(n)
  outstanding,  \* frame numbers whose credit has not come back to the Agent
  sending,      \* the last frame opened is still being sent
  passed,       \* pieces of each slot the Agent is past, sent or missing
  slots,        \* the metadata of the frame being sent
  announced,    \* some message of it is on the link
  metaPassed,   \* its metadata was sent
  link,         \* messages on the way to the host, in order
  acks,         \* acknowledged ids on the way to the Agent, in order
  loop,         \* where the capture loop is: about to expire or to read
  spoiled       \* history: frames that lost something or waited a second

agentVars == <<opened, outstanding, sending, passed, slots, announced, metaPassed>>
creditVars == <<vars, agentVars, link, acks, loop, spoiled>>

Id(n) == (FirstId + n) % IdModulus
Current == opened - 1

ChunkMessage(c) == [chunk |-> c, meta |-> None, frame |-> c.frame]
MetaMessage(f, m) == [chunk |-> None, meta |-> m, frame |-> f]

CreditInit ==
  /\ Init
  /\ opened = 0 /\ outstanding = {} /\ sending = FALSE
  /\ passed = [c \in Cameras |-> 0]
  /\ slots \in Metas
  /\ announced = FALSE /\ metaPassed = FALSE
  /\ link = <<>> /\ acks = <<>> /\ loop = "expire"
  /\ spoiled = {}

-----------------------------------------------------------------------------
(* The Agent *)

Populated == IF slots.trusted THEN slots.populated ELSE Cameras

AgentOpens ==
  /\ ~sending /\ opened < MaxFrames
  /\ Cardinality(outstanding) < Window
  /\ opened' = opened + 1
  /\ outstanding' = outstanding \cup {opened}
  /\ sending' = TRUE
  /\ passed' = [c \in Cameras |-> 0]
  /\ slots' \in Metas
  /\ announced' = FALSE /\ metaPassed' = FALSE
  /\ UNCHANGED <<vars, link, acks, loop, spoiled>>

Transmit(message) ==
  /\ Len(link) < LinkCap
  /\ link' = Append(link, message)
  /\ announced' = TRUE

(* The next piece of slot c: sent, of another image, malformed, or missing. *)
AgentPasses(c) ==
  /\ sending /\ passed[c] < ImageChunks
  /\ StrayImages \/ c \in Populated
  /\ passed' = [passed EXCEPT ![c] = @ + 1]
  /\ UNCHANGED <<vars, opened, outstanding, sending, slots, metaPassed, acks, loop>>

AgentSendsPiece(c) ==
  /\ AgentPasses(c)
  /\ \E i \in Images :
       /\ Transmit(ChunkMessage(
            [camera |-> c, frame |-> Id(Current), image |-> i, offset |-> passed[c]]))
       /\ spoiled' = IF i = Captured[Current][c] THEN spoiled ELSE spoiled \cup {Current}

AgentSendsMalformed(c) ==
  /\ AgentPasses(c)
  /\ \E camera \in {c, None} : Transmit(ChunkMessage(
       [camera |-> camera, frame |-> Id(Current), image |-> None, offset |-> 0]))
  /\ spoiled' = spoiled \cup {Current}

AgentMissesPiece(c) ==
  /\ AgentPasses(c)
  /\ spoiled' = spoiled \cup {Current}
  /\ UNCHANGED <<link, announced>>

AgentSendsMetadata ==
  /\ sending /\ ~metaPassed
  /\ metaPassed' = TRUE
  /\ Transmit(MetaMessage(Id(Current), slots))
  /\ UNCHANGED <<vars, opened, outstanding, sending, passed, slots, acks, loop, spoiled>>

(* The frame is over; what was not sent by now never will be. *)
Intact == /\ metaPassed /\ Populated # {}
          /\ \A c \in Cameras : passed[c] = IF c \in Populated THEN ImageChunks ELSE 0

AgentCloses ==
  /\ sending /\ announced
  /\ sending' = FALSE
  /\ spoiled' = IF Intact THEN spoiled ELSE spoiled \cup {Current}
  /\ UNCHANGED <<vars, opened, outstanding, passed, slots, announced, metaPassed,
                 link, acks, loop>>

AgentReceivesAck ==
  /\ acks # <<>>
  /\ acks' = Tail(acks)
  /\ outstanding' = {n \in outstanding : Id(n) # Head(acks)}
  /\ UNCHANGED <<vars, opened, sending, passed, slots, announced, metaPassed,
                 link, loop, spoiled>>

-----------------------------------------------------------------------------
(* The capture loop: expire, then read one message or time out. *)

(* Mutant: partial frames are acknowledged once more. *)
ConsumePartialsToo ==
  \E ids \in Ascending(result'.discarded),
     again \in Ascending({set.frame : set \in result'.partial}) :
    acks' = acks \o ids \o again \o (IF result'.completed = None THEN <<>>
                                    ELSE <<result'.completed.frame>>)

(* consume(): acknowledge every discarded id, then the completed frame. *)
Consume ==
  \E ids \in Ascending(result'.discarded) :
    acks' = acks \o ids \o (IF result'.completed = None THEN <<>>
                            ELSE <<result'.completed.frame>>)

HostExpires ==
  /\ loop = "expire" /\ loop' = "read"
  /\ Expire
  /\ Consume
  /\ UNCHANGED <<agentVars, link, spoiled>>

HostReads ==
  /\ loop = "read" /\ loop' = "expire"
  /\ link # <<>> /\ link' = Tail(link)
  /\ LET message == Head(link)
     IN  \/ message.chunk # None /\ Ingest(message.chunk)
         \/ message.chunk = None /\ AddMetadata(message.frame, message.meta)
  /\ Consume
  /\ UNCHANGED <<agentVars, spoiled>>

HostTimesOut ==
  /\ loop = "read" /\ loop' = "expire"
  /\ link = <<>>
  /\ UNCHANGED <<vars, agentVars, link, acks, spoiled>>

(* A second without progress spoils every frame the host is assembling. *)
ClockTicks ==
  /\ \E f \in FrameIds : frames[f].started /\ ~frames[f].overdue
  /\ SecondPasses
  /\ spoiled' = spoiled \cup {n \in outstanding : frames[Id(n)].started}
  /\ UNCHANGED <<agentVars, link, acks, loop>>

CreditNext ==
  \/ AgentOpens
  \/ \E c \in Cameras : AgentSendsPiece(c) \/ AgentSendsMalformed(c) \/ AgentMissesPiece(c)
  \/ AgentSendsMetadata
  \/ AgentCloses
  \/ AgentReceivesAck
  \/ HostExpires
  \/ HostReads
  \/ HostTimesOut
  \/ ClockTicks

CreditSpec == CreditInit /\ [][CreditNext]_creditVars

(* The loop keeps turning, time passes, and the Agent reads acknowledgements *)
(* and ends what it began. It need not open a further frame.                  *)
FairCreditSpec ==
  /\ CreditSpec
  /\ WF_creditVars(HostExpires) /\ WF_creditVars(HostReads) /\ WF_creditVars(HostTimesOut)
  /\ WF_creditVars(ClockTicks)
  /\ WF_creditVars(AgentSendsMetadata) /\ WF_creditVars(AgentCloses)
  /\ WF_creditVars(AgentReceivesAck)

-----------------------------------------------------------------------------
(* Properties *)

(* Acknowledgements are exactly the credits due: no id is acknowledged twice, *)
(* none for a frame the Agent is not waiting for.                             *)
AcksMatchCredit ==
  /\ IsInjective(acks)
  /\ \A k \in 1 .. Len(acks) : \E n \in outstanding : Id(n) = acks[k]

(* A frame sent whole, without a second of silence, is never retired: loss in *)
(* one frame does not spill over into its neighbours.                         *)
HealthyFramesComplete ==
  [][\A n \in outstanding : Id(n) \in result'.discarded => n \in spoiled']_creditVars

(* Flow control as the Agent needs it: see CreditWindow. *)
Acked == {n \in outstanding : Id(n) \in Range(acks)}
Credit == INSTANCE CreditWindow WITH unacked <- outstanding \ Acked, onWay <- Acked
CreditReturned == Credit!Spec
=============================================================================
