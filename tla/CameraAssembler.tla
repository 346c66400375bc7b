-------------------------- MODULE CameraAssembler --------------------------
(***************************************************************************)
(* CameraFrameAssembler of include/prism/usb/camera_assembler.hpp: the     *)
(* receiver-side object that puts the chunks of up to four camera images   *)
(* and one metadata record back together into frame sets, and that names   *)
(* every frame whose unit of flow-control credit the caller must return.   *)
(*                                                                         *)
(* The class keeps four maps keyed by frame id (pending images, partial    *)
(* frame sets, metadata, start times).  Here one record per frame id holds *)
(* the entries of all four.  The class is not thread safe; every call is   *)
(* one action, and `result' is what the last call returned.  Nothing is    *)
(* assumed about the order in which chunks and metadata arrive:            *)
(* CameraCredit composes this module with an ordered stream.               *)
(***************************************************************************)
EXTENDS Integers, Sequences, FiniteSets, Functions

CONSTANTS
  Cameras,      \* the camera slots of a frame set (four in the code)
  IdModulus,    \* frame ids wrap here (2^32 in the code)
  Images,       \* tells apart the images of a slot: (encoded_size, timestamp_us)
  ImageChunks,  \* chunks an image is cut into
  Metas,        \* the metadata records that may arrive
  HistorySize,  \* kSettledFrameHistory (64 in the code)
  MetaCap,      \* metadata records kept at most (16 in the code)
  None          \* the empty optional, and a camera_id outside the slots

ASSUME CamerasAssumption == /\ IsFiniteSet(Cameras) /\ Cameras # {}
                            /\ None \notin Cameras \cup Images
ASSUME IdAssumption      == IdModulus \in Nat /\ IdModulus > 3 /\ IdModulus % 2 = 0
ASSUME ChunksAssumption  == ImageChunks \in Nat \ {0}
ASSUME MetasAssumption   == /\ Metas \subseteq [trusted : BOOLEAN, populated : SUBSET Cameras]
                            /\ None \notin Metas
ASSUME LimitsAssumption  == HistorySize \in Nat \ {0} /\ MetaCap \in Nat \ {0}

FrameIds == 0 .. (IdModulus - 1)

(* Mutant: ids compared as plain numbers. *)
FrameIdIsGreater(candidate, reference) == candidate > reference

(* int32(candidate - reference) > 0: ids half a turn apart are not ordered. *)
FrameIdIsNewer(candidate, reference) ==
  LET ahead == (candidate - reference) % IdModulus
  IN  0 < ahead /\ 2 * ahead < IdModulus

(***************************************************************************)
(* A chunk carries one piece of an image, or its envelope is malformed     *)
(* (sizes, offset overflow, missing data): then it carries no image.       *)
(* Camera None stands for a camera_id outside the slots, also malformed.   *)
(***************************************************************************)
Piece == [image : Images, offset : 0 .. (ImageChunks - 1)]
Chunk == [camera : Cameras, frame : FrameIds, image : Images,
          offset : 0 .. (ImageChunks - 1)]
         \cup [camera : Cameras \cup {None}, frame : FrameIds, image : {None}, offset : {0}]

WholeImage(i) == [k \in 1 .. ImageChunks |-> [image |-> i, offset |-> k - 1]]

(* One frame id across the four maps. An image lane is empty when it has no entry. *)
Frame == [pending : [Cameras -> Seq(Piece)], ready : [Cameras -> Seq(Piece)],
          invalid : SUBSET Cameras, metadata : Metas \cup {None},
          started : BOOLEAN, overdue : BOOLEAN]

NoImages == [c \in Cameras |-> <<>>]
NoFrame  == [pending |-> NoImages, ready |-> NoImages, invalid |-> {},
             metadata |-> None, started |-> FALSE, overdue |-> FALSE]

FrameSet == [frame : FrameIds, mask : SUBSET Cameras, images : [Cameras -> Seq(Piece)],
             metadata : Metas \cup {None}]
Result   == [completed : FrameSet \cup {None}, discarded : SUBSET FrameIds,
             partial : SUBSET FrameSet]

ASSUME NoneAssumption == None \notin Int \cup FrameSet \cup Chunk

VARIABLES
  frames,          \* pending_images_, partial_frame_sets_, metadata_by_frame_, started_at_
  newestFrameId,   \* newest_frame_id_
  settledOrder,    \* settled_frame_order_; its range is settled_frame_ids_
  lastDiscarded,   \* the frame last_discarded_diagnostic_ describes
  result           \* what the last call returned

vars == <<frames, newestFrameId, settledOrder, lastDiscarded, result>>

TypeOK ==
  /\ frames \in [FrameIds -> Frame]
  /\ newestFrameId \in FrameIds \cup {None}
  /\ settledOrder \in Seq(FrameIds)
  /\ lastDiscarded \in FrameIds \cup {None}
  /\ result \in Result

NoResult == [completed |-> None, discarded |-> {}, partial |-> {}]

Init ==
  /\ frames = [f \in FrameIds |-> NoFrame]
  /\ newestFrameId = None
  /\ settledOrder = <<>>
  /\ lastDiscarded = None
  /\ result = NoResult

-----------------------------------------------------------------------------
(* What a frame record says. *)

Ready(fr)      == {c \in Cameras : fr.ready[c] # <<>>}
Pending(fr)    == {c \in Cameras : fr.pending[c] # <<>>}
HasPartial(fr) == Ready(fr) \cup fr.invalid # {}
Holds(fr)      == Pending(fr) # {} \/ HasPartial(fr) \/ fr.metadata # None

(* The per-camera state the diagnostic reports. *)
CameraState(fr, c) ==
  CASE c \in fr.invalid                      -> "invalid"
    [] c \notin fr.invalid /\ c \in Ready(fr) -> "complete"
    [] c \notin fr.invalid \cup Ready(fr) /\ c \in Pending(fr) -> "partial"
    [] OTHER                                 -> "missing"

(* The slots the frame's own metadata declares; all of them without trusted metadata. *)
Expected(fr) ==
  IF fr.metadata # None /\ fr.metadata.trusted THEN fr.metadata.populated ELSE Cameras

(* Mutant: every slot is required whatever the metadata declares. *)
CompletesWithAllSlots(fr) ==
  Ready(fr) = Cameras /\ fr.invalid = {} /\ fr.metadata # None

Completes(fr) ==
  /\ HasPartial(fr)
  /\ Expected(fr) # {}
  /\ Ready(fr) = Expected(fr)
  /\ fr.invalid = {}
  /\ fr.metadata # None

(* Mutant: frames behind the newest are considered too. *)
PendingOfAnyAge == {f \in FrameIds : Holds(frames[f]) /\ f \notin Range(settledOrder)}

(* The frames pendingDiagnostic chooses the newest of. *)
PendingCandidates ==
  {f \in FrameIds : /\ Holds(frames[f])
                    /\ f \notin Range(settledOrder)
                    /\ \/ newestFrameId = None
                       \/ f = newestFrameId
                       \/ FrameIdIsNewer(f, newestFrameId)}

-----------------------------------------------------------------------------
(* The settled-frame history: the last HistorySize frames that were completed *)
(* or discarded.                                                              *)

(* Mutant: the history is trimmed one frame late. *)
RecentPlusOne(s) == IF Len(s) > HistorySize + 1 THEN Tail(s) ELSE s

Recent(s) == IF Len(s) > HistorySize
             THEN SubSeq(s, Len(s) - HistorySize + 1, Len(s)) ELSE s

Ascending(S) == {s \in [1 .. Cardinality(S) -> S] :
                   /\ Range(s) = S
                   /\ \A i, j \in 1 .. Cardinality(S) : i < j => s[i] < s[j]}

(* Of the frames S, retired in numerical order, those settleFrame accepts: the *)
(* ones not in the history, or already pushed out of it by their predecessors. *)
Unsettled(S) == {f \in S : f \notin Range(settledOrder)}
Settles(S) ==
  {f \in S :
     \/ f \notin Range(settledOrder)
     \/ \E k \in 1 .. Len(settledOrder) :
          /\ settledOrder[k] = f
          /\ k + HistorySize <= Len(settledOrder) + Cardinality({g \in Unsettled(S) : g < f})}

(* The history once the frames S are retired (one sequence). *)
HistoriesAfter(S) == {Recent(settledOrder \o ids) : ids \in Ascending(Settles(S))}

(* What discardFrame salvages: the complete images of a frame, if any. *)
Survivors(f) ==
  LET complete == {c \in Cameras : CameraState(frames[f], c) = "complete"}
  IN  [frame |-> f, mask |-> complete, metadata |-> frames[f].metadata,
       images |-> [c \in Cameras |-> IF c \in complete THEN frames[f].ready[c] ELSE <<>>]]

Partials(S) == {set \in {Survivors(f) : f \in S} : set.mask # {}}

(* The diagnostic kept is that of the last frame the loop discarded. *)
LastOf(S) == IF Settles(S) = {} THEN lastDiscarded
             ELSE CHOOSE f \in Settles(S) : \A g \in Settles(S) : g <= f

(* Mutant: only frames with a surviving image are listed for acknowledgement. *)
DiscardingWithImages(S) == [completed |-> None, partial |-> Partials(S),
                            discarded |-> {set.frame : set \in Partials(S)}]

Discarding(S) == [completed |-> None, discarded |-> Settles(S), partial |-> Partials(S)]

(* takeCompletedFrame: hand the set over, settle it, drop its entries. Images *)
(* still pending in slots the metadata does not declare stay behind.          *)
CompletedSet(f, fr) == [frame |-> f, mask |-> Expected(fr), images |-> fr.ready,
                        metadata |-> fr.metadata]

(* Mutant: the delivered images are not erased. *)
LeftoverWithImages(fr) == [NoFrame EXCEPT !.pending = fr.pending, !.ready = fr.ready]

Leftover(fr) == [NoFrame EXCEPT !.pending = fr.pending]

-----------------------------------------------------------------------------
(* ingest(chunk) *)

IsLate(id) == /\ newestFrameId # None
              /\ id # newestFrameId
              /\ ~FrameIdIsNewer(id, newestFrameId)

(* Mutant: the pending images are not searched for older frames. *)
OlderThanUnlessPending(id) ==
  IF newestFrameId # None /\ FrameIdIsNewer(id, newestFrameId)
  THEN {f \in FrameIds : /\ HasPartial(frames[f]) \/ frames[f].metadata # None
                         /\ FrameIdIsNewer(id, f)}
  ELSE {}

(* discardFramesOlderThan, called when the chunk's frame is newer than the newest. *)
OlderThan(id) ==
  IF newestFrameId # None /\ FrameIdIsNewer(id, newestFrameId)
  THEN {f \in FrameIds : Holds(frames[f]) /\ FrameIdIsNewer(id, f)}
  ELSE {}

(* Mutant: the timer starts with the first good piece only. *)
StartedLater(fr) == fr

Started(fr) == [fr EXCEPT !.started = TRUE]

Cleared(lanes, camera) == [lanes EXCEPT ![camera] = <<>>]

(* Mutants: one bad slot empties the whole set; an id >= 4 is not filtered. *)
RejectFrame(fr, camera) ==
  IF camera = None THEN fr
  ELSE [fr EXCEPT !.invalid = @ \cup {camera}, !.ready = NoImages, !.pending = NoImages]
RejectAnyId(fr, camera) == [fr EXCEPT !.invalid = @ \cup {camera}]

Reject(fr, camera) ==
  IF camera = None THEN fr
  ELSE [fr EXCEPT !.invalid = @ \cup {camera}, !.ready = Cleared(@, camera),
                  !.pending = Cleared(@, camera)]

(* Appending a piece refreshes the frame's inactivity timer. *)
WithPiece(lanes, c) ==
  [lanes EXCEPT ![c.camera] = Append(@, [image |-> c.image, offset |-> c.offset])]
Extended(fr, c) ==
  [fr EXCEPT !.pending = WithPiece(@, c), !.started = TRUE, !.overdue = FALSE]

(* A finished image moves from its pending entry to the partial frame set. *)
WithImage(lanes, camera, image) == [lanes EXCEPT ![camera] = image]
Finished(fr, c) ==
  [fr EXCEPT !.ready = WithImage(@, c.camera, fr.pending[c.camera]),
             !.pending = Cleared(@, c.camera)]

BadEnvelope(c)   == c.image = None

(* Mutant: a change of encoded size or timestamp goes unnoticed. *)
OutOfPlace(c) == c.offset # Len(frames[c.frame].pending[c.camera])

Discontinuous(c) ==
  LET lane == frames[c.frame].pending[c.camera]
  IN  c.offset # Len(lane) \/ (lane # <<>> /\ lane[1].image # c.image)

(* A chunk of a frame older than the newest changes nothing. *)
IngestLate(c) ==
  /\ IsLate(c.frame)
  /\ result' = NoResult
  /\ UNCHANGED <<frames, newestFrameId, settledOrder, lastDiscarded>>

(* Every other chunk first retires the older frames; `history' is the settled *)
(* history after that, and the frame is looked up in it.                       *)
Advance(c) == ~IsLate(c.frame) /\ newestFrameId' = c.frame

Replace(retired, id, fr) ==
  frames' = [f \in FrameIds |-> IF f \in retired THEN NoFrame
                                ELSE IF f = id THEN fr ELSE frames[f]]

(* The chunk leaves its frame unfinished in the state fr. *)
Keep(c, history, fr) ==
  LET older == OlderThan(c.frame)
  IN  /\ Replace(older, c.frame, fr)
      /\ settledOrder' = history
      /\ lastDiscarded' = LastOf(older)
      /\ result' = Discarding(older)

IngestSettled(c, history) ==
  /\ Advance(c)
  /\ c.frame \in Range(history)
  /\ Keep(c, history, frames[c.frame])

IngestInvalid(c, history) ==
  /\ Advance(c)
  /\ c.frame \notin Range(history)
  /\ BadEnvelope(c)
  /\ Keep(c, history, Reject(Started(frames[c.frame]), c.camera))

IngestIgnored(c, history) ==
  /\ Advance(c)
  /\ c.frame \notin Range(history)
  /\ ~BadEnvelope(c)
  /\ c.camera \in frames[c.frame].invalid
  /\ Keep(c, history, Started(frames[c.frame]))

IngestDiscontinuous(c, history) ==
  /\ Advance(c)
  /\ c.frame \notin Range(history)
  /\ ~BadEnvelope(c)
  /\ c.camera \notin frames[c.frame].invalid
  /\ Discontinuous(c)
  /\ Keep(c, history, Reject(Started(frames[c.frame]), c.camera))

(* The guard of the three actions below: the piece continues its image. *)
Accepts(c, history) ==
  /\ Advance(c)
  /\ c.frame \notin Range(history)
  /\ ~BadEnvelope(c)
  /\ c.camera \notin frames[c.frame].invalid
  /\ ~Discontinuous(c)

IngestPiece(c, history) ==
  /\ Accepts(c, history)
  /\ c.offset + 1 < ImageChunks
  /\ Keep(c, history, Extended(frames[c.frame], c))

(* A second complete image for a slot spoils the slot. *)
IngestDuplicateImage(c, history) ==
  /\ Accepts(c, history)
  /\ c.offset + 1 = ImageChunks
  /\ c.camera \in Ready(frames[c.frame])
  /\ Keep(c, history, Reject(Extended(frames[c.frame], c), c.camera))

IngestImage(c, history) ==
  /\ Accepts(c, history)
  /\ c.offset + 1 = ImageChunks
  /\ c.camera \notin Ready(frames[c.frame])
  /\ LET fr == Finished(Extended(frames[c.frame], c), c)
     IN  \/ ~Completes(fr) /\ Keep(c, history, fr)
         \/ /\ Completes(fr)
            /\ Replace(OlderThan(c.frame), c.frame, Leftover(fr))
            /\ settledOrder' = Recent(Append(history, c.frame))
            /\ lastDiscarded' = None
            /\ result' = [Discarding(OlderThan(c.frame)) EXCEPT
                              !.completed = CompletedSet(c.frame, fr)]

Ingest(c) ==
  \/ IngestLate(c)
  \/ \E history \in HistoriesAfter(OlderThan(c.frame)) :
       \/ IngestSettled(c, history)
       \/ IngestInvalid(c, history)
       \/ IngestIgnored(c, history)
       \/ IngestDiscontinuous(c, history)
       \/ IngestPiece(c, history)
       \/ IngestDuplicateImage(c, history)
       \/ IngestImage(c, history)

-----------------------------------------------------------------------------
(* addMetadata(metadata) *)

(* Mutant: the settled history is not consulted. *)
RefusesLateMetadata(f) == IsLate(f)

RefusesMetadata(f) == f \in Range(settledOrder) \/ IsLate(f)

(* The cap erases the numerically smallest ids. *)
Capped(fs) ==
  LET kept == {f \in FrameIds : fs[f].metadata # None}
      keep == {f \in kept : Cardinality({g \in kept : f < g}) < MetaCap}
  IN  [f \in FrameIds |-> IF f \in keep THEN fs[f] ELSE [fs[f] EXCEPT !.metadata = None]]

MetadataRefused(f, m) ==
  /\ RefusesMetadata(f)
  /\ result' = NoResult
  /\ UNCHANGED <<frames, newestFrameId, settledOrder, lastDiscarded>>

MetadataKept(f, m) ==
  LET fr == [Started(frames[f]) EXCEPT !.metadata = m]
  IN  /\ ~RefusesMetadata(f)
      /\ ~Completes(fr)
      /\ frames' = Capped([frames EXCEPT ![f] = fr])
      /\ result' = NoResult
      /\ UNCHANGED <<newestFrameId, settledOrder, lastDiscarded>>

MetadataCompletes(f, m) ==
  LET fr == [Started(frames[f]) EXCEPT !.metadata = m]
  IN  /\ ~RefusesMetadata(f)
      /\ Completes(fr)
      /\ frames' = Capped([frames EXCEPT ![f] = Leftover(fr)])
      /\ settledOrder' = Recent(Append(settledOrder, f))
      /\ lastDiscarded' = None
      /\ result' = [NoResult EXCEPT !.completed = CompletedSet(f, fr)]
      /\ UNCHANGED newestFrameId

AddMetadata(f, m) ==
  \/ MetadataRefused(f, m)
  \/ MetadataKept(f, m)
  \/ MetadataCompletes(f, m)

-----------------------------------------------------------------------------
(* expire(now), reset() and the clock *)

Overdue == {f \in FrameIds : frames[f].overdue}

Expire ==
  \E history \in HistoriesAfter(Overdue) :
    /\ frames' = [f \in FrameIds |-> IF f \in Overdue THEN NoFrame ELSE frames[f]]
    /\ settledOrder' = history
    /\ lastDiscarded' = LastOf(Overdue)
    /\ result' = Discarding(Overdue)
    /\ UNCHANGED newestFrameId

Reset ==
  /\ frames' = [f \in FrameIds |-> NoFrame]
  /\ newestFrameId' = None
  /\ settledOrder' = <<>>
  /\ lastDiscarded' = None
  /\ result' = NoResult

(* A second of inactivity for every frame started so far. Frames started or   *)
(* refreshed later are not overdue, as the monotonic clock orders them.       *)
SecondPasses ==
  /\ frames' = [f \in FrameIds |-> [frames[f] EXCEPT !.overdue = frames[f].started]]
  /\ result' = NoResult
  /\ UNCHANGED <<newestFrameId, settledOrder, lastDiscarded>>

Next ==
  \/ \E c \in Chunk : Ingest(c)
  \/ \E f \in FrameIds, m \in Metas : AddMetadata(f, m)
  \/ Expire
  \/ Reset
  \/ SecondPasses

Spec == Init /\ [][Next]_vars

-----------------------------------------------------------------------------
(* Properties *)

Delivered(r) == r.partial \cup (IF r.completed = None THEN {} ELSE {r.completed})
Reported(r)  == r.discarded \cup (IF r.completed = None THEN {} ELSE {r.completed.frame})

IsWhole(lane) == \E i \in Images : lane = WholeImage(i)

(* Every image the assembler holds ready or hands to the caller is one whole *)
(* image: no hole, no repeated piece, no mixture of two images; and the mask  *)
(* of a delivered set names exactly the slots that carry one.                 *)
DeliveredWhole ==
  /\ \A f \in FrameIds : \A c \in Ready(frames[f]) : IsWhole(frames[f].ready[c])
  /\ \A set \in Delivered(result) :
       \A c \in Cameras : IF c \in set.mask THEN IsWhole(set.images[c])
                                            ELSE set.images[c] = <<>>

(* A frame remembered as settled has given everything back: no partial set,  *)
(* no metadata and no timer survive that could deliver or expire it again.    *)
SettledFrameReleased ==
  \A f \in Range(settledOrder) :
    ~HasPartial(frames[f]) /\ frames[f].metadata = None /\ ~frames[f].started

(* Image data exists for one frame id only, the newest: whatever the order of *)
(* arrival, memory is bounded by one frame set and older sets are retired.    *)
ImagesOnlyAtNewest ==
  \A f \in FrameIds : Pending(frames[f]) # {} \/ HasPartial(frames[f]) => f = newestFrameId

(* Every frame with a partial set or metadata is on the inactivity timer, so  *)
(* expire() can return its credit even if no further packet ever arrives.     *)
TimerCoversWork ==
  \A f \in FrameIds : HasPartial(frames[f]) \/ frames[f].metadata # None => frames[f].started

(* The settled history is a set of at most HistorySize different frames: a    *)
(* duplicate entry would evict an id that a later entry still names.          *)
HistorySound == Len(settledOrder) <= HistorySize /\ IsInjective(settledOrder)

(* The diagnostic kept is that of the most recently settled frame: a frame    *)
(* settled later, in the same call or another, replaces or clears it.         *)
DiagnosticIsLatest ==
  lastDiscarded # None =>
    settledOrder # <<>> /\ lastDiscarded = settledOrder[Len(settledOrder)]

(* The frame pendingDiagnostic reports does not depend on the order in which  *)
(* the three maps are scanned, although wrapping ids are not totally ordered. *)
PendingDiagnosticUnambiguous ==
  newestFrameId # None /\ PendingCandidates # {} =>
    \E f \in PendingCandidates :
      \A g \in PendingCandidates \ {f} : FrameIdIsNewer(f, g)

(* The images of a frame still remembered as settled are never delivered again. *)
DeliveredOnce ==
  [][\A set \in Delivered(result') : set.frame \notin Range(settledOrder)]_vars

(* A complete image leaves the assembler only by being delivered, or because  *)
(* its own slot was found invalid: damage to one slot costs no other slot.    *)
ImagesSurvive ==
  [][Reset \/ \A f \in FrameIds, c \in Cameras :
       c \in Ready(frames[f]) \ Ready(frames'[f]) =>
         \/ c \in frames'[f].invalid
         \/ \E set \in Delivered(result') : set.frame = f /\ c \in set.mask]_vars

(* A frame whose timer stops outside reset() is reported to the caller in the *)
(* same call: completed, or listed for acknowledgement.                       *)
NoSilentLoss ==
  [][Reset \/ \A f \in FrameIds :
       frames[f].started /\ ~frames'[f].started => f \in Reported(result')]_vars
=============================================================================
