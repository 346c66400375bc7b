----------------------- MODULE CameraAssemblerProofs -----------------------
(***************************************************************************)
(* The safety of CameraAssembler for every number of slots, every id       *)
(* modulus, history and metadata limit.  IInv is the inductive invariant:  *)
(* FrameSound of every frame id, what relates a frame to the newest id and *)
(* to the settled history, and the history itself.                         *)
(***************************************************************************)
EXTENDS CameraAssembler, FiniteSetTheorems, WellFoundedInduction, TLAPS

(* A lane being assembled is a proper prefix of one whole image. *)
Contiguous(lane) ==
  /\ Len(lane) < ImageChunks
  /\ lane # <<>> =>
       \E i \in Images : \A k \in 1 .. Len(lane) : lane[k] = [image |-> i, offset |-> k - 1]

FrameSound(fr) ==
  /\ fr \in Frame
  /\ \A c \in Cameras : Contiguous(fr.pending[c])
  /\ \A c \in Ready(fr) : IsWhole(fr.ready[c])
  /\ Ready(fr) \cap fr.invalid = {}
  /\ HasPartial(fr) \/ fr.metadata # None => fr.started

NewestType  == newestFrameId \in FrameIds \cup {None}
HistoryType == settledOrder \in Seq(FrameIds) /\ lastDiscarded \in FrameIds \cup {None}
ResultSound == /\ result \in Result
               /\ \A set \in Delivered(result) : \A c \in Cameras :
                    IF c \in set.mask THEN IsWhole(set.images[c]) ELSE set.images[c] = <<>>

IInv ==
  /\ frames \in [FrameIds -> Frame]
  /\ \A f \in FrameIds : FrameSound(frames[f])
  /\ NewestType
  /\ HistoryType
  /\ HistorySound
  /\ SettledFrameReleased
  /\ ImagesOnlyAtNewest
  /\ ResultSound

-----------------------------------------------------------------------------
(* Frames and lanes *)

LEMMA FrameIdFacts == /\ IsFiniteSet(FrameIds)
                      /\ None \notin FrameIds
                      /\ FrameIds \subseteq Int
<1>1. IdModulus \in Nat
  BY IdAssumption
<1>2. IsFiniteSet(0 .. (IdModulus - 1))
  BY <1>1, FS_Interval
<1>3. QED
  BY <1>1, <1>2, NoneAssumption DEF FrameIds

(* The empty frame holds nothing, so it is sound. *)
LEMMA NoFrameSound == FrameSound(NoFrame) /\ ~Holds(NoFrame) /\ ~NoFrame.started
<1>1. NoFrame \in Frame
  BY DEF NoFrame, NoImages, Frame
<1>2. Ready(NoFrame) = {} /\ Pending(NoFrame) = {}
  BY DEF NoFrame, NoImages, Ready, Pending
<1>3. \A c \in Cameras : Contiguous(NoFrame.pending[c])
  BY ChunksAssumption DEF NoFrame, NoImages, Contiguous
<1>4. QED
  BY <1>1, <1>2, <1>3 DEF FrameSound, HasPartial, Holds, NoFrame

(* Starting the timer changes nothing else. *)
LEMMA StartedSound ==
  ASSUME NEW fr, FrameSound(fr)
  PROVE  /\ FrameSound(Started(fr))
         /\ Started(fr) = [fr EXCEPT !.started = TRUE]
         /\ Ready(Started(fr)) = Ready(fr) /\ Pending(Started(fr)) = Pending(fr)
BY DEF FrameSound, Started, Frame, Ready, Pending, HasPartial

LEMMA ClearedType ==
  ASSUME NEW lanes \in [Cameras -> Seq(Piece)], NEW camera \in Cameras
  PROVE  Cleared(lanes, camera) \in [Cameras -> Seq(Piece)]
BY DEF Cleared

(* Rejecting a slot leaves the other slots as they were. *)
LEMMA RejectSound ==
  ASSUME NEW fr, FrameSound(fr), fr.started, NEW camera \in Cameras \cup {None}
  PROVE  FrameSound(Reject(fr, camera))
<1>1. CASE camera = None
  BY <1>1 DEF Reject
<1>2. CASE camera \in Cameras
  <2> DEFINE ready == Cleared(fr.ready, camera)
             pending == Cleared(fr.pending, camera)
             new == [fr EXCEPT !.invalid = @ \cup {camera}, !.ready = ready,
                               !.pending = pending]
  <2>1. Reject(fr, camera) = new
    BY <1>2, CamerasAssumption DEF Reject
  <2>2. fr.ready \in [Cameras -> Seq(Piece)] /\ fr.pending \in [Cameras -> Seq(Piece)]
    BY DEF FrameSound, Frame
  <2>3. ready \in [Cameras -> Seq(Piece)] /\ pending \in [Cameras -> Seq(Piece)]
    BY <1>2, <2>2, ClearedType
  <2> HIDE DEF ready, pending
  <2>4. new \in Frame /\ new.started /\ new.ready = ready /\ new.pending = pending
    BY <1>2, <2>3 DEF FrameSound, Frame
  <2>5. \A c \in Cameras : pending[c] = fr.pending[c] \/ pending[c] = <<>>
    BY <1>2, <2>2 DEF pending, Cleared
  <2>6. \A c \in Cameras : ready[c] = fr.ready[c] \/ ready[c] = <<>>
    BY <1>2, <2>2 DEF ready, Cleared
  <2>7. \A c \in Cameras : Contiguous(pending[c])
    BY <2>5, ChunksAssumption DEF FrameSound, Contiguous
  <2>8. \A c \in Ready(new) : IsWhole(new.ready[c])
    BY <2>4, <2>6 DEF FrameSound, Ready
  <2>9. Ready(new) \cap new.invalid = {}
    <3>1. ready[camera] = <<>>
      BY <1>2, <2>2 DEF ready, Cleared
    <3>2. \A c \in Ready(new) : c \in Ready(fr) /\ c # camera
      BY <2>4, <2>6, <3>1 DEF Ready
    <3>3. new.invalid = fr.invalid \cup {camera}
      BY DEF FrameSound, Frame
    <3>4. QED
      BY <3>2, <3>3 DEF FrameSound
  <2>10. QED
    BY <2>1, <2>4, <2>7, <2>8, <2>9 DEF FrameSound
<1>3. QED
  BY <1>1, <1>2

(* A continuing piece extends a proper prefix of an image to a longer prefix;  *)
(* the last piece makes it whole.                                              *)
LEMMA AppendedPiece ==
  ASSUME NEW lane \in Seq(Piece), Contiguous(lane), NEW i \in Images,
         NEW offset \in 0 .. (ImageChunks - 1), offset = Len(lane),
         lane # <<>> => lane[1].image = i
  PROVE  LET longer == Append(lane, [image |-> i, offset |-> offset])
         IN  /\ longer \in Seq(Piece) /\ longer # <<>> /\ Len(longer) = offset + 1
             /\ \A k \in 1 .. Len(longer) : longer[k] = [image |-> i, offset |-> k - 1]
<1> DEFINE piece == [image |-> i, offset |-> offset]
           longer == Append(lane, piece)
<1>1. piece \in Piece
  BY DEF Piece
<1>2. \A k \in 1 .. Len(lane) : lane[k] = [image |-> i, offset |-> k - 1]
  <2>1. CASE lane = <<>>
    BY <2>1
  <2>2. CASE lane # <<>>
    <3>1. PICK j \in Images : \A k \in 1 .. Len(lane) : lane[k] = [image |-> j, offset |-> k - 1]
      BY <2>2 DEF Contiguous
    <3>2. Len(lane) \in Nat /\ 1 \in 1 .. Len(lane)
      BY <2>2
    <3>3. lane[1] = [image |-> j, offset |-> 1 - 1]
      BY <3>1, <3>2
    <3>4. j = i
      BY <2>2, <3>3
    <3>5. QED
      BY <3>1, <3>4
  <2>3. QED
    BY <2>1, <2>2
<1>3. longer \in Seq(Piece) /\ Len(longer) = Len(lane) + 1
  BY <1>1
<1>4. \A k \in 1 .. Len(longer) : longer[k] = IF k <= Len(lane) THEN lane[k] ELSE piece
  BY <1>1, <1>3
<1>5. ASSUME NEW k \in 1 .. Len(longer)
      PROVE  longer[k] = [image |-> i, offset |-> k - 1]
  <2>1. k \in 1 .. Len(lane) \/ k = Len(lane) + 1
    BY <1>3
  <2>2. QED
    BY <1>2, <1>4, <1>5, <2>1
<1>6. QED
  BY <1>3, <1>5

(* The frame after a piece that leaves its image unfinished. *)
LEMMA ExtendedFacts ==
  ASSUME NEW fr, FrameSound(fr), NEW c \in Chunk, c.image # None,
         c.offset = Len(fr.pending[c.camera]),
         fr.pending[c.camera] # <<>> => fr.pending[c.camera][1].image = c.image
  PROVE  /\ c.camera \in Cameras
         /\ Extended(fr, c) \in Frame /\ Extended(fr, c).started
         /\ Ready(Extended(fr, c)) = Ready(fr) /\ Extended(fr, c).ready = fr.ready
         /\ Extended(fr, c).invalid = fr.invalid
         /\ Extended(fr, c).metadata = fr.metadata
         /\ \A k \in Cameras \ {c.camera} : Extended(fr, c).pending[k] = fr.pending[k]
         /\ LET longer == Extended(fr, c).pending[c.camera]
            IN  /\ longer \in Seq(Piece) /\ longer # <<>> /\ Len(longer) = c.offset + 1
                /\ \A k \in 1 .. Len(longer) :
                     longer[k] = [image |-> c.image, offset |-> k - 1]
<1>1. c.camera \in Cameras /\ c.image \in Images /\ c.offset \in 0 .. (ImageChunks - 1)
  BY DEF Chunk
<1>2. fr.pending \in [Cameras -> Seq(Piece)] /\ Contiguous(fr.pending[c.camera])
  BY <1>1 DEF FrameSound, Frame
<1> DEFINE piece == [image |-> c.image, offset |-> c.offset]
           longer == Append(fr.pending[c.camera], piece)
           lanes == WithPiece(fr.pending, c)
           new == [fr EXCEPT !.pending = lanes, !.started = TRUE, !.overdue = FALSE]
<1>3. /\ longer \in Seq(Piece) /\ longer # <<>> /\ Len(longer) = c.offset + 1
      /\ \A k \in 1 .. Len(longer) : longer[k] = [image |-> c.image, offset |-> k - 1]
  BY <1>1, <1>2, AppendedPiece
<1>4. /\ lanes \in [Cameras -> Seq(Piece)] /\ lanes[c.camera] = longer
      /\ \A k \in Cameras \ {c.camera} : lanes[k] = fr.pending[k]
  BY <1>1, <1>2, <1>3 DEF WithPiece
<1>5. Extended(fr, c) = new
  BY DEF Extended
<1> HIDE DEF lanes, longer
<1>6. /\ new \in Frame /\ new.started /\ new.pending = lanes /\ new.ready = fr.ready
      /\ new.invalid = fr.invalid /\ new.metadata = fr.metadata
  BY <1>4 DEF FrameSound, Frame
<1>7. Ready(new) = Ready(fr)
  BY <1>6 DEF Ready
<1>8. QED
  BY <1>1, <1>3, <1>4, <1>5, <1>6, <1>7

(* What the other moves of an image keep sound.                                *)
LEMMA PieceSound ==
  ASSUME NEW fr, FrameSound(fr), NEW c \in Chunk, c.image # None,
         c.offset = Len(fr.pending[c.camera]),
         fr.pending[c.camera] # <<>> => fr.pending[c.camera][1].image = c.image,
         c.offset + 1 < ImageChunks
  PROVE  FrameSound(Extended(fr, c))
<1> DEFINE new == Extended(fr, c)
<1>1. /\ new \in Frame /\ new.started /\ Ready(new) = Ready(fr) /\ new.ready = fr.ready
      /\ new.invalid = fr.invalid /\ c.camera \in Cameras
      /\ \A k \in Cameras \ {c.camera} : new.pending[k] = fr.pending[k]
      /\ Len(new.pending[c.camera]) = c.offset + 1
      /\ \A k \in 1 .. Len(new.pending[c.camera]) :
           new.pending[c.camera][k] = [image |-> c.image, offset |-> k - 1]
  BY ExtendedFacts
<1>2. c.image \in Images
  BY DEF Chunk
<1> HIDE DEF new
<1>3. Contiguous(new.pending[c.camera])
  BY <1>1, <1>2 DEF Contiguous
<1>4. \A k \in Cameras : Contiguous(new.pending[k])
  BY <1>1, <1>3 DEF FrameSound
<1>5. QED
  BY <1>1, <1>4 DEF FrameSound, new

(* The last piece: the slot's image is whole and its pending entry is gone. *)
LEMMA ImageSound ==
  ASSUME NEW fr, FrameSound(fr), NEW c \in Chunk, c.image # None,
         c.offset = Len(fr.pending[c.camera]),
         fr.pending[c.camera] # <<>> => fr.pending[c.camera][1].image = c.image,
         c.offset + 1 = ImageChunks, c.camera \notin fr.invalid
  PROVE  LET new == Finished(Extended(fr, c), c)
         IN  /\ FrameSound(new) /\ new.started /\ new.metadata = fr.metadata
             /\ new.invalid = fr.invalid /\ Ready(fr) \subseteq Ready(new)
<1> DEFINE long == Extended(fr, c)
           image == long.pending[c.camera]
           ready == WithImage(long.ready, c.camera, image)
           pending == Cleared(long.pending, c.camera)
           new == [long EXCEPT !.ready = ready, !.pending = pending]
<1>1. /\ long \in Frame /\ long.started /\ long.ready = fr.ready
      /\ long.invalid = fr.invalid /\ long.metadata = fr.metadata /\ c.camera \in Cameras
      /\ \A k \in Cameras \ {c.camera} : long.pending[k] = fr.pending[k]
      /\ image \in Seq(Piece) /\ image # <<>> /\ Len(image) = ImageChunks
      /\ \A k \in 1 .. Len(image) : image[k] = [image |-> c.image, offset |-> k - 1]
  BY ExtendedFacts
<1>2. Finished(long, c) = new
  BY DEF Finished
<1>3. c.image \in Images /\ IsWhole(image)
  <2>1. c.image \in Images
    BY DEF Chunk
  <2> HIDE DEF image
  <2>2. image = [k \in 1 .. Len(image) |-> image[k]]
    BY <1>1
  <2>3. image = WholeImage(c.image)
    BY <1>1, <2>2 DEF WholeImage
  <2>4. QED
    BY <2>1, <2>3 DEF IsWhole, image
<1> HIDE DEF long, image
<1>4. /\ ready \in [Cameras -> Seq(Piece)] /\ ready[c.camera] = image
      /\ \A k \in Cameras \ {c.camera} : ready[k] = fr.ready[k]
  BY <1>1 DEF WithImage, FrameSound, Frame
<1>5. /\ pending \in [Cameras -> Seq(Piece)]
      /\ \A k \in Cameras : pending[k] = IF k = c.camera THEN <<>> ELSE fr.pending[k]
  BY <1>1 DEF Cleared, Frame
<1> HIDE DEF ready, pending
<1>6. /\ new \in Frame /\ new.started /\ new.ready = ready /\ new.pending = pending
      /\ new.invalid = fr.invalid /\ new.metadata = fr.metadata
  BY <1>1, <1>4, <1>5 DEF Frame
<1> HIDE DEF new
<1>7. \A k \in Cameras : Contiguous(new.pending[k])
  BY <1>5, <1>6, ChunksAssumption DEF FrameSound, Contiguous
<1>8. Ready(new) = Ready(fr) \cup {c.camera}
  BY <1>1, <1>4, <1>6 DEF Ready
<1>9. \A k \in Ready(new) : IsWhole(new.ready[k])
  BY <1>3, <1>4, <1>6, <1>8 DEF FrameSound, Ready
<1>10. FrameSound(new)
  BY <1>6, <1>7, <1>8, <1>9 DEF FrameSound
<1>11. QED
  BY <1>2, <1>6, <1>8, <1>10 DEF long

(* A duplicate image: what is left when its slot is rejected is sound.         *)
LEMMA DuplicateSound ==
  ASSUME NEW fr, FrameSound(fr), NEW c \in Chunk, c.image # None,
         c.offset = Len(fr.pending[c.camera]),
         fr.pending[c.camera] # <<>> => fr.pending[c.camera][1].image = c.image
  PROVE  FrameSound(Reject(Extended(fr, c), c.camera))
<1> DEFINE long == Extended(fr, c)
           ready == Cleared(long.ready, c.camera)
           pending == Cleared(long.pending, c.camera)
           new == [long EXCEPT !.invalid = @ \cup {c.camera}, !.ready = ready,
                               !.pending = pending]
<1>1. /\ long \in Frame /\ long.started /\ long.ready = fr.ready
      /\ long.invalid = fr.invalid /\ long.metadata = fr.metadata /\ c.camera \in Cameras
      /\ \A k \in Cameras \ {c.camera} : long.pending[k] = fr.pending[k]
  BY ExtendedFacts
<1>2. Reject(long, c.camera) = new
  BY <1>1, CamerasAssumption DEF Reject
<1> HIDE DEF long
<1>3. /\ ready \in [Cameras -> Seq(Piece)]
      /\ \A k \in Cameras : ready[k] = IF k = c.camera THEN <<>> ELSE fr.ready[k]
  BY <1>1 DEF Cleared, FrameSound, Frame
<1>4. /\ pending \in [Cameras -> Seq(Piece)]
      /\ \A k \in Cameras : pending[k] = IF k = c.camera THEN <<>> ELSE fr.pending[k]
  BY <1>1 DEF Cleared, Frame
<1> HIDE DEF ready, pending
<1>5. /\ new \in Frame /\ new.started /\ new.ready = ready /\ new.pending = pending
      /\ new.invalid = fr.invalid \cup {c.camera}
  BY <1>1, <1>3, <1>4 DEF Frame
<1> HIDE DEF new
<1>6. \A k \in Cameras : Contiguous(new.pending[k])
  BY <1>4, <1>5, ChunksAssumption DEF FrameSound, Contiguous
<1>7. \A k \in Ready(new) : k \in Ready(fr) /\ k # c.camera /\ IsWhole(new.ready[k])
  BY <1>3, <1>5 DEF FrameSound, Ready
<1>8. Ready(new) \cap new.invalid = {}
  BY <1>5, <1>7 DEF FrameSound
<1>9. QED
  BY <1>2, <1>5, <1>6, <1>7, <1>8 DEF FrameSound, long

(* What takeCompletedFrame leaves behind of a frame. *)
LEMMA LeftoverSound ==
  ASSUME NEW fr, FrameSound(fr)
  PROVE  LET new == Leftover(fr)
         IN  /\ FrameSound(new) /\ ~HasPartial(new) /\ new.metadata = None /\ ~new.started
             /\ Ready(new) = {} /\ Pending(new) = Pending(fr)
<1> DEFINE new == Leftover(fr)
<1>1. /\ new \in Frame /\ new.pending = fr.pending /\ new.ready = NoImages
      /\ new.invalid = {} /\ new.metadata = None /\ ~new.started
  BY NoFrameSound DEF Leftover, FrameSound, Frame, NoFrame
<1> HIDE DEF new
<1>2. Ready(new) = {} /\ Pending(new) = Pending(fr)
  BY <1>1 DEF Ready, Pending, NoImages
<1>3. FrameSound(new) /\ ~HasPartial(new)
  BY <1>1, <1>2 DEF FrameSound, HasPartial
<1>4. QED
  BY <1>1, <1>2, <1>3 DEF new

(* The metadata cap only removes metadata. *)
LEMMA CappedSound ==
  ASSUME NEW fs \in [FrameIds -> Frame], \A f \in FrameIds : FrameSound(fs[f])
  PROVE  /\ Capped(fs) \in [FrameIds -> Frame]
         /\ \A f \in FrameIds :
              /\ FrameSound(Capped(fs)[f])
              /\ Ready(Capped(fs)[f]) = Ready(fs[f]) /\ Pending(Capped(fs)[f]) = Pending(fs[f])
              /\ Capped(fs)[f].invalid = fs[f].invalid
              /\ Capped(fs)[f].started = fs[f].started
              /\ Capped(fs)[f].metadata \in {fs[f].metadata, None}
<1> DEFINE bare(f) == [fs[f] EXCEPT !.metadata = None]
<1>1. ASSUME NEW f \in FrameIds
      PROVE  /\ bare(f) \in Frame /\ bare(f).metadata = None
             /\ bare(f).started = fs[f].started /\ bare(f).invalid = fs[f].invalid
             /\ bare(f).ready = fs[f].ready /\ bare(f).pending = fs[f].pending
  <2>1. fs[f] \in Frame
    OBVIOUS
  <2>2. QED
    BY <2>1 DEF Frame
<1> HIDE DEF bare
<1>2. ASSUME NEW f \in FrameIds
      PROVE  /\ FrameSound(bare(f)) /\ Ready(bare(f)) = Ready(fs[f])
             /\ Pending(bare(f)) = Pending(fs[f])
  BY <1>1 DEF FrameSound, Ready, Pending, HasPartial
<1>3. /\ DOMAIN Capped(fs) = FrameIds
      /\ \A f \in FrameIds : Capped(fs)[f] = fs[f] \/ Capped(fs)[f] = bare(f)
  BY DEF Capped, bare
<1>4. \A f \in FrameIds : Capped(fs)[f] \in Frame
  BY <1>1, <1>3
<1>5. Capped(fs) = [f \in FrameIds |-> Capped(fs)[f]]
  BY DEF Capped
<1>6. QED
  BY <1>1, <1>2, <1>3, <1>4, <1>5

-----------------------------------------------------------------------------
(* Retired frames *)

(* The images salvaged from a frame are whole, and its mask names them all. *)
LEMMA SurvivorsSound ==
  ASSUME NEW f \in FrameIds, FrameSound(frames[f])
  PROVE  /\ Survivors(f) \in FrameSet
         /\ Survivors(f).frame = f /\ Survivors(f).mask = Ready(frames[f])
         /\ \A c \in Cameras : IF c \in Survivors(f).mask
                               THEN IsWhole(Survivors(f).images[c])
                               ELSE Survivors(f).images[c] = <<>>
<1> DEFINE complete == {c \in Cameras : CameraState(frames[f], c) = "complete"}
           images == [c \in Cameras |-> IF c \in complete THEN frames[f].ready[c] ELSE <<>>]
<1>1. frames[f].ready \in [Cameras -> Seq(Piece)] /\ frames[f].metadata \in Metas \cup {None}
  BY DEF FrameSound, Frame
<1>2. complete = Ready(frames[f])
  <2>1. ASSUME NEW c \in Cameras
        PROVE  CameraState(frames[f], c) = "complete" <=> c \in Ready(frames[f])
    <3>1. CASE c \in frames[f].invalid
      <4>1. CameraState(frames[f], c) = "invalid"
        BY <3>1 DEF CameraState
      <4>2. c \notin Ready(frames[f])
        BY <3>1 DEF FrameSound
      <4>3. QED
        BY <4>1, <4>2
    <3>2. CASE c \notin frames[f].invalid
      BY <3>2 DEF CameraState
    <3>3. QED
      BY <3>1, <3>2
  <2>2. Ready(frames[f]) \subseteq Cameras
    BY DEF Ready
  <2>3. QED
    BY <2>1, <2>2
<1>3. images \in [Cameras -> Seq(Piece)]
  BY <1>1
<1>4. Survivors(f) = [frame |-> f, mask |-> complete, metadata |-> frames[f].metadata,
                      images |-> images]
  BY DEF Survivors
<1> HIDE DEF complete
<1>5. complete \subseteq Cameras
  BY <1>2 DEF Ready
<1>6. \A c \in Cameras : IF c \in complete THEN IsWhole(images[c]) ELSE images[c] = <<>>
  BY <1>2 DEF FrameSound
<1> HIDE DEF images
<1>7. Survivors(f) \in FrameSet
  BY <1>1, <1>3, <1>4, <1>5 DEF FrameSet
<1>8. QED
  BY <1>2, <1>4, <1>6, <1>7

(* So the result of retiring frames is sound. *)
LEMMA DiscardingSound ==
  ASSUME NEW S \in SUBSET FrameIds, \A f \in S : FrameSound(frames[f])
  PROVE  /\ Discarding(S) \in Result
         /\ \A set \in Partials(S) :
              /\ set.frame \in S /\ set.mask = Ready(frames[set.frame]) /\ set.mask # {}
              /\ \A c \in Cameras : IF c \in set.mask THEN IsWhole(set.images[c])
                                    ELSE set.images[c] = <<>>
         /\ \A f \in S : Ready(frames[f]) # {} => Survivors(f) \in Partials(S)
<1>1. \A f \in S : /\ Survivors(f) \in FrameSet
                   /\ Survivors(f).frame = f /\ Survivors(f).mask = Ready(frames[f])
                   /\ \A c \in Cameras : IF c \in Survivors(f).mask
                                         THEN IsWhole(Survivors(f).images[c])
                                         ELSE Survivors(f).images[c] = <<>>
  BY SurvivorsSound
<1>2. \A set \in Partials(S) : set.mask # {} /\ \E f \in S : set = Survivors(f)
  BY DEF Partials
<1>3. Settles(S) \subseteq FrameIds /\ Partials(S) \subseteq FrameSet
  BY <1>1, <1>2 DEF Settles
<1>4. Discarding(S) \in Result
  BY <1>3 DEF Discarding, Result
<1>5. \A f \in S : Ready(frames[f]) # {} => Survivors(f) \in Partials(S)
  BY <1>1 DEF Partials
<1>6. ASSUME NEW set \in Partials(S)
      PROVE  /\ set.frame \in S /\ set.mask = Ready(frames[set.frame]) /\ set.mask # {}
             /\ \A c \in Cameras : IF c \in set.mask THEN IsWhole(set.images[c])
                                   ELSE set.images[c] = <<>>
  <2>1. PICK f \in S : set = Survivors(f)
    BY <1>2
  <2>2. QED
    BY <1>1, <1>2, <2>1
<1>7. QED
  BY <1>4, <1>5, <1>6

-----------------------------------------------------------------------------
(* The settled history *)

(* Recent keeps the last HistorySize entries of a sequence. *)
LEMMA RecentFacts ==
  ASSUME NEW s \in Seq(FrameIds),
         NEW d, d = IF Len(s) > HistorySize THEN Len(s) - HistorySize ELSE 0
  PROVE  /\ Recent(s) \in Seq(FrameIds)
         /\ Len(Recent(s)) = Len(s) - d /\ Len(Recent(s)) <= HistorySize
         /\ \A k \in 1 .. Len(Recent(s)) : /\ Recent(s)[k] = s[k + d]
                                           /\ k + d \in 1 .. Len(s) /\ k + d > d
<1>1. HistorySize \in Nat \ {0} /\ Len(s) \in Nat
  BY LimitsAssumption
<1>2. CASE Len(s) > HistorySize
  <2>1. d = Len(s) - HistorySize /\ d + 1 \in 1 .. Len(s)
    BY <1>1, <1>2
  <2>2. Recent(s) = SubSeq(s, d + 1, Len(s))
    BY <1>1, <1>2, <2>1 DEF Recent
  <2>3. /\ SubSeq(s, d + 1, Len(s)) \in Seq(FrameIds)
        /\ Len(SubSeq(s, d + 1, Len(s))) = Len(s) - d
        /\ \A k \in 1 .. (Len(s) - d) : SubSeq(s, d + 1, Len(s))[k] = s[k + d]
    BY <1>1, <1>2, <2>1
  <2>4. QED
    BY <1>1, <1>2, <2>1, <2>2, <2>3
<1>3. CASE ~(Len(s) > HistorySize)
  BY <1>1, <1>3 DEF Recent
<1>4. QED
  BY <1>2, <1>3

(* If the entries Recent keeps are pairwise different, it is a sound history.  *)
LEMMA RecentSound ==
  ASSUME NEW s \in Seq(FrameIds),
         NEW d, d = IF Len(s) > HistorySize THEN Len(s) - HistorySize ELSE 0,
         \A p, q \in 1 .. Len(s) : p > d /\ q > d /\ s[p] = s[q] => p = q
  PROVE  /\ Recent(s) \in Seq(FrameIds) /\ Len(Recent(s)) <= HistorySize
         /\ IsInjective(Recent(s)) /\ Range(Recent(s)) \subseteq Range(s)
<1> DEFINE r == Recent(s)
<1>1. /\ r \in Seq(FrameIds) /\ Len(r) = Len(s) - d /\ Len(r) <= HistorySize
      /\ \A k \in 1 .. Len(r) : r[k] = s[k + d] /\ k + d \in 1 .. Len(s) /\ k + d > d
  BY RecentFacts
<1>2. d \in Nat /\ DOMAIN r = 1 .. Len(r) /\ DOMAIN s = 1 .. Len(s)
  BY <1>1, LimitsAssumption
<1> HIDE DEF r
<1>3. IsInjective(r)
  <2> SUFFICES ASSUME NEW i \in 1 .. Len(r), NEW j \in 1 .. Len(r), r[i] = r[j]
               PROVE  i = j
    BY <1>2 DEF IsInjective
  <2>1. /\ s[i + d] = s[j + d] /\ i + d \in 1 .. Len(s) /\ j + d \in 1 .. Len(s)
        /\ i + d > d /\ j + d > d
    BY <1>1
  <2>2. i + d = j + d
    BY <2>1
  <2>3. QED
    BY <1>2, <2>2
<1>4. Range(r) \subseteq Range(s)
  BY <1>1, <1>2 DEF Range
<1>5. QED
  BY <1>1, <1>3, <1>4 DEF r

(* Retiring frames, some of which may still be in the history, leaves a sound  *)
(* history: an id enters it again only after its old entry was pushed out.     *)
LEMMA HistoryFacts ==
  ASSUME HistoryType, HistorySound, NEW S \in SUBSET FrameIds, NEW h \in HistoriesAfter(S)
  PROVE  /\ h \in Seq(FrameIds) /\ Len(h) <= HistorySize /\ IsInjective(h)
         /\ Range(h) \subseteq Range(settledOrder) \cup S
<1> DEFINE n == Cardinality(Settles(S))
           L == Len(settledOrder)
           earlier(f) == {g \in Unsettled(S) : g < f}
<1>1. PICK ids \in Ascending(Settles(S)) : h = Recent(settledOrder \o ids)
  BY DEF HistoriesAfter
<1>2. Settles(S) \subseteq S /\ IsFiniteSet(Settles(S)) /\ n \in Nat
  <2>1. Settles(S) \subseteq S
    BY DEF Settles
  <2>2. IsFiniteSet(FrameIds) /\ Settles(S) \in SUBSET FrameIds
    BY <2>1, FrameIdFacts
  <2>3. IsFiniteSet(Settles(S))
    BY <2>2, FS_Subset
  <2>4. QED
    BY <2>1, <2>3, FS_CardinalityType
<1>3. \A f \in S : earlier(f) \in SUBSET Settles(S) /\ Cardinality(earlier(f)) \in Nat
                   /\ Cardinality(earlier(f)) <= n
  <2> TAKE f \in S
  <2>1. earlier(f) \in SUBSET Settles(S)
    BY DEF Unsettled, Settles
  <2>2. IsFiniteSet(earlier(f)) /\ Cardinality(earlier(f)) <= n
    BY <1>2, <2>1, FS_Subset
  <2>3. QED
    BY <2>1, <2>2, FS_CardinalityType
<1>4. /\ L \in Nat /\ L <= HistorySize /\ settledOrder \in Seq(FrameIds)
      /\ DOMAIN settledOrder = 1 .. L
      /\ \A i, j \in 1 .. L : settledOrder[i] = settledOrder[j] => i = j
      /\ HistorySize \in Nat \ {0}
  BY LimitsAssumption DEF HistoryType, HistorySound, IsInjective
<1>5. \A f \in Settles(S) :
        f \in Range(settledOrder) =>
          \E k \in 1 .. L : settledOrder[k] = f /\ k + HistorySize <= L + n
  <2> SUFFICES ASSUME NEW f \in Settles(S), f \in Range(settledOrder)
               PROVE  \E k \in 1 .. L : settledOrder[k] = f /\ k + HistorySize <= L + n
    OBVIOUS
  <2>1. PICK k \in 1 .. L : settledOrder[k] = f /\ k + HistorySize <= L + Cardinality(earlier(f))
    BY DEF Settles
  <2>2. f \in S
    BY <1>2
  <2> HIDE DEF n, L, earlier
  <2>3. Cardinality(earlier(f)) \in Nat /\ Cardinality(earlier(f)) <= n
    BY <1>3, <2>2
  <2>4. QED
    BY <1>2, <1>4, <2>1, <2>3
<1> HIDE DEF n, L, earlier
<1>6. /\ ids \in [1 .. n -> Settles(S)] /\ Range(ids) = Settles(S)
      /\ \A i, j \in 1 .. n : i < j => ids[i] < ids[j]
  BY <1>1 DEF Ascending, n
<1>7. ids \in Seq(FrameIds) /\ Len(ids) = n /\ \A i \in 1 .. n : ids[i] \in Settles(S)
  <2>1. \A i \in 1 .. n : ids[i] \in Settles(S) /\ ids[i] \in FrameIds
    BY <1>2, <1>6
  <2>2. ids \in [1 .. n -> FrameIds]
    BY <1>6, <2>1
  <2>3. QED
    BY <1>2, <2>1, <2>2
<1>8. \A i, j \in 1 .. n : ids[i] = ids[j] => i = j
  <2> SUFFICES ASSUME NEW i \in 1 .. n, NEW j \in 1 .. n, ids[i] = ids[j]
               PROVE  i = j
    OBVIOUS
  <2>1. ids[i] \in Int /\ ids[j] \in Int
    BY <1>2, <1>6, FrameIdFacts
  <2>2. ~(i < j) /\ ~(j < i)
    BY <1>6, <2>1
  <2>3. QED
    BY <1>2, <2>2
<1> DEFINE s == settledOrder \o ids
           d == IF Len(s) > HistorySize THEN Len(s) - HistorySize ELSE 0
<1>9. /\ s \in Seq(FrameIds) /\ Len(s) = L + n
      /\ \A k \in 1 .. (L + n) : s[k] = IF k <= L THEN settledOrder[k] ELSE ids[k - L]
  BY <1>2, <1>4, <1>7 DEF L
<1> HIDE DEF s
<1>10. d \in Nat /\ (d = 0 \/ d = L + n - HistorySize) /\ d >= L + n - HistorySize
  BY <1>2, <1>4, <1>9
<1>11. ASSUME NEW p \in 1 .. L, p > d, NEW q \in 1 .. n PROVE settledOrder[p] # ids[q]
  <2> SUFFICES ASSUME settledOrder[p] = ids[q] PROVE FALSE
    OBVIOUS
  <2>1. ids[q] \in Settles(S) /\ ids[q] \in Range(settledOrder)
    BY <1>4, <1>7 DEF Range
  <2>2. PICK k \in 1 .. L : settledOrder[k] = ids[q] /\ k + HistorySize <= L + n
    BY <1>5, <2>1
  <2>3. k = p
    BY <1>4, <2>2
  <2>4. QED
    BY <1>2, <1>4, <1>10, <1>11, <2>2, <2>3
<1>12. ASSUME NEW p \in 1 .. Len(s), NEW q \in 1 .. Len(s), p > d, q > d, s[p] = s[q]
       PROVE  p = q
  <2>1. p \in Int /\ q \in Int /\ p \in 1 .. (L + n) /\ q \in 1 .. (L + n)
    BY <1>9
  <2>2. CASE p <= L /\ q <= L
    BY <1>4, <1>9, <1>12, <2>1, <2>2
  <2>3. CASE p > L /\ q > L
    <3>1. p - L \in 1 .. n /\ q - L \in 1 .. n /\ ids[p - L] = ids[q - L]
      BY <1>2, <1>4, <1>9, <1>12, <2>1, <2>3
    <3>2. p - L = q - L
      BY <1>8, <3>1
    <3>3. QED
      BY <1>4, <2>1, <3>2
  <2>4. CASE p <= L /\ q > L
    <3>1. p \in 1 .. L /\ q - L \in 1 .. n /\ settledOrder[p] = ids[q - L]
      BY <1>2, <1>4, <1>9, <1>12, <2>1, <2>4
    <3>2. QED
      BY <1>11, <1>12, <3>1
  <2>5. CASE p > L /\ q <= L
    <3>1. q \in 1 .. L /\ p - L \in 1 .. n /\ settledOrder[q] = ids[p - L]
      BY <1>2, <1>4, <1>9, <1>12, <2>1, <2>5
    <3>2. QED
      BY <1>11, <1>12, <3>1
  <2>6. QED
    BY <1>4, <2>1, <2>2, <2>3, <2>4, <2>5
<1>13. /\ h \in Seq(FrameIds) /\ Len(h) <= HistorySize /\ IsInjective(h)
       /\ Range(h) \subseteq Range(s)
  <2>1. h = Recent(s)
    BY <1>1 DEF s
  <2> QED
    BY <1>9, <1>12, <2>1, RecentSound
<1>14. Range(s) \subseteq Range(settledOrder) \cup S
  <2>1. \A k \in 1 .. (L + n) : s[k] \in Range(settledOrder) \cup S
    <3> TAKE k \in 1 .. (L + n)
    <3>1. CASE k <= L
      <4>1. k \in 1 .. L /\ s[k] = settledOrder[k]
        BY <1>4, <1>9, <3>1
      <4>2. QED
        BY <1>4, <4>1 DEF Range
    <3>2. CASE ~(k <= L)
      <4>1. k - L \in 1 .. n /\ s[k] = ids[k - L]
        BY <1>2, <1>4, <1>9, <3>2
      <4>2. QED
        BY <1>2, <1>7, <4>1
    <3>3. QED
      BY <3>1, <3>2
  <2>2. DOMAIN s = 1 .. (L + n)
    BY <1>9
  <2>3. QED
    BY <2>1, <2>2 DEF Range
<1>15. QED
  BY <1>13, <1>14

(* The same when one frame, not in the history, is appended to it.             *)
LEMMA AppendedHistory ==
  ASSUME NEW h \in Seq(FrameIds), Len(h) <= HistorySize, IsInjective(h),
         NEW f \in FrameIds, f \notin Range(h)
  PROVE  /\ Recent(Append(h, f)) \in Seq(FrameIds)
         /\ Len(Recent(Append(h, f))) <= HistorySize
         /\ IsInjective(Recent(Append(h, f)))
         /\ Range(Recent(Append(h, f))) \subseteq Range(h) \cup {f}
<1> DEFINE s == Append(h, f)
           d == IF Len(s) > HistorySize THEN Len(s) - HistorySize ELSE 0
<1>1. /\ s \in Seq(FrameIds) /\ Len(s) = Len(h) + 1 /\ Len(h) \in Nat
      /\ \A k \in 1 .. Len(s) : s[k] = IF k <= Len(h) THEN h[k] ELSE f
      /\ DOMAIN s = 1 .. Len(s) /\ DOMAIN h = 1 .. Len(h)
  OBVIOUS
<1> HIDE DEF s
<1>2. \A k \in 1 .. Len(h) : h[k] # f
  BY <1>1 DEF Range
<1>3. ASSUME NEW p \in 1 .. Len(s), NEW q \in 1 .. Len(s), s[p] = s[q]
      PROVE  p = q
  <2>1. p \in Int /\ q \in Int /\ p <= Len(h) + 1 /\ q <= Len(h) + 1
    BY <1>1
  <2>2. CASE p <= Len(h) /\ q <= Len(h)
    BY <1>1, <1>3, <2>2 DEF IsInjective
  <2>3. CASE p = Len(h) + 1 \/ q = Len(h) + 1
    BY <1>1, <1>2, <1>3, <2>3
  <2>4. QED
    BY <1>1, <2>1, <2>2, <2>3
<1>4. Range(s) \subseteq Range(h) \cup {f}
  BY <1>1 DEF Range
<1>5. /\ Recent(s) \in Seq(FrameIds) /\ Len(Recent(s)) <= HistorySize
      /\ IsInjective(Recent(s)) /\ Range(Recent(s)) \subseteq Range(s)
  BY <1>1, <1>3, RecentSound
<1>6. QED
  BY <1>4, <1>5 DEF s

-----------------------------------------------------------------------------
(* Chunks *)

LEMMA NotNewerThanItself ==
  ASSUME NEW id \in FrameIds
  PROVE  ~FrameIdIsNewer(id, id) /\ id \notin OlderThan(id) /\ OlderThan(id) \subseteq FrameIds
<1>1. id - id = 0 /\ IdModulus \in Nat \ {0}
  BY FrameIdFacts, IdAssumption
<1>2. 0 % IdModulus = 0
  BY <1>1
<1>3. ~FrameIdIsNewer(id, id)
  BY <1>1, <1>2 DEF FrameIdIsNewer
<1>4. QED
  BY <1>3 DEF OlderThan

LEMMA ChunkFacts ==
  ASSUME NEW c \in Chunk
  PROVE  /\ c.frame \in FrameIds /\ c.camera \in Cameras \cup {None}
         /\ ~BadEnvelope(c) => c.camera \in Cameras /\ c.image # None
BY DEF Chunk, BadEnvelope

(* Retiring the frames behind a chunk and replacing the chunk's own frame by a *)
(* sound one: every frame stays sound, and images stay at the newest id only.  *)
LEMMA ReplacedFrames ==
  ASSUME IInv, NEW id \in FrameIds, ~IsLate(id), newestFrameId' = id,
         NEW fr, FrameSound(fr), Replace(OlderThan(id), id, fr)
  PROVE  /\ (frames \in [FrameIds -> Frame])' /\ \A f \in FrameIds : FrameSound(frames'[f])
         /\ ImagesOnlyAtNewest' /\ NewestType'
         /\ frames'[id] = fr
         /\ \A f \in OlderThan(id) : frames'[f] = NoFrame
         /\ \A f \in FrameIds \ OlderThan(id) : f # id => frames'[f] = frames[f]
<1>1. /\ frames' = [f \in FrameIds |-> IF f \in OlderThan(id) THEN NoFrame
                                       ELSE IF f = id THEN fr ELSE frames[f]]
      /\ fr \in Frame /\ NoFrame \in Frame
      /\ frames \in [FrameIds -> Frame] /\ \A f \in FrameIds : FrameSound(frames[f])
  BY NoFrameSound DEF Replace, IInv, FrameSound
<1>2. id \notin OlderThan(id) /\ OlderThan(id) \subseteq FrameIds
  BY NotNewerThanItself
<1>3. (frames \in [FrameIds -> Frame])'
  BY <1>1
<1>4. \A f \in FrameIds : FrameSound(frames'[f])
  BY <1>1, NoFrameSound
<1>5. ImagesOnlyAtNewest'
  <2> SUFFICES ASSUME NEW f \in FrameIds, f # id,
                      Pending(frames'[f]) # {} \/ HasPartial(frames'[f])
               PROVE  FALSE
    BY DEF ImagesOnlyAtNewest
  <2>1. CASE f \in OlderThan(id)
    BY <1>1, <2>1, NoFrameSound DEF Holds
  <2>2. CASE f \notin OlderThan(id)
    <3>1. frames'[f] = frames[f]
      BY <1>1, <2>2
    <3>2. f = newestFrameId /\ Holds(frames[f])
      BY <3>1 DEF IInv, ImagesOnlyAtNewest, Holds
    <3>3. newestFrameId # None
      BY <3>2, FrameIdFacts
    <3>4. FrameIdIsNewer(id, newestFrameId)
      BY <3>2, <3>3 DEF IsLate
    <3>5. f \in OlderThan(id)
      BY <3>2, <3>3, <3>4 DEF OlderThan
    <3>6. QED
      BY <2>2, <3>5
  <2>3. QED
    BY <2>1, <2>2
<1>6. NewestType'
  BY DEF NewestType
<1>7. QED
  BY <1>1, <1>2, <1>3, <1>4, <1>5, <1>6

(* The last of the ids in ascending order is the greatest. *)
LEMMA GreatestSettled ==
  ASSUME NEW S \in SUBSET FrameIds, NEW ids \in Ascending(Settles(S)), Settles(S) # {}
  PROVE  /\ ids \in Seq(FrameIds) /\ Len(ids) \in Nat \ {0}
         /\ LastOf(S) = ids[Len(ids)]
<1> DEFINE n == Cardinality(Settles(S))
           greatest(f) == \A g \in Settles(S) : g <= f
<1>1. Settles(S) \subseteq Int /\ Settles(S) \subseteq FrameIds /\ n \in Nat
  BY FrameIdFacts, FS_Subset, FS_CardinalityType DEF Settles
<1>2. /\ ids \in [1 .. n -> Settles(S)]
      /\ \A f \in Settles(S) : \E i \in 1 .. n : f = ids[i]
      /\ \A i, j \in 1 .. n : i < j => ids[i] < ids[j]
  BY DEF Ascending, Range
<1> HIDE DEF n
<1>3. n \in 1 .. n
  BY <1>1, <1>2
<1>4. ids[n] \in Settles(S) /\ greatest(ids[n])
  <2>1. \A i \in 1 .. n : ids[i] <= ids[n]
    <3> TAKE i \in 1 .. n
    <3>1. ids[i] \in Int /\ ids[n] \in Int
      BY <1>1, <1>2, <1>3
    <3>2. i < n \/ i = n
      BY <1>1
    <3>3. QED
      BY <1>2, <1>3, <3>1, <3>2
  <2>2. QED
    BY <1>2, <1>3, <2>1
<1>5. ASSUME NEW f \in Settles(S), greatest(f) PROVE f = ids[n]
  <2>1. f \in Int /\ ids[n] \in Int /\ f <= ids[n] /\ ids[n] <= f
    BY <1>1, <1>4, <1>5
  <2>2. QED
    BY <2>1
<1>6. LastOf(S) = CHOOSE f \in Settles(S) : greatest(f)
  BY DEF LastOf
<1> HIDE DEF greatest
<1>7. LastOf(S) = ids[n]
  BY <1>4, <1>5, <1>6
<1>8. ids \in Seq(FrameIds) /\ Len(ids) = n
  <2>1. ids \in [1 .. n -> FrameIds]
    BY <1>1, <1>2
  <2>2. QED
    BY <1>1, <2>1
<1>9. QED
  BY <1>3, <1>7, <1>8

(* The diagnostic kept after retiring S is of a frame of S, or the old one. *)
LEMMA LastOfType ==
  ASSUME HistoryType, NEW S \in SUBSET FrameIds, HistoriesAfter(S) # {}
  PROVE  LastOf(S) \in FrameIds \cup {None}
<1>1. CASE Settles(S) = {}
  BY <1>1 DEF LastOf, HistoryType
<1>2. CASE Settles(S) # {}
  <2>1. PICK ids \in Ascending(Settles(S)) : TRUE
    BY DEF HistoriesAfter
  <2>2. /\ ids \in Seq(FrameIds) /\ Len(ids) \in 1 .. Len(ids)
        /\ LastOf(S) = ids[Len(ids)]
    BY <1>2, GreatestSettled
  <2>3. QED
    BY <2>2
<1>3. QED
  BY <1>1, <1>2

(* A chunk that leaves its frame unfinished. *)
LEMMA KeepSound ==
  ASSUME IInv, NEW c \in Chunk, Advance(c),
         NEW history \in HistoriesAfter(OlderThan(c.frame)),
         NEW fr, FrameSound(fr), c.frame \in Range(history) => fr = frames[c.frame],
         Keep(c, history, fr)
  PROVE  IInv'
<1> DEFINE older == OlderThan(c.frame)
<1>1. /\ c.frame \in FrameIds /\ ~IsLate(c.frame) /\ newestFrameId' = c.frame
      /\ Replace(older, c.frame, fr)
      /\ settledOrder' = history /\ lastDiscarded' = LastOf(older)
      /\ result' = Discarding(older)
  BY ChunkFacts DEF Advance, Keep
<1>2. older \subseteq FrameIds
  BY <1>1, NotNewerThanItself
<1>3. HistoryType /\ HistorySound /\ \A f \in FrameIds : FrameSound(frames[f])
  BY DEF IInv
<1>4. /\ (frames \in [FrameIds -> Frame])' /\ \A f \in FrameIds : FrameSound(frames'[f])
      /\ ImagesOnlyAtNewest' /\ NewestType' /\ frames'[c.frame] = fr
      /\ \A f \in older : frames'[f] = NoFrame
      /\ \A f \in FrameIds \ older : f # c.frame => frames'[f] = frames[f]
  BY <1>1, ReplacedFrames
<1>5. /\ history \in Seq(FrameIds) /\ Len(history) <= HistorySize /\ IsInjective(history)
      /\ Range(history) \subseteq Range(settledOrder) \cup older
  BY <1>2, <1>3, HistoryFacts
<1>6. HistoryType' /\ HistorySound'
  BY <1>1, <1>2, <1>3, <1>5, LastOfType DEF HistoryType, HistorySound
<1>7. SettledFrameReleased'
  <2> SUFFICES ASSUME NEW f \in Range(history)
               PROVE  ~HasPartial(frames'[f]) /\ frames'[f].metadata = None /\ ~frames'[f].started
    BY <1>1 DEF SettledFrameReleased
  <2>1. f \in FrameIds
    BY <1>5 DEF Range
  <2>2. CASE f \in older
    BY <1>4, <2>2, NoFrameSound DEF Holds
  <2>3. CASE f \notin older
    <3>1. frames'[f] = frames[f]
      BY <1>4, <2>1, <2>3
    <3>2. f \in Range(settledOrder)
      BY <1>5, <2>3
    <3>3. QED
      BY <3>1, <3>2 DEF IInv, SettledFrameReleased
  <2>4. QED
    BY <2>2, <2>3
<1>8. ResultSound'
  <2>1. \A set \in Partials(older) : \A k \in Cameras :
          IF k \in set.mask THEN IsWhole(set.images[k]) ELSE set.images[k] = <<>>
    BY <1>2, <1>3, DiscardingSound
  <2>2. Discarding(older) \in Result
    BY <1>2, <1>3, DiscardingSound
  <2>3. Delivered(Discarding(older)) = Partials(older)
    BY DEF Delivered, Discarding
  <2>4. QED
    BY <1>1, <2>1, <2>2, <2>3 DEF ResultSound
<1>9. QED
  BY <1>4, <1>6, <1>7, <1>8 DEF IInv

LEMMA NoResultSound ==
  ASSUME result' = NoResult
  PROVE  ResultSound'
<1>1. NoResult \in Result /\ Delivered(NoResult) = {}
  BY DEF NoResult, Result, Delivered
<1>2. QED
  BY <1>1 DEF ResultSound

(* A completed frame set has the type of a frame set. *)
LEMMA FrameSetOfCompleted ==
  ASSUME NEW fr, FrameSound(fr), NEW f \in FrameIds, Completes(fr)
  PROVE  CompletedSet(f, fr) \in FrameSet
<1>1. /\ fr.ready \in [Cameras -> Seq(Piece)] /\ fr.metadata \in Metas \cup {None}
      /\ Expected(fr) = Ready(fr) /\ Ready(fr) \subseteq Cameras
  BY DEF FrameSound, Frame, Completes, Ready
<1>2. QED
  BY <1>1 DEF CompletedSet, FrameSet

(* A result that carries a completed frame is sound too.                       *)
LEMMA CompletedResult ==
  ASSUME NEW fr, FrameSound(fr), NEW f \in FrameIds, Completes(fr),
         NEW S \in SUBSET FrameIds, \A g \in S : FrameSound(frames[g])
  PROVE  LET r == [Discarding(S) EXCEPT !.completed = CompletedSet(f, fr)]
         IN  /\ r \in Result
             /\ Delivered(r) = Partials(S) \cup {CompletedSet(f, fr)}
             /\ r.discarded = Settles(S) /\ r.completed = CompletedSet(f, fr)
             /\ CompletedSet(f, fr).mask = Ready(fr) /\ CompletedSet(f, fr).frame = f
             /\ \A set \in Delivered(r) : \A c \in Cameras :
                  IF c \in set.mask THEN IsWhole(set.images[c]) ELSE set.images[c] = <<>>
<1> DEFINE set == CompletedSet(f, fr)
           r == [Discarding(S) EXCEPT !.completed = set]
<1>1. /\ fr.ready \in [Cameras -> Seq(Piece)] /\ fr.metadata \in Metas \cup {None}
      /\ Expected(fr) = Ready(fr) /\ Ready(fr) \subseteq Cameras
  BY DEF FrameSound, Frame, Completes, Ready
<1>2. /\ set \in FrameSet /\ set.mask = Ready(fr) /\ set.frame = f
      /\ set.images = fr.ready
  BY <1>1 DEF CompletedSet, FrameSet
<1>3. set # None
  BY <1>2, NoneAssumption
<1>4. \A c \in Cameras : IF c \in set.mask THEN IsWhole(set.images[c])
                                           ELSE set.images[c] = <<>>
  BY <1>2 DEF FrameSound, Ready
<1> HIDE DEF set
<1>5. Settles(S) \subseteq FrameIds /\ Partials(S) \subseteq FrameSet
  BY DiscardingSound DEF Discarding, Result
<1>6. /\ r = [completed |-> set, discarded |-> Settles(S), partial |-> Partials(S)]
  BY DEF Discarding
<1>7. r \in Result /\ Delivered(r) = Partials(S) \cup {set}
  BY <1>2, <1>3, <1>5, <1>6 DEF Result, Delivered
<1>8. \A t \in Partials(S) : \A c \in Cameras :
        IF c \in t.mask THEN IsWhole(t.images[c]) ELSE t.images[c] = <<>>
  BY DiscardingSound
<1>9. QED
  BY <1>2, <1>4, <1>6, <1>7, <1>8 DEF set

(* A chunk that completes its frame. *)
LEMMA CompletingSound ==
  ASSUME IInv, NEW c \in Chunk, Advance(c),
         NEW history \in HistoriesAfter(OlderThan(c.frame)), c.frame \notin Range(history),
         NEW fr, FrameSound(fr), Completes(fr),
         Replace(OlderThan(c.frame), c.frame, Leftover(fr)),
         settledOrder' = Recent(Append(history, c.frame)),
         lastDiscarded' = None,
         result' = [Discarding(OlderThan(c.frame)) EXCEPT
                        !.completed = CompletedSet(c.frame, fr)]
  PROVE  IInv'
<1> DEFINE older == OlderThan(c.frame)
           left == Leftover(fr)
<1>1. c.frame \in FrameIds /\ ~IsLate(c.frame) /\ newestFrameId' = c.frame
  BY ChunkFacts DEF Advance
<1>2. older \subseteq FrameIds
  BY <1>1, NotNewerThanItself
<1>3. HistoryType /\ HistorySound /\ \A f \in FrameIds : FrameSound(frames[f])
  BY DEF IInv
<1>4. FrameSound(left) /\ ~HasPartial(left) /\ left.metadata = None /\ ~left.started
  BY LeftoverSound
<1> HIDE DEF left
<1>5. /\ (frames \in [FrameIds -> Frame])' /\ \A f \in FrameIds : FrameSound(frames'[f])
      /\ ImagesOnlyAtNewest' /\ NewestType' /\ frames'[c.frame] = left
      /\ \A f \in older : frames'[f] = NoFrame
      /\ \A f \in FrameIds \ older : f # c.frame => frames'[f] = frames[f]
  BY <1>1, <1>4, ReplacedFrames DEF left
<1>6. /\ history \in Seq(FrameIds) /\ Len(history) <= HistorySize /\ IsInjective(history)
      /\ Range(history) \subseteq Range(settledOrder) \cup older
  BY <1>2, <1>3, HistoryFacts
<1>7. /\ settledOrder' \in Seq(FrameIds) /\ Len(settledOrder') <= HistorySize
      /\ IsInjective(settledOrder')
      /\ Range(settledOrder') \subseteq Range(history) \cup {c.frame}
  BY <1>1, <1>6, AppendedHistory
<1>8. HistoryType' /\ HistorySound'
  BY <1>7 DEF HistoryType, HistorySound
<1>9. SettledFrameReleased'
  <2> SUFFICES ASSUME NEW f \in Range(settledOrder')
               PROVE  ~HasPartial(frames'[f]) /\ frames'[f].metadata = None /\ ~frames'[f].started
    BY DEF SettledFrameReleased
  <2>1. f \in FrameIds
    BY <1>7 DEF Range
  <2>2. CASE f \in older
    BY <1>5, <2>2, NoFrameSound DEF Holds
  <2>3. CASE f = c.frame
    BY <1>4, <1>5, <2>3
  <2>4. CASE f \notin older /\ f # c.frame
    <3>1. frames'[f] = frames[f]
      BY <1>5, <2>1, <2>4
    <3>2. f \in Range(settledOrder)
      BY <1>6, <1>7, <2>4
    <3>3. QED
      BY <3>1, <3>2 DEF IInv, SettledFrameReleased
  <2>5. QED
    BY <2>2, <2>3, <2>4
<1>10. ResultSound'
  BY <1>1, <1>2, <1>3, CompletedResult DEF ResultSound
<1>11. QED
  BY <1>5, <1>8, <1>9, <1>10 DEF IInv

LEMMA IngestSound ==
  ASSUME IInv, NEW c \in Chunk, Ingest(c)
  PROVE  IInv'
<1> DEFINE id == c.frame
           fr == frames[id]
<1>1. /\ id \in FrameIds /\ FrameSound(fr) /\ c.camera \in Cameras \cup {None}
      /\ ~BadEnvelope(c) => c.camera \in Cameras /\ c.image # None
  BY ChunkFacts DEF IInv
<1>2. FrameSound(Started(fr)) /\ Started(fr).started
  <2>1. fr \in Frame
    BY <1>1 DEF FrameSound
  <2>2. QED
    BY <1>1, <2>1, StartedSound DEF Frame
<1>3. FrameSound(Reject(Started(fr), c.camera))
  BY <1>1, <1>2, RejectSound
<1>4. CASE IngestLate(c)
  <2>1. UNCHANGED <<frames, newestFrameId, settledOrder, lastDiscarded>> /\ result' = NoResult
    BY <1>4 DEF IngestLate
  <2>2. ResultSound'
    BY <2>1, NoResultSound
  <2>3. QED
    BY <2>1, <2>2 DEF IInv, NewestType, HistoryType, HistorySound, SettledFrameReleased,
                      ImagesOnlyAtNewest
<1>5. ASSUME NEW history \in HistoriesAfter(OlderThan(id)),
             \/ IngestSettled(c, history)
             \/ IngestInvalid(c, history)
             \/ IngestIgnored(c, history)
             \/ IngestDiscontinuous(c, history)
             \/ IngestPiece(c, history)
             \/ IngestDuplicateImage(c, history)
             \/ IngestImage(c, history)
      PROVE  IInv'
  <2>1. ASSUME Accepts(c, history)
        PROVE  /\ c.camera \in Cameras /\ c.image # None /\ c.camera \notin fr.invalid
               /\ c.offset = Len(fr.pending[c.camera])
               /\ fr.pending[c.camera] # <<>> => fr.pending[c.camera][1].image = c.image
               /\ Advance(c) /\ id \notin Range(history)
    BY <1>1, <2>1 DEF Accepts, Discontinuous
  <2>2. CASE IngestSettled(c, history)
    BY <1>1, <2>2, KeepSound DEF IngestSettled
  <2>3. CASE IngestInvalid(c, history)
    BY <1>3, <2>3, KeepSound DEF IngestInvalid
  <2>4. CASE IngestIgnored(c, history)
    BY <1>2, <2>4, KeepSound DEF IngestIgnored
  <2>5. CASE IngestDiscontinuous(c, history)
    BY <1>3, <2>5, KeepSound DEF IngestDiscontinuous
  <2>6. CASE IngestPiece(c, history)
    <3>1. FrameSound(Extended(fr, c)) /\ Keep(c, history, Extended(fr, c))
      BY <1>1, <2>1, <2>6, PieceSound DEF IngestPiece
    <3>2. QED
      BY <2>1, <2>6, <3>1, KeepSound DEF IngestPiece
  <2>7. CASE IngestDuplicateImage(c, history)
    <3> DEFINE new == Reject(Extended(fr, c), c.camera)
    <3>1. FrameSound(new) /\ Keep(c, history, new)
      BY <1>1, <2>1, <2>7, DuplicateSound DEF IngestDuplicateImage
    <3>2. QED
      BY <2>1, <2>7, <3>1, KeepSound DEF IngestDuplicateImage
  <2>8. CASE IngestImage(c, history)
    <3> DEFINE new == Finished(Extended(fr, c), c)
    <3>1. /\ Accepts(c, history) /\ c.offset + 1 = ImageChunks
          /\ \/ Keep(c, history, new)
             \/ /\ Completes(new)
                /\ Replace(OlderThan(id), id, Leftover(new))
                /\ settledOrder' = Recent(Append(history, id))
                /\ lastDiscarded' = None
                /\ result' = [Discarding(OlderThan(id)) EXCEPT
                                  !.completed = CompletedSet(id, new)]
      BY <2>8 DEF IngestImage
    <3>2. FrameSound(new)
      BY <1>1, <2>1, <3>1, ImageSound
    <3> HIDE DEF new
    <3>3. CASE Keep(c, history, new)
      BY <2>1, <3>1, <3>2, <3>3, KeepSound
    <3>4. CASE ~Keep(c, history, new)
      BY <2>1, <3>1, <3>2, <3>4, CompletingSound
    <3>5. QED
      BY <3>3, <3>4
  <2>9. QED
    BY <1>5, <2>2, <2>3, <2>4, <2>5, <2>6, <2>7, <2>8
<1>6. QED
  BY <1>4, <1>5 DEF Ingest

-----------------------------------------------------------------------------
(* Metadata, expiry, the clock *)

(* Metadata for a frame in progress: only that frame gains anything.           *)
LEMMA MetadataSound ==
  ASSUME IInv, NEW f \in FrameIds, NEW m \in Metas, AddMetadata(f, m)
  PROVE  IInv'
<1> DEFINE old == frames[f]
           fr == [Started(old) EXCEPT !.metadata = m]
<1>1. /\ frames \in [FrameIds -> Frame] /\ \A g \in FrameIds : FrameSound(frames[g])
      /\ HistoryType /\ HistorySound
  BY DEF IInv
<1>2. /\ FrameSound(fr) /\ Ready(fr) = Ready(old) /\ Pending(fr) = Pending(old)
      /\ fr.invalid = old.invalid /\ fr.started
  <2>1. old \in Frame /\ FrameSound(old) /\ FrameSound(Started(old))
    BY <1>1, StartedSound
  <2>2. /\ fr \in Frame /\ fr.started /\ fr.ready = old.ready /\ fr.pending = old.pending
        /\ fr.invalid = old.invalid
    BY <2>1 DEF Started, Frame
  <2> HIDE DEF fr, old
  <2>3. Ready(fr) = Ready(old) /\ Pending(fr) = Pending(old)
    BY <2>2 DEF Ready, Pending
  <2>4. QED
    BY <2>1, <2>2, <2>3 DEF FrameSound
<1>3. /\ FrameSound(Leftover(fr)) /\ ~HasPartial(Leftover(fr))
      /\ Leftover(fr).metadata = None /\ ~Leftover(fr).started
      /\ Ready(Leftover(fr)) = {} /\ Pending(Leftover(fr)) = Pending(fr)
  BY <1>2, LeftoverSound
<1> HIDE DEF fr
<1>4. ASSUME NEW new, FrameSound(new), Pending(new) = Pending(old),
             HasPartial(new) => HasPartial(old),
             frames' = Capped([frames EXCEPT ![f] = new]), UNCHANGED newestFrameId
      PROVE  /\ (frames \in [FrameIds -> Frame])' /\ \A g \in FrameIds : FrameSound(frames'[g])
             /\ ImagesOnlyAtNewest'
             /\ \A g \in FrameIds :
                  LET was == IF g = f THEN new ELSE frames[g]
                  IN  /\ Ready(frames'[g]) = Ready(was) /\ frames'[g].invalid = was.invalid
                      /\ frames'[g].started = was.started
                      /\ frames'[g].metadata \in {was.metadata, None}
  <2> DEFINE fs == [frames EXCEPT ![f] = new]
  <2>1. /\ fs \in [FrameIds -> Frame] /\ \A g \in FrameIds : FrameSound(fs[g])
        /\ \A g \in FrameIds : fs[g] = IF g = f THEN new ELSE frames[g]
    BY <1>1, <1>4 DEF FrameSound
  <2>2. frames' = Capped(fs)
    BY <1>4
  <2> HIDE DEF fs
  <2>3. /\ frames' \in [FrameIds -> Frame]
        /\ \A g \in FrameIds :
             /\ FrameSound(frames'[g])
             /\ Ready(frames'[g]) = Ready(fs[g]) /\ Pending(frames'[g]) = Pending(fs[g])
             /\ frames'[g].invalid = fs[g].invalid /\ frames'[g].started = fs[g].started
             /\ frames'[g].metadata \in {fs[g].metadata, None}
    BY <2>1, <2>2, CappedSound
  <2>4. ASSUME NEW g \in FrameIds, Pending(frames'[g]) # {} \/ HasPartial(frames'[g])
        PROVE  g = newestFrameId'
    <3>1. Pending(frames[g]) # {} \/ HasPartial(frames[g])
      BY <1>4, <2>1, <2>3, <2>4 DEF HasPartial
    <3>2. QED
      BY <1>4, <3>1 DEF IInv, ImagesOnlyAtNewest
  <2>5. QED
    BY <2>1, <2>3, <2>4 DEF ImagesOnlyAtNewest
<1>5. CASE MetadataRefused(f, m)
  <2>1. UNCHANGED <<frames, newestFrameId, settledOrder, lastDiscarded>> /\ result' = NoResult
    BY <1>5 DEF MetadataRefused
  <2>2. QED
    BY <2>1, NoResultSound DEF IInv, NewestType, HistoryType, HistorySound,
                               SettledFrameReleased, ImagesOnlyAtNewest
<1>6. CASE MetadataKept(f, m)
  <2>1. /\ f \notin Range(settledOrder) /\ frames' = Capped([frames EXCEPT ![f] = fr])
        /\ UNCHANGED <<newestFrameId, settledOrder, lastDiscarded>> /\ result' = NoResult
    BY <1>6 DEF MetadataKept, RefusesMetadata, fr
  <2>2. HasPartial(fr) => HasPartial(old)
    BY <1>2 DEF HasPartial
  <2>3. /\ (frames \in [FrameIds -> Frame])' /\ \A g \in FrameIds : FrameSound(frames'[g])
        /\ ImagesOnlyAtNewest'
        /\ \A g \in FrameIds \ {f} :
             /\ Ready(frames'[g]) = Ready(frames[g]) /\ frames'[g].invalid = frames[g].invalid
             /\ frames'[g].started = frames[g].started
             /\ frames'[g].metadata \in {frames[g].metadata, None}
    BY <1>2, <1>4, <2>1, <2>2
  <2>4. SettledFrameReleased'
    <3> SUFFICES ASSUME NEW g \in Range(settledOrder)
                 PROVE  /\ ~HasPartial(frames'[g]) /\ frames'[g].metadata = None
                        /\ ~frames'[g].started
      BY <2>1 DEF SettledFrameReleased
    <3>1. g \in FrameIds \ {f}
      BY <1>1, <2>1 DEF HistoryType, Range
    <3>2. ~HasPartial(frames[g]) /\ frames[g].metadata = None /\ ~frames[g].started
      BY DEF IInv, SettledFrameReleased
    <3>3. QED
      BY <2>3, <3>1, <3>2 DEF HasPartial
  <2>5. QED
    BY <2>1, <2>3, <2>4, NoResultSound DEF IInv, NewestType, HistoryType, HistorySound
<1>7. CASE MetadataCompletes(f, m)
  <2>1. /\ f \notin Range(settledOrder) /\ Completes(fr)
        /\ frames' = Capped([frames EXCEPT ![f] = Leftover(fr)])
        /\ settledOrder' = Recent(Append(settledOrder, f)) /\ lastDiscarded' = None
        /\ result' = [NoResult EXCEPT !.completed = CompletedSet(f, fr)]
        /\ UNCHANGED newestFrameId
    BY <1>7 DEF MetadataCompletes, RefusesMetadata, fr
  <2>2. /\ (frames \in [FrameIds -> Frame])' /\ \A g \in FrameIds : FrameSound(frames'[g])
        /\ ImagesOnlyAtNewest'
        /\ \A g \in FrameIds :
             LET was == IF g = f THEN Leftover(fr) ELSE frames[g]
             IN  /\ Ready(frames'[g]) = Ready(was) /\ frames'[g].invalid = was.invalid
                 /\ frames'[g].started = was.started
                 /\ frames'[g].metadata \in {was.metadata, None}
    BY <1>2, <1>3, <1>4, <2>1
  <2>3. /\ settledOrder' \in Seq(FrameIds) /\ Len(settledOrder') <= HistorySize
        /\ IsInjective(settledOrder')
        /\ Range(settledOrder') \subseteq Range(settledOrder) \cup {f}
    BY <1>1, <2>1, AppendedHistory DEF HistoryType, HistorySound
  <2>4. SettledFrameReleased'
    <3> SUFFICES ASSUME NEW g \in Range(settledOrder')
                 PROVE  /\ ~HasPartial(frames'[g]) /\ frames'[g].metadata = None
                        /\ ~frames'[g].started
      BY DEF SettledFrameReleased
    <3>1. g \in FrameIds
      BY <2>3 DEF Range
    <3>2. CASE g = f
      BY <1>3, <2>2, <3>1, <3>2 DEF HasPartial
    <3>3. CASE g # f
      <4>1. ~HasPartial(frames[g]) /\ frames[g].metadata = None /\ ~frames[g].started
        BY <2>3, <3>3 DEF IInv, SettledFrameReleased
      <4>2. QED
        BY <2>2, <3>1, <3>3, <4>1 DEF HasPartial
    <3>4. QED
      BY <3>2, <3>3
  <2>5. ResultSound'
    <3> DEFINE r == [Discarding({}) EXCEPT !.completed = CompletedSet(f, fr)]
    <3>1. r \in Result /\ \A set \in Delivered(r) : \A c \in Cameras :
                            IF c \in set.mask THEN IsWhole(set.images[c]) ELSE set.images[c] = <<>>
      BY <1>2, <2>1, CompletedResult
    <3>2. NoResult = Discarding({})
      BY DEF NoResult, Discarding, Settles, Partials
    <3>3. QED
      BY <2>1, <3>1, <3>2 DEF ResultSound
  <2>6. QED
    BY <2>1, <2>2, <2>3, <2>4, <2>5 DEF IInv, NewestType, HistoryType, HistorySound
<1>8. QED
  BY <1>5, <1>6, <1>7 DEF AddMetadata

LEMMA ExpireSound ==
  ASSUME IInv, Expire
  PROVE  IInv'
<1>1. PICK history \in HistoriesAfter(Overdue) :
        /\ frames' = [f \in FrameIds |-> IF f \in Overdue THEN NoFrame ELSE frames[f]]
        /\ settledOrder' = history
        /\ lastDiscarded' = LastOf(Overdue)
        /\ result' = Discarding(Overdue)
        /\ UNCHANGED newestFrameId
  BY DEF Expire
<1>2. /\ Overdue \subseteq FrameIds /\ HistoryType /\ HistorySound
      /\ frames \in [FrameIds -> Frame] /\ \A f \in FrameIds : FrameSound(frames[f])
  BY DEF IInv, Overdue
<1>3. /\ (frames \in [FrameIds -> Frame])' /\ \A f \in FrameIds : FrameSound(frames'[f])
  BY <1>1, <1>2, NoFrameSound DEF FrameSound
<1>4. /\ history \in Seq(FrameIds) /\ Len(history) <= HistorySize /\ IsInjective(history)
      /\ Range(history) \subseteq Range(settledOrder) \cup Overdue
  BY <1>2, HistoryFacts
<1>5. HistoryType' /\ HistorySound'
  BY <1>1, <1>2, <1>4, LastOfType DEF HistoryType, HistorySound
<1>6. SettledFrameReleased'
  <2> SUFFICES ASSUME NEW f \in Range(history)
               PROVE  ~HasPartial(frames'[f]) /\ frames'[f].metadata = None /\ ~frames'[f].started
    BY <1>1 DEF SettledFrameReleased
  <2>1. f \in FrameIds
    BY <1>4 DEF Range
  <2>2. CASE f \in Overdue
    BY <1>1, <2>1, <2>2, NoFrameSound DEF Holds
  <2>3. CASE f \notin Overdue
    BY <1>1, <1>4, <2>1, <2>3 DEF IInv, SettledFrameReleased
  <2>4. QED
    BY <2>2, <2>3
<1>7. ImagesOnlyAtNewest'
  <2> SUFFICES ASSUME NEW f \in FrameIds, Pending(frames'[f]) # {} \/ HasPartial(frames'[f])
               PROVE  f = newestFrameId
    BY <1>1 DEF ImagesOnlyAtNewest
  <2>1. frames'[f] = frames[f]
    BY <1>1, NoFrameSound DEF Holds
  <2>2. QED
    BY <2>1 DEF IInv, ImagesOnlyAtNewest
<1>8. ResultSound'
  <2>1. Discarding(Overdue) \in Result /\ \A set \in Partials(Overdue) : \A c \in Cameras :
          IF c \in set.mask THEN IsWhole(set.images[c]) ELSE set.images[c] = <<>>
    BY <1>2, DiscardingSound
  <2>2. Delivered(Discarding(Overdue)) = Partials(Overdue)
    BY DEF Delivered, Discarding
  <2>3. QED
    BY <1>1, <2>1, <2>2 DEF ResultSound
<1>9. QED
  BY <1>1, <1>3, <1>5, <1>6, <1>7, <1>8 DEF IInv, NewestType

LEMMA ClockSound ==
  ASSUME IInv, SecondPasses
  PROVE  IInv'
<1> DEFINE later(f) == [frames[f] EXCEPT !.overdue = frames[f].started]
<1>1. ASSUME NEW f \in FrameIds
      PROVE  /\ FrameSound(later(f)) /\ Ready(later(f)) = Ready(frames[f])
             /\ Pending(later(f)) = Pending(frames[f]) /\ later(f).started = frames[f].started
             /\ later(f).invalid = frames[f].invalid /\ later(f).metadata = frames[f].metadata
  <2>1. frames[f] \in Frame /\ FrameSound(frames[f])
    BY DEF IInv
  <2>2. /\ later(f) \in Frame /\ later(f).ready = frames[f].ready
        /\ later(f).pending = frames[f].pending /\ later(f).started = frames[f].started
        /\ later(f).invalid = frames[f].invalid /\ later(f).metadata = frames[f].metadata
    BY <2>1 DEF Frame
  <2> HIDE DEF later
  <2>3. Ready(later(f)) = Ready(frames[f]) /\ Pending(later(f)) = Pending(frames[f])
    BY <2>2 DEF Ready, Pending
  <2>4. QED
    BY <2>1, <2>2, <2>3 DEF FrameSound, HasPartial
<1>2. /\ frames' = [f \in FrameIds |-> later(f)] /\ result' = NoResult
      /\ UNCHANGED <<newestFrameId, settledOrder, lastDiscarded>>
  BY DEF SecondPasses
<1> HIDE DEF later
<1>3. (frames \in [FrameIds -> Frame])' /\ \A f \in FrameIds : FrameSound(frames'[f])
  BY <1>1, <1>2 DEF FrameSound
<1>4. \A f \in FrameIds : /\ HasPartial(frames'[f]) <=> HasPartial(frames[f])
                          /\ Pending(frames'[f]) = Pending(frames[f])
                          /\ frames'[f].metadata = frames[f].metadata
                          /\ frames'[f].started = frames[f].started
  BY <1>1, <1>2 DEF HasPartial
<1>5. SettledFrameReleased'
  <2>1. Range(settledOrder) \subseteq FrameIds
    BY DEF IInv, HistoryType, Range
  <2>2. QED
    BY <1>2, <1>4, <2>1 DEF IInv, SettledFrameReleased
<1>6. ImagesOnlyAtNewest'
  BY <1>2, <1>4 DEF IInv, ImagesOnlyAtNewest
<1>7. QED
  BY <1>2, <1>3, <1>5, <1>6, NoResultSound DEF IInv, NewestType, HistoryType, HistorySound

LEMMA EmptySound ==
  ASSUME frames' = [f \in FrameIds |-> NoFrame], newestFrameId' = None,
         settledOrder' = <<>>, lastDiscarded' = None, result' = NoResult
  PROVE  IInv'
<1>1. (frames \in [FrameIds -> Frame])' /\ \A f \in FrameIds : FrameSound(frames'[f])
  BY NoFrameSound DEF FrameSound
<1>2. Range(settledOrder') = {} /\ HistoryType' /\ HistorySound' /\ NewestType'
  BY LimitsAssumption DEF HistoryType, HistorySound, NewestType, Range, IsInjective
<1>3. SettledFrameReleased' /\ ImagesOnlyAtNewest'
  BY <1>2, NoFrameSound DEF SettledFrameReleased, ImagesOnlyAtNewest, Holds
<1>4. QED
  BY <1>1, <1>2, <1>3, NoResultSound DEF IInv

-----------------------------------------------------------------------------
(* The theorems *)

LEMMA InitSound == Init => IInv
<1> SUFFICES ASSUME Init PROVE IInv
  OBVIOUS
<1>1. frames \in [FrameIds -> Frame] /\ \A f \in FrameIds : FrameSound(frames[f])
  BY NoFrameSound DEF Init, FrameSound
<1>2. Range(settledOrder) = {} /\ HistoryType /\ HistorySound /\ NewestType
  BY LimitsAssumption DEF Init, HistoryType, HistorySound, NewestType, Range, IsInjective
<1>3. SettledFrameReleased /\ ImagesOnlyAtNewest
  BY <1>2, NoFrameSound DEF Init, SettledFrameReleased, ImagesOnlyAtNewest, Holds
<1>4. ResultSound
  <2>1. NoResult \in Result /\ Delivered(NoResult) = {}
    BY DEF NoResult, Result, Delivered
  <2>2. QED
    BY <2>1 DEF Init, ResultSound
<1>5. QED
  BY <1>1, <1>2, <1>3, <1>4 DEF IInv

(* Every call of the assembler, whatever arrives in whatever order, preserves  *)
(* the inductive invariant.                                                    *)
LEMMA NextSound == IInv /\ [Next]_vars => IInv'
<1> SUFFICES ASSUME IInv, [Next]_vars PROVE IInv'
  OBVIOUS
<1>1. CASE \E c \in Chunk : Ingest(c)
  BY <1>1, IngestSound
<1>2. CASE \E f \in FrameIds, m \in Metas : AddMetadata(f, m)
  BY <1>2, MetadataSound
<1>3. CASE Expire
  BY <1>3, ExpireSound
<1>4. CASE Reset
  BY <1>4, EmptySound DEF Reset
<1>5. CASE SecondPasses
  BY <1>5, ClockSound
<1>6. CASE UNCHANGED vars
  BY <1>6 DEF vars, IInv, NewestType, HistoryType, HistorySound, SettledFrameReleased,
              ImagesOnlyAtNewest, ResultSound
<1>7. QED
  BY <1>1, <1>2, <1>3, <1>4, <1>5, <1>6 DEF Next

(* The inductive invariant holds in every reachable state.                     *)
THEOREM Invariant == Spec => []IInv
<1>1. QED
  BY InitSound, NextSound, PTL DEF Spec

(* The state keeps its type: every lane, frame set and id is what the maps of  *)
(* the class may hold, and a malformed camera id never becomes a slot.         *)
THEOREM TypeCorrect == Spec => []TypeOK
<1>1. IInv => TypeOK
  BY DEF IInv, TypeOK, NewestType, HistoryType, ResultSound
<1>2. QED
  BY <1>1, Invariant, PTL

(* No caller ever receives, and the assembler never holds as complete, an image *)
(* with a hole, a repeated piece or pieces of two images.                       *)
THEOREM ImagesWhole == Spec => []DeliveredWhole
<1>1. IInv => DeliveredWhole
  BY DEF IInv, FrameSound, ResultSound, DeliveredWhole
<1>2. QED
  BY <1>1, Invariant, PTL

(* A frame the history names holds nothing that could be delivered or expired. *)
THEOREM SettledReleased == Spec => []SettledFrameReleased
<1>1. IInv => SettledFrameReleased
  BY DEF IInv
<1>2. QED
  BY <1>1, Invariant, PTL

(* Image data is held for the newest frame id only.                            *)
THEOREM OneFrameOfImages == Spec => []ImagesOnlyAtNewest
<1>1. IInv => ImagesOnlyAtNewest
  BY DEF IInv
<1>2. QED
  BY <1>1, Invariant, PTL

(* Whatever holds credit is on the inactivity timer.                           *)
THEOREM TimerComplete == Spec => []TimerCoversWork
<1>1. IInv => TimerCoversWork
  BY DEF IInv, FrameSound, TimerCoversWork
<1>2. QED
  BY <1>1, Invariant, PTL

(* The settled history holds at most HistorySize ids, each once, also when one *)
(* call retires more frames than the history holds.                            *)
THEOREM HistoryCorrect == Spec => []HistorySound
<1>1. IInv => HistorySound
  BY DEF IInv
<1>2. QED
  BY <1>1, Invariant, PTL

-----------------------------------------------------------------------------
(* What no call may do: deliver a settled frame again, drop a good image, or   *)
(* stop a frame's timer without telling the caller.  All three follow from the  *)
(* inductive invariant and from Progress, which says how a call may change the   *)
(* record of the frame it is about.                                               *)

(* A frame's timer keeps running and its images stay, unless their slot fails. *)
Progress(old, new) == /\ old.started => new.started
                      /\ Ready(old) \subseteq Ready(new) \cup new.invalid

(* The bodies of DeliveredOnce, ImagesSurvive and NoSilentLoss, without Reset. *)
NothingTwice == \A set \in Delivered(result') : set.frame \notin Range(settledOrder)
NothingLost ==
  \A f \in FrameIds, c \in Cameras :
    c \in Ready(frames[f]) \ Ready(frames'[f]) =>
      \/ c \in frames'[f].invalid
      \/ \E set \in Delivered(result') : set.frame = f /\ c \in set.mask
NothingSilent ==
  \A f \in FrameIds : frames[f].started /\ ~frames'[f].started => f \in Reported(result')

Guarantee == NothingTwice /\ NothingLost /\ NothingSilent

-----------------------------------------------------------------------------
(* How each move changes its frame *)

LEMMA RejectProgress ==
  ASSUME NEW fr \in Frame, NEW camera \in Cameras \cup {None}
  PROVE  Progress(fr, Reject(fr, camera))
<1>1. CASE camera = None
  BY <1>1 DEF Reject, Progress
<1>2. CASE camera \in Cameras
  <2> DEFINE ready == Cleared(fr.ready, camera)
             pending == Cleared(fr.pending, camera)
             new == [fr EXCEPT !.invalid = @ \cup {camera}, !.ready = ready,
                               !.pending = pending]
  <2>1. Reject(fr, camera) = new
    BY <1>2, CamerasAssumption DEF Reject
  <2>2. /\ ready \in [Cameras -> Seq(Piece)] /\ pending \in [Cameras -> Seq(Piece)]
        /\ \A k \in Cameras : k # camera => ready[k] = fr.ready[k]
    BY <1>2 DEF Cleared, Frame
  <2> HIDE DEF ready, pending
  <2>3. new.started = fr.started /\ new.ready = ready /\ new.invalid = fr.invalid \cup {camera}
    BY <1>2, <2>2 DEF Frame
  <2> HIDE DEF new
  <2>4. Ready(fr) \subseteq Ready(new) \cup {camera}
    BY <2>2, <2>3 DEF Ready
  <2>5. QED
    BY <2>1, <2>3, <2>4 DEF Progress
<1>3. QED
  BY <1>1, <1>2

LEMMA ProgressTransitive ==
  ASSUME NEW a, NEW b, NEW d, Progress(a, b), Progress(b, d), b.invalid \subseteq d.invalid
  PROVE  Progress(a, d)
BY DEF Progress

LEMMA RejectKeepsInvalid ==
  ASSUME NEW fr \in Frame, NEW camera \in Cameras \cup {None}
  PROVE  fr.invalid \subseteq Reject(fr, camera).invalid
BY CamerasAssumption DEF Reject, Frame

-----------------------------------------------------------------------------
(* Retired frames *)

(* What retiring S reports: nothing settled is delivered, every image of S is, *)
(* and every frame of S that was timed is listed.                              *)
LEMMA RetiredReport ==
  ASSUME IInv, NEW S \in SUBSET FrameIds
  PROVE  /\ \A set \in Partials(S) : set.frame \notin Range(settledOrder)
         /\ \A f \in S, c \in Cameras :
              c \in Ready(frames[f]) => \E set \in Partials(S) : set.frame = f /\ c \in set.mask
         /\ \A f \in S : frames[f].started => f \in Settles(S)
<1>1. \A f \in FrameIds : FrameSound(frames[f])
  BY DEF IInv
<1>2. /\ \A set \in Partials(S) : set.frame \in S /\ set.mask = Ready(frames[set.frame])
                                  /\ set.mask # {}
      /\ \A f \in S : Ready(frames[f]) # {} => Survivors(f) \in Partials(S)
  BY <1>1, DiscardingSound
<1>3. \A f \in Range(settledOrder) : ~HasPartial(frames[f]) /\ ~frames[f].started
  BY DEF IInv, SettledFrameReleased
<1>4. \A set \in Partials(S) : set.frame \notin Range(settledOrder)
  BY <1>2, <1>3 DEF HasPartial
<1>5. ASSUME NEW f \in S, NEW c \in Cameras, c \in Ready(frames[f])
      PROVE  \E set \in Partials(S) : set.frame = f /\ c \in set.mask
  <2>1. Survivors(f) \in Partials(S) /\ Survivors(f).frame = f
        /\ Survivors(f).mask = Ready(frames[f])
    BY <1>1, <1>2, <1>5, SurvivorsSound
  <2>2. QED
    BY <1>5, <2>1
<1>6. \A f \in S : frames[f].started => f \in Settles(S)
  BY <1>3 DEF Settles
<1>7. QED
  BY <1>4, <1>5, <1>6

LEMMA DiscardingReport ==
  ASSUME NEW S
  PROVE  Delivered(Discarding(S)) = Partials(S) /\ Reported(Discarding(S)) = Settles(S)
BY DEF Delivered, Reported, Discarding

LEMMA KeepGuarantee ==
  ASSUME IInv, NEW c \in Chunk, Advance(c), NEW history, NEW fr, FrameSound(fr),
         Progress(frames[c.frame], fr), Keep(c, history, fr)
  PROVE  Guarantee
<1> DEFINE older == OlderThan(c.frame)
<1>1. /\ c.frame \in FrameIds /\ ~IsLate(c.frame) /\ newestFrameId' = c.frame
      /\ Replace(older, c.frame, fr) /\ result' = Discarding(older)
  BY ChunkFacts DEF Advance, Keep
<1>2. older \subseteq FrameIds
  BY <1>1, NotNewerThanItself
<1>3. /\ frames'[c.frame] = fr /\ \A f \in older : frames'[f] = NoFrame
      /\ \A f \in FrameIds \ older : f # c.frame => frames'[f] = frames[f]
  BY <1>1, ReplacedFrames
<1>4. Delivered(result') = Partials(older) /\ Reported(result') = Settles(older)
  BY <1>1, DiscardingReport
<1> HIDE DEF older
<1>5. NothingTwice
  BY <1>2, <1>4, RetiredReport DEF NothingTwice
<1>6. NothingLost
  <2> SUFFICES ASSUME NEW f \in FrameIds, NEW k \in Cameras,
                      k \in Ready(frames[f]) \ Ready(frames'[f])
               PROVE  \/ k \in frames'[f].invalid
                      \/ \E set \in Delivered(result') : set.frame = f /\ k \in set.mask
    BY DEF NothingLost
  <2>1. CASE f \in older
    BY <1>2, <1>4, <2>1, RetiredReport
  <2>2. CASE f \notin older
    BY <1>3, <2>2 DEF Progress
  <2>3. QED
    BY <2>1, <2>2
<1>7. NothingSilent
  <2> SUFFICES ASSUME NEW f \in FrameIds, frames[f].started, ~frames'[f].started
               PROVE  f \in Reported(result')
    BY DEF NothingSilent
  <2>1. CASE f \in older
    BY <1>2, <1>4, <2>1, RetiredReport
  <2>2. CASE f \notin older
    BY <1>3, <2>2 DEF Progress
  <2>3. QED
    BY <2>1, <2>2
<1>8. QED
  BY <1>5, <1>6, <1>7 DEF Guarantee

LEMMA CompletingGuarantee ==
  ASSUME IInv, NEW S \in SUBSET FrameIds, NEW id \in FrameIds \ S,
         id \notin Range(settledOrder),
         NEW fr, FrameSound(fr), Completes(fr), Progress(frames[id], fr),
         result' = [Discarding(S) EXCEPT !.completed = CompletedSet(id, fr)],
         \A f \in FrameIds \ (S \cup {id}) : /\ Ready(frames'[f]) = Ready(frames[f])
                                             /\ frames'[f].started = frames[f].started
  PROVE  Guarantee
<1> DEFINE set == CompletedSet(id, fr)
<1>1. /\ Delivered(result') = Partials(S) \cup {set}
      /\ result'.discarded = Settles(S) /\ result'.completed = set
      /\ set.mask = Ready(fr) /\ set.frame = id /\ result' \in Result
  <2>1. \A f \in S : FrameSound(frames[f])
    BY DEF IInv
  <2>2. QED
    BY <2>1, CompletedResult
<1> HIDE DEF set
<1>2. Settles(S) \cup {id} \subseteq Reported(result')
  <2>1. set # None
    <3>1. set \in FrameSet
      BY FrameSetOfCompleted DEF set
    <3>2. QED
      BY <3>1, NoneAssumption
  <2>2. QED
    BY <1>1, <2>1 DEF Reported
<1>3. NothingTwice
  BY <1>1, RetiredReport DEF NothingTwice
<1>4. NothingLost
  <2> SUFFICES ASSUME NEW f \in FrameIds, NEW k \in Cameras,
                      k \in Ready(frames[f]) \ Ready(frames'[f])
               PROVE  \E t \in Delivered(result') : t.frame = f /\ k \in t.mask
    BY DEF NothingLost
  <2>1. CASE f \in S
    BY <1>1, <2>1, RetiredReport
  <2>2. CASE f = id
    <3>1. k \in Ready(fr)
      BY <2>2 DEF Progress, Completes
    <3>2. QED
      BY <1>1, <2>2, <3>1
  <2>3. QED
    BY <2>1, <2>2
<1>5. NothingSilent
  <2> SUFFICES ASSUME NEW f \in FrameIds, frames[f].started, ~frames'[f].started
               PROVE  f \in Reported(result')
    BY DEF NothingSilent
  <2>1. f \in S \/ f = id
    OBVIOUS
  <2>2. QED
    BY <1>2, <2>1, RetiredReport
<1>6. QED
  BY <1>3, <1>4, <1>5 DEF Guarantee

-----------------------------------------------------------------------------
(* The calls *)

LEMMA IngestGuarantee ==
  ASSUME IInv, NEW c \in Chunk, Ingest(c)
  PROVE  Guarantee
<1> DEFINE id == c.frame
           fr == frames[id]
<1>1. /\ id \in FrameIds /\ fr \in Frame /\ FrameSound(fr) /\ c.camera \in Cameras \cup {None}
      /\ ~BadEnvelope(c) => c.camera \in Cameras /\ c.image # None
  BY ChunkFacts DEF IInv
<1>2. /\ FrameSound(Started(fr)) /\ Started(fr) \in Frame /\ Started(fr).started
      /\ Progress(fr, Started(fr)) /\ Started(fr).invalid = fr.invalid
  <2>1. Started(fr).started /\ Started(fr).invalid = fr.invalid
    BY <1>1 DEF Started, Frame
  <2>2. FrameSound(Started(fr)) /\ Ready(Started(fr)) = Ready(fr)
    BY <1>1, StartedSound
  <2>3. QED
    BY <2>1, <2>2 DEF Progress, FrameSound
<1>3. /\ FrameSound(Reject(Started(fr), c.camera))
      /\ Progress(fr, Reject(Started(fr), c.camera))
  <2>1. Progress(Started(fr), Reject(Started(fr), c.camera))
    BY <1>1, <1>2, RejectProgress
  <2>2. Started(fr).invalid \subseteq Reject(Started(fr), c.camera).invalid
    BY <1>1, <1>2, RejectKeepsInvalid
  <2>3. QED
    BY <1>1, <1>2, <2>1, <2>2, RejectSound, ProgressTransitive
<1>4. CASE IngestLate(c)
  <2>1. frames' = frames /\ Delivered(result') = {}
    BY <1>4 DEF IngestLate, NoResult, Delivered
  <2>2. QED
    BY <2>1 DEF Guarantee, NothingTwice, NothingLost, NothingSilent
<1>5. ASSUME NEW history \in HistoriesAfter(OlderThan(id)),
             \/ IngestSettled(c, history)
             \/ IngestInvalid(c, history)
             \/ IngestIgnored(c, history)
             \/ IngestDiscontinuous(c, history)
             \/ IngestPiece(c, history)
             \/ IngestDuplicateImage(c, history)
             \/ IngestImage(c, history)
      PROVE  Guarantee
  <2>1. ASSUME Accepts(c, history)
        PROVE  /\ c.camera \in Cameras /\ c.image # None /\ c.camera \notin fr.invalid
               /\ c.offset = Len(fr.pending[c.camera])
               /\ fr.pending[c.camera] # <<>> => fr.pending[c.camera][1].image = c.image
               /\ Advance(c)
    BY <1>1, <2>1 DEF Accepts, Discontinuous
  <2>2. ASSUME Accepts(c, history)
        PROVE  /\ Extended(fr, c) \in Frame /\ Progress(fr, Extended(fr, c))
               /\ Extended(fr, c).invalid = fr.invalid
    <3>1. /\ Extended(fr, c) \in Frame /\ Extended(fr, c).started
          /\ Ready(Extended(fr, c)) = Ready(fr) /\ Extended(fr, c).invalid = fr.invalid
      BY <1>1, <2>1, <2>2, ExtendedFacts
    <3>2. QED
      BY <3>1 DEF Progress
  <2>3. CASE IngestSettled(c, history)
    BY <1>1, <2>3, KeepGuarantee DEF IngestSettled, Progress
  <2>4. CASE IngestInvalid(c, history)
    BY <1>3, <2>4, KeepGuarantee DEF IngestInvalid
  <2>5. CASE IngestIgnored(c, history)
    BY <1>2, <2>5, KeepGuarantee DEF IngestIgnored
  <2>6. CASE IngestDiscontinuous(c, history)
    BY <1>3, <2>6, KeepGuarantee DEF IngestDiscontinuous
  <2>7. CASE IngestPiece(c, history)
    <3>1. /\ Accepts(c, history) /\ c.offset + 1 < ImageChunks
          /\ Keep(c, history, Extended(fr, c))
      BY <2>7 DEF IngestPiece
    <3>2. FrameSound(Extended(fr, c))
      BY <1>1, <2>1, <3>1, PieceSound
    <3>3. QED
      BY <2>1, <2>2, <3>1, <3>2, KeepGuarantee
  <2>8. CASE IngestDuplicateImage(c, history)
    <3> DEFINE new == Reject(Extended(fr, c), c.camera)
    <3>1. Accepts(c, history) /\ Keep(c, history, new)
      BY <2>8 DEF IngestDuplicateImage
    <3>2. FrameSound(new)
      BY <1>1, <2>1, <3>1, DuplicateSound
    <3>3. /\ Progress(Extended(fr, c), new) /\ Extended(fr, c).invalid \subseteq new.invalid
      BY <1>1, <2>2, <3>1, RejectProgress, RejectKeepsInvalid
    <3>4. Progress(fr, new)
      BY <2>2, <3>1, <3>3, ProgressTransitive
    <3>5. QED
      BY <2>1, <3>1, <3>2, <3>4, KeepGuarantee
  <2>9. CASE IngestImage(c, history)
    <3> DEFINE new == Finished(Extended(fr, c), c)
               older == OlderThan(id)
    <3>1. /\ Accepts(c, history) /\ c.offset + 1 = ImageChunks
          /\ \/ Keep(c, history, new)
             \/ /\ Completes(new)
                /\ Replace(older, id, Leftover(new))
                /\ result' = [Discarding(older) EXCEPT !.completed = CompletedSet(id, new)]
      BY <2>9 DEF IngestImage
    <3>2. /\ FrameSound(new) /\ new.started /\ new.metadata = fr.metadata
          /\ Ready(fr) \subseteq Ready(new)
      BY <1>1, <2>1, <3>1, ImageSound
    <3> HIDE DEF new
    <3>3. Progress(fr, new)
      BY <3>2 DEF Progress
    <3>4. CASE Keep(c, history, new)
      BY <2>1, <3>1, <3>2, <3>3, <3>4, KeepGuarantee
    <3>5. CASE ~Keep(c, history, new)
      <4>1. /\ Completes(new) /\ Replace(older, id, Leftover(new))
            /\ result' = [Discarding(older) EXCEPT !.completed = CompletedSet(id, new)]
        BY <3>1, <3>5
      <4>2. older \subseteq FrameIds /\ id \notin older
        BY <1>1, NotNewerThanItself
      <4>3. id \notin Range(settledOrder)
        BY <3>2, <4>1 DEF Completes, IInv, SettledFrameReleased
      <4>4. ~IsLate(id) /\ newestFrameId' = id /\ FrameSound(Leftover(new))
        BY <2>1, <3>1, <3>2, LeftoverSound DEF Advance
      <4>5. \A f \in FrameIds \ older : f # id => frames'[f] = frames[f]
        BY <1>1, <4>1, <4>4, ReplacedFrames
      <4>6. QED
        BY <1>1, <3>2, <3>3, <4>1, <4>2, <4>3, <4>5, CompletingGuarantee
    <3>6. QED
      BY <3>4, <3>5
  <2>10. QED
    BY <1>5, <2>3, <2>4, <2>5, <2>6, <2>7, <2>8, <2>9
<1>6. QED
  BY <1>4, <1>5 DEF Ingest

LEMMA MetadataGuarantee ==
  ASSUME IInv, NEW f \in FrameIds, NEW m \in Metas, AddMetadata(f, m)
  PROVE  Guarantee
<1> DEFINE old == frames[f]
           fr == [Started(old) EXCEPT !.metadata = m]
<1>1. /\ frames \in [FrameIds -> Frame] /\ \A g \in FrameIds : FrameSound(frames[g])
  BY DEF IInv
<1>2. FrameSound(fr) /\ Ready(fr) = Ready(old) /\ fr.started
  <2>1. old \in Frame /\ FrameSound(old) /\ FrameSound(Started(old))
    BY <1>1, StartedSound
  <2>2. /\ fr \in Frame /\ fr.started /\ fr.ready = old.ready /\ fr.pending = old.pending
        /\ fr.invalid = old.invalid
    BY <2>1 DEF Started, Frame
  <2> HIDE DEF fr, old
  <2>3. Ready(fr) = Ready(old)
    BY <2>2 DEF Ready
  <2>4. QED
    BY <2>1, <2>2, <2>3 DEF FrameSound
<1>3. FrameSound(Leftover(fr))
  BY <1>2, LeftoverSound
<1> HIDE DEF fr
<1>4. ASSUME NEW new, FrameSound(new), frames' = Capped([frames EXCEPT ![f] = new])
      PROVE  /\ Ready(frames'[f]) = Ready(new) /\ frames'[f].started = new.started
             /\ \A g \in FrameIds \ {f} : /\ Ready(frames'[g]) = Ready(frames[g])
                                          /\ frames'[g].started = frames[g].started
  <2> DEFINE fs == [frames EXCEPT ![f] = new]
  <2>1. /\ fs \in [FrameIds -> Frame] /\ \A g \in FrameIds : FrameSound(fs[g])
        /\ \A g \in FrameIds : fs[g] = IF g = f THEN new ELSE frames[g]
    BY <1>1, <1>4 DEF FrameSound
  <2> HIDE DEF fs
  <2>2. \A g \in FrameIds : /\ Ready(Capped(fs)[g]) = Ready(fs[g])
                            /\ Capped(fs)[g].started = fs[g].started
    BY <2>1, CappedSound
  <2>3. frames' = Capped(fs)
    BY <1>4 DEF fs
  <2>4. QED
    BY <2>1, <2>2, <2>3
<1>5. Delivered(NoResult) = {}
  BY DEF NoResult, Delivered
<1>6. CASE MetadataRefused(f, m)
  BY <1>5, <1>6 DEF MetadataRefused, Guarantee, NothingTwice, NothingLost, NothingSilent
<1>7. CASE MetadataKept(f, m)
  <2>1. frames' = Capped([frames EXCEPT ![f] = fr]) /\ result' = NoResult
    BY <1>7 DEF MetadataKept, fr
  <2>2. \A g \in FrameIds : /\ Ready(frames'[g]) = Ready(frames[g])
                            /\ frames[g].started => frames'[g].started
    BY <1>2, <1>4, <2>1
  <2>3. QED
    BY <1>5, <2>1, <2>2 DEF Guarantee, NothingTwice, NothingLost, NothingSilent
<1>8. CASE MetadataCompletes(f, m)
  <2>1. /\ f \notin Range(settledOrder) /\ Completes(fr)
        /\ frames' = Capped([frames EXCEPT ![f] = Leftover(fr)])
        /\ result' = [NoResult EXCEPT !.completed = CompletedSet(f, fr)]
    BY <1>8 DEF MetadataCompletes, RefusesMetadata, fr
  <2>2. NoResult = Discarding({})
    BY DEF NoResult, Discarding, Settles, Partials
  <2>3. Progress(frames[f], fr)
    BY <1>2 DEF Progress
  <2>4. \A g \in FrameIds \ ({} \cup {f}) : /\ Ready(frames'[g]) = Ready(frames[g])
                                            /\ frames'[g].started = frames[g].started
    BY <1>3, <1>4, <2>1
  <2>5. {} \in SUBSET FrameIds /\ f \in FrameIds \ {}
    OBVIOUS
  <2>6. QED
    BY <1>2, <2>1, <2>2, <2>3, <2>4, <2>5, CompletingGuarantee
<1>9. QED
  BY <1>6, <1>7, <1>8 DEF AddMetadata

LEMMA ExpireGuarantee ==
  ASSUME IInv, Expire
  PROVE  Guarantee
<1>1. /\ frames' = [f \in FrameIds |-> IF f \in Overdue THEN NoFrame ELSE frames[f]]
      /\ result' = Discarding(Overdue) /\ Overdue \subseteq FrameIds
  BY DEF Expire, Overdue
<1>2. Delivered(result') = Partials(Overdue) /\ Reported(result') = Settles(Overdue)
  BY <1>1, DiscardingReport
<1>3. \A f \in FrameIds \ Overdue : frames'[f] = frames[f]
  BY <1>1
<1>4. NothingTwice
  BY <1>1, <1>2, RetiredReport DEF NothingTwice
<1>5. NothingLost
  <2> SUFFICES ASSUME NEW f \in Overdue, NEW k \in Cameras, k \in Ready(frames[f])
               PROVE  \E set \in Delivered(result') : set.frame = f /\ k \in set.mask
    BY <1>1, <1>3 DEF NothingLost
  <2>1. QED
    BY <1>1, <1>2, RetiredReport
<1>6. NothingSilent
  BY <1>1, <1>2, <1>3, RetiredReport DEF NothingSilent
<1>7. QED
  BY <1>4, <1>5, <1>6 DEF Guarantee

LEMMA ClockGuarantee ==
  ASSUME IInv, SecondPasses
  PROVE  Guarantee
<1>1. ASSUME NEW f \in FrameIds
      PROVE  Ready(frames'[f]) = Ready(frames[f]) /\ frames'[f].started = frames[f].started
  <2>1. frames[f] \in Frame
    BY DEF IInv
  <2>2. frames'[f] = [frames[f] EXCEPT !.overdue = frames[f].started]
    BY DEF SecondPasses
  <2>3. frames'[f].ready = frames[f].ready /\ frames'[f].started = frames[f].started
    BY <2>1, <2>2 DEF Frame
  <2>4. QED
    BY <2>3 DEF Ready
<1>2. Delivered(result') = {}
  BY DEF SecondPasses, NoResult, Delivered
<1>3. QED
  BY <1>1, <1>2 DEF Guarantee, NothingTwice, NothingLost, NothingSilent

LEMMA NextGuarantee ==
  ASSUME IInv, Next
  PROVE  Guarantee \/ (Reset /\ NothingTwice)
<1>1. CASE \E c \in Chunk : Ingest(c)
  BY <1>1, IngestGuarantee
<1>2. CASE \E f \in FrameIds, m \in Metas : AddMetadata(f, m)
  BY <1>2, MetadataGuarantee
<1>3. CASE Expire
  BY <1>3, ExpireGuarantee
<1>4. CASE Reset
  BY <1>4 DEF Reset, NothingTwice, NoResult, Delivered
<1>5. CASE SecondPasses
  BY <1>5, ClockGuarantee
<1>6. QED
  BY <1>1, <1>2, <1>3, <1>4, <1>5 DEF Next

-----------------------------------------------------------------------------
(* The theorems *)

(* No call delivers an image of a frame the settled history names.             *)
THEOREM NeverTwice == Spec => DeliveredOnce
<1>1. IInv /\ [Next]_vars => [NothingTwice]_vars
  BY NextGuarantee DEF Guarantee
<1>2. QED
  BY <1>1, Invariant, PTL DEF Spec, DeliveredOnce, NothingTwice

(* A complete image is only lost to damage in its own slot, or to reset().     *)
THEOREM NeverLost == Spec => ImagesSurvive
<1>1. IInv /\ [Next]_vars => [Reset \/ NothingLost]_vars
  BY NextGuarantee DEF Guarantee
<1>2. QED
  BY <1>1, Invariant, PTL DEF Spec, ImagesSurvive, NothingLost

(* A timer that stops outside reset() is reported by the call that stops it.   *)
THEOREM NeverSilent == Spec => NoSilentLoss
<1>1. IInv /\ [Next]_vars => [Reset \/ NothingSilent]_vars
  BY NextGuarantee DEF Guarantee
<1>2. QED
  BY <1>1, Invariant, PTL DEF Spec, NoSilentLoss, NothingSilent

-----------------------------------------------------------------------------
(* The diagnostics *)

(* Retiring frames leaves the diagnostic of the last entry of the history. *)
LEMMA RetiredDiagnosed ==
  ASSUME IInv, DiagnosticIsLatest, NEW S \in SUBSET FrameIds, settledOrder' \in HistoriesAfter(S),
         lastDiscarded' = LastOf(S)
  PROVE  DiagnosticIsLatest'
<1>1. PICK ids \in Ascending(Settles(S)) : settledOrder' = Recent(settledOrder \o ids)
  BY DEF HistoriesAfter
<1>2. settledOrder \in Seq(FrameIds) /\ Len(settledOrder) \in Nat /\ Len(settledOrder) <= HistorySize
  BY DEF IInv, HistoryType, HistorySound
<1>3. CASE Settles(S) = {}
  <2>1. Cardinality(Settles(S)) = 0
    BY <1>3, FS_EmptySet
  <2>2. ids = <<>>
    BY <2>1 DEF Ascending
  <2>3. settledOrder \o ids = settledOrder
    BY <1>2, <2>2
  <2>4. settledOrder' = settledOrder
    BY <1>1, <1>2, <2>3, LimitsAssumption DEF Recent
  <2>5. lastDiscarded' = lastDiscarded
    BY <1>3 DEF LastOf
  <2>6. QED
    BY <2>4, <2>5 DEF DiagnosticIsLatest
<1>4. CASE Settles(S) # {}
  <2> DEFINE s == settledOrder \o ids
             d == IF Len(s) > HistorySize THEN Len(s) - HistorySize ELSE 0
  <2>1. ids \in Seq(FrameIds) /\ Len(ids) \in Nat \ {0} /\ LastOf(S) = ids[Len(ids)]
    BY <1>4, GreatestSettled
  <2>2. s \in Seq(FrameIds) /\ Len(s) = Len(settledOrder) + Len(ids) /\ s[Len(s)] = ids[Len(ids)]
    BY <1>2, <2>1
  <2>3. PICK x : x = s
    OBVIOUS
  <2>4. PICK y : y = settledOrder'
    OBVIOUS
  <2>5. x \in Seq(FrameIds) /\ x[Len(x)] = ids[Len(ids)] /\ Len(x) \in Nat \ {0} /\ y = Recent(x)
    BY <1>1, <1>2, <2>1, <2>2, <2>3, <2>4
  <2> HIDE DEF s, d
  <2>6. PICK e : e = IF Len(x) > HistorySize THEN Len(x) - HistorySize ELSE 0
    OBVIOUS
  <2>7. /\ y \in Seq(FrameIds) /\ Len(y) = Len(x) - e
        /\ \A k \in 1 .. Len(y) : y[k] = x[k + e]
    BY <2>5, <2>6, RecentFacts
  <2>8. HistorySize \in Nat \ {0} /\ e \in Nat /\ e < Len(x)
    BY <2>5, <2>6, LimitsAssumption
  <2>9. Len(y) \in 1 .. Len(y) /\ Len(y) + e = Len(x)
    BY <2>5, <2>7, <2>8
  <2>10. y[Len(y)] = ids[Len(ids)] /\ y # <<>>
    BY <2>5, <2>7, <2>9
  <2>11. QED
    BY <2>1, <2>4, <2>10 DEF DiagnosticIsLatest
<1>5. QED
  BY <1>3, <1>4

LEMMA IngestDiagnosed ==
  ASSUME IInv, DiagnosticIsLatest, NEW c \in Chunk, Ingest(c)
  PROVE  DiagnosticIsLatest'
<1>1. OlderThan(c.frame) \in SUBSET FrameIds
  BY ChunkFacts, NotNewerThanItself
<1>2. CASE IngestLate(c)
  BY <1>2 DEF IngestLate, DiagnosticIsLatest
<1>3. ASSUME NEW history \in HistoriesAfter(OlderThan(c.frame)), NEW fr, Keep(c, history, fr)
      PROVE  DiagnosticIsLatest'
  BY <1>1, <1>3, RetiredDiagnosed DEF Keep
<1>4. ASSUME lastDiscarded' = None PROVE DiagnosticIsLatest'
  BY <1>4 DEF DiagnosticIsLatest
<1>5. ASSUME NEW history \in HistoriesAfter(OlderThan(c.frame)), IngestImage(c, history)
      PROVE  (\E fr : Keep(c, history, fr)) \/ lastDiscarded' = None
  BY <1>5 DEF IngestImage
<1>6. QED
  BY <1>2, <1>3, <1>4, <1>5 DEF Ingest, IngestSettled, IngestInvalid, IngestIgnored,
                                IngestDiscontinuous, IngestPiece, IngestDuplicateImage

(* The diagnostic kept is that of the frame settled last, whatever is settled together *)
(* with it: numerical order decides within a call, and nothing older is kept.            *)
THEOREM DiagnosticCurrent == Spec => []DiagnosticIsLatest
<1>1. Init => DiagnosticIsLatest
  BY DEF Init, DiagnosticIsLatest
<1>2. IInv /\ DiagnosticIsLatest /\ [Next]_vars => DiagnosticIsLatest'
  <2> SUFFICES ASSUME IInv, DiagnosticIsLatest, [Next]_vars PROVE DiagnosticIsLatest'
    OBVIOUS
  <2>1. CASE \E c \in Chunk : Ingest(c)
    BY <2>1, IngestDiagnosed
  <2>2. ASSUME NEW f \in FrameIds, NEW m \in Metas, AddMetadata(f, m)
        PROVE  DiagnosticIsLatest'
    BY <2>2 DEF AddMetadata, MetadataRefused, MetadataKept, MetadataCompletes, DiagnosticIsLatest
  <2>3. CASE Expire
    <3>1. Overdue \in SUBSET FrameIds
      BY DEF Overdue
    <3>2. settledOrder' \in HistoriesAfter(Overdue) /\ lastDiscarded' = LastOf(Overdue)
      BY <2>3 DEF Expire
    <3>3. QED
      BY <3>1, <3>2, RetiredDiagnosed
  <2>4. CASE Reset \/ SecondPasses \/ UNCHANGED vars
    BY <2>4 DEF Reset, SecondPasses, vars, DiagnosticIsLatest
  <2>5. QED
    BY <2>1, <2>2, <2>3, <2>4 DEF Next
<1>3. QED
  BY <1>1, <1>2, Invariant, PTL DEF Spec

(* Every nonempty set of numbers has a least one. *)
LEMMA LeastNumber ==
  ASSUME NEW T \in SUBSET Nat, T # {}
  PROVE  \E n \in T : \A m \in T : n <= m
<1>1. PICK n \in T : \A m \in T : <<m, n>> \notin OpToRel(<, Nat)
  BY NatLessThanWellFounded, WFMin
<1>2. \A m \in T : ~(m < n)
  BY <1>1 DEF OpToRel
<1>3. QED
  BY <1>2

(* How far an id is ahead of the newest one. *)
Ahead(f) == (f - newestFrameId) % IdModulus

LEMMA AheadFacts ==
  ASSUME newestFrameId \in FrameIds, NEW f \in FrameIds
  PROVE  /\ Ahead(f) \in 0 .. (IdModulus - 1)
         /\ Ahead(f) = IF newestFrameId <= f THEN f - newestFrameId
                                             ELSE f - newestFrameId + IdModulus
<1>1. /\ f \in 0 .. (IdModulus - 1) /\ newestFrameId \in 0 .. (IdModulus - 1)
      /\ IdModulus \in Nat \ {0}
  BY IdAssumption DEF FrameIds
<1>2. CASE newestFrameId <= f
  BY <1>1, <1>2 DEF Ahead
<1>3. CASE ~(newestFrameId <= f)
  BY <1>1, <1>3 DEF Ahead
<1>4. QED
  BY <1>2, <1>3

(* Among the ids less than half a turn ahead of the newest, the one further ahead *)
(* is the newer one.                                                               *)
LEMMA FurtherIsNewer ==
  ASSUME newestFrameId \in FrameIds, NEW f \in FrameIds, NEW g \in FrameIds,
         2 * Ahead(f) < IdModulus, Ahead(g) < Ahead(f)
  PROVE  FrameIdIsNewer(f, g)
<1>1. /\ f \in 0 .. (IdModulus - 1) /\ g \in 0 .. (IdModulus - 1)
      /\ newestFrameId \in 0 .. (IdModulus - 1) /\ IdModulus \in Nat \ {0}
      /\ Ahead(f) \in 0 .. (IdModulus - 1) /\ Ahead(g) \in 0 .. (IdModulus - 1)
  BY IdAssumption, AheadFacts DEF FrameIds
<1>2. f - g \in {Ahead(f) - Ahead(g), Ahead(f) - Ahead(g) - IdModulus,
                 Ahead(f) - Ahead(g) + IdModulus}
  BY <1>1, AheadFacts
<1>3. (f - g) % IdModulus = IF g <= f THEN f - g ELSE f - g + IdModulus
  <2>1. CASE g <= f
    BY <1>1, <2>1
  <2>2. CASE ~(g <= f)
    BY <1>1, <2>2
  <2>3. QED
    BY <2>1, <2>2
<1>4. (f - g) % IdModulus = Ahead(f) - Ahead(g)
  BY <1>1, <1>2, <1>3
<1>5. QED
  BY <1>1, <1>4 DEF FrameIdIsNewer

(* For every modulus, the frame pendingDiagnostic reports does not depend on the  *)
(* order of the scan: all it chooses from is less than half a turn ahead.           *)
THEOREM DiagnosticUnambiguous == Spec => []PendingDiagnosticUnambiguous
<1>1. IInv => PendingDiagnosticUnambiguous
  <2> SUFFICES ASSUME IInv, newestFrameId # None, PendingCandidates # {}
               PROVE  \E f \in PendingCandidates :
                        \A g \in PendingCandidates \ {f} : FrameIdIsNewer(f, g)
    BY DEF PendingDiagnosticUnambiguous
  <2>1. newestFrameId \in FrameIds /\ PendingCandidates \subseteq FrameIds
    BY DEF IInv, NewestType, PendingCandidates
  <2>2. \A f \in PendingCandidates : Ahead(f) \in 0 .. (IdModulus - 1) /\ 2 * Ahead(f) < IdModulus
    <3> TAKE f \in PendingCandidates
    <3>1. Ahead(f) \in 0 .. (IdModulus - 1)
      BY <2>1, AheadFacts
    <3>2. CASE f = newestFrameId
      <4>1. Ahead(f) = 0 /\ IdModulus > 3
        BY <2>1, <3>2, AheadFacts, FrameIdFacts, IdAssumption
      <4>2. QED
        BY <3>1, <4>1, IdAssumption
    <3>3. CASE f # newestFrameId
      BY <2>1, <3>1, <3>3 DEF PendingCandidates, FrameIdIsNewer, Ahead
    <3>4. QED
      BY <3>2, <3>3
  <2> DEFINE behind(f) == IdModulus - Ahead(f)
             T == {behind(f) : f \in PendingCandidates}
  <2>3. T \in SUBSET Nat /\ T # {}
    BY <2>2, IdAssumption
  <2>4. PICK n \in T : \A m \in T : n <= m
    BY <2>3, LeastNumber
  <2>5. PICK f \in PendingCandidates : n = behind(f)
    BY <2>4
  <2>6. \A g \in PendingCandidates : Ahead(g) <= Ahead(f)
    <3> TAKE g \in PendingCandidates
    <3>1. behind(f) <= behind(g)
      BY <2>4, <2>5
    <3>2. QED
      BY <2>2, <3>1, IdAssumption
  <2>7. ASSUME NEW g \in PendingCandidates, g # f PROVE FrameIdIsNewer(f, g)
    <3>1. Ahead(g) # Ahead(f)
      <4>1. /\ f \in 0 .. (IdModulus - 1) /\ g \in 0 .. (IdModulus - 1)
            /\ newestFrameId \in 0 .. (IdModulus - 1) /\ IdModulus \in Nat
        BY <2>1, IdAssumption DEF FrameIds
      <4>2. QED
        BY <2>1, <2>7, <4>1, AheadFacts
    <3>2. Ahead(g) < Ahead(f)
      BY <2>2, <2>6, <3>1
    <3>3. QED
      BY <2>1, <2>2, <3>2, FurtherIsNewer
  <2>8. QED
    BY <2>7
<1>2. QED
  BY <1>1, Invariant, PTL
=============================================================================
